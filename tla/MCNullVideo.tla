---------------------------- MODULE MCNullVideo ----------------------------
(* A window and a preview, and three formats.                                *)
EXTENDS NullVideo
=============================================================================
