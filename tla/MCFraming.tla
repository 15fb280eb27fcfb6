----------------------------- MODULE MCFraming -----------------------------
(***************************************************************************)
(* TLC instance of Framing: a buffer of three bytes and clients that send *)
(* up to five, so that a line can span several fills, several lines can   *)
(* share one, and a line can be too long after others were not.           *)
(***************************************************************************)
EXTENDS Framing
=============================================================================
