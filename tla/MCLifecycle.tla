---------------------------- MODULE MCLifecycle ----------------------------
(* Two instances of the daemon, each started any number of times, one after *)
(* the other or side by side.                                               *)
EXTENDS Lifecycle

CONSTANTS d1, d2
MCInst == {d1, d2}
=============================================================================
