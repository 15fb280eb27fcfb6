------------------------------- MODULE MCCall -------------------------------
(* Small instances of Call: one call slot, or two. *)
EXTENDS Call, TLC

CONSTANTS call0, call1
OneCall == {call0}
TwoCalls == {call0, call1}

\* The slots are interchangeable.
Slots == Permutations(TwoCalls)
=============================================================================
