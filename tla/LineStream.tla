----------------------------- MODULE LineStream -----------------------------
(***************************************************************************)
(* What the read side of the control connection promises, without any     *)
(* buffer: the bytes one client has sent are cut at every newline, and    *)
(* each piece shorter than MaxLine is handed over exactly once, in order, *)
(* unchanged and never with a byte of an earlier connection in it.  The   *)
(* connection may end at any time; a piece that has reached MaxLine bytes *)
(* without a newline is never handed over.                                *)
(* Contract: src/proto/framing.h, docs/PROTOCOL.md "Framing".             *)
(***************************************************************************)
EXTENDS Integers, Sequences

CONSTANTS Byte,     \* what a byte on the wire can be
          NL,       \* the newline byte
          MaxLine   \* PJSOCKY_MAX_LINE

VARIABLES stream,   \* every byte the current client has sent so far
          taken,    \* how many of them belong to lines already handed over
          text,     \* the line being handled, or NoText between two lines
          open      \* is there a control connection?

avars == <<stream, taken, text, open>>

NoText == <<>>

\* The line after position p is n bytes long and has been sent completely.
IsNextLine(s, p, n) ==
    /\ p + n + 1 \in DOMAIN s
    /\ s[p + n + 1] = NL
    /\ \A i \in 1..n : s[p + i] # NL

Piece(s, p, n) == [i \in 1..n |-> s[p + i]]

AInit ==
    /\ stream = <<>>
    /\ taken = 0
    /\ text = NoText
    /\ open = FALSE

AOpen ==
    /\ ~open
    /\ stream' = <<>>
    /\ taken' = 0
    /\ text' = NoText
    /\ open' = TRUE

ASend ==
    /\ open
    /\ \E b \in Byte : stream' = Append(stream, b)
    /\ UNCHANGED <<taken, text, open>>

ADeliver ==
    /\ open
    /\ \E n \in 0..(MaxLine - 1) :
        /\ IsNextLine(stream, taken, n)
        /\ text' = Piece(stream, taken, n)
        /\ taken' = taken + n + 1
    /\ UNCHANGED <<stream, open>>

AHandled ==
    /\ open
    /\ text' = NoText
    /\ UNCHANGED <<stream, taken, open>>

AClose ==
    /\ open
    /\ text' = NoText
    /\ open' = FALSE
    /\ UNCHANGED <<stream, taken>>

ANext == AOpen \/ ASend \/ ADeliver \/ AHandled \/ AClose

ASpec == AInit /\ [][ANext]_avars
=============================================================================
