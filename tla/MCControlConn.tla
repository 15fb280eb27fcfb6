--------------------------- MODULE MCControlConn ---------------------------
(***************************************************************************)
(* TLC instances of ControlConn: messages of two units (body, newline)    *)
(* and a socket buffer of three, so that a message can be cut after its   *)
(* body and a write can meet a buffer that is already full.               *)
(***************************************************************************)
EXTENDS ControlConn

CONSTANTS c1, c2,      \* the two connections
          Lines1,      \* lines sent on c1
          Lines2       \* lines sent on c2, which mainly competes with c1

MCMaxLines == [c \in Conn |-> IF c = c1 THEN Lines1 ELSE Lines2]
=============================================================================
