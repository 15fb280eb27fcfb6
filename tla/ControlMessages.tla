-------------------------- MODULE ControlMessages --------------------------
(***************************************************************************)
(* The lines and messages of the control connection, as far as its two    *)
(* ends tell them apart: what a message is, the connection it is about    *)
(* and a number (of the line it answers, or of the event).                *)
(* docs/PROTOCOL.md; src/proto/events.c, src/proto/server.c.              *)
(***************************************************************************)
EXTENDS Integers

CONSTANTS Conn,        \* the connections clients may open, each once
          NoConn       \* a null pjsocky_framing_t pointer, no socket

ASSUME ConnAssumption == NoConn \notin Conn

\* A line is a request, something else, or longer than the daemon reads.
LineKind == {"req", "junk", "long"}

Message(kind, c, n) == [kind |-> kind, conn |-> c, num |-> n]
Hello(c) == Message("hello", c, 0)
Refusal(c) == Message("refused", c, 0)
Event(n) == Message("event", NoConn, n)
Response(c, n) == Message("response", c, n)
ErrorEvent(c, n, kind) ==
    Message(IF kind = "long" THEN "toolong" ELSE "badline", c, n)
NoMsg == Message("none", NoConn, 0)

MsgKind == {"none", "hello", "refused", "event", "response", "badline", "toolong"}
Msg == [kind : MsgKind, conn : Conn \cup {NoConn}, num : Nat]
=============================================================================
