---------------------------- MODULE ControlLink ----------------------------
(***************************************************************************)
(* What the control connection promises its clients, without threads,     *)
(* lock, socket buffers and deadlines.  One client at a time is served;   *)
(* whoever comes meanwhile is told so and sent away.  A client that is    *)
(* served is greeted at most once, before any reply; its lines are        *)
(* replied to in their order, each once, and none before the responses to *)
(* all the earlier requests are complete; nothing is replied after a line *)
(* that was too long.  An event reaches one client at most, once.  Any    *)
(* message may be cut short, and any connection may end.                  *)
(* Contract: docs/PROTOCOL.md "Transport", "Framing", "Response".         *)
(***************************************************************************)
EXTENDS ControlMessages, Sequences

CONSTANT MaxEvents   \* bound: pjsua events in one run

VARIABLES asked,   \* the lines each client has sent
          phase,   \* of each connection: "new", "served", "refused", "closed"
          begun,   \* the messages of which each client was sent something
          whole,   \* those it was sent to their end
          last     \* the one it was sent last

lvars == <<asked, phase, begun, whole, last>>

LInit ==
    /\ asked = [c \in Conn |-> <<>>]
    /\ phase = [c \in Conn |-> "new"]
    /\ begun = [c \in Conn |-> {}]
    /\ whole = [c \in Conn |-> {}]
    /\ last = [c \in Conn |-> NoMsg]

Ask(c) ==
    /\ phase[c] # "closed"
    /\ \E kind \in LineKind : asked' = [asked EXCEPT ![c] = Append(@, kind)]
    /\ UNCHANGED <<phase, begun, whole, last>>

Become(c, p) ==
    /\ phase' = [phase EXCEPT ![c] = p]
    /\ UNCHANGED <<asked, begun, whole, last>>

Serve(c) ==
    phase[c] = "new" /\ (\A d \in Conn : phase[d] # "served") /\ Become(c, "served")

TurnAway(c) ==
    phase[c] = "new" /\ (\E d \in Conn : phase[d] = "served") /\ Become(c, "refused")

Close(c) == phase[c] # "closed" /\ Become(c, "closed")

\* Message m begins to arrive, or arrives as a whole.
Say(c, m) ==
    /\ begun' = [begun EXCEPT ![c] = @ \cup {m}]
    /\ last' = [last EXCEPT ![c] = m]
    /\ whole' = whole \/ whole' = [whole EXCEPT ![c] = @ \cup {m}]
    /\ UNCHANGED <<asked, phase>>

TellRefusal(c) == phase[c] = "refused" /\ begun[c] = {} /\ Say(c, Refusal(c))

Greet(c) ==
    /\ phase[c] = "served"
    /\ \A m \in begun[c] : m.kind = "event"
    /\ Say(c, Hello(c))

Push(c) ==
    /\ phase[c] = "served"
    /\ \E n \in 1..MaxEvents :
          (\A d \in Conn : Event(n) \notin begun[d]) /\ Say(c, Event(n))

ReplyTo(c, n) ==
    IF asked[c][n] = "req" THEN Response(c, n) ELSE ErrorEvent(c, n, asked[c][n])

Reply(c) ==
    /\ phase[c] = "served"
    /\ \E n \in 1..Len(asked[c]) :
          /\ \A m \in begun[c] :
                /\ m.kind # "toolong"
                /\ m.kind \in {"response", "badline"} => m.num < n
          /\ \A k \in 1..(n - 1) : asked[c][k] = "req" => Response(c, k) \in whole[c]
          /\ Say(c, ReplyTo(c, n))

\* The message sent last arrives to its end: no other has come in between.
Complete(c) ==
    /\ phase[c] \in {"served", "refused"}
    /\ last[c] \in begun[c] \ whole[c]
    /\ whole' = [whole EXCEPT ![c] = @ \cup {last[c]}]
    /\ UNCHANGED <<asked, phase, begun, last>>

LNext ==
    \E c \in Conn :
        \/ Ask(c) \/ Serve(c) \/ TurnAway(c) \/ Close(c)
        \/ TellRefusal(c) \/ Greet(c) \/ Push(c) \/ Reply(c) \/ Complete(c)

LSpec == LInit /\ [][LNext]_lvars
=============================================================================
