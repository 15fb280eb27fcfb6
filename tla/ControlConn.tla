---------------------------- MODULE ControlConn ----------------------------
(***************************************************************************)
(* The control connection: the select() loop of src/proto/server.c on the *)
(* main thread, pjsua's worker thread that pushes events through          *)
(* src/proto/events.c, the lock and the connection pointer they share,    *)
(* and the bounded, non-blocking writes of src/proto/framing.c.           *)
(*                                                                        *)
(* A connection is named by its socket.  A message occupies Units units   *)
(* of the socket buffer, the last of which is its newline; send() may     *)
(* take any number of them, and a write that meets a full buffer ends     *)
(* when the client reads on or when the deadline has passed.  Requests    *)
(* are lines; how lines are cut from bytes is the module Framing.         *)
(***************************************************************************)
EXTENDS ControlMessages, Integers, Sequences

CONSTANTS Units,       \* units of one written message (body and newline)
          Cap,         \* units a socket buffer holds
          MaxLines,    \* bound: lines sent on each connection
          MaxEvents,   \* bound: pjsua events in one run
          SelectErrors \* can select() fail otherwise than with EINTR?

ASSUME UnitsAssumption == Units \in Nat /\ Units > 1
ASSUME CapAssumption == Cap \in Nat \ {0}
ASSUME BoundsAssumption == MaxLines \in [Conn -> Nat] /\ MaxEvents \in Nat
ASSUME SelectAssumption == SelectErrors \in BOOLEAN

VARIABLES
    up,       \* client side of each connection: "no", "up", "gone"
    sent,     \* lines each client has sent: "req", "junk" or "long"
    out,      \* history: every unit the daemon put on each socket
    rd,       \* how many of those units the client has read
    backlog,  \* connections waiting in the listen queue
    fd,       \* the daemon's descriptor: "none", "open", "closed"
    framing,  \* events->framing: the connection events go to, or NoConn
    lock,     \* holder of events->lock, or "none"
    pc,       \* per thread: where it is
    msg,      \* per thread: the message being written
    to,       \* per thread: the socket it is written to
    left,     \* per thread: units of it not yet sent
    cur,      \* conn.sock of pjsocky_server_run(), or NoConn
    active,   \* conn.active
    lready,   \* FD_ISSET(listen_sock) as the last select() left it
    filled,   \* lines of cur received into the framing buffer
    taken,    \* lines of cur extracted from it
    ending,   \* pjsocky_server_run() is on its way out
    stop,     \* srv->stop_requested
    nev       \* pjsua events so far

clientVars == <<up, sent, rd>>
eventVars == <<framing, lock>>
writeVars == <<msg, to, left>>
loopVars == <<cur, active, lready, filled, taken, ending>>
vars == <<clientVars, out, backlog, fd, eventVars, pc, writeVars, loopVars,
          stop, nev>>

Thread == {"main", "worker"}
MainPC == {"loop", "input", "extract", "dispatch", "accept", "hello", "opened",
           "refused", "closing", "closesock", "done"}
WritePC == {"lock", "send"}

Init ==
    /\ up = [c \in Conn |-> "no"]
    /\ sent = [c \in Conn |-> <<>>]
    /\ out = [c \in Conn |-> <<>>]
    /\ rd = [c \in Conn |-> 0]
    /\ backlog = <<>>
    /\ fd = [c \in Conn |-> "none"]
    /\ framing = NoConn /\ lock = "none"
    /\ pc = [t \in Thread |-> IF t = "main" THEN "loop" ELSE "idle"]
    /\ msg = [t \in Thread |-> NoMsg]
    /\ to = [t \in Thread |-> NoConn]
    /\ left = [t \in Thread |-> 0]
    /\ cur = NoConn /\ active = FALSE /\ lready = FALSE
    /\ filled = 0 /\ taken = 0 /\ ending = FALSE
    /\ stop = FALSE /\ nev = 0

Goto(t, label) == pc' = [pc EXCEPT ![t] = label]

-----------------------------------------------------------------------------
(* Clients and signals.  What a client does once the daemon has closed its  *)
(* socket or left the loop concerns nobody any more.                        *)

Connected(c) == up[c] = "up" /\ fd[c] # "closed" /\ pc["main"] # "done"

Connect(c) ==
    /\ up[c] = "no" /\ pc["main"] # "done"
    /\ up' = [up EXCEPT ![c] = "up"]
    /\ backlog' = Append(backlog, c)
    /\ UNCHANGED <<sent, rd, out, fd, eventVars, pc, writeVars, loopVars, stop, nev>>

SendLine(c) ==
    /\ Connected(c) /\ Len(sent[c]) < MaxLines[c]
    /\ \E kind \in LineKind : sent' = [sent EXCEPT ![c] = Append(@, kind)]
    /\ UNCHANGED <<up, rd, out, backlog, fd, eventVars, pc, writeVars, loopVars,
                   stop, nev>>

\* A client that reads; one that never does is a stalled client.
Read(c) ==
    /\ Connected(c) /\ rd[c] < Len(out[c])
    /\ rd' = [rd EXCEPT ![c] = Len(out[c])]
    /\ UNCHANGED <<up, sent, out, backlog, fd, eventVars, pc, writeVars, loopVars,
                   stop, nev>>

Hangup(c) ==
    /\ Connected(c)
    /\ up' = [up EXCEPT ![c] = "gone"]
    /\ UNCHANGED <<sent, rd, out, backlog, fd, eventVars, pc, writeVars, loopVars,
                   stop, nev>>

\* on_shutdown_signal() -> pjsocky_server_stop(), on whichever thread.
Stop ==
    /\ ~stop /\ pc["main"] # "done"
    /\ stop' = TRUE
    /\ UNCHANGED <<clientVars, out, backlog, fd, eventVars, pc, writeVars,
                   loopVars, nev>>

-----------------------------------------------------------------------------
(* Writing a message, on either thread. *)

\* What the main thread does after a message of each kind.
AfterMessage ==
    [hello |-> "opened", refused |-> "refused", event |-> "dispatch",
     badline |-> "extract", toolong |-> "closing", response |-> "extract"]

\* Mutants of After: the status of a response is ignored; one request is
\* handled per wakeup; an event that could not be written is written again.
AfterIgnoreStatus(t, ok) ==
    IF t = "worker" THEN "idle" ELSE AfterMessage[msg[t].kind]

AfterOneLine(t, ok) ==
    IF t = "worker" THEN "idle"
    ELSE IF msg[t].kind = "response" THEN (IF ok THEN "loop" ELSE "closing")
    ELSE AfterMessage[msg[t].kind]

AfterRetry(t, ok) ==
    IF ~ok /\ msg[t].kind = "event" THEN "lock"
    ELSE IF t = "worker" THEN "idle"
    ELSE IF msg[t].kind = "response" /\ ~ok THEN "closing"
    ELSE AfterMessage[msg[t].kind]

\* Where thread t continues once its message is written or has failed.
\* Only handle_line() looks at the status, and only for a response.
After(t, ok) ==
    IF t = "worker" THEN "idle"
    ELSE IF msg[t].kind = "response" /\ ~ok THEN "closing"
    ELSE AfterMessage[msg[t].kind]

\* Thread t enters pjsocky_events_push() or _write_response() with m.
StartWrite(t, m) ==
    /\ msg' = [msg EXCEPT ![t] = m]
    /\ Goto(t, "lock")
    /\ UNCHANGED <<to, left>>

\* Mutant of Begin: the write does not wait for the other thread's.
BeginWithoutLock(t) ==
    /\ pc[t] = "lock"
    /\ IF framing = NoConn
       THEN Goto(t, After(t, TRUE)) /\ UNCHANGED <<lock, to, left>>
       ELSE /\ lock' = t
            /\ to' = [to EXCEPT ![t] = framing]
            /\ left' = [left EXCEPT ![t] = Units]
            /\ Goto(t, "send")
    /\ UNCHANGED <<clientVars, out, backlog, fd, framing, msg, loopVars, stop, nev>>

\* The lock is taken; without a connection there is nothing to write.
Begin(t) ==
    /\ pc[t] = "lock" /\ lock = "none"
    /\ IF framing = NoConn
       THEN Goto(t, After(t, TRUE)) /\ UNCHANGED <<lock, to, left>>
       ELSE /\ lock' = t
            /\ to' = [to EXCEPT ![t] = framing]
            /\ left' = [left EXCEPT ![t] = Units]
            /\ Goto(t, "send")
    /\ UNCHANGED <<clientVars, out, backlog, fd, framing, msg, loopVars, stop, nev>>

\* No memory for the event, or JSON that does not fit the scratch buffer:
\* nothing is written.
BeginFail(t) ==
    /\ pc[t] = "lock" /\ lock = "none" /\ framing # NoConn
    /\ Goto(t, After(t, FALSE))
    /\ UNCHANGED <<clientVars, out, backlog, fd, eventVars, writeVars, loopVars,
                   stop, nev>>

\* Thread t leaves the write and goes on; the lock, if it has it, is freed.
Finish(t, ok) ==
    /\ lock' = IF lock = t THEN "none" ELSE lock
    /\ Goto(t, After(t, ok))

Room(c) == Cap - (Len(out[c]) - rd[c])

\* The next k units of m, of which n were still to send.
Chunk(m, n, k) == [i \in 1..k |-> [msg |-> m, unit |-> Units - n + i]]

\* send() takes what fits of the rest; the last unit ends the write.
Send(t) ==
    /\ pc[t] = "send" /\ up[to[t]] = "up"
    /\ \E k \in 1..left[t] :
        /\ k <= Room(to[t])
        /\ out' = [out EXCEPT ![to[t]] = @ \o Chunk(msg[t], left[t], k)]
        /\ left' = [left EXCEPT ![t] = @ - k]
        /\ IF k = left[t] THEN Finish(t, TRUE) ELSE UNCHANGED <<lock, pc>>
    /\ UNCHANGED <<clientVars, backlog, fd, framing, msg, to, loopVars, stop, nev>>

\* Mutant of SendFail: a write waits for room without a deadline.
SendFailNoDeadline(t) ==
    /\ pc[t] = "send"
    /\ up[to[t]] = "gone"
    /\ Finish(t, FALSE)
    /\ left' = [left EXCEPT ![t] = 0]
    /\ UNCHANGED <<clientVars, out, backlog, fd, framing, msg, to, loopVars,
                   stop, nev>>

\* The peer is gone (EPIPE), or the buffer stayed full past the deadline
\* (PJ_ETIMEDOUT): what was already sent of the message stays sent.
SendFail(t) ==
    /\ pc[t] = "send"
    /\ up[to[t]] = "gone" \/ Room(to[t]) = 0
    /\ Finish(t, FALSE)
    /\ left' = [left EXCEPT ![t] = 0]
    /\ UNCHANGED <<clientVars, out, backlog, fd, framing, msg, to, loopVars,
                   stop, nev>>

-----------------------------------------------------------------------------
(* The worker thread: a pjsua callback or timer pushes an event and ignores *)
(* the result.                                                              *)

WorkerEvent ==
    /\ pc["worker"] = "idle" /\ nev < MaxEvents
    /\ nev' = nev + 1
    /\ StartWrite("worker", Event(nev + 1))
    /\ UNCHANGED <<clientVars, out, backlog, fd, eventVars, loopVars, stop>>

-----------------------------------------------------------------------------
(* The main thread: pjsocky_server_run(). *)

Readable(c) == filled < Len(sent[c]) \/ up[c] = "gone"

\* Mutant of Select: the listen socket is left out while a client is served.
SelectOneSocket ==
    /\ pc["main"] = "loop" /\ ~stop
    /\ lready' = (backlog # <<>> /\ ~active)
    /\ Goto("main", IF active /\ Readable(cur) THEN "input"
                    ELSE IF lready' THEN "accept" ELSE "loop")
    /\ UNCHANGED <<clientVars, out, backlog, fd, eventVars, writeVars, cur,
                   active, filled, taken, ending, stop, nev>>

\* select() returns: the connection first, then the listen socket; a
\* timeout or EINTR goes round again.
Select ==
    /\ pc["main"] = "loop" /\ ~stop
    /\ lready' = (backlog # <<>>)
    /\ Goto("main", IF active /\ Readable(cur) THEN "input"
                    ELSE IF lready' THEN "accept" ELSE "loop")
    /\ UNCHANGED <<clientVars, out, backlog, fd, eventVars, writeVars, cur,
                   active, filled, taken, ending, stop, nev>>

\* Mutant of Leave: the loop returns without closing the connection.
LeaveWithoutClose ==
    /\ ending' = TRUE
    /\ Goto("main", "done")
    /\ UNCHANGED <<clientVars, out, fd, eventVars, writeVars, cur, active,
                   lready, filled, taken, stop, nev>>

\* Leaving the loop closes the connection on the way.
Leave ==
    /\ ending' = TRUE
    /\ Goto("main", IF active THEN "closing" ELSE "done")
    /\ UNCHANGED <<clientVars, out, fd, eventVars, writeVars, cur, active,
                   lready, filled, taken, stop, nev>>

LoopExit == pc["main"] = "loop" /\ stop /\ Leave /\ UNCHANGED backlog

\* select() failed with something else than EINTR.
SelectFail ==
    SelectErrors /\ pc["main"] = "loop" /\ ~stop /\ Leave /\ UNCHANGED backlog

\* accept() failed, for instance because the process is out of descriptors.
AcceptFail == pc["main"] = "accept" /\ Leave /\ UNCHANGED backlog

\* handle_conn_input(): fill() returned data.
Fill ==
    /\ pc["main"] = "input"
    /\ \E n \in (filled + 1)..Len(sent[cur]) : filled' = n
    /\ Goto("main", "extract")
    /\ UNCHANGED <<clientVars, out, backlog, fd, eventVars, writeVars, cur,
                   active, lready, taken, ending, stop, nev>>

\* fill() returned PJ_EEOF, or a reset because the client left data unread.
FillEnd ==
    /\ pc["main"] = "input" /\ up[cur] = "gone"
    /\ Goto("main", "closing")
    /\ UNCHANGED <<clientVars, out, backlog, fd, eventVars, writeVars, loopVars,
                   stop, nev>>

AfterInput == IF lready THEN "accept" ELSE "loop"

\* extract_line() has no complete line left.
ExtractPending ==
    /\ pc["main"] = "extract" /\ taken = filled
    /\ Goto("main", AfterInput)
    /\ UNCHANGED <<clientVars, out, backlog, fd, eventVars, writeVars, loopVars,
                   stop, nev>>

\* The next line goes to the dispatcher, or an error event is pushed for it.
ExtractLine ==
    /\ pc["main"] = "extract" /\ taken < filled
    /\ taken' = taken + 1
    /\ LET kind == sent[cur][taken + 1]
       IN  IF kind = "req"
           THEN Goto("main", "dispatch") /\ UNCHANGED writeVars
           ELSE StartWrite("main", ErrorEvent(cur, taken + 1, kind))
    /\ UNCHANGED <<clientVars, out, backlog, fd, eventVars, cur, active, lready,
                   filled, ending, stop, nev>>

\* A command handler calls pjsua, which runs a callback on this thread
\* before it returns: the event precedes the command's own response.
DispatchCallback ==
    /\ pc["main"] = "dispatch" /\ nev < MaxEvents
    /\ nev' = nev + 1
    /\ StartWrite("main", Event(nev + 1))
    /\ UNCHANGED <<clientVars, out, backlog, fd, eventVars, loopVars, stop>>

\* The handler returns and its response is written.
Dispatch ==
    /\ pc["main"] = "dispatch"
    /\ StartWrite("main", Response(cur, taken))
    /\ UNCHANGED <<clientVars, out, backlog, fd, eventVars, loopVars, stop, nev>>

\* Mutants of Refuse: the refusal goes through the event channel; the old
\* client makes way for the newcomer.
RefuseAsEvent ==
    /\ pc["main"] = "accept" /\ active
    /\ fd' = [fd EXCEPT ![Head(backlog)] = "open"]
    /\ StartWrite("main", Refusal(Head(backlog)))
    /\ backlog' = Tail(backlog)
    /\ UNCHANGED <<clientVars, out, eventVars, loopVars, stop, nev>>

EvictInstead ==
    /\ pc["main"] = "accept" /\ active
    /\ Goto("main", "closing")
    /\ UNCHANGED <<clientVars, out, backlog, fd, eventVars, writeVars, loopVars,
                   stop, nev>>

\* accept() with a connection up: the newcomer is told so on its own
\* socket, without the lock, and closed.
Refuse ==
    /\ pc["main"] = "accept" /\ active
    /\ LET c == Head(backlog)
       IN  /\ fd' = [fd EXCEPT ![c] = "open"]
           /\ msg' = [msg EXCEPT !["main"] = Refusal(c)]
           /\ to' = [to EXCEPT !["main"] = c]
    /\ left' = [left EXCEPT !["main"] = Units]
    /\ backlog' = Tail(backlog)
    /\ Goto("main", "send")
    /\ UNCHANGED <<clientVars, out, eventVars, loopVars, stop, nev>>

RefuseClose ==
    /\ pc["main"] = "refused"
    /\ fd' = [fd EXCEPT ![to["main"]] = "closed"]
    /\ Goto("main", "loop")
    /\ UNCHANGED <<clientVars, out, backlog, eventVars, writeVars, loopVars,
                   stop, nev>>

\* open_conn() up to and including pjsocky_events_set_conn().
OpenConn ==
    /\ pc["main"] = "accept" /\ ~active /\ lock = "none"
    /\ LET c == Head(backlog)
       IN  fd' = [fd EXCEPT ![c] = "open"] /\ cur' = c /\ framing' = c
    /\ backlog' = Tail(backlog)
    /\ filled' = 0 /\ taken' = 0
    /\ Goto("main", "hello")
    /\ UNCHANGED <<clientVars, out, lock, writeVars, active, lready, ending,
                   stop, nev>>

\* open_conn() cannot make the socket non-blocking or has no pool, or
\* refuse_conn() has none: the newcomer is closed without a word.
OpenFail ==
    /\ pc["main"] = "accept"
    /\ fd' = [fd EXCEPT ![Head(backlog)] = "closed"]
    /\ backlog' = Tail(backlog)
    /\ Goto("main", "loop")
    /\ UNCHANGED <<clientVars, out, eventVars, writeVars, loopVars, stop, nev>>

PushHello ==
    /\ pc["main"] = "hello"
    /\ StartWrite("main", Hello(cur))
    /\ UNCHANGED <<clientVars, out, backlog, fd, eventVars, loopVars, stop, nev>>

OpenDone ==
    /\ pc["main"] = "opened"
    /\ active' = TRUE
    /\ Goto("main", "loop")
    /\ UNCHANGED <<clientVars, out, backlog, fd, eventVars, writeVars, cur,
                   lready, filled, taken, ending, stop, nev>>

\* Mutant of CloseConn: the pointer is cleared without the lock.
CloseConnAtOnce ==
    /\ pc["main"] = "closing"
    /\ framing' = NoConn
    /\ Goto("main", "closesock")
    /\ UNCHANGED <<clientVars, out, backlog, fd, lock, writeVars, loopVars,
                   stop, nev>>

\* close_conn(): set_conn(NULL) waits for a write in flight ...
CloseConn ==
    /\ pc["main"] = "closing" /\ lock = "none"
    /\ framing' = NoConn
    /\ Goto("main", "closesock")
    /\ UNCHANGED <<clientVars, out, backlog, fd, lock, writeVars, loopVars,
                   stop, nev>>

\* ... then the socket goes.
CloseSock ==
    /\ pc["main"] = "closesock"
    /\ fd' = [fd EXCEPT ![cur] = "closed"]
    /\ active' = FALSE /\ cur' = NoConn
    /\ Goto("main", IF ending THEN "done" ELSE AfterInput)
    /\ UNCHANGED <<clientVars, out, backlog, eventVars, writeVars, lready,
                   filled, taken, ending, stop, nev>>

Main ==
    \/ Select \/ LoopExit \/ AcceptFail \/ Fill \/ FillEnd
    \/ ExtractPending \/ ExtractLine \/ DispatchCallback \/ Dispatch
    \/ Refuse \/ RefuseClose \/ OpenConn \/ OpenFail \/ PushHello \/ OpenDone
    \/ CloseConn \/ CloseSock

Write(t) == Begin(t) \/ BeginFail(t) \/ Send(t) \/ SendFail(t)

Client(c) == Connect(c) \/ SendLine(c) \/ Read(c) \/ Hangup(c)

Next ==
    \/ \E c \in Conn : Client(c)
    \/ Stop \/ WorkerEvent \/ Main \/ SelectFail
    \/ \E t \in Thread : Write(t)

Spec == Init /\ [][Next]_vars

\* Both threads keep running; a write that waits ends at the deadline.
\* Nothing is assumed of the clients or of the signal, and select() need
\* not ever fail.
Fairness == WF_vars(Main) /\ \A t \in Thread : WF_vars(Write(t))

FairSpec == Spec /\ Fairness

-----------------------------------------------------------------------------
(* Properties. *)

Unit == [msg : Msg, unit : 1..Units]

\* Every variable has its type.
TypeOK ==
    /\ up \in [Conn -> {"no", "up", "gone"}]
    /\ sent \in [Conn -> Seq(LineKind)]
    /\ out \in [Conn -> Seq(Unit)]
    /\ rd \in [Conn -> Nat]
    /\ backlog \in Seq(Conn)
    /\ fd \in [Conn -> {"none", "open", "closed"}]
    /\ framing \in Conn \cup {NoConn}
    /\ lock \in Thread \cup {"none"}
    /\ pc \in [Thread -> MainPC \cup WritePC \cup {"idle"}]
    /\ msg \in [Thread -> Msg]
    /\ to \in [Thread -> Conn \cup {NoConn}]
    /\ left \in [Thread -> 0..Units]
    /\ cur \in Conn \cup {NoConn}
    /\ active \in BOOLEAN /\ lready \in BOOLEAN /\ ending \in BOOLEAN
    /\ filled \in Nat /\ taken \in Nat
    /\ stop \in BOOLEAN /\ nev \in Nat

\* events.h: writes of the two threads never "interleave bytes on the wire":
\* on every socket, a unit that does not begin a message continues the very
\* message before it, even when earlier writes failed half way.
MessagesDoNotInterleave ==
    \A c \in Conn : \A i \in 1..Len(out[c]) :
        out[c][i].unit > 1 =>
            /\ i > 1
            /\ out[c][i - 1].msg = out[c][i].msg
            /\ out[c][i - 1].unit = out[c][i].unit - 1

\* events.h, close_conn(): "the connection socket is never closed out from
\* under an in-progress write".
NoWriteToClosedSocket ==
    \A t \in Thread : pc[t] = "send" => fd[to[t]] = "open"

\* The pointer events.c keeps into pjsocky_server_run()'s stack frame is
\* NULL once that frame or the socket in it is gone.
FramingIsNotDangling ==
    framing # NoConn =>
        framing = cur /\ fd[framing] = "open" /\ pc["main"] # "done"

Begins(c, i, m) == out[c][i].unit = 1 /\ out[c][i].msg = m

\* docs/PROTOCOL.md: one response per request, "in the order the
\* corresponding requests were fully received": a response goes to the
\* connection that asked, and only after the complete responses to all
\* earlier requests of that connection.
ResponsesInOrder ==
    \A c \in Conn : \A i \in 1..Len(out[c]) :
        LET m == out[c][i].msg
        IN  m.kind = "response" /\ out[c][i].unit = 1 =>
              /\ m.conn = c /\ sent[c][m.num] = "req"
              /\ \A j \in 1..(i - 1) : ~Begins(c, j, m)
              /\ \A n \in 1..(m.num - 1) : sent[c][n] = "req" =>
                    \E j \in 1..(i - 1) :
                        out[c][j] = [msg |-> Response(c, n), unit |-> Units]

\* docs/PROTOCOL.md "Transport": a client is served or refused.  The refusal is
\* "the only message" on its connection; a client that is served is greeted,
\* once and before any response.
GreetedOrRefused ==
    \A c \in Conn : \A i \in 1..Len(out[c]) :
        /\ out[c][i].msg.kind = "refused" =>
               \A j \in 1..Len(out[c]) : out[c][j].msg = Refusal(c)
        /\ Begins(c, i, Hello(c)) =>
               \A j \in 1..(i - 1) : out[c][j].msg.kind = "event"

\* What the main thread wrote last is a response that c has not got to its end.
Unwritten(c) ==
    /\ msg["main"].kind = "response"
    /\ \A i \in 1..Len(out[c]) : out[c][i] # [msg |-> msg["main"], unit |-> Units]

\* docs/PROTOCOL.md "Transport": a newcomer "does not evict the existing
\* client": the daemon closes the active connection only on its way out, when
\* the client is gone, over that client's own oversized line, or over a response
\* to it that did not get on the wire as a whole.
NoEviction ==
    [][\A c \in Conn :
         fd[c] = "open" /\ c = cur /\ fd'[c] = "closed" =>
            \/ ending \/ up[c] = "gone"
            \/ msg["main"].conn = c /\ (msg["main"].kind = "toolong" \/ Unwritten(c))
      ]_vars

\* The abstract connection: who is served, which messages have begun (unit 1)
\* or arrived as a whole (the last unit) on each wire, and which came last.
ConnPhase ==
    [c \in Conn |-> IF fd[c] = "none" THEN "new"
                    ELSE IF fd[c] = "closed" THEN "closed"
                    ELSE IF c = cur THEN "served" ELSE "refused"]

Said(u) ==
    [c \in Conn |-> {out[c][i].msg : i \in {j \in 1..Len(out[c]) : out[c][j].unit = u}}]

LastSaid ==
    [c \in Conn |-> IF out[c] = <<>> THEN NoMsg ELSE out[c][Len(out[c])].msg]

Link == INSTANCE ControlLink WITH
            asked <- sent, phase <- ConnPhase, begun <- Said(1),
            whole <- Said(Units), last <- LastSaid

\* Two threads, a lock, a shared pointer, non-blocking partial sends and writes
\* that fail half way implement the abstract connection: its clients see one
\* of them served at a time, every message at most once and in the order of
\* the protocol, and nothing of a connection on another one.
LinkSpec == Link!LSpec

\* pjsocky_server_stop(): once stop is requested the loop ends, whatever the
\* clients do: no write blocks for longer than its deadline.
StopEndsTheLoop == stop ~> pc["main"] = "done"

\* docs/PROTOCOL.md "Backpressure": "SIP processing [...] is never blocked
\* indefinitely by a stalled controller": a callback on pjsua's worker thread
\* always gets out of its event push.
WorkerIsReleased == pc["worker"] # "idle" ~> pc["worker"] = "idle"

\* A client that connects is served or refused, or the daemon is leaving.
NewcomersAreAnswered ==
    \A c \in Conn : up[c] # "no" ~> (fd[c] # "none" \/ pc["main"] = "done")

\* docs/PROTOCOL.md "Response": a request is answered unless its connection
\* ends first; no request waits in the framing buffer for another one.
RequestsAreAnswered ==
    \A c \in Conn : \A n \in 1..MaxLines[c] :
        (n <= Len(sent[c]) /\ sent[c][n] = "req") ~>
            \/ fd[c] = "closed" \/ pc["main"] = "done"
            \/ \E i \in 1..Len(out[c]) :
                  out[c][i] = [msg |-> Response(c, n), unit |-> Units]

-----------------------------------------------------------------------------
(* What the documentation says and the code does not do. *)

\* docs/PROTOCOL.md "Versioning": "On connect, the daemon proactively sends a
\* hello event before anything else"; server.c: "nothing else can race ahead
\* of it".
HelloIsFirst ==
    \A c \in Conn : Len(out[c]) > 0 => out[c][1].msg \in {Hello(c), Refusal(c)}

\* docs/PROTOCOL.md "Framing": each message is one JSON object followed by
\* one newline, and "Backpressure": when a write runs into its deadline the
\* connection is dropped.  So nothing may follow a message cut short.
NothingFollowsACutMessage ==
    \A c \in Conn : \A i \in 1..(Len(out[c]) - 1) :
        out[c][i].unit < Units => out[c][i + 1].msg = out[c][i].msg

-----------------------------------------------------------------------------
(* A further claim of the documentation, which TLC refutes on this module by *)
(* an accept() that fails.                                                   *)

\* docs/PROTOCOL.md "pjsua callback errors": the daemon "exits only on
\* SIGINT/SIGTERM or a fatal startup error".
ExitsOnlyOnSignal == pc["main"] = "done" => stop
=============================================================================
