------------------------- MODULE ControlConnProofs -------------------------
(***************************************************************************)
(* Proofs about ControlConn, for every set of clients, message length,    *)
(* socket buffer and number of lines and events.  The invariant is built  *)
(* in four layers, each proved from the ones before it: where the two     *)
(* threads are and what they hold (Control), what is on the sockets while *)
(* a message is written (Wire), which requests have been answered         *)
(* (Requests), and that nothing is said twice (Once), from which the      *)
(* refinement of ControlLink follows.                                     *)
(***************************************************************************)
EXTENDS ControlConn, TLAPS

Writing(t) == pc[t] \in WritePC

\* open_conn() has published the connection and is greeting the client.
AtHello ==
    \/ pc["main"] \in {"hello", "opened"}
    \/ Writing("main") /\ msg["main"].kind = "hello"

\* handle_new_connection() is turning a second client away.
Refusing ==
    \/ pc["main"] = "refused"
    \/ pc["main"] = "send" /\ msg["main"].kind = "refused"

\* A request has been extracted and its response is not yet written.
Pending ==
    \/ pc["main"] = "dispatch"
    \/ Writing("main") /\ msg["main"].kind \in {"event", "response"}

\* The main thread handles input of the connection or closes it.
InInput ==
    \/ pc["main"] \in {"input", "extract", "dispatch", "closing", "closesock"}
    \/ /\ Writing("main")
       /\ msg["main"].kind \in {"event", "response", "badline", "toolong"}

\* Which thread is where, and with which message.
ThreadsInPlace ==
    /\ pc["worker"] \in {"idle", "lock", "send"} /\ pc["main"] # "idle"
    /\ Writing("worker") => msg["worker"].kind = "event"
    /\ Writing("main") =>
          /\ msg["main"].kind # "none"
          /\ msg["main"].kind = "hello" => msg["main"] = Hello(cur)
          /\ msg["main"].kind \in {"response", "badline", "toolong"} =>
                msg["main"].conn = cur
          /\ msg["main"].kind = "refused" => pc["main"] = "send"
    /\ AtHello \/ pc["main"] = "done" => ~active
    /\ InInput \/ Refusing => active
    /\ ending => pc["main"] \in {"closing", "closesock", "done"}

\* A writer holds the lock and writes to the published connection; only the
\* refusal is written without the lock, to a socket of its own.
LockGuardsWrites ==
    /\ \A t \in Thread : lock = t => pc[t] = "send" /\ to[t] = framing
    /\ pc["worker"] = "send" => lock = "worker"
    /\ pc["main"] = "send" /\ ~Refusing => lock = "main"
    /\ Refusing => /\ to["main"] \in Conn /\ to["main"] # cur
                   /\ fd[to["main"]] = "open" /\ lock # "main"
                   /\ msg["main"] = Refusal(to["main"])

\* The published pointer is the connection of the loop, except between
\* set_conn(NULL) and the closing of the socket.
PointerIsConn ==
    /\ framing = IF pc["main"] = "closesock" THEN NoConn ELSE cur
    /\ cur # NoConn <=> active \/ AtHello
    /\ cur # NoConn => fd[cur] = "open"
    /\ lock # "none" => framing # NoConn

\* The listen queue holds each unaccepted client once.
BacklogIsFresh ==
    /\ \A i, j \in 1..Len(backlog) : backlog[i] = backlog[j] => i = j
    /\ \A i \in 1..Len(backlog) :
          fd[backlog[i]] = "none" /\ up[backlog[i]] # "no"
    /\ \A c \in Conn : up[c] = "no" => fd[c] = "none"

\* The loop accepts only when select() has seen a client in the queue.
AcceptHasClient ==
    /\ pc["main"] = "accept" => backlog # <<>>
    /\ InInput /\ lready /\ ~ending => backlog # <<>>

\* Why the connection is being closed.
ClosingHasCause ==
    pc["main"] \in {"closing", "closesock"} =>
        \/ ending \/ up[cur] = "gone"
        \/ msg["main"].conn = cur /\ msg["main"].kind \in {"toolong", "response"}

Control ==
    /\ TypeOK /\ ThreadsInPlace /\ LockGuardsWrites /\ PointerIsConn
    /\ BacklogIsFresh /\ AcceptHasClient /\ ClosingHasCause

\* A socket that was never accepted is empty, and the last unit of a message
\* that is half written is the last unit of its socket.
WriterOwnsTheEnd ==
    /\ \A c \in Conn : fd[c] = "none" => out[c] = <<>>
    /\ \A t \in Thread : pc[t] = "send" =>
          /\ left[t] > 0
          /\ left[t] < Units =>
                /\ Len(out[to[t]]) > 0
                /\ out[to[t]][Len(out[to[t]])].msg = msg[t]
                /\ out[to[t]][Len(out[to[t]])].unit = Units - left[t]

\* The main thread has not put the first unit of its message on the wire.
NotBegun == pc["main"] # "send" \/ left["main"] = Units

\* What is on the socket of the served connection and of the one refused.
KindsOnTheWire ==
    /\ cur # NoConn => \A i \in 1..Len(out[cur]) :
          /\ out[cur][i].msg.kind # "refused"
          /\ AtHello /\ pc["main"] # "opened" /\ NotBegun =>
                out[cur][i].msg.kind = "event"
    /\ Refusing => \A i \in 1..Len(out[to["main"]]) :
          out[to["main"]][i].msg = Refusal(to["main"])

Wire ==
    /\ WriterOwnsTheEnd /\ KindsOnTheWire
    /\ MessagesDoNotInterleave /\ GreetedOrRefused

Answered(c, n) ==
    \E j \in 1..Len(out[c]) : out[c][j] = [msg |-> Response(c, n), unit |-> Units]

\* Lines are extracted in the order in which they were received, and the line
\* being handled is a request.
LinesInOrder ==
    cur # NoConn =>
        /\ taken <= filled /\ filled <= Len(sent[cur])
        /\ Pending => taken > 0 /\ sent[cur][taken] = "req"
        /\ Writing("main") /\ msg["main"].kind = "response" =>
              msg["main"] = Response(cur, taken)

\* The response being written has units on the wire.
AnswerBegun ==
    /\ pc["main"] = "send" /\ msg["main"].kind = "response"
    /\ left["main"] < Units

\* Responses on a wire answer lines that were received on it.
ResponsesToLines ==
    \A c \in Conn : \A i \in 1..Len(out[c]) :
        out[c][i].msg.kind = "response" =>
            /\ out[c][i].msg.num > 0
            /\ out[c][i].msg.num <= Len(sent[c])
            /\ c = cur => out[c][i].msg.num <= taken
            /\ c = cur /\ Pending /\ ~AnswerBegun => out[c][i].msg.num < taken

\* Every request before the line being handled has its whole response, until
\* the connection is being closed.
EarlierAnswered ==
    cur # NoConn /\ pc["main"] \notin {"closing", "closesock"} =>
        \A n \in 1..taken :
            sent[cur][n] = "req" /\ (Pending => n < taken) => Answered(cur, n)

Requests ==
    LinesInOrder /\ ResponsesToLines /\ EarlierAnswered /\ ResponsesInOrder

-----------------------------------------------------------------------------
(* Operators. *)

\* Chunk() and the append of Send: what send() puts behind what is already on
\* the socket.
LEMMA AppendChunk ==
    ASSUME NEW s \in Seq(Unit), NEW m \in Msg, NEW n \in 0..Units, NEW k \in 1..n
    PROVE  LET r == s \o Chunk(m, n, k)
           IN  /\ r \in Seq(Unit) /\ Len(r) = Len(s) + k
               /\ \A i \in 1..Len(s) : r[i] = s[i]
               /\ \A i \in (Len(s) + 1)..Len(r) :
                     r[i].msg = m /\ r[i].unit = Units - n + (i - Len(s))
<1> USE UnitsAssumption
<1>1. Chunk(m, n, k) \in Seq(Unit) /\ Len(Chunk(m, n, k)) = k
  BY DEF Chunk, Unit
<1>2. \A i \in 1..k : /\ Chunk(m, n, k)[i].msg = m
                       /\ Chunk(m, n, k)[i].unit = Units - n + i
  BY DEF Chunk
<1> DEFINE r == s \o Chunk(m, n, k)
<1>3. r \in Seq(Unit) /\ Len(r) = Len(s) + k
  BY <1>1
<1>4. \A i \in 1..Len(s) : r[i] = s[i]
  BY <1>1
<1>5. ASSUME NEW i \in (Len(s) + 1)..Len(r)
      PROVE  r[i].msg = m /\ r[i].unit = Units - n + (i - Len(s))
  <2>1. r[i] = Chunk(m, n, k)[i - Len(s)] /\ i - Len(s) \in 1..k
    BY <1>1, <1>3
  <2> QED
    BY <2>1, <1>2
<1> QED
  BY <1>3, <1>4, <1>5

\* The messages of the two threads are messages.
LEMMA MessageTypes ==
    /\ NoMsg \in Msg
    /\ \A n \in Nat : Event(n) \in Msg
    /\ \A c \in Conn : Hello(c) \in Msg /\ Refusal(c) \in Msg
    /\ \A c \in Conn, n \in Nat : Response(c, n) \in Msg
    /\ \A c \in Conn, n \in Nat, k \in LineKind : ErrorEvent(c, n, k) \in Msg
BY DEF NoMsg, Event, Hello, Refusal, Response, ErrorEvent, Message, Msg, MsgKind

\* Taking the first connection from the listen queue, as accept() does.
LEMMA TakeFirst ==
    ASSUME NEW s \in Seq(Conn), s # <<>>
    PROVE  /\ Len(s) > 0 /\ Head(s) = s[1] /\ Head(s) \in Conn
           /\ Tail(s) \in Seq(Conn) /\ Len(Tail(s)) = Len(s) - 1
           /\ \A i \in 1..Len(Tail(s)) : Tail(s)[i] = s[i + 1]
<1>1. Len(s) > 0 /\ Head(s) = s[1]
  BY SMT
<1>2. Tail(s) \in Seq(Conn) /\ Len(Tail(s)) = Len(s) - 1
  BY <1>1
<1>3. \A i \in 1..Len(Tail(s)) : Tail(s)[i] = s[i + 1]
  BY <1>1
<1> QED
  BY <1>1, <1>2, <1>3

\* Where the main thread goes after each kind of message: handle_line() and
\* open_conn() look at nothing but the status of a response.
LEMMA AfterMain ==
    ASSUME NEW ok \in BOOLEAN
    PROVE  LET kind == msg["main"].kind
               next == After("main", ok)
           IN  /\ kind = "hello" => next = "opened"
               /\ kind = "refused" => next = "refused"
               /\ kind = "event" => next = "dispatch"
               /\ kind = "badline" => next = "extract"
               /\ kind = "toolong" => next = "closing"
               /\ kind = "response" => next = IF ok THEN "extract" ELSE "closing"
BY DEF After, AfterMessage

-----------------------------------------------------------------------------
(* The first layer: Control. *)

\* The initial state of the server satisfies the first layer.
LEMMA InitControl == Init => Control
<1> SUFFICES ASSUME Init PROVE Control
  OBVIOUS
<1> USE UnitsAssumption
<1>1. TypeOK
  <2>1. NoMsg \in Msg
    BY MessageTypes
  <2>2. sent \in [Conn -> Seq(LineKind)] /\ out \in [Conn -> Seq(Unit)]
    BY DEF Init
  <2>3. /\ pc \in [Thread -> MainPC \cup WritePC \cup {"idle"}]
        /\ msg \in [Thread -> Msg]
        /\ to \in [Thread -> Conn \cup {NoConn}]
        /\ left \in [Thread -> 0..Units]
    BY <2>1 DEF Init, MainPC, WritePC
  <2>4. backlog \in Seq(Conn)
    BY DEF Init
  <2> QED
    BY <2>2, <2>3, <2>4 DEF Init, TypeOK
<1>2. ThreadsInPlace /\ LockGuardsWrites /\ PointerIsConn /\ ClosingHasCause
  BY DEF Init, ThreadsInPlace, LockGuardsWrites, PointerIsConn, ClosingHasCause,
         Writing, WritePC, AtHello, Refusing, InInput, Thread
<1>3. BacklogIsFresh /\ AcceptHasClient
  BY DEF Init, BacklogIsFresh, AcceptHasClient, InInput, Writing, WritePC, Thread
<1> QED
  BY <1>1, <1>2, <1>3 DEF Control


\* Clients and the signal handler change nothing the threads rely on.
LEMMA ClientControl ==
    ASSUME Control, Stop \/ \E c \in Conn : Client(c)
    PROVE  Control'
<1> USE UnitsAssumption, ConnAssumption
    DEF Control, Writing, AtHello, Refusing, InInput, WritePC, MainPC, Thread
<1>1. CASE Stop
  <2>1. TypeOK'
    BY <1>1 DEF TypeOK, Stop, clientVars, eventVars, writeVars, loopVars
  <2>2. UNCHANGED <<up, fd, backlog, framing, lock, pc, msg, to, cur, active, lready, ending>>
    BY <1>1 DEF Stop, clientVars, eventVars, writeVars, loopVars
  <2> QED
    BY <2>1, <2>2 DEF ThreadsInPlace, LockGuardsWrites, PointerIsConn,
           BacklogIsFresh, AcceptHasClient, ClosingHasCause
<1>2. CASE \E c \in Conn : Client(c)
  <2>1. PICK c \in Conn : Connect(c) \/ SendLine(c) \/ Read(c) \/ Hangup(c)
    BY <1>2 DEF Client
  <2>2. CASE Connect(c)
    <3>1. /\ backlog' = Append(backlog, c) /\ backlog' \in Seq(Conn)
          /\ Len(backlog') = Len(backlog) + 1 /\ backlog'[Len(backlog) + 1] = c
          /\ \A i \in 1..Len(backlog) : backlog'[i] = backlog[i]
      BY <2>2 DEF TypeOK, Connect
    <3>2. TypeOK'
      BY <2>2, <3>1 DEF TypeOK, Connect, eventVars, writeVars, loopVars
    <3>3. ThreadsInPlace' /\ LockGuardsWrites' /\ PointerIsConn' /\ ClosingHasCause'
      BY <2>2 DEF TypeOK, ThreadsInPlace, LockGuardsWrites, PointerIsConn,
             ClosingHasCause, Connect, eventVars, writeVars, loopVars
    <3>4. BacklogIsFresh'
      <4>1. backlog \in Seq(Conn) /\ up[c] = "no" /\ up \in [Conn -> {"no", "up", "gone"}]
        BY <2>2 DEF TypeOK, Connect
      <4>2. \A i \in 1..Len(backlog) : backlog[i] # c
        BY <4>1 DEF BacklogIsFresh
      <4>3. fd[c] = "none" /\ up' = [up EXCEPT ![c] = "up"] /\ fd' = fd
        BY <2>2 DEF BacklogIsFresh, Connect
      <4> HIDE DEF Control
      <4>4. \A i \in 1..Len(backlog') :
                fd'[backlog'[i]] = "none" /\ up'[backlog'[i]] # "no"
        BY <3>1, <4>1, <4>2, <4>3 DEF Control, BacklogIsFresh
      <4>5. \A i, j \in 1..Len(backlog') : backlog'[i] = backlog'[j] => i = j
        BY <3>1, <4>1, <4>2 DEF Control, BacklogIsFresh
      <4>6. \A d \in Conn : up'[d] = "no" => fd'[d] = "none"
        BY <4>1, <4>3 DEF Control, BacklogIsFresh
      <4> QED
        BY <4>4, <4>5, <4>6 DEF BacklogIsFresh
    <3>5. AcceptHasClient'
      <4>1. backlog' # <<>>
        <5>1. Len(backlog) \in Nat /\ Len(backlog') = Len(backlog) + 1
          BY <3>1 DEF TypeOK
        <5>2. Len(<<>>) = 0
          OBVIOUS
        <5> QED
          BY <5>1, <5>2
      <4> QED
        BY <4>1 DEF AcceptHasClient
    <3> QED
      BY <3>2, <3>3, <3>4, <3>5
  <2>3. CASE SendLine(c) \/ Read(c)
    <3>1. sent' \in [Conn -> Seq(LineKind)] /\ rd' \in [Conn -> Nat]
      <4>1. CASE SendLine(c)
        <5>1. PICK kind \in LineKind : sent' = [sent EXCEPT ![c] = Append(@, kind)]
          BY <4>1 DEF SendLine
        <5>2. sent \in [Conn -> Seq(LineKind)] /\ rd' \in [Conn -> Nat]
          BY <4>1 DEF TypeOK, SendLine
        <5> HIDE DEF Control
        <5>3. Append(sent[c], kind) \in Seq(LineKind)
          BY <5>2
        <5> QED
          BY <5>1, <5>2, <5>3
      <4>2. CASE Read(c)
        <5>1. /\ sent' \in [Conn -> Seq(LineKind)] /\ rd \in [Conn -> Nat]
              /\ rd' = [rd EXCEPT ![c] = Len(out[c])] /\ Len(out[c]) \in Nat
          <6>1. /\ out[c] \in Seq(Unit) /\ rd \in [Conn -> Nat]
                /\ sent \in [Conn -> Seq(LineKind)]
            BY DEF TypeOK
          <6>2. sent' = sent /\ rd' = [rd EXCEPT ![c] = Len(out[c])]
            BY <4>2 DEF Read
          <6> HIDE DEF Control
          <6> QED
            BY <6>1, <6>2
        <5> QED
          BY <5>1
      <4> QED
        BY <2>3, <4>1, <4>2
    <3>2. UNCHANGED <<up, out, backlog, fd, framing, lock, pc, msg, to, left, cur,
                      active, lready, filled, taken, ending, stop, nev>>
      BY <2>3 DEF SendLine, Read, eventVars, writeVars, loopVars
    <3>3. TypeOK'
      BY <3>1, <3>2 DEF TypeOK
    <3> QED
      BY <3>2, <3>3 DEF ThreadsInPlace, LockGuardsWrites, PointerIsConn,
             BacklogIsFresh, AcceptHasClient, ClosingHasCause
  <2>4. CASE Hangup(c)
    <3>1. TypeOK'
      BY <2>4 DEF TypeOK, Hangup, eventVars, writeVars, loopVars
    <3>2. /\ ThreadsInPlace' /\ LockGuardsWrites' /\ PointerIsConn'
          /\ AcceptHasClient' /\ ClosingHasCause'
      BY <2>4 DEF TypeOK, ThreadsInPlace, LockGuardsWrites, PointerIsConn,
             AcceptHasClient, ClosingHasCause, Hangup, eventVars, writeVars, loopVars
    <3>3. /\ \A d \in Conn : up'[d] = "no" <=> up[d] = "no"
          /\ backlog \in Seq(Conn) /\ UNCHANGED <<backlog, fd>>
      BY <2>4 DEF TypeOK, Hangup, Connected
    <3>4. BacklogIsFresh'
      BY <3>3 DEF BacklogIsFresh
    <3> QED
      BY <3>1, <3>2, <3>4
  <2> QED
    BY <2>1, <2>2, <2>3, <2>4
<1> QED
  BY <1>1, <1>2

\* A pjsua callback on the worker starts to push its event.
LEMMA WorkerControl ==
    ASSUME Control, WorkerEvent
    PROVE  Control'
<1> USE UnitsAssumption, ConnAssumption
    DEF Control, Writing, AtHello, Refusing, InInput, WritePC, MainPC, Thread
<1>1. Event(nev + 1) \in Msg /\ Event(nev + 1).kind = "event" /\ nev + 1 \in Nat
  <2>1. nev + 1 \in Nat
    BY DEF TypeOK
  <2> QED
    BY <2>1, MessageTypes DEF Event, Message
<1>2. /\ msg' = [msg EXCEPT !["worker"] = Event(nev + 1)]
      /\ pc' = [pc EXCEPT !["worker"] = "lock"] /\ nev' = nev + 1
      /\ UNCHANGED <<up, sent, rd, out, backlog, fd, framing, lock, to, left, cur,
                     active, lready, filled, taken, ending, stop>>
      /\ pc["worker"] = "idle"
  BY DEF WorkerEvent, StartWrite, Goto, clientVars, eventVars, loopVars
<1>3. TypeOK'
  BY <1>1, <1>2 DEF TypeOK
<1>4. ThreadsInPlace' /\ LockGuardsWrites' /\ PointerIsConn'
  BY <1>1, <1>2 DEF TypeOK, ThreadsInPlace, LockGuardsWrites, PointerIsConn
<1>5. BacklogIsFresh' /\ AcceptHasClient' /\ ClosingHasCause'
  BY <1>2 DEF TypeOK, BacklogIsFresh, AcceptHasClient, ClosingHasCause
<1> QED
  BY <1>3, <1>4, <1>5

\* The steps of the loop that neither write nor touch a socket: select(),
\* leaving, and the reading of lines.
LEMMA LoopControl ==
    ASSUME Control,
           \/ Select \/ LoopExit \/ SelectFail \/ AcceptFail \/ Fill \/ FillEnd
           \/ ExtractPending \/ OpenDone
    PROVE  Control'
<1> USE UnitsAssumption, ConnAssumption
    DEF Control, Writing, AtHello, Refusing, InInput, WritePC, MainPC, Thread
<1>1. /\ UNCHANGED <<up, sent, rd, out, backlog, fd, framing, lock, msg, to, left,
                     cur, taken, stop, nev>>
      /\ filled' \in Nat /\ lready' \in BOOLEAN
  <2>1. CASE Fill
    BY <2>1 DEF TypeOK, Fill, clientVars, eventVars, writeVars
  <2>2. CASE Select
    BY <2>2 DEF TypeOK, Select, clientVars, eventVars, writeVars
  <2> QED
    BY <2>1, <2>2 DEF TypeOK, LoopExit, SelectFail, AcceptFail, Leave, FillEnd,
           ExtractPending, OpenDone, clientVars, eventVars, writeVars, loopVars
<1>2. BacklogIsFresh'
  BY <1>1 DEF BacklogIsFresh
<1>3. CASE Select
  <2>1. TypeOK'
    BY <1>1, <1>3 DEF TypeOK, Select, Goto
  <2> QED
    BY <1>1, <1>2, <1>3, <2>1 DEF TypeOK, ThreadsInPlace, LockGuardsWrites,
           PointerIsConn, AcceptHasClient, ClosingHasCause, Select, Goto
<1>4. CASE LoopExit \/ SelectFail \/ AcceptFail
  <2>1. /\ pc["main"] \in {"loop", "accept"} /\ ending' = TRUE
        /\ pc' = [pc EXCEPT !["main"] = IF active THEN "closing" ELSE "done"]
        /\ UNCHANGED <<active, lready, filled>>
    BY <1>4 DEF LoopExit, SelectFail, AcceptFail, Leave, Goto
  <2>2. TypeOK'
    BY <1>1, <2>1 DEF TypeOK
  <2> QED
    BY <1>1, <1>2, <2>1, <2>2 DEF TypeOK, ThreadsInPlace, LockGuardsWrites,
           PointerIsConn, AcceptHasClient, ClosingHasCause
<1>5. CASE Fill \/ FillEnd \/ ExtractPending
  <2>1. /\ UNCHANGED <<active, lready, ending>>
        /\ \/ pc["main"] = "input" /\ pc' = [pc EXCEPT !["main"] = "extract"]
           \/ /\ pc["main"] = "input" /\ up[cur] = "gone"
              /\ pc' = [pc EXCEPT !["main"] = "closing"]
           \/ /\ pc["main"] = "extract"
              /\ pc' = [pc EXCEPT !["main"] = IF lready THEN "accept" ELSE "loop"]
    BY <1>5 DEF Fill, FillEnd, ExtractPending, AfterInput, Goto, loopVars
  <2>2. TypeOK'
    <3>1. pc' \in [Thread -> MainPC \cup WritePC \cup {"idle"}]
      BY <2>1 DEF TypeOK
    <3> QED
      BY <1>1, <2>1, <3>1 DEF TypeOK
  <2>3. ThreadsInPlace' /\ LockGuardsWrites' /\ PointerIsConn'
    BY <1>1, <2>1 DEF TypeOK, ThreadsInPlace, LockGuardsWrites, PointerIsConn
  <2>4. AcceptHasClient' /\ ClosingHasCause'
    BY <1>1, <2>1 DEF TypeOK, ThreadsInPlace, AcceptHasClient, ClosingHasCause
  <2> QED
    BY <1>2, <2>2, <2>3, <2>4
<1>6. CASE OpenDone
  <2>1. TypeOK'
    BY <1>1, <1>6 DEF TypeOK, OpenDone, Goto
  <2> QED
    BY <1>1, <1>2, <1>6, <2>1 DEF TypeOK, ThreadsInPlace, LockGuardsWrites,
           PointerIsConn, AcceptHasClient, ClosingHasCause, OpenDone, Goto
<1> QED
  BY <1>3, <1>4, <1>5, <1>6

\* The main thread starts a message: an error event for a line, an event from
\* within a command, a response, the greeting.
LEMMA MainStartsControl ==
    ASSUME Control, ExtractLine \/ DispatchCallback \/ Dispatch \/ PushHello
    PROVE  Control'
<1> USE UnitsAssumption, ConnAssumption
    DEF Control, Writing, AtHello, Refusing, InInput, WritePC, MainPC, Thread
<1> DEFINE From(label, m) ==
               /\ pc["main"] = label /\ msg' = [msg EXCEPT !["main"] = m]
               /\ pc' = [pc EXCEPT !["main"] = "lock"]
<1>1. /\ UNCHANGED <<up, sent, rd, out, backlog, fd, framing, lock, to, left, cur,
                     active, lready, filled, ending, stop>>
      /\ taken' \in Nat /\ nev' \in Nat
  <2>1. CASE ExtractLine
    BY <2>1 DEF TypeOK, ExtractLine, StartWrite, clientVars, eventVars, writeVars
  <2>2. CASE DispatchCallback
    BY <2>2 DEF TypeOK, DispatchCallback, StartWrite, clientVars, eventVars, loopVars
  <2>3. CASE Dispatch \/ PushHello
    BY <2>3 DEF TypeOK, Dispatch, PushHello, StartWrite, clientVars, eventVars,
           loopVars
  <2> QED
    BY <2>1, <2>2, <2>3
<1>2. BacklogIsFresh'
  BY <1>1 DEF BacklogIsFresh
<1>3. \/ /\ pc["main"] = "extract" /\ msg' = msg
         /\ pc' = [pc EXCEPT !["main"] = "dispatch"]
      \/ \E m \in Msg : /\ From("extract", m)
                        /\ m.kind \in {"badline", "toolong"} /\ m.conn = cur
      \/ \E m \in Msg : From("dispatch", m) /\ m.kind = "event"
      \/ \E m \in Msg :
            From("dispatch", m) /\ m.kind = "response" /\ m.conn = cur
      \/ From("hello", Hello(cur)) /\ Hello(cur) \in Msg /\ Hello(cur).kind = "hello"
  <2>1. CASE ExtractLine
    <3> DEFINE kind == sent[cur][taken + 1]
    <3>1. CASE kind = "req"
      BY <2>1, <3>1 DEF ExtractLine, Goto, writeVars
    <3>2. CASE kind # "req"
      <4>1. From("extract", ErrorEvent(cur, taken + 1, kind))
        BY <2>1, <3>2 DEF ExtractLine, Goto, StartWrite
      <4>2. cur \in Conn /\ taken + 1 \in Nat
        BY <2>1 DEF TypeOK, ExtractLine, ThreadsInPlace, PointerIsConn
      <4>3. /\ ErrorEvent(cur, taken + 1, kind) \in Msg
            /\ ErrorEvent(cur, taken + 1, kind).kind \in {"badline", "toolong"}
            /\ ErrorEvent(cur, taken + 1, kind).conn = cur
        BY <4>2 DEF ErrorEvent, Message, Msg, MsgKind
      <4> QED
        BY <4>1, <4>3
    <3> QED
      BY <3>1, <3>2
  <2>2. CASE DispatchCallback
    <3>1. From("dispatch", Event(nev + 1)) /\ nev + 1 \in Nat
      BY <2>2 DEF TypeOK, DispatchCallback, StartWrite, Goto
    <3>2. Event(nev + 1) \in Msg /\ Event(nev + 1).kind = "event"
      BY <3>1 DEF Event, Message, Msg, MsgKind
    <3> QED
      BY <3>1, <3>2
  <2>3. CASE Dispatch
    <3>1. From("dispatch", Response(cur, taken)) /\ cur \in Conn /\ taken \in Nat
      BY <2>3 DEF TypeOK, Dispatch, StartWrite, Goto, ThreadsInPlace, PointerIsConn
    <3>2. /\ Response(cur, taken) \in Msg /\ Response(cur, taken).kind = "response"
          /\ Response(cur, taken).conn = cur
      BY <3>1 DEF Response, Message, Msg, MsgKind
    <3> QED
      BY <3>1, <3>2
  <2>4. CASE PushHello
    <3>1. From("hello", Hello(cur)) /\ cur \in Conn
      BY <2>4 DEF TypeOK, PushHello, StartWrite, Goto, ThreadsInPlace, PointerIsConn
    <3>2. Hello(cur) \in Msg /\ Hello(cur).kind = "hello"
      BY <3>1 DEF Hello, Message, Msg, MsgKind
    <3> QED
      BY <3>1, <3>2
  <2> QED
    BY <2>1, <2>2, <2>3, <2>4
<1>4. TypeOK'
  <2>1. pc' \in [Thread -> MainPC \cup WritePC \cup {"idle"}]
    BY <1>3 DEF TypeOK
  <2>2. msg' \in [Thread -> Msg]
    <3>1. msg \in [Thread -> Msg]
      BY DEF TypeOK
    <3>2. msg' = msg \/ \E m \in Msg : msg' = [msg EXCEPT !["main"] = m]
      BY <1>3
    <3> HIDE DEF Control
    <3> QED
      BY <3>1, <3>2
  <2> QED
    BY <1>1, <2>1, <2>2 DEF TypeOK
<1>5. ThreadsInPlace'
  <2>1. /\ ThreadsInPlace
        /\ pc \in [Thread -> MainPC \cup WritePC \cup {"idle"}] /\ msg \in [Thread -> Msg]
    BY DEF TypeOK
  <2> HIDE DEF Control
  <2>2. pc'["worker"] = pc["worker"] /\ msg'["worker"] = msg["worker"]
    BY <1>3, <2>1
  <2>3. \/ pc["main"] = "extract" /\ pc'["main"] = "dispatch"
        \/ /\ pc["main"] = "extract" /\ pc'["main"] = "lock"
           /\ msg'["main"].kind \in {"badline", "toolong"} /\ msg'["main"].conn = cur
        \/ /\ pc["main"] = "dispatch" /\ pc'["main"] = "lock"
           /\ msg'["main"].kind = "event"
        \/ /\ pc["main"] = "dispatch" /\ pc'["main"] = "lock"
           /\ msg'["main"].kind = "response" /\ msg'["main"].conn = cur
        \/ /\ pc["main"] = "hello" /\ pc'["main"] = "lock"
           /\ msg'["main"] = Hello(cur) /\ msg'["main"].kind = "hello"
    BY <1>3, <2>1
  <2> QED
    BY <1>1, <2>1, <2>2, <2>3 DEF ThreadsInPlace
<1>6. LockGuardsWrites' /\ PointerIsConn'
  BY <1>1, <1>3 DEF TypeOK, ThreadsInPlace, LockGuardsWrites, PointerIsConn
<1>7. AcceptHasClient' /\ ClosingHasCause'
  BY <1>1, <1>3 DEF TypeOK, ThreadsInPlace, AcceptHasClient, ClosingHasCause
<1> QED
  BY <1>2, <1>4, <1>5, <1>6, <1>7

\* A message gets its lock and is begun, or is given up before it is begun;
\* then units of it are sent until the last one or a failure.
LEMMA WriteControl ==
    ASSUME Control, NEW t \in Thread, Write(t)
    PROVE  Control'
<1> USE UnitsAssumption, ConnAssumption
    DEF Control, Writing, AtHello, Refusing, InInput, WritePC, MainPC, Thread
<1>1. /\ UNCHANGED <<up, sent, rd, backlog, fd, framing, msg, cur, active, lready,
                     filled, taken, ending, stop, nev>>
      /\ pc[t] \in {"lock", "send"}
  BY DEF Write, Begin, BeginFail, Send, SendFail, clientVars, eventVars,
         writeVars, loopVars
<1>2. BacklogIsFresh'
  BY <1>1 DEF BacklogIsFresh
<1> DEFINE Ends(ok) == /\ pc' = [pc EXCEPT ![t] = After(t, ok)]
                       /\ lock' = IF lock = t THEN "none" ELSE lock
                       /\ to' = to /\ (pc[t] = "lock" => lock = "none")
           Begins1 == /\ pc[t] = "lock" /\ lock = "none" /\ lock' = t
                      /\ framing # NoConn /\ to' = [to EXCEPT ![t] = framing]
                      /\ pc' = [pc EXCEPT ![t] = "send"]
           GoesOn == UNCHANGED <<pc, lock, to>>
<1>3. Begins1 \/ GoesOn \/ \E ok \in BOOLEAN : Ends(ok)
  <2>1. CASE Begin(t) /\ framing = NoConn
    BY <2>1 DEF Begin, Goto
  <2>2. CASE Begin(t) /\ framing # NoConn
    BY <2>2 DEF Begin, Goto
  <2>3. CASE BeginFail(t)
    BY <2>3 DEF BeginFail, Goto, eventVars, writeVars
  <2>4. CASE Send(t)
    <3>1. Finish(t, TRUE) \/ UNCHANGED <<lock, pc>>
      BY <2>4 DEF Send
    <3>2. to' = to /\ pc[t] = "send"
      BY <2>4 DEF Send
    <3> QED
      BY <3>1, <3>2 DEF Finish, Goto
  <2>5. CASE SendFail(t)
    BY <2>5 DEF SendFail, Finish, Goto
  <2> QED
    BY <2>1, <2>2, <2>3, <2>4, <2>5 DEF Write
<1>4. left' \in [Thread -> 0..Units] /\ out' \in [Conn -> Seq(Unit)]
  <2>1. CASE Begin(t)
    <3>1. /\ out' = out
          /\ left' = left \/ left' = [left EXCEPT ![t] = Units]
      BY <2>1 DEF Begin
    <3>2. Units \in 0..Units
      BY UnitsAssumption
    <3> QED
      <4>1. left \in [Thread -> 0..Units] /\ out \in [Conn -> Seq(Unit)]
        BY DEF TypeOK
      <4> HIDE DEF Control
      <4> QED
        BY <3>1, <3>2, <4>1
  <2>2. CASE BeginFail(t)
    BY <2>2 DEF TypeOK, BeginFail, writeVars
  <2>3. CASE Send(t)
    <3>1. PICK k \in 1..left[t] :
              /\ out' = [out EXCEPT ![to[t]] = @ \o Chunk(msg[t], left[t], k)]
              /\ left' = [left EXCEPT ![t] = @ - k]
      BY <2>3 DEF Send
    <3>2. to[t] \in Conn => out[to[t]] \o Chunk(msg[t], left[t], k) \in Seq(Unit)
      BY AppendChunk DEF TypeOK
    <3>3. out' \in [Conn -> Seq(Unit)]
      BY <3>1, <3>2 DEF TypeOK
    <3>4. left[t] - k \in 0..Units
      <4>1. left[t] \in 0..Units /\ k \in 1..left[t]
        BY <3>1 DEF TypeOK
      <4> HIDE DEF Control
      <4> QED
        BY <4>1
    <3> QED
      BY <3>1, <3>3, <3>4 DEF TypeOK
  <2>4. CASE SendFail(t)
    <3>1. out' = out /\ left' = [left EXCEPT ![t] = 0]
      BY <2>4 DEF SendFail
    <3>2. left \in [Thread -> 0..Units] /\ out \in [Conn -> Seq(Unit)]
      BY DEF TypeOK
    <3> HIDE DEF Control
    <3> QED
      BY <3>1, <3>2
  <2> QED
    BY <2>1, <2>2, <2>3, <2>4 DEF Write
<1>5. CASE GoesOn
  <2>1. TypeOK'
    BY <1>1, <1>4, <1>5 DEF TypeOK
  <2> QED
    BY <1>1, <1>2, <1>5, <2>1 DEF ThreadsInPlace, LockGuardsWrites,
           PointerIsConn, AcceptHasClient, ClosingHasCause
<1>6. CASE Begins1
  <2>1. TypeOK'
    BY <1>1, <1>4, <1>6 DEF TypeOK
  <2>2. ThreadsInPlace'
    BY <1>1, <1>6 DEF TypeOK, ThreadsInPlace
  <2>3. LockGuardsWrites' /\ PointerIsConn'
    BY <1>1, <1>6 DEF TypeOK, ThreadsInPlace, LockGuardsWrites, PointerIsConn
  <2>4. AcceptHasClient' /\ ClosingHasCause'
    BY <1>1, <1>6 DEF TypeOK, ThreadsInPlace, AcceptHasClient, ClosingHasCause
  <2> QED
    BY <1>2, <2>1, <2>2, <2>3, <2>4
<1>7. ASSUME NEW ok \in BOOLEAN, Ends(ok) PROVE Control'
  <2>1. CASE t = "worker"
    <3>1. After(t, ok) = "idle"
      BY <2>1 DEF After
    <3>2. TypeOK'
      BY <1>1, <1>4, <1>7, <3>1 DEF TypeOK
    <3>3. ThreadsInPlace' /\ LockGuardsWrites' /\ PointerIsConn'
      BY <1>1, <1>7, <2>1, <3>1 DEF TypeOK, ThreadsInPlace, LockGuardsWrites,
             PointerIsConn
    <3>4. AcceptHasClient' /\ ClosingHasCause'
      BY <1>1, <1>7, <2>1, <3>1 DEF TypeOK, AcceptHasClient, ClosingHasCause
    <3> QED
      BY <1>2, <3>2, <3>3, <3>4
  <2>2. CASE t = "main"
    <3>1. /\ pc' = [pc EXCEPT !["main"] = After("main", ok)]
          /\ lock' = IF lock = "main" THEN "none" ELSE lock
          /\ to' = to /\ (pc["main"] = "lock" => lock = "none")
          /\ pc["main"] \in {"lock", "send"}
      BY <1>1, <1>7, <2>2
    <3>2. msg["main"].kind \in MsgKind \ {"none"}
      BY <3>1 DEF TypeOK, ThreadsInPlace, Msg
    <3>3. /\ After("main", ok) \in {"opened", "refused", "dispatch", "extract", "closing"}
          /\ After("main", ok) = "opened" <=> msg["main"].kind = "hello"
          /\ After("main", ok) = "refused" <=> msg["main"].kind = "refused"
          /\ After("main", ok) = "dispatch" <=> msg["main"].kind = "event"
          /\ After("main", ok) = "closing" =>
                msg["main"].kind \in {"toolong", "response"}
      BY <3>2, AfterMain DEF MsgKind
    <3>4. TypeOK'
      <4>1. After("main", ok) \in MainPC
        BY <3>3
      <4>2. pc' \in [Thread -> MainPC \cup WritePC \cup {"idle"}]
        BY <3>1, <4>1 DEF TypeOK
      <4>3. lock' \in Thread \cup {"none"}
        BY <3>1 DEF TypeOK
      <4> QED
        BY <1>1, <1>4, <3>1, <4>2, <4>3 DEF TypeOK
    <3>5. ThreadsInPlace'
      BY <1>1, <3>1, <3>2, <3>3 DEF TypeOK, MsgKind, ThreadsInPlace
    <3>6. LockGuardsWrites' /\ PointerIsConn'
      BY <1>1, <3>1, <3>2, <3>3 DEF TypeOK, MsgKind, ThreadsInPlace,
             LockGuardsWrites, PointerIsConn
    <3>7. AcceptHasClient' /\ ClosingHasCause'
      BY <1>1, <3>1, <3>2, <3>3 DEF TypeOK, MsgKind, ThreadsInPlace,
             AcceptHasClient, ClosingHasCause
    <3> QED
      BY <1>2, <3>4, <3>5, <3>6, <3>7
  <2> QED
    BY <2>1, <2>2
<1> QED
  BY <1>3, <1>5, <1>6, <1>7

\* accept() takes a client that no thread has touched before.
LEMMA AcceptControl ==
    ASSUME Control, Refuse \/ OpenConn \/ OpenFail
    PROVE  Control'
<1> USE UnitsAssumption, ConnAssumption
    DEF Control, Writing, AtHello, Refusing, InInput, WritePC, MainPC, Thread
<1> DEFINE c == Head(backlog)
<1>1. /\ UNCHANGED <<up, sent, rd, out, lock, active, lready, ending, stop, nev>>
      /\ pc["main"] = "accept" /\ backlog' = Tail(backlog)
  BY DEF Refuse, OpenConn, OpenFail, clientVars, eventVars, loopVars
<1>2. backlog \in Seq(Conn) /\ backlog # <<>>
  BY <1>1 DEF TypeOK, AcceptHasClient
<1>3. /\ Len(backlog) > 0 /\ Len(backlog) \in Nat /\ c = backlog[1] /\ c \in Conn
      /\ backlog' \in Seq(Conn) /\ Len(backlog') = Len(backlog) - 1
      /\ \A i \in 1..Len(backlog') : backlog'[i] = backlog[i + 1]
  BY <1>1, <1>2, TakeFirst
<1>4. fd[c] = "none" /\ up[c] # "no" /\ c # cur
  BY <1>3 DEF BacklogIsFresh, PointerIsConn
<1>5. \A i \in 1..Len(backlog') : backlog'[i] # c
  BY <1>3 DEF BacklogIsFresh
<1>6. ASSUME NEW state \in {"open", "closed"}, fd' = [fd EXCEPT ![c] = state]
      PROVE  BacklogIsFresh'
  <2>1. \A d \in Conn \ {c} : fd'[d] = fd[d]
    BY <1>6 DEF TypeOK
  <2>2. \A i \in 1..Len(backlog') : backlog'[i] \in Conn /\ i + 1 \in 1..Len(backlog)
    <3> DEFINE r == backlog'  n == Len(backlog)
    <3>1. r \in Seq(Conn) /\ n \in Nat /\ Len(r) = n - 1
      BY <1>3
    <3> HIDE DEF Control, r, n
    <3>2. \A i \in 1..Len(r) : r[i] \in Conn
      BY <3>1
    <3>3. \A i \in 1..Len(r) : i + 1 \in 1..n
      BY <3>1
    <3> QED
      BY <3>2, <3>3 DEF r, n
  <2>3. \A i, j \in 1..Len(backlog') : backlog'[i] = backlog'[j] => i = j
    <3>1. \A i, j \in 1..Len(backlog) : backlog[i] = backlog[j] => i = j
      BY DEF BacklogIsFresh
    <3> HIDE DEF Control
    <3> SUFFICES ASSUME NEW i \in 1..Len(backlog'), NEW j \in 1..Len(backlog'),
                        backlog'[i] = backlog'[j]
                 PROVE  i = j
      OBVIOUS
    <3>2. backlog[i + 1] = backlog[j + 1]
      BY <1>3
    <3>3. i + 1 = j + 1
      BY <2>2, <3>1, <3>2
    <3>4. i \in Int /\ j \in Int
      OBVIOUS
    <3> QED
      BY <3>3, <3>4
  <2>4. \A i \in 1..Len(backlog') :
            fd'[backlog'[i]] = "none" /\ up'[backlog'[i]] # "no"
    BY <1>1, <1>3, <1>5, <2>1, <2>2 DEF BacklogIsFresh
  <2>5. \A d \in Conn : up'[d] = "no" => fd'[d] = "none"
    BY <1>1, <1>4, <2>1 DEF BacklogIsFresh
  <2> QED
    BY <2>3, <2>4, <2>5 DEF BacklogIsFresh
<1>7. CASE Refuse
  <2>1. /\ fd' = [fd EXCEPT ![c] = "open"] /\ pc' = [pc EXCEPT !["main"] = "send"]
        /\ msg' = [msg EXCEPT !["main"] = Refusal(c)]
        /\ to' = [to EXCEPT !["main"] = c] /\ left' = [left EXCEPT !["main"] = Units]
        /\ UNCHANGED <<framing, cur, filled, taken>> /\ active
    BY <1>7 DEF Refuse, Goto, eventVars, loopVars
  <2>2. Refusal(c) \in Msg /\ Refusal(c).kind = "refused"
    BY <1>3, MessageTypes DEF Refusal, Message
  <2>3. TypeOK'
    <3>1. msg' \in [Thread -> Msg]
      BY <2>1, <2>2 DEF TypeOK
    <3>2. left' \in [Thread -> 0..Units]
      BY <2>1 DEF TypeOK
    <3> QED
      BY <1>1, <1>3, <2>1, <3>1, <3>2 DEF TypeOK
  <2>4. ThreadsInPlace'
    BY <1>1, <2>1, <2>2 DEF TypeOK, ThreadsInPlace
  <2>5. LockGuardsWrites' /\ PointerIsConn'
    BY <1>1, <1>3, <1>4, <2>1, <2>2 DEF TypeOK, ThreadsInPlace, LockGuardsWrites,
           PointerIsConn
  <2>6. AcceptHasClient' /\ ClosingHasCause'
    BY <1>1, <2>1, <2>2 DEF TypeOK, ThreadsInPlace, AcceptHasClient, ClosingHasCause
  <2> QED
    BY <1>6, <2>1, <2>3, <2>4, <2>5, <2>6
<1>8. CASE OpenConn
  <2>1. /\ fd' = [fd EXCEPT ![c] = "open"] /\ pc' = [pc EXCEPT !["main"] = "hello"]
        /\ cur' = c /\ framing' = c /\ filled' = 0 /\ taken' = 0
        /\ UNCHANGED <<msg, to, left>> /\ ~active /\ lock = "none"
    BY <1>8 DEF OpenConn, Goto, writeVars
  <2>2. TypeOK'
    BY <1>1, <1>3, <2>1 DEF TypeOK
  <2>3. ThreadsInPlace' /\ LockGuardsWrites' /\ PointerIsConn'
    BY <1>1, <1>3, <1>4, <2>1 DEF TypeOK, ThreadsInPlace, LockGuardsWrites,
           PointerIsConn
  <2>4. AcceptHasClient' /\ ClosingHasCause'
    BY <1>1, <2>1 DEF TypeOK, ThreadsInPlace, AcceptHasClient, ClosingHasCause
  <2> QED
    BY <1>6, <2>1, <2>2, <2>3, <2>4
<1>9. CASE OpenFail
  <2>1. /\ fd' = [fd EXCEPT ![c] = "closed"] /\ pc' = [pc EXCEPT !["main"] = "loop"]
        /\ UNCHANGED <<framing, cur, filled, taken, msg, to, left>>
    BY <1>9 DEF OpenFail, Goto, eventVars, loopVars, writeVars
  <2>2. TypeOK'
    BY <1>1, <1>3, <2>1 DEF TypeOK
  <2>3. ThreadsInPlace' /\ LockGuardsWrites' /\ PointerIsConn'
    BY <1>1, <1>3, <1>4, <2>1 DEF TypeOK, ThreadsInPlace, LockGuardsWrites,
           PointerIsConn
  <2>4. AcceptHasClient' /\ ClosingHasCause'
    BY <1>1, <2>1 DEF TypeOK, ThreadsInPlace, AcceptHasClient, ClosingHasCause
  <2> QED
    BY <1>6, <2>1, <2>2, <2>3, <2>4
<1> QED
  BY <1>7, <1>8, <1>9

\* Sockets are closed: that of a refused client, and that of the connection
\* once set_conn(NULL) has waited for the write in flight.
LEMMA CloseControl ==
    ASSUME Control, RefuseClose \/ CloseConn \/ CloseSock
    PROVE  Control'
<1> USE UnitsAssumption, ConnAssumption
    DEF Control, Writing, AtHello, Refusing, InInput, WritePC, MainPC, Thread
<1>1. UNCHANGED <<up, sent, rd, out, backlog, lock, msg, to, left, lready, filled,
                  taken, ending, stop, nev>>
  BY DEF RefuseClose, CloseConn, CloseSock, clientVars, eventVars, writeVars, loopVars
<1>2. ASSUME NEW c \in Conn, fd[c] = "open", fd' = [fd EXCEPT ![c] = "closed"]
      PROVE  BacklogIsFresh'
  <2>1. backlog \in Seq(Conn) /\ \A d \in Conn : fd[d] = "none" <=> fd'[d] = "none"
    BY <1>2 DEF TypeOK
  <2> QED
    BY <1>1, <2>1 DEF BacklogIsFresh
<1>3. CASE RefuseClose
  <2> DEFINE c == to["main"]
  <2>1. /\ pc["main"] = "refused" /\ pc' = [pc EXCEPT !["main"] = "loop"]
        /\ fd' = [fd EXCEPT ![c] = "closed"] /\ UNCHANGED <<framing, cur, active>>
    BY <1>3 DEF RefuseClose, Goto, eventVars, loopVars
  <2>2. c \in Conn /\ c # cur /\ fd[c] = "open" /\ lock # "main"
    BY <2>1 DEF LockGuardsWrites
  <2>3. TypeOK'
    BY <1>1, <2>1, <2>2 DEF TypeOK
  <2>4. ThreadsInPlace' /\ LockGuardsWrites' /\ PointerIsConn'
    BY <1>1, <2>1, <2>2 DEF TypeOK, ThreadsInPlace, LockGuardsWrites, PointerIsConn
  <2>5. AcceptHasClient' /\ ClosingHasCause'
    BY <1>1, <2>1 DEF TypeOK, ThreadsInPlace, AcceptHasClient, ClosingHasCause
  <2> QED
    BY <1>2, <2>1, <2>2, <2>3, <2>4, <2>5
<1>4. CASE CloseConn
  <2>1. /\ pc["main"] = "closing" /\ pc' = [pc EXCEPT !["main"] = "closesock"]
        /\ lock = "none" /\ framing' = NoConn /\ UNCHANGED <<fd, cur, active>>
    BY <1>4 DEF CloseConn, Goto, loopVars
  <2>2. TypeOK'
    BY <1>1, <2>1 DEF TypeOK
  <2>3. ThreadsInPlace' /\ LockGuardsWrites' /\ PointerIsConn'
    BY <1>1, <2>1 DEF TypeOK, ThreadsInPlace, LockGuardsWrites, PointerIsConn
  <2>4. BacklogIsFresh' /\ AcceptHasClient' /\ ClosingHasCause'
    BY <1>1, <2>1 DEF TypeOK, BacklogIsFresh, AcceptHasClient, ClosingHasCause
  <2> QED
    BY <2>2, <2>3, <2>4
<1>5. CASE CloseSock
  <2>1. /\ pc["main"] = "closesock" /\ active' = FALSE /\ cur' = NoConn
        /\ fd' = [fd EXCEPT ![cur] = "closed"] /\ framing' = framing
        /\ pc' = [pc EXCEPT !["main"] = IF ending THEN "done"
                                        ELSE IF lready THEN "accept" ELSE "loop"]
    BY <1>5 DEF CloseSock, AfterInput, Goto, eventVars
  <2>2. cur \in Conn /\ fd[cur] = "open" /\ framing = NoConn /\ lock = "none"
    BY <2>1 DEF TypeOK, ThreadsInPlace, PointerIsConn
  <2>3. TypeOK'
    BY <1>1, <2>1, <2>2 DEF TypeOK
  <2>4. ThreadsInPlace' /\ LockGuardsWrites' /\ PointerIsConn'
    BY <1>1, <2>1, <2>2 DEF TypeOK, ThreadsInPlace, LockGuardsWrites, PointerIsConn
  <2>5. AcceptHasClient' /\ ClosingHasCause'
    BY <1>1, <2>1 DEF TypeOK, ThreadsInPlace, AcceptHasClient, ClosingHasCause
  <2> QED
    BY <1>2, <2>1, <2>2, <2>3, <2>4, <2>5
<1> QED
  BY <1>3, <1>4, <1>5

\* Every step of the server, of its threads and of its clients preserves the
\* first layer.
LEMMA ControlStep == Control /\ [Next]_vars => Control'
<1> SUFFICES ASSUME Control, [Next]_vars PROVE Control'
  OBVIOUS
<1>1. CASE UNCHANGED vars
  <2>1. UNCHANGED <<up, sent, rd, out, backlog, fd, framing, lock, pc, msg, to, left,
                    cur, active, lready, filled, taken, ending, stop, nev>>
    BY <1>1 DEF vars, clientVars, eventVars, writeVars, loopVars
  <2>2. TypeOK'
    BY <2>1 DEF Control, TypeOK
  <2>3. /\ ThreadsInPlace' /\ LockGuardsWrites' /\ PointerIsConn'
        /\ AcceptHasClient' /\ ClosingHasCause'
    BY <2>1 DEF Control, ThreadsInPlace, LockGuardsWrites, PointerIsConn,
           AcceptHasClient, ClosingHasCause, Writing, AtHello, Refusing, InInput
  <2>4. BacklogIsFresh'
    BY <2>1 DEF Control, BacklogIsFresh
  <2> QED
    BY <2>2, <2>3, <2>4 DEF Control
<1>2. CASE Main
  BY <1>2, LoopControl, MainStartsControl, AcceptControl, CloseControl DEF Main
<1> QED
  BY <1>1, <1>2, ClientControl, WorkerControl, LoopControl, WriteControl DEF Next

-----------------------------------------------------------------------------
(* What the first layer says. *)

\* All the variables of the server, the event sink and the two threads keep
\* their types, whatever clients and callbacks do.
THEOREM TypeCorrect == Spec => []TypeOK
<1>1. Control => TypeOK
  BY DEF Control
<1> QED
  BY <1>1, InitControl, ControlStep, PTL DEF Spec

\* close_conn() never closes a socket under a write in flight, and no refusal
\* is written to a socket that has gone: the lock and the order of close_conn()
\* are enough, for any number of clients.
THEOREM SocketsOutliveWrites == Spec => []NoWriteToClosedSocket
<1>1. Control => NoWriteToClosedSocket
  BY ConnAssumption DEF Control, TypeOK, LockGuardsWrites, PointerIsConn,
     NoWriteToClosedSocket, Thread, Refusing
<1> QED
  BY <1>1, InitControl, ControlStep, PTL DEF Spec

\* The event sink never keeps a pointer into a stack frame of
\* pjsocky_server_run() that has returned, or to a closed connection.
THEOREM PointerIsCleared == Spec => []FramingIsNotDangling
<1>1. Control => FramingIsNotDangling
  BY ConnAssumption DEF Control, TypeOK, ThreadsInPlace, PointerIsConn,
     FramingIsNotDangling, AtHello, Writing, WritePC
<1> QED
  BY <1>1, InitControl, ControlStep, PTL DEF Spec

-----------------------------------------------------------------------------
(* The second layer: Wire. *)

\* A thread that writes does so to an open socket, and never to the one the
\* other thread is writing to.
LEMMA WritersApart ==
    ASSUME Control
    PROVE  /\ \A t \in Thread : pc[t] = "send" =>
                 /\ to[t] \in Conn /\ fd[to[t]] = "open"
                 /\ \/ t = "main" /\ Refusing
                    \/ to[t] = cur /\ ~(t = "main" /\ Refusing)
           /\ \A t, u \in Thread :
                 pc[t] = "send" /\ pc[u] = "send" /\ t # u => to[t] # to[u]
BY ConnAssumption DEF Control, TypeOK, ThreadsInPlace, LockGuardsWrites,
   PointerIsConn, Refusing, Thread

\* One send(): some of the rest of the message goes to the end of its socket.
LEMMA SendStep ==
    ASSUME Control, NEW t \in Thread, Send(t)
    PROVE  LET c == to[t]
           IN  /\ c \in Conn /\ fd[c] = "open" /\ left[t] \in 0..Units
               /\ msg[t] \in Msg /\ pc[t] = "send"
               /\ out[c] \in Seq(Unit) /\ out'[c] \in Seq(Unit)
               /\ \A d \in Conn \ {c} : out'[d] = out[d]
               /\ UNCHANGED <<up, sent, rd, backlog, fd, framing, msg, to, cur, active,
                              lready, filled, taken, ending, stop, nev>>
               /\ \E k \in 1..left[t] :
                     /\ left' = [left EXCEPT ![t] = left[t] - k]
                     /\ \/ k = left[t] /\ pc' = [pc EXCEPT ![t] = After(t, TRUE)]
                        \/ k < left[t] /\ pc' = pc
                     /\ Len(out'[c]) = Len(out[c]) + k
                     /\ \A i \in 1..Len(out[c]) : out'[c][i] = out[c][i]
                     /\ \A i \in (Len(out[c]) + 1)..Len(out'[c]) :
                           /\ out'[c][i].msg = msg[t]
                           /\ out'[c][i].unit = Units - left[t] + (i - Len(out[c]))
<1> DEFINE c == to[t]
<1>1. /\ pc[t] = "send"
      /\ UNCHANGED <<up, sent, rd, backlog, fd, framing, msg, to, cur, active,
                     lready, filled, taken, ending, stop, nev>>
  BY DEF Send, clientVars, loopVars
<1>2. /\ c \in Conn /\ fd[c] = "open" /\ left[t] \in 0..Units
      /\ msg[t] \in Msg /\ out[c] \in Seq(Unit)
  BY <1>1, WritersApart DEF Control, TypeOK
<1>3. PICK k \in 1..left[t] :
          /\ out' = [out EXCEPT ![c] = @ \o Chunk(msg[t], left[t], k)]
          /\ left' = [left EXCEPT ![t] = @ - k]
          /\ IF k = left[t] THEN Finish(t, TRUE) ELSE UNCHANGED <<lock, pc>>
  BY DEF Send
<1>4. /\ out'[c] = out[c] \o Chunk(msg[t], left[t], k)
      /\ \A d \in Conn \ {c} : out'[d] = out[d]
  BY <1>2, <1>3 DEF Control, TypeOK
<1>5. /\ out'[c] \in Seq(Unit) /\ Len(out'[c]) = Len(out[c]) + k
      /\ \A i \in 1..Len(out[c]) : out'[c][i] = out[c][i]
      /\ \A i \in (Len(out[c]) + 1)..Len(out'[c]) :
            /\ out'[c][i].msg = msg[t]
            /\ out'[c][i].unit = Units - left[t] + (i - Len(out[c]))
  <2> DEFINE s == out[c]  m == msg[t]  n == left[t]
  <2>1. s \in Seq(Unit) /\ m \in Msg /\ n \in 0..Units /\ k \in 1..n
    BY <1>2
  <2> HIDE DEF s, m, n
  <2> DEFINE r == s \o Chunk(m, n, k)
  <2>2. /\ r \in Seq(Unit) /\ Len(r) = Len(s) + k
        /\ \A i \in 1..Len(s) : r[i] = s[i]
        /\ \A i \in (Len(s) + 1)..Len(r) :
              r[i].msg = m /\ r[i].unit = Units - n + (i - Len(s))
    BY <2>1, AppendChunk, ZenonT(30)
  <2>3. out'[c] = r
    BY <1>4 DEF s, m, n
  <2> HIDE DEF r
  <2> QED
    BY <2>2, <2>3 DEF s, m, n
<1>6. \/ k = left[t] /\ pc' = [pc EXCEPT ![t] = After(t, TRUE)]
      \/ k < left[t] /\ pc' = pc
  <2>1. k < left[t] \/ k = left[t]
    BY <1>2, UnitsAssumption
  <2> QED
    BY <1>3, <2>1 DEF Finish, Goto
<1>7. left' = [left EXCEPT ![t] = left[t] - k]
  BY <1>3
<1> QED
  BY <1>1, <1>2, <1>4, <1>5, <1>6, <1>7

\* Every other step leaves what is on the sockets alone; a write that is going
\* on goes on or ends, and one that starts has its whole message to send.
LEMMA QuietStep ==
    ASSUME Control, [Next]_vars, \A t \in Thread : ~Send(t)
    PROVE  /\ out' = out
           /\ \A c \in Conn : fd'[c] = "none" => fd[c] = "none"
           /\ \A t \in Thread : pc'[t] = "send" =>
                 \/ left'[t] = Units
                 \/ /\ pc[t] = "send" /\ to'[t] = to[t] /\ msg'[t] = msg[t]
                    /\ left'[t] = left[t]
           /\ cur' \in {cur, NoConn} \/ (cur' \in Conn /\ fd[cur'] = "none")
           /\ cur' = cur /\ AtHello' /\ pc'["main"] # "opened" /\ NotBegun' =>
                 AtHello /\ pc["main"] # "opened" /\ NotBegun
           /\ Refusing' => \/ Refusing /\ to'["main"] = to["main"]
                           \/ to'["main"] \in Conn /\ fd[to'["main"]] = "none"
<1> DEFINE Goal ==
           /\ out' = out
           /\ \A c \in Conn : fd'[c] = "none" => fd[c] = "none"
           /\ \A t \in Thread : pc'[t] = "send" =>
                 \/ left'[t] = Units
                 \/ /\ pc[t] = "send" /\ to'[t] = to[t] /\ msg'[t] = msg[t]
                    /\ left'[t] = left[t]
           /\ cur' \in {cur, NoConn} \/ (cur' \in Conn /\ fd[cur'] = "none")
           /\ cur' = cur /\ AtHello' /\ pc'["main"] # "opened" /\ NotBegun' =>
                 AtHello /\ pc["main"] # "opened" /\ NotBegun
           /\ Refusing' => \/ Refusing /\ to'["main"] = to["main"]
                           \/ to'["main"] \in Conn /\ fd[to'["main"]] = "none"
<1> USE DEF Control, Thread, Writing, WritePC, AtHello, Refusing, NotBegun
<1>1. CASE UNCHANGED vars
  BY <1>1 DEF vars, clientVars, eventVars, writeVars, loopVars
<1>2. CASE Stop \/ \E c \in Conn : Client(c)
  <2>1. UNCHANGED <<out, fd, pc, msg, to, left, cur>>
    BY <1>2 DEF Stop, Client, Connect, SendLine, Read, Hangup, writeVars, loopVars
  <2> QED
    BY <2>1
<1>3. CASE WorkerEvent
  <2>1. /\ UNCHANGED <<out, fd, to, left, cur>> /\ pc' = [pc EXCEPT !["worker"] = "lock"]
        /\ msg' = [msg EXCEPT !["worker"] = Event(nev + 1)]
    BY <1>3 DEF WorkerEvent, StartWrite, Goto, loopVars
  <2> QED
    BY <2>1 DEF TypeOK
<1>4. CASE \/ Select \/ LoopExit \/ SelectFail \/ AcceptFail \/ Fill \/ FillEnd
           \/ ExtractPending \/ OpenDone
  <2>1. /\ UNCHANGED <<out, fd, msg, to, left, cur>>
        /\ \E l \in {"loop", "input", "accept", "extract", "closing", "done"} :
              pc' = [pc EXCEPT !["main"] = l]
    BY <1>4 DEF Select, LoopExit, SelectFail, AcceptFail, Leave, Fill, FillEnd,
           ExtractPending, OpenDone, AfterInput, Goto, writeVars, loopVars
  <2> QED
    BY <2>1 DEF TypeOK
<1>5. CASE ExtractLine \/ DispatchCallback \/ Dispatch \/ PushHello
  <2>1. /\ UNCHANGED <<out, fd, to, left, cur>>
        /\ \E l \in {"lock", "dispatch"} : pc' = [pc EXCEPT !["main"] = l]
    BY <1>5 DEF ExtractLine, DispatchCallback, Dispatch, PushHello, StartWrite,
           Goto, writeVars, loopVars
  <2>2. pc["main"] = "hello" \/ (msg'["main"].kind # "hello" \/ pc'["main"] = "dispatch")
    BY <1>5 DEF TypeOK, ExtractLine, DispatchCallback, Dispatch, PushHello,
           StartWrite, Goto, ErrorEvent, Event, Response, Message
  <2>3. msg'["worker"] = msg["worker"]
    BY <1>5 DEF TypeOK, ExtractLine, DispatchCallback, Dispatch, PushHello,
           StartWrite, writeVars
  <2> QED
    BY <2>1, <2>2, <2>3 DEF TypeOK
<1>6. CASE Refuse \/ OpenConn \/ OpenFail
  <2>1. backlog \in Seq(Conn) /\ backlog # <<>>
    BY <1>6 DEF TypeOK, AcceptHasClient, Refuse, OpenConn, OpenFail
  <2>2. Head(backlog) \in Conn /\ fd[Head(backlog)] = "none"
    BY <2>1, TakeFirst DEF BacklogIsFresh
  <2>3. CASE Refuse
    BY <2>2, <2>3 DEF TypeOK, Refuse, Goto, loopVars, Refusal, Message
  <2>4. CASE OpenConn \/ OpenFail
    BY <2>2, <2>4, ConnAssumption DEF TypeOK, PointerIsConn, OpenConn, OpenFail,
           Goto, writeVars, loopVars
  <2> QED
    BY <1>6, <2>3, <2>4
<1>7. CASE RefuseClose \/ CloseConn \/ CloseSock
  <2>1. /\ UNCHANGED <<out, msg, to, left>> /\ cur' \in {cur, NoConn}
        /\ \E l \in {"loop", "closesock", "accept", "done"} :
              pc' = [pc EXCEPT !["main"] = l]
        /\ fd' = fd \/ \E c \in Conn \cup {NoConn} : fd' = [fd EXCEPT ![c] = "closed"]
    BY <1>7 DEF TypeOK, RefuseClose, CloseConn, CloseSock, AfterInput, Goto,
           writeVars, loopVars
  <2> QED
    BY <2>1 DEF TypeOK
<1>8. ASSUME NEW t \in Thread, Begin(t) \/ BeginFail(t) \/ SendFail(t)
      PROVE  Goal
  <2>1. /\ UNCHANGED <<out, fd, msg, cur>>
        /\ \/ /\ pc[t] = "lock" /\ pc' = [pc EXCEPT ![t] = "send"]
              /\ left' = [left EXCEPT ![t] = Units]
              /\ to' = [to EXCEPT ![t] = framing]
           \/ /\ \E ok \in BOOLEAN : pc' = [pc EXCEPT ![t] = After(t, ok)]
              /\ to' = to /\ pc[t] \in {"lock", "send"}
              /\ left' = left \/ left' = [left EXCEPT ![t] = 0]
    BY <1>8 DEF Begin, BeginFail, SendFail, Finish, Goto, eventVars, writeVars, loopVars
  <2>2. CASE t = "worker"
    BY <2>1, <2>2 DEF TypeOK, After
  <2>3. CASE t = "main"
    <3>1. msg["main"].kind \in MsgKind \ {"none"}
      BY <2>1, <2>3 DEF TypeOK, ThreadsInPlace, Msg
    <3>2. \A ok \in BOOLEAN :
            /\ After("main", ok) \in {"opened", "refused", "dispatch", "extract", "closing"}
            /\ After("main", ok) = "refused" <=> msg["main"].kind = "refused"
      BY <3>1, AfterMain DEF MsgKind
    <3>3. msg["main"].kind = "refused" => pc["main"] = "send"
      BY <2>1, <2>3 DEF ThreadsInPlace
    <3> QED
      BY <2>1, <2>3, <3>1, <3>2, <3>3 DEF TypeOK
  <2> QED
    BY <2>2, <2>3
<1> QED
  BY <1>1, <1>2, <1>3, <1>4, <1>5, <1>6, <1>7, <1>8 DEF Next, Main, Write

\* The sockets are empty when the server starts.
LEMMA InitWire == Init => Wire
BY ConnAssumption DEF Init, Wire, WriterOwnsTheEnd, KindsOnTheWire, MessagesDoNotInterleave,
   GreetedOrRefused, Thread, Refusing

\* A message is extended where it ends, by the thread that began it.
LEMMA EndIsOwned ==
    ASSUME Control, WriterOwnsTheEnd, [Next]_vars
    PROVE  WriterOwnsTheEnd'
<1>1. CASE \A t \in Thread : ~Send(t)
  <2>1. /\ out' = out
        /\ \A c \in Conn : fd'[c] = "none" => fd[c] = "none"
        /\ \A t \in Thread : pc'[t] = "send" =>
              \/ left'[t] = Units
              \/ /\ pc[t] = "send" /\ to'[t] = to[t] /\ msg'[t] = msg[t]
                 /\ left'[t] = left[t]
    BY <1>1, QuietStep
  <2> QED
    BY <2>1, UnitsAssumption DEF WriterOwnsTheEnd
<1>2. ASSUME NEW t \in Thread, Send(t) PROVE WriterOwnsTheEnd'
  <2> DEFINE c == to[t]
  <2>1. /\ c \in Conn /\ fd[c] = "open" /\ left[t] \in 0..Units
        /\ pc[t] = "send" /\ out[c] \in Seq(Unit) /\ out'[c] \in Seq(Unit)
        /\ \A d \in Conn \ {c} : out'[d] = out[d]
        /\ UNCHANGED <<fd, msg, to>>
    BY <1>2, SendStep
  <2>2. PICK k \in 1..left[t] :
           /\ left' = [left EXCEPT ![t] = left[t] - k]
           /\ \/ k = left[t] /\ pc' = [pc EXCEPT ![t] = After(t, TRUE)]
              \/ k < left[t] /\ pc' = pc
           /\ Len(out'[c]) = Len(out[c]) + k
           /\ \A i \in 1..Len(out[c]) : out'[c][i] = out[c][i]
           /\ \A i \in (Len(out[c]) + 1)..Len(out'[c]) :
                 /\ out'[c][i].msg = msg[t]
                 /\ out'[c][i].unit = Units - left[t] + (i - Len(out[c]))
    BY <1>2, SendStep
  <2>3. \A d \in Conn : fd'[d] = "none" => out'[d] = <<>>
    BY <2>1 DEF WriterOwnsTheEnd
  <2>4. ASSUME NEW u \in Thread, pc'[u] = "send"
        PROVE  /\ left'[u] > 0
               /\ left'[u] < Units =>
                    /\ Len(out'[to'[u]]) > 0
                    /\ out'[to'[u]][Len(out'[to'[u]])].msg = msg'[u]
                    /\ out'[to'[u]][Len(out'[to'[u]])].unit = Units - left'[u]
    <3>1. CASE u # t
      <4>1. pc[u] = "send" /\ left'[u] = left[u]
        BY <2>2, <2>4, <3>1 DEF Control, TypeOK
      <4>2. to[u] # c /\ to[u] \in Conn
        BY <4>1, <2>1, <3>1, WritersApart
      <4> QED
        BY <2>1, <4>1, <4>2 DEF WriterOwnsTheEnd
    <3>2. CASE u = t
      <4>1. After(t, TRUE) # "send"
        BY <2>1, AfterMain DEF Control, TypeOK, ThreadsInPlace, Writing, WritePC,
               Msg, MsgKind, After, Thread
      <4>2. k < left[t] /\ left'[t] = left[t] - k
        BY <2>2, <2>4, <3>2, <4>1 DEF Control, TypeOK
      <4>3. Len(out'[c]) = Len(out[c]) + k /\ Len(out[c]) \in Nat /\ k > 0
            /\ left[t] \in Int /\ k \in Int
        BY <2>1, <2>2, UnitsAssumption
      <4>4. /\ out'[c][Len(out'[c])].msg = msg[t]
            /\ out'[c][Len(out'[c])].unit = Units - left[t] + k
        <5>1. Len(out'[c]) \in (Len(out[c]) + 1)..Len(out'[c])
          BY <4>3
        <5>2. Units - left[t] + (Len(out'[c]) - Len(out[c])) = Units - left[t] + k
          BY <4>3, UnitsAssumption
        <5> QED
          BY <2>2, <5>1, <5>2
      <4>5. Units - left[t] + k = Units - (left[t] - k)
        BY <4>3, UnitsAssumption
      <4> QED
        BY <2>1, <3>2, <4>2, <4>3, <4>4, <4>5
    <3> QED
      BY <3>1, <3>2
  <2> QED
    BY <2>3, <2>4 DEF WriterOwnsTheEnd
<1> QED
  BY <1>1, <1>2

\* The lock keeps the messages of the two threads apart on every wire.
LEMMA UnitsStayTogether ==
    ASSUME Control, WriterOwnsTheEnd, MessagesDoNotInterleave, [Next]_vars
    PROVE  MessagesDoNotInterleave'
<1>1. CASE \A t \in Thread : ~Send(t)
  <2>1. out' = out
    BY <1>1, QuietStep
  <2> QED
    BY <2>1 DEF MessagesDoNotInterleave
<1>2. ASSUME NEW t \in Thread, Send(t) PROVE MessagesDoNotInterleave'
  <2> DEFINE c == to[t]
  <2>1. /\ c \in Conn /\ left[t] \in 0..Units /\ pc[t] = "send"
        /\ out[c] \in Seq(Unit) /\ out'[c] \in Seq(Unit)
        /\ \A d \in Conn \ {c} : out'[d] = out[d]
    BY <1>2, SendStep
  <2>2. PICK k \in 1..left[t] :
           /\ Len(out'[c]) = Len(out[c]) + k
           /\ \A i \in 1..Len(out[c]) : out'[c][i] = out[c][i]
           /\ \A i \in (Len(out[c]) + 1)..Len(out'[c]) :
                 /\ out'[c][i].msg = msg[t]
                 /\ out'[c][i].unit = Units - left[t] + (i - Len(out[c]))
    BY <1>2, SendStep
  <2>3. /\ Len(out[c]) \in Nat /\ Len(out'[c]) \in Nat /\ left[t] \in Nat /\ k \in Nat
    BY <2>1, <2>2, UnitsAssumption
  <2>4. left[t] < Units =>
           /\ Len(out[c]) > 0
           /\ out[c][Len(out[c])].msg = msg[t]
           /\ out[c][Len(out[c])].unit = Units - left[t]
    BY <2>1 DEF WriterOwnsTheEnd
  <2>5. ASSUME NEW i \in 1..Len(out'[c]), out'[c][i].unit > 1
        PROVE  /\ i > 1 /\ out'[c][i - 1].msg = out'[c][i].msg
               /\ out'[c][i - 1].unit = out'[c][i].unit - 1
    <3>1. CASE i <= Len(out[c])
      <4>1. i \in 1..Len(out[c]) /\ out'[c][i] = out[c][i]
        BY <2>2, <2>3, <3>1
      <4>2. /\ i > 1 /\ out[c][i - 1].msg = out[c][i].msg
            /\ out[c][i - 1].unit = out[c][i].unit - 1
        BY <2>1, <2>5, <4>1 DEF MessagesDoNotInterleave
      <4>3. i - 1 \in 1..Len(out[c])
        BY <2>3, <4>1, <4>2
      <4> QED
        BY <2>2, <4>1, <4>2, <4>3
    <3>2. CASE i = Len(out[c]) + 1
      <4>1. out'[c][i].msg = msg[t] /\ out'[c][i].unit = Units - left[t] + 1
        <5>1. i \in (Len(out[c]) + 1)..Len(out'[c])
          BY <2>3, <3>2
        <5>2. Units - left[t] + (i - Len(out[c])) = Units - left[t] + 1
          BY <2>3, <3>2, UnitsAssumption
        <5> QED
          BY <2>2, <5>1, <5>2
      <4>2. left[t] < Units /\ left[t] <= Units
        BY <2>1, <2>3, <2>5, <4>1, UnitsAssumption
      <4>3. out'[c][i - 1].msg = msg[t] /\ out'[c][i - 1].unit = Units - left[t]
        <5>1. i - 1 = Len(out[c]) /\ Len(out[c]) \in 1..Len(out[c])
          BY <2>3, <2>4, <3>2, <4>2
        <5> QED
          BY <2>2, <2>4, <4>2, <5>1
      <4>4. i > 1 /\ Units - left[t] = Units - left[t] + 1 - 1
        BY <2>3, <2>4, <3>2, <4>2, UnitsAssumption
      <4> QED
        BY <2>3, <4>1, <4>3, <4>4, UnitsAssumption
    <3>3. CASE i > Len(out[c]) + 1
      <4>1. /\ i \in (Len(out[c]) + 1)..Len(out'[c])
            /\ i - 1 \in (Len(out[c]) + 1)..Len(out'[c]) /\ i > 1
        BY <2>3, <3>3
      <4>2. /\ out'[c][i].msg = msg[t] /\ out'[c][i - 1].msg = msg[t]
            /\ out'[c][i].unit = Units - left[t] + (i - Len(out[c]))
            /\ out'[c][i - 1].unit = Units - left[t] + (i - 1 - Len(out[c]))
        BY <2>2, <4>1
      <4>3. i \in Int /\ Units \in Int
        BY <2>3, UnitsAssumption
      <4> DEFINE a == Units - left[t]  n == Len(out[c])
                 u == out'[c][i - 1].unit  v == out'[c][i].unit
      <4>4. a \in Int /\ n \in Int /\ u = a + (i - 1 - n) /\ v = a + (i - n)
        BY <2>3, <4>2, <4>3
      <4> HIDE DEF a, n, u, v
      <4>5. u = v - 1
        BY <4>3, <4>4
      <4> QED
        BY <4>1, <4>2, <4>5 DEF u, v
    <3> QED
      BY <2>3, <3>1, <3>2, <3>3
  <2>6. ASSUME NEW d \in Conn, d # c, NEW i \in 1..Len(out'[d]), out'[d][i].unit > 1
        PROVE  /\ i > 1 /\ out'[d][i - 1].msg = out'[d][i].msg
               /\ out'[d][i - 1].unit = out'[d][i].unit - 1
    BY <2>1, <2>6 DEF MessagesDoNotInterleave
  <2> QED
    BY <2>5, <2>6 DEF MessagesDoNotInterleave
<1> QED
  BY <1>1, <1>2

\* Only a refused client is sent the refusal, and it is sent nothing else; the
\* greeting begins before anything but events is on the wire.
LEMMA GreetingStep ==
    ASSUME Control, WriterOwnsTheEnd, KindsOnTheWire, GreetedOrRefused, [Next]_vars
    PROVE  KindsOnTheWire' /\ GreetedOrRefused'
<1>1. CASE \A t \in Thread : ~Send(t)
  <2>1. /\ out' = out
        /\ cur' \in {cur, NoConn} \/ (cur' \in Conn /\ fd[cur'] = "none")
        /\ cur' = cur /\ AtHello' /\ pc'["main"] # "opened" /\ NotBegun' =>
              AtHello /\ pc["main"] # "opened" /\ NotBegun
        /\ Refusing' => \/ Refusing /\ to'["main"] = to["main"]
                        \/ to'["main"] \in Conn /\ fd[to'["main"]] = "none"
    BY <1>1, QuietStep
  <2>2. GreetedOrRefused'
    BY <2>1 DEF GreetedOrRefused, Begins
  <2>3. \A c \in Conn : fd[c] = "none" => Len(out[c]) = 0
    BY DEF WriterOwnsTheEnd
  <2>4. KindsOnTheWire'
    <3>1. ASSUME cur' # NoConn, NEW i \in 1..Len(out'[cur'])
          PROVE  /\ out'[cur'][i].msg.kind # "refused"
                 /\ AtHello' /\ pc'["main"] # "opened" /\ NotBegun' =>
                       out'[cur'][i].msg.kind = "event"
      BY <2>1, <2>3, <3>1 DEF KindsOnTheWire
    <3>2. ASSUME Refusing', NEW i \in 1..Len(out'[to'["main"]])
          PROVE  out'[to'["main"]][i].msg = Refusal(to'["main"])
      BY <2>1, <2>3, <3>2 DEF KindsOnTheWire
    <3> QED
      BY <3>1, <3>2 DEF KindsOnTheWire
  <2> QED
    BY <2>2, <2>4
<1>2. ASSUME NEW t \in Thread, Send(t) PROVE KindsOnTheWire' /\ GreetedOrRefused'
  <2> DEFINE c == to[t]
             isRefusal == t = "main" /\ Refusing
  <2>1. /\ c \in Conn /\ left[t] \in 0..Units /\ pc[t] = "send"
        /\ out[c] \in Seq(Unit) /\ out'[c] \in Seq(Unit)
        /\ \A d \in Conn \ {c} : out'[d] = out[d]
        /\ UNCHANGED <<msg, to, cur, active>>
    BY <1>2, SendStep
  <2>2. PICK k \in 1..left[t] :
           /\ left' = [left EXCEPT ![t] = left[t] - k]
           /\ \/ k = left[t] /\ pc' = [pc EXCEPT ![t] = After(t, TRUE)]
              \/ k < left[t] /\ pc' = pc
           /\ Len(out'[c]) = Len(out[c]) + k
           /\ \A i \in 1..Len(out[c]) : out'[c][i] = out[c][i]
           /\ \A i \in (Len(out[c]) + 1)..Len(out'[c]) :
                 /\ out'[c][i].msg = msg[t]
                 /\ out'[c][i].unit = Units - left[t] + (i - Len(out[c]))
    BY <1>2, SendStep
  <2>3. Len(out[c]) \in Nat /\ left[t] \in Nat /\ k \in Nat /\ k > 0 /\ left[t] <= Units
    BY <2>1, <2>2, UnitsAssumption
  <2>4. \A i \in 1..Len(out'[c]) :
          \/ i \in 1..Len(out[c]) /\ out'[c][i] = out[c][i]
          \/ i > Len(out[c]) /\ out'[c][i].msg = msg[t]
    <3> SUFFICES ASSUME NEW i \in 1..Len(out'[c])
                 PROVE  \/ i \in 1..Len(out[c]) /\ out'[c][i] = out[c][i]
                        \/ i > Len(out[c]) /\ out'[c][i].msg = msg[t]
      OBVIOUS
    <3>1. i \in 1..Len(out[c]) \/ (i > Len(out[c]) /\ i \in (Len(out[c]) + 1)..Len(out'[c]))
      BY <2>2, <2>3
    <3> QED
      BY <2>2, <3>1
  <2>5. /\ isRefusal \/ (c = cur /\ ~isRefusal)
        /\ isRefusal => c # cur /\ msg[t] = Refusal(c)
        /\ ~isRefusal => msg[t].kind # "refused"
    BY <2>1, WritersApart DEF Control, LockGuardsWrites, ThreadsInPlace, Refusing,
           Writing, WritePC, Thread
  <2>6. Refusal(c).kind = "refused" /\ Hello(c).kind = "hello"
    BY DEF Refusal, Hello, Message
  <2>7. KindsOnTheWire'
    <3>1. Refusing' => Refusing
      <4>1. CASE t = "worker"
        BY <2>1, <2>2, <4>1 DEF Refusing, Control, TypeOK, Thread
      <4>2. CASE t = "main"
        <5>1. msg["main"].kind \in MsgKind \ {"none"} /\ pc["main"] = "send"
          BY <2>1, <4>2 DEF Control, TypeOK, ThreadsInPlace, Writing, WritePC, Msg, Thread
        <5>2. After("main", TRUE) = "refused" => msg["main"].kind = "refused"
          BY <5>1, AfterMain DEF MsgKind
        <5> QED
          BY <2>1, <2>2, <4>2, <5>1, <5>2 DEF Refusing, Control, TypeOK, Thread
      <4> QED
        BY <4>1, <4>2 DEF Thread
    <3>2. ASSUME Refusing', NEW i \in 1..Len(out'[to'["main"]])
          PROVE  out'[to'["main"]][i].msg = Refusal(to'["main"])
      <4>1. /\ Refusing /\ to["main"] \in Conn /\ to["main"] # cur
            /\ to'["main"] = to["main"]
        BY <2>1, <3>1, <3>2 DEF Control, LockGuardsWrites
      <4>2. CASE c = to["main"]
        <5>1. isRefusal
          BY <2>5, <4>1, <4>2
        <5> QED
          BY <2>4, <2>5, <3>2, <4>1, <4>2, <5>1 DEF KindsOnTheWire
      <4>3. CASE c # to["main"]
        BY <2>1, <3>2, <4>1, <4>3 DEF KindsOnTheWire
      <4> QED
        BY <4>2, <4>3
    <3>3. ASSUME cur' # NoConn, NEW i \in 1..Len(out'[cur'])
          PROVE  /\ out'[cur'][i].msg.kind # "refused"
                 /\ AtHello' /\ pc'["main"] # "opened" /\ NotBegun' =>
                       out'[cur'][i].msg.kind = "event"
      <4>1. cur' = cur /\ cur \in Conn
        BY <2>1, <3>3 DEF Control, TypeOK
      <4>2. CASE isRefusal
        <5>1. ~AtHello' /\ out'[cur] = out[cur]
          <6>1. /\ out'[cur] = out[cur] /\ msg'["main"].kind = "refused"
                /\ After("main", TRUE) = "refused"
            BY <2>1, <2>5, <2>6, <4>1, <4>2, AfterMain
          <6>2. pc'["main"] \in {"send", "refused"}
            BY <2>1, <2>2, <4>2, <6>1 DEF Control, TypeOK, Thread
          <6> QED
            BY <6>1, <6>2 DEF AtHello, Writing
        <5> QED
          BY <3>3, <4>1, <5>1 DEF KindsOnTheWire
      <4>3. CASE ~isRefusal
        <5>1. c = cur
          BY <2>5, <4>3
        <5>2. out'[cur][i].msg.kind # "refused"
          BY <2>4, <2>5, <3>3, <4>1, <4>3, <5>1 DEF KindsOnTheWire
        <5>3. ASSUME AtHello', pc'["main"] # "opened", NotBegun'
              PROVE  out'[cur][i].msg.kind = "event"
          <6>1. t = "worker"
            <7> SUFFICES ASSUME t = "main" PROVE FALSE
              BY DEF Thread
            <7>1. msg["main"].kind \in MsgKind \ {"none"} /\ pc["main"] = "send"
              BY <2>1 DEF Control, TypeOK, ThreadsInPlace, Writing, WritePC, Msg, Thread
            <7>2. After("main", TRUE) \in
                     {"opened", "refused", "dispatch", "extract", "closing"}
              BY <7>1, AfterMain DEF MsgKind
            <7>3. pc'["main"] = "send" /\ left'["main"] = left[t] - k
              BY <2>2, <5>3, <7>1, <7>2 DEF AtHello, Writing, WritePC, Control, TypeOK, Thread
            <7> QED
              BY <2>3, <5>3, <7>3, UnitsAssumption DEF NotBegun
          <6>2. pc'["main"] = pc["main"] /\ left'["main"] = left["main"]
            BY <2>2, <6>1 DEF Control, TypeOK, Thread
          <6>3. AtHello /\ pc["main"] # "opened" /\ NotBegun
            BY <2>1, <5>3, <6>2 DEF AtHello, NotBegun, Writing
          <6>4. msg[t].kind = "event"
            BY <2>1, <6>1 DEF Control, ThreadsInPlace, Writing, WritePC
          <6> QED
            BY <2>4, <3>3, <4>1, <5>1, <6>3, <6>4 DEF KindsOnTheWire
        <5> QED
          BY <4>1, <5>2, <5>3
      <4> QED
        BY <4>2, <4>3
    <3> QED
      BY <3>2, <3>3 DEF KindsOnTheWire
  <2>8. GreetedOrRefused'
    <3>1. ASSUME NEW i \in 1..Len(out'[c]), out'[c][i].msg.kind = "refused",
                 NEW j \in 1..Len(out'[c])
          PROVE  out'[c][j].msg = Refusal(c)
      <4>1. isRefusal
        BY <2>1, <2>4, <2>5, <3>1, ConnAssumption DEF KindsOnTheWire
      <4> QED
        BY <2>4, <2>5, <4>1 DEF KindsOnTheWire
    <3>2. ASSUME NEW i \in 1..Len(out'[c]), out'[c][i].unit = 1, out'[c][i].msg = Hello(c),
                 NEW j \in 1..(i - 1)
          PROVE  out'[c][j].msg.kind = "event"
      <4>1. CASE i \in 1..Len(out[c])
        <5>1. /\ out[c][i].unit = 1 /\ out[c][i].msg = Hello(c)
              /\ j \in 1..Len(out[c]) /\ out'[c][j] = out[c][j]
          <6>1. out'[c][i] = out[c][i]
            BY <2>2, <4>1
          <6>2. j \in 1..Len(out[c])
            BY <2>3, <4>1
          <6>3. out'[c][j] = out[c][j]
            BY <2>2, <6>2
          <6> QED
            BY <3>2, <6>1, <6>2, <6>3
        <5> QED
          BY <2>1, <4>1, <5>1 DEF GreetedOrRefused, Begins
      <4>2. CASE i \notin 1..Len(out[c])
        <5>1. i \in (Len(out[c]) + 1)..Len(out'[c])
          BY <2>2, <2>3, <4>2
        <5>2. msg[t] = Hello(c) /\ Units - left[t] + (i - Len(out[c])) = 1
          BY <2>2, <3>2, <5>1
        <5>3. i = Len(out[c]) + 1 /\ left[t] = Units
          BY <2>3, <5>1, <5>2, UnitsAssumption
        <5>4. t = "main" /\ ~isRefusal
          BY <2>1, <2>5, <2>6, <5>2 DEF Control, ThreadsInPlace, Writing, WritePC, Thread
        <5>5. AtHello /\ pc["main"] # "opened" /\ NotBegun /\ c = cur
          BY <2>1, <2>5, <2>6, <5>2, <5>3, <5>4 DEF AtHello, NotBegun, Writing, WritePC
        <5>6. j \in 1..Len(out[c]) /\ out'[c][j] = out[c][j]
          BY <2>2, <2>3, <5>3
        <5> QED
          BY <2>1, <5>5, <5>6, ConnAssumption DEF KindsOnTheWire
      <4> QED
        BY <4>1, <4>2
    <3>3. ASSUME NEW d \in Conn, d # c, NEW i \in 1..Len(out'[d])
          PROVE  /\ out'[d][i].msg.kind = "refused" =>
                      \A j \in 1..Len(out'[d]) : out'[d][j].msg = Refusal(d)
                 /\ out'[d][i].unit = 1 /\ out'[d][i].msg = Hello(d) =>
                      \A j \in 1..(i - 1) : out'[d][j].msg.kind = "event"
      <4>1. out'[d] = out[d]
        BY <2>1, <3>3
      <4> QED
        BY <3>3, <4>1 DEF GreetedOrRefused, Begins
    <3> QED
      BY <3>1, <3>2, <3>3 DEF GreetedOrRefused, Begins
  <2> QED
    BY <2>7, <2>8
<1> QED
  BY <1>1, <1>2

\* The first two layers hold in every state of the server.
LEMMA WireInvariance == Spec => [](Control /\ Wire)
<1>1. Control /\ Wire /\ [Next]_vars => Wire'
  BY EndIsOwned, UnitsStayTogether, GreetingStep DEF Wire
<1> QED
  BY <1>1, InitControl, ControlStep, InitWire, PTL DEF Spec

\* Bytes of the events of pjsua's worker and of the main thread's messages
\* never interleave, on any connection, however often send() takes only a
\* part and however many writes fail half way.
THEOREM MessagesAreWhole == Spec => []MessagesDoNotInterleave
<1>1. Wire => MessagesDoNotInterleave
  BY DEF Wire
<1> QED
  BY <1>1, WireInvariance, PTL

\* A client is either refused, and gets nothing else, or greeted once, with
\* nothing but events before the greeting.
THEOREM ClientsAreGreetedOrRefused == Spec => []GreetedOrRefused
<1>1. Wire => GreetedOrRefused
  BY DEF Wire
<1> QED
  BY <1>1, WireInvariance, PTL

-----------------------------------------------------------------------------
(* The third layer: Requests. *)

\* Nothing has been received or answered when the server starts.
LEMMA InitRequests == Init => Requests
BY DEF Init, Requests, LinesInOrder, ResponsesToLines, EarlierAnswered,
   ResponsesInOrder

\* What a client has sent stays sent.
LEMMA SentGrows ==
    ASSUME Control, [Next]_vars
    PROVE  \A c \in Conn :
              /\ Len(sent[c]) \in Nat /\ Len(sent'[c]) \in Nat
              /\ Len(sent[c]) <= Len(sent'[c])
              /\ \A n \in 1..Len(sent[c]) : sent'[c][n] = sent[c][n]
<1>0. sent \in [Conn -> Seq(LineKind)]
  BY DEF Control, TypeOK
<1>1. CASE \E c \in Conn : SendLine(c)
  <2>1. PICK c \in Conn, kind \in LineKind : sent' = [sent EXCEPT ![c] = Append(@, kind)]
    BY <1>1 DEF SendLine
  <2>2. ASSUME NEW d \in Conn
        PROVE  /\ Len(sent[d]) \in Nat /\ Len(sent'[d]) \in Nat
               /\ Len(sent[d]) <= Len(sent'[d])
               /\ \A n \in 1..Len(sent[d]) : sent'[d][n] = sent[d][n]
    <3>1. CASE d = c
      <4>1. sent'[d] = Append(sent[d], kind) /\ sent[d] \in Seq(LineKind)
        BY <1>0, <2>1, <3>1
      <4> QED
        BY <4>1
    <3>2. CASE d # c
      BY <1>0, <2>1, <3>2
    <3> QED
      BY <3>1, <3>2
  <2> QED
    BY <2>2
<1>2. CASE ~\E c \in Conn : SendLine(c)
  <2>1. sent' = sent
    <3>1. CASE UNCHANGED vars
      BY <3>1 DEF vars, clientVars
    <3>2. CASE \E c \in Conn : Client(c)
      BY <1>2, <3>2 DEF Client, Connect, Read, Hangup
    <3>3. CASE Stop \/ WorkerEvent \/ SelectFail \/ \E t \in Thread : Write(t)
      BY <3>3 DEF Stop, WorkerEvent, SelectFail, Leave, Write, Begin, BeginFail,
             Send, SendFail, clientVars
    <3>4. CASE Main
      BY <3>4 DEF Main, Select, LoopExit, AcceptFail, Leave, Fill, FillEnd,
             ExtractPending, ExtractLine, DispatchCallback, Dispatch, Refuse,
             RefuseClose, OpenConn, OpenFail, PushHello, OpenDone, CloseConn,
             CloseSock, clientVars
    <3> QED
      BY <3>1, <3>2, <3>3, <3>4 DEF Next
  <2> QED
    BY <1>0, <2>1
<1> QED
  BY <1>1, <1>2

\* The loop goes on with the same line of the same connection.
SameLine ==
    /\ taken' = taken /\ (Pending' => Pending)
    /\ Pending' /\ ~AnswerBegun' => ~AnswerBegun

\* The loop extracts the next line of the connection.
NextLine ==
    /\ taken' = taken + 1 /\ taken < filled /\ ~Pending
    /\ Pending' => sent[cur][taken + 1] = "req"
    /\ sent[cur][taken + 1] = "req" => Pending'

\* The connection stays, and a request is left without its response only when
\* the connection is going to be closed.
LinesGoOn ==
    /\ cur' = cur
    /\ SameLine \/ NextLine
    /\ filled' \in Nat /\ filled <= filled' /\ filled' <= Len(sent'[cur])
    /\ Writing("main")' /\ msg'["main"].kind = "response" =>
          msg'["main"] = Response(cur, taken')
    /\ pc'["main"] \notin {"closing", "closesock"} =>
          pc["main"] \notin {"closing", "closesock"} /\ (Pending => Pending')

\* A step that sends nothing drops the connection, opens a fresh one, or goes
\* on with the lines of the present one.
LEMMA QuietLines ==
    ASSUME Control, LinesInOrder, [Next]_vars, \A t \in Thread : ~Send(t)
    PROVE  \/ cur' = NoConn
           \/ /\ cur' \in Conn /\ fd[cur'] = "none" /\ taken' = 0 /\ filled' = 0
              /\ pc'["main"] = "hello"
           \/ LinesGoOn
<1> SUFFICES ASSUME cur' # NoConn
             PROVE  \/ /\ cur' \in Conn /\ fd[cur'] = "none" /\ taken' = 0 /\ filled' = 0
                       /\ pc'["main"] = "hello"
                    \/ LinesGoOn
  OBVIOUS
<1> USE DEF Thread, Writing, WritePC, Pending, AnswerBegun
<1>0. cur \in Conn =>
        /\ filled \in Nat /\ taken \in Nat /\ taken <= filled
        /\ filled <= Len(sent'[cur]) /\ Len(sent'[cur]) \in Nat
  <2>1. ASSUME cur \in Conn
        PROVE  /\ filled \in Nat /\ taken \in Nat /\ taken <= filled
               /\ filled <= Len(sent[cur]) /\ Len(sent[cur]) <= Len(sent'[cur])
               /\ Len(sent[cur]) \in Nat /\ Len(sent'[cur]) \in Nat
    BY <2>1, SentGrows, ConnAssumption DEF Control, TypeOK, LinesInOrder
  <2> QED
    BY <2>1
<1>1. ASSUME UNCHANGED <<cur, taken, filled, left>>, pc'["main"] = pc["main"],
             msg'["main"] = msg["main"]
      PROVE  LinesGoOn
  <2>1. cur \in Conn
    BY <1>1 DEF Control, TypeOK
  <2>2. Pending' = Pending /\ AnswerBegun' = AnswerBegun
    BY <1>1
  <2> QED
    BY <1>0, <1>1, <2>1, <2>2, ConnAssumption DEF LinesGoOn, SameLine, LinesInOrder
<1>2. CASE UNCHANGED vars \/ Stop \/ \E c \in Conn : Client(c)
  <2>1. UNCHANGED <<cur, taken, filled, left, pc, msg>>
    BY <1>2 DEF vars, Stop, Client, Connect, SendLine, Read, Hangup, writeVars, loopVars
  <2> QED
    BY <1>1, <2>1
<1>3. CASE WorkerEvent
  <2>1. /\ UNCHANGED <<cur, taken, filled, left>> /\ pc'["main"] = pc["main"]
        /\ msg'["main"] = msg["main"]
    BY <1>3 DEF WorkerEvent, StartWrite, Goto, loopVars, Control, TypeOK
  <2> QED
    BY <1>1, <2>1
<1>4. CASE \/ Select \/ LoopExit \/ SelectFail \/ AcceptFail \/ FillEnd
           \/ ExtractPending \/ OpenDone \/ OpenFail \/ RefuseClose \/ CloseConn
  <2>1. /\ UNCHANGED <<cur, taken, filled>>
        /\ pc["main"] \in {"loop", "accept", "input", "extract", "opened", "refused",
                           "closing"}
        /\ pc["main"] = "closing" => pc'["main"] = "closesock"
        /\ pc'["main"] \in {"loop", "accept", "input", "closing", "closesock", "done"}
    BY <1>4 DEF Select, LoopExit, SelectFail, AcceptFail, Leave, FillEnd,
           ExtractPending, OpenDone, OpenFail, RefuseClose, CloseConn, AfterInput,
           Goto, loopVars, Control, TypeOK
  <2>2. cur \in Conn
    BY <2>1 DEF Control, TypeOK
  <2> QED
    BY <1>0, <2>1, <2>2 DEF LinesGoOn, SameLine
<1>5. CASE Fill
  <2>1. /\ UNCHANGED <<cur, taken, sent>> /\ pc["main"] = "input"
        /\ pc'["main"] = "extract"
        /\ filled' \in (filled + 1)..Len(sent[cur])
    BY <1>5 DEF Fill, Goto, clientVars, Control, TypeOK
  <2>2. cur \in Conn
    BY <2>1 DEF Control, TypeOK
  <2>3. filled' \in Nat /\ filled <= filled' /\ filled' <= Len(sent'[cur])
    BY <1>0, <2>1, <2>2
  <2> QED
    BY <2>1, <2>3 DEF LinesGoOn, SameLine
<1>6. CASE ExtractLine
  <2>1. /\ UNCHANGED <<cur, sent, filled>> /\ taken' = taken + 1 /\ taken < filled
        /\ pc["main"] = "extract"
        /\ IF sent[cur][taken + 1] = "req"
           THEN pc'["main"] = "dispatch"
           ELSE /\ pc'["main"] = "lock"
                /\ msg'["main"] = ErrorEvent(cur, taken + 1, sent[cur][taken + 1])
    BY <1>6 DEF ExtractLine, StartWrite, Goto, clientVars, Control, TypeOK
  <2>2. cur \in Conn
    BY <2>1 DEF Control, TypeOK
  <2>3. \A k : ErrorEvent(cur, taken + 1, k).kind \in {"badline", "toolong"}
    BY DEF ErrorEvent, Message
  <2>4. NextLine /\ (Writing("main")' => msg'["main"].kind # "response")
    BY <2>1, <2>3 DEF NextLine
  <2> QED
    BY <1>0, <2>1, <2>2, <2>4 DEF LinesGoOn
<1>7. CASE DispatchCallback \/ Dispatch \/ PushHello
  <2>1. /\ UNCHANGED <<cur, taken, filled>> /\ pc'["main"] = "lock"
        /\ \/ pc["main"] = "dispatch" /\ msg'["main"] = Event(nev + 1)
           \/ pc["main"] = "dispatch" /\ msg'["main"] = Response(cur, taken)
           \/ pc["main"] = "hello" /\ msg'["main"] = Hello(cur)
    BY <1>7 DEF DispatchCallback, Dispatch, PushHello, StartWrite, Goto, loopVars,
           Control, TypeOK
  <2>2. cur \in Conn
    BY <2>1 DEF Control, TypeOK
  <2>3. /\ Event(nev + 1).kind = "event" /\ Response(cur, taken).kind = "response"
        /\ Hello(cur).kind = "hello"
    BY DEF Event, Response, Hello, Message
  <2> QED
    BY <1>0, <2>1, <2>2, <2>3 DEF LinesGoOn, SameLine
<1>8. CASE Refuse
  <2>1. /\ UNCHANGED <<cur, taken, filled>> /\ pc'["main"] = "send"
        /\ pc["main"] = "accept" /\ msg'["main"].kind = "refused"
    BY <1>8 DEF Refuse, Refusal, Message, Goto, loopVars, Control, TypeOK
  <2>2. cur \in Conn
    BY <2>1 DEF Control, TypeOK
  <2> QED
    BY <1>0, <2>1, <2>2 DEF LinesGoOn, SameLine
<1>9. CASE OpenConn
  <2>1. /\ backlog \in Seq(Conn) /\ backlog # <<>>
    BY <1>9 DEF OpenConn, Control, TypeOK, AcceptHasClient
  <2>2. Head(backlog) \in Conn /\ fd[Head(backlog)] = "none"
    BY <2>1, TakeFirst DEF Control, BacklogIsFresh
  <2> QED
    BY <1>9, <2>2 DEF OpenConn, Goto, Control, TypeOK
<1>10. CASE CloseSock
  BY <1>10 DEF CloseSock
<1>11. ASSUME NEW t \in Thread, Begin(t) \/ BeginFail(t) \/ SendFail(t)
       PROVE  LinesGoOn
  <2>1. /\ UNCHANGED <<cur, taken, filled, msg>> /\ pc[t] \in {"lock", "send"}
        /\ \/ /\ pc[t] = "lock" /\ pc' = [pc EXCEPT ![t] = "send"]
              /\ left' = [left EXCEPT ![t] = Units]
           \/ /\ pc' = [pc EXCEPT ![t] = After(t, TRUE)] /\ framing = NoConn
              /\ pc[t] = "lock" /\ left' = left
           \/ /\ pc' = [pc EXCEPT ![t] = After(t, FALSE)]
              /\ left' = left \/ left' = [left EXCEPT ![t] = 0]
    BY <1>11 DEF Begin, BeginFail, SendFail, Finish, Goto, eventVars, writeVars, loopVars
  <2>2. cur \in Conn
    BY <2>1 DEF Control, TypeOK
  <2>3. CASE t = "worker"
    <3>1. /\ pc'["main"] = pc["main"] /\ left'["main"] = left["main"]
      BY <2>1, <2>3 DEF Control, TypeOK
    <3>2. Pending' = Pending /\ AnswerBegun' = AnswerBegun
      BY <2>1, <3>1
    <3> QED
      BY <1>0, <2>1, <2>2, <3>1, <3>2, ConnAssumption DEF LinesGoOn, SameLine,
             LinesInOrder
  <2>4. CASE t = "main"
    <3>1. msg["main"].kind \in MsgKind \ {"none"}
      BY <2>1, <2>4 DEF Control, TypeOK, ThreadsInPlace, Msg
    <3>2. /\ After("main", FALSE) \in
                {"opened", "refused", "dispatch", "extract", "closing"}
          /\ After("main", FALSE) = "dispatch" <=> msg["main"].kind = "event"
          /\ msg["main"].kind = "response" => After("main", FALSE) = "closing"
      BY <3>1, AfterMain DEF MsgKind
    <3>3. ~(framing = NoConn /\ pc["main"] = "lock")
      BY <2>2, <3>1, ConnAssumption DEF Control, PointerIsConn
    <3>4. \/ /\ pc["main"] = "lock" /\ pc'["main"] = "send" /\ left'["main"] = Units
          \/ pc'["main"] = After("main", FALSE)
      BY <2>1, <2>4, <3>3 DEF Control, TypeOK
    <3>5. SameLine
      BY <2>1, <2>4, <3>1, <3>2, <3>4 DEF SameLine, MsgKind
    <3>6. /\ Writing("main")' /\ msg'["main"].kind = "response" =>
                msg'["main"] = Response(cur, taken')
          /\ pc'["main"] \notin {"closing", "closesock"} =>
                pc["main"] \notin {"closing", "closesock"} /\ (Pending => Pending')
      BY <2>1, <2>2, <2>4, <3>1, <3>2, <3>4, ConnAssumption DEF LinesInOrder, MsgKind
    <3> QED
      BY <1>0, <2>1, <2>2, <3>5, <3>6 DEF LinesGoOn
  <2> QED
    BY <2>3, <2>4
<1> QED
  BY <1>2, <1>3, <1>4, <1>5, <1>6, <1>7, <1>8, <1>9, <1>10, <1>11
     DEF Next, Main, Write

\* Steps that send nothing keep the third layer: clients add lines, and the
\* loop moves from a line to the next only when the first one is answered.
LEMMA QuietRequests ==
    ASSUME Control, Wire, Requests, [Next]_vars, \A t \in Thread : ~Send(t)
    PROVE  Requests'
<1>1. out' = out /\ out \in [Conn -> Seq(Unit)] /\ cur \in Conn \cup {NoConn}
      /\ taken \in Nat
  BY QuietStep DEF Control, TypeOK
<1>2. \A c \in Conn : /\ Len(sent[c]) \in Nat /\ Len(sent'[c]) \in Nat
                      /\ Len(sent[c]) <= Len(sent'[c])
                      /\ \A n \in 1..Len(sent[c]) : sent'[c][n] = sent[c][n]
  BY SentGrows
<1>3. \/ cur' = NoConn
      \/ /\ cur' \in Conn /\ fd[cur'] = "none" /\ taken' = 0 /\ filled' = 0
         /\ pc'["main"] = "hello"
      \/ LinesGoOn
  BY QuietLines DEF Requests
<1>4. \A c \in Conn : fd[c] = "none" => Len(out[c]) = 0
  BY DEF Wire, WriterOwnsTheEnd
<1>5. \A c \in Conn : \A i \in 1..Len(out[c]) : out[c][i].msg.num \in Nat
  <2> SUFFICES ASSUME NEW c \in Conn, NEW i \in 1..Len(out[c])
               PROVE  out[c][i].msg.num \in Nat
    OBVIOUS
  <2>1. out[c] \in Seq(Unit)
    BY <1>1
  <2>2. out[c][i] \in Unit
    BY <2>1
  <2>3. out[c][i].msg \in Msg
    BY <2>2 DEF Unit
  <2> QED
    BY <2>3 DEF Msg
<1>6. ResponsesInOrder'
  <2> SUFFICES ASSUME NEW c \in Conn, NEW i \in 1..Len(out[c]),
                      out[c][i].msg.kind = "response", out[c][i].unit = 1
               PROVE  LET m == out[c][i].msg
                      IN  /\ m.conn = c /\ sent'[c][m.num] = "req"
                          /\ \A j \in 1..(i - 1) : ~Begins(c, j, m)
                          /\ \A n \in 1..(m.num - 1) : sent'[c][n] = "req" =>
                                \E j \in 1..(i - 1) :
                                   out[c][j] = [msg |-> Response(c, n), unit |-> Units]
    BY <1>1 DEF ResponsesInOrder, Begins
  <2>1. out[c][i].msg.num \in 1..Len(sent[c])
    BY <1>2, <1>5 DEF Requests, ResponsesToLines
  <2>2. \A n \in 1..(out[c][i].msg.num - 1) : n \in 1..Len(sent[c])
    BY <1>2, <1>5, <2>1
  <2> DEFINE m == out[c][i].msg
  <2>3. /\ m.conn = c /\ sent[c][m.num] = "req"
        /\ \A j \in 1..(i - 1) : ~Begins(c, j, m)
        /\ \A n \in 1..(m.num - 1) : sent[c][n] = "req" =>
              \E j \in 1..(i - 1) :
                 out[c][j] = [msg |-> Response(c, n), unit |-> Units]
    BY DEF Requests, ResponsesInOrder
  <2>4. sent'[c][m.num] = "req" /\ \A n \in 1..(m.num - 1) : sent'[c][n] = sent[c][n]
    BY <1>2, <2>1, <2>2, <2>3
  <2> HIDE DEF m
  <2>5. \A n \in 1..(m.num - 1) : sent'[c][n] = "req" =>
              \E j \in 1..(i - 1) :
                 out[c][j] = [msg |-> Response(c, n), unit |-> Units]
    BY <2>3, <2>4
  <2> QED
    BY <2>3, <2>4, <2>5 DEF m
<1>7. CASE cur' = NoConn
  <2>1. LinesInOrder' /\ EarlierAnswered'
    BY <1>7 DEF LinesInOrder, EarlierAnswered
  <2>2. ResponsesToLines'
    BY <1>1, <1>2, <1>5, <1>7, ConnAssumption DEF Requests, ResponsesToLines
  <2> QED
    BY <1>6, <2>1, <2>2 DEF Requests
<1>8. CASE /\ cur' \in Conn /\ fd[cur'] = "none" /\ taken' = 0 /\ filled' = 0
           /\ pc'["main"] = "hello"
  <2>1. ~Pending' /\ ~Writing("main")'
    BY <1>8 DEF Pending, Writing, WritePC
  <2>2. LinesInOrder' /\ EarlierAnswered'
    BY <1>2, <1>8, <2>1 DEF LinesInOrder, EarlierAnswered
  <2>3. ResponsesToLines'
    <3> SUFFICES ASSUME NEW c \in Conn, NEW i \in 1..Len(out[c]),
                        out[c][i].msg.kind = "response"
                 PROVE  /\ out[c][i].msg.num > 0 /\ out[c][i].msg.num <= Len(sent'[c])
                        /\ c # cur'
      BY <1>1 DEF ResponsesToLines
    <3>1. out[c][i].msg.num > 0 /\ out[c][i].msg.num <= Len(sent[c])
      BY DEF Requests, ResponsesToLines
    <3>2. c # cur'
      BY <1>4, <1>8
    <3> QED
      BY <1>2, <1>5, <3>1, <3>2
  <2> QED
    BY <1>6, <2>2, <2>3 DEF Requests
<1>9. CASE LinesGoOn /\ cur' # NoConn
  <2>1. /\ cur' = cur /\ cur \in Conn /\ filled \in Nat
        /\ taken <= filled /\ filled <= Len(sent[cur])
    BY <1>1, <1>9 DEF LinesGoOn, Requests, LinesInOrder, Control, TypeOK
  <2>2. taken' \in Nat /\ taken <= taken' /\ taken' <= filled'
    BY <1>1, <1>9, <2>1 DEF LinesGoOn, SameLine, NextLine
  <2>3. LinesInOrder'
    <3>1. Pending' => taken' > 0 /\ sent'[cur][taken'] = "req"
      <4>1. CASE SameLine
        BY <1>1, <1>2, <2>1, <4>1, ConnAssumption DEF SameLine, Requests, LinesInOrder
      <4>2. CASE NextLine
        BY <1>1, <1>2, <2>1, <4>2 DEF NextLine
      <4> QED
        BY <1>9, <4>1, <4>2 DEF LinesGoOn
    <3> QED
      BY <1>9, <2>1, <2>2, <3>1 DEF LinesGoOn, LinesInOrder
  <2>4. ResponsesToLines'
    <3> SUFFICES ASSUME NEW c \in Conn, NEW i \in 1..Len(out[c]),
                        out[c][i].msg.kind = "response"
                 PROVE  /\ out[c][i].msg.num > 0
                        /\ out[c][i].msg.num <= Len(sent'[c])
                        /\ c = cur => out[c][i].msg.num <= taken'
                        /\ c = cur /\ Pending' /\ ~AnswerBegun' =>
                              out[c][i].msg.num < taken'
      BY <1>1, <2>1 DEF ResponsesToLines
    <3>1. /\ out[c][i].msg.num > 0 /\ out[c][i].msg.num <= Len(sent[c])
          /\ c = cur => out[c][i].msg.num <= taken
          /\ c = cur /\ Pending /\ ~AnswerBegun => out[c][i].msg.num < taken
      BY DEF Requests, ResponsesToLines
    <3>2. out[c][i].msg.num <= Len(sent'[c]) /\ (c = cur => out[c][i].msg.num <= taken')
      BY <1>1, <1>2, <1>5, <2>2, <3>1
    <3>3. c = cur /\ Pending' /\ ~AnswerBegun' => out[c][i].msg.num < taken'
      BY <1>1, <1>5, <1>9, <3>1 DEF LinesGoOn, SameLine, NextLine
    <3> QED
      BY <3>1, <3>2, <3>3
  <2>5. EarlierAnswered'
    <3> SUFFICES ASSUME pc'["main"] \notin {"closing", "closesock"}, NEW n \in 1..taken',
                        sent'[cur][n] = "req", Pending' => n < taken'
                 PROVE  Answered(cur, n)
      BY <1>1, <2>1 DEF EarlierAnswered, Answered
    <3>1. /\ pc["main"] \notin {"closing", "closesock"} /\ (Pending => Pending')
      BY <1>9 DEF LinesGoOn
    <3>2. n \in 1..taken /\ (Pending => n < taken)
      <4>1. CASE SameLine
        BY <3>1, <4>1 DEF SameLine
      <4>2. CASE NextLine
        <5>1. taken + 1 \in 1..Len(sent[cur])
          BY <1>1, <1>2, <2>1, <4>2 DEF NextLine
        <5>2. sent'[cur][taken + 1] = sent[cur][taken + 1]
          BY <1>2, <2>1, <5>1
        <5> QED
          BY <1>1, <4>2, <5>2 DEF NextLine
      <4> QED
        BY <1>9, <4>1, <4>2 DEF LinesGoOn
    <3>3. sent[cur][n] = "req"
      BY <1>1, <1>2, <2>1, <3>2
    <3> QED
      BY <2>1, <3>1, <3>2, <3>3, ConnAssumption DEF Requests, EarlierAnswered
  <2> QED
    BY <1>6, <2>3, <2>4, <2>5 DEF Requests
<1> QED
  BY <1>3, <1>7, <1>8, <1>9

\* The end of a response answers the request being handled; the beginning of
\* one comes after the responses to all the requests before it.
LEMMA SendRequests ==
    ASSUME Control, Wire, Requests, NEW t \in Thread, Send(t)
    PROVE  Requests'
<1> DEFINE c == to[t]
           isAnswer == t = "main" /\ msg[t].kind = "response"
<1>1. /\ c \in Conn /\ left[t] \in 0..Units /\ pc[t] = "send" /\ msg[t] \in Msg
      /\ out[c] \in Seq(Unit) /\ out'[c] \in Seq(Unit)
      /\ \A d \in Conn \ {c} : out'[d] = out[d]
      /\ UNCHANGED <<msg, to, cur, sent, filled, taken>>
  BY SendStep
<1>2. PICK k \in 1..left[t] :
         /\ left' = [left EXCEPT ![t] = left[t] - k]
         /\ \/ k = left[t] /\ pc' = [pc EXCEPT ![t] = After(t, TRUE)]
            \/ k < left[t] /\ pc' = pc
         /\ Len(out'[c]) = Len(out[c]) + k
         /\ \A i \in 1..Len(out[c]) : out'[c][i] = out[c][i]
         /\ \A i \in (Len(out[c]) + 1)..Len(out'[c]) :
               /\ out'[c][i].msg = msg[t]
               /\ out'[c][i].unit = Units - left[t] + (i - Len(out[c]))
  BY SendStep
<1>3. /\ Len(out[c]) \in Nat /\ left[t] \in Nat /\ k \in Nat /\ k > 0 /\ left[t] <= Units
      /\ taken \in Nat /\ cur \in Conn \cup {NoConn} /\ Units \in Nat
      /\ Len(out'[c]) \in Nat
  <2>1. taken \in Nat /\ cur \in Conn \cup {NoConn}
    BY DEF Control, TypeOK
  <2>2. Units \in Nat
    BY UnitsAssumption
  <2>3. Len(out[c]) \in Nat /\ Len(out'[c]) \in Nat
    BY <1>1
  <2>4. left[t] \in Nat /\ k \in Nat /\ k > 0 /\ left[t] <= Units
    BY <1>1, <2>2
  <2> QED
    BY <2>1, <2>2, <2>3, <2>4
<1>4. \A i \in 1..Len(out'[c]) :
        \/ i \in 1..Len(out[c]) /\ out'[c][i] = out[c][i]
        \/ i \in (Len(out[c]) + 1)..Len(out'[c]) /\ i > Len(out[c])
           /\ out'[c][i].msg = msg[t]
  <2> SUFFICES ASSUME NEW i \in 1..Len(out'[c])
               PROVE  \/ i \in 1..Len(out[c]) /\ out'[c][i] = out[c][i]
                      \/ /\ i \in (Len(out[c]) + 1)..Len(out'[c]) /\ i > Len(out[c])
                         /\ out'[c][i].msg = msg[t]
    OBVIOUS
  <2>1. i \in 1..Len(out[c]) \/ (i > Len(out[c]) /\ i \in (Len(out[c]) + 1)..Len(out'[c]))
    BY <1>2, <1>3
  <2> QED
    BY <1>2, <2>1
<1>5. msg[t].kind = "response" =>
        /\ isAnswer /\ c = cur /\ msg[t] = Response(cur, taken) /\ Pending
        /\ taken > 0 /\ sent[cur][taken] = "req" /\ taken <= Len(sent[cur])
  <2> SUFFICES ASSUME msg[t].kind = "response"
               PROVE  /\ isAnswer /\ c = cur /\ msg[t] = Response(cur, taken) /\ Pending
                      /\ taken > 0 /\ sent[cur][taken] = "req"
                      /\ taken <= Len(sent[cur])
    OBVIOUS
  <2>1. t = "main"
    BY <1>1 DEF Control, ThreadsInPlace, Writing, WritePC, Thread
  <2>2. c = cur /\ Pending /\ Writing("main")
    BY <1>1, <2>1, WritersApart DEF Refusing, Pending, Writing, WritePC, Control,
           ThreadsInPlace
  <2>3. /\ taken <= filled /\ filled <= Len(sent[cur]) /\ filled \in Nat
        /\ Len(sent[cur]) \in Nat
    BY <1>1, <2>2, ConnAssumption DEF Requests, LinesInOrder, Control, TypeOK
  <2> QED
    BY <1>1, <1>3, <2>1, <2>2, <2>3, ConnAssumption DEF Requests, LinesInOrder
<1>6. /\ Response(cur, taken).num = taken /\ Response(cur, taken).conn = cur
      /\ Response(cur, taken).kind = "response"
  BY DEF Response, Message
<1>7. /\ Pending' => Pending
      /\ Pending /\ ~Pending' => pc'["main"] = "extract" /\ isAnswer /\ k = left[t]
      /\ ~isAnswer => (AnswerBegun' <=> AnswerBegun)
      /\ isAnswer /\ Pending' => AnswerBegun'
      /\ Writing("main")' => Writing("main")
      /\ pc["main"] \in {"closing", "closesock"} => pc'["main"] = pc["main"]
  <2>1. CASE t = "worker"
    <3>1. pc'["main"] = pc["main"] /\ left'["main"] = left["main"] /\ ~isAnswer
      BY <1>2, <2>1 DEF Control, TypeOK, Thread
    <3>2. /\ Pending' <=> Pending
          /\ AnswerBegun' <=> AnswerBegun
          /\ Writing("main")' <=> Writing("main")
      BY <1>1, <3>1 DEF Pending, AnswerBegun, Writing
    <3> QED
      BY <3>1, <3>2
  <2>2. CASE t = "main"
    <3>1. msg["main"].kind \in MsgKind \ {"none"} /\ pc["main"] = "send"
      BY <1>1, <2>2 DEF Control, TypeOK, ThreadsInPlace, Writing, WritePC, Msg, Thread
    <3>2. /\ After("main", TRUE) \in {"opened", "refused", "dispatch", "extract", "closing"}
          /\ After("main", TRUE) = "dispatch" <=> msg["main"].kind = "event"
          /\ msg["main"].kind = "response" => After("main", TRUE) = "extract"
      BY <3>1, AfterMain DEF MsgKind
    <3>3. \/ k = left[t] /\ pc'["main"] = After("main", TRUE)
          \/ pc'["main"] = "send" /\ k < left[t]
      BY <1>2, <2>2, <3>1 DEF Control, TypeOK, Thread
    <3>4. left'["main"] = left[t] - k /\ left[t] - k < Units
      BY <1>2, <1>3, <2>2 DEF Control, TypeOK, Thread
    <3>5. Writing("main") /\ (Writing("main")' <=> pc'["main"] = "send")
      BY <3>1, <3>2, <3>3 DEF Writing, WritePC
    <3>6. Pending' <=> \/ pc'["main"] = "dispatch"
                       \/ /\ pc'["main"] = "send"
                          /\ msg["main"].kind \in {"event", "response"}
      BY <1>1, <3>2, <3>3, <3>5 DEF Pending
    <3>7. Pending <=> msg["main"].kind \in {"event", "response"}
      BY <3>1, <3>5 DEF Pending
    <3>8. AnswerBegun' <=> pc'["main"] = "send" /\ msg["main"].kind = "response"
      BY <1>1, <3>4 DEF AnswerBegun
    <3>9. msg["main"].kind # "response" => ~AnswerBegun
      BY DEF AnswerBegun
    <3> QED
      BY <2>2, <3>1, <3>2, <3>3, <3>5, <3>6, <3>7, <3>8, <3>9
  <2> QED
    BY <2>1, <2>2 DEF Thread
<1>8. LinesInOrder'
  BY <1>1, <1>7 DEF Requests, LinesInOrder
<1>9. isAnswer => Pending
  BY <1>5
<1>10. ResponsesToLines'
  <2> SUFFICES ASSUME NEW d \in Conn, NEW i \in 1..Len(out'[d]),
                      out'[d][i].msg.kind = "response"
               PROVE  /\ out'[d][i].msg.num > 0
                      /\ out'[d][i].msg.num <= Len(sent[d])
                      /\ d = cur => out'[d][i].msg.num <= taken
                      /\ d = cur /\ Pending' /\ ~AnswerBegun' =>
                            out'[d][i].msg.num < taken
    BY <1>1 DEF ResponsesToLines
  <2>1. CASE i \in 1..Len(out[d]) /\ out'[d][i] = out[d][i]
    BY <1>7, <1>9, <2>1 DEF Requests, ResponsesToLines
  <2>2. CASE ~(i \in 1..Len(out[d]) /\ out'[d][i] = out[d][i])
    <3>1. d = c /\ out'[d][i].msg = msg[t]
      BY <1>1, <1>4, <2>2
    <3>2. isAnswer /\ c = cur /\ msg[t] = Response(cur, taken) /\ taken > 0
          /\ taken <= Len(sent[cur])
      BY <1>5, <3>1
    <3> QED
      BY <1>3, <1>6, <1>7, <3>1, <3>2
  <2> QED
    BY <2>1, <2>2
<1>11. \A d \in Conn, n \in Nat : Answered(d, n) => Answered(d, n)'
  <2> SUFFICES ASSUME NEW d \in Conn, NEW n \in Nat, NEW j \in 1..Len(out[d]),
                      out[d][j] = [msg |-> Response(d, n), unit |-> Units]
               PROVE  \E i \in 1..Len(out'[d]) :
                         out'[d][i] = [msg |-> Response(d, n), unit |-> Units]
    BY DEF Answered
  <2>1. j \in 1..Len(out'[d]) /\ out'[d][j] = out[d][j]
    <3>1. CASE d = c
      <4>1. j \in 1..Len(out[c])
        BY <3>1
      <4>2. j \in 1..Len(out'[c]) /\ out'[c][j] = out[c][j]
        BY <1>2, <1>3, <4>1
      <4> QED
        BY <3>1, <4>2
    <3>2. CASE d # c
      BY <1>1, <3>2
    <3> QED
      BY <3>1, <3>2
  <2> QED
    BY <2>1
<1>12. EarlierAnswered'
  <2> SUFFICES ASSUME cur # NoConn, pc'["main"] \notin {"closing", "closesock"},
                      NEW n \in 1..taken, sent[cur][n] = "req", Pending' => n < taken,
                      NEW d \in Conn, d = cur
               PROVE  Answered(d, n)'
    BY <1>1, <1>3 DEF EarlierAnswered, Answered
  <2>1. n \in Nat
    BY <1>3
  <2>2. CASE Pending => n < taken
    <3>1. pc["main"] \notin {"closing", "closesock"}
      BY <1>7
    <3>2. Answered(d, n)
      BY <2>2, <3>1 DEF Requests, EarlierAnswered
    <3> QED
      BY <1>11, <2>1, <3>2
  <2>3. CASE ~(Pending => n < taken)
    <3>1. n = taken /\ isAnswer /\ k = left[t]
      BY <1>3, <1>7, <2>3
    <3> DEFINE l == Len(out'[c])
    <3>2. /\ l \in (Len(out[c]) + 1)..Len(out'[c]) /\ l \in 1..Len(out'[c])
      BY <1>2, <1>3, <3>1
    <3>3. Units - left[t] + (l - Len(out[c])) = Units
      <4> DEFINE a == left[t]  b == l - Len(out[c])
      <4>1. a \in Int /\ b = a /\ Units \in Int
        BY <1>2, <1>3, <3>1
      <4> HIDE DEF a, b
      <4>2. Units - a + b = Units
        BY <4>1
      <4> QED
        BY <4>2 DEF a, b
    <3>4. out'[c][l].msg = Response(cur, n) /\ out'[c][l].unit = Units /\ c = cur
      BY <1>2, <1>5, <3>1, <3>2, <3>3
    <3>5. out'[c][l] \in Unit
      BY <1>1, <3>2
    <3>6. out'[c][l] = [msg |-> Response(cur, n), unit |-> Units]
      BY <3>4, <3>5 DEF Unit
    <3> QED
      BY <1>1, <3>2, <3>4, <3>6 DEF Answered
  <2> QED
    BY <2>2, <2>3
<1>13. ResponsesInOrder'
  <2> SUFFICES ASSUME NEW d \in Conn, NEW i \in 1..Len(out'[d]),
                      out'[d][i].msg.kind = "response", out'[d][i].unit = 1
               PROVE  LET m == out'[d][i].msg
                      IN  /\ m.conn = d /\ sent[d][m.num] = "req"
                          /\ \A j \in 1..(i - 1) :
                                ~(out'[d][j].unit = 1 /\ out'[d][j].msg = m)
                          /\ \A n \in 1..(m.num - 1) : sent[d][n] = "req" =>
                                \E j \in 1..(i - 1) :
                                   out'[d][j] = [msg |-> Response(d, n), unit |-> Units]
    BY <1>1 DEF ResponsesInOrder, Begins
  <2>1. CASE i \in 1..Len(out[d]) /\ out'[d][i] = out[d][i]
    <3>1. \A j \in 1..(i - 1) : j \in 1..Len(out[d]) /\ out'[d][j] = out[d][j]
      <4>1. CASE d = c
        <5>1. \A j \in 1..(i - 1) : j \in 1..Len(out[c])
          BY <1>3, <2>1, <4>1
        <5> QED
          BY <1>2, <4>1, <5>1
      <4>2. CASE d # c
        <5>1. Len(out[d]) \in Nat
          BY DEF Control, TypeOK
        <5> QED
          BY <1>1, <2>1, <4>2, <5>1
      <4> QED
        BY <4>1, <4>2
    <3> QED
      BY <2>1, <3>1 DEF Requests, ResponsesInOrder, Begins
  <2>2. CASE ~(i \in 1..Len(out[d]) /\ out'[d][i] = out[d][i])
    <3>1. d = c /\ out'[d][i].msg = msg[t] /\ i \in (Len(out[c]) + 1)..Len(out'[c])
      BY <1>1, <1>4, <2>2
    <3>2. /\ isAnswer /\ c = cur /\ msg[t] = Response(cur, taken) /\ Pending
          /\ sent[cur][taken] = "req" /\ cur # NoConn
      BY <1>1, <1>5, <3>1, ConnAssumption
    <3>3. i = Len(out[c]) + 1 /\ left[t] = Units
      <4>1. Units - left[t] + (i - Len(out[c])) = 1
        BY <1>2, <3>1
      <4> QED
        <5> DEFINE a == left[t]  b == i - Len(out[c])
        <5>1. /\ a \in Nat /\ a <= Units /\ b \in Nat /\ b >= 1
              /\ Units \in Nat /\ Units - a + b = 1
          BY <1>3, <3>1, <4>1
        <5> HIDE DEF a, b
        <5>2. a = Units /\ b = 1
          BY <5>1
        <5>3. i - Len(out[c]) = 1 /\ left[t] = Units
          BY <5>2 DEF a, b
        <5> QED
          BY <1>3, <3>1, <5>3
    <3>4. ~AnswerBegun /\ pc["main"] \notin {"closing", "closesock"}
      BY <1>1, <1>3, <3>2, <3>3 DEF AnswerBegun
    <3>5. \A j \in 1..(i - 1) : j \in 1..Len(out[c]) /\ out'[c][j] = out[c][j]
      BY <1>2, <1>3, <3>3
    <3>6. \A j \in 1..Len(out[c]) : out[c][j].msg # Response(cur, taken)
      <4> SUFFICES ASSUME NEW j \in 1..Len(out[c]), out[c][j].msg = Response(cur, taken)
                   PROVE  FALSE
        OBVIOUS
      <4>1. out[c][j].msg.kind = "response" /\ out[c][j].msg.num = taken
        BY <1>6
      <4>2. out[c][j].msg.num < taken
        BY <1>1, <3>2, <3>4, <4>1 DEF Requests, ResponsesToLines
      <4> QED
        BY <1>3, <4>1, <4>2
    <3>7. ASSUME NEW n \in 1..(taken - 1), sent[cur][n] = "req"
          PROVE  \E j \in 1..(i - 1) :
                    out'[c][j] = [msg |-> Response(c, n), unit |-> Units]
      <4>1. n \in 1..taken /\ n < taken
        BY <1>3
      <4>2. Answered(cur, n)
        BY <3>2, <3>4, <3>7, <4>1 DEF Requests, EarlierAnswered
      <4>3. PICK j \in 1..Len(out[c]) :
                out[c][j] = [msg |-> Response(c, n), unit |-> Units]
        BY <3>2, <4>2 DEF Answered
      <4>4. j \in 1..(i - 1)
        BY <1>3, <3>3
      <4> QED
        BY <1>2, <4>3, <4>4
    <3> QED
      <4> DEFINE m == out'[c][i].msg
      <4>1. m = Response(cur, taken) /\ m.conn = c /\ m.num = taken /\ d = c
        BY <1>6, <3>1, <3>2
      <4>2. \A j \in 1..(i - 1) : out'[c][j].msg # m
        BY <3>5, <3>6, <4>1
      <4>3. \A n \in 1..(m.num - 1) : sent[c][n] = "req" =>
              \E j \in 1..(i - 1) :
                 out'[c][j] = [msg |-> Response(c, n), unit |-> Units]
        BY <3>2, <3>7, <4>1
      <4>4. sent[c][m.num] = "req"
        BY <3>2, <4>1
      <4> HIDE DEF m
      <4> QED
        BY <4>1, <4>2, <4>3, <4>4 DEF m
  <2> QED
    BY <2>1, <2>2
<1> QED
  BY <1>8, <1>10, <1>12, <1>13 DEF Requests

\* All three layers hold in every state of the server.
LEMMA RequestsInvariance == Spec => [](Control /\ Wire /\ Requests)
<1>1. Control /\ Wire /\ Requests /\ [Next]_vars => Requests'
  <2> SUFFICES ASSUME Control, Wire, Requests, [Next]_vars PROVE Requests'
    OBVIOUS
  <2> QED
    BY QuietRequests, SendRequests
<1>2. Control /\ Wire /\ [Next]_vars => Wire'
  BY EndIsOwned, UnitsStayTogether, GreetingStep DEF Wire
<1> QED
  BY <1>1, <1>2, InitControl, ControlStep, InitWire, InitRequests, PTL DEF Spec

\* Responses leave in the order of their requests, each once and on the
\* connection that asked, and none before the responses to all the earlier
\* requests are complete: whatever events the worker pushes in between,
\* however the sends are cut, and for any number of clients.
THEOREM ResponsesKeepTheOrder == Spec => []ResponsesInOrder
<1>1. Requests => ResponsesInOrder
  BY DEF Requests
<1> QED
  BY <1>1, RequestsInvariance, PTL

-----------------------------------------------------------------------------
(* The fourth layer, for the refinement of ControlLink: nothing is said twice. *)

\* The message of thread t is on the wire, but not as a whole.
Begun(t) == pc[t] = "send" /\ left[t] < Units

\* An event is a message of its own, and until a thread has put something of
\* it on a wire it is on none.
EventsOnce ==
    /\ nev <= MaxEvents
    /\ \A c \in Conn : \A i \in 1..Len(out[c]) :
          out[c][i].msg.kind = "event" => \E n \in 1..nev : out[c][i].msg = Event(n)
    /\ \A t \in Thread : Writing(t) /\ msg[t].kind = "event" =>
          /\ \E n \in 1..nev : msg[t] = Event(n)
          /\ ~Begun(t) =>
                \A c \in Conn : \A i \in 1..Len(out[c]) : out[c][i].msg # msg[t]
    /\ Writing("main") /\ Writing("worker") => msg["main"] # msg["worker"]

Error == {"badline", "toolong"}

\* An error event is being written for the line taken last.
Complaining == Writing("main") /\ msg["main"].kind \in Error

\* Something of the reply to the line taken last is on the wire.
ReplyBegun == Begun("main") /\ msg["main"].kind \in Error \cup {"response"}

\* On the served connection the line being handled has no reply yet, and after
\* the complaint about a line that was too long nothing is handled any more.
RepliesOnce ==
    cur # NoConn =>
        /\ Complaining => /\ taken > 0 /\ sent[cur][taken] # "req"
                          /\ msg["main"] = ErrorEvent(cur, taken, sent[cur][taken])
        /\ \A i \in 1..Len(out[cur]) :
              /\ out[cur][i].msg.kind \in {"response", "badline"} =>
                    /\ out[cur][i].msg.num <= taken
                    /\ (Pending \/ Complaining) /\ ~ReplyBegun =>
                          out[cur][i].msg.num < taken
              /\ out[cur][i].msg.kind = "toolong" =>
                    \/ pc["main"] \in {"closing", "closesock"}
                    \/ ReplyBegun /\ msg["main"].kind = "toolong"

\* A refusal is the first thing on its socket.
RefusalIsFirst ==
    Refusing /\ pc["main"] = "send" /\ left["main"] = Units => out[to["main"]] = <<>>

\* The first unit of a half-written message is on the wire, the last is not.
HalfSaid ==
    \A t \in Thread : Begun(t) =>
        /\ \E i \in 1..Len(out[to[t]]) : Begins(to[t], i, msg[t])
        /\ \A i \in 1..Len(out[to[t]]) :
              out[to[t]][i].unit = Units => out[to[t]][i].msg # msg[t]

Once == EventsOnce /\ RepliesOnce /\ RefusalIsFirst /\ HalfSaid

-----------------------------------------------------------------------------
\* A step that sends nothing lets a thread go on with its message, or give it up,
\* or start one: an event with the next number, or something of the main thread.
LEMMA QuietMessages ==
    ASSUME Control, [Next]_vars, \A t \in Thread : ~Send(t)
    PROVE  /\ nev' \in {nev, nev + 1} /\ (nev' = nev + 1 => nev < MaxEvents)
           /\ \A t \in Thread : Writing(t)' =>
                 \/ Writing(t) /\ msg'[t] = msg[t] /\ (Begun(t)' <=> Begun(t))
                 \/ /\ msg'[t] = Event(nev + 1) /\ nev' = nev + 1 /\ ~Begun(t)'
                    /\ \A u \in Thread \ {t} :
                          msg'[u] = msg[u] /\ (Writing(u)' <=> Writing(u))
                 \/ t = "main" /\ msg'[t].kind # "event" /\ ~Begun(t)'
           /\ pc'["main"] = "send" /\ msg'["main"].kind = "refused" =>
                 \/ to'["main"] \in Conn /\ fd[to'["main"]] = "none"
                 \/ /\ pc["main"] = "send" /\ msg'["main"] = msg["main"]
                    /\ to'["main"] = to["main"] /\ left'["main"] = left["main"]
<1> DEFINE Same(t) == Writing(t) /\ msg'[t] = msg[t] /\ (Begun(t)' <=> Begun(t))
           Next1(t) == /\ msg'[t] = Event(nev + 1) /\ nev' = nev + 1 /\ ~Begun(t)'
                       /\ \A u \in Thread \ {t} :
                             msg'[u] = msg[u] /\ (Writing(u)' <=> Writing(u))
           Other(t) == t = "main" /\ msg'[t].kind # "event" /\ ~Begun(t)'
           Refuses == pc'["main"] = "send" /\ msg'["main"].kind = "refused" =>
                 \/ to'["main"] \in Conn /\ fd[to'["main"]] = "none"
                 \/ /\ pc["main"] = "send" /\ msg'["main"] = msg["main"]
                    /\ to'["main"] = to["main"] /\ left'["main"] = left["main"]
           Goal == /\ nev' \in {nev, nev + 1} /\ (nev' = nev + 1 => nev < MaxEvents)
                   /\ \A t \in Thread : Writing(t)' => Same(t) \/ Next1(t) \/ Other(t)
                   /\ Refuses
<1> USE DEF Thread, Writing, WritePC, Begun
<1>0. /\ pc \in [Thread -> MainPC \cup WritePC \cup {"idle"}] /\ msg \in [Thread -> Msg]
      /\ nev \in Nat /\ left \in [Thread -> 0..Units]
      /\ to \in [Thread -> Conn \cup {NoConn}]
  BY DEF Control, TypeOK
<1>1. CASE UNCHANGED vars
  BY <1>0, <1>1 DEF vars, writeVars
<1>2. CASE Stop \/ \E c \in Conn : Client(c)
  <2>1. UNCHANGED <<pc, msg, to, left, nev>>
    BY <1>2 DEF Stop, Client, Connect, SendLine, Read, Hangup, writeVars
  <2> QED
    BY <1>0, <2>1
<1>3. CASE WorkerEvent
  <2>1. /\ UNCHANGED <<to, left>> /\ pc' = [pc EXCEPT !["worker"] = "lock"]
        /\ msg' = [msg EXCEPT !["worker"] = Event(nev + 1)]
        /\ nev' = nev + 1 /\ nev < MaxEvents
    BY <1>3 DEF WorkerEvent, StartWrite, Goto
  <2> QED
    BY <1>0, <2>1
<1>4. CASE \/ Select \/ LoopExit \/ SelectFail \/ AcceptFail \/ Fill \/ FillEnd
           \/ ExtractPending \/ OpenDone \/ RefuseClose \/ CloseConn \/ CloseSock
           \/ OpenConn \/ OpenFail
  <2>1. /\ UNCHANGED <<msg, to, left, nev>>
        /\ \E l \in {"loop", "input", "accept", "extract", "closing", "done", "hello",
                     "closesock"} : pc' = [pc EXCEPT !["main"] = l]
    BY <1>4 DEF Select, LoopExit, SelectFail, AcceptFail, Leave, Fill, FillEnd,
           ExtractPending, OpenDone, AfterInput, Goto, writeVars, RefuseClose,
           CloseConn, CloseSock, OpenConn, OpenFail
  <2> QED
    BY <1>0, <2>1
<1>5. CASE ExtractLine \/ Dispatch \/ PushHello
  <2>1. /\ UNCHANGED <<to, left, nev>> /\ msg'["worker"] = msg["worker"]
        /\ \E l \in {"lock", "dispatch"} : pc' = [pc EXCEPT !["main"] = l]
        /\ pc'["main"] = "lock" => msg'["main"].kind # "event"
    <3>1. \A k : /\ ErrorEvent(cur, taken + 1, k).kind # "event"
                 /\ Response(cur, taken).kind # "event" /\ Hello(cur).kind # "event"
      BY DEF ErrorEvent, Response, Hello, Message
    <3> QED
      BY <1>0, <1>5, <3>1 DEF ExtractLine, Dispatch, PushHello, StartWrite, Goto, writeVars
  <2> QED
    BY <1>0, <2>1
<1>6. CASE DispatchCallback
  <2>1. /\ UNCHANGED <<to, left>> /\ pc' = [pc EXCEPT !["main"] = "lock"]
        /\ msg' = [msg EXCEPT !["main"] = Event(nev + 1)]
        /\ nev' = nev + 1 /\ nev < MaxEvents
    BY <1>6 DEF DispatchCallback, StartWrite, Goto
  <2> QED
    BY <1>0, <2>1
<1>7. CASE Refuse
  <2>1. backlog \in Seq(Conn) /\ backlog # <<>>
    BY <1>7 DEF Control, TypeOK, AcceptHasClient, Refuse
  <2> DEFINE c == Head(backlog)
  <2>2. c \in Conn /\ fd[c] = "none"
    BY <2>1, TakeFirst DEF Control, BacklogIsFresh
  <2> HIDE DEF c
  <2>3. /\ msg' = [msg EXCEPT !["main"] = Refusal(c)] /\ to' = [to EXCEPT !["main"] = c]
        /\ left' = [left EXCEPT !["main"] = Units] /\ nev' = nev
        /\ pc' = [pc EXCEPT !["main"] = "send"]
    BY <1>7 DEF Refuse, Goto, c
  <2>4. Refusal(c).kind # "event"
    BY DEF Refusal, Message
  <2> QED
    BY <1>0, <2>2, <2>3, <2>4, UnitsAssumption
<1>8. ASSUME NEW t \in Thread, Begin(t) \/ BeginFail(t) \/ SendFail(t)
      PROVE  Goal
  <2>1. /\ UNCHANGED <<msg, nev>>
        /\ \/ /\ pc[t] = "lock" /\ pc' = [pc EXCEPT ![t] = "send"]
              /\ left' = [left EXCEPT ![t] = Units]
              /\ to' = [to EXCEPT ![t] = framing]
           \/ /\ \E ok \in BOOLEAN : pc' = [pc EXCEPT ![t] = After(t, ok)]
              /\ to' = to /\ pc[t] \in {"lock", "send"}
              /\ left' = left \/ left' = [left EXCEPT ![t] = 0]
    BY <1>8 DEF Begin, BeginFail, SendFail, Finish, Goto, eventVars, writeVars
  <2>2. \A ok \in BOOLEAN : pc[t] \in {"lock", "send"} => After(t, ok) \notin {"lock", "send"}
    <3>1. CASE t = "worker"
      BY <3>1 DEF After
    <3>2. CASE t = "main"
      <4>1. pc["main"] \in {"lock", "send"} => msg["main"].kind \in MsgKind \ {"none"}
        BY <1>0 DEF Control, ThreadsInPlace, Msg
      <4> QED
        BY <3>2, <4>1, AfterMain DEF MsgKind
    <3> QED
      BY <3>1, <3>2
  <2>3. pc["main"] = "lock" => msg["main"].kind # "refused"
    BY DEF Control, ThreadsInPlace
  <2>4. CASE t = "worker"
    BY <1>0, <2>1, <2>2, <2>4, UnitsAssumption
  <2>5. CASE t = "main"
    BY <1>0, <2>1, <2>2, <2>3, <2>5, UnitsAssumption
  <2> QED
    BY <2>4, <2>5
<1> QED
  BY <1>1, <1>2, <1>3, <1>4, <1>5, <1>6, <1>7, <1>8 DEF Next, Main, Write

\* Every event is numbered, and its number is given once.
LEMMA EventNumbers ==
    \A m, n \in Nat : Event(m).kind = "event" /\ (Event(m) = Event(n) => m = n)
BY DEF Event, Message

\* A send() moves the thread that made it and no other: it goes on sending less than
\* its whole message, or is done with it.
LEMMA SendMoves ==
    ASSUME Control, NEW t \in Thread, Send(t)
    PROVE  /\ left'[t] < Units /\ left'[t] # Units
           /\ pc'[t] = "send" \/ (pc'[t] = After(t, TRUE) /\ pc'[t] \notin WritePC)
           /\ \A u \in Thread \ {t} : pc'[u] = pc[u] /\ left'[u] = left[u]
<1>1. pc[t] = "send" /\ left[t] \in 0..Units
  BY SendStep
<1>2. PICK k \in 1..left[t] :
         /\ left' = [left EXCEPT ![t] = left[t] - k]
         /\ pc' = [pc EXCEPT ![t] = After(t, TRUE)] \/ pc' = pc
  BY SendStep
<1>3. /\ DOMAIN left = Thread /\ DOMAIN pc = Thread
  BY DEF Control, TypeOK
<1>4. left'[t] = left[t] - k
  BY <1>2, <1>3
<1>5. left'[t] < Units /\ left'[t] # Units
  BY <1>1, <1>4, UnitsAssumption
<1>6. \A u \in Thread \ {t} : pc'[u] = pc[u] /\ left'[u] = left[u]
  BY <1>2, <1>3
<1>7. pc'[t] = "send" \/ pc'[t] = After(t, TRUE)
  BY <1>1, <1>2, <1>3
<1>8. After(t, TRUE) \notin WritePC
  <2>1. CASE t = "worker"
    BY <2>1 DEF After, WritePC
  <2>2. CASE t = "main"
    <3>1. msg["main"].kind \in MsgKind \ {"none"}
      BY <1>1, <2>2 DEF Control, TypeOK, ThreadsInPlace, Writing, WritePC, Msg, Thread
    <3> QED
      BY <2>2, <3>1, AfterMain DEF MsgKind, WritePC
  <2> QED
    BY <2>1, <2>2 DEF Thread
<1> QED
  BY <1>5, <1>6, <1>7, <1>8

\* An event is pushed by one thread, with a number that no other has.
LEMMA EventsStep ==
    ASSUME Control, EventsOnce, [Next]_vars, Control'
    PROVE  EventsOnce'
<1>0. nev \in Nat /\ MaxEvents \in Nat
  BY BoundsAssumption DEF Control, TypeOK
<1>1. CASE \A t \in Thread : ~Send(t)
  <2>1. out' = out
    BY <1>1, QuietStep
  <2>2. nev' \in {nev, nev + 1} /\ (nev' = nev + 1 => nev < MaxEvents)
    BY <1>1, QuietMessages
  <2>3. nev' <= MaxEvents /\ nev' \in Nat
    BY <1>0, <2>2 DEF EventsOnce
  <2>4. \A n \in 1..nev : n \in 1..nev'
    BY <1>0, <2>2
  <2>5. \A c \in Conn : \A i \in 1..Len(out[c]) :
          out[c][i].msg.kind = "event" => \E n \in 1..nev' : out[c][i].msg = Event(n)
    BY <2>4 DEF EventsOnce
  <2>6. \A c \in Conn : \A i \in 1..Len(out[c]) : out[c][i].msg # Event(nev + 1)
    <3> SUFFICES ASSUME NEW c \in Conn, NEW i \in 1..Len(out[c]),
                        out[c][i].msg = Event(nev + 1)
                 PROVE  FALSE
      OBVIOUS
    <3>1. out[c][i].msg.kind = "event"
      BY <1>0, EventNumbers
    <3>2. PICK n \in 1..nev : out[c][i].msg = Event(n)
      BY <3>1 DEF EventsOnce
    <3>3. n = nev + 1
      BY <1>0, <3>2, EventNumbers
    <3> QED
      BY <1>0, <3>3
  <2>7. ASSUME NEW t \in Thread, Writing(t)', msg'[t].kind = "event"
        PROVE  /\ \E n \in 1..nev' : msg'[t] = Event(n)
               /\ ~Begun(t)' =>
                     \A c \in Conn : \A i \in 1..Len(out[c]) : out[c][i].msg # msg'[t]
    <3>1. \/ Writing(t) /\ msg'[t] = msg[t] /\ (Begun(t)' <=> Begun(t))
          \/ msg'[t] = Event(nev + 1) /\ nev' = nev + 1
      BY <1>1, <2>7, QuietMessages
    <3>2. CASE Writing(t) /\ msg'[t] = msg[t] /\ (Begun(t)' <=> Begun(t))
      <4>1. PICK n \in 1..nev : msg[t] = Event(n)
        BY <2>7, <3>2 DEF EventsOnce
      <4>2. ~Begun(t) => \A c \in Conn : \A i \in 1..Len(out[c]) : out[c][i].msg # msg[t]
        BY <2>7, <3>2 DEF EventsOnce
      <4> QED
        BY <2>4, <3>2, <4>1, <4>2
    <3>3. CASE msg'[t] = Event(nev + 1) /\ nev' = nev + 1
      <4>1. nev + 1 \in 1..nev'
        BY <1>0, <3>3
      <4> QED
        BY <2>6, <3>3, <4>1
    <3> QED
      BY <3>1, <3>2, <3>3
  <2>8. ASSUME Writing("main")', Writing("worker")' PROVE msg'["main"] # msg'["worker"]
    <3> USE DEF Thread
    <3>1. msg'["worker"].kind = "event"
      BY <2>8 DEF Control, ThreadsInPlace
    <3>2. \/ Writing("worker") /\ msg'["worker"] = msg["worker"]
          \/ /\ msg'["worker"] = Event(nev + 1)
             /\ msg'["main"] = msg["main"] /\ Writing("main")
      BY <1>1, <2>8, QuietMessages
    <3>3. \/ Writing("main") /\ msg'["main"] = msg["main"]
          \/ /\ msg'["main"] = Event(nev + 1)
             /\ msg'["worker"] = msg["worker"] /\ Writing("worker")
          \/ msg'["main"].kind # "event"
      BY <1>1, <2>8, QuietMessages
    <3>4. \A t \in Thread : Writing(t) => msg[t] # Event(nev + 1)
      <4> SUFFICES ASSUME NEW t \in Thread, Writing(t), msg[t] = Event(nev + 1)
                   PROVE  FALSE
        OBVIOUS
      <4>1. msg[t].kind = "event"
        BY <1>0, EventNumbers
      <4>2. PICK n \in 1..nev : msg[t] = Event(n)
        BY <4>1 DEF EventsOnce
      <4>3. n = nev + 1
        BY <1>0, <4>2, EventNumbers
      <4> QED
        BY <1>0, <4>3
    <3>5. Writing("main") /\ Writing("worker") => msg["main"] # msg["worker"]
      BY DEF EventsOnce
    <3> QED
      BY <3>1, <3>2, <3>3, <3>4, <3>5
  <2> QED
    BY <2>1, <2>3, <2>5, <2>7, <2>8 DEF EventsOnce
<1>2. ASSUME NEW t \in Thread, Send(t) PROVE EventsOnce'
  <2> DEFINE c == to[t]
  <2>1. /\ c \in Conn /\ left[t] \in 0..Units /\ pc[t] = "send" /\ msg[t] \in Msg
        /\ out[c] \in Seq(Unit) /\ out'[c] \in Seq(Unit)
        /\ \A d \in Conn \ {c} : out'[d] = out[d]
        /\ UNCHANGED <<msg, nev>>
    BY <1>2, SendStep
  <2>2. PICK k \in 1..left[t] :
           /\ left' = [left EXCEPT ![t] = left[t] - k]
           /\ \/ k = left[t] /\ pc' = [pc EXCEPT ![t] = After(t, TRUE)]
              \/ k < left[t] /\ pc' = pc
           /\ Len(out'[c]) = Len(out[c]) + k
           /\ \A i \in 1..Len(out[c]) : out'[c][i] = out[c][i]
           /\ \A i \in (Len(out[c]) + 1)..Len(out'[c]) : out'[c][i].msg = msg[t]
    BY <1>2, SendStep
  <2>3. \A d \in Conn : \A i \in 1..Len(out'[d]) :
           \/ i \in 1..Len(out[d]) /\ out'[d][i].msg = out[d][i].msg
           \/ out'[d][i].msg = msg[t]
    <3>1. ASSUME NEW i \in 1..Len(out'[c])
          PROVE  \/ i \in 1..Len(out[c]) /\ out'[c][i].msg = out[c][i].msg
                 \/ out'[c][i].msg = msg[t]
      <4>1. Len(out[c]) \in Nat /\ Len(out'[c]) \in Nat
        BY <2>1
      <4>2. i \in 1..Len(out[c]) \/ i \in (Len(out[c]) + 1)..Len(out'[c])
        BY <4>1
      <4> QED
        BY <2>2, <4>2
    <3> QED
      BY <2>1, <3>1
  <2>4. Writing(t) /\ (\A u \in Thread : Writing(u)' => Writing(u))
    <3>1. Writing(t)
      BY <2>1 DEF Writing, WritePC
    <3>2. \A u \in Thread : u # t => pc'[u] = pc[u]
      BY <2>2 DEF Control, TypeOK
    <3> QED
      BY <3>1, <3>2 DEF Writing
  <2>5. ASSUME NEW u \in Thread, Writing(u)', ~Begun(u)'
        PROVE  u # t /\ Writing(u) /\ ~Begun(u)
    <3>1. u # t
      BY <1>2, <2>5, SendMoves DEF Writing, Begun
    <3>2. pc'[u] = pc[u] /\ left'[u] = left[u]
      BY <1>2, <3>1, SendMoves
    <3> QED
      BY <2>5, <3>1, <3>2 DEF Writing, Begun
  <2>6. \A d \in Conn : \A i \in 1..Len(out'[d]) :
          out'[d][i].msg.kind = "event" => \E n \in 1..nev : out'[d][i].msg = Event(n)
    BY <2>3, <2>4 DEF EventsOnce
  <2>7. \A u \in Thread : Writing(u) /\ u # t => msg[u] # msg[t]
    BY <2>4 DEF EventsOnce, Thread
  <2>8. ASSUME NEW u \in Thread, Writing(u)', msg[u].kind = "event"
        PROVE  /\ \E n \in 1..nev : msg[u] = Event(n)
               /\ ~Begun(u)' =>
                     \A d \in Conn : \A i \in 1..Len(out'[d]) : out'[d][i].msg # msg[u]
    <3>1. \E n \in 1..nev : msg[u] = Event(n)
      BY <2>4, <2>8 DEF EventsOnce
    <3>2. ASSUME ~Begun(u)', NEW d \in Conn, NEW i \in 1..Len(out'[d])
          PROVE  out'[d][i].msg # msg[u]
      <4>1. u # t /\ Writing(u) /\ ~Begun(u)
        BY <2>5, <2>8, <3>2
      <4>2. msg[u] # msg[t]
        BY <2>7, <4>1
      <4>3. \A j \in 1..Len(out[d]) : out[d][j].msg # msg[u]
        BY <2>8, <4>1 DEF EventsOnce
      <4> QED
        BY <2>3, <4>2, <4>3
    <3> QED
      BY <3>1, <3>2
  <2>9. Writing("main")' /\ Writing("worker")' => msg["main"] # msg["worker"]
    BY <2>4 DEF EventsOnce, Thread
  <2> QED
    BY <2>1, <2>6, <2>8, <2>9 DEF EventsOnce
<1> QED
  BY <1>1, <1>2

\* The line being handled has its reply still to come.
Unanswered == (Pending \/ Complaining) /\ ~ReplyBegun

\* A step that sends nothing, while the connection stays, leaves the line being
\* handled and the state of its reply as they are, or takes the next line.
LEMMA QuietReplies ==
    ASSUME Control, [Next]_vars, \A t \in Thread : ~Send(t), cur' = cur, cur # NoConn
    PROVE  /\ pc["main"] \in {"closing", "closesock"} =>
                 pc'["main"] \in {"closing", "closesock"}
           /\ ReplyBegun /\ msg["main"].kind = "toolong" =>
                 \/ pc'["main"] = "closing"
                 \/ ReplyBegun' /\ msg'["main"] = msg["main"]
           /\ \/ /\ taken' = taken /\ (Unanswered' => Unanswered)
                 /\ Complaining' => Complaining /\ msg'["main"] = msg["main"]
              \/ /\ taken' = taken + 1 /\ pc["main"] = "extract" /\ taken < filled
                 /\ Complaining' =>
                       /\ sent[cur][taken + 1] # "req"
                       /\ msg'["main"] =
                             ErrorEvent(cur, taken + 1, sent[cur][taken + 1])
<1> DEFINE Goal ==
           /\ pc["main"] \in {"closing", "closesock"} =>
                 pc'["main"] \in {"closing", "closesock"}
           /\ ReplyBegun /\ msg["main"].kind = "toolong" =>
                 \/ pc'["main"] = "closing"
                 \/ ReplyBegun' /\ msg'["main"] = msg["main"]
           /\ \/ /\ taken' = taken /\ (Unanswered' => Unanswered)
                 /\ Complaining' => Complaining /\ msg'["main"] = msg["main"]
              \/ /\ taken' = taken + 1 /\ pc["main"] = "extract" /\ taken < filled
                 /\ Complaining' =>
                       /\ sent[cur][taken + 1] # "req"
                       /\ msg'["main"] =
                             ErrorEvent(cur, taken + 1, sent[cur][taken + 1])
<1> USE DEF Thread, Writing, WritePC, Begun, Pending, Complaining, ReplyBegun,
            Unanswered, Error
<1>0. /\ pc \in [Thread -> MainPC \cup WritePC \cup {"idle"}] /\ msg \in [Thread -> Msg]
      /\ left \in [Thread -> 0..Units]
  BY DEF Control, TypeOK
<1>1. ASSUME UNCHANGED taken, pc'["main"] = pc["main"], msg'["main"] = msg["main"],
             left'["main"] = left["main"]
      PROVE  Goal
  BY <1>1
<1>2. CASE UNCHANGED vars \/ Stop \/ \E c \in Conn : Client(c)
  <2>1. UNCHANGED <<taken, left, pc, msg>>
    BY <1>2 DEF vars, Stop, Client, Connect, SendLine, Read, Hangup, writeVars, loopVars
  <2> QED
    BY <1>1, <2>1
<1>3. CASE WorkerEvent
  <2>1. /\ UNCHANGED <<taken, left>> /\ pc'["main"] = pc["main"]
        /\ msg'["main"] = msg["main"]
    BY <1>0, <1>3 DEF WorkerEvent, StartWrite, Goto, loopVars
  <2> QED
    BY <1>1, <2>1
<1>4. CASE \/ Select \/ LoopExit \/ SelectFail \/ AcceptFail \/ Fill \/ FillEnd
           \/ ExtractPending \/ OpenDone \/ OpenFail \/ RefuseClose \/ CloseConn
  <2>1. /\ UNCHANGED taken
        /\ pc["main"] \in {"loop", "accept", "input", "extract", "opened", "refused",
                           "closing"}
        /\ pc["main"] = "closing" => pc'["main"] = "closesock"
        /\ pc'["main"] \in {"loop", "accept", "input", "extract", "closing",
                            "closesock", "done"}
    BY <1>0, <1>4 DEF Select, LoopExit, SelectFail, AcceptFail, Leave, Fill, FillEnd,
           ExtractPending, OpenDone, OpenFail, RefuseClose, CloseConn, AfterInput,
           Goto, loopVars
  <2> QED
    BY <2>1
<1>5. CASE OpenConn \/ CloseSock
  <2>1. cur \in Conn
    BY DEF Control, TypeOK
  <2>2. CASE OpenConn
    <3>1. backlog \in Seq(Conn) /\ backlog # <<>>
      BY <2>2 DEF Control, TypeOK, AcceptHasClient, OpenConn
    <3>2. fd[Head(backlog)] = "none" /\ fd[cur] = "open"
      BY <3>1, TakeFirst DEF Control, BacklogIsFresh, PointerIsConn
    <3> QED
      BY <2>2, <3>2 DEF OpenConn
  <2>3. CASE CloseSock
    BY <2>3 DEF CloseSock
  <2> QED
    BY <1>5, <2>2, <2>3
<1>6. CASE ExtractLine
  <2>1. /\ taken' = taken + 1 /\ taken < filled /\ pc["main"] = "extract"
        /\ IF sent[cur][taken + 1] = "req"
           THEN pc'["main"] = "dispatch"
           ELSE /\ pc'["main"] = "lock"
                /\ msg'["main"] = ErrorEvent(cur, taken + 1, sent[cur][taken + 1])
    BY <1>0, <1>6 DEF ExtractLine, StartWrite, Goto
  <2> QED
    BY <2>1
<1>7. CASE DispatchCallback \/ Dispatch \/ PushHello
  <2>1. /\ UNCHANGED taken /\ pc'["main"] = "lock"
        /\ \/ /\ pc["main"] = "dispatch"
              /\ msg'["main"] \in {Event(nev + 1), Response(cur, taken)}
           \/ pc["main"] = "hello" /\ msg'["main"] = Hello(cur)
    BY <1>0, <1>7 DEF DispatchCallback, Dispatch, PushHello, StartWrite, Goto, loopVars
  <2>2. /\ Event(nev + 1).kind = "event" /\ Response(cur, taken).kind = "response"
        /\ Hello(cur).kind = "hello"
    BY DEF Event, Response, Hello, Message
  <2> QED
    BY <2>1, <2>2
<1>8. CASE Refuse
  <2>1. /\ UNCHANGED taken /\ pc["main"] = "accept" /\ pc'["main"] = "send"
        /\ msg'["main"].kind = "refused"
    BY <1>0, <1>8 DEF Refuse, Goto, loopVars, Refusal, Message
  <2> QED
    BY <2>1
<1>9. ASSUME NEW t \in Thread, Begin(t) \/ BeginFail(t) \/ SendFail(t)
      PROVE  Goal
  <2>1. /\ UNCHANGED <<taken, msg>>
        /\ \/ /\ pc[t] = "lock" /\ pc' = [pc EXCEPT ![t] = "send"]
              /\ left' = [left EXCEPT ![t] = Units]
           \/ /\ \E ok \in BOOLEAN : pc' = [pc EXCEPT ![t] = After(t, ok)]
              /\ pc[t] \in {"lock", "send"}
              /\ left' = left \/ left' = [left EXCEPT ![t] = 0]
    BY <1>9 DEF Begin, BeginFail, SendFail, Finish, Goto, eventVars, writeVars, loopVars
  <2>2. CASE t = "worker"
    <3>1. pc'["main"] = pc["main"] /\ left'["main"] = left["main"]
      BY <1>0, <2>1, <2>2
    <3> QED
      BY <1>1, <2>1, <3>1
  <2>3. CASE t = "main"
    <3>1. msg["main"].kind \in MsgKind \ {"none"}
      BY <1>0, <2>1, <2>3 DEF Control, ThreadsInPlace, Msg
    <3>2. \A ok \in BOOLEAN :
             /\ After("main", ok) \in {"opened", "refused", "dispatch", "extract",
                                       "closing"}
             /\ msg["main"].kind = "toolong" => After("main", ok) = "closing"
             /\ After("main", ok) = "dispatch" => msg["main"].kind = "event"
      BY <3>1, AfterMain DEF MsgKind
    <3>3. CASE pc["main"] = "lock" /\ pc' = [pc EXCEPT !["main"] = "send"]
      BY <1>0, <2>1, <3>3
    <3>4. CASE /\ \E ok \in BOOLEAN : pc' = [pc EXCEPT !["main"] = After("main", ok)]
               /\ pc["main"] \in {"lock", "send"}
      <4>1. PICK ok \in BOOLEAN : pc'["main"] = After("main", ok)
        BY <1>0, <3>4
      <4> QED
        BY <2>1, <3>2, <3>4, <4>1
    <3> QED
      BY <2>1, <2>3, <3>3, <3>4
  <2> QED
    BY <2>2, <2>3
<1> QED
  BY <1>2, <1>3, <1>4, <1>5, <1>6, <1>7, <1>8, <1>9 DEF Next, Main, Write

\* An error event names the line it is about; neither it nor a response is an
\* event of pjsua or a greeting.
LEMMA ReplyFields ==
    \A c, n, k : /\ Response(c, n).kind = "response" /\ Response(c, n).num = n
                 /\ ErrorEvent(c, n, k).kind \in Error /\ ErrorEvent(c, n, k).num = n
BY DEF Response, ErrorEvent, Message, Error

\* A line is replied to once, and none after one that was too long.
LEMMA RepliesStep ==
    ASSUME Control, Wire, Requests, RepliesOnce, [Next]_vars, Control'
    PROVE  RepliesOnce'
<1> SUFFICES ASSUME cur' # NoConn PROVE RepliesOnce'
  BY DEF RepliesOnce
<1>0. /\ taken \in Nat /\ taken' \in Nat /\ cur' \in Conn /\ cur \in Conn \cup {NoConn}
      /\ \A c \in Conn : out[c] \in Seq(Unit) /\ out'[c] \in Seq(Unit)
  BY DEF Control, TypeOK
<1>num. \A c \in Conn : \A i \in 1..Len(out[c]) : out[c][i].msg.num \in Nat
  <2> SUFFICES ASSUME NEW c \in Conn, NEW i \in 1..Len(out[c])
               PROVE  out[c][i].msg.num \in Nat
    OBVIOUS
  <2>1. out[c][i] \in Unit
    BY <1>0
  <2> QED
    BY <2>1 DEF Unit, Msg
<1>1. CASE \A t \in Thread : ~Send(t)
  <2>1. out' = out
    BY <1>1, QuietStep
  <2>2. CASE fd[cur'] = "none" /\ pc'["main"] = "hello"
    <3>1. out'[cur'] = <<>>
      BY <1>0, <2>1, <2>2 DEF Wire, WriterOwnsTheEnd
    <3>2. ~Complaining'
      BY <2>2 DEF Complaining, Writing, WritePC
    <3> QED
      BY <3>1, <3>2 DEF RepliesOnce
  <2>3. CASE cur' = cur
    <3>1. cur \in Conn /\ cur # NoConn
      BY <1>0, <2>3
    <3>2. /\ pc["main"] \in {"closing", "closesock"} =>
                pc'["main"] \in {"closing", "closesock"}
          /\ ReplyBegun /\ msg["main"].kind = "toolong" =>
                \/ pc'["main"] = "closing"
                \/ ReplyBegun' /\ msg'["main"] = msg["main"]
      BY <1>1, <2>3, <3>1, QuietReplies
    <3>3. ASSUME NEW i \in 1..Len(out[cur]), out[cur][i].msg.kind = "toolong"
          PROVE  \/ pc'["main"] \in {"closing", "closesock"}
                 \/ ReplyBegun' /\ msg'["main"].kind = "toolong"
      BY <3>1, <3>2, <3>3 DEF RepliesOnce
    <3>4. /\ taken <= Len(sent[cur]) /\ (taken < filled => taken + 1 <= Len(sent[cur]))
          /\ Len(sent[cur]) \in Nat
      <4>1. /\ taken <= filled /\ filled <= Len(sent[cur]) /\ filled \in Nat
            /\ Len(sent[cur]) \in Nat
        BY <3>1 DEF Requests, LinesInOrder, Control, TypeOK
      <4> QED
        BY <1>0, <4>1
    <3>5. \A n \in 1..Len(sent[cur]) : sent'[cur][n] = sent[cur][n]
      BY <3>1, SentGrows
    <3>6. CASE /\ taken' = taken /\ (Unanswered' => Unanswered)
               /\ Complaining' => Complaining /\ msg'["main"] = msg["main"]
      <4>1. ASSUME Complaining'
            PROVE  /\ taken > 0 /\ sent'[cur][taken] # "req"
                   /\ msg'["main"] = ErrorEvent(cur, taken, sent'[cur][taken])
        <5>1. /\ taken > 0 /\ sent[cur][taken] # "req" /\ msg'["main"] = msg["main"]
              /\ msg["main"] = ErrorEvent(cur, taken, sent[cur][taken])
          BY <3>1, <3>6, <4>1 DEF RepliesOnce
        <5>2. sent'[cur][taken] = sent[cur][taken]
          <6>1. taken \in 1..Len(sent[cur])
            BY <1>0, <3>4, <5>1
          <6> QED
            BY <3>5, <6>1
        <5> QED
          BY <5>1, <5>2
      <4>2. ASSUME NEW i \in 1..Len(out[cur]),
                   out[cur][i].msg.kind \in {"response", "badline"}
            PROVE  /\ out[cur][i].msg.num <= taken
                   /\ Unanswered' => out[cur][i].msg.num < taken
        BY <3>1, <3>6, <4>2 DEF RepliesOnce, Unanswered
      <4> QED
        BY <2>1, <2>3, <3>3, <3>6, <4>1, <4>2 DEF RepliesOnce, Unanswered
    <3>7. CASE /\ taken' = taken + 1 /\ pc["main"] = "extract" /\ taken < filled
               /\ Complaining' =>
                     /\ sent[cur][taken + 1] # "req"
                     /\ msg'["main"] =
                           ErrorEvent(cur, taken + 1, sent[cur][taken + 1])
      <4>1. sent'[cur][taken + 1] = sent[cur][taken + 1] /\ taken' > 0
        <5>1. taken + 1 \in 1..Len(sent[cur])
          BY <1>0, <3>4, <3>7
        <5> QED
          BY <1>0, <3>5, <3>7, <5>1
      <4>2. ASSUME NEW i \in 1..Len(out[cur]),
                   out[cur][i].msg.kind \in {"response", "badline"}
            PROVE  out[cur][i].msg.num <= taken' /\ out[cur][i].msg.num < taken'
        <5>1. out[cur][i].msg.num <= taken
          BY <3>1, <4>2 DEF RepliesOnce
        <5> QED
          BY <1>0, <1>num, <3>1, <3>7, <5>1
      <4> QED
        BY <2>1, <2>3, <3>3, <3>7, <4>1, <4>2 DEF RepliesOnce
    <3> QED
      BY <1>1, <2>3, <3>1, <3>6, <3>7, QuietReplies
  <2> QED
    BY <1>1, <2>2, <2>3, QuietLines DEF Requests, LinesGoOn
<1>2. ASSUME NEW t \in Thread, Send(t) PROVE RepliesOnce'
  <2> DEFINE c == to[t]
  <2>1. /\ c \in Conn /\ left[t] \in 0..Units /\ pc[t] = "send" /\ msg[t] \in Msg
        /\ out[c] \in Seq(Unit) /\ out'[c] \in Seq(Unit)
        /\ \A d \in Conn \ {c} : out'[d] = out[d]
        /\ UNCHANGED <<msg, to, cur, sent, taken>>
    BY <1>2, SendStep
  <2>2. PICK k \in 1..left[t] :
           /\ left' = [left EXCEPT ![t] = left[t] - k]
           /\ \/ k = left[t] /\ pc' = [pc EXCEPT ![t] = After(t, TRUE)]
              \/ k < left[t] /\ pc' = pc
           /\ Len(out'[c]) = Len(out[c]) + k
           /\ \A i \in 1..Len(out[c]) : out'[c][i] = out[c][i]
           /\ \A i \in (Len(out[c]) + 1)..Len(out'[c]) : out'[c][i].msg = msg[t]
    BY <1>2, SendStep
  <2> DEFINE reply == t = "main" /\ msg["main"].kind \in Error \cup {"response"}
  <2>3. /\ Complaining' => Complaining
        /\ Unanswered' => Unanswered /\ ~reply
        /\ pc["main"] \in {"closing", "closesock"} => pc'["main"] = pc["main"]
        /\ ReplyBegun /\ msg["main"].kind = "toolong" =>
              ReplyBegun' \/ pc'["main"] = "closing"
        /\ reply /\ msg["main"].kind = "toolong" => ReplyBegun' \/ pc'["main"] = "closing"
    <3> USE DEF Complaining, Unanswered, ReplyBegun, Begun, Pending, Writing, WritePC,
                Error
    <3>1. CASE t = "worker"
      <4>1. pc'["main"] = pc["main"] /\ left'["main"] = left["main"]
        BY <2>2, <3>1 DEF Control, TypeOK, Thread
      <4> QED
        BY <2>1, <3>1, <4>1
    <3>2. CASE t = "main"
      <4>1. msg["main"].kind \in MsgKind \ {"none"} /\ pc["main"] = "send"
        BY <2>1, <3>2 DEF Control, ThreadsInPlace, Msg
      <4>2. /\ After("main", TRUE) \in {"opened", "refused", "dispatch", "extract", "closing"}
            /\ After("main", TRUE) = "dispatch" <=> msg["main"].kind = "event"
            /\ msg["main"].kind = "toolong" => After("main", TRUE) = "closing"
        BY <4>1, AfterMain DEF MsgKind
      <4>3. \/ k = left[t] /\ pc'["main"] = After("main", TRUE)
            \/ pc'["main"] = "send" /\ k < left[t]
        BY <2>2, <3>2, <4>1 DEF Control, TypeOK, Thread
      <4>4. left'["main"] < Units
        BY <1>2, <3>2, SendMoves
      <4> QED
        BY <2>1, <3>2, <4>1, <4>2, <4>3, <4>4
    <3> QED
      BY <3>1, <3>2 DEF Thread
  <2>4. cur \in Conn /\ cur # NoConn /\ cur' = cur
    BY <1>0, <2>1
  <2>5. ASSUME msg[t].kind \in Error \cup {"response"}
        PROVE  reply /\ msg[t].num = taken
    <3>1. t = "main"
      BY <2>1, <2>5 DEF Control, ThreadsInPlace, Writing, WritePC, Thread, Error
    <3>2. Writing("main")
      BY <2>1, <3>1 DEF Writing, WritePC
    <3>3. CASE msg["main"].kind = "response"
      BY <2>4, <2>5, <3>1, <3>2, <3>3, ReplyFields DEF Requests, LinesInOrder
    <3>4. CASE msg["main"].kind \in Error
      BY <2>4, <2>5, <3>1, <3>2, <3>4, ReplyFields DEF RepliesOnce, Complaining
    <3> QED
      BY <2>5, <3>1, <3>3, <3>4
  <2>6. \A i \in 1..Len(out'[cur]) :
           \/ i \in 1..Len(out[cur]) /\ out'[cur][i].msg = out[cur][i].msg
           \/ out'[cur][i].msg = msg[t]
    <3>1. CASE cur # c
      BY <2>1, <2>4, <3>1
    <3>2. CASE cur = c
      <4>1. Len(out[c]) \in Nat /\ Len(out'[c]) \in Nat
        BY <2>1
      <4>2. \A i \in 1..Len(out'[c]) :
               i \in 1..Len(out[c]) \/ i \in (Len(out[c]) + 1)..Len(out'[c])
        BY <4>1
      <4> QED
        BY <2>2, <3>2, <4>2
    <3> QED
      BY <3>1, <3>2
  <2>7. ASSUME NEW i \in 1..Len(out'[cur])
        PROVE  /\ out'[cur][i].msg.kind \in {"response", "badline"} =>
                     /\ out'[cur][i].msg.num <= taken
                     /\ Unanswered' => out'[cur][i].msg.num < taken
               /\ out'[cur][i].msg.kind = "toolong" =>
                     \/ pc'["main"] \in {"closing", "closesock"}
                     \/ ReplyBegun' /\ msg["main"].kind = "toolong"
    <3>1. CASE i \in 1..Len(out[cur]) /\ out'[cur][i].msg = out[cur][i].msg
      <4>1. /\ out[cur][i].msg.kind \in {"response", "badline"} =>
                  /\ out[cur][i].msg.num <= taken
                  /\ Unanswered => out[cur][i].msg.num < taken
            /\ out[cur][i].msg.kind = "toolong" =>
                  \/ pc["main"] \in {"closing", "closesock"}
                  \/ ReplyBegun /\ msg["main"].kind = "toolong"
        BY <2>4, <3>1 DEF RepliesOnce, Unanswered
      <4> QED
        BY <2>3, <3>1, <4>1
    <3>2. CASE out'[cur][i].msg = msg[t]
      <4>1. msg[t].kind \in {"response", "badline"} =>
               msg[t].num <= taken /\ ~Unanswered'
        BY <1>0, <2>3, <2>5 DEF Error
      <4>2. msg[t].kind = "toolong" => ReplyBegun' \/ pc'["main"] = "closing"
        BY <2>3, <2>5 DEF Error
      <4>3. msg[t].kind = "toolong" => msg["main"].kind = "toolong"
        BY <2>5 DEF Error
      <4> QED
        BY <3>2, <4>1, <4>2, <4>3
    <3> QED
      BY <2>6, <3>1, <3>2
  <2>8. Complaining' => /\ taken > 0 /\ sent[cur][taken] # "req"
                        /\ msg["main"] = ErrorEvent(cur, taken, sent[cur][taken])
    BY <2>3, <2>4 DEF RepliesOnce
  <2> QED
    BY <2>1, <2>7, <2>8 DEF RepliesOnce, Unanswered
<1> QED
  BY <1>1, <1>2

\* The refusal is the first thing handle_new_connection() sends on a socket that
\* was just accepted.
LEMMA RefusalStep ==
    ASSUME Control, Wire, RefusalIsFirst, [Next]_vars
    PROVE  RefusalIsFirst'
<1> SUFFICES ASSUME Refusing', pc'["main"] = "send", left'["main"] = Units
             PROVE  out'[to'["main"]] = <<>>
  BY DEF RefusalIsFirst
<1>0. msg'["main"].kind = "refused"
  BY DEF Refusing
<1>1. CASE \A t \in Thread : ~Send(t)
  <2>1. \/ to'["main"] \in Conn /\ fd[to'["main"]] = "none"
        \/ /\ pc["main"] = "send" /\ msg'["main"] = msg["main"]
           /\ to'["main"] = to["main"] /\ left'["main"] = left["main"]
    BY <1>0, <1>1, QuietMessages
  <2>2. out' = out
    BY <1>1, QuietStep
  <2> QED
    BY <1>0, <2>1, <2>2 DEF Wire, WriterOwnsTheEnd, RefusalIsFirst, Refusing
<1>2. ASSUME NEW t \in Thread, Send(t) PROVE out'[to'["main"]] = <<>>
  <2>1. /\ left[t] \in 0..Units /\ pc[t] = "send" /\ UNCHANGED <<msg, to>>
        /\ \A d \in Conn \ {to[t]} : out'[d] = out[d]
    BY <1>2, SendStep
  <2>2. t # "main"
    BY <1>2, SendMoves
  <2>3. pc["main"] = "send" /\ left["main"] = Units
    BY <1>2, <2>2, SendMoves DEF Thread
  <2>4. Refusing /\ to["main"] \in Conn /\ to["main"] # to[t]
    BY <1>0, <2>1, <2>2, <2>3, WritersApart DEF Refusing, Thread
  <2> QED
    BY <2>1, <2>3, <2>4 DEF RefusalIsFirst
<1> QED
  BY <1>1, <1>2

\* A message of which nothing was sent is nowhere on its socket: whatever it is,
\* it has not been sent before.
LEMMA FreshMessage ==
    ASSUME Control, Wire, Requests, EventsOnce, RepliesOnce, RefusalIsFirst,
           NEW t \in Thread, pc[t] = "send", left[t] = Units
    PROVE  \A i \in 1..Len(out[to[t]]) : out[to[t]][i].msg # msg[t]
<1> SUFFICES ASSUME NEW i \in 1..Len(out[to[t]]), out[to[t]][i].msg = msg[t]
             PROVE  FALSE
  OBVIOUS
<1>1. /\ to[t] \in Conn /\ Writing(t) /\ ~Begun(t)
      /\ msg[t].kind \in MsgKind \ {"none"} /\ taken \in Nat
  <2>1. to[t] \in Conn
    BY WritersApart
  <2>2. Writing(t) /\ ~Begun(t)
    BY UnitsAssumption DEF Writing, WritePC, Begun
  <2>3. msg[t].kind \in MsgKind /\ taken \in Nat
    BY DEF Control, TypeOK, Msg
  <2>4. msg[t].kind # "none"
    BY <2>2 DEF Control, ThreadsInPlace, Thread
  <2> QED
    BY <2>1, <2>2, <2>3, <2>4
<1>2. CASE msg[t].kind = "event"
  BY <1>1, <1>2 DEF EventsOnce
<1>3. ASSUME msg[t].kind # "event"
      PROVE  t = "main"
  BY <1>1, <1>3 DEF Control, ThreadsInPlace, Thread
<1>4. CASE msg[t].kind = "refused"
  <2>1. t = "main" /\ Refusing
    BY <1>3, <1>4 DEF Refusing
  <2>2. out[to[t]] = <<>>
    BY <2>1 DEF RefusalIsFirst
  <2>3. Len(<<>>) = 0
    OBVIOUS
  <2> QED
    BY <2>2, <2>3
<1>5. ASSUME msg[t].kind \notin {"event", "refused"}
      PROVE  t = "main" /\ to[t] = cur /\ cur # NoConn
  <2>1. t = "main"
    BY <1>3, <1>5
  <2>2. ~Refusing
    BY <1>5, <2>1 DEF Refusing
  <2> QED
    BY <1>1, <2>1, <2>2, WritersApart, ConnAssumption
<1>6. CASE msg[t].kind = "hello"
  <2>1. AtHello /\ pc["main"] # "opened" /\ NotBegun
    BY <1>1, <1>5, <1>6 DEF AtHello, NotBegun
  <2> QED
    BY <1>5, <1>6, <2>1 DEF Wire, KindsOnTheWire
<1>7. CASE msg[t].kind \in Error \cup {"response"}
  <2>1. t = "main" /\ to[t] = cur /\ cur # NoConn
    BY <1>5, <1>7 DEF Error
  <2>2. (Pending \/ Complaining) /\ ~ReplyBegun
    BY <1>1, <1>7, <2>1 DEF Pending, Complaining, ReplyBegun
  <2>3. CASE msg[t].kind = "toolong"
    BY <2>1, <2>2, <2>3 DEF RepliesOnce
  <2>4. CASE msg[t].kind \in {"response", "badline"}
    <3>1. msg[t].num < taken
      BY <2>1, <2>2, <2>4 DEF RepliesOnce
    <3>2. msg[t].num = taken
      <4>1. CASE msg[t].kind = "response"
        BY <1>1, <2>1, <4>1, ReplyFields DEF Requests, LinesInOrder
      <4>2. CASE msg[t].kind = "badline"
        BY <1>1, <2>1, <4>2, ReplyFields DEF RepliesOnce, Complaining, Error
      <4> QED
        BY <2>4, <4>1, <4>2
    <3> QED
      BY <1>1, <3>1, <3>2
  <2> QED
    BY <1>7, <2>3, <2>4 DEF Error
<1> QED
  BY <1>1, <1>2, <1>4, <1>6, <1>7 DEF MsgKind, Error

\* A thread that goes on sending its message has sent its beginning and not yet
\* its end.
LEMMA HalfStep ==
    ASSUME Control, Wire, Requests, Once, [Next]_vars
    PROVE  HalfSaid'
<1>1. CASE \A t \in Thread : ~Send(t)
  <2>1. out' = out
    BY <1>1, QuietStep
  <2>2. ASSUME NEW t \in Thread, Begun(t)'
        PROVE  Begun(t) /\ to'[t] = to[t] /\ msg'[t] = msg[t]
    BY <1>1, <2>2, QuietStep, UnitsAssumption DEF Begun
  <2> QED
    BY <2>1, <2>2 DEF Once, HalfSaid, Begins
<1>2. ASSUME NEW t \in Thread, Send(t) PROVE HalfSaid'
  <2> DEFINE c == to[t]
  <2>1. /\ c \in Conn /\ left[t] \in 0..Units /\ pc[t] = "send" /\ msg[t] \in Msg
        /\ out[c] \in Seq(Unit) /\ out'[c] \in Seq(Unit)
        /\ \A d \in Conn \ {c} : out'[d] = out[d]
        /\ UNCHANGED <<msg, to>>
    BY <1>2, SendStep
  <2>2. PICK k \in 1..left[t] :
           /\ left' = [left EXCEPT ![t] = left[t] - k]
           /\ \/ k = left[t] /\ pc' = [pc EXCEPT ![t] = After(t, TRUE)]
              \/ k < left[t] /\ pc' = pc
           /\ Len(out'[c]) = Len(out[c]) + k
           /\ \A i \in 1..Len(out[c]) : out'[c][i] = out[c][i]
           /\ \A i \in (Len(out[c]) + 1)..Len(out'[c]) :
                 /\ out'[c][i].msg = msg[t]
                 /\ out'[c][i].unit = Units - left[t] + (i - Len(out[c]))
    BY <1>2, SendStep
  <2>3. /\ Len(out[c]) \in Nat /\ left[t] \in Nat /\ k \in Nat /\ k > 0
        /\ left[t] <= Units /\ Units \in Nat /\ Len(out'[c]) \in Nat
    BY <2>1, <2>2, UnitsAssumption
  <2>4. ASSUME NEW u \in Thread, u # t, Begun(u)'
        PROVE  /\ Begun(u) /\ out'[to[u]] = out[to[u]]
    <3>1. pc'[u] = pc[u] /\ left'[u] = left[u]
      BY <1>2, <2>4, SendMoves
    <3>2. Begun(u) /\ pc[u] = "send"
      BY <2>4, <3>1 DEF Begun
    <3>3. to[u] \in Conn /\ to[u] # c
      BY <2>1, <2>4, <3>2, WritersApart
    <3> QED
      BY <2>1, <3>2, <3>3
  <2>5. ASSUME Begun(t)'
        PROVE  k < left[t]
    <3>1. pc'[t] = "send" /\ DOMAIN pc = Thread
      BY <2>5 DEF Control, TypeOK, Begun
    <3>2. After(t, TRUE) # "send"
      <4>1. CASE t = "worker"
        BY <4>1 DEF After
      <4>2. CASE t = "main"
        <5>1. msg["main"].kind \in MsgKind \ {"none"}
          BY <2>1, <4>2 DEF Control, ThreadsInPlace, Writing, WritePC, Msg
        <5> QED
          BY <4>2, <5>1, AfterMain DEF MsgKind
      <4> QED
        BY <4>1, <4>2 DEF Thread
    <3>3. \/ k = left[t] /\ pc' = [pc EXCEPT ![t] = After(t, TRUE)]
          \/ k < left[t]
      BY <2>2
    <3> QED
      BY <3>1, <3>2, <3>3
  <2>6. \E i \in 1..Len(out'[c]) : out'[c][i].unit = 1 /\ out'[c][i].msg = msg[t]
    <3>1. CASE left[t] = Units
      <4> DEFINE j == Len(out[c]) + 1
      <4>1. j \in (Len(out[c]) + 1)..Len(out'[c]) /\ j \in 1..Len(out'[c])
        BY <2>2, <2>3
      <4>2. Units - left[t] + (j - Len(out[c])) = 1
        BY <2>3, <3>1
      <4> HIDE DEF j
      <4> QED
        BY <2>2, <4>1, <4>2
    <3>2. CASE left[t] # Units
      <4>1. Begun(t)
        BY <2>1, <2>3, <3>2 DEF Begun
      <4>2. PICK i \in 1..Len(out[c]) : out[c][i].unit = 1 /\ out[c][i].msg = msg[t]
        BY <4>1 DEF Once, HalfSaid, Begins
      <4>3. i \in 1..Len(out'[c]) /\ out'[c][i] = out[c][i]
        BY <2>2, <2>3
      <4> QED
        BY <4>2, <4>3
    <3> QED
      BY <3>1, <3>2
  <2>7. \A i \in 1..Len(out[c]) : out[c][i].unit = Units => out[c][i].msg # msg[t]
    <3>1. CASE left[t] = Units
      BY <2>1, <3>1, FreshMessage DEF Once
    <3>2. CASE left[t] # Units
      <4>1. Begun(t)
        BY <2>1, <2>3, <3>2 DEF Begun
      <4> QED
        BY <4>1 DEF Once, HalfSaid
    <3> QED
      BY <3>1, <3>2
  <2>8. ASSUME Begun(t)', NEW i \in 1..Len(out'[c]), out'[c][i].unit = Units
        PROVE  out'[c][i].msg # msg[t]
    <3>1. CASE i \in 1..Len(out[c])
      BY <2>2, <2>7, <2>8, <3>1
    <3>2. CASE i \notin 1..Len(out[c])
      <4>1. i \in (Len(out[c]) + 1)..Len(out'[c])
        BY <2>3, <3>2
      <4>2. Units - left[t] + (i - Len(out[c])) = Units
        BY <2>2, <2>8, <4>1
      <4>3. Len(out'[c]) = Len(out[c]) + k /\ k < left[t]
        BY <2>2, <2>5, <2>8
      <4> DEFINE a == left[t]  l == Len(out[c])  r == Len(out'[c])
      <4>4. /\ a \in Nat /\ l \in Nat /\ r \in Nat /\ Units \in Nat /\ k \in Nat
            /\ i \in (l + 1)..r /\ r = l + k /\ k < a /\ Units - a + (i - l) = Units
        BY <2>3, <4>1, <4>2, <4>3
      <4> HIDE DEF a, l, r
      <4>5. i \in Int /\ i <= l + k /\ i - l = a
        BY <4>4
      <4> QED
        BY <4>4, <4>5
    <3> QED
      BY <3>1, <3>2
  <2>9. ASSUME NEW u \in Thread, Begun(u)'
        PROVE  /\ \E i \in 1..Len(out'[to[u]]) :
                     out'[to[u]][i].unit = 1 /\ out'[to[u]][i].msg = msg[u]
               /\ \A i \in 1..Len(out'[to[u]]) :
                     out'[to[u]][i].unit = Units => out'[to[u]][i].msg # msg[u]
    <3>1. CASE u = t
      BY <2>6, <2>8, <2>9, <3>1
    <3>2. CASE u # t
      BY <2>4, <2>9, <3>2 DEF Once, HalfSaid, Begins
    <3> QED
      BY <3>1, <3>2
  <2> QED
    BY <2>1, <2>9 DEF HalfSaid, Begins
<1> QED
  BY <1>1, <1>2

\* All four layers hold in every state of the server.
LEMMA OnceInvariance == Spec => [](Control /\ Wire /\ Requests /\ Once)
<1>1. Init => Once
  <2> SUFFICES ASSUME Init PROVE Once
    OBVIOUS
  <2>1. /\ \A c \in Conn : out[c] = <<>>
        /\ nev = 0 /\ cur = NoConn /\ \A t \in Thread : pc[t] \in {"loop", "idle"}
    BY DEF Init, Thread
  <2>2. \A t \in Thread : ~Writing(t) /\ ~Begun(t)
    BY <2>1 DEF Writing, WritePC, Begun
  <2>3. EventsOnce
    BY <2>1, <2>2, BoundsAssumption DEF EventsOnce, Thread
  <2>4. RepliesOnce /\ HalfSaid
    BY <2>1, <2>2 DEF RepliesOnce, HalfSaid
  <2>5. RefusalIsFirst
    BY <2>1 DEF RefusalIsFirst, Thread
  <2> QED
    BY <2>3, <2>4, <2>5 DEF Once
<1>2. Control /\ Wire /\ Requests /\ Once /\ [Next]_vars => Once'
  <2> SUFFICES ASSUME Control, Wire, Requests, Once, [Next]_vars PROVE Once'
    OBVIOUS
  <2>1. Control'
    BY ControlStep
  <2>2. EventsOnce' /\ RepliesOnce' /\ RefusalIsFirst'
    BY <2>1, EventsStep, RepliesStep, RefusalStep DEF Once
  <2> QED
    BY <2>2, HalfStep DEF Once
<1> QED
  BY <1>1, <1>2, RequestsInvariance, PTL DEF Spec

-----------------------------------------------------------------------------
(* Why a connection is closed. *)

\* A connection that is closed over a response has not got that response.
AnswerLost ==
    /\ pc["main"] \in {"closing", "closesock"} /\ ~ending /\ up[cur] # "gone"
    /\ msg["main"].kind = "response"
    => Unwritten(cur)

\* A response that is being written is not on the wire as a whole.
LEMMA WritingIsUnwritten ==
    ASSUME Control, Wire, Requests, Once, Writing("main"), msg["main"].kind = "response"
    PROVE  Unwritten(cur)
<1> SUFFICES ASSUME NEW i \in 1..Len(out[cur]),
                    out[cur][i] = [msg |-> msg["main"], unit |-> Units]
             PROVE  FALSE
  BY DEF Unwritten
<1>1. out[cur][i].msg = msg["main"] /\ out[cur][i].unit = Units
  OBVIOUS
<1>2. cur # NoConn /\ taken \in Nat /\ msg["main"].num = taken
  <2>1. InInput
    BY DEF InInput
  <2>2. cur # NoConn /\ taken \in Nat
    BY <2>1 DEF Control, TypeOK, ThreadsInPlace, PointerIsConn
  <2> QED
    BY <2>2, ReplyFields DEF Requests, LinesInOrder
<1>3. CASE ~Begun("main")
  <2>1. Pending /\ ~ReplyBegun
    BY <1>3 DEF Pending, ReplyBegun
  <2>2. out[cur][i].msg.num < taken
    BY <1>1, <1>2, <2>1 DEF Once, RepliesOnce
  <2> QED
    BY <1>1, <1>2, <2>2
<1>4. CASE Begun("main")
  <2>1. to["main"] = cur
    BY <1>4, WritersApart DEF Begun, Refusing, Thread
  <2> QED
    BY <1>1, <1>4, <2>1 DEF Once, HalfSaid, Thread
<1> QED
  BY <1>3, <1>4

\* handle_line() closes a connection over a response only if its write failed, and
\* the worker's events are no responses.
LEMMA AnswerLostStep ==
    ASSUME Control, Wire, Requests, Once, AnswerLost, [Next]_vars
    PROVE  AnswerLost'
<1> SUFFICES ASSUME pc'["main"] \in {"closing", "closesock"}, ~ending',
                    up'[cur'] # "gone", msg'["main"].kind = "response"
             PROVE  Unwritten(cur)'
  BY DEF AnswerLost
<1> USE DEF Thread
<1>1. CASE UNCHANGED vars \/ Stop \/ \E c \in Conn : Client(c)
  <2>1. UNCHANGED <<out, pc, msg, cur, ending>>
    BY <1>1 DEF vars, clientVars, writeVars, loopVars, Stop, Client, Connect, SendLine,
           Read, Hangup
  <2>2. cur \in Conn /\ up \in [Conn -> {"no", "up", "gone"}]
    BY <2>1 DEF Control, TypeOK, ThreadsInPlace, PointerIsConn, InInput
  <2>3. \/ up' = up
        \/ \E c \in Conn : up[c] # "gone" /\ up' = [up EXCEPT ![c] = "up"]
        \/ \E c \in Conn : up' = [up EXCEPT ![c] = "gone"]
    BY <1>1, <2>2 DEF vars, clientVars, Stop, Client, Connect, SendLine, Read, Hangup
  <2>4. up[cur] # "gone"
    BY <2>1, <2>2, <2>3
  <2> QED
    BY <2>1, <2>4 DEF AnswerLost, Unwritten
<1>2. CASE WorkerEvent \/ Begin("worker") \/ BeginFail("worker") \/ SendFail("worker")
  <2>1. /\ UNCHANGED <<out, up, cur, ending>>
        /\ pc'["main"] = pc["main"] /\ msg'["main"] = msg["main"]
    BY <1>2 DEF WorkerEvent, Begin, BeginFail, SendFail, Finish, StartWrite, Goto,
           clientVars, writeVars, loopVars, Control, TypeOK
  <2> QED
    BY <2>1 DEF AnswerLost, Unwritten
<1>3. CASE Send("worker")
  <2>1. /\ UNCHANGED <<up, cur, msg, ending>> /\ pc'["main"] = pc["main"]
        /\ to["worker"] \in Conn /\ \A d \in Conn \ {to["worker"]} : out'[d] = out[d]
        /\ out[to["worker"]] \in Seq(Unit)
        /\ \A i \in 1..Len(out[to["worker"]]) :
              out'[to["worker"]][i] = out[to["worker"]][i]
        /\ \A i \in (Len(out[to["worker"]]) + 1)..Len(out'[to["worker"]]) :
              out'[to["worker"]][i].msg = msg["worker"]
        /\ Len(out'[to["worker"]]) \in Nat /\ pc["worker"] = "send"
    <3>1. pc' \in {pc, [pc EXCEPT !["worker"] = After("worker", TRUE)]}
      BY <1>3, SendStep
    <3>2. pc'["main"] = pc["main"]
      BY <3>1 DEF Control, TypeOK
    <3>3. UNCHANGED <<up, cur, msg, ending>> /\ pc["worker"] = "send"
      BY <1>3, SendStep
    <3>4. to["worker"] \in Conn /\ \A d \in Conn \ {to["worker"]} : out'[d] = out[d]
      BY <1>3, SendStep
    <3>5. /\ out[to["worker"]] \in Seq(Unit) /\ out'[to["worker"]] \in Seq(Unit)
          /\ \A i \in 1..Len(out[to["worker"]]) :
                out'[to["worker"]][i] = out[to["worker"]][i]
          /\ \A i \in (Len(out[to["worker"]]) + 1)..Len(out'[to["worker"]]) :
                out'[to["worker"]][i].msg = msg["worker"]
      BY <1>3, SendStep, Zenon
    <3>6. Len(out'[to["worker"]]) \in Nat
      BY <3>5
    <3> QED
      BY <3>2, <3>3, <3>4, <3>5, <3>6
  <2>2. Unwritten(cur) /\ to["worker"] = cur
    BY <2>1, WritersApart DEF AnswerLost, Refusing
  <2>3. msg["worker"].kind = "event"
    BY <2>1 DEF Control, ThreadsInPlace, Writing, WritePC
  <2>4. ASSUME NEW i \in 1..Len(out'[cur])
        PROVE  out'[cur][i] # [msg |-> msg["main"], unit |-> Units]
    <3>1. CASE i \in 1..Len(out[cur])
      BY <2>1, <2>2, <3>1 DEF Unwritten
    <3>2. CASE i \in (Len(out[cur]) + 1)..Len(out'[cur])
      <4>1. out'[cur][i].msg.kind = "event" /\ msg["main"].kind = "response"
        BY <2>1, <2>2, <2>3, <3>2
      <4> QED
        BY <4>1
    <3> QED
      BY <2>1, <2>2, <3>1, <3>2
  <2> QED
    BY <2>1, <2>4 DEF Unwritten
<1>4. CASE Begin("main") \/ BeginFail("main") \/ SendFail("main")
  <2>1. UNCHANGED <<out, msg, cur, ending>> /\ Writing("main")
    BY <1>4 DEF Begin, BeginFail, SendFail, Writing, WritePC, writeVars, loopVars
  <2> QED
    BY <2>1, WritingIsUnwritten DEF Unwritten
<1>5. CASE Send("main")
  <2>1. msg["main"].kind = "response" /\ After("main", TRUE) = "extract"
    BY <1>5, SendStep, AfterMain
  <2>2. pc["main"] = "send" /\ pc' \in {pc, [pc EXCEPT !["main"] = "extract"]}
    BY <1>5, <2>1, SendStep
  <2> QED
    BY <2>2 DEF Control, TypeOK
<1>6. CASE Main \/ SelectFail
  <2>1. CASE CloseConn
    BY <2>1 DEF CloseConn, Goto, AnswerLost, Unwritten, clientVars, writeVars, loopVars
  <2>2. CASE CloseSock \/ Leave \/ FillEnd
    BY <2>2 DEF CloseSock, AfterInput, Leave, FillEnd, Goto, Control, TypeOK, clientVars,
           loopVars
  <2>3. CASE Select \/ Fill \/ ExtractPending \/ OpenFail \/ OpenDone \/ RefuseClose
    BY <2>3 DEF Select, Fill, ExtractPending, OpenFail, OpenDone, RefuseClose, AfterInput,
           Goto, Control, TypeOK
  <2>4. CASE \/ ExtractLine \/ DispatchCallback \/ Dispatch \/ Refuse \/ OpenConn
             \/ PushHello
    BY <2>4 DEF ExtractLine, DispatchCallback, Dispatch, Refuse, OpenConn, PushHello,
           StartWrite, Goto, Control, TypeOK
  <2> QED
    BY <1>6, <2>1, <2>2, <2>3, <2>4 DEF Main, SelectFail, LoopExit, AcceptFail
<1> QED
  BY <1>1, <1>2, <1>3, <1>4, <1>5, <1>6 DEF Next, Write

\* So it is in every state of the server.
LEMMA AnswerLostInvariance == Spec => [](Control /\ AnswerLost)
<1>1. Init => AnswerLost
  BY DEF Init, AnswerLost, Thread
<1>2. Control /\ Wire /\ Requests /\ Once /\ AnswerLost /\ [Next]_vars => AnswerLost'
  BY AnswerLostStep
<1> QED
  BY <1>1, <1>2, OnceInvariance, PTL DEF Spec

\* A second client never costs the first one its connection: the main thread
\* closes it only when it leaves, when the client has gone, or over the
\* client's own oversized line or a response that could not be written.
THEOREM NewcomersEvictNobody == Spec => NoEviction
<1>1. Control /\ AnswerLost /\ [Next]_vars =>
        [\A c \in Conn :
           fd[c] = "open" /\ c = cur /\ fd'[c] = "closed" =>
              \/ ending \/ up[c] = "gone"
              \/ msg["main"].conn = c /\ (msg["main"].kind = "toolong" \/ Unwritten(c))
        ]_vars
  <2> SUFFICES ASSUME Control, AnswerLost, Next, NEW c \in Conn,
                      fd[c] = "open", c = cur, fd'[c] = "closed"
               PROVE  \/ ending \/ up[c] = "gone"
                      \/ /\ msg["main"].conn = c
                         /\ msg["main"].kind = "toolong" \/ Unwritten(c)
    BY DEF vars
  <2>1. fd' # fd /\ cur \in Conn /\ fd \in [Conn -> {"none", "open", "closed"}]
    BY DEF Control, TypeOK
  <2>2. Refuse \/ OpenConn \/ OpenFail \/ RefuseClose \/ CloseSock
    <3>1. CASE \E d \in Conn : Client(d)
      BY <2>1, <3>1 DEF Client, Connect, SendLine, Read, Hangup
    <3>2. CASE \E t \in Thread : Write(t)
      BY <2>1, <3>2 DEF Write, Begin, BeginFail, Send, SendFail
    <3>3. CASE Stop \/ WorkerEvent \/ SelectFail
      BY <2>1, <3>3 DEF Stop, WorkerEvent, SelectFail, Leave
    <3>4. CASE Main
      BY <2>1, <3>4 DEF Main, Select, LoopExit, AcceptFail, Leave, Fill, FillEnd,
             ExtractPending, ExtractLine, DispatchCallback, Dispatch, PushHello,
             OpenDone, CloseConn
    <3> QED
      BY <3>1, <3>2, <3>3, <3>4 DEF Next
  <2>3. CASE CloseSock
    BY <2>3 DEF CloseSock, Control, ClosingHasCause, AnswerLost, Unwritten
  <2>4. CASE RefuseClose
    BY <2>1, <2>4 DEF RefuseClose, Control, LockGuardsWrites, Refusing
  <2>5. CASE Refuse \/ OpenConn \/ OpenFail
    <3>1. pc["main"] = "accept" /\ backlog \in Seq(Conn) /\ backlog # <<>>
      BY <2>5 DEF Refuse, OpenConn, OpenFail, Control, TypeOK, AcceptHasClient
    <3>2. Head(backlog) \in Conn /\ fd[Head(backlog)] = "none"
      BY <3>1, TakeFirst DEF Control, BacklogIsFresh
    <3>3. \E state \in {"open", "closed"} : fd' = [fd EXCEPT ![Head(backlog)] = state]
      BY <2>5 DEF Refuse, OpenConn, OpenFail
    <3> QED
      BY <2>1, <3>2, <3>3
  <2> QED
    BY <2>2, <2>3, <2>4, <2>5
<1> QED
  BY <1>1, AnswerLostInvariance, PTL DEF Spec, NoEviction

-----------------------------------------------------------------------------
(* The refinement. *)

\* The messages of ControlLink are those of the daemon.
LEMMA SameMessages ==
    /\ Link!LineKind = LineKind /\ Link!NoMsg = NoMsg
    /\ \A c : Link!Hello(c) = Hello(c) /\ Link!Refusal(c) = Refusal(c)
    /\ \A n : Link!Event(n) = Event(n)
    /\ \A c, n : Link!Response(c, n) = Response(c, n)
    /\ \A c, n, k : Link!ErrorEvent(c, n, k) = ErrorEvent(c, n, k)
BY DEF Link!LineKind, LineKind, Link!NoMsg, NoMsg, Link!Hello, Hello, Link!Refusal, Refusal,
       Link!Event, Event, Link!Response, Response, Link!ErrorEvent, ErrorEvent,
       Link!Message, Message

\* The server starts with connections nobody has opened.
LEMMA InitLink == Init => Link!LInit
<1> SUFFICES ASSUME Init PROVE Link!LInit
  OBVIOUS
<1>1. /\ sent = [c \in Conn |-> <<>>] /\ \A c \in Conn : out[c] = <<>> /\ fd[c] = "none"
  BY DEF Init
<1>2. ConnPhase = [c \in Conn |-> "new"]
  BY <1>1 DEF ConnPhase
<1>3. \A u : Said(u) = [c \in Conn |-> {}]
  BY <1>1 DEF Said
<1>4. LastSaid = [c \in Conn |-> NoMsg]
  BY <1>1 DEF LastSaid
<1> QED
  BY <1>1, <1>2, <1>3, <1>4, SameMessages DEF Link!LInit

\* A step that sends nothing accepts, refuses or closes one connection, brings one
\* line of a client, or is not seen by the clients.
LEMMA QuietLink ==
    ASSUME Control, [Next]_vars, \A t \in Thread : ~Send(t)
    PROVE  [Link!LNext]_(Link!lvars)
<1>0. out' = out /\ Said(1)' = Said(1) /\ Said(Units)' = Said(Units) /\ LastSaid' = LastSaid
  <2>1. out' = out
    BY QuietStep
  <2> QED
    BY <2>1 DEF Said, LastSaid
<1>1. ASSUME UNCHANGED <<sent, fd, cur>> PROVE UNCHANGED Link!lvars
  BY <1>0, <1>1 DEF Link!lvars, ConnPhase
<1>2. /\ fd \in [Conn -> {"none", "open", "closed"}] /\ cur \in Conn \cup {NoConn}
      /\ cur # NoConn => fd[cur] = "open"
  BY DEF Control, TypeOK, PointerIsConn
<1>3. ASSUME NEW c \in Conn, NEW p, UNCHANGED sent,
             ConnPhase' = [ConnPhase EXCEPT ![c] = p]
      PROVE  Link!Become(c, p)
  BY <1>0, <1>3 DEF Link!Become
<1>4. ASSUME pc["main"] = "accept", NEW c, c = Head(backlog)
      PROVE  c \in Conn /\ fd[c] = "none" /\ c # cur
  <2>1. backlog \in Seq(Conn) /\ backlog # <<>>
    BY <1>4 DEF Control, TypeOK, AcceptHasClient
  <2>2. c \in Conn /\ fd[c] = "none"
    BY <1>4, <2>1, TakeFirst DEF Control, BacklogIsFresh
  <2> QED
    BY <1>2, <2>2, ConnAssumption
<1>5. ASSUME NEW c \in Conn, SendLine(c) PROVE Link!Ask(c)
  <2>1. PICK kind \in LineKind : sent' = [sent EXCEPT ![c] = Append(@, kind)]
    BY <1>5 DEF SendLine
  <2>2. fd[c] # "closed" /\ UNCHANGED <<fd, cur>>
    BY <1>5 DEF SendLine, Connected, loopVars
  <2>3. ConnPhase' = ConnPhase /\ ConnPhase[c] # "closed"
    BY <2>2 DEF ConnPhase
  <2> QED
    BY <1>0, <2>1, <2>3, SameMessages DEF Link!Ask
<1>6. ASSUME OpenConn PROVE \E c \in Conn : Link!Serve(c)
  <2> DEFINE c == Head(backlog)
  <2>1. c \in Conn /\ fd[c] = "none" /\ c # cur
    BY <1>4, <1>6 DEF OpenConn
  <2>2. /\ fd' = [fd EXCEPT ![c] = "open"] /\ cur' = c /\ sent' = sent
        /\ pc["main"] = "accept" /\ ~active
    BY <1>6 DEF OpenConn, clientVars
  <2>3. cur = NoConn
    BY <2>2 DEF Control, PointerIsConn, AtHello, Writing, WritePC
  <2> HIDE DEF c
  <2>4. ConnPhase' = [ConnPhase EXCEPT ![c] = "served"]
    BY <1>2, <2>1, <2>2, <2>3, ConnAssumption DEF ConnPhase
  <2>5. ConnPhase[c] = "new" /\ \A d \in Conn : ConnPhase[d] # "served"
    BY <2>1, <2>3, ConnAssumption DEF ConnPhase
  <2> QED
    BY <1>3, <2>1, <2>2, <2>4, <2>5 DEF Link!Serve
<1>7. ASSUME Refuse PROVE \E c \in Conn : Link!TurnAway(c)
  <2> DEFINE c == Head(backlog)
  <2>1. c \in Conn /\ fd[c] = "none" /\ c # cur
    BY <1>4, <1>7 DEF Refuse
  <2>2. /\ fd' = [fd EXCEPT ![c] = "open"] /\ UNCHANGED <<sent, cur>> /\ active
    BY <1>7 DEF Refuse, clientVars, loopVars
  <2>3. cur \in Conn /\ fd[cur] = "open"
    BY <1>2, <2>2 DEF Control, PointerIsConn
  <2> HIDE DEF c
  <2>4. ConnPhase' = [ConnPhase EXCEPT ![c] = "refused"]
    BY <1>2, <2>1, <2>2 DEF ConnPhase
  <2>5. ConnPhase[c] = "new" /\ ConnPhase[cur] = "served"
    BY <2>1, <2>3 DEF ConnPhase
  <2> QED
    BY <1>3, <2>1, <2>2, <2>3, <2>4, <2>5 DEF Link!TurnAway
<1>8. ASSUME OpenFail \/ RefuseClose \/ CloseSock PROVE \E c \in Conn : Link!Close(c)
  <2>1. \E c \in Conn : /\ fd[c] # "closed" /\ fd' = [fd EXCEPT ![c] = "closed"]
                        /\ (cur' = cur /\ c # cur) \/ (cur' = NoConn /\ c = cur)
    <3>1. CASE OpenFail
      <4>1. /\ Head(backlog) \in Conn /\ fd[Head(backlog)] = "none"
            /\ Head(backlog) # cur
        BY <1>4, <3>1 DEF OpenFail
      <4>2. fd' = [fd EXCEPT ![Head(backlog)] = "closed"] /\ cur' = cur
        BY <3>1 DEF OpenFail, loopVars
      <4> QED
        BY <4>1, <4>2
    <3>2. CASE RefuseClose
      <4>1. Refusing
        BY <3>2 DEF RefuseClose, Refusing
      <4>2. to["main"] \in Conn /\ to["main"] # cur /\ fd[to["main"]] = "open"
        BY <4>1 DEF Control, LockGuardsWrites
      <4>3. fd' = [fd EXCEPT ![to["main"]] = "closed"] /\ cur' = cur
        BY <3>2 DEF RefuseClose, loopVars
      <4> QED
        BY <4>2, <4>3
    <3>3. CASE CloseSock
      <4>1. cur # NoConn
        BY <3>3 DEF CloseSock, Control, PointerIsConn, ThreadsInPlace, InInput
      <4> QED
        BY <1>2, <3>3, <4>1 DEF CloseSock
    <3> QED
      BY <1>8, <3>1, <3>2, <3>3
  <2>2. PICK c \in Conn : /\ fd[c] # "closed" /\ fd' = [fd EXCEPT ![c] = "closed"]
                          /\ (cur' = cur /\ c # cur) \/ (cur' = NoConn /\ c = cur)
    BY <2>1
  <2>3. sent' = sent
    BY <1>8 DEF OpenFail, RefuseClose, CloseSock, clientVars
  <2>4. ConnPhase' = [ConnPhase EXCEPT ![c] = "closed"]
    BY <1>2, <2>2, ConnAssumption DEF ConnPhase
  <2>5. ConnPhase[c] # "closed"
    BY <2>2 DEF ConnPhase
  <2> QED
    BY <1>3, <2>3, <2>4, <2>5 DEF Link!Close
<1>9. CASE UNCHANGED vars \/ Stop \/ WorkerEvent
  BY <1>1, <1>9 DEF vars, Stop, WorkerEvent, clientVars, loopVars
<1>10. ASSUME NEW c \in Conn, Connect(c) \/ Read(c) \/ Hangup(c)
       PROVE  UNCHANGED Link!lvars
  BY <1>1, <1>10 DEF Connect, Read, Hangup, loopVars
<1>11. CASE \/ Select \/ LoopExit \/ SelectFail \/ AcceptFail \/ Fill \/ FillEnd
            \/ ExtractPending \/ ExtractLine \/ DispatchCallback \/ Dispatch
            \/ PushHello \/ OpenDone \/ CloseConn
  <2>1. UNCHANGED <<sent, fd, cur>>
    BY <1>11 DEF Select, LoopExit, SelectFail, AcceptFail, Leave, Fill, FillEnd,
           ExtractPending, ExtractLine, DispatchCallback, Dispatch, PushHello,
           OpenDone, CloseConn, clientVars, loopVars
  <2> QED
    BY <1>1, <2>1
<1>12. ASSUME NEW t \in Thread, Begin(t) \/ BeginFail(t) \/ SendFail(t)
       PROVE  UNCHANGED Link!lvars
  BY <1>1, <1>12 DEF Begin, BeginFail, SendFail, clientVars, loopVars
<1> QED
  BY <1>5, <1>6, <1>7, <1>8, <1>9, <1>10, <1>11, <1>12
     DEF Next, Client, Main, Write, Link!LNext

\* What one send() does to what the client has been told: the message is the last
\* thing said, it has begun if nothing of it was sent before, and it is there as
\* a whole if nothing of it is left.
LEMMA SaidAfterSend ==
    ASSUME Control, NEW t \in Thread, Send(t)
    PROVE  LET c == to[t]
           IN  /\ UNCHANGED <<sent, ConnPhase>>
               /\ LastSaid' = [LastSaid EXCEPT ![c] = msg[t]]
               /\ left[t] = Units => Said(1)' = [Said(1) EXCEPT ![c] = @ \cup {msg[t]}]
               /\ left[t] # Units => Said(1)' = Said(1)
               /\ \/ Said(Units)' = Said(Units)
                  \/ Said(Units)' = [Said(Units) EXCEPT ![c] = @ \cup {msg[t]}]
<1> DEFINE c == to[t]
<1>1. /\ c \in Conn /\ left[t] \in 0..Units /\ msg[t] \in Msg
      /\ out[c] \in Seq(Unit) /\ out'[c] \in Seq(Unit)
      /\ \A d \in Conn \ {c} : out'[d] = out[d]
      /\ UNCHANGED <<sent, fd, cur>>
  BY SendStep
<1>2. PICK k \in 1..left[t] :
         /\ Len(out'[c]) = Len(out[c]) + k
         /\ \A i \in 1..Len(out[c]) : out'[c][i] = out[c][i]
         /\ \A i \in (Len(out[c]) + 1)..Len(out'[c]) :
               /\ out'[c][i].msg = msg[t]
               /\ out'[c][i].unit = Units - left[t] + (i - Len(out[c]))
  BY SendStep
<1>3. /\ Len(out[c]) \in Nat /\ left[t] \in Nat /\ k \in Nat /\ k > 0 /\ k <= left[t]
      /\ left[t] <= Units /\ Units \in Nat /\ Units > 1 /\ Len(out'[c]) \in Nat
  BY <1>1, <1>2, UnitsAssumption
<1>4. UNCHANGED <<sent, ConnPhase>>
  BY <1>1 DEF ConnPhase
<1>5. LastSaid' = [LastSaid EXCEPT ![c] = msg[t]]
  <2>1. Len(out'[c]) \in (Len(out[c]) + 1)..Len(out'[c]) /\ Len(out'[c]) > 0
    BY <1>2, <1>3
  <2>2. out'[c] # <<>> /\ out'[c][Len(out'[c])].msg = msg[t]
    <3>1. Len(<<>>) = 0
      OBVIOUS
    <3>2. out'[c] # <<>>
      BY <2>1, <3>1
    <3>3. \A i \in (Len(out[c]) + 1)..Len(out'[c]) : out'[c][i].msg = msg[t]
      BY <1>2
    <3> QED
      BY <2>1, <3>2, <3>3
  <2> QED
    BY <1>1, <2>2 DEF LastSaid
<1> DEFINE Has(u) == \E i \in (Len(out[c]) + 1)..Len(out'[c]) : out'[c][i].unit = u
<1>said. ASSUME NEW u, NEW m
         PROVE  /\ m \in Said(u)[c] <=>
                      \E i \in 1..Len(out[c]) : out[c][i].unit = u /\ out[c][i].msg = m
                /\ m \in Said(u)'[c] <=>
                      \E i \in 1..Len(out'[c]) : out'[c][i].unit = u /\ out'[c][i].msg = m
  <2>1. /\ Said(u)[c] = {out[c][i].msg : i \in {j \in 1..Len(out[c]) : out[c][j].unit = u}}
        /\ Said(u)'[c] =
              {out'[c][i].msg : i \in {j \in 1..Len(out'[c]) : out'[c][j].unit = u}}
    BY <1>1 DEF Said
  <2> QED
    BY <2>1
<1>6. ASSUME NEW u, Has(u)
      PROVE  Said(u)' = [Said(u) EXCEPT ![c] = @ \cup {msg[t]}]
  <2>1. ASSUME NEW d \in Conn, d # c PROVE Said(u)'[d] = Said(u)[d]
    BY <1>1, <2>1 DEF Said
  <2>2. ASSUME NEW m
        PROVE  (\E i \in 1..Len(out'[c]) : out'[c][i].unit = u /\ out'[c][i].msg = m) <=>
               \/ \E i \in 1..Len(out[c]) : out[c][i].unit = u /\ out[c][i].msg = m
               \/ m = msg[t]
    <3>1. ASSUME NEW i \in 1..Len(out'[c]), out'[c][i].unit = u, out'[c][i].msg = m
          PROVE  \/ \E j \in 1..Len(out[c]) : out[c][j].unit = u /\ out[c][j].msg = m
                 \/ m = msg[t]
      <4>1. i \in 1..Len(out[c]) \/ i \in (Len(out[c]) + 1)..Len(out'[c])
        BY <1>3
      <4> QED
        BY <1>2, <3>1, <4>1
    <3>2. ASSUME NEW i \in 1..Len(out[c]), out[c][i].unit = u, out[c][i].msg = m
          PROVE  \E j \in 1..Len(out'[c]) : out'[c][j].unit = u /\ out'[c][j].msg = m
      <4>1. i \in 1..Len(out'[c]) /\ out'[c][i] = out[c][i]
        BY <1>2, <1>3
      <4> QED
        BY <3>2, <4>1
    <3>3. ASSUME m = msg[t]
          PROVE  \E j \in 1..Len(out'[c]) : out'[c][j].unit = u /\ out'[c][j].msg = m
      <4>1. PICK i \in (Len(out[c]) + 1)..Len(out'[c]) : out'[c][i].unit = u
        BY <1>6
      <4>2. i \in 1..Len(out'[c]) /\ out'[c][i].msg = m
        BY <1>2, <1>3, <3>3
      <4> QED
        BY <4>1, <4>2
    <3> QED
      BY <3>1, <3>2, <3>3
  <2>3. Said(u)'[c] = Said(u)[c] \cup {msg[t]}
    <3>1. \A m : m \in Said(u)'[c] <=> m \in Said(u)[c] \/ m = msg[t]
      BY <1>said, <2>2, Zenon
    <3> QED
      BY <3>1, Zenon
  <2> QED
    BY <1>1, <2>1, <2>3 DEF Said
<1>7. ASSUME NEW u, ~Has(u) PROVE Said(u)' = Said(u)
  <2>1. ASSUME NEW m
        PROVE  (\E i \in 1..Len(out'[c]) : out'[c][i].unit = u /\ out'[c][i].msg = m) <=>
               \E i \in 1..Len(out[c]) : out[c][i].unit = u /\ out[c][i].msg = m
    <3>1. ASSUME NEW i \in 1..Len(out'[c]), out'[c][i].unit = u, out'[c][i].msg = m
          PROVE  \E j \in 1..Len(out[c]) : out[c][j].unit = u /\ out[c][j].msg = m
      <4>1. i \in 1..Len(out[c]) \/ i \in (Len(out[c]) + 1)..Len(out'[c])
        BY <1>3
      <4> QED
        BY <1>2, <1>7, <3>1, <4>1
    <3>2. ASSUME NEW i \in 1..Len(out[c]), out[c][i].unit = u, out[c][i].msg = m
          PROVE  \E j \in 1..Len(out'[c]) : out'[c][j].unit = u /\ out'[c][j].msg = m
      <4>1. i \in 1..Len(out'[c]) /\ out'[c][i] = out[c][i]
        BY <1>2, <1>3
      <4> QED
        BY <3>2, <4>1
    <3> QED
      BY <3>1, <3>2
  <2>2. Said(u)'[c] = Said(u)[c]
    <3>1. \A m : m \in Said(u)'[c] <=> m \in Said(u)[c]
      BY <1>said, <2>1, Zenon
    <3> QED
      BY <3>1, Zenon
  <2>3. \A d \in Conn : d # c => Said(u)'[d] = Said(u)[d]
    BY <1>1 DEF Said
  <2> QED
    BY <2>2, <2>3 DEF Said
<1>8. Has(1) <=> left[t] = Units
  <2> DEFINE a == left[t]  l == Len(out[c])  r == Len(out'[c])
  <2>1. Has(1) <=> \E i \in (l + 1)..r : Units - a + (i - l) = 1
    BY <1>2
  <2>2. /\ a \in Nat /\ l \in Nat /\ r = l + k /\ k \in Nat /\ k > 0 /\ k <= a
        /\ a <= Units /\ Units \in Nat
    BY <1>2, <1>3
  <2> HIDE DEF a, l, r, Has
  <2>3. ASSUME a = Units PROVE Has(1)
    <3>1. l + 1 \in (l + 1)..r /\ Units - a + ((l + 1) - l) = 1
      BY <2>2, <2>3
    <3> QED
      BY <2>1, <3>1
  <2>4. ASSUME NEW i \in (l + 1)..r, Units - a + (i - l) = 1 PROVE a = Units
    BY <2>2, <2>4
  <2> QED
    BY <2>1, <2>3, <2>4 DEF a
<1> HIDE DEF Has
<1> QED
  BY <1>4, <1>5, <1>6, <1>7, <1>8

\* The first unit of a message: the client begins to hear a message that ControlLink
\* may say now.
LEMMA FirstUnits ==
    ASSUME Control, Wire, Requests, Once, NEW t \in Thread, Send(t), left[t] = Units
    PROVE  Link!LNext
<1> DEFINE c == to[t]
<1>1. /\ c \in Conn /\ fd[c] = "open" /\ pc[t] = "send" /\ msg[t] \in Msg
      /\ Writing(t) /\ ~Begun(t)
  <2>1. c \in Conn /\ fd[c] = "open" /\ pc[t] = "send" /\ msg[t] \in Msg
    BY SendStep
  <2> QED
    BY <2>1, UnitsAssumption DEF Writing, WritePC, Begun
<1>2. Link!Say(c, msg[t])
  BY SaidAfterSend DEF Link!Say
<1>3. \A u : \A d \in Conn : \A m \in Said(u)[d] :
         \E i \in 1..Len(out[d]) : out[d][i].unit = u /\ out[d][i].msg = m
  BY DEF Said
<1>4. CASE msg[t].kind = "event"
  <2>1. ConnPhase[c] = "served"
    BY <1>1, <1>4, WritersApart DEF ConnPhase, Refusing
  <2>2. PICK n \in 1..nev : msg[t] = Event(n)
    BY <1>1, <1>4 DEF Once, EventsOnce
  <2>3. n \in 1..MaxEvents
    BY BoundsAssumption DEF Once, EventsOnce, Control, TypeOK
  <2>4. \A d \in Conn : \A i \in 1..Len(out[d]) : out[d][i].msg # msg[t]
    BY <1>1, <1>4 DEF Once, EventsOnce
  <2>5. ASSUME NEW d \in Conn PROVE msg[t] \notin Said(1)[d]
    <3>1. \A m \in Said(1)[d] : \E i \in 1..Len(out[d]) : out[d][i].msg = m
      BY <1>3
    <3> QED
      BY <2>4, <3>1
  <2>6. Link!Push(c)
    BY <1>2, <2>1, <2>2, <2>3, <2>5, SameMessages DEF Link!Push
  <2> QED
    BY <1>1, <2>6 DEF Link!LNext
<1>5. ASSUME msg[t].kind # "event" PROVE t = "main"
  BY <1>1, <1>5 DEF Control, ThreadsInPlace, Thread
<1>6. CASE msg[t].kind = "refused"
  <2>1. t = "main" /\ Refusing
    BY <1>1, <1>5, <1>6 DEF Refusing
  <2>2. c # cur /\ msg[t] = Refusal(c) /\ out[c] = <<>>
    BY <1>1, <2>1 DEF Control, LockGuardsWrites, Once, RefusalIsFirst
  <2>3. ConnPhase[c] = "refused" /\ Said(1)[c] = {}
    <3>1. ConnPhase[c] = "refused"
      BY <1>1, <2>2 DEF ConnPhase
    <3>2. Len(<<>>) = 0
      OBVIOUS
    <3>3. \A m : m \notin Said(1)[c]
      BY <1>1, <1>3, <2>2, <3>2
    <3> QED
      BY <3>1, <3>3
  <2>4. Link!TellRefusal(c)
    BY <1>2, <2>2, <2>3, SameMessages DEF Link!TellRefusal
  <2> QED
    BY <1>1, <2>4 DEF Link!LNext
<1>7. ASSUME msg[t].kind \notin {"event", "refused"}
      PROVE  t = "main" /\ c = cur /\ cur # NoConn /\ ConnPhase[c] = "served"
  <2>1. t = "main"
    BY <1>5, <1>7
  <2>2. ~Refusing
    BY <1>1, <1>7, <2>1 DEF Refusing
  <2> QED
    BY <1>1, <2>1, <2>2, WritersApart, ConnAssumption DEF ConnPhase
<1>8. CASE msg[t].kind = "hello"
  <2>1. t = "main" /\ c = cur /\ cur # NoConn /\ ConnPhase[c] = "served"
    BY <1>7, <1>8
  <2>2. AtHello /\ pc["main"] # "opened" /\ NotBegun /\ msg[t] = Hello(c)
    BY <1>1, <1>8, <2>1 DEF AtHello, NotBegun, Control, ThreadsInPlace
  <2>3. \A i \in 1..Len(out[c]) : out[c][i].msg.kind = "event"
    BY <2>1, <2>2 DEF Wire, KindsOnTheWire
  <2>4. \A m \in Said(1)[c] : m.kind = "event"
    BY <1>1, <1>3, <2>3
  <2>5. Link!Greet(c)
    BY <1>2, <2>1, <2>2, <2>4, SameMessages DEF Link!Greet
  <2> QED
    BY <1>1, <2>5 DEF Link!LNext
<1>9. CASE msg[t].kind \in Error \cup {"response"}
  <2>1. t = "main" /\ c = cur /\ cur # NoConn /\ ConnPhase[c] = "served"
    BY <1>7, <1>9 DEF Error
  <2>2. (Pending \/ Complaining) /\ ~ReplyBegun
    BY <1>1, <1>9, <2>1 DEF Pending, Complaining, ReplyBegun
  <2>3. /\ taken \in 1..Len(sent[c]) /\ taken \in Nat
        /\ msg[t] = Link!ReplyTo(c, taken)
    <3>1. /\ taken \in Nat /\ filled \in Nat /\ Len(sent[c]) \in Nat
          /\ taken <= filled /\ filled <= Len(sent[c])
      BY <1>1, <2>1 DEF Control, TypeOK, Requests, LinesInOrder
    <3>2. CASE msg[t].kind = "response"
      <4>1. taken > 0 /\ sent[c][taken] = "req" /\ msg[t] = Response(c, taken)
        BY <1>1, <2>1, <3>2 DEF Requests, LinesInOrder, Pending
      <4> QED
        BY <3>1, <4>1, SameMessages DEF Link!ReplyTo
    <3>3. CASE msg[t].kind \in Error
      <4>1. /\ taken > 0 /\ sent[c][taken] # "req"
            /\ msg[t] = ErrorEvent(c, taken, sent[c][taken])
        BY <1>1, <2>1, <3>3 DEF Once, RepliesOnce, Complaining
      <4> QED
        BY <3>1, <4>1, SameMessages DEF Link!ReplyTo
    <3> QED
      BY <1>9, <3>2, <3>3
  <2>4. ASSUME NEW m \in Said(1)[c]
        PROVE  m.kind # "toolong" /\ (m.kind \in {"response", "badline"} => m.num < taken)
    <3>1. PICK i \in 1..Len(out[c]) : out[c][i].msg = m
      BY <1>1, <1>3
    <3>2. pc["main"] \notin {"closing", "closesock"}
      BY <1>1, <2>1
    <3> QED
      BY <2>1, <2>2, <3>1, <3>2 DEF Once, RepliesOnce
  <2>5. ASSUME NEW n \in 1..(taken - 1), sent[c][n] = "req"
        PROVE  Response(c, n) \in Said(Units)[c]
    <3>1. n \in 1..taken /\ n < taken
      BY <2>3
    <3>2. Answered(c, n)
      BY <1>1, <2>1, <2>5, <3>1 DEF Requests, EarlierAnswered
    <3>3. PICK i \in 1..Len(out[c]) : out[c][i] = [msg |-> Response(c, n), unit |-> Units]
      BY <3>2 DEF Answered
    <3>4. out[c][i].msg = Response(c, n) /\ out[c][i].unit = Units
      BY <3>3
    <3> QED
      BY <1>1, <3>4 DEF Said
  <2>6. Link!Reply(c)
    BY <1>2, <2>1, <2>3, <2>4, <2>5, SameMessages DEF Link!Reply
  <2> QED
    BY <1>1, <2>6 DEF Link!LNext
<1>10. msg[t].kind \in MsgKind \ {"none"}
  BY <1>1 DEF Control, ThreadsInPlace, Thread, Msg
<1> QED
  BY <1>4, <1>6, <1>8, <1>9, <1>10 DEF MsgKind, Error

\* More units of a message: it becomes whole, or the client learns nothing new.
LEMMA MoreUnits ==
    ASSUME Control, Wire, Once, NEW t \in Thread, Send(t), left[t] # Units
    PROVE  [Link!LNext]_(Link!lvars)
<1> DEFINE c == to[t]
<1>1. /\ c \in Conn /\ fd[c] = "open" /\ pc[t] = "send" /\ left[t] \in 0..Units
  BY SendStep
<1>2. left[t] < Units
  BY <1>1, UnitsAssumption
<1>3. Begun(t)
  BY <1>1, <1>2 DEF Begun
<1>4. LastSaid[c] = msg[t]
  <2>1. Len(out[c]) > 0 /\ out[c][Len(out[c])].msg = msg[t]
    BY <1>1, <1>2 DEF Wire, WriterOwnsTheEnd
  <2>2. Len(<<>>) = 0
    OBVIOUS
  <2>3. out[c] # <<>>
    BY <2>1, <2>2
  <2> QED
    BY <1>1, <2>1, <2>3 DEF LastSaid
<1>5. msg[t] \in Said(1)[c]
  <2>1. PICK i \in 1..Len(out[c]) : out[c][i].unit = 1 /\ out[c][i].msg = msg[t]
    BY <1>3 DEF Once, HalfSaid, Begins
  <2> QED
    BY <1>1, <2>1 DEF Said
<1>6. msg[t] \notin Said(Units)[c]
  <2>1. \A i \in 1..Len(out[c]) : out[c][i].unit = Units => out[c][i].msg # msg[t]
    BY <1>3 DEF Once, HalfSaid
  <2> QED
    BY <1>1, <2>1 DEF Said
<1>7. ConnPhase[c] \in {"served", "refused"}
  BY <1>1 DEF ConnPhase
<1>8. LastSaid' = LastSaid
  <2>1. LastSaid' = [LastSaid EXCEPT ![c] = msg[t]]
    BY SaidAfterSend
  <2> QED
    BY <1>4, <2>1 DEF LastSaid
<1>9. UNCHANGED <<sent, ConnPhase>> /\ Said(1)' = Said(1)
  BY SaidAfterSend
<1>10. CASE Said(Units)' = Said(Units)
  BY <1>8, <1>9, <1>10 DEF Link!lvars
<1>11. CASE Said(Units)' = [Said(Units) EXCEPT ![c] = @ \cup {msg[t]}]
  <2>1. Link!Complete(c)
    BY <1>4, <1>5, <1>6, <1>7, <1>8, <1>9, <1>11 DEF Link!Complete
  <2> QED
    BY <1>1, <2>1 DEF Link!LNext
<1> QED
  BY <1>10, <1>11, SaidAfterSend

\* The two threads, the lock, the shared pointer, the partial and the failing sends
\* of the daemon implement the abstract connection: one client is served at a time,
\* and what each client is sent are whole messages or beginnings of them, each once,
\* greeting, events and replies in the order of the protocol.
THEOREM ImplementsControlLink == Spec => LinkSpec
<1>1. Control /\ Wire /\ Requests /\ Once /\ [Next]_vars => [Link!LNext]_(Link!lvars)
  <2> SUFFICES ASSUME Control, Wire, Requests, Once, [Next]_vars
               PROVE  [Link!LNext]_(Link!lvars)
    OBVIOUS
  <2>1. CASE \A t \in Thread : ~Send(t)
    BY <2>1, QuietLink
  <2>2. ASSUME NEW t \in Thread, Send(t) PROVE [Link!LNext]_(Link!lvars)
    BY <2>2, FirstUnits, MoreUnits
  <2> QED
    BY <2>1, <2>2
<1> QED
  BY <1>1, InitLink, OnceInvariance, PTL DEF Spec, LinkSpec, Link!LSpec
=============================================================================
