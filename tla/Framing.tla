------------------------------ MODULE Framing ------------------------------
(***************************************************************************)
(* The read side of src/proto/framing.c, driven by handle_conn_input() of *)
(* src/proto/server.c: one fixed buffer, filled by a non-blocking recv(), *)
(* from which newline-terminated request lines are cut in place.  A line  *)
(* handed to the dispatcher is a pointer into that same buffer.           *)
(*                                                                        *)
(* The buffer survives the connection (conn_state lives on                *)
(* pjsocky_server_run()'s stack), so a new connection starts over the     *)
(* bytes of the old one.                                                  *)
(***************************************************************************)
EXTENDS Integers, Sequences

CONSTANTS Byte,      \* what a byte on the wire can be
          NL, NUL,   \* the two bytes the code looks for or writes
          MaxLine,   \* PJSOCKY_MAX_LINE
          MaxSent    \* bound: bytes one client sends on one connection

ASSUME ByteAssumption == NL \in Byte /\ NUL \in Byte /\ NL # NUL
ASSUME MaxLineAssumption == MaxLine \in Nat \ {0}
ASSUME MaxSentAssumption == MaxSent \in Nat

VARIABLES
    stream,   \* bytes the current client has written, oldest first
    eof,      \* the client has shut down its sending side
    recvd,    \* how many bytes of stream recv() has already returned
    buf,      \* f->buf, MaxLine + 1 bytes
    start,    \* f->start, offset of the first unconsumed byte
    len,      \* f->len, bytes buffered from start on
    pc,       \* where the server loop is: see PCs
    line,     \* the line handle_line() was called with: [ptr, len]
    why,      \* why the last connection ended
    taken,    \* history: bytes of stream cut off as lines so far
    live      \* history: the lines returned since the last fill()

vars == <<stream, eof, recvd, buf, start, len, pc, line, why, taken, live>>

PCs == {"closed", "select", "extract", "handle"}
Reasons == {"none", "eof", "error", "toobig", "write"}
Line == [ptr : 0..MaxLine, len : 0..MaxLine, pos : Nat]
NoLine == [ptr |-> 0, len |-> 0, pos |-> 0]

\* pj_bzero(&conn): no connection, a zeroed buffer.
Init ==
    /\ stream = <<>> /\ eof = FALSE /\ recvd = 0
    /\ buf = [i \in 0..MaxLine |-> NUL]
    /\ start = 0 /\ len = 0
    /\ pc = "closed" /\ line = NoLine /\ why = "none"
    /\ taken = 0 /\ live = {}

-----------------------------------------------------------------------------
(* The client. *)

ClientSend ==
    /\ pc # "closed" /\ ~eof /\ Len(stream) < MaxSent
    /\ \E b \in Byte : stream' = Append(stream, b)
    /\ UNCHANGED <<eof, recvd, buf, start, len, pc, line, why, taken, live>>

ClientShutdown ==
    /\ pc # "closed" /\ ~eof
    /\ eof' = TRUE
    /\ UNCHANGED <<stream, recvd, buf, start, len, pc, line, why, taken, live>>

-----------------------------------------------------------------------------
(* The daemon. *)

\* Mutant of Open: the indices of the previous connection are kept.
OpenOverOldBytes ==
    /\ pc = "closed"
    /\ pc' = "select"
    /\ stream' = <<>> /\ eof' = FALSE /\ recvd' = 0 /\ taken' = 0
    /\ live' = {} /\ line' = NoLine /\ why' = "none"
    /\ UNCHANGED <<buf, start, len>>

\* open_conn(): pjsocky_framing_init() resets the indices, not the bytes.
Open ==
    /\ pc = "closed"
    /\ start' = 0 /\ len' = 0
    /\ pc' = "select"
    /\ stream' = <<>> /\ eof' = FALSE /\ recvd' = 0 /\ taken' = 0
    /\ live' = {} /\ line' = NoLine /\ why' = "none"
    /\ UNCHANGED buf

\* close_conn() on any status other than PJ_SUCCESS.
Drop(reason) ==
    /\ pc' = "closed" /\ why' = reason

\* Mutant of Compacted: start is reset and nothing is moved.
NotCompacted == buf

\* The memmove at the top of pjsocky_framing_fill(): the only place where
\* buffered bytes move.
Compacted ==
    IF start > 0
    THEN [i \in 0..MaxLine |-> IF i < len THEN buf[start + i] ELSE buf[i]]
    ELSE buf

\* How many bytes one recv() may return: none if the buffer is full (the
\* code then skips the recv), else at least one of the bytes waiting in
\* the socket and at most the free space.
RecvSizes ==
    IF MaxLine - len <= 0
    THEN {0}
    ELSE {k \in 1..(MaxLine - len) : k <= Len(stream) - recvd}

\* pjsocky_framing_fill() returning PJ_SUCCESS.
Fill ==
    /\ pc = "select"
    /\ \E k \in RecvSizes :
        /\ buf' = [i \in 0..MaxLine |->
                     IF len <= i /\ i < len + k
                     THEN stream[recvd + (i - len) + 1]
                     ELSE Compacted[i]]
        /\ len' = len + k
        /\ recvd' = recvd + k
    /\ start' = 0
    /\ pc' = "extract"
    /\ live' = {}
    /\ UNCHANGED <<stream, eof, line, why, taken>>

\* A spurious wakeup: recv() would block, PJ_EPENDING.
FillPending ==
    /\ pc = "select" /\ len < MaxLine
    /\ recvd = Len(stream) /\ ~eof
    /\ buf' = Compacted
    /\ start' = 0
    /\ live' = {}
    /\ UNCHANGED <<stream, eof, recvd, len, pc, line, why, taken>>

\* recv() returned 0 (PJ_EEOF) after all the data, or failed.
FillEnd ==
    /\ pc = "select" /\ len < MaxLine
    /\ \/ recvd = Len(stream) /\ eof /\ Drop("eof")
       \/ Drop("error")
    /\ buf' = Compacted
    /\ start' = 0
    /\ live' = {}
    /\ UNCHANGED <<stream, eof, recvd, len, line, taken>>

\* Offsets from start at which pj_memchr() could find a newline.
Newlines == {i \in 0..(len - 1) : buf[start + i] = NL}

\* Mutant of ExtractLine: what follows the line is moved to the front at
\* once, over the lines handed out before.
ExtractAndCompact ==
    /\ pc = "extract"
    /\ \E n \in Newlines :
        /\ \A m \in Newlines : n <= m
        /\ line' = [ptr |-> start, len |-> n, pos |-> taken]
        /\ len' = len - (n + 1)
        /\ buf' = [i \in 0..MaxLine |->
                     IF i < len' THEN buf[start + n + 1 + i]
                     ELSE IF i = start + n THEN NUL ELSE buf[i]]
        /\ start' = 0
        /\ taken' = taken + n + 1
        /\ live' = live \cup {line'}
    /\ pc' = "handle"
    /\ UNCHANGED <<stream, eof, recvd, why>>

\* pjsocky_framing_extract_line() finding a newline at offset n: the line is
\* terminated in place, nothing moves.
ExtractLine ==
    /\ pc = "extract"
    /\ \E n \in Newlines :
        /\ \A m \in Newlines : n <= m
        /\ line' = [ptr |-> start, len |-> n, pos |-> taken]
        /\ buf' = [buf EXCEPT ![start + n] = NUL]
        /\ len' = len - (n + 1)
        /\ start' = IF len' = 0 THEN 0 ELSE start + n + 1
        /\ taken' = taken + n + 1
        /\ live' = live \cup {line'}
    /\ pc' = "handle"
    /\ UNCHANGED <<stream, eof, recvd, why>>

\* Mutant of ExtractPending: a full buffer is waited on like any other.
ExtractPendingWhenFull ==
    /\ pc = "extract" /\ Newlines = {}
    /\ pc' = "select"
    /\ UNCHANGED <<stream, eof, recvd, buf, start, len, line, why, taken, live>>

\* No newline yet, PJ_EPENDING: back to select().
ExtractPending ==
    /\ pc = "extract" /\ Newlines = {} /\ len < MaxLine
    /\ pc' = "select"
    /\ UNCHANGED <<stream, eof, recvd, buf, start, len, line, why, taken, live>>

\* Mutant of ExtractTooBig: one byte too early.
ExtractTooBigEarly ==
    /\ pc = "extract" /\ Newlines = {} /\ len >= MaxLine - 1
    /\ start' = 0 /\ len' = 0
    /\ Drop("toobig")
    /\ UNCHANGED <<stream, eof, recvd, buf, line, taken, live>>

\* A full buffer without a newline, PJ_ETOOBIG: the bytes are discarded and
\* handle_conn_input() has the connection closed.
ExtractTooBig ==
    /\ pc = "extract" /\ Newlines = {} /\ len >= MaxLine
    /\ start' = 0 /\ len' = 0
    /\ Drop("toobig")
    /\ UNCHANGED <<stream, eof, recvd, buf, line, taken, live>>

\* Mutant of HandleLine: one line per wakeup.
HandleOneLine ==
    /\ pc = "handle"
    /\ \/ pc' = "select" /\ UNCHANGED why
       \/ Drop("write")
    /\ UNCHANGED <<stream, eof, recvd, buf, start, len, line, taken, live>>

\* handle_line(): the line is parsed where it lies in the buffer and its
\* response written; a failed write drops the connection.
HandleLine ==
    /\ pc = "handle"
    /\ \/ pc' = "extract" /\ UNCHANGED why
       \/ Drop("write")
    /\ UNCHANGED <<stream, eof, recvd, buf, start, len, line, taken, live>>

Next ==
    \/ ClientSend \/ ClientShutdown \/ Open
    \/ Fill \/ FillPending \/ FillEnd
    \/ ExtractLine \/ ExtractPending \/ ExtractTooBig \/ HandleLine

Spec == Init /\ [][Next]_vars

\* select() reports a socket with waiting bytes as readable, and the main
\* thread never stops running the loop in between.
Fairness ==
    /\ WF_vars(Fill)
    /\ WF_vars(ExtractLine \/ ExtractPending \/ ExtractTooBig)
    /\ WF_vars(HandleLine)

FairSpec == Spec /\ Fairness

-----------------------------------------------------------------------------
(* Properties. *)

\* Every variable has its type; start and len index the buffer.
TypeOK ==
    /\ stream \in Seq(Byte) /\ eof \in BOOLEAN
    /\ recvd \in Nat /\ taken \in Nat
    /\ buf \in [0..MaxLine -> Byte]
    /\ start \in 0..MaxLine /\ len \in 0..MaxLine
    /\ pc \in PCs /\ why \in Reasons
    /\ line \in Line /\ live \subseteq Line

\* While a connection is up, the window buf[start .. start+len) holds exactly
\* the bytes received and not yet cut off as lines (framing.h: `start` is the
\* "offset of first unconsumed byte"): nothing is lost, repeated, reordered or
\* left over from an earlier connection, whatever the recv() boundaries were.
WindowIsStream ==
    pc # "closed" =>
        /\ start + len <= MaxLine
        /\ recvd = taken + len /\ recvd <= Len(stream)
        /\ \A i \in 0..(len - 1) : buf[start + i] = stream[taken + i + 1]

\* framing.h: a returned line "stays valid across further extract calls"
\* until the next fill(), with its terminating NUL; the pipelined-requests
\* bug the comment in fill() describes violates this.
LinesStayValid ==
    \A l \in live :
        /\ buf[l.ptr + l.len] = NUL
        /\ \A i \in 0..(l.len - 1) : buf[l.ptr + i] = stream[l.pos + i + 1]

\* fill() is never entered with a full buffer: the server only goes back to
\* select() once extract_line() has made room, so select() cannot spin on
\* a readable socket that is never read.
FillHasRoom == pc = "select" => len < MaxLine

\* A connection is dropped as oversized only when the client really sent
\* MaxLine bytes in a row without a newline.
OnlyLongLinesAreTooBig ==
    why = "toobig" =>
        /\ taken + MaxLine <= Len(stream)
        /\ \A i \in 1..MaxLine : stream[taken + i] # NL

\* What the dispatcher reads through the line pointer while it handles it.
TextInBuffer ==
    IF pc = "handle" THEN [i \in 1..line.len |-> buf[line.ptr + i - 1]] ELSE <<>>

\* The abstract reader, with the bytes as they lie in the buffer.
Abs == INSTANCE LineStream WITH text <- TextInBuffer, open <- (pc # "closed")

\* The buffer, its compaction and the in-place lines implement the abstract
\* line reader.
LineStreamSpec == Abs!ASpec

\* Every complete line the client manages to send is cut off and handled, or
\* the connection is closed: no pipelined request is left sitting in the
\* buffer while the server waits in select().
CompleteLinesAreTaken ==
    \A p \in 1..MaxSent :
        (pc # "closed" /\ p <= Len(stream) /\ stream[p] = NL)
            ~> (pc = "closed" \/ taken >= p)
=============================================================================
