----------------------------- MODULE LineWriter -----------------------------
(***************************************************************************)
(* The write side of src/proto/framing.c: pjsocky_framing_write_json()    *)
(* takes the text pj_json_write() printed, compact_json() drops the       *)
(* printer's white space in place, byte by byte, and write_line() sends   *)
(* what is left and a newline, each with send_all() and its deadline.     *)
(*                                                                        *)
(* The text is a sequence of tokens, which is how a JSON printer makes    *)
(* it: white space, a byte of punctuation or of a number, or a string,    *)
(* whose quotes, backslashes and newlines are escaped.  It begins with    *)
(* something else than white space.  Time passes while select() waits;    *)
(* the rest of the code takes none.                                       *)
(***************************************************************************)
EXTENDS Integers, Sequences, SequencesExt

CONSTANTS Doc,       \* token sequences pj_json_write() may print
          Scratch,   \* bytes of the scratch buffer
          Timeout,   \* write_timeout_msec, in ticks
          Cap        \* bytes the socket buffer holds

\* Bytes that compact_json() tells apart.
Quote == "quote"
Backslash == "backslash"
Space == "space"
Newline == "newline"
Byte == "byte"        \* any other
White == {Space, Newline}
Bytes == {Quote, Backslash, Byte} \cup White

\* In string t the backslashes at E begin an escape of two bytes.
Escapes(t, E) ==
    \A n \in 2 .. Len(t) - 1 :
        IF n \in E
        THEN t[n] = Backslash /\ n + 1 \notin E /\ n + 1 < Len(t)
        ELSE n - 1 \in E \/ t[n] \notin {Quote, Backslash}

IsString(t) ==
    /\ Len(t) >= 2 /\ t[1] = Quote /\ t[Len(t)] = Quote
    /\ \A n \in 1 .. Len(t) : t[n] # Newline
    /\ \E E \in SUBSET (2 .. Len(t) - 1) : Escapes(t, E)

IsToken(t) == t \in {<<Space>>, <<Newline>>, <<Byte>>} \/ IsString(t)

\* What a token is to the client, who parses it.
IsLayout(t) == t[1] \in White

\* What pj_json_write() prints.
ASSUME DocAssumption ==
    \A d \in Doc :
        /\ d \in Seq(Seq(Bytes)) /\ d # <<>> /\ ~IsLayout(d[1])
        /\ \A n \in DOMAIN d : IsToken(d[n])
ASSUME BoundsAssumption ==
    /\ Timeout \in Nat \ {0} /\ Cap \in Nat \ {0} /\ Scratch \in Nat

VARIABLES
    doc,      \* what is printed
    pc,       \* "json", "compact", "send", "wait", "ok", "failed"
    buf,      \* the scratch buffer
    i, out,   \* compact_json()'s indices: bytes looked at, bytes kept
    in_string, escaped,
    part,     \* write_line(): sending "body" or "newline"
    sent,     \* send_all()'s sent_total
    start,    \* when send_all() was entered
    until,    \* when the select() in progress times out
    now,      \* the clock, zero when write_json() was called
    wire,     \* every byte put on the socket
    rd,       \* how many of them the client has read
    gone      \* has the client closed its end?

compactVars == <<buf, i, out, in_string, escaped>>
sendVars == <<part, sent, start, until>>
clientVars == <<rd, gone>>
vars == <<doc, pc, compactVars, sendVars, now, wire, clientVars>>

\* The line the client is to get: all tokens but the layout.
Stripped(d) == [n \in 1 .. Len(d) |-> IF IsLayout(d[n]) THEN <<>> ELSE d[n]]
Line(d) == FlattenSeq(Stripped(d)) \o <<Newline>>

Init ==
    /\ doc \in Doc
    /\ pc = "json"
    /\ buf = <<>> /\ i = 0 /\ out = 0
    /\ in_string = FALSE /\ escaped = FALSE
    /\ part = "body" /\ sent = 0 /\ start = 0 /\ until = 0
    /\ now = 0 /\ wire = <<>> /\ rd = 0 /\ gone = FALSE

-----------------------------------------------------------------------------
(* write_json() and compact_json(). *)

\* pj_json_write() prints into the scratch buffer, or does not fit.
JsonWrite ==
    /\ pc = "json"
    /\ LET text == FlattenSeq(doc)
       IN  \/ /\ Len(text) <= Scratch
              /\ buf' = text /\ pc' = "compact"
           \/ /\ Len(text) > Scratch
              /\ pc' = "failed" /\ UNCHANGED buf
    /\ UNCHANGED <<doc, i, out, in_string, escaped, sendVars, now, wire,
                   clientVars>>

\* Mutant of InString, the string state after byte c: the byte after an escaped
\* backslash counts as escaped.
InStringLastByte(c) ==
    /\ in_string' = (IF in_string THEN c # Quote \/ escaped ELSE c = Quote)
    /\ escaped' = (in_string /\ c = Backslash)

InString(c) ==
    /\ in_string' = (IF in_string THEN c # Quote \/ escaped ELSE c = Quote)
    /\ escaped' = (in_string /\ c = Backslash /\ ~escaped)

Kept(c) == in_string \/ c \notin White

\* One turn of the loop: byte i is written back at out, or dropped.
CompactByte ==
    /\ pc = "compact" /\ i < Len(buf)
    /\ LET c == buf[i + 1]
       IN  /\ InString(c)
           /\ out' = IF Kept(c) THEN out + 1 ELSE out
           /\ buf' = IF Kept(c) THEN [buf EXCEPT ![out + 1] = c] ELSE buf
    /\ i' = i + 1
    /\ UNCHANGED <<doc, pc, sendVars, now, wire, clientVars>>

CompactEnd ==
    /\ pc = "compact" /\ i = Len(buf)
    /\ pc' = "send" /\ start' = now
    /\ UNCHANGED <<doc, compactVars, part, sent, until, now, wire, clientVars>>

-----------------------------------------------------------------------------
(* send_all(). *)

Data == IF part = "body" THEN SubSeq(buf, 1, out) ELSE <<Newline>>
Room == Cap - (Len(wire) - rd)

\* Mutant of Rest: every send() starts at the beginning of the data.
RestFromStart(k) == SubSeq(Data, 1, k)

\* The next k bytes to send.
Rest(k) == SubSeq(Data, sent + 1, sent + k)

\* send_all() has sent n bytes by now; write_line() calls it a second time.
Finished(n) ==
    IF n < Len(Data) THEN sent' = n /\ UNCHANGED <<pc, part, start>>
    ELSE IF part = "body"
    THEN part' = "newline" /\ sent' = 0 /\ start' = now /\ UNCHANGED pc
    ELSE pc' = "ok" /\ sent' = n /\ UNCHANGED <<part, start>>

\* send() takes some of what is left.
Send ==
    /\ pc = "send" /\ ~gone
    /\ \E k \in 1 .. (Len(Data) - sent) :
        /\ k <= Room
        /\ wire' = wire \o Rest(k)
        /\ Finished(sent + k)
    /\ UNCHANGED <<doc, compactVars, until, now, clientVars>>

\* send() or select() fails.
SendError ==
    /\ pc \in {"send", "wait"} /\ gone
    /\ pc' = "failed"
    /\ UNCHANGED <<doc, compactVars, sendVars, now, wire, clientVars>>

\* Mutant of Remaining: each wait gets the whole time again.
RemainingWhole == IF now - start >= Timeout THEN 0 ELSE Timeout

Remaining == Timeout - (now - start)

\* Mutant of WouldBlock: the time is left to select() to check.
WouldBlockUnchecked ==
    /\ pc = "send" /\ ~gone /\ Room = 0
    /\ pc' = "wait" /\ until' = now + Remaining
    /\ UNCHANGED <<doc, compactVars, part, sent, start, now, wire, clientVars>>

\* The socket buffer is full: PJ_ETIMEDOUT, or select() for what is left.
WouldBlock ==
    /\ pc = "send" /\ ~gone /\ Room = 0
    /\ IF Remaining <= 0
       THEN pc' = "failed" /\ UNCHANGED until
       ELSE pc' = "wait" /\ until' = now + Remaining
    /\ UNCHANGED <<doc, compactVars, part, sent, start, now, wire, clientVars>>

\* select() returns because there is room ...
Writable ==
    /\ pc = "wait" /\ Room > 0
    /\ pc' = "send"
    /\ UNCHANGED <<doc, compactVars, sendVars, now, wire, clientVars>>

\* ... with EINTR ...
Interrupted ==
    /\ pc = "wait"
    /\ pc' = "send"
    /\ UNCHANGED <<doc, compactVars, sendVars, now, wire, clientVars>>

\* ... or because the time is over.
WaitTimeout ==
    /\ pc = "wait" /\ Room = 0 /\ now >= until
    /\ pc' = "failed"
    /\ UNCHANGED <<doc, compactVars, sendVars, now, wire, clientVars>>

-----------------------------------------------------------------------------
(* The client and the clock. *)

Writing == pc \in {"send", "wait"}

Read ==
    /\ Writing /\ ~gone /\ rd < Len(wire)
    /\ rd' = rd + 1
    /\ UNCHANGED <<doc, pc, compactVars, sendVars, now, wire, gone>>

Leave ==
    /\ Writing /\ ~gone
    /\ gone' = TRUE
    /\ UNCHANGED <<doc, pc, compactVars, sendVars, now, wire, rd>>

Tick ==
    /\ pc = "wait" /\ now < until
    /\ now' = now + 1
    /\ UNCHANGED <<doc, pc, compactVars, sendVars, wire, clientVars>>

Writer ==
    \/ JsonWrite \/ CompactByte \/ CompactEnd
    \/ Send \/ SendError \/ WouldBlock \/ Writable \/ WaitTimeout

Next == Writer \/ Interrupted \/ Read \/ Leave \/ Tick

Spec == Init /\ [][Next]_vars

\* The thread runs, and the clock does not stand still for ever while it
\* waits, however often it is woken up.
FairSpec == Spec /\ WF_vars(Writer) /\ SF_vars(Tick)

-----------------------------------------------------------------------------
(* Properties. *)

\* compact_json(): "any raw space/tab/CR/LF byte encountered while not inside a
\* quoted string is always pretty-printer formatting, never string content".
\* Bytes alone decide it right: what is left is the text's tokens without the
\* layout, strings with spaces, escaped quotes and backslashes untouched.
CompactKeepsTokens ==
    Writing \/ pc = "ok" => SubSeq(buf, 1, out) \o <<Newline>> = Line(doc)

\* What the client gets is the beginning of that line, all of it if write_line()
\* succeeds, and its only newline is its last byte: partial sends neither
\* repeat nor skip a byte.
WireIsTheLine ==
    /\ IsPrefix(wire, Line(doc))
    /\ pc = "ok" => wire = Line(doc)
    /\ \A n \in DOMAIN wire : wire[n] = Newline => n = Len(Line(doc))

\* send_all(): the deadline is one for all waits of a call, however slowly
\* the client reads and however often select() is interrupted; write_line()
\* calls it twice.
DeadlineHolds == now - start <= Timeout /\ now <= 2 * Timeout

\* Every write ends, sent or failed, even if the client never reads again.
WriteEnds == <>(pc \in {"ok", "failed"})

-----------------------------------------------------------------------------
(* A claim that TLC refutes on this module; README.md tells what happens.    *)

\* docs/PROTOCOL.md "Backpressure": writes "share one bounded write deadline".
\* The newline of a message has one of its own.
OneDeadlinePerMessage == now <= Timeout
=============================================================================
