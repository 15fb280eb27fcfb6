--------------------------- MODULE FramingProofs ---------------------------
(***************************************************************************)
(* TLAPS proofs about Framing, for every buffer size, every byte alphabet *)
(* and every bound on what a client sends: the buffer window always holds *)
(* the unconsumed part of the stream, returned lines stay valid until the *)
(* next fill, and the in-place reader implements LineStream.              *)
(***************************************************************************)
EXTENDS Framing, TLAPS

\* Why a returned line cannot be overwritten by a later extract_line(): it
\* ends before the window, or the window is empty and there is nothing left
\* to cut.  Its bytes are part of the stream that was received.
LiveBehindWindow ==
    \A l \in live :
        /\ l.ptr + l.len <= MaxLine
        /\ l.pos + l.len <= Len(stream)
        /\ l.ptr + l.len < start \/ len = 0

\* The line being handled is one of the lines returned since the last fill,
\* and it is the one cut off last.
CurrentLineIsLive == pc = "handle" => line \in live

\* An oversized line ends its connection.
TooBigIsClosed == why = "toobig" => pc = "closed"

\* The inductive invariant.
IInv ==
    /\ TypeOK
    /\ WindowIsStream
    /\ LinesStayValid
    /\ FillHasRoom
    /\ OnlyLongLinesAreTooBig
    /\ LiveBehindWindow
    /\ CurrentLineIsLive
    /\ TooBigIsClosed

-----------------------------------------------------------------------------
\* An element of a sequence over S is in S.
LEMMA SeqElement == \A S : \A s \in Seq(S) : \A j \in 1..Len(s) : s[j] \in S
OBVIOUS

\* The program starts in a state of the inductive invariant.
LEMMA InitEstablishes == Init => IInv
BY ByteAssumption, MaxLineAssumption
   DEF Init, IInv, TypeOK, WindowIsStream, LinesStayValid, FillHasRoom,
       OnlyLongLinesAreTooBig, LiveBehindWindow, CurrentLineIsLive,
       TooBigIsClosed, PCs, Reasons, Line, NoLine

\* Appending a byte keeps every byte already sent.
LEMMA AppendKeeps ==
    ASSUME NEW s \in Seq(Byte), NEW b \in Byte
    PROVE  /\ Append(s, b) \in Seq(Byte)
           /\ Len(Append(s, b)) = Len(s) + 1
           /\ \A i \in 1..Len(s) : Append(s, b)[i] = s[i]
OBVIOUS

\* What the buffer holds after the memmove: the window, now at offset 0.
LEMMA CompactedIsWindow ==
    ASSUME TypeOK, start + len <= MaxLine
    PROVE  /\ Compacted \in [0..MaxLine -> Byte]
           /\ \A i \in 0..(len - 1) : Compacted[i] = buf[start + i]
BY MaxLineAssumption DEF TypeOK, Compacted

-----------------------------------------------------------------------------
\* Every step of the client or the daemon keeps the inductive invariant.
LEMMA StepPreserves == IInv /\ [Next]_vars => IInv'
<1> SUFFICES ASSUME IInv, [Next]_vars PROVE IInv'
  OBVIOUS
<1> USE ByteAssumption, MaxLineAssumption, MaxSentAssumption
<1>1. CASE ClientSend
  <2> PICK b \in Byte : stream' = Append(stream, b)
    BY <1>1 DEF ClientSend
  <2>1. /\ stream' \in Seq(Byte) /\ Len(stream') = Len(stream) + 1
        /\ \A i \in 1..Len(stream) : stream'[i] = stream[i]
    BY AppendKeeps DEF IInv, TypeOK
  <2>2. pc # "closed" /\ Len(stream) \in Nat
    BY <1>1 DEF ClientSend, IInv, TypeOK
  <2>3. TypeOK'
    BY <1>1, <2>1 DEF ClientSend, IInv, TypeOK
  <2>4. WindowIsStream'
    <3>1. UNCHANGED <<buf, start, len, recvd, taken>>
      BY <1>1 DEF ClientSend
    <3>2. /\ recvd <= Len(stream) /\ recvd \in Nat /\ taken \in Nat /\ len \in Nat
          /\ WindowIsStream
      BY <2>2 DEF IInv, TypeOK, WindowIsStream
    <3> QED
      BY <2>1, <2>2, <3>1, <3>2 DEF WindowIsStream
  <2>5. LinesStayValid' /\ LiveBehindWindow'
    <3>1. UNCHANGED <<buf, start, len, live>>
      BY <1>1 DEF ClientSend
    <3> SUFFICES ASSUME NEW l \in live
                 PROVE  /\ l.ptr + l.len <= MaxLine
                        /\ l.pos + l.len <= Len(stream')
                        /\ l.ptr + l.len < start \/ len = 0
                        /\ buf[l.ptr + l.len] = NUL
                        /\ \A i \in 0..(l.len - 1) :
                              buf[l.ptr + i] = stream'[l.pos + i + 1]
      BY <3>1 DEF LinesStayValid, LiveBehindWindow
    <3>2. l.pos \in Nat /\ l.len \in Nat /\ l.pos + l.len <= Len(stream)
      BY DEF IInv, TypeOK, Line, LiveBehindWindow
    <3>3. ASSUME NEW i \in 0..(l.len - 1)
          PROVE  buf[l.ptr + i] = stream'[l.pos + i + 1]
      <4>1. l.pos + i + 1 \in 1..Len(stream)
        BY <3>2, <2>2
      <4>2. buf[l.ptr + i] = stream[l.pos + i + 1]
        BY DEF IInv, LinesStayValid
      <4> QED BY <4>1, <4>2, <2>1
    <3>4. /\ l.ptr + l.len <= MaxLine /\ buf[l.ptr + l.len] = NUL
          /\ l.ptr + l.len < start \/ len = 0
      BY DEF IInv, LinesStayValid, LiveBehindWindow
    <3>5. l.pos + l.len <= Len(stream')
      BY <2>1, <2>2, <3>2
    <3> QED
      BY <3>3, <3>4, <3>5
  <2>6. FillHasRoom' /\ CurrentLineIsLive' /\ TooBigIsClosed'
    BY <1>1 DEF ClientSend, IInv, FillHasRoom, CurrentLineIsLive, TooBigIsClosed
  <2>7. OnlyLongLinesAreTooBig'
    BY <1>1, <2>2 DEF ClientSend, IInv, TooBigIsClosed, OnlyLongLinesAreTooBig
  <2> QED BY <2>3, <2>4, <2>5, <2>6, <2>7 DEF IInv
<1>2. CASE ClientShutdown
  BY <1>2 DEF ClientShutdown, IInv, TypeOK, WindowIsStream, LinesStayValid,
     FillHasRoom, OnlyLongLinesAreTooBig, LiveBehindWindow, CurrentLineIsLive,
     TooBigIsClosed
<1>3. CASE Open
  BY <1>3 DEF Open, IInv, TypeOK, WindowIsStream, LinesStayValid, FillHasRoom,
     OnlyLongLinesAreTooBig, LiveBehindWindow, CurrentLineIsLive,
     TooBigIsClosed, PCs, Reasons, Line, NoLine
<1>4. CASE Fill
  <2> PICK k \in RecvSizes :
        /\ buf' = [i \in 0..MaxLine |->
                     IF len <= i /\ i < len + k
                     THEN stream[recvd + (i - len) + 1]
                     ELSE Compacted[i]]
        /\ len' = len + k
        /\ recvd' = recvd + k
    BY <1>4 DEF Fill
  <2>1. /\ pc = "select" /\ pc' = "extract" /\ start' = 0 /\ live' = {}
        /\ UNCHANGED <<stream, eof, line, why, taken>>
    BY <1>4 DEF Fill
  <2>2. /\ start \in 0..MaxLine /\ len \in 0..MaxLine /\ start + len <= MaxLine
        /\ len < MaxLine /\ recvd = taken + len /\ recvd \in Nat /\ taken \in Nat
        /\ stream \in Seq(Byte) /\ Len(stream) \in Nat
        /\ \A i \in 0..(len - 1) : buf[start + i] = stream[taken + i + 1]
    BY <2>1 DEF IInv, TypeOK, WindowIsStream, FillHasRoom
  <2>3. k \in 1..(MaxLine - len) /\ k <= Len(stream) - recvd
    BY <2>2 DEF RecvSizes
  <2>4. /\ Compacted \in [0..MaxLine -> Byte]
        /\ \A i \in 0..(len - 1) : Compacted[i] = stream[taken + i + 1]
    BY <2>2, CompactedIsWindow DEF IInv
  <2>5. \A i \in 0..MaxLine : len <= i /\ i < len + k =>
            stream[recvd + (i - len) + 1] \in Byte
    <3> SUFFICES ASSUME NEW i \in 0..MaxLine, len <= i, i < len + k
                 PROVE  stream[recvd + (i - len) + 1] \in Byte
      OBVIOUS
    <3>1. recvd + (i - len) + 1 \in 1..Len(stream)
      BY <2>2, <2>3
    <3>2. stream \in Seq(Byte)
      BY <2>2
    <3> QED BY <3>1, <3>2, SeqElement, Zenon
  <2>6. TypeOK'
    BY <2>1, <2>2, <2>3, <2>4, <2>5 DEF IInv, TypeOK, PCs
  <2>7. WindowIsStream'
    BY <2>1, <2>2, <2>3, <2>4 DEF WindowIsStream
  <2>8. LinesStayValid' /\ LiveBehindWindow' /\ FillHasRoom' /\ CurrentLineIsLive'
    BY <2>1 DEF LinesStayValid, LiveBehindWindow, FillHasRoom, CurrentLineIsLive
  <2>9. OnlyLongLinesAreTooBig' /\ TooBigIsClosed'
    BY <2>1 DEF IInv, OnlyLongLinesAreTooBig, TooBigIsClosed
  <2> QED BY <2>6, <2>7, <2>8, <2>9 DEF IInv
<1>5. CASE FillPending
  <2>1. /\ pc = "select" /\ pc' = "select" /\ start' = 0 /\ live' = {}
        /\ buf' = Compacted
        /\ UNCHANGED <<stream, eof, recvd, len, line, why, taken>>
    BY <1>5 DEF FillPending
  <2>2. start + len <= MaxLine
    BY <2>1 DEF IInv, WindowIsStream
  <2>3. /\ Compacted \in [0..MaxLine -> Byte]
        /\ \A i \in 0..(len - 1) : Compacted[i] = buf[start + i]
    BY <2>2, CompactedIsWindow DEF IInv
  <2>4. TypeOK'
    BY <2>1, <2>3 DEF IInv, TypeOK
  <2>5. WindowIsStream'
    <3>1. /\ len \in 0..MaxLine /\ recvd = taken + len /\ recvd <= Len(stream)
          /\ \A i \in 0..(len - 1) : buf[start + i] = stream[taken + i + 1]
      BY <2>1 DEF IInv, TypeOK, WindowIsStream
    <3>2. \A i \in 0..(len - 1) : Compacted[i] = stream[taken + i + 1]
      BY <2>3, <3>1
    <3>3. \A i \in 0..(len - 1) : buf'[start' + i] = stream[taken + i + 1]
      BY <2>1, <3>1, <3>2
    <3> QED BY <2>1, <3>1, <3>3 DEF WindowIsStream
  <2>6. LinesStayValid' /\ LiveBehindWindow' /\ FillHasRoom' /\ CurrentLineIsLive'
    BY <2>1 DEF IInv, LinesStayValid, LiveBehindWindow, FillHasRoom,
                CurrentLineIsLive
  <2>7. OnlyLongLinesAreTooBig' /\ TooBigIsClosed'
    BY <2>1 DEF IInv, OnlyLongLinesAreTooBig, TooBigIsClosed
  <2> QED BY <2>4, <2>5, <2>6, <2>7 DEF IInv
<1>6. CASE FillEnd
  <2>1. /\ pc = "select" /\ pc' = "closed" /\ start' = 0 /\ live' = {}
        /\ why' \in {"eof", "error"} /\ buf' = Compacted
        /\ UNCHANGED <<stream, eof, recvd, len, line, taken>>
    BY <1>6 DEF FillEnd, Drop
  <2>2. start + len <= MaxLine
    BY <2>1 DEF IInv, WindowIsStream
  <2>3. Compacted \in [0..MaxLine -> Byte]
    BY <2>2, CompactedIsWindow DEF IInv
  <2>4. TypeOK'
    BY <2>1, <2>3 DEF IInv, TypeOK, PCs, Reasons
  <2> QED
    BY <2>1, <2>4 DEF IInv, WindowIsStream, LinesStayValid, FillHasRoom,
       OnlyLongLinesAreTooBig, LiveBehindWindow, CurrentLineIsLive,
       TooBigIsClosed
<1>7. CASE ExtractLine
  <2> PICK n \in Newlines :
        /\ \A m \in Newlines : n <= m
        /\ line' = [ptr |-> start, len |-> n, pos |-> taken]
        /\ buf' = [buf EXCEPT ![start + n] = NUL]
        /\ len' = len - (n + 1)
        /\ start' = IF len' = 0 THEN 0 ELSE start + n + 1
        /\ taken' = taken + n + 1
        /\ live' = live \cup {line'}
    BY <1>7 DEF ExtractLine
  <2>1. /\ pc = "extract" /\ pc' = "handle"
        /\ UNCHANGED <<stream, eof, recvd, why>>
    BY <1>7 DEF ExtractLine
  <2>2. /\ start \in 0..MaxLine /\ len \in 0..MaxLine /\ start + len <= MaxLine
        /\ recvd = taken + len /\ recvd \in Nat /\ taken \in Nat
        /\ recvd <= Len(stream) /\ Len(stream) \in Nat
        /\ buf \in [0..MaxLine -> Byte]
        /\ \A i \in 0..(len - 1) : buf[start + i] = stream[taken + i + 1]
    BY <2>1 DEF IInv, TypeOK, WindowIsStream
  <2>3. n \in 0..(len - 1) /\ buf[start + n] = NL
    BY DEF Newlines
  <2>4. line' \in Line
    BY <2>2, <2>3 DEF Line
  <2>5. TypeOK'
    BY <2>1, <2>2, <2>3, <2>4 DEF IInv, TypeOK, PCs
  <2>6. WindowIsStream'
    <3>1. CASE len' = 0
      BY <3>1, <2>1, <2>2, <2>3 DEF WindowIsStream
    <3>2. CASE len' # 0
      <4>1. /\ start' = start + n + 1 /\ len' = len - (n + 1)
            /\ taken' = taken + n + 1
        BY <3>2
      <4>2. ASSUME NEW i \in 0..(len' - 1)
            PROVE  buf'[start' + i] = stream[taken' + i + 1]
        <5>1. n + 1 + i \in 0..(len - 1)
          BY <4>1, <2>2, <2>3
        <5>2. buf'[start + (n + 1 + i)] = buf[start + (n + 1 + i)]
          BY <5>1, <2>2, <2>3
        <5>3. buf[start + (n + 1 + i)] = stream[taken + (n + 1 + i) + 1]
          BY <5>1, <2>2
        <5>4. /\ start' + i = start + (n + 1 + i)
              /\ taken' + i + 1 = taken + (n + 1 + i) + 1
          BY <4>1, <5>1, <2>2, <2>3
        <5> QED BY <5>2, <5>3, <5>4
      <4>3. /\ start' + len' <= MaxLine /\ recvd' = taken' + len'
            /\ recvd' <= Len(stream')
        BY <4>1, <2>1, <2>2, <2>3
      <4> QED BY <4>2, <4>3, <2>1 DEF WindowIsStream
    <3> QED BY <3>1, <3>2
  <2>7. LiveBehindWindow' /\ LinesStayValid'
    <3> SUFFICES ASSUME NEW l \in live'
                 PROVE  /\ l.ptr + l.len <= MaxLine
                        /\ l.pos + l.len <= Len(stream)
                        /\ l.ptr + l.len < start' \/ len' = 0
                        /\ buf'[l.ptr + l.len] = NUL
                        /\ \A i \in 0..(l.len - 1) :
                              buf'[l.ptr + i] = stream[l.pos + i + 1]
      BY <2>1 DEF LiveBehindWindow, LinesStayValid
    <3>1. CASE l = line'
      <4>1. l.ptr = start /\ l.len = n /\ l.pos = taken
        BY <3>1
      <4>2. /\ l.ptr + l.len <= MaxLine /\ l.pos + l.len <= Len(stream)
            /\ l.ptr + l.len < start' \/ len' = 0
            /\ buf'[l.ptr + l.len] = NUL
        BY <4>1, <2>2, <2>3
      <4>3. ASSUME NEW i \in 0..(l.len - 1)
            PROVE  buf'[l.ptr + i] = stream[l.pos + i + 1]
        <5>1. i \in 0..(len - 1) /\ i < n
          BY <4>1, <2>2, <2>3
        <5>2. buf'[start + i] = buf[start + i]
          BY <5>1, <2>2, <2>3
        <5> QED BY <5>1, <5>2, <4>1, <2>2
      <4> QED BY <4>2, <4>3
    <3>2. CASE l \in live
      <4>1. /\ l.ptr \in 0..MaxLine /\ l.len \in 0..MaxLine
            /\ l.ptr + l.len <= MaxLine /\ l.pos + l.len <= Len(stream)
            /\ l.ptr + l.len < start
            /\ buf[l.ptr + l.len] = NUL
            /\ \A i \in 0..(l.len - 1) : buf[l.ptr + i] = stream[l.pos + i + 1]
        BY <3>2, <2>2, <2>3
           DEF IInv, TypeOK, Line, LiveBehindWindow, LinesStayValid
      <4>2. l.ptr + l.len < start' \/ len' = 0
        BY <4>1, <2>2, <2>3
      <4>3. \A j \in 0..(start - 1) : buf'[j] = buf[j]
        BY <2>2, <2>3
      <4>4. ASSUME NEW i \in 0..(l.len - 1)
            PROVE  buf'[l.ptr + i] = stream[l.pos + i + 1]
        <5>1. /\ l.ptr \in Nat /\ l.len \in Nat /\ start \in Nat
              /\ l.ptr + l.len < start
          BY <4>1, <2>2
        <5>2. l.ptr + i \in 0..(start - 1)
          BY <5>1
        <5> QED BY <5>2, <4>1, <4>3
      <4>5. buf'[l.ptr + l.len] = NUL
        <5>1. l.ptr + l.len \in 0..(start - 1)
          BY <4>1, <2>2
        <5> QED BY <5>1, <4>1, <4>3
      <4> QED BY <4>1, <4>2, <4>4, <4>5
    <3> QED BY <3>1, <3>2
  <2>8. FillHasRoom' /\ CurrentLineIsLive' /\ TooBigIsClosed'
        /\ OnlyLongLinesAreTooBig'
    BY <2>1 DEF IInv, FillHasRoom, CurrentLineIsLive, TooBigIsClosed,
                OnlyLongLinesAreTooBig
  <2> QED BY <2>5, <2>6, <2>7, <2>8 DEF IInv
<1>8. CASE ExtractPending
  BY <1>8 DEF ExtractPending, IInv, TypeOK, PCs, WindowIsStream, LinesStayValid,
     FillHasRoom, OnlyLongLinesAreTooBig, LiveBehindWindow, CurrentLineIsLive,
     TooBigIsClosed
<1>9. CASE ExtractTooBig
  <2>1. /\ pc = "extract" /\ Newlines = {} /\ len >= MaxLine
        /\ pc' = "closed" /\ why' = "toobig" /\ start' = 0 /\ len' = 0
        /\ UNCHANGED <<stream, eof, recvd, buf, line, taken, live>>
    BY <1>9 DEF ExtractTooBig, Drop
  <2>2. TypeOK'
    BY <2>1 DEF IInv, TypeOK, PCs, Reasons
  <2>3. OnlyLongLinesAreTooBig'
    <3>1. /\ len = MaxLine /\ taken \in Nat /\ start = 0 /\ Len(stream) \in Nat
          /\ recvd = taken + len /\ recvd <= Len(stream)
          /\ \A i \in 0..(len - 1) : buf[start + i] = stream[taken + i + 1]
      BY <2>1 DEF IInv, TypeOK, WindowIsStream
    <3>2. \A i \in 1..MaxLine : stream[taken + i] # NL
      <4> TAKE i \in 1..MaxLine
      <4>1. (i - 1) \in 0..(len - 1) /\ taken + (i - 1) + 1 = taken + i
        BY <3>1
      <4>2. buf[start + (i - 1)] # NL
        BY <4>1, <2>1 DEF Newlines
      <4> QED BY <4>1, <4>2, <3>1
    <3> QED BY <3>1, <3>2, <2>1 DEF OnlyLongLinesAreTooBig
  <2> QED
    BY <2>1, <2>2, <2>3 DEF IInv, WindowIsStream, LinesStayValid, FillHasRoom,
       LiveBehindWindow, CurrentLineIsLive, TooBigIsClosed
<1>10. CASE HandleLine
  BY <1>10 DEF HandleLine, Drop, IInv, TypeOK, PCs, Reasons, WindowIsStream,
     LinesStayValid, FillHasRoom, OnlyLongLinesAreTooBig, LiveBehindWindow,
     CurrentLineIsLive, TooBigIsClosed
<1>11. CASE UNCHANGED vars
  BY <1>11 DEF vars, IInv, TypeOK, WindowIsStream, LinesStayValid, Newlines,
     FillHasRoom, OnlyLongLinesAreTooBig, LiveBehindWindow, CurrentLineIsLive,
     TooBigIsClosed
<1> QED
  BY <1>1, <1>2, <1>3, <1>4, <1>5, <1>6, <1>7, <1>8, <1>9, <1>10, <1>11 DEF Next
-----------------------------------------------------------------------------
\* Every reachable state satisfies the inductive invariant.
THEOREM InductiveInvariant == Spec => []IInv
BY InitEstablishes, StepPreserves, PTL DEF Spec

\* The variables of the read side keep their types; in particular start and
\* len never leave the buffer of MaxLine + 1 bytes.
THEOREM TypeCorrect == Spec => []TypeOK
<1>1. IInv => TypeOK
  BY DEF IInv
<1> QED BY <1>1, InductiveInvariant, PTL

\* The window of the buffer is the unconsumed part of the stream, for every
\* buffer size and however recv() cuts the stream.
THEOREM WindowCorrect == Spec => []WindowIsStream
<1>1. IInv => WindowIsStream
  BY DEF IInv
<1> QED BY <1>1, InductiveInvariant, PTL

\* A line returned by extract_line() keeps its bytes and its NUL until the
\* next fill(), whatever is extracted after it.
THEOREM LinesValid == Spec => []LinesStayValid
<1>1. IInv => LinesStayValid
  BY DEF IInv
<1> QED BY <1>1, InductiveInvariant, PTL

\* The server never waits in select() with a buffer it could not read into.
THEOREM FillAlwaysHasRoom == Spec => []FillHasRoom
<1>1. IInv => FillHasRoom
  BY DEF IInv
<1> QED BY <1>1, InductiveInvariant, PTL

\* Only a client that sent MaxLine bytes without a newline is dropped as
\* oversized.
THEOREM TooBigIsJustified == Spec => []OnlyLongLinesAreTooBig
<1>1. IInv => OnlyLongLinesAreTooBig
  BY DEF IInv
<1> QED BY <1>1, InductiveInvariant, PTL

-----------------------------------------------------------------------------
\* The initial state maps to an initial state of the abstract reader.
LEMMA InitRefines == Init => Abs!AInit
BY DEF Init, Abs!AInit, Abs!NoText, TextInBuffer

\* Every step maps to a step of the abstract reader or leaves it unchanged.
LEMMA StepRefines == IInv /\ [Next]_vars => [Abs!ANext]_(Abs!avars)
<1> SUFFICES ASSUME IInv, [Next]_vars PROVE [Abs!ANext]_(Abs!avars)
  OBVIOUS
<1> USE DEF Abs!ANext, Abs!avars, Abs!NoText
<1>1. CASE ClientSend
  BY <1>1 DEF ClientSend, Abs!ASend, TextInBuffer
<1>2. CASE ClientShutdown
  BY <1>2 DEF ClientShutdown, TextInBuffer
<1>3. CASE Open
  BY <1>3 DEF Open, Abs!AOpen, TextInBuffer
<1>4. CASE Fill
  BY <1>4 DEF Fill, TextInBuffer
<1>5. CASE FillPending
  BY <1>5 DEF FillPending, TextInBuffer
<1>6. CASE FillEnd
  BY <1>6 DEF FillEnd, Drop, Abs!AClose, TextInBuffer
<1>7. CASE ExtractLine
  <2> PICK n \in Newlines :
        /\ \A m \in Newlines : n <= m
        /\ line' = [ptr |-> start, len |-> n, pos |-> taken]
        /\ buf' = [buf EXCEPT ![start + n] = NUL]
        /\ taken' = taken + n + 1
    BY <1>7 DEF ExtractLine
  <2>1. pc = "extract" /\ pc' = "handle" /\ UNCHANGED stream
    BY <1>7 DEF ExtractLine
  <2>2. /\ start \in 0..MaxLine /\ len \in 0..MaxLine /\ start + len <= MaxLine
        /\ taken \in Nat /\ taken + len <= Len(stream) /\ Len(stream) \in Nat
        /\ stream \in Seq(Byte) /\ buf \in [0..MaxLine -> Byte]
        /\ \A i \in 0..(len - 1) : buf[start + i] = stream[taken + i + 1]
    BY <2>1 DEF IInv, TypeOK, WindowIsStream
  <2>3. n \in 0..(len - 1) /\ buf[start + n] = NL
    BY DEF Newlines
  <2>4. n \in 0..(MaxLine - 1)
    BY <2>2, <2>3, MaxLineAssumption
  <2>5. ASSUME NEW i \in 1..n
        PROVE  buf[start + i - 1] = stream[taken + i] /\ stream[taken + i] # NL
    <3>1. /\ (i - 1) \in 0..(len - 1) /\ i - 1 < n
          /\ start + (i - 1) = start + i - 1 /\ taken + (i - 1) + 1 = taken + i
      BY <2>2, <2>3
    <3>2. buf[start + (i - 1)] = stream[taken + (i - 1) + 1]
      BY <3>1, <2>2
    <3>3. buf[start + (i - 1)] # NL
      BY <3>1, <2>3 DEF Newlines
    <3> QED BY <3>1, <3>2, <3>3
  <2>6. Abs!IsNextLine(stream, taken, n)
    <3>1. taken + n + 1 \in DOMAIN stream
      BY <2>2, <2>3
    <3>2. stream[taken + n + 1] = NL
      BY <2>2, <2>3
    <3> QED BY <3>1, <3>2, <2>5 DEF Abs!IsNextLine
  <2>7. TextInBuffer' = Abs!Piece(stream, taken, n)
    <3>1. TextInBuffer' = [i \in 1..n |-> buf'[start + i - 1]]
      BY <2>1 DEF TextInBuffer
    <3>2. ASSUME NEW i \in 1..n
          PROVE  buf'[start + i - 1] = stream[taken + i]
      <4>1. start + i - 1 \in 0..MaxLine /\ start + i - 1 # start + n
        <5>1. start \in Nat /\ n \in Nat /\ MaxLine \in Nat /\ start + n <= MaxLine
          BY <2>2, <2>3, MaxLineAssumption
        <5> QED BY <5>1
      <4>2. buf'[start + i - 1] = buf[start + i - 1]
        BY <4>1, <2>2
      <4> QED BY <4>2, <2>5
    <3> QED BY <3>1, <3>2 DEF Abs!Piece
  <2> QED
    BY <2>1, <2>4, <2>6, <2>7 DEF Abs!ADeliver
<1>8. CASE ExtractPending
  BY <1>8 DEF ExtractPending, TextInBuffer
<1>9. CASE ExtractTooBig
  BY <1>9 DEF ExtractTooBig, Drop, Abs!AClose, TextInBuffer
<1>10. CASE HandleLine
  BY <1>10 DEF HandleLine, Drop, Abs!AHandled, Abs!AClose, TextInBuffer
<1>11. CASE UNCHANGED vars
  BY <1>11 DEF vars, TextInBuffer
<1> QED
  BY <1>1, <1>2, <1>3, <1>4, <1>5, <1>6, <1>7, <1>8, <1>9, <1>10, <1>11 DEF Next

\* The buffered, in-place reader implements the abstract line reader: what
\* the dispatcher reads are the client's lines, each once, in order, intact.
THEOREM ImplementsLineStream == Spec => LineStreamSpec
BY InitRefines, StepRefines, InductiveInvariant, PTL
   DEF Spec, LineStreamSpec, Abs!ASpec
=============================================================================
