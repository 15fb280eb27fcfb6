-------------------------- MODULE NullVideoProofs --------------------------
(***************************************************************************)
(* Proofs about NullVideo, for any ports and formats and any number of    *)
(* changes under way.  The port follows because the device remembers: as  *)
(* long as it reports the format the port last set, a change the port     *)
(* passes over is none.                                                   *)
(***************************************************************************)
EXTENDS NullVideo, TLAPS

\* The device reports what its port expects, the frames have the format of the
\* last change still under way, or the port's if there is none, and no change
\* is under way to a port that is closed.
RemembersAt(p) ==
    /\ Streaming(p) => param[p] = port_fmt[p]
    /\ Streaming(p) /\ changes[p] = <<>> => port_fmt[p] = src_fmt[p]
    /\ changes[p] # <<>> => changes[p][Len(changes[p])] = src_fmt[p]
    /\ ~Streaming(p) => changes[p] = <<>>

Remembers == \A p \in Port : RemembersAt(p)

\* The inductive invariant.
IInv == TypeOK /\ Remembers

\* What was appended is last.
LEMMA AppendLast ==
    ASSUME NEW S, NEW s \in Seq(S), NEW x \in S
    PROVE  Append(s, x) # <<>> /\ Append(s, x)[Len(Append(s, x))] = x
<1>1. Append(s, x) \in Seq(S) /\ Len(Append(s, x)) = Len(s) + 1 /\ Len(s) \in Nat
  OBVIOUS
<1>2. Append(s, x)[Len(s) + 1] = x
  OBVIOUS
<1>3. Len(Append(s, x)) # 0
  BY <1>1
<1>4. Len(<<>>) = 0
  OBVIOUS
<1>5. Append(s, x) # <<>>
  BY <1>3, <1>4
<1> QED
  BY <1>1, <1>2, <1>5

\* Taking the first away leaves the last.
LEMMA TailLast ==
    ASSUME NEW S, NEW s \in Seq(S), Len(s) > 1
    PROVE  Tail(s) # <<>> /\ Tail(s)[Len(Tail(s))] = s[Len(s)]
<1>1. Len(s) \in Nat /\ Len(Tail(s)) = Len(s) - 1 /\ Tail(s) \in Seq(S)
  OBVIOUS
<1>2. Tail(s)[Len(s) - 1] = s[Len(s)]
  BY <1>1
<1>3. Len(Tail(s)) # 0 /\ Len(<<>>) = 0
  BY <1>1
<1>4. Tail(s) # <<>>
  BY <1>3
<1> QED
  BY <1>1, <1>2, <1>4

\* No port is open at first.
LEMMA InitEstablishes == Init => IInv
<1> SUFFICES ASSUME Init PROVE IInv
  OBVIOUS
<1>1. TypeOK
  BY FormatAssumption DEF Init, TypeOK
<1>2. Remembers
  BY DEF Init, Remembers, RemembersAt, Streaming
<1> QED
  BY <1>1, <1>2 DEF IInv

\* Opening, changes, their handling and closing preserve the invariant.
LEMMA StepPreserves == IInv /\ [Next]_vars => IInv'
<1> SUFFICES ASSUME IInv, [Next]_vars PROVE IInv'
  OBVIOUS
<1> USE FormatAssumption DEF IInv, TypeOK
<1>1. ASSUME NEW p \in Port, NEW prm \in Param, CreateStream(p, prm)
      PROVE  IInv'
  <2>1. prm.fmt \in Format
    BY DEF Param, DefaultParam
  <2>2. TypeOK'
    BY <1>1, <2>1 DEF CreateStream
  <2>3. ASSUME NEW q \in Port PROVE RemembersAt(q)'
    BY <1>1, <2>1 DEF CreateStream, Remembers, RemembersAt, Streaming
  <2> QED
    BY <2>2, <2>3 DEF Remembers
<1>2. ASSUME NEW p \in Port, NEW f \in Format, FormatChanges(p, f)
      PROVE  IInv'
  <2>1. TypeOK'
    BY <1>2 DEF FormatChanges
  <2>2. ASSUME NEW q \in Port PROVE RemembersAt(q)'
    <3>1. param' = param /\ port_fmt' = port_fmt /\ Streaming(p)
      BY <1>2 DEF FormatChanges
    <3>2. CASE q = p
      <4>1. changes'[p] = Append(changes[p], f) /\ src_fmt'[p] = f
        BY <1>2 DEF FormatChanges
      <4>2. changes'[p] # <<>> /\ changes'[p][Len(changes'[p])] = f
        BY <4>1, AppendLast
      <4> QED
        BY <3>1, <3>2, <4>1, <4>2 DEF Remembers, RemembersAt, Streaming
    <3>3. CASE q # p
      <4>1. changes'[q] = changes[q] /\ src_fmt'[q] = src_fmt[q]
        BY <1>2, <3>3 DEF FormatChanges
      <4> QED
        BY <3>1, <4>1 DEF Remembers, RemembersAt, Streaming
    <3> QED
      BY <3>2, <3>3
  <2> QED
    BY <2>1, <2>2 DEF Remembers
<1>3. ASSUME NEW p \in Port, HandleFormatChange(p) PROVE IInv'
  <2> DEFINE f == Head(changes[p])
  <2>1. f \in Format /\ changes[p] \in Seq(Format) /\ changes[p] # <<>>
    BY <1>3 DEF HandleFormatChange
  <2>2. TypeOK'
    <3>1. Tail(changes[p]) \in Seq(Format) /\ Len(Tail(changes[p])) < Len(changes[p])
      BY <2>1
    <3>2. \A q \in Port : changes[q] \in Seq(Format) /\ Len(changes[q]) <= MaxEvents
      OBVIOUS
    <3>3. changes' = [changes EXCEPT ![p] = Tail(@)] /\ src_fmt' = src_fmt
      BY <1>3 DEF HandleFormatChange
    <3>4. changes' \in [Port -> Seq(Format)]
      BY <3>1, <3>3
    <3>5. \A q \in Port : Len(changes'[q]) <= MaxEvents
      <4> SUFFICES ASSUME NEW q \in Port PROVE Len(changes'[q]) <= MaxEvents
        OBVIOUS
      <4>1. CASE q = p
        <5>1. changes'[q] = Tail(changes[p])
          BY <3>3, <4>1
        <5>2. Len(changes[p]) \in Nat /\ Len(changes[p]) <= MaxEvents
          BY <3>2
        <5>3. Len(Tail(changes[p])) \in Nat
          BY <3>1
        <5> QED
          BY <3>1, <5>1, <5>2, <5>3
      <4>2. CASE q # p
        BY <3>2, <3>3, <4>2
      <4> QED
        BY <4>1, <4>2
    <3>6. {param', port_fmt', src_fmt'} \subseteq [Port -> Format \cup {NoFormat}]
      <4>1. CASE GetParam(p) = f
        BY <1>3, <4>1 DEF HandleFormatChange
      <4>2. CASE GetParam(p) # f
        <5>1. /\ param' = [param EXCEPT ![p] = f]
              /\ port_fmt' = [port_fmt EXCEPT ![p] = f]
          BY <1>3, <4>2 DEF HandleFormatChange, SetCap
        <5> QED
          BY <2>1, <3>3, <5>1
      <4> QED
        BY <4>1, <4>2
    <3> QED
      BY <3>4, <3>5, <3>6
  <2>3. param'[p] = f /\ port_fmt'[p] = f
    BY <1>3, <2>1
    DEF HandleFormatChange, GetParam, SetCap, Remembers, RemembersAt, Streaming
  <2>4. ASSUME NEW q \in Port PROVE RemembersAt(q)'
    <3>1. CASE q = p
      <4>1. changes'[p] = Tail(changes[p]) /\ src_fmt' = src_fmt
        BY <1>3 DEF HandleFormatChange
      <4>2. CASE Len(changes[p]) = 1
        <5>1. changes'[p] = <<>> /\ f = src_fmt[p]
          BY <2>1, <4>1, <4>2 DEF Remembers, RemembersAt
        <5> QED
          BY <2>1, <2>3, <3>1, <4>1, <5>1 DEF RemembersAt, Streaming
      <4>3. CASE Len(changes[p]) > 1
        <5>1. /\ changes'[p] # <<>>
              /\ changes'[p][Len(changes'[p])] = changes[p][Len(changes[p])]
          BY <2>1, <4>1, <4>3, TailLast
        <5>2. src_fmt'[p] = changes[p][Len(changes[p])] /\ param'[p] # NoFormat
          BY <2>1, <2>3, <4>1 DEF Remembers, RemembersAt
        <5> QED
          BY <2>3, <3>1, <5>1, <5>2 DEF Remembers, RemembersAt, Streaming
      <4>4. Len(changes[p]) \in Nat /\ Len(changes[p]) # 0
        BY <2>1
      <4>5. Len(changes[p]) = 1 \/ Len(changes[p]) > 1
        <5>1. \A n \in Nat : n # 0 => n = 1 \/ n > 1
          OBVIOUS
        <5> QED
          BY <4>4, <5>1
      <4> QED
        BY <4>2, <4>3, <4>5
    <3>2. CASE q # p
      <4>1. /\ param'[q] = param[q] /\ port_fmt'[q] = port_fmt[q]
            /\ src_fmt'[q] = src_fmt[q] /\ changes'[q] = changes[q]
        BY <1>3, <3>2 DEF HandleFormatChange, SetCap
      <4> QED
        BY <4>1 DEF Remembers, RemembersAt, Streaming
    <3> QED
      BY <3>1, <3>2
  <2> QED
    BY <2>2, <2>4 DEF Remembers
<1>4. ASSUME NEW p \in Port, Destroy(p) PROVE IInv'
  <2>1. TypeOK'
    BY <1>4 DEF Destroy
  <2>2. ASSUME NEW q \in Port PROVE RemembersAt(q)'
    BY <1>4 DEF Destroy, Remembers, RemembersAt, Streaming
  <2> QED
    BY <2>1, <2>2 DEF Remembers
<1>5. CASE UNCHANGED vars
  BY <1>5 DEF vars, Remembers, RemembersAt, Streaming
<1> QED
  BY <1>1, <1>2, <1>3, <1>4, <1>5 DEF Next

\* Therefore the invariant always holds.
THEOREM Invariance == Spec => []IInv
<1> QED
  BY InitEstablishes, StepPreserves, PTL DEF Spec

\* null_video_dev.c never holds a format nobody set, nor more than MaxEvents
\* changes under way.
THEOREM TypeCorrect == Spec => []TypeOK
<1>1. IInv => TypeOK
  BY DEF IInv
<1> QED
  BY Invariance, <1>1, PTL

\* stream_set_cap() and stream_get_param(): no history of format changes makes the
\* null renderer the cause of a rejected frame.
THEOREM RendererCorrect == Spec => []RendererFollows
<1>1. IInv => RendererFollows
  BY DEF IInv, Remembers, RemembersAt, RendererFollows
<1> QED
  BY Invariance, <1>1, PTL
=============================================================================
