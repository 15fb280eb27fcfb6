-------------------------- MODULE LineWriterProofs --------------------------
(***************************************************************************)
(* Proofs about LineWriter, for every text of JSON tokens, every buffer   *)
(* size and every timeout: compact_json() leaves exactly the tokens,      *)
(* partial sends put exactly that line on the socket, and send_all()      *)
(* keeps its deadline.                                                    *)
(*                                                                        *)
(* FlattenSeq is defined by recursion.  The library's induction theorems  *)
(* take an operator, which the provers cannot supply; induction over a    *)
(* set of numbers follows from the least-element principle and is enough. *)
(***************************************************************************)
EXTENDS LineWriter, TLAPS, WellFoundedInduction

-----------------------------------------------------------------------------
(* FlattenSeq, with which the text and the line are made of tokens. *)

\* Induction over the natural numbers, for a set instead of a predicate; the
\* lemmas about the printed text's tokens use it.
LEMMA NatSetInduction ==
    ASSUME NEW S, 0 \in S, \A n \in Nat : n \in S => n + 1 \in S
    PROVE  Nat \subseteq S
<1> DEFINE T == Nat \ S
           R == OpToRel(<, Nat)
<1>1. SUFFICES ASSUME T # {} PROVE FALSE
  OBVIOUS
<1>2. IsWellFoundedOn(R, Nat)
  BY NatLessThanWellFounded
<1>3. T \subseteq Nat
  OBVIOUS
<1> HIDE DEF T, R
<1>4. PICK x \in T : \A y \in T : ~(<<y, x>> \in R)
  BY <1>1, <1>2, <1>3, WFMin
<1>5. \A y, z \in Nat : y < z => <<y, z>> \in R
  BY DEF OpToRel, R
<1>6. x - 1 \in T
  BY <1>3 DEF T
<1>7. x \in Nat /\ x - 1 \in Nat /\ x - 1 < x
  BY <1>3, <1>6
<1>8. <<x - 1, x>> \in R
  BY <1>5, <1>7
<1> QED
  BY <1>4, <1>6, <1>8

\* f[j] is the concatenation of the first j members of s.
Flattens(f, s, m) ==
    f = [j \in 1 .. m |-> IF j = 1 THEN s[j] ELSE f[j - 1] \o s[j]]

\* The recursive function in FlattenSeq, which makes a text of tokens, exists.
LEMMA FlattenExists ==
    ASSUME NEW s, NEW m \in Nat
    PROVE  \E f : Flattens(f, s, m)
<1> DEFINE S == {n \in Nat : \E f : Flattens(f, s, n)}
<1>1. 0 \in S
  <2>1. Flattens([j \in 1 .. 0 |-> 0], s, 0)
    BY DEF Flattens
  <2> QED
    BY <2>1
<1>2. ASSUME NEW n \in Nat, n \in S PROVE n + 1 \in S
  <2>1. PICK f : Flattens(f, s, n)
    BY <1>2
  <2> DEFINE g == [j \in 1 .. n + 1 |-> IF j = 1 THEN s[j] ELSE f[j - 1] \o s[j]]
  <2>2. ASSUME NEW j \in 1 .. n PROVE g[j] = f[j]
    <3>1. f[j] = IF j = 1 THEN s[j] ELSE f[j - 1] \o s[j]
      BY <2>1, Zenon DEF Flattens
    <3>2. j \in 1 .. n + 1
      OBVIOUS
    <3>3. g[j] = IF j = 1 THEN s[j] ELSE f[j - 1] \o s[j]
      BY <3>2, Zenon
    <3> QED
      BY <3>1, <3>3, Zenon
  <2>3. ASSUME NEW j \in 1 .. n + 1
        PROVE  (IF j = 1 THEN s[j] ELSE f[j - 1] \o s[j])
                 = (IF j = 1 THEN s[j] ELSE g[j - 1] \o s[j])
    <3> HIDE DEF g
    <3>1. j # 1 => j - 1 \in 1 .. n
      OBVIOUS
    <3> QED
      BY <2>2, <3>1, Zenon
  <2>4. Flattens(g, s, n + 1)
    BY <2>3, Zenon DEF Flattens
  <2> QED
    BY <2>4
<1> HIDE DEF S
<1>3. Nat \subseteq S
  BY <1>1, <1>2, NatSetInduction
<1> QED
  BY <1>3 DEF S

\* FlattenSeq, which makes a text of tokens, is the last value of that function.
LEMMA FlattenUnfold ==
    ASSUME NEW s, Len(s) \in Nat, Len(s) # 0
    PROVE  \E f : Flattens(f, s, Len(s)) /\ FlattenSeq(s) = f[Len(s)]
<1> DEFINE g == CHOOSE f :
              f = [j \in 1 .. Len(s) |-> IF j = 1 THEN s[j] ELSE f[j - 1] \o s[j]]
<1>1. \E f : f = [j \in 1 .. Len(s) |-> IF j = 1 THEN s[j] ELSE f[j - 1] \o s[j]]
  BY FlattenExists DEF Flattens
<1>2. g = [j \in 1 .. Len(s) |-> IF j = 1 THEN s[j] ELSE g[j - 1] \o s[j]]
  BY <1>1, Zenon
<1>3. FlattenSeq(s) = g[Len(s)]
  BY Zenon DEF FlattenSeq
<1> QED
  BY <1>2, <1>3 DEF Flattens

\* What is made of the first n tokens of a text depends on nothing else.
LEMMA FlattenAgree ==
    ASSUME NEW f, NEW s, NEW m \in Nat, Flattens(f, s, m),
           NEW g, NEW t, NEW n \in Nat, Flattens(g, t, n),
           n <= m, \A j \in 1 .. n : s[j] = t[j]
    PROVE  \A j \in 1 .. n : f[j] = g[j]
<1> DEFINE S == {l \in Nat : \A j \in 1 .. n : j <= l => f[j] = g[j]}
<1>1. 0 \in S
  OBVIOUS
<1>2. ASSUME NEW l \in Nat, l \in S PROVE l + 1 \in S
  <2> SUFFICES ASSUME l + 1 \in 1 .. n PROVE f[l + 1] = g[l + 1]
    BY <1>2
  <2> DEFINE a == l + 1
  <2>1. a \in 1 .. m /\ a \in 1 .. n /\ (a # 1 => f[a - 1] = g[a - 1])
    BY <1>2
  <2> HIDE DEF a
  <2>2. f[a] = IF a = 1 THEN s[a] ELSE f[a - 1] \o s[a]
    BY <2>1, Zenon DEF Flattens
  <2>3. g[a] = IF a = 1 THEN t[a] ELSE g[a - 1] \o t[a]
    BY <2>1, Zenon DEF Flattens
  <2>4. s[a] = t[a]
    BY <2>1
  <2>5. f[a] = g[a]
    BY <2>1, <2>2, <2>3, <2>4, Zenon
  <2> QED
    BY <2>5 DEF a
<1> HIDE DEF S
<1>3. Nat \subseteq S
  BY <1>1, <1>2, NatSetInduction
<1> QED
  BY <1>3 DEF S

\* A text grows token by token.
LEMMA FlattenStep ==
    ASSUME NEW B, NEW t \in Seq(Seq(B)), NEW u \in Seq(Seq(B)), NEW h \in Nat,
           NEW k \in Nat, k = h + 1, Len(t) = k, Len(u) = h,
           \A j \in 1 .. h : t[j] = u[j]
    PROVE  FlattenSeq(t) = FlattenSeq(u) \o t[k]
<1>1. k # 0 /\ k \in 1 .. k /\ k - 1 = h /\ t[k] \in Seq(B)
  OBVIOUS
<1>2. PICK f : Flattens(f, t, k) /\ FlattenSeq(t) = f[k]
  BY <1>1, FlattenUnfold
<1>3. f[k] = IF k = 1 THEN t[k] ELSE f[h] \o t[k]
  BY <1>1, <1>2, Zenon DEF Flattens
<1>4. CASE h = 0
  <2>1. u = <<>> /\ k = 1
    BY <1>4
  <2>2. FlattenSeq(u) = <<>>
    BY <2>1 DEF FlattenSeq
  <2>3. <<>> \o t[k] = t[k]
    BY <1>1
  <2> QED
    BY <1>2, <1>3, <2>1, <2>2, <2>3, Zenon
<1>5. CASE h # 0
  <2>1. k # 1 /\ h <= k /\ h <= h /\ h \in 1 .. h
    BY <1>5
  <2>2. PICK g : Flattens(g, u, h) /\ FlattenSeq(u) = g[h]
    BY <1>5, FlattenUnfold
  <2>3. \A j \in 1 .. h : f[j] = g[j]
    BY <1>2, <2>1, <2>2, FlattenAgree
  <2> QED
    BY <1>2, <1>3, <2>1, <2>2, <2>3, Zenon
<1> QED
  BY <1>4, <1>5

\* What the first k tokens of s make.
First(s, k) == FlattenSeq(SubSeq(s, 1, k))

\* The text of the first k tokens, and how it grows.
LEMMA FirstTyped ==
    ASSUME NEW B, NEW s \in Seq(Seq(B))
    PROVE  /\ First(s, 0) = <<>>
           /\ \A k \in 0 .. Len(s) : First(s, k) \in Seq(B)
           /\ \A k \in 0 .. Len(s) - 1 : First(s, k + 1) = First(s, k) \o s[k + 1]
           /\ First(s, Len(s)) = FlattenSeq(s)
<1>1. First(s, 0) = <<>>
  <2>1. SubSeq(s, 1, 0) = <<>>
    OBVIOUS
  <2> QED
    BY <2>1 DEF First, FlattenSeq
<1>2. ASSUME NEW h \in 0 .. Len(s) - 1
      PROVE  First(s, h + 1) = First(s, h) \o s[h + 1]
  <2> DEFINE k == h + 1
             t == SubSeq(s, 1, k)
             u == SubSeq(s, 1, h)
  <2>1. h \in Nat /\ k \in Nat /\ k = h + 1 /\ k <= Len(s) /\ h <= Len(s)
    OBVIOUS
  <2> HIDE DEF k
  <2>2. t \in Seq(Seq(B)) /\ Len(t) = k /\ (\A j \in 1 .. k : t[j] = s[j])
    BY <2>1
  <2>3. u \in Seq(Seq(B)) /\ Len(u) = h /\ (\A j \in 1 .. h : u[j] = s[j])
    BY <2>1
  <2> HIDE DEF t, u
  <2>4. \A j \in 1 .. h : t[j] = u[j]
    <3>1. \A j \in 1 .. h : j \in 1 .. k
      BY <2>1
    <3> QED
      BY <2>2, <2>3, <3>1, Zenon
  <2>5. FlattenSeq(t) = FlattenSeq(u) \o t[k]
    BY <2>1, <2>2, <2>3, <2>4, FlattenStep
  <2>6. t[k] = s[k]
    BY <2>1, <2>2
  <2> QED
    BY <2>5, <2>6, Zenon DEF First, k, t, u
<1>3. \A k \in 0 .. Len(s) : First(s, k) \in Seq(B)
  <2> DEFINE S == {k \in Nat : k <= Len(s) => First(s, k) \in Seq(B)}
  <2>1. 0 \in S
    <3>1. <<>> \in Seq(B)
      OBVIOUS
    <3> QED
      BY <1>1, <3>1
  <2>2. ASSUME NEW k \in Nat, k \in S PROVE k + 1 \in S
    <3> SUFFICES ASSUME k + 1 <= Len(s) PROVE First(s, k + 1) \in Seq(B)
      OBVIOUS
    <3>1. First(s, k) \in Seq(B) /\ s[k + 1] \in Seq(B)
      BY <2>2
    <3>2. First(s, k + 1) = First(s, k) \o s[k + 1]
      BY <1>2
    <3>3. \A x, y \in Seq(B) : x \o y \in Seq(B)
      OBVIOUS
    <3> QED
      BY <3>1, <3>2, <3>3, Zenon
  <2> HIDE DEF S
  <2>3. Nat \subseteq S
    BY <2>1, <2>2, NatSetInduction
  <2> QED
    BY <2>3 DEF S
<1>4. First(s, Len(s)) = FlattenSeq(s)
  <2>1. SubSeq(s, 1, Len(s)) = s
    OBVIOUS
  <2> QED
    BY <2>1 DEF First
<1> QED
  BY <1>1, <1>2, <1>3, <1>4

\* The text of the first tokens is the beginning of the text.
LEMMA FirstIsPrefix ==
    ASSUME NEW B, NEW s \in Seq(Seq(B)), NEW k \in 0 .. Len(s), NEW m \in k .. Len(s)
    PROVE  /\ Len(First(s, k)) <= Len(First(s, m))
           /\ \A j \in 1 .. Len(First(s, k)) : First(s, m)[j] = First(s, k)[j]
<1> DEFINE P(x) == /\ Len(First(s, k)) <= Len(First(s, x))
                   /\ \A j \in 1 .. Len(First(s, k)) : First(s, x)[j] = First(s, k)[j]
           S == {n \in Nat : k + n <= Len(s) => P(k + n)}
<1>1. 0 \in S
  <2>1. Len(First(s, k)) \in Nat /\ k + 0 = k
    BY FirstTyped
  <2> QED
    BY <2>1
<1>2. ASSUME NEW n \in Nat, n \in S PROVE n + 1 \in S
  <2> SUFFICES ASSUME k + (n + 1) <= Len(s) PROVE P(k + (n + 1))
    OBVIOUS
  <2> DEFINE x == First(s, k)
             y == First(s, k + n)
             z == First(s, k + (n + 1))
             w == s[(k + n) + 1]
  <2>1. /\ k + n \in 0 .. Len(s) - 1 /\ k + n \in 0 .. Len(s)
        /\ (k + n) + 1 = k + (n + 1) /\ (k + n) + 1 \in 1 .. Len(s)
    OBVIOUS
  <2>2. x \in Seq(B) /\ y \in Seq(B) /\ w \in Seq(B)
    BY <2>1, FirstTyped
  <2>3. z = y \o w
    BY <2>1, FirstTyped
  <2>4. Len(x) <= Len(y) /\ \A j \in 1 .. Len(x) : y[j] = x[j]
    BY <1>2, <2>1
  <2> HIDE DEF x, y, z, w
  <2>5. Len(z) = Len(y) + Len(w) /\ \A j \in 1 .. Len(y) : z[j] = y[j]
    BY <2>2, <2>3
  <2>6. Len(x) <= Len(z) /\ \A j \in 1 .. Len(x) : z[j] = x[j]
    BY <2>2, <2>4, <2>5
  <2> QED
    BY <2>6 DEF x, z
<1> HIDE DEF S
<1>3. m - k \in S
  <2>1. Nat \subseteq S
    BY <1>1, <1>2, NatSetInduction
  <2> QED
    BY <2>1
<1>4. k + (m - k) = m
  OBVIOUS
<1> QED
  BY <1>3, <1>4 DEF S

\* The byte of the text that compact_json() reads next, when it has read k
\* tokens and o bytes of another one.
LEMMA TextByte ==
    ASSUME NEW B, NEW s \in Seq(Seq(B)), NEW k \in 0 .. Len(s) - 1,
           NEW o \in 0 .. Len(s[k + 1]) - 1
    PROVE  /\ (Len(First(s, k)) + o) + 1 <= Len(FlattenSeq(s))
           /\ FlattenSeq(s)[(Len(First(s, k)) + o) + 1] = s[k + 1][o + 1]
<1> DEFINE x == First(s, k)
           w == s[k + 1]
           z == First(s, k + 1)
           T == FlattenSeq(s)
<1>1. k \in 0 .. Len(s) /\ k + 1 \in 0 .. Len(s) /\ Len(s) \in (k + 1) .. Len(s)
  OBVIOUS
<1>2. x \in Seq(B) /\ w \in Seq(B) /\ z = x \o w /\ T = First(s, Len(s))
  BY <1>1, FirstTyped
<1>3. /\ Len(z) <= Len(First(s, Len(s)))
      /\ \A j \in 1 .. Len(z) : First(s, Len(s))[j] = z[j]
  BY <1>1, FirstIsPrefix
<1>4. o \in 0 .. Len(w) - 1
  OBVIOUS
<1>7. T \in Seq(B)
  BY <1>1, <1>2, FirstTyped
<1> HIDE DEF x, w, z, T
<1>5. Len(z) = Len(x) + Len(w) /\ z[(Len(x) + o) + 1] = w[o + 1]
  BY <1>2, <1>4
<1>6. (Len(x) + o) + 1 \in 1 .. Len(z)
  BY <1>2, <1>4, <1>5
<1>8. T[(Len(x) + o) + 1] = z[(Len(x) + o) + 1]
  BY <1>2, <1>3, <1>6
<1>9. (Len(x) + o) + 1 <= Len(T)
  BY <1>2, <1>3, <1>6, <1>7
<1> QED
  BY <1>5, <1>8, <1>9 DEF x, w, z, T

-----------------------------------------------------------------------------
(* compact_json(). *)

\* A text that pj_json_write() may print.
IsText(d) == d \in Seq(Seq(Bytes)) /\ \A n \in 1 .. Len(d) : IsToken(d[n])

\* Where the escapes of a string begin.
Escape(t) == CHOOSE E \in SUBSET (2 .. Len(t) - 1) : Escapes(t, E)

\* A string's escapes are where Escapes says.
LEMMA EscapeOfString ==
    ASSUME NEW t, IsString(t)
    PROVE  Escape(t) \in SUBSET (2 .. Len(t) - 1) /\ Escapes(t, Escape(t))
  BY Zenon DEF IsString, Escape

\* The in_string and escaped flags of compact_json(), after o bytes of token t
\* and the next one: the bytes alone tell where the token ends, which bytes of
\* it are escaped, and that layout and nothing else is dropped.
LEMMA FlagsFollowToken ==
    ASSUME NEW t \in Seq(Bytes), IsToken(t), NEW o \in Nat, o < Len(t),
           in_string \in BOOLEAN, escaped \in BOOLEAN,
           in_string <=> o > 0, escaped <=> (o > 0 /\ o \in Escape(t)),
           InString(t[o + 1])
    PROVE  /\ Kept(t[o + 1]) <=> ~IsLayout(t)
           /\ IsLayout(t) => Len(t) = 1
           /\ in_string' \in BOOLEAN /\ escaped' \in BOOLEAN
           /\ in_string' <=> o + 1 < Len(t)
           /\ escaped' <=> (o + 1 < Len(t) /\ o + 1 \in Escape(t))
<1> USE DEF Quote, Backslash, Space, Newline, Byte, White
<1> DEFINE c == t[o + 1]
<1>1. CASE t \in {<<Space>>, <<Newline>>, <<Byte>>}
  <2>1. Len(t) = 1 /\ o = 0 /\ c = t[1] /\ c # Quote
    BY <1>1
  <2> QED
    BY <2>1 DEF InString, Kept, IsLayout
<1>2. CASE IsString(t)
  <2> DEFINE E == Escape(t)
             n == o + 1
  <2>1. /\ Len(t) \in Nat /\ Len(t) >= 2 /\ t[1] = Quote /\ t[Len(t)] = Quote
        /\ E \subseteq 2 .. Len(t) - 1 /\ Escapes(t, E)
    BY <1>2, EscapeOfString DEF IsString
  <2> HIDE DEF E
  <2>2. ~IsLayout(t) /\ Kept(c)
    <3>1. o = 0 => c = Quote
      BY <2>1
    <3> QED
      BY <2>1, <3>1 DEF IsLayout, Kept
  <2>3. o \in E => o + 1 < Len(t)
    <3> SUFFICES ASSUME o \in E PROVE o + 1 < Len(t)
      OBVIOUS
    <3>1. o \in 2 .. Len(t) - 1
      BY <2>1
    <3> QED
      BY <2>1, <3>1 DEF Escapes
  <2>4. (escaped <=> o \in E) /\ 0 \notin E
    BY <2>1 DEF E
  <2>5. CASE o = 0
    <3>1. c = Quote /\ ~in_string /\ ~escaped /\ n < Len(t) /\ n \notin E
      BY <2>1, <2>4, <2>5
    <3>2. in_string' = TRUE /\ escaped' = FALSE
      BY <3>1 DEF InString
    <3> QED
      BY <2>2, <3>1, <3>2 DEF E
  <2>6. CASE o > 0 /\ n = Len(t)
    <3>1. c = Quote /\ in_string /\ ~escaped
      BY <2>1, <2>3, <2>4, <2>6
    <3>2. in_string' = FALSE /\ escaped' = FALSE
      BY <3>1 DEF InString
    <3>3. ~(o + 1 < Len(t))
      BY <2>1, <2>6
    <3> QED
      BY <2>2, <3>2, <3>3, Zenon
  <2>7. CASE o > 0 /\ n < Len(t)
    <3>1. n \in 2 .. Len(t) - 1 /\ n - 1 = o
      BY <2>1, <2>7
    <3> HIDE DEF n
    <3>2. IF n \in E
          THEN c = Backslash /\ n + 1 \notin E
          ELSE o \in E \/ c \notin {Quote, Backslash}
      BY <2>1, <3>1 DEF Escapes, n
    <3>3. o \in E => n \notin E
      <4> SUFFICES ASSUME o \in E PROVE n \notin E
        OBVIOUS
      <4>1. o \in 2 .. Len(t) - 1
        BY <2>1
      <4> QED
        BY <2>1, <4>1 DEF Escapes, n
    <3> HIDE DEF c
    <3>4. in_string' = TRUE
      BY <2>4, <2>7, <3>2 DEF InString, c
    <3>5. escaped' = (c = Backslash /\ ~escaped)
      BY <2>7 DEF InString, c
    <3>6. escaped' \in BOOLEAN /\ (escaped' <=> n \in E)
      BY <2>4, <3>2, <3>3, <3>5
    <3> QED
      BY <2>2, <2>7, <3>4, <3>6 DEF n, E, c
  <2> QED
    BY <2>1, <2>5, <2>6, <2>7
<1> QED
  BY <1>1, <1>2 DEF IsToken

\* The tokens of a text but the layout are a text's tokens, none longer.
LEMMA StrippedTyped ==
    ASSUME NEW d, IsText(d)
    PROVE  /\ Stripped(d) \in Seq(Seq(Bytes)) /\ Len(Stripped(d)) = Len(d)
           /\ \A n \in 1 .. Len(d) :
                Stripped(d)[n] = IF IsLayout(d[n]) THEN <<>> ELSE d[n]
<1>1. Len(d) \in Nat /\ \A n \in 1 .. Len(d) : d[n] \in Seq(Bytes)
  BY DEF IsText
<1>2. \A n \in 1 .. Len(d) : (IF IsLayout(d[n]) THEN <<>> ELSE d[n]) \in Seq(Bytes)
  <2>1. <<>> \in Seq(Bytes)
    OBVIOUS
  <2> QED
    BY <1>1, <2>1, Zenon
<1>3. Stripped(d) \in [1 .. Len(d) -> Seq(Bytes)]
  BY <1>2, Zenon DEF Stripped
<1>4. Stripped(d) \in Seq(Seq(Bytes)) /\ Len(Stripped(d)) = Len(d)
  BY <1>1, <1>3
<1> QED
  BY <1>4, Zenon DEF Stripped

-----------------------------------------------------------------------------
(* The inductive invariant. *)

\* The variables of write_json(), compact_json() and send_all(), and the order
\* of compact_json()'s indices.
Shape ==
    /\ doc \in Doc
    /\ pc \in {"json", "compact", "send", "wait", "ok", "failed"}
    /\ buf \in Seq(Bytes) /\ i \in Nat /\ out \in Nat
    /\ out <= i /\ i <= Len(buf)
    /\ in_string \in BOOLEAN /\ escaped \in BOOLEAN
    /\ part \in {"body", "newline"}
    /\ sent \in Nat /\ start \in Nat /\ now \in Nat

\* compact_json() has read k tokens and o bytes of the next one, has kept those
\* tokens but the layout and those bytes, and knows whether it is in a string
\* and behind an escape.
Scanned(k, o) ==
    /\ i = Len(First(doc, k)) + o
    /\ IF k = Len(doc) THEN o = 0 ELSE o < Len(doc[k + 1])
    /\ out = Len(First(Stripped(doc), k)) + o
    /\ \A j \in 1 .. Len(First(Stripped(doc), k)) :
         buf[j] = First(Stripped(doc), k)[j]
    /\ \A j \in 1 .. o : buf[Len(First(Stripped(doc), k)) + j] = doc[k + 1][j]
    /\ in_string <=> o > 0
    /\ escaped <=> (o > 0 /\ o \in Escape(doc[k + 1]))

\* Before and in the loop of compact_json(): what it has not read yet is still
\* the text.
Compacting ==
    /\ pc = "json" => i = 0 /\ out = 0 /\ ~in_string /\ ~escaped
    /\ pc = "compact" =>
        /\ Len(buf) = Len(FlattenSeq(doc))
        /\ \A j \in 1 .. Len(buf) : j > i => buf[j] = FlattenSeq(doc)[j]
        /\ \E k \in 0 .. Len(doc), o \in Nat : Scanned(k, o)

\* What compact_json() has left.
Compacted ==
    pc \in {"send", "wait", "ok"} => SubSeq(buf, 1, out) = FlattenSeq(Stripped(doc))

\* How much of the line write_line() has sent: the bytes on the socket are
\* those, once each and in order.
Done == IF part = "body" THEN sent ELSE out + sent
Delivered ==
    /\ wire = SubSeq(Line(doc), 1, Done) /\ Done <= Len(Line(doc))
    /\ pc \in {"json", "compact"} => part = "body" /\ sent = 0
    /\ pc = "ok" => Done = Len(Line(doc))

\* send_all() is called at time zero for the body, and in time for the newline;
\* every wait ends at the same deadline.
InTime ==
    /\ pc \in {"json", "compact"} => now = 0 /\ start = 0
    /\ part = "body" => start = 0
    /\ start <= Timeout /\ start <= now /\ now <= start + Timeout
    /\ pc = "wait" => until = start + Timeout

IInv == Shape /\ Compacting /\ Compacted /\ Delivered /\ InTime

-----------------------------------------------------------------------------
\* What is printed is a text, and the line made of it is a sequence of bytes.
LEMMA DocIsText ==
    ASSUME NEW d \in Doc
    PROVE  /\ IsText(d) /\ FlattenSeq(d) \in Seq(Bytes)
           /\ FlattenSeq(Stripped(d)) \in Seq(Bytes) /\ Line(d) \in Seq(Bytes)
           /\ Len(Line(d)) = Len(FlattenSeq(Stripped(d))) + 1
<1>1. d \in Seq(Seq(Bytes)) /\ \A n \in DOMAIN d : IsToken(d[n])
  BY DocAssumption
<1>2. DOMAIN d = 1 .. Len(d) /\ Len(d) \in Nat
  BY <1>1
<1>3. IsText(d)
  BY <1>1, <1>2, Zenon DEF IsText
<1>4. FlattenSeq(d) \in Seq(Bytes)
  <2>1. Len(d) \in 0 .. Len(d)
    BY <1>2
  <2>2. First(d, Len(d)) \in Seq(Bytes) /\ First(d, Len(d)) = FlattenSeq(d)
    BY <1>1, <2>1, FirstTyped
  <2> QED
    BY <2>2
<1>5. FlattenSeq(Stripped(d)) \in Seq(Bytes)
  <2>1. Stripped(d) \in Seq(Seq(Bytes)) /\ Len(Stripped(d)) \in 0 .. Len(Stripped(d))
    BY <1>2, <1>3, StrippedTyped
  <2>2. /\ First(Stripped(d), Len(Stripped(d))) \in Seq(Bytes)
        /\ First(Stripped(d), Len(Stripped(d))) = FlattenSeq(Stripped(d))
    BY <2>1, FirstTyped
  <2> QED
    BY <2>2
<1>6. <<Newline>> \in Seq(Bytes) /\ Len(<<Newline>>) = 1
  BY DEF Bytes, White
<1>7. Line(d) \in Seq(Bytes) /\ Len(Line(d)) = Len(FlattenSeq(Stripped(d))) + 1
  <2> DEFINE f == FlattenSeq(Stripped(d))
             w == <<Newline>>
  <2>1. f \in Seq(Bytes) /\ w \in Seq(Bytes) /\ Len(w) = 1
    BY <1>5, <1>6
  <2> HIDE DEF f, w
  <2>2. f \o w \in Seq(Bytes) /\ Len(f \o w) = Len(f) + 1
    <3>1. \A a, b \in Seq(Bytes) :
            a \o b \in Seq(Bytes) /\ Len(a \o b) = Len(a) + Len(b)
      OBVIOUS
    <3> QED
      BY <2>1, <3>1, Zenon
  <2> QED
    BY <2>2 DEF f, w, Line
<1> QED
  BY <1>3, <1>4, <1>5, <1>7

\* One turn of compact_json()'s loop: it reads on in its token, or comes to the
\* beginning of the next one.
LEMMA ScanByte ==
    ASSUME Shape, Compacting, CompactByte
    PROVE  Shape' /\ Compacting'
<1> DEFINE T == FlattenSeq(doc)
           Q == Stripped(doc)
<1>1. /\ pc = "compact" /\ pc' = pc /\ doc' = doc /\ i < Len(buf) /\ i' = i + 1
      /\ UNCHANGED <<sendVars, now>>
  BY DEF CompactByte
<1>2. IsText(doc) /\ T \in Seq(Bytes)
  BY DocIsText DEF Shape
<1>3. /\ doc \in Seq(Seq(Bytes)) /\ Len(doc) \in Nat
      /\ Q \in Seq(Seq(Bytes)) /\ Len(Q) = Len(doc)
  BY <1>2, StrippedTyped DEF IsText
<1>4. PICK k \in 0 .. Len(doc), o \in Nat : Scanned(k, o)
  BY <1>1 DEF Compacting
<1> DEFINE x == First(doc, k)
           y == First(Q, k)
<1>5. x \in Seq(Bytes) /\ y \in Seq(Bytes)
  BY <1>3, FirstTyped
<1>6. Len(buf) = Len(T) /\ \A j \in 1 .. Len(buf) : j > i => buf[j] = T[j]
  BY <1>1 DEF Compacting
<1>7. k # Len(doc)
  <2> SUFFICES ASSUME k = Len(doc) PROVE FALSE
    OBVIOUS
  <2>1. x = T
    BY <1>3, FirstTyped
  <2>2. i = Len(x)
    BY <1>4, <1>5 DEF Scanned
  <2> QED
    BY <1>1, <1>2, <1>6, <2>1, <2>2
<1> DEFINE t == doc[k + 1]
           c == buf[i + 1]
           K == k + 1
<1>8. K \in 1 .. Len(doc) /\ K \in 0 .. Len(doc) /\ k \in 0 .. Len(doc) - 1
  BY <1>3, <1>7
<1>9. t \in Seq(Bytes) /\ IsToken(t) /\ o < Len(t) /\ Len(t) \in Nat
  <2>1. o < Len(t)
    BY <1>4, <1>7 DEF Scanned
  <2>2. t \in Seq(Bytes)
    BY <1>3, <1>8
  <2> QED
    BY <1>2, <1>8, <2>1, <2>2 DEF IsText
<1>10. c = t[o + 1] /\ c \in Bytes
  <2>1. i = Len(x) + o
    BY <1>4 DEF Scanned
  <2>2. o \in 0 .. Len(t) - 1
    BY <1>9
  <2>3. T[(Len(x) + o) + 1] = t[o + 1]
    BY <1>3, <1>8, <2>2, TextByte
  <2>4. c = T[i + 1] /\ c \in Bytes
    BY <1>1, <1>6 DEF Shape
  <2> QED
    BY <2>1, <2>3, <2>4
<1>11. /\ i = Len(x) + o /\ out = Len(y) + o
       /\ \A j \in 1 .. Len(y) : buf[j] = y[j]
       /\ \A j \in 1 .. o : buf[Len(y) + j] = t[j]
       /\ in_string <=> o > 0
       /\ escaped <=> (o > 0 /\ o \in Escape(t))
  BY <1>4 DEF Scanned
<1>12. /\ Kept(c) <=> ~IsLayout(t)
       /\ IsLayout(t) => Len(t) = 1
       /\ in_string' \in BOOLEAN /\ escaped' \in BOOLEAN
       /\ in_string' <=> o + 1 < Len(t)
       /\ escaped' <=> (o + 1 < Len(t) /\ o + 1 \in Escape(t))
  <2>1. InString(c)
    BY DEF CompactByte
  <2>2. in_string \in BOOLEAN /\ escaped \in BOOLEAN
    BY DEF Shape
  <2>3. InString(t[o + 1])
    BY <1>10, <2>1
  <2>4. /\ Kept(t[o + 1]) <=> ~IsLayout(t)
        /\ IsLayout(t) => Len(t) = 1
        /\ in_string' \in BOOLEAN /\ escaped' \in BOOLEAN
        /\ in_string' <=> o + 1 < Len(t)
        /\ escaped' <=> (o + 1 < Len(t) /\ o + 1 \in Escape(t))
    <3> HIDE DEF t
    <3> QED
      BY <1>9, <1>11, <2>2, <2>3, FlagsFollowToken
  <2> QED
    BY <1>10, <2>4
<1>13. /\ out' = (IF Kept(c) THEN out + 1 ELSE out)
       /\ buf' = (IF Kept(c) THEN [buf EXCEPT ![out + 1] = c] ELSE buf)
  BY DEF CompactByte
<1> HIDE DEF T, Q, x, y, t, c, K
<1>14. out + 1 \in 1 .. Len(buf) /\ out <= i
  BY <1>1 DEF Shape
<1>behind. \A n \in 1 .. o : Len(y) + n \in 1 .. Len(buf) /\ Len(y) + n # out + 1
  <2>1. /\ Len(y) \in Nat /\ Len(buf) \in Nat /\ out \in Nat
        /\ out = Len(y) + o /\ out + 1 <= Len(buf)
    BY <1>5, <1>11, <1>14 DEF Shape
  <2> DEFINE a == Len(y)  b == Len(buf)
  <2> HIDE DEF a, b
  <2>2. \A n \in 1 .. o : a + n \in 1 .. b /\ a + n # out + 1
    BY <2>1 DEF a, b
  <2> QED
    BY <2>2 DEF a, b
<1>15. /\ buf' \in Seq(Bytes) /\ Len(buf') = Len(buf)
       /\ \A j \in 1 .. Len(buf) : j # out + 1 => buf'[j] = buf[j]
       /\ Kept(c) => buf'[out + 1] = c
  <2>1. buf \in Seq(Bytes)
    BY DEF Shape
  <2>2. CASE Kept(c)
    BY <1>10, <1>13, <1>14, <2>1, <2>2
  <2>3. CASE ~Kept(c)
    BY <1>13, <2>1, <2>3
  <2> QED
    BY <2>2, <2>3
<1>16. Shape'
  <2>1. /\ i' \in Nat /\ out' \in Nat /\ out' <= i' /\ i' <= Len(buf')
    BY <1>1, <1>13, <1>15 DEF Shape
  <2> QED
    BY <1>1, <1>12, <1>15, <2>1 DEF Shape, sendVars
<1>17. /\ Len(buf') = Len(T)
       /\ \A j \in 1 .. Len(buf') : j > i' => buf'[j] = T[j]
  <2>1. ASSUME NEW j \in 1 .. Len(buf), j > i + 1 PROVE buf'[j] = T[j]
    <3>1. j # out + 1 /\ j > i
      BY <1>14, <2>1 DEF Shape
    <3>2. buf'[j] = buf[j]
      BY <1>15, <3>1
    <3> QED
      BY <1>6, <3>1, <3>2
  <2> QED
    BY <1>1, <1>6, <1>15, <2>1
<1>18. CASE o + 1 < Len(t)
  <2>1. Kept(c) /\ out' = out + 1
    <3>1. ~IsLayout(t)
      BY <1>9, <1>12, <1>18
    <3> QED
      BY <1>12, <1>13, <3>1, Zenon
  <2>2. \A j \in 1 .. Len(y) : buf'[j] = y[j]
    <3>1. \A j \in 1 .. Len(y) : j \in 1 .. Len(buf) /\ j # out + 1
      BY <1>5, <1>11, <1>14 DEF Shape
    <3> QED
      BY <1>11, <1>15, <3>1, Zenon
  <2>3. ASSUME NEW j \in 1 .. o + 1 PROVE buf'[Len(y) + j] = t[j]
    <3>1. CASE j = o + 1
      <4>1. Len(y) + j = out + 1
        BY <1>5, <1>11, <3>1
      <4> QED
        BY <1>10, <1>15, <2>1, <3>1, <4>1
    <3>2. CASE j # o + 1
      <4>1. /\ j \in 1 .. o /\ Len(y) + j \in 1 .. Len(buf) /\ Len(y) + j # out + 1
        <5>1. j \in 1 .. o
          BY <3>2
        <5> QED
          BY <1>behind, <5>1
      <4> QED
        BY <1>11, <1>15, <4>1, Zenon
    <3> QED
      BY <3>1, <3>2
  <2>4. i' = Len(x) + (o + 1) /\ out' = Len(y) + (o + 1) /\ o + 1 \in Nat /\ o + 1 > 0
    <3>1. Len(x) \in Nat /\ Len(y) \in Nat
      BY <1>5
    <3>2. i' = i + 1 /\ out' = out + 1
      BY <1>1, <2>1
    <3> QED
      BY <1>11, <3>1, <3>2
  <2>5. Scanned(k, o + 1)'
    BY <1>1, <1>7, <1>12, <1>18, <2>2, <2>3, <2>4 DEF Scanned, x, y, t, Q
  <2> QED
    BY <1>1, <1>16, <1>17, <2>4, <2>5 DEF Compacting, T
<1>19. CASE o + 1 = Len(t)
  <2> DEFINE xx == First(doc, K)
             yy == First(Q, K)
             q == Q[K]
  <2>1. xx = x \o t /\ yy = y \o q
    BY <1>3, <1>8, FirstTyped DEF K, x, y, t
  <2>2. q = IF IsLayout(t) THEN <<>> ELSE t
    BY <1>2, <1>8, StrippedTyped DEF K, t, Q
  <2> HIDE DEF xx, yy, q
  <2>3. Len(xx) = Len(x) + Len(t)
    BY <1>5, <1>9, <2>1
  <2>4. i' = Len(xx)
    BY <1>1, <1>5, <1>9, <1>11, <1>19, <2>3
  <2>5. out' = Len(yy) /\ \A j \in 1 .. Len(yy) : buf'[j] = yy[j]
    <3>1. CASE IsLayout(t)
      <4>1. yy = y /\ o = 0 /\ ~Kept(c)
        <5>1. q = <<>> /\ ~Kept(c)
          BY <1>12, <2>2, <3>1, Zenon
        <5>2. y \o <<>> = y
          BY <1>5
        <5>3. o = 0
          <6>1. Len(t) = 1
            BY <1>12, <3>1, Zenon
          <6> QED
            BY <1>19, <6>1
        <5> QED
          BY <2>1, <5>1, <5>2, <5>3, Zenon
      <4>2. buf' = buf /\ out' = out
        BY <1>13, <4>1
      <4> QED
        BY <1>5, <1>11, <4>1, <4>2
    <3>2. CASE ~IsLayout(t)
      <4>1. yy = y \o t /\ Kept(c) /\ out' = out + 1
        BY <1>12, <1>13, <2>1, <2>2, <3>2, Zenon
      <4>2. Len(yy) = Len(y) + Len(t) /\ out' = Len(yy)
        <5>1. Len(yy) = Len(y) + Len(t) /\ Len(y) \in Nat
          BY <1>5, <1>9, <4>1
        <5>2. out = Len(y) + o
          BY <1>11
        <5> QED
          BY <1>9, <1>19, <4>1, <5>1, <5>2
      <4>3. ASSUME NEW j \in 1 .. Len(yy) PROVE buf'[j] = yy[j]
        <5>1. CASE j <= Len(y)
          <6>1. j \in 1 .. Len(y) /\ j \in 1 .. Len(buf) /\ j # out + 1
            BY <1>5, <1>11, <1>14, <5>1 DEF Shape
          <6>2. yy[j] = y[j]
            BY <1>5, <1>9, <4>1, <6>1
          <6> QED
            BY <1>11, <1>15, <6>1, <6>2
        <5>2. CASE j > Len(y)
          <6> DEFINE h == j - Len(y)
          <6>1. h \in 1 .. Len(t) /\ j = Len(y) + h
            BY <1>5, <1>9, <4>2, <5>2
          <6>2. yy[j] = t[h]
            BY <1>5, <1>9, <4>1, <4>2, <5>2
          <6> HIDE DEF h
          <6>3. CASE h = o + 1
            <7>1. j = out + 1
              BY <1>5, <1>11, <6>1, <6>3
            <7> QED
              BY <1>10, <1>15, <4>1, <6>2, <6>3, <7>1
          <6>4. CASE h # o + 1
            <7>1. h \in 1 .. o /\ j \in 1 .. Len(buf) /\ j # out + 1
              <8>1. h \in 1 .. o
                BY <1>5, <1>9, <1>11, <1>19, <4>2, <6>1, <6>4
              <8> QED
                BY <1>behind, <6>1, <8>1
            <7>2. buf[j] = t[h]
              BY <1>11, <6>1, <7>1
            <7> QED
              BY <1>15, <6>2, <7>1, <7>2
          <6> QED
            BY <6>3, <6>4
        <5> QED
          BY <1>5, <5>1, <5>2
      <4> QED
        BY <4>2, <4>3
    <3> QED
      BY <3>1, <3>2
  <2>6. ~in_string' /\ ~escaped'
    BY <1>9, <1>12, <1>19
  <2>7. K = Len(doc) \/ 0 < Len(doc[K + 1])
    <3> SUFFICES ASSUME K # Len(doc) PROVE 0 < Len(doc[K + 1])
      OBVIOUS
    <3>1. K + 1 \in 1 .. Len(doc)
      BY <1>3, <1>8
    <3>2. IsToken(doc[K + 1])
      BY <1>2, <3>1 DEF IsText
    <3> QED
      BY <3>2 DEF IsToken, IsString
  <2>8. Len(xx) \in Nat /\ Len(yy) \in Nat
    BY <1>5, <1>9, <2>1, <2>2
  <2>9. Scanned(K, 0)'
    BY <1>1, <2>4, <2>5, <2>6, <2>7, <2>8 DEF Scanned, xx, yy, Q
  <2> QED
    BY <1>1, <1>8, <1>16, <1>17, <2>9 DEF Compacting, T
<1> QED
  BY <1>9, <1>18, <1>19

\* The loop of compact_json() is over: what it has kept is the text without its
\* layout.
LEMMA ScanEnd ==
    ASSUME Shape, Compacting, CompactEnd
    PROVE  SubSeq(buf, 1, out) = FlattenSeq(Stripped(doc))
<1> DEFINE T == FlattenSeq(doc)
           Q == Stripped(doc)
           F == FlattenSeq(Q)
<1>1. pc = "compact" /\ i = Len(buf)
  BY DEF CompactEnd
<1>2. IsText(doc) /\ T \in Seq(Bytes) /\ F \in Seq(Bytes)
  BY DocIsText DEF Shape
<1>3. /\ doc \in Seq(Seq(Bytes)) /\ Len(doc) \in Nat
      /\ Q \in Seq(Seq(Bytes)) /\ Len(Q) = Len(doc)
  BY <1>2, StrippedTyped DEF IsText
<1>4. PICK k \in 0 .. Len(doc), o \in Nat : Scanned(k, o)
  BY <1>1 DEF Compacting
<1>5. k = Len(doc)
  <2> SUFFICES ASSUME k # Len(doc) PROVE FALSE
    OBVIOUS
  <2>1. k \in 0 .. Len(doc) - 1 /\ k + 1 \in 1 .. Len(doc)
    BY <1>3
  <2>2. doc[k + 1] \in Seq(Bytes)
    BY <1>3, <2>1
  <2>3. o \in 0 .. Len(doc[k + 1]) - 1 /\ i = Len(First(doc, k)) + o
    BY <1>4, <2>2 DEF Scanned
  <2>4. (Len(First(doc, k)) + o) + 1 <= Len(T)
    BY <1>3, <2>1, <2>3, TextByte
  <2>5. Len(buf) = Len(T)
    BY <1>1 DEF Compacting
  <2>6. Len(First(doc, k)) \in Nat /\ Len(T) \in Nat
    <3>1. First(doc, k) \in Seq(Bytes)
      BY <1>3, FirstTyped
    <3> HIDE DEF T
    <3> QED
      BY <1>2, <3>1
  <2>7. i = Len(T) /\ i + 1 <= Len(T)
    BY <1>1, <2>3, <2>4, <2>5, Zenon
  <2> HIDE DEF T
  <2> QED
    BY <2>6, <2>7
<1>6. First(Q, k) = F
  BY <1>3, <1>5, FirstTyped
<1>7. out = Len(F) /\ \A j \in 1 .. Len(F) : buf[j] = F[j]
  <2>1. o = 0
    BY <1>4, <1>5 DEF Scanned
  <2>2. out = Len(F) + o /\ \A j \in 1 .. Len(F) : buf[j] = F[j]
    BY <1>4, <1>6, Zenon DEF Scanned
  <2> HIDE DEF F
  <2> QED
    BY <1>2, <2>1, <2>2
<1> HIDE DEF F
<1>8. buf \in Seq(Bytes) /\ out <= Len(buf) /\ out \in Nat
  BY DEF Shape
<1>9. SubSeq(buf, 1, out) = F
  BY <1>2, <1>7, <1>8
<1> QED
  BY <1>9 DEF F

-----------------------------------------------------------------------------
(* send_all() and write_line(). *)

\* Sending the next k bytes of a line after its first a bytes.
LEMMA SendMore ==
    ASSUME NEW B, NEW W \in Seq(B), NEW a \in Nat, NEW k \in Nat, a + k <= Len(W)
    PROVE  SubSeq(W, 1, a) \o SubSeq(W, a + 1, a + k) = SubSeq(W, 1, a + k)
  OBVIOUS

\* The bytes send_all() sends next are the next bytes of the line.
LEMMA RestIsNext ==
    ASSUME Shape, Compacted, pc = "send", Done <= Len(Line(doc)),
           NEW k \in 1 .. (Len(Data) - sent)
    PROVE  /\ Rest(k) = SubSeq(Line(doc), Done + 1, Done + k)
           /\ Done + k <= Len(Line(doc))
           /\ part = "body" => Len(Data) = out
           /\ part = "newline" => Len(Data) = 1 /\ sent = 0 /\ k = 1
           /\ Len(Line(doc)) = out + 1
<1> DEFINE F == FlattenSeq(Stripped(doc))
           W == Line(doc)
           N == <<Newline>>
<1>1. F \in Seq(Bytes) /\ W \in Seq(Bytes) /\ Len(W) = Len(F) + 1 /\ W = F \o N
  BY DocIsText DEF Shape, Line
<1>2. SubSeq(buf, 1, out) = F
  BY DEF Compacted
<1>3. buf \in Seq(Bytes) /\ out \in Nat /\ out <= Len(buf) /\ sent \in Nat
  BY DEF Shape
<1>4. Len(F) = out
  BY <1>2, <1>3
<1>5. N \in Seq(Bytes) /\ Len(N) = 1
  BY DEF Bytes, White
<1> HIDE DEF F, W, N
<1>6. CASE part = "body"
  <2>1. Data = F /\ Done = sent
    BY <1>2, <1>6 DEF Data, Done
  <2>2. sent + k <= Len(F) /\ k \in Nat
    BY <1>1, <1>3, <2>1
  <2>3. SubSeq(F, sent + 1, sent + k) = SubSeq(W, sent + 1, sent + k)
    BY <1>1, <1>3, <1>5, <2>2
  <2>4. Rest(k) = SubSeq(W, Done + 1, Done + k)
    BY <2>1, <2>3 DEF Rest
  <2>5. Done + k <= Len(W) /\ Len(Data) = out /\ Len(W) = out + 1
    BY <1>1, <1>3, <1>4, <2>1, <2>2
  <2> QED
    BY <1>6, <2>4, <2>5 DEF W
<1>7. CASE part = "newline"
  <2>1. Data = N /\ Done = out + sent
    BY <1>7 DEF Data, Done, N
  <2>2. sent = 0 /\ k = 1
    <3>1. Len(Data) = 1
      BY <1>5, <2>1
    <3> QED
      BY <1>3, <3>1
  <2>3. SubSeq(N, 1, 1) = SubSeq(W, out + 1, out + 1)
    <3>1. W \in Seq(Bytes) /\ Len(W) = out + 1
      BY <1>1, <1>4
    <3>2. W[out + 1] = N[1]
      <4>1. \A j \in 1 .. Len(N) : (F \o N)[Len(F) + j] = N[j]
        BY <1>1, <1>5
      <4>2. 1 \in 1 .. Len(N)
        BY <1>5
      <4> QED
        BY <1>1, <1>4, <4>1, <4>2
    <3> QED
      BY <1>3, <1>5, <3>1, <3>2
  <2>4. Done + 1 = out + 1 /\ Done + k = out + 1 /\ sent + 1 = 1 /\ sent + k = 1
    BY <1>3, <2>1, <2>2
  <2>5. Rest(k) = SubSeq(W, Done + 1, Done + k)
    BY <2>1, <2>3, <2>4 DEF Rest
  <2>6. Done + k <= Len(W) /\ Len(Data) = 1 /\ Len(W) = out + 1
    BY <1>1, <1>3, <1>4, <1>5, <2>1, <2>4
  <2> QED
    BY <1>7, <2>2, <2>5, <2>6 DEF W
<1> QED
  BY <1>6, <1>7 DEF Shape

\* A partial send puts the next bytes on the socket, neither again nor too far
\* on, and the newline follows the body.
LEMMA SendKeeps ==
    ASSUME IInv, Send PROVE IInv'
<1> DEFINE W == Line(doc)
<1>1. PICK k \in 1 .. (Len(Data) - sent) :
        wire' = wire \o Rest(k) /\ Finished(sent + k)
  BY DEF Send
<1>2. /\ pc = "send" /\ UNCHANGED <<doc, compactVars, until, now>>
  BY DEF Send
<1>3. /\ Rest(k) = SubSeq(W, Done + 1, Done + k) /\ Done + k <= Len(W)
      /\ part = "body" => Len(Data) = out
      /\ part = "newline" => Len(Data) = 1 /\ sent = 0 /\ k = 1
      /\ Len(W) = out + 1
  BY <1>2, RestIsNext DEF IInv, Delivered
<1>4. W \in Seq(Bytes) /\ W' = W
  BY <1>2, DocIsText DEF IInv, Shape
<1>5. /\ sent \in Nat /\ out \in Nat /\ k \in Nat /\ k >= 1 /\ Done \in Nat
      /\ wire = SubSeq(W, 1, Done) /\ start \in Nat /\ now \in Nat
      /\ part \in {"body", "newline"}
  BY <1>3 DEF IInv, Shape, Delivered, Done
<1> HIDE DEF W
<1>6. wire' = SubSeq(W, 1, Done + k)
  BY <1>1, <1>3, <1>4, <1>5, SendMore
<1>7. \/ part' = part /\ pc' = pc /\ start' = start /\ sent' = sent + k
      \/ /\ part = "body" /\ part' = "newline" /\ sent' = 0 /\ start' = now
         /\ pc' = pc /\ sent + k = out
      \/ /\ part = "newline" /\ part' = part /\ pc' = "ok" /\ sent' = sent + k
         /\ start' = start
  <2>1. part = "body" => Len(Data) = out /\ sent + k <= out
    BY <1>3, <1>5
  <2> HIDE DEF Data
  <2> QED
    BY <1>1, <1>2, <1>3, <1>5, <2>1 DEF Finished
<1>8. Done' = Done + k
  BY <1>2, <1>5, <1>7 DEF Done, compactVars
<1>9. Shape'
  BY <1>2, <1>5, <1>7 DEF IInv, Shape, compactVars
<1>10. Compacting' /\ Compacted'
  <2>1. pc' \notin {"json", "compact"}
    BY <1>2, <1>7
  <2>2. SubSeq(buf, 1, out) = FlattenSeq(Stripped(doc))
    BY <1>2 DEF IInv, Compacted
  <2> QED
    BY <1>2, <2>1, <2>2 DEF Compacting, Compacted, compactVars
<1>11. Delivered'
  <2>1. pc' = "ok" => Done + k = Len(W)
    BY <1>2, <1>3, <1>5, <1>7 DEF Done
  <2>2. pc' \notin {"json", "compact"}
    BY <1>2, <1>7
  <2> QED
    BY <1>3, <1>4, <1>6, <1>8, <2>1, <2>2 DEF Delivered, W
<1>12. InTime'
  <2>1. /\ part = "body" => start = 0
        /\ start <= Timeout /\ start <= now /\ now <= start + Timeout
    BY DEF IInv, InTime
  <2>2. Timeout \in Nat
    BY BoundsAssumption
  <2> QED
    BY <1>2, <1>5, <1>7, <2>1, <2>2 DEF InTime
<1> QED
  BY <1>9, <1>10, <1>11, <1>12 DEF IInv

-----------------------------------------------------------------------------
\* write_json() starts with nothing printed and nothing sent.
LEMMA InitEstablishes == Init => IInv
<1> SUFFICES ASSUME Init PROVE IInv
  OBVIOUS
<1>1. Shape
  <2>1. buf \in Seq(Bytes) /\ Len(buf) = 0
    <3>1. buf = <<>>
      BY DEF Init
    <3> QED
      BY <3>1
  <2>2. in_string \in BOOLEAN /\ escaped \in BOOLEAN
    BY DEF Init
  <2> QED
    BY <2>1, <2>2 DEF Init, Shape
<1>2. Compacting /\ Compacted
  BY DEF Init, Compacting, Compacted
<1>3. Delivered
  <2> DEFINE W == Line(doc)
  <2>1. W \in Seq(Bytes)
    BY DocIsText DEF Init
  <2> HIDE DEF W
  <2>2. SubSeq(W, 1, 0) = <<>> /\ 0 <= Len(W)
    BY <2>1
  <2> QED
    BY <2>2 DEF Init, Delivered, Done, W
<1>4. InTime
  BY BoundsAssumption DEF Init, InTime
<1> QED
  BY <1>1, <1>2, <1>3, <1>4 DEF IInv


\* pj_json_write() prints the text, and the loop of compact_json() begins.
LEMMA JsonWriteKeeps == ASSUME IInv, JsonWrite PROVE IInv'
<1> DEFINE T == FlattenSeq(doc)
           Q == Stripped(doc)
<1>1. /\ pc = "json"
      /\ \/ buf' = T /\ pc' = "compact"
         \/ buf' = buf /\ pc' = "failed"
      /\ UNCHANGED <<doc, i, out, in_string, escaped, sendVars, now, wire>>
  BY DEF JsonWrite
<1>2. IsText(doc) /\ T \in Seq(Bytes) /\ doc' = doc
  BY <1>1, DocIsText DEF IInv, Shape
<1>3. /\ doc \in Seq(Seq(Bytes)) /\ Len(doc) \in Nat /\ Q \in Seq(Seq(Bytes))
      /\ 0 \in 0 .. Len(doc)
  BY <1>2, StrippedTyped DEF IsText
<1>4. i' = 0 /\ out' = 0 /\ ~in_string' /\ ~escaped'
  BY <1>1 DEF IInv, Compacting
<1>5. Delivered' /\ InTime' /\ Compacted'
  BY <1>1 DEF IInv, Delivered, InTime, Compacted, Done, sendVars
<1>6. Shape'
  <2>1. buf' \in Seq(Bytes) /\ Len(buf') \in Nat
    BY <1>1, <1>2 DEF IInv, Shape
  <2> QED
    BY <1>1, <1>4, <2>1 DEF IInv, Shape, sendVars
<1>7. First(doc, 0) = <<>> /\ First(Q, 0) = <<>> /\ Len(<<>>) = 0
  BY <1>3, FirstTyped
<1>8. 0 = Len(doc) \/ 0 < Len(doc[1])
  <2> SUFFICES ASSUME 0 # Len(doc) PROVE 0 < Len(doc[1])
    OBVIOUS
  <2>1. 1 \in 1 .. Len(doc)
    BY <1>3
  <2>2. IsToken(doc[1])
    BY <1>2, <2>1 DEF IsText
  <2>3. CASE doc[1] \in {<<Space>>, <<Newline>>, <<Byte>>}
    BY <2>3
  <2>4. CASE IsString(doc[1])
    <3>1. Len(doc[1]) >= 2 /\ doc[1] \in Seq(Bytes)
      BY <1>3, <2>1, <2>4 DEF IsString
    <3> QED
      BY <3>1
  <2> QED
    BY <2>2, <2>3, <2>4 DEF IsToken
<1>9. Scanned(0, 0)'
  <2> HIDE DEF T
  <2> QED
    BY <1>2, <1>4, <1>7, <1>8 DEF Scanned, Q
<1>10. Compacting'
  BY <1>1, <1>2, <1>3, <1>4, <1>9 DEF Compacting
<1> QED
  BY <1>5, <1>6, <1>10 DEF IInv

\* The bytes that compact_json() keeps are not sent yet.
LEMMA CompactKeeps == ASSUME IInv, CompactByte \/ CompactEnd PROVE IInv'
<1>1. CASE CompactByte
  <2>1. /\ pc = "compact" /\ UNCHANGED <<doc, pc, sendVars, now, wire>>
    BY <1>1 DEF CompactByte
  <2>2. Shape' /\ Compacting'
    BY <1>1, ScanByte DEF IInv
  <2>3. part = "body" /\ part' = part /\ Done' = Done
    BY <2>1 DEF IInv, Delivered, Done, sendVars
  <2>4. Compacted' /\ Delivered' /\ InTime'
    BY <2>1, <2>3 DEF IInv, Compacted, Delivered, InTime, sendVars
  <2> QED
    BY <2>2, <2>4 DEF IInv
<1>2. CASE CompactEnd
  <2>1. /\ pc = "compact" /\ pc' = "send" /\ start' = now
        /\ UNCHANGED <<doc, compactVars, part, sent, until, now, wire>>
    BY <1>2 DEF CompactEnd
  <2>2. SubSeq(buf, 1, out) = FlattenSeq(Stripped(doc))
    BY <1>2, ScanEnd DEF IInv
  <2>3. Shape' /\ Compacting'
    BY <2>1 DEF IInv, Shape, Compacting, compactVars
  <2>4. Compacted'
    BY <2>1, <2>2 DEF Compacted, compactVars
  <2>5. Delivered'
    BY <2>1 DEF IInv, Delivered, Done, compactVars
  <2>6. InTime'
    BY <2>1, BoundsAssumption DEF IInv, InTime, Shape
  <2> QED
    BY <2>3, <2>4, <2>5, <2>6 DEF IInv
<1> QED
  BY <1>1, <1>2

\* send_all() waits, gives up or goes on, and the client reads or leaves: no
\* byte is sent and no wait outlasts the deadline.
LEMMA WaitKeeps ==
    ASSUME IInv,
           \/ SendError \/ WouldBlock \/ Writable \/ Interrupted \/ WaitTimeout
           \/ Read \/ Leave \/ Tick \/ UNCHANGED vars
    PROVE  IInv'
<1>1. UNCHANGED <<doc, compactVars, part, sent, start, wire>>
  BY DEF SendError, WouldBlock, Writable, Interrupted, WaitTimeout, Read, Leave,
     Tick, sendVars, vars
<1>2. /\ pc' = pc \/ (pc \in {"send", "wait"} /\ pc' \in {"send", "wait", "failed"})
      /\ now' = now \/ (pc = "wait" /\ now < until /\ now' = now + 1)
      /\ pc' = "wait" => \/ pc = "wait" /\ until' = until
                         \/ pc = "send" /\ until' = now + Remaining /\ now' = now
  BY DEF SendError, WouldBlock, Writable, Interrupted, WaitTimeout, Read, Leave,
     Tick, sendVars, vars
<1>3. Shape'
  BY <1>1, <1>2 DEF IInv, Shape, compactVars
<1>4. Compacting' /\ Compacted'
  <2>1. pc' = pc \/ pc' \notin {"json", "compact", "ok"}
    BY <1>2
  <2>2. Compacting'
    BY <1>1, <2>1 DEF IInv, Compacting, Scanned, compactVars
  <2>3. Compacted'
    BY <1>1, <1>2 DEF IInv, Compacted, compactVars
  <2> QED
    BY <2>2, <2>3
<1>5. Delivered'
  BY <1>1, <1>2 DEF IInv, Delivered, Done, compactVars
<1>6. InTime'
  <2>1. /\ start \in Nat /\ now \in Nat /\ Timeout \in Nat
        /\ pc \in {"json", "compact"} => now = 0 /\ start = 0
        /\ part = "body" => start = 0
        /\ start <= Timeout /\ start <= now /\ now <= start + Timeout
        /\ pc = "wait" => until = start + Timeout
    BY BoundsAssumption DEF IInv, Shape, InTime
  <2>2. pc' = "wait" => until' = start + Timeout
    BY <1>2, <2>1 DEF Remaining
  <2>3. /\ now' \in Nat /\ start <= now' /\ now' <= start + Timeout
        /\ pc' \in {"json", "compact"} => now' = 0
    BY <1>2, <2>1
  <2> QED
    BY <1>1, <1>2, <2>1, <2>2, <2>3 DEF InTime
<1> QED
  BY <1>3, <1>4, <1>5, <1>6 DEF IInv

\* IInv holds in every reachable state.
THEOREM InductiveInvariant == Spec => []IInv
<1>1. IInv /\ [Next]_vars => IInv'
  BY JsonWriteKeeps, CompactKeeps, SendKeeps, WaitKeeps DEF Next, Writer
<1> QED
  BY <1>1, InitEstablishes, PTL DEF Spec

-----------------------------------------------------------------------------
(* The results. *)

\* compact_json() keeps every token but the layout, whatever the text.
THEOREM CompactIsLossless == Spec => []CompactKeepsTokens
<1>1. IInv => CompactKeepsTokens
  BY DEF IInv, Compacted, CompactKeepsTokens, Writing, Line
<1> QED
  BY <1>1, InductiveInvariant, PTL

\* The line has one newline, at its end: pj_json_write() escapes those in
\* strings, and the others are layout.
LEMMA OneNewline ==
    ASSUME NEW d \in Doc, NEW j \in 1 .. Len(Line(d)), Line(d)[j] = Newline
    PROVE  j = Len(Line(d))
<1> DEFINE Q == Stripped(d)
<1>1. IsText(d) /\ FlattenSeq(Q) \in Seq(Bytes) /\ Len(Line(d)) = Len(FlattenSeq(Q)) + 1
  BY DocIsText
<1>2. Q \in Seq(Seq(Bytes)) /\ Len(Q) = Len(d) /\ Len(d) \in Nat
  BY <1>1, StrippedTyped DEF IsText
<1>3. \A n \in 1 .. Len(d) : Q[n] = IF IsLayout(d[n]) THEN <<>> ELSE d[n]
  BY <1>1, StrippedTyped
<1> HIDE DEF Q
<1>4. ASSUME NEW n \in 1 .. Len(d), NEW h \in 1 .. Len(Q[n])
      PROVE  Q[n][h] # Newline
  <2>1. IsToken(d[n])
    BY <1>1 DEF IsText
  <2>2. CASE IsLayout(d[n])
    <3>1. Len(Q[n]) = 0
      BY <1>3, <2>2
    <3> QED
      BY <1>4, <3>1
  <2>3. CASE ~IsLayout(d[n])
    <3> DEFINE t == d[n]
    <3>1. Q[n] = t
      BY <1>3, <2>3
    <3>2. CASE t \in {<<Space>>, <<Newline>>, <<Byte>>}
      <4>1. t = <<Byte>>
        BY <2>3, <3>2 DEF IsLayout, White
      <4>2. h = 1
        BY <3>1, <4>1
      <4> QED
        BY <3>1, <4>1, <4>2 DEF Byte, Newline
    <3>3. CASE IsString(t)
      BY <3>1, <3>3 DEF IsString
    <3> QED
      BY <2>1, <3>2, <3>3 DEF IsToken
  <2> QED
    BY <2>2, <2>3
<1> DEFINE Clean(x) == \A h \in 1 .. Len(x) : x[h] # Newline
           S == {k \in Nat : k <= Len(d) => Clean(First(Q, k))}
<1>5. 0 \in S
  <2>1. First(Q, 0) = <<>>
    BY <1>2, FirstTyped
  <2>2. Clean(<<>>)
    OBVIOUS
  <2> QED
    BY <2>1, <2>2
<1>6. ASSUME NEW k \in Nat, k \in S PROVE k + 1 \in S
  <2> SUFFICES ASSUME k + 1 <= Len(d) PROVE Clean(First(Q, k + 1))
    OBVIOUS
  <2> DEFINE x == First(Q, k)
             q == Q[k + 1]
             z == First(Q, k + 1)
  <2>1. k \in 0 .. Len(Q) /\ k \in 0 .. Len(Q) - 1 /\ k + 1 \in 1 .. Len(d)
    BY <1>2
  <2>2. x \in Seq(Bytes) /\ q \in Seq(Bytes) /\ z = x \o q
    <3>1. Q \in Seq(Seq(Bytes))
      BY <1>2
    <3>2. x \in Seq(Bytes) /\ z = x \o q
      BY <2>1, <3>1, FirstTyped
    <3>3. q \in Seq(Bytes)
      BY <1>2, <2>1
    <3> QED
      BY <3>2, <3>3
  <2>3. Clean(x)
    BY <1>6, <2>1
  <2>4. Clean(q)
    BY <1>4, <2>1
  <2> HIDE DEF x, q, z
  <2>5. ASSUME NEW h \in 1 .. Len(z) PROVE z[h] # Newline
    <3>1. CASE h <= Len(x)
      <4>1. h \in 1 .. Len(x) /\ z[h] = x[h]
        BY <2>2, <3>1
      <4> QED
        BY <2>3, <4>1
    <3>2. CASE h > Len(x)
      <4>1. h - Len(x) \in 1 .. Len(q) /\ z[h] = q[h - Len(x)]
        BY <2>2, <3>2
      <4> QED
        BY <2>4, <4>1
    <3> QED
      BY <2>2, <3>1, <3>2
  <2> QED
    BY <2>5 DEF z
<1> HIDE DEF S
<1>7. Nat \subseteq S
  BY <1>5, <1>6, NatSetInduction
<1>8. Clean(First(Q, Len(d)))
  <2>1. Len(d) \in S
    BY <1>2, <1>7
  <2>2. Len(d) <= Len(d)
    BY <1>2
  <2> QED
    BY <2>1, <2>2, Zenon DEF S
<1>9. First(Q, Len(d)) = FlattenSeq(Q)
  BY <1>2, FirstTyped
<1> DEFINE F == FlattenSeq(Q)
           W == Line(d)
           N == <<Newline>>
<1>10. W = F \o N /\ F \in Seq(Bytes) /\ Clean(F) /\ Len(W) = Len(F) + 1
  BY <1>1, <1>8, <1>9 DEF Line, Q
<1>11. N \in Seq(Bytes)
  BY DEF Bytes, White
<1>12. j \in 1 .. Len(W) /\ W[j] = Newline
  OBVIOUS
<1> HIDE DEF F, W, N
<1>13. j <= Len(F) => W[j] = F[j]
  BY <1>10, <1>11, <1>12
<1>14. ~(j <= Len(F))
  BY <1>10, <1>12, <1>13
<1>15. j = Len(W)
  BY <1>10, <1>12, <1>14
<1> QED
  BY <1>15 DEF W

\* What the client gets is the beginning of the line, all of it if write_line()
\* succeeds, and its only newline is its last byte, whatever the partial sends.
THEOREM WireCarriesTheLine == Spec => []WireIsTheLine
<1>1. IInv => WireIsTheLine
  <2> SUFFICES ASSUME IInv PROVE WireIsTheLine
    OBVIOUS
  <2> DEFINE W == Line(doc)
  <2>1. W \in Seq(Bytes)
    BY DocIsText DEF IInv, Shape
  <2>2. /\ wire = SubSeq(W, 1, Done) /\ Done <= Len(W) /\ Done \in Nat
        /\ pc = "ok" => Done = Len(W)
    BY DEF IInv, Shape, Delivered, Done
  <2>3. ASSUME NEW j \in 1 .. Len(W), W[j] = Newline PROVE j = Len(W)
    BY <2>3, OneNewline DEF IInv, Shape
  <2> HIDE DEF W
  <2>4. /\ wire \in Seq(Bytes) /\ Len(wire) = Done
        /\ \A j \in 1 .. Done : wire[j] = W[j] /\ j \in 1 .. Len(W)
    BY <2>1, <2>2
  <2>5. IsPrefix(wire, W)
    <3>1. SubSeq(wire, 1, Len(wire)) = SubSeq(W, 1, Len(wire))
      BY <2>1, <2>2, <2>4
    <3> QED
      BY <2>2, <2>4, <3>1 DEF IsPrefix
  <2>6. pc = "ok" => wire = W
    BY <2>1, <2>2
  <2>7. \A n \in DOMAIN wire : wire[n] = Newline => n = Len(W)
    <3>1. DOMAIN wire = 1 .. Done
      BY <2>4
    <3> QED
      BY <2>3, <2>4, <3>1
  <2> QED
    BY <2>5, <2>6, <2>7 DEF WireIsTheLine, W
<1> QED
  BY <1>1, InductiveInvariant, PTL

\* send_all() keeps its deadline, however slowly the client reads and however
\* often select() is interrupted, and write_line() takes at most two.
THEOREM DeadlineKept == Spec => []DeadlineHolds
<1>1. IInv => DeadlineHolds
  BY BoundsAssumption DEF IInv, Shape, InTime, DeadlineHolds
<1> QED
  BY <1>1, InductiveInvariant, PTL
=============================================================================
