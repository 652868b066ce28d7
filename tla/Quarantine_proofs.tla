-------------------------- MODULE Quarantine_proofs --------------------------
(* The quarantine for any threads, sizes, limits and size of a batch, and any *)
(* number of chunks.                                                          *)
(*                                                                            *)
(* What its caches hold is a sequence of chunks, and cutting it into batches  *)
(* differently changes neither the chunks nor their order.  Sequences are     *)
(* joined and cut; sizes, numbers and the order are followed through that.    *)
EXTENDS Quarantine, FiniteSetTheorems, SequenceTheorems, TLAPS

Chunk == [n : Nat, by : Threads, size : Nat]
Batch == [chunks : Seq(Chunk), size : Int]

-----------------------------------------------------------------------------
(* Induction, and sequences of chunks                                         *)

\* Induction over the naturals: a finite set that holds with each number its
\* predecessor is mapped onto itself by taking one away
LEMMA NatInd ==
  ASSUME NEW S, 0 \in S, \A n \in Nat : n \in S => n + 1 \in S PROVE Nat \subseteq S
<1> SUFFICES ASSUME NEW n \in Nat, n \notin S PROVE FALSE
  OBVIOUS
<1> DEFINE T == {k \in 0 .. n : k \notin S}
           f == [x \in T |-> x - 1]
<1>1. IsFiniteSet(T)
  <2>1. IsFiniteSet(0 .. n)
    BY FS_Interval
  <2> QED BY <2>1, FS_Subset
<1>2. ASSUME NEW x \in T PROVE x - 1 \in T
  <2>1. x \in Nat /\ x # 0 /\ x - 1 \in Nat /\ (x - 1) + 1 = x
    OBVIOUS
  <2>2. x - 1 \in S => (x - 1) + 1 \in S
    BY <2>1
  <2> QED BY <2>1, <2>2
<1>3. f \in Injection(T, T)
  BY <1>2 DEF Injection, IsInjective
<1>4. f \in Surjection(T, T)
  BY <1>1, <1>3, FS_Injection
<1>5. n \in T
  OBVIOUS
<1>6. PICK y \in T : f[y] = n
  BY <1>4, <1>5 DEF Surjection
<1> QED BY <1>6

\* A sequence that is not empty is one that is shorter and a last element
LEMMA LastOne ==
  ASSUME NEW T, NEW s \in Seq(T), s # <<>>
  PROVE  /\ Front(s) \in Seq(T) /\ Last(s) \in T /\ s = Front(s) \o <<Last(s)>>
         /\ Len(s) \in Nat /\ Len(s) # 0 /\ Len(Front(s)) = Len(s) - 1 /\ Last(s) = s[Len(s)]
<1>1. Len(s) \in Nat \ {0}
  BY EmptySeq
<1>2. Len(s) \in 1 .. Len(s) /\ 1 \in 1 .. Len(s)
  BY <1>1
<1>3. s[Len(s)] \in T
  BY <1>2, ElementOfSeq
<1>4. SubSeq(s, 1, Len(s)) = s
  BY SubSeqFull
<1>5. SubSeq(s, 1, Len(s)) = SubSeq(s, 1, Len(s) - 1) \o <<s[Len(s)]>>
  BY <1>2, SubSeqRecursiveSecond
<1>6. /\ SubSeq(s, 1, Len(s) - 1) \in Seq(T)
      /\ Len(SubSeq(s, 1, Len(s) - 1)) = Len(s) - 1
  <2>1. 1 \in Int /\ Len(s) - 1 \in Int /\ \A i \in 1 .. Len(s) - 1 : i \in 1 .. Len(s)
    BY <1>1
  <2>2. \A i \in 1 .. Len(s) - 1 : s[i] \in T
    BY <2>1, ElementOfSeq
  <2>3. /\ SubSeq(s, 1, Len(s) - 1) \in Seq(T)
        /\ Len(SubSeq(s, 1, Len(s) - 1)) = IF 1 <= Len(s) - 1 THEN (Len(s) - 1) - 1 + 1 ELSE 0
    BY <2>1, <2>2, SubSeqProperties
  <2>4. PICK k \in Nat : k # 0 /\ k = Len(s)
    BY <1>1
  <2>5. PICK u : u = SubSeq(s, 1, k - 1)
    OBVIOUS
  <2>6. u \in Seq(T) /\ Len(u) = IF 1 <= k - 1 THEN (k - 1) - 1 + 1 ELSE 0
    BY <2>3, <2>4, <2>5
  <2>7. Len(u) = k - 1
    BY <2>4, <2>6
  <2> QED BY <2>4, <2>5, <2>6, <2>7
<1> QED BY <1>1, <1>3, <1>4, <1>5, <1>6 DEF Front, Last

\* A sequence that is not empty is a first element and the rest
LEMMA FirstOne ==
  ASSUME NEW T, NEW s \in Seq(T), s # <<>>
  PROVE  /\ Head(s) \in T /\ Tail(s) \in Seq(T) /\ s = <<Head(s)>> \o Tail(s)
         /\ Len(s) \in Nat /\ Len(Tail(s)) = Len(s) - 1 /\ Head(s) = s[1]
         /\ \A i \in 1 .. Len(Tail(s)) : Tail(s)[i] = s[i + 1]
<1>1. Len(s) \in Nat \ {0}
  BY EmptySeq
<1>2. Len(s) \in 1 .. Len(s) /\ 1 \in 1 .. Len(s)
  BY <1>1
<1>3. s[1] \in T
  BY <1>2, ElementOfSeq
<1>4. SubSeq(s, 1, Len(s)) = s /\ Tail(s) = SubSeq(s, 2, Len(s))
  BY SubSeqFull, TailIsSubSeq
<1>5. SubSeq(s, 1, Len(s)) = <<s[1]>> \o SubSeq(s, 1 + 1, Len(s))
  BY <1>2, SubSeqRecursiveFirst
<1>6. s = <<s[1]>> \o Tail(s)
  BY <1>4, <1>5
<1> QED BY <1>1, <1>3, <1>6, HeadTailProperties

\* Induction over sequences
LEMMA SeqInd ==
  ASSUME NEW T, NEW S, <<>> \in S,
         \A s \in Seq(T) : \A e \in T : s \in S => s \o <<e>> \in S
  PROVE  Seq(T) \subseteq S
<1> DEFINE N == {n \in Nat : \A s \in Seq(T) : Len(s) = n => s \in S}
<1>1. 0 \in N
  BY EmptySeq
<1>2. ASSUME NEW n \in Nat, n \in N PROVE n + 1 \in N
  <2> SUFFICES ASSUME NEW s \in Seq(T), Len(s) = n + 1 PROVE s \in S
    OBVIOUS
  <2>1. s # <<>>
    BY EmptySeq
  <2>2. /\ Front(s) \in Seq(T) /\ Last(s) \in T /\ s = Front(s) \o <<Last(s)>>
        /\ Len(Front(s)) = (n + 1) - 1
    BY <2>1, LastOne
  <2>3. Front(s) \in S
    BY <1>2, <2>2
  <2> QED BY <2>2, <2>3
<1> HIDE DEF N
<1>3. Nat \subseteq N
  BY <1>1, <1>2, NatInd
<1>4. ASSUME NEW s \in Seq(T) PROVE s \in S
  <2>1. Len(s) \in Nat
    BY LenProperties
  <2> QED BY <1>3, <2>1 DEF N
<1> QED BY <1>4

\* One element, and an element put at the end
LEMMA Singles ==
  ASSUME NEW T, NEW e \in T
  PROVE  <<e>> \in Seq(T) /\ Len(<<e>>) = 1 /\ <<e>>[1] = e /\ <<e>> # <<>>
OBVIOUS

LEMMA Longer ==
  ASSUME NEW T, NEW s \in Seq(T), NEW e \in T
  PROVE  /\ s \o <<e>> \in Seq(T) /\ Len(s) \in Nat /\ Len(s \o <<e>>) = Len(s) + 1
         /\ (s \o <<e>>)[Len(s) + 1] = e
         /\ \A i \in 1 .. Len(s) : (s \o <<e>>)[i] = s[i]
         /\ Append(s, e) = s \o <<e>>
<1>1. <<e>> \in Seq(T) /\ Len(<<e>>) = 1 /\ <<e>>[1] = e
  BY Singles
<1>2. Len(s) \in Nat
  BY LenProperties
<1>3. /\ s \o <<e>> \in Seq(T) /\ Len(s \o <<e>>) = Len(s) + 1
      /\ \A i \in 1 .. Len(s) + 1 : (s \o <<e>>)[i] = IF i <= Len(s) THEN s[i] ELSE <<e>>[i - Len(s)]
  BY <1>1, ConcatProperties
<1>4. (s \o <<e>>)[Len(s) + 1] = e
  <2>1. Len(s) + 1 \in 1 .. Len(s) + 1 /\ ~ (Len(s) + 1 <= Len(s)) /\ (Len(s) + 1) - Len(s) = 1
    BY <1>2
  <2> QED BY <1>1, <1>3, <2>1
<1>5. \A i \in 1 .. Len(s) : (s \o <<e>>)[i] = s[i]
  BY <1>2, <1>3
<1>6. Append(s, e) = s \o <<e>>
  BY AppendIsConcat
<1> QED BY <1>2, <1>3, <1>4, <1>5, <1>6

-----------------------------------------------------------------------------
(* What is defined by recursion, one element at a time: the chunks of a list, *)
(* their sizes, and the merging of batches.  A recursive function exists,     *)
(* and two of them agree as far as their sequences do.                        *)
Agree(s, t, n) == \A i \in 1 .. n : s[i] = t[i]

\* FlattenSeq's function
Flattens(g, s) ==
  g = [i \in 1 .. Len(s) |-> IF i = 1 THEN s[i] ELSE g[i - 1] \o s[i]]

LEMMA FlattensExists ==
  ASSUME NEW s, Len(s) \in Nat
  PROVE  \E g : Flattens(g, s)
<1> DEFINE H(g, n) == g = [i \in 1 .. n |-> IF i = 1 THEN s[i] ELSE g[i - 1] \o s[i]]
           S == {n \in Nat : \E g : H(g, n)}
<1>1. 0 \in S
  <2>1. H([i \in 1 .. 0 |-> 0], 0)
    OBVIOUS
  <2> QED BY <2>1, Zenon
<1>2. ASSUME NEW n \in Nat, n \in S PROVE n + 1 \in S
  <2>1. PICK g : H(g, n)
    BY <1>2
  <2> DEFINE h == [i \in 1 .. n + 1 |-> IF i <= n THEN g[i]
                                        ELSE IF i = 1 THEN s[i] ELSE g[n] \o s[i]]
  <2>2. ASSUME NEW i \in 1 .. n + 1
        PROVE  h[i] = IF i = 1 THEN s[i] ELSE h[i - 1] \o s[i]
    <3>1. CASE i <= n
      <4>1. i \in 1 .. n
        BY <3>1
      <4>2. g[i] = IF i = 1 THEN s[i] ELSE g[i - 1] \o s[i]
        BY <2>1, <4>1
      <4>3. i # 1 => i - 1 \in 1 .. n
        BY <4>1
      <4> QED BY <4>1, <4>2, <4>3
    <3>2. CASE i = n + 1
      <4>1. n # 0 => n \in 1 .. n + 1
        OBVIOUS
      <4> QED BY <3>2, <4>1
    <3> QED BY <3>1, <3>2
  <2>3. H(h, n + 1)
    <3>1. h = [i \in 1 .. n + 1 |-> h[i]]
      OBVIOUS
    <3> HIDE DEF h
    <3> QED BY <2>2, <3>1
  <2> HIDE DEF h
  <2>4. \E x : H(x, n + 1)
    BY <2>3, Zenon
  <2> HIDE DEF H
  <2> QED BY <2>4
<1> HIDE DEF S
<1>3. Nat \subseteq S
  BY <1>1, <1>2, NatInd
<1> QED BY <1>3 DEF S, Flattens

LEMMA FlattensUnique ==
  ASSUME NEW s, NEW t, Len(s) \in Nat, Len(t) \in Nat, NEW n \in Nat, n <= Len(s), n <= Len(t),
         Agree(s, t, n), NEW g, Flattens(g, s), NEW h, Flattens(h, t)
  PROVE  Agree(g, h, n)
<1> DEFINE S == {k \in Nat : k \in 1 .. n => g[k] = h[k]}
<1>1. 0 \in S
  OBVIOUS
<1>2. ASSUME NEW k \in Nat, k \in S PROVE k + 1 \in S
  <2>1. ASSUME k + 1 \in 1 .. n PROVE g[k + 1] = h[k + 1]
    <3> k + 1 \in 1 .. Len(s) /\ k + 1 \in 1 .. Len(t)
      BY <2>1
    <3>1. /\ g[k + 1] = IF k + 1 = 1 THEN s[k + 1] ELSE g[(k + 1) - 1] \o s[k + 1]
          /\ h[k + 1] = IF k + 1 = 1 THEN t[k + 1] ELSE h[(k + 1) - 1] \o t[k + 1]
      BY <2>1 DEF Flattens
    <3>2. (k + 1) - 1 = k /\ s[k + 1] = t[k + 1]
      BY <2>1 DEF Agree
    <3>3. k # 0 => g[k] = h[k]
      BY <1>2, <2>1
    <3> QED BY <3>1, <3>2, <3>3
  <2> QED BY <2>1
<1> HIDE DEF S
<1>3. Nat \subseteq S
  BY <1>1, <1>2, NatInd
<1> QED BY <1>3 DEF S, Agree

LEMMA FlattenIs ==
  ASSUME NEW s, Len(s) \in Nat, Len(s) # 0
  PROVE  \E g : Flattens(g, s) /\ FlattenSeq(s) = g[Len(s)]
BY FlattensExists DEF FlattenSeq, Flattens

LEMMA FlattenMore ==
  ASSUME NEW n \in Nat, NEW s, NEW t, Len(s) = n, Len(t) = n + 1, Agree(s, t, n)
  PROVE  FlattenSeq(t) = IF n = 0 THEN t[1] ELSE FlattenSeq(s) \o t[n + 1]
<1>1. PICK h : Flattens(h, t) /\ FlattenSeq(t) = h[n + 1]
  BY FlattenIs
<1>2. h[n + 1] = IF n + 1 = 1 THEN t[n + 1] ELSE h[(n + 1) - 1] \o t[n + 1]
  <2>1. n + 1 \in 1 .. Len(t)
    OBVIOUS
  <2> QED BY <1>1, <2>1 DEF Flattens
<1>3. CASE n = 0
  BY <1>1, <1>2, <1>3
<1>4. CASE n # 0
  <2>1. PICK g : Flattens(g, s) /\ FlattenSeq(s) = g[n]
    BY <1>4, FlattenIs
  <2>2. /\ Len(s) \in Nat /\ Len(t) \in Nat /\ n <= Len(s) /\ n <= Len(t)
        /\ n \in 1 .. n
    BY <1>4
  <2>3. g[n] = h[n]
    <3>1. Agree(g, h, n)
      BY <1>1, <2>1, <2>2, FlattensUnique
    <3> QED BY <2>2, <3>1 DEF Agree
  <2>4. h[n + 1] = h[n] \o t[n + 1]
    <3>1. n + 1 # 1 /\ (n + 1) - 1 = n
      BY <1>4
    <3> QED BY <1>2, <3>1
  <2>5. FlattenSeq(t) = FlattenSeq(s) \o t[n + 1]
    BY <1>1, <2>1, <2>2, <2>3, <2>4, Zenon
  <2> QED BY <1>4, <2>5
<1> QED BY <1>3, <1>4

\* The chunks of a list, one batch at a time
LEMMA ChunksNone == ChunksOf(<<>>) = <<>>
<1>1. [i \in DOMAIN <<>> |-> <<>>[i].chunks] = <<>>
  OBVIOUS
<1> QED BY <1>1 DEF ChunksOf, FlattenSeq

LEMMA ChunksAre ==
  /\ \A s \in Seq(Batch) : ChunksOf(s) \in Seq(Chunk)
  /\ \A s \in Seq(Batch) : \A b \in Batch : ChunksOf(s \o <<b>>) = ChunksOf(s) \o b.chunks
<1> DEFINE P(s) == [i \in DOMAIN s |-> s[i].chunks]
           S == {s \in Seq(Batch) : ChunksOf(s) \in Seq(Chunk)}
<1>1. ASSUME NEW s \in Seq(Batch), NEW b \in Batch, ChunksOf(s) \in Seq(Chunk)
      PROVE  ChunksOf(s \o <<b>>) = ChunksOf(s) \o b.chunks /\ ChunksOf(s \o <<b>>) \in Seq(Chunk)
  <2>1. PICK t \in Seq(Batch) : /\ t = s \o <<b>> /\ Len(t) = Len(s) + 1 /\ t[Len(s) + 1] = b
                                /\ \A i \in 1 .. Len(s) : t[i] = s[i]
    <3>1. /\ s \o <<b>> \in Seq(Batch) /\ Len(s \o <<b>>) = Len(s) + 1
          /\ (s \o <<b>>)[Len(s) + 1] = b /\ \A i \in 1 .. Len(s) : (s \o <<b>>)[i] = s[i]
      BY Longer
    <3> QED BY <3>1, Zenon
  <2>2. Len(s) \in Nat /\ DOMAIN s = 1 .. Len(s) /\ DOMAIN t = 1 .. Len(s) + 1
    BY <2>1, LenProperties
  <2>3. /\ Len(P(s)) = Len(s) /\ Len(P(t)) = Len(s) + 1 /\ Agree(P(s), P(t), Len(s))
        /\ P(t)[Len(s) + 1] = b.chunks
    BY <2>1, <2>2 DEF Agree
  <2>4. PICK p, q : p = P(s) /\ q = P(t)
    OBVIOUS
  <2>5. FlattenSeq(q) = IF Len(s) = 0 THEN q[1] ELSE FlattenSeq(p) \o q[Len(s) + 1]
    BY <2>2, <2>3, <2>4, FlattenMore
  <2>6. ChunksOf(t) = FlattenSeq(q) /\ ChunksOf(s) = FlattenSeq(p)
    BY <2>4 DEF ChunksOf
  <2>7. b.chunks \in Seq(Chunk)
    BY DEF Batch
  <2>8. CASE Len(s) = 0
    <3>1. s = <<>>
      BY <2>8, EmptySeq
    <3>2. ChunksOf(s) \o b.chunks = b.chunks
      BY <2>7, <3>1, ChunksNone, ConcatEmptySeq
    <3> QED BY <2>1, <2>3, <2>4, <2>5, <2>6, <2>7, <2>8, <3>2
  <2>9. CASE Len(s) # 0
    <3>1. ChunksOf(t) = ChunksOf(s) \o b.chunks
      BY <2>3, <2>4, <2>5, <2>6, <2>9
    <3> QED BY <1>1, <2>1, <2>7, <3>1, ConcatProperties
  <2> QED BY <2>8, <2>9
<1>2. <<>> \in S
  BY ChunksNone, EmptySeq
<1>3. \A s \in Seq(Batch) : \A b \in Batch : s \in S => s \o <<b>> \in S
  BY <1>1, Longer
<1> HIDE DEF S
<1>4. Seq(Batch) \subseteq S
  BY <1>2, <1>3, SeqInd
<1> QED BY <1>1, <1>4 DEF S

\* The chunks of two lists
LEMMA ChunksJoined ==
  ASSUME NEW s \in Seq(Batch), NEW t \in Seq(Batch)
  PROVE  ChunksOf(s \o t) = ChunksOf(s) \o ChunksOf(t)
<1> DEFINE S == {u \in Seq(Batch) : ChunksOf(s \o u) = ChunksOf(s) \o ChunksOf(u)}
<1>1. <<>> \in S
  <2>1. s \o <<>> = s /\ <<>> \in Seq(Batch)
    BY ConcatEmptySeq, EmptySeq
  <2>2. ChunksOf(s) \o ChunksOf(<<>>) = ChunksOf(s)
    BY ChunksAre, ChunksNone, ConcatEmptySeq
  <2> QED BY <2>1, <2>2
<1>2. ASSUME NEW u \in Seq(Batch), NEW b \in Batch, u \in S PROVE u \o <<b>> \in S
  <2>1. /\ <<b>> \in Seq(Batch) /\ u \o <<b>> \in Seq(Batch) /\ s \o u \in Seq(Batch)
    BY Singles, ConcatProperties
  <2>2. s \o (u \o <<b>>) = (s \o u) \o <<b>>
    BY <2>1, ConcatAssociative
  <2>3. ChunksOf((s \o u) \o <<b>>) = ChunksOf(s \o u) \o b.chunks
        /\ ChunksOf(u \o <<b>>) = ChunksOf(u) \o b.chunks
    BY <2>1, ChunksAre
  <2>4. PICK x \in Seq(Chunk), y \in Seq(Chunk), z \in Seq(Chunk) :
          x = ChunksOf(s) /\ y = ChunksOf(u) /\ z = b.chunks
    BY ChunksAre DEF Batch
  <2>5. (x \o y) \o z = x \o (y \o z)
    BY ConcatAssociative
  <2>6. ChunksOf(s \o u) = ChunksOf(s) \o ChunksOf(u)
    BY <1>2
  <2> QED BY <2>1, <2>2, <2>3, <2>4, <2>5, <2>6
<1> HIDE DEF S
<1>3. Seq(Batch) \subseteq S
  BY <1>1, <1>2, SeqInd
<1> QED BY <1>3 DEF S

\* The first batch's chunks are the first
LEMMA ChunksFirst ==
  ASSUME NEW s \in Seq(Batch), s # <<>>
  PROVE  /\ Head(s) \in Batch /\ Tail(s) \in Seq(Batch) /\ Head(s).chunks \in Seq(Chunk)
         /\ ChunksOf(s) = Head(s).chunks \o ChunksOf(Tail(s))
<1>1. Head(s) \in Batch /\ Tail(s) \in Seq(Batch) /\ s = <<Head(s)>> \o Tail(s)
  BY FirstOne
<1>2. PICK b \in Batch : b = Head(s)
  BY <1>1
<1>3. <<b>> \in Seq(Batch) /\ <<>> \in Seq(Batch) /\ <<>> \o <<b>> = <<b>>
  BY Singles, EmptySeq, ConcatEmptySeq
<1>4. b.chunks \in Seq(Chunk)
  BY DEF Batch
<1>5. ChunksOf(<<b>>) = <<>> \o b.chunks /\ <<>> \o b.chunks = b.chunks
  <2>1. ChunksOf(<<>> \o <<b>>) = ChunksOf(<<>>) \o b.chunks
    BY <1>3, ChunksAre
  <2> QED BY <1>3, <1>4, <2>1, ChunksNone, ConcatEmptySeq
<1>6. ChunksOf(<<b>> \o Tail(s)) = ChunksOf(<<b>>) \o ChunksOf(Tail(s))
  BY <1>1, <1>3, ChunksJoined
<1> QED BY <1>1, <1>2, <1>4, <1>5, <1>6

-----------------------------------------------------------------------------
\* Total's function
Totals(g, s) == g = [n \in 0 .. Len(s) |-> IF n = 0 THEN 0 ELSE g[n - 1] + s[n].size]

LEMMA TotalIs ==
  ASSUME NEW s PROVE Total(s) = (CHOOSE g : Totals(g, s))[Len(s)]
BY DEF Total, Totals

LEMMA TotalsExists ==
  ASSUME NEW s \in Seq(Chunk)
  PROVE  \E g : Totals(g, s)
<1> DEFINE S == {u \in Seq(Chunk) : \E g : Totals(g, u)}
<1>1. <<>> \in S
  <2>1. <<>> \in Seq(Chunk) /\ Len(<<>>) = 0
    BY EmptySeq
  <2> DEFINE g == [n \in 0 .. 0 |-> 0]
  <2>2. g = [n \in 0 .. 0 |-> IF n = 0 THEN 0 ELSE g[n - 1] + <<>>[n].size]
    OBVIOUS
  <2> HIDE DEF g
  <2>3. Totals(g, <<>>)
    BY <2>1, <2>2 DEF Totals
  <2> QED BY <2>1, <2>3
<1>2. ASSUME NEW u \in Seq(Chunk), NEW c \in Chunk, u \in S PROVE u \o <<c>> \in S
  <2>1. PICK g : Totals(g, u)
    BY <1>2
  <2>2. PICK v : v = u \o <<c>>
    OBVIOUS
  <2>3. PICK k \in Nat : /\ k = Len(u) /\ Len(v) = k + 1 /\ v \in Seq(Chunk)
                         /\ \A i \in 1 .. k : v[i] = u[i]
    BY <2>2, Longer
  <2> DEFINE h == [n \in 0 .. k + 1 |-> IF n <= k THEN g[n] ELSE g[k] + v[n].size]
  <2>4. ASSUME NEW n \in 0 .. k + 1
        PROVE  h[n] = IF n = 0 THEN 0 ELSE h[n - 1] + v[n].size
    <3>1. CASE n <= k
      <4>1. n \in 0 .. k /\ h[n] = g[n]
        BY <3>1
      <4>2. g[n] = IF n = 0 THEN 0 ELSE g[n - 1] + u[n].size
        BY <2>1, <2>3, <4>1 DEF Totals
      <4>3. n # 0 => n - 1 \in 0 .. k + 1 /\ h[n - 1] = g[n - 1] /\ v[n] = u[n]
        BY <2>3, <3>1
      <4> QED BY <4>1, <4>2, <4>3
    <3>2. CASE n = k + 1
      BY <3>2
    <3> QED BY <3>1, <3>2
  <2>5. h = [n \in 0 .. k + 1 |-> h[n]]
    OBVIOUS
  <2> HIDE DEF h
  <2>6. h = [n \in 0 .. k + 1 |-> IF n = 0 THEN 0 ELSE h[n - 1] + v[n].size]
    BY <2>4, <2>5
  <2>7. Totals(h, v)
    BY <2>3, <2>6 DEF Totals
  <2> QED BY <2>2, <2>3, <2>7
<1> HIDE DEF S
<1>3. Seq(Chunk) \subseteq S
  BY <1>1, <1>2, SeqInd
<1> QED BY <1>3 DEF S

\* The sizes of chunks, one chunk at a time
LEMMA TotalMore ==
  /\ Total(<<>>) = 0
  /\ \A s \in Seq(Chunk) : \A c \in Chunk : Total(s \o <<c>>) = Total(s) + c.size
<1>1. ASSUME NEW s \in Seq(Chunk)
      PROVE  \E g : /\ Total(s) = g[Len(s)]
                    /\ \A n \in 0 .. Len(s) : g[n] = IF n = 0 THEN 0 ELSE g[n - 1] + s[n].size
  <2>1. PICK g : Totals(g, s) /\ Total(s) = g[Len(s)]
    BY TotalIs, TotalsExists
  <2> QED BY <2>1 DEF Totals
<1>2. Total(<<>>) = 0
  <2>1. <<>> \in Seq(Chunk) /\ Len(<<>>) = 0
    BY EmptySeq
  <2>2. PICK g : /\ Total(<<>>) = g[Len(<<>>)]
                 /\ \A n \in 0 .. Len(<<>>) : g[n] = IF n = 0 THEN 0 ELSE g[n - 1] + <<>>[n].size
    BY <1>1, <2>1
  <2>3. 0 \in 0 .. Len(<<>>)
    BY <2>1
  <2>4. g[0] = 0
    BY <2>2, <2>3
  <2> QED BY <2>1, <2>2, <2>4
<1>3. ASSUME NEW s \in Seq(Chunk), NEW c \in Chunk
      PROVE  Total(s \o <<c>>) = Total(s) + c.size
  <2>1. PICK v : v = s \o <<c>>
    OBVIOUS
  <2>2. PICK k \in Nat : /\ k = Len(s) /\ Len(v) = k + 1 /\ v \in Seq(Chunk) /\ v[k + 1] = c
                         /\ \A i \in 1 .. k : v[i] = s[i]
    BY <2>1, Longer
  <2>3. PICK g : /\ Total(s) = g[k]
                 /\ \A n \in 0 .. k : g[n] = IF n = 0 THEN 0 ELSE g[n - 1] + s[n].size
    BY <1>1, <2>2
  <2>4. PICK h : /\ Total(v) = h[k + 1]
                 /\ \A n \in 0 .. k + 1 : h[n] = IF n = 0 THEN 0 ELSE h[n - 1] + v[n].size
    BY <1>1, <2>2
  <2> DEFINE S == {n \in Nat : n <= k => h[n] = g[n]}
  <2>5. 0 \in S
    BY <2>3, <2>4
  <2>6. ASSUME NEW n \in Nat, n \in S PROVE n + 1 \in S
    <3> SUFFICES ASSUME n + 1 <= k PROVE h[n + 1] = g[n + 1]
      OBVIOUS
    <3>1. n + 1 \in 0 .. k /\ n + 1 \in 0 .. k + 1 /\ n + 1 # 0 /\ (n + 1) - 1 = n /\ n + 1 \in 1 .. k
      OBVIOUS
    <3>2. h[n] = g[n]
      BY <2>6
    <3>3. h[n + 1] = h[n] + v[n + 1].size
      BY <2>4, <3>1
    <3>4. g[n + 1] = g[n] + s[n + 1].size
      BY <2>3, <3>1
    <3> QED BY <2>2, <3>1, <3>2, <3>3, <3>4
  <2> HIDE DEF S
  <2>7. k \in S
    BY <2>5, <2>6, NatInd
  <2>8. h[k] = g[k]
    BY <2>7 DEF S
  <2>9. h[k + 1] = h[k] + v[k + 1].size
    <3>1. k + 1 \in 0 .. k + 1 /\ k + 1 # 0 /\ (k + 1) - 1 = k
      OBVIOUS
    <3> QED BY <2>4, <3>1
  <2> QED BY <2>1, <2>2, <2>3, <2>4, <2>8, <2>9
<1> QED BY <1>2, <1>3

LEMMA TotalJoined ==
  /\ \A s \in Seq(Chunk) : Total(s) \in Nat
  /\ \A s, t \in Seq(Chunk) : Total(s \o t) = Total(s) + Total(t)
<1> DEFINE S == {s \in Seq(Chunk) : Total(s) \in Nat}
<1>1. <<>> \in S
  BY TotalMore, EmptySeq
<1>2. ASSUME NEW s \in Seq(Chunk), NEW c \in Chunk, s \in S PROVE s \o <<c>> \in S
  <2>1. s \o <<c>> \in Seq(Chunk) /\ Total(s \o <<c>>) = Total(s) + c.size /\ c.size \in Nat
    BY TotalMore, Longer DEF Chunk
  <2> QED BY <1>2, <2>1
<1> HIDE DEF S
<1>3. Seq(Chunk) \subseteq S
  BY <1>1, <1>2, SeqInd
<1>4. ASSUME NEW s \in Seq(Chunk), NEW t \in Seq(Chunk) PROVE Total(s \o t) = Total(s) + Total(t)
  <2> DEFINE U == {u \in Seq(Chunk) : Total(s \o u) = Total(s) + Total(u)}
  <2>1. <<>> \in U
    <3>1. s \o <<>> = s /\ <<>> \in Seq(Chunk) /\ Total(s) \in Nat
      BY <1>3, ConcatEmptySeq, EmptySeq DEF S
    <3> QED BY <3>1, TotalMore
  <2>2. ASSUME NEW u \in Seq(Chunk), NEW c \in Chunk, u \in U PROVE u \o <<c>> \in U
    <3>1. <<c>> \in Seq(Chunk) /\ u \o <<c>> \in Seq(Chunk) /\ s \o u \in Seq(Chunk)
      BY Singles, ConcatProperties
    <3>2. s \o (u \o <<c>>) = (s \o u) \o <<c>>
      BY <3>1, ConcatAssociative
    <3>3. Total((s \o u) \o <<c>>) = Total(s \o u) + c.size /\ Total(u \o <<c>>) = Total(u) + c.size
      BY <3>1, TotalMore
    <3>4. PICK x \in Nat, y \in Nat, z \in Nat : x = Total(s) /\ y = Total(u) /\ z = c.size
      BY <1>3 DEF S, Chunk
    <3>5. Total(s \o u) = x + y
      BY <2>2, <3>4
    <3>6. Total(s \o (u \o <<c>>)) = (x + y) + z /\ Total(u \o <<c>>) = y + z
      BY <3>2, <3>3, <3>4, <3>5
    <3>7. Total(s \o (u \o <<c>>)) = Total(s) + Total(u \o <<c>>)
      BY <3>4, <3>6
    <3> QED BY <3>1, <3>7
  <2> HIDE DEF U
  <2>3. Seq(Chunk) \subseteq U
    BY <2>1, <2>2, SeqInd
  <2> QED BY <2>3 DEF U
<1> QED BY <1>3, <1>4 DEF S

-----------------------------------------------------------------------------
(* Batches whose size is that of what they hold, and what is done to lists of *)
(* them                                                                       *)
Exact == {b \in Batch : Len(b.chunks) \in 1 .. kSize /\ b.size = Total(b.chunks) + Overhead}

LEMMA Positive ==
  kSize \in Nat /\ kSize > 0 /\ Overhead \in Nat /\ Overhead > 0
BY QuarantineAssumption

LEMMA ExactLists == Seq(Exact) \subseteq Seq(Batch)
<1>1. Exact \subseteq Batch
  BY DEF Exact
<1> QED BY <1>1, SeqMonotonic

\* A new batch, and one chunk more in a batch that is not full
LEMMA NewBatchIs ==
  ASSUME NEW c \in Chunk
  PROVE  NewBatch(c) \in Exact /\ NewBatch(c).chunks = <<c>> /\ NewBatch(c).size = c.size + Overhead
<1>1. <<c>> \in Seq(Chunk) /\ Len(<<c>>) = 1 /\ c.size \in Nat /\ <<>> \in Seq(Chunk) /\ <<>> \o <<c>> = <<c>>
  BY Singles, EmptySeq, ConcatEmptySeq DEF Chunk
<1>2. Total(<<>> \o <<c>>) = Total(<<>>) + c.size /\ Total(<<>>) = 0
  BY <1>1, TotalMore
<1>3. Total(<<c>>) = c.size
  BY <1>1, <1>2
<1>4. NewBatch(c).chunks = <<c>> /\ NewBatch(c).size = c.size + Overhead
  BY DEF NewBatch
<1>5. NewBatch(c) \in Batch
  BY <1>1, Positive DEF NewBatch, Batch
<1>6. Len(NewBatch(c).chunks) \in 1 .. kSize
  BY <1>1, <1>4, Positive
<1>7. NewBatch(c).size = Total(NewBatch(c).chunks) + Overhead
  BY <1>3, <1>4
<1> QED BY <1>4, <1>5, <1>6, <1>7 DEF Exact

LEMMA PushBackIs ==
  ASSUME NEW b \in Exact, NEW c \in Chunk, Len(b.chunks) # kSize
  PROVE  /\ PushBack(b, c) \in Exact /\ PushBack(b, c).chunks = b.chunks \o <<c>>
<1>1. PICK s \in Seq(Chunk) : s = b.chunks
  BY DEF Exact, Batch
<1>2. Len(s) \in 1 .. kSize /\ b.size = Total(s) + Overhead /\ c.size \in Nat /\ Total(s) \in Nat
  BY <1>1, TotalJoined DEF Exact, Chunk
<1>3. PICK t \in Seq(Chunk) : t = Append(s, c) /\ t = s \o <<c>> /\ Len(t) = Len(s) + 1
  <2>1. s \o <<c>> \in Seq(Chunk) /\ Append(s, c) = s \o <<c>> /\ Len(s \o <<c>>) = Len(s) + 1
    BY Longer
  <2> QED BY <2>1
<1>4. Total(t) = Total(s) + c.size
  BY <1>3, TotalMore
<1>5. PushBack(b, c) = [chunks |-> t, size |-> b.size + c.size]
  BY <1>1, <1>3 DEF PushBack
<1>6. PushBack(b, c).chunks = t /\ PushBack(b, c).size = b.size + c.size
  BY <1>5
<1>7. PushBack(b, c) \in Batch
  BY <1>2, <1>5, Positive DEF Batch
<1>8. Len(t) \in 1 .. kSize
  BY <1>1, <1>2, <1>3, Positive
<1>9. b.size + c.size = Total(t) + Overhead
  BY <1>2, <1>4, Positive
<1> QED BY <1>1, <1>3, <1>6, <1>7, <1>8, <1>9 DEF Exact

\* Two batches in one
LEMMA MergeIs ==
  ASSUME NEW a \in Exact, NEW b \in Exact, CanMerge(a, b)
  PROVE  Merge(a, b) \in Exact /\ Merge(a, b).chunks = a.chunks \o b.chunks
<1>1. PICK s \in Seq(Chunk), t \in Seq(Chunk) : s = a.chunks /\ t = b.chunks
  BY DEF Exact, Batch
<1>2. /\ Len(s) \in 1 .. kSize /\ a.size = Total(s) + Overhead /\ Total(s) \in Nat
      /\ Len(t) \in 1 .. kSize /\ b.size = Total(t) + Overhead /\ Total(t) \in Nat
      /\ Len(s) + Len(t) <= kSize
  BY <1>1, TotalJoined DEF Exact, CanMerge
<1>3. PICK u \in Seq(Chunk) : u = s \o t /\ Len(u) = Len(s) + Len(t)
  BY ConcatProperties
<1>4. Total(u) = Total(s) + Total(t)
  BY <1>3, TotalJoined
<1>5. Merge(a, b) = [chunks |-> u, size |-> a.size + b.size - Overhead]
  BY <1>1, <1>3 DEF Merge
<1>6. Merge(a, b).chunks = u /\ Merge(a, b).size = a.size + b.size - Overhead
  BY <1>5
<1>7. Merge(a, b) \in Batch
  BY <1>2, <1>5, Positive DEF Batch
<1>8. Len(u) \in 1 .. kSize
  BY <1>2, <1>3, Positive
<1>9. a.size + b.size - Overhead = Total(u) + Overhead
  BY <1>2, <1>4, Positive
<1> QED BY <1>1, <1>3, <1>6, <1>7, <1>8, <1>9 DEF Exact

\* One batch more in a list that is being merged: the chunks are the same
LEMMA MergeNextIs ==
  ASSUME NEW done \in Seq(Exact), NEW b \in Exact
  PROVE  /\ MergeNext(done, b) \in Seq(Exact)
         /\ ChunksOf(MergeNext(done, b)) = ChunksOf(done) \o b.chunks
         /\ Len(MergeNext(done, b)) <= Len(done) + 1 /\ Len(done) \in Nat
         /\ Len(MergeNext(done, b)) \in Nat
<1>1. done \in Seq(Batch) /\ b \in Batch
  BY ExactLists DEF Exact
<1>2. CASE done # <<>> /\ CanMerge(Last(done), b)
  <2>1. PICK e \in Seq(Exact), a \in Exact :
          /\ e = Front(done) /\ a = Last(done) /\ done = e \o <<a>>
          /\ Len(done) \in Nat /\ Len(e) = Len(done) - 1
    BY <1>2, LastOne
  <2>2. PICK m \in Exact : m = Merge(a, b) /\ m.chunks = a.chunks \o b.chunks
    BY <1>2, <2>1, MergeIs
  <2>3. MergeNext(done, b) = e \o <<m>>
    BY <1>2, <2>1, <2>2 DEF MergeNext
  <2>4. e \o <<m>> \in Seq(Exact) /\ Len(e \o <<m>>) = Len(e) + 1
    BY Longer
  <2>5. e \in Seq(Batch) /\ a \in Batch /\ m \in Batch
    BY ExactLists DEF Exact
  <2>6. ChunksOf(e \o <<m>>) = ChunksOf(e) \o m.chunks /\ ChunksOf(done) = ChunksOf(e) \o a.chunks
    BY <2>1, <2>5, ChunksAre
  <2>7. PICK x \in Seq(Chunk), y \in Seq(Chunk), z \in Seq(Chunk) :
          x = ChunksOf(e) /\ y = a.chunks /\ z = b.chunks
    BY <1>1, <2>5, ChunksAre DEF Batch
  <2>8. (x \o y) \o z = x \o (y \o z)
    BY ConcatAssociative
  <2>9. ChunksOf(e \o <<m>>) = ChunksOf(done) \o b.chunks
    BY <2>2, <2>6, <2>7, <2>8
  <2>10. Len(e \o <<m>>) = Len(done)
    BY <2>1, <2>4
  <2>11. PICK w \in Seq(Exact) : w = e \o <<m>> /\ w = MergeNext(done, b)
    BY <2>3, <2>4
  <2>12. Len(w) = Len(done) /\ ChunksOf(w) = ChunksOf(done) \o b.chunks
    BY <2>9, <2>10, <2>11
  <2>13. Len(w) <= Len(done) + 1 /\ Len(w) \in Nat
    BY <2>1, <2>12
  <2> QED BY <2>1, <2>11, <2>12, <2>13
<1>3. CASE ~ (done # <<>> /\ CanMerge(Last(done), b))
  <2>1. PICK u \in Seq(Exact) : /\ u = Append(done, b) /\ u = done \o <<b>>
                                /\ Len(u) = Len(done) + 1 /\ Len(done) \in Nat
    <3>1. done \o <<b>> \in Seq(Exact) /\ Append(done, b) = done \o <<b>>
          /\ Len(done \o <<b>>) = Len(done) + 1 /\ Len(done) \in Nat
      BY Longer
    <3> QED BY <3>1
  <2>2. MergeNext(done, b) = u
    BY <1>3, <2>1 DEF MergeNext
  <2>3. ChunksOf(u) = ChunksOf(done) \o b.chunks
    BY <1>1, <2>1, ChunksAre
  <2>4. Len(u) <= Len(done) + 1 /\ Len(u) \in Nat
    BY <2>1
  <2> QED BY <2>1, <2>2, <2>3, <2>4
<1> QED BY <1>2, <1>3

\* Merged's function
Merges(g, s) == g = [n \in 0 .. Len(s) |-> IF n = 0 THEN <<>> ELSE MergeNext(g[n - 1], s[n])]

LEMMA MergedIs ==
  ASSUME NEW s PROVE Merged(s) = (CHOOSE g : Merges(g, s))[Len(s)]
BY DEF Merged, Merges

LEMMA MergesExists ==
  ASSUME NEW s \in Seq(Exact)
  PROVE  \E g : Merges(g, s)
<1> DEFINE S == {u \in Seq(Exact) : \E g : Merges(g, u)}
<1>1. <<>> \in S
  <2>1. <<>> \in Seq(Exact) /\ Len(<<>>) = 0
    BY EmptySeq
  <2> DEFINE g == [n \in 0 .. 0 |-> <<>>]
  <2>2. g = [n \in 0 .. 0 |-> IF n = 0 THEN <<>> ELSE MergeNext(g[n - 1], <<>>[n])]
    OBVIOUS
  <2> HIDE DEF g
  <2>3. Merges(g, <<>>)
    BY <2>1, <2>2 DEF Merges
  <2> QED BY <2>1, <2>3
<1>2. ASSUME NEW u \in Seq(Exact), NEW b \in Exact, u \in S PROVE u \o <<b>> \in S
  <2>1. PICK g : Merges(g, u)
    BY <1>2
  <2>2. PICK v : v = u \o <<b>>
    OBVIOUS
  <2>3. PICK k \in Nat : /\ k = Len(u) /\ Len(v) = k + 1 /\ v \in Seq(Exact)
                         /\ \A i \in 1 .. k : v[i] = u[i]
    BY <2>2, Longer
  <2> DEFINE h == [n \in 0 .. k + 1 |-> IF n <= k THEN g[n] ELSE MergeNext(g[k], v[n])]
  <2>4. ASSUME NEW n \in 0 .. k + 1
        PROVE  h[n] = IF n = 0 THEN <<>> ELSE MergeNext(h[n - 1], v[n])
    <3>1. CASE n <= k
      <4>1. n \in 0 .. k /\ h[n] = g[n]
        BY <3>1
      <4>2. g[n] = IF n = 0 THEN <<>> ELSE MergeNext(g[n - 1], u[n])
        BY <2>1, <2>3, <4>1 DEF Merges
      <4>3. n # 0 => n - 1 \in 0 .. k + 1 /\ h[n - 1] = g[n - 1] /\ v[n] = u[n]
        BY <2>3, <3>1
      <4> QED BY <4>1, <4>2, <4>3
    <3>2. CASE n = k + 1
      BY <3>2
    <3> QED BY <3>1, <3>2
  <2>5. h = [n \in 0 .. k + 1 |-> h[n]]
    OBVIOUS
  <2> HIDE DEF h
  <2>6. h = [n \in 0 .. k + 1 |-> IF n = 0 THEN <<>> ELSE MergeNext(h[n - 1], v[n])]
    BY <2>4, <2>5
  <2>7. Merges(h, v)
    BY <2>3, <2>6 DEF Merges
  <2> QED BY <2>2, <2>3, <2>7
<1> HIDE DEF S
<1>3. Seq(Exact) \subseteq S
  BY <1>1, <1>2, SeqInd
<1> QED BY <1>3 DEF S

\* The merging of a list, one batch at a time
LEMMA MergedMore ==
  /\ Merged(<<>>) = <<>>
  /\ \A s \in Seq(Exact) : \A b \in Exact : Merged(s \o <<b>>) = MergeNext(Merged(s), b)
<1>1. ASSUME NEW s \in Seq(Exact)
      PROVE  \E g : /\ Merged(s) = g[Len(s)]
                    /\ \A n \in 0 .. Len(s) : g[n] = IF n = 0 THEN <<>> ELSE MergeNext(g[n - 1], s[n])
  <2>1. PICK g : Merges(g, s) /\ Merged(s) = g[Len(s)]
    BY MergedIs, MergesExists
  <2> QED BY <2>1 DEF Merges
<1>2. Merged(<<>>) = <<>>
  <2>1. <<>> \in Seq(Exact) /\ Len(<<>>) = 0
    BY EmptySeq
  <2>2. PICK g : /\ Merged(<<>>) = g[Len(<<>>)]
                 /\ \A n \in 0 .. Len(<<>>) :
                      g[n] = IF n = 0 THEN <<>> ELSE MergeNext(g[n - 1], <<>>[n])
    BY <1>1, <2>1
  <2>3. 0 \in 0 .. Len(<<>>)
    BY <2>1
  <2>4. g[0] = <<>>
    BY <2>2, <2>3
  <2> QED BY <2>1, <2>2, <2>4
<1>3. ASSUME NEW s \in Seq(Exact), NEW b \in Exact
      PROVE  Merged(s \o <<b>>) = MergeNext(Merged(s), b)
  <2>1. PICK v : v = s \o <<b>>
    OBVIOUS
  <2>2. PICK k \in Nat : /\ k = Len(s) /\ Len(v) = k + 1 /\ v \in Seq(Exact) /\ v[k + 1] = b
                         /\ \A i \in 1 .. k : v[i] = s[i]
    BY <2>1, Longer
  <2>3. PICK g : /\ Merged(s) = g[k]
                 /\ \A n \in 0 .. k : g[n] = IF n = 0 THEN <<>> ELSE MergeNext(g[n - 1], s[n])
    BY <1>1, <2>2
  <2>4. PICK h : /\ Merged(v) = h[k + 1]
                 /\ \A n \in 0 .. k + 1 : h[n] = IF n = 0 THEN <<>> ELSE MergeNext(h[n - 1], v[n])
    BY <1>1, <2>2
  <2> DEFINE S == {n \in Nat : n <= k => h[n] = g[n]}
  <2>5. 0 \in S
    BY <2>3, <2>4
  <2>6. ASSUME NEW n \in Nat, n \in S PROVE n + 1 \in S
    <3> SUFFICES ASSUME n + 1 <= k PROVE h[n + 1] = g[n + 1]
      OBVIOUS
    <3>1. n + 1 \in 0 .. k /\ n + 1 \in 0 .. k + 1 /\ n + 1 # 0 /\ (n + 1) - 1 = n /\ n + 1 \in 1 .. k
      OBVIOUS
    <3>2. h[n] = g[n]
      BY <2>6
    <3>3. h[n + 1] = MergeNext(h[n], v[n + 1])
      BY <2>4, <3>1
    <3>4. g[n + 1] = MergeNext(g[n], s[n + 1])
      BY <2>3, <3>1
    <3> QED BY <2>2, <3>1, <3>2, <3>3, <3>4
  <2> HIDE DEF S
  <2>7. k \in S
    BY <2>5, <2>6, NatInd
  <2>8. h[k] = g[k]
    BY <2>7 DEF S
  <2>9. h[k + 1] = MergeNext(h[k], v[k + 1])
    <3>1. k + 1 \in 0 .. k + 1 /\ k + 1 # 0 /\ (k + 1) - 1 = k
      OBVIOUS
    <3> QED BY <2>4, <3>1
  <2> QED BY <2>1, <2>2, <2>3, <2>4, <2>8, <2>9
<1> QED BY <1>2, <1>3

\* Merging makes fewer batches of the same chunks in the same order
LEMMA MergedKeeps ==
  ASSUME NEW s \in Seq(Exact)
  PROVE  /\ Merged(s) \in Seq(Exact) /\ ChunksOf(Merged(s)) = ChunksOf(s)
         /\ Len(Merged(s)) <= Len(s)
<1> DEFINE S == {u \in Seq(Exact) : /\ Merged(u) \in Seq(Exact)
                                    /\ ChunksOf(Merged(u)) = ChunksOf(u)
                                    /\ Len(Merged(u)) <= Len(u)}
<1>1. <<>> \in S
  <2>1. <<>> \in Seq(Exact) /\ Merged(<<>>) = <<>> /\ Len(<<>>) = 0
    BY EmptySeq, MergedMore
  <2>2. Merged(<<>>) \in Seq(Exact) /\ ChunksOf(Merged(<<>>)) = ChunksOf(<<>>)
    BY <2>1
  <2>3. Len(Merged(<<>>)) = 0
    BY <2>1
  <2>4. Len(Merged(<<>>)) <= Len(<<>>)
    BY <2>1, <2>3
  <2> QED BY <2>1, <2>2, <2>4
<1>2. ASSUME NEW u \in Seq(Exact), NEW b \in Exact, u \in S PROVE u \o <<b>> \in S
  <2>1. PICK d \in Seq(Exact) : d = Merged(u) /\ ChunksOf(d) = ChunksOf(u) /\ Len(d) <= Len(u)
    BY <1>2
  <2>2. PICK v \in Seq(Exact) : v = u \o <<b>> /\ Len(v) = Len(u) + 1 /\ Len(u) \in Nat
    <3>1. u \o <<b>> \in Seq(Exact) /\ Len(u \o <<b>>) = Len(u) + 1 /\ Len(u) \in Nat
      BY Longer
    <3> QED BY <3>1
  <2>3. PICK w : w = MergeNext(d, b)
    OBVIOUS
  <2>4. /\ w \in Seq(Exact) /\ ChunksOf(w) = ChunksOf(d) \o b.chunks
        /\ Len(w) <= Len(d) + 1 /\ Len(d) \in Nat /\ Len(w) \in Nat
    BY <2>3, MergeNextIs
  <2>5. Merged(v) = w
    BY <2>1, <2>2, <2>3, MergedMore
  <2>6. ChunksOf(v) = ChunksOf(u) \o b.chunks
    <3>1. u \in Seq(Batch) /\ b \in Batch
      BY ExactLists DEF Exact
    <3> QED BY <2>2, <3>1, ChunksAre
  <2>7. Len(w) <= Len(v)
    BY <2>1, <2>2, <2>4
  <2>8. v \in S
    BY <2>1, <2>4, <2>5, <2>6, <2>7
  <2> QED BY <2>2, <2>8
<1> HIDE DEF S
<1>3. Seq(Exact) \subseteq S
  BY <1>1, <1>2, SeqInd
<1> QED BY <1>3 DEF S

-----------------------------------------------------------------------------
(* Caches, and what is done to them                                           *)
Caches == {q \in [list : Seq(Exact), size : Int] :
             q.size = Total(ChunksOf(q.list)) + Len(q.list) * Overhead}

\* Overheads are added and subtracted
LEMMA Overheads ==
  /\ 0 * Overhead = 0
  /\ \A n \in Nat : n * Overhead \in Nat /\ (n + 1) * Overhead = n * Overhead + Overhead
  /\ \A n \in Nat : n # 0 => n * Overhead > 0
  /\ \A m, n \in Nat : (m + n) * Overhead = m * Overhead + n * Overhead
  /\ \A m, n \in Nat : Overhead * (m - n) = m * Overhead - n * Overhead
<1>1. PICK o \in Nat : o = Overhead /\ o > 0
  BY Positive
<1>2. \A n \in Nat : n * o \in Nat /\ (n + 1) * o = n * o + o
  BY <1>1
<1>3. 0 * o = 0 /\ \A m, n \in Nat : (m + n) * o = m * o + n * o
  BY <1>1
<1>4. \A m, n \in Nat : o * (m - n) = m * o - n * o
  BY <1>1
<1>5. \A n \in Nat : n # 0 => n * o > 0
  <2> SUFFICES ASSUME NEW n \in Nat, n # 0 PROVE n * o > 0
    OBVIOUS
  <2>1. n - 1 \in Nat /\ (n - 1) + 1 = n
    OBVIOUS
  <2>2. n * o = (n - 1) * o + o /\ (n - 1) * o \in Nat
    BY <1>2, <2>1
  <2> QED BY <1>1, <2>2
<1> QED BY <1>1, <1>2, <1>3, <1>4, <1>5

LEMMA Associative ==
  \A x, y, z \in Seq(Chunk) : (x \o y) \o z = x \o (y \o z)
BY ConcatAssociative

\* A cache of a list whose chunks and sizes are known
LEMMA CacheOf ==
  ASSUME NEW s \in Seq(Exact), NEW z
  PROVE  /\ s \in Seq(Batch) /\ Len(s) \in Nat /\ ChunksOf(s) \in Seq(Chunk)
         /\ Total(ChunksOf(s)) \in Nat /\ Len(s) * Overhead \in Nat
         /\ z = Total(ChunksOf(s)) + Len(s) * Overhead => [list |-> s, size |-> z] \in Caches
<1>1. s \in Seq(Batch) /\ Len(s) \in Nat
  BY ExactLists, LenProperties
<1>2. ChunksOf(s) \in Seq(Chunk) /\ Len(s) * Overhead \in Nat
  BY <1>1, ChunksAre, Overheads
<1>3. Total(ChunksOf(s)) \in Nat
  BY <1>2, TotalJoined
<1>4. ASSUME z = Total(ChunksOf(s)) + Len(s) * Overhead PROVE [list |-> s, size |-> z] \in Caches
  <2>1. z \in Int
    BY <1>2, <1>3, <1>4
  <2> QED BY <1>4, <2>1 DEF Caches
<1> QED BY <1>1, <1>2, <1>3, <1>4

LEMMA CacheIs ==
  ASSUME NEW q \in Caches
  PROVE  /\ q.list \in Seq(Exact) /\ q.list \in Seq(Batch) /\ Len(q.list) \in Nat
         /\ ChunksOf(q.list) \in Seq(Chunk) /\ Total(ChunksOf(q.list)) \in Nat
         /\ q.size = Total(ChunksOf(q.list)) + Len(q.list) * Overhead
         /\ q.size \in Int
<1>1. q.list \in Seq(Exact) /\ q.size \in Int
      /\ q.size = Total(ChunksOf(q.list)) + Len(q.list) * Overhead
  BY DEF Caches
<1> QED BY <1>1, CacheOf

LEMMA EmptyIs ==
  /\ EmptyCache \in Caches
  /\ \A q \in Caches : q.size <= 0 => q.list = <<>>
<1>1. EmptyCache \in Caches
  <2>1. <<>> \in Seq(Exact) /\ Len(<<>>) = 0 /\ <<>> \in Seq(Chunk)
    BY EmptySeq
  <2>2. Total(ChunksOf(<<>>)) = 0 /\ 0 * Overhead = 0
    BY ChunksNone, TotalMore, Overheads
  <2>3. 0 = Total(ChunksOf(<<>>)) + Len(<<>>) * Overhead
    BY <2>1, <2>2
  <2> QED BY <2>1, <2>3, CacheOf DEF EmptyCache
<1>2. ASSUME NEW q \in Caches, q.size <= 0 PROVE q.list = <<>>
  <2>1. PICK n \in Nat, m \in Nat : n = Len(q.list) /\ m = Total(ChunksOf(q.list))
    BY CacheIs
  <2>2. q.size = m + n * Overhead /\ n * Overhead \in Nat
    BY <2>1, CacheIs, Overheads
  <2>3. n = 0
    BY <1>2, <2>2, Overheads
  <2> QED BY <2>1, <2>3, CacheIs, EmptySeq
<1> QED BY <1>1, <1>2

\* Enqueue puts the chunk after the others
LEMMA EnqueueIs ==
  ASSUME NEW q \in Caches, NEW c \in Chunk
  PROVE  Enqueue(q, c) \in Caches /\ ChunksOf(Enqueue(q, c).list) = ChunksOf(q.list) \o <<c>>
<1>1. PICK s \in Seq(Exact), x \in Seq(Chunk), n \in Nat, m \in Nat, z \in Int, k \in Nat :
        /\ s = q.list /\ n = Len(s) /\ x = ChunksOf(s) /\ m = Total(x) /\ z = q.size
        /\ z = m + n * Overhead /\ s \in Seq(Batch) /\ k = c.size
  <2>1. c.size \in Nat
    BY DEF Chunk
  <2> QED BY <2>1, CacheIs
<1>2. <<c>> \in Seq(Chunk)
  BY Singles
<1>3. PICK y \in Seq(Chunk) : y = x \o <<c>> /\ Total(y) = m + k
  <2>1. x \o <<c>> \in Seq(Chunk) /\ Total(x \o <<c>>) = m + k
    BY <1>1, TotalMore, Longer
  <2> QED BY <2>1
<1>4. PICK o \in Nat, v \in Nat : o = Overhead /\ v = n * Overhead /\ (n + 1) * Overhead = v + o
  BY Overheads, Positive
<1>5. CASE s = <<>> \/ Len(Last(s).chunks) = kSize
  <2>1. PICK b \in Exact : b = NewBatch(c) /\ b.chunks = <<c>> /\ b.size = k + Overhead
    BY <1>1, NewBatchIs
  <2>2. PICK u \in Seq(Exact) : u = Append(s, b) /\ u = s \o <<b>> /\ Len(u) = n + 1
    <3>1. s \o <<b>> \in Seq(Exact) /\ Append(s, b) = s \o <<b>> /\ Len(s \o <<b>>) = Len(s) + 1
      BY Longer
    <3> QED BY <1>1, <3>1
  <2>3. Enqueue(q, c) = [list |-> u, size |-> z + b.size]
    BY <1>1, <1>5, <2>1, <2>2 DEF Enqueue
  <2>4. ChunksOf(u) = y
    <3>1. b \in Batch
      BY DEF Exact
    <3>2. ChunksOf(s \o <<b>>) = ChunksOf(s) \o b.chunks
      BY <1>1, <3>1, ChunksAre
    <3> QED BY <1>1, <1>3, <2>1, <2>2, <3>2
  <2>5. z + b.size = Total(ChunksOf(u)) + Len(u) * Overhead
    <3>1. Total(ChunksOf(u)) = m + k /\ Len(u) * Overhead = v + o
      BY <1>3, <1>4, <2>2, <2>4
    <3>2. z = m + v /\ b.size = k + o
      BY <1>1, <1>4, <2>1
    <3> QED BY <3>1, <3>2
  <2>6. [list |-> u, size |-> z + b.size] \in Caches
    BY <2>5, CacheOf
  <2>7. Enqueue(q, c).list = u
    BY <2>3
  <2> QED BY <1>1, <1>3, <2>3, <2>4, <2>6, <2>7
<1>6. CASE ~ (s = <<>> \/ Len(Last(s).chunks) = kSize)
  <2>1. PICK e \in Seq(Exact), a \in Exact :
          e = Front(s) /\ a = Last(s) /\ s = e \o <<a>> /\ Len(e) = n - 1 /\ n # 0
    <3>1. /\ Front(s) \in Seq(Exact) /\ Last(s) \in Exact /\ s = Front(s) \o <<Last(s)>>
          /\ Len(s) # 0 /\ Len(Front(s)) = Len(s) - 1
      BY <1>6, LastOne
    <3> QED BY <1>1, <3>1
  <2>2. PICK b \in Exact : b = PushBack(a, c) /\ b.chunks = a.chunks \o <<c>>
    BY <1>6, <2>1, PushBackIs
  <2>3. PICK u \in Seq(Exact) : u = e \o <<b>> /\ Len(u) = n
    <3>1. e \o <<b>> \in Seq(Exact) /\ Len(e \o <<b>>) = Len(e) + 1
      BY Longer
    <3>2. Len(e) + 1 = n
      BY <2>1
    <3> QED BY <3>1, <3>2
  <2>4. Enqueue(q, c) = [list |-> u, size |-> z + k]
    BY <1>1, <1>6, <2>1, <2>2, <2>3 DEF Enqueue
  <2>5. ChunksOf(u) = y
    <3>1. e \in Seq(Batch) /\ a \in Batch /\ b \in Batch
      BY ExactLists DEF Exact
    <3>2. ChunksOf(e \o <<b>>) = ChunksOf(e) \o b.chunks /\ ChunksOf(e \o <<a>>) = ChunksOf(e) \o a.chunks
      BY <3>1, ChunksAre
    <3>3. PICK p \in Seq(Chunk), r \in Seq(Chunk) : p = ChunksOf(e) /\ r = a.chunks
      BY <3>1, ChunksAre DEF Batch
    <3>4. (p \o r) \o <<c>> = p \o (r \o <<c>>)
      <4>1. PICK i \in Seq(Chunk) : i = <<c>>
        BY <1>2
      <4>2. (p \o r) \o i = p \o (r \o i)
        BY Associative
      <4> QED BY <4>1, <4>2
    <3> QED BY <1>1, <1>3, <2>1, <2>2, <2>3, <3>2, <3>3, <3>4
  <2>6. z + k = Total(ChunksOf(u)) + Len(u) * Overhead
    <3>1. Total(ChunksOf(u)) = m + k /\ Len(u) * Overhead = v
      BY <1>3, <1>4, <2>3, <2>5
    <3>2. z = m + v
      BY <1>1, <1>4
    <3> QED BY <3>1, <3>2
  <2>7. [list |-> u, size |-> z + k] \in Caches
    BY <2>6, CacheOf
  <2>8. Enqueue(q, c).list = u
    BY <2>4
  <2> QED BY <1>1, <1>3, <2>4, <2>5, <2>7, <2>8
<1> QED BY <1>5, <1>6

\* Merging changes neither the chunks nor their order
LEMMA MergeBatchesIs ==
  ASSUME NEW q \in Caches
  PROVE  MergeBatches(q) \in Caches /\ ChunksOf(MergeBatches(q).list) = ChunksOf(q.list)
<1>1. PICK s \in Seq(Exact), x \in Seq(Chunk), n \in Nat, m \in Nat, z \in Int :
        /\ s = q.list /\ n = Len(s) /\ x = ChunksOf(s) /\ m = Total(x) /\ z = q.size
        /\ z = m + n * Overhead
  BY CacheIs
<1>2. PICK u \in Seq(Exact), k \in Nat : u = Merged(s) /\ ChunksOf(u) = x /\ k = Len(u)
  BY <1>1, MergedKeeps, LenProperties
<1>4. MergeBatches(q) = [list |-> u, size |-> z - Overhead * (n - k)]
  BY <1>1, <1>2 DEF MergeBatches
<1>5. PICK v \in Nat, w \in Nat : v = n * Overhead /\ w = k * Overhead /\ Overhead * (n - k) = v - w
  BY Overheads
<1>6. z - Overhead * (n - k) = m + k * Overhead
  BY <1>1, <1>5
<1>7. [list |-> u, size |-> z - Overhead * (n - k)] \in Caches
  BY <1>1, <1>2, <1>6, CacheOf
<1>8. MergeBatches(q).list = u
  BY <1>4
<1> QED BY <1>1, <1>2, <1>4, <1>7, <1>8

\* The first batch of a cache whose size is above zero, and the rest
LEMMA DequeueIs ==
  ASSUME NEW q \in Caches, q.size > 0
  PROVE  \E b \in Exact : \E r \in Caches :
           /\ DequeueBatch(q).batch = b /\ DequeueBatch(q).rest = r
           /\ ChunksOf(q.list) = b.chunks \o ChunksOf(r.list)
<1>1. PICK s \in Seq(Exact), x \in Seq(Chunk), n \in Nat, m \in Nat, z \in Int :
        /\ s = q.list /\ n = Len(s) /\ x = ChunksOf(s) /\ m = Total(x) /\ z = q.size
        /\ z = m + n * Overhead /\ s \in Seq(Batch)
  BY CacheIs
<1>2. s # <<>>
  <2> SUFFICES ASSUME s = <<>> PROVE FALSE
    OBVIOUS
  <2>1. m = 0 /\ n = 0
    BY <1>1, ChunksNone, TotalMore, EmptySeq
  <2> QED BY <1>1, <2>1, Overheads
<1>3. PICK b \in Exact, r \in Seq(Exact), k \in Nat :
        b = Head(s) /\ r = Tail(s) /\ k = Len(r) /\ k + 1 = n
  <2>1. /\ Head(s) \in Exact /\ Tail(s) \in Seq(Exact) /\ Len(s) \in Nat /\ Len(Tail(s)) = Len(s) - 1
        /\ Len(Tail(s)) \in Nat
    BY <1>2, FirstOne, LenProperties
  <2>2. PICK r \in Seq(Exact), k \in Nat : r = Tail(s) /\ k = Len(r)
    BY <2>1
  <2>3. k + 1 = n
    BY <1>1, <2>1, <2>2
  <2> QED BY <2>1, <2>2, <2>3
<1>4. PICK y \in Seq(Chunk), w \in Seq(Chunk) : y = b.chunks /\ w = ChunksOf(r) /\ x = y \o w
  BY <1>1, <1>2, <1>3, ChunksFirst, CacheOf
<1>5. PICK i \in Nat, j \in Nat : i = Total(y) /\ j = Total(w) /\ m = i + j
  BY <1>1, <1>4, TotalJoined
<1>6. b.size = i + Overhead
  BY <1>4, <1>5 DEF Exact
<1>7. PICK o \in Nat, c \in Nat : o = Overhead /\ c = k * Overhead /\ n * Overhead = c + o
  <2>1. k * Overhead \in Nat /\ (k + 1) * Overhead = k * Overhead + Overhead
    BY Overheads
  <2>2. n * Overhead = (k + 1) * Overhead
    BY <1>3
  <2> QED BY <2>1, <2>2, Positive
<1>8. z - b.size = j + k * Overhead
  <2>1. z = m + (c + o) /\ m = i + j /\ b.size = i + o
    BY <1>1, <1>5, <1>6, <1>7
  <2> QED BY <1>7, <2>1
<1>9. PICK v \in Caches : v = [list |-> r, size |-> z - b.size]
  BY <1>3, <1>4, <1>5, <1>8, CacheOf
<1>10. DequeueBatch(q) = [batch |-> b, rest |-> v]
  BY <1>1, <1>3, <1>9 DEF DequeueBatch
<1>11. v.list = r /\ DequeueBatch(q).batch = b /\ DequeueBatch(q).rest = v
  BY <1>9, <1>10
<1> QED BY <1>1, <1>4, <1>11

\* Two caches in one
LEMMA JoinedIs ==
  ASSUME NEW q \in Caches, NEW r \in Caches
  PROVE  /\ [list |-> q.list \o r.list, size |-> q.size + r.size] \in Caches
         /\ ChunksOf(q.list \o r.list) = ChunksOf(q.list) \o ChunksOf(r.list)
<1>1. PICK s \in Seq(Exact), x \in Seq(Chunk), n \in Nat, m \in Nat, z \in Int :
        /\ s = q.list /\ n = Len(s) /\ x = ChunksOf(s) /\ m = Total(x) /\ z = q.size
        /\ z = m + n * Overhead /\ s \in Seq(Batch)
  BY CacheIs
<1>2. PICK t \in Seq(Exact), y \in Seq(Chunk), i \in Nat, j \in Nat, w \in Int :
        /\ t = r.list /\ i = Len(t) /\ y = ChunksOf(t) /\ j = Total(y) /\ w = r.size
        /\ w = j + i * Overhead /\ t \in Seq(Batch)
  BY CacheIs
<1>3. PICK u \in Seq(Exact) : u = s \o t /\ Len(u) = n + i
  <2>1. s \o t \in Seq(Exact) /\ Len(s \o t) = Len(s) + Len(t)
    BY ConcatProperties
  <2> QED BY <1>1, <1>2, <2>1
<1>4. ChunksOf(u) = x \o y
  BY <1>1, <1>2, <1>3, ChunksJoined
<1>5. Total(x \o y) = m + j
  BY <1>1, <1>2, TotalJoined
<1>6. PICK a \in Nat, b \in Nat :
        a = n * Overhead /\ b = i * Overhead /\ (n + i) * Overhead = a + b
  <2>1. n * Overhead \in Nat /\ i * Overhead \in Nat
    BY Overheads
  <2>2. (n + i) * Overhead = n * Overhead + i * Overhead
    BY Overheads
  <2> QED BY <2>1, <2>2
<1>7. z + w = Total(ChunksOf(u)) + Len(u) * Overhead
  <2>1. z = m + a /\ w = j + b
    BY <1>1, <1>2, <1>6
  <2>2. Total(ChunksOf(u)) = m + j /\ Len(u) * Overhead = a + b
    BY <1>3, <1>4, <1>5, <1>6
  <2> QED BY <2>1, <2>2
<1>8. [list |-> u, size |-> z + w] \in Caches
  BY <1>7, CacheOf
<1> QED BY <1>1, <1>2, <1>3, <1>4, <1>8

-----------------------------------------------------------------------------
(* What the variables hold                                                    *)
Places == {"idle", "drain", "size", "try", "lock", "recycle", "extract", "unlock", "dorecycle"}
Records == [pc : Places, purge : BOOLEAN, tmp : Seq(Exact), due : SUBSET Chunk]

Sound ==
  /\ limits \in [size : Nat, cache : Nat] /\ puts \in Nat /\ recycled \in SUBSET Chunk
  /\ global \in Caches /\ local \in [Threads -> Caches] /\ th \in [Threads -> Records]

\* The chunks of each keeper
G == <<"global", Free>>
L(t) == <<"local", t>>
P(t) == <<"tmp", t>>
K == [k \in Keepers |-> Kept(k)]

LEMMA KeepersAre ==
  /\ G \in Keepers /\ \A t \in Threads : L(t) \in Keepers /\ P(t) \in Keepers
  /\ \A k \in Keepers : k = G \/ (\E t \in Threads : k = L(t)) \/ (\E t \in Threads : k = P(t))
  /\ \A t, u : G # L(t) /\ G # P(t) /\ L(t) # P(u)
  /\ \A t, u : (L(t) = L(u) => t = u) /\ (P(t) = P(u) => t = u)
<1>1. \A t \in Threads : <<"local", t>> \in {"local", "tmp"} \X Threads
                         /\ <<"tmp", t>> \in {"local", "tmp"} \X Threads
  OBVIOUS
<1>2. \A k \in {"local", "tmp"} \X Threads :
        (\E t \in Threads : k = <<"local", t>>) \/ (\E t \in Threads : k = <<"tmp", t>>)
  OBVIOUS
<1>3. \A t, u : /\ <<"global", Free>> # <<"local", t>> /\ <<"global", Free>> # <<"tmp", t>>
                /\ <<"local", t>> # <<"tmp", u>>
                /\ (<<"local", t>> = <<"local", u>> => t = u) /\ (<<"tmp", t>> = <<"tmp", u>> => t = u)
  OBVIOUS
<1> QED BY <1>1, <1>2, <1>3, Zenon DEF G, L, P, Keepers

LEMMA KIs ==
  /\ K[G] = ChunksOf(global.list)
  /\ \A t \in Threads : K[L(t)] = ChunksOf(local[t].list) /\ K[P(t)] = ChunksOf(th[t].tmp)
<1>1. Kept(G) = ChunksOf(global.list)
  BY DEF Kept, G
<1>2. \A t \in Threads : Kept(L(t)) = ChunksOf(local[t].list) /\ Kept(P(t)) = ChunksOf(th[t].tmp)
  BY DEF Kept, L, P
<1> QED BY <1>1, <1>2, KeepersAre DEF K

LEMMA KNextIs ==
  /\ K'[G] = ChunksOf(global'.list)
  /\ \A t \in Threads : K'[L(t)] = ChunksOf(local'[t].list) /\ K'[P(t)] = ChunksOf(th'[t].tmp)
<1>1. Kept(G)' = ChunksOf(global'.list)
  BY DEF Kept, G, ChunksOf
<1>2. \A t \in Threads : Kept(L(t))' = ChunksOf(local'[t].list) /\ Kept(P(t))' = ChunksOf(th'[t].tmp)
  BY DEF Kept, L, P, ChunksOf
<1>3. K' = [k \in Keepers |-> Kept(k)']
  BY DEF K, Keepers
<1> QED BY <1>1, <1>2, <1>3, KeepersAre DEF K

LEMMA SoundKeeps ==
  ASSUME Sound PROVE K \in [Keepers -> Seq(Chunk)]
<1>1. ASSUME NEW k \in Keepers PROVE K[k] \in Seq(Chunk)
  <2>1. CASE k = G
    BY <2>1, KIs, CacheIs DEF Sound
  <2>2. ASSUME NEW t \in Threads PROVE K[L(t)] \in Seq(Chunk) /\ K[P(t)] \in Seq(Chunk)
    <3>1. local[t] \in Caches /\ th[t].tmp \in Seq(Exact)
      BY DEF Sound, Records
    <3>2. ChunksOf(local[t].list) \in Seq(Chunk) /\ ChunksOf(th[t].tmp) \in Seq(Chunk)
      BY <3>1, CacheIs, CacheOf
    <3> QED BY <3>2, KIs
  <2> QED BY <2>1, <2>2, KeepersAre
<1>2. K = [k \in Keepers |-> K[k]]
  BY DEF K
<1> QED BY <1>1, <1>2

\* K after a step, as a function of what it was
LEMMA KChanges ==
  ASSUME NEW f, f = [k \in Keepers |-> f[k]],
         f[G] = ChunksOf(global'.list),
         \A t \in Threads : f[L(t)] = ChunksOf(local'[t].list) /\ f[P(t)] = ChunksOf(th'[t].tmp)
  PROVE  K' = f
<1>1. ASSUME NEW k \in Keepers PROVE K'[k] = f[k]
  BY KNextIs, KeepersAre
<1>2. K' = [k \in Keepers |-> K'[k]]
  <2>1. K' = [k \in Keepers |-> Kept(k)']
    BY DEF K, Keepers
  <2> QED BY <2>1
<1>3. PICK g : g = K'
  OBVIOUS
<1> QED BY <1>1, <1>2, <1>3

\* A thread's record after a step
LEMMA GotoIs ==
  ASSUME NEW t \in Threads, NEW l \in Places, th \in [Threads -> Records], Goto(t, l)
  PROVE  /\ th' \in [Threads -> Records]
         /\ \A u \in Threads : /\ th'[u].tmp = th[u].tmp /\ th'[u].due = th[u].due
                               /\ th'[u].purge = th[u].purge
         /\ th'[t].pc = l /\ \A u \in Threads \ {t} : th'[u].pc = th[u].pc
<1>1. th' = [th EXCEPT ![t] = [th[t] EXCEPT !.pc = l]]
  BY DEF Goto
<1>2. th[t] \in Records
  OBVIOUS
<1>3. PICK r : r = [th[t] EXCEPT !.pc = l]
  OBVIOUS
<1>4. /\ r \in Records /\ r.pc = l /\ r.tmp = th[t].tmp /\ r.due = th[t].due
      /\ r.purge = th[t].purge
  BY <1>2, <1>3 DEF Records
<1> QED BY <1>1, <1>3, <1>4

LEMMA InitSound ==
  ASSUME Init PROVE Sound /\ K = [k \in Keepers |-> <<>>] /\ recycled = {} /\ puts = 0
<1>1. AtRest \in Records /\ AtRest.tmp = <<>>
  <2>1. <<>> \in Seq(Exact)
    BY EmptySeq
  <2> QED BY <2>1 DEF AtRest, Records, Places
<1>2. Sound
  BY <1>1, EmptyIs, QuarantineAssumption DEF Init, Sound
<1>3. EmptyCache.list = <<>>
  BY DEF EmptyCache
<1>4. K[G] = <<>> /\ \A t \in Threads : K[L(t)] = <<>> /\ K[P(t)] = <<>>
  BY <1>1, <1>3, KIs, ChunksNone DEF Init
<1>5. \A k \in Keepers : K[k] = <<>>
  BY <1>4, KeepersAre
<1>6. K = [k \in Keepers |-> K[k]]
  BY DEF K
<1> QED BY <1>2, <1>5, <1>6 DEF Init

-----------------------------------------------------------------------------
(* Each step keeps what the variables hold, and is one of four things to the  *)
(* chunks: one more, some moved from the beginning of what one keeper has to  *)
(* the end of another's, some given back, or nothing                          *)
Same == K' = K /\ recycled' = recycled /\ puts' = puts
More(t, c) == /\ c.n = puts + 1 /\ c.by = t /\ puts' = puts + 1
              /\ \/ K' = [K EXCEPT ![L(t)] = K[L(t)] \o <<c>>] /\ recycled' = recycled
                 \/ K' = K /\ recycled' = recycled \cup {c}
Moved(k, l, b, r) == /\ K[k] = b \o r /\ K' = [K EXCEPT ![k] = r, ![l] = K[l] \o b]
                     /\ recycled' = recycled /\ puts' = puts
GivenBack(t, b, r) == /\ K[P(t)] = b \o r /\ K' = [K EXCEPT ![P(t)] = r]
                      /\ recycled' = recycled \cup ToSet(b) /\ puts' = puts

LEMMA SetOf ==
  \A s \in Seq(Chunk) : ToSet(s) \subseteq Chunk /\ ToSet(s) = {s[i] : i \in 1 .. Len(s)}
<1> SUFFICES ASSUME NEW s \in Seq(Chunk)
             PROVE  ToSet(s) \subseteq Chunk /\ ToSet(s) = {s[i] : i \in 1 .. Len(s)}
  OBVIOUS
<1>1. DOMAIN s = 1 .. Len(s) /\ \A i \in 1 .. Len(s) : s[i] \in Chunk
  BY LenProperties, ElementOfSeq
<1> QED BY <1>1 DEF ToSet

\* A step that leaves the lists of batches alone, or their chunks
LEMMA SameIs ==
  ASSUME ChunksOf(global'.list) = ChunksOf(global.list),
         \A t \in Threads : ChunksOf(local'[t].list) = ChunksOf(local[t].list)
                            /\ ChunksOf(th'[t].tmp) = ChunksOf(th[t].tmp)
  PROVE  K' = K
<1>1. PICK f : f = K
  OBVIOUS
<1>2. f = [k \in Keepers |-> f[k]]
  BY <1>1 DEF K
<1>3. /\ f[G] = ChunksOf(global'.list)
      /\ \A t \in Threads : f[L(t)] = ChunksOf(local'[t].list) /\ f[P(t)] = ChunksOf(th'[t].tmp)
  BY <1>1, KIs
<1>4. K' = f
  BY <1>2, <1>3, KChanges
<1> QED BY <1>1, <1>4

LEMMA PutStep ==
  ASSUME Sound, NEW t \in Threads, Put(t)
  PROVE  /\ Sound' /\ \E c \in Chunk : More(t, c)
         /\ th'[t].due = th[t].due /\ th'[t].pc \in {"idle", "drain"}
         /\ \A u \in Threads \ {t} : th'[u] = th[u]
<1>1. PICK size \in Sizes :
        LET chunk == [n |-> puts + 1, by |-> t, size |-> size]
            q == Enqueue(local[t], chunk)
        IN  IF limits.cache # 0
              THEN /\ local' = [local EXCEPT ![t] = q]
                   /\ Goto(t, IF q.size > limits.cache THEN "drain" ELSE "idle")
                   /\ UNCHANGED recycled
              ELSE recycled' = recycled \cup {chunk} /\ UNCHANGED <<local, th>>
  BY DEF Put
<1>2. /\ puts' = puts + 1 /\ limits' = limits /\ global' = global /\ puts \in Nat
  BY DEF Put, Sound
<1>3. PICK c \in Chunk : c = [n |-> puts + 1, by |-> t, size |-> size]
  <2>1. puts + 1 \in Nat /\ size \in Nat
    BY <1>2, QuarantineAssumption
  <2> QED BY <2>1 DEF Chunk
<1>4. c.n = puts + 1 /\ c.by = t
  BY <1>3
<1>5. local[t] \in Caches
  BY DEF Sound
<1>6. PICK q \in Caches : q = Enqueue(local[t], c) /\ ChunksOf(q.list) = ChunksOf(local[t].list) \o <<c>>
  BY <1>5, EnqueueIs
<1>7. CASE limits.cache # 0
  <2>1. /\ local' = [local EXCEPT ![t] = q] /\ recycled' = recycled
        /\ Goto(t, IF q.size > limits.cache THEN "drain" ELSE "idle")
    BY <1>1, <1>3, <1>6, <1>7
  <2>2. PICK l \in Places : /\ l = IF q.size > limits.cache THEN "drain" ELSE "idle"
                           /\ l \in {"idle", "drain"}
    BY DEF Places
  <2>3. Goto(t, l) /\ th \in [Threads -> Records]
    BY <2>1, <2>2 DEF Sound
  <2>4. /\ th' \in [Threads -> Records] /\ \A u \in Threads : th'[u].tmp = th[u].tmp
        /\ th'[t].due = th[t].due /\ th'[t].pc \in {"idle", "drain"}
    BY <2>2, <2>3, GotoIs
  <2>5. local' \in [Threads -> Caches] /\ local'[t] = q /\ \A u \in Threads \ {t} : local'[u] = local[u]
    BY <2>1 DEF Sound
  <2>6. Sound'
    BY <1>2, <2>1, <2>4, <2>5 DEF Sound
  <2>7. PICK f : f = [K EXCEPT ![L(t)] = K[L(t)] \o <<c>>]
    OBVIOUS
  <2>8. f = [k \in Keepers |-> f[k]] /\ f[L(t)] = K[L(t)] \o <<c>>
        /\ \A k \in Keepers : k # L(t) => f[k] = K[k]
    BY <2>7, KeepersAre DEF K
  <2>9. f[G] = ChunksOf(global'.list)
    BY <1>2, <2>8, KIs, KeepersAre
  <2>10. ASSUME NEW u \in Threads
         PROVE  f[L(u)] = ChunksOf(local'[u].list) /\ f[P(u)] = ChunksOf(th'[u].tmp)
    <3>1. f[P(u)] = K[P(u)] /\ (u # t => f[L(u)] = K[L(u)])
      BY <2>8, KeepersAre
    <3>2. f[P(u)] = ChunksOf(th'[u].tmp)
      BY <2>4, <3>1, KIs
    <3>3. CASE u = t
      BY <1>6, <2>5, <2>8, <3>2, <3>3, KIs
    <3>4. CASE u # t
      BY <2>5, <3>1, <3>2, <3>4, KIs
    <3> QED BY <3>3, <3>4
  <2>11. K' = f
    BY <2>8, <2>9, <2>10, KChanges
  <2>12. More(t, c)
    BY <1>2, <1>4, <2>1, <2>7, <2>11 DEF More
  <2>13. \A u \in Threads \ {t} : th'[u] = th[u]
    BY <2>3 DEF Goto
  <2> QED BY <2>4, <2>6, <2>12, <2>13
<1>8. CASE limits.cache = 0
  <2>1. recycled' = recycled \cup {c} /\ local' = local /\ th' = th
    BY <1>1, <1>3, <1>8
  <2>2. Sound'
    BY <1>2, <2>1 DEF Sound
  <2>3. K' = K
    BY <1>2, <2>1, SameIs
  <2>4. More(t, c)
    BY <1>2, <1>4, <2>1, <2>3 DEF More
  <2>5. th[t].pc = "idle"
    BY DEF Put, At
  <2> QED BY <2>1, <2>2, <2>4, <2>5
<1> QED BY <1>7, <1>8

LEMMA CallStep ==
  ASSUME Sound, NEW t \in Threads, CallDrainAndRecycle(t)
  PROVE  /\ Sound' /\ Same
         /\ th'[t].due = ToSet(K[G] \o K[L(t)]) /\ th'[t].pc = "drain"
         /\ \A u \in Threads \ {t} : th'[u] = th[u]
<1>1. PICK r : r = [th[t] EXCEPT !.pc = "drain", !.purge = TRUE,
                                 !.due = ToSet(ChunksOf(global.list \o local[t].list))]
  OBVIOUS
<1>2. th' = [th EXCEPT ![t] = r]
  BY <1>1 DEF CallDrainAndRecycle
<1>3. local[t] \in Caches /\ global \in Caches /\ th[t] \in Records
  BY DEF Sound
<1>4. /\ ChunksOf(global.list \o local[t].list) = K[G] \o K[L(t)]
      /\ K[G] \in Seq(Chunk) /\ K[L(t)] \in Seq(Chunk)
  BY <1>3, JoinedIs, KIs, CacheIs
<1>5. K[G] \o K[L(t)] \in Seq(Chunk)
  BY <1>4, ConcatProperties
<1>6. ToSet(K[G] \o K[L(t)]) \in SUBSET Chunk
  BY <1>5, SetOf
<1>7. /\ r \in Records /\ r.pc = "drain" /\ r.tmp = th[t].tmp /\ r.due = ToSet(K[G] \o K[L(t)])
  BY <1>1, <1>3, <1>4, <1>6 DEF Records, Places
<1>8. /\ th' \in [Threads -> Records] /\ th'[t] = r /\ \A u \in Threads \ {t} : th'[u] = th[u]
  BY <1>2, <1>7 DEF Sound
<1>9. /\ global' = global /\ local' = local /\ recycled' = recycled /\ puts' = puts /\ limits' = limits
  BY DEF CallDrainAndRecycle
<1>10. Sound'
  BY <1>8, <1>9 DEF Sound
<1>11. \A u \in Threads : th'[u].tmp = th[u].tmp
  BY <1>7, <1>8
<1>12. K' = K
  BY <1>9, <1>11, SameIs
<1> QED BY <1>7, <1>8, <1>9, <1>10, <1>12 DEF Same

LEMMA DrainStep ==
  ASSUME Sound, NEW t \in Threads, Drain(t)
  PROVE  /\ Sound' /\ Moved(L(t), G, K[L(t)], <<>>)
         /\ th'[t].due = th[t].due /\ th'[t].pc \in {"lock", "size"}
         /\ \A u \in Threads \ {t} : th'[u] = th[u]
<1>1. PICK l \in Places : /\ l = IF th[t].purge THEN "lock" ELSE "size"
                         /\ l \in {"lock", "size"}
  BY DEF Places
<1>2. Goto(t, l) /\ th \in [Threads -> Records]
  BY <1>1 DEF Drain, Sound
<1>3. /\ th' \in [Threads -> Records] /\ \A u \in Threads : th'[u].tmp = th[u].tmp
      /\ th'[t].due = th[t].due /\ th'[t].pc \in {"lock", "size"}
  BY <1>1, <1>2, GotoIs
<1>4. /\ recycled' = recycled /\ puts' = puts /\ limits' = limits
      /\ global' = [list |-> global.list \o local[t].list, size |-> global.size + local[t].size]
      /\ local' = [local EXCEPT ![t] = EmptyCache]
  BY DEF Drain, Transfer
<1>5. local[t] \in Caches /\ global \in Caches
  BY DEF Sound
<1>6. global' \in Caches /\ ChunksOf(global'.list) = ChunksOf(global.list) \o ChunksOf(local[t].list)
  BY <1>4, <1>5, JoinedIs
<1>7. local' \in [Threads -> Caches] /\ local'[t] = EmptyCache /\ \A u \in Threads \ {t} : local'[u] = local[u]
  BY <1>4, EmptyIs DEF Sound
<1>8. Sound'
  BY <1>3, <1>4, <1>6, <1>7 DEF Sound
<1>9. EmptyCache.list = <<>>
  BY DEF EmptyCache
<1>10. PICK f : f = [K EXCEPT ![L(t)] = <<>>, ![G] = K[G] \o K[L(t)]]
  OBVIOUS
<1>11. f = [k \in Keepers |-> f[k]] /\ f[L(t)] = <<>> /\ f[G] = K[G] \o K[L(t)]
       /\ \A k \in Keepers : k # L(t) /\ k # G => f[k] = K[k]
  BY <1>10, KeepersAre DEF K
<1>12. f[G] = ChunksOf(global'.list)
  BY <1>6, <1>11, KIs
<1>13. ASSUME NEW u \in Threads
       PROVE  f[L(u)] = ChunksOf(local'[u].list) /\ f[P(u)] = ChunksOf(th'[u].tmp)
  <2>1. f[P(u)] = K[P(u)] /\ (u # t => f[L(u)] = K[L(u)])
    BY <1>11, KeepersAre
  <2>2. f[P(u)] = ChunksOf(th'[u].tmp)
    BY <1>3, <2>1, KIs
  <2>3. CASE u = t
    BY <1>7, <1>9, <1>11, <2>2, <2>3, ChunksNone
  <2>4. CASE u # t
    BY <1>7, <2>1, <2>2, <2>4, KIs
  <2> QED BY <2>3, <2>4
<1>14. K' = f
  BY <1>11, <1>12, <1>13, KChanges
<1>15. K[L(t)] = K[L(t)] \o <<>>
  <2>1. K[L(t)] \in Seq(Chunk)
    BY SoundKeeps, KeepersAre
  <2> QED BY <2>1, ConcatEmptySeq
<1>16. \A u \in Threads \ {t} : th'[u] = th[u]
  BY <1>2 DEF Goto
<1> QED BY <1>3, <1>4, <1>8, <1>10, <1>14, <1>15, <1>16 DEF Moved

LEMMA ExtractStep ==
  ASSUME Sound, NEW t \in Threads, Extract(t)
  PROVE  /\ Sound' /\ \E b, r \in Seq(Chunk) : Moved(G, P(t), b, r)
         /\ th'[t].due = th[t].due /\ th'[t].pc = th[t].pc /\ th'[t].purge = th[t].purge
         /\ \A u \in Threads \ {t} : th'[u] = th[u]
<1>1. /\ recycled' = recycled /\ puts' = puts /\ limits' = limits /\ local' = local
      /\ global' = DequeueBatch(global).rest
      /\ th' = [th EXCEPT ![t].tmp = Append(@, DequeueBatch(global).batch)]
  BY DEF Extract
<1>2. global \in Caches /\ th[t] \in Records /\ th[t].tmp \in Seq(Exact)
  BY DEF Sound, Records
<1>3. global.size > 0
  <2>1. PICK s \in Nat : s = limits.size
    BY DEF Sound
  <2>2. (s \div 10) * 9 >= 0
    OBVIOUS
  <2>3. min_size \in Int /\ min_size >= 0
    BY <2>1, <2>2 DEF min_size
  <2>4. global.size \in Int
    BY <1>2, CacheIs
  <2>5. global.size > (IF th[t].purge THEN 0 ELSE min_size)
    BY DEF Extract
  <2> QED BY <2>3, <2>4, <2>5
<1>4. PICK b \in Exact, q \in Caches :
        /\ DequeueBatch(global).batch = b /\ DequeueBatch(global).rest = q
        /\ ChunksOf(global.list) = b.chunks \o ChunksOf(q.list)
  BY <1>2, <1>3, DequeueIs
<1>5. PICK w \in Seq(Exact) : w = Append(th[t].tmp, b) /\ w = th[t].tmp \o <<b>>
  <2>1. PICK s \in Seq(Exact) : s = th[t].tmp
    BY <1>2
  <2>2. s \o <<b>> \in Seq(Exact) /\ Append(s, b) = s \o <<b>>
    BY Longer
  <2> QED BY <2>1, <2>2
<1>6. ChunksOf(w) = ChunksOf(th[t].tmp) \o b.chunks /\ b.chunks \in Seq(Chunk)
  <2>1. th[t].tmp \in Seq(Batch) /\ b \in Batch
    BY <1>2, ExactLists DEF Exact
  <2> QED BY <1>5, <2>1, ChunksAre DEF Batch
<1>7. PICK e : e = [th[t] EXCEPT !.tmp = w]
  OBVIOUS
<1>8. th' = [th EXCEPT ![t] = e]
  BY <1>1, <1>4, <1>5, <1>7
<1>9. e \in Records /\ e.tmp = w /\ e.due = th[t].due /\ e.pc = th[t].pc /\ e.purge = th[t].purge
  BY <1>2, <1>7 DEF Records
<1>10. th' \in [Threads -> Records] /\ th'[t] = e /\ \A u \in Threads \ {t} : th'[u] = th[u]
  BY <1>8, <1>9 DEF Sound
<1>11. Sound'
  BY <1>1, <1>4, <1>10 DEF Sound
<1>12. PICK r \in Seq(Chunk) : r = ChunksOf(q.list)
  BY CacheIs
<1>13. PICK f : f = [K EXCEPT ![G] = r, ![P(t)] = K[P(t)] \o b.chunks]
  OBVIOUS
<1>14. f = [k \in Keepers |-> f[k]] /\ f[G] = r /\ f[P(t)] = K[P(t)] \o b.chunks
       /\ \A k \in Keepers : k # P(t) /\ k # G => f[k] = K[k]
  BY <1>13, KeepersAre DEF K
<1>15. f[G] = ChunksOf(global'.list)
  BY <1>1, <1>4, <1>12, <1>14
<1>16. ASSUME NEW u \in Threads
       PROVE  f[L(u)] = ChunksOf(local'[u].list) /\ f[P(u)] = ChunksOf(th'[u].tmp)
  <2>1. f[L(u)] = K[L(u)] /\ (u # t => f[P(u)] = K[P(u)])
    BY <1>14, KeepersAre
  <2>2. f[L(u)] = ChunksOf(local'[u].list)
    BY <1>1, <2>1, KIs
  <2>3. CASE u = t
    BY <1>6, <1>9, <1>10, <1>14, <2>2, <2>3, KIs
  <2>4. CASE u # t
    BY <1>10, <2>1, <2>2, <2>4, KIs
  <2> QED BY <2>3, <2>4
<1>17. K' = f
  BY <1>14, <1>15, <1>16, KChanges
<1>18. K[G] = b.chunks \o r
  BY <1>4, <1>12, KIs
<1>19. Moved(G, P(t), b.chunks, r)
  BY <1>1, <1>13, <1>17, <1>18 DEF Moved
<1> QED BY <1>6, <1>9, <1>10, <1>11, <1>12, <1>19

LEMMA DoRecycleStep ==
  ASSUME Sound, NEW t \in Threads, DoRecycle(t)
  PROVE  /\ Sound' /\ (Same \/ \E b, r \in Seq(Chunk) : GivenBack(t, b, r))
         /\ th'[t].due = th[t].due /\ th'[t].pc \in {"idle", "dorecycle"}
         /\ \A u \in Threads \ {t} : th'[u] = th[u]
<1>1. /\ global' = global /\ puts' = puts /\ limits' = limits /\ local' = local /\ th[t].pc = "dorecycle"
  BY DEF DoRecycle, At
<1>2. th[t] \in Records /\ th[t].tmp \in Seq(Exact) /\ th \in [Threads -> Records]
  BY DEF Sound, Records
<1>3. CASE th[t].tmp = <<>>
  <2>1. recycled' = recycled /\ Goto(t, "idle") /\ "idle" \in Places
    BY <1>3 DEF DoRecycle, Places
  <2>2. /\ th' \in [Threads -> Records]
        /\ \A u \in Threads : /\ th'[u].tmp = th[u].tmp /\ th'[u].due = th[u].due
        /\ th'[t].pc = "idle"
    BY <1>2, <2>1, GotoIs
  <2>3. \A u \in Threads \ {t} : th'[u] = th[u]
    BY <1>2, <2>1 DEF Goto
  <2>4. Sound'
    BY <1>1, <2>1, <2>2 DEF Sound
  <2>5. K' = K
    BY <1>1, <2>2, SameIs
  <2> QED BY <1>1, <2>1, <2>2, <2>3, <2>4, <2>5 DEF Same
<1>4. CASE th[t].tmp # <<>>
  <2>1. PICK h \in Exact, w \in Seq(Exact) : h = Head(th[t].tmp) /\ w = Tail(th[t].tmp)
    BY <1>2, <1>4, FirstOne
  <2>2. recycled' = recycled \cup ToSet(h.chunks) /\ th' = [th EXCEPT ![t].tmp = Tail(@)]
    BY <1>4, <2>1 DEF DoRecycle
  <2>3. PICK e : e = [th[t] EXCEPT !.tmp = w]
    OBVIOUS
  <2>4. th' = [th EXCEPT ![t] = e]
    BY <2>1, <2>2, <2>3
  <2>5. e \in Records /\ e.tmp = w /\ e.due = th[t].due /\ e.pc = th[t].pc
    BY <1>2, <2>3 DEF Records
  <2>6. th' \in [Threads -> Records] /\ th'[t] = e /\ \A u \in Threads \ {t} : th'[u] = th[u]
    BY <1>2, <2>4, <2>5
  <2>7. PICK b \in Seq(Chunk), r \in Seq(Chunk) :
          b = h.chunks /\ r = ChunksOf(w) /\ ChunksOf(th[t].tmp) = b \o r
    <3>1. th[t].tmp \in Seq(Batch) /\ w \in Seq(Batch)
      BY <1>2, ExactLists
    <3>2. Head(th[t].tmp).chunks \in Seq(Chunk)
          /\ ChunksOf(th[t].tmp) = Head(th[t].tmp).chunks \o ChunksOf(Tail(th[t].tmp))
      BY <1>4, <3>1, ChunksFirst
    <3>3. ChunksOf(w) \in Seq(Chunk)
      BY CacheOf
    <3> QED BY <2>1, <3>2, <3>3
  <2>8. recycled' \in SUBSET Chunk
    <3>1. ToSet(b) \subseteq Chunk
      BY SetOf
    <3> QED BY <2>2, <2>7, <3>1 DEF Sound
  <2>9. Sound'
    BY <1>1, <2>6, <2>8 DEF Sound
  <2>10. PICK f : f = [K EXCEPT ![P(t)] = r]
    OBVIOUS
  <2>11. f = [k \in Keepers |-> f[k]] /\ f[P(t)] = r /\ \A k \in Keepers : k # P(t) => f[k] = K[k]
    BY <2>10, KeepersAre DEF K
  <2>12. f[G] = ChunksOf(global'.list)
    BY <1>1, <2>11, KIs, KeepersAre
  <2>13. ASSUME NEW u \in Threads
         PROVE  f[L(u)] = ChunksOf(local'[u].list) /\ f[P(u)] = ChunksOf(th'[u].tmp)
    <3>1. f[L(u)] = K[L(u)] /\ (u # t => f[P(u)] = K[P(u)])
      BY <2>11, KeepersAre
    <3>2. f[L(u)] = ChunksOf(local'[u].list)
      BY <1>1, <3>1, KIs
    <3>3. CASE u = t
      BY <2>5, <2>6, <2>7, <2>11, <3>2, <3>3
    <3>4. CASE u # t
      BY <2>6, <3>1, <3>2, <3>4, KIs
    <3> QED BY <3>3, <3>4
  <2>14. K' = f
    BY <2>11, <2>12, <2>13, KChanges
  <2>15. K[P(t)] = b \o r
    BY <2>7, KIs
  <2>16. GivenBack(t, b, r)
    BY <1>1, <2>2, <2>7, <2>10, <2>14, <2>15 DEF GivenBack
  <2> QED BY <1>1, <2>5, <2>6, <2>9, <2>16
<1> QED BY <1>3, <1>4

\* The other steps leave the chunks where they are
Other(t) == CheckSize(t) \/ TryLock(t) \/ Lock(t) \/ Recycle(t) \/ Extracted(t) \/ Unlock(t)

LEMMA OtherStep ==
  ASSUME Sound, NEW t \in Threads, Other(t)
  PROVE  /\ Sound' /\ Same /\ \A u \in Threads \ {t} : th'[u] = th[u]
         /\ \/ th'[t].due = {}
            \/ th'[t].due = th[t].due /\ th'[t].pc = "idle"
            \/ /\ th'[t].due = th[t].due /\ th'[t].pc # "unlock"
               /\ th[t].pc \in {"size", "try", "lock", "recycle"}
            \/ /\ th'[t].due = th[t].due /\ th'[t].purge = th[t].purge /\ th[t].pc = "extract"
               /\ (th[t].purge => global.size <= 0)
<1>1. /\ th \in [Threads -> Records] /\ global \in Caches
  BY DEF Sound
<1>2. /\ local' = local /\ recycled' = recycled /\ puts' = puts /\ limits' = limits
  BY DEF Other, CheckSize, TryLock, Lock, Recycle, Extracted, Unlock
<1>3. /\ th' \in [Threads -> Records] /\ \A u \in Threads : th'[u].tmp = th[u].tmp
      /\ \A u \in Threads \ {t} : th'[u] = th[u]
      /\ \/ th'[t].due = {}
         \/ th'[t].due = th[t].due /\ th'[t].pc = "idle"
         \/ /\ th'[t].due = th[t].due /\ th'[t].pc # "unlock"
            /\ th[t].pc \in {"size", "try", "lock", "recycle"}
         \/ /\ th'[t].due = th[t].due /\ th'[t].purge = th[t].purge /\ th[t].pc = "extract"
            /\ (th[t].purge => global.size <= 0)
  <2>1. CASE Unlock(t)
    <3>1. PICK e : e = [th[t] EXCEPT !.pc = "dorecycle", !.purge = FALSE, !.due = {}]
      OBVIOUS
    <3>2. th' = [th EXCEPT ![t] = e]
      BY <2>1, <3>1 DEF Unlock
    <3>3. e \in Records /\ e.tmp = th[t].tmp /\ e.due = {}
      BY <1>1, <3>1 DEF Records, Places
    <3> QED BY <1>1, <3>2, <3>3
  <2>2. CASE ~ Unlock(t)
    <3>1. PICK l \in Places :
            /\ Goto(t, l)
            /\ \/ l = "idle"
               \/ l # "unlock" /\ th[t].pc \in {"size", "try", "lock", "recycle"}
               \/ th[t].pc = "extract" /\ (th[t].purge => global.size <= 0)
      <4>1. CASE CheckSize(t)
        BY <4>1 DEF CheckSize, At, Places
      <4>2. CASE TryLock(t)
        BY <4>2 DEF TryLock, At, Places
      <4>3. CASE Lock(t)
        BY <4>3 DEF Lock, At, Places
      <4>4. CASE Recycle(t)
        BY <4>4 DEF Recycle, At, Places
      <4>5. CASE Extracted(t)
        BY <4>5 DEF Extracted, At, Places
      <4> QED BY <2>2, <4>1, <4>2, <4>3, <4>4, <4>5 DEF Other
    <3>2. /\ th' \in [Threads -> Records] /\ th'[t].pc = l
          /\ \A u \in Threads : /\ th'[u].tmp = th[u].tmp /\ th'[u].due = th[u].due
                                /\ th'[u].purge = th[u].purge
      BY <1>1, <3>1, GotoIs
    <3>3. \A u \in Threads \ {t} : th'[u] = th[u]
      BY <1>1, <3>1 DEF Goto
    <3> QED BY <3>1, <3>2, <3>3
  <2> QED BY <2>1, <2>2
<1>4. global' \in Caches /\ ChunksOf(global'.list) = ChunksOf(global.list)
  <2>1. global' = global \/ global' = MergeBatches(global)
    BY DEF Other, CheckSize, TryLock, Lock, Recycle, Extracted, Unlock
  <2>2. CASE global' = global
    BY <1>1, <2>2
  <2>3. CASE global' = MergeBatches(global)
    BY <1>1, <2>3, MergeBatchesIs
  <2> QED BY <2>1, <2>2, <2>3
<1>5. Sound'
  BY <1>2, <1>3, <1>4 DEF Sound
<1>6. K' = K
  BY <1>2, <1>3, <1>4, SameIs
<1> QED BY <1>2, <1>3, <1>5, <1>6 DEF Same

-----------------------------------------------------------------------------
(* Every chunk once.  What holds between each two elements of a sequence that *)
(* is joined holds in the parts and across them                               *)
Pairwise(s, R) == \A i, j \in 1 .. Len(s) : i < j => <<s[i], s[j]>> \in R

LEMMA SetJoined ==
  \A s, t \in Seq(Chunk) : ToSet(s \o t) = ToSet(s) \cup ToSet(t) /\ s \o t \in Seq(Chunk)
<1> SUFFICES ASSUME NEW s \in Seq(Chunk), NEW t \in Seq(Chunk)
             PROVE  ToSet(s \o t) = ToSet(s) \cup ToSet(t) /\ s \o t \in Seq(Chunk)
  OBVIOUS
<1>1. PICK m \in Nat, n \in Nat, u \in Seq(Chunk) :
        /\ m = Len(s) /\ n = Len(t) /\ u = s \o t /\ Len(u) = m + n
        /\ \A i \in 1 .. m + n : u[i] = IF i <= m THEN s[i] ELSE t[i - m]
  <2>1. /\ s \o t \in Seq(Chunk) /\ Len(s \o t) = Len(s) + Len(t) /\ Len(s) \in Nat /\ Len(t) \in Nat
        /\ \A i \in 1 .. Len(s) + Len(t) : (s \o t)[i] = IF i <= Len(s) THEN s[i] ELSE t[i - Len(s)]
    BY ConcatProperties, LenProperties
  <2>2. PICK m \in Nat, n \in Nat, u \in Seq(Chunk) : m = Len(s) /\ n = Len(t) /\ u = s \o t
    BY <2>1
  <2> QED BY <2>1, <2>2
<1>2. /\ ToSet(s) = {s[i] : i \in 1 .. m} /\ ToSet(t) = {t[i] : i \in 1 .. n}
      /\ ToSet(u) = {u[i] : i \in 1 .. m + n}
  BY <1>1, SetOf
<1>3. ToSet(u) \subseteq ToSet(s) \cup ToSet(t)
  <2> SUFFICES ASSUME NEW i \in 1 .. m + n PROVE u[i] \in ToSet(s) \cup ToSet(t)
    BY <1>2
  <2>1. CASE i <= m
    BY <1>1, <1>2, <2>1
  <2>2. CASE ~ (i <= m)
    <3>1. i - m \in 1 .. n /\ u[i] = t[i - m]
      BY <1>1, <2>2
    <3> QED BY <1>2, <3>1
  <2> QED BY <2>1, <2>2
<1>4. ToSet(s) \subseteq ToSet(u)
  BY <1>1, <1>2
<1>5. ToSet(t) \subseteq ToSet(u)
  <2> SUFFICES ASSUME NEW i \in 1 .. n PROVE t[i] \in ToSet(u)
    BY <1>2
  <2>1. i + m \in 1 .. m + n /\ ~ (i + m <= m) /\ (i + m) - m = i
    BY <1>1
  <2>2. u[i + m] = t[i]
    BY <1>1, <2>1
  <2> QED BY <1>2, <2>1, <2>2
<1> QED BY <1>1, <1>3, <1>4, <1>5

LEMMA PairwiseJoined ==
  ASSUME NEW s \in Seq(Chunk), NEW t \in Seq(Chunk), NEW R
  PROVE  Pairwise(s \o t, R) <=>
           Pairwise(s, R) /\ Pairwise(t, R) /\ \A c \in ToSet(s), d \in ToSet(t) : <<c, d>> \in R
<1>1. PICK m \in Nat, n \in Nat, u \in Seq(Chunk) :
        /\ m = Len(s) /\ n = Len(t) /\ u = s \o t /\ Len(u) = m + n
        /\ \A i \in 1 .. m + n : u[i] = IF i <= m THEN s[i] ELSE t[i - m]
  <2>1. /\ s \o t \in Seq(Chunk) /\ Len(s \o t) = Len(s) + Len(t) /\ Len(s) \in Nat /\ Len(t) \in Nat
        /\ \A i \in 1 .. Len(s) + Len(t) : (s \o t)[i] = IF i <= Len(s) THEN s[i] ELSE t[i - Len(s)]
    BY ConcatProperties, LenProperties
  <2>2. PICK m \in Nat, n \in Nat, u \in Seq(Chunk) : m = Len(s) /\ n = Len(t) /\ u = s \o t
    BY <2>1
  <2> QED BY <2>1, <2>2
<1>2. /\ ToSet(s) = {s[i] : i \in 1 .. m} /\ ToSet(t) = {t[i] : i \in 1 .. n}
  BY <1>1, SetOf
<1>3. \A i \in 1 .. m : i \in 1 .. m + n /\ u[i] = s[i]
  BY <1>1
<1>4. \A i \in 1 .. n : i + m \in 1 .. m + n /\ m < i + m /\ u[i + m] = t[i]
  <2> SUFFICES ASSUME NEW i \in 1 .. n PROVE i + m \in 1 .. m + n /\ m < i + m /\ u[i + m] = t[i]
    OBVIOUS
  <2>1. i + m \in 1 .. m + n /\ m < i + m /\ ~ (i + m <= m) /\ (i + m) - m = i
    BY <1>1
  <2> QED BY <1>1, <2>1
<1>5. ASSUME Pairwise(u, R)
      PROVE  Pairwise(s, R) /\ Pairwise(t, R) /\ \A c \in ToSet(s), d \in ToSet(t) : <<c, d>> \in R
  <2>1. \A i, j \in 1 .. m + n : i < j => <<u[i], u[j]>> \in R
    BY <1>1, <1>5 DEF Pairwise
  <2>2. \A i, j \in 1 .. m : i < j => <<s[i], s[j]>> \in R
    BY <1>3, <2>1
  <2>3. \A i, j \in 1 .. n : i < j => <<t[i], t[j]>> \in R
    <3> SUFFICES ASSUME NEW i \in 1 .. n, NEW j \in 1 .. n, i < j PROVE <<t[i], t[j]>> \in R
      OBVIOUS
    <3>1. i + m < j + m
      OBVIOUS
    <3> QED BY <1>4, <2>1, <3>1
  <2>4. \A i \in 1 .. m, j \in 1 .. n : <<s[i], t[j]>> \in R
    <3> SUFFICES ASSUME NEW i \in 1 .. m, NEW j \in 1 .. n PROVE <<s[i], t[j]>> \in R
      OBVIOUS
    <3>1. i < j + m
      OBVIOUS
    <3> QED BY <1>3, <1>4, <2>1, <3>1
  <2> QED BY <1>1, <1>2, <2>2, <2>3, <2>4 DEF Pairwise
<1>6. ASSUME Pairwise(s, R), Pairwise(t, R), \A c \in ToSet(s), d \in ToSet(t) : <<c, d>> \in R
      PROVE  Pairwise(u, R)
  <2> SUFFICES ASSUME NEW i \in 1 .. m + n, NEW j \in 1 .. m + n, i < j PROVE <<u[i], u[j]>> \in R
    BY <1>1 DEF Pairwise
  <2>1. CASE j <= m
    <3>1. i \in 1 .. m /\ j \in 1 .. m
      BY <2>1
    <3> QED BY <1>1, <1>3, <1>6, <3>1 DEF Pairwise
  <2>2. CASE i <= m /\ ~ (j <= m)
    <3>1. i \in 1 .. m /\ j - m \in 1 .. n /\ u[j] = t[j - m] /\ u[i] = s[i]
      BY <1>1, <2>2
    <3> QED BY <1>2, <1>6, <3>1
  <2>3. CASE ~ (i <= m)
    <3>1. /\ i - m \in 1 .. n /\ j - m \in 1 .. n /\ i - m < j - m
          /\ u[j] = t[j - m] /\ u[i] = t[i - m]
      BY <1>1, <2>3
    <3> QED BY <1>1, <1>6, <3>1 DEF Pairwise
  <2> QED BY <2>1, <2>2, <2>3
<1> QED BY <1>1, <1>5, <1>6

LEMMA Single ==
  /\ <<>> \in Seq(Chunk) /\ ToSet(<<>>) = {} /\ \A R : Pairwise(<<>>, R)
  /\ \A c \in Chunk : <<c>> \in Seq(Chunk) /\ ToSet(<<c>>) = {c} /\ \A R : Pairwise(<<c>>, R)
<1>1. <<>> \in Seq(Chunk) /\ Len(<<>>) = 0
  BY EmptySeq
<1>2. ToSet(<<>>) = {} /\ \A R : Pairwise(<<>>, R)
  <2>1. ToSet(<<>>) = {<<>>[i] : i \in 1 .. Len(<<>>)}
    BY <1>1, SetOf
  <2>2. 1 .. Len(<<>>) = {}
    BY <1>1
  <2> QED BY <2>1, <2>2 DEF Pairwise
<1>3. ASSUME NEW c \in Chunk
      PROVE  <<c>> \in Seq(Chunk) /\ ToSet(<<c>>) = {c} /\ \A R : Pairwise(<<c>>, R)
  <2>1. PICK s \in Seq(Chunk) : s = <<c>> /\ Len(s) = 1 /\ s[1] = c
    BY Singles
  <2>2. ToSet(s) = {c}
    <3>1. ToSet(s) = {s[i] : i \in 1 .. Len(s)}
      BY SetOf
    <3>2. 1 .. Len(s) = {1}
      BY <2>1
    <3> QED BY <2>1, <3>1, <3>2
  <2>3. \A R : Pairwise(s, R)
    BY <2>1 DEF Pairwise
  <2> QED BY <2>1, <2>2, <2>3
<1> QED BY <1>1, <1>2, <1>3

\* Sequences without a number twice
Different == {p \in Chunk \X Chunk : p[1].n # p[2].n}
Distinct(s) == Pairwise(s, Different)
Apart(X, Y) == \A c \in X, d \in Y : c.n # d.n

LEMMA DistinctJoined ==
  ASSUME NEW s \in Seq(Chunk), NEW t \in Seq(Chunk)
  PROVE  Distinct(s \o t) <=> Distinct(s) /\ Distinct(t) /\ Apart(ToSet(s), ToSet(t))
<1>1. ToSet(s) \subseteq Chunk /\ ToSet(t) \subseteq Chunk
  BY SetOf
<1>2. (\A c \in ToSet(s), d \in ToSet(t) : <<c, d>> \in Different) <=> Apart(ToSet(s), ToSet(t))
  BY <1>1 DEF Different, Apart
<1> QED BY <1>2, PairwiseJoined DEF Distinct

\* The chunks that f's keepers have, those given back and their numbers
Held(f, R) == R \cup UNION {ToSet(f[k]) : k \in Keepers}

Each(f, R, p) ==
  /\ \A k \in Keepers : Distinct(f[k])
  /\ \A k, l \in Keepers : k # l => Apart(ToSet(f[k]), ToSet(f[l]))
  /\ \A k \in Keepers : Apart(ToSet(f[k]), R)
  /\ \A c, d \in R : c.n = d.n => c = d
  /\ {c.n : c \in Held(f, R)} = 1 .. p

LEMMA MoveKeeps ==
  ASSUME NEW f \in [Keepers -> Seq(Chunk)], NEW R, NEW p, Each(f, R, p),
         NEW k \in Keepers, NEW l \in Keepers, k # l,
         NEW b \in Seq(Chunk), NEW r \in Seq(Chunk), f[k] = b \o r
  PROVE  Each([f EXCEPT ![k] = r, ![l] = f[l] \o b], R, p)
<1>1. PICK g : g = [f EXCEPT ![k] = r, ![l] = f[l] \o b]
  OBVIOUS
<1>2. g[k] = r /\ g[l] = f[l] \o b /\ \A i \in Keepers : i # k /\ i # l => g[i] = f[i]
  BY <1>1
<1>3. /\ ToSet(f[k]) = ToSet(b) \cup ToSet(r) /\ ToSet(g[l]) = ToSet(f[l]) \cup ToSet(b)
      /\ ToSet(g[k]) = ToSet(r)
  BY <1>2, SetJoined
<1>4. Distinct(b) /\ Distinct(r) /\ Apart(ToSet(b), ToSet(r))
  BY DistinctJoined DEF Each
<1>5. Distinct(g[l])
  <2>1. Apart(ToSet(f[l]), ToSet(b)) /\ Distinct(f[l])
    BY <1>3 DEF Each, Apart
  <2> QED BY <1>2, <1>4, <2>1, DistinctJoined
<1>6. \A i \in Keepers : Distinct(g[i])
  BY <1>2, <1>4, <1>5 DEF Each
<1>7. \A i, j \in Keepers : i # j => Apart(ToSet(g[i]), ToSet(g[j]))
  <2>1. \A i \in Keepers : i # k /\ i # l => ToSet(g[i]) = ToSet(f[i])
    BY <1>2
  <2>2. Apart(ToSet(g[k]), ToSet(g[l])) /\ Apart(ToSet(g[l]), ToSet(g[k]))
    BY <1>3, <1>4 DEF Each, Apart
  <2>3. ASSUME NEW i \in Keepers, i # k, i # l
        PROVE  /\ Apart(ToSet(g[k]), ToSet(g[i])) /\ Apart(ToSet(g[i]), ToSet(g[k]))
               /\ Apart(ToSet(g[l]), ToSet(g[i])) /\ Apart(ToSet(g[i]), ToSet(g[l]))
    BY <1>3, <2>1, <2>3 DEF Each, Apart
  <2>4. ASSUME NEW i \in Keepers, i # k, i # l, NEW j \in Keepers, j # k, j # l, i # j
        PROVE  Apart(ToSet(g[i]), ToSet(g[j]))
    BY <2>1, <2>4 DEF Each
  <2> QED BY <2>2, <2>3, <2>4
<1>8. \A i \in Keepers : Apart(ToSet(g[i]), R)
  <2>1. Apart(ToSet(g[k]), R) /\ Apart(ToSet(g[l]), R)
    BY <1>3 DEF Each, Apart
  <2> QED BY <1>2, <2>1 DEF Each
<1>9. Held(g, R) = Held(f, R)
  <2>1. \A c : (\E i \in Keepers : c \in ToSet(g[i])) <=> (\E i \in Keepers : c \in ToSet(f[i]))
    BY <1>2, <1>3
  <2> QED BY <2>1 DEF Held
<1> QED BY <1>1, <1>6, <1>7, <1>8, <1>9 DEF Each

LEMMA GivenBackKeeps ==
  ASSUME NEW f \in [Keepers -> Seq(Chunk)], NEW R, NEW p, Each(f, R, p),
         NEW k \in Keepers, NEW b \in Seq(Chunk), NEW r \in Seq(Chunk), f[k] = b \o r
  PROVE  Each([f EXCEPT ![k] = r], R \cup ToSet(b), p)
<1>1. PICK g : g = [f EXCEPT ![k] = r]
  OBVIOUS
<1>2. g[k] = r /\ \A i \in Keepers : i # k => g[i] = f[i]
  BY <1>1
<1>3. ToSet(f[k]) = ToSet(b) \cup ToSet(r) /\ ToSet(g[k]) = ToSet(r)
  BY <1>2, SetJoined
<1>4. Distinct(b) /\ Distinct(r) /\ Apart(ToSet(b), ToSet(r))
  BY DistinctJoined DEF Each
<1>5. \A i \in Keepers : Distinct(g[i])
  BY <1>2, <1>4 DEF Each
<1>6. \A i, j \in Keepers : i # j => Apart(ToSet(g[i]), ToSet(g[j]))
  <2>1. \A i \in Keepers : ToSet(g[i]) \subseteq ToSet(f[i])
    BY <1>2, <1>3
  <2>2. \A i, j \in Keepers : i # j => Apart(ToSet(f[i]), ToSet(f[j]))
    BY DEF Each
  <2> QED BY <2>1, <2>2 DEF Apart
<1>7. \A i \in Keepers : Apart(ToSet(g[i]), R \cup ToSet(b))
  <2>1. \A i \in Keepers : Apart(ToSet(f[i]), R)
    BY DEF Each
  <2>2. Apart(ToSet(g[k]), R) /\ Apart(ToSet(g[k]), ToSet(b))
    BY <1>3, <1>4, <2>1 DEF Apart
  <2>3. ASSUME NEW i \in Keepers, i # k PROVE Apart(ToSet(g[i]), R) /\ Apart(ToSet(g[i]), ToSet(b))
    <3>1. Apart(ToSet(f[i]), ToSet(f[k])) /\ ToSet(g[i]) = ToSet(f[i])
      BY <1>2, <2>3 DEF Each
    <3> QED BY <1>3, <2>1, <3>1 DEF Apart
  <2> QED BY <2>2, <2>3 DEF Apart
<1>8. \A c, d \in R \cup ToSet(b) : c.n = d.n => c = d
  <2>1. \A c, d \in ToSet(b) : c.n = d.n => c = d
    <3>1. ToSet(b) = {b[i] : i \in 1 .. Len(b)} /\ ToSet(b) \subseteq Chunk /\ Len(b) \in Nat
      BY SetOf, LenProperties
    <3>2. \A i, j \in 1 .. Len(b) : b[i].n = b[j].n => i = j
      <4> SUFFICES ASSUME NEW i \in 1 .. Len(b), NEW j \in 1 .. Len(b), i # j PROVE b[i].n # b[j].n
        OBVIOUS
      <4>1. i < j => b[i].n # b[j].n
        BY <1>4 DEF Distinct, Pairwise, Different
      <4>2. j < i => b[j].n # b[i].n
        BY <1>4 DEF Distinct, Pairwise, Different
      <4>3. i < j \/ j < i
        BY <3>1
      <4> QED BY <4>1, <4>2, <4>3
    <3> QED BY <3>1, <3>2
  <2>2. \A c \in ToSet(b), d \in R : c.n # d.n
    BY <1>3 DEF Each, Apart
  <2> QED BY <2>1, <2>2 DEF Each
<1>9. Held(g, R \cup ToSet(b)) = Held(f, R)
  <2>1. \A c : (c \in ToSet(b) \/ \E i \in Keepers : c \in ToSet(g[i]))
                 <=> (\E i \in Keepers : c \in ToSet(f[i]))
    BY <1>2, <1>3
  <2> QED BY <2>1 DEF Held
<1> QED BY <1>1, <1>5, <1>6, <1>7, <1>8, <1>9 DEF Each

\* A number that is new
LEMMA Numbers ==
  ASSUME NEW f, NEW R, NEW p \in Nat, Each(f, R, p)
  PROVE  /\ \A c \in R : c.n \in 1 .. p
         /\ \A k \in Keepers : \A c \in ToSet(f[k]) : c.n \in 1 .. p
<1>1. \A c \in Held(f, R) : c.n \in 1 .. p
  BY DEF Each
<1> QED BY <1>1 DEF Held

LEMMA MoreKeeps ==
  ASSUME NEW f \in [Keepers -> Seq(Chunk)], NEW R, NEW p \in Nat, Each(f, R, p),
         NEW k \in Keepers, NEW c \in Chunk, c.n = p + 1
  PROVE  Each([f EXCEPT ![k] = f[k] \o <<c>>], R, p + 1) /\ Each(f, R \cup {c}, p + 1)
<1>1. PICK g : g = [f EXCEPT ![k] = f[k] \o <<c>>]
  OBVIOUS
<1>2. g[k] = f[k] \o <<c>> /\ \A i \in Keepers : i # k => g[i] = f[i]
  BY <1>1
<1>3. ToSet(g[k]) = ToSet(f[k]) \cup {c}
  <2>1. PICK s \in Seq(Chunk), v \in Seq(Chunk) : s = f[k] /\ v = <<c>> /\ ToSet(v) = {c}
    BY Single
  <2>2. ToSet(s \o v) = ToSet(s) \cup ToSet(v)
    BY SetJoined
  <2> QED BY <1>2, <2>1, <2>2
<1>4. /\ \A d \in R : d.n # c.n
      /\ \A i \in Keepers : Apart(ToSet(f[i]), {c}) /\ Apart({c}, ToSet(f[i]))
  <2>1. ~ (p + 1 \in 1 .. p)
    OBVIOUS
  <2> QED BY <2>1, Numbers DEF Apart
<1>5. \A i \in Keepers : Distinct(g[i])
  <2>1. Distinct(g[k])
    <3>1. PICK s \in Seq(Chunk), v \in Seq(Chunk) :
            s = f[k] /\ v = <<c>> /\ ToSet(v) = {c} /\ Distinct(v)
      BY Single DEF Distinct
    <3>2. Distinct(s) /\ Apart(ToSet(s), ToSet(v))
      BY <1>4, <3>1 DEF Each
    <3>3. Distinct(s \o v)
      BY <3>1, <3>2, DistinctJoined
    <3> QED BY <1>2, <3>1, <3>3
  <2> QED BY <1>2, <2>1 DEF Each
<1>6. \A i, j \in Keepers : i # j => Apart(ToSet(g[i]), ToSet(g[j]))
  <2>1. \A i, j \in Keepers : i # j => Apart(ToSet(f[i]), ToSet(f[j]))
    BY DEF Each
  <2>2. ASSUME NEW i \in Keepers, i # k
        PROVE  Apart(ToSet(g[i]), ToSet(g[k])) /\ Apart(ToSet(g[k]), ToSet(g[i]))
    <3>1. Apart(ToSet(f[i]), ToSet(f[k])) /\ Apart(ToSet(f[k]), ToSet(f[i])) /\ g[i] = f[i]
      BY <1>2, <2>1, <2>2
    <3>2. Apart(ToSet(f[i]), {c}) /\ Apart({c}, ToSet(f[i]))
      BY <1>4
    <3> QED BY <1>3, <3>1, <3>2 DEF Apart
  <2>3. ASSUME NEW i \in Keepers, i # k, NEW j \in Keepers, j # k, i # j
        PROVE  Apart(ToSet(g[i]), ToSet(g[j]))
    BY <1>2, <2>1, <2>3
  <2> QED BY <2>2, <2>3
<1>7. \A i \in Keepers : Apart(ToSet(g[i]), R) /\ Apart(ToSet(f[i]), R \cup {c})
  BY <1>2, <1>3, <1>4 DEF Each, Apart
<1>8. \A d, e \in R \cup {c} : d.n = e.n => d = e
  BY <1>4 DEF Each
<1>9. Held(g, R) = Held(f, R) \cup {c} /\ Held(f, R \cup {c}) = Held(f, R) \cup {c}
  <2>1. \A d : (\E i \in Keepers : d \in ToSet(g[i])) <=> (\E i \in Keepers : d \in ToSet(f[i])) \/ d = c
    BY <1>2, <1>3
  <2> QED BY <2>1 DEF Held
<1>10. {d.n : d \in Held(f, R) \cup {c}} = 1 .. p + 1
  <2>1. {d.n : d \in Held(f, R) \cup {c}} = (1 .. p) \cup {p + 1}
    BY DEF Each
  <2> QED BY <2>1
<1>11. Each(g, R, p + 1)
  BY <1>5, <1>6, <1>7, <1>9, <1>10 DEF Each
<1>12. Each(f, R \cup {c}, p + 1)
  BY <1>7, <1>8, <1>9, <1>10 DEF Each
<1> QED BY <1>1, <1>11, <1>12

-----------------------------------------------------------------------------
(* The order of a thread's chunks, and what a purge has to sweep              *)
Rising(t) == {p \in Chunk \X Chunk : p[1].by = t /\ p[2].by = t => p[1].n < p[2].n}
Climbs(s, t) == Pairwise(s, Rising(t))
Below(X, Y, t) == \A c \in X, d \in Y : c.by = t /\ d.by = t => c.n < d.n

LEMMA ClimbsJoined ==
  ASSUME NEW s \in Seq(Chunk), NEW r \in Seq(Chunk), NEW t
  PROVE  Climbs(s \o r, t) <=> Climbs(s, t) /\ Climbs(r, t) /\ Below(ToSet(s), ToSet(r), t)
<1>1. ToSet(s) \subseteq Chunk /\ ToSet(r) \subseteq Chunk
  BY SetOf
<1>2. (\A c \in ToSet(s), d \in ToSet(r) : <<c, d>> \in Rising(t)) <=> Below(ToSet(s), ToSet(r), t)
  BY <1>1 DEF Rising, Below
<1> QED BY <1>2, PairwiseJoined DEF Climbs

\* Chunks none of which is t's
LEMMA OthersClimb ==
  ASSUME NEW s \in Seq(Chunk), NEW t, \A c \in ToSet(s) : c.by # t
  PROVE  Climbs(s, t)
<1>1. ToSet(s) = {s[i] : i \in 1 .. Len(s)} /\ ToSet(s) \subseteq Chunk
  BY SetOf
<1>2. \A i, j \in 1 .. Len(s) : <<s[i], s[j]>> \in Rising(t)
  BY <1>1 DEF Rising
<1> QED BY <1>2 DEF Climbs, Pairwise

InOrder(f) ==
  \A t \in Threads :
    /\ \A c \in ToSet(f[L(t)]) : c.by = t
    /\ Climbs(f[G], t) /\ Climbs(f[L(t)], t) /\ Below(ToSet(f[G]), ToSet(f[L(t)]), t)

\* Keepers that have the same chunks in the caches
LEMMA CachesOrder ==
  ASSUME NEW f, NEW g, InOrder(f), g[G] = f[G], \A t \in Threads : g[L(t)] = f[L(t)]
  PROVE  InOrder(g)
BY DEF InOrder

LEMMA MoreOrder ==
  ASSUME NEW f \in [Keepers -> Seq(Chunk)], NEW R, NEW p \in Nat, Each(f, R, p), InOrder(f),
         NEW t \in Threads, NEW c \in Chunk, c.n = p + 1, c.by = t
  PROVE  InOrder([f EXCEPT ![L(t)] = f[L(t)] \o <<c>>])
<1>1. PICK g : g = [f EXCEPT ![L(t)] = f[L(t)] \o <<c>>]
  OBVIOUS
<1>2. g[G] = f[G] /\ g[L(t)] = f[L(t)] \o <<c>> /\ \A u \in Threads \ {t} : g[L(u)] = f[L(u)]
  BY <1>1, KeepersAre
<1>3. PICK s \in Seq(Chunk), v \in Seq(Chunk) :
        s = f[L(t)] /\ v = <<c>> /\ ToSet(v) = {c} /\ Climbs(v, t)
  BY Single, KeepersAre DEF Climbs
<1>4. \A d \in ToSet(s) \cup ToSet(f[G]) : d.n < c.n
  <2>1. \A n \in 1 .. p : n < p + 1
    OBVIOUS
  <2> QED BY <1>3, <2>1, Numbers, KeepersAre
<1>5. /\ \A d \in ToSet(s) : d.by = t
      /\ Climbs(f[G], t) /\ Climbs(s, t) /\ Below(ToSet(f[G]), ToSet(s), t)
  BY <1>3 DEF InOrder
<1>6. Climbs(s \o v, t)
  <2>1. Below(ToSet(s), ToSet(v), t)
    BY <1>3, <1>4 DEF Below
  <2> QED BY <1>3, <1>5, <2>1, ClimbsJoined
<1>7. ToSet(s \o v) = ToSet(s) \cup {c}
  <2>1. ToSet(s \o v) = ToSet(s) \cup ToSet(v)
    BY SetJoined
  <2> QED BY <1>3, <2>1
<1>8. Below(ToSet(f[G]), ToSet(s \o v), t) /\ \A d \in ToSet(s \o v) : d.by = t
  BY <1>4, <1>5, <1>7 DEF Below
<1>9. g[L(t)] = s \o v
  BY <1>2, <1>3
<1>10. ASSUME NEW u \in Threads
       PROVE  /\ \A d \in ToSet(g[L(u)]) : d.by = u
              /\ Climbs(g[G], u) /\ Climbs(g[L(u)], u) /\ Below(ToSet(g[G]), ToSet(g[L(u)]), u)
  <2>1. CASE u = t
    BY <1>2, <1>5, <1>6, <1>8, <1>9, <2>1
  <2>2. CASE u # t
    BY <1>2, <2>2 DEF InOrder
  <2> QED BY <2>1, <2>2
<1> QED BY <1>1, <1>10 DEF InOrder

LEMMA DrainOrder ==
  ASSUME NEW f \in [Keepers -> Seq(Chunk)], InOrder(f), NEW t \in Threads
  PROVE  InOrder([f EXCEPT ![L(t)] = <<>>, ![G] = f[G] \o f[L(t)]])
<1>1. PICK g : g = [f EXCEPT ![L(t)] = <<>>, ![G] = f[G] \o f[L(t)]]
  OBVIOUS
<1>2. /\ g[G] = f[G] \o f[L(t)] /\ g[L(t)] = <<>> /\ \A u \in Threads \ {t} : g[L(u)] = f[L(u)]
  BY <1>1, KeepersAre
<1>3. PICK x \in Seq(Chunk), y \in Seq(Chunk) : x = f[G] /\ y = f[L(t)]
  BY KeepersAre
<1>4. ToSet(g[G]) = ToSet(x) \cup ToSet(y) /\ g[G] = x \o y
  BY <1>2, <1>3, SetJoined
<1>5. \A c \in ToSet(y) : c.by = t
  BY <1>3 DEF InOrder
<1>6. ASSUME NEW u \in Threads
      PROVE  /\ \A d \in ToSet(g[L(u)]) : d.by = u
             /\ Climbs(g[G], u) /\ Climbs(g[L(u)], u) /\ Below(ToSet(g[G]), ToSet(g[L(u)]), u)
  <2>1. CASE u = t
    <3>1. Climbs(x, t) /\ Climbs(y, t) /\ Below(ToSet(x), ToSet(y), t)
      BY <1>3 DEF InOrder
    <3>2. Climbs(g[G], t)
      BY <1>4, <3>1, ClimbsJoined
    <3>3. ToSet(g[L(t)]) = {} /\ Climbs(g[L(t)], t)
      BY <1>2, Single DEF Climbs
    <3> QED BY <2>1, <3>2, <3>3 DEF Below
  <2>2. CASE u # t
    <3>1. PICK z \in Seq(Chunk) : z = f[L(u)] /\ z = g[L(u)]
      BY <1>2, <2>2, KeepersAre
    <3>2. /\ \A d \in ToSet(z) : d.by = u
          /\ Climbs(x, u) /\ Climbs(z, u) /\ Below(ToSet(x), ToSet(z), u)
      BY <1>3, <3>1 DEF InOrder
    <3>3. Climbs(y, u)
      BY <1>5, <2>2, OthersClimb
    <3>4. Below(ToSet(x), ToSet(y), u) /\ Below(ToSet(y), ToSet(z), u)
      BY <1>5, <2>2 DEF Below
    <3>5. Climbs(g[G], u)
      BY <1>4, <3>2, <3>3, <3>4, ClimbsJoined
    <3>6. Below(ToSet(g[G]), ToSet(z), u)
      BY <1>4, <3>2, <3>4 DEF Below
    <3> QED BY <3>1, <3>2, <3>5, <3>6
  <2> QED BY <2>1, <2>2
<1> QED BY <1>1, <1>6 DEF InOrder

LEMMA ExtractOrder ==
  ASSUME NEW f \in [Keepers -> Seq(Chunk)], InOrder(f), NEW t \in Threads,
         NEW b \in Seq(Chunk), NEW r \in Seq(Chunk), f[G] = b \o r, NEW s
  PROVE  /\ InOrder([f EXCEPT ![G] = r, ![P(t)] = s])
         /\ \A u \in Threads : Below(ToSet(b), ToSet(r) \cup ToSet(f[L(u)]), u)
<1>1. PICK g : g = [f EXCEPT ![G] = r, ![P(t)] = s]
  OBVIOUS
<1>2. g[G] = r /\ \A u \in Threads : g[L(u)] = f[L(u)]
  BY <1>1, KeepersAre
<1>3. ToSet(f[G]) = ToSet(b) \cup ToSet(r)
  BY SetJoined
<1>4. ASSUME NEW u \in Threads
      PROVE  /\ \A d \in ToSet(g[L(u)]) : d.by = u
             /\ Climbs(g[G], u) /\ Climbs(g[L(u)], u) /\ Below(ToSet(g[G]), ToSet(g[L(u)]), u)
             /\ Below(ToSet(b), ToSet(r) \cup ToSet(f[L(u)]), u)
  <2>1. /\ \A d \in ToSet(f[L(u)]) : d.by = u
        /\ Climbs(f[G], u) /\ Climbs(f[L(u)], u) /\ Below(ToSet(f[G]), ToSet(f[L(u)]), u)
    BY DEF InOrder
  <2>2. Climbs(r, u) /\ Below(ToSet(b), ToSet(r), u)
    BY <2>1, ClimbsJoined
  <2>3. Below(ToSet(r), ToSet(f[L(u)]), u) /\ Below(ToSet(b), ToSet(r) \cup ToSet(f[L(u)]), u)
    BY <1>3, <2>1, <2>2 DEF Below
  <2> QED BY <1>2, <2>1, <2>2, <2>3
<1> QED BY <1>1, <1>4 DEF InOrder

\* What is due to thread u's purge, u's record being r
Swept(f, p, u, r) ==
  /\ \A c \in r.due : c.n <= p
  /\ \A v \in Threads \ {u} : r.due \cap ToSet(f[L(v)]) = {}
  /\ r.pc \notin {"idle", "drain", "dorecycle"} => r.due \cap ToSet(f[L(u)]) = {}
  /\ r.pc = "unlock" /\ r.purge => r.due \cap ToSet(f[G]) = {}

IInv == Sound /\ Each(K, recycled, puts) /\ InOrder(K) /\ \A u \in Threads : Swept(K, puts, u, th[u])

LEMMA InitIInv == Init => IInv
<1> SUFFICES ASSUME Init PROVE IInv
  OBVIOUS
<1>1. Sound /\ K = [k \in Keepers |-> <<>>] /\ recycled = {} /\ puts = 0
  BY InitSound
<1>2. PICK f \in [Keepers -> Seq(Chunk)] : f = K /\ \A k \in Keepers : f[k] = <<>>
  <2>1. <<>> \in Seq(Chunk)
    BY Single
  <2>2. PICK f : f = [k \in Keepers |-> <<>>]
    OBVIOUS
  <2>3. f \in [Keepers -> Seq(Chunk)] /\ \A k \in Keepers : f[k] = <<>>
    BY <2>1, <2>2
  <2> QED BY <1>1, <2>2, <2>3
<1>3. \A k \in Keepers : ToSet(f[k]) = {} /\ \A R : Pairwise(f[k], R)
  BY <1>2, Single
<1>4. Each(f, {}, 0)
  <2>1. Held(f, {}) = {} /\ 1 .. 0 = {}
    BY <1>3 DEF Held
  <2>2. {c.n : c \in Held(f, {})} = 1 .. 0
    BY <2>1
  <2> QED BY <1>3, <2>2 DEF Each, Distinct, Apart
<1>5. InOrder(f)
  BY <1>3, KeepersAre DEF InOrder, Climbs, Below
<1>6. \A u \in Threads : th[u] = AtRest
  BY DEF Init
<1>7. \A u \in Threads : Swept(f, 0, u, th[u])
  <2>1. AtRest.due = {}
    BY DEF AtRest
  <2> QED BY <1>6, <2>1 DEF Swept
<1> QED BY <1>1, <1>2, <1>4, <1>5, <1>7 DEF IInv

-----------------------------------------------------------------------------
(* The invariant is kept                                                      *)
LEMMA SweptSame ==
  ASSUME NEW f, NEW p, NEW u, NEW r, Swept(f, p, u, r), NEW g, NEW q,
         \A c \in r.due : c.n <= q,
         \A t \in Threads : r.due \cap ToSet(g[L(t)]) \subseteq r.due \cap ToSet(f[L(t)]),
         r.due \cap ToSet(g[G]) \subseteq r.due \cap ToSet(f[G])
  PROVE  u \in Threads => Swept(g, q, u, r)
BY DEF Swept

LEMMA PutKeeps ==
  ASSUME IInv, NEW t \in Threads, Put(t) PROVE IInv'
<1>1. PICK c \in Chunk : More(t, c)
  BY PutStep DEF IInv
<1>2. /\ Sound' /\ th'[t].due = th[t].due /\ th'[t].pc \in {"idle", "drain"}
      /\ \A u \in Threads \ {t} : th'[u] = th[u]
  BY PutStep DEF IInv
<1>3. PICK f \in [Keepers -> Seq(Chunk)], p \in Nat : f = K /\ p = puts
  BY SoundKeeps DEF IInv, Sound
<1>4. PICK g, R : g = K' /\ R = recycled' /\ puts' = p + 1
  BY <1>1, <1>3 DEF More
<1>5. /\ c.n = p + 1 /\ c.by = t
      /\ \/ g = [f EXCEPT ![L(t)] = f[L(t)] \o <<c>>] /\ R = recycled
         \/ g = f /\ R = recycled \cup {c}
  BY <1>1, <1>3, <1>4 DEF More
<1>6. Each(f, recycled, p) /\ InOrder(f) /\ \A u \in Threads : Swept(f, p, u, th[u])
  BY <1>3 DEF IInv
<1>7. Each(g, R, p + 1)
  <2>1. PICK k \in Keepers : k = L(t)
    BY KeepersAre
  <2>2. Each([f EXCEPT ![k] = f[k] \o <<c>>], recycled, p + 1) /\ Each(f, recycled \cup {c}, p + 1)
    BY <1>5, <1>6, MoreKeeps
  <2> QED BY <1>5, <2>1, <2>2
<1>8. InOrder(g)
  BY <1>5, <1>6, MoreOrder
<1>9. /\ g[G] = f[G] /\ \A u \in Threads \ {t} : g[L(u)] = f[L(u)]
      /\ ToSet(g[L(t)]) \subseteq ToSet(f[L(t)]) \cup {c}
  <2>1. CASE g = f
    BY <2>1
  <2>2. CASE g = [f EXCEPT ![L(t)] = f[L(t)] \o <<c>>]
    <3>1. /\ g[G] = f[G] /\ \A u \in Threads \ {t} : g[L(u)] = f[L(u)]
          /\ g[L(t)] = f[L(t)] \o <<c>>
      BY <2>2, KeepersAre
    <3>2. PICK s \in Seq(Chunk), v \in Seq(Chunk) : s = f[L(t)] /\ v = <<c>> /\ ToSet(v) = {c}
      BY Single, KeepersAre
    <3>3. ToSet(s \o v) = ToSet(s) \cup ToSet(v)
      BY SetJoined
    <3> QED BY <3>1, <3>2, <3>3
  <2> QED BY <1>5, <2>1, <2>2
<1>10. ASSUME NEW u \in Threads PROVE Swept(g, p + 1, u, th'[u])
  <2>1. /\ \A d \in th[u].due : d.n <= p /\ d.n \in Nat
    <3>1. th[u].due \subseteq Chunk
      BY DEF IInv, Sound, Records
    <3> QED BY <1>6, <3>1 DEF Swept, Chunk
  <2>2. \A d \in th[u].due : d.n <= p + 1 /\ d # c
    BY <1>5, <2>1
  <2>3. /\ \A v \in Threads : th[u].due \cap ToSet(g[L(v)]) \subseteq th[u].due \cap ToSet(f[L(v)])
        /\ th[u].due \cap ToSet(g[G]) \subseteq th[u].due \cap ToSet(f[G])
    BY <1>9, <2>2
  <2>4. Swept(g, p + 1, u, th[u])
    BY <1>6, <2>2, <2>3, SweptSame
  <2>5. CASE u = t
    BY <1>2, <2>4, <2>5 DEF Swept
  <2>6. CASE u # t
    BY <1>2, <2>4, <2>6
  <2> QED BY <2>5, <2>6
<1> QED BY <1>2, <1>4, <1>7, <1>8, <1>10 DEF IInv

LEMMA CallKeeps ==
  ASSUME IInv, NEW t \in Threads, CallDrainAndRecycle(t) PROVE IInv'
<1>1. /\ Sound' /\ Same
      /\ th'[t].due = ToSet(K[G] \o K[L(t)]) /\ th'[t].pc = "drain"
      /\ \A u \in Threads \ {t} : th'[u] = th[u]
  BY CallStep DEF IInv
<1>2. PICK f \in [Keepers -> Seq(Chunk)], p \in Nat : f = K /\ p = puts
  BY SoundKeeps DEF IInv, Sound
<1>3. Each(f, recycled, p) /\ InOrder(f) /\ \A u \in Threads : Swept(f, p, u, th[u])
  BY <1>2 DEF IInv
<1>4. K' = f /\ recycled' = recycled /\ puts' = p
  BY <1>1, <1>2 DEF Same
<1>5. th'[t].due = ToSet(f[G]) \cup ToSet(f[L(t)])
  BY <1>1, <1>2, SetJoined, KeepersAre
<1>6. \A c \in th'[t].due : c.n <= p
  BY <1>3, <1>5, Numbers, KeepersAre
<1>7. ASSUME NEW v \in Threads, v # t PROVE th'[t].due \cap ToSet(f[L(v)]) = {}
  <2>1. Apart(ToSet(f[G]), ToSet(f[L(v)])) /\ Apart(ToSet(f[L(t)]), ToSet(f[L(v)]))
    BY <1>3, <1>7, KeepersAre DEF Each
  <2> QED BY <1>5, <2>1 DEF Apart
<1>8. Swept(f, p, t, th'[t])
  BY <1>1, <1>6, <1>7 DEF Swept
<1>9. \A u \in Threads : Swept(f, p, u, th'[u])
  BY <1>1, <1>3, <1>8
<1> QED BY <1>1, <1>3, <1>4, <1>9 DEF IInv

LEMMA DrainKeeps ==
  ASSUME IInv, NEW t \in Threads, Drain(t) PROVE IInv'
<1>1. /\ Sound' /\ Moved(L(t), G, K[L(t)], <<>>)
      /\ th'[t].due = th[t].due /\ th'[t].pc \in {"lock", "size"}
      /\ \A u \in Threads \ {t} : th'[u] = th[u]
  BY DrainStep DEF IInv
<1>2. PICK f \in [Keepers -> Seq(Chunk)], p \in Nat : f = K /\ p = puts
  BY SoundKeeps DEF IInv, Sound
<1>3. Each(f, recycled, p) /\ InOrder(f) /\ \A u \in Threads : Swept(f, p, u, th[u])
  BY <1>2 DEF IInv
<1>4. PICK g : /\ g = K' /\ g = [f EXCEPT ![L(t)] = <<>>, ![G] = f[G] \o f[L(t)]]
               /\ f[L(t)] = f[L(t)] \o <<>> /\ recycled' = recycled /\ puts' = p
  BY <1>1, <1>2 DEF Moved
<1>5. PICK s \in Seq(Chunk), e \in Seq(Chunk) : s = f[L(t)] /\ e = <<>>
  BY Single, KeepersAre
<1>6. Each(g, recycled, p)
  <2>1. PICK k \in Keepers, l \in Keepers : k = L(t) /\ l = G /\ k # l
    BY KeepersAre
  <2>2. f[k] = s \o e
    BY <1>4, <1>5, <2>1
  <2>3. Each([f EXCEPT ![k] = e, ![l] = f[l] \o s], recycled, p)
    BY <1>3, <2>1, <2>2, MoveKeeps
  <2> QED BY <1>4, <1>5, <2>1, <2>3
<1>7. InOrder(g)
  BY <1>3, <1>4, DrainOrder
<1>8. /\ ToSet(g[G]) = ToSet(f[G]) \cup ToSet(f[L(t)]) /\ ToSet(g[L(t)]) = {}
      /\ \A u \in Threads \ {t} : g[L(u)] = f[L(u)]
  <2>1. g[G] = f[G] \o f[L(t)] /\ g[L(t)] = <<>> /\ \A u \in Threads \ {t} : g[L(u)] = f[L(u)]
    BY <1>4, KeepersAre
  <2> QED BY <2>1, SetJoined, Single, KeepersAre
<1>9. Swept(g, p, t, th'[t])
  BY <1>1, <1>3, <1>8 DEF Swept
<1>10. ASSUME NEW u \in Threads, u # t PROVE Swept(g, p, u, th'[u])
  <2>1. th'[u] = th[u] /\ Swept(f, p, u, th[u]) /\ th[u].due \cap ToSet(f[L(t)]) = {}
    BY <1>1, <1>3, <1>10 DEF Swept
  <2>2. \A v \in Threads : th[u].due \cap ToSet(g[L(v)]) \subseteq th[u].due \cap ToSet(f[L(v)])
    BY <1>8
  <2>3. th[u].due \cap ToSet(g[G]) \subseteq th[u].due \cap ToSet(f[G])
    BY <1>8, <2>1
  <2>4. \A c \in th[u].due : c.n <= p
    BY <2>1 DEF Swept
  <2>5. Swept(g, p, u, th[u])
    BY <2>1, <2>2, <2>3, <2>4, SweptSame
  <2> QED BY <2>1, <2>5
<1> QED BY <1>1, <1>4, <1>6, <1>7, <1>9, <1>10 DEF IInv

LEMMA ExtractKeeps ==
  ASSUME IInv, NEW t \in Threads, Extract(t) PROVE IInv'
<1>1. /\ Sound' /\ th'[t].due = th[t].due /\ th'[t].pc = th[t].pc /\ th'[t].purge = th[t].purge
      /\ \A u \in Threads \ {t} : th'[u] = th[u]
  BY ExtractStep DEF IInv
<1>2. PICK b \in Seq(Chunk), r \in Seq(Chunk) : Moved(G, P(t), b, r)
  BY ExtractStep DEF IInv
<1>3. PICK f \in [Keepers -> Seq(Chunk)], p \in Nat : f = K /\ p = puts
  BY SoundKeeps DEF IInv, Sound
<1>4. Each(f, recycled, p) /\ InOrder(f) /\ \A u \in Threads : Swept(f, p, u, th[u])
  BY <1>3 DEF IInv
<1>5. PICK g : /\ g = K' /\ g = [f EXCEPT ![G] = r, ![P(t)] = f[P(t)] \o b]
               /\ f[G] = b \o r /\ recycled' = recycled /\ puts' = p
  BY <1>2, <1>3 DEF Moved
<1>6. Each(g, recycled, p)
  <2>1. PICK k \in Keepers, l \in Keepers : k = G /\ l = P(t) /\ k # l
    BY KeepersAre
  <2>2. f[k] = b \o r
    BY <1>5, <2>1
  <2>3. Each([f EXCEPT ![k] = r, ![l] = f[l] \o b], recycled, p)
    BY <1>4, <2>1, <2>2, MoveKeeps
  <2> QED BY <1>5, <2>1, <2>3
<1>7. InOrder(g)
  <2>1. PICK s : s = f[P(t)] \o b
    OBVIOUS
  <2>2. InOrder([f EXCEPT ![G] = r, ![P(t)] = s])
    BY <1>4, <1>5, ExtractOrder
  <2> QED BY <1>5, <2>1, <2>2
<1>8. ToSet(g[G]) \subseteq ToSet(f[G]) /\ \A u \in Threads : g[L(u)] = f[L(u)]
  <2>1. g[G] = r /\ \A u \in Threads : g[L(u)] = f[L(u)]
    BY <1>5, KeepersAre
  <2>2. ToSet(f[G]) = ToSet(b) \cup ToSet(r)
    BY <1>5, SetJoined
  <2> QED BY <2>1, <2>2
<1>9. \A u \in Threads : Swept(g, p, u, th[u])
  BY <1>4, <1>8 DEF Swept
<1>10. \A u \in Threads : Swept(g, p, u, th'[u])
  <2>1. Swept(g, p, t, th'[t])
    BY <1>1, <1>9 DEF Swept
  <2> QED BY <1>1, <1>9, <2>1
<1> QED BY <1>1, <1>5, <1>6, <1>7, <1>10 DEF IInv

LEMMA DoRecycleKeeps ==
  ASSUME IInv, NEW t \in Threads, DoRecycle(t) PROVE IInv'
<1>1. /\ Sound' /\ (Same \/ \E b, r \in Seq(Chunk) : GivenBack(t, b, r))
      /\ th'[t].due = th[t].due /\ th'[t].pc \in {"idle", "dorecycle"}
      /\ \A u \in Threads \ {t} : th'[u] = th[u]
  BY DoRecycleStep DEF IInv
<1>2. PICK f \in [Keepers -> Seq(Chunk)], p \in Nat : f = K /\ p = puts
  BY SoundKeeps DEF IInv, Sound
<1>3. Each(f, recycled, p) /\ InOrder(f) /\ \A u \in Threads : Swept(f, p, u, th[u])
  BY <1>2 DEF IInv
<1>4. PICK g, R : g = K' /\ R = recycled' /\ puts' = p
  BY <1>1, <1>2 DEF Same, GivenBack
<1>5. Each(g, R, p) /\ g[G] = f[G] /\ \A u \in Threads : g[L(u)] = f[L(u)]
  <2>1. CASE Same
    BY <1>2, <1>3, <1>4, <2>1 DEF Same
  <2>2. ASSUME NEW b \in Seq(Chunk), NEW r \in Seq(Chunk), GivenBack(t, b, r)
        PROVE  Each(g, R, p) /\ g[G] = f[G] /\ \A u \in Threads : g[L(u)] = f[L(u)]
    <3>1. f[P(t)] = b \o r /\ g = [f EXCEPT ![P(t)] = r] /\ R = recycled \cup ToSet(b)
      BY <1>2, <1>4, <2>2 DEF GivenBack
    <3>2. Each(g, R, p)
      BY <1>3, <3>1, GivenBackKeeps, KeepersAre
    <3> QED BY <3>1, <3>2, KeepersAre
  <2> QED BY <1>1, <2>1, <2>2
<1>6. InOrder(g)
  BY <1>3, <1>5, CachesOrder
<1>7. \A u \in Threads : Swept(g, p, u, th[u])
  BY <1>3, <1>5 DEF Swept
<1>8. \A u \in Threads : Swept(g, p, u, th'[u])
  <2>1. Swept(g, p, t, th'[t])
    BY <1>1, <1>7 DEF Swept
  <2> QED BY <1>1, <1>7, <2>1
<1> QED BY <1>1, <1>4, <1>5, <1>6, <1>8 DEF IInv

LEMMA OtherKeeps ==
  ASSUME IInv, NEW t \in Threads, Other(t) PROVE IInv'
<1>1. /\ Sound' /\ Same /\ \A u \in Threads \ {t} : th'[u] = th[u]
      /\ \/ th'[t].due = {}
         \/ th'[t].due = th[t].due /\ th'[t].pc = "idle"
         \/ /\ th'[t].due = th[t].due /\ th'[t].pc # "unlock"
            /\ th[t].pc \in {"size", "try", "lock", "recycle"}
         \/ /\ th'[t].due = th[t].due /\ th'[t].purge = th[t].purge /\ th[t].pc = "extract"
            /\ (th[t].purge => global.size <= 0)
  BY OtherStep DEF IInv
<1>2. PICK f \in [Keepers -> Seq(Chunk)], p \in Nat : f = K /\ p = puts
  BY SoundKeeps DEF IInv, Sound
<1>3. Each(f, recycled, p) /\ InOrder(f) /\ \A u \in Threads : Swept(f, p, u, th[u])
  BY <1>2 DEF IInv
<1>4. K' = f /\ recycled' = recycled /\ puts' = p
  BY <1>1, <1>2 DEF Same
<1>5. global.size <= 0 => ToSet(f[G]) = {}
  <2>1. global \in Caches
    BY DEF IInv, Sound
  <2>2. global.list = <<>> => f[G] = <<>>
    BY <1>2, KIs, ChunksNone
  <2> QED BY <2>1, <2>2, EmptyIs, Single
<1>6. Swept(f, p, t, th[t])
  BY <1>3
<1>7. Swept(f, p, t, th'[t])
  <2>1. CASE th'[t].due = {}
    BY <2>1 DEF Swept
  <2>2. CASE th'[t].due = th[t].due /\ th'[t].pc = "idle"
    BY <1>6, <2>2 DEF Swept
  <2>3. CASE /\ th'[t].due = th[t].due /\ th'[t].pc # "unlock"
             /\ th[t].pc \in {"size", "try", "lock", "recycle"}
    BY <1>6, <2>3 DEF Swept
  <2>4. CASE /\ th'[t].due = th[t].due /\ th'[t].purge = th[t].purge /\ th[t].pc = "extract"
             /\ (th[t].purge => global.size <= 0)
    BY <1>5, <1>6, <2>4 DEF Swept
  <2> QED BY <1>1, <2>1, <2>2, <2>3, <2>4
<1>8. \A u \in Threads : Swept(f, p, u, th'[u])
  BY <1>1, <1>3, <1>7
<1> QED BY <1>1, <1>3, <1>4, <1>8 DEF IInv

LEMMA NextKeeps == IInv /\ [Next]_vars => IInv'
<1> SUFFICES ASSUME IInv, [Next]_vars PROVE IInv'
  OBVIOUS
<1>1. ASSUME NEW t \in Threads,
             \/ Put(t) \/ CallDrainAndRecycle(t) \/ Drain(t) \/ Extract(t) \/ DoRecycle(t) \/ Other(t)
      PROVE  IInv'
  BY <1>1, PutKeeps, CallKeeps, DrainKeeps, ExtractKeeps, DoRecycleKeeps, OtherKeeps
<1>2. CASE UNCHANGED vars
  <2>1. Sound' /\ K' = K /\ recycled' = recycled /\ puts' = puts /\ th' = th
    BY <1>2, SameIs DEF vars, IInv, Sound
  <2> QED BY <2>1 DEF IInv
<1>3. CASE Next
  BY <1>1, <1>3 DEF Next, Other
<1> QED BY <1>2, <1>3

-----------------------------------------------------------------------------
\* What the variables hold, every chunk once, the order of each thread's chunks
\* and what its purge has swept hold in every state
THEOREM Invariance == Spec => []IInv
BY InitIInv, NextKeeps, PTL DEF Spec

\* SizesExact: the size a cache keeps (Enqueue, Transfer, DequeueBatch,
\* MergeBatches of sanitizer_quarantine.h) is that of its chunks and of the
\* overhead of its batches
THEOREM SizesAreExact == Spec => []SizesExact
<1>1. IInv => SizesExact
  <2> SUFFICES ASSUME IInv, NEW q, q = global \/ \E t \in Threads : q = local[t]
               PROVE  /\ q.size = Total(ChunksOf(q.list)) + Len(q.list) * Overhead
                      /\ \A i \in DOMAIN q.list :
                           /\ Len(q.list[i].chunks) \in 1 .. kSize
                           /\ q.list[i].size = Total(q.list[i].chunks) + Overhead
    BY DEF SizesExact
  <2>1. q \in Caches
    BY DEF IInv, Sound
  <2>2. q.list \in Seq(Exact) /\ q.size = Total(ChunksOf(q.list)) + Len(q.list) * Overhead
    BY <2>1, CacheIs
  <2>3. DOMAIN q.list = 1 .. Len(q.list) /\ \A i \in 1 .. Len(q.list) : q.list[i] \in Exact
    BY <2>2, LenProperties, ElementOfSeq
  <2> QED BY <2>2, <2>3 DEF Exact
<1> QED BY <1>1, Invariance, PTL

\* EachChunkOnce: a chunk is in one cache, among those a thread took out, or
\* given back, once (Put, Transfer, DequeueBatch, DoRecycle)
THEOREM ChunksAreOnce == Spec => []EachChunkOnce
<1>1. IInv => EachChunkOnce
  <2> SUFFICES ASSUME IInv PROVE EachChunkOnce
    OBVIOUS
  <2>1. PICK f \in [Keepers -> Seq(Chunk)] : f = K
    BY SoundKeeps DEF IInv
  <2>2. Each(f, recycled, puts) /\ \A k \in Keepers : f[k] = Kept(k)
    BY <2>1 DEF IInv, K
  <2>3. \A k \in Keepers : /\ DOMAIN f[k] = 1 .. Len(f[k]) /\ Len(f[k]) \in Nat
                           /\ \A i \in 1 .. Len(f[k]) : f[k][i] \in ToSet(f[k])
    <3> SUFFICES ASSUME NEW k \in Keepers, NEW s \in Seq(Chunk), s = f[k]
                 PROVE  /\ DOMAIN s = 1 .. Len(s) /\ Len(s) \in Nat
                        /\ \A i \in 1 .. Len(s) : s[i] \in ToSet(s)
      OBVIOUS
    <3>1. DOMAIN s = 1 .. Len(s) /\ Len(s) \in Nat /\ ToSet(s) = {s[i] : i \in 1 .. Len(s)}
      BY LenProperties, SetOf
    <3> QED BY <3>1
  <2>4. ASSUME NEW k \in Keepers, NEW l \in Keepers, NEW i \in 1 .. Len(f[k]), NEW j \in 1 .. Len(f[l]),
               f[k][i].n = f[l][j].n
        PROVE  k = l /\ i = j
    <3>1. k = l
      <4> SUFFICES ASSUME k # l PROVE FALSE
        OBVIOUS
      <4>1. Apart(ToSet(f[k]), ToSet(f[l]))
        BY <2>2 DEF Each
      <4> QED BY <2>3, <2>4, <4>1 DEF Apart
    <3>2. PICK s \in Seq(Chunk), n \in Nat : s = f[k] /\ n = Len(s) /\ Distinct(s)
      BY <2>2, <2>3 DEF Each
    <3>3. \A a, b \in 1 .. n : a < b => s[a].n # s[b].n
      <4>1. \A a, b \in 1 .. n : a < b => <<s[a], s[b]>> \in Different
        BY <3>2 DEF Distinct, Pairwise
      <4> QED BY <4>1 DEF Different
    <3>4. i \in 1 .. n /\ j \in 1 .. n /\ s[i].n = s[j].n
      BY <2>4, <3>1, <3>2
    <3>5. ~ (i < j) /\ ~ (j < i)
      BY <3>3, <3>4
    <3> QED BY <3>1, <3>4, <3>5
  <2>5. \A k \in Keepers : \A i \in DOMAIN Kept(k) : \A c \in recycled : Kept(k)[i].n # c.n
    <3>1. \A k \in Keepers : Apart(ToSet(f[k]), recycled)
      BY <2>2 DEF Each
    <3> QED BY <2>2, <2>3, <3>1 DEF Apart
  <2>6. \A k, l \in Keepers : \A i \in DOMAIN Kept(k), j \in DOMAIN Kept(l) :
          Kept(k)[i].n = Kept(l)[j].n => k = l /\ i = j
    BY <2>2, <2>3, <2>4
  <2>7. Held(f, recycled) = recycled \cup UNION {ToSet(Kept(k)) : k \in Keepers}
    BY <2>2 DEF Held
  <2>8. \A c, d \in recycled : c.n = d.n => c = d
    BY <2>2 DEF Each
  <2>9. {c.n : c \in recycled \cup UNION {ToSet(Kept(k)) : k \in Keepers}} = 1 .. puts
    BY <2>2, <2>7 DEF Each
  <2> QED BY <2>5, <2>6, <2>8, <2>9 DEF EachChunkOnce
<1> QED BY <1>1, Invariance, PTL

\* The chunks a purge looks at, and those of one thread
LEMMA InCaches ==
  ASSUME Sound, NEW t \in Threads
  PROVE  ToSet(ChunksOf(global.list \o local[t].list)) = ToSet(K[G]) \cup ToSet(K[L(t)])
<1>1. global \in Caches /\ local[t] \in Caches
  BY DEF Sound
<1>2. ChunksOf(global.list \o local[t].list) = K[G] \o K[L(t)]
  BY <1>1, JoinedIs, KIs
<1>3. K[G] \in Seq(Chunk) /\ K[L(t)] \in Seq(Chunk)
  BY SoundKeeps, KeepersAre
<1> QED BY <1>2, <1>3, SetJoined

\* PurgeComplete: DrainAndRecycle leaves nothing of what it found
THEOREM PurgeIsComplete == Spec => []PurgeComplete
<1>1. IInv => PurgeComplete
  <2> SUFFICES ASSUME IInv, NEW t \in Threads, th[t].purge, th[t].pc = "unlock"
               PROVE  th[t].due \cap ToSet(ChunksOf(global.list \o local[t].list)) = {}
    BY DEF PurgeComplete, At
  <2>1. ToSet(ChunksOf(global.list \o local[t].list)) = ToSet(K[G]) \cup ToSet(K[L(t)])
    BY InCaches DEF IInv
  <2>2. th[t].due \cap ToSet(K[G]) = {} /\ th[t].due \cap ToSet(K[L(t)]) = {}
    BY DEF IInv, Swept
  <2> QED BY <2>1, <2>2
<1> QED BY <1>1, Invariance, PTL

\* The chunks of t in the caches
Yet(f, t) == {c \in ToSet(f[G]) \cup ToSet(f[L(t)]) : c.by = t}

LEMMA YetIs ==
  ASSUME Sound, NEW t \in Threads PROVE Waiting(t) = Yet(K, t)
BY InCaches DEF Waiting, Yet

LEMMA YetNextIs ==
  ASSUME Sound', NEW t \in Threads PROVE Waiting(t)' = Yet(K', t)
<1>1. global' \in Caches /\ local'[t] \in Caches
  BY DEF Sound
<1>2. /\ ChunksOf(global'.list \o local'[t].list) = K'[G] \o K'[L(t)]
      /\ K'[G] \in Seq(Chunk) /\ K'[L(t)] \in Seq(Chunk)
  BY <1>1, JoinedIs, CacheIs, KNextIs
<1>3. ToSet(ChunksOf(global'.list \o local'[t].list)) = ToSet(K'[G]) \cup ToSet(K'[L(t)])
  BY <1>2, SetJoined
<1>4. Waiting(t)' = {c \in ToSet(ChunksOf(global'.list \o local'[t].list)) : c.by = t}
  BY DEF Waiting, ToSet, ChunksOf
<1> QED BY <1>3, <1>4 DEF Yet

\* What OldestFirst says of a step and a thread
Orderly(t) == \A c, d \in Waiting(t) : c.n < d.n /\ d \notin Waiting(t)' => c \notin Waiting(t)'

LEMMA StepsAreOrderly ==
  ASSUME IInv, [Next]_vars, NEW u \in Threads PROVE Orderly(u)
<1>1. Sound' /\ Sound
  BY NextKeeps DEF IInv
<1>2. Waiting(u) = Yet(K, u) /\ Waiting(u)' = Yet(K', u)
  BY <1>1, YetIs, YetNextIs
<1>3. PICK f \in [Keepers -> Seq(Chunk)] : f = K /\ InOrder(f)
  BY SoundKeeps DEF IInv
<1>4. ASSUME ToSet(f[G]) \cup ToSet(f[L(u)]) \subseteq ToSet(K'[G]) \cup ToSet(K'[L(u)])
      PROVE  Orderly(u)
  BY <1>2, <1>3, <1>4 DEF Orderly, Yet
<1>5. ASSUME K'[G] = f[G], \A t \in Threads : K'[L(t)] = f[L(t)] PROVE Orderly(u)
  BY <1>4, <1>5
<1>6. ASSUME NEW t \in Threads, Put(t) PROVE Orderly(u)
  <2>1. PICK c \in Chunk : More(t, c)
    BY <1>1, <1>6, PutStep
  <2>2. CASE K' = K
    BY <1>3, <1>5, <2>2
  <2>3. CASE K' = [K EXCEPT ![L(t)] = K[L(t)] \o <<c>>]
    <3>1. /\ K'[G] = f[G] /\ \A v \in Threads \ {t} : K'[L(v)] = f[L(v)]
          /\ K'[L(t)] = f[L(t)] \o <<c>>
      BY <1>3, <2>3, KeepersAre
    <3>2. PICK s \in Seq(Chunk), v \in Seq(Chunk) : s = f[L(t)] /\ v = <<c>>
      BY Single, KeepersAre
    <3>3. ToSet(s \o v) = ToSet(s) \cup ToSet(v)
      BY SetJoined
    <3>4. ToSet(f[L(u)]) \subseteq ToSet(K'[L(u)])
      BY <3>1, <3>2, <3>3
    <3> QED BY <1>4, <3>1, <3>4
  <2> QED BY <2>1, <2>2, <2>3 DEF More
<1>7. ASSUME NEW t \in Threads, Drain(t) PROVE Orderly(u)
  <2>1. K' = [f EXCEPT ![L(t)] = <<>>, ![G] = f[G] \o f[L(t)]]
    BY <1>1, <1>3, <1>7, DrainStep DEF Moved
  <2>2. K'[G] = f[G] \o f[L(t)] /\ \A v \in Threads \ {t} : K'[L(v)] = f[L(v)]
    BY <2>1, KeepersAre
  <2>3. ToSet(K'[G]) = ToSet(f[G]) \cup ToSet(f[L(t)])
    BY <2>2, SetJoined, KeepersAre
  <2> QED BY <1>4, <2>2, <2>3
<1>8. ASSUME NEW t \in Threads, Extract(t) PROVE Orderly(u)
  <2>1. PICK b \in Seq(Chunk), r \in Seq(Chunk) :
          f[G] = b \o r /\ K' = [f EXCEPT ![G] = r, ![P(t)] = f[P(t)] \o b]
    BY <1>1, <1>3, <1>8, ExtractStep DEF Moved
  <2>2. K'[G] = r /\ K'[L(u)] = f[L(u)]
    BY <2>1, KeepersAre
  <2>3. ToSet(f[G]) = ToSet(b) \cup ToSet(r) /\ ToSet(b) \subseteq Chunk
    BY <2>1, SetJoined, SetOf
  <2>4. Below(ToSet(b), ToSet(r) \cup ToSet(f[L(u)]), u)
    BY <1>3, <2>1, ExtractOrder
  <2> SUFFICES ASSUME NEW c \in Yet(f, u), NEW d \in Yet(f, u), c.n < d.n,
                      d \notin Yet(K', u), c \in Yet(K', u)
               PROVE  FALSE
    BY <1>2, <1>3 DEF Orderly
  <2>5. d \in ToSet(b) /\ d.by = u
    BY <2>2, <2>3 DEF Yet
  <2>6. c \in ToSet(r) \cup ToSet(f[L(u)]) /\ c.by = u
    BY <2>2 DEF Yet
  <2>7. d.n < c.n
    BY <2>4, <2>5, <2>6 DEF Below
  <2>8. c.n \in Nat /\ d.n \in Nat
    <3>1. ToSet(r) \subseteq Chunk /\ ToSet(f[L(u)]) \subseteq Chunk
      BY SetOf, KeepersAre
    <3> QED BY <2>3, <2>5, <2>6, <3>1 DEF Chunk
  <2> QED BY <2>7, <2>8
<1>9. ASSUME NEW t \in Threads, DoRecycle(t) PROVE Orderly(u)
  <2>1. CASE Same
    BY <1>3, <1>5, <2>1 DEF Same
  <2>2. ASSUME NEW b \in Seq(Chunk), NEW r \in Seq(Chunk), GivenBack(t, b, r) PROVE Orderly(u)
    <3>1. K' = [f EXCEPT ![P(t)] = r]
      BY <1>3, <2>2 DEF GivenBack
    <3> QED BY <1>5, <3>1, KeepersAre
  <2> QED BY <1>1, <1>9, <2>1, <2>2, DoRecycleStep
<1>10. ASSUME Same PROVE Orderly(u)
  BY <1>3, <1>5, <1>10 DEF Same
<1>11. ASSUME NEW t \in Threads, CallDrainAndRecycle(t) \/ Other(t) PROVE Orderly(u)
  BY <1>1, <1>10, <1>11, CallStep, OtherStep
<1>12. CASE UNCHANGED vars
  <2>1. K' = K
    BY <1>12, SameIs DEF vars
  <2> QED BY <1>3, <1>5, <2>1
<1>13. CASE Next
  BY <1>6, <1>7, <1>8, <1>9, <1>11, <1>13 DEF Next, Other
<1> QED BY <1>12, <1>13

\* A chunk leaves the caches before those its thread put later: OldestFirst, of
\* the batches that Transfer appends and DequeueBatch takes from the front
THEOREM OldestGoFirst == Spec => OldestFirst
<1>1. IInv /\ [Next]_vars => [\A t \in Threads : Orderly(t)]_vars
  BY StepsAreOrderly
<1>2. (\A t \in Threads : Orderly(t))
        <=> (\A t \in Threads : \A c, d \in Waiting(t) :
               c.n < d.n /\ d \notin Waiting(t)' => c \notin Waiting(t)')
  BY DEF Orderly
<1> QED BY <1>1, <1>2, Invariance, PTL DEF Spec, OldestFirst
====
