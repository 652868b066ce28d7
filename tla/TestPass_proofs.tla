--------------------------- MODULE TestPass_proofs ---------------------------
(* The passes on any modules that LLVM accepts and that neither define nor    *)
(* call a hook.                                                               *)
(*                                                                            *)
(* A block that a pass scans is what the pass makes of the instructions it    *)
(* has left behind, in front of those it has not reached.  The calls of a     *)
(* hook are all through a cast or none is, which the module decides that the  *)
(* passes were given; and whatever the last pass has visited is no call       *)
(* without a called function, or it would have crashed.                       *)
EXTENDS TestPass, Integers, FiniteSetTheorems, SequenceTheorems, TLAPS

\* What a function from instructions to sequences makes of the first k of a list
Expanders == [Insts -> Seq(Insts)]
Pieces(z, g, k) == FlattenSeq([i \in 1 .. k |-> g[z[i]]])
Whole(z, g) == Pieces(z, g, Len(z))

\* The call of a hook: through a cast if the module declares it with another type
HookCall(m, hook) == Call(hook, ~ Foreign(m, hook))

RetPieces(m, name) ==
  [inst \in Insts |->
     (IF name = "main" /\ inst.op = "ret" THEN <<HookCall(m, "testsan_EndOfMain")>> ELSE <<>>)
       \o <<inst>>]
MallocPieces(m) ==
  [inst \in Insts |->
     <<inst>> \o (IF CallsMalloc(inst) THEN <<HookCall(m, "testsan_AfterMalloc")>> ELSE <<>>)]

\* A block once its function was entered, after the search for returns and
\* after that for mallocs
Entered(m, f, b) ==
  (IF b = 1 THEN <<HookCall(m, "testsan_HelloFunction")>> ELSE <<>>) \o m[f].blocks[b]
WithRets(m, f, b) == Whole(Entered(m, f, b), RetPieces(m, m[f].name))
WithMallocs(m, f, b) == Whole(WithRets(m, f, b), MallocPieces(m))

\* A scan that has left the first k of these instructions behind
ScannedTo(block, z, g, k) == block = Pieces(z, g, k) \o SubSeq(z, k + 1, Len(z))

NoneIndirect(block, n) == \A i \in 1 .. n : ~ Indirect(block[i])

ScanningRets(m, f, b, block, i) ==
  LET z == Entered(m, f, b)
      g == RetPieces(m, m[f].name)
  IN  \E k \in 0 .. Len(z) : ScannedTo(block, z, g, k) /\ i = Len(Pieces(z, g, k)) + 1

\* The iterator is also between a malloc and the call of its hook
ScanningMallocs(m, f, b, block, i) ==
  LET z == WithRets(m, f, b)
      p(k) == Len(Pieces(z, MallocPieces(m), k))
  IN  /\ NoneIndirect(block, i - 1)
      /\ \E k \in 0 .. Len(z) :
           /\ ScannedTo(block, z, MallocPieces(m), k)
           /\ \/ i = p(k) + 1
              \/ k > 0 /\ CallsMalloc(z[k]) /\ i = p(k)

\* A block that the last pass has left
LeftBehind(m, f, b, block) == block = WithMallocs(m, f, b) /\ NoneIndirect(block, Len(block))

BlockOK(m, f, b, block, l, at, in, i) ==
  /\ Erase(block) = m[f].blocks[b]
  /\ f < at => LeftBehind(m, f, b, block)
  /\ f > at \/ (f = at /\ l \in {"module", "function", "done"}) =>
       block = m[f].blocks[b]
  /\ (f = at /\ l = "rets") =>
       /\ b < in => block = WithRets(m, f, b)
       /\ b = in => ScanningRets(m, f, b, block, i)
       /\ b > in => block = Entered(m, f, b)
  /\ (f = at /\ l \in {"block", "insts"}) =>
       /\ b < in => LeftBehind(m, f, b, block)
       /\ b > in \/ (b = in /\ l = "block") => block = WithRets(m, f, b)
       /\ (b = in /\ l = "insts") => ScanningMallocs(m, f, b, block, i)

\* The modules the passes are given
Given(m) == m \in Modules

\* The functions stay where they are; only declarations of hooks are added
FunctionsOK(m, fs) ==
  /\ fs \in Seq(FunctionTypes) /\ UniqueNames(fs)
  /\ Len(m) <= Len(fs)
  /\ \A f \in DOMAIN m :
       /\ fs[f].name = m[f].name /\ fs[f].typed = m[f].typed
       /\ DOMAIN fs[f].blocks = DOMAIN m[f].blocks
  /\ \A f \in DOMAIN fs : f > Len(m) =>
       fs[f] \in {Function(h, TRUE, <<>>) : h \in Hooks}

PlaceOK(m, fs, l, at, in, i) ==
  /\ l \in {"module", "function", "rets", "block", "insts", "done", "crashed"}
  /\ at \in 1 .. Len(fs) + 1
  /\ l \in {"rets", "block", "insts"} =>
       /\ at <= Len(m)
       /\ in \in DOMAIN fs[at].blocks
       /\ i \in 1 .. Len(fs[at].blocks[in]) + 1
  /\ l = "rets" => m[at].name = "main"
  /\ l = "done" => at = Len(fs) + 1
  /\ l = "crashed" => HasNullCallee(m)

BlocksOK(m, fs, l, at, in, i) ==
  \A f \in DOMAIN m : \A b \in DOMAIN m[f].blocks :
    BlockOK(m, f, b, fs[f].blocks[b], l, at, in, i)

AllOK(m, fs, l, at, in, i) ==
  Given(m) /\ FunctionsOK(m, fs) /\ PlaceOK(m, fs, l, at, in, i) /\ BlocksOK(m, fs, l, at, in, i)

IInv == AllOK(original, funcs, pc, fi, bi, ii)
-----------------------------------------------------------------------------
(* Induction, and concatenation in the pieces' order                          *)

\* Induction over the naturals: a set that leaves one out leaves out its
\* predecessor, and a finite set cannot be mapped into itself one to one
\* without the greatest number of it being met
LEMMA NatInd ==
  ASSUME NEW S, 0 \in S, \A n \in Nat : n \in S => n + 1 \in S PROVE Nat \subseteq S
<1> SUFFICES ASSUME NEW n \in Nat, n \notin S PROVE FALSE
  OBVIOUS
<1> DEFINE T == {k \in 0 .. n : k \notin S}
           f == [x \in T |-> x - 1]
<1>1. IsFiniteSet(T)
  <2>1. IsFiniteSet(0 .. n)
    BY FS_Interval
  <2> QED BY <2>1, FS_Subset
<1>2. ASSUME NEW x \in T PROVE x - 1 \in T
  <2>1. x \in Nat /\ x # 0 /\ x - 1 \in Nat /\ (x - 1) + 1 = x
    OBVIOUS
  <2>2. x - 1 \in S => (x - 1) + 1 \in S
    BY <2>1
  <2> QED BY <2>1, <2>2
<1>3. f \in Injection(T, T)
  BY <1>2 DEF Injection, IsInjective
<1>4. f \in Surjection(T, T)
  BY <1>1, <1>3, FS_Injection
<1>5. n \in T
  OBVIOUS
<1>6. PICK y \in T : f[y] = n
  BY <1>4, <1>5 DEF Surjection
<1> QED BY <1>6

\* FlattenSeq's recursive function exists ...
Flattens(g, s) ==
  g = [i \in 1 .. Len(s) |-> IF i = 1 THEN s[i] ELSE g[i - 1] \o s[i]]

LEMMA FlattensExists ==
  ASSUME NEW s, Len(s) \in Nat
  PROVE  \E g : Flattens(g, s)
<1> DEFINE H(g, n) == g = [i \in 1 .. n |-> IF i = 1 THEN s[i] ELSE g[i - 1] \o s[i]]
           S == {n \in Nat : \E g : H(g, n)}
<1>1. 0 \in S
  <2>1. H([i \in 1 .. 0 |-> 0], 0)
    OBVIOUS
  <2> QED BY <2>1, Zenon
<1>2. ASSUME NEW n \in Nat, n \in S PROVE n + 1 \in S
  <2>1. PICK g : H(g, n)
    BY <1>2
  <2> DEFINE h == [i \in 1 .. n + 1 |-> IF i <= n THEN g[i]
                                        ELSE IF i = 1 THEN s[i] ELSE g[n] \o s[i]]
  <2>2. ASSUME NEW i \in 1 .. n + 1
        PROVE  h[i] = IF i = 1 THEN s[i] ELSE h[i - 1] \o s[i]
    <3>1. CASE i <= n
      <4>1. i \in 1 .. n
        BY <3>1
      <4>2. g[i] = IF i = 1 THEN s[i] ELSE g[i - 1] \o s[i]
        BY <2>1, <4>1
      <4>3. i # 1 => i - 1 \in 1 .. n
        BY <4>1
      <4> QED BY <4>1, <4>2, <4>3
    <3>2. CASE i = n + 1
      <4>1. n # 0 => n \in 1 .. n + 1
        OBVIOUS
      <4> QED BY <3>2, <4>1
    <3> QED BY <3>1, <3>2
  <2>3. H(h, n + 1)
    <3>1. h = [i \in 1 .. n + 1 |-> h[i]]
      OBVIOUS
    <3> HIDE DEF h
    <3> QED BY <2>2, <3>1
  <2> HIDE DEF h
  <2>4. \E x : H(x, n + 1)
    BY <2>3, Zenon
  <2> HIDE DEF H
  <2> QED BY <2>4
<1> HIDE DEF S
<1>3. Nat \subseteq S
  BY <1>1, <1>2, NatInd
<1> QED BY <1>3 DEF S, Flattens

\* ... and is only one, up to any position
Agree(s, t, n) == \A i \in 1 .. n : s[i] = t[i]

LEMMA FlattensUnique ==
  ASSUME NEW s, NEW t, Len(s) \in Nat, Len(t) \in Nat, NEW n \in Nat, n <= Len(s), n <= Len(t),
         Agree(s, t, n), NEW g, Flattens(g, s), NEW h, Flattens(h, t)
  PROVE  Agree(g, h, n)
<1> DEFINE S == {k \in Nat : k \in 1 .. n => g[k] = h[k]}
<1>1. 0 \in S
  OBVIOUS
<1>2. ASSUME NEW k \in Nat, k \in S PROVE k + 1 \in S
  <2>1. ASSUME k + 1 \in 1 .. n PROVE g[k + 1] = h[k + 1]
    <3> k + 1 \in 1 .. Len(s) /\ k + 1 \in 1 .. Len(t)
      BY <2>1
    <3>1. /\ g[k + 1] = IF k + 1 = 1 THEN s[k + 1] ELSE g[(k + 1) - 1] \o s[k + 1]
          /\ h[k + 1] = IF k + 1 = 1 THEN t[k + 1] ELSE h[(k + 1) - 1] \o t[k + 1]
      BY <2>1 DEF Flattens
    <3>2. (k + 1) - 1 = k /\ s[k + 1] = t[k + 1]
      BY <2>1 DEF Agree
    <3>3. k # 0 => g[k] = h[k]
      BY <1>2, <2>1
    <3> QED BY <3>1, <3>2, <3>3
  <2> QED BY <2>1
<1> HIDE DEF S
<1>3. Nat \subseteq S
  BY <1>1, <1>2, NatInd
<1> QED BY <1>3 DEF S, Agree

LEMMA FlattenIs ==
  ASSUME NEW s, Len(s) \in Nat, Len(s) # 0
  PROVE  \E g : Flattens(g, s) /\ FlattenSeq(s) = g[Len(s)]
BY FlattensExists DEF FlattenSeq, Flattens

\* One piece more
LEMMA FlattenMore ==
  ASSUME NEW n \in Nat, NEW s, NEW t, Len(s) = n, Len(t) = n + 1, Agree(s, t, n)
  PROVE  FlattenSeq(t) = IF n = 0 THEN t[1] ELSE FlattenSeq(s) \o t[n + 1]
<1>1. PICK h : Flattens(h, t) /\ FlattenSeq(t) = h[n + 1]
  BY FlattenIs
<1>2. h[n + 1] = IF n + 1 = 1 THEN t[n + 1] ELSE h[(n + 1) - 1] \o t[n + 1]
  <2>1. n + 1 \in 1 .. Len(t)
    OBVIOUS
  <2> QED BY <1>1, <2>1 DEF Flattens
<1>3. CASE n = 0
  BY <1>1, <1>2, <1>3
<1>4. CASE n # 0
  <2>1. PICK g : Flattens(g, s) /\ FlattenSeq(s) = g[n]
    BY <1>4, FlattenIs
  <2>2. /\ Len(s) \in Nat /\ Len(t) \in Nat /\ n <= Len(s) /\ n <= Len(t)
        /\ n \in 1 .. n
    BY <1>4
  <2>3. g[n] = h[n]
    <3>1. Agree(g, h, n)
      BY <1>1, <2>1, <2>2, FlattensUnique
    <3> QED BY <2>2, <3>1 DEF Agree
  <2>4. h[n + 1] = h[n] \o t[n + 1]
    <3>1. n + 1 # 1 /\ (n + 1) - 1 = n
      BY <1>4
    <3> QED BY <1>2, <3>1
  <2>5. FlattenSeq(t) = FlattenSeq(s) \o t[n + 1]
    BY <1>1, <2>1, <2>2, <2>3, <2>4, Zenon
  <2> QED BY <1>4, <2>5
<1> QED BY <1>3, <1>4
-----------------------------------------------------------------------------
(* Pieces                                                                     *)

PieceList(z, g, k) == [i \in 1 .. k |-> g[z[i]]]

LEMMA PieceListIs ==
  ASSUME NEW z \in Seq(Insts), NEW g \in Expanders, NEW k \in 0 .. Len(z)
  PROVE  /\ Len(PieceList(z, g, k)) = k
         /\ \A i \in 1 .. k : PieceList(z, g, k)[i] = g[z[i]] /\ g[z[i]] \in Seq(Insts)
BY DEF PieceList, Expanders

LEMMA PiecesNone ==
  ASSUME NEW z, NEW g PROVE Pieces(z, g, 0) = <<>>
<1>1. [i \in 1 .. 0 |-> g[z[i]]] = <<>>
  OBVIOUS
<1> QED BY <1>1 DEF Pieces, FlattenSeq

LEMMA PiecesFirst ==
  ASSUME NEW z \in Seq(Insts), NEW g \in Expanders, NEW k \in 0 .. Len(z) - 1
  PROVE  Pieces(z, g, k + 1) = IF k = 0 THEN g[z[1]] ELSE Pieces(z, g, k) \o g[z[k + 1]]
<1> DEFINE s == PieceList(z, g, k)
           t == PieceList(z, g, k + 1)
<1>1. k \in Nat /\ k \in 0 .. Len(z) /\ k + 1 \in 0 .. Len(z) /\ Len(z) \in Nat
  OBVIOUS
<1>2. /\ Len(s) = k /\ Len(t) = k + 1
      /\ Agree(s, t, k)
      /\ t[1] = g[z[1]] /\ t[k + 1] = g[z[k + 1]]
  BY <1>1, PieceListIs DEF Agree
<1>3. FlattenSeq(t) = IF k = 0 THEN t[1] ELSE FlattenSeq(s) \o t[k + 1]
  <2> HIDE DEF s, t
  <2> QED BY <1>1, <1>2, FlattenMore
<1>4. Pieces(z, g, k) = FlattenSeq(s) /\ Pieces(z, g, k + 1) = FlattenSeq(t)
  BY DEF Pieces, PieceList
<1> HIDE DEF s, t
<1> QED BY <1>2, <1>3, <1>4

LEMMA PiecesType ==
  ASSUME NEW z \in Seq(Insts), NEW g \in Expanders, NEW k \in 0 .. Len(z)
  PROVE  Pieces(z, g, k) \in Seq(Insts)
<1> DEFINE S == {n \in Nat : n <= Len(z) => Pieces(z, g, n) \in Seq(Insts)}
<1>1. 0 \in S
  <2>1. <<>> \in Seq(Insts)
    BY EmptySeq
  <2>2. Pieces(z, g, 0) \in Seq(Insts)
    BY <2>1, PiecesNone
  <2> QED BY <2>2
<1>2. ASSUME NEW n \in Nat, n \in S PROVE n + 1 \in S
  <2>1. ASSUME n + 1 <= Len(z) PROVE Pieces(z, g, n + 1) \in Seq(Insts)
    <3>1. n \in 0 .. Len(z) - 1 /\ n <= Len(z)
      BY <2>1
    <3>2. Pieces(z, g, n) \in Seq(Insts)
      BY <1>2, <3>1
    <3>3. /\ g[z[n + 1]] \in Seq(Insts) /\ g[z[1]] \in Seq(Insts)
      BY <3>1 DEF Expanders
    <3>4. Pieces(z, g, n) \o g[z[n + 1]] \in Seq(Insts)
      BY <3>2, <3>3, ConcatProperties
    <3> QED BY <3>1, <3>3, <3>4, PiecesFirst
  <2> QED BY <2>1
<1> HIDE DEF S
<1>3. Nat \subseteq S
  BY <1>1, <1>2, NatInd
<1> QED BY <1>3 DEF S

LEMMA PiecesMore ==
  ASSUME NEW z \in Seq(Insts), NEW g \in Expanders, NEW k \in 0 .. Len(z) - 1
  PROVE  /\ Pieces(z, g, k + 1) = Pieces(z, g, k) \o g[z[k + 1]]
         /\ Pieces(z, g, k) \in Seq(Insts) /\ Pieces(z, g, k + 1) \in Seq(Insts)
         /\ z[k + 1] \in Insts /\ g[z[k + 1]] \in Seq(Insts)
<1>1. k \in 0 .. Len(z) /\ k + 1 \in 0 .. Len(z) /\ k + 1 \in 1 .. Len(z)
  OBVIOUS
<1>2. z[k + 1] \in Insts
  BY <1>1
<1>3. g[z[k + 1]] \in Seq(Insts)
  BY <1>2 DEF Expanders
<1>4. Pieces(z, g, k) \in Seq(Insts) /\ Pieces(z, g, k + 1) \in Seq(Insts)
  BY <1>1, PiecesType
<1>5. CASE k = 0
  <2>1. <<>> \o g[z[1]] = g[z[1]]
    BY <1>3, <1>5, ConcatEmptySeq
  <2>2. Pieces(z, g, k) = <<>>
    BY <1>5, PiecesNone
  <2> QED BY <1>2, <1>3, <1>4, <1>5, <2>1, <2>2, PiecesFirst
<1>6. CASE k # 0
  BY <1>2, <1>3, <1>4, <1>6, PiecesFirst
<1> QED BY <1>5, <1>6

\* Two lists that agree, or are expanded alike, up to a position
Alike(z, g, w, h, k) == \A i \in 1 .. k : g[z[i]] = h[w[i]]

LEMMA PiecesAlike ==
  ASSUME NEW z, NEW w, NEW g, NEW h, NEW k \in Nat, Alike(z, g, w, h, k)
  PROVE  Pieces(z, g, k) = Pieces(w, h, k)
<1>1. [i \in 1 .. k |-> g[z[i]]] = [i \in 1 .. k |-> h[w[i]]]
  BY DEF Alike
<1> QED BY <1>1 DEF Pieces

LEMMA WholeType ==
  ASSUME NEW z \in Seq(Insts), NEW g \in Expanders
  PROVE  Whole(z, g) \in Seq(Insts)
<1>1. Len(z) \in 0 .. Len(z)
  OBVIOUS
<1> QED BY <1>1, PiecesType DEF Whole

LEMMA Associative ==
  ASSUME NEW r \in Seq(Insts), NEW s \in Seq(Insts), NEW t \in Seq(Insts)
  PROVE  (r \o s) \o t = r \o (s \o t)
BY ConcatAssociative

\* What is made of two lists, one after the other
LEMMA WholeConcat ==
  ASSUME NEW s \in Seq(Insts), NEW t \in Seq(Insts), NEW g \in Expanders
  PROVE  Whole(s \o t, g) = Whole(s, g) \o Whole(t, g)
<1> DEFINE z == s \o t
           n == Len(s)
           S == {k \in Nat : k <= Len(t) => Pieces(z, g, n + k) = Whole(s, g) \o Pieces(t, g, k)}
<1>1. /\ z \in Seq(Insts) /\ Len(z) = n + Len(t) /\ n \in Nat /\ Len(t) \in Nat
      /\ \A i \in 1 .. n : z[i] = s[i]
      /\ \A i \in 1 .. Len(t) : z[n + i] = t[i]
  BY ConcatProperties
<1>2. Whole(s, g) \in Seq(Insts)
  BY WholeType
<1>3. Pieces(z, g, n) = Whole(s, g)
  <2>1. Alike(z, g, s, g, n)
    BY <1>1 DEF Alike
  <2> HIDE DEF z
  <2>2. Pieces(z, g, n) = Pieces(s, g, n)
    BY <1>1, <2>1, PiecesAlike
  <2> QED BY <2>2 DEF Whole
<1> HIDE DEF z
<1>4. 0 \in S
  <2>1. Whole(s, g) \o <<>> = Whole(s, g)
    BY <1>2, ConcatEmptySeq
  <2>2. n + 0 = n
    BY <1>1
  <2> QED BY <1>3, <2>1, <2>2, PiecesNone
<1>5. ASSUME NEW k \in Nat, k \in S PROVE k + 1 \in S
  <2>1. ASSUME k + 1 <= Len(t)
        PROVE  Pieces(z, g, n + (k + 1)) = Whole(s, g) \o Pieces(t, g, k + 1)
    <3>1. k \in 0 .. Len(t) - 1 /\ n + k \in 0 .. Len(z) - 1 /\ k + 1 \in 1 .. Len(t)
      BY <1>1, <2>1
    <3>2. z[(n + k) + 1] = t[k + 1] /\ n + (k + 1) = (n + k) + 1
      <4>1. n + (k + 1) = (n + k) + 1
        BY <1>1
      <4> QED BY <1>1, <3>1, <4>1
    <3>3. /\ Pieces(z, g, (n + k) + 1) = Pieces(z, g, n + k) \o g[z[(n + k) + 1]]
          /\ Pieces(t, g, k + 1) = Pieces(t, g, k) \o g[t[k + 1]]
          /\ Pieces(t, g, k) \in Seq(Insts) /\ g[t[k + 1]] \in Seq(Insts)
      BY <1>1, <3>1, PiecesMore
    <3>4. Pieces(z, g, n + k) = Whole(s, g) \o Pieces(t, g, k)
      BY <1>5, <2>1
    <3>5. (Whole(s, g) \o Pieces(t, g, k)) \o g[t[k + 1]]
            = Whole(s, g) \o (Pieces(t, g, k) \o g[t[k + 1]])
      BY <1>2, <3>3, Associative
    <3> QED BY <3>2, <3>3, <3>4, <3>5
  <2> HIDE DEF n
  <2> QED BY <2>1
<1> HIDE DEF S
<1>6. Nat \subseteq S
  BY <1>4, <1>5, NatInd
<1>7. Pieces(z, g, n + Len(t)) = Whole(s, g) \o Pieces(t, g, Len(t))
  BY <1>1, <1>6 DEF S
<1> QED BY <1>1, <1>7 DEF Whole, z
-----------------------------------------------------------------------------
(* Insertion                                                                  *)

LEMMA Parts ==
  ASSUME NEW s \in Seq(Insts), NEW t \in Seq(Insts)
  PROVE  /\ s \o t \in Seq(Insts)
         /\ Len(s) \in Nat /\ Len(t) \in Nat
         /\ Len(s \o t) = Len(s) + Len(t)
         /\ SubSeq(s \o t, 1, Len(s)) = s
         /\ SubSeq(s \o t, Len(s) + 1, Len(s \o t)) = t
<1> DEFINE z == s \o t
           n == Len(s)
<1>1. /\ z \in Seq(Insts) /\ Len(z) = n + Len(t) /\ n \in Nat /\ Len(t) \in Nat
      /\ \A i \in 1 .. n : z[i] = s[i] /\ s[i] \in Insts
      /\ \A i \in 1 .. Len(t) : z[n + i] = t[i] /\ t[i] \in Insts
  BY ConcatProperties
<1>2. SubSeq(z, 1, n) = s
  <2> HIDE DEF z
  <2>1. \A i \in 1 .. n : z[i] \in Insts
    BY <1>1
  <2>2. /\ SubSeq(z, 1, n) \in Seq(Insts)
        /\ Len(SubSeq(z, 1, n)) = IF 1 <= n THEN n - 1 + 1 ELSE 0
        /\ \A i \in 1 .. n - 1 + 1 : SubSeq(z, 1, n)[i] = z[1 + i - 1]
    BY <1>1, <2>1, SubSeqProperties
  <2>3. Len(SubSeq(z, 1, n)) = n /\ n - 1 + 1 = n
    BY <1>1, <2>2
  <2>4. \A i \in 1 .. n : SubSeq(z, 1, n)[i] = s[i]
    <3>1. \A i \in 1 .. n : 1 + i - 1 = i
      BY <1>1
    <3> QED BY <1>1, <2>2, <2>3, <3>1
  <2> QED BY <2>2, <2>3, <2>4, SeqEqual
<1>3. SubSeq(z, n + 1, Len(z)) = t
  <2> HIDE DEF z
  <2> DEFINE u == SubSeq(z, n + 1, Len(z))
  <2>1. \A i \in n + 1 .. Len(z) : z[i] \in Insts
    BY <1>1
  <2>2. /\ u \in Seq(Insts)
        /\ Len(u) = IF n + 1 <= Len(z) THEN Len(z) - (n + 1) + 1 ELSE 0
        /\ \A i \in 1 .. Len(z) - (n + 1) + 1 : u[i] = z[(n + 1) + i - 1]
    BY <1>1, <2>1, SubSeqProperties
  <2> HIDE DEF u
  <2>3. Len(u) = Len(t) /\ Len(z) - (n + 1) + 1 = Len(t)
    BY <1>1, <2>2
  <2>4. \A i \in 1 .. Len(t) : u[i] = t[i]
    <3>1. \A i \in 1 .. Len(t) : (n + 1) + i - 1 = n + i
      BY <1>1
    <3> QED BY <1>1, <2>2, <2>3, <3>1
  <2>5. u = t
    BY <2>2, <2>3, <2>4, SeqEqual
  <2> QED BY <2>5 DEF u
<1> QED BY <1>1, <1>2, <1>3

\* A new instruction between two lists
LEMMA InsertBetween ==
  ASSUME NEW s \in Seq(Insts), NEW t \in Seq(Insts), NEW e \in Insts
  PROVE  InsertAt(s \o t, Len(s) + 1, e) = (s \o <<e>>) \o t
<1> DEFINE z == s \o t
           n == Len(s)
<1>1. /\ (n + 1) - 1 = n
      /\ SubSeq(z, 1, n) = s /\ SubSeq(z, n + 1, Len(z)) = t
  BY Parts
<1>2. InsertAt(z, n + 1, e) = (SubSeq(z, 1, (n + 1) - 1) \o <<e>>) \o SubSeq(z, n + 1, Len(z))
  BY DEF InsertAt
<1>3. InsertAt(z, n + 1, e) = (s \o <<e>>) \o t
  <2> HIDE DEF z, n
  <2> QED BY <1>1, <1>2
<1> QED BY <1>3

\* A list is what is in front of a position and what is behind it
Before(s, k) == SubSeq(s, 1, k)
Behind(s, k) == SubSeq(s, k + 1, Len(s))

LEMMA SplitAt ==
  ASSUME NEW s \in Seq(Insts), NEW k \in 0 .. Len(s)
  PROVE  /\ Before(s, k) \in Seq(Insts) /\ Behind(s, k) \in Seq(Insts)
         /\ Len(Before(s, k)) = k /\ Len(Behind(s, k)) = Len(s) - k
         /\ \A i \in 1 .. k : Before(s, k)[i] = s[i]
         /\ \A i \in 1 .. Len(s) - k : Behind(s, k)[i] = s[k + i]
         /\ s = Before(s, k) \o Behind(s, k)
<1> DEFINE u == SubSeq(s, 1, k)
           v == SubSeq(s, k + 1, Len(s))
<1>1. Len(s) \in Nat /\ k \in Nat /\ k <= Len(s) /\ \A i \in 1 .. Len(s) : s[i] \in Insts
  OBVIOUS
<1>2. /\ u \in Seq(Insts)
      /\ Len(u) = IF 1 <= k THEN k - 1 + 1 ELSE 0
      /\ \A i \in 1 .. k - 1 + 1 : u[i] = s[1 + i - 1]
  <2>1. \A i \in 1 .. k : s[i] \in Insts
    BY <1>1
  <2> QED BY <1>1, <2>1, SubSeqProperties
<1>3. /\ v \in Seq(Insts)
      /\ Len(v) = IF k + 1 <= Len(s) THEN Len(s) - (k + 1) + 1 ELSE 0
      /\ \A i \in 1 .. Len(s) - (k + 1) + 1 : v[i] = s[(k + 1) + i - 1]
  <2>1. \A i \in k + 1 .. Len(s) : s[i] \in Insts
    BY <1>1
  <2> QED BY <1>1, <2>1, SubSeqProperties
<1> HIDE DEF u, v
<1>4. Len(u) = k /\ \A i \in 1 .. k : u[i] = s[i]
  <2>1. k - 1 + 1 = k /\ \A i \in 1 .. k : 1 + i - 1 = i
    BY <1>1
  <2> QED BY <1>1, <1>2, <2>1
<1>5. Len(v) = Len(s) - k /\ \A i \in 1 .. Len(s) - k : v[i] = s[k + i]
  <2>1. Len(s) - (k + 1) + 1 = Len(s) - k /\ \A i \in 1 .. Len(s) - k : (k + 1) + i - 1 = k + i
    BY <1>1
  <2> QED BY <1>1, <1>3, <2>1
<1>6. s = u \o v
  <2> DEFINE w == u \o v
  <2>1. /\ w \in Seq(Insts) /\ Len(w) = Len(u) + Len(v)
        /\ \A i \in 1 .. Len(u) + Len(v) : w[i] = IF i <= Len(u) THEN u[i] ELSE v[i - Len(u)]
    BY <1>2, <1>3, ConcatProperties
  <2> HIDE DEF w
  <2>2. Len(w) = Len(s)
    BY <1>1, <1>4, <1>5, <2>1
  <2>3. ASSUME NEW i \in 1 .. Len(s) PROVE w[i] = s[i]
    <3>1. CASE i <= k
      BY <1>1, <1>4, <1>5, <2>1, <3>1
    <3>2. CASE i > k
      <4>1. i - k \in 1 .. Len(s) - k /\ k + (i - k) = i
        BY <1>1, <3>2
      <4> QED BY <1>1, <1>4, <1>5, <2>1, <3>2, <4>1
    <3> QED BY <1>1, <3>1, <3>2
  <2>4. s = w
    BY <2>1, <2>2, <2>3, SeqEqual
  <2> QED BY <2>4 DEF w
<1> QED BY <1>2, <1>3, <1>4, <1>5, <1>6 DEF u, v, Before, Behind

\* What an insertion leaves in place
LEMMA InsertIs ==
  ASSUME NEW s \in Seq(Insts), NEW i \in 1 .. Len(s) + 1, NEW e \in Insts
  PROVE  /\ InsertAt(s, i, e) = (Before(s, i - 1) \o <<e>>) \o Behind(s, i - 1)
         /\ InsertAt(s, i, e) \in Seq(Insts)
         /\ Len(InsertAt(s, i, e)) = Len(s) + 1
         /\ \A j \in 1 .. i - 1 : InsertAt(s, i, e)[j] = s[j]
<1> DEFINE u == Before(s, i - 1)
           v == Behind(s, i - 1)
<1>1. i - 1 \in 0 .. Len(s) /\ Len(s) \in Nat /\ (i - 1) + 1 = i /\ i \in Nat
  OBVIOUS
<1>2. /\ u \in Seq(Insts) /\ v \in Seq(Insts) /\ Len(u) = i - 1 /\ Len(v) = Len(s) - (i - 1)
      /\ \A j \in 1 .. i - 1 : u[j] = s[j]
  BY <1>1, SplitAt
<1>3. InsertAt(s, i, e) = (u \o <<e>>) \o v
  BY <1>1 DEF InsertAt, Before, Behind
<1> HIDE DEF u, v
<1>4. /\ <<e>> \in Seq(Insts) /\ Len(<<e>>) = 1
  OBVIOUS
<1>5. /\ u \o <<e>> \in Seq(Insts) /\ Len(u \o <<e>>) = i
      /\ \A j \in 1 .. i - 1 : (u \o <<e>>)[j] = u[j]
  <2>1. /\ u \o <<e>> \in Seq(Insts) /\ Len(u \o <<e>>) = Len(u) + Len(<<e>>)
        /\ \A j \in 1 .. Len(u) + Len(<<e>>) : (u \o <<e>>)[j] =
             IF j <= Len(u) THEN u[j] ELSE <<e>>[j - Len(u)]
    BY <1>2, <1>4, ConcatProperties
  <2> QED BY <1>1, <1>2, <1>4, <2>1
<1>6. /\ (u \o <<e>>) \o v \in Seq(Insts) /\ Len((u \o <<e>>) \o v) = Len(s) + 1
      /\ \A j \in 1 .. i - 1 : ((u \o <<e>>) \o v)[j] = u[j]
  <2> DEFINE w == u \o <<e>>
  <2>0. w \in Seq(Insts) /\ Len(w) = i /\ \A j \in 1 .. i - 1 : w[j] = u[j]
    BY <1>5
  <2> HIDE DEF w
  <2>1. /\ w \o v \in Seq(Insts) /\ Len(w \o v) = Len(w) + Len(v)
        /\ \A j \in 1 .. Len(w) + Len(v) : (w \o v)[j] = IF j <= Len(w) THEN w[j] ELSE v[j - Len(w)]
    BY <1>2, <2>0, ConcatProperties
  <2>2. /\ w \o v \in Seq(Insts) /\ Len(w \o v) = Len(s) + 1
        /\ \A j \in 1 .. i - 1 : (w \o v)[j] = u[j]
    BY <1>1, <1>2, <2>0, <2>1
  <2> QED BY <2>2 DEF w
<1> QED BY <1>2, <1>3, <1>6 DEF u, v
-----------------------------------------------------------------------------
(* What is made of each instruction, and of lists of lists                    *)

\* The instructions of a list
Ran(s) == {s[i] : i \in 1 .. Len(s)}

LEMMA RanConcat ==
  ASSUME NEW s \in Seq(Insts), NEW t \in Seq(Insts)
  PROVE  Ran(s \o t) = Ran(s) \cup Ran(t)
<1> DEFINE z == s \o t
           n == Len(s)
<1>1. /\ z \in Seq(Insts) /\ Len(z) = n + Len(t) /\ n \in Nat /\ Len(t) \in Nat
      /\ \A i \in 1 .. n + Len(t) : z[i] = IF i <= n THEN s[i] ELSE t[i - n]
  BY ConcatProperties
<1> HIDE DEF z, n
<1>2. ASSUME NEW i \in 1 .. Len(z) PROVE z[i] \in Ran(s) \cup Ran(t)
  <2>1. CASE i <= n
    BY <1>1, <2>1 DEF Ran, n
  <2>2. CASE i > n
    <3>1. i - n \in 1 .. Len(t) /\ z[i] = t[i - n]
      BY <1>1, <2>2
    <3> QED BY <3>1 DEF Ran
  <2> QED BY <1>1, <2>1, <2>2
<1>3. ASSUME NEW i \in 1 .. n PROVE s[i] \in Ran(z)
  <2>1. i \in 1 .. Len(z) /\ z[i] = s[i]
    BY <1>1
  <2> QED BY <2>1 DEF Ran
<1>4. ASSUME NEW i \in 1 .. Len(t) PROVE t[i] \in Ran(z)
  <2>1. n + i \in 1 .. Len(z) /\ z[n + i] = t[i]
    <3>1. n + i \in 1 .. n + Len(t) /\ ((n + i <= n) <=> FALSE) /\ (n + i) - n = i
      BY <1>1
    <3> QED BY <1>1, <3>1
  <2> QED BY <2>1 DEF Ran
<1>5. Ran(z) = Ran(s) \cup Ran(t)
  <2>1. Ran(z) \subseteq Ran(s) \cup Ran(t)
    BY <1>2 DEF Ran
  <2>2. Ran(s) \subseteq Ran(z)
    BY <1>3 DEF Ran, n
  <2>3. Ran(t) \subseteq Ran(z)
    BY <1>4 DEF Ran
  <2> QED BY <2>1, <2>2, <2>3
<1> QED BY <1>5 DEF z

LEMMA RanPieces ==
  ASSUME NEW z \in Seq(Insts), NEW g \in Expanders, NEW k \in 0 .. Len(z)
  PROVE  Ran(Pieces(z, g, k)) = UNION {Ran(g[z[i]]) : i \in 1 .. k}
<1> DEFINE U(n) == UNION {Ran(g[z[i]]) : i \in 1 .. n}
           S == {n \in Nat : n <= Len(z) => Ran(Pieces(z, g, n)) = U(n)}
<1>1. 0 \in S
  <2>1. Ran(<<>>) = {} /\ U(0) = {}
    BY DEF Ran
  <2> QED BY <2>1, PiecesNone
<1>2. ASSUME NEW n \in Nat, n \in S PROVE n + 1 \in S
  <2>1. ASSUME n + 1 <= Len(z) PROVE Ran(Pieces(z, g, n + 1)) = U(n + 1)
    <3>1. n \in 0 .. Len(z) - 1 /\ n <= Len(z)
      BY <2>1
    <3>2. /\ Pieces(z, g, n + 1) = Pieces(z, g, n) \o g[z[n + 1]]
          /\ Pieces(z, g, n) \in Seq(Insts) /\ g[z[n + 1]] \in Seq(Insts)
      BY <3>1, PiecesMore
    <3>3. Ran(Pieces(z, g, n + 1)) = U(n) \cup Ran(g[z[n + 1]])
      BY <1>2, <3>1, <3>2, RanConcat
    <3>4. U(n + 1) = U(n) \cup Ran(g[z[n + 1]])
      <4>1. 1 .. n + 1 = (1 .. n) \cup {n + 1}
        OBVIOUS
      <4> QED BY <4>1
    <3> QED BY <3>3, <3>4
  <2> QED BY <2>1
<1> HIDE DEF S
<1>3. Nat \subseteq S
  BY <1>1, <1>2, NatInd
<1> QED BY <1>3 DEF S

\* An instruction of the whole was made of some instruction
LEMMA RanWhole ==
  ASSUME NEW z \in Seq(Insts), NEW g \in Expanders
  PROVE  Ran(Whole(z, g)) = UNION {Ran(g[x]) : x \in Ran(z)}
<1>1. Len(z) \in 0 .. Len(z)
  OBVIOUS
<1>2. Ran(Whole(z, g)) = UNION {Ran(g[z[i]]) : i \in 1 .. Len(z)}
  BY <1>1, RanPieces DEF Whole
<1>3. {Ran(g[z[i]]) : i \in 1 .. Len(z)} = {Ran(g[x]) : x \in Ran(z)}
  <2> DEFINE G(x) == Ran(g[x])
  <2> HIDE DEF G
  <2>1. {G(z[i]) : i \in 1 .. Len(z)} = {G(x) : x \in Ran(z)}
    BY Zenon DEF Ran
  <2> QED BY <2>1 DEF G
<1> QED BY <1>2, <1>3

\* Pieces that are the instructions themselves
LEMMA PiecesOwn ==
  ASSUME NEW z \in Seq(Insts), NEW g \in Expanders,
         \A i \in 1 .. Len(z) : g[z[i]] = <<z[i]>>
  PROVE  Whole(z, g) = z
<1> DEFINE S == {n \in Nat : n <= Len(z) => Pieces(z, g, n) = Before(z, n)}
<1>1. 0 \in S
  <2>1. Before(z, 0) = <<>>
    BY SubSeqEmpty DEF Before
  <2> QED BY <2>1, PiecesNone
<1>2. ASSUME NEW n \in Nat, n \in S PROVE n + 1 \in S
  <2>1. ASSUME n + 1 <= Len(z) PROVE Pieces(z, g, n + 1) = Before(z, n + 1)
    <3>1. n \in 0 .. Len(z) - 1 /\ n <= Len(z) /\ n + 1 \in 1 .. Len(z) /\ (n + 1) - 1 = n
          /\ 1 \in 1 .. Len(z) /\ n + 1 \in 1 .. Len(z)
      BY <2>1
    <3>2. Pieces(z, g, n + 1) = Before(z, n) \o <<z[n + 1]>>
      BY <1>2, <3>1, PiecesMore
    <3>3. SubSeq(z, 1, n + 1) = SubSeq(z, 1, (n + 1) - 1) \o <<z[n + 1]>>
      BY <3>1, SubSeqRecursiveSecond
    <3> QED BY <3>1, <3>2, <3>3 DEF Before
  <2> QED BY <2>1
<1> HIDE DEF S
<1>3. Nat \subseteq S
  BY <1>1, <1>2, NatInd
<1>4. Pieces(z, g, Len(z)) = Before(z, Len(z))
  <2>1. Len(z) \in Nat /\ Len(z) <= Len(z)
    OBVIOUS
  <2> QED BY <1>3, <2>1 DEF S
<1> QED BY <1>4, SubSeqFull DEF Whole, Before

\* Two passes are one
Twice(g, h) == [inst \in Insts |-> Whole(g[inst], h)]

LEMMA WholeTwice ==
  ASSUME NEW z \in Seq(Insts), NEW g \in Expanders, NEW h \in Expanders
  PROVE  /\ Twice(g, h) \in Expanders
         /\ Whole(Whole(z, g), h) = Whole(z, Twice(g, h))
<1>1. ASSUME NEW x \in Insts PROVE g[x] \in Seq(Insts) /\ Whole(g[x], h) \in Seq(Insts)
  <2>1. g[x] \in Seq(Insts)
    BY DEF Expanders
  <2> QED BY <2>1, WholeType
<1>2. Twice(g, h) \in Expanders
  BY <1>1 DEF Twice, Expanders
<1> DEFINE c == Twice(g, h)
           S == {n \in Nat : n <= Len(z) => Whole(Pieces(z, g, n), h) = Pieces(z, c, n)}
<1>3. 0 \in S
  <2>1. Whole(<<>>, h) = <<>>
    BY PiecesNone, EmptySeq DEF Whole
  <2> QED BY <2>1, PiecesNone
<1>4. ASSUME NEW n \in Nat, n \in S PROVE n + 1 \in S
  <2>1. ASSUME n + 1 <= Len(z) PROVE Whole(Pieces(z, g, n + 1), h) = Pieces(z, c, n + 1)
    <3>1. n \in 0 .. Len(z) - 1 /\ n <= Len(z)
      BY <2>1
    <3>2. /\ Pieces(z, g, n + 1) = Pieces(z, g, n) \o g[z[n + 1]]
          /\ Pieces(z, g, n) \in Seq(Insts) /\ g[z[n + 1]] \in Seq(Insts)
          /\ z[n + 1] \in Insts
      BY <3>1, PiecesMore
    <3>3. Pieces(z, c, n + 1) = Pieces(z, c, n) \o c[z[n + 1]]
      BY <1>2, <3>1, PiecesMore
    <3>4. Whole(Pieces(z, g, n) \o g[z[n + 1]], h)
            = Whole(Pieces(z, g, n), h) \o Whole(g[z[n + 1]], h)
      BY <3>2, WholeConcat
    <3>5. c[z[n + 1]] = Whole(g[z[n + 1]], h)
      BY <3>2 DEF Twice
    <3> QED BY <1>4, <3>1, <3>2, <3>3, <3>4, <3>5
  <2> QED BY <2>1
<1> HIDE DEF S
<1>5. Nat \subseteq S
  BY <1>3, <1>4, NatInd
<1>6. Whole(Pieces(z, g, Len(z)), h) = Pieces(z, c, Len(z))
  <2>1. Len(z) \in Nat /\ Len(z) <= Len(z)
    OBVIOUS
  <2> QED BY <1>5, <2>1 DEF S
<1> QED BY <1>2, <1>6 DEF Whole

\* What is made of a single instruction
LEMMA WholeOne ==
  ASSUME NEW x \in Insts, NEW g \in Expanders
  PROVE  /\ <<x>> \in Seq(Insts)
         /\ Whole(<<x>>, g) = g[x]
<1>1. <<x>> \in Seq(Insts) /\ Len(<<x>>) = 1 /\ <<x>>[1] = x /\ 0 \in 0 .. Len(<<x>>) - 1 /\ 0 + 1 = 1
  OBVIOUS
<1>2. Pieces(<<x>>, g, 0 + 1) = g[<<x>>[1]]
  BY <1>1, PiecesFirst
<1> QED BY <1>1, <1>2 DEF Whole

LEMMA Two ==
  ASSUME NEW x \in Insts, NEW y \in Insts
  PROVE  /\ <<x>> \in Seq(Insts) /\ <<x, y>> \in Seq(Insts)
         /\ <<x>> \o <<y>> = <<x, y>>
         /\ <<>> \o <<x>> = <<x>> /\ <<x>> \o <<>> = <<x>>
<1>1. <<x>> \in Seq(Insts) /\ <<y>> \in Seq(Insts) /\ <<x, y>> \in Seq(Insts)
  OBVIOUS
<1>2. /\ Len(<<x>>) = 1 /\ Len(<<y>>) = 1 /\ Len(<<x, y>>) = 2 /\ <<x>>[1] = x /\ <<y>>[1] = y
      /\ <<x, y>>[1] = x /\ <<x, y>>[2] = y
  OBVIOUS
<1>3. <<x>> \o <<y>> = <<x, y>>
  <2> DEFINE u == <<x>>
             v == <<y>>
             w == <<x, y>>
  <2>1. /\ u \o v \in Seq(Insts) /\ Len(u \o v) = Len(u) + Len(v)
        /\ \A i \in 1 .. Len(u) + Len(v) : (u \o v)[i] = IF i <= Len(u) THEN u[i] ELSE v[i - Len(u)]
    BY <1>1, ConcatProperties
  <2>2. Len(u) = 1 /\ Len(v) = 1 /\ Len(w) = 2 /\ w \in Seq(Insts)
        /\ u[1] = x /\ v[1] = y /\ w[1] = x /\ w[2] = y
    BY <1>1, <1>2
  <2> HIDE DEF u, v, w
  <2>3. (u \o v)[1] = x /\ (u \o v)[2] = y
    BY <2>1, <2>2
  <2>4. \A i \in 1 .. Len(u \o v) : (u \o v)[i] = w[i]
    <3>1. \A i \in 1 .. Len(u \o v) : i = 1 \/ i = 2
      BY <2>1, <2>2
    <3> QED BY <2>2, <2>3, <3>1
  <2>5. u \o v = w
    BY <2>1, <2>2, <2>4, SeqEqual
  <2> QED BY <2>5 DEF u, v, w
<1> QED BY <1>1, <1>3, ConcatEmptySeq

LEMMA WholeNone ==
  ASSUME NEW g PROVE Whole(<<>>, g) = <<>>
BY PiecesNone, EmptySeq DEF Whole
-----------------------------------------------------------------------------
(* Erasure of the hooks                                                       *)

Eraser == [inst \in Insts |-> IF IsHookCall(inst) THEN <<>> ELSE <<inst>>]

LEMMA EraserIs ==
  /\ Eraser \in Expanders
  /\ \A s \in Seq(Insts) : Erase(s) = Whole(s, Eraser)
<1>1. Eraser \in Expanders
  <2>1. \A x \in Insts : <<>> \in Seq(Insts) /\ <<x>> \in Seq(Insts)
    BY EmptySeq
  <2> QED BY <2>1 DEF Eraser, Expanders
<1>2. ASSUME NEW s \in Seq(Insts) PROVE Erase(s) = Whole(s, Eraser)
  <2>1. DOMAIN s = 1 .. Len(s) /\ \A i \in 1 .. Len(s) : s[i] \in Insts
    OBVIOUS
  <2>2. [i \in DOMAIN s |-> IF IsHookCall(s[i]) THEN <<>> ELSE <<s[i]>>]
          = [i \in 1 .. Len(s) |-> Eraser[s[i]]]
    BY <2>1 DEF Eraser
  <2> QED BY <2>2 DEF Erase, Whole, Pieces
<1> QED BY <1>1, <1>2

\* A hook that is inserted is erased
LEMMA EraseInsert ==
  ASSUME NEW s \in Seq(Insts), NEW i \in 1 .. Len(s) + 1, NEW e \in Insts, IsHookCall(e)
  PROVE  Erase(InsertAt(s, i, e)) = Erase(s)
<1> DEFINE u == Before(s, i - 1)
           v == Behind(s, i - 1)
           W(t) == Whole(t, Eraser)
<1>1. i - 1 \in 0 .. Len(s)
  OBVIOUS
<1>2. u \in Seq(Insts) /\ v \in Seq(Insts) /\ s = u \o v
  BY <1>1, SplitAt
<1>3. /\ InsertAt(s, i, e) = (u \o <<e>>) \o v /\ InsertAt(s, i, e) \in Seq(Insts)
  BY InsertIs
<1>4. <<e>> \in Seq(Insts) /\ W(<<e>>) = <<>>
  BY WholeOne, EraserIs DEF Eraser
<1> HIDE DEF u, v
<1>5. u \o <<e>> \in Seq(Insts)
  BY <1>2, <1>4, ConcatProperties
<1>6. /\ W((u \o <<e>>) \o v) = W(u \o <<e>>) \o W(v)
      /\ W(u \o <<e>>) = W(u) \o W(<<e>>)
      /\ W(u \o v) = W(u) \o W(v)
  BY <1>2, <1>4, <1>5, WholeConcat, EraserIs
<1>7. W(u) \o <<>> = W(u)
  <2>1. W(u) \in Seq(Insts)
    BY <1>2, WholeType, EraserIs
  <2> QED BY <2>1, ConcatEmptySeq
<1> HIDE DEF W
<1>8. W(InsertAt(s, i, e)) = W(s)
  BY <1>2, <1>3, <1>4, <1>6, <1>7
<1> QED BY <1>3, <1>8, EraserIs DEF W

LEMMA EraseOwn ==
  ASSUME NEW s \in Seq(Insts), \A i \in 1 .. Len(s) : ~ IsHookCall(s[i])
  PROVE  Erase(s) = s
<1>1. \A i \in 1 .. Len(s) : Eraser[s[i]] = <<s[i]>>
  BY DEF Eraser
<1> QED BY <1>1, PiecesOwn, EraserIs
-----------------------------------------------------------------------------
(* What the passes make of a block                                            *)

LEMMA HookCallIs ==
  ASSUME NEW m, NEW h \in Hooks
  PROVE  /\ HookCall(m, h) \in Insts
         /\ IsHookCall(HookCall(m, h))
         /\ ~ CallsMalloc(HookCall(m, h))
         /\ Indirect(HookCall(m, h)) <=> Foreign(m, h)
         /\ ~ Foreign(m, h) => HookCall(m, h) = Call(h, TRUE)
<1>1. h \in Names /\ h # NULL /\ h # "malloc" /\ NULL # "malloc"
  BY NamesAssumption DEF Hooks
<1>2. Foreign(m, h) \in BOOLEAN
  BY DEF Foreign
<1>3. HookCall(m, h) \in Insts
  BY <1>1, <1>2 DEF HookCall, Call, Insts
<1>4. /\ HookCall(m, h).op = "call" /\ HookCall(m, h).callee = h
      /\ HookCall(m, h).direct = ~ Foreign(m, h)
  BY DEF HookCall, Call
<1>5. getCalledFunction(HookCall(m, h)) = IF Foreign(m, h) THEN NULL ELSE h
  BY <1>2, <1>4 DEF getCalledFunction
<1>6. ~ Foreign(m, h) => HookCall(m, h) = Call(h, TRUE)
  BY <1>2 DEF HookCall
<1> QED BY <1>1, <1>3, <1>4, <1>5, <1>6 DEF IsHookCall, CallsMalloc, Indirect

LEMMA HookNames ==
  "testsan_HelloFunction" \in Hooks /\ "testsan_EndOfMain" \in Hooks /\ "testsan_AfterMalloc" \in Hooks
BY DEF Hooks

LEMMA RetPiecesIs ==
  ASSUME NEW m, NEW name
  PROVE  /\ RetPieces(m, name) \in Expanders
         /\ \A x \in Insts :
              RetPieces(m, name)[x] =
                IF name = "main" /\ x.op = "ret" THEN <<HookCall(m, "testsan_EndOfMain"), x>>
                                                 ELSE <<x>>
<1>1. HookCall(m, "testsan_EndOfMain") \in Insts
  BY HookCallIs, HookNames
<1>2. \A x \in Insts :
        /\ <<x>> \in Seq(Insts) /\ <<HookCall(m, "testsan_EndOfMain"), x>> \in Seq(Insts)
        /\ <<>> \o <<x>> = <<x>>
        /\ <<HookCall(m, "testsan_EndOfMain")>> \o <<x>> = <<HookCall(m, "testsan_EndOfMain"), x>>
  BY <1>1, Two
<1>3. \A x \in Insts :
        RetPieces(m, name)[x] =
          IF name = "main" /\ x.op = "ret" THEN <<HookCall(m, "testsan_EndOfMain"), x>> ELSE <<x>>
  BY <1>2 DEF RetPieces
<1>4. RetPieces(m, name) = [x \in Insts |-> RetPieces(m, name)[x]]
  BY DEF RetPieces
<1>5. \A x \in Insts : RetPieces(m, name)[x] \in Seq(Insts)
  BY <1>2, <1>3
<1> QED BY <1>3, <1>4, <1>5 DEF Expanders

LEMMA MallocPiecesIs ==
  ASSUME NEW m
  PROVE  /\ MallocPieces(m) \in Expanders
         /\ \A x \in Insts :
              MallocPieces(m)[x] =
                IF CallsMalloc(x) THEN <<x, HookCall(m, "testsan_AfterMalloc")>> ELSE <<x>>
<1>1. HookCall(m, "testsan_AfterMalloc") \in Insts
  BY HookCallIs, HookNames
<1>2. \A x \in Insts :
        /\ <<x>> \in Seq(Insts) /\ <<x, HookCall(m, "testsan_AfterMalloc")>> \in Seq(Insts)
        /\ <<x>> \o <<>> = <<x>>
        /\ <<x>> \o <<HookCall(m, "testsan_AfterMalloc")>> = <<x, HookCall(m, "testsan_AfterMalloc")>>
  BY <1>1, Two
<1>3. \A x \in Insts :
        MallocPieces(m)[x] =
          IF CallsMalloc(x) THEN <<x, HookCall(m, "testsan_AfterMalloc")>> ELSE <<x>>
  BY <1>2 DEF MallocPieces
<1>4. MallocPieces(m) = [x \in Insts |-> MallocPieces(m)[x]]
  BY DEF MallocPieces
<1>5. \A x \in Insts : MallocPieces(m)[x] \in Seq(Insts)
  BY <1>2, <1>3
<1> QED BY <1>3, <1>4, <1>5 DEF Expanders

LEMMA GivenIs ==
  ASSUME NEW m, Given(m)
  PROVE  /\ m \in Seq(FunctionTypes) /\ UniqueNames(m) /\ Len(m) \in Nat /\ DOMAIN m = 1 .. Len(m)
         /\ \A f \in DOMAIN m :
              /\ m[f].name \in Names /\ m[f].typed \in BOOLEAN
              /\ m[f].blocks \in Seq(Seq(Insts)) /\ DOMAIN m[f].blocks = 1 .. Len(m[f].blocks)
              /\ Len(m[f].blocks) \in Nat
              /\ m[f].name \in Hooks => isDeclaration(m[f])
              /\ \A b \in DOMAIN m[f].blocks :
                   /\ m[f].blocks[b] \in Seq(Insts)
                   /\ \A i \in 1 .. Len(m[f].blocks[b]) : ~ IsHookCall(m[f].blocks[b][i])
<1>1. m \in Seq(FunctionTypes) /\ UniqueNames(m)
  BY ModulesAssumption DEF Given, Instrumentable
<1>2. Len(m) \in Nat /\ DOMAIN m = 1 .. Len(m)
  BY <1>1
<1>3. ASSUME NEW f \in DOMAIN m
      PROVE  /\ m[f].name \in Names /\ m[f].typed \in BOOLEAN
             /\ m[f].blocks \in Seq(Seq(Insts)) /\ DOMAIN m[f].blocks = 1 .. Len(m[f].blocks)
             /\ Len(m[f].blocks) \in Nat
             /\ m[f].name \in Hooks => isDeclaration(m[f])
             /\ \A b \in DOMAIN m[f].blocks :
                  /\ m[f].blocks[b] \in Seq(Insts)
                  /\ \A i \in 1 .. Len(m[f].blocks[b]) : ~ IsHookCall(m[f].blocks[b][i])
  <2>1. m[f] \in FunctionTypes
    BY <1>1, <1>2, ElementOfSeq
  <2>2. m[f].name \in Names /\ m[f].typed \in BOOLEAN /\ m[f].blocks \in Seq(Seq(Insts))
    BY <2>1 DEF FunctionTypes
  <2>3. DOMAIN m[f].blocks = 1 .. Len(m[f].blocks) /\ Len(m[f].blocks) \in Nat
    BY <2>2
  <2>4. ASSUME NEW b \in DOMAIN m[f].blocks
        PROVE  /\ m[f].blocks[b] \in Seq(Insts)
               /\ \A i \in 1 .. Len(m[f].blocks[b]) : ~ IsHookCall(m[f].blocks[b][i])
    <3>1. m[f].blocks[b] \in Seq(Insts)
      BY <2>2, <2>3
    <3>2. DOMAIN m[f].blocks[b] = 1 .. Len(m[f].blocks[b])
      BY <3>1
    <3>3. \A i \in DOMAIN m[f].blocks[b] : ~ IsHookCall(m[f].blocks[b][i])
      BY ModulesAssumption DEF Given, Instrumentable
    <3> QED BY <3>1, <3>2, <3>3
  <2>5. m[f].name \in Hooks => isDeclaration(m[f])
    BY ModulesAssumption DEF Given, Instrumentable
  <2> QED BY <2>2, <2>3, <2>4, <2>5
<1> QED BY <1>1, <1>2, <1>3

\* A block of the original module
IsBlock(m, f, b) == Given(m) /\ f \in DOMAIN m /\ b \in DOMAIN m[f].blocks

Hello(m, b) == IF b = 1 THEN <<HookCall(m, "testsan_HelloFunction")>> ELSE <<>>

LEMMA BlocksAre ==
  ASSUME NEW m, NEW f, NEW b, IsBlock(m, f, b)
  PROVE  /\ m[f].blocks[b] \in Seq(Insts)
         /\ Hello(m, b) \in Seq(Insts) /\ Entered(m, f, b) = Hello(m, b) \o m[f].blocks[b]
         /\ Entered(m, f, b) \in Seq(Insts)
         /\ WithRets(m, f, b) \in Seq(Insts)
         /\ WithMallocs(m, f, b) \in Seq(Insts)
<1>1. m[f].blocks[b] \in Seq(Insts)
  BY GivenIs DEF IsBlock
<1>2. Hello(m, b) \in Seq(Insts)
  <2>1. HookCall(m, "testsan_HelloFunction") \in Insts
    BY HookCallIs, HookNames
  <2>2. /\ <<HookCall(m, "testsan_HelloFunction")>> \in Seq(Insts)
        /\ <<>> \in Seq(Insts)
    BY <2>1, Two, EmptySeq
  <2> QED BY <2>2 DEF Hello
<1>3. Entered(m, f, b) = Hello(m, b) \o m[f].blocks[b]
  BY DEF Entered, Hello
<1>4. Entered(m, f, b) \in Seq(Insts)
  BY <1>1, <1>2, <1>3, ConcatProperties
<1>5. WithRets(m, f, b) \in Seq(Insts)
  BY <1>4, WholeType, RetPiecesIs DEF WithRets
<1> QED BY <1>1, <1>2, <1>3, <1>4, <1>5, WholeType, MallocPiecesIs DEF WithMallocs

\* Only main's returns get a hook
LEMMA RetsOfOthers ==
  ASSUME NEW m, NEW f, NEW b, IsBlock(m, f, b), m[f].name # "main"
  PROVE  WithRets(m, f, b) = Entered(m, f, b)
<1> DEFINE z == Entered(m, f, b)
           g == RetPieces(m, m[f].name)
<1>1. z \in Seq(Insts)
  BY BlocksAre
<1>2. g \in Expanders /\ \A x \in Insts : g[x] = <<x>>
  BY RetPiecesIs
<1> HIDE DEF z, g
<1>3. \A i \in 1 .. Len(z) : z[i] \in Insts
  BY <1>1
<1>4. Whole(z, g) = z
  BY <1>1, <1>2, <1>3, PiecesOwn
<1> QED BY <1>4 DEF WithRets, z, g

\* The instructions of a block that the last pass has left
LEMMA FinalInsts ==
  ASSUME NEW m, NEW f, NEW b, IsBlock(m, f, b)
  PROVE  LET own == Ran(m[f].blocks[b])
             hello == HookCall(m, "testsan_HelloFunction")
             ends  == HookCall(m, "testsan_EndOfMain")
             after == HookCall(m, "testsan_AfterMalloc")
             all == Ran(WithMallocs(m, f, b))
         IN  /\ own \subseteq Insts
             /\ own \subseteq all
             /\ b = 1 => hello \in all
             /\ (m[f].name = "main" /\ \E x \in own : x.op = "ret") => ends \in all
             /\ (\E x \in own : CallsMalloc(x)) => after \in all
             /\ \A y \in all :
                  \/ y \in own
                  \/ b = 1 /\ y = hello
                  \/ m[f].name = "main" /\ (\E x \in own : x.op = "ret") /\ y = ends
                  \/ (\E x \in own : CallsMalloc(x)) /\ y = after
<1> DEFINE own == Ran(m[f].blocks[b])
           hello == HookCall(m, "testsan_HelloFunction")
           ends == HookCall(m, "testsan_EndOfMain")
           after == HookCall(m, "testsan_AfterMalloc")
           e == Ran(Entered(m, f, b))
           r == Ran(WithRets(m, f, b))
           all == Ran(WithMallocs(m, f, b))
           g == RetPieces(m, m[f].name)
           h == MallocPieces(m)
<1>1. /\ hello \in Insts /\ ends \in Insts /\ after \in Insts
      /\ hello.op # "ret" /\ ~ CallsMalloc(hello) /\ ~ CallsMalloc(ends)
  <2>1. hello.op = "call"
    BY DEF HookCall, Call
  <2> QED BY <2>1, HookCallIs, HookNames
<1>2. \A s : Ran(s) = {s[i] : i \in 1 .. Len(s)}
  BY DEF Ran
<1>3. \A s \in Seq(Insts) : Ran(s) \subseteq Insts
  BY DEF Ran
<1>4. own \subseteq Insts /\ e \subseteq Insts /\ r \subseteq Insts /\ all \subseteq Insts
  BY <1>3, BlocksAre
<1>5. e = own \cup (IF b = 1 THEN {hello} ELSE {})
  <2>1. Ran(<<hello>>) = {hello} /\ Ran(<<>>) = {}
    <3> HIDE DEF hello
    <3> QED BY DEF Ran
  <2>2. Ran(Hello(m, b)) = IF b = 1 THEN {hello} ELSE {}
    BY <2>1 DEF Hello
  <2>3. e = Ran(Hello(m, b)) \cup own
    <3>1. /\ Hello(m, b) \in Seq(Insts) /\ m[f].blocks[b] \in Seq(Insts)
          /\ Entered(m, f, b) = Hello(m, b) \o m[f].blocks[b]
      BY BlocksAre
    <3> QED BY <3>1, RanConcat
  <2> QED BY <2>2, <2>3
<1>6. \A x \in Insts : Ran(g[x]) = IF m[f].name = "main" /\ x.op = "ret" THEN {ends, x} ELSE {x}
  <2>1. \A x \in Insts : g[x] = IF m[f].name = "main" /\ x.op = "ret" THEN <<ends, x>> ELSE <<x>>
    BY RetPiecesIs
  <2> HIDE DEF ends
  <2>2. \A x \in Insts : Ran(<<ends, x>>) = {ends, x} /\ Ran(<<x>>) = {x}
    BY DEF Ran
  <2> QED BY <2>1, <2>2
<1>7. \A x \in Insts : Ran(h[x]) = IF CallsMalloc(x) THEN {x, after} ELSE {x}
  <2>1. \A x \in Insts : h[x] = IF CallsMalloc(x) THEN <<x, after>> ELSE <<x>>
    BY MallocPiecesIs
  <2> HIDE DEF after
  <2>2. \A x \in Insts : Ran(<<x, after>>) = {x, after} /\ Ran(<<x>>) = {x}
    BY DEF Ran
  <2> QED BY <2>1, <2>2
<1>8. r = UNION {Ran(g[x]) : x \in e} /\ all = UNION {Ran(h[x]) : x \in r}
  BY BlocksAre, RanWhole, RetPiecesIs, MallocPiecesIs DEF WithRets, WithMallocs
<1> HIDE DEF own, hello, ends, after, e, r, all, g, h
<1>9. /\ e \subseteq r
      /\ (m[f].name = "main" /\ \E x \in e : x.op = "ret") => ends \in r
      /\ \A y \in r : y \in e \/ (m[f].name = "main" /\ (\E x \in e : x.op = "ret") /\ y = ends)
  <2>1. ASSUME NEW x \in e
        PROVE  x \in r /\ (m[f].name = "main" /\ x.op = "ret" => ends \in r)
    <3>1. x \in Ran(g[x]) /\ (m[f].name = "main" /\ x.op = "ret" => ends \in Ran(g[x]))
      BY <1>4, <1>6
    <3>2. Ran(g[x]) \subseteq r
      BY <1>8
    <3> QED BY <3>1, <3>2
  <2>2. ASSUME NEW y \in r
        PROVE  y \in e \/ (m[f].name = "main" /\ (\E x \in e : x.op = "ret") /\ y = ends)
    <3>1. PICK x \in e : y \in Ran(g[x])
      BY <1>8
    <3>2. y = x \/ (m[f].name = "main" /\ x.op = "ret" /\ y = ends)
      BY <1>4, <1>6, <3>1
    <3> QED BY <3>2
  <2> QED BY <2>1, <2>2
<1>10. /\ r \subseteq all
       /\ (\E x \in r : CallsMalloc(x)) => after \in all
       /\ \A y \in all : y \in r \/ ((\E x \in r : CallsMalloc(x)) /\ y = after)
  <2>1. ASSUME NEW x \in r
        PROVE  x \in all /\ (CallsMalloc(x) => after \in all)
    <3>1. x \in Ran(h[x]) /\ (CallsMalloc(x) => after \in Ran(h[x]))
      BY <1>4, <1>7
    <3>2. Ran(h[x]) \subseteq all
      BY <1>8
    <3> QED BY <3>1, <3>2
  <2>2. ASSUME NEW y \in all
        PROVE  y \in r \/ ((\E x \in r : CallsMalloc(x)) /\ y = after)
    <3>1. PICK x \in r : y \in Ran(h[x])
      BY <1>8
    <3>2. y = x \/ (CallsMalloc(x) /\ y = after)
      BY <1>4, <1>7, <3>1
    <3> QED BY <3>2
  <2> QED BY <2>1, <2>2
<1>11. own \subseteq e /\ (b = 1 => hello \in e) /\ \A y \in e : y \in own \/ (b = 1 /\ y = hello)
  BY <1>5
<1>12. (\E x \in e : x.op = "ret") <=> (\E x \in own : x.op = "ret")
  BY <1>1, <1>11
<1>13. (\E x \in r : CallsMalloc(x)) <=> (\E x \in own : CallsMalloc(x))
  BY <1>1, <1>9, <1>11
<1>14. /\ own \subseteq Insts
       /\ own \subseteq all
       /\ b = 1 => hello \in all
       /\ (m[f].name = "main" /\ \E x \in own : x.op = "ret") => ends \in all
       /\ (\E x \in own : CallsMalloc(x)) => after \in all
       /\ \A y \in all :
            \/ y \in own
            \/ b = 1 /\ y = hello
            \/ m[f].name = "main" /\ (\E x \in own : x.op = "ret") /\ y = ends
            \/ (\E x \in own : CallsMalloc(x)) /\ y = after
  BY <1>4, <1>9, <1>10, <1>11, <1>12, <1>13
<1> QED BY <1>14 DEF own, hello, ends, after, all
-----------------------------------------------------------------------------
(* What the last pass meets is what decides whether it crashes                *)

LEMMA IndirectIs ==
  ASSUME NEW x \in Insts PROVE Indirect(x) <=> x.op = "call" /\ ~ x.direct
<1>1. x.callee # NULL /\ x.direct \in BOOLEAN
  BY NamesAssumption DEF Insts
<1> QED BY <1>1 DEF Indirect, getCalledFunction

\* HasNullCallee in terms of the instructions of the blocks
NullIn(m, f, b) ==
  LET own == Ran(m[f].blocks[b])
  IN  \/ \E x \in own : x.op = "call" /\ ~ x.direct
      \/ b = 1 /\ Foreign(m, "testsan_HelloFunction")
      \/ (\E x \in own : CallsMalloc(x)) /\ Foreign(m, "testsan_AfterMalloc")
      \/ m[f].name = "main" /\ (\E x \in own : x.op = "ret") /\ Foreign(m, "testsan_EndOfMain")

LEMMA HasNullCalleeIs ==
  ASSUME NEW m, Given(m)
  PROVE  HasNullCallee(m) <=> \E f \in DOMAIN m : \E b \in DOMAIN m[f].blocks : NullIn(m, f, b)
<1>1. ASSUME NEW f \in DOMAIN m, NEW b \in DOMAIN m[f].blocks
      PROVE  /\ DOMAIN m[f].blocks[b] = 1 .. Len(m[f].blocks[b])
             /\ Ran(m[f].blocks[b]) = {m[f].blocks[b][i] : i \in DOMAIN m[f].blocks[b]}
  <2>1. m[f].blocks[b] \in Seq(Insts)
    BY GivenIs
  <2> QED BY <2>1 DEF Ran
<1>2. ASSUME NEW f \in DOMAIN m
      PROVE  ~ isDeclaration(m[f]) <=> \E b \in DOMAIN m[f].blocks : b = 1
  <2>1. m[f].blocks \in Seq(Seq(Insts)) /\ Len(m[f].blocks) \in Nat
        /\ DOMAIN m[f].blocks = 1 .. Len(m[f].blocks)
    BY GivenIs
  <2>2. m[f].blocks = <<>> <=> Len(m[f].blocks) = 0
    BY <2>1, EmptySeq
  <2> QED BY <2>1, <2>2 DEF isDeclaration
<1> DEFINE Null(f) ==
      \/ SomeInst(m[f], LAMBDA inst : inst.op = "call" /\ ~ inst.direct)
      \/ ~ isDeclaration(m[f]) /\ Foreign(m, "testsan_HelloFunction")
      \/ SomeInst(m[f], CallsMalloc) /\ Foreign(m, "testsan_AfterMalloc")
      \/ /\ m[f].name = "main" /\ SomeInst(m[f], LAMBDA inst : inst.op = "ret")
         /\ Foreign(m, "testsan_EndOfMain")
<1>3. ASSUME NEW f \in DOMAIN m
      PROVE  Null(f) <=> \E b \in DOMAIN m[f].blocks : NullIn(m, f, b)
  <2>0. ASSUME NEW b \in DOMAIN m[f].blocks
        PROVE  LET s == m[f].blocks[b]
               IN  /\ (\E i \in DOMAIN s : s[i].op = "call" /\ ~ s[i].direct)
                        <=> \E x \in Ran(s) : x.op = "call" /\ ~ x.direct
                   /\ (\E i \in DOMAIN s : CallsMalloc(s[i])) <=> \E x \in Ran(s) : CallsMalloc(x)
                   /\ (\E i \in DOMAIN s : s[i].op = "ret") <=> \E x \in Ran(s) : x.op = "ret"
    <3> DEFINE s == m[f].blocks[b]
    <3>1. Ran(s) = {s[i] : i \in DOMAIN s}
      BY <1>1
    <3> HIDE DEF s
    <3>2. (\E i \in DOMAIN s : s[i].op = "call" /\ ~ s[i].direct)
             <=> \E x \in Ran(s) : x.op = "call" /\ ~ x.direct
      BY <3>1
    <3>3. (\E i \in DOMAIN s : CallsMalloc(s[i])) <=> \E x \in Ran(s) : CallsMalloc(x)
      BY <3>1
    <3>4. (\E i \in DOMAIN s : s[i].op = "ret") <=> \E x \in Ran(s) : x.op = "ret"
      BY <3>1
    <3> QED BY <3>2, <3>3, <3>4 DEF s
  <2>1. SomeInst(m[f], LAMBDA inst : inst.op = "call" /\ ~ inst.direct)
          <=> \E b \in DOMAIN m[f].blocks : \E x \in Ran(m[f].blocks[b]) : x.op = "call" /\ ~ x.direct
    BY <2>0, Zenon DEF SomeInst
  <2>2. SomeInst(m[f], CallsMalloc)
          <=> \E b \in DOMAIN m[f].blocks : \E x \in Ran(m[f].blocks[b]) : CallsMalloc(x)
    BY <2>0, Zenon DEF SomeInst
  <2>3. SomeInst(m[f], LAMBDA inst : inst.op = "ret")
          <=> \E b \in DOMAIN m[f].blocks : \E x \in Ran(m[f].blocks[b]) : x.op = "ret"
    BY <2>0, Zenon DEF SomeInst
  <2> QED BY <1>2, <2>1, <2>2, <2>3 DEF NullIn
<1>4. HasNullCallee(m) <=> \E f \in DOMAIN m : Null(f)
  BY DEF HasNullCallee
<1> HIDE DEF Null
<1> QED BY <1>3, <1>4

\* The last pass meets a call without a called function in exactly these blocks
LEMMA NullMet ==
  ASSUME NEW m, NEW f, NEW b, IsBlock(m, f, b)
  PROVE  NullIn(m, f, b) <=> \E x \in Ran(WithMallocs(m, f, b)) : Indirect(x)
<1> DEFINE own == Ran(m[f].blocks[b])
           hello == HookCall(m, "testsan_HelloFunction")
           ends == HookCall(m, "testsan_EndOfMain")
           after == HookCall(m, "testsan_AfterMalloc")
           all == Ran(WithMallocs(m, f, b))
<1>1. /\ own \subseteq Insts
      /\ own \subseteq all
      /\ b = 1 => hello \in all
      /\ (m[f].name = "main" /\ \E x \in own : x.op = "ret") => ends \in all
      /\ (\E x \in own : CallsMalloc(x)) => after \in all
      /\ \A y \in all :
           \/ y \in own
           \/ b = 1 /\ y = hello
           \/ m[f].name = "main" /\ (\E x \in own : x.op = "ret") /\ y = ends
           \/ (\E x \in own : CallsMalloc(x)) /\ y = after
  BY FinalInsts
<1>2. /\ Indirect(hello) <=> Foreign(m, "testsan_HelloFunction")
      /\ Indirect(ends) <=> Foreign(m, "testsan_EndOfMain")
      /\ Indirect(after) <=> Foreign(m, "testsan_AfterMalloc")
  BY HookCallIs, HookNames
<1>3. \A x \in own : Indirect(x) <=> x.op = "call" /\ ~ x.direct
  BY <1>1, IndirectIs
<1>4. NullIn(m, f, b) <=>
      \/ \E x \in own : x.op = "call" /\ ~ x.direct
      \/ b = 1 /\ Foreign(m, "testsan_HelloFunction")
      \/ (\E x \in own : CallsMalloc(x)) /\ Foreign(m, "testsan_AfterMalloc")
      \/ m[f].name = "main" /\ (\E x \in own : x.op = "ret") /\ Foreign(m, "testsan_EndOfMain")
  BY DEF NullIn
<1> HIDE DEF own, hello, ends, after, all
<1>5. (\E x \in all : Indirect(x)) <=> NullIn(m, f, b)
  BY <1>1, <1>2, <1>3, <1>4
<1> QED BY <1>5 DEF all

LEMMA NoneIndirectIs ==
  ASSUME NEW s, NoneIndirect(s, Len(s)) PROVE \A x \in Ran(s) : ~ Indirect(x)
BY DEF NoneIndirect, Ran

-----------------------------------------------------------------------------
(* What the passes leave is what was expected of them                         *)

Expansion(fun) == [inst \in Insts |-> Expanded(fun, inst)]

LEMMA FinalIsExpected ==
  ASSUME NEW m, NEW f, NEW b, IsBlock(m, f, b),
         \A x \in Ran(WithMallocs(m, f, b)) : ~ Indirect(x)
  PROVE  WithMallocs(m, f, b) = ExpectedBlock(m[f], b)
<1> DEFINE own == m[f].blocks[b]
           hello == HookCall(m, "testsan_HelloFunction")
           ends == HookCall(m, "testsan_EndOfMain")
           after == HookCall(m, "testsan_AfterMalloc")
           g == RetPieces(m, m[f].name)
           h == MallocPieces(m)
           c == Twice(g, h)
           x0 == Expansion(m[f])
<1>1. own \in Seq(Insts) /\ Hello(m, b) \in Seq(Insts) /\ Entered(m, f, b) = Hello(m, b) \o own
      /\ Entered(m, f, b) \in Seq(Insts)
  BY BlocksAre
<1>2. /\ g \in Expanders /\ h \in Expanders /\ c \in Expanders
      /\ WithMallocs(m, f, b) = Whole(Entered(m, f, b), c)
  <2>1. g \in Expanders /\ h \in Expanders
    BY RetPiecesIs, MallocPiecesIs
  <2>2. c \in Expanders /\ Whole(Whole(Entered(m, f, b), g), h) = Whole(Entered(m, f, b), c)
    BY <1>1, <2>1, WholeTwice
  <2> QED BY <2>1, <2>2 DEF WithMallocs, WithRets
<1>3. WithMallocs(m, f, b) = Whole(Hello(m, b), c) \o Whole(own, c)
  <2> HIDE DEF c, own
  <2>1. Whole(Hello(m, b) \o own, c) = Whole(Hello(m, b), c) \o Whole(own, c)
    BY <1>1, <1>2, WholeConcat
  <2> QED BY <1>1, <1>2, <2>1
\* A hook that was inserted is called directly
<1>4. /\ b = 1 => hello = Call("testsan_HelloFunction", TRUE)
      /\ \A x \in Ran(own) :
           /\ x \in Insts
           /\ m[f].name = "main" /\ x.op = "ret" => ends = Call("testsan_EndOfMain", TRUE)
           /\ CallsMalloc(x) => after = Call("testsan_AfterMalloc", TRUE)
  <2> DEFINE all == Ran(WithMallocs(m, f, b))
             r == Ran(own)
  <2>1. /\ r \subseteq Insts
        /\ b = 1 => hello \in all
        /\ (m[f].name = "main" /\ \E x \in r : x.op = "ret") => ends \in all
        /\ (\E x \in r : CallsMalloc(x)) => after \in all
    BY FinalInsts
  <2>2. /\ ~ Indirect(hello) => hello = Call("testsan_HelloFunction", TRUE)
        /\ ~ Indirect(ends) => ends = Call("testsan_EndOfMain", TRUE)
        /\ ~ Indirect(after) => after = Call("testsan_AfterMalloc", TRUE)
    BY HookCallIs, HookNames
  <2>3. \A x \in all : ~ Indirect(x)
    OBVIOUS
  <2> HIDE DEF all, r, hello, ends, after
  <2>4. /\ b = 1 => hello = Call("testsan_HelloFunction", TRUE)
        /\ \A x \in r :
             /\ x \in Insts
             /\ m[f].name = "main" /\ x.op = "ret" => ends = Call("testsan_EndOfMain", TRUE)
             /\ CallsMalloc(x) => after = Call("testsan_AfterMalloc", TRUE)
    BY <2>1, <2>2, <2>3
  <2> QED BY <2>4 DEF r
<1>5. ends \in Insts /\ after \in Insts /\ hello \in Insts
      /\ ~ CallsMalloc(ends) /\ ~ CallsMalloc(hello) /\ hello.op # "ret"
  <2>1. hello.op = "call"
    BY DEF HookCall, Call
  <2> QED BY <2>1, HookCallIs, HookNames
<1>6. \A x \in Insts :
        /\ g[x] = IF m[f].name = "main" /\ x.op = "ret" THEN <<ends, x>> ELSE <<x>>
        /\ h[x] = IF CallsMalloc(x) THEN <<x, after>> ELSE <<x>>
        /\ c[x] = Whole(g[x], h)
  BY RetPiecesIs, MallocPiecesIs DEF Twice
<1>7. Whole(Hello(m, b), c) = Hello(m, b)
  <2>1. c[hello] = <<hello>>
    BY <1>2, <1>5, <1>6, WholeOne
  <2>2. b = 1 => Whole(<<hello>>, c) = <<hello>>
    BY <1>2, <1>5, <2>1, WholeOne
  <2> QED BY <2>2, WholeNone DEF Hello
<1>8. ASSUME NEW x \in Ran(own) PROVE c[x] = Expanded(m[f], x)
  <2>1. x \in Insts
    BY <1>4
  <2>2. /\ Expanded(m[f], x)
             = (IF m[f].name = "main" /\ x.op = "ret" THEN <<ends>> ELSE <<>>)
                 \o <<x>> \o (IF CallsMalloc(x) THEN <<after>> ELSE <<>>)
    BY <1>4 DEF Expanded
  <2>3. CallsMalloc(x) => x.op # "ret"
    BY DEF CallsMalloc
  <2>4. CASE m[f].name = "main" /\ x.op = "ret"
    <3>1. g[x] = <<ends>> \o <<x>> /\ <<ends>> \in Seq(Insts) /\ <<x>> \in Seq(Insts)
      BY <1>5, <1>6, <2>1, <2>4, Two
    <3>2. c[x] = Whole(<<ends>>, h) \o Whole(<<x>>, h)
      <4>1. Whole(<<ends>> \o <<x>>, h) = Whole(<<ends>>, h) \o Whole(<<x>>, h)
        BY <1>2, <3>1, WholeConcat
      <4>2. c[x] = Whole(g[x], h)
        BY <1>6, <2>1
      <4> HIDE DEF c, g, h, ends
      <4> QED BY <3>1, <4>1, <4>2
    <3>3. Whole(<<ends>>, h) = <<ends>> /\ Whole(<<x>>, h) = <<x>>
      BY <1>2, <1>5, <1>6, <2>1, <2>3, <2>4, WholeOne
    <3>4. (<<ends>> \o <<x>>) \o <<>> = <<ends>> \o <<x>>
      BY <1>5, <2>1, Two, ConcatEmptySeq
    <3> QED BY <2>2, <2>3, <2>4, <3>2, <3>3, <3>4
  <2>5. CASE ~ (m[f].name = "main" /\ x.op = "ret")
    <3>1. c[x] = h[x]
      BY <1>2, <1>6, <2>1, <2>5, WholeOne
    <3>2. <<>> \o <<x>> = <<x>> /\ <<x>> \o <<>> = <<x>> /\ <<x>> \o <<after>> = <<x, after>>
      BY <1>5, <2>1, Two
    <3> HIDE DEF g, h, c, ends, after
    <3>3. Expanded(m[f], x) = <<x>> \o (IF CallsMalloc(x) THEN <<after>> ELSE <<>>)
      BY <2>2, <2>5, <3>2
    <3>4. h[x] = IF CallsMalloc(x) THEN <<x, after>> ELSE <<x>>
      BY <1>6, <2>1
    <3> QED BY <3>1, <3>2, <3>3, <3>4
  <2> QED BY <2>4, <2>5
<1>9. Whole(own, c) = FlattenSeq([i \in DOMAIN m[f].blocks[b] |-> Expanded(m[f], m[f].blocks[b][i])])
  <2>1. DOMAIN own = 1 .. Len(own) /\ \A i \in 1 .. Len(own) : own[i] \in Ran(own)
    BY <1>1 DEF Ran
  <2> HIDE DEF c
  <2>2. [i \in 1 .. Len(own) |-> c[own[i]]] = [i \in DOMAIN own |-> Expanded(m[f], own[i])]
    BY <1>8, <2>1
  <2> QED BY <2>2 DEF Whole, Pieces
<1>10. Hello(m, b) = IF b = 1 THEN <<Call("testsan_HelloFunction", TRUE)>> ELSE <<>>
  BY <1>4 DEF Hello
<1> QED BY <1>3, <1>7, <1>9, <1>10 DEF ExpectedBlock
-----------------------------------------------------------------------------
(* A scan                                                                     *)

LEMMA ScanBegins ==
  ASSUME NEW z \in Seq(Insts), NEW g \in Expanders
  PROVE  ScannedTo(z, z, g, 0) /\ Len(Pieces(z, g, 0)) = 0 /\ 0 \in 0 .. Len(z)
<1>1. Pieces(z, g, 0) = <<>> /\ Len(<<>>) = 0 /\ 0 \in 0 .. Len(z) /\ 0 + 1 = 1
  BY PiecesNone, EmptySeq
<1>2. SubSeq(z, 1, Len(z)) = z /\ <<>> \o z = z
  BY SubSeqFull, ConcatEmptySeq
<1> QED BY <1>1, <1>2 DEF ScannedTo

LEMMA ScanSees ==
  ASSUME NEW z \in Seq(Insts), NEW g \in Expanders, NEW k \in 0 .. Len(z), NEW block,
         ScannedTo(block, z, g, k)
  PROVE  LET p == Pieces(z, g, k)
         IN  /\ p \in Seq(Insts) /\ Len(p) \in Nat
             /\ block \in Seq(Insts) /\ Len(block) = Len(p) + (Len(z) - k)
             /\ k = Len(z) => block = Whole(z, g)
             /\ \A i \in 1 .. Len(p) : block[i] = p[i]
             /\ k < Len(z) => block[Len(p) + 1] = z[k + 1]
<1> DEFINE p == Pieces(z, g, k)
           r == Behind(z, k)
<1>1. /\ p \in Seq(Insts) /\ Len(p) \in Nat /\ k \in Nat /\ k <= Len(z) /\ Len(z) \in Nat
      /\ block = p \o r
  BY PiecesType DEF ScannedTo, Behind
<1>2. /\ r \in Seq(Insts) /\ Len(r) = Len(z) - k /\ \A i \in 1 .. Len(z) - k : r[i] = z[k + i]
  BY SplitAt
<1>3. k = Len(z) => block = Whole(z, g)
  <2>1. ASSUME k = Len(z) PROVE r = <<>>
    BY <1>1, <2>1, SubSeqEmpty DEF Behind
  <2> QED BY <1>1, <2>1, ConcatEmptySeq DEF Whole
<1> HIDE DEF p, r
<1>4. /\ block \in Seq(Insts) /\ Len(block) = Len(p) + Len(r)
      /\ \A i \in 1 .. Len(p) + Len(r) : block[i] = IF i <= Len(p) THEN p[i] ELSE r[i - Len(p)]
  BY <1>1, <1>2, ConcatProperties
<1>5. \A i \in 1 .. Len(p) : block[i] = p[i]
  BY <1>1, <1>2, <1>4
<1>6. k < Len(z) => block[Len(p) + 1] = z[k + 1]
  <2>1. ASSUME k < Len(z)
        PROVE  /\ Len(p) + 1 \in 1 .. Len(p) + Len(r) /\ ~ (Len(p) + 1 <= Len(p))
               /\ (Len(p) + 1) - Len(p) = 1 /\ 1 \in 1 .. Len(z) - k
    BY <1>1, <1>2, <2>1
  <2> QED BY <1>2, <1>4, <2>1
<1>7. /\ p \in Seq(Insts) /\ Len(p) \in Nat
      /\ block \in Seq(Insts) /\ Len(block) = Len(p) + (Len(z) - k)
      /\ k = Len(z) => block = Whole(z, g)
      /\ \A i \in 1 .. Len(p) : block[i] = p[i]
      /\ k < Len(z) => block[Len(p) + 1] = z[k + 1]
  BY <1>1, <1>2, <1>3, <1>4, <1>5, <1>6
<1> QED BY <1>7 DEF p

\* The instruction under the iterator is replaced by what is made of it
LEMMA ScanSteps ==
  ASSUME NEW z \in Seq(Insts), NEW g \in Expanders, NEW k \in 0 .. Len(z) - 1, NEW block,
         ScannedTo(block, z, g, k)
  PROVE  LET p == Pieces(z, g, k)
             x == z[k + 1]
             r == Behind(z, k + 1)
         IN  /\ x \in Insts /\ r \in Seq(Insts) /\ p \in Seq(Insts)
             /\ block = p \o (<<x>> \o r)
             /\ ScannedTo(p \o (g[x] \o r), z, g, k + 1)
             /\ Len(Pieces(z, g, k + 1)) = Len(p) + Len(g[x])
<1> DEFINE p == Pieces(z, g, k)
           x == z[k + 1]
           r == Behind(z, k + 1)
<1>1. /\ k \in 0 .. Len(z) /\ k + 1 \in 0 .. Len(z) /\ k + 1 \in 1 .. Len(z) /\ Len(z) \in Nat
      /\ Len(z) \in k + 1 .. Len(z)
  OBVIOUS
<1>2. /\ p \in Seq(Insts) /\ x \in Insts /\ g[x] \in Seq(Insts)
      /\ Pieces(z, g, k + 1) = p \o g[x]
  BY PiecesMore
<1>3. r \in Seq(Insts)
  BY <1>1, SplitAt
<1>4. SubSeq(z, k + 1, Len(z)) = <<x>> \o r
  <2>1. SubSeq(z, k + 1, Len(z)) = <<z[k + 1]>> \o SubSeq(z, (k + 1) + 1, Len(z))
    BY <1>1, SubSeqRecursiveFirst
  <2> QED BY <2>1 DEF Behind
<1>5. block = p \o (<<x>> \o r)
  BY <1>4 DEF ScannedTo
<1>6. (p \o g[x]) \o r = p \o (g[x] \o r)
  BY <1>2, <1>3, Associative
<1>7. ScannedTo(p \o (g[x] \o r), z, g, k + 1)
  <2>1. Pieces(z, g, k + 1) \o r = p \o (g[x] \o r)
    BY <1>2, <1>6
  <2> QED BY <2>1 DEF ScannedTo, Behind
<1>8. Len(Pieces(z, g, k + 1)) = Len(p) + Len(g[x])
  BY <1>2, ConcatProperties
<1> QED BY <1>2, <1>3, <1>5, <1>7, <1>8

\* An instruction that is left alone, one that gets a hook in front, one that
\* gets a hook behind it
LEMMA ScanKeeps ==
  ASSUME NEW z \in Seq(Insts), NEW g \in Expanders, NEW k \in 0 .. Len(z) - 1, NEW block,
         ScannedTo(block, z, g, k), g[z[k + 1]] = <<z[k + 1]>>
  PROVE  /\ ScannedTo(block, z, g, k + 1)
         /\ Len(Pieces(z, g, k + 1)) = Len(Pieces(z, g, k)) + 1
<1> DEFINE x == z[k + 1]
           p == Pieces(z, g, k)
           r == Behind(z, k + 1)
<1>1. /\ block = p \o (<<x>> \o r) /\ ScannedTo(p \o (g[x] \o r), z, g, k + 1)
      /\ Len(Pieces(z, g, k + 1)) = Len(p) + Len(g[x])
  <2>1. block = p \o (<<x>> \o r)
    <3>1. k + 1 \in 1 .. Len(z) /\ Len(z) \in k + 1 .. Len(z)
      OBVIOUS
    <3>2. SubSeq(z, k + 1, Len(z)) = <<z[k + 1]>> \o SubSeq(z, (k + 1) + 1, Len(z))
      BY <3>1, SubSeqRecursiveFirst
    <3> QED BY <3>2 DEF ScannedTo, Behind
  <2>2. ScannedTo(p \o (g[x] \o r), z, g, k + 1)
    BY ScanSteps
  <2>3. Len(Pieces(z, g, k + 1)) = Len(p) + Len(g[x])
    BY ScanSteps
  <2> QED BY <2>1, <2>2, <2>3
<1>2. g[x] = <<x>> /\ Len(<<x>>) = 1
  OBVIOUS
<1> HIDE DEF x, p, r
<1>3. ScannedTo(block, z, g, k + 1) /\ Len(Pieces(z, g, k + 1)) = Len(p) + 1
  BY <1>1, <1>2
<1> QED BY <1>3 DEF p

LEMMA ScanInsertsBefore ==
  ASSUME NEW z \in Seq(Insts), NEW g \in Expanders, NEW k \in 0 .. Len(z) - 1, NEW block,
         ScannedTo(block, z, g, k), NEW e \in Insts, g[z[k + 1]] = <<e, z[k + 1]>>
  PROVE  /\ ScannedTo(InsertAt(block, Len(Pieces(z, g, k)) + 1, e), z, g, k + 1)
         /\ Len(Pieces(z, g, k + 1)) = Len(Pieces(z, g, k)) + 2
<1> DEFINE p == Pieces(z, g, k)
           x == z[k + 1]
           r == Behind(z, k + 1)
<1>1. /\ x \in Insts /\ r \in Seq(Insts) /\ p \in Seq(Insts)
      /\ block = p \o (<<x>> \o r)
      /\ ScannedTo(p \o (<<e, x>> \o r), z, g, k + 1)
      /\ Len(Pieces(z, g, k + 1)) = Len(p) + Len(<<e, x>>)
  <2>1. /\ x \in Insts /\ r \in Seq(Insts) /\ p \in Seq(Insts)
        /\ block = p \o (<<x>> \o r)
        /\ ScannedTo(p \o (g[x] \o r), z, g, k + 1)
        /\ Len(Pieces(z, g, k + 1)) = Len(p) + Len(g[x])
    BY ScanSteps
  <2>2. g[x] = <<e, x>>
    OBVIOUS
  <2> HIDE DEF p, x, r
  <2> QED BY <2>1, <2>2
<1>2. Len(<<e, x>>) = 2
  OBVIOUS
<1> HIDE DEF p, x, r
<1>3. <<e>> \in Seq(Insts) /\ <<x>> \in Seq(Insts) /\ <<e>> \o <<x>> = <<e, x>>
  BY <1>1, Two
<1>4. <<x>> \o r \in Seq(Insts)
  BY <1>1, <1>3, ConcatProperties
<1>5. InsertAt(p \o (<<x>> \o r), Len(p) + 1, e) = (p \o <<e>>) \o (<<x>> \o r)
  BY <1>1, <1>4, InsertBetween
<1>6. (p \o <<e>>) \o (<<x>> \o r) = p \o (<<e>> \o (<<x>> \o r))
  BY <1>1, <1>3, <1>4, Associative
<1>7. <<e>> \o (<<x>> \o r) = <<e, x>> \o r
  <2>1. (<<e>> \o <<x>>) \o r = <<e>> \o (<<x>> \o r)
    BY <1>1, <1>3, Associative
  <2> QED BY <1>3, <2>1
<1>8. ScannedTo(InsertAt(block, Len(p) + 1, e), z, g, k + 1)
  BY <1>1, <1>5, <1>6, <1>7
<1> QED BY <1>1, <1>2, <1>8 DEF p

LEMMA ScanInsertsAfter ==
  ASSUME NEW z \in Seq(Insts), NEW g \in Expanders, NEW k \in 0 .. Len(z) - 1, NEW block,
         ScannedTo(block, z, g, k), NEW e \in Insts, g[z[k + 1]] = <<z[k + 1], e>>
  PROVE  /\ ScannedTo(InsertAt(block, Len(Pieces(z, g, k)) + 2, e), z, g, k + 1)
         /\ Len(Pieces(z, g, k + 1)) = Len(Pieces(z, g, k)) + 2
<1> DEFINE p == Pieces(z, g, k)
           x == z[k + 1]
           r == Behind(z, k + 1)
<1>1. /\ x \in Insts /\ r \in Seq(Insts) /\ p \in Seq(Insts)
      /\ block = p \o (<<x>> \o r)
      /\ ScannedTo(p \o (<<x, e>> \o r), z, g, k + 1)
      /\ Len(Pieces(z, g, k + 1)) = Len(p) + Len(<<x, e>>)
  <2>1. /\ x \in Insts /\ r \in Seq(Insts) /\ p \in Seq(Insts)
        /\ block = p \o (<<x>> \o r)
        /\ ScannedTo(p \o (g[x] \o r), z, g, k + 1)
        /\ Len(Pieces(z, g, k + 1)) = Len(p) + Len(g[x])
    BY ScanSteps
  <2>2. g[x] = <<x, e>>
    OBVIOUS
  <2> HIDE DEF p, x, r
  <2> QED BY <2>1, <2>2
<1>2. Len(<<x, e>>) = 2
  OBVIOUS
<1> HIDE DEF p, x, r
<1>3. <<e>> \in Seq(Insts) /\ <<x>> \in Seq(Insts) /\ <<x>> \o <<e>> = <<x, e>> /\ Len(<<x>>) = 1
      /\ <<x, e>> \in Seq(Insts)
  BY <1>1, Two
<1>4. p \o <<x>> \in Seq(Insts) /\ Len(p \o <<x>>) = Len(p) + 1
  BY <1>1, <1>3, ConcatProperties
<1>5. (Len(p) + 1) + 1 = Len(p) + 2
  BY <1>1
<1>6. (p \o <<x>>) \o r = p \o (<<x>> \o r)
  BY <1>1, <1>3, Associative
<1>7. InsertAt((p \o <<x>>) \o r, Len(p) + 2, e) = ((p \o <<x>>) \o <<e>>) \o r
  <2> DEFINE s == p \o <<x>>
  <2>1. s \in Seq(Insts) /\ Len(p) + 2 = Len(s) + 1
    BY <1>1, <1>4
  <2> HIDE DEF s
  <2>2. InsertAt(s \o r, Len(s) + 1, e) = (s \o <<e>>) \o r
    BY <1>1, <2>1, InsertBetween
  <2> QED BY <2>1, <2>2 DEF s
<1>8. (p \o <<x>>) \o <<e>> = p \o <<x, e>>
  <2>1. (p \o <<x>>) \o <<e>> = p \o (<<x>> \o <<e>>)
    BY <1>1, <1>3, Associative
  <2> QED BY <1>3, <2>1
<1>9. (p \o <<x, e>>) \o r = p \o (<<x, e>> \o r)
  BY <1>1, <1>3, Associative
<1>10. ScannedTo(InsertAt(block, Len(p) + 2, e), z, g, k + 1)
  BY <1>1, <1>6, <1>7, <1>8, <1>9
<1> QED BY <1>1, <1>2, <1>10 DEF p

-----------------------------------------------------------------------------
(* The search for returns                                                     *)

LEMMA RetsBegin ==
  ASSUME NEW m, NEW f, NEW b, IsBlock(m, f, b)
  PROVE  ScanningRets(m, f, b, Entered(m, f, b), 1)
<1> DEFINE z == Entered(m, f, b)
           g == RetPieces(m, m[f].name)
<1>1. z \in Seq(Insts) /\ g \in Expanders
  BY BlocksAre, RetPiecesIs
<1>2. ScannedTo(z, z, g, 0) /\ 1 = Len(Pieces(z, g, 0)) + 1 /\ 0 \in 0 .. Len(z)
  <2> HIDE DEF z, g
  <2> QED BY <1>1, ScanBegins
<1> QED BY <1>2 DEF ScanningRets

LEMMA RetsStep ==
  ASSUME NEW m, NEW f, NEW b, IsBlock(m, f, b), NEW block, NEW i, ScanningRets(m, f, b, block, i)
  PROVE  /\ block \in Seq(Insts) /\ i \in 1 .. Len(block) + 1
         /\ i > Len(block) => block = WithRets(m, f, b)
         /\ (i <= Len(block) /\ block[i].op # "ret") => ScanningRets(m, f, b, block, i + 1)
         /\ (i <= Len(block) /\ block[i].op = "ret" /\ m[f].name = "main") =>
              ScanningRets(m, f, b, InsertAt(block, i, HookCall(m, "testsan_EndOfMain")), i + 2)
<1> DEFINE z == Entered(m, f, b)
           g == RetPieces(m, m[f].name)
           e == HookCall(m, "testsan_EndOfMain")
<1>1. z \in Seq(Insts) /\ g \in Expanders /\ e \in Insts
      /\ \A x \in Insts : g[x] = IF m[f].name = "main" /\ x.op = "ret" THEN <<e, x>> ELSE <<x>>
  BY BlocksAre, RetPiecesIs, HookCallIs, HookNames
<1>2. PICK k \in 0 .. Len(z) : ScannedTo(block, z, g, k) /\ i = Len(Pieces(z, g, k)) + 1
  BY DEF ScanningRets
<1> DEFINE p == Pieces(z, g, k)
           Found(c, j) == \E l \in 0 .. Len(z) : ScannedTo(c, z, g, l) /\ j = Len(Pieces(z, g, l)) + 1
<1>3. \A c, j : ScanningRets(m, f, b, c, j) <=> Found(c, j)
  BY DEF ScanningRets
<1>4. WithRets(m, f, b) = Whole(z, g)
  BY DEF WithRets
<1> HIDE DEF z, g, e
<1>5. /\ p \in Seq(Insts) /\ Len(p) \in Nat
      /\ block \in Seq(Insts) /\ Len(block) = Len(p) + (Len(z) - k)
      /\ k = Len(z) => block = Whole(z, g)
      /\ k < Len(z) => block[Len(p) + 1] = z[k + 1]
  BY <1>1, <1>2, ScanSees
<1>6. k \in Nat /\ Len(z) \in Nat /\ k <= Len(z) /\ i = Len(p) + 1
  BY <1>1, <1>2
<1>7. i \in 1 .. Len(block) + 1 /\ (i > Len(block) => k = Len(z)) /\ (i <= Len(block) => k < Len(z))
  BY <1>5, <1>6
<1>8. ASSUME i <= Len(block)
      PROVE  /\ k \in 0 .. Len(z) - 1 /\ k + 1 \in 0 .. Len(z)
             /\ z[k + 1] \in Insts /\ z[k + 1] = block[i]
  BY <1>1, <1>5, <1>6, <1>7, <1>8
<1>9. ASSUME i <= Len(block), block[i].op # "ret" PROVE Found(block, i + 1)
  <2>1. g[z[k + 1]] = <<z[k + 1]>>
    BY <1>1, <1>8, <1>9
  <2>2. ScannedTo(block, z, g, k + 1) /\ Len(Pieces(z, g, k + 1)) = Len(p) + 1
    BY <1>1, <1>2, <1>8, <1>9, <2>1, ScanKeeps
  <2>3. i + 1 = Len(Pieces(z, g, k + 1)) + 1
    BY <1>6, <2>2
  <2> QED BY <1>8, <1>9, <2>2, <2>3
<1>10. ASSUME i <= Len(block), block[i].op = "ret", m[f].name = "main"
       PROVE  Found(InsertAt(block, i, e), i + 2)
  <2>1. g[z[k + 1]] = <<e, z[k + 1]>>
    BY <1>1, <1>8, <1>10
  <2>2. /\ ScannedTo(InsertAt(block, i, e), z, g, k + 1)
        /\ Len(Pieces(z, g, k + 1)) = Len(p) + 2
    BY <1>1, <1>2, <1>8, <1>10, <2>1, ScanInsertsBefore
  <2>3. i + 2 = Len(Pieces(z, g, k + 1)) + 1
    BY <1>6, <2>2
  <2> QED BY <1>8, <1>10, <2>2, <2>3
<1> HIDE DEF p, Found
<1> QED BY <1>3, <1>4, <1>5, <1>7, <1>9, <1>10 DEF e
-----------------------------------------------------------------------------
(* The search for mallocs                                                     *)

LEMMA MallocsBegin ==
  ASSUME NEW m, NEW f, NEW b, IsBlock(m, f, b)
  PROVE  ScanningMallocs(m, f, b, WithRets(m, f, b), 1)
<1> DEFINE z == WithRets(m, f, b)
           g == MallocPieces(m)
<1>1. z \in Seq(Insts) /\ g \in Expanders
  BY BlocksAre, MallocPiecesIs
<1>2. ScannedTo(z, z, g, 0) /\ 1 = Len(Pieces(z, g, 0)) + 1 /\ 0 \in 0 .. Len(z)
  <2> HIDE DEF z, g
  <2> QED BY <1>1, ScanBegins
<1>3. NoneIndirect(z, 1 - 1)
  BY DEF NoneIndirect
<1> QED BY <1>2, <1>3 DEF ScanningMallocs

\* The instructions of a block that is being scanned are in the scanned block
LEMMA ScanRan ==
  ASSUME NEW z \in Seq(Insts), NEW g \in Expanders, NEW k \in 0 .. Len(z), NEW block,
         ScannedTo(block, z, g, k), \A x \in Insts : x \in Ran(g[x])
  PROVE  Ran(block) \subseteq Ran(Whole(z, g))
<1> DEFINE p == Pieces(z, g, k)
           r == Behind(z, k)
           all == Ran(Whole(z, g))
<1>1. block = p \o r /\ p \in Seq(Insts) /\ r \in Seq(Insts)
  BY PiecesType, SplitAt DEF ScannedTo, Behind
<1>2. Ran(block) = Ran(p) \cup Ran(r)
  BY <1>1, RanConcat
<1>3. \A x \in Ran(z) : x \in Insts /\ Ran(g[x]) \subseteq all /\ x \in all
  <2>1. \A x \in Ran(z) : x \in Insts
    BY DEF Ran
  <2>2. all = UNION {Ran(g[x]) : x \in Ran(z)}
    BY RanWhole
  <2> HIDE DEF all
  <2> QED BY <2>1, <2>2
<1>4. ASSUME NEW y \in Ran(p) PROVE y \in all
  <2>1. PICK i \in 1 .. k : y \in Ran(g[z[i]])
    BY RanPieces
  <2>2. z[i] \in Ran(z)
    <3>1. i \in 1 .. Len(z)
      OBVIOUS
    <3> QED BY <3>1 DEF Ran
  <2> QED BY <1>3, <2>1, <2>2
<1>5. ASSUME NEW y \in Ran(r) PROVE y \in all
  <2>1. PICK i \in 1 .. Len(z) - k : y = z[k + i]
    <3>1. Len(r) = Len(z) - k /\ \A i \in 1 .. Len(z) - k : r[i] = z[k + i]
      BY SplitAt
    <3> HIDE DEF r
    <3>2. PICK i \in 1 .. Len(r) : y = r[i]
      BY DEF Ran
    <3> QED BY <3>1, <3>2
  <2>2. z[k + i] \in Ran(z)
    <3>1. k + i \in 1 .. Len(z)
      OBVIOUS
    <3> QED BY <3>1 DEF Ran
  <2> QED BY <1>3, <2>1, <2>2
<1> HIDE DEF all, p, r
<1>6. Ran(block) \subseteq all
  BY <1>2, <1>4, <1>5
<1> QED BY <1>6 DEF all

LEMMA MallocsStep ==
  ASSUME NEW m, NEW f, NEW b, IsBlock(m, f, b), NEW block, NEW i, ScanningMallocs(m, f, b, block, i)
  PROVE  /\ block \in Seq(Insts) /\ i \in 1 .. Len(block) + 1
         /\ i > Len(block) => LeftBehind(m, f, b, block)
         /\ i <= Len(block) => block[i] \in Ran(WithMallocs(m, f, b))
         /\ (i <= Len(block) /\ ~ Indirect(block[i]) /\ ~ CallsMalloc(block[i])) =>
              ScanningMallocs(m, f, b, block, i + 1)
         /\ (i <= Len(block) /\ ~ Indirect(block[i]) /\ CallsMalloc(block[i])) =>
              ScanningMallocs(m, f, b, InsertAt(block, i + 1, HookCall(m, "testsan_AfterMalloc")), i + 1)
<1> DEFINE z == WithRets(m, f, b)
           g == MallocPieces(m)
           e == HookCall(m, "testsan_AfterMalloc")
           q(l) == Len(Pieces(z, g, l))
           At(l, j) == j = q(l) + 1 \/ (l > 0 /\ CallsMalloc(z[l]) /\ j = q(l))
           Found(c, j) == \E l \in 0 .. Len(z) : ScannedTo(c, z, g, l) /\ At(l, j)
<1>1. z \in Seq(Insts) /\ g \in Expanders /\ e \in Insts /\ ~ CallsMalloc(e)
      /\ \A x \in Insts : g[x] = IF CallsMalloc(x) THEN <<x, e>> ELSE <<x>>
  BY BlocksAre, MallocPiecesIs, HookCallIs, HookNames
<1>2. \A c, j : ScanningMallocs(m, f, b, c, j) <=> NoneIndirect(c, j - 1) /\ Found(c, j)
  BY DEF ScanningMallocs
<1>3. WithMallocs(m, f, b) = Whole(z, g)
  BY DEF WithMallocs
<1> HIDE DEF z, g, e, q, At, Found
<1>4. NoneIndirect(block, i - 1) /\ Found(block, i)
  BY <1>2
<1>5. PICK k \in 0 .. Len(z) : ScannedTo(block, z, g, k) /\ At(k, i)
  BY <1>4 DEF Found
<1> DEFINE p == Pieces(z, g, k)
<1>6. /\ p \in Seq(Insts) /\ Len(p) \in Nat /\ Len(p) = q(k)
      /\ block \in Seq(Insts) /\ Len(block) = Len(p) + (Len(z) - k)
      /\ k = Len(z) => block = Whole(z, g)
      /\ \A j \in 1 .. Len(p) : block[j] = p[j]
      /\ k < Len(z) => block[Len(p) + 1] = z[k + 1]
  <2>1. z \in Seq(Insts) /\ g \in Expanders
    BY <1>1
  <2>2. /\ p \in Seq(Insts) /\ Len(p) \in Nat
        /\ block \in Seq(Insts) /\ Len(block) = Len(p) + (Len(z) - k)
        /\ k = Len(z) => block = Whole(z, g)
        /\ \A j \in 1 .. Len(p) : block[j] = p[j]
        /\ k < Len(z) => block[Len(p) + 1] = z[k + 1]
    BY <1>5, <2>1, ScanSees
  <2>3. Len(p) = q(k)
    BY DEF q
  <2> QED BY <2>2, <2>3
<1> HIDE DEF p
<1>7. k \in Nat /\ Len(z) \in Nat /\ k <= Len(z) /\ Len(block) \in Nat
  BY <1>1, <1>6
\* Behind a malloc the iterator is on the call of the hook
<1>8. ASSUME k > 0, CallsMalloc(z[k]), i = Len(p)
      PROVE  i > 0 /\ block[i] = e
  <2>1. /\ k - 1 \in 0 .. Len(z) - 1 /\ (k - 1) + 1 = k
    BY <1>7, <1>8
  <2>2. /\ Pieces(z, g, (k - 1) + 1) = Pieces(z, g, k - 1) \o g[z[(k - 1) + 1]]
        /\ Pieces(z, g, k - 1) \in Seq(Insts) /\ z[(k - 1) + 1] \in Insts
    BY <1>1, <2>1, PiecesMore
  <2> DEFINE u == Pieces(z, g, k - 1)
             v == <<z[k], e>>
  <2>3. p = u \o v /\ u \in Seq(Insts) /\ z[k] \in Insts
    <3>1. g[z[k]] = v
      BY <1>1, <1>8, <2>1, <2>2
    <3> QED BY <2>1, <2>2, <3>1 DEF p
  <2>4. v \in Seq(Insts) /\ Len(v) = 2 /\ v[2] = e
    BY <1>1, <2>3, Two
  <2> HIDE DEF u, v
  <2>5. /\ Len(p) = Len(u) + 2 /\ Len(u) \in Nat
        /\ \A j \in 1 .. Len(u) + 2 : p[j] = IF j <= Len(u) THEN u[j] ELSE v[j - Len(u)]
    <3>1. /\ Len(u \o v) = Len(u) + Len(v)
          /\ \A j \in 1 .. Len(u) + Len(v) : (u \o v)[j] = IF j <= Len(u) THEN u[j] ELSE v[j - Len(u)]
      BY <2>3, <2>4, ConcatProperties
    <3>2. Len(u) \in Nat
      BY <2>3
    <3> QED BY <2>3, <2>4, <3>1, <3>2
  <2>6. Len(p) \in 1 .. Len(p) /\ p[Len(p)] = v[2]
    <3>1. Len(p) \in 1 .. Len(u) + 2 /\ ~ (Len(p) <= Len(u)) /\ Len(p) - Len(u) = 2
      BY <2>5
    <3> QED BY <2>5, <3>1
  <2> QED BY <1>6, <1>8, <2>4, <2>6
<1>9. i \in 1 .. Len(block) + 1
  <2>1. i = Len(p) + 1 \/ (k > 0 /\ CallsMalloc(z[k]) /\ i = Len(p))
    BY <1>5, <1>6 DEF At
  <2> QED BY <1>6, <1>7, <1>8, <2>1
<1>10. ASSUME i > Len(block)
       PROVE  block = Whole(z, g) /\ NoneIndirect(block, Len(block))
  <2>1. i = Len(block) + 1 /\ i - 1 = Len(block)
    BY <1>7, <1>9, <1>10
  <2>2. i = Len(p) + 1 \/ i = Len(p)
    BY <1>5, <1>6 DEF At
  <2>3. k = Len(z)
    BY <1>6, <1>7, <2>1, <2>2
  <2> QED BY <1>4, <1>6, <2>1, <2>3
<1>11. ASSUME i <= Len(block) PROVE block[i] \in Ran(Whole(z, g)) /\ block[i] \in Insts
  <2>1. \A x \in Insts : x \in Ran(g[x])
    <3>1. \A x \in Insts : Len(<<x>>) = 1 /\ <<x>>[1] = x /\ Len(<<x, e>>) = 2 /\ <<x, e>>[1] = x
      OBVIOUS
    <3>2. ASSUME NEW x \in Insts PROVE 1 \in 1 .. Len(g[x]) /\ g[x][1] = x
      <4>1. CASE CallsMalloc(x)
        <5>1. g[x] = <<x, e>>
          BY <1>1, <4>1
        <5>2. Len(g[x]) = 2 /\ g[x][1] = x
          BY <3>1, <5>1
        <5> QED BY <5>2
      <4>2. CASE ~ CallsMalloc(x)
        <5>1. g[x] = <<x>>
          BY <1>1, <4>2
        <5>2. Len(g[x]) = 1 /\ g[x][1] = x
          BY <3>1, <5>1
        <5> QED BY <5>2
      <4> QED BY <4>1, <4>2
    <3> QED BY <3>2 DEF Ran
  <2>2. Ran(block) \subseteq Ran(Whole(z, g))
    BY <1>1, <1>5, <2>1, ScanRan
  <2>3. i \in 1 .. Len(block)
    BY <1>7, <1>9, <1>11
  <2>4. block[i] \in Ran(block)
    BY <2>3 DEF Ran
  <2> QED BY <1>6, <2>2, <2>3, <2>4
<1>12. ASSUME i <= Len(block), ~ Indirect(block[i]) PROVE NoneIndirect(block, (i + 1) - 1)
  BY <1>4, <1>7, <1>9, <1>12 DEF NoneIndirect
\* On an instruction of the block
<1>13. ASSUME i = Len(p) + 1, i <= Len(block)
       PROVE  /\ k \in 0 .. Len(z) - 1 /\ k + 1 \in 0 .. Len(z) /\ k + 1 > 0
              /\ z[k + 1] \in Insts /\ z[k + 1] = block[i] /\ (k + 1) - 1 = k
  BY <1>1, <1>6, <1>7, <1>13
<1>14. ASSUME i <= Len(block), ~ CallsMalloc(block[i]) PROVE Found(block, i + 1)
  <2>1. CASE i = Len(p) + 1
    <3>0. k \in 0 .. Len(z) - 1 /\ k + 1 \in 0 .. Len(z) /\ z[k + 1] \in Insts /\ z[k + 1] = block[i]
      BY <1>13, <1>14, <2>1
    <3>1. g[z[k + 1]] = <<z[k + 1]>>
      BY <1>1, <1>14, <3>0
    <3>2. ScannedTo(block, z, g, k + 1) /\ Len(Pieces(z, g, k + 1)) = Len(p) + 1
      BY <1>1, <1>5, <3>0, <3>1, ScanKeeps DEF p
    <3>3. At(k + 1, i + 1)
      BY <2>1, <3>2 DEF At, q
    <3> QED BY <3>0, <3>2, <3>3 DEF Found
  <2>2. CASE i = Len(p) /\ k > 0 /\ CallsMalloc(z[k])
    <3>1. At(k, i + 1)
      BY <1>6, <2>2 DEF At
    <3> QED BY <1>5, <3>1 DEF Found
  <2> QED BY <1>5, <1>6, <2>1, <2>2 DEF At
<1>15. ASSUME i <= Len(block), CallsMalloc(block[i]) PROVE Found(InsertAt(block, i + 1, e), i + 1)
  <2>1. i = Len(p) + 1
    <3>1. ~ (k > 0 /\ CallsMalloc(z[k]) /\ i = Len(p))
      BY <1>1, <1>8, <1>15
    <3> QED BY <1>5, <1>6, <3>1 DEF At
  <2>2. /\ k \in 0 .. Len(z) - 1 /\ k + 1 \in 0 .. Len(z) /\ k + 1 > 0 /\ z[k + 1] \in Insts
        /\ z[k + 1] = block[i]
    BY <1>13, <1>15, <2>1
  <2>3. g[z[k + 1]] = <<z[k + 1], e>>
    BY <1>1, <1>15, <2>2
  <2>4. i + 1 = Len(p) + 2
    BY <1>6, <2>1
  <2>5. ScannedTo(InsertAt(block, i + 1, e), z, g, k + 1) /\ Len(Pieces(z, g, k + 1)) = Len(p) + 2
    BY <1>1, <1>5, <2>2, <2>3, <2>4, ScanInsertsAfter DEF p
  <2>6. At(k + 1, i + 1)
    BY <1>15, <2>2, <2>4, <2>5 DEF At, q
  <2> QED BY <2>2, <2>5, <2>6 DEF Found
<1>16. ASSUME i <= Len(block), ~ Indirect(block[i])
       PROVE  NoneIndirect(InsertAt(block, i + 1, e), (i + 1) - 1)
  <2>1. i + 1 \in 1 .. Len(block) + 1 /\ (i + 1) - 1 = i
    BY <1>7, <1>9, <1>16
  <2>2. \A j \in 1 .. (i + 1) - 1 : InsertAt(block, i + 1, e)[j] = block[j]
    BY <1>1, <1>6, <2>1, InsertIs
  <2> QED BY <1>12, <1>16, <2>1, <2>2 DEF NoneIndirect
<1>17. i > Len(block) => LeftBehind(m, f, b, block)
  BY <1>3, <1>10 DEF LeftBehind
<1>18. (i <= Len(block) /\ ~ Indirect(block[i]) /\ ~ CallsMalloc(block[i])) =>
         ScanningMallocs(m, f, b, block, i + 1)
  BY <1>2, <1>12, <1>14
<1>19. (i <= Len(block) /\ ~ Indirect(block[i]) /\ CallsMalloc(block[i])) =>
         ScanningMallocs(m, f, b, InsertAt(block, i + 1, e), i + 1)
  BY <1>2, <1>15, <1>16
<1> QED BY <1>3, <1>6, <1>9, <1>11, <1>17, <1>18, <1>19 DEF e
-----------------------------------------------------------------------------
(* The function list                                                          *)

LEMMA FunctionsFacts ==
  ASSUME NEW m, Given(m), NEW fs, FunctionsOK(m, fs)
  PROVE  /\ Len(fs) \in Nat /\ DOMAIN fs = 1 .. Len(fs)
         /\ \A f \in DOMAIN fs :
              /\ fs[f] \in FunctionTypes
              /\ fs[f].name \in Names /\ fs[f].typed \in BOOLEAN /\ fs[f].blocks \in Seq(Seq(Insts))
              /\ DOMAIN fs[f].blocks = 1 .. Len(fs[f].blocks) /\ Len(fs[f].blocks) \in Nat
              /\ \A b \in DOMAIN fs[f].blocks : fs[f].blocks[b] \in Seq(Insts)
         /\ DOMAIN m \subseteq DOMAIN fs
<1>1. fs \in Seq(FunctionTypes) /\ Len(m) <= Len(fs)
  BY DEF FunctionsOK
<1>2. Len(fs) \in Nat /\ DOMAIN fs = 1 .. Len(fs)
  BY <1>1
<1>3. ASSUME NEW f \in DOMAIN fs
      PROVE  /\ fs[f] \in FunctionTypes
             /\ fs[f].name \in Names /\ fs[f].typed \in BOOLEAN /\ fs[f].blocks \in Seq(Seq(Insts))
             /\ DOMAIN fs[f].blocks = 1 .. Len(fs[f].blocks) /\ Len(fs[f].blocks) \in Nat
             /\ \A b \in DOMAIN fs[f].blocks : fs[f].blocks[b] \in Seq(Insts)
  <2>1. fs[f] \in FunctionTypes
    BY <1>1, <1>2, ElementOfSeq
  <2>2. fs[f].name \in Names /\ fs[f].typed \in BOOLEAN /\ fs[f].blocks \in Seq(Seq(Insts))
    BY <2>1 DEF FunctionTypes
  <2>3. DOMAIN fs[f].blocks = 1 .. Len(fs[f].blocks) /\ Len(fs[f].blocks) \in Nat
    BY <2>2
  <2>4. \A b \in DOMAIN fs[f].blocks : fs[f].blocks[b] \in Seq(Insts)
    BY <2>2, <2>3
  <2> QED BY <2>1, <2>2, <2>3, <2>4
<1>4. DOMAIN m \subseteq DOMAIN fs
  <2>1. Len(m) \in Nat /\ DOMAIN m = 1 .. Len(m)
    BY GivenIs
  <2> QED BY <1>1, <1>2, <2>1
<1> QED BY <1>2, <1>3, <1>4

\* What getOrInsertFunction leaves
Declares(m, fs, gs, h) ==
  /\ FunctionsOK(m, gs)
  /\ Len(fs) <= Len(gs)
  /\ \A f \in DOMAIN m : gs[f] = fs[f]
  /\ CreateCall(gs, h) = HookCall(m, h)

\* A declaration of a hook that was added has the type the passes use
LEMMA CallIs ==
  ASSUME NEW m, Given(m), NEW gs, FunctionsOK(m, gs), NEW h \in Hooks
  PROVE  CreateCall(gs, h) = HookCall(m, h)
<1>1. DOMAIN m \subseteq DOMAIN gs /\ DOMAIN gs = 1 .. Len(gs) /\ DOMAIN m = 1 .. Len(m)
      /\ Len(gs) \in Nat /\ Len(m) \in Nat
  BY FunctionsFacts, GivenIs
<1>2. /\ \A f \in DOMAIN m : gs[f].name = m[f].name /\ gs[f].typed = m[f].typed
      /\ \A f \in DOMAIN gs : f > Len(m) => gs[f] \in {Function(k, TRUE, <<>>) : k \in Hooks}
  BY DEF FunctionsOK
<1>3. \A f \in DOMAIN gs : f \notin DOMAIN m => gs[f].typed
  <2>1. \A f \in DOMAIN gs : f \notin DOMAIN m => f > Len(m)
    BY <1>1
  <2>2. \A k \in Hooks : Function(k, TRUE, <<>>).typed = TRUE
    BY DEF Function
  <2> QED BY <1>2, <2>1, <2>2
<1>4. (\A k \in DOMAIN gs : gs[k].name = h => gs[k].typed)
        <=> ~ \E k \in DOMAIN m : m[k].name = h /\ ~ m[k].typed
  BY <1>1, <1>2, <1>3
<1> DEFINE a == \A k \in DOMAIN gs : gs[k].name = h => gs[k].typed
           c == ~ Foreign(m, h)
<1>5. a = c
  <2>1. a \in BOOLEAN /\ c \in BOOLEAN /\ (a <=> c)
    BY <1>4 DEF Foreign
  <2> HIDE DEF a, c
  <2> QED BY <2>1
<1>6. CreateCall(gs, h) = Call(h, a) /\ HookCall(m, h) = Call(h, c)
  BY DEF CreateCall, HookCall
<1> HIDE DEF a, c
<1> QED BY <1>5, <1>6

LEMMA DeclareIs ==
  ASSUME NEW m, Given(m), NEW fs, FunctionsOK(m, fs), NEW h \in Hooks
  PROVE  Declares(m, fs, getOrInsertFunction(fs, h), h)
<1> DEFINE gs == getOrInsertFunction(fs, h)
<1>1. /\ Len(fs) \in Nat /\ DOMAIN fs = 1 .. Len(fs) /\ Len(m) \in Nat /\ DOMAIN m = 1 .. Len(m)
      /\ DOMAIN m \subseteq DOMAIN fs /\ Len(m) <= Len(fs)
      /\ fs \in Seq(FunctionTypes) /\ UniqueNames(fs)
  BY FunctionsFacts, GivenIs DEF FunctionsOK
<1>2. CASE Declared(fs, h)
  <2>1. gs = fs
    BY <1>2 DEF getOrInsertFunction
  <2> QED BY <1>1, <2>1, CallIs DEF Declares
<1>3. CASE ~ Declared(fs, h)
  <2> DEFINE d == Function(h, TRUE, <<>>)
  <2>1. gs = Append(fs, d)
    BY <1>3 DEF getOrInsertFunction
  <2>2. d \in FunctionTypes /\ d.name = h
    <3>1. h \in Names /\ <<>> \in Seq(Seq(Insts))
      BY NamesAssumption, EmptySeq
    <3> QED BY <3>1 DEF Function, FunctionTypes
  <2>2a. d \in {Function(k, TRUE, <<>>) : k \in Hooks}
    OBVIOUS
  <2> HIDE DEF gs, d
  <2>3. /\ gs \in Seq(FunctionTypes) /\ Len(gs) = Len(fs) + 1 /\ DOMAIN gs = 1 .. Len(fs) + 1
        /\ \A f \in DOMAIN fs : gs[f] = fs[f]
        /\ gs[Len(fs) + 1] = d
    BY <1>1, <2>1, <2>2
  <2>4. UniqueNames(gs)
    <3>1. \A k \in DOMAIN fs : fs[k].name # h
      BY <1>3 DEF Declared
    <3>2. \A k \in DOMAIN gs : k \in DOMAIN fs \/ k = Len(fs) + 1
      BY <1>1, <2>3
    <3> QED BY <1>1, <2>2, <2>3, <3>1, <3>2 DEF UniqueNames
  <2>5. \A f \in DOMAIN gs : f > Len(m) => gs[f] \in {Function(k, TRUE, <<>>) : k \in Hooks}
    <3>1. \A f \in DOMAIN fs : f > Len(m) => fs[f] \in {Function(k, TRUE, <<>>) : k \in Hooks}
      BY DEF FunctionsOK
    <3>2. \A k \in DOMAIN gs : k \in DOMAIN fs \/ k = Len(fs) + 1
      BY <1>1, <2>3
    <3> QED BY <2>2a, <2>3, <3>1, <3>2
  <2>6. \A f \in DOMAIN m :
           /\ gs[f].name = m[f].name /\ gs[f].typed = m[f].typed
           /\ DOMAIN gs[f].blocks = DOMAIN m[f].blocks
    <3>1. \A f \in DOMAIN m :
             /\ fs[f].name = m[f].name /\ fs[f].typed = m[f].typed
             /\ DOMAIN fs[f].blocks = DOMAIN m[f].blocks
      BY DEF FunctionsOK
    <3> QED BY <1>1, <2>3, <3>1
  <2>7. Len(m) <= Len(gs) /\ Len(fs) <= Len(gs)
    BY <1>1, <2>3
  <2>8. FunctionsOK(m, gs)
    BY <2>3, <2>4, <2>5, <2>6, <2>7 DEF FunctionsOK
  <2>9. \A f \in DOMAIN m : gs[f] = fs[f]
    BY <1>1, <2>3
  <2>10. Declares(m, fs, gs, h)
    BY <2>7, <2>8, <2>9, CallIs DEF Declares
  <2> QED BY <2>10 DEF gs
<1> QED BY <1>2, <1>3

\* What the insertion of a hook leaves: one block changes
Inserts(m, fs, hs, f, b, i, h) ==
  /\ FunctionsOK(m, hs)
  /\ Len(fs) <= Len(hs)
  /\ hs[f].blocks[b] = InsertAt(fs[f].blocks[b], i, HookCall(m, h))
  /\ \A f2 \in DOMAIN m : \A b2 \in DOMAIN m[f2].blocks :
       ~ (f2 = f /\ b2 = b) => hs[f2].blocks[b2] = fs[f2].blocks[b2]

LEMMA InsertCallIs ==
  ASSUME NEW m, NEW f, NEW b, IsBlock(m, f, b), NEW fs, FunctionsOK(m, fs), NEW h \in Hooks,
         NEW i \in 1 .. Len(fs[f].blocks[b]) + 1
  PROVE  Inserts(m, fs, InsertCall(fs, f, b, i, h), f, b, i, h)
<1> DEFINE gs == getOrInsertFunction(fs, h)
           hs == InsertCall(fs, f, b, i, h)
           e == HookCall(m, h)
           new == InsertAt(fs[f].blocks[b], i, e)
           bl == [gs[f].blocks EXCEPT ![b] = new]
           fn == [gs[f] EXCEPT !.blocks = bl]
<1>1. Given(m) /\ f \in DOMAIN m /\ b \in DOMAIN m[f].blocks
  BY DEF IsBlock
<1>2. FunctionsOK(m, gs) /\ Len(fs) <= Len(gs) /\ (\A k \in DOMAIN m : gs[k] = fs[k])
      /\ CreateCall(gs, h) = e
  BY <1>1, DeclareIs DEF Declares
<1>3. hs = [gs EXCEPT ![f] = fn]
  <2>1. hs = [gs EXCEPT ![f].blocks[b] = InsertAt(@, i, CreateCall(gs, h))]
    BY DEF InsertCall, Insert
  <2>2. gs[f] = fs[f]
    BY <1>1, <1>2
  <2> HIDE DEF gs, hs, e
  <2> QED BY <1>2, <2>1, <2>2
<1> HIDE DEF gs, hs
<1>4. /\ Len(gs) \in Nat /\ DOMAIN gs = 1 .. Len(gs) /\ gs \in Seq(FunctionTypes)
      /\ f \in DOMAIN gs /\ gs[f] \in FunctionTypes /\ gs[f].blocks \in Seq(Seq(Insts))
      /\ b \in DOMAIN gs[f].blocks /\ gs[f].blocks[b] \in Seq(Insts) /\ gs[f] = fs[f]
      /\ DOMAIN m = 1 .. Len(m) /\ Len(m) \in Nat /\ DOMAIN m \subseteq DOMAIN gs
      /\ UniqueNames(gs)
  <2>1. DOMAIN gs[f].blocks = DOMAIN m[f].blocks /\ gs \in Seq(FunctionTypes) /\ UniqueNames(gs)
    BY <1>1, <1>2 DEF FunctionsOK
  <2> QED BY <1>1, <1>2, <2>1, FunctionsFacts, GivenIs
<1>5. new \in Seq(Insts)
  <2>1. e \in Insts
    BY HookCallIs
  <2>2. fs[f].blocks[b] \in Seq(Insts)
    BY <1>4
  <2> HIDE DEF e
  <2> QED BY <2>1, <2>2, InsertIs
<1> HIDE DEF new, e
<1>6. /\ bl \in Seq(Seq(Insts)) /\ DOMAIN bl = DOMAIN gs[f].blocks /\ bl[b] = new
      /\ \A b2 \in DOMAIN bl : b2 # b => bl[b2] = gs[f].blocks[b2]
  <2> DEFINE s == gs[f].blocks
  <2>1. s \in Seq(Seq(Insts)) /\ b \in DOMAIN s
    BY <1>4
  <2> HIDE DEF s
  <2>2. /\ [s EXCEPT ![b] = new] \in Seq(Seq(Insts)) /\ DOMAIN [s EXCEPT ![b] = new] = DOMAIN s
        /\ [s EXCEPT ![b] = new][b] = new
        /\ \A b2 \in DOMAIN s : b2 # b => [s EXCEPT ![b] = new][b2] = s[b2]
    BY <1>5, <2>1
  <2> QED BY <2>2 DEF s
<1> HIDE DEF bl
<1>7. fn \in FunctionTypes /\ fn.name = gs[f].name /\ fn.typed = gs[f].typed /\ fn.blocks = bl
  BY <1>4, <1>6 DEF FunctionTypes
<1> HIDE DEF fn
<1>8. /\ hs \in Seq(FunctionTypes) /\ Len(hs) = Len(gs) /\ DOMAIN hs = DOMAIN gs
      /\ hs[f] = fn /\ \A k \in DOMAIN gs : k # f => hs[k] = gs[k]
  BY <1>3, <1>4, <1>7
<1>9. \A k \in DOMAIN gs :
        /\ hs[k].name = gs[k].name /\ hs[k].typed = gs[k].typed
        /\ DOMAIN hs[k].blocks = DOMAIN gs[k].blocks
  BY <1>6, <1>7, <1>8
<1>10. FunctionsOK(m, hs)
  <2>1. UniqueNames(hs)
    BY <1>4, <1>8, <1>9 DEF UniqueNames
  <2>2. \A k \in DOMAIN hs : k > Len(m) => hs[k] \in {Function(l, TRUE, <<>>) : l \in Hooks}
    <3>1. \A k \in DOMAIN hs : k > Len(m) => k # f
      BY <1>1, <1>4
    <3>2. \A k \in DOMAIN gs : k > Len(m) => gs[k] \in {Function(l, TRUE, <<>>) : l \in Hooks}
      BY <1>2 DEF FunctionsOK
    <3> QED BY <1>8, <3>1, <3>2
  <2>3. \A k \in DOMAIN m :
          /\ hs[k].name = m[k].name /\ hs[k].typed = m[k].typed
          /\ DOMAIN hs[k].blocks = DOMAIN m[k].blocks
    BY <1>2, <1>4, <1>9 DEF FunctionsOK
  <2>4. Len(m) <= Len(hs)
    BY <1>2, <1>8 DEF FunctionsOK
  <2> QED BY <1>8, <2>1, <2>2, <2>3, <2>4 DEF FunctionsOK
<1>11. hs[f].blocks[b] = new
  BY <1>6, <1>7, <1>8
<1>12. ASSUME NEW f2 \in DOMAIN m, NEW b2 \in DOMAIN m[f2].blocks, ~ (f2 = f /\ b2 = b)
       PROVE  hs[f2].blocks[b2] = fs[f2].blocks[b2]
  <2>1. gs[f2] = fs[f2] /\ f2 \in DOMAIN gs
    BY <1>2, <1>4
  <2>2. CASE f2 = f
    <3>1. b2 \in DOMAIN bl /\ b2 # b
      BY <1>1, <1>2, <1>6, <1>12, <2>2 DEF FunctionsOK
    <3> QED BY <1>6, <1>7, <1>8, <2>1, <2>2, <3>1
  <2>3. CASE f2 # f
    BY <1>8, <2>1, <2>3
  <2> QED BY <2>2, <2>3
<1>13. Len(fs) <= Len(hs)
  BY <1>2, <1>8
<1>14. Inserts(m, fs, hs, f, b, i, h)
  BY <1>10, <1>11, <1>12, <1>13 DEF Inserts, new, e
<1> QED BY <1>14 DEF hs
-----------------------------------------------------------------------------
(* The actions                                                                *)

LEMMA EraseHook ==
  ASSUME NEW m, NEW s \in Seq(Insts), NEW i \in 1 .. Len(s) + 1, NEW h \in Hooks
  PROVE  /\ Erase(InsertAt(s, i, HookCall(m, h))) = Erase(s)
         /\ Len(InsertAt(s, i, HookCall(m, h))) = Len(s) + 1
BY EraseInsert, HookCallIs, InsertIs

\* The iterators are on a block of the original module
LEMMA InBlock ==
  ASSUME NEW m, NEW fs, NEW l \in {"rets", "block", "insts"}, NEW at, NEW in, NEW i,
         AllOK(m, fs, l, at, in, i)
  PROVE  /\ Given(m) /\ FunctionsOK(m, fs) /\ IsBlock(m, at, in)
         /\ at \in Nat /\ in \in Nat /\ Len(fs) \in Nat /\ at \in 1 .. Len(fs)
         /\ at <= Len(m) /\ in \in DOMAIN fs[at].blocks
         /\ DOMAIN m[at].blocks = 1 .. Len(fs[at].blocks) /\ Len(fs[at].blocks) \in Nat
         /\ fs[at].blocks[in] \in Seq(Insts) /\ Len(fs[at].blocks[in]) \in Nat
         /\ i \in 1 .. Len(fs[at].blocks[in]) + 1
         /\ BlockOK(m, at, in, fs[at].blocks[in], l, at, in, i)
<1>1. /\ Given(m) /\ FunctionsOK(m, fs)
      /\ at \in 1 .. Len(fs) + 1 /\ at <= Len(m) /\ in \in DOMAIN fs[at].blocks
      /\ i \in 1 .. Len(fs[at].blocks[in]) + 1
  BY DEF AllOK, PlaceOK
<1>2. /\ Len(m) \in Nat /\ DOMAIN m = 1 .. Len(m) /\ Len(fs) \in Nat /\ DOMAIN m \subseteq DOMAIN fs
      /\ DOMAIN fs = 1 .. Len(fs)
  BY <1>1, GivenIs, FunctionsFacts
<1>3. at \in DOMAIN m /\ at \in Nat
  BY <1>1, <1>2
<1>4. /\ DOMAIN fs[at].blocks = 1 .. Len(fs[at].blocks) /\ Len(fs[at].blocks) \in Nat
      /\ fs[at].blocks[in] \in Seq(Insts) /\ DOMAIN fs[at].blocks = DOMAIN m[at].blocks
  <2>1. DOMAIN fs[at].blocks = DOMAIN m[at].blocks
    BY <1>1, <1>3 DEF FunctionsOK
  <2> QED BY <1>1, <1>2, <1>3, <2>1, FunctionsFacts
<1>5. IsBlock(m, at, in)
  BY <1>1, <1>3, <1>4 DEF IsBlock
<1>6. BlockOK(m, at, in, fs[at].blocks[in], l, at, in, i)
  BY <1>3, <1>5 DEF AllOK, BlocksOK, IsBlock
<1> QED BY <1>1, <1>2, <1>3, <1>4, <1>5, <1>6

LEMMA DomainsAre ==
  ASSUME NEW m, Given(m)
  PROVE  /\ DOMAIN m \subseteq Nat
         /\ \A f \in DOMAIN m : DOMAIN m[f].blocks \subseteq Nat \ {0}
BY GivenIs

LEMMA BeginKeeps ==
  ASSUME NEW m, NEW fs, NEW at, NEW in, NEW i, AllOK(m, fs, "module", at, in, i)
  PROVE  AllOK(m, fs, "function", at, in, i)
<1>1. PlaceOK(m, fs, "function", at, in, i)
  BY DEF AllOK, PlaceOK
<1>2. BlocksOK(m, fs, "function", at, in, i)
  BY DEF AllOK, BlocksOK, BlockOK
<1> QED BY <1>1, <1>2 DEF AllOK

LEMMA FinishKeeps ==
  ASSUME NEW m, NEW fs, NEW at, NEW in, NEW i, AllOK(m, fs, "function", at, in, i), at > Len(fs)
  PROVE  AllOK(m, fs, "done", at, in, i)
<1>1. Len(fs) \in Nat /\ at \in 1 .. Len(fs) + 1
  BY FunctionsFacts DEF AllOK, PlaceOK
<1>2. PlaceOK(m, fs, "done", at, in, i)
  BY <1>1 DEF PlaceOK
<1>3. BlocksOK(m, fs, "done", at, in, i)
  BY DEF AllOK, BlocksOK, BlockOK
<1> QED BY <1>2, <1>3 DEF AllOK

\* A declaration has no block
LEMMA SkipKeeps ==
  ASSUME NEW m, NEW fs, NEW at, NEW in, NEW i, AllOK(m, fs, "function", at, in, i),
         at <= Len(fs), isDeclaration(fs[at])
  PROVE  AllOK(m, fs, "function", at + 1, in, i)
<1>1. /\ Len(fs) \in Nat /\ at \in 1 .. Len(fs) /\ at \in Nat /\ Given(m) /\ FunctionsOK(m, fs)
      /\ DOMAIN fs = 1 .. Len(fs)
  BY FunctionsFacts DEF AllOK, PlaceOK
<1>2. PlaceOK(m, fs, "function", at + 1, in, i)
  BY <1>1 DEF PlaceOK
<1>3. ASSUME NEW f \in DOMAIN m, NEW b \in DOMAIN m[f].blocks
      PROVE  BlockOK(m, f, b, fs[f].blocks[b], "function", at + 1, in, i)
  <2>1. BlockOK(m, f, b, fs[f].blocks[b], "function", at, in, i) /\ f \in Nat
    BY <1>1, DomainsAre DEF AllOK, BlocksOK
  <2>2. f # at
    <3>1. f = at => DOMAIN m[f].blocks = DOMAIN fs[at].blocks
      BY <1>1 DEF FunctionsOK
    <3>2. DOMAIN fs[at].blocks = {}
      <4>1. Len(<<>>) = 0 /\ DOMAIN <<>> = 1 .. 0 /\ 1 .. 0 = {}
        OBVIOUS
      <4> QED BY <4>1 DEF isDeclaration
    <3> QED BY <3>1, <3>2
  <2>3. (f < at + 1 => f < at) /\ (f > at + 1 => f > at) /\ (f = at + 1 => f > at)
    BY <1>1, <2>1, <2>2
  <2> QED BY <2>1, <2>3 DEF BlockOK
<1> QED BY <1>1, <1>2, <1>3 DEF AllOK, BlocksOK

LEMMA InsertFirst ==
  ASSUME NEW s \in Seq(Insts), NEW e \in Insts PROVE InsertAt(s, 1, e) = <<e>> \o s
<1>1. 1 \in 1 .. Len(s) + 1 /\ 1 - 1 = 0 /\ 0 + 1 = 1
  OBVIOUS
<1>2. InsertAt(s, 1, e) = (Before(s, 0) \o <<e>>) \o Behind(s, 0)
  BY <1>1, InsertIs
<1>3. Before(s, 0) = <<>> /\ Behind(s, 0) = s /\ <<>> \o <<e>> = <<e>>
  BY <1>1, SubSeqEmpty, SubSeqFull, Two DEF Before, Behind
<1> QED BY <1>2, <1>3

\* The passes are on to a function with blocks, which is the program's own
LEMMA EnterKeeps ==
  ASSUME NEW m, NEW fs, NEW at, NEW in, NEW i, AllOK(m, fs, "function", at, in, i),
         at <= Len(fs), ~ isDeclaration(fs[at])
  PROVE  LET hs == InsertCall(fs, at, 1, 1, "testsan_HelloFunction")
         IN  /\ fs[at].name = "main" => AllOK(m, hs, "rets", at, 1, 1)
             /\ fs[at].name # "main" => AllOK(m, hs, "block", at, 1, 1)
<1> DEFINE hs == InsertCall(fs, at, 1, 1, "testsan_HelloFunction")
           e == HookCall(m, "testsan_HelloFunction")
<1>1. /\ Len(fs) \in Nat /\ at \in 1 .. Len(fs) /\ at \in Nat /\ Given(m) /\ FunctionsOK(m, fs)
      /\ DOMAIN fs = 1 .. Len(fs) /\ DOMAIN m = 1 .. Len(m) /\ Len(m) \in Nat
  BY FunctionsFacts, GivenIs DEF AllOK, PlaceOK
<1>2. at \in DOMAIN m
  <2>1. \A h \in Hooks : isDeclaration(Function(h, TRUE, <<>>))
    BY DEF isDeclaration, Function
  <2>2. at > Len(m) => fs[at] \in {Function(h, TRUE, <<>>) : h \in Hooks}
    BY <1>1 DEF FunctionsOK
  <2>3. ~ (at > Len(m))
    BY <2>1, <2>2
  <2> QED BY <1>1, <2>3
<1>3. IsBlock(m, at, 1) /\ fs[at].name = m[at].name
  <2>1. /\ DOMAIN fs[at].blocks = DOMAIN m[at].blocks /\ fs[at].name = m[at].name
        /\ fs[at].blocks \in Seq(Seq(Insts))
        /\ DOMAIN fs[at].blocks = 1 .. Len(fs[at].blocks) /\ Len(fs[at].blocks) \in Nat
    BY <1>1, <1>2, FunctionsFacts DEF FunctionsOK
  <2>2. Len(fs[at].blocks) \in Nat \ {0}
    BY <2>1, EmptySeq DEF isDeclaration
  <2> QED BY <1>1, <1>2, <2>1, <2>2 DEF IsBlock
<1>4. \A f \in DOMAIN m : \A b \in DOMAIN m[f].blocks :
        /\ BlockOK(m, f, b, fs[f].blocks[b], "function", at, in, i)
        /\ f >= at => fs[f].blocks[b] = m[f].blocks[b]
  <2>1. \A f \in DOMAIN m : \A b \in DOMAIN m[f].blocks :
          BlockOK(m, f, b, fs[f].blocks[b], "function", at, in, i)
    BY DEF AllOK, BlocksOK
  <2>2. \A f \in DOMAIN m : f >= at => f > at \/ f = at
    BY <1>1
  <2> QED BY <2>1, <2>2 DEF BlockOK
<1> DEFINE s == m[at].blocks[1]
<1>5. s \in Seq(Insts) /\ fs[at].blocks[1] = s /\ 1 \in 1 .. Len(s) + 1
  <2>1. s \in Seq(Insts)
    BY <1>3, BlocksAre
  <2>2. fs[at].blocks[1] = s
    BY <1>1, <1>2, <1>3, <1>4 DEF IsBlock
  <2>3. Len(s) \in Nat
    BY <2>1
  <2> QED BY <2>1, <2>2, <2>3
<1>6. Inserts(m, fs, hs, at, 1, 1, "testsan_HelloFunction")
  <2>1. 1 \in 1 .. Len(fs[at].blocks[1]) + 1
    BY <1>5
  <2> QED BY <1>1, <1>3, <2>1, InsertCallIs, HookNames
<1> HIDE DEF hs
<1>7. /\ FunctionsOK(m, hs) /\ Len(fs) <= Len(hs) /\ Len(hs) \in Nat
      /\ hs[at].blocks[1] = InsertAt(s, 1, e)
      /\ \A f \in DOMAIN m : \A b \in DOMAIN m[f].blocks :
           ~ (f = at /\ b = 1) => hs[f].blocks[b] = fs[f].blocks[b]
  <2>1. FunctionsOK(m, hs)
    BY <1>6 DEF Inserts
  <2>2. Len(hs) \in Nat
    BY <1>1, <2>1, FunctionsFacts
  <2> QED BY <1>5, <1>6, <2>1, <2>2 DEF Inserts
<1>8. hs[at].blocks[1] = Entered(m, at, 1)
  <2>1. e \in Insts
    BY HookCallIs, HookNames
  <2>2. InsertAt(s, 1, e) = <<e>> \o s
    BY <1>5, <2>1, InsertFirst
  <2> QED BY <1>7, <2>2 DEF Entered
<1>9. \A b \in DOMAIN m[at].blocks : hs[at].blocks[b] = Entered(m, at, b)
  <2>1. ASSUME NEW b \in DOMAIN m[at].blocks, b # 1 PROVE hs[at].blocks[b] = Entered(m, at, b)
    <3>1. hs[at].blocks[b] = m[at].blocks[b]
      BY <1>1, <1>2, <1>4, <1>7, <2>1
    <3>2. m[at].blocks[b] \in Seq(Insts)
      BY <1>1, <1>2, GivenIs
    <3>3. <<>> \o m[at].blocks[b] = m[at].blocks[b]
      BY <3>2, ConcatEmptySeq
    <3> QED BY <2>1, <3>1, <3>3 DEF Entered
  <2> QED BY <1>8, <2>1
<1>10. \A f \in DOMAIN m : \A b \in DOMAIN m[f].blocks : Erase(hs[f].blocks[b]) = m[f].blocks[b]
  <2>1. \A f \in DOMAIN m : \A b \in DOMAIN m[f].blocks : Erase(fs[f].blocks[b]) = m[f].blocks[b]
    BY <1>4 DEF BlockOK
  <2>2. Erase(InsertAt(s, 1, e)) = Erase(s)
    BY <1>5, EraseHook, HookNames
  <2>3. Erase(hs[at].blocks[1]) = Erase(fs[at].blocks[1])
    BY <1>5, <1>7, <2>2
  <2> QED BY <1>7, <2>1, <2>3
<1>11. /\ at \in 1 .. Len(hs) + 1 /\ at <= Len(m) /\ 1 \in DOMAIN hs[at].blocks
       /\ 1 \in 1 .. Len(hs[at].blocks[1]) + 1
  <2>1. 1 \in DOMAIN hs[at].blocks
    BY <1>2, <1>3, <1>7 DEF IsBlock, FunctionsOK
  <2>2. Len(hs[at].blocks[1]) = Len(s) + 1 /\ Len(s) \in Nat
    BY <1>5, <1>7, EraseHook, HookNames
  <2>3. 1 \in 1 .. Len(hs[at].blocks[1]) + 1
    BY <2>2
  <2> QED BY <1>1, <1>2, <1>7, <2>1, <2>3
<1>12. \A f \in DOMAIN m : \A b \in DOMAIN m[f].blocks :
         /\ f \in Nat /\ b \in Nat /\ b >= 1
         /\ f < at => LeftBehind(m, f, b, hs[f].blocks[b])
         /\ f > at => hs[f].blocks[b] = m[f].blocks[b]
  <2>1. \A f \in DOMAIN m : \A b \in DOMAIN m[f].blocks : f \in Nat /\ b \in Nat /\ b >= 1
    BY <1>1, DomainsAre
  <2>2. \A f \in DOMAIN m : \A b \in DOMAIN m[f].blocks :
          /\ f < at => LeftBehind(m, f, b, fs[f].blocks[b])
          /\ f > at => fs[f].blocks[b] = m[f].blocks[b]
    BY <1>4 DEF BlockOK
  <2>3. \A f \in DOMAIN m : f < at \/ f > at => f # at
    BY <1>1, <2>1
  <2> QED BY <1>7, <2>1, <2>2, <2>3
<1>13. ASSUME fs[at].name = "main" PROVE AllOK(m, hs, "rets", at, 1, 1)
  <2>1. PlaceOK(m, hs, "rets", at, 1, 1)
    BY <1>3, <1>11, <1>13 DEF PlaceOK
  <2>2. ScanningRets(m, at, 1, hs[at].blocks[1], 1)
    BY <1>3, <1>8, RetsBegin
  <2>3. ASSUME NEW f \in DOMAIN m, NEW b \in DOMAIN m[f].blocks
        PROVE  BlockOK(m, f, b, hs[f].blocks[b], "rets", at, 1, 1)
    BY <1>1, <1>9, <1>10, <1>12, <2>2 DEF BlockOK
  <2> QED BY <1>1, <1>7, <2>1, <2>3 DEF AllOK, BlocksOK
<1>14. ASSUME fs[at].name # "main" PROVE AllOK(m, hs, "block", at, 1, 1)
  <2>1. PlaceOK(m, hs, "block", at, 1, 1)
    BY <1>11 DEF PlaceOK
  <2>2. \A b \in DOMAIN m[at].blocks : hs[at].blocks[b] = WithRets(m, at, b)
    BY <1>1, <1>2, <1>3, <1>9, <1>14, RetsOfOthers DEF IsBlock
  <2>3. ASSUME NEW f \in DOMAIN m, NEW b \in DOMAIN m[f].blocks
        PROVE  BlockOK(m, f, b, hs[f].blocks[b], "block", at, 1, 1)
    <3>1. b >= 1 => ~ (b < 1)
      BY <1>12
    <3> QED BY <1>1, <1>10, <1>12, <2>2, <3>1 DEF BlockOK
  <2> QED BY <1>1, <1>7, <2>1, <2>3 DEF AllOK, BlocksOK
<1> QED BY <1>13, <1>14 DEF hs

\* The other blocks do not depend on the instruction iterator
LEMMA OthersKeep ==
  ASSUME NEW m, NEW f, NEW b, NEW block, NEW l, NEW at, NEW in, NEW i, NEW j, ~ (f = at /\ b = in)
  PROVE  BlockOK(m, f, b, block, l, at, in, i) <=> BlockOK(m, f, b, block, l, at, in, j)
BY DEF BlockOK

\* One block changes and the iterator stays on it
LEMMA OneChanges ==
  ASSUME NEW m, NEW fs, NEW l \in {"rets", "block", "insts"}, NEW at, NEW in, NEW i,
         AllOK(m, fs, l, at, in, i), NEW hs, FunctionsOK(m, hs), NEW j,
         PlaceOK(m, hs, l, at, in, j),
         \A f \in DOMAIN m : \A b \in DOMAIN m[f].blocks :
           ~ (f = at /\ b = in) => hs[f].blocks[b] = fs[f].blocks[b],
         BlockOK(m, at, in, hs[at].blocks[in], l, at, in, j)
  PROVE  AllOK(m, hs, l, at, in, j)
<1>1. ASSUME NEW f \in DOMAIN m, NEW b \in DOMAIN m[f].blocks
      PROVE  BlockOK(m, f, b, hs[f].blocks[b], l, at, in, j)
  <2>1. CASE ~ (f = at /\ b = in)
    <3>1. hs[f].blocks[b] = fs[f].blocks[b]
      BY <2>1
    <3>2. BlockOK(m, f, b, fs[f].blocks[b], l, at, in, i)
      BY DEF AllOK, BlocksOK
    <3> QED BY <2>1, <3>1, <3>2, OthersKeep
  <2>2. CASE f = at /\ b = in
    BY <2>2
  <2> QED BY <2>1, <2>2
<1> QED BY <1>1 DEF AllOK, BlocksOK

LEMMA RetKeeps ==
  ASSUME NEW m, NEW fs, NEW at, NEW in, NEW i, AllOK(m, fs, "rets", at, in, i),
         i <= Len(fs[at].blocks[in])
  PROVE  LET hs == InsertCall(fs, at, in, i, "testsan_EndOfMain")
         IN  /\ fs[at].blocks[in][i].op = "ret" => AllOK(m, hs, "rets", at, in, i + 2)
             /\ fs[at].blocks[in][i].op # "ret" => AllOK(m, fs, "rets", at, in, i + 1)
<1> DEFINE s == fs[at].blocks[in]
           e == HookCall(m, "testsan_EndOfMain")
           hs == InsertCall(fs, at, in, i, "testsan_EndOfMain")
           new == InsertAt(s, i, e)
<1>1. /\ Given(m) /\ FunctionsOK(m, fs) /\ IsBlock(m, at, in)
      /\ at \in Nat /\ in \in Nat /\ Len(fs) \in Nat /\ at \in 1 .. Len(fs)
      /\ at <= Len(m) /\ in \in DOMAIN fs[at].blocks
      /\ s \in Seq(Insts) /\ Len(s) \in Nat /\ i \in 1 .. Len(s) + 1
      /\ BlockOK(m, at, in, s, "rets", at, in, i)
  BY InBlock
<1>2. m[at].name = "main"
  BY DEF AllOK, PlaceOK
<1>3. ScanningRets(m, at, in, s, i) /\ Erase(s) = m[at].blocks[in]
  BY <1>1 DEF BlockOK
<1>4. /\ s[i].op # "ret" => ScanningRets(m, at, in, s, i + 1)
      /\ s[i].op = "ret" => ScanningRets(m, at, in, new, i + 2)
  BY <1>1, <1>2, <1>3, RetsStep
<1>5. i \in Nat /\ i + 1 \in 1 .. Len(s) + 1 /\ i + 2 \in 1 .. (Len(s) + 1) + 1
  <2>1. i <= Len(s)
    OBVIOUS
  <2> HIDE DEF s
  <2> QED BY <1>1, <2>1
<1>6. ASSUME s[i].op # "ret" PROVE AllOK(m, fs, "rets", at, in, i + 1)
  <2>1. PlaceOK(m, fs, "rets", at, in, i + 1)
    BY <1>1, <1>2, <1>5 DEF PlaceOK
  <2>2. BlockOK(m, at, in, s, "rets", at, in, i + 1)
    BY <1>1, <1>3, <1>4, <1>6 DEF BlockOK
  <2> QED BY <1>1, <2>1, <2>2, OneChanges
<1>7. ASSUME s[i].op = "ret" PROVE AllOK(m, hs, "rets", at, in, i + 2)
  <2>1. Inserts(m, fs, hs, at, in, i, "testsan_EndOfMain")
    BY <1>1, InsertCallIs, HookNames
  <2> HIDE DEF hs
  <2>2. /\ FunctionsOK(m, hs) /\ Len(fs) <= Len(hs) /\ Len(hs) \in Nat /\ hs[at].blocks[in] = new
        /\ in \in DOMAIN hs[at].blocks
    <3>1. FunctionsOK(m, hs)
      BY <2>1 DEF Inserts
    <3>2. in \in DOMAIN hs[at].blocks
      BY <1>1, <3>1 DEF IsBlock, FunctionsOK
    <3>3. Len(hs) \in Nat
      BY <1>1, <3>1, FunctionsFacts
    <3> QED BY <2>1, <3>1, <3>2, <3>3 DEF Inserts
  <2>3. Erase(new) = Erase(s) /\ Len(new) = Len(s) + 1
    BY <1>1, EraseHook, HookNames
  <2> HIDE DEF new
  <2>4. PlaceOK(m, hs, "rets", at, in, i + 2)
    <3>1. at \in 1 .. Len(hs) + 1
      BY <1>1, <2>2
    <3>2. i + 2 \in 1 .. Len(hs[at].blocks[in]) + 1
      BY <1>5, <2>2, <2>3
    <3> QED BY <1>1, <1>2, <2>2, <3>1, <3>2 DEF PlaceOK
  <2>5. BlockOK(m, at, in, hs[at].blocks[in], "rets", at, in, i + 2)
    BY <1>1, <1>3, <1>4, <1>7, <2>2, <2>3 DEF BlockOK
  <2>6. \A f \in DOMAIN m : \A b \in DOMAIN m[f].blocks :
          ~ (f = at /\ b = in) => hs[f].blocks[b] = fs[f].blocks[b]
    BY <2>1 DEF Inserts
  <2> QED BY <2>2, <2>4, <2>5, <2>6, OneChanges
<1> QED BY <1>6, <1>7

LEMMA NextRetKeeps ==
  ASSUME NEW m, NEW fs, NEW at, NEW in, NEW i, AllOK(m, fs, "rets", at, in, i),
         i > Len(fs[at].blocks[in])
  PROVE  /\ in = Len(fs[at].blocks) => AllOK(m, fs, "block", at, 1, 1)
         /\ in # Len(fs[at].blocks) => AllOK(m, fs, "rets", at, in + 1, 1)
<1> DEFINE s == fs[at].blocks[in]
           n == Len(fs[at].blocks)
<1>1. /\ Given(m) /\ FunctionsOK(m, fs) /\ IsBlock(m, at, in)
      /\ at \in Nat /\ in \in Nat /\ Len(fs) \in Nat /\ at \in 1 .. Len(fs)
      /\ at <= Len(m) /\ in \in DOMAIN fs[at].blocks
      /\ DOMAIN m[at].blocks = 1 .. n /\ n \in Nat
      /\ s \in Seq(Insts) /\ i \in 1 .. Len(s) + 1
      /\ BlockOK(m, at, in, s, "rets", at, in, i)
  <2>1. /\ Given(m) /\ FunctionsOK(m, fs) /\ IsBlock(m, at, in)
        /\ at \in Nat /\ in \in Nat /\ Len(fs) \in Nat /\ at \in 1 .. Len(fs)
        /\ at <= Len(m) /\ in \in DOMAIN fs[at].blocks
        /\ s \in Seq(Insts) /\ i \in 1 .. Len(s) + 1
        /\ BlockOK(m, at, in, s, "rets", at, in, i)
    BY InBlock
  <2>2. DOMAIN fs[at].blocks = DOMAIN m[at].blocks
    BY <2>1 DEF IsBlock, FunctionsOK
  <2>3. DOMAIN fs[at].blocks = 1 .. n /\ n \in Nat
    BY <2>1, FunctionsFacts DEF IsBlock
  <2> QED BY <2>1, <2>2, <2>3
<1>2. m[at].name = "main"
  BY DEF AllOK, PlaceOK
<1>3. s = WithRets(m, at, in)
  <2>1. ScanningRets(m, at, in, s, i)
    BY <1>1 DEF BlockOK
  <2> QED BY <1>1, <2>1, RetsStep
<1>4. in \in 1 .. n /\ DOMAIN fs[at].blocks = 1 .. n
  BY <1>1, FunctionsFacts DEF IsBlock
<1>5. \A f \in DOMAIN m : \A b \in DOMAIN m[f].blocks :
        f \in Nat /\ b \in Nat /\ b >= 1 /\ BlockOK(m, f, b, fs[f].blocks[b], "rets", at, in, i)
  <2>1. \A f \in DOMAIN m : \A b \in DOMAIN m[f].blocks : f \in Nat /\ b \in Nat /\ b >= 1
    BY <1>1, DomainsAre
  <2> QED BY <2>1 DEF AllOK, BlocksOK
<1>6. \A f \in DOMAIN m : \A b \in DOMAIN m[f].blocks :
        /\ Erase(fs[f].blocks[b]) = m[f].blocks[b]
        /\ f < at => LeftBehind(m, f, b, fs[f].blocks[b])
        /\ f > at => fs[f].blocks[b] = m[f].blocks[b]
        /\ (f = at /\ b <= in) => fs[f].blocks[b] = WithRets(m, f, b)
        /\ (f = at /\ b > in) => fs[f].blocks[b] = Entered(m, f, b)
  <2>1. \A f \in DOMAIN m : \A b \in DOMAIN m[f].blocks : b <= in => b < in \/ b = in
    BY <1>1, <1>5
  <2> QED BY <1>3, <1>5, <2>1 DEF BlockOK
<1>7. \A b \in DOMAIN fs[at].blocks : 1 \in 1 .. Len(fs[at].blocks[b]) + 1
  <2>1. \A b \in DOMAIN fs[at].blocks : fs[at].blocks[b] \in Seq(Insts)
    BY <1>1, FunctionsFacts
  <2>2. \A t \in Seq(Insts) : 1 \in 1 .. Len(t) + 1
    OBVIOUS
  <2> QED BY <2>1, <2>2
<1> HIDE DEF s, n
<1>8. ASSUME in = n PROVE AllOK(m, fs, "block", at, 1, 1)
  <2>1. PlaceOK(m, fs, "block", at, 1, 1)
    <3>1. 1 \in DOMAIN fs[at].blocks /\ at \in 1 .. Len(fs) + 1
      BY <1>1, <1>4
    <3> QED BY <1>1, <1>7, <3>1 DEF PlaceOK
  <2>2. ASSUME NEW f \in DOMAIN m, NEW b \in DOMAIN m[f].blocks
        PROVE  BlockOK(m, f, b, fs[f].blocks[b], "block", at, 1, 1)
    <3>1. f = at => b <= in /\ ~ (b < 1)
      BY <1>1, <1>4, <1>5, <1>8
    <3>2. (f < at => f # at) /\ (f > at => f # at)
      BY <1>1, <1>5
    <3> QED BY <1>6, <3>1, <3>2 DEF BlockOK
  <2> QED BY <1>1, <2>1, <2>2 DEF AllOK, BlocksOK
<1>9. ASSUME in # n PROVE AllOK(m, fs, "rets", at, in + 1, 1)
  <2>1. in + 1 \in DOMAIN fs[at].blocks /\ in + 1 \in DOMAIN m[at].blocks /\ IsBlock(m, at, in + 1)
    <3>1. in + 1 \in 1 .. n
      BY <1>1, <1>4, <1>9
    <3> QED BY <1>1, <1>4, <3>1 DEF IsBlock
  <2>2. PlaceOK(m, fs, "rets", at, in + 1, 1)
    <3>1. at \in 1 .. Len(fs) + 1
      BY <1>1
    <3> QED BY <1>1, <1>2, <1>7, <2>1, <3>1 DEF PlaceOK
  <2>3. ScanningRets(m, at, in + 1, fs[at].blocks[in + 1], 1)
    <3>1. fs[at].blocks[in + 1] = Entered(m, at, in + 1)
      BY <1>1, <1>6, <2>1 DEF IsBlock
    <3> QED BY <2>1, <3>1, RetsBegin
  <2>4. ASSUME NEW f \in DOMAIN m, NEW b \in DOMAIN m[f].blocks
        PROVE  BlockOK(m, f, b, fs[f].blocks[b], "rets", at, in + 1, 1)
    <3>1. (b < in + 1 => b <= in) /\ (b > in + 1 => b > in)
      BY <1>1, <1>5
    <3>2. (f < at => f # at) /\ (f > at => f # at)
      BY <1>1, <1>5
    <3> QED BY <1>6, <2>3, <3>1, <3>2 DEF BlockOK
  <2> QED BY <1>1, <2>2, <2>4 DEF AllOK, BlocksOK
<1> QED BY <1>8, <1>9 DEF n

LEMMA BlockKeeps ==
  ASSUME NEW m, NEW fs, NEW at, NEW in, NEW i, AllOK(m, fs, "block", at, in, i)
  PROVE  AllOK(m, getOrInsertFunction(fs, "testsan_AfterMalloc"), "insts", at, in, 1)
<1> DEFINE gs == getOrInsertFunction(fs, "testsan_AfterMalloc")
           s == fs[at].blocks[in]
<1>1. /\ Given(m) /\ FunctionsOK(m, fs) /\ IsBlock(m, at, in)
      /\ at \in Nat /\ in \in Nat /\ Len(fs) \in Nat /\ at \in 1 .. Len(fs)
      /\ at <= Len(m) /\ in \in DOMAIN fs[at].blocks /\ s \in Seq(Insts) /\ Len(s) \in Nat
      /\ BlockOK(m, at, in, s, "block", at, in, i)
  BY InBlock
<1>2. Declares(m, fs, gs, "testsan_AfterMalloc")
  BY <1>1, DeclareIs, HookNames
<1> HIDE DEF gs
<1>3. /\ FunctionsOK(m, gs) /\ Len(gs) \in Nat /\ Len(fs) <= Len(gs)
      /\ \A f \in DOMAIN m : gs[f] = fs[f]
      /\ gs[at] = fs[at]
  <2>1. FunctionsOK(m, gs) /\ Len(fs) <= Len(gs) /\ (\A f \in DOMAIN m : gs[f] = fs[f])
    BY <1>2 DEF Declares
  <2> QED BY <1>1, <2>1, FunctionsFacts DEF IsBlock
<1>4. PlaceOK(m, gs, "insts", at, in, 1)
  <2>1. at \in 1 .. Len(gs) + 1 /\ 1 \in 1 .. Len(s) + 1
    BY <1>1, <1>3
  <2> QED BY <1>1, <1>3, <2>1 DEF PlaceOK
<1>5. ScanningMallocs(m, at, in, s, 1)
  <2>1. s = WithRets(m, at, in)
    BY <1>1 DEF BlockOK
  <2> QED BY <1>1, <2>1, MallocsBegin
<1>6. ASSUME NEW f \in DOMAIN m, NEW b \in DOMAIN m[f].blocks
      PROVE  BlockOK(m, f, b, gs[f].blocks[b], "insts", at, in, 1)
  <2>1. BlockOK(m, f, b, fs[f].blocks[b], "block", at, in, i) /\ gs[f] = fs[f]
    BY <1>3 DEF AllOK, BlocksOK
  <2> QED BY <1>5, <2>1 DEF BlockOK
<1>7. AllOK(m, gs, "insts", at, in, 1)
  BY <1>1, <1>3, <1>4, <1>6 DEF AllOK, BlocksOK
<1> QED BY <1>7 DEF gs

\* The instruction the last pass is on decides whether it crashes
LEMMA InstKeeps ==
  ASSUME NEW m, NEW fs, NEW at, NEW in, NEW i, AllOK(m, fs, "insts", at, in, i),
         i <= Len(fs[at].blocks[in])
  PROVE  LET hs == InsertCall(fs, at, in, i + 1, "testsan_AfterMalloc")
             inst == fs[at].blocks[in][i]
         IN  /\ Indirect(inst) => AllOK(m, fs, "crashed", at, in, i)
             /\ (~ Indirect(inst) /\ ~ CallsMalloc(inst)) => AllOK(m, fs, "insts", at, in, i + 1)
             /\ (~ Indirect(inst) /\ CallsMalloc(inst)) => AllOK(m, hs, "insts", at, in, i + 1)
<1> DEFINE s == fs[at].blocks[in]
           e == HookCall(m, "testsan_AfterMalloc")
           hs == InsertCall(fs, at, in, i + 1, "testsan_AfterMalloc")
           new == InsertAt(s, i + 1, e)
<1>1. /\ Given(m) /\ FunctionsOK(m, fs) /\ IsBlock(m, at, in)
      /\ at \in Nat /\ in \in Nat /\ Len(fs) \in Nat /\ at \in 1 .. Len(fs)
      /\ at <= Len(m) /\ in \in DOMAIN fs[at].blocks
      /\ s \in Seq(Insts) /\ Len(s) \in Nat /\ i \in 1 .. Len(s) + 1
      /\ BlockOK(m, at, in, s, "insts", at, in, i)
  BY InBlock
<1>2. ScanningMallocs(m, at, in, s, i) /\ Erase(s) = m[at].blocks[in]
  BY <1>1 DEF BlockOK
<1>3. /\ s[i] \in Ran(WithMallocs(m, at, in))
      /\ (~ Indirect(s[i]) /\ ~ CallsMalloc(s[i])) => ScanningMallocs(m, at, in, s, i + 1)
      /\ (~ Indirect(s[i]) /\ CallsMalloc(s[i])) => ScanningMallocs(m, at, in, new, i + 1)
  BY <1>1, <1>2, MallocsStep
<1>4. /\ i \in Nat /\ i + 1 \in 1 .. Len(s) + 1 /\ i + 1 \in 1 .. (Len(s) + 1) + 1
  <2>1. i <= Len(s)
    OBVIOUS
  <2> HIDE DEF s
  <2> QED BY <1>1, <2>1
<1>5. ASSUME Indirect(s[i]) PROVE AllOK(m, fs, "crashed", at, in, i)
  <2>1. HasNullCallee(m)
    <3>1. NullIn(m, at, in)
      BY <1>1, <1>3, <1>5, NullMet
    <3> QED BY <1>1, <3>1, HasNullCalleeIs DEF IsBlock
  <2>2. PlaceOK(m, fs, "crashed", at, in, i)
    BY <1>1, <2>1 DEF PlaceOK
  <2>3. BlocksOK(m, fs, "crashed", at, in, i)
    BY DEF AllOK, BlocksOK, BlockOK
  <2> QED BY <1>1, <2>2, <2>3 DEF AllOK
<1>6. ASSUME ~ Indirect(s[i]), ~ CallsMalloc(s[i]) PROVE AllOK(m, fs, "insts", at, in, i + 1)
  <2>1. PlaceOK(m, fs, "insts", at, in, i + 1)
    BY <1>1, <1>4 DEF PlaceOK
  <2>2. BlockOK(m, at, in, s, "insts", at, in, i) /\ ScanningMallocs(m, at, in, s, i + 1)
    BY <1>1, <1>3, <1>6
  <2>3. BlockOK(m, at, in, s, "insts", at, in, i + 1)
    BY <1>1, <2>2 DEF BlockOK
  <2> QED BY <1>1, <2>1, <2>3, OneChanges
<1>7. ASSUME ~ Indirect(s[i]), CallsMalloc(s[i]) PROVE AllOK(m, hs, "insts", at, in, i + 1)
  <2>1. Inserts(m, fs, hs, at, in, i + 1, "testsan_AfterMalloc")
    BY <1>1, <1>4, InsertCallIs, HookNames
  <2> HIDE DEF hs
  <2>2. /\ FunctionsOK(m, hs) /\ Len(fs) <= Len(hs) /\ Len(hs) \in Nat /\ hs[at].blocks[in] = new
        /\ in \in DOMAIN hs[at].blocks
    <3>1. FunctionsOK(m, hs)
      BY <2>1 DEF Inserts
    <3>2. in \in DOMAIN hs[at].blocks
      BY <1>1, <3>1 DEF IsBlock, FunctionsOK
    <3>3. Len(hs) \in Nat
      BY <1>1, <3>1, FunctionsFacts
    <3> QED BY <2>1, <3>1, <3>2, <3>3 DEF Inserts
  <2>3. Erase(new) = Erase(s) /\ Len(new) = Len(s) + 1
    BY <1>1, <1>4, EraseHook, HookNames
  <2>4. ScanningMallocs(m, at, in, new, i + 1)
    BY <1>3, <1>7
  <2> HIDE DEF new
  <2>5. PlaceOK(m, hs, "insts", at, in, i + 1)
    <3>1. at \in 1 .. Len(hs) + 1
      BY <1>1, <2>2
    <3>2. i + 1 \in 1 .. Len(hs[at].blocks[in]) + 1
      BY <1>4, <2>2, <2>3
    <3> QED BY <1>1, <2>2, <3>1, <3>2 DEF PlaceOK
  <2>6. BlockOK(m, at, in, hs[at].blocks[in], "insts", at, in, i + 1)
    BY <1>1, <1>2, <2>2, <2>3, <2>4 DEF BlockOK
  <2>7. \A f \in DOMAIN m : \A b \in DOMAIN m[f].blocks :
          ~ (f = at /\ b = in) => hs[f].blocks[b] = fs[f].blocks[b]
    BY <2>1 DEF Inserts
  <2> QED BY <2>2, <2>5, <2>6, <2>7, OneChanges
<1> QED BY <1>5, <1>6, <1>7

LEMMA NextBlockKeeps ==
  ASSUME NEW m, NEW fs, NEW at, NEW in, NEW i, AllOK(m, fs, "insts", at, in, i),
         i > Len(fs[at].blocks[in])
  PROVE  /\ in = Len(fs[at].blocks) => AllOK(m, fs, "function", at + 1, 1, 1)
         /\ in # Len(fs[at].blocks) => AllOK(m, fs, "block", at, in + 1, 1)
<1> DEFINE s == fs[at].blocks[in]
           n == Len(fs[at].blocks)
<1>1. /\ Given(m) /\ FunctionsOK(m, fs) /\ IsBlock(m, at, in)
      /\ at \in Nat /\ in \in Nat /\ Len(fs) \in Nat /\ at \in 1 .. Len(fs)
      /\ at <= Len(m) /\ in \in DOMAIN fs[at].blocks
      /\ DOMAIN m[at].blocks = 1 .. n /\ n \in Nat
      /\ s \in Seq(Insts) /\ i \in 1 .. Len(s) + 1
      /\ BlockOK(m, at, in, s, "insts", at, in, i)
  <2>1. /\ Given(m) /\ FunctionsOK(m, fs) /\ IsBlock(m, at, in)
        /\ at \in Nat /\ in \in Nat /\ Len(fs) \in Nat /\ at \in 1 .. Len(fs)
        /\ at <= Len(m) /\ in \in DOMAIN fs[at].blocks
        /\ s \in Seq(Insts) /\ i \in 1 .. Len(s) + 1
        /\ BlockOK(m, at, in, s, "insts", at, in, i)
    BY InBlock
  <2>2. DOMAIN fs[at].blocks = DOMAIN m[at].blocks
    BY <2>1 DEF IsBlock, FunctionsOK
  <2>3. DOMAIN fs[at].blocks = 1 .. n /\ n \in Nat
    BY <2>1, FunctionsFacts DEF IsBlock
  <2> QED BY <2>1, <2>2, <2>3
<1>2. LeftBehind(m, at, in, s)
  <2>1. ScanningMallocs(m, at, in, s, i)
    BY <1>1 DEF BlockOK
  <2> QED BY <1>1, <2>1, MallocsStep
<1>3. in \in 1 .. n /\ DOMAIN fs[at].blocks = 1 .. n
  BY <1>1, FunctionsFacts DEF IsBlock
<1>4. \A f \in DOMAIN m : \A b \in DOMAIN m[f].blocks :
        f \in Nat /\ b \in Nat /\ b >= 1 /\ BlockOK(m, f, b, fs[f].blocks[b], "insts", at, in, i)
  <2>1. \A f \in DOMAIN m : \A b \in DOMAIN m[f].blocks : f \in Nat /\ b \in Nat /\ b >= 1
    BY <1>1, DomainsAre
  <2> QED BY <2>1 DEF AllOK, BlocksOK
<1>5. \A f \in DOMAIN m : \A b \in DOMAIN m[f].blocks :
        /\ Erase(fs[f].blocks[b]) = m[f].blocks[b]
        /\ f < at => LeftBehind(m, f, b, fs[f].blocks[b])
        /\ f > at => fs[f].blocks[b] = m[f].blocks[b]
        /\ (f = at /\ b <= in) => LeftBehind(m, f, b, fs[f].blocks[b])
        /\ (f = at /\ b > in) => fs[f].blocks[b] = WithRets(m, f, b)
  <2>1. \A f \in DOMAIN m : \A b \in DOMAIN m[f].blocks : b <= in => b < in \/ b = in
    BY <1>1, <1>4
  <2> QED BY <1>2, <1>4, <2>1 DEF BlockOK
<1> HIDE DEF s, n
<1>6. ASSUME in = n PROVE AllOK(m, fs, "function", at + 1, 1, 1)
  <2>1. PlaceOK(m, fs, "function", at + 1, 1, 1)
    BY <1>1 DEF PlaceOK
  <2>2. ASSUME NEW f \in DOMAIN m, NEW b \in DOMAIN m[f].blocks
        PROVE  BlockOK(m, f, b, fs[f].blocks[b], "function", at + 1, 1, 1)
    <3>1. f = at => b <= in
      BY <1>1, <1>4, <1>6
    <3>0. f \in Nat /\ at \in Nat
      BY <1>1, <1>4
    <3>2. (f < at + 1 => f < at \/ f = at) /\ (f > at + 1 => f > at) /\ (f = at + 1 => f > at)
      BY <3>0
    <3> QED BY <1>5, <3>1, <3>2 DEF BlockOK
  <2> QED BY <1>1, <2>1, <2>2 DEF AllOK, BlocksOK
<1>7. ASSUME in # n PROVE AllOK(m, fs, "block", at, in + 1, 1)
  <2>1. in + 1 \in DOMAIN fs[at].blocks
    BY <1>1, <1>3, <1>7
  <2>2. PlaceOK(m, fs, "block", at, in + 1, 1)
    <3>1. at \in 1 .. Len(fs) + 1 /\ fs[at].blocks[in + 1] \in Seq(Insts)
      BY <1>1, <2>1, FunctionsFacts
    <3>2. 1 \in 1 .. Len(fs[at].blocks[in + 1]) + 1
      <4>1. Len(fs[at].blocks[in + 1]) \in Nat
        BY <3>1
      <4> QED BY <4>1
    <3> QED BY <1>1, <2>1, <3>1, <3>2 DEF PlaceOK
  <2>3. ASSUME NEW f \in DOMAIN m, NEW b \in DOMAIN m[f].blocks
        PROVE  BlockOK(m, f, b, fs[f].blocks[b], "block", at, in + 1, 1)
    <3>0. b \in Nat /\ in \in Nat
      BY <1>1, <1>4
    <3>1. (b < in + 1 => b <= in) /\ (b > in + 1 => b > in) /\ (b = in + 1 => b > in)
      BY <3>0
    <3>2. (f < at => f # at) /\ (f > at => f # at)
      BY <1>1, <1>4
    <3> QED BY <1>5, <3>1, <3>2 DEF BlockOK
  <2> QED BY <1>1, <2>2, <2>3 DEF AllOK, BlocksOK
<1> QED BY <1>6, <1>7 DEF n

-----------------------------------------------------------------------------
(* The invariant                                                              *)

LEMMA InitIInv == Init => IInv
<1> SUFFICES ASSUME Init PROVE IInv
  OBVIOUS
<1> PICK m : m = original
  OBVIOUS
<1>1. Given(m) /\ funcs = m /\ pc = "module" /\ fi = 1 /\ bi = 1 /\ ii = 1
  BY DEF Init, Given
<1>2. /\ m \in Seq(FunctionTypes) /\ UniqueNames(m) /\ Len(m) \in Nat /\ DOMAIN m = 1 .. Len(m)
  BY <1>1, GivenIs
<1>3. FunctionsOK(m, m)
  <2>1. Len(m) <= Len(m) /\ \A f \in DOMAIN m : ~ (f > Len(m))
    BY <1>2
  <2> QED BY <1>2, <2>1 DEF FunctionsOK
<1>4. PlaceOK(m, m, "module", 1, 1, 1)
  BY <1>2 DEF PlaceOK
<1>5. ASSUME NEW f \in DOMAIN m, NEW b \in DOMAIN m[f].blocks
      PROVE  BlockOK(m, f, b, m[f].blocks[b], "module", 1, 1, 1)
  <2>1. m[f].blocks[b] \in Seq(Insts) /\ \A i \in 1 .. Len(m[f].blocks[b]) : ~ IsHookCall(m[f].blocks[b][i])
    BY <1>1, GivenIs
  <2>2. Erase(m[f].blocks[b]) = m[f].blocks[b]
    BY <2>1, EraseOwn
  <2>3. ~ (f < 1)
    BY <1>2
  <2> QED BY <2>2, <2>3 DEF BlockOK
<1>6. AllOK(m, m, "module", 1, 1, 1)
  BY <1>1, <1>3, <1>4, <1>5 DEF AllOK, BlocksOK
<1> QED BY <1>1, <1>6 DEF IInv

LEMMA NextKeeps == IInv /\ [Next]_vars => IInv'
<1> SUFFICES ASSUME IInv, [Next]_vars PROVE IInv'
  OBVIOUS
<1> PICK m, fs, l, at, in, i :
      original = m /\ funcs = fs /\ pc = l /\ fi = at /\ bi = in /\ ii = i
  OBVIOUS
<1> PICK gs, l2, at2, in2, i2 :
      funcs' = gs /\ pc' = l2 /\ fi' = at2 /\ bi' = in2 /\ ii' = i2
  OBVIOUS
<1>1. AllOK(m, fs, l, at, in, i)
  BY DEF IInv
<1>2. ASSUME original' = m, AllOK(m, gs, l2, at2, in2, i2) PROVE IInv'
  BY <1>2 DEF IInv
<1>3. CASE runOnModule
  <2>1. l = "module" /\ l2 = "function" /\ original' = m /\ gs = fs /\ at2 = at /\ in2 = in /\ i2 = i
    BY <1>3 DEF runOnModule
  <2> QED BY <1>1, <1>2, <2>1, BeginKeeps
<1>4. CASE SkipDeclaration
  <2>1. /\ l = "function" /\ at <= Len(fs) /\ isDeclaration(fs[at])
        /\ l2 = l /\ original' = m /\ gs = fs /\ at2 = at + 1 /\ in2 = in /\ i2 = i
    BY <1>4 DEF SkipDeclaration
  <2> QED BY <1>1, <1>2, <2>1, SkipKeeps
<1>5. CASE FinishModule
  <2>1. /\ l = "function" /\ at > Len(fs)
        /\ l2 = "done" /\ original' = m /\ gs = fs /\ at2 = at /\ in2 = in /\ i2 = i
    BY <1>5 DEF FinishModule
  <2> QED BY <1>1, <1>2, <2>1, FinishKeeps
<1>6. CASE runOnFunction
  <2>1. /\ l = "function" /\ at <= Len(fs) /\ ~ isDeclaration(fs[at])
        /\ gs = InsertCall(fs, at, 1, 1, "testsan_HelloFunction")
        /\ l2 = (IF fs[at].name = "main" THEN "rets" ELSE "block")
        /\ original' = m /\ at2 = at /\ in2 = 1 /\ i2 = 1
    BY <1>6 DEF runOnFunction, EntryFront
  <2>2. AllOK(m, gs, l2, at, 1, 1)
    BY <1>1, <2>1, EnterKeeps
  <2> QED BY <1>2, <2>1, <2>2
<1>7. CASE ScanRet
  <2>1. /\ l = "rets" /\ i <= Len(fs[at].blocks[in])
        /\ IF fs[at].blocks[in][i].op = "ret"
             THEN gs = InsertCall(fs, at, in, i, "testsan_EndOfMain") /\ i2 = i + 2
             ELSE gs = fs /\ i2 = i + 1
        /\ original' = m /\ l2 = "rets" /\ at2 = at /\ in2 = in
    BY <1>7 DEF ScanRet, Block, Inst
  <2>2. AllOK(m, gs, "rets", at, in, i2)
    BY <1>1, <2>1, RetKeeps
  <2> QED BY <1>2, <2>1, <2>2
<1>8. CASE NextRetBlock
  <2>1. /\ l = "rets" /\ i > Len(fs[at].blocks[in])
        /\ IF in = Len(fs[at].blocks) THEN in2 = 1 /\ l2 = "block" ELSE in2 = in + 1 /\ l2 = "rets"
        /\ original' = m /\ gs = fs /\ at2 = at /\ i2 = 1
    BY <1>8 DEF NextRetBlock, Block, LastBlock
  <2>2. AllOK(m, fs, l2, at, in2, 1)
    BY <1>1, <2>1, NextRetKeeps
  <2> QED BY <1>2, <2>1, <2>2
<1>9. CASE runOnBasicBlock
  <2>1. /\ l = "block" /\ gs = getOrInsertFunction(fs, "testsan_AfterMalloc")
        /\ l2 = "insts" /\ i2 = 1 /\ original' = m /\ at2 = at /\ in2 = in
    BY <1>9 DEF runOnBasicBlock
  <2> QED BY <1>1, <1>2, <2>1, BlockKeeps
<1>10. CASE ScanInst
  <2> DEFINE inst == fs[at].blocks[in][i]
  <2>1. /\ l = "insts" /\ i <= Len(fs[at].blocks[in])
        /\ IF Indirect(inst)
             THEN l2 = "crashed" /\ gs = fs /\ i2 = i
             ELSE /\ gs = IF CallsMalloc(inst)
                            THEN InsertCall(fs, at, in, i + 1, "testsan_AfterMalloc") ELSE fs
                  /\ i2 = i + 1 /\ l2 = "insts"
        /\ original' = m /\ at2 = at /\ in2 = in
    BY <1>10 DEF ScanInst, Block, Inst
  <2>2. AllOK(m, gs, l2, at, in, i2)
    BY <1>1, <2>1, InstKeeps
  <2> QED BY <1>2, <2>1, <2>2
<1>11. CASE NextBlock
  <2>1. /\ l = "insts" /\ i > Len(fs[at].blocks[in])
        /\ IF in = Len(fs[at].blocks) THEN at2 = at + 1 /\ l2 = "function" /\ in2 = 1
                                      ELSE in2 = in + 1 /\ l2 = "block" /\ at2 = at
        /\ original' = m /\ gs = fs /\ i2 = 1
    BY <1>11 DEF NextBlock, Block, LastBlock
  <2>2. AllOK(m, fs, l2, at2, in2, 1)
    BY <1>1, <2>1, NextBlockKeeps
  <2> QED BY <1>2, <2>1, <2>2
<1>12. CASE UNCHANGED vars
  <2>1. original' = m /\ gs = fs /\ l2 = l /\ at2 = at /\ in2 = in /\ i2 = i
    BY <1>12 DEF vars
  <2> QED BY <1>1, <1>2, <2>1
<1> QED BY <1>3, <1>4, <1>5, <1>6, <1>7, <1>8, <1>9, <1>10, <1>11, <1>12 DEF Next, Terminated

\* The compiler's state keeps its shape: the iterators point into the module they
\* iterate over although it grows under them, and no symbol is declared twice
THEOREM TypeCorrect == Spec => []TypeOK
<1>1. IInv => TypeOK
  BY DEF IInv, AllOK, PlaceOK, FunctionsOK, TypeOK, Block
<1> QED BY <1>1, InitIInv, NextKeeps, PTL DEF Spec

\* At every step of every pass the program is the original one with calls of
\* hooks added, for every module
THEOREM ProgramPreserved == Spec => []OriginalPreserved
<1>1. ASSUME IInv PROVE OriginalPreserved
  <2> PICK m, fs : original = m /\ funcs = fs
    OBVIOUS
  <2>1. /\ Given(m) /\ FunctionsOK(m, fs)
        /\ \A f \in DOMAIN m : \A b \in DOMAIN m[f].blocks : Erase(fs[f].blocks[b]) = m[f].blocks[b]
    BY <1>1 DEF IInv, AllOK, BlocksOK, BlockOK
  <2>2. /\ Len(m) \in Nat /\ DOMAIN m = 1 .. Len(m) /\ Len(fs) \in Nat /\ DOMAIN fs = 1 .. Len(fs)
    BY <2>1, GivenIs, FunctionsFacts
  <2>3. ASSUME NEW f \in DOMAIN m
        PROVE  /\ fs[f].name = m[f].name
               /\ [b \in DOMAIN fs[f].blocks |-> Erase(fs[f].blocks[b])] = m[f].blocks
    <3>1. fs[f].name = m[f].name /\ DOMAIN fs[f].blocks = DOMAIN m[f].blocks
      BY <2>1 DEF FunctionsOK
    <3>2. m[f].blocks = [b \in DOMAIN m[f].blocks |-> m[f].blocks[b]]
      <4>1. m[f].blocks \in Seq(Seq(Insts))
        BY <2>1, GivenIs
      <4> QED BY <4>1
    <3> QED BY <2>1, <3>1, <3>2
  <2>4. ASSUME NEW f \in DOMAIN fs, f \notin DOMAIN m
        PROVE  fs[f] \in {Function(h, TRUE, <<>>) : h \in Hooks}
    <3>1. f > Len(m)
      BY <2>2, <2>4
    <3> QED BY <2>1, <3>1 DEF FunctionsOK
  <2> QED BY <2>3, <2>4 DEF OriginalPreserved
<1> QED BY <1>1, InitIInv, NextKeeps, PTL DEF Spec

\* A function the passes have left has exactly the hooks it should have, although
\* each pass runs over what the previous ones inserted and over its own insertions
THEOREM HooksExact == Spec => []Instrumented
<1>1. ASSUME IInv PROVE Instrumented
  <2> PICK m, fs, at : original = m /\ funcs = fs /\ fi = at
    OBVIOUS
  <2>1. /\ Given(m) /\ FunctionsOK(m, fs)
        /\ \A f \in DOMAIN m : \A b \in DOMAIN m[f].blocks :
             f < at => LeftBehind(m, f, b, fs[f].blocks[b])
    BY <1>1 DEF IInv, AllOK, BlocksOK, BlockOK
  <2>2. ASSUME NEW f \in DOMAIN m, f < at, NEW b \in DOMAIN m[f].blocks
        PROVE  fs[f].blocks[b] = ExpectedBlock(m[f], b)
    <3>1. /\ fs[f].blocks[b] = WithMallocs(m, f, b)
          /\ NoneIndirect(fs[f].blocks[b], Len(fs[f].blocks[b]))
      BY <2>1, <2>2 DEF LeftBehind
    <3>2. \A x \in Ran(WithMallocs(m, f, b)) : ~ Indirect(x)
      BY <3>1, NoneIndirectIs
    <3>3. IsBlock(m, f, b)
      BY <2>1 DEF IsBlock
    <3> QED BY <3>1, <3>2, <3>3, FinalIsExpected
  <2>3. ASSUME NEW f \in DOMAIN m, f < at
        PROVE  fs[f].blocks = [b \in DOMAIN m[f].blocks |-> ExpectedBlock(m[f], b)]
    <3>1. DOMAIN fs[f].blocks = DOMAIN m[f].blocks /\ fs[f].blocks \in Seq(Seq(Insts))
      BY <2>1, FunctionsFacts DEF FunctionsOK
    <3>2. fs[f].blocks = [b \in DOMAIN fs[f].blocks |-> fs[f].blocks[b]]
      BY <3>1
    <3> QED BY <2>2, <2>3, <3>1, <3>2
  <2> QED BY <2>3 DEF Instrumented
<1> QED BY <1>1, InitIInv, NextKeeps, PTL DEF Spec

\* A compilation with -fsanitize=test crashes on exactly the modules that give
\* some pass a call without a called function
THEOREM CrashExact == Spec => []CrashesExactlyOnNullCallee
<1>1. ASSUME IInv PROVE CrashesExactlyOnNullCallee
  <2> PICK m, fs, at, in, i, l :
        original = m /\ funcs = fs /\ fi = at /\ bi = in /\ ii = i /\ pc = l
    OBVIOUS
  <2>0. AllOK(m, fs, l, at, in, i)
    BY <1>1 DEF IInv
  <2>1. Given(m) /\ FunctionsOK(m, fs) /\ (l = "crashed" => HasNullCallee(m))
    BY <2>0 DEF AllOK, PlaceOK
  <2>2. ASSUME l = "done" PROVE ~ HasNullCallee(m)
    <3>1. at = Len(fs) + 1 /\ \A f \in DOMAIN m : f < at
      <4>1. at = Len(fs) + 1
        BY <2>0, <2>2 DEF AllOK, PlaceOK
      <4>2. Len(fs) \in Nat /\ DOMAIN fs = 1 .. Len(fs) /\ DOMAIN m \subseteq DOMAIN fs
        BY <2>1, FunctionsFacts
      <4> QED BY <4>1, <4>2
    <3>2. ASSUME NEW f \in DOMAIN m, NEW b \in DOMAIN m[f].blocks PROVE ~ NullIn(m, f, b)
      <4>1. IsBlock(m, f, b) /\ BlockOK(m, f, b, fs[f].blocks[b], l, at, in, i)
        BY <2>0, <2>1 DEF AllOK, BlocksOK, IsBlock
      <4>2. LeftBehind(m, f, b, fs[f].blocks[b])
        BY <3>1, <4>1 DEF BlockOK
      <4>3. \A x \in Ran(WithMallocs(m, f, b)) : ~ Indirect(x)
        BY <4>2, NoneIndirectIs DEF LeftBehind
      <4> QED BY <4>1, <4>3, NullMet
    <3> QED BY <2>1, <3>2, HasNullCalleeIs
  <2> QED BY <2>1, <2>2 DEF CrashesExactlyOnNullCallee
<1> QED BY <1>1, InitIInv, NextKeeps, PTL DEF Spec
=============================================================================
