---------------------- MODULE DeadlockDetector_proofs -----------------------
(* The deadlock detector for any threads, mutexes and number of nodes, however *)
(* many locks are held at a time and however often the graph is flushed.       *)
(*                                                                             *)
(* A thread's record says nothing once the epoch has moved on, and it forgets  *)
(* in a flush what the thread still holds.  So the invariant counts: of each   *)
(* node in a record of the present epoch the thread holds more locks than the  *)
(* record has recursive ones, and an edge that may be missing is that of a     *)
(* lock taken before all the locks the record still knows of.  The same count   *)
(* shows that a record never has more entries than its thread holds locks.      *)
EXTENDS DeadlockDetector, FiniteSetTheorems, SequenceTheorems, TLAPS

\* A node of epoch e, and the mutex m having the node of index i in it
InEpoch(e, n) == n # 0 /\ NodeEpoch(n) = e
Has(ids, e, m, i) == InEpoch(e, ids[m]) /\ NodeIndex(ids[m]) = i

\* The places of a thread before its lock is taken, and after
Before == {"beforeEdges", "beforeSlow", "acquire"}
After == {"first", "after", "afterEdges", "afterSlow", "full"}

\* What a thread holds that its record has been told of: a lock being recorded is
\* the last one and does not count yet
Told(h, pc) == IF pc \in After THEN Front(h) ELSE h

\* The places of a sequence of locks whose mutex has node i, those after place q,
\* and the places of i among the recursive locks of a record
Holds(h, ids, e, i) == {k \in DOMAIN h : Has(ids, e, h[k].m, i)}
Later(h, ids, e, i, q) == {k \in Holds(h, ids, e, i) : q < k}
Again(r, i) == {k \in DOMAIN r.rec : r.rec[k] = i}

\* An epoch is a multiple of the number of nodes
Multiple(e) == e \in Nat /\ NodeIndex(e) = 0

Lock == [m : Mutexes, w : BOOLEAN, try : BOOLEAN]
Record == [bv : SUBSET Index, epoch : Nat, rec : Seq(Index)]
Detector == [epoch : Nat, available : SUBSET Index, recycled : SUBSET Index,
             g : SUBSET (Index \X Index)]
Call == [pc : {"idle"} \cup Before \cup After, m : Mutexes \cup {NoMutex}, w : BOOLEAN,
         try : BOOLEAN, node : Nat, todo : SUBSET Index]

TypeInv ==
  /\ id \in [Mutexes -> Nat]
  /\ dd \in Detector
  /\ dtls \in [Threads -> Record]
  /\ held \in [Threads -> Seq(Lock)]
  /\ op \in [Threads -> Call]
  /\ nested \in SUBSET (Mutexes \X Mutexes)

\* Nodes and what is vacant are of epochs that have begun; the first begins when
\* the first node is given away
EpochOK(ids, d) ==
  /\ Multiple(d.epoch)
  /\ d.epoch = 0 => d.available = {} /\ d.recycled = {} /\ d.g = {}
  /\ d.available \cap d.recycled = {}
  /\ \A m \in Mutexes : NodeEpoch(ids[m]) <= d.epoch /\ (ids[m] # 0 => NodeEpoch(ids[m]) # 0)

\* What the program does
AskOK(h, o) ==
  /\ \A p, q \in DOMAIN h : p # q /\ h[p].m = h[q].m => ~ h[p].w
  /\ o.pc \in Before =>
       /\ o.m \in Mutexes /\ ~ o.try
       /\ \A k \in DOMAIN h : h[k].m = o.m => ~ o.w /\ ~ h[k].w
  /\ o.pc \in After =>
       /\ h # <<>> /\ o.m \in Mutexes
       /\ Last(h).m = o.m /\ Last(h).w = o.w
       /\ IF o.try THEN Last(h).try \/ Len(h) = 1 ELSE ~ Last(h).try

NodesOK(ids, d) ==
  /\ \A m \in Mutexes, i \in Index : Has(ids, d.epoch, m, i) =>
       /\ i \notin d.available /\ i \notin d.recycled
       /\ \A n \in Mutexes : Has(ids, d.epoch, n, i) => n = m

EdgesOK(ids, d, ns) ==
  \A a, b \in Index : <<a, b>> \in d.g =>
    /\ a \notin d.available /\ a \notin d.recycled /\ b \notin d.available
    /\ \A m, n \in Mutexes :
         Has(ids, d.epoch, m, a) /\ Has(ids, d.epoch, n, b) => <<m, n>> \in ns

Counted(r, h, ids, e) ==
  /\ \A k \in DOMAIN r.rec : r.rec[k] \in r.bv
  /\ \A i \in r.bv : Cardinality(Again(r, i)) < Cardinality(Holds(h, ids, e, i))

Joined(r, h, ids, e, g) ==
  \A q \in DOMAIN h, i \in r.bv : ~ h[q].try /\ ~ Has(ids, e, h[q].m, i) =>
    \/ InEpoch(e, ids[h[q].m]) /\ <<i, NodeIndex(ids[h[q].m])>> \in g
    \/ Cardinality(Again(r, i)) < Cardinality(Later(h, ids, e, i, q))

Asked(r, o, ids, e, ns) ==
  o.pc # "idle" /\ ~ o.try =>
    \A i \in r.bv, m \in Mutexes : Has(ids, e, m, i) => <<m, o.m>> \in ns

Reading(r, o, ids, e, g) ==
  o.pc \in {"beforeEdges", "afterEdges"} =>
    /\ o.node = ids[o.m] /\ InEpoch(e, o.node)
    /\ \A i \in r.bv \ o.todo : <<i, NodeIndex(o.node)>> \in g

RecordOK(r, h, o, ids, d, ns) ==
  /\ Counted(r, Told(h, o.pc), ids, d.epoch)
  /\ Joined(r, Told(h, o.pc), ids, d.epoch, d.g)
  /\ Asked(r, o, ids, d.epoch, ns)
  /\ Reading(r, o, ids, d.epoch, d.g)

CallOK(r, o) ==
  /\ o.pc = "first" => r.bv = {}
  /\ o.pc \in {"beforeEdges", "afterEdges"} =>
       r.epoch = NodeEpoch(o.node) /\ o.todo \subseteq r.bv

ThreadOK(r, h, o, ids, d, ns) ==
  /\ AskOK(h, o)
  /\ CallOK(r, o)
  /\ r.epoch = d.epoch => RecordOK(r, h, o, ids, d, ns)

DetectorInv ==
  /\ TypeInv
  /\ \A t \in Threads : dtls[t].epoch <= dd.epoch
  /\ EpochOK(id, dd)
  /\ NodesOK(id, dd)
  /\ EdgesOK(id, dd, nested)

ThreadInv ==
  \A t \in Threads : ThreadOK(dtls[t], held[t], op[t], id, dd, nested)

IInv == DetectorInv /\ ThreadInv

\* A record without room is that of a thread that holds too many locks
TooMany(h) ==
  LET M == {h[k].m : k \in DOMAIN h}
  IN  \/ Cardinality(M) > limits.all
      \/ Len(h) - Cardinality(M) > limits.recursive

Room(r, h, o) ==
  /\ o.pc = "full" => TooMany(h)
  /\ o.pc = "afterEdges" => Fits(r, NodeIndex(o.node)) \/ TooMany(h)

RoomInv ==
  /\ limits \in [all : Nat \ {0}, recursive : Nat]
  /\ \A t \in Threads : Room(dtls[t], held[t], op[t])

-----------------------------------------------------------------------------
\* A node is its epoch plus its index
LEMMA NodeParts ==
  ASSUME NEW n \in Nat
  PROVE  /\ NodeIndex(n) \in Index
         /\ Multiple(NodeEpoch(n))
         /\ n = NodeEpoch(n) + NodeIndex(n)
<1>1. kSize \in Nat \ {0}
  BY NodesAssumption
<1>2. /\ n \div kSize \in Nat /\ n % kSize \in 0 .. kSize - 1
      /\ n = (kSize * (n \div kSize)) + (n % kSize)
  BY <1>1
<1> DEFINE q == n \div kSize
<1>3. q * kSize \in Nat /\ q * kSize = kSize * q
  BY <1>1, <1>2
<1>4. (q * kSize) % kSize = 0
  BY <1>1, <1>2
<1> QED
  BY <1>2, <1>3, <1>4 DEF NodeIndex, NodeEpoch, Multiple, Index

LEMMA NodeSum ==
  ASSUME NEW e, Multiple(e), NEW i \in Index
  PROVE  e + i \in Nat /\ NodeEpoch(e + i) = e /\ NodeIndex(e + i) = i
<1>1. kSize \in Nat \ {0} /\ e \in Nat /\ e % kSize = 0 /\ i \in 0 .. kSize - 1
  BY NodesAssumption DEF Multiple, NodeIndex, Index
<1> DEFINE k == e \div kSize
<1>2. k \in Nat /\ e = k * kSize
  BY <1>1
<1>3. (k * kSize + i) \div kSize = k
  BY <1>1, <1>2
<1>4. (k * kSize + i) % kSize = i
  BY <1>1, <1>2
<1> QED
  BY <1>1, <1>2, <1>3, <1>4 DEF NodeIndex, NodeEpoch

LEMMA NextEpoch ==
  ASSUME NEW e, Multiple(e)
  PROVE  Multiple(e + kSize) /\ e + kSize > e
<1>1. kSize \in Nat \ {0} /\ e \in Nat /\ e % kSize = 0
  BY NodesAssumption DEF Multiple, NodeIndex
<1> DEFINE k == e \div kSize
<1>2. k \in Nat /\ e = k * kSize
  BY <1>1
<1>3. e + kSize = (k + 1) * kSize
  BY <1>1, <1>2
<1>4. ((k + 1) * kSize) % kSize = 0
  BY <1>1, <1>2
<1> QED
  BY <1>1, <1>3, <1>4 DEF Multiple, NodeIndex

-----------------------------------------------------------------------------
\* Taking one element out of a sequence, and counting what is left
LEMMA Removed ==
  ASSUME NEW X, NEW s \in Seq(X), NEW k \in DOMAIN s
  PROVE  /\ RemoveAt(s, k) \in Seq(X)
         /\ Len(RemoveAt(s, k)) = Len(s) - 1
         /\ DOMAIN RemoveAt(s, k) = 1 .. Len(s) - 1
         /\ \A j \in 1 .. Len(s) - 1 :
              RemoveAt(s, k)[j] = IF j < k THEN s[j] ELSE s[j + 1]
<1> DEFINE a == SubSeq(s, 1, k - 1)
           b == SubSeq(s, k + 1, Len(s))
<1>1. Len(s) \in Nat /\ k \in 1 .. Len(s) /\ DOMAIN s = 1 .. Len(s)
  BY LenProperties
<1>2. \A j \in 1 .. Len(s) : s[j] \in X
  BY <1>1, ElementOfSeq
<1>3. /\ a \in Seq(X) /\ Len(a) = k - 1
      /\ \A j \in 1 .. k - 1 : a[j] = s[j]
  <2>1. \A j \in 1 .. k - 1 : s[j] \in X
    BY <1>1, <1>2
  <2> QED
    BY <2>1, <1>1, SubSeqProperties
<1>4. /\ b \in Seq(X) /\ Len(b) = Len(s) - k
      /\ \A j \in 1 .. Len(s) - k : b[j] = s[j + k]
  <2>1. \A j \in k + 1 .. Len(s) : s[j] \in X
    BY <1>1, <1>2
  <2>2. /\ b \in Seq(X)
        /\ Len(b) = IF k + 1 <= Len(s) THEN Len(s) - (k + 1) + 1 ELSE 0
        /\ \A j \in 1 .. Len(s) - (k + 1) + 1 : b[j] = s[(k + 1) + j - 1]
    BY <2>1, <1>1, SubSeqProperties
  <2> HIDE DEF b
  <2>3. /\ (IF k + 1 <= Len(s) THEN Len(s) - (k + 1) + 1 ELSE 0) = Len(s) - k
        /\ Len(s) - (k + 1) + 1 = Len(s) - k
        /\ \A j \in 1 .. Len(s) - k : (k + 1) + j - 1 = j + k
    BY <1>1
  <2> QED
    BY <2>2, <2>3
<1> HIDE DEF a, b
<1>5. /\ a \o b \in Seq(X) /\ Len(a \o b) = Len(a) + Len(b)
      /\ \A j \in 1 .. Len(a) + Len(b) :
           (a \o b)[j] = IF j <= Len(a) THEN a[j] ELSE b[j - Len(a)]
  BY <1>3, <1>4, ConcatProperties
<1>6. Len(a \o b) = Len(s) - 1 /\ DOMAIN (a \o b) = 1 .. Len(s) - 1
  <2>1. Len(a) + Len(b) = Len(s) - 1
    BY <1>1, <1>3, <1>4
  <2>2. DOMAIN (a \o b) = 1 .. Len(a \o b)
    BY <1>5, LenProperties
  <2> QED
    BY <2>1, <2>2, <1>5
<1>7. \A j \in 1 .. Len(s) - 1 : (a \o b)[j] = IF j < k THEN s[j] ELSE s[j + 1]
  <2> TAKE j \in 1 .. Len(s) - 1
  <2>1. CASE j < k
    BY <2>1, <1>1, <1>3, <1>4, <1>5
  <2>2. CASE j >= k
    <3>1. /\ j \in 1 .. Len(a) + Len(b) /\ ~ (j <= Len(a))
          /\ j - Len(a) \in 1 .. Len(s) - k /\ (j - Len(a)) + k = j + 1
      BY <2>2, <1>1, <1>3, <1>4
    <3>2. (a \o b)[j] = b[j - Len(a)]
      BY <3>1, <1>5
    <3>3. b[j - Len(a)] = s[j + 1]
      BY <3>1, <1>4
    <3> QED
      BY <3>2, <3>3, <2>2, <1>1
  <2>3. j < k \/ j >= k
    BY <1>1
  <2> QED
    BY <2>1, <2>2, <2>3
<1>8. RemoveAt(s, k) = a \o b
  BY DEF RemoveAt, a, b
<1> QED
  BY <1>1, <1>3, <1>4, <1>5, <1>6, <1>7, <1>8

\* The places S of a sequence of length n once place k is gone
Shifted(S, k, n) == {j \in 1 .. n - 1 : IF j < k THEN j \in S ELSE j + 1 \in S}

LEMMA CountRemoved ==
  ASSUME NEW n \in Nat, NEW k \in 1 .. n, NEW S \in SUBSET (1 .. n)
  PROVE  /\ Cardinality(S) \in Nat
         /\ Cardinality(Shifted(S, k, n)) =
              IF k \in S THEN Cardinality(S) - 1 ELSE Cardinality(S)
<1> DEFINE T == Shifted(S, k, n)
<1>0. /\ T \in SUBSET (1 .. n - 1)
      /\ \A j \in 1 .. n - 1 : j \in T <=> IF j < k THEN j \in S ELSE j + 1 \in S
  BY DEF Shifted
<1> HIDE DEF T
<1>1. IsFiniteSet(S) /\ IsFiniteSet(T)
  <2>1. IsFiniteSet(1 .. n) /\ IsFiniteSet(1 .. n - 1)
    BY FS_Interval
  <2> QED
    BY <2>1, <1>0, FS_Subset
<1>2. Cardinality(S) \in Nat
  BY <1>1, FS_CardinalityType
<1>3. /\ IsFiniteSet(S \ {k})
      /\ Cardinality(S \ {k}) = IF k \in S THEN Cardinality(S) - 1 ELSE Cardinality(S)
  BY <1>1, FS_RemoveElement
<1> DEFINE f == [j \in T |-> IF j < k THEN j ELSE j + 1]
<1>4. f \in [T -> S \ {k}]
  BY <1>0
<1>5. \A x, y \in T : f[x] = f[y] => x = y
  BY <1>0
<1>6. \A y \in S \ {k} : \E x \in T : f[x] = y
  <2> TAKE y \in S \ {k}
  <2>1. CASE y < k
    <3>1. y \in T /\ f[y] = y
      BY <2>1, <1>0
    <3> QED
      BY <3>1
  <2>2. CASE y > k
    <3>1. y - 1 \in 1 .. n - 1 /\ ~ (y - 1 < k) /\ (y - 1) + 1 = y
      BY <2>2
    <3>2. y - 1 \in T /\ f[y - 1] = y
      BY <3>1, <1>0
    <3> QED
      BY <3>2
  <2> QED
    BY <2>1, <2>2
<1> HIDE DEF f
<1>7. f \in Bijection(T, S \ {k})
  BY <1>4, <1>5, <1>6 DEF Bijection, Injection, Surjection, IsInjective
<1>8. Cardinality(S \ {k}) = Cardinality(T)
  BY <1>1, <1>7, FS_Bijection DEF ExistsBijection
<1> QED
  BY <1>2, <1>3, <1>8 DEF T

\* The first of a non-empty set of naturals; the library's Min chooses it
LEMMA Smallest ==
  ASSUME NEW S \in SUBSET Nat, S # {}
  PROVE  Min(S) \in S /\ \A x \in S : Min(S) <= x
<1> DEFINE R == {p \in Nat \X Nat : p[1] < p[2]}
<1>1. IsWellFoundedOn(R, Nat)
  BY NatLessThanWellFounded DEF OpToRel
<1>2. \E x \in S : \A y \in S : <<y, x>> \notin R
  <2> HIDE DEF R
  <2> QED
    BY <1>1, WFMin
<1>3. \A x, y \in S : <<y, x>> \notin R => x <= y
  OBVIOUS
<1>4. \E x \in S : \A y \in S : x <= y
  BY <1>2, <1>3
<1> QED
  BY <1>4 DEF Min

\* The first of the elements that are e is the one that goes
LEMMA FirstRemoved ==
  ASSUME NEW X, NEW s \in Seq(X), NEW e, \E k \in DOMAIN s : s[k] = e
  PROVE  \E k \in DOMAIN s : s[k] = e /\ RemoveFirst(s, e) = RemoveAt(s, k)
<1> DEFINE I == {k \in 1 .. Len(s) : s[k] = e}
<1>1. Len(s) \in Nat /\ DOMAIN s = 1 .. Len(s)
  BY LenProperties
<1>2. I # {} /\ I \in SUBSET Nat
  BY <1>1
<1>3. Min(I) \in I
  <2> HIDE DEF I
  <2> QED
    BY <1>2, Smallest
<1>4. SelectInSeq(s, LAMBDA v : v = e) = Min(I)
  BY <1>2 DEF SelectInSeq
<1>5. RemoveFirst(s, e) = RemoveAt(s, Min(I))
  BY <1>1, <1>2, <1>4 DEF RemoveFirst
<1> QED
  BY <1>1, <1>3, <1>5

\* What a record and the locks of a thread lose when one lock is taken out
LEMMA HoldsRemoved ==
  ASSUME NEW ids, NEW e, NEW i, NEW h \in Seq(Lock), NEW k \in DOMAIN h
  PROVE  /\ Cardinality(Holds(h, ids, e, i)) \in Nat
         /\ Cardinality(Holds(RemoveAt(h, k), ids, e, i)) =
              IF k \in Holds(h, ids, e, i) THEN Cardinality(Holds(h, ids, e, i)) - 1
              ELSE Cardinality(Holds(h, ids, e, i))
<1> DEFINE n == Len(h)
           g == RemoveAt(h, k)
           S == Holds(h, ids, e, i)
           T == Holds(g, ids, e, i)
<1>1. n \in Nat /\ DOMAIN h = 1 .. n /\ k \in 1 .. n
  BY LenProperties
<1>2. DOMAIN g = 1 .. n - 1 /\ \A j \in 1 .. n - 1 : g[j] = IF j < k THEN h[j] ELSE h[j + 1]
  BY Removed
<1>3. S \in SUBSET (1 .. n) /\ T \in SUBSET (1 .. n - 1)
  BY <1>1, <1>2 DEF Holds
<1>4. T = Shifted(S, k, n)
  <2> SUFFICES ASSUME NEW j \in 1 .. n - 1
               PROVE  j \in T <=> IF j < k THEN j \in S ELSE j + 1 \in S
    BY <1>3 DEF Shifted
  <2>1. j \in T <=> Has(ids, e, g[j].m, i)
    BY <1>2 DEF Holds
  <2>2. j \in S <=> Has(ids, e, h[j].m, i)
    BY <1>1 DEF Holds
  <2>3. j + 1 \in S <=> Has(ids, e, h[j + 1].m, i)
    BY <1>1 DEF Holds
  <2> QED
    BY <2>1, <2>2, <2>3, <1>2
<1> HIDE DEF n, g, S, T
<1>5. /\ Cardinality(S) \in Nat
      /\ Cardinality(T) = IF k \in S THEN Cardinality(S) - 1 ELSE Cardinality(S)
  BY <1>1, <1>3, <1>4, CountRemoved
<1> QED
  BY <1>5 DEF S, T, g

LEMMA LaterRemoved ==
  ASSUME NEW ids, NEW e, NEW i, NEW h \in Seq(Lock), NEW k \in DOMAIN h,
         NEW p \in 1 .. Len(h) - 1, NEW q, q = IF p < k THEN p ELSE p + 1
  PROVE  /\ Cardinality(Later(h, ids, e, i, q)) \in Nat
         /\ Cardinality(Later(RemoveAt(h, k), ids, e, i, p)) =
              IF k \in Later(h, ids, e, i, q) THEN Cardinality(Later(h, ids, e, i, q)) - 1
              ELSE Cardinality(Later(h, ids, e, i, q))
<1> DEFINE n == Len(h)
           g == RemoveAt(h, k)
           S == Later(h, ids, e, i, q)
           T == Later(g, ids, e, i, p)
<1>1. n \in Nat /\ DOMAIN h = 1 .. n /\ k \in 1 .. n /\ p \in 1 .. n - 1
  BY LenProperties
<1>2. DOMAIN g = 1 .. n - 1 /\ \A j \in 1 .. n - 1 : g[j] = IF j < k THEN h[j] ELSE h[j + 1]
  BY Removed
<1>3. S \in SUBSET (1 .. n) /\ T \in SUBSET (1 .. n - 1)
  BY <1>1, <1>2 DEF Holds, Later
<1>4. T = Shifted(S, k, n)
  <2> SUFFICES ASSUME NEW j \in 1 .. n - 1
               PROVE  j \in T <=> IF j < k THEN j \in S ELSE j + 1 \in S
    BY <1>3 DEF Shifted
  <2>1. j \in T <=> Has(ids, e, g[j].m, i) /\ p < j
    BY <1>2 DEF Holds, Later
  <2>2. j \in S <=> Has(ids, e, h[j].m, i) /\ q < j
    BY <1>1 DEF Holds, Later
  <2>3. j + 1 \in S <=> Has(ids, e, h[j + 1].m, i) /\ q < j + 1
    BY <1>1 DEF Holds, Later
  <2>4. (j < k => (p < j <=> q < j)) /\ (~ (j < k) => (p < j <=> q < j + 1))
    BY <1>1
  <2> QED
    BY <2>1, <2>2, <2>3, <2>4, <1>2
<1> HIDE DEF n, g, S, T
<1>5. /\ Cardinality(S) \in Nat
      /\ Cardinality(T) = IF k \in S THEN Cardinality(S) - 1 ELSE Cardinality(S)
  BY <1>1, <1>3, <1>4, CountRemoved
<1> QED
  BY <1>5 DEF S, T, g

LEMMA AgainFinite ==
  ASSUME NEW r \in Record, NEW i
  PROVE  Cardinality(Again(r, i)) \in Nat
<1>1. r.rec \in Seq(Index) /\ Len(r.rec) \in Nat /\ DOMAIN r.rec = 1 .. Len(r.rec)
  BY LenProperties DEF Record
<1>2. IsFiniteSet(1 .. Len(r.rec)) /\ Again(r, i) \in SUBSET (1 .. Len(r.rec))
  BY <1>1, FS_Interval DEF Again
<1> QED
  BY <1>2, FS_Subset, FS_CardinalityType

LEMMA AgainRemoved ==
  ASSUME NEW r \in Record, NEW k \in DOMAIN r.rec, NEW i,
         NEW r2, r2.rec = RemoveAt(r.rec, k)
  PROVE  /\ Cardinality(Again(r, i)) \in Nat
         /\ Cardinality(Again(r2, i)) =
              IF r.rec[k] = i THEN Cardinality(Again(r, i)) - 1
              ELSE Cardinality(Again(r, i))
<1> DEFINE n == Len(r.rec)
           S == Again(r, i)
           T == Again(r2, i)
<1>1. n \in Nat /\ DOMAIN r.rec = 1 .. n /\ k \in 1 .. n /\ r.rec \in Seq(Index)
  BY LenProperties DEF Record
<1>2. /\ DOMAIN r2.rec = 1 .. n - 1
      /\ \A j \in 1 .. n - 1 : r2.rec[j] = IF j < k THEN r.rec[j] ELSE r.rec[j + 1]
  BY <1>1, Removed
<1>3. S \in SUBSET (1 .. n) /\ T \in SUBSET (1 .. n - 1)
  BY <1>1, <1>2 DEF Again
<1>4. T = Shifted(S, k, n)
  BY <1>1, <1>2 DEF Again, Shifted
<1>5. k \in S <=> r.rec[k] = i
  BY DEF Again
<1> HIDE DEF n, S, T
<1>6. /\ Cardinality(S) \in Nat
      /\ Cardinality(T) = IF k \in S THEN Cardinality(S) - 1 ELSE Cardinality(S)
  BY <1>1, <1>3, <1>4, CountRemoved
<1> QED
  BY <1>5, <1>6 DEF S, T

-----------------------------------------------------------------------------
\* The locks a record was told of are the first of those that are held
LEMMA ToldParts ==
  ASSUME NEW h \in Seq(Lock), NEW o \in Call, AskOK(h, o)
  PROVE  /\ Told(h, o.pc) \in Seq(Lock)
         /\ Len(Told(h, o.pc)) = IF o.pc \in After THEN Len(h) - 1 ELSE Len(h)
         /\ DOMAIN Told(h, o.pc) \subseteq DOMAIN h
         /\ \A k \in DOMAIN Told(h, o.pc) : Told(h, o.pc)[k] = h[k]
<1>1. CASE o.pc \notin After
  BY <1>1 DEF Told
<1>2. CASE o.pc \in After
  <2>1. h # <<>> /\ Told(h, o.pc) = SubSeq(h, 1, Len(h) - 1)
    BY <1>2 DEF Told, AskOK, Front
  <2>2. Len(h) \in Nat \ {0} /\ DOMAIN h = 1 .. Len(h)
    BY <2>1, EmptySeq, LenProperties
  <2>3. \A k \in 1 .. Len(h) - 1 : h[k] \in Lock
    BY <2>2, ElementOfSeq
  <2> DEFINE f == SubSeq(h, 1, Len(h) - 1)
  <2>4. /\ f \in Seq(Lock)
        /\ Len(f) = IF 1 <= Len(h) - 1 THEN Len(h) - 1 - 1 + 1 ELSE 0
        /\ \A k \in 1 .. Len(h) - 1 - 1 + 1 : f[k] = h[1 + k - 1]
    BY <2>2, <2>3, SubSeqProperties
  <2>5. Len(f) = Len(h) - 1 /\ DOMAIN f = 1 .. Len(h) - 1
    BY <2>2, <2>4, LenProperties
  <2>6. \A k \in 1 .. Len(h) - 1 : f[k] = h[k]
    BY <2>2, <2>4
  <2> QED
    BY <1>2, <2>1, <2>2, <2>4, <2>5, <2>6
<1> QED
  BY <1>1, <1>2

\* What another step keeps of what thread t goes by, if the epoch stays: the nodes
\* of its mutexes, that no other mutex has a node it has recorded, the edges
\* between them, and the history
Involved(h, o) == {h[k].m : k \in DOMAIN h} \cup {o.m}

Kept(r, h, o, ids, d, ns, ids2, d2, ns2) ==
  /\ d2.epoch = d.epoch
  /\ \A m \in Mutexes : m \in Involved(h, o) /\ InEpoch(d.epoch, ids[m]) => ids2[m] = ids[m]
  /\ \A m \in Mutexes, i \in r.bv : Has(ids2, d.epoch, m, i) => ids2[m] = ids[m]
  /\ \A m \in Mutexes, i \in r.bv :
       m \in Involved(h, o) /\ InEpoch(d.epoch, ids[m]) /\ <<i, NodeIndex(ids[m])>> \in d.g
       => <<i, NodeIndex(ids[m])>> \in d2.g
  /\ \A m \in Mutexes, i \in r.bv :
       Has(ids, d.epoch, m, i) /\ <<m, o.m>> \in ns => <<m, o.m>> \in ns2

LEMMA Framed ==
  ASSUME NEW r \in Record, NEW h \in Seq(Lock), NEW o \in Call, AskOK(h, o),
         NEW ids, NEW d, NEW ns, NEW ids2, NEW d2, NEW ns2,
         RecordOK(r, h, o, ids, d, ns), Kept(r, h, o, ids, d, ns, ids2, d2, ns2)
  PROVE  RecordOK(r, h, o, ids2, d2, ns2)
<1> DEFINE H == Told(h, o.pc)
           e == d.epoch
<1>1. \A k \in DOMAIN H : H[k].m \in Mutexes /\ H[k].m \in Involved(h, o)
  <2> SUFFICES ASSUME NEW k \in DOMAIN H
               PROVE  H[k].m \in Mutexes /\ H[k].m \in Involved(h, o)
    OBVIOUS
  <2>1. k \in DOMAIN h /\ H[k] = h[k]
    BY ToldParts
  <2>2. h[k] \in Lock
    BY <2>1, LenProperties, ElementOfSeq
  <2> QED
    BY <2>1, <2>2 DEF Lock, Involved
<1>2. o.pc # "idle" => o.m \in Mutexes
  BY DEF AskOK, Call
<1> HIDE DEF H
<1>3. \A k \in DOMAIN H, i \in r.bv : Has(ids2, e, H[k].m, i) <=> Has(ids, e, H[k].m, i)
  BY <1>1 DEF Has, Kept
<1>4. \A i \in r.bv : Holds(H, ids2, e, i) = Holds(H, ids, e, i)
  BY <1>3 DEF Holds
<1>5. \A i \in r.bv, q \in DOMAIN H : Later(H, ids2, e, i, q) = Later(H, ids, e, i, q)
  BY <1>4 DEF Later
<1>6. Counted(r, H, ids2, e)
  <2>1. Counted(r, H, ids, e)
    BY DEF RecordOK, H
  <2> QED
    BY <2>1, <1>4 DEF Counted
<1>7. Joined(r, H, ids2, e, d2.g)
  <2>1. Joined(r, H, ids, e, d.g)
    BY DEF RecordOK, H
  <2> SUFFICES ASSUME NEW q \in DOMAIN H, NEW i \in r.bv, ~ H[q].try, ~ Has(ids2, e, H[q].m, i)
               PROVE  \/ InEpoch(e, ids2[H[q].m]) /\ <<i, NodeIndex(ids2[H[q].m])>> \in d2.g
                      \/ Cardinality(Again(r, i)) < Cardinality(Later(H, ids2, e, i, q))
    BY DEF Joined
  <2>2. CASE Cardinality(Again(r, i)) < Cardinality(Later(H, ids, e, i, q))
    BY <2>2, <1>5
  <2>3. CASE InEpoch(e, ids[H[q].m]) /\ <<i, NodeIndex(ids[H[q].m])>> \in d.g
    BY <2>3, <1>1 DEF Kept
  <2> QED
    BY <2>1, <2>2, <2>3, <1>3 DEF Joined
<1>8. Asked(r, o, ids2, e, ns2)
  BY DEF RecordOK, Asked, Kept, Has
<1>9. Reading(r, o, ids2, e, d2.g)
  <2> SUFFICES ASSUME o.pc \in {"beforeEdges", "afterEdges"}
               PROVE  /\ o.node = ids2[o.m] /\ InEpoch(e, o.node)
                      /\ \A i \in r.bv \ o.todo : <<i, NodeIndex(o.node)>> \in d2.g
    BY DEF Reading
  <2>1. o.m \in Mutexes /\ o.m \in Involved(h, o)
    BY <1>2 DEF Involved
  <2>2. /\ o.node = ids[o.m] /\ InEpoch(e, o.node)
        /\ \A i \in r.bv \ o.todo : <<i, NodeIndex(o.node)>> \in d.g
    BY DEF RecordOK, Reading
  <2> QED
    BY <2>1, <2>2 DEF Kept
<1> QED
  BY <1>6, <1>7, <1>8, <1>9 DEF RecordOK, Kept, H

\* A lock that is recorded: one more of its node among the holds, and one more in
\* the record
LEMMA OneMore ==
  ASSUME NEW n \in Nat, NEW S \in SUBSET (1 .. n)
  PROVE  /\ Cardinality(S) \in Nat
         /\ Cardinality(S \cup {n + 1}) = Cardinality(S) + 1
<1>1. IsFiniteSet(1 .. n)
  BY FS_Interval
<1>2. IsFiniteSet(S)
  BY <1>1, FS_Subset
<1>3. n + 1 \notin S
  OBVIOUS
<1> QED
  BY <1>2, <1>3, FS_AddElement, FS_CardinalityType

LEMMA HoldsAdded ==
  ASSUME NEW h \in Seq(Lock), NEW x \in Lock, NEW ids, NEW e, NEW j
  PROVE  /\ Len(h) \in Nat /\ DOMAIN Append(h, x) = 1 .. Len(h) + 1
         /\ Append(h, x) \in Seq(Lock)
         /\ DOMAIN h = 1 .. Len(h)
         /\ \A k \in 1 .. Len(h) : Append(h, x)[k] = h[k]
         /\ Append(h, x)[Len(h) + 1] = x
         /\ Cardinality(Holds(h, ids, e, j)) \in Nat
         /\ Cardinality(Holds(Append(h, x), ids, e, j)) =
              IF Has(ids, e, x.m, j) THEN Cardinality(Holds(h, ids, e, j)) + 1
              ELSE Cardinality(Holds(h, ids, e, j))
<1> DEFINE n == Len(h)
           H == Append(h, x)
<1>1. n \in Nat /\ DOMAIN h = 1 .. n
  BY LenProperties
<1>2. /\ H \in Seq(Lock) /\ DOMAIN H = 1 .. n + 1
      /\ \A k \in 1 .. n : H[k] = h[k]
      /\ H[n + 1] = x
  <2>1. /\ H \in Seq(Lock) /\ Len(H) = n + 1
        /\ \A k \in 1 .. n : H[k] = h[k]
        /\ H[n + 1] = x
    BY <1>1, AppendProperties
  <2> QED
    BY <2>1, LenProperties
<1> HIDE DEF n, H
<1>3. /\ Holds(h, ids, e, j) \in SUBSET (1 .. n)
      /\ Holds(H, ids, e, j) = IF Has(ids, e, x.m, j) THEN Holds(h, ids, e, j) \cup {n + 1}
                               ELSE Holds(h, ids, e, j)
  BY <1>1, <1>2 DEF Holds
<1>4. /\ Cardinality(Holds(h, ids, e, j)) \in Nat
      /\ Cardinality(Holds(H, ids, e, j)) =
           IF Has(ids, e, x.m, j) THEN Cardinality(Holds(h, ids, e, j)) + 1
           ELSE Cardinality(Holds(h, ids, e, j))
  BY <1>1, <1>3, OneMore
<1> QED
  BY <1>1, <1>2, <1>4 DEF n, H

LEMMA LaterAdded ==
  ASSUME NEW h \in Seq(Lock), NEW x \in Lock, NEW ids, NEW e, NEW j, NEW q \in 1 .. Len(h)
  PROVE  /\ Cardinality(Later(h, ids, e, j, q)) \in Nat
         /\ Cardinality(Later(Append(h, x), ids, e, j, q)) =
              IF Has(ids, e, x.m, j) THEN Cardinality(Later(h, ids, e, j, q)) + 1
              ELSE Cardinality(Later(h, ids, e, j, q))
<1> DEFINE n == Len(h)
           H == Append(h, x)
<1>1. /\ n \in Nat /\ DOMAIN h = 1 .. n
      /\ DOMAIN H = 1 .. n + 1
      /\ \A k \in 1 .. n : H[k] = h[k]
      /\ H[n + 1] = x
  BY HoldsAdded
<1>2. q \in 1 .. n /\ q < n + 1
  BY <1>1
<1> HIDE DEF n, H
<1>3. /\ Later(h, ids, e, j, q) \in SUBSET (1 .. n)
      /\ Later(H, ids, e, j, q) =
           IF Has(ids, e, x.m, j) THEN Later(h, ids, e, j, q) \cup {n + 1}
           ELSE Later(h, ids, e, j, q)
  BY <1>1, <1>2 DEF Later, Holds
<1>4. /\ Cardinality(Later(h, ids, e, j, q)) \in Nat
      /\ Cardinality(Later(H, ids, e, j, q)) =
           IF Has(ids, e, x.m, j) THEN Cardinality(Later(h, ids, e, j, q)) + 1
           ELSE Cardinality(Later(h, ids, e, j, q))
  BY <1>1, <1>3, OneMore
<1> QED
  BY <1>4 DEF H

LEMMA AgainAdded ==
  ASSUME NEW r \in Record, NEW i \in Index, NEW j
  PROVE  /\ Cardinality(Again(r, j)) \in Nat
         /\ Cardinality(Again([r EXCEPT !.rec = Append(@, i)], j)) =
              IF j = i THEN Cardinality(Again(r, j)) + 1 ELSE Cardinality(Again(r, j))
<1> DEFINE s == [r EXCEPT !.rec = Append(@, i)]
           n == Len(r.rec)
<1>1. r.rec \in Seq(Index) /\ s.rec = Append(r.rec, i)
  BY DEF Record
<1>2. n \in Nat /\ DOMAIN r.rec = 1 .. n
  BY <1>1, LenProperties
<1>3. /\ DOMAIN s.rec = 1 .. n + 1
      /\ \A k \in 1 .. n : s.rec[k] = r.rec[k]
      /\ s.rec[n + 1] = i
  <2>1. /\ s.rec \in Seq(Index) /\ Len(s.rec) = n + 1
        /\ \A k \in 1 .. n : s.rec[k] = r.rec[k]
        /\ s.rec[n + 1] = i
    BY <1>1, <1>2, AppendProperties
  <2> QED
    BY <2>1, LenProperties
<1> HIDE DEF s, n
<1>4. /\ Again(r, j) \in SUBSET (1 .. n)
      /\ Again(s, j) = IF j = i THEN Again(r, j) \cup {n + 1} ELSE Again(r, j)
  BY <1>2, <1>3 DEF Again
<1>5. /\ Cardinality(Again(r, j)) \in Nat
      /\ Cardinality(Again(s, j)) =
           IF j = i THEN Cardinality(Again(r, j)) + 1 ELSE Cardinality(Again(r, j))
  BY <1>2, <1>4, OneMore
<1> QED
  BY <1>5 DEF s

LEMMA Taken ==
  ASSUME NEW r \in Record, NEW h \in Seq(Lock), NEW x \in Lock, NEW ids, NEW e, NEW g,
         NEW i \in Index, Has(ids, e, x.m, i),
         Counted(r, h, ids, e), Joined(r, h, ids, e, g),
         ~ x.try => \A j \in r.bv \ {i} : <<j, i>> \in g
  PROVE  /\ AddLock(r, i) \in Record /\ AddLock(r, i).epoch = r.epoch
         /\ AddLock(r, i).bv = r.bv \cup {i}
         /\ Counted(AddLock(r, i), Append(h, x), ids, e)
         /\ Joined(AddLock(r, i), Append(h, x), ids, e, g)
<1> DEFINE s == AddLock(r, i)
           H == Append(h, x)
           n == Len(h)
           A(j) == Cardinality(Again(r, j))
           B(j) == Cardinality(Holds(h, ids, e, j))
           C(j, q) == Cardinality(Later(h, ids, e, j, q))
<1>1. /\ n \in Nat /\ DOMAIN H = 1 .. n + 1 /\ DOMAIN h = 1 .. n
      /\ \A k \in 1 .. n : H[k] = h[k]
      /\ H[n + 1] = x
  BY HoldsAdded
<1>2. /\ s \in Record /\ s.epoch = r.epoch /\ s.bv = r.bv \cup {i}
      /\ s.rec = IF i \in r.bv THEN Append(r.rec, i) ELSE r.rec
  <2>1. r.bv \in SUBSET Index /\ r.rec \in Seq(Index)
    BY DEF Record
  <2>2. Append(r.rec, i) \in Seq(Index)
    BY <2>1, AppendProperties
  <2> QED
    BY <2>1, <2>2 DEF AddLock, Record
<1>3. \A j : Has(ids, e, x.m, j) <=> j = i
  BY DEF Has
<1>4. \A j : /\ B(j) \in Nat
             /\ Cardinality(Holds(H, ids, e, j)) = IF j = i THEN B(j) + 1 ELSE B(j)
  BY <1>3, HoldsAdded
<1>5. \A j : \A q \in 1 .. n :
        /\ C(j, q) \in Nat
        /\ Cardinality(Later(H, ids, e, j, q)) = IF j = i THEN C(j, q) + 1 ELSE C(j, q)
  <2> TAKE j
  <2>1. \A q \in 1 .. n :
          /\ C(j, q) \in Nat
          /\ Cardinality(Later(H, ids, e, j, q)) =
               IF Has(ids, e, x.m, j) THEN C(j, q) + 1 ELSE C(j, q)
    <3> TAKE q \in 1 .. n
    <3> QED
      BY LaterAdded
  <2> QED
    BY <2>1, <1>3
<1>6. \A j : /\ A(j) \in Nat
             /\ Cardinality(Again(s, j)) = IF j = i /\ i \in r.bv THEN A(j) + 1 ELSE A(j)
  <2> TAKE j
  <2>1. A(j) \in Nat
    BY AgainAdded
  <2>2. CASE i \in r.bv
    <3>1. s = [r EXCEPT !.rec = Append(@, i)]
      BY <2>2 DEF AddLock
    <3>2. Cardinality(Again([r EXCEPT !.rec = Append(@, i)], j)) =
            IF j = i THEN A(j) + 1 ELSE A(j)
      BY AgainAdded
    <3> QED
      BY <2>1, <2>2, <3>1, <3>2
  <2>3. CASE i \notin r.bv
    <3>1. Again(s, j) = Again(r, j)
      BY <2>3, <1>2 DEF Again
    <3> QED
      BY <2>1, <2>3, <3>1
  <2> QED
    BY <2>2, <2>3
<1>7. i \notin r.bv => A(i) = 0
  <2>1. i \notin r.bv => Again(r, i) = {}
    BY DEF Counted, Again
  <2> QED
    BY <2>1, FS_EmptySet
<1>8. /\ \A j \in r.bv : A(j) < B(j)
      /\ \A k \in DOMAIN r.rec : r.rec[k] \in r.bv
  BY DEF Counted
<1>9. \A q \in 1 .. n, j \in r.bv : ~ h[q].try /\ ~ Has(ids, e, h[q].m, j) =>
        \/ InEpoch(e, ids[h[q].m]) /\ <<j, NodeIndex(ids[h[q].m])>> \in g
        \/ A(j) < C(j, q)
  BY <1>1 DEF Joined
<1> HIDE DEF s, H, n, A, B, C
<1>10. Counted(s, H, ids, e)
  <2>1. \A k \in DOMAIN s.rec : s.rec[k] \in s.bv
    <3>1. CASE i \in r.bv
      <4>1. r.rec \in Seq(Index) /\ Len(r.rec) \in Nat /\ DOMAIN r.rec = 1 .. Len(r.rec)
        BY LenProperties DEF Record
      <4>2. /\ Append(r.rec, i) \in Seq(Index) /\ Len(Append(r.rec, i)) = Len(r.rec) + 1
            /\ \A k \in 1 .. Len(r.rec) : Append(r.rec, i)[k] = r.rec[k]
            /\ Append(r.rec, i)[Len(r.rec) + 1] = i
        BY <4>1, AppendProperties
      <4>3. DOMAIN Append(r.rec, i) = 1 .. Len(r.rec) + 1
        BY <4>2, LenProperties
      <4> QED
        BY <3>1, <4>1, <4>2, <4>3, <1>2, <1>8
    <3>2. CASE i \notin r.bv
      BY <3>2, <1>2, <1>8
    <3> QED
      BY <3>1, <3>2
  <2>2. \A j \in s.bv : Cardinality(Again(s, j)) < Cardinality(Holds(H, ids, e, j))
    <3> TAKE j \in s.bv
    <3>1. CASE j \in r.bv
      <4>1. A(j) < B(j)
        BY <3>1, <1>8
      <4> QED
        BY <4>1, <3>1, <1>4, <1>6
    <3>2. CASE j \notin r.bv
      <4>1. j = i /\ A(j) = 0
        BY <3>2, <1>2, <1>7
      <4> QED
        BY <4>1, <3>2, <1>4, <1>6
    <3> QED
      BY <3>1, <3>2
  <2> QED
    BY <2>1, <2>2 DEF Counted
<1>11. Joined(s, H, ids, e, g)
  <2> SUFFICES ASSUME NEW q \in 1 .. n + 1, NEW j \in s.bv,
                      ~ H[q].try, ~ Has(ids, e, H[q].m, j)
               PROVE  \/ InEpoch(e, ids[H[q].m]) /\ <<j, NodeIndex(ids[H[q].m])>> \in g
                      \/ Cardinality(Again(s, j)) < Cardinality(Later(H, ids, e, j, q))
    BY <1>1 DEF Joined
  <2>1. CASE q = n + 1
    <3>1. H[q] = x /\ j # i /\ j \in r.bv \ {i}
      BY <2>1, <1>1, <1>2, <1>3
    <3>2. InEpoch(e, ids[x.m]) /\ NodeIndex(ids[x.m]) = i
      BY DEF Has
    <3> QED
      BY <3>1, <3>2
  <2>2. CASE q # n + 1
    <3>1. q \in 1 .. n /\ H[q] = h[q]
      BY <2>2, <1>1
    <3>2. CASE j \in r.bv
      <4>1. CASE A(j) < C(j, q)
        <5>1. Cardinality(Again(s, j)) <= A(j) + (IF j = i THEN 1 ELSE 0)
          BY <1>6
        <5> QED
          BY <4>1, <5>1, <3>1, <1>5, <1>6
      <4>2. CASE InEpoch(e, ids[h[q].m]) /\ <<j, NodeIndex(ids[h[q].m])>> \in g
        BY <4>2, <3>1
      <4> QED
        BY <4>1, <4>2, <3>1, <3>2, <1>9
    <3>3. CASE j \notin r.bv
      <4>1. j = i /\ A(j) = 0
        BY <3>3, <1>2, <1>7
      <4> QED
        BY <4>1, <3>1, <3>3, <1>5, <1>6
    <3> QED
      BY <3>2, <3>3
  <2> QED
    BY <2>1, <2>2
<1> QED
  BY <1>2, <1>10, <1>11 DEF s, H

\* A lock that is released: one less of its node among the holds, and one less in
\* the record if there is any
LEMMA OneLess ==
  ASSUME NEW r \in Record, NEW s, NEW h \in Seq(Lock), NEW k \in DOMAIN h,
         NEW ids, NEW e, NEW g,
         Counted(r, h, ids, e), Joined(r, h, ids, e, g),
         \A j \in DOMAIN s.rec : s.rec[j] \in s.bv,
         \A i \in s.bv :
           /\ i \in r.bv
           /\ Cardinality(Again(s, i)) = IF k \in Holds(h, ids, e, i)
                THEN Cardinality(Again(r, i)) - 1 ELSE Cardinality(Again(r, i))
  PROVE  /\ Counted(s, RemoveAt(h, k), ids, e)
         /\ Joined(s, RemoveAt(h, k), ids, e, g)
<1> DEFINE G == RemoveAt(h, k)
           n == Len(h)
<1>1. n \in Nat /\ DOMAIN h = 1 .. n /\ k \in 1 .. n
  BY LenProperties
<1>2. /\ DOMAIN G = 1 .. n - 1
      /\ \A j \in 1 .. n - 1 : G[j] = IF j < k THEN h[j] ELSE h[j + 1]
  BY Removed
<1>3. \A i : Cardinality(Again(r, i)) \in Nat
  BY AgainFinite
<1>4. ASSUME NEW i \in s.bv
      PROVE  Cardinality(Again(s, i)) < Cardinality(Holds(G, ids, e, i))
  <2>1. Cardinality(Again(r, i)) < Cardinality(Holds(h, ids, e, i))
    BY DEF Counted
  <2>2. /\ Cardinality(Holds(h, ids, e, i)) \in Nat
        /\ Cardinality(Holds(G, ids, e, i)) =
             IF k \in Holds(h, ids, e, i) THEN Cardinality(Holds(h, ids, e, i)) - 1
             ELSE Cardinality(Holds(h, ids, e, i))
    BY HoldsRemoved
  <2> HIDE DEF G
  <2> QED
    BY <1>3, <2>1, <2>2
<1>5. ASSUME NEW p \in 1 .. n - 1, NEW i \in s.bv, ~ G[p].try, ~ Has(ids, e, G[p].m, i)
      PROVE  \/ InEpoch(e, ids[G[p].m]) /\ <<i, NodeIndex(ids[G[p].m])>> \in g
             \/ Cardinality(Again(s, i)) < Cardinality(Later(G, ids, e, i, p))
  <2> DEFINE q == IF p < k THEN p ELSE p + 1
  <2>1. q \in DOMAIN h /\ G[p] = h[q]
    BY <1>1, <1>2
  <2>0. q = IF p < k THEN p ELSE p + 1
    OBVIOUS
  <2> HIDE DEF q
  <2>2. /\ Cardinality(Later(h, ids, e, i, q)) \in Nat
        /\ Cardinality(Later(G, ids, e, i, p)) =
             IF k \in Later(h, ids, e, i, q) THEN Cardinality(Later(h, ids, e, i, q)) - 1
             ELSE Cardinality(Later(h, ids, e, i, q))
    BY <2>0, LaterRemoved
  <2>3. k \in Later(h, ids, e, i, q) => k \in Holds(h, ids, e, i)
    BY DEF Later
  <2> HIDE DEF G
  <2>4. \/ InEpoch(e, ids[h[q].m]) /\ <<i, NodeIndex(ids[h[q].m])>> \in g
        \/ Cardinality(Again(r, i)) < Cardinality(Later(h, ids, e, i, q))
    BY <1>5, <2>1 DEF Joined
  <2>5. CASE InEpoch(e, ids[h[q].m]) /\ <<i, NodeIndex(ids[h[q].m])>> \in g
    BY <2>1, <2>5
  <2>6. CASE Cardinality(Again(r, i)) < Cardinality(Later(h, ids, e, i, q))
    BY <1>3, <2>2, <2>3, <2>6
  <2> QED
    BY <2>4, <2>5, <2>6
<1> HIDE DEF G
<1>6. Counted(s, G, ids, e)
  BY <1>4 DEF Counted
<1>7. Joined(s, G, ids, e, g)
  BY <1>2, <1>5 DEF Joined
<1> QED
  BY <1>6, <1>7 DEF G

LEMMA Dropped ==
  ASSUME NEW r \in Record, NEW h \in Seq(Lock), NEW k \in DOMAIN h,
         NEW ids \in [Mutexes -> Nat], NEW g,
         \A m \in Mutexes : ids[m] # 0 => NodeEpoch(ids[m]) # 0,
         Counted(r, h, ids, r.epoch), Joined(r, h, ids, r.epoch, g)
  PROVE  /\ Counted(OnUnlock(r, ids[h[k].m]), RemoveAt(h, k), ids, r.epoch)
         /\ Joined(OnUnlock(r, ids[h[k].m]), RemoveAt(h, k), ids, r.epoch, g)
<1> DEFINE m == h[k].m
           e == r.epoch
           i == NodeIndex(ids[m])
           s == OnUnlock(r, ids[m])
<1>1. m \in Mutexes /\ ids[m] \in Nat
  <2>1. h[k] \in Lock
    BY LenProperties, ElementOfSeq
  <2> QED
    BY <2>1 DEF Lock
<1>2. \A j : k \in Holds(h, ids, e, j) <=> InEpoch(e, ids[m]) /\ j = i
  BY DEF Holds, Has
<1>3. /\ r.bv \in SUBSET Index /\ r.rec \in Seq(Index)
      /\ Len(r.rec) \in Nat /\ DOMAIN r.rec = 1 .. Len(r.rec)
      /\ \A j \in DOMAIN r.rec : r.rec[j] \in r.bv
  BY LenProperties DEF Record, Counted
<1>4. CASE InEpoch(e, ids[m]) /\ \E j \in DOMAIN r.rec : r.rec[j] = i
  <2>1. s = [r EXCEPT !.rec = RemoveFirst(@, i)]
    BY <1>4 DEF OnUnlock, RemoveLock, InEpoch
  <2>2. PICK j \in DOMAIN r.rec : r.rec[j] = i /\ RemoveFirst(r.rec, i) = RemoveAt(r.rec, j)
    BY <1>3, <1>4, FirstRemoved
  <2>3. s.bv = r.bv /\ s.rec = RemoveAt(r.rec, j)
    BY <2>1, <2>2 DEF Record
  <2> HIDE DEF s, i, m
  <2>4. \A x \in s.bv : Cardinality(Again(s, x)) = IF k \in Holds(h, ids, e, x)
          THEN Cardinality(Again(r, x)) - 1 ELSE Cardinality(Again(r, x))
    BY <1>2, <1>4, <2>2, <2>3, AgainRemoved
  <2>5. \A x \in DOMAIN s.rec : s.rec[x] \in s.bv
    <3>1. /\ DOMAIN RemoveAt(r.rec, j) = 1 .. Len(r.rec) - 1
          /\ \A x \in 1 .. Len(r.rec) - 1 :
               RemoveAt(r.rec, j)[x] = IF x < j THEN r.rec[x] ELSE r.rec[x + 1]
      BY <1>3, Removed
    <3> TAKE x \in DOMAIN s.rec
    <3>2. x \in 1 .. Len(r.rec) - 1
      BY <2>3, <3>1
    <3>3. PICK y \in DOMAIN r.rec : s.rec[x] = r.rec[y]
      <4> DEFINE y == IF x < j THEN x ELSE x + 1
      <4>1. y \in DOMAIN r.rec /\ j \in Int
        BY <1>3, <3>2
      <4>2. s.rec[x] = r.rec[y]
        BY <2>3, <3>1, <3>2
      <4> QED
        BY <4>1, <4>2
    <3> QED
      BY <1>3, <2>3, <3>3
  <2>6. Counted(s, RemoveAt(h, k), ids, e) /\ Joined(s, RemoveAt(h, k), ids, e, g)
    BY <2>3, <2>4, <2>5, OneLess
  <2> QED
    BY <2>6 DEF s, m
<1>5. CASE InEpoch(e, ids[m]) /\ ~ \E j \in DOMAIN r.rec : r.rec[j] = i
  <2>1. s = [r EXCEPT !.bv = @ \ {i}]
    BY <1>5 DEF OnUnlock, RemoveLock, InEpoch
  <2>2. s.bv = r.bv \ {i} /\ s.rec = r.rec
    BY <2>1 DEF Record
  <2> HIDE DEF s, i, m
  <2>3. \A x \in s.bv : Cardinality(Again(s, x)) = IF k \in Holds(h, ids, e, x)
          THEN Cardinality(Again(r, x)) - 1 ELSE Cardinality(Again(r, x))
    BY <1>2, <2>2 DEF Again
  <2>4. \A x \in DOMAIN s.rec : s.rec[x] \in s.bv
    BY <1>3, <1>5, <2>2
  <2>5. Counted(s, RemoveAt(h, k), ids, e) /\ Joined(s, RemoveAt(h, k), ids, e, g)
    BY <2>2, <2>3, <2>4, OneLess
  <2> QED
    BY <2>5 DEF s, m
<1>6. CASE ~ InEpoch(e, ids[m])
  <2>1. s.rec = r.rec /\ s.bv = r.bv
    <3>1. CASE e # NodeEpoch(ids[m])
      BY <3>1 DEF OnUnlock
    <3>2. CASE e = NodeEpoch(ids[m])
      <4>0. NodeEpoch(0) = 0
        BY NodesAssumption, NodeParts DEF Multiple, Index
      <4>1. ids[m] = 0 /\ e = 0
        BY <1>6, <3>2, <4>0 DEF InEpoch
      <4>2. \A j \in DOMAIN h : ids[h[j].m] # 0 => NodeEpoch(ids[h[j].m]) # 0
        <5> TAKE j \in DOMAIN h
        <5>1. h[j] \in Lock
          BY LenProperties, ElementOfSeq
        <5> QED
          BY <5>1 DEF Lock
      <4>3. \A j : Holds(h, ids, e, j) = {}
        BY <4>1, <4>2 DEF Holds, Has, InEpoch
      <4>4. \A j : Cardinality(Again(r, j)) \in Nat
        BY AgainFinite
      <4>5. r.bv = {}
        BY <4>3, <4>4, FS_EmptySet DEF Counted
      <4>6. ~ \E j \in DOMAIN r.rec : r.rec[j] = i
        BY <4>5, <1>3
      <4>7. s = [r EXCEPT !.bv = @ \ {i}]
        BY <3>2, <4>6 DEF OnUnlock, RemoveLock
      <4> QED
        BY <4>5, <4>7 DEF Record
    <3> QED
      BY <3>1, <3>2
  <2> HIDE DEF s, i, m
  <2>2. \A x \in s.bv : Cardinality(Again(s, x)) = IF k \in Holds(h, ids, e, x)
          THEN Cardinality(Again(r, x)) - 1 ELSE Cardinality(Again(r, x))
    BY <1>2, <1>6, <2>1 DEF Again
  <2>3. Counted(s, RemoveAt(h, k), ids, e) /\ Joined(s, RemoveAt(h, k), ids, e, g)
    BY <1>3, <2>1, <2>2, OneLess
  <2> QED
    BY <2>3 DEF s, m
<1> QED
  BY <1>4, <1>5, <1>6

-----------------------------------------------------------------------------
\* The detector that has a vacant node, and the one that has given it away
LEMMA Vacant ==
  ASSUME DetectorInv
  PROVE  LET d == WithNodes(dd)
         IN  /\ d \in Detector /\ d.available # {} /\ d.available \cap d.recycled = {}
             /\ Multiple(d.epoch) /\ d.epoch # 0
             /\ d.epoch = dd.epoch \/ d.epoch > dd.epoch
             /\ NodesOK(id, d) /\ EdgesOK(id, d, NestedIn(d.epoch))
             /\ d.epoch = dd.epoch =>
                  \A a, b \in Index, m \in Mutexes :
                    <<a, b>> \in dd.g /\ Has(id, dd.epoch, m, b) => <<a, b>> \in d.g
<1> DEFINE d == WithNodes(dd)
<1>1. /\ dd \in Detector /\ dd.epoch \in Nat /\ dd.available \subseteq Index
      /\ dd.recycled \subseteq Index /\ dd.g \subseteq Index \X Index
  BY DEF DetectorInv, TypeInv, Detector
<1>2. /\ Multiple(dd.epoch) /\ dd.available \cap dd.recycled = {}
      /\ dd.epoch = 0 => dd.available = {} /\ dd.recycled = {}
  BY DEF DetectorInv, EpochOK
<1>3. CASE dd.available # {}
  <2>1. d = dd
    BY <1>3 DEF WithNodes
  <2>2. NestedIn(dd.epoch) = nested
    BY DEF NestedIn
  <2> HIDE DEF d
  <2>3. /\ d \in Detector /\ d.available # {} /\ Multiple(d.epoch) /\ d.epoch # 0
        /\ d.available \cap d.recycled = {}
        /\ d.epoch = dd.epoch /\ d.g = dd.g
        /\ NodesOK(id, d) /\ EdgesOK(id, d, NestedIn(d.epoch))
    BY <1>1, <1>2, <1>3, <2>1, <2>2 DEF DetectorInv
  <2> QED
    BY <2>3 DEF d
<1>4. CASE dd.available = {} /\ dd.recycled # {}
  <2>1. d = RecycleNodes(dd)
    BY <1>4 DEF WithNodes
  <2>2. /\ d \in Detector /\ d.available = dd.recycled /\ d.recycled = {}
        /\ d.g = {e \in dd.g : e[2] \notin dd.recycled} /\ d.epoch = dd.epoch
    BY <1>1, <2>1 DEF RecycleNodes, Detector
  <2>3. NestedIn(dd.epoch) = nested
    BY DEF NestedIn
  <2> HIDE DEF d
  <2>4. NodesOK(id, d)
    BY <2>2 DEF NodesOK, DetectorInv
  <2>5. EdgesOK(id, d, nested)
    <3> SUFFICES ASSUME NEW a \in Index, NEW b \in Index, <<a, b>> \in d.g
                 PROVE  /\ a \notin d.available /\ a \notin d.recycled /\ b \notin d.available
                        /\ \A m, n \in Mutexes :
                             Has(id, d.epoch, m, a) /\ Has(id, d.epoch, n, b) => <<m, n>> \in nested
      BY DEF EdgesOK
    <3>1. <<a, b>> \in dd.g /\ b \notin dd.recycled
      BY <2>2
    <3> QED
      BY <3>1, <2>2 DEF EdgesOK, DetectorInv
  <2>6. ASSUME NEW a \in Index, NEW b \in Index, NEW m \in Mutexes,
               <<a, b>> \in dd.g, Has(id, dd.epoch, m, b)
        PROVE  <<a, b>> \in d.g
    <3>1. b \notin dd.recycled
      BY <2>6 DEF NodesOK, DetectorInv
    <3> QED
      BY <2>2, <2>6, <3>1
  <2>7. d.available # {} /\ Multiple(d.epoch) /\ d.epoch # 0
    BY <1>2, <1>4, <2>2
  <2> QED
    BY <2>2, <2>3, <2>4, <2>5, <2>6, <2>7 DEF d
<1>5. CASE dd.available = {} /\ dd.recycled = {}
  <2>1. d = Flush(dd)
    BY <1>5 DEF WithNodes
  <2>2. kSize \in Nat \ {0} /\ 0 \in Index
    BY NodesAssumption DEF Index
  <2>3. /\ d \in Detector /\ d.available = Index /\ d.recycled = {}
        /\ d.g = {} /\ d.epoch = dd.epoch + kSize
    <3>1. dd.epoch + kSize \in Nat /\ Index \in SUBSET Index /\ {} \in SUBSET (Index \X Index)
      BY <1>1, <2>2
    <3>2. [dd EXCEPT !.epoch = @ + kSize, !.recycled = {}, !.available = Index, !.g = {}]
            \in Detector
      BY <1>1, <3>1 DEF Detector
    <3> QED
      BY <1>1, <2>1, <3>2 DEF Flush, Detector
  <2> HIDE DEF d
  <2>4. Multiple(d.epoch) /\ d.epoch > dd.epoch /\ d.epoch \in Nat
    BY <1>1, <1>2, <2>3, <2>2, NextEpoch
  <2>5. \A m \in Mutexes, i \in Index : ~ Has(id, d.epoch, m, i)
    <3> SUFFICES ASSUME NEW m \in Mutexes PROVE NodeEpoch(id[m]) # d.epoch
      BY DEF Has, InEpoch
    <3>1. NodeEpoch(id[m]) <= dd.epoch /\ id[m] \in Nat
      BY DEF DetectorInv, EpochOK, TypeInv
    <3>2. NodeEpoch(id[m]) \in Nat
      BY <3>1, NodeParts DEF Multiple
    <3> QED
      BY <1>1, <2>4, <3>1, <3>2
  <2>6. NodesOK(id, d)
    BY <2>5 DEF NodesOK
  <2>7. EdgesOK(id, d, NestedIn(d.epoch))
    BY <2>3 DEF EdgesOK
  <2>8. d.epoch # 0 /\ d.epoch # dd.epoch /\ d.available # {}
    BY <1>1, <2>2, <2>3, <2>4
  <2> QED
    BY <2>3, <2>4, <2>6, <2>7, <2>8 DEF d
<1> QED
  BY <1>3, <1>4, <1>5

LEMMA Ensured ==
  ASSUME DetectorInv, NEW m \in Mutexes
  PROVE  LET d == EnsureDD(m)
             ids == [id EXCEPT ![m] = EnsureNode(m)]
         IN  /\ d \in Detector /\ EnsureNode(m) \in Nat
             /\ InEpoch(d.epoch, EnsureNode(m)) /\ NodeIndex(EnsureNode(m)) \in Index
             /\ d.epoch # 0
             /\ EpochOK(ids, d)
             /\ d.epoch = dd.epoch \/ d.epoch > dd.epoch
             /\ NodesOK(ids, d) /\ EdgesOK(ids, d, NestedIn(d.epoch))
             /\ d.epoch = dd.epoch =>
                  /\ \A x \in Mutexes : InEpoch(d.epoch, id[x]) => ids[x] = id[x]
                  /\ \A x \in Mutexes, i \in Index : Has(ids, d.epoch, x, i) =>
                       ids[x] = id[x] \/ \A y \in Mutexes : ~ Has(id, d.epoch, y, i)
                  /\ \A a, b \in Index, x \in Mutexes :
                       <<a, b>> \in dd.g /\ Has(id, d.epoch, x, b) => <<a, b>> \in d.g
<1> DEFINE d == EnsureDD(m)
           n == EnsureNode(m)
           ids == [id EXCEPT ![m] = n]
<1>1. id \in [Mutexes -> Nat] /\ dd \in Detector
  BY DEF DetectorInv, TypeInv
<1>2. CASE NodeBelongsToCurrentEpoch(id[m])
  <2>1. d = dd /\ n = id[m]
    BY <1>2 DEF EnsureDD, EnsureNode
  <2> HIDE DEF d, n
  <2>2. ids = id
    BY <1>1, <2>1
  <2>3. NestedIn(dd.epoch) = nested
    BY DEF NestedIn
  <2>4. InEpoch(dd.epoch, id[m]) /\ id[m] \in Nat
    BY <1>1, <1>2 DEF NodeBelongsToCurrentEpoch, InEpoch
  <2>5. NodeIndex(id[m]) \in Index
    BY <2>4, NodeParts
  <2>6. Multiple(dd.epoch) /\ dd.epoch # 0 /\ dd.available \cap dd.recycled = {}
    BY <2>4 DEF DetectorInv, EpochOK, InEpoch
  <2> HIDE DEF ids
  <2> QED
    BY <1>1, <2>1, <2>2, <2>3, <2>4, <2>5, <2>6 DEF d, n, ids, DetectorInv
<1>3. CASE ~ NodeBelongsToCurrentEpoch(id[m])
  <2> DEFINE w == WithNodes(dd)
             i == Min(w.available)
  <2>1. d = [w EXCEPT !.available = @ \ {i}] /\ n = d.epoch + i
    BY <1>3 DEF EnsureDD, EnsureNode
  <2>2. /\ w \in Detector /\ w.available # {} /\ w.available \cap w.recycled = {}
        /\ Multiple(w.epoch) /\ w.epoch # 0
        /\ w.epoch = dd.epoch \/ w.epoch > dd.epoch
        /\ NodesOK(id, w) /\ EdgesOK(id, w, NestedIn(w.epoch))
        /\ w.epoch = dd.epoch =>
             \A a, b \in Index, x \in Mutexes :
               <<a, b>> \in dd.g /\ Has(id, dd.epoch, x, b) => <<a, b>> \in w.g
    BY Vacant
  <2> HIDE DEF w, d, n
  <2>3. /\ d \in Detector /\ d.available = w.available \ {i} /\ d.recycled = w.recycled
        /\ d.g = w.g /\ d.epoch = w.epoch
    BY <2>1, <2>2 DEF Detector
  <2>4. i \in w.available /\ i \in Index
    <3>1. w.available \in SUBSET Nat /\ w.available \subseteq Index
      BY <2>2 DEF Detector, Index
    <3> QED
      BY <3>1, <2>2, Smallest
  <2> HIDE DEF i
  <2>5. n \in Nat /\ InEpoch(d.epoch, n) /\ NodeIndex(n) = i
    <3>1. n \in Nat /\ NodeEpoch(n) = d.epoch /\ NodeIndex(n) = i
      BY <2>1, <2>2, <2>3, <2>4, NodeSum
    <3>2. n # 0
      BY <2>1, <2>2, <2>3, <2>4 DEF Index, Multiple
    <3> QED
      BY <3>1, <3>2 DEF InEpoch
  <2>6. ~ InEpoch(d.epoch, id[m])
    <3>1. CASE w.epoch = dd.epoch
      BY <3>1, <1>3, <2>3 DEF InEpoch, NodeBelongsToCurrentEpoch
    <3>2. CASE w.epoch > dd.epoch
      <4>1. NodeEpoch(id[m]) <= dd.epoch /\ NodeEpoch(id[m]) \in Nat
        BY <1>1, NodeParts DEF DetectorInv, EpochOK, Multiple
      <4> QED
        BY <4>1, <3>2, <2>3, <1>1, <2>2 DEF InEpoch, Detector
    <3> QED
      BY <2>2, <3>1, <3>2
  <2>7. \A x \in Mutexes : ids[x] = IF x = m THEN n ELSE id[x]
    BY <1>1
  <2> HIDE DEF ids
  <2>8. \A x \in Mutexes, j \in Index :
          Has(ids, d.epoch, x, j) <=> IF x = m THEN j = i ELSE Has(id, d.epoch, x, j)
    BY <2>5, <2>7 DEF Has
  <2>9. \A x \in Mutexes : ~ Has(id, d.epoch, x, i)
    BY <2>2, <2>3, <2>4 DEF NodesOK
  <2>10. NodesOK(ids, d)
    <3> SUFFICES ASSUME NEW x \in Mutexes, NEW j \in Index, Has(ids, d.epoch, x, j)
                 PROVE  /\ j \notin d.available /\ j \notin d.recycled
                        /\ \A y \in Mutexes : Has(ids, d.epoch, y, j) => y = x
      BY DEF NodesOK
    <3>1. CASE x = m
      <4>1. j = i
        BY <3>1, <2>8
      <4>2. i \notin d.recycled
        BY <2>2, <2>3, <2>4
      <4> QED
        BY <4>1, <4>2, <3>1, <2>3, <2>8, <2>9
    <3>2. CASE x # m
      <4>1. Has(id, d.epoch, x, j) /\ j # i
        BY <3>2, <2>8, <2>9
      <4> QED
        BY <4>1, <3>2, <2>2, <2>3, <2>8 DEF NodesOK
    <3> QED
      BY <3>1, <3>2
  <2>11. EdgesOK(ids, d, NestedIn(d.epoch))
    <3> SUFFICES ASSUME NEW a \in Index, NEW b \in Index, <<a, b>> \in d.g
                 PROVE  /\ a \notin d.available /\ a \notin d.recycled /\ b \notin d.available
                        /\ \A x, y \in Mutexes :
                             Has(ids, d.epoch, x, a) /\ Has(ids, d.epoch, y, b)
                             => <<x, y>> \in NestedIn(d.epoch)
      BY DEF EdgesOK
    <3>1. /\ a \notin w.available /\ a \notin w.recycled /\ b \notin w.available
          /\ \A x, y \in Mutexes :
               Has(id, d.epoch, x, a) /\ Has(id, d.epoch, y, b) => <<x, y>> \in NestedIn(d.epoch)
      BY <2>2, <2>3 DEF EdgesOK
    <3>2. a # i /\ b # i
      BY <3>1, <2>4
    <3> QED
      BY <3>1, <3>2, <2>3, <2>8
  <2>12. \A x \in Mutexes : InEpoch(d.epoch, id[x]) => ids[x] = id[x]
    BY <2>6, <2>7
  <2>13. \A x \in Mutexes, j \in Index : Has(ids, d.epoch, x, j) =>
           ids[x] = id[x] \/ \A y \in Mutexes : ~ Has(id, d.epoch, y, j)
    BY <2>7, <2>8, <2>9
  <2>14. /\ d.available \cap d.recycled = {} /\ Multiple(d.epoch) /\ d.epoch # 0
         /\ \A x \in Mutexes : NodeEpoch(ids[x]) <= d.epoch /\ (ids[x] # 0 => NodeEpoch(ids[x]) # 0)
    <3>1. ASSUME NEW x \in Mutexes
          PROVE  NodeEpoch(ids[x]) <= d.epoch /\ (ids[x] # 0 => NodeEpoch(ids[x]) # 0)
      <4>1. /\ NodeEpoch(id[x]) <= dd.epoch /\ (id[x] # 0 => NodeEpoch(id[x]) # 0)
            /\ NodeEpoch(id[x]) \in Nat
        BY <1>1, NodeParts DEF DetectorInv, EpochOK, Multiple
      <4>2. dd.epoch \in Nat /\ d.epoch \in Nat /\ dd.epoch <= d.epoch
        BY <1>1, <2>2, <2>3 DEF Detector
      <4> QED
        BY <4>1, <4>2, <2>2, <2>3, <2>5, <2>7 DEF InEpoch
    <3> QED
      BY <3>1, <2>2, <2>3
  <2>15. EpochOK(ids, d)
    BY <2>14 DEF EpochOK
  <2>16. /\ d.epoch = dd.epoch \/ d.epoch > dd.epoch
         /\ d.epoch = dd.epoch \/ d.epoch > dd.epoch
         /\ d.epoch = dd.epoch =>
              \A a, b \in Index, x \in Mutexes :
                <<a, b>> \in dd.g /\ Has(id, d.epoch, x, b) => <<a, b>> \in d.g
    BY <2>2, <2>3
  <2> QED
    BY <2>3, <2>4, <2>5, <2>10, <2>11, <2>12, <2>13, <2>14, <2>15, <2>16 DEF d, n, ids
<1> QED
  BY <1>2, <1>3

-----------------------------------------------------------------------------
\* A step, by what it makes of each variable
LEMMA Step ==
  ASSUME IInv,
         NEW ids \in [Mutexes -> Nat], NEW d \in Detector, NEW ns \in SUBSET (Mutexes \X Mutexes),
         NEW rs \in [Threads -> Record], NEW hs \in [Threads -> Seq(Lock)],
         NEW os \in [Threads -> Call],
         id' = ids, dd' = d, nested' = ns, dtls' = rs, held' = hs, op' = os,
         \A t \in Threads : rs[t].epoch <= d.epoch,
         EpochOK(ids, d), NodesOK(ids, d), EdgesOK(ids, d, ns),
         \A t \in Threads : ThreadOK(rs[t], hs[t], os[t], ids, d, ns)
  PROVE  IInv'
BY DEF IInv, DetectorInv, ThreadInv, TypeInv

\* A step of thread t that leaves the detector alone
LEMMA LocalStep ==
  ASSUME IInv, NEW t \in Threads, UNCHANGED <<id, dd, nested>>,
         NEW r \in Record, NEW h \in Seq(Lock), NEW o \in Call,
         dtls' = [dtls EXCEPT ![t] = r], held' = [held EXCEPT ![t] = h],
         op' = [op EXCEPT ![t] = o],
         r.epoch <= dd.epoch, ThreadOK(r, h, o, id, dd, nested)
  PROVE  IInv'
<1>1. /\ id \in [Mutexes -> Nat] /\ dd \in Detector /\ nested \in SUBSET (Mutexes \X Mutexes)
      /\ dtls \in [Threads -> Record] /\ held \in [Threads -> Seq(Lock)]
      /\ op \in [Threads -> Call]
  BY DEF IInv, DetectorInv, TypeInv
<1>2. /\ [dtls EXCEPT ![t] = r] \in [Threads -> Record]
      /\ [held EXCEPT ![t] = h] \in [Threads -> Seq(Lock)]
      /\ [op EXCEPT ![t] = o] \in [Threads -> Call]
  BY <1>1
<1>3. \A x \in Threads : [dtls EXCEPT ![t] = r][x].epoch <= dd.epoch
  BY <1>1 DEF IInv, DetectorInv
<1>4. \A x \in Threads : ThreadOK([dtls EXCEPT ![t] = r][x], [held EXCEPT ![t] = h][x],
                                  [op EXCEPT ![t] = o][x], id, dd, nested)
  BY <1>1 DEF IInv, ThreadInv
<1> QED
  BY <1>1, <1>2, <1>3, <1>4, Step DEF IInv, DetectorInv

\* The locks a thread holds once it has taken another
LEMMA ToldAppend ==
  ASSUME NEW h \in Seq(Lock), NEW x \in Lock, NEW pc \in After
  PROVE  /\ Told(Append(h, x), pc) = h
         /\ Append(h, x) # <<>> /\ Last(Append(h, x)) = x
         /\ Len(Append(h, x)) = Len(h) + 1
<1> DEFINE H == Append(h, x)
           n == Len(h)
<1>1. n \in Nat /\ DOMAIN h = 1 .. n
  BY LenProperties
<1>2. /\ H \in Seq(Lock) /\ Len(H) = n + 1
      /\ \A k \in 1 .. n : H[k] = h[k]
      /\ H[n + 1] = x
  BY <1>1, AppendProperties
<1>3. \A k \in 1 .. n : H[k] \in Lock
  BY <1>1, <1>2, ElementOfSeq
<1> DEFINE f == SubSeq(H, 1, n)
<1>4. /\ f \in Seq(Lock)
      /\ Len(f) = IF 1 <= n THEN n - 1 + 1 ELSE 0
      /\ \A k \in 1 .. n - 1 + 1 : f[k] = H[1 + k - 1]
  <2> HIDE DEF H
  <2> QED
    BY <1>1, <1>3, SubSeqProperties
<1> HIDE DEF f, H
<1>5. Len(f) = n /\ \A k \in 1 .. n : f[k] = h[k]
  BY <1>1, <1>2, <1>4
<1>6. f = h
  BY <1>4, <1>5, SeqEqual
<1>7. Front(H) = f
  BY <1>1, <1>2 DEF Front, f
<1>8. H # <<>> /\ Last(H) = x
  BY <1>1, <1>2, EmptySeq DEF Last
<1> QED
  BY <1>2, <1>6, <1>7, <1>8 DEF Told, H

LEMMA ToldLast ==
  ASSUME NEW h \in Seq(Lock), NEW o \in Call, AskOK(h, o), o.pc \in After
  PROVE  /\ Last(h) \in Lock /\ Last(h) = h[Len(h)] /\ Len(h) \in DOMAIN h
         /\ Append(Told(h, o.pc), Last(h)) = h
<1> DEFINE f == Told(h, o.pc)
           x == Last(h)
           n == Len(h)
<1>1. /\ h # <<>> /\ f \in Seq(Lock) /\ Len(f) = n - 1
      /\ DOMAIN f \subseteq DOMAIN h /\ \A k \in DOMAIN f : f[k] = h[k]
  BY ToldParts DEF AskOK
<1>2. n \in Nat \ {0} /\ DOMAIN h = 1 .. n /\ DOMAIN f = 1 .. n - 1
  BY <1>1, EmptySeq, LenProperties
<1>3. x = h[n] /\ x \in Lock
  BY <1>2, ElementOfSeq DEF Last
<1> HIDE DEF f, x, n
<1>4. /\ Append(f, x) \in Seq(Lock) /\ Len(Append(f, x)) = Len(f) + 1
      /\ \A k \in 1 .. Len(f) : Append(f, x)[k] = f[k]
      /\ Append(f, x)[Len(f) + 1] = x
  BY <1>1, <1>3, AppendProperties
<1>5. \A k \in 1 .. n : Append(f, x)[k] = h[k]
  BY <1>1, <1>2, <1>3, <1>4
<1>6. Append(f, x) = h
  BY <1>1, <1>2, <1>4, <1>5, SeqEqual DEF n
<1> QED
  BY <1>2, <1>3, <1>6 DEF f, x, n

\* The program asks only for what it may
LEMMA AskAppend ==
  ASSUME NEW h \in Seq(Lock), NEW o \in Call, AskOK(h, o), o.pc \notin After,
         NEW x \in Lock, \A k \in DOMAIN h : h[k].m = x.m => ~ x.w /\ ~ h[k].w,
         NEW s \in Call, s.pc \in After, s.m = x.m, s.w = x.w,
         IF s.try THEN x.try \/ h = <<>> ELSE ~ x.try
  PROVE  AskOK(Append(h, x), s)
<1> DEFINE H == Append(h, x)
           n == Len(h)
<1>1. /\ n \in Nat /\ DOMAIN H = 1 .. n + 1 /\ DOMAIN h = 1 .. n
      /\ \A k \in 1 .. n : H[k] = h[k]
      /\ H[n + 1] = x
  BY HoldsAdded
<1>2. H # <<>> /\ Last(H) = x /\ Len(H) = n + 1
  BY ToldAppend
<1>3. h = <<>> => n = 0
  BY EmptySeq
<1> HIDE DEF H, n
<1>4. \A p, q \in DOMAIN H : p # q /\ H[p].m = H[q].m => ~ H[p].w
  BY <1>1 DEF AskOK
<1>5. s.m \in Mutexes /\ s.pc \notin Before
  BY DEF Lock, Before, After
<1>6. IF s.try THEN Last(H).try \/ Len(H) = 1 ELSE ~ Last(H).try
  BY <1>1, <1>2, <1>3
<1> QED
  BY <1>2, <1>4, <1>5, <1>6 DEF AskOK, H

LEMMA AskRemove ==
  ASSUME NEW h \in Seq(Lock), NEW k \in DOMAIN h, NEW o \in Call, AskOK(h, o), o.pc = "idle"
  PROVE  AskOK(RemoveAt(h, k), o)
<1> DEFINE G == RemoveAt(h, k)
           n == Len(h)
<1>1. n \in Nat /\ DOMAIN h = 1 .. n
  BY LenProperties
<1>2. /\ DOMAIN G = 1 .. n - 1
      /\ \A j \in 1 .. n - 1 : G[j] = IF j < k THEN h[j] ELSE h[j + 1]
  BY Removed
<1> HIDE DEF G, n
<1> DEFINE Old(j) == IF j < k THEN j ELSE j + 1
<1>3. ASSUME NEW p \in DOMAIN G, NEW q \in DOMAIN G, p # q, G[p].m = G[q].m
      PROVE  ~ G[p].w
  <2>1. /\ Old(p) \in DOMAIN h /\ Old(q) \in DOMAIN h /\ Old(p) # Old(q)
        /\ G[p] = h[Old(p)] /\ G[q] = h[Old(q)]
    BY <1>1, <1>2, <1>3
  <2> HIDE DEF Old
  <2> QED
    BY <2>1, <1>3 DEF AskOK
<1> QED
  BY <1>3 DEF AskOK, G, Before, After

-----------------------------------------------------------------------------
\* The steps of a thread that leave the detector alone
LEMMA Parts ==
  ASSUME IInv, NEW t \in Threads
  PROVE  /\ dtls[t] \in Record /\ held[t] \in Seq(Lock) /\ op[t] \in Call
         /\ id \in [Mutexes -> Nat] /\ dd \in Detector
         /\ dtls[t].epoch <= dd.epoch
         /\ ThreadOK(dtls[t], held[t], op[t], id, dd, nested)
         /\ dtls = [dtls EXCEPT ![t] = dtls[t]]
         /\ held = [held EXCEPT ![t] = held[t]]
<1>1. /\ dtls \in [Threads -> Record] /\ held \in [Threads -> Seq(Lock)]
      /\ op \in [Threads -> Call]
  BY DEF IInv, DetectorInv, TypeInv
<1>2. id \in [Mutexes -> Nat] /\ dd \in Detector
  BY DEF IInv, DetectorInv, TypeInv
<1> QED
  BY <1>1, <1>2 DEF IInv, DetectorInv, ThreadInv

\* A thread that goes on with the same call, before or after the lock
LEMMA GoesOn ==
  ASSUME NEW r, NEW h, NEW o \in Call, NEW ids, NEW d, NEW ns, NEW s \in Call,
         ThreadOK(r, h, o, ids, d, ns),
         s.m = o.m, s.w = o.w, s.try = o.try,
         s.pc \in Before <=> o.pc \in Before, s.pc \in After <=> o.pc \in After,
         CallOK(r, s), r.epoch = d.epoch => Reading(r, s, ids, d.epoch, d.g)
  PROVE  ThreadOK(r, h, s, ids, d, ns)
<1>1. AskOK(h, s)
  BY DEF ThreadOK, AskOK
<1>2. s.pc # "idle" => o.pc # "idle"
  BY DEF Call, Before, After
<1>3. Told(h, s.pc) = Told(h, o.pc)
  BY DEF Told
<1>4. r.epoch = d.epoch => RecordOK(r, h, s, ids, d, ns)
  BY <1>2, <1>3 DEF ThreadOK, RecordOK, Asked
<1> QED
  BY <1>1, <1>4 DEF ThreadOK

LEMMA ReadEdgeKeeps ==
  ASSUME IInv, NEW t \in Threads, ReadEdge(t)
  PROVE  IInv'
<1> PICK o \in Call : o = op[t]
  BY Parts
<1> PICK r \in Record : r = dtls[t]
  BY Parts
<1> PICK h \in Seq(Lock) : h = held[t]
  BY Parts
<1>1. /\ ThreadOK(r, h, o, id, dd, nested) /\ r.epoch <= dd.epoch
      /\ dtls' = [dtls EXCEPT ![t] = r] /\ held' = [held EXCEPT ![t] = h]
      /\ UNCHANGED <<id, dd, nested>>
  BY Parts DEF ReadEdge
<1> DEFINE x == Min(o.todo)
<1>2. o.pc \in {"beforeEdges", "afterEdges"} /\ o.todo \in SUBSET Index /\ o.todo # {}
  BY DEF ReadEdge, EdgesRead, Call
<1>3. x \in o.todo
  <2>1. o.todo \in SUBSET Nat
    BY <1>2 DEF Index
  <2> QED
    BY <1>2, <2>1, Smallest
<1>4. CASE <<x, NodeIndex(o.node)>> \in dd.g
  <2> DEFINE s == [o EXCEPT !.todo = @ \ {x}]
  <2>1. op' = [op EXCEPT ![t] = s]
    BY <1>4 DEF ReadEdge, NextEdge
  <2>2. /\ s \in Call /\ s.pc = o.pc /\ s.m = o.m /\ s.w = o.w /\ s.try = o.try
        /\ s.node = o.node /\ s.todo = o.todo \ {x}
    BY <1>2 DEF Call
  <2> HIDE DEF s, x
  <2>3. CallOK(r, s)
    BY <1>1, <2>2 DEF ThreadOK, CallOK
  <2>4. r.epoch = dd.epoch => Reading(r, s, id, dd.epoch, dd.g)
    BY <1>1, <1>4, <2>2 DEF ThreadOK, RecordOK, Reading
  <2>5. ThreadOK(r, h, s, id, dd, nested)
    BY <1>1, <2>2, <2>3, <2>4, GoesOn
  <2> QED
    BY <1>1, <2>1, <2>2, <2>5, LocalStep
<1>5. CASE <<x, NodeIndex(o.node)>> \notin dd.g
  <2> DEFINE l == IF o.pc = "beforeEdges" THEN "beforeSlow" ELSE "afterSlow"
             s == [o EXCEPT !.pc = l, !.node = 0, !.todo = {}]
  <2>1. op' = [op EXCEPT ![t] = s]
    BY <1>5 DEF ReadEdge, NextEdge, Goto, At
  <2>2. s \in Call /\ s.pc = l /\ s.m = o.m /\ s.w = o.w /\ s.try = o.try
    BY DEF Call, Before, After
  <2>3. /\ l \in Before <=> o.pc \in Before
        /\ l \in After <=> o.pc \in After
        /\ l \notin {"first", "beforeEdges", "afterEdges"}
    BY <1>2 DEF Before, After
  <2> HIDE DEF l, s, x
  <2>4. CallOK(r, s) /\ Reading(r, s, id, dd.epoch, dd.g)
    BY <2>2, <2>3 DEF CallOK, Reading
  <2>5. ThreadOK(r, h, s, id, dd, nested)
    BY <1>1, <2>2, <2>3, <2>4, GoesOn
  <2> QED
    BY <1>1, <2>1, <2>2, <2>5, LocalStep
<1> QED
  BY <1>4, <1>5

LEMMA BeforeLockFastKeeps ==
  ASSUME IInv, NEW t \in Threads, BeforeLockFast(t)
  PROVE  IInv'
<1> PICK o \in Call : o = op[t]
  BY Parts
<1> PICK r \in Record : r = dtls[t]
  BY Parts
<1> PICK h \in Seq(Lock) : h = held[t]
  BY Parts
<1>1. /\ ThreadOK(r, h, o, id, dd, nested) /\ r.epoch <= dd.epoch
      /\ dtls' = [dtls EXCEPT ![t] = r] /\ held' = [held EXCEPT ![t] = h]
      /\ UNCHANGED <<id, dd, nested>>
  BY Parts DEF BeforeLockFast
<1> DEFINE s == [o EXCEPT !.pc = "acquire", !.node = 0, !.todo = {}]
<1>2. o.pc = "beforeEdges" /\ op' = [op EXCEPT ![t] = s]
  BY DEF BeforeLockFast, Goto, At
<1>3. s \in Call /\ s.pc = "acquire" /\ s.m = o.m /\ s.w = o.w /\ s.try = o.try
  BY DEF Call, Before
<1> HIDE DEF s
<1>4. CallOK(r, s) /\ Reading(r, s, id, dd.epoch, dd.g)
  BY <1>3 DEF CallOK, Reading
<1>5. /\ s.pc \in Before <=> o.pc \in Before
      /\ s.pc \in After <=> o.pc \in After
  BY <1>2, <1>3 DEF Before, After
<1>6. ThreadOK(r, h, s, id, dd, nested)
  BY <1>1, <1>3, <1>4, <1>5, GoesOn
<1> QED
  BY <1>1, <1>2, <1>3, <1>6, LocalStep

\* A lock that is taken, and of which the record is told later
LEMMA Takes ==
  ASSUME NEW r \in Record, NEW h \in Seq(Lock), NEW o \in Call, NEW ids, NEW d, NEW ns,
         ThreadOK(r, h, o, ids, d, ns), o.pc \notin After,
         NEW x \in Lock, \A k \in DOMAIN h : h[k].m = x.m => ~ x.w /\ ~ h[k].w,
         NEW s \in Call, s.pc = IF r.bv = {} THEN "first" ELSE "after",
         s.m = x.m, s.w = x.w, IF s.try THEN x.try \/ h = <<>> ELSE ~ x.try,
         s.try \/ (o.pc # "idle" /\ ~ o.try /\ s.m = o.m)
  PROVE  ThreadOK(r, Append(h, x), s, ids, d, ns)
<1>1. s.pc \in After /\ s.pc \notin {"idle", "beforeEdges", "afterEdges"}
  BY DEF After
<1>2. AskOK(Append(h, x), s)
  BY <1>1, AskAppend DEF ThreadOK
<1>3. CallOK(r, s)
  BY <1>1 DEF CallOK
<1>4. Told(Append(h, x), s.pc) = h /\ Told(h, o.pc) = h
  BY <1>1, ToldAppend DEF Told
<1>5. ASSUME r.epoch = d.epoch
      PROVE  RecordOK(r, Append(h, x), s, ids, d, ns)
  <2>1. Counted(r, h, ids, d.epoch) /\ Joined(r, h, ids, d.epoch, d.g)
    BY <1>4, <1>5 DEF ThreadOK, RecordOK
  <2>2. Asked(r, s, ids, d.epoch, ns)
    BY <1>5 DEF ThreadOK, RecordOK, Asked
  <2>3. Reading(r, s, ids, d.epoch, d.g)
    BY <1>1 DEF Reading
  <2> QED
    BY <1>4, <2>1, <2>2, <2>3 DEF RecordOK
<1> QED
  BY <1>2, <1>3, <1>5 DEF ThreadOK

LEMMA AcquireKeeps ==
  ASSUME IInv, NEW t \in Threads, Acquire(t)
  PROVE  IInv'
<1> PICK o \in Call : o = op[t]
  BY Parts
<1> PICK r \in Record : r = dtls[t]
  BY Parts
<1> PICK h \in Seq(Lock) : h = held[t]
  BY Parts
<1>1. /\ ThreadOK(r, h, o, id, dd, nested) /\ r.epoch <= dd.epoch
      /\ dtls' = [dtls EXCEPT ![t] = r] /\ UNCHANGED <<id, dd, nested>>
  BY Parts DEF Acquire
<1> DEFINE l == IF r.bv = {} THEN "first" ELSE "after"
           s == [o EXCEPT !.pc = l, !.node = 0, !.todo = {}]
           x == [m |-> o.m, w |-> o.w, try |-> FALSE]
<1>2. /\ o.pc = "acquire" /\ op' = [op EXCEPT ![t] = s]
      /\ held' = [held EXCEPT ![t] = Append(h, x)]
  BY DEF Acquire, Goto, At, AfterLock
<1>3. /\ s \in Call /\ s.pc = l /\ s.m = o.m /\ s.w = o.w /\ s.try = o.try
  BY DEF Call, After
<1>4. /\ o.m \in Mutexes /\ ~ o.try /\ o.w \in BOOLEAN
      /\ \A k \in DOMAIN h : h[k].m = o.m => ~ o.w /\ ~ h[k].w
  BY <1>1, <1>2 DEF ThreadOK, AskOK, Before, Call
<1>5. x \in Lock /\ x.m = o.m /\ x.w = o.w /\ ~ x.try
  BY <1>4 DEF Lock
<1>6. o.pc \notin After /\ o.pc # "idle"
  BY <1>2 DEF After
<1> HIDE DEF s, x
<1>7. ThreadOK(r, Append(h, x), s, id, dd, nested)
  BY <1>1, <1>3, <1>4, <1>5, <1>6, Takes
<1>8. Append(h, x) \in Seq(Lock)
  BY <1>5, AppendProperties
<1> QED
  BY <1>1, <1>2, <1>3, <1>7, <1>8, LocalStep

LEMMA TryLockKeeps ==
  ASSUME IInv, NEW t \in Threads, TryLock(t)
  PROVE  IInv'
<1> PICK o \in Call : o = op[t]
  BY Parts
<1> PICK r \in Record : r = dtls[t]
  BY Parts
<1> PICK h \in Seq(Lock) : h = held[t]
  BY Parts
<1>1. /\ ThreadOK(r, h, o, id, dd, nested) /\ r.epoch <= dd.epoch
      /\ dtls' = [dtls EXCEPT ![t] = r] /\ UNCHANGED <<id, dd, nested>>
  BY Parts DEF TryLock
<1> DEFINE l == IF r.bv = {} THEN "first" ELSE "after"
<1>2. PICK m \in Tried, w \in BOOLEAN :
        /\ \A k \in DOMAIN h : h[k].m = m => ~ w /\ ~ h[k].w
        /\ held' = [held EXCEPT ![t] = Append(h, [m |-> m, w |-> w, try |-> h # <<>>])]
        /\ op' = [op EXCEPT ![t] = [AtRest EXCEPT !.m = m, !.w = w, !.try = TRUE, !.pc = l]]
  BY DEF TryLock, MayAsk, AfterLock
<1> DEFINE s == [AtRest EXCEPT !.m = m, !.w = w, !.try = TRUE, !.pc = l]
           x == [m |-> m, w |-> w, try |-> h # <<>>]
<1>3. m \in Mutexes
  BY MutexesAssumption
<1>4. /\ s \in Call /\ s.pc = l /\ s.m = m /\ s.w = w /\ s.try
  BY <1>3 DEF Call, After, AtRest
<1>5. x \in Lock /\ x.m = m /\ x.w = w /\ (x.try <=> h # <<>>)
  BY <1>3 DEF Lock
<1>6. o.pc \notin After
  BY DEF After, TryLock, At
<1> HIDE DEF s, x
<1>7. ThreadOK(r, Append(h, x), s, id, dd, nested)
  BY <1>1, <1>2, <1>4, <1>5, <1>6, Takes
<1>8. Append(h, x) \in Seq(Lock)
  BY <1>5, AppendProperties
<1>9. op' = [op EXCEPT ![t] = s] /\ held' = [held EXCEPT ![t] = Append(h, x)]
  BY <1>2 DEF s, x
<1> QED
  BY <1>1, <1>4, <1>7, <1>8, <1>9, LocalStep

LEMMA NodeZero == NodeEpoch(0) = 0
BY NodesAssumption, NodeParts DEF Multiple, Index

LEMMA AddLockType ==
  ASSUME NEW r \in Record, NEW i \in Index
  PROVE  AddLock(r, i) \in Record /\ AddLock(r, i).epoch = r.epoch
<1>1. r.bv \in SUBSET Index /\ r.rec \in Seq(Index)
  BY DEF Record
<1>2. Append(r.rec, i) \in Seq(Index)
  BY <1>1, AppendProperties
<1> QED
  BY <1>1, <1>2 DEF AddLock, Record

LEMMA RestType ==
  /\ AtRest \in Call /\ AtRest.pc = "idle"
BY DEF AtRest, Call

\* The record is told of the lock, and the call is over
Recordable(r, h, o, ids, d, i) ==
  r.epoch = d.epoch =>
    /\ Counted(r, Told(h, o.pc), ids, d.epoch)
    /\ Joined(r, Told(h, o.pc), ids, d.epoch, d.g)
    /\ Has(ids, d.epoch, o.m, i)
    /\ ~ Last(h).try => \A j \in r.bv \ {i} : <<j, i>> \in d.g

LEMMA Records ==
  ASSUME NEW r \in Record, NEW h \in Seq(Lock), NEW o \in Call, NEW ids, NEW d, NEW ns,
         AskOK(h, o), o.pc \in After, NEW i \in Index,
         Recordable(r, h, o, ids, d, i)
  PROVE  ThreadOK(AddLock(r, i), h, AtRest, ids, d, ns)
<1> DEFINE s == AddLock(r, i)
           f == Told(h, o.pc)
           x == Last(h)
<1>1. s \in Record /\ s.epoch = r.epoch
  BY AddLockType
<1>2. AtRest.pc = "idle"
  BY RestType
<1>3. AskOK(h, AtRest) /\ CallOK(s, AtRest)
  BY <1>2 DEF AskOK, CallOK, Before, After
<1>4. ASSUME r.epoch = d.epoch
      PROVE  RecordOK(s, h, AtRest, ids, d, ns)
  <2>1. x \in Lock /\ f \in Seq(Lock) /\ Append(f, x) = h /\ x.m = o.m
    BY ToldLast, ToldParts DEF AskOK
  <2> HIDE DEF f, x
  <2>2. Counted(s, Append(f, x), ids, d.epoch) /\ Joined(s, Append(f, x), ids, d.epoch, d.g)
    <3>1. /\ Counted(r, f, ids, d.epoch) /\ Joined(r, f, ids, d.epoch, d.g)
          /\ Has(ids, d.epoch, x.m, i)
          /\ ~ x.try => \A j \in r.bv \ {i} : <<j, i>> \in d.g
      BY <1>4, <2>1 DEF f, x, Recordable
    <3> QED
      BY <2>1, <3>1, Taken
  <2>3. Told(h, AtRest.pc) = h
    BY <1>2 DEF Told, After
  <2>4. Asked(s, AtRest, ids, d.epoch, ns) /\ Reading(s, AtRest, ids, d.epoch, d.g)
    BY <1>2 DEF Asked, Reading
  <2> HIDE DEF s
  <2> QED
    BY <2>1, <2>2, <2>3, <2>4 DEF RecordOK
<1> HIDE DEF s
<1>5. ThreadOK(s, h, AtRest, ids, d, ns)
  BY <1>1, <1>3, <1>4 DEF ThreadOK
<1> QED
  BY <1>5 DEF s

\* A lock that has no room in the record ends the process
LEMMA FullCall ==
  ASSUME NEW r, NEW h, NEW o \in Call, NEW ids, NEW d, NEW ns,
         ThreadOK(r, h, o, ids, d, ns), o.pc \in After
  PROVE  LET s == [o EXCEPT !.pc = "full", !.node = 0, !.todo = {}]
         IN  s \in Call /\ s.pc = "full" /\ ThreadOK(r, h, s, ids, d, ns)
<1> DEFINE s == [o EXCEPT !.pc = "full", !.node = 0, !.todo = {}]
<1>1. s \in Call /\ s.pc = "full" /\ s.m = o.m /\ s.w = o.w /\ s.try = o.try
  BY DEF Call, After
<1> HIDE DEF s
<1>2. CallOK(r, s) /\ Reading(r, s, ids, d.epoch, d.g)
  BY <1>1 DEF CallOK, Reading
<1>3. /\ s.pc \in Before <=> o.pc \in Before
      /\ s.pc \in After <=> o.pc \in After
  BY <1>1 DEF Before, After
<1>4. ThreadOK(r, h, s, ids, d, ns)
  BY <1>1, <1>2, <1>3, GoesOn
<1> QED
  BY <1>1, <1>4 DEF s

LEMMA RecordLockKeeps ==
  ASSUME IInv, NEW t \in Threads, UNCHANGED <<id, dd, held, nested>>,
         op[t].pc \in After, NEW i \in Index,
         Recordable(dtls[t], held[t], op[t], id, dd, i), RecordLock(t, dtls[t], i)
  PROVE  IInv'
<1> PICK o \in Call : o = op[t]
  BY Parts
<1> PICK r \in Record : r = dtls[t]
  BY Parts
<1> PICK h \in Seq(Lock) : h = held[t]
  BY Parts
<1>1. /\ ThreadOK(r, h, o, id, dd, nested) /\ r.epoch <= dd.epoch
      /\ dtls = [dtls EXCEPT ![t] = r] /\ held' = [held EXCEPT ![t] = h]
      /\ UNCHANGED <<id, dd, nested>>
  BY Parts
<1>2. CASE Fits(r, i)
  <2>1. dtls' = [dtls EXCEPT ![t] = AddLock(r, i)] /\ op' = [op EXCEPT ![t] = AtRest]
    BY <1>2 DEF RecordLock, Return
  <2>2. ThreadOK(AddLock(r, i), h, AtRest, id, dd, nested)
    BY <1>1, Records DEF ThreadOK
  <2> QED
    BY <1>1, <2>1, <2>2, RestType, AddLockType, LocalStep
<1>3. CASE ~ Fits(r, i)
  <2> DEFINE s == [o EXCEPT !.pc = "full", !.node = 0, !.todo = {}]
  <2>1. op' = [op EXCEPT ![t] = s] /\ dtls' = [dtls EXCEPT ![t] = r]
    BY <1>1, <1>3 DEF RecordLock, Goto
  <2>2. s \in Call /\ ThreadOK(r, h, s, id, dd, nested)
    BY <1>1, FullCall
  <2> HIDE DEF s
  <2> QED
    BY <1>1, <2>1, <2>2, LocalStep
<1> QED
  BY <1>2, <1>3

LEMMA FirstLockKeeps ==
  ASSUME IInv, NEW t \in Threads, FirstLock(t)
  PROVE  IInv'
<1> PICK o \in Call : o = op[t]
  BY Parts
<1> PICK r \in Record : r = dtls[t]
  BY Parts
<1> PICK h \in Seq(Lock) : h = held[t]
  BY Parts
<1>1. /\ ThreadOK(r, h, o, id, dd, nested) /\ r.epoch <= dd.epoch
      /\ dtls = [dtls EXCEPT ![t] = r] /\ held' = [held EXCEPT ![t] = h]
      /\ UNCHANGED <<id, dd, nested>>
  BY Parts DEF FirstLock
<1>2. /\ o.pc = "first" /\ o.pc \in After /\ o.m \in Mutexes /\ r.bv = {}
      /\ AskOK(h, o)
  BY <1>1 DEF FirstLock, At, After, ThreadOK, AskOK, CallOK
<1>3. id[o.m] \in Nat
  BY <1>2, Parts
<1> DEFINE i == NodeIndex(id[o.m])
<1>4. i \in Index
  BY <1>3, NodeParts
<1>5. CASE r.epoch # 0 /\ r.epoch = NodeEpoch(id[o.m])
  <2>1. RecordLock(t, r, i)
    BY <1>5 DEF FirstLock
  <2>2. r.epoch = dd.epoch => Has(id, dd.epoch, o.m, i)
    BY <1>5, NodeZero DEF Has, InEpoch
  <2>3. r.epoch = dd.epoch =>
           /\ Counted(r, Told(h, o.pc), id, dd.epoch)
           /\ Joined(r, Told(h, o.pc), id, dd.epoch, dd.g)
    BY <1>1 DEF ThreadOK, RecordOK
  <2> HIDE DEF i
  <2>4. Recordable(r, h, o, id, dd, i)
    BY <1>2, <2>2, <2>3 DEF Recordable
  <2>5. UNCHANGED <<id, dd, held, nested>>
    BY DEF FirstLock
  <2> QED
    BY <1>2, <1>4, <2>1, <2>4, <2>5, RecordLockKeeps
<1>6. CASE ~ (r.epoch # 0 /\ r.epoch = NodeEpoch(id[o.m]))
  <2> DEFINE s == [o EXCEPT !.pc = "after", !.node = 0, !.todo = {}]
  <2>1. op' = [op EXCEPT ![t] = s] /\ dtls' = [dtls EXCEPT ![t] = r]
    BY <1>1, <1>6 DEF FirstLock, Goto
  <2>2. s \in Call /\ s.pc = "after" /\ s.m = o.m /\ s.w = o.w /\ s.try = o.try
    BY DEF Call, After
  <2> HIDE DEF s
  <2>3. CallOK(r, s) /\ Reading(r, s, id, dd.epoch, dd.g)
    BY <2>2 DEF CallOK, Reading
  <2>4. /\ s.pc \in Before <=> o.pc \in Before
        /\ s.pc \in After <=> o.pc \in After
    BY <1>2, <2>2 DEF Before, After
  <2>5. ThreadOK(r, h, s, id, dd, nested)
    BY <1>1, <2>2, <2>3, <2>4, GoesOn
  <2> QED
    BY <1>1, <2>1, <2>2, <2>5, LocalStep
<1> QED
  BY <1>5, <1>6

LEMMA AfterReadEpochsKeeps ==
  ASSUME IInv, NEW t \in Threads, AfterReadEpochs(t)
  PROVE  IInv'
<1> PICK o \in Call : o = op[t]
  BY Parts
<1> PICK r \in Record : r = dtls[t]
  BY Parts
<1> PICK h \in Seq(Lock) : h = held[t]
  BY Parts
<1>1. /\ ThreadOK(r, h, o, id, dd, nested) /\ r.epoch <= dd.epoch
      /\ dtls' = [dtls EXCEPT ![t] = r] /\ held' = [held EXCEPT ![t] = h]
      /\ UNCHANGED <<id, dd, nested>>
  BY Parts DEF AfterReadEpochs
<1>2. o.pc = "after" /\ o.m \in Mutexes
  BY <1>1 DEF AfterReadEpochs, At, After, ThreadOK, AskOK
<1>3. CASE EpochsAgree(t, o.m)
  <2> DEFINE s == [o EXCEPT !.pc = "afterEdges", !.node = id[o.m], !.todo = r.bv]
  <2>1. op' = [op EXCEPT ![t] = s]
    BY <1>3 DEF AfterReadEpochs, ReadEpochs
  <2>2. id[o.m] \in Nat /\ r.bv \in SUBSET Index
    BY <1>2, Parts DEF Record
  <2>3. /\ s \in Call /\ s.pc = "afterEdges" /\ s.m = o.m /\ s.w = o.w /\ s.try = o.try
        /\ s.node = id[o.m] /\ s.todo = r.bv
    BY <2>2 DEF Call, After
  <2> HIDE DEF s
  <2>4. r.epoch = dd.epoch /\ InEpoch(dd.epoch, id[o.m])
    BY <1>3 DEF EpochsAgree, InEpoch
  <2>5. CallOK(r, s) /\ Reading(r, s, id, dd.epoch, dd.g)
    BY <2>3, <2>4 DEF CallOK, Reading, InEpoch
  <2>6. /\ s.pc \in Before <=> o.pc \in Before
        /\ s.pc \in After <=> o.pc \in After
    BY <1>2, <2>3 DEF Before, After
  <2>7. ThreadOK(r, h, s, id, dd, nested)
    BY <1>1, <2>3, <2>5, <2>6, GoesOn
  <2> QED
    BY <1>1, <2>1, <2>3, <2>7, LocalStep
<1>4. CASE ~ EpochsAgree(t, o.m)
  <2> DEFINE s == [o EXCEPT !.pc = "afterSlow"]
  <2>1. op' = [op EXCEPT ![t] = s]
    BY <1>4 DEF AfterReadEpochs, ReadEpochs
  <2>2. s \in Call /\ s.pc = "afterSlow" /\ s.m = o.m /\ s.w = o.w /\ s.try = o.try
    BY DEF Call, After
  <2> HIDE DEF s
  <2>3. CallOK(r, s) /\ Reading(r, s, id, dd.epoch, dd.g)
    BY <2>2 DEF CallOK, Reading
  <2>4. /\ s.pc \in Before <=> o.pc \in Before
        /\ s.pc \in After <=> o.pc \in After
    BY <1>2, <2>2 DEF Before, After
  <2>5. ThreadOK(r, h, s, id, dd, nested)
    BY <1>1, <2>2, <2>3, <2>4, GoesOn
  <2> QED
    BY <1>1, <2>1, <2>2, <2>5, LocalStep
<1> QED
  BY <1>3, <1>4

LEMMA AfterLockFastKeeps ==
  ASSUME IInv, NEW t \in Threads, AfterLockFast(t)
  PROVE  IInv'
<1> PICK o \in Call : o = op[t]
  BY Parts
<1> PICK r \in Record : r = dtls[t]
  BY Parts
<1> PICK h \in Seq(Lock) : h = held[t]
  BY Parts
<1> DEFINE i == NodeIndex(o.node)
<1>1. /\ ThreadOK(r, h, o, id, dd, nested)
      /\ RecordLock(t, r, i) /\ UNCHANGED <<id, dd, held, nested>>
  BY Parts DEF AfterLockFast
<1>2. /\ o.pc = "afterEdges" /\ o.pc \in After /\ o.m \in Mutexes
      /\ AskOK(h, o) /\ o.todo = {}
  BY <1>1 DEF AfterLockFast, At, After, ThreadOK, AskOK, EdgesRead
<1>3. o.node \in Nat /\ i \in Index
  BY NodeParts DEF Call
<1>4. r.epoch = dd.epoch =>
        /\ Counted(r, Told(h, o.pc), id, dd.epoch)
        /\ Joined(r, Told(h, o.pc), id, dd.epoch, dd.g)
        /\ Has(id, dd.epoch, o.m, i)
        /\ \A j \in r.bv : <<j, i>> \in dd.g
  BY <1>1, <1>2 DEF ThreadOK, RecordOK, Reading, Has
<1> HIDE DEF i
<1>5. Recordable(r, h, o, id, dd, i)
  BY <1>4 DEF Recordable
<1> QED
  BY <1>1, <1>2, <1>3, <1>5, RecordLockKeeps

LEMMA UnlockKeeps ==
  ASSUME IInv, NEW t \in Threads, Unlock(t)
  PROVE  IInv'
<1> PICK o \in Call : o = op[t]
  BY Parts
<1> PICK r \in Record : r = dtls[t]
  BY Parts
<1> PICK h \in Seq(Lock) : h = held[t]
  BY Parts
<1>1. /\ ThreadOK(r, h, o, id, dd, nested) /\ r.epoch <= dd.epoch
      /\ op' = [op EXCEPT ![t] = o] /\ UNCHANGED <<id, dd, nested>>
      /\ o.pc = "idle"
  <2>1. op \in [Threads -> Call]
    BY DEF IInv, DetectorInv, TypeInv
  <2> QED
    BY <2>1, Parts DEF Unlock, At
<1>2. PICK k \in DOMAIN h :
        /\ dtls' = [dtls EXCEPT ![t] = OnUnlock(r, id[h[k].m])]
        /\ held' = [held EXCEPT ![t] = RemoveAt(h, k)]
  BY DEF Unlock
<1> DEFINE s == OnUnlock(r, id[h[k].m])
           i == NodeIndex(id[h[k].m])
<1>3. s \in Record /\ s.epoch = r.epoch
  <2>1. r.bv \in SUBSET Index /\ r.rec \in Seq(Index)
    BY DEF Record
  <2>2. (\E j \in DOMAIN r.rec : r.rec[j] = i) => RemoveFirst(r.rec, i) \in Seq(Index)
    <3> HIDE DEF i
    <3> SUFFICES ASSUME \E j \in DOMAIN r.rec : r.rec[j] = i
                 PROVE  RemoveFirst(r.rec, i) \in Seq(Index)
      OBVIOUS
    <3>1. PICK j \in DOMAIN r.rec : RemoveFirst(r.rec, i) = RemoveAt(r.rec, j)
      BY <2>1, FirstRemoved
    <3> QED
      BY <2>1, <3>1, Removed
  <2> HIDE DEF i
  <2>3. RemoveLock(r, i) \in Record /\ RemoveLock(r, i).epoch = r.epoch
    BY <2>1, <2>2 DEF RemoveLock, Record
  <2> QED
    BY <2>3 DEF OnUnlock, i
<1>4. RemoveAt(h, k) \in Seq(Lock)
  BY Removed
<1>5. AskOK(RemoveAt(h, k), o)
  BY <1>1, AskRemove DEF ThreadOK
<1>6. ASSUME r.epoch = dd.epoch
      PROVE  RecordOK(s, RemoveAt(h, k), o, id, dd, nested)
  <2>1. Told(h, o.pc) = h /\ Told(RemoveAt(h, k), o.pc) = RemoveAt(h, k)
    BY <1>1 DEF Told, After
  <2>2. Counted(r, h, id, r.epoch) /\ Joined(r, h, id, r.epoch, dd.g)
    BY <1>1, <1>6, <2>1 DEF ThreadOK, RecordOK
  <2>3. /\ id \in [Mutexes -> Nat]
        /\ \A m \in Mutexes : id[m] # 0 => NodeEpoch(id[m]) # 0
    BY DEF IInv, DetectorInv, TypeInv, EpochOK
  <2>4. /\ Counted(s, RemoveAt(h, k), id, r.epoch)
        /\ Joined(s, RemoveAt(h, k), id, r.epoch, dd.g)
    BY <2>2, <2>3, Dropped
  <2> HIDE DEF s
  <2> QED
    BY <1>1, <1>6, <2>1, <2>4 DEF RecordOK, Asked, Reading
<1> HIDE DEF s
<1>7. CallOK(s, o)
  BY <1>1 DEF CallOK
<1>8. ThreadOK(s, RemoveAt(h, k), o, id, dd, nested)
  BY <1>3, <1>5, <1>6, <1>7 DEF ThreadOK
<1>9. dtls' = [dtls EXCEPT ![t] = s] /\ held' = [held EXCEPT ![t] = RemoveAt(h, k)]
  BY <1>2 DEF s
<1> QED
  BY <1>1, <1>3, <1>4, <1>8, <1>9, LocalStep

-----------------------------------------------------------------------------
\* The steps that change the detector, or the history.  A recorded index is the
\* node of a mutex that is held
LEMMA Owned ==
  ASSUME NEW r \in Record, NEW h \in Seq(Lock), NEW ids, NEW e, Counted(r, h, ids, e),
         NEW i \in r.bv
  PROVE  \E k \in DOMAIN h : Has(ids, e, h[k].m, i)
<1>1. Cardinality(Again(r, i)) < Cardinality(Holds(h, ids, e, i))
  BY DEF Counted
<1>2. Cardinality(Again(r, i)) \in Nat
  BY AgainFinite
<1>3. Cardinality({}) = 0
  BY FS_EmptySet
<1>4. Holds(h, ids, e, i) # {}
  <2> SUFFICES ASSUME Holds(h, ids, e, i) = {}
               PROVE  FALSE
    OBVIOUS
  <2>1. Cardinality(Holds(h, ids, e, i)) = 0
    BY <1>3
  <2> QED
    BY <1>1, <1>2, <2>1
<1> QED
  BY <1>4 DEF Holds

LEMMA BeforeLockKeeps ==
  ASSUME IInv, NEW t \in Threads, BeforeLock(t)
  PROVE  IInv'
<1> PICK o \in Call : o = op[t]
  BY Parts
<1> PICK r \in Record : r = dtls[t]
  BY Parts
<1> PICK h \in Seq(Lock) : h = held[t]
  BY Parts
<1>1. /\ ThreadOK(r, h, o, id, dd, nested) /\ r.epoch <= dd.epoch
      /\ id \in [Mutexes -> Nat] /\ dd \in Detector /\ nested \in SUBSET (Mutexes \X Mutexes)
      /\ dtls \in [Threads -> Record] /\ held \in [Threads -> Seq(Lock)]
      /\ op \in [Threads -> Call]
      /\ UNCHANGED <<id, dd, dtls, held>> /\ o.pc = "idle"
  BY Parts DEF BeforeLock, At, IInv, DetectorInv, TypeInv
<1>2. PICK m \in Mutexes, w \in BOOLEAN :
        LET a == [AtRest EXCEPT !.m = m, !.w = w]
        IN  /\ \A k \in DOMAIN h : h[k].m = m => ~ w /\ ~ h[k].w
            /\ IF r.bv = {} THEN op' = [op EXCEPT ![t] = [a EXCEPT !.pc = "acquire"]]
               ELSE ReadEpochs(t, a, "beforeEdges", "beforeSlow")
            /\ nested' = nested \cup (HeldBy(t) \X {m})
  BY DEF BeforeLock, MayAsk
<1> DEFINE ns == nested \cup (HeldBy(t) \X {m})
<1>3. PICK s \in Call :
        /\ op' = [op EXCEPT ![t] = s] /\ s.m = m /\ s.w = w /\ ~ s.try
        /\ \/ s.pc \in {"acquire", "beforeSlow"}
           \/ /\ s.pc = "beforeEdges" /\ s.node = id[m] /\ s.todo = r.bv
              /\ r.epoch = dd.epoch /\ InEpoch(dd.epoch, id[m])
  <2> DEFINE a == [AtRest EXCEPT !.m = m, !.w = w]
  <2>1. a \in Call /\ a.m = m /\ a.w = w /\ ~ a.try
    BY DEF AtRest, Call
  <2> HIDE DEF a
  <2>2. id[m] \in Nat /\ r.bv \in SUBSET Index
    BY <1>1 DEF Record
  <2>3. CASE r.bv = {}
    <3> DEFINE s == [a EXCEPT !.pc = "acquire"]
    <3>1. /\ s \in Call /\ s.m = m /\ s.w = w /\ ~ s.try /\ s.pc = "acquire"
      BY <2>1 DEF Call, Before
    <3>2. op' = [op EXCEPT ![t] = s]
      BY <1>2, <2>3 DEF a
    <3> QED
      BY <3>1, <3>2
  <2>4. CASE r.bv # {} /\ EpochsAgree(t, m)
    <3> DEFINE s == [a EXCEPT !.pc = "beforeEdges", !.node = id[m], !.todo = r.bv]
    <3>1. /\ s \in Call /\ s.m = m /\ s.w = w /\ ~ s.try /\ s.pc = "beforeEdges"
          /\ s.node = id[m] /\ s.todo = r.bv
      BY <2>1, <2>2 DEF Call, Before
    <3>2. op' = [op EXCEPT ![t] = s]
      BY <1>2, <2>1, <2>4 DEF a, ReadEpochs
    <3>3. r.epoch = dd.epoch /\ InEpoch(dd.epoch, id[m])
      BY <2>4 DEF EpochsAgree, InEpoch
    <3> QED
      BY <3>1, <3>2, <3>3
  <2>5. CASE r.bv # {} /\ ~ EpochsAgree(t, m)
    <3> DEFINE s == [a EXCEPT !.pc = "beforeSlow"]
    <3>1. /\ s \in Call /\ s.m = m /\ s.w = w /\ ~ s.try /\ s.pc = "beforeSlow"
      BY <2>1 DEF Call, Before
    <3>2. op' = [op EXCEPT ![t] = s]
      BY <1>2, <2>1, <2>5 DEF a, ReadEpochs
    <3> QED
      BY <3>1, <3>2
  <2> QED
    BY <2>3, <2>4, <2>5
<1>4. HeldBy(t) = {h[k].m : k \in DOMAIN h}
  BY DEF HeldBy
<1>5. ns \in SUBSET (Mutexes \X Mutexes) /\ nested' = ns
  <2>1. \A k \in DOMAIN h : h[k].m \in Mutexes
    <3> TAKE k \in DOMAIN h
    <3>1. h[k] \in Lock
      BY LenProperties, ElementOfSeq
    <3> QED
      BY <3>1 DEF Lock
  <2> QED
    BY <1>1, <1>2, <1>4, <2>1
<1>6. \A x \in Mutexes : x \in HeldBy(t) => <<x, m>> \in ns
  OBVIOUS
<1>7. nested \subseteq ns
  OBVIOUS
<1> HIDE DEF ns
<1>8. EdgesOK(id, dd, ns) /\ NodesOK(id, dd) /\ EpochOK(id, dd)
  BY <1>7 DEF EdgesOK, IInv, DetectorInv
<1>9. ThreadOK(r, h, s, id, dd, ns)
  <2>1. AskOK(h, s)
    BY <1>1, <1>2, <1>3 DEF ThreadOK, AskOK, Before, After
  <2>2. CallOK(r, s)
    BY <1>3 DEF CallOK, InEpoch
  <2>3. Told(h, s.pc) = h /\ Told(h, o.pc) = h
    BY <1>1, <1>3 DEF Told, After
  <2>4. ASSUME r.epoch = dd.epoch
        PROVE  RecordOK(r, h, s, id, dd, ns)
    <3>1. Counted(r, h, id, dd.epoch) /\ Joined(r, h, id, dd.epoch, dd.g)
      BY <1>1, <2>3, <2>4 DEF ThreadOK, RecordOK
    <3>2. Asked(r, s, id, dd.epoch, ns)
      <4> SUFFICES ASSUME NEW i \in r.bv, NEW x \in Mutexes, Has(id, dd.epoch, x, i)
                   PROVE  <<x, s.m>> \in ns
        BY DEF Asked
      <4>1. PICK k \in DOMAIN h : Has(id, dd.epoch, h[k].m, i)
        BY <3>1, Owned
      <4>2. h[k] \in Lock /\ i \in Index
        BY LenProperties, ElementOfSeq DEF Record
      <4>3. h[k].m = x
        BY <1>8, <4>1, <4>2 DEF NodesOK, Lock
      <4> QED
        BY <1>3, <1>4, <1>6, <4>3
    <3>3. Reading(r, s, id, dd.epoch, dd.g)
      BY <1>3 DEF Reading
    <3> QED
      BY <2>3, <3>1, <3>2, <3>3 DEF RecordOK
  <2> QED
    BY <2>1, <2>2, <2>4 DEF ThreadOK
<1>10. \A u \in Threads : ThreadOK(dtls[u], held[u], op[u], id, dd, ns)
  <2> SUFFICES ASSUME NEW u \in Threads
               PROVE  ThreadOK(dtls[u], held[u], op[u], id, dd, ns)
    OBVIOUS
  <2>1. /\ dtls[u] \in Record /\ held[u] \in Seq(Lock) /\ op[u] \in Call
        /\ ThreadOK(dtls[u], held[u], op[u], id, dd, nested)
    BY Parts
  <2>2. Kept(dtls[u], held[u], op[u], id, dd, nested, id, dd, ns)
    BY <1>7 DEF Kept
  <2> QED
    BY <2>1, <2>2, Framed DEF ThreadOK
<1> DEFINE os == [op EXCEPT ![t] = s]
<1>11. os \in [Threads -> Call]
  BY <1>1
<1>12. \A u \in Threads : ThreadOK(dtls[u], held[u], os[u], id, dd, ns)
  BY <1>1, <1>9, <1>10
<1>13. \A u \in Threads : dtls[u].epoch <= dd.epoch
  BY DEF IInv, DetectorInv
<1>14. /\ id' = id /\ dd' = dd /\ nested' = ns /\ dtls' = dtls /\ held' = held /\ op' = os
  BY <1>1, <1>3, <1>5
<1> HIDE DEF os
<1> QED
  BY <1>1, <1>5, <1>8, <1>11, <1>12, <1>13, <1>14, Step

\* A node is given to mutex m, if it has none, and edges may be added
Giving(m, d, ids, ns) ==
  d = EnsureDD(m) /\ ids = [id EXCEPT ![m] = EnsureNode(m)] /\ ns = NestedIn(d.epoch)
Grown(d, d2) == d2 \in Detector /\ d2.epoch = d.epoch /\ d.g \subseteq d2.g
GraphOK(ids, d, ns) == d \in Detector /\ EpochOK(ids, d) /\ NodesOK(ids, d) /\ EdgesOK(ids, d, ns)

\* What a thread goes by survives that
LEMMA NodeGiven ==
  ASSUME IInv, NEW m \in Mutexes, NEW u \in Threads,
         NEW d, NEW ids, NEW ns, Giving(m, d, ids, ns), NEW d2, Grown(d, d2)
  PROVE  ThreadOK(dtls[u], held[u], op[u], ids, d2, ns)
<1>0. /\ d = EnsureDD(m) /\ ids = [id EXCEPT ![m] = EnsureNode(m)] /\ ns = NestedIn(d.epoch)
      /\ d2 \in Detector /\ d2.epoch = d.epoch /\ d.g \subseteq d2.g
  BY DEF Giving, Grown
<1> PICK o \in Call : o = op[u]
  BY Parts
<1> PICK r \in Record : r = dtls[u]
  BY Parts
<1> PICK h \in Seq(Lock) : h = held[u]
  BY Parts
<1>1. ThreadOK(r, h, o, id, dd, nested) /\ r.epoch <= dd.epoch /\ dd \in Detector
  BY Parts
<1>2. /\ d \in Detector
      /\ d.epoch = dd.epoch \/ d.epoch > dd.epoch
      /\ d.epoch = dd.epoch =>
           /\ \A x \in Mutexes : InEpoch(d.epoch, id[x]) => ids[x] = id[x]
           /\ \A x \in Mutexes, i \in Index : Has(ids, d.epoch, x, i) =>
                ids[x] = id[x] \/ \A y \in Mutexes : ~ Has(id, d.epoch, y, i)
           /\ \A a, b \in Index, x \in Mutexes :
                <<a, b>> \in dd.g /\ Has(id, d.epoch, x, b) => <<a, b>> \in d.g
  BY <1>0, Ensured DEF IInv
<1>3. ASSUME r.epoch = d2.epoch
      PROVE  RecordOK(r, h, o, ids, d2, ns)
  <2>1. d.epoch = dd.epoch /\ r.epoch = dd.epoch
    BY <1>0, <1>1, <1>2, <1>3 DEF Record, Detector
  <2>2. ns = nested
    BY <1>0, <2>1 DEF NestedIn
  <2>3. RecordOK(r, h, o, id, dd, nested) /\ AskOK(h, o)
    BY <1>1, <2>1 DEF ThreadOK
  <2>4. ASSUME NEW i \in r.bv
        PROVE  i \in Index /\ \E y \in Mutexes : Has(id, dd.epoch, y, i)
    <3>0. Told(h, o.pc) \in Seq(Lock) /\ Counted(r, Told(h, o.pc), id, dd.epoch)
      BY <2>3, ToldParts DEF RecordOK
    <3>1. PICK k \in DOMAIN Told(h, o.pc) : Has(id, dd.epoch, Told(h, o.pc)[k].m, i)
      BY <3>0, Owned
    <3>2. Told(h, o.pc)[k] \in Lock
      BY <3>0, LenProperties, ElementOfSeq
    <3> QED
      BY <3>1, <3>2 DEF Lock, Record
  <2>5. \A x \in Mutexes, i \in r.bv : Has(ids, dd.epoch, x, i) => ids[x] = id[x]
    BY <1>2, <2>1, <2>4
  <2>6. ASSUME NEW x \in Mutexes, NEW i \in r.bv, InEpoch(dd.epoch, id[x]),
               <<i, NodeIndex(id[x])>> \in dd.g
        PROVE  <<i, NodeIndex(id[x])>> \in d2.g
    <3>1. Has(id, dd.epoch, x, NodeIndex(id[x])) /\ NodeIndex(id[x]) \in Index /\ i \in Index
      BY <1>1, <2>6 DEF Has, Detector
    <3> QED
      BY <1>0, <1>2, <2>1, <2>6, <3>1
  <2>7. Kept(r, h, o, id, dd, nested, ids, d2, ns)
    BY <1>0, <1>2, <2>1, <2>2, <2>5, <2>6 DEF Kept
  <2> QED
    BY <2>3, <2>7, Framed
<1> QED
  BY <1>1, <1>3 DEF ThreadOK

\* ... and so does the record of the thread that gives it, once it is of the epoch
Given(r, h, o, ids, d, ns) ==
  /\ r \in Record /\ r.epoch = d.epoch
  /\ Counted(r, Told(h, o.pc), ids, d.epoch)
  /\ Joined(r, Told(h, o.pc), ids, d.epoch, d.g)
  /\ Asked(r, o, ids, d.epoch, ns)

LEMMA RecordGiven ==
  ASSUME IInv, NEW m \in Mutexes, NEW t \in Threads,
         NEW d, NEW ids, NEW ns, Giving(m, d, ids, ns), NEW d2, Grown(d, d2)
  PROVE  Given(EnsureCurrentEpoch(dtls[t], d.epoch), held[t], op[t], ids, d2, ns)
<1> DEFINE r == EnsureCurrentEpoch(dtls[t], d.epoch)
           h == held[t]
           o == op[t]
<1>0. d = EnsureDD(m) /\ d2 \in Detector /\ d2.epoch = d.epoch
  BY DEF Giving, Grown
<1>1. dtls[t] \in Record /\ d \in Detector
  BY <1>0, Parts, Ensured DEF IInv
<1>2. CASE dtls[t].epoch = d.epoch
  <2>1. r = dtls[t]
    BY <1>2 DEF EnsureCurrentEpoch
  <2>2. ThreadOK(dtls[t], h, o, ids, d2, ns)
    BY NodeGiven
  <2> QED
    BY <1>0, <1>1, <1>2, <2>1, <2>2 DEF ThreadOK, RecordOK, Given
<1>3. CASE dtls[t].epoch # d.epoch
  <2>1. r = [bv |-> {}, epoch |-> d.epoch, rec |-> <<>>]
    BY <1>3 DEF EnsureCurrentEpoch
  <2>2. <<>> \in Seq(Index) /\ DOMAIN <<>> = {}
    BY EmptySeq
  <2>3. r \in Record /\ r.epoch = d.epoch /\ r.bv = {} /\ DOMAIN r.rec = {}
    BY <1>1, <2>1, <2>2 DEF Record, Detector
  <2> QED
    BY <1>0, <2>3 DEF Counted, Joined, Asked, Given
<1> QED
  BY <1>2, <1>3

\* The new edges stand for what the thread holds and what it asks for
LEMMA EdgesAdded ==
  ASSUME NEW r, NEW h \in Seq(Lock), NEW o \in Call, NEW ids, NEW d, NEW ns, NEW i \in Index,
         AskOK(h, o), Given(r, h, o, ids, d, ns), GraphOK(ids, d, ns),
         o.pc # "idle", ~ o.try, o.m \in Mutexes, Has(ids, d.epoch, o.m, i)
  PROVE  /\ GraphOK(ids, AddEdges(d, r, i), ns) /\ Grown(d, AddEdges(d, r, i))
         /\ \A j \in r.bv : <<j, i>> \in AddEdges(d, r, i).g
<1> PICK f \in Seq(Lock) : f = Told(h, o.pc)
  BY ToldParts
<1>0. /\ r \in Record /\ Counted(r, f, ids, d.epoch) /\ Asked(r, o, ids, d.epoch, ns)
      /\ d \in Detector /\ EpochOK(ids, d) /\ NodesOK(ids, d) /\ EdgesOK(ids, d, ns)
  BY DEF Given, GraphOK
<1> DEFINE a == AddEdges(d, r, i)
<1>1. /\ a \in Detector /\ a.epoch = d.epoch /\ a.available = d.available
      /\ a.recycled = d.recycled /\ a.g = d.g \cup (r.bv \X {i})
  <2>1. r.bv \subseteq Index
    BY <1>0 DEF Record
  <2> QED
    BY <1>0, <2>1 DEF AddEdges, Detector
<1> HIDE DEF a
<1>2. EpochOK(ids, a) /\ NodesOK(ids, a)
  <2>1. d.epoch # 0
    BY <1>0 DEF EpochOK, Has, InEpoch
  <2> QED
    BY <1>0, <1>1, <2>1 DEF EpochOK, NodesOK
<1>3. EdgesOK(ids, a, ns)
  <2> SUFFICES ASSUME NEW b \in Index, NEW c \in Index, <<b, c>> \in a.g
               PROVE  /\ b \notin a.available /\ b \notin a.recycled /\ c \notin a.available
                      /\ \A x, y \in Mutexes :
                           Has(ids, a.epoch, x, b) /\ Has(ids, a.epoch, y, c) => <<x, y>> \in ns
    BY DEF EdgesOK
  <2>1. CASE <<b, c>> \in d.g
    BY <1>0, <1>1, <2>1 DEF EdgesOK
  <2>2. CASE b \in r.bv /\ c = i
    <3>1. PICK k \in DOMAIN f : Has(ids, d.epoch, f[k].m, b)
      BY <1>0, <2>2, Owned
    <3>2. f[k] \in Lock
      BY LenProperties, ElementOfSeq
    <3>3. b \notin d.available /\ b \notin d.recycled /\ c \notin d.available
      BY <1>0, <2>2, <3>1, <3>2 DEF NodesOK, Lock
    <3>4. \A y \in Mutexes : Has(ids, d.epoch, y, c) => y = o.m
      BY <1>0, <2>2 DEF NodesOK
    <3>5. \A x \in Mutexes : Has(ids, d.epoch, x, b) => <<x, o.m>> \in ns
      BY <1>0, <2>2 DEF Asked
    <3> QED
      BY <1>1, <3>3, <3>4, <3>5
  <2> QED
    BY <1>1, <2>1, <2>2
<1> QED
  BY <1>1, <1>2, <1>3 DEF a, GraphOK, Grown

\* A step of thread t under the detector's mutex
LEMMA SlowStep ==
  ASSUME IInv, NEW t \in Threads, NEW m \in Mutexes,
         NEW d, NEW ids, NEW ns, Giving(m, d, ids, ns),
         NEW d2, Grown(d, d2), GraphOK(ids, d2, ns),
         NEW r \in Record, NEW o \in Call, r.epoch = d.epoch \/ r = dtls[t],
         ThreadOK(r, held[t], o, ids, d2, ns),
         id' = ids, dd' = d2, nested' = ns, dtls' = [dtls EXCEPT ![t] = r],
         op' = [op EXCEPT ![t] = o], UNCHANGED held
  PROVE  IInv'
<1>0. /\ d = EnsureDD(m) /\ ids = [id EXCEPT ![m] = EnsureNode(m)] /\ ns = NestedIn(d.epoch)
      /\ d2 \in Detector /\ d2.epoch = d.epoch
      /\ EpochOK(ids, d2) /\ NodesOK(ids, d2) /\ EdgesOK(ids, d2, ns)
  BY DEF Giving, Grown, GraphOK
<1>1. /\ id \in [Mutexes -> Nat] /\ dd \in Detector /\ nested \in SUBSET (Mutexes \X Mutexes)
      /\ dtls \in [Threads -> Record] /\ held \in [Threads -> Seq(Lock)]
      /\ op \in [Threads -> Call]
      /\ \A u \in Threads : dtls[u].epoch <= dd.epoch
  BY DEF IInv, DetectorInv, TypeInv
<1>2. d \in Detector /\ EnsureNode(m) \in Nat /\ (d.epoch = dd.epoch \/ d.epoch > dd.epoch)
  BY <1>0, Ensured DEF IInv
<1>3. ids \in [Mutexes -> Nat] /\ ns \in SUBSET (Mutexes \X Mutexes)
  BY <1>0, <1>1, <1>2 DEF NestedIn
<1> DEFINE rs == [dtls EXCEPT ![t] = r]
           os == [op EXCEPT ![t] = o]
<1>4. rs \in [Threads -> Record] /\ os \in [Threads -> Call]
  BY <1>1
<1>5. \A u \in Threads : rs[u].epoch <= d2.epoch
  BY <1>0, <1>1, <1>2 DEF Detector, Record
<1>6. \A u \in Threads : ThreadOK(rs[u], held[u], os[u], ids, d2, ns)
  <2> TAKE u \in Threads
  <2>1. ThreadOK(dtls[u], held[u], op[u], ids, d2, ns)
    BY NodeGiven
  <2> QED
    BY <1>1, <2>1
<1>7. dtls' = rs /\ op' = os /\ held' = held
  OBVIOUS
<1>8. /\ ids \in [Mutexes -> Nat] /\ d2 \in Detector /\ ns \in SUBSET (Mutexes \X Mutexes)
      /\ held \in [Threads -> Seq(Lock)]
      /\ EpochOK(ids, d2) /\ NodesOK(ids, d2) /\ EdgesOK(ids, d2, ns)
  BY <1>0, <1>1, <1>3
<1> HIDE DEF rs, os
<1> QED
  BY <1>4, <1>5, <1>6, <1>7, <1>8, Step

LEMMA Gives ==
  ASSUME IInv, NEW m \in Mutexes
  PROVE  \E d, ids, ns, i :
           /\ Giving(m, d, ids, ns) /\ GraphOK(ids, d, ns)
           /\ i = NodeIndex(EnsureNode(m)) /\ i \in Index
           /\ Has(ids, d.epoch, m, i)
<1> DEFINE d == EnsureDD(m)
           ids == [id EXCEPT ![m] = EnsureNode(m)]
           ns == NestedIn(d.epoch)
           i == NodeIndex(EnsureNode(m))
<1>1. Giving(m, d, ids, ns)
  BY DEF Giving
<1>2. GraphOK(ids, d, ns) /\ i \in Index /\ InEpoch(d.epoch, EnsureNode(m))
  BY Ensured DEF GraphOK, IInv
<1>3. ids[m] = EnsureNode(m)
  BY Parts DEF IInv, DetectorInv, TypeInv
<1>4. Has(ids, d.epoch, m, i)
  BY <1>2, <1>3 DEF Has
<1> HIDE DEF d, ids, ns
<1> QED
  BY <1>1, <1>2, <1>4

LEMMA BeforeLockSlowKeeps ==
  ASSUME IInv, NEW t \in Threads, BeforeLockSlow(t)
  PROVE  IInv'
<1> PICK o \in Call : o = op[t]
  BY Parts
<1> PICK h \in Seq(Lock) : h = held[t]
  BY Parts
<1>1. ThreadOK(dtls[t], h, o, id, dd, nested)
  BY Parts
<1>2. o.pc = "beforeSlow" /\ o.m \in Mutexes /\ ~ o.try /\ AskOK(h, o)
  BY <1>1 DEF BeforeLockSlow, At, Before, ThreadOK, AskOK
<1> PICK m \in Mutexes : m = op[t].m
  BY <1>2
<1>3. PICK d, ids, ns, i :
        /\ Giving(m, d, ids, ns) /\ GraphOK(ids, d, ns)
        /\ i = NodeIndex(EnsureNode(m)) /\ i \in Index
        /\ Has(ids, d.epoch, m, i)
  BY Gives
<1> PICK r : r = EnsureCurrentEpoch(dtls[t], d.epoch)
  OBVIOUS
<1>4. Grown(d, d)
  BY <1>3 DEF GraphOK, Grown
<1>5. \A x : Grown(d, x) => Given(r, h, o, ids, x, ns)
  BY <1>3, RecordGiven
<1>6. r \in Record /\ r.epoch = d.epoch /\ Given(r, h, o, ids, d, ns)
  BY <1>4, <1>5 DEF Given
<1> DEFINE s == [o EXCEPT !.pc = "acquire", !.node = 0, !.todo = {}]
<1>7. /\ op' = [op EXCEPT ![t] = s] /\ dtls' = [dtls EXCEPT ![t] = r]
      /\ id' = ids /\ nested' = ns /\ UNCHANGED held
      /\ dd' \in {d, AddEdges(d, r, i)}
  BY <1>3 DEF BeforeLockSlow, Goto, Giving
<1>8. s \in Call /\ s.pc = "acquire" /\ s.m = o.m /\ s.w = o.w /\ s.try = o.try
  BY DEF Call, Before
<1> HIDE DEF s
<1>9. ASSUME NEW d2 \in {d, AddEdges(d, r, i)}
      PROVE  GraphOK(ids, d2, ns) /\ Grown(d, d2)
  <2>1. o.pc # "idle" /\ Has(ids, d.epoch, o.m, i)
    BY <1>2, <1>3
  <2>2. GraphOK(ids, AddEdges(d, r, i), ns) /\ Grown(d, AddEdges(d, r, i))
    BY <1>2, <1>3, <1>6, <2>1, EdgesAdded
  <2> QED
    BY <1>3, <1>4, <2>2
<1>10. ASSUME NEW d2, Grown(d, d2)
       PROVE  ThreadOK(r, h, s, ids, d2, ns)
  <2>1. /\ Counted(r, Told(h, o.pc), ids, d2.epoch) /\ Joined(r, Told(h, o.pc), ids, d2.epoch, d2.g)
        /\ Asked(r, o, ids, d2.epoch, ns)
    BY <1>5, <1>10 DEF Given
  <2>2. Told(h, s.pc) = Told(h, o.pc)
    BY <1>2, <1>8 DEF Told, After
  <2>3. AskOK(h, s)
    BY <1>2, <1>8 DEF AskOK, Before, After
  <2>4. CallOK(r, s) /\ Reading(r, s, ids, d2.epoch, d2.g)
    BY <1>8 DEF CallOK, Reading
  <2>5. Asked(r, s, ids, d2.epoch, ns)
    BY <1>2, <1>8, <2>1 DEF Asked
  <2> QED
    BY <2>1, <2>2, <2>3, <2>4, <2>5 DEF ThreadOK, RecordOK
<1>11. PICK d2 \in {d, AddEdges(d, r, i)} : dd' = d2
  BY <1>7
<1>12. GraphOK(ids, d2, ns) /\ Grown(d, d2) /\ ThreadOK(r, held[t], s, ids, d2, ns)
  BY <1>9, <1>10
<1> QED
  BY <1>3, <1>6, <1>7, <1>8, <1>11, <1>12, SlowStep

LEMMA AfterLockSlowKeeps ==
  ASSUME IInv, NEW t \in Threads, AfterLockSlow(t)
  PROVE  IInv'
<1> PICK o \in Call : o = op[t]
  BY Parts
<1> PICK h \in Seq(Lock) : h = held[t]
  BY Parts
<1>1. ThreadOK(dtls[t], h, o, id, dd, nested)
  BY Parts
<1>2. o.pc = "afterSlow" /\ o.pc \in After /\ o.m \in Mutexes /\ AskOK(h, o)
  BY <1>1 DEF AfterLockSlow, At, After, ThreadOK, AskOK
<1> PICK m \in Mutexes : m = op[t].m
  BY <1>2
<1>3. PICK d, ids, ns, i :
        /\ Giving(m, d, ids, ns) /\ GraphOK(ids, d, ns)
        /\ i = NodeIndex(EnsureNode(m)) /\ i \in Index
        /\ Has(ids, d.epoch, m, i)
  BY Gives
<1> PICK r : r = EnsureCurrentEpoch(dtls[t], d.epoch)
  OBVIOUS
<1>4. Grown(d, d)
  BY <1>3 DEF GraphOK, Grown
<1>5. \A x : Grown(d, x) => Given(r, h, o, ids, x, ns)
  BY <1>3, RecordGiven
<1>6. /\ r \in Record /\ r.epoch = d.epoch /\ Given(r, h, o, ids, d, ns)
      /\ Counted(r, Told(h, o.pc), ids, d.epoch)
  BY <1>4, <1>5 DEF Given
<1>7. /\ Told(h, o.pc) \in Seq(Lock)
      /\ Len(Told(h, o.pc)) = Len(h) - 1
      /\ DOMAIN Told(h, o.pc) \subseteq DOMAIN h
      /\ \A k \in DOMAIN Told(h, o.pc) : Told(h, o.pc)[k] = h[k]
  BY <1>2, ToldParts
\* A lock for writing was not recorded yet
<1>8. ~ (o.w /\ i \in r.bv)
  <2> SUFFICES ASSUME o.w, i \in r.bv
               PROVE  FALSE
    OBVIOUS
  <2>1. PICK k \in DOMAIN Told(h, o.pc) : Has(ids, d.epoch, Told(h, o.pc)[k].m, i)
    BY <1>6, <1>7, Owned
  <2>2. k \in DOMAIN h /\ Told(h, o.pc)[k] = h[k] /\ h[k] \in Lock
    BY <1>7, LenProperties, ElementOfSeq
  <2>3. h[k].m = o.m
    BY <1>2, <1>3, <2>1, <2>2 DEF GraphOK, NodesOK, Lock
  <2>4. /\ Last(h) = h[Len(h)] /\ Len(h) \in DOMAIN h
    BY <1>2, ToldLast
  <2>5. k # Len(h)
    BY <1>7, <2>1, LenProperties
  <2> QED
    BY <1>2, <2>2, <2>3, <2>4, <2>5 DEF AskOK
<1> PICK d2 : d2 = IF o.try THEN d ELSE AddEdges(d, r, i)
  OBVIOUS
<1>9. /\ id' = ids /\ nested' = ns /\ UNCHANGED held /\ dd' = d2
      /\ RecordLock(t, r, i)
  BY <1>3, <1>8 DEF AfterLockSlow, Giving
<1>10. /\ GraphOK(ids, d2, ns) /\ Grown(d, d2)
       /\ ~ o.try => \A j \in r.bv : <<j, i>> \in d2.g
  <2>1. CASE o.try
    BY <2>1, <1>3, <1>4
  <2>2. CASE ~ o.try
    <3>1. o.pc # "idle" /\ Has(ids, d.epoch, o.m, i)
      BY <1>2, <1>3
    <3>2. /\ GraphOK(ids, AddEdges(d, r, i), ns) /\ Grown(d, AddEdges(d, r, i))
          /\ \A j \in r.bv : <<j, i>> \in AddEdges(d, r, i).g
      BY <1>2, <1>3, <1>6, <2>2, <3>1, EdgesAdded
    <3> QED
      BY <2>2, <3>2
  <2> QED
    BY <2>1, <2>2
<1>11. ~ Last(h).try => \A j \in r.bv \ {i} : <<j, i>> \in d2.g
  <2>1. CASE ~ o.try
    BY <1>10, <2>1
  <2>2. CASE o.try /\ ~ Last(h).try
    <3>1. Len(Told(h, o.pc)) = 0
      BY <1>2, <1>7, <2>2, LenProperties DEF AskOK
    <3>2. DOMAIN Told(h, o.pc) = {}
      BY <1>7, <3>1, LenProperties
    <3>3. r.bv = {}
      BY <1>6, <1>7, <3>2, Owned
    <3> QED
      BY <3>3
  <2> QED
    BY <2>1, <2>2
<1>12. Recordable(r, h, o, ids, d2, i)
  <2>1. d2.epoch = d.epoch /\ Given(r, h, o, ids, d2, ns)
    BY <1>5, <1>10 DEF Grown
  <2> QED
    BY <1>3, <1>11, <2>1 DEF Recordable, Given
<1>13. ThreadOK(AddLock(r, i), held[t], AtRest, ids, d2, ns)
  BY <1>2, <1>3, <1>6, <1>12, Records
<1>14. CASE Fits(r, i)
  <2>1. op' = [op EXCEPT ![t] = AtRest] /\ dtls' = [dtls EXCEPT ![t] = AddLock(r, i)]
    BY <1>9, <1>14 DEF RecordLock, Return
  <2>2. AddLock(r, i) \in Record /\ AddLock(r, i).epoch = d.epoch /\ AtRest \in Call
    BY <1>3, <1>6, AddLockType, RestType
  <2> QED
    BY <1>3, <1>9, <1>10, <1>13, <2>1, <2>2, SlowStep
<1>15. CASE ~ Fits(r, i)
  <2> DEFINE s == [o EXCEPT !.pc = "full", !.node = 0, !.todo = {}]
  <2>1. dtls[t] \in Record /\ dtls = [dtls EXCEPT ![t] = dtls[t]]
    BY Parts
  <2>2. op' = [op EXCEPT ![t] = s] /\ dtls' = [dtls EXCEPT ![t] = dtls[t]]
    BY <1>9, <1>15, <2>1 DEF RecordLock, Goto
  <2>3. ThreadOK(dtls[t], h, o, ids, d2, ns)
    BY <1>3, <1>10, NodeGiven
  <2>4. s \in Call /\ ThreadOK(dtls[t], held[t], s, ids, d2, ns)
    BY <1>2, <2>3, FullCall
  <2> HIDE DEF s
  <2> QED
    BY <1>3, <1>9, <1>10, <2>1, <2>2, <2>4, SlowStep
<1> QED
  BY <1>14, <1>15

\* A mutex nobody holds or asks for loses its node
LEMMA MutexDestroyKeeps ==
  ASSUME IInv, NEW m \in Mutexes, MutexDestroy(m)
  PROVE  IInv'
<1>1. /\ id \in [Mutexes -> Nat] /\ dd \in Detector /\ nested \in SUBSET (Mutexes \X Mutexes)
      /\ dtls \in [Threads -> Record] /\ held \in [Threads -> Seq(Lock)]
      /\ op \in [Threads -> Call]
      /\ EpochOK(id, dd) /\ NodesOK(id, dd) /\ EdgesOK(id, dd, nested)
  BY DEF IInv, DetectorInv, TypeInv
<1> DEFINE i == NodeIndex(id[m])
           d == IF NodeBelongsToCurrentEpoch(id[m]) THEN RemoveNode(dd, i) ELSE dd
           ids == [id EXCEPT ![m] = 0]
           ns == {p \in nested : m \notin {p[1], p[2]}}
<1>2. /\ id' = ids /\ dd' = d /\ nested' = ns
      /\ UNCHANGED <<dtls, held, op>>
      /\ \A t \in Threads : m \notin HeldBy(t) /\ op[t].m # m
  BY DEF MutexDestroy
<1>3. i \in Index
  BY <1>1, NodeParts
<1>4. /\ ids \in [Mutexes -> Nat] /\ \A x \in Mutexes : ids[x] = IF x = m THEN 0 ELSE id[x]
      /\ ns \in SUBSET (Mutexes \X Mutexes)
      /\ \A x, y \in Mutexes : <<x, y>> \in nested /\ x # m /\ y # m => <<x, y>> \in ns
  BY <1>1
<1>5. /\ d \in Detector /\ d.epoch = dd.epoch /\ d.available = dd.available
      /\ d.recycled = IF InEpoch(dd.epoch, id[m]) THEN dd.recycled \cup {i} ELSE dd.recycled
      /\ d.g \subseteq dd.g
      /\ \A a, b : <<a, b>> \in dd.g => (<<a, b>> \in d.g <=> ~ (InEpoch(dd.epoch, id[m]) /\ a = i))
  BY <1>1, <1>3 DEF RemoveNode, Detector, NodeBelongsToCurrentEpoch, InEpoch
<1>6. InEpoch(dd.epoch, id[m]) => Has(id, dd.epoch, m, i)
  BY DEF Has
<1> HIDE DEF i, d, ids, ns
<1>7. \A x \in Mutexes, j \in Index :
        Has(ids, dd.epoch, x, j) <=> x # m /\ Has(id, dd.epoch, x, j)
  BY <1>4 DEF Has, InEpoch
<1>8. EpochOK(ids, d)
  <2>1. \A x \in Mutexes : NodeEpoch(ids[x]) <= d.epoch /\ (ids[x] # 0 => NodeEpoch(ids[x]) # 0)
    BY <1>1, <1>4, <1>5, NodeZero DEF EpochOK, Detector
  <2>2. InEpoch(dd.epoch, id[m]) => dd.epoch # 0 /\ i \notin dd.available
    BY <1>1, <1>3, <1>6 DEF EpochOK, NodesOK, InEpoch
  <2> QED
    BY <1>1, <1>5, <2>1, <2>2 DEF EpochOK
<1>9. NodesOK(ids, d)
  <2> SUFFICES ASSUME NEW x \in Mutexes, NEW j \in Index, Has(ids, dd.epoch, x, j)
               PROVE  /\ j \notin d.available /\ j \notin d.recycled
                      /\ \A y \in Mutexes : Has(ids, dd.epoch, y, j) => y = x
    BY <1>5 DEF NodesOK
  <2>1. Has(id, dd.epoch, x, j) /\ x # m
    BY <1>7
  <2>2. InEpoch(dd.epoch, id[m]) => j # i
    BY <1>1, <1>3, <1>6, <2>1 DEF NodesOK
  <2> QED
    BY <1>1, <1>5, <1>7, <2>1, <2>2 DEF NodesOK
<1>10. EdgesOK(ids, d, ns)
  <2> SUFFICES ASSUME NEW a \in Index, NEW b \in Index, <<a, b>> \in d.g
               PROVE  /\ a \notin d.available /\ a \notin d.recycled /\ b \notin d.available
                      /\ \A x, y \in Mutexes :
                           Has(ids, dd.epoch, x, a) /\ Has(ids, dd.epoch, y, b) => <<x, y>> \in ns
    BY <1>5 DEF EdgesOK
  <2>1. <<a, b>> \in dd.g /\ ~ (InEpoch(dd.epoch, id[m]) /\ a = i)
    BY <1>5
  <2> QED
    BY <1>1, <1>4, <1>5, <1>7, <2>1 DEF EdgesOK
<1>11. ASSUME NEW u \in Threads
       PROVE  ThreadOK(dtls[u], held[u], op[u], ids, d, ns)
  <2> PICK o \in Call : o = op[u]
    BY Parts
  <2> PICK r \in Record : r = dtls[u]
    BY Parts
  <2> PICK h \in Seq(Lock) : h = held[u]
    BY Parts
  <2>1. ThreadOK(r, h, o, id, dd, nested)
    BY Parts
  <2>2. m \notin Involved(h, o) /\ o.m # m
    BY <1>2 DEF Involved, HeldBy
  <2>3. ASSUME r.epoch = d.epoch
        PROVE  RecordOK(r, h, o, ids, d, ns)
    <3>1. RecordOK(r, h, o, id, dd, nested) /\ AskOK(h, o)
      BY <1>5, <2>1, <2>3 DEF ThreadOK
    <3>2. Told(h, o.pc) \in Seq(Lock) /\ Counted(r, Told(h, o.pc), id, dd.epoch)
      BY <3>1, ToldParts DEF RecordOK
    <3>3. ASSUME NEW j \in r.bv
          PROVE  j \in Index /\ \A x \in Mutexes : Has(id, dd.epoch, x, j) => x # m
      <4>1. PICK k \in DOMAIN Told(h, o.pc) : Has(id, dd.epoch, Told(h, o.pc)[k].m, j)
        BY <3>2, Owned
      <4>2. /\ k \in DOMAIN h /\ Told(h, o.pc)[k] = h[k] /\ h[k] \in Lock
        BY <3>1, ToldParts, LenProperties, ElementOfSeq
      <4>3. h[k].m # m /\ h[k].m \in Mutexes /\ j \in Index
        BY <2>2, <4>2 DEF Involved, Lock, Record
      <4> QED
        BY <1>1, <4>1, <4>2, <4>3 DEF NodesOK
    <3>4. \A x \in Mutexes : x \in Involved(h, o) => ids[x] = id[x]
      BY <1>4, <2>2
    <3>5. \A x \in Mutexes, j \in r.bv : Has(ids, dd.epoch, x, j) => ids[x] = id[x]
      BY <1>4, <1>7, <3>3
    <3>6. \A x \in Mutexes, j \in r.bv :
            <<j, NodeIndex(id[x])>> \in dd.g => <<j, NodeIndex(id[x])>> \in d.g
      BY <1>5, <1>6, <3>3
    <3>7. ASSUME NEW x \in Mutexes, NEW j \in r.bv,
                 Has(id, dd.epoch, x, j), <<x, o.m>> \in nested
          PROVE  <<x, o.m>> \in ns
      <4>1. x # m /\ o.m \in Mutexes
        BY <1>1, <3>3, <3>7
      <4> QED
        BY <1>4, <2>2, <3>7, <4>1
    <3>8. Kept(r, h, o, id, dd, nested, ids, d, ns)
      BY <1>5, <3>4, <3>5, <3>6, <3>7 DEF Kept
    <3> QED
      BY <3>1, <3>8, Framed
  <2> QED
    BY <2>1, <2>3 DEF ThreadOK
<1>12. \A u \in Threads : dtls[u].epoch <= d.epoch
  BY <1>5 DEF IInv, DetectorInv
<1> QED
  BY <1>1, <1>2, <1>4, <1>5, <1>8, <1>9, <1>10, <1>11, <1>12, Step

-----------------------------------------------------------------------------
\* What a record counts is held, so it is never fuller than what is held
LEMMA Fewer ==
  ASSUME NEW A, NEW B, IsFiniteSet(A), IsFiniteSet(B), Cardinality(A) <= Cardinality(B)
  PROVE  \E g : g \in Injection(A, B)
<1> PICK a \in Nat : a = Cardinality(A)
  BY FS_CardinalityType
<1> PICK b \in Nat : b = Cardinality(B)
  BY FS_CardinalityType
<1>1. PICK f : f \in Bijection(1 .. a, A)
  BY FS_CardinalityType DEF ExistsBijection
<1>2. PICK g : g \in Bijection(1 .. b, B)
  BY FS_CardinalityType DEF ExistsBijection
<1>3. /\ f \in [1 .. a -> A] /\ \A x \in A : \E k \in 1 .. a : f[k] = x
      /\ g \in [1 .. b -> B] /\ \A k, l \in 1 .. b : g[k] = g[l] => k = l
  BY <1>1, <1>2 DEF Bijection, Injection, Surjection, IsInjective
<1> DEFINE place(x) == CHOOSE k \in 1 .. a : f[k] = x
           j == [x \in A |-> g[place(x)]]
<1>4. \A x \in A : place(x) \in 1 .. a /\ f[place(x)] = x
  BY <1>3
<1>5. a <= b
  OBVIOUS
<1>6. \A x \in A : place(x) \in 1 .. b /\ f[place(x)] = x
  BY <1>4, <1>5
<1> HIDE DEF place
<1>7. j \in [A -> B]
  BY <1>3, <1>6
<1>8. \A x, y \in A : j[x] = j[y] => x = y
  BY <1>3, <1>6
<1> HIDE DEF j
<1>9. j \in Injection(A, B)
  BY <1>7, <1>8 DEF Injection, IsInjective
<1> QED
  BY <1>9

LEMMA InSize ==
  ASSUME NEW A, NEW B, IsFiniteSet(B), NEW g \in [A -> B],
         \A x, y \in A : g[x] = g[y] => x = y
  PROVE  IsFiniteSet(A) /\ Cardinality(A) <= Cardinality(B)
<1>1. g \in Injection(A, B)
  BY DEF Injection, IsInjective
<1> QED
  BY <1>1, FS_Injection

\* Of each mutex that is held, the place where it was taken first
Firsts(h) ==
  {k \in DOMAIN h : \A l \in DOMAIN h : h[l].m = h[k].m => k <= l}

LEMMA FirstsCounted ==
  ASSUME NEW h \in Seq(Lock)
  PROVE  LET M == {h[k].m : k \in DOMAIN h}
         IN  /\ IsFiniteSet(M) /\ Cardinality(M) \in Nat
             /\ \A m \in M : \E k \in Firsts(h) : h[k].m = m
             /\ IsFiniteSet(DOMAIN h \ Firsts(h))
             /\ Cardinality(DOMAIN h \ Firsts(h)) = Len(h) - Cardinality(M)
<1> DEFINE M == {h[k].m : k \in DOMAIN h}
           F == Firsts(h)
<1>1. Len(h) \in Nat /\ DOMAIN h = 1 .. Len(h)
  BY LenProperties
<1>2. IsFiniteSet(DOMAIN h) /\ Cardinality(DOMAIN h) = Len(h)
  BY <1>1, FS_Interval
<1>3. ASSUME NEW m \in M
      PROVE  \E k \in F : h[k].m = m
  <2> DEFINE S == {k \in DOMAIN h : h[k].m = m}
  <2>1. S \in SUBSET Nat /\ S # {}
    BY <1>1
  <2> HIDE DEF S
  <2>2. Min(S) \in S /\ \A x \in S : Min(S) <= x
    BY <2>1, Smallest
  <2> QED
    BY <2>2 DEF S, Firsts
<1>4. F \in SUBSET DOMAIN h
  BY DEF Firsts
<1>5. IsFiniteSet(F)
  BY <1>2, <1>4, FS_Subset
<1> DEFINE f == [k \in F |-> h[k].m]
<1>6. f \in [F -> M]
  BY <1>4
<1>7. \A k, l \in F : f[k] = f[l] => k = l
  <2> TAKE k \in F, l \in F
  <2> HAVE f[k] = f[l]
  <2>1. k \in Nat /\ l \in Nat /\ h[k].m = h[l].m /\ k <= l /\ l <= k
    BY <1>1, <1>4 DEF Firsts
  <2> QED
    BY <2>1
<1>8. \A m \in M : \E k \in F : f[k] = m
  BY <1>3
<1> HIDE DEF f, M, F
<1>9. f \in Bijection(F, M)
  BY <1>6, <1>7, <1>8 DEF Bijection, Injection, Surjection, IsInjective
<1>10. IsFiniteSet(M) /\ Cardinality(M) = Cardinality(F)
  BY <1>5, <1>9, FS_Bijection DEF ExistsBijection
<1>11. Cardinality(M) \in Nat
  BY <1>10, FS_CardinalityType
<1>12. DOMAIN h \cap F = F
  BY <1>4
<1>13. /\ IsFiniteSet(DOMAIN h \ F)
       /\ Cardinality(DOMAIN h \ F) = Cardinality(DOMAIN h) - Cardinality(DOMAIN h \cap F)
  BY <1>2, FS_Difference
<1> QED
  BY <1>2, <1>3, <1>10, <1>11, <1>12, <1>13 DEF M, F

\* No node of the epoch is that of two mutexes
Unique(ids, e) ==
  \A m, n \in Mutexes, i \in Index : Has(ids, e, m, i) /\ Has(ids, e, n, i) => m = n

LEMMA CountedFits ==
  ASSUME NEW r \in Record, NEW h \in Seq(Lock), NEW ids, NEW e,
         Counted(r, h, ids, e), Unique(ids, e)
  PROVE  LET M == {h[k].m : k \in DOMAIN h}
         IN  /\ Cardinality(r.bv) \in Nat /\ Len(r.rec) \in Nat
             /\ Cardinality(r.bv) <= Cardinality(M)
             /\ Len(r.rec) <= Len(h) - Cardinality(M)
<1> DEFINE M == {h[k].m : k \in DOMAIN h}
           F == Firsts(h)
           B(i) == Holds(h, ids, e, i)
           A(i) == Again(r, i)
<1>1. /\ IsFiniteSet(M) /\ Cardinality(M) \in Nat
      /\ \A m \in M : \E k \in F : h[k].m = m
      /\ IsFiniteSet(DOMAIN h \ F)
      /\ Cardinality(DOMAIN h \ F) = Len(h) - Cardinality(M)
  BY FirstsCounted
<1>2. /\ r.bv \subseteq Index /\ r.rec \in Seq(Index)
      /\ Len(r.rec) \in Nat /\ DOMAIN r.rec = 1 .. Len(r.rec)
      /\ \A k \in DOMAIN r.rec : r.rec[k] \in r.bv
  BY LenProperties DEF Record, Counted
<1>3. \A k \in DOMAIN h : h[k].m \in Mutexes
  <2> TAKE k \in DOMAIN h
  <2>1. h[k] \in Lock
    BY LenProperties, ElementOfSeq
  <2> QED
    BY <2>1 DEF Lock
<1>4. Cardinality(r.bv) \in Nat /\ Cardinality(r.bv) <= Cardinality(M)
  <2> DEFINE owner == [i \in r.bv |-> CHOOSE m \in M : Has(ids, e, m, i)]
  <2>1. \A i \in r.bv : owner[i] \in M /\ Has(ids, e, owner[i], i)
    <3> TAKE i \in r.bv
    <3>1. \E k \in DOMAIN h : Has(ids, e, h[k].m, i)
      BY Owned
    <3>2. \E m \in M : Has(ids, e, m, i)
      BY <3>1
    <3> HIDE DEF M
    <3> QED
      BY <3>2
  <2>2. owner \in [r.bv -> M]
    BY <2>1
  <2> HIDE DEF owner, M
  <2>3. \A i, j \in r.bv : owner[i] = owner[j] => i = j
    BY <2>1 DEF Has
  <2>4. IsFiniteSet(r.bv) /\ Cardinality(r.bv) <= Cardinality(M)
    BY <1>1, <2>2, <2>3, InSize
  <2> QED
    BY <2>4, FS_CardinalityType
<1>5. ASSUME NEW i \in r.bv
      PROVE  \E g : g \in Injection(A(i), B(i) \ F)
  <2>1. IsFiniteSet(A(i)) /\ IsFiniteSet(B(i))
    <3>0. Len(h) \in Nat /\ DOMAIN h = 1 .. Len(h)
      BY LenProperties
    <3>1. IsFiniteSet(DOMAIN r.rec)
      BY <1>2, FS_Interval
    <3>3. IsFiniteSet(DOMAIN h)
      BY <3>0, FS_Interval
    <3>2. A(i) \in SUBSET DOMAIN r.rec /\ B(i) \in SUBSET DOMAIN h
      BY DEF Again, Holds
    <3> QED
      BY <3>1, <3>2, <3>3, FS_Subset
  <2>2. Cardinality(A(i)) < Cardinality(B(i))
    BY DEF Counted
  <2>3. PICK l \in DOMAIN h : Has(ids, e, h[l].m, i)
    BY Owned
  <2>4. \A k \in B(i) : h[k].m = h[l].m
    BY <1>2, <1>3, <2>3 DEF Holds, Unique
  <2>5. PICK f \in F : h[f].m = h[l].m
    BY <1>1
  <2>6. B(i) \ {f} \subseteq B(i) \ F
    <3> SUFFICES ASSUME NEW k \in B(i), k \in F PROVE k = f
      OBVIOUS
    <3>1. /\ k \in DOMAIN h /\ f \in DOMAIN h /\ h[k].m = h[f].m
          /\ k <= f /\ f <= k
      BY <2>4, <2>5 DEF Firsts
    <3>2. k \in Nat /\ f \in Nat
      BY <3>1, LenProperties
    <3> QED
      BY <3>1, <3>2
  <2>7. f \in B(i)
    BY <2>3, <2>5 DEF Holds, Firsts
  <2> HIDE DEF A, B, F
  <2>8. /\ IsFiniteSet(B(i) \ {f})
        /\ Cardinality(B(i) \ {f}) = Cardinality(B(i)) - 1
    BY <2>1, <2>7, FS_RemoveElement
  <2>9. Cardinality(A(i)) \in Nat /\ Cardinality(B(i)) \in Nat
    BY <2>1, FS_CardinalityType
  <2>10. Cardinality(A(i)) <= Cardinality(B(i) \ {f})
    BY <2>2, <2>8, <2>9
  <2>11. PICK g : g \in Injection(A(i), B(i) \ {f})
    BY <2>1, <2>8, <2>10, Fewer
  <2>12. g \in Injection(A(i), B(i) \ F)
    BY <2>6, <2>11 DEF Injection, IsInjective
  <2> QED
    BY <2>12
<1>6. Len(r.rec) <= Len(h) - Cardinality(M)
  <2> DEFINE G(i) == CHOOSE g : g \in Injection(A(i), B(i) \ F)
             j == [k \in DOMAIN r.rec |-> G(r.rec[k])[k]]
  <2>1. \A i \in r.bv : G(i) \in Injection(A(i), B(i) \ F)
    BY <1>5
  <2>2. \A i \in r.bv : \A k \in A(i) : G(i)[k] \in B(i) \ F
    <3> HIDE DEF A, B, F, G
    <3> QED
      BY <2>1 DEF Injection
  <2>3. \A i \in r.bv : \A k, l \in A(i) : G(i)[k] = G(i)[l] => k = l
    <3> HIDE DEF A, B, F, G
    <3> QED
      BY <2>1 DEF Injection, IsInjective
  <2>4. \A k \in DOMAIN r.rec : k \in A(r.rec[k])
    BY DEF Again
  <2>5. B(0) \ F \subseteq DOMAIN h /\ \A i : B(i) \subseteq DOMAIN h
    BY DEF Holds
  <2>6. \A i, l, k : k \in B(i) /\ k \in B(l) => i = l
    BY DEF Holds, Has
  <2> HIDE DEF A, B, F, G
  <2>7. j \in [DOMAIN r.rec -> DOMAIN h \ F]
    BY <1>2, <2>2, <2>4, <2>5
  <2>8. \A k, l \in DOMAIN r.rec : j[k] = j[l] => k = l
    <3> TAKE k \in DOMAIN r.rec, l \in DOMAIN r.rec
    <3> HAVE j[k] = j[l]
    <3>1. j[k] \in B(r.rec[k]) /\ j[l] \in B(r.rec[l])
      BY <1>2, <2>2, <2>4
    <3>2. r.rec[k] = r.rec[l]
      BY <2>6, <3>1
    <3> QED
      BY <1>2, <2>3, <2>4, <3>2
  <2> HIDE DEF j
  <2>9. Cardinality(DOMAIN r.rec) <= Cardinality(DOMAIN h \ F)
    BY <1>1, <2>7, <2>8, InSize
  <2>10. Cardinality(DOMAIN r.rec) = Len(r.rec)
    BY <1>2, FS_Interval
  <2> QED
    BY <1>1, <2>9, <2>10
<1> QED
  BY <1>2, <1>4, <1>6

\* Where addLock has no room, the thread holds more than there is room for
LEMMA NoRoom ==
  ASSUME limits \in [all : Nat \ {0}, recursive : Nat],
         NEW r \in Record, NEW h \in Seq(Lock), NEW o \in Call, AskOK(h, o), o.pc \in After,
         NEW ids, NEW d, NodesOK(ids, d), NEW i \in Index, Has(ids, d.epoch, o.m, i),
         Counted(r, Told(h, o.pc), ids, d.epoch), Joined(r, Told(h, o.pc), ids, d.epoch, d.g)
  PROVE  Fits(r, i) \/ TooMany(h)
<1> DEFINE s == AddLock(r, i)
           M == {h[k].m : k \in DOMAIN h}
<1>1. PICK f \in Seq(Lock), x \in Lock, e \in {d.epoch} :
        f = Told(h, o.pc) /\ Append(f, x) = h /\ x.m = o.m /\ e = d.epoch
  BY ToldLast, ToldParts DEF AskOK
<1>2. PICK g : g = d.g \cup (r.bv \X {i})
  OBVIOUS
<1>3. s \in Record /\ s.bv = r.bv \cup {i} /\ Counted(s, Append(f, x), ids, d.epoch)
  <2>1. Joined(r, f, ids, e, g)
    BY <1>1, <1>2 DEF Joined
  <2>2. Counted(r, f, ids, e) /\ Has(ids, e, x.m, i)
    BY <1>1
  <2>3. ~ x.try => \A j \in r.bv \ {i} : <<j, i>> \in g
    BY <1>2
  <2> HIDE DEF s
  <2>4. Counted(AddLock(r, i), Append(f, x), ids, e)
    BY <2>1, <2>2, <2>3, Taken
  <2>5. AddLock(r, i).bv = r.bv \cup {i}
    BY DEF AddLock, Record
  <2>6. AddLock(r, i) \in Record
    BY AddLockType
  <2> QED
    BY <1>1, <2>4, <2>5, <2>6 DEF s
<1>4. Unique(ids, d.epoch)
  BY DEF NodesOK, Unique
<1>5. /\ Cardinality(s.bv) \in Nat /\ Len(s.rec) \in Nat
      /\ Cardinality(s.bv) <= Cardinality(M)
      /\ Len(s.rec) <= Len(h) - Cardinality(M)
  BY <1>1, <1>3, <1>4, CountedFits
<1>6. /\ IsFiniteSet(M) /\ Cardinality(M) \in Nat /\ Len(h) \in Nat
  BY FirstsCounted, LenProperties
<1>7. TooMany(h) <=> Cardinality(M) > limits.all \/ Len(h) - Cardinality(M) > limits.recursive
  BY DEF TooMany
<1>8. limits.all \in Nat /\ limits.recursive \in Nat
  OBVIOUS
<1>9. CASE i \in r.bv
  <2>1. r.rec \in Seq(Index) /\ Len(r.rec) \in Nat
    BY LenProperties DEF Record
  <2>2. s.rec = Append(r.rec, i)
    BY <1>9 DEF AddLock, Record
  <2>3. Len(s.rec) = Len(r.rec) + 1
    BY <2>1, <2>2, AppendProperties
  <2>4. Fits(r, i) <=> Len(r.rec) < limits.recursive
    BY <1>9 DEF Fits
  <2> HIDE DEF s, M
  <2> QED
    BY <1>5, <1>6, <1>7, <1>8, <2>1, <2>3, <2>4
<1>10. CASE i \notin r.bv
  <2>1. Fits(r, i) <=> Cardinality(r.bv) < limits.all
    BY <1>10 DEF Fits
  <2>2. IsFiniteSet(r.bv)
    <3>1. IsFiniteSet(Index)
      BY NodesAssumption, FS_Interval DEF Index
    <3>2. r.bv \in SUBSET Index
      BY DEF Record
    <3> QED
      BY <3>1, <3>2, FS_Subset
  <2>3. Cardinality(s.bv) = Cardinality(r.bv) + 1 /\ Cardinality(r.bv) \in Nat
    BY <1>3, <1>10, <2>2, FS_AddElement, FS_CardinalityType
  <2> HIDE DEF s, M
  <2> QED
    BY <1>5, <1>6, <1>7, <1>8, <2>1, <2>3
<1> QED
  BY <1>9, <1>10

-----------------------------------------------------------------------------
\* Each step keeps the room: other threads' records and locks stay as they are
LEMMA RoomStep ==
  ASSUME IInv, RoomInv, limits' = limits, NEW t \in Threads,
         NEW r, NEW h, NEW o,
         dtls' = [dtls EXCEPT ![t] = r], held' = [held EXCEPT ![t] = h],
         op' = [op EXCEPT ![t] = o], Room(r, h, o)
  PROVE  RoomInv'
<1>1. /\ dtls \in [Threads -> Record] /\ held \in [Threads -> Seq(Lock)]
      /\ op \in [Threads -> Call]
  BY DEF IInv, DetectorInv, TypeInv
<1>2. ASSUME NEW u \in Threads PROVE Room(dtls[u], held[u], op[u])'
  <2>1. /\ dtls'[u] = IF u = t THEN r ELSE dtls[u]
        /\ held'[u] = IF u = t THEN h ELSE held[u]
        /\ op'[u] = IF u = t THEN o ELSE op[u]
    BY <1>1
  <2>2. Room(dtls'[u], held'[u], op'[u])
    BY <2>1 DEF RoomInv
  <2> QED
    BY <2>2 DEF Room, TooMany, Fits
<1>3. (limits \in [all : Nat \ {0}, recursive : Nat])'
  BY DEF RoomInv
<1> QED
  BY <1>2, <1>3 DEF RoomInv

\* A call that is neither reading edges nor at its end
LEMMA RoomElsewhere ==
  ASSUME NEW r, NEW h, NEW o, o.pc \notin {"full", "afterEdges"}
  PROVE  Room(r, h, o)
BY DEF Room

LEMMA ElsewhereKeepsRoom ==
  ASSUME IInv, RoomInv, limits' = limits, NEW t \in Threads,
         \/ BeforeLock(t) \/ BeforeLockFast(t) \/ BeforeLockSlow(t)
         \/ Acquire(t) \/ TryLock(t) \/ Unlock(t)
  PROVE  RoomInv'
<1>1. /\ dtls \in [Threads -> Record] /\ held \in [Threads -> Seq(Lock)]
      /\ op \in [Threads -> Call]
  BY DEF IInv, DetectorInv, TypeInv
<1>2. AtRest.pc = "idle"
  BY DEF AtRest
<1>3. PICK r, h, o : /\ dtls' = [dtls EXCEPT ![t] = r] /\ held' = [held EXCEPT ![t] = h]
                     /\ op' = [op EXCEPT ![t] = o] /\ o.pc \notin {"full", "afterEdges"}
  <2>0. /\ dtls = [dtls EXCEPT ![t] = dtls[t]] /\ held = [held EXCEPT ![t] = held[t]]
        /\ op = [op EXCEPT ![t] = op[t]] /\ op[t] \in Call
    BY <1>1
  <2>1. CASE BeforeLock(t)
    <3>1. PICK m \in Mutexes, w \in BOOLEAN :
            LET a == [AtRest EXCEPT !.m = m, !.w = w]
            IN  IF dtls[t].bv = {} THEN op' = [op EXCEPT ![t] = [a EXCEPT !.pc = "acquire"]]
                ELSE ReadEpochs(t, a, "beforeEdges", "beforeSlow")
      BY <2>1 DEF BeforeLock
    <3> DEFINE a == [AtRest EXCEPT !.m = m, !.w = w]
    <3>2. \/ op' = [op EXCEPT ![t] = [a EXCEPT !.pc = "acquire"]]
          \/ op' = [op EXCEPT ![t] = [a EXCEPT !.pc = "beforeEdges", !.node = id[a.m],
                                               !.todo = dtls[t].bv]]
          \/ op' = [op EXCEPT ![t] = [a EXCEPT !.pc = "beforeSlow"]]
      BY <3>1 DEF ReadEpochs
    <3>3. /\ [a EXCEPT !.pc = "acquire"].pc = "acquire"
          /\ [a EXCEPT !.pc = "beforeEdges", !.node = id[a.m],
                       !.todo = dtls[t].bv].pc = "beforeEdges"
          /\ [a EXCEPT !.pc = "beforeSlow"].pc = "beforeSlow"
      BY DEF AtRest
    <3>4. dtls' = dtls /\ held' = held
      BY <2>1 DEF BeforeLock
    <3> HIDE DEF a
    <3>5. PICK o : op' = [op EXCEPT ![t] = o] /\ o.pc \in {"acquire", "beforeEdges", "beforeSlow"}
      BY <3>2, <3>3
    <3>6. o.pc \notin {"full", "afterEdges"}
      BY <3>5
    <3>7. /\ dtls' = [dtls EXCEPT ![t] = dtls[t]]
          /\ held' = [held EXCEPT ![t] = held[t]]
      BY <2>0, <3>4
    <3> QED
      BY <3>5, <3>6, <3>7
  <2>2. CASE BeforeLockFast(t) \/ BeforeLockSlow(t)
    <3> DEFINE o == [op[t] EXCEPT !.pc = "acquire", !.node = 0, !.todo = {}]
    <3>1. op' = [op EXCEPT ![t] = o] /\ held' = held
      BY <2>2 DEF BeforeLockFast, BeforeLockSlow, Goto
    <3>2. \E r : dtls' = [dtls EXCEPT ![t] = r]
      BY <2>0, <2>2 DEF BeforeLockFast, BeforeLockSlow
    <3>3. o.pc = "acquire"
      BY <2>0 DEF Call
    <3> HIDE DEF o
    <3> QED
      BY <2>0, <3>1, <3>2, <3>3
  <2>3. CASE Acquire(t)
    <3> DEFINE o == [op[t] EXCEPT !.pc = AfterLock(t), !.node = 0, !.todo = {}]
    <3>1. op' = [op EXCEPT ![t] = o] /\ dtls' = dtls
      BY <2>3 DEF Acquire, Goto
    <3>2. \E h : held' = [held EXCEPT ![t] = h]
      BY <2>3 DEF Acquire
    <3>3. o.pc \in {"first", "after"}
      BY <2>0 DEF Call, AfterLock
    <3> HIDE DEF o
    <3> QED
      BY <2>0, <3>1, <3>2, <3>3
  <2>4. CASE TryLock(t)
    <3>1. PICK m \in Tried, w \in BOOLEAN :
            op' = [op EXCEPT ![t] =
                     [AtRest EXCEPT !.m = m, !.w = w, !.try = TRUE, !.pc = AfterLock(t)]]
      BY <2>4 DEF TryLock
    <3> DEFINE o == [AtRest EXCEPT !.m = m, !.w = w, !.try = TRUE, !.pc = AfterLock(t)]
    <3>2. \E h : held' = [held EXCEPT ![t] = h]
      BY <2>4 DEF TryLock
    <3>3. o.pc \in {"first", "after"}
      BY DEF AtRest, AfterLock
    <3>4. op' = [op EXCEPT ![t] = o] /\ dtls' = dtls
      BY <2>4, <3>1 DEF TryLock
    <3> HIDE DEF o
    <3> QED
      BY <2>0, <3>2, <3>3, <3>4
  <2>5. CASE Unlock(t)
    <3>1. \E r, h : dtls' = [dtls EXCEPT ![t] = r] /\ held' = [held EXCEPT ![t] = h]
      BY <2>5 DEF Unlock
    <3>2. op' = op /\ op[t].pc = "idle"
      BY <2>5 DEF Unlock, At
    <3> QED
      BY <2>0, <3>1, <3>2
  <2> QED
    BY <2>1, <2>2, <2>3, <2>4, <2>5
<1> QED
  BY <1>3, RoomElsewhere, RoomStep

LEMMA ReadEdgeKeepsRoom ==
  ASSUME IInv, RoomInv, limits' = limits, NEW t \in Threads, ReadEdge(t)
  PROVE  RoomInv'
<1> PICK o \in Call : o = op[t]
  BY Parts
<1>1. /\ dtls = [dtls EXCEPT ![t] = dtls[t]] /\ held = [held EXCEPT ![t] = held[t]]
      /\ dtls' = dtls /\ held' = held
      /\ Room(dtls[t], held[t], o)
  BY Parts DEF ReadEdge, RoomInv
<1>2. PICK s : op' = [op EXCEPT ![t] = s]
               /\ (s.pc \notin {"full", "afterEdges"} \/ (s.pc = o.pc /\ s.node = o.node))
  <2>1. CASE <<NextEdge(t), NodeIndex(o.node)>> \in dd.g
    <3> DEFINE s == [o EXCEPT !.todo = @ \ {NextEdge(t)}]
    <3>1. op' = [op EXCEPT ![t] = s]
      BY <2>1 DEF ReadEdge
    <3>2. s.pc = o.pc /\ s.node = o.node
      BY DEF Call
    <3> HIDE DEF s
    <3> QED
      BY <3>1, <3>2
  <2>2. CASE <<NextEdge(t), NodeIndex(o.node)>> \notin dd.g
    <3> DEFINE l == IF o.pc = "beforeEdges" THEN "beforeSlow" ELSE "afterSlow"
               s == [o EXCEPT !.pc = l, !.node = 0, !.todo = {}]
    <3>1. op' = [op EXCEPT ![t] = s]
      BY <2>2 DEF ReadEdge, Goto, At
    <3>2. s.pc \in {"beforeSlow", "afterSlow"}
      BY DEF Call
    <3> HIDE DEF s
    <3> QED
      BY <3>1, <3>2
  <2> QED
    BY <2>1, <2>2
<1>3. Room(dtls[t], held[t], s)
  BY <1>1, <1>2 DEF Room
<1> QED
  BY <1>1, <1>2, <1>3, RoomStep

\* A call that starts to read edges is of a lock that has room, or there is none
\* because the thread holds too many; and a flush since then changes neither
LEMMA AfterReadEpochsKeepsRoom ==
  ASSUME IInv, RoomInv, limits' = limits, NEW t \in Threads, AfterReadEpochs(t)
  PROVE  RoomInv'
<1> PICK o \in Call : o = op[t]
  BY Parts
<1> PICK r \in Record : r = dtls[t]
  BY Parts
<1> PICK h \in Seq(Lock) : h = held[t]
  BY Parts
<1>1. /\ ThreadOK(r, h, o, id, dd, nested)
      /\ dtls' = [dtls EXCEPT ![t] = r] /\ held' = [held EXCEPT ![t] = h]
      /\ NodesOK(id, dd)
  BY Parts DEF AfterReadEpochs, IInv, DetectorInv
<1>2. o.pc = "after" /\ o.pc \in After /\ o.m \in Mutexes /\ AskOK(h, o)
  BY <1>1 DEF AfterReadEpochs, At, After, ThreadOK, AskOK
<1>3. CASE EpochsAgree(t, o.m)
  <2> DEFINE s == [o EXCEPT !.pc = "afterEdges", !.node = id[o.m], !.todo = r.bv]
             i == NodeIndex(id[o.m])
  <2>1. op' = [op EXCEPT ![t] = s]
    BY <1>3 DEF AfterReadEpochs, ReadEpochs
  <2>2. s.pc = "afterEdges" /\ s.node = id[o.m]
    BY DEF Call
  <2>3. id[o.m] \in Nat
    BY <1>2, Parts
  <2>4. i \in Index
    BY <2>3, NodeParts
  <2>5. r.epoch = dd.epoch /\ Has(id, dd.epoch, o.m, i)
    BY <1>3 DEF EpochsAgree, Has, InEpoch
  <2>6. /\ Counted(r, Told(h, o.pc), id, dd.epoch)
        /\ Joined(r, Told(h, o.pc), id, dd.epoch, dd.g)
    BY <1>1, <2>5 DEF ThreadOK, RecordOK
  <2>7. limits \in [all : Nat \ {0}, recursive : Nat]
    BY DEF RoomInv
  <2> HIDE DEF s, i
  <2>8. Fits(r, i) \/ TooMany(h)
    BY <1>1, <1>2, <2>4, <2>5, <2>6, <2>7, NoRoom
  <2>9. Room(r, h, s)
    BY <2>2, <2>8 DEF Room, i
  <2> QED
    BY <1>1, <2>1, <2>9, RoomStep
<1>4. CASE ~ EpochsAgree(t, o.m)
  <2> DEFINE s == [o EXCEPT !.pc = "afterSlow"]
  <2>1. op' = [op EXCEPT ![t] = s]
    BY <1>4 DEF AfterReadEpochs, ReadEpochs
  <2>2. s.pc = "afterSlow"
    BY DEF Call
  <2> HIDE DEF s
  <2> QED
    BY <1>1, <2>1, <2>2, RoomElsewhere, RoomStep
<1> QED
  BY <1>3, <1>4

\* The lock goes to the record, or to a call that ends the process
LEMMA RecordLockKeepsRoom ==
  ASSUME IInv, RoomInv, limits' = limits, NEW t \in Threads, NEW r, NEW i,
         RecordLock(t, r, i), held' = held, Fits(r, i) \/ TooMany(held[t])
  PROVE  RoomInv'
<1> PICK o \in Call : o = op[t]
  BY Parts
<1>1. dtls = [dtls EXCEPT ![t] = dtls[t]] /\ held' = [held EXCEPT ![t] = held[t]]
  BY Parts
<1>2. CASE Fits(r, i)
  <2>1. dtls' = [dtls EXCEPT ![t] = AddLock(r, i)] /\ op' = [op EXCEPT ![t] = AtRest]
    BY <1>2 DEF RecordLock, Return
  <2>2. Room(AddLock(r, i), held[t], AtRest)
    BY RoomElsewhere DEF AtRest
  <2> QED
    BY <1>1, <2>1, <2>2, RoomStep
<1>3. CASE ~ Fits(r, i)
  <2> DEFINE s == [o EXCEPT !.pc = "full", !.node = 0, !.todo = {}]
  <2>1. op' = [op EXCEPT ![t] = s] /\ dtls' = [dtls EXCEPT ![t] = dtls[t]]
    BY <1>1, <1>3 DEF RecordLock, Goto
  <2>2. s.pc = "full"
    BY DEF Call
  <2> HIDE DEF s
  <2>3. Room(dtls[t], held[t], s)
    BY <1>3, <2>2 DEF Room
  <2> QED
    BY <1>1, <2>1, <2>3, RoomStep
<1> QED
  BY <1>2, <1>3

LEMMA FirstLockKeepsRoom ==
  ASSUME IInv, RoomInv, limits' = limits, NEW t \in Threads, FirstLock(t)
  PROVE  RoomInv'
<1> PICK o \in Call : o = op[t]
  BY Parts
<1> PICK r \in Record : r = dtls[t]
  BY Parts
<1>1. r.bv = {} /\ held' = held
  BY Parts DEF FirstLock, At, ThreadOK, CallOK
<1>2. Fits(r, NodeIndex(id[o.m]))
  <2>1. Cardinality(r.bv) = 0 /\ limits.all > 0
    BY <1>1, FS_EmptySet DEF RoomInv
  <2> QED
    BY <1>1, <2>1 DEF Fits
<1>3. CASE RecordLock(t, r, NodeIndex(id[o.m]))
  BY <1>1, <1>2, <1>3, RecordLockKeepsRoom
<1>4. CASE Goto(t, "after") /\ UNCHANGED dtls
  <2> DEFINE s == [o EXCEPT !.pc = "after", !.node = 0, !.todo = {}]
  <2>1. op' = [op EXCEPT ![t] = s]
    BY <1>4 DEF Goto
  <2>2. s.pc = "after"
    BY DEF Call
  <2>3. /\ dtls' = [dtls EXCEPT ![t] = dtls[t]] /\ held' = [held EXCEPT ![t] = held[t]]
    BY <1>1, <1>4, Parts
  <2> HIDE DEF s
  <2> QED
    BY <2>1, <2>2, <2>3, RoomElsewhere, RoomStep
<1> QED
  BY <1>3, <1>4 DEF FirstLock

LEMMA AfterLockFastKeepsRoom ==
  ASSUME IInv, RoomInv, limits' = limits, NEW t \in Threads, AfterLockFast(t)
  PROVE  RoomInv'
<1>1. /\ RecordLock(t, dtls[t], NodeIndex(op[t].node)) /\ held' = held
      /\ op[t].pc = "afterEdges"
  BY DEF AfterLockFast, At
<1>2. Fits(dtls[t], NodeIndex(op[t].node)) \/ TooMany(held[t])
  BY <1>1 DEF RoomInv, Room
<1> QED
  BY <1>1, <1>2, RecordLockKeepsRoom

LEMMA AfterLockSlowKeepsRoom ==
  ASSUME IInv, RoomInv, limits' = limits, NEW t \in Threads, AfterLockSlow(t)
  PROVE  RoomInv'
<1> PICK o \in Call : o = op[t]
  BY Parts
<1> PICK h \in Seq(Lock) : h = held[t]
  BY Parts
<1>1. ThreadOK(dtls[t], h, o, id, dd, nested)
  BY Parts
<1>2. o.pc = "afterSlow" /\ o.pc \in After /\ o.m \in Mutexes /\ AskOK(h, o)
  BY <1>1 DEF AfterLockSlow, At, After, ThreadOK, AskOK
<1> PICK m \in Mutexes : m = op[t].m
  BY <1>2
<1>3. PICK d, ids, ns, i :
        /\ Giving(m, d, ids, ns) /\ GraphOK(ids, d, ns)
        /\ i = NodeIndex(EnsureNode(m)) /\ i \in Index
        /\ Has(ids, d.epoch, m, i)
  BY Gives
<1> PICK r : r = EnsureCurrentEpoch(dtls[t], d.epoch)
  OBVIOUS
<1>4. Given(r, h, o, ids, d, ns)
  <2>1. Grown(d, d)
    BY <1>3 DEF GraphOK, Grown
  <2> QED
    BY <1>3, <2>1, RecordGiven
<1>5. Fits(r, i) \/ TooMany(h)
  <2>1. /\ r \in Record /\ Counted(r, Told(h, o.pc), ids, d.epoch)
        /\ Joined(r, Told(h, o.pc), ids, d.epoch, d.g)
        /\ NodesOK(ids, d) /\ Has(ids, d.epoch, o.m, i)
    BY <1>3, <1>4 DEF Given, GraphOK
  <2>2. limits \in [all : Nat \ {0}, recursive : Nat]
    BY DEF RoomInv
  <2> QED
    BY <1>2, <1>3, <2>1, <2>2, NoRoom
<1>6. held' = held
  BY DEF AfterLockSlow
<1>7. \/ RecordLock(t, r, i)
      \/ Goto(t, "dead") /\ UNCHANGED dtls
  BY <1>3 DEF AfterLockSlow, Giving
<1>8. CASE RecordLock(t, r, i)
  BY <1>5, <1>6, <1>8, RecordLockKeepsRoom
<1>9. CASE Goto(t, "dead") /\ UNCHANGED dtls
  <2> DEFINE s == [o EXCEPT !.pc = "dead", !.node = 0, !.todo = {}]
  <2>1. op' = [op EXCEPT ![t] = s]
    BY <1>9 DEF Goto
  <2>2. s.pc = "dead"
    BY DEF Call
  <2>3. /\ dtls' = [dtls EXCEPT ![t] = dtls[t]] /\ held' = [held EXCEPT ![t] = held[t]]
    BY <1>6, <1>9, Parts
  <2> HIDE DEF s
  <2> QED
    BY <2>1, <2>2, <2>3, RoomElsewhere, RoomStep
<1> QED
  BY <1>7, <1>8, <1>9

-----------------------------------------------------------------------------
LEMMA InitIInv == Init => IInv
<1> SUFFICES ASSUME Init PROVE IInv
  OBVIOUS
<1>1. <<>> \in Seq(Index) /\ <<>> \in Seq(Lock) /\ DOMAIN <<>> = {}
  BY EmptySeq
<1>2. kSize \in Nat \ {0} /\ NodeIndex(0) = 0
  BY NodesAssumption, NodeParts, NodeZero DEF Index
<1>3. AtRest \in Call /\ AtRest.pc = "idle"
  BY RestType
<1>4. TypeInv
  BY <1>1, <1>3 DEF Init, TypeInv, Detector, Record
<1>5. /\ \A t \in Threads : dtls[t].epoch <= dd.epoch
      /\ EpochOK(id, dd)
  BY <1>2, NodeZero DEF Init, EpochOK, Multiple
<1>6. NodesOK(id, dd) /\ EdgesOK(id, dd, nested)
  BY DEF Init, NodesOK, EdgesOK, Has, InEpoch
<1>7. ASSUME NEW t \in Threads
      PROVE  ThreadOK(dtls[t], held[t], op[t], id, dd, nested)
  <2>1. held[t] = <<>> /\ op[t] = AtRest /\ dtls[t].bv = {} /\ DOMAIN dtls[t].rec = {}
    BY <1>1 DEF Init
  <2>2. AskOK(held[t], op[t]) /\ CallOK(dtls[t], op[t])
    BY <1>1, <1>3, <2>1 DEF AskOK, CallOK, Before, After
  <2>3. RecordOK(dtls[t], held[t], op[t], id, dd, nested)
    BY <1>3, <2>1 DEF RecordOK, Counted, Joined, Asked, Reading
  <2> QED
    BY <2>2, <2>3 DEF ThreadOK
<1> QED
  BY <1>4, <1>5, <1>6, <1>7 DEF IInv, DetectorInv, ThreadInv

LEMMA NextIInv == IInv /\ [Next]_vars => IInv'
<1> SUFFICES ASSUME IInv, [Next]_vars PROVE IInv'
  OBVIOUS
<1>1. CASE UNCHANGED vars
  BY <1>1 DEF vars, IInv, DetectorInv, ThreadInv, TypeInv
<1>2. ASSUME NEW t \in Threads,
             \/ BeforeLock(t) \/ ReadEdge(t) \/ BeforeLockFast(t) \/ BeforeLockSlow(t)
             \/ Acquire(t) \/ TryLock(t)
             \/ FirstLock(t) \/ AfterReadEpochs(t) \/ AfterLockFast(t) \/ AfterLockSlow(t)
             \/ Unlock(t)
      PROVE  IInv'
  BY <1>2, BeforeLockKeeps, ReadEdgeKeeps, BeforeLockFastKeeps, BeforeLockSlowKeeps,
     AcquireKeeps, TryLockKeeps, FirstLockKeeps, AfterReadEpochsKeeps, AfterLockFastKeeps,
     AfterLockSlowKeeps, UnlockKeeps
<1>3. ASSUME NEW m \in Dying, MutexDestroy(m)
      PROVE  IInv'
  <2>1. m \in Mutexes
    BY MutexesAssumption
  <2> QED
    BY <1>3, <2>1, MutexDestroyKeeps
<1> QED
  BY <1>1, <1>2, <1>3 DEF Next

\* The inductive invariant: nodes are unique and not vacant, edges stand for what
\* was nested, and each thread's record of the present epoch counts what it holds
THEOREM Inductive == Spec => []IInv
BY InitIInv, NextIInv, PTL DEF Spec

LEMMA InitRoomInv == Init => RoomInv
<1> SUFFICES ASSUME Init PROVE RoomInv
  OBVIOUS
<1>1. limits \in [all : Nat \ {0}, recursive : Nat]
  BY LimitsAssumption DEF Init
<1>2. \A t \in Threads : op[t] = AtRest /\ AtRest.pc = "idle"
  BY RestType DEF Init
<1> QED
  BY <1>1, <1>2 DEF RoomInv, Room

LEMMA NextRoomInv == IInv /\ RoomInv /\ [Next]_vars => RoomInv'
<1> SUFFICES ASSUME IInv, RoomInv, [Next]_vars PROVE RoomInv'
  OBVIOUS
<1>1. CASE UNCHANGED <<limits, dtls, held, op>>
  BY <1>1 DEF RoomInv, Room, TooMany, Fits
<1>2. ASSUME limits' = limits, NEW t \in Threads,
             \/ BeforeLock(t) \/ ReadEdge(t) \/ BeforeLockFast(t) \/ BeforeLockSlow(t)
             \/ Acquire(t) \/ TryLock(t)
             \/ FirstLock(t) \/ AfterReadEpochs(t) \/ AfterLockFast(t) \/ AfterLockSlow(t)
             \/ Unlock(t)
      PROVE  RoomInv'
  BY <1>2, ElsewhereKeepsRoom, ReadEdgeKeepsRoom, FirstLockKeepsRoom,
     AfterReadEpochsKeepsRoom, AfterLockFastKeepsRoom, AfterLockSlowKeepsRoom
<1>3. ASSUME limits' = limits, NEW m \in Dying, MutexDestroy(m)
      PROVE  RoomInv'
  BY <1>1, <1>3 DEF MutexDestroy
<1> QED
  BY <1>1, <1>2, <1>3 DEF Next, vars

\* A record that has no room is that of a thread that holds more than the record
\* is for, whatever was flushed, recycled or unlocked before
THEOREM RecordsHaveRoom == Spec => []RoomInv
BY Inductive, InitRoomInv, NextRoomInv, PTL DEF Spec

\* NoCheckFails: no thread records a lock for writing twice, no record overflows
\* unless the thread holds more locks than it is for, and no two mutexes share a
\* node
THEOREM ChecksPass == Spec => []NoCheckFails
<1>1. ASSUME IInv, RoomInv PROVE NoCheckFails
  <2>1. ASSUME NEW t \in Threads
        PROVE  ~ At(t, "dead") /\ (At(t, "full") => HoldsTooMany(t))
    <3>1. op[t] \in Call
      BY <1>1, Parts
    <3>2. At(t, "full") => TooMany(held[t])
      BY <1>1 DEF At, RoomInv, Room
    <3>3. ~ At(t, "dead")
      BY <3>1 DEF At, Call, Before, After
    <3> QED
      BY <3>2, <3>3 DEF TooMany, HoldsTooMany, HeldBy
  <2>2. ASSUME NEW m \in Mutexes, NodeBelongsToCurrentEpoch(id[m])
        PROVE  /\ NodeIndex(id[m]) \in Live
               /\ OwnersOf(NodeIndex(id[m])) = {m}
    <3> DEFINE i == NodeIndex(id[m])
    <3>1. /\ NodesOK(id, dd) /\ id \in [Mutexes -> Nat] /\ Multiple(dd.epoch) /\ dd.epoch \in Nat
      BY <1>1 DEF IInv, DetectorInv, TypeInv, EpochOK, Multiple
    <3>2. i \in Index /\ id[m] = dd.epoch + i
      BY <2>2, <3>1, NodeParts DEF NodeBelongsToCurrentEpoch
    <3>3. Has(id, dd.epoch, m, i)
      BY <2>2 DEF Has, InEpoch, NodeBelongsToCurrentEpoch
    <3>4. i \notin dd.available /\ i \notin dd.recycled
      BY <3>1, <3>2, <3>3 DEF NodesOK
    <3>5. \A n \in Mutexes : id[n] = dd.epoch + i => n = m
      BY <3>1, <3>2, <3>3 DEF NodesOK, Has
    <3> QED
      BY <3>2, <3>4, <3>5 DEF Live, OwnersOf
  <2> QED
    BY <2>1, <2>2 DEF NoCheckFails
<1> QED
  BY <1>1, Inductive, RecordsHaveRoom, PTL

\* EdgesReal: no edge of the graph is one that the program's locks did not make
THEOREM NoEdgeInvented == Spec => []EdgesReal
<1>1. ASSUME IInv PROVE EdgesReal
  <2> SUFFICES ASSUME NEW e \in dd.g, NEW m \in OwnersOf(e[1]), NEW n \in OwnersOf(e[2]),
                      e[1] \in Live, e[2] \in Live
               PROVE  <<m, n>> \in nested
    BY DEF EdgesReal
  <2>1. /\ EdgesOK(id, dd, nested) /\ Multiple(dd.epoch) /\ dd.g \subseteq Index \X Index
        /\ dd.epoch = 0 => dd.g = {}
        /\ \A x \in Mutexes : id[x] # 0 => NodeEpoch(id[x]) # 0
    BY <1>1 DEF IInv, DetectorInv, TypeInv, EpochOK, Detector
  <2>2. e[1] \in Index /\ e[2] \in Index /\ e = <<e[1], e[2]>>
    BY <2>1
  <2>3. m \in Mutexes /\ n \in Mutexes /\ id[m] = dd.epoch + e[1] /\ id[n] = dd.epoch + e[2]
    BY DEF OwnersOf
  <2>4. /\ NodeEpoch(id[m]) = dd.epoch /\ NodeIndex(id[m]) = e[1]
        /\ NodeEpoch(id[n]) = dd.epoch /\ NodeIndex(id[n]) = e[2]
    BY <2>1, <2>2, <2>3, NodeSum
  <2>5. Has(id, dd.epoch, m, e[1]) /\ Has(id, dd.epoch, n, e[2])
    <3>1. dd.epoch \in Nat /\ dd.epoch # 0
      BY <2>1 DEF Multiple
    <3>2. id[m] # 0 /\ id[n] # 0
      BY <2>2, <2>3, <3>1 DEF Index
    <3> QED
      BY <2>4, <3>2 DEF Has, InEpoch
  <2> QED
    BY <2>1, <2>2, <2>3, <2>5 DEF EdgesOK
<1> QED
  BY <1>1, Inductive, PTL

\* EdgesComplete: the fast path, which takes no lock, misses no edge
THEOREM NoEdgeMissed == Spec => []EdgesComplete
<1>1. ASSUME IInv PROVE EdgesComplete
  <2> SUFFICES ASSUME NEW t \in Threads, At(t, "idle"), dtls[t].epoch = dd.epoch,
                      NEW p \in DOMAIN held[t], NEW q \in DOMAIN held[t],
                      p < q, ~ held[t][q].try,
                      \A k \in DOMAIN held[t] : q <= k => held[t][k].m # held[t][p].m,
                      NodeBelongsToCurrentEpoch(id[held[t][p].m]),
                      NodeIndex(id[held[t][p].m]) \in dtls[t].bv,
                      NodeBelongsToCurrentEpoch(id[held[t][q].m])
               PROVE  <<NodeIndex(id[held[t][p].m]), NodeIndex(id[held[t][q].m])>> \in dd.g
    BY DEF EdgesComplete
  <2> PICK h \in Seq(Lock) : h = held[t]
    BY <1>1, Parts
  <2> PICK r \in Record : r = dtls[t]
    BY <1>1, Parts
  <2> DEFINE m == h[p].m
             i == NodeIndex(id[m])
             j == NodeIndex(id[h[q].m])
  <2>1. RecordOK(r, h, op[t], id, dd, nested)
    BY <1>1, Parts DEF ThreadOK
  <2>2. Told(h, op[t].pc) = h
    BY DEF At, Told, After
  <2>3. Joined(r, h, id, dd.epoch, dd.g)
    BY <2>1, <2>2 DEF RecordOK
  <2>4. /\ NodesOK(id, dd) /\ i \in Index
        /\ \A k \in DOMAIN h : h[k].m \in Mutexes
        /\ DOMAIN h \subseteq Nat
    <3>1. \A k \in DOMAIN h : h[k] \in Lock
      BY LenProperties, ElementOfSeq
    <3> QED
      BY <1>1, <3>1, LenProperties DEF IInv, DetectorInv, Lock, Record
  <2>5. Has(id, dd.epoch, m, i) /\ i \in r.bv
    BY DEF Has, InEpoch, NodeBelongsToCurrentEpoch
  <2> HIDE DEF i, m
  <2>6. \A k \in DOMAIN h : Has(id, dd.epoch, h[k].m, i) => h[k].m = m
    BY <2>4, <2>5 DEF NodesOK, m
  <2>7. ~ Has(id, dd.epoch, h[q].m, i)
    BY <2>4, <2>6 DEF m
  <2>8. Later(h, id, dd.epoch, i, q) = {}
    BY <2>4, <2>6 DEF Later, Holds, m
  <2>9. ~ (Cardinality(Again(r, i)) < Cardinality(Later(h, id, dd.epoch, i, q)))
    <3>1. Cardinality(Again(r, i)) \in Nat
      BY AgainFinite
    <3>2. Cardinality({}) = 0
      BY FS_EmptySet
    <3> QED
      BY <2>8, <3>1, <3>2
  <2>10. <<i, j>> \in dd.g
    BY <2>3, <2>5, <2>7, <2>9 DEF Joined
  <2> QED
    BY <2>10 DEF i, m
<1> QED
  BY <1>1, Inductive, PTL
=============================================================================
