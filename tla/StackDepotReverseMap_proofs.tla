--------------------- MODULE StackDepotReverseMap_proofs ---------------------
(* The depot for any stacks and hash, any number of buckets, parts and        *)
(* identifiers, and any number of threads and forks.                          *)
(*                                                                            *)
(* A bucket has one owner: the Put that locked it or the thread that forks.   *)
(* The owner knows that its stack is not in the list, because what came in    *)
(* after its search without the lock is in front of the node it started from. *)
(* Identifiers differ because a part numbers them, and a list only grows.     *)
EXTENDS StackDepotReverseMap, FiniteSetTheorems, SequenceTheorems, TLAPS

Parts == 0 .. kTabSize \div kPartSize - 1
Node == [id : Nat, stack : Stacks]
Tab == [Buckets -> Seq(Node)]

Inserting == {"insert", "alloc", "dead"}
Putting == Inserting \cup {"find", "lock", "found"}
Op == [pc : Putting \cup {"idle", "get", "lockall", "fork", "unlockall", "answered", "gone"},
       arg : Stacks \cup Nat \cup {NoStack}, seen : Nat, id : Nat, i : 0 .. kTabSize]

TypeInv ==
  /\ tab \in Tab
  /\ lockBit \in [Buckets -> BOOLEAN]
  /\ seq \in [Parts -> Nat]
  /\ op \in [Threads -> Op]

\* Who holds the lock of a bucket
Owns(o, b) ==
  \/ o.pc \in Inserting \cup {"found"} /\ b = Hash[o.arg]
  \/ o.pc = "lockall" /\ b < o.i
  \/ o.pc = "fork"
  \/ o.pc = "unlockall" /\ b >= o.i

LocksOK(p, lb) ==
  \A t \in Threads, b \in Buckets : Owns(p[t], b) =>
    lb[b] /\ \A u \in Threads : Owns(p[u], b) => u = t

\* A stack is in its own bucket, once
ListsOK(tb) ==
  \A b \in Buckets : \A i \in DOMAIN tb[b] :
    /\ Hash[tb[b][i].stack] = b
    /\ \A j \in DOMAIN tb[b] : tb[b][i].stack = tb[b][j].stack => i = j

\* Identifiers a part has given to one of its buckets
Given(sq, b, id) ==
  \E n \in 1 .. sq[b \div kPartSize] : n < kMaxId /\ id = (b \div kPartSize) * kMaxId + n

IdsOK(tb, sq) ==
  \A b \in Buckets : \A i \in DOMAIN tb[b] :
    /\ Given(sq, b, tb[b][i].id)
    /\ \A c \in Buckets : \A j \in DOMAIN tb[c] : tb[b][i].id = tb[c][j].id => b = c /\ i = j

\* What a thread knows where it is
PutOK(o, tb, sq) ==
  LET list == tb[Hash[o.arg]]
  IN  /\ o.arg \in Stacks
      /\ o.pc = "lock" => /\ o.seen <= Len(list)
                          /\ \A i \in DOMAIN list : i > Len(list) - o.seen => list[i].stack # o.arg
      /\ o.pc = "found" => \E i \in DOMAIN list : list[i] = [id |-> o.id, stack |-> o.arg]
      /\ o.pc \in Inserting => \A i \in DOMAIN list : list[i].stack # o.arg
      /\ o.pc = "alloc" => Given(sq, Hash[o.arg], o.id)
                           /\ \A b \in Buckets : \A i \in DOMAIN tb[b] : tb[b][i].id # o.id

GetOK(o, tb) ==
  /\ o.arg \in Nat /\ o.i < kPartSize
  /\ \E k \in o.i .. kPartSize - 1 :
       LET b == (o.arg \div kMaxId) * kPartSize + k
       IN  b \in Buckets /\ \E i \in DOMAIN tb[b] : tb[b][i].id = o.arg

PlaceOK(o, tb, sq) ==
  /\ o.pc \in Putting => PutOK(o, tb, sq)
  /\ o.pc = "get" => GetOK(o, tb)
  /\ o.pc \in {"idle", "fork"} => o.i = 0
  /\ o.pc \in {"lockall", "unlockall"} => o.i \in Buckets

PlacesOK(p, tb, sq) ==
  /\ \A t \in Threads : PlaceOK(p[t], tb, sq)
  /\ \A t, u \in Threads :
       p[t].pc = "alloc" /\ p[u].pc = "alloc" /\ p[t].id = p[u].id => t = u

IInv ==
  /\ TypeInv
  /\ LocksOK(op, lockBit)
  /\ ListsOK(tab) /\ IdsOK(tab, seq)
  /\ PlacesOK(op, tab, seq)

-----------------------------------------------------------------------------
\* Numbers
LEMMA Sizes ==
  /\ kTabSize \in Nat /\ kTabSize > 0 /\ kPartSize \in Nat /\ kPartSize > 0
  /\ kMaxId \in Nat /\ kMaxId > 0
  /\ kTabSize % kPartSize = 0 /\ Hash \in [Stacks -> Buckets]
BY DepotAssumption DEF Buckets

\* A number is determined by its quotient and remainder
LEMMA QuotientUnique ==
  ASSUME NEW K \in Nat, NEW p \in Nat, NEW q \in Nat, NEW m \in 0 .. K - 1, NEW n \in 0 .. K - 1,
         p * K + m = q * K + n
  PROVE  p = q /\ m = n
<1>1. CASE p = q
  <2>1. p * K \in Int
    OBVIOUS
  <2> QED BY <1>1, <2>1
<1>2. ASSUME NEW a \in Nat, NEW b \in Nat, NEW i \in 0 .. K - 1, NEW j \in 0 .. K - 1,
             a < b, a * K + i = b * K + j
      PROVE  FALSE
  <2>1. PICK d \in Nat : b = a + 1 + d
    <3>1. b - a - 1 \in Nat /\ b = a + 1 + (b - a - 1)
      BY <1>2
    <3> QED BY <3>1
  <2>2. b * K = a * K + K + d * K
    BY <2>1
  <2>3. a * K \in Int /\ b * K \in Int /\ d * K >= 0
    OBVIOUS
  <2> QED BY <1>2, <2>2, <2>3
<1>3. CASE p < q
  BY <1>2, <1>3
<1>4. CASE q < p
  BY <1>2, <1>4
<1> QED BY <1>1, <1>3, <1>4

LEMMA QuotientOf ==
  ASSUME NEW K \in Nat, K > 0, NEW b \in Nat
  PROVE  /\ b \div K \in Nat
         /\ \E k \in 0 .. K - 1 : b = (b \div K) * K + k
         /\ \A p \in Nat, n \in 0 .. K - 1 : b = p * K + n => b \div K = p
<1>1. /\ b \div K \in Int /\ b % K \in 0 .. K - 1
      /\ b = K * (b \div K) + (b % K)
  OBVIOUS
<1>2. b \div K >= 0
  <2> SUFFICES ASSUME b \div K < 0 PROVE FALSE
    BY <1>1
  <2>1. \A x \in Int : x < 0 => K * x <= - K
    OBVIOUS
  <2>2. K * (b \div K) <= - K
    BY <1>1, <2>1
  <2>3. K * (b \div K) \in Int
    BY <1>1
  <2> QED BY <1>1, <2>2, <2>3
<1>3. b = (b \div K) * K + (b % K)
  BY <1>1
<1>4. ASSUME NEW p \in Nat, NEW n \in 0 .. K - 1, b = p * K + n PROVE b \div K = p
  <2>1. b \div K \in Nat
    BY <1>1, <1>2
  <2> QED BY <1>1, <1>3, <1>4, <2>1, QuotientUnique
<1> QED BY <1>1, <1>2, <1>3, <1>4

\* The parts cover the buckets
LEMMA PartOf ==
  ASSUME NEW b \in Buckets
  PROVE  /\ b \div kPartSize \in Parts /\ b \div kPartSize \in Nat
         /\ \E k \in 0 .. kPartSize - 1 : b = (b \div kPartSize) * kPartSize + k
<1> DEFINE p == b \div kPartSize
           m == kTabSize \div kPartSize
<1>1. b \in Nat /\ b < kTabSize
  BY Sizes DEF Buckets
<1>2. p \in Nat
  BY <1>1, Sizes, QuotientOf
<1>3. PICK k \in 0 .. kPartSize - 1 : b = p * kPartSize + k
  BY <1>1, Sizes, QuotientOf
<1>4. m \in Nat
  BY Sizes, QuotientOf
<1>5. PICK j \in 0 .. kPartSize - 1 : kTabSize = m * kPartSize + j
  BY Sizes, QuotientOf
<1>6. kTabSize = m * kPartSize
  BY Sizes
<1> HIDE DEF p, m
<1>7. p < m
  <2> SUFFICES ASSUME p >= m PROVE FALSE
    BY <1>2, <1>4
  <2>1. PICK d \in Nat : p = m + d
    <3>1. p - m \in Nat /\ p = m + (p - m)
      BY <1>2, <1>4
    <3> QED BY <3>1
  <2>2. p * kPartSize = m * kPartSize + d * kPartSize
    BY <1>4, <2>1, Sizes
  <2>3. d * kPartSize >= 0 /\ d * kPartSize \in Int /\ m * kPartSize \in Int
    BY <1>4, Sizes
  <2> QED BY <1>1, <1>3, <1>6, <2>2, <2>3, Sizes
<1>8. p \in Parts
  BY <1>2, <1>4, <1>7 DEF Parts, m
<1> QED BY <1>2, <1>3, <1>8 DEF p

\* An identifier says which part gave it, and when
LEMMA GivenBy ==
  ASSUME NEW b \in Buckets, NEW n \in 1 .. kMaxId - 1
  PROVE  LET p == b \div kPartSize
             id == p * kMaxId + n
         IN  /\ id \in Nat /\ id \in 1 .. kTabSize * kMaxId
             /\ id \div kMaxId = p
             /\ \A c \in Buckets, m \in 1 .. kMaxId - 1 :
                  id = (c \div kPartSize) * kMaxId + m => c \div kPartSize = p /\ m = n
<1> DEFINE p == b \div kPartSize
           id == p * kMaxId + n
<1>1. p \in Nat /\ \A c \in Buckets : c \div kPartSize \in Nat
  BY PartOf
<1>2. b \in Nat /\ b + 1 <= kTabSize
  BY Sizes DEF Buckets
<1>3. p <= b
  <2>1. PICK k \in 0 .. kPartSize - 1 : b = p * kPartSize + k
    BY PartOf
  <2>2. \A x, y \in Nat : y > 0 => x * y >= x
    <3> SUFFICES ASSUME NEW x \in Nat, NEW y \in Nat, y > 0 PROVE x * y >= x
      OBVIOUS
    <3>1. x * y = x + x * (y - 1)
      OBVIOUS
    <3>2. x * (y - 1) >= 0 /\ x * (y - 1) \in Int
      OBVIOUS
    <3> QED BY <3>1, <3>2
  <2> HIDE DEF p
  <2>3. p * kPartSize >= p /\ p * kPartSize \in Int
    BY <1>1, <2>2, Sizes
  <2> QED BY <1>1, <1>2, <2>1, <2>3, Sizes
<1> HIDE DEF p
<1>4. p * kMaxId \in Nat /\ (p + 1) * kMaxId <= kTabSize * kMaxId
      /\ (p + 1) * kMaxId = p * kMaxId + kMaxId /\ kTabSize * kMaxId \in Nat
  <2>1. PICK d \in Nat : kTabSize = p + 1 + d
    <3>1. kTabSize - p - 1 \in Nat /\ kTabSize = p + 1 + (kTabSize - p - 1)
      BY <1>1, <1>2, <1>3, Sizes
    <3> QED BY <3>1
  <2>2. kTabSize * kMaxId = (p + 1) * kMaxId + d * kMaxId
    BY <1>1, <2>1, Sizes
  <2>3. d * kMaxId >= 0 /\ d * kMaxId \in Int /\ p * kMaxId \in Nat /\ kTabSize * kMaxId \in Nat
    BY <1>1, Sizes
  <2>4. (p + 1) * kMaxId = p * kMaxId + kMaxId
    BY <1>1, Sizes
  <2> QED BY <2>2, <2>3, <2>4, Sizes
<1>5. id \in Nat /\ id \in 1 .. kTabSize * kMaxId
  BY <1>4, Sizes
<1>6. n \in 0 .. kMaxId - 1
  BY Sizes
<1>7. id \div kMaxId = p
  BY <1>1, <1>5, <1>6, Sizes, QuotientOf
<1>8. ASSUME NEW c \in Buckets, NEW m \in 1 .. kMaxId - 1, id = (c \div kPartSize) * kMaxId + m
      PROVE  c \div kPartSize = p /\ m = n
  <2>1. PICK q \in Nat : q = c \div kPartSize
    BY <1>1
  <2>2. m \in 0 .. kMaxId - 1 /\ kMaxId \in Nat /\ p * kMaxId + n = q * kMaxId + m
    BY <1>8, <2>1, Sizes
  <2>3. p = q /\ n = m
    BY <1>1, <1>6, <2>2, QuotientUnique
  <2> QED BY <2>1, <2>3
<1> QED BY <1>5, <1>7, <1>8 DEF p

\* A node put in front of a list
LEMMA PushedFront ==
  ASSUME NEW s \in Seq(Node), NEW x \in Node
  PROVE  LET a == <<x>> \o s
         IN  /\ a \in Seq(Node) /\ Len(a) = Len(s) + 1
             /\ DOMAIN a = 1 .. Len(s) + 1 /\ DOMAIN s = 1 .. Len(s) /\ Len(s) \in Nat
             /\ a[1] = x
             /\ \A i \in DOMAIN s : i + 1 \in DOMAIN a /\ a[i + 1] = s[i]
             /\ \A i \in DOMAIN a : i = 1 \/ (i - 1 \in DOMAIN s /\ a[i] = s[i - 1])
<1> DEFINE a == <<x>> \o s
<1>1. /\ <<x>> \in Seq(Node) /\ Len(<<x>>) = 1 /\ <<x>>[1] = x
  OBVIOUS
<1>2. /\ a \in Seq(Node) /\ Len(a) = Len(s) + 1
      /\ \A i \in 1 .. Len(s) + 1 : a[i] = IF i <= 1 THEN <<x>>[i] ELSE s[i - 1]
  BY <1>1, ConcatProperties, LenProperties
<1>3. /\ Len(s) \in Nat /\ DOMAIN s = 1 .. Len(s) /\ DOMAIN a = 1 .. Len(s) + 1
  BY <1>2, LenProperties
<1> HIDE DEF a
<1>4. a[1] = x
  BY <1>1, <1>2, <1>3
<1>5. \A i \in DOMAIN s : i + 1 \in DOMAIN a /\ a[i + 1] = s[i]
  <2> SUFFICES ASSUME NEW i \in DOMAIN s PROVE i + 1 \in DOMAIN a /\ a[i + 1] = s[i]
    OBVIOUS
  <2>1. i \in Nat /\ i + 1 \in 1 .. Len(s) + 1 /\ ~ (i + 1 <= 1) /\ i + 1 - 1 = i
    BY <1>3
  <2> QED BY <1>2, <1>3, <2>1
<1>6. \A i \in DOMAIN a : i = 1 \/ (i - 1 \in DOMAIN s /\ a[i] = s[i - 1])
  <2> SUFFICES ASSUME NEW i \in DOMAIN a, i # 1 PROVE i - 1 \in DOMAIN s /\ a[i] = s[i - 1]
    OBVIOUS
  <2>1. i \in 1 .. Len(s) + 1 /\ ~ (i <= 1) /\ i - 1 \in 1 .. Len(s)
    BY <1>3
  <2> QED BY <1>2, <1>3, <2>1
<1> QED BY <1>2, <1>3, <1>4, <1>5, <1>6 DEF a

-----------------------------------------------------------------------------
\* A step of one thread
Moved(p, q, t) == \A u \in Threads : u # t => q[u] = p[u]

\* What it takes is free, what it gives up is its own
OwnStep(o, x, lb, lc) ==
  \A b \in Buckets : /\ Owns(x, b) => lc[b] /\ (Owns(o, b) \/ ~ lb[b])
                     /\ lb[b] => lc[b] \/ Owns(o, b)

LEMMA OpSet ==
  ASSUME TypeInv, NEW t \in Threads, NEW x \in Op, op' = [op EXCEPT ![t] = x]
  PROVE  op' \in [Threads -> Op] /\ op'[t] = x /\ Moved(op, op', t)
BY DEF TypeInv, Moved

LEMMA LocksStep ==
  ASSUME NEW p, NEW q, NEW lb, NEW lc, NEW t \in Threads,
         LocksOK(p, lb), Moved(p, q, t), OwnStep(p[t], q[t], lb, lc)
  PROVE  LocksOK(q, lc)
<1> SUFFICES ASSUME NEW u \in Threads, NEW b \in Buckets, Owns(q[u], b)
             PROVE  lc[b] /\ \A v \in Threads : Owns(q[v], b) => v = u
  BY DEF LocksOK
<1>1. CASE u = t
  <2>1. lc[b] /\ (Owns(p[t], b) \/ ~ lb[b])
    BY <1>1 DEF OwnStep
  <2>2. ASSUME NEW v \in Threads, Owns(q[v], b), v # t PROVE FALSE
    <3>1. Owns(p[v], b)
      BY <2>2 DEF Moved
    <3> QED BY <2>1, <2>2, <3>1 DEF LocksOK
  <2> QED BY <1>1, <2>1, <2>2
<1>2. CASE u # t
  <2>1. Owns(p[u], b)
    BY <1>2 DEF Moved
  <2>2. lb[b] /\ ~ Owns(p[t], b)
    BY <1>2, <2>1 DEF LocksOK
  <2>3. lc[b] /\ ~ Owns(q[t], b)
    BY <2>2 DEF OwnStep
  <2>4. ASSUME NEW v \in Threads, Owns(q[v], b) PROVE v = u
    <3>1. v # t
      BY <2>3, <2>4
    <3>2. Owns(p[v], b)
      BY <2>4, <3>1 DEF Moved
    <3> QED BY <2>1, <3>2 DEF LocksOK
  <2> QED BY <2>3, <2>4
<1> QED BY <1>1, <1>2

LEMMA PlacesStep ==
  ASSUME NEW p, NEW q, NEW tb, NEW sq, NEW t \in Threads,
         PlacesOK(p, tb, sq), Moved(p, q, t), PlaceOK(q[t], tb, sq), q[t].pc # "alloc"
  PROVE  PlacesOK(q, tb, sq)
<1>1. \A u \in Threads : PlaceOK(q[u], tb, sq)
  BY DEF Moved, PlacesOK
<1>2. ASSUME NEW u \in Threads, NEW v \in Threads,
             q[u].pc = "alloc", q[v].pc = "alloc", q[u].id = q[v].id
      PROVE  u = v
  <2>1. u # t /\ v # t
    BY <1>2
  <2>2. q[u] = p[u] /\ q[v] = p[v]
    BY <2>1 DEF Moved
  <2> QED BY <1>2, <2>2 DEF PlacesOK
<1> QED BY <1>1, <1>2 DEF PlacesOK

\* A step that changes no list and gives no identifier
LEMMA QuietStep ==
  ASSUME IInv, NEW t \in Threads, NEW x \in Op, op' = [op EXCEPT ![t] = x],
         tab' = tab, seq' = seq, lockBit' \in [Buckets -> BOOLEAN],
         OwnStep(op[t], x, lockBit, lockBit'), PlaceOK(x, tab, seq), x.pc # "alloc"
  PROVE  IInv'
<1>1. TypeInv /\ op' \in [Threads -> Op] /\ op'[t] = x /\ Moved(op, op', t)
  BY OpSet DEF IInv
<1>2. LocksOK(op', lockBit')
  BY <1>1, LocksStep DEF IInv
<1>3. PlacesOK(op', tab, seq)
  BY <1>1, PlacesStep DEF IInv
<1>4. TypeInv'
  BY <1>1 DEF TypeInv
<1> QED BY <1>2, <1>3, <1>4 DEF IInv

\* The places from which a thread asks and to which it comes back
LEMMA Restarted ==
  ASSUME NEW a \in Stacks \cup Nat \cup {NoStack}
  PROVE  /\ NotCalling \in Op
         /\ LET x == [NotCalling EXCEPT !.pc = "answered", !.arg = a]
            IN  /\ x \in Op /\ x.pc = "answered" /\ x.arg = a
                /\ \A b \in Buckets : ~ Owns(x, b) /\ ~ Owns(NotCalling, b)
                /\ \A tb, sq : PlaceOK(x, tb, sq) /\ PlaceOK(NotCalling, tb, sq)
<1>1. NotCalling \in Op
  BY Sizes DEF NotCalling, NoId, Op
<1> DEFINE x == [NotCalling EXCEPT !.pc = "answered", !.arg = a]
<1>2. x \in Op
  <2>1. "answered" \in Putting \cup {"idle", "get", "lockall", "fork", "unlockall", "answered", "gone"}
    OBVIOUS
  <2> QED BY <1>1, <2>1, Zenon DEF Op
<1>3. x.pc = "answered" /\ x.arg = a /\ NotCalling.pc = "idle" /\ NotCalling.i = 0
  <2>1. NotCalling.pc = "idle" /\ NotCalling.i = 0
    BY DEF NotCalling
  <2>2. x.pc = "answered" /\ x.arg = a
    BY <1>1 DEF Op
  <2> QED BY <2>1, <2>2
<1> HIDE DEF x
<1>4. \A b \in Buckets : ~ Owns(x, b) /\ ~ Owns(NotCalling, b)
  BY <1>3 DEF Owns, Inserting
<1>5. \A tb, sq : PlaceOK(x, tb, sq) /\ PlaceOK(NotCalling, tb, sq)
  BY <1>3 DEF PlaceOK, Putting, Inserting
<1> QED BY <1>1, <1>2, <1>3, <1>4, <1>5 DEF x

\* The ways in which a step changes its thread's place
Places == Putting \cup {"idle", "get", "lockall", "fork", "unlockall", "answered", "gone"}
Args == Stacks \cup Nat \cup {NoStack}
Sets(t, x) == x \in Op /\ op' = [op EXCEPT ![t] = x]
SameCall(x, o) == x.arg = o.arg /\ x.seen = o.seen /\ x.id = o.id /\ x.i = o.i
Answering(a) == [NotCalling EXCEPT !.pc = "answered", !.arg = a]

LEMMA Typed ==
  ASSUME NEW o \in Op
  PROVE  /\ o.pc \in Places /\ o.arg \in Args /\ o.seen \in Nat /\ o.id \in Nat
         /\ o.i \in Nat /\ o.i <= kTabSize
BY Sizes DEF Op, Places, Args

WithPc(o, l) == [o EXCEPT !.pc = l]
WithArg(o, l, a) == [o EXCEPT !.pc = l, !.arg = a]
WithId(o, l, n) == [o EXCEPT !.pc = l, !.id = n]
WithSeen(o, l, n) == [o EXCEPT !.pc = l, !.seen = n]
WithPlace(o, i) == [o EXCEPT !.i = i]

LEMMA PcSet ==
  ASSUME NEW o \in Op, NEW l \in Places
  PROVE  LET x == WithPc(o, l) IN x \in Op /\ x.pc = l /\ SameCall(x, o)
<1>1. [o EXCEPT !.pc = l] \in Op
  BY Zenon DEF Op, Places, Args
<1> QED BY <1>1 DEF Op, SameCall, WithPc

LEMMA PcArgSet ==
  ASSUME NEW o \in Op, NEW l \in Places, NEW a \in Args
  PROVE  LET x == WithArg(o, l, a) IN x \in Op /\ x.pc = l /\ x.arg = a /\ x.i = o.i
<1>1. [o EXCEPT !.pc = l, !.arg = a] \in Op
  BY Zenon DEF Op, Places, Args
<1> QED BY <1>1 DEF Op, SameCall, WithArg

LEMMA PcIdSet ==
  ASSUME NEW o \in Op, NEW l \in Places, NEW n \in Nat
  PROVE  LET x == WithId(o, l, n) IN x \in Op /\ x.pc = l /\ x.arg = o.arg /\ x.id = n
<1>1. [o EXCEPT !.pc = l, !.id = n] \in Op
  BY Zenon DEF Op, Places, Args
<1> QED BY <1>1 DEF Op, SameCall, WithId

LEMMA PcSeenSet ==
  ASSUME NEW o \in Op, NEW l \in Places, NEW n \in Nat
  PROVE  LET x == WithSeen(o, l, n) IN x \in Op /\ x.pc = l /\ x.arg = o.arg /\ x.seen = n
<1>1. [o EXCEPT !.pc = l, !.seen = n] \in Op
  BY Zenon DEF Op, Places, Args
<1> QED BY <1>1 DEF Op, SameCall, WithSeen

LEMMA PlaceSet ==
  ASSUME NEW o \in Op, NEW i \in 0 .. kTabSize
  PROVE  LET x == WithPlace(o, i) IN x \in Op /\ x.pc = o.pc /\ x.arg = o.arg /\ x.i = i
<1>1. [o EXCEPT !.i = i] \in Op
  BY Zenon DEF Op, Places, Args
<1> QED BY <1>1 DEF Op, SameCall, WithPlace

LEMMA Goes ==
  ASSUME TypeInv, NEW t \in Threads, NEW l \in Places, Goto(t, l)
  PROVE  \E x : Sets(t, x) /\ x.pc = l /\ SameCall(x, op[t])
<1>1. op[t] \in Op
  BY DEF TypeInv
<1>2. op' = [op EXCEPT ![t] = WithPc(op[t], l)]
  BY DEF Goto, WithPc
<1>3. Sets(t, WithPc(op[t], l))
  BY <1>1, <1>2, PcSet DEF Sets
<1> QED BY <1>1, <1>3, PcSet

LEMMA Answers ==
  ASSUME NEW t \in Threads, NEW a \in Args, Answer(t, a)
  PROVE  /\ Sets(t, Answering(a)) /\ Answering(a).pc = "answered" /\ Answering(a).arg = a
         /\ \A b \in Buckets : ~ Owns(Answering(a), b)
         /\ \A tb, sq : PlaceOK(Answering(a), tb, sq)
BY Restarted DEF Answer, Sets, Answering, Args

LEMMA StartsAgain ==
  /\ NotCalling \in Op /\ NotCalling.pc = "idle" /\ NotCalling.i = 0
  /\ \A b \in Buckets : ~ Owns(NotCalling, b)
  /\ \A tb, sq : PlaceOK(NotCalling, tb, sq)
<1>1. 0 \in Stacks \cup Nat \cup {NoStack}
  OBVIOUS
<1> QED BY <1>1, Restarted DEF NotCalling

LEMMA AnswerStep ==
  ASSUME IInv, NEW t \in Threads, NEW a \in Args, Answer(t, a),
         tab' = tab, seq' = seq, lockBit' \in [Buckets -> BOOLEAN],
         \A b \in Buckets : lockBit[b] => lockBit'[b] \/ Owns(op[t], b)
  PROVE  IInv'
<1>1. /\ Sets(t, Answering(a)) /\ Answering(a).pc = "answered"
      /\ \A b \in Buckets : ~ Owns(Answering(a), b)
      /\ \A tb, sq : PlaceOK(Answering(a), tb, sq)
  BY Answers
<1>2. OwnStep(op[t], Answering(a), lockBit, lockBit')
  BY <1>1 DEF OwnStep
<1> HIDE DEF Answering
<1>3. PICK x \in Op : x = Answering(a) /\ op' = [op EXCEPT ![t] = x]
  BY <1>1 DEF Sets
<1> QED BY <1>1, <1>2, <1>3, QuietStep

\* A step that leaves the locks alone too
LEMMA PlainStep ==
  ASSUME IInv, NEW t \in Threads, NEW x, Sets(t, x),
         UNCHANGED <<tab, seq, lockBit>>,
         \A b \in Buckets : Owns(x, b) <=> Owns(op[t], b),
         PlaceOK(x, tab, seq), x.pc # "alloc"
  PROVE  IInv'
<1>1. OwnStep(op[t], x, lockBit, lockBit')
  <2>1. \A b \in Buckets : Owns(op[t], b) => lockBit[b]
    BY DEF IInv, LocksOK
  <2> QED BY <2>1 DEF OwnStep
<1>2. lockBit' \in [Buckets -> BOOLEAN]
  BY DEF IInv, TypeInv
<1> QED BY <1>1, <1>2, QuietStep DEF Sets

\* Elements of the lists
LEMMA Listed ==
  ASSUME NEW tb \in Tab, NEW b \in Buckets
  PROVE  /\ tb[b] \in Seq(Node) /\ Len(tb[b]) \in Nat /\ DOMAIN tb[b] = 1 .. Len(tb[b])
         /\ \A i \in DOMAIN tb[b] :
              tb[b][i] \in Node /\ tb[b][i].id \in Nat /\ tb[b][i].stack \in Stacks
<1>1. PICK list \in Seq(Node) : list = tb[b]
  BY DEF Tab
<1>2. Len(list) \in Nat /\ DOMAIN list = 1 .. Len(list)
  BY LenProperties
<1>3. \A i \in DOMAIN list : list[i] \in Node
  BY ElementOfSeq, <1>2
<1>4. \A n \in Node : n.id \in Nat /\ n.stack \in Stacks
  BY DEF Node
<1> QED BY <1>1, <1>2, <1>3, <1>4

LEMMA PutsAt ==
  ASSUME IInv, NEW t \in Threads, op[t].pc \in Putting
  PROVE  /\ op[t] \in Op /\ op[t].arg \in Stacks /\ Bucket(t) = Hash[op[t].arg]
         /\ Bucket(t) \in Buckets /\ PutOK(op[t], tab, seq)
<1>1. PutOK(op[t], tab, seq)
  BY DEF IInv, PlacesOK, PlaceOK
<1>2. op[t].arg \in Stacks
  BY <1>1 DEF PutOK
<1> QED BY <1>1, <1>2, Sizes DEF Bucket, IInv, TypeInv

-----------------------------------------------------------------------------
\* Put
LEMMA CallPutEffect ==
  ASSUME NEW t \in Threads, CallPut(t)
  PROVE  /\ op[t].pc = "idle" /\ UNCHANGED <<tab, seq, lockBit>>
         /\ \/ \E s \in Stacks : \E x : Sets(t, x) /\ x.pc = "find" /\ x.arg = s
            \/ Answer(t, NoId)
<1>1. ASSUME NEW s \in Stacks, op' = [op EXCEPT ![t] = [NotCalling EXCEPT !.pc = "find", !.arg = s]]
      PROVE  \E x : Sets(t, x) /\ x.pc = "find" /\ x.arg = s
  <2> DEFINE x == WithArg(NotCalling, "find", s)
  <2>1. s \in Args /\ "find" \in Places
    BY DEF Args, Places, Putting
  <2>2. x \in Op /\ x.pc = "find" /\ x.arg = s
    BY <2>1, StartsAgain, PcArgSet
  <2> HIDE DEF x
  <2>3. op' = [op EXCEPT ![t] = x]
    BY <1>1 DEF x, WithArg
  <2> QED BY <2>2, <2>3 DEF Sets
<1> QED BY <1>1 DEF CallPut, At

LEMMA CallPutKeeps == ASSUME IInv, NEW t \in Threads, CallPut(t) PROVE IInv'
<1>1. op[t].pc = "idle" /\ UNCHANGED <<tab, seq, lockBit>>
  BY CallPutEffect
<1>2. lockBit' \in [Buckets -> BOOLEAN]
  BY <1>1 DEF IInv, TypeInv
<1>3. CASE Answer(t, NoId)
  BY <1>1, <1>2, <1>3, AnswerStep DEF NoId, Args
<1>4. ASSUME NEW s \in Stacks, NEW x, Sets(t, x), x.pc = "find", x.arg = s PROVE IInv'
  <2>1. \A b \in Buckets : Owns(x, b) <=> Owns(op[t], b)
    BY <1>1, <1>4 DEF Owns, Inserting
  <2>2. PlaceOK(x, tab, seq)
    BY <1>4 DEF PlaceOK, PutOK, Putting, Inserting
  <2> QED BY <1>1, <1>4, <2>1, <2>2, PlainStep
<1> QED BY <1>3, <1>4, CallPutEffect

LEMMA FindEffect ==
  ASSUME IInv, NEW t \in Threads, Find(t)
  PROVE  LET list == tab[Bucket(t)]
         IN  /\ op[t].pc = "find" /\ UNCHANGED <<tab, seq, lockBit>>
             /\ \/ \E i \in DOMAIN list : list[i].stack = op[t].arg /\ Answer(t, list[i].id)
                \/ /\ \A i \in DOMAIN list : list[i].stack # op[t].arg
                   /\ \E x : Sets(t, x) /\ x.pc = "lock" /\ x.arg = op[t].arg /\ x.seen = Len(list)
<1>1. op[t].pc = "find" /\ UNCHANGED <<tab, seq, lockBit>>
  BY DEF Find, At
<1>2. /\ op[t] \in Op /\ Bucket(t) \in Buckets
  BY <1>1, PutsAt DEF Putting
<1>3. PICK list \in Seq(Node) : list = tab[Bucket(t)]
  BY <1>2, Listed DEF IInv, TypeInv
<1>4. CASE Matching(list, op[t].arg) # {}
  <2>1. \E i \in Matching(list, op[t].arg) : Answer(t, list[i].id)
    BY <1>3, <1>4 DEF Find
  <2> QED BY <1>1, <1>3, <2>1 DEF Matching
<1>5. CASE Matching(list, op[t].arg) = {}
  <2>1. op' = [op EXCEPT ![t].pc = "lock", ![t].seen = Len(list)]
    BY <1>3, <1>5 DEF Find
  <2> DEFINE x == WithSeen(op[t], "lock", Len(list))
  <2>2. op' = [op EXCEPT ![t] = x]
    BY <1>2, <2>1 DEF IInv, TypeInv, WithSeen
  <2>3. "lock" \in Places /\ Len(list) \in Nat
    BY LenProperties DEF Places, Putting
  <2>4. x \in Op /\ x.pc = "lock" /\ x.arg = op[t].arg /\ x.seen = Len(list)
    BY <1>2, <2>3, PcSeenSet
  <2> HIDE DEF x
  <2>5. \A i \in DOMAIN list : list[i].stack # op[t].arg
    BY <1>5 DEF Matching
  <2> QED BY <1>1, <1>3, <2>2, <2>4, <2>5 DEF Sets
<1> QED BY <1>4, <1>5

LEMMA FindKeeps == ASSUME IInv, NEW t \in Threads, Find(t) PROVE IInv'
<1>1. op[t].pc = "find" /\ UNCHANGED <<tab, seq, lockBit>>
  BY FindEffect
<1>2. op[t].arg \in Stacks /\ Bucket(t) = Hash[op[t].arg] /\ Bucket(t) \in Buckets
  BY <1>1, PutsAt DEF Putting
<1>3. lockBit' \in [Buckets -> BOOLEAN] /\ tab \in Tab
  BY <1>1 DEF IInv, TypeInv
<1>4. PICK list \in Seq(Node) : list = tab[Bucket(t)]
  BY <1>2, <1>3, Listed
<1>5. Len(list) \in Nat /\ DOMAIN list = 1 .. Len(list)
  BY LenProperties
<1>6. ASSUME NEW i \in DOMAIN list, Answer(t, list[i].id) PROVE IInv'
  <2>1. list[i].id \in Args
    BY <1>2, <1>3, <1>4, Listed DEF Args
  <2> QED BY <1>1, <1>3, <1>6, <2>1, AnswerStep
<1>7. ASSUME NEW x, Sets(t, x), x.pc = "lock", x.arg = op[t].arg, x.seen = Len(list),
             \A i \in DOMAIN list : list[i].stack # op[t].arg
      PROVE  IInv'
  <2>1. \A b \in Buckets : Owns(x, b) <=> Owns(op[t], b)
    BY <1>1, <1>7 DEF Owns, Inserting
  <2>2. PlaceOK(x, tab, seq)
    BY <1>2, <1>4, <1>5, <1>7 DEF PlaceOK, PutOK, Putting, Inserting
  <2> QED BY <1>1, <1>7, <2>1, <2>2, PlainStep
<1> QED BY <1>4, <1>6, <1>7, FindEffect

LEMMA LockEffect ==
  ASSUME IInv, NEW t \in Threads, Lock(t)
  PROVE  LET b == Bucket(t)
             list == tab[b]
         IN  /\ op[t].pc = "lock" /\ UNCHANGED <<tab, seq>>
             /\ ~ lockBit[b] /\ lockBit' = [lockBit EXCEPT ![b] = TRUE]
             /\ \E x : /\ Sets(t, x) /\ x.arg = op[t].arg
                       /\ \/ /\ x.pc = "found"
                             /\ \E i \in DOMAIN list : list[i].stack = x.arg /\ list[i].id = x.id
                          \/ /\ x.pc = "insert"
                             /\ \A i \in DOMAIN list : list[i].stack # x.arg
<1>1. /\ op[t].pc = "lock" /\ UNCHANGED <<tab, seq>>
      /\ ~ lockBit[Bucket(t)] /\ lockBit' = [lockBit EXCEPT ![Bucket(t)] = TRUE]
  BY DEF Lock, At
<1>2. op[t] \in Op /\ Bucket(t) \in Buckets /\ Bucket(t) = Hash[op[t].arg]
      /\ PutOK(op[t], tab, seq)
  BY <1>1, PutsAt DEF Putting
<1>3. PICK list \in Seq(Node) : list = tab[Bucket(t)]
  BY <1>2, Listed DEF IInv, TypeInv
<1>4. Len(list) \in Nat /\ DOMAIN list = 1 .. Len(list)
  BY LenProperties
<1> DEFINE hits == IF Len(list) # op[t].seen THEN Matching(list, op[t].arg) ELSE {}
<1>5. IF hits # {}
        THEN \E i \in hits : op' = [op EXCEPT ![t].pc = "found", ![t].id = list[i].id]
        ELSE Goto(t, "insert")
  BY <1>3 DEF Lock
<1>6. CASE hits # {}
  <2>1. PICK i \in hits : op' = [op EXCEPT ![t].pc = "found", ![t].id = list[i].id]
    BY <1>5, <1>6
  <2>2. i \in DOMAIN list /\ list[i].stack = op[t].arg
    BY <2>1 DEF Matching
  <2>3. PICK n \in Nat : n = list[i].id
    BY <1>2, <1>3, <2>2, Listed DEF IInv, TypeInv
  <2> DEFINE x == WithId(op[t], "found", n)
  <2>4. op' = [op EXCEPT ![t] = x]
    BY <1>2, <2>1, <2>3 DEF IInv, TypeInv, WithId
  <2>5. "found" \in Places
    BY DEF Places, Putting
  <2>6. x \in Op /\ x.pc = "found" /\ x.arg = op[t].arg /\ x.id = n
    BY <1>2, <2>5, PcIdSet
  <2> HIDE DEF x
  <2>7. Sets(t, x) /\ list[i].stack = x.arg /\ list[i].id = x.id
    BY <2>2, <2>3, <2>4, <2>6 DEF Sets
  <2> QED BY <1>1, <1>3, <2>2, <2>6, <2>7
<1>7. CASE hits = {}
  <2>1. "insert" \in Places
    BY DEF Places, Putting, Inserting
  <2>2. PICK x : Sets(t, x) /\ x.pc = "insert" /\ SameCall(x, op[t])
    BY <1>5, <1>7, <2>1, Goes DEF IInv
  <2>3. ASSUME NEW i \in DOMAIN list, list[i].stack = op[t].arg PROVE FALSE
    <3>1. CASE Len(list) = op[t].seen
      <4>1. i > Len(list) - op[t].seen
        BY <1>4, <3>1
      <4> QED BY <1>1, <1>2, <1>3, <2>3, <4>1 DEF PutOK
    <3>2. CASE Len(list) # op[t].seen
      BY <1>7, <2>3, <3>2 DEF Matching
    <3> QED BY <3>1, <3>2
  <2>4. x.arg = op[t].arg
    BY <2>2 DEF SameCall
  <2> QED BY <1>1, <1>3, <2>2, <2>3, <2>4
<1> QED BY <1>6, <1>7

LEMMA LockKeeps == ASSUME IInv, NEW t \in Threads, Lock(t) PROVE IInv'
<1> DEFINE b == Bucket(t)
<1>1. /\ op[t].pc = "lock" /\ tab' = tab /\ seq' = seq
      /\ ~ lockBit[b] /\ lockBit' = [lockBit EXCEPT ![b] = TRUE]
  BY LockEffect
<1>2. b \in Buckets /\ b = Hash[op[t].arg] /\ op[t].arg \in Stacks
  BY <1>1, PutsAt DEF Putting
<1> HIDE DEF b
<1>3. lockBit \in [Buckets -> BOOLEAN] /\ tab \in Tab
  BY DEF IInv, TypeInv
<1>4. /\ lockBit' \in [Buckets -> BOOLEAN] /\ lockBit'[b]
      /\ \A c \in Buckets : c # b => (lockBit'[c] <=> lockBit[c])
  BY <1>1, <1>2, <1>3
<1>5. PICK list \in Seq(Node) : list = tab[b]
  BY <1>2, <1>3, Listed
<1>6. PICK x : /\ Sets(t, x) /\ x.arg = op[t].arg
               /\ \/ /\ x.pc = "found"
                     /\ \E i \in DOMAIN list : list[i].stack = x.arg /\ list[i].id = x.id
                  \/ /\ x.pc = "insert"
                     /\ \A i \in DOMAIN list : list[i].stack # x.arg
  BY <1>5, LockEffect DEF b
<1>7. \A c \in Buckets : Owns(x, c) <=> c = b
  BY <1>2, <1>6 DEF Owns, Inserting
<1>8. OwnStep(op[t], x, lockBit, lockBit')
  BY <1>1, <1>4, <1>7 DEF OwnStep
<1>9. PlaceOK(x, tab, seq)
  <2>1. CASE x.pc = "insert"
    BY <1>2, <1>5, <1>6, <2>1 DEF PlaceOK, PutOK, Putting, Inserting
  <2>2. ASSUME x.pc = "found", NEW i \in DOMAIN list, list[i].stack = x.arg, list[i].id = x.id
        PROVE  PlaceOK(x, tab, seq)
    <3>1. list[i] = [id |-> x.id, stack |-> x.arg]
      <4>1. list[i] \in Node
        BY <1>2, <1>3, <1>5, Listed
      <4> QED BY <2>2, <4>1 DEF Node
    <3> QED BY <1>2, <1>5, <1>6, <2>2, <3>1 DEF PlaceOK, PutOK, Putting, Inserting
  <2> QED BY <1>6, <2>1, <2>2
<1> QED BY <1>1, <1>4, <1>6, <1>8, <1>9, QuietStep DEF Sets

LEMMA UnlockFoundEffect ==
  ASSUME IInv, NEW t \in Threads, UnlockFound(t)
  PROVE  /\ op[t].pc = "found" /\ UNCHANGED <<tab, seq>>
         /\ op[t].id \in Args /\ Answer(t, op[t].id)
         /\ lockBit' = [lockBit EXCEPT ![Bucket(t)] = FALSE]
<1>1. op[t] \in Op
  BY DEF IInv, TypeInv
<1> QED BY <1>1, Typed DEF UnlockFound, At, Args

LEMMA UnlockFoundKeeps == ASSUME IInv, NEW t \in Threads, UnlockFound(t) PROVE IInv'
<1>1. /\ op[t].pc = "found" /\ UNCHANGED <<tab, seq>>
      /\ op[t].id \in Args /\ Answer(t, op[t].id)
      /\ lockBit' = [lockBit EXCEPT ![Bucket(t)] = FALSE]
  BY UnlockFoundEffect
<1>2. Bucket(t) \in Buckets /\ Bucket(t) = Hash[op[t].arg]
  BY <1>1, PutsAt DEF Putting
<1>3. lockBit \in [Buckets -> BOOLEAN]
  BY DEF IInv, TypeInv
<1>4. \A b \in Buckets : lockBit[b] => lockBit'[b] \/ Owns(op[t], b)
  BY <1>1, <1>2, <1>3 DEF Owns
<1>5. lockBit' \in [Buckets -> BOOLEAN]
  BY <1>1, <1>3
<1> QED BY <1>1, <1>4, <1>5, AnswerStep

-----------------------------------------------------------------------------
\* Get
NodesIn(tb) == UNION {ToSet(tb[b]) : b \in Buckets}

LEMMA NodeListed ==
  ASSUME NEW tb, NEW n
  PROVE  n \in NodesIn(tb) <=> \E b \in Buckets : \E i \in DOMAIN tb[b] : n = tb[b][i]
BY DEF NodesIn, ToSet

LEMMA PartFits == kPartSize <= kTabSize
<1> SUFFICES ASSUME kPartSize > kTabSize PROVE FALSE
  BY Sizes
<1>1. PICK j \in 0 .. kPartSize - 1 : kTabSize = (kTabSize \div kPartSize) * kPartSize + j
  BY Sizes, QuotientOf
<1>2. 0 \in Nat /\ kTabSize \in 0 .. kPartSize - 1 /\ kTabSize = 0 * kPartSize + kTabSize
  BY Sizes
<1>3. kTabSize \div kPartSize = 0
  BY <1>2, Sizes, QuotientOf
<1>4. kTabSize = kPartSize * (kTabSize \div kPartSize) + (kTabSize % kPartSize)
  BY Sizes
<1> QED BY <1>3, <1>4, Sizes

LEMMA CallGetEffect ==
  ASSUME IInv, NEW t \in Threads, CallGet(t)
  PROVE  /\ op[t].pc = "idle" /\ UNCHANGED <<tab, seq, lockBit>>
         /\ \/ \E b \in Buckets : \E i \in DOMAIN tab[b] : \E x :
                 Sets(t, x) /\ x.pc = "get" /\ x.arg = tab[b][i].id /\ x.i = 0
            \/ Answer(t, NoStack)
<1>1. ASSUME NEW n \in Nodes, op' = [op EXCEPT ![t] = [NotCalling EXCEPT !.pc = "get", !.arg = n.id]]
      PROVE  \E b \in Buckets : \E i \in DOMAIN tab[b] : \E x :
               Sets(t, x) /\ x.pc = "get" /\ x.arg = tab[b][i].id /\ x.i = 0
  <2>1. PICK b \in Buckets : \E i \in DOMAIN tab[b] : n = tab[b][i]
    BY NodeListed DEF Nodes, NodesIn
  <2>2. PICK i \in DOMAIN tab[b] : n = tab[b][i]
    BY <2>1
  <2>3. PICK a \in Args : a = n.id
    BY <2>2, Listed DEF IInv, TypeInv, Args
  <2> DEFINE x == WithArg(NotCalling, "get", a)
  <2>4. "get" \in Places
    BY DEF Places
  <2>5. x \in Op /\ x.pc = "get" /\ x.arg = a /\ x.i = 0
    BY <2>4, StartsAgain, PcArgSet
  <2>6. op' = [op EXCEPT ![t] = x]
    BY <1>1, <2>3 DEF WithArg
  <2> HIDE DEF x
  <2> QED BY <2>2, <2>3, <2>5, <2>6 DEF Sets
<1> QED BY <1>1 DEF CallGet, At

LEMMA CallGetKeeps == ASSUME IInv, NEW t \in Threads, CallGet(t) PROVE IInv'
<1>1. op[t].pc = "idle" /\ UNCHANGED <<tab, seq, lockBit>>
  BY CallGetEffect
<1>2. lockBit' \in [Buckets -> BOOLEAN] /\ tab \in Tab
  BY <1>1 DEF IInv, TypeInv
<1>3. CASE Answer(t, NoStack)
  BY <1>1, <1>2, <1>3, AnswerStep DEF Args
<1>4. ASSUME NEW b \in Buckets, NEW i \in DOMAIN tab[b], NEW x,
             Sets(t, x), x.pc = "get", x.arg = tab[b][i].id, x.i = 0
      PROVE  IInv'
  <2>1. \A c \in Buckets : Owns(x, c) <=> Owns(op[t], c)
    BY <1>1, <1>4 DEF Owns, Inserting
  <2>2. x.arg \in Nat
    BY <1>2, <1>4, Listed
  <2>3. PICK n \in 1 .. seq[b \div kPartSize] :
          n < kMaxId /\ x.arg = (b \div kPartSize) * kMaxId + n
    BY <1>4 DEF IInv, IdsOK, Given
  <2>4. seq[b \div kPartSize] \in Nat
    BY PartOf DEF IInv, TypeInv
  <2>5. x.arg \div kMaxId = b \div kPartSize
    <3>1. n \in 1 .. kMaxId - 1
      BY <2>3, <2>4, Sizes
    <3> QED BY <2>3, <3>1, GivenBy
  <2>6. PICK k \in 0 .. kPartSize - 1 : b = (x.arg \div kMaxId) * kPartSize + k
    BY <2>5, PartOf
  <2>7. k \in x.i .. kPartSize - 1 /\ x.i < kPartSize
    BY <1>4, Sizes
  <2>8. GetOK(x, tab)
    BY <1>4, <2>2, <2>6, <2>7 DEF GetOK
  <2>9. PlaceOK(x, tab, seq)
    BY <1>4, <2>8 DEF PlaceOK, Putting, Inserting
  <2> QED BY <1>1, <1>4, <2>1, <2>9, PlainStep
<1> QED BY <1>3, <1>4, CallGetEffect

LEMMA GetEffect ==
  ASSUME IInv, NEW t \in Threads, Get(t)
  PROVE  /\ op[t].pc = "get" /\ UNCHANGED <<tab, seq, lockBit>> /\ op[t].arg \in Nat
         /\ \/ \E b \in Buckets : \E j \in DOMAIN tab[b] :
                 tab[b][j].id = op[t].arg /\ Answer(t, tab[b][j].stack)
            \/ \E x : /\ Sets(t, x) /\ x.pc = "get" /\ x.arg = op[t].arg
                      /\ GetOK(x, tab)
<1> DEFINE p == op[t].arg \div kMaxId
           b == p * kPartSize + op[t].i
           hits == {j \in DOMAIN tab[b] : tab[b][j].id = op[t].arg}
<1>1. op[t].pc = "get" /\ UNCHANGED <<tab, seq, lockBit>>
  BY DEF Get, At
<1>2. op[t] \in Op /\ tab \in Tab /\ op[t].i \in Nat
  BY Typed DEF IInv, TypeInv
<1>3. GetOK(op[t], tab)
  BY <1>1 DEF IInv, PlacesOK, PlaceOK
<1>4. op[t].arg \in Nat /\ op[t].i < kPartSize
  BY <1>3 DEF GetOK
<1>5. PICK k \in op[t].i .. kPartSize - 1 :
        /\ p * kPartSize + k \in Buckets
        /\ \E j \in DOMAIN tab[p * kPartSize + k] : tab[p * kPartSize + k][j].id = op[t].arg
  BY <1>3 DEF GetOK
<1>6. p \in Nat
  BY <1>4, Sizes, QuotientOf
<1>7. IF hits # {} THEN \E j \in hits : Answer(t, tab[b][j].stack)
      ELSE IF op[t].i + 1 = kPartSize THEN Answer(t, NoStack)
      ELSE op' = [op EXCEPT ![t].i = @ + 1]
  BY DEF Get
<1>8. b \in Buckets
  <2> HIDE DEF p
  <2>1. p * kPartSize \in Nat
    BY <1>6, Sizes
  <2> QED BY <1>2, <1>5, <2>1, Sizes DEF Buckets
<1>9. CASE hits # {}
  <2>1. PICK j \in hits : Answer(t, tab[b][j].stack)
    BY <1>7, <1>9
  <2> QED BY <1>1, <1>4, <1>8, <2>1
<1>10. CASE hits = {}
  <2>1. k # op[t].i
    BY <1>5, <1>10
  <2> HIDE DEF hits, p, b
  <2>2. op[t].i + 1 < kPartSize /\ k \in op[t].i + 1 .. kPartSize - 1 /\ op[t].i + 1 \in 0 .. kTabSize
    BY <1>2, <2>1, Sizes, PartFits
  <2>3. op' = [op EXCEPT ![t].i = @ + 1]
    BY <1>7, <1>10, <2>2, Sizes
  <2>4. PICK i \in 0 .. kTabSize : i = op[t].i + 1
    BY <2>2
  <2> DEFINE x == WithPlace(op[t], i)
  <2>5. op' = [op EXCEPT ![t] = x]
    BY <1>2, <2>3, <2>4 DEF IInv, TypeInv, WithPlace
  <2>6. x \in Op /\ x.pc = "get" /\ x.arg = op[t].arg /\ x.i = i
    BY <1>1, <1>2, PlaceSet
  <2> HIDE DEF x
  <2>7. GetOK(x, tab)
    <3>1. k \in x.i .. kPartSize - 1 /\ x.i < kPartSize
      BY <2>2, <2>4, <2>6
    <3>2. p = x.arg \div kMaxId
      BY <2>6 DEF p
    <3> QED BY <1>4, <1>5, <2>6, <3>1, <3>2 DEF GetOK
  <2> QED BY <1>1, <1>4, <2>5, <2>6, <2>7 DEF Sets
<1> QED BY <1>9, <1>10

LEMMA GetKeeps == ASSUME IInv, NEW t \in Threads, Get(t) PROVE IInv'
<1>1. op[t].pc = "get" /\ UNCHANGED <<tab, seq, lockBit>> /\ op[t].arg \in Nat
  BY GetEffect
<1>2. lockBit' \in [Buckets -> BOOLEAN] /\ tab \in Tab
  BY <1>1 DEF IInv, TypeInv
<1>3. ASSUME NEW b \in Buckets, NEW j \in DOMAIN tab[b], Answer(t, tab[b][j].stack) PROVE IInv'
  <2>1. tab[b][j].stack \in Args
    BY <1>2, Listed DEF Args
  <2> QED BY <1>1, <1>2, <1>3, <2>1, AnswerStep
<1>4. ASSUME NEW x, Sets(t, x), x.pc = "get", x.arg = op[t].arg, GetOK(x, tab) PROVE IInv'
  <2>1. \A c \in Buckets : Owns(x, c) <=> Owns(op[t], c)
    BY <1>1, <1>4 DEF Owns, Inserting
  <2>2. PlaceOK(x, tab, seq)
    BY <1>4 DEF PlaceOK, Putting, Inserting
  <2> QED BY <1>1, <1>4, <2>1, <2>2, PlainStep
<1> QED BY <1>3, <1>4, GetEffect

-----------------------------------------------------------------------------
\* Fork
LEMMA ForksAt ==
  ASSUME IInv, NEW t \in Threads, op[t].pc \in {"idle", "lockall", "fork", "unlockall"}
  PROVE  /\ op[t] \in Op /\ op[t].i \in Nat /\ op[t].i <= kTabSize
         /\ op[t].pc \in {"idle", "fork"} => op[t].i = 0
         /\ op[t].pc \in {"lockall", "unlockall"} => op[t].i \in Buckets
BY Typed DEF IInv, TypeInv, PlacesOK, PlaceOK

LEMMA CallForkEffect ==
  ASSUME IInv, NEW t \in Threads, CallFork(t)
  PROVE  /\ op[t].pc = "idle" /\ UNCHANGED <<tab, seq, lockBit>>
         /\ \E x : Sets(t, x) /\ x.pc = "lockall" /\ x.i = 0
<1>1. op[t].pc = "idle" /\ UNCHANGED <<tab, seq, lockBit>> /\ Goto(t, "lockall")
  BY DEF CallFork, At
<1>2. "lockall" \in Places
  BY DEF Places
<1>3. PICK x : Sets(t, x) /\ x.pc = "lockall" /\ SameCall(x, op[t])
  BY <1>1, <1>2, Goes DEF IInv
<1>4. x.i = 0
  BY <1>1, <1>3, ForksAt DEF SameCall
<1> QED BY <1>1, <1>3, <1>4

LEMMA CallForkKeeps == ASSUME IInv, NEW t \in Threads, CallFork(t) PROVE IInv'
<1>1. op[t].pc = "idle" /\ UNCHANGED <<tab, seq, lockBit>>
  BY CallForkEffect
<1>2. PICK x : Sets(t, x) /\ x.pc = "lockall" /\ x.i = 0
  BY CallForkEffect
<1>3. \A b \in Buckets : Owns(x, b) <=> Owns(op[t], b)
  BY <1>1, <1>2, Sizes DEF Owns, Inserting, Buckets
<1>4. PlaceOK(x, tab, seq)
  BY <1>2, Sizes DEF PlaceOK, Putting, Inserting, Buckets
<1> QED BY <1>1, <1>2, <1>3, <1>4, PlainStep

\* Either all the buckets are locked, or one more is
LEMMA LockAllEffect ==
  ASSUME IInv, NEW t \in Threads, LockAll(t)
  PROVE  LET i == op[t].i
         IN  /\ op[t].pc = "lockall" /\ i \in Buckets /\ UNCHANGED <<tab, seq>>
             /\ ~ lockBit[i] /\ lockBit' = [lockBit EXCEPT ![i] = TRUE]
             /\ \E x : /\ Sets(t, x)
                       /\ \/ i = kTabSize - 1 /\ x.pc = "fork" /\ x.i = 0
                          \/ i # kTabSize - 1 /\ x.pc = "lockall" /\ x.i = i + 1
<1> DEFINE i == op[t].i
<1>1. /\ op[t].pc = "lockall" /\ UNCHANGED <<tab, seq>>
      /\ ~ lockBit[i] /\ lockBit' = [lockBit EXCEPT ![i] = TRUE]
  BY DEF LockAll, At
<1>2. op[t] \in Op /\ i \in Buckets /\ i \in Nat
  BY <1>1, ForksAt
<1>3. CASE i = kTabSize - 1
  <2>1. op' = [op EXCEPT ![t] = WithPc(NotCalling, "fork")]
    BY <1>3 DEF LockAll, WithPc
  <2>2. "fork" \in Places
    BY DEF Places
  <2>3. Sets(t, WithPc(NotCalling, "fork")) /\ WithPc(NotCalling, "fork").pc = "fork"
        /\ WithPc(NotCalling, "fork").i = 0
    BY <2>1, <2>2, StartsAgain, PcSet DEF Sets, SameCall
  <2> QED BY <1>1, <1>2, <1>3, <2>3
<1>4. CASE i # kTabSize - 1
  <2>1. PICK n \in 0 .. kTabSize : n = i + 1
    BY <1>2, <1>4, Sizes DEF Buckets
  <2>2. op' = [op EXCEPT ![t] = WithPlace(op[t], n)]
    BY <1>2, <1>4, <2>1 DEF LockAll, WithPlace, IInv, TypeInv
  <2>3. Sets(t, WithPlace(op[t], n)) /\ WithPlace(op[t], n).pc = "lockall"
        /\ WithPlace(op[t], n).i = i + 1
    BY <1>1, <1>2, <2>1, <2>2, PlaceSet DEF Sets
  <2> QED BY <1>1, <1>2, <1>4, <2>3
<1> QED BY <1>3, <1>4

LEMMA LockAllKeeps == ASSUME IInv, NEW t \in Threads, LockAll(t) PROVE IInv'
<1> DEFINE i == op[t].i
<1>1. /\ op[t].pc = "lockall" /\ i \in Buckets /\ tab' = tab /\ seq' = seq
      /\ ~ lockBit[i] /\ lockBit' = [lockBit EXCEPT ![i] = TRUE]
  BY LockAllEffect
<1>2. PICK x : /\ Sets(t, x)
               /\ \/ i = kTabSize - 1 /\ x.pc = "fork" /\ x.i = 0
                  \/ i # kTabSize - 1 /\ x.pc = "lockall" /\ x.i = i + 1
  BY LockAllEffect
<1>3. /\ lockBit' \in [Buckets -> BOOLEAN] /\ lockBit'[i]
      /\ \A c \in Buckets : c # i => (lockBit'[c] <=> lockBit[c])
  BY <1>1 DEF IInv, TypeInv
<1>4. \A c \in Buckets : Owns(x, c) <=> Owns(op[t], c) \/ c = i
  BY <1>1, <1>2, Sizes DEF Owns, Inserting, Buckets
<1>5. \A c \in Buckets : Owns(op[t], c) => lockBit[c]
  BY DEF IInv, LocksOK
<1> HIDE DEF i
<1>6. OwnStep(op[t], x, lockBit, lockBit')
  BY <1>1, <1>3, <1>4, <1>5 DEF OwnStep
<1>7. PlaceOK(x, tab, seq) /\ x.pc # "alloc"
  BY <1>1, <1>2, Sizes DEF PlaceOK, Putting, Inserting, Buckets
<1> QED BY <1>1, <1>2, <1>3, <1>6, <1>7, QuietStep DEF Sets

LEMMA ForkParentEffect ==
  ASSUME IInv, NEW t \in Threads, ForkParent(t)
  PROVE  /\ op[t].pc = "fork" /\ UNCHANGED <<tab, seq, lockBit>>
         /\ \E x : Sets(t, x) /\ x.pc = "unlockall" /\ x.i = 0
<1>1. op[t].pc = "fork" /\ UNCHANGED <<tab, seq, lockBit>> /\ Goto(t, "unlockall")
  BY DEF ForkParent, At
<1>2. "unlockall" \in Places
  BY DEF Places
<1>3. PICK x : Sets(t, x) /\ x.pc = "unlockall" /\ SameCall(x, op[t])
  BY <1>1, <1>2, Goes DEF IInv
<1>4. x.i = 0
  BY <1>1, <1>3, ForksAt DEF SameCall
<1> QED BY <1>1, <1>3, <1>4

LEMMA ForkParentKeeps == ASSUME IInv, NEW t \in Threads, ForkParent(t) PROVE IInv'
<1>1. op[t].pc = "fork" /\ UNCHANGED <<tab, seq, lockBit>>
  BY ForkParentEffect
<1>2. PICK x : Sets(t, x) /\ x.pc = "unlockall" /\ x.i = 0
  BY ForkParentEffect
<1>3. \A b \in Buckets : Owns(x, b) <=> Owns(op[t], b)
  BY <1>1, <1>2, Sizes DEF Owns, Inserting, Buckets
<1>4. PlaceOK(x, tab, seq)
  BY <1>2, Sizes DEF PlaceOK, Putting, Inserting, Buckets
<1> QED BY <1>1, <1>2, <1>3, <1>4, PlainStep

\* In the child the other threads are gone, and they held nothing
LEMMA ForkChildEffect ==
  ASSUME IInv, NEW t \in Threads, ForkChild(t)
  PROVE  /\ op[t].pc = "fork" /\ UNCHANGED <<tab, seq, lockBit>>
         /\ op' \in [Threads -> Op] /\ op'[t].pc = "unlockall" /\ op'[t].i = 0
         /\ \A u \in Threads : u # t => op'[u].pc = "gone"
<1>1. /\ op[t].pc = "fork" /\ UNCHANGED <<tab, seq, lockBit>>
      /\ op' = [u \in Threads |-> WithPc(NotCalling, IF u = t THEN "unlockall" ELSE "gone")]
  BY DEF ForkChild, At, WithPc
<1>2. "unlockall" \in Places /\ "gone" \in Places
  BY DEF Places
<1>3. /\ WithPc(NotCalling, "unlockall") \in Op /\ WithPc(NotCalling, "gone") \in Op
      /\ WithPc(NotCalling, "unlockall").pc = "unlockall"
      /\ WithPc(NotCalling, "unlockall").i = 0 /\ WithPc(NotCalling, "gone").pc = "gone"
  BY <1>2, StartsAgain, PcSet DEF SameCall
<1>4. \A u \in Threads : /\ u = t => op'[u] = WithPc(NotCalling, "unlockall")
                         /\ u # t => op'[u] = WithPc(NotCalling, "gone")
  BY <1>1
<1>5. \A u \in Threads : op'[u] \in Op
  BY <1>3, <1>4
<1>6. op' \in [Threads -> Op]
  BY <1>1, <1>5
<1> QED BY <1>1, <1>3, <1>4, <1>6

LEMMA ForkChildKeeps == ASSUME IInv, NEW t \in Threads, ForkChild(t) PROVE IInv'
<1>1. op[t].pc = "fork" /\ tab' = tab /\ seq' = seq /\ lockBit' = lockBit
  BY ForkChildEffect
<1>2. PICK q \in [Threads -> Op] :
        /\ q = op' /\ q[t].pc = "unlockall" /\ q[t].i = 0
        /\ \A u \in Threads : u # t => q[u].pc = "gone"
  BY ForkChildEffect
<1>3. \A b \in Buckets : lockBit[b]
  BY <1>1 DEF IInv, LocksOK, Owns
<1>4. \A u \in Threads, b \in Buckets : Owns(q[u], b) => u = t
  BY <1>2 DEF Owns, Inserting
<1>5. LocksOK(q, lockBit)
  BY <1>3, <1>4 DEF LocksOK
<1>6. \A u \in Threads : PlaceOK(q[u], tab, seq) /\ q[u].pc # "alloc"
  <2> SUFFICES ASSUME NEW u \in Threads PROVE PlaceOK(q[u], tab, seq) /\ q[u].pc # "alloc"
    OBVIOUS
  <2>1. CASE u = t
    BY <1>2, <2>1, Sizes DEF PlaceOK, Putting, Inserting, Buckets
  <2>2. CASE u # t
    <3>1. q[u].pc = "gone"
      BY <1>2, <2>2
    <3> QED BY <3>1 DEF PlaceOK, Putting, Inserting
  <2> QED BY <2>1, <2>2
<1>7. PlacesOK(q, tab, seq)
  BY <1>6 DEF PlacesOK
<1>8. TypeInv'
  BY <1>1, <1>2 DEF IInv, TypeInv
<1> QED BY <1>1, <1>2, <1>5, <1>7, <1>8 DEF IInv

LEMMA UnlockAllEffect ==
  ASSUME IInv, NEW t \in Threads, UnlockAll(t)
  PROVE  LET i == op[t].i
         IN  /\ op[t].pc = "unlockall" /\ i \in Buckets /\ UNCHANGED <<tab, seq>>
             /\ lockBit' = [lockBit EXCEPT ![i] = FALSE]
             /\ \/ i = kTabSize - 1 /\ Answer(t, NoId)
                \/ \E x : Sets(t, x) /\ x.pc = "unlockall" /\ x.i = i + 1 /\ x.i \in Buckets
<1> DEFINE i == op[t].i
<1>1. op[t].pc = "unlockall" /\ UNCHANGED <<tab, seq>> /\ lockBit' = [lockBit EXCEPT ![i] = FALSE]
  BY DEF UnlockAll, At
<1>2. op[t] \in Op /\ i \in Buckets /\ i \in Nat
  BY <1>1, ForksAt
<1>3. CASE i = kTabSize - 1
  BY <1>1, <1>2, <1>3 DEF UnlockAll
<1>4. CASE i # kTabSize - 1
  <2>1. PICK n \in 0 .. kTabSize : n = i + 1
    BY <1>2, <1>4, Sizes DEF Buckets
  <2>2. op' = [op EXCEPT ![t] = WithPlace(op[t], n)]
    BY <1>2, <1>4, <2>1 DEF UnlockAll, WithPlace, IInv, TypeInv
  <2>3. Sets(t, WithPlace(op[t], n)) /\ WithPlace(op[t], n).pc = "unlockall"
        /\ WithPlace(op[t], n).i = n
    BY <1>1, <1>2, <2>2, PlaceSet DEF Sets
  <2>4. n \in Buckets
    BY <1>2, <1>4, <2>1, Sizes DEF Buckets
  <2> QED BY <1>1, <1>2, <2>1, <2>3, <2>4
<1> QED BY <1>3, <1>4

LEMMA UnlockAllKeeps == ASSUME IInv, NEW t \in Threads, UnlockAll(t) PROVE IInv'
<1> DEFINE i == op[t].i
<1>1. /\ op[t].pc = "unlockall" /\ i \in Buckets /\ tab' = tab /\ seq' = seq
      /\ lockBit' = [lockBit EXCEPT ![i] = FALSE]
  BY UnlockAllEffect
<1>2. /\ lockBit' \in [Buckets -> BOOLEAN] /\ ~ lockBit'[i]
      /\ \A c \in Buckets : c # i => (lockBit'[c] <=> lockBit[c])
  BY <1>1 DEF IInv, TypeInv
<1>3. \A c \in Buckets : Owns(op[t], c) <=> c >= i
  BY <1>1 DEF Owns, Inserting
<1>4. i \in Nat
  BY <1>1, ForksAt
<1>5. \A c \in Buckets : lockBit[c] => lockBit'[c] \/ Owns(op[t], c)
  BY <1>1, <1>2, <1>3, <1>4
<1>6. CASE Answer(t, NoId)
  BY <1>1, <1>2, <1>5, <1>6, AnswerStep DEF NoId, Args
<1>7. ASSUME NEW x, Sets(t, x), x.pc = "unlockall", x.i = i + 1, x.i \in Buckets PROVE IInv'
  <2>1. \A c \in Buckets : Owns(x, c) <=> c >= i + 1
    BY <1>7 DEF Owns, Inserting
  <2>2. \A c \in Buckets : Owns(x, c) => c # i /\ Owns(op[t], c)
    BY <1>3, <1>4, <2>1 DEF Buckets
  <2>3. \A c \in Buckets : Owns(op[t], c) => lockBit[c]
    BY DEF IInv, LocksOK
  <2> HIDE DEF i
  <2>4. OwnStep(op[t], x, lockBit, lockBit')
    BY <1>2, <1>5, <2>2, <2>3 DEF OwnStep
  <2>5. PlaceOK(x, tab, seq) /\ x.pc # "alloc"
    BY <1>7 DEF PlaceOK, Putting, Inserting
  <2> QED BY <1>1, <1>2, <1>7, <2>4, <2>5, QuietStep DEF Sets
<1> QED BY <1>6, <1>7, UnlockAllEffect

LEMMA ReturnKeeps == ASSUME IInv, NEW t \in Threads, Return(t) PROVE IInv'
<1>1. /\ op[t].pc = "answered" /\ UNCHANGED <<tab, seq, lockBit>>
      /\ op' = [op EXCEPT ![t] = NotCalling]
  BY DEF Return, At
<1>2. Sets(t, NotCalling) /\ NotCalling.pc # "alloc"
  BY <1>1, StartsAgain DEF Sets
<1>3. \A b \in Buckets : Owns(NotCalling, b) <=> Owns(op[t], b)
  <2>1. \A b \in Buckets : ~ Owns(op[t], b)
    BY <1>1 DEF Owns, Inserting
  <2> QED BY <2>1, StartsAgain
<1>4. PlaceOK(NotCalling, tab, seq)
  BY StartsAgain
<1> QED BY <1>1, <1>2, <1>3, <1>4, PlainStep

-----------------------------------------------------------------------------
\* An identifier is given
LEMMA FreshId ==
  ASSUME NEW sq \in [Parts -> Nat], NEW b \in Buckets, NEW c \in Buckets,
         sq[b \div kPartSize] + 1 < kMaxId,
         NEW id, Given(sq, c, id)
  PROVE  id # (b \div kPartSize) * kMaxId + (sq[b \div kPartSize] + 1)
<1>1. PICK n \in Nat : n = sq[b \div kPartSize] + 1
  BY PartOf
<1>2. n \in 1 .. kMaxId - 1
  <2>1. sq[b \div kPartSize] \in Nat
    BY PartOf
  <2> QED BY <1>1, <2>1, Sizes
<1>3. PICK m \in 1 .. sq[c \div kPartSize] : m < kMaxId /\ id = (c \div kPartSize) * kMaxId + m
  BY DEF Given
<1>4. sq[c \div kPartSize] \in Nat
  BY PartOf
<1>5. m \in 1 .. kMaxId - 1 /\ m <= sq[c \div kPartSize]
  BY <1>3, <1>4, Sizes
<1> SUFFICES ASSUME id = (b \div kPartSize) * kMaxId + n PROVE FALSE
  BY <1>1
<1>6. c \div kPartSize = b \div kPartSize /\ m = n
  BY <1>2, <1>3, <1>5, GivenBy
<1> QED BY <1>1, <1>4, <1>5, <1>6

Grown(sq, sr) == \A p \in Parts : sq[p] <= sr[p]

LEMMA GivenGrown ==
  ASSUME NEW sq \in [Parts -> Nat], NEW sr \in [Parts -> Nat], Grown(sq, sr),
         NEW b \in Buckets, NEW id, Given(sq, b, id)
  PROVE  Given(sr, b, id)
<1>1. PICK p \in Parts : p = b \div kPartSize
  BY PartOf
<1>2. sq[p] \in Nat /\ sr[p] \in Nat /\ sq[p] <= sr[p]
  BY DEF Grown
<1>3. PICK n \in 1 .. sq[p] : n < kMaxId /\ id = p * kMaxId + n
  BY <1>1 DEF Given
<1>4. n \in 1 .. sr[p]
  BY <1>2
<1> QED BY <1>1, <1>3, <1>4 DEF Given

LEMMA PlaceGrown ==
  ASSUME NEW sq \in [Parts -> Nat], NEW sr \in [Parts -> Nat], Grown(sq, sr),
         NEW o, NEW tb, PlaceOK(o, tb, sq)
  PROVE  PlaceOK(o, tb, sr)
<1>1. ASSUME o.pc \in Putting PROVE PutOK(o, tb, sr)
  <2>1. PutOK(o, tb, sq)
    BY <1>1 DEF PlaceOK
  <2>2. o.arg \in Stacks /\ Hash[o.arg] \in Buckets
    BY <2>1, Sizes DEF PutOK
  <2>3. Given(sq, Hash[o.arg], o.id) => Given(sr, Hash[o.arg], o.id)
    BY <2>2, GivenGrown
  <2> QED BY <2>1, <2>3 DEF PutOK
<1> QED BY <1>1 DEF PlaceOK

LEMMA IdsGrown ==
  ASSUME NEW sq \in [Parts -> Nat], NEW sr \in [Parts -> Nat], Grown(sq, sr),
         NEW tb, IdsOK(tb, sq)
  PROVE  IdsOK(tb, sr)
BY GivenGrown DEF IdsOK

LEMMA NewIdEffect ==
  ASSUME IInv, NEW t \in Threads, NewId(t)
  PROVE  LET p == Bucket(t) \div kPartSize
             n == seq[p] + 1
         IN  /\ op[t].pc = "insert" /\ UNCHANGED <<tab, lockBit>>
             /\ seq' = [seq EXCEPT ![p] = n]
             /\ \E x : /\ Sets(t, x) /\ x.arg = op[t].arg
                       /\ \/ x.pc = "alloc" /\ n < kMaxId /\ x.id = p * kMaxId + n
                          \/ x.pc = "dead"
<1>1. op[t].pc = "insert" /\ UNCHANGED <<tab, lockBit>>
  BY DEF NewId, At
<1>2. op[t] \in Op /\ Bucket(t) \in Buckets
  BY <1>1, PutsAt DEF Putting, Inserting
<1>3. PICK p \in Parts, n \in Nat : p = Bucket(t) \div kPartSize /\ n = seq[p] + 1
  BY <1>2, PartOf DEF IInv, TypeInv
<1>6. seq' = [seq EXCEPT ![p] = n]
  BY <1>3 DEF NewId
<1>4. CASE n < kMaxId
  <2>1. op' = [op EXCEPT ![t].pc = "alloc", ![t].id = p * kMaxId + n]
    BY <1>3, <1>4 DEF NewId
  <2>2. n \in 1 .. kMaxId - 1
    <3>1. seq[p] \in Nat
      BY DEF IInv, TypeInv
    <3> QED BY <1>3, <1>4, <3>1, Sizes
  <2>3. PICK i \in Nat : i = p * kMaxId + n
    BY <1>2, <1>3, <2>2, GivenBy
  <2> DEFINE x == WithId(op[t], "alloc", i)
  <2>4. op' = [op EXCEPT ![t] = x]
    BY <1>2, <2>1, <2>3 DEF IInv, TypeInv, WithId
  <2>5. "alloc" \in Places
    BY DEF Places, Putting, Inserting
  <2>6. x \in Op /\ x.pc = "alloc" /\ x.arg = op[t].arg /\ x.id = i
    BY <1>2, <2>5, PcIdSet
  <2> HIDE DEF x
  <2>7. Sets(t, x) /\ x.id = p * kMaxId + n
    BY <2>3, <2>4, <2>6 DEF Sets
  <2> QED BY <1>1, <1>3, <1>4, <1>6, <2>6, <2>7
<1>5. CASE ~ (n < kMaxId)
  <2>1. Goto(t, "dead") /\ "dead" \in Places
    BY <1>3, <1>5 DEF NewId, Places, Putting, Inserting
  <2>2. PICK x : Sets(t, x) /\ x.pc = "dead" /\ SameCall(x, op[t])
    BY <2>1, Goes DEF IInv
  <2> QED BY <1>1, <1>3, <1>6, <2>2 DEF SameCall
<1> QED BY <1>4, <1>5

LEMMA NewIdKeeps == ASSUME IInv, NEW t \in Threads, NewId(t) PROVE IInv'
<1>1. PICK b \in Buckets : b = Bucket(t) /\ b = Hash[op[t].arg]
  BY NewIdEffect, PutsAt DEF Putting, Inserting
<1>2. PICK p \in Parts : p = b \div kPartSize
  BY PartOf
<1>3. PICK n \in Nat : n = seq[p] + 1
  BY DEF IInv, TypeInv
<1>4. /\ op[t].pc = "insert" /\ tab' = tab /\ lockBit' = lockBit
      /\ seq' = [seq EXCEPT ![p] = n]
  BY <1>1, <1>2, <1>3, NewIdEffect
<1>5. PICK x : /\ Sets(t, x) /\ x.arg = op[t].arg
               /\ \/ x.pc = "alloc" /\ n < kMaxId /\ x.id = p * kMaxId + n
                  \/ x.pc = "dead"
  <2>1. PICK x : /\ Sets(t, x) /\ x.arg = op[t].arg
                 /\ \/ /\ x.pc = "alloc" /\ seq[Bucket(t) \div kPartSize] + 1 < kMaxId
                       /\ x.id = (Bucket(t) \div kPartSize) * kMaxId + (seq[Bucket(t) \div kPartSize] + 1)
                    \/ x.pc = "dead"
    BY NewIdEffect, Zenon
  <2>2. p = Bucket(t) \div kPartSize /\ n = seq[Bucket(t) \div kPartSize] + 1
    BY <1>1, <1>2, <1>3
  <2>3. Sets(t, x) /\ x.arg = op[t].arg
        /\ \/ x.pc = "alloc" /\ n < kMaxId /\ x.id = p * kMaxId + n
           \/ x.pc = "dead"
    BY <2>1, <2>2, Zenon
  <2> QED BY <2>3, Zenon
<1>6. PICK sq \in [Parts -> Nat], sr \in [Parts -> Nat] : sq = seq /\ sr = seq'
  BY <1>4 DEF IInv, TypeInv
<1>7. Grown(sq, sr) /\ sr[p] = n
  BY <1>3, <1>4, <1>6 DEF Grown
<1>8. PICK q \in [Threads -> Op] : q = op' /\ q[t] = x /\ Moved(op, q, t)
  BY <1>5, OpSet DEF IInv, Sets
<1>9. LocksOK(q, lockBit)
  <2>1. \A c \in Buckets : Owns(x, c) <=> Owns(op[t], c)
    BY <1>4, <1>5 DEF Owns, Inserting
  <2>2. OwnStep(op[t], x, lockBit, lockBit)
    BY <2>1 DEF OwnStep, IInv, LocksOK
  <2> QED BY <1>8, <2>2, LocksStep DEF IInv
<1>10. IdsOK(tab, sr)
  BY <1>6, <1>7, IdsGrown DEF IInv
<1>11. PlacesOK(op, tab, sr)
  BY <1>6, <1>7, PlaceGrown DEF IInv, PlacesOK
<1>12. PutOK(op[t], tab, sr) /\ op[t].arg \in Stacks
  BY <1>4, <1>11 DEF PlacesOK, PlaceOK, PutOK, Putting, Inserting
<1>13. PlacesOK(q, tab, sr)
  <2>1. CASE x.pc = "dead"
    <3>1. PlaceOK(x, tab, sr)
      BY <1>4, <1>5, <1>12, <2>1 DEF PlaceOK, PutOK, Putting, Inserting
    <3> QED BY <1>8, <1>11, <2>1, <3>1, PlacesStep
  <2>2. CASE x.pc = "alloc" /\ n < kMaxId /\ x.id = p * kMaxId + n
    <3>1. \A c \in Buckets : \A id : Given(sq, c, id) => id # x.id
      BY <1>2, <1>3, <1>6, <2>2, FreshId
    <3>2. \A c \in Buckets : \A i \in DOMAIN tab[c] : tab[c][i].id # x.id
      BY <1>6, <3>1 DEF IInv, IdsOK
    <3>3. Given(sr, b, x.id)
      <4>1. n \in 1 .. sr[p]
        BY <1>3, <1>6, <1>7
      <4> QED BY <1>2, <2>2, <4>1 DEF Given
    <3>4. PlaceOK(x, tab, sr)
      BY <1>1, <1>4, <1>5, <1>12, <2>2, <3>2, <3>3 DEF PlaceOK, PutOK, Putting, Inserting
    <3>5. \A u \in Threads : op[u].pc = "alloc" => op[u].id # x.id
      <4> SUFFICES ASSUME NEW u \in Threads, op[u].pc = "alloc" PROVE op[u].id # x.id
        OBVIOUS
      <4>1. PutOK(op[u], tab, seq) /\ op[u].arg \in Stacks
        BY PutsAt DEF Putting, Inserting
      <4>2. Hash[op[u].arg] \in Buckets /\ Given(sq, Hash[op[u].arg], op[u].id)
        BY <1>6, <4>1, Sizes DEF PutOK
      <4> QED BY <3>1, <4>2
    <3>6. \A u \in Threads : PlaceOK(q[u], tab, sr)
      BY <1>8, <1>11, <3>4 DEF Moved, PlacesOK
    <3>7. ASSUME NEW u \in Threads, NEW v \in Threads,
                 q[u].pc = "alloc", q[v].pc = "alloc", q[u].id = q[v].id
          PROVE  u = v
      <4>1. CASE u # t /\ v # t
        BY <1>8, <1>11, <3>7, <4>1 DEF Moved, PlacesOK
      <4>2. CASE u = t /\ v # t
        BY <1>8, <3>5, <3>7, <4>2 DEF Moved
      <4>3. CASE u # t /\ v = t
        BY <1>8, <3>5, <3>7, <4>3 DEF Moved
      <4> QED BY <4>1, <4>2, <4>3
    <3> QED BY <3>6, <3>7 DEF PlacesOK
  <2> QED BY <1>5, <2>1, <2>2
<1>14. TypeInv'
  BY <1>4, <1>6, <1>8 DEF IInv, TypeInv
<1> QED BY <1>4, <1>6, <1>8, <1>9, <1>10, <1>13, <1>14 DEF IInv

-----------------------------------------------------------------------------
\* A node is put in front of bucket b
Pushed(tb, tc, b, x) ==
  /\ \A c \in Buckets : c # b => tc[c] = tb[c]
  /\ Len(tc[b]) = Len(tb[b]) + 1 /\ DOMAIN tc[b] = 1 .. Len(tb[b]) + 1
  /\ tc[b][1] = x
  /\ \A i \in DOMAIN tb[b] : i + 1 \in DOMAIN tc[b] /\ tc[b][i + 1] = tb[b][i]
  /\ \A i \in DOMAIN tc[b] : i = 1 \/ (i - 1 \in DOMAIN tb[b] /\ tc[b][i] = tb[b][i - 1])

\* What is in the lists then
LEMMA PushedNodes ==
  ASSUME NEW tb \in Tab, NEW tc, NEW b \in Buckets, NEW x, Pushed(tb, tc, b, x)
  PROVE  /\ 1 \in DOMAIN tc[b] /\ tc[b][1] = x
         /\ \A c \in Buckets : \A i \in DOMAIN tb[c] : \E j \in DOMAIN tc[c] : tc[c][j] = tb[c][i]
         /\ \A c \in Buckets : \A i \in DOMAIN tc[c] :
              (c = b /\ i = 1) \/ \E j \in DOMAIN tb[c] : tc[c][i] = tb[c][j]
                                     /\ (IF c = b THEN j = i - 1 ELSE j = i)
<1>1. Len(tb[b]) \in Nat
  BY Listed
<1>2. 1 \in DOMAIN tc[b] /\ tc[b][1] = x
  BY <1>1 DEF Pushed
<1>3. ASSUME NEW c \in Buckets, NEW i \in DOMAIN tb[c] PROVE \E j \in DOMAIN tc[c] : tc[c][j] = tb[c][i]
  BY <1>3 DEF Pushed
<1>4. ASSUME NEW c \in Buckets, NEW i \in DOMAIN tc[c]
      PROVE  (c = b /\ i = 1) \/ \E j \in DOMAIN tb[c] : tc[c][i] = tb[c][j]
                                     /\ (IF c = b THEN j = i - 1 ELSE j = i)
  BY <1>4 DEF Pushed
<1> QED BY <1>2, <1>3, <1>4

LEMMA PushedLists ==
  ASSUME NEW tb \in Tab, NEW tc \in Tab, NEW b \in Buckets, NEW x \in Node, Pushed(tb, tc, b, x),
         ListsOK(tb), Hash[x.stack] = b, \A i \in DOMAIN tb[b] : tb[b][i].stack # x.stack
  PROVE  ListsOK(tc)
<1> SUFFICES ASSUME NEW c \in Buckets, NEW i \in DOMAIN tc[c]
             PROVE  /\ Hash[tc[c][i].stack] = c
                    /\ \A j \in DOMAIN tc[c] : tc[c][i].stack = tc[c][j].stack => i = j
  BY DEF ListsOK
<1>1. CASE c # b
  BY <1>1 DEF Pushed, ListsOK
<1>2. CASE c = b
  <2>1. \A j \in DOMAIN tc[b] : j \in Int
    BY Listed
  <2>2. \A j \in DOMAIN tc[b] : j # 1 =>
          j - 1 \in DOMAIN tb[b] /\ tc[b][j] = tb[b][j - 1]
    BY DEF Pushed
  <2>3. tc[b][1] = x
    BY DEF Pushed
  <2>4. Hash[tc[c][i].stack] = c
    BY <1>2, <2>2, <2>3 DEF ListsOK
  <2>5. ASSUME NEW j \in DOMAIN tc[b], tc[b][i].stack = tc[b][j].stack PROVE i = j
    <3>1. CASE i = 1 \/ j = 1
      BY <1>2, <2>2, <2>3, <2>5, <3>1
    <3>2. CASE i # 1 /\ j # 1
      <4>1. i - 1 = j - 1
        BY <1>2, <2>2, <2>5, <3>2 DEF ListsOK
      <4> QED BY <1>2, <2>1, <4>1
    <3> QED BY <3>1, <3>2
  <2> QED BY <1>2, <2>4, <2>5
<1> QED BY <1>1, <1>2

LEMMA PushedIds ==
  ASSUME NEW tb \in Tab, NEW tc \in Tab, NEW b \in Buckets, NEW x \in Node, Pushed(tb, tc, b, x),
         NEW sq, IdsOK(tb, sq), Given(sq, b, x.id),
         \A c \in Buckets : \A i \in DOMAIN tb[c] : tb[c][i].id # x.id
  PROVE  IdsOK(tc, sq)
<1>1. /\ 1 \in DOMAIN tc[b] /\ tc[b][1] = x
      /\ \A c \in Buckets : \A i \in DOMAIN tc[c] :
           (c = b /\ i = 1) \/ \E j \in DOMAIN tb[c] : tc[c][i] = tb[c][j]
                                     /\ (IF c = b THEN j = i - 1 ELSE j = i)
  BY PushedNodes
<1>2. \A c \in Buckets : \A i \in DOMAIN tc[c] : i \in Int
  BY Listed
<1> SUFFICES ASSUME NEW c \in Buckets, NEW i \in DOMAIN tc[c]
             PROVE  /\ Given(sq, c, tc[c][i].id)
                    /\ \A d \in Buckets : \A j \in DOMAIN tc[d] :
                         tc[c][i].id = tc[d][j].id => c = d /\ i = j
  BY DEF IdsOK
<1>3. Given(sq, c, tc[c][i].id)
  BY <1>1 DEF IdsOK
<1>4. ASSUME NEW d \in Buckets, NEW j \in DOMAIN tc[d], tc[c][i].id = tc[d][j].id
      PROVE  c = d /\ i = j
  <2>1. CASE c = b /\ i = 1
    <3>1. ~ \E k \in DOMAIN tb[d] : tc[d][j] = tb[d][k]
      BY <1>1, <1>4, <2>1
    <3> QED BY <1>1, <2>1, <3>1
  <2>2. CASE d = b /\ j = 1
    <3>1. ~ \E k \in DOMAIN tb[c] : tc[c][i] = tb[c][k]
      BY <1>1, <1>4, <2>2
    <3> QED BY <1>1, <2>2, <3>1
  <2>3. CASE ~ (c = b /\ i = 1) /\ ~ (d = b /\ j = 1)
    <3>1. PICK k \in DOMAIN tb[c] : tc[c][i] = tb[c][k] /\ (IF c = b THEN k = i - 1 ELSE k = i)
      BY <1>1, <2>3
    <3>2. PICK l \in DOMAIN tb[d] : tc[d][j] = tb[d][l] /\ (IF d = b THEN l = j - 1 ELSE l = j)
      BY <1>1, <2>3
    <3>3. c = d /\ k = l
      BY <1>4, <3>1, <3>2 DEF IdsOK
    <3> QED BY <1>2, <3>1, <3>2, <3>3
  <2> QED BY <2>1, <2>2, <2>3
<1> QED BY <1>3, <1>4

\* What another thread knows it still knows
LEMMA PushedPlace ==
  ASSUME NEW tb \in Tab, NEW tc \in Tab, NEW b \in Buckets, NEW x \in Node, Pushed(tb, tc, b, x),
         NEW sq, NEW o \in Op, PlaceOK(o, tb, sq), ~ Owns(o, b), o.pc = "alloc" => o.id # x.id
  PROVE  PlaceOK(o, tc, sq)
<1>1. ASSUME o.pc \in Putting PROVE PutOK(o, tc, sq)
  <2>1. PutOK(o, tb, sq)
    BY <1>1 DEF PlaceOK
  <2>2. PICK c \in Buckets : c = Hash[o.arg]
    BY <2>1, Sizes DEF PutOK
  <2>3. o.arg \in Stacks /\ o.seen \in Nat
    BY <2>1, Typed DEF PutOK
  <2>4. CASE o.pc = "lock"
    <3>1. /\ o.seen <= Len(tb[c])
          /\ \A i \in DOMAIN tb[c] : i > Len(tb[c]) - o.seen => tb[c][i].stack # o.arg
      BY <2>1, <2>2, <2>4 DEF PutOK
    <3>2. o.seen <= Len(tc[c])
          /\ \A i \in DOMAIN tc[c] : i > Len(tc[c]) - o.seen => tc[c][i].stack # o.arg
      <4>1. CASE c # b
        BY <3>1, <4>1 DEF Pushed
      <4>2. CASE c = b
        <5>1. Len(tb[b]) \in Nat /\ Len(tc[b]) = Len(tb[b]) + 1 /\ \A i \in DOMAIN tc[b] : i \in Int
          BY Listed DEF Pushed
        <5>2. ASSUME NEW i \in DOMAIN tc[b], i > Len(tc[b]) - o.seen PROVE tc[b][i].stack # o.arg
          <6>1. i # 1 /\ i \in Int /\ i - 1 > Len(tb[b]) - o.seen
            BY <2>3, <3>1, <4>2, <5>1, <5>2
          <6>2. i - 1 \in DOMAIN tb[b] /\ tc[b][i] = tb[b][i - 1]
            BY <6>1 DEF Pushed
          <6> QED BY <3>1, <4>2, <6>1, <6>2
        <5>3. o.seen <= Len(tc[b])
          BY <2>3, <3>1, <4>2, <5>1
        <5> QED BY <4>2, <5>2, <5>3
      <4> QED BY <4>1, <4>2
    <3> QED BY <2>2, <2>3, <2>4, <3>2 DEF PutOK, Inserting
  <2>5. CASE o.pc = "find"
    BY <2>3, <2>5 DEF PutOK, Inserting
  <2>6. CASE o.pc \in Inserting \cup {"found"}
    <3>1. tc[c] = tb[c]
      BY <2>2, <2>6 DEF Owns, Pushed
    <3>2. ASSUME o.pc = "alloc"
          PROVE  \A d \in Buckets : \A i \in DOMAIN tc[d] : tc[d][i].id # o.id
      <4>1. \A d \in Buckets : \A i \in DOMAIN tb[d] : tb[d][i].id # o.id
        BY <2>1, <3>2 DEF PutOK
      <4> QED BY <3>2, <4>1, PushedNodes
    <3> QED BY <2>1, <2>2, <2>6, <3>1, <3>2 DEF PutOK, Inserting
  <2> QED BY <1>1, <2>4, <2>5, <2>6 DEF Putting
<1>2. ASSUME o.pc = "get" PROVE GetOK(o, tc)
  <2>1. GetOK(o, tb)
    BY <1>2 DEF PlaceOK
  <2>2. \A c \in Buckets : \A id : (\E i \in DOMAIN tb[c] : tb[c][i].id = id) =>
                               \E i \in DOMAIN tc[c] : tc[c][i].id = id
    BY PushedNodes
  <2> QED BY <2>1, <2>2 DEF GetOK
<1> QED BY <1>1, <1>2 DEF PlaceOK

LEMMA PublishEffect ==
  ASSUME IInv, NEW t \in Threads, Publish(t)
  PROVE  LET b == Bucket(t)
         IN  /\ op[t].pc = "alloc" /\ seq' = seq /\ op[t].id \in Nat /\ op[t].arg \in Stacks
             /\ Answer(t, op[t].id)
             /\ lockBit' = [lockBit EXCEPT ![b] = FALSE]
             /\ tab' \in Tab
             /\ Pushed(tab, tab', b, [id |-> op[t].id, stack |-> op[t].arg])
<1> DEFINE x == [id |-> op[t].id, stack |-> op[t].arg]
<1>1. /\ op[t].pc = "alloc" /\ seq' = seq /\ Answer(t, op[t].id)
      /\ lockBit' = [lockBit EXCEPT ![Bucket(t)] = FALSE]
      /\ tab' = [tab EXCEPT ![Bucket(t)] = <<x>> \o @]
  BY DEF Publish, At
<1>2. PICK b \in Buckets : b = Bucket(t)
  BY <1>1, PutsAt DEF Putting, Inserting
<1>3. op[t].arg \in Stacks /\ op[t] \in Op
  BY <1>1, PutsAt DEF Putting, Inserting
<1>4. op[t].id \in Nat
  BY <1>3, Typed
<1>5. x \in Node
  BY <1>3, <1>4 DEF Node
<1> HIDE DEF x
<1>6. tab \in Tab
  BY DEF IInv, TypeInv
<1>7. PICK s \in Seq(Node) : s = tab[b]
  BY <1>6, Listed
<1>8. PICK a \in Seq(Node) :
        /\ a = <<x>> \o s /\ Len(a) = Len(s) + 1 /\ DOMAIN a = 1 .. Len(s) + 1 /\ a[1] = x
        /\ \A i \in DOMAIN s : i + 1 \in DOMAIN a /\ a[i + 1] = s[i]
        /\ \A i \in DOMAIN a : i = 1 \/ (i - 1 \in DOMAIN s /\ a[i] = s[i - 1])
  BY <1>5, PushedFront
<1>9. tab' = [tab EXCEPT ![b] = a]
  BY <1>1, <1>2, <1>7, <1>8
<1>10. tab' \in Tab /\ tab'[b] = a /\ \A c \in Buckets : c # b => tab'[c] = tab[c]
  BY <1>6, <1>9 DEF Tab
<1>11. Pushed(tab, tab', b, x)
  BY <1>7, <1>8, <1>10 DEF Pushed
<1> QED BY <1>1, <1>2, <1>3, <1>4, <1>10, <1>11 DEF x

LEMMA PublishKeeps == ASSUME IInv, NEW t \in Threads, Publish(t) PROVE IInv'
<1>1. PICK b \in Buckets : b = Bucket(t) /\ b = Hash[op[t].arg]
  BY PublishEffect, PutsAt DEF Putting, Inserting
<1>2. PICK x : x = [id |-> op[t].id, stack |-> op[t].arg]
  OBVIOUS
<1>3. /\ op[t].pc = "alloc" /\ seq' = seq /\ op[t].id \in Nat /\ op[t].arg \in Stacks
      /\ Answer(t, op[t].id) /\ lockBit' = [lockBit EXCEPT ![b] = FALSE]
      /\ tab' \in Tab /\ Pushed(tab, tab', b, x)
  BY <1>1, <1>2, PublishEffect
<1>4. x \in Node /\ x.id = op[t].id /\ x.stack = op[t].arg
  BY <1>2, <1>3 DEF Node
<1>5. PICK tb \in Tab, tc \in Tab : tb = tab /\ tc = tab' /\ Pushed(tb, tc, b, x)
  BY <1>3 DEF IInv, TypeInv
<1>6. PutOK(op[t], tb, seq)
  BY <1>3, <1>5, PutsAt DEF Putting, Inserting
<1>7. /\ \A i \in DOMAIN tb[b] : tb[b][i].stack # x.stack
      /\ Given(seq, b, x.id)
      /\ \A c \in Buckets : \A i \in DOMAIN tb[c] : tb[c][i].id # x.id
  BY <1>1, <1>3, <1>4, <1>6 DEF PutOK, Inserting
<1>8. ListsOK(tc)
  BY <1>1, <1>4, <1>5, <1>7, PushedLists DEF IInv
<1>9. IdsOK(tc, seq)
  BY <1>4, <1>5, <1>7, PushedIds DEF IInv
<1>10. PICK y \in Op : /\ op' = [op EXCEPT ![t] = y] /\ y.pc = "answered"
                       /\ \A c \in Buckets : ~ Owns(y, c)
                       /\ \A u, v : PlaceOK(y, u, v)
  <2>1. op[t].id \in Args
    BY <1>3 DEF Args
  <2> QED BY <1>3, <2>1, Answers DEF Sets
<1>11. PICK q \in [Threads -> Op] : q = op' /\ q[t] = y /\ Moved(op, q, t)
  BY <1>10, OpSet DEF IInv
<1>12. Owns(op[t], b)
  BY <1>1, <1>3 DEF Owns, Inserting
<1>13. LocksOK(q, lockBit')
  <2>1. lockBit \in [Buckets -> BOOLEAN]
    BY DEF IInv, TypeInv
  <2>2. OwnStep(op[t], y, lockBit, lockBit')
    BY <1>3, <1>10, <1>12, <2>1 DEF OwnStep
  <2> QED BY <1>11, <2>2, LocksStep DEF IInv
<1>14. ASSUME NEW u \in Threads, u # t PROVE PlaceOK(op[u], tc, seq)
  <2>1. op[u] \in Op /\ PlaceOK(op[u], tb, seq)
    BY <1>5 DEF IInv, TypeInv, PlacesOK
  <2>2. ~ Owns(op[u], b)
    BY <1>12, <1>14 DEF IInv, LocksOK
  <2>3. op[u].pc = "alloc" => op[u].id # x.id
    BY <1>3, <1>4, <1>14 DEF IInv, PlacesOK
  <2> QED BY <1>4, <1>5, <2>1, <2>2, <2>3, PushedPlace
<1>15. PlacesOK(q, tc, seq)
  <2>1. \A u \in Threads : PlaceOK(q[u], tc, seq)
    BY <1>10, <1>11, <1>14 DEF Moved
  <2>2. ASSUME NEW u \in Threads, NEW v \in Threads,
               q[u].pc = "alloc", q[v].pc = "alloc", q[u].id = q[v].id
        PROVE  u = v
    <3>1. u # t /\ v # t
      BY <1>10, <1>11, <2>2
    <3> QED BY <1>11, <2>2, <3>1 DEF Moved, IInv, PlacesOK
  <2> QED BY <2>1, <2>2 DEF PlacesOK
<1>16. TypeInv'
  BY <1>3, <1>11 DEF IInv, TypeInv
<1> QED BY <1>3, <1>5, <1>8, <1>9, <1>11, <1>13, <1>15, <1>16 DEF IInv

-----------------------------------------------------------------------------
LEMMA InitIInv == Init => IInv
<1> SUFFICES ASSUME Init PROVE IInv
  OBVIOUS
<1>1. /\ tab = [b \in Buckets |-> <<>>] /\ lockBit = [b \in Buckets |-> FALSE]
      /\ seq = [p \in Parts |-> 0] /\ op = [t \in Threads |-> NotCalling]
  BY DEF Init, DepotInit, Parts
<1>2. TypeInv
  BY <1>1, StartsAgain DEF TypeInv, Tab
<1>3. \A b \in Buckets : tab[b] = <<>> /\ DOMAIN tab[b] = {}
  BY <1>1
<1>4. ListsOK(tab) /\ IdsOK(tab, seq)
  BY <1>3 DEF ListsOK, IdsOK
<1>5. \A t \in Threads : op[t] = NotCalling
  BY <1>1
<1>6. LocksOK(op, lockBit)
  BY <1>5, StartsAgain DEF LocksOK
<1>7. PlacesOK(op, tab, seq)
  BY <1>5, StartsAgain DEF PlacesOK
<1> QED BY <1>2, <1>4, <1>6, <1>7 DEF IInv

LEMMA NextKeeps == ASSUME IInv, [Next]_vars PROVE IInv'
<1>1. CASE UNCHANGED <<tab, lockBit, seq, op>>
  BY <1>1 DEF IInv, TypeInv
<1>2. CASE UNCHANGED vars
  BY <1>1, <1>2 DEF vars, depotVars
<1>3. CASE BeginMap \/ ReadBucket \/ MapGet
  BY <1>1, <1>3 DEF BeginMap, ReadBucket, MapGet, depotVars
<1>4. ASSUME NEW t \in Threads, MayCall(t) PROVE IInv'
  BY <1>4, CallForkKeeps, CallPutKeeps, CallGetKeeps DEF MayCall
<1>5. ASSUME NEW t \in Threads, Run(t) PROVE IInv'
  <2>1. CASE Allocate(t)
    BY <1>1, <2>1 DEF Allocate
  <2> QED BY <1>5, <2>1, FindKeeps, LockKeeps, UnlockFoundKeeps, NewIdKeeps, PublishKeeps,
             GetKeeps, LockAllKeeps, ForkParentKeeps, UnlockAllKeeps, ReturnKeeps DEF Run
<1> QED BY <1>2, <1>3, <1>4, <1>5, ForkChildKeeps DEF Next

\* One owner of each bucket, one node for each stack, one identifier for each node
THEOREM Inductive == Spec => []IInv
BY InitIInv, NextKeeps, PTL DEF Spec

-----------------------------------------------------------------------------
\* The depot implements Depot.  What a thread asks is a matter of where it is
CallOf(o) ==
  CASE o.pc \in {"find", "lock", "found", "insert", "alloc", "dead"} -> [op |-> "put", arg |-> o.arg]
    [] o.pc = "get" -> [op |-> "get", arg |-> o.arg]
    [] o.pc = "lockall" -> [op |-> "fork", arg |-> NoId]
    [] o.pc = "fork" -> [op |-> "forking", arg |-> NoId]
    [] o.pc = "unlockall" -> [op |-> "forked", arg |-> NoId]
    [] o.pc = "answered" -> [op |-> "answered", ans |-> o.arg]
    [] OTHER -> [op |-> o.pc]

LEMMA Seen ==
  ASSUME NEW o
  PROVE  /\ o.pc \in Putting => CallOf(o) = Promise!Asked("put", o.arg)
         /\ o.pc = "get" => CallOf(o) = Promise!Asked("get", o.arg)
         /\ o.pc = "lockall" => CallOf(o) = Promise!Asked("fork", NoId)
         /\ o.pc = "fork" => CallOf(o) = Promise!Asked("forking", NoId)
         /\ o.pc = "unlockall" => CallOf(o) = Promise!Asked("forked", NoId)
         /\ o.pc = "answered" => CallOf(o) = Promise!Answered(o.arg)
         /\ o.pc = "idle" => CallOf(o) = Promise!Idle
         /\ o.pc = "gone" => CallOf(o) = Promise!Gone
<1>1. o.pc \in Putting => CallOf(o) = Promise!Asked("put", o.arg)
  BY DEF CallOf, Promise!Asked, Putting, Inserting
<1>2. /\ o.pc = "get" => CallOf(o) = Promise!Asked("get", o.arg)
      /\ o.pc = "lockall" => CallOf(o) = Promise!Asked("fork", NoId)
      /\ o.pc = "fork" => CallOf(o) = Promise!Asked("forking", NoId)
  BY DEF CallOf, Promise!Asked
<1>3. /\ o.pc = "unlockall" => CallOf(o) = Promise!Asked("forked", NoId)
      /\ o.pc = "answered" => CallOf(o) = Promise!Answered(o.arg)
  BY DEF CallOf, Promise!Asked, Promise!Answered
<1>4. /\ o.pc = "idle" => CallOf(o) = Promise!Idle
      /\ o.pc = "gone" => CallOf(o) = Promise!Gone
  BY DEF CallOf, Promise!Idle, Promise!Gone
<1> QED BY <1>1, <1>2, <1>3, <1>4

LEMMA AskedIs ==
  /\ Asked = [t \in Threads |-> CallOf(op[t])]
  /\ Asked' = [t \in Threads |-> CallOf(op'[t])]
BY DEF Asked, Calls, CallOf

LEMMA AskedMoves ==
  ASSUME IInv, NEW t \in Threads, NEW x, Sets(t, x)
  PROVE  Asked' = [Asked EXCEPT ![t] = CallOf(x)] /\ Asked[t] = CallOf(op[t])
<1>1. op' \in [Threads -> Op] /\ op'[t] = x /\ Moved(op, op', t)
  BY OpSet DEF Sets, IInv
<1>2. \A u \in Threads : u # t => CallOf(op'[u]) = CallOf(op[u])
  BY <1>1 DEF Moved
<1>3. CallOf(op'[t]) = CallOf(x)
  BY <1>1
<1> HIDE DEF CallOf
<1> QED BY <1>2, <1>3, AskedIs

LEMMA AnswerMapped ==
  ASSUME IInv, NEW t \in Threads, NEW a \in Args, Answer(t, a)
  PROVE  Promise!Answer(t, a) /\ Asked[t] = CallOf(op[t])
<1>1. Sets(t, Answering(a)) /\ Answering(a).pc = "answered" /\ Answering(a).arg = a
  BY Answers
<1>2. CallOf(Answering(a)) = Promise!Answered(a)
  BY <1>1, Seen
<1> QED BY <1>1, <1>2, AskedMoves DEF Promise!Answer

LEMMA Stutters ==
  ASSUME IInv, NEW t \in Threads, NEW x, Sets(t, x), CallOf(x) = CallOf(op[t]), tab' = tab
  PROVE  UNCHANGED <<IdOf, Asked>>
<1>1. Asked' = [Asked EXCEPT ![t] = Asked[t]]
  BY AskedMoves
<1>2. Asked' = Asked
  BY <1>1, AskedIs
<1> QED BY <1>2 DEF IdOf, Nodes

LEMMA SameIds == ASSUME tab' = tab PROVE UNCHANGED IdOf
BY DEF IdOf, Nodes

\* The identifiers of the stacks in the lists
IdsIn(tb) ==
  [s \in {n.stack : n \in NodesIn(tb)} |-> (CHOOSE n \in NodesIn(tb) : n.stack = s).id]

LEMMA IdOfIs == IdOf = IdsIn(tab) /\ IdOf' = IdsIn(tab')
BY DEF IdOf, IdsIn, Nodes, NodesIn

LEMMA IdsFound ==
  ASSUME NEW tb \in Tab, ListsOK(tb)
  PROVE  /\ IdsIn(tb) = [s \in DOMAIN IdsIn(tb) |-> IdsIn(tb)[s]]
         /\ \A b \in Buckets : \A i \in DOMAIN tb[b] :
              tb[b][i].stack \in DOMAIN IdsIn(tb) /\ IdsIn(tb)[tb[b][i].stack] = tb[b][i].id
         /\ \A s \in DOMAIN IdsIn(tb) :
              \E b \in Buckets : \E i \in DOMAIN tb[b] :
                 tb[b][i].stack = s /\ tb[b][i].id = IdsIn(tb)[s]
<1> DEFINE f == IdsIn(tb)
           D == {n.stack : n \in NodesIn(tb)}
<1>1. DOMAIN f = D /\ \A s \in D : f[s] = (CHOOSE n \in NodesIn(tb) : n.stack = s).id
  BY DEF IdsIn
<1>2. f = [s \in D |-> f[s]]
  BY DEF IdsIn
<1>3. ASSUME NEW b \in Buckets, NEW i \in DOMAIN tb[b]
      PROVE  tb[b][i].stack \in D /\ f[tb[b][i].stack] = tb[b][i].id
  <2>1. tb[b][i] \in NodesIn(tb)
    BY NodeListed
  <2>2. PICK s : s = tb[b][i].stack
    OBVIOUS
  <2>3. s \in D
    BY <2>1, <2>2
  <2>4. PICK m : m = CHOOSE n \in NodesIn(tb) : n.stack = s
    OBVIOUS
  <2>5. m \in NodesIn(tb) /\ m.stack = s
    BY <2>1, <2>2, <2>4
  <2>6. PICK c \in Buckets : \E j \in DOMAIN tb[c] : m = tb[c][j]
    BY <2>5, NodeListed
  <2>7. PICK j \in DOMAIN tb[c] : m = tb[c][j]
    BY <2>6
  <2>8. c = b /\ j = i
    BY <2>2, <2>5, <2>7 DEF ListsOK
  <2> QED BY <1>1, <2>2, <2>3, <2>4, <2>7, <2>8
<1>4. ASSUME NEW s \in D
      PROVE  \E b \in Buckets : \E i \in DOMAIN tb[b] : tb[b][i].stack = s /\ tb[b][i].id = f[s]
  <2>1. PICK n \in NodesIn(tb) : n.stack = s
    OBVIOUS
  <2>2. PICK b \in Buckets : \E i \in DOMAIN tb[b] : n = tb[b][i]
    BY NodeListed
  <2>3. PICK i \in DOMAIN tb[b] : n = tb[b][i]
    BY <2>2
  <2> QED BY <1>3, <2>1, <2>3
<1> HIDE DEF f, D
<1>5. f = [s \in DOMAIN f |-> f[s]]
  BY <1>1, <1>2
<1>6. \A s \in DOMAIN f :
        \E b \in Buckets : \E i \in DOMAIN tb[b] : tb[b][i].stack = s /\ tb[b][i].id = f[s]
  BY <1>1, <1>4
<1>7. \A b \in Buckets : \A i \in DOMAIN tb[b] :
        tb[b][i].stack \in DOMAIN f /\ f[tb[b][i].stack] = tb[b][i].id
  BY <1>1, <1>3
<1> QED BY <1>5, <1>6, <1>7 DEF f

LEMMA IdOfNode ==
  ASSUME IInv, NEW b \in Buckets, NEW i \in DOMAIN tab[b]
  PROVE  /\ tab[b][i].stack \in DOMAIN IdOf /\ IdOf[tab[b][i].stack] = tab[b][i].id
         /\ Promise!StackOf(tab[b][i].id) = tab[b][i].stack
<1>1. tab \in Tab /\ ListsOK(tab) /\ IdsOK(tab, seq)
  BY DEF IInv, TypeInv
<1>2. PICK f : f = IdOf /\ f = IdsIn(tab)
  BY IdOfIs
<1>3. PICK s : s = tab[b][i].stack
  OBVIOUS
<1>4. s \in DOMAIN f /\ f[s] = tab[b][i].id
  BY <1>1, <1>2, <1>3, IdsFound
<1>5. ASSUME NEW r \in DOMAIN f, f[r] = tab[b][i].id PROVE r = s
  <2>1. PICK c \in Buckets : \E j \in DOMAIN tab[c] : tab[c][j].stack = r /\ tab[c][j].id = f[r]
    BY <1>1, <1>2, IdsFound
  <2>2. PICK j \in DOMAIN tab[c] : tab[c][j].stack = r /\ tab[c][j].id = f[r]
    BY <2>1
  <2>3. c = b /\ j = i
    BY <1>1, <1>5, <2>2 DEF IdsOK
  <2> QED BY <1>3, <2>2, <2>3
<1>6. Promise!StackOf(tab[b][i].id) = CHOOSE r \in DOMAIN f : f[r] = tab[b][i].id
  BY <1>2 DEF Promise!StackOf
<1>7. (CHOOSE r \in DOMAIN f : f[r] = tab[b][i].id) = s
  BY <1>4, <1>5
<1> QED BY <1>2, <1>3, <1>4, <1>6, <1>7

LEMMA CallPutMapped == ASSUME IInv, NEW t \in Threads, CallPut(t) PROVE Promise!Ask(t)
<1>1. op[t].pc = "idle" /\ UNCHANGED IdOf
  BY CallPutEffect, SameIds
<1>2. CallOf(op[t]) = Promise!Idle
  BY <1>1, Seen
<1>3. CASE Answer(t, NoId)
  <2>1. NoId \in Args
    BY DEF NoId, Args
  <2>2. Promise!Answer(t, NoId) /\ Asked[t] = Promise!Idle
    BY <1>2, <1>3, <2>1, AnswerMapped
  <2>3. NoId = Promise!NoId
    BY DEF NoId, Promise!NoId
  <2> QED BY <1>1, <2>2, <2>3 DEF Promise!Ask
<1>4. ASSUME NEW s \in Stacks, NEW x, Sets(t, x), x.pc = "find", x.arg = s PROVE Promise!Ask(t)
  <2>1. CallOf(x) = Promise!Asked("put", s)
    BY <1>4, Seen DEF Putting
  <2>2. Asked' = [Asked EXCEPT ![t] = Promise!Asked("put", s)] /\ Asked[t] = Promise!Idle
    BY <1>2, <1>4, <2>1, AskedMoves
  <2> QED BY <1>1, <2>2 DEF Promise!Ask
<1> QED BY <1>3, <1>4, CallPutEffect

LEMMA CallGetMapped == ASSUME IInv, NEW t \in Threads, CallGet(t) PROVE Promise!Ask(t)
<1>1. op[t].pc = "idle" /\ UNCHANGED IdOf
  BY CallGetEffect, SameIds
<1>2. CallOf(op[t]) = Promise!Idle
  BY <1>1, Seen
<1>3. CASE Answer(t, NoStack)
  <2>1. NoStack \in Args
    BY DEF Args
  <2>2. Promise!Answer(t, NoStack) /\ Asked[t] = Promise!Idle
    BY <1>2, <1>3, <2>1, AnswerMapped
  <2> QED BY <1>1, <2>2 DEF Promise!Ask
<1>4. ASSUME NEW b \in Buckets, NEW i \in DOMAIN tab[b], NEW x,
             Sets(t, x), x.pc = "get", x.arg = tab[b][i].id
      PROVE  Promise!Ask(t)
  <2>1. PICK s \in DOMAIN IdOf : IdOf[s] = x.arg
    BY <1>4, IdOfNode
  <2>2. CallOf(x) = Promise!Asked("get", IdOf[s])
    BY <1>4, <2>1, Seen
  <2>3. Asked' = [Asked EXCEPT ![t] = Promise!Asked("get", IdOf[s])] /\ Asked[t] = Promise!Idle
    BY <1>2, <1>4, <2>2, AskedMoves
  <2> QED BY <1>1, <2>3 DEF Promise!Ask
<1> QED BY <1>3, <1>4, CallGetEffect

LEMMA CallForkMapped == ASSUME IInv, NEW t \in Threads, CallFork(t) PROVE Promise!Ask(t)
<1>1. op[t].pc = "idle" /\ UNCHANGED IdOf
  BY CallForkEffect, SameIds
<1>2. PICK x : Sets(t, x) /\ x.pc = "lockall"
  BY CallForkEffect
<1>3. CallOf(op[t]) = Promise!Idle /\ CallOf(x) = Promise!Asked("fork", NoId)
  BY <1>1, <1>2, Seen
<1>4. Asked' = [Asked EXCEPT ![t] = Promise!Asked("fork", NoId)] /\ Asked[t] = Promise!Idle
  BY <1>2, <1>3, AskedMoves
<1>5. NoId = Promise!NoId
  BY DEF NoId, Promise!NoId
<1> QED BY <1>1, <1>4, <1>5 DEF Promise!Ask

\* A Put that finds its stack gives the identifier the stack has
LEMMA PutAnswered ==
  ASSUME IInv, NEW t \in Threads, op[t].pc \in Putting, tab' = tab,
         NEW b \in Buckets, NEW i \in DOMAIN tab[b],
         tab[b][i].stack = op[t].arg, Answer(t, tab[b][i].id)
  PROVE  Promise!Reply(t)
<1>1. PICK s \in DOMAIN IdOf : s = op[t].arg /\ IdOf[s] = tab[b][i].id
  BY IdOfNode
<1>2. tab[b][i].id \in Args
  BY Listed DEF IInv, TypeInv, Args
<1>3. Promise!Answer(t, IdOf[s]) /\ Asked[t] = CallOf(op[t])
  BY <1>1, <1>2, AnswerMapped
<1>4. Asked[t] = Promise!Asked("put", s)
  BY <1>1, <1>3, Seen
<1> QED BY <1>1, <1>3, <1>4, SameIds DEF Promise!Reply

LEMMA FindMapped ==
  ASSUME IInv, NEW t \in Threads, Find(t) PROVE Promise!Reply(t) \/ UNCHANGED <<IdOf, Asked>>
<1>1. op[t].pc = "find" /\ UNCHANGED <<tab, seq, lockBit>>
  BY FindEffect
<1>2. op[t].pc \in Putting
  BY <1>1 DEF Putting
<1>3. PICK b \in Buckets : b = Bucket(t)
  BY <1>2, PutsAt
<1>4. ASSUME NEW i \in DOMAIN tab[b], tab[b][i].stack = op[t].arg, Answer(t, tab[b][i].id)
      PROVE  Promise!Reply(t)
  BY <1>1, <1>2, <1>4, PutAnswered
<1>5. ASSUME NEW x, Sets(t, x), x.pc = "lock", x.arg = op[t].arg
      PROVE  UNCHANGED <<IdOf, Asked>>
  <2>1. CallOf(x) = CallOf(op[t])
    BY <1>2, <1>5, Seen DEF Putting
  <2> QED BY <1>1, <1>5, <2>1, Stutters
<1> QED BY <1>3, <1>4, <1>5, FindEffect

LEMMA LockMapped ==
  ASSUME IInv, NEW t \in Threads, Lock(t) PROVE UNCHANGED <<IdOf, Asked>>
<1>1. op[t].pc = "lock" /\ tab' = tab
  BY LockEffect
<1>2. PICK x : Sets(t, x) /\ x.arg = op[t].arg /\ x.pc \in {"found", "insert"}
  BY LockEffect
<1>3. CallOf(x) = CallOf(op[t])
  BY <1>1, <1>2, Seen DEF Putting, Inserting
<1> QED BY <1>1, <1>2, <1>3, Stutters

LEMMA UnlockFoundMapped ==
  ASSUME IInv, NEW t \in Threads, UnlockFound(t) PROVE Promise!Reply(t)
<1>1. op[t].pc = "found" /\ tab' = tab /\ Answer(t, op[t].id)
  BY UnlockFoundEffect
<1>2. op[t].pc \in Putting
  BY <1>1 DEF Putting
<1>3. PICK b \in Buckets : b = Hash[op[t].arg]
  BY <1>2, PutsAt
<1>4. PICK i \in DOMAIN tab[b] : tab[b][i] = [id |-> op[t].id, stack |-> op[t].arg]
  BY <1>1, <1>2, <1>3, PutsAt DEF PutOK
<1>5. tab[b][i].id = op[t].id /\ tab[b][i].stack = op[t].arg
  BY <1>4
<1> QED BY <1>1, <1>2, <1>5, PutAnswered

LEMMA NewIdMapped ==
  ASSUME IInv, NEW t \in Threads, NewId(t) PROVE UNCHANGED <<IdOf, Asked>>
<1>1. op[t].pc = "insert" /\ tab' = tab
  BY NewIdEffect
<1>2. PICK x : Sets(t, x) /\ x.arg = op[t].arg /\ x.pc \in {"alloc", "dead"}
  BY NewIdEffect
<1>3. CallOf(x) = CallOf(op[t])
  BY <1>1, <1>2, Seen DEF Putting, Inserting
<1> QED BY <1>1, <1>2, <1>3, Stutters

LEMMA GetMapped ==
  ASSUME IInv, NEW t \in Threads, Get(t) PROVE Promise!Reply(t) \/ UNCHANGED <<IdOf, Asked>>
<1>1. op[t].pc = "get" /\ UNCHANGED <<tab, seq, lockBit>> /\ op[t].arg \in Nat
  BY GetEffect
<1>2. CallOf(op[t]) = Promise!Asked("get", op[t].arg)
  BY <1>1, Seen
<1>3. ASSUME NEW b \in Buckets, NEW j \in DOMAIN tab[b],
             tab[b][j].id = op[t].arg, Answer(t, tab[b][j].stack)
      PROVE  Promise!Reply(t)
  <2>1. tab[b][j].stack \in Args
    BY Listed DEF IInv, TypeInv, Args
  <2>2. Promise!StackOf(op[t].arg) = tab[b][j].stack
    BY <1>3, IdOfNode
  <2>3. Promise!Answer(t, Promise!StackOf(op[t].arg)) /\ Asked[t] = Promise!Asked("get", op[t].arg)
    BY <1>2, <1>3, <2>1, <2>2, AnswerMapped
  <2>4. Asked[t].op = "get" /\ Asked[t].arg = op[t].arg
    BY <2>3 DEF Promise!Asked
  <2> QED BY <1>1, <2>3, <2>4, SameIds DEF Promise!Reply
<1>4. ASSUME NEW x, Sets(t, x), x.pc = "get", x.arg = op[t].arg PROVE UNCHANGED <<IdOf, Asked>>
  <2>1. CallOf(x) = CallOf(op[t])
    BY <1>2, <1>4, Seen
  <2> QED BY <1>1, <1>4, <2>1, Stutters
<1> QED BY <1>3, <1>4, GetEffect

\* Only the fork's own thread asks to go on as parent or child, and it owns all
LEMMA Forking ==
  ASSUME IInv, NEW u \in Threads, Asked[u].op = "forking"
  PROVE  \A b \in Buckets : Owns(op[u], b) /\ lockBit[b]
<1>1. Asked[u] = CallOf(op[u]) /\ op[u] \in Op
  BY AskedIs DEF IInv, TypeInv
<1>2. op[u].pc \in Places
  BY <1>1, Typed
<1>3. op[u].pc = "fork"
  BY <1>1, <1>2, Seen DEF Places, Putting, Inserting, Promise!Asked, Promise!Answered,
                          Promise!Idle, Promise!Gone
<1> QED BY <1>3 DEF Owns, IInv, LocksOK

LEMMA IdsPushed ==
  ASSUME NEW tb \in Tab, NEW tc \in Tab, NEW b \in Buckets, NEW x \in Node, Pushed(tb, tc, b, x),
         ListsOK(tb), ListsOK(tc)
  PROVE  IdsIn(tc) = [r \in DOMAIN IdsIn(tb) \cup {x.stack} |->
                        IF r = x.stack THEN x.id ELSE IdsIn(tb)[r]]
<1>1. PICK f : f = IdsIn(tb)
  OBVIOUS
<1>2. PICK g : g = IdsIn(tc)
  OBVIOUS
<1>3. /\ \A c \in Buckets : \A i \in DOMAIN tb[c] :
           tb[c][i].stack \in DOMAIN f /\ f[tb[c][i].stack] = tb[c][i].id
      /\ \A r \in DOMAIN f : \E c \in Buckets : \E i \in DOMAIN tb[c] :
           tb[c][i].stack = r /\ tb[c][i].id = f[r]
  BY <1>1, IdsFound
<1>4. /\ g = [r \in DOMAIN g |-> g[r]]
      /\ \A c \in Buckets : \A i \in DOMAIN tc[c] :
           tc[c][i].stack \in DOMAIN g /\ g[tc[c][i].stack] = tc[c][i].id
      /\ \A r \in DOMAIN g : \E c \in Buckets : \E i \in DOMAIN tc[c] :
           tc[c][i].stack = r /\ tc[c][i].id = g[r]
  BY <1>2, IdsFound
<1>5. /\ 1 \in DOMAIN tc[b] /\ tc[b][1] = x
      /\ \A c \in Buckets : \A i \in DOMAIN tb[c] : \E j \in DOMAIN tc[c] : tc[c][j] = tb[c][i]
      /\ \A c \in Buckets : \A i \in DOMAIN tc[c] :
           tc[c][i] = x \/ \E j \in DOMAIN tb[c] : tc[c][i] = tb[c][j]
  BY PushedNodes
<1>6. x.stack \in DOMAIN g /\ g[x.stack] = x.id
  BY <1>4, <1>5
<1>7. \A r \in DOMAIN f : r \in DOMAIN g /\ g[r] = f[r]
  <2> SUFFICES ASSUME NEW r \in DOMAIN f PROVE r \in DOMAIN g /\ g[r] = f[r]
    OBVIOUS
  <2>1. PICK c \in Buckets : \E i \in DOMAIN tb[c] : tb[c][i].stack = r /\ tb[c][i].id = f[r]
    BY <1>3
  <2>2. PICK i \in DOMAIN tb[c] : tb[c][i].stack = r /\ tb[c][i].id = f[r]
    BY <2>1
  <2>3. PICK j \in DOMAIN tc[c] : tc[c][j] = tb[c][i]
    BY <1>5
  <2> QED BY <1>4, <2>2, <2>3
<1>8. \A r \in DOMAIN g : r = x.stack \/ r \in DOMAIN f
  <2> SUFFICES ASSUME NEW r \in DOMAIN g, r # x.stack PROVE r \in DOMAIN f
    OBVIOUS
  <2>1. PICK c \in Buckets : \E i \in DOMAIN tc[c] : tc[c][i].stack = r
    BY <1>4
  <2>2. PICK i \in DOMAIN tc[c] : tc[c][i].stack = r
    BY <2>1
  <2>3. PICK j \in DOMAIN tb[c] : tc[c][i] = tb[c][j]
    BY <1>5, <2>2
  <2> QED BY <1>3, <2>2, <2>3
<1>9. DOMAIN g = DOMAIN f \cup {x.stack}
  BY <1>6, <1>7, <1>8
<1>10. \A r \in DOMAIN f \cup {x.stack} : g[r] = IF r = x.stack THEN x.id ELSE f[r]
  BY <1>6, <1>7
<1>11. g = [r \in DOMAIN f \cup {x.stack} |-> g[r]]
  BY <1>4, <1>9
<1>12. g = [r \in DOMAIN f \cup {x.stack} |-> IF r = x.stack THEN x.id ELSE f[r]]
  BY <1>10, <1>11
<1> QED BY <1>1, <1>2, <1>12

LEMMA PublishMapped ==
  ASSUME IInv, IInv', NEW t \in Threads, Publish(t)
  PROVE  \E s \in Stacks, id \in 1 .. kTabSize * kMaxId : Promise!Insert(t, s, id)
<1>1. PICK b \in Buckets : b = Bucket(t) /\ b = Hash[op[t].arg]
  BY PublishEffect, PutsAt DEF Putting, Inserting
<1>2. PICK x : x = [id |-> op[t].id, stack |-> op[t].arg]
  OBVIOUS
<1>3. /\ op[t].pc = "alloc" /\ op[t].id \in Nat /\ op[t].arg \in Stacks
      /\ Answer(t, op[t].id) /\ tab' \in Tab /\ Pushed(tab, tab', b, x)
  BY <1>1, <1>2, PublishEffect
<1>4. x \in Node /\ x.id = op[t].id /\ x.stack = op[t].arg
  BY <1>2, <1>3 DEF Node
<1>5. PutOK(op[t], tab, seq)
  BY <1>3, PutsAt DEF Putting, Inserting
<1>6. /\ \A i \in DOMAIN tab[b] : tab[b][i].stack # x.stack
      /\ Given(seq, b, x.id)
      /\ \A c \in Buckets : \A i \in DOMAIN tab[c] : tab[c][i].id # x.id
  BY <1>1, <1>3, <1>4, <1>5 DEF PutOK, Inserting
<1>7. /\ tab \in Tab /\ ListsOK(tab) /\ ListsOK(tab')
  BY DEF IInv, TypeInv
<1>8. \A r \in DOMAIN IdOf : \E c \in Buckets : \E i \in DOMAIN tab[c] :
        tab[c][i].stack = r /\ tab[c][i].id = IdOf[r]
  BY <1>7, IdsFound, IdOfIs
<1>9. x.stack \notin DOMAIN IdOf
  <2> SUFFICES ASSUME x.stack \in DOMAIN IdOf PROVE FALSE
    OBVIOUS
  <2>1. PICK c \in Buckets : \E i \in DOMAIN tab[c] : tab[c][i].stack = x.stack
    BY <1>8
  <2>2. PICK i \in DOMAIN tab[c] : tab[c][i].stack = x.stack
    BY <2>1
  <2>3. c = b
    BY <1>1, <1>4, <1>7, <2>2 DEF ListsOK
  <2> QED BY <1>6, <2>2, <2>3
<1>10. \A r \in DOMAIN IdOf : IdOf[r] # x.id
  BY <1>6, <1>8
<1>11. \A u \in Threads : Asked[u].op # "forking"
  <2> SUFFICES ASSUME NEW u \in Threads, Asked[u].op = "forking" PROVE FALSE
    OBVIOUS
  <2>1. Owns(op[u], b) /\ Owns(op[t], b)
    BY <1>1, <1>3, Forking DEF Owns, Inserting
  <2>2. u = t
    BY <2>1 DEF IInv, LocksOK
  <2>3. Asked[t] = Promise!Asked("put", op[t].arg)
    BY <1>3, AskedIs, Seen DEF Putting, Inserting
  <2> QED BY <2>2, <2>3 DEF Promise!Asked
<1>12. IdOf' = [r \in DOMAIN IdOf \cup {x.stack} |-> IF r = x.stack THEN x.id ELSE IdOf[r]]
  <2>1. PICK tb \in Tab, tc \in Tab : tb = tab /\ tc = tab'
    BY <1>3, <1>7
  <2>2. IdsIn(tc) = [r \in DOMAIN IdsIn(tb) \cup {x.stack} |->
                       IF r = x.stack THEN x.id ELSE IdsIn(tb)[r]]
    BY <1>3, <1>4, <1>7, <2>1, IdsPushed
  <2> QED BY <2>1, <2>2, IdOfIs
<1>13. x.id \in 1 .. kTabSize * kMaxId
  <2>1. PICK n \in 1 .. seq[b \div kPartSize] : n < kMaxId /\ x.id = (b \div kPartSize) * kMaxId + n
    BY <1>6 DEF Given
  <2>2. seq[b \div kPartSize] \in Nat
    BY PartOf DEF IInv, TypeInv
  <2>3. n \in 1 .. kMaxId - 1
    BY <2>1, <2>2, Sizes
  <2> QED BY <2>1, <2>3, GivenBy
<1>14. Promise!Answer(t, x.id) /\ Asked[t] = CallOf(op[t])
  BY <1>3, <1>4, AnswerMapped DEF Args
<1>15. Asked[t] = Promise!Asked("put", x.stack)
  BY <1>3, <1>4, <1>14, Seen DEF Putting, Inserting
<1>16. x.stack \in Stacks
  BY <1>3, <1>4
<1>17. Promise!Insert(t, x.stack, x.id)
  BY <1>9, <1>10, <1>11, <1>12, <1>14, <1>15 DEF Promise!Insert
<1> QED BY <1>13, <1>16, <1>17

LEMMA LockAllMapped ==
  ASSUME IInv, NEW t \in Threads, LockAll(t)
  PROVE  Promise!BeginFork(t) \/ UNCHANGED <<IdOf, Asked>>
<1> DEFINE i == op[t].i
<1>1. op[t].pc = "lockall" /\ i \in Buckets /\ tab' = tab /\ ~ lockBit[i]
  BY LockAllEffect
<1>2. PICK x : Sets(t, x) /\ x.pc \in {"fork", "lockall"}
  BY LockAllEffect
<1>3. CallOf(op[t]) = Promise!Asked("fork", NoId)
  BY <1>1, Seen
<1>4. CASE x.pc = "lockall"
  <2>1. CallOf(x) = CallOf(op[t])
    BY <1>3, <1>4, Seen
  <2> QED BY <1>1, <1>2, <2>1, Stutters
<1>5. CASE x.pc = "fork"
  <2>1. CallOf(x) = Promise!Asked("forking", NoId)
    BY <1>5, Seen
  <2>2. Asked' = [Asked EXCEPT ![t] = Promise!Asked("forking", NoId)]
        /\ Asked[t] = Promise!Asked("fork", NoId)
    BY <1>2, <1>3, <2>1, AskedMoves
  <2>3. Asked[t].op = "fork"
    BY <2>2 DEF Promise!Asked
  <2>4. \A u \in Threads : Asked[u].op # "forking"
    BY <1>1, Forking
  <2>5. NoId = Promise!NoId
    BY DEF NoId, Promise!NoId
  <2> QED BY <1>1, <2>2, <2>3, <2>4, <2>5, SameIds DEF Promise!BeginFork
<1> QED BY <1>2, <1>4, <1>5

LEMMA ForkParentMapped ==
  ASSUME IInv, NEW t \in Threads, ForkParent(t) PROVE Promise!BecomeParent(t)
<1>1. op[t].pc = "fork" /\ tab' = tab
  BY ForkParentEffect
<1>2. PICK x : Sets(t, x) /\ x.pc = "unlockall"
  BY ForkParentEffect
<1>3. CallOf(op[t]) = Promise!Asked("forking", NoId) /\ CallOf(x) = Promise!Asked("forked", NoId)
  BY <1>1, <1>2, Seen
<1>4. Asked' = [Asked EXCEPT ![t] = Promise!Asked("forked", NoId)]
      /\ Asked[t] = Promise!Asked("forking", NoId)
  BY <1>2, <1>3, AskedMoves
<1>5. Asked[t].op = "forking" /\ NoId = Promise!NoId
  BY <1>4 DEF Promise!Asked, NoId, Promise!NoId
<1> QED BY <1>1, <1>4, <1>5, SameIds DEF Promise!BecomeParent

LEMMA ForkChildMapped ==
  ASSUME IInv, NEW t \in Threads, ForkChild(t) PROVE Promise!BecomeChild(t)
<1>1. op[t].pc = "fork" /\ tab' = tab /\ op'[t].pc = "unlockall"
      /\ \A u \in Threads : u # t => op'[u].pc = "gone"
  BY ForkChildEffect
<1>2. Asked[t] = Promise!Asked("forking", NoId)
  BY <1>1, Seen, AskedIs
<1>3. \A u \in Threads : CallOf(op'[u]) = IF u = t THEN Promise!Asked("forked", NoId) ELSE Promise!Gone
  BY <1>1, Seen
<1>4. Asked' = [u \in Threads |-> IF u = t THEN Promise!Asked("forked", NoId) ELSE Promise!Gone]
  BY <1>3, AskedIs
<1>5. Asked[t].op = "forking" /\ NoId = Promise!NoId
  BY <1>2 DEF Promise!Asked, NoId, Promise!NoId
<1> QED BY <1>1, <1>4, <1>5, SameIds DEF Promise!BecomeChild

LEMMA UnlockAllMapped ==
  ASSUME IInv, NEW t \in Threads, UnlockAll(t)
  PROVE  Promise!Reply(t) \/ UNCHANGED <<IdOf, Asked>>
<1>1. op[t].pc = "unlockall" /\ tab' = tab
  BY UnlockAllEffect
<1>2. CallOf(op[t]) = Promise!Asked("forked", NoId)
  BY <1>1, Seen
<1>3. CASE Answer(t, NoId)
  <2>1. Promise!Answer(t, NoId) /\ Asked[t] = Promise!Asked("forked", NoId)
    BY <1>2, <1>3, AnswerMapped DEF NoId, Args
  <2>2. Asked[t].op = "forked" /\ NoId = Promise!NoId
    BY <2>1 DEF Promise!Asked, NoId, Promise!NoId
  <2> QED BY <1>1, <2>1, <2>2, SameIds DEF Promise!Reply
<1>4. ASSUME NEW x, Sets(t, x), x.pc = "unlockall" PROVE UNCHANGED <<IdOf, Asked>>
  <2>1. CallOf(x) = CallOf(op[t])
    BY <1>2, <1>4, Seen
  <2> QED BY <1>1, <1>4, <2>1, Stutters
<1> QED BY <1>3, <1>4, UnlockAllEffect

LEMMA ReturnMapped == ASSUME IInv, NEW t \in Threads, Return(t) PROVE Promise!Return(t)
<1>1. op[t].pc = "answered" /\ tab' = tab /\ Sets(t, NotCalling)
  BY StartsAgain DEF Return, At, Sets
<1>2. CallOf(op[t]) = Promise!Answered(op[t].arg) /\ CallOf(NotCalling) = Promise!Idle
  BY <1>1, StartsAgain, Seen
<1>3. Asked' = [Asked EXCEPT ![t] = Promise!Idle] /\ Asked[t] = Promise!Answered(op[t].arg)
  BY <1>1, <1>2, AskedMoves
<1>4. Asked[t].op = "answered"
  BY <1>3 DEF Promise!Answered
<1> QED BY <1>1, <1>3, <1>4, SameIds DEF Promise!Return

-----------------------------------------------------------------------------
LEMMA InitMapped == Init => Promise!Init
<1> SUFFICES ASSUME Init PROVE Promise!Init
  OBVIOUS
<1>1. tab = [b \in Buckets |-> <<>>] /\ op = [t \in Threads |-> NotCalling]
  BY DEF Init, DepotInit
<1>2. \A b \in Buckets : ToSet(tab[b]) = {}
  BY <1>1 DEF ToSet
<1>3. Nodes = {}
  BY <1>2 DEF Nodes
<1>4. {n.stack : n \in Nodes} = {}
  BY <1>3
<1>5. IdOf = [s \in {} |-> Promise!NoId]
  BY <1>4 DEF IdOf
<1>6. Asked = [t \in Threads |-> Promise!Idle]
  <2>1. \A t \in Threads : CallOf(op[t]) = Promise!Idle
    BY <1>1, StartsAgain, Seen
  <2> QED BY <2>1, AskedIs
<1> QED BY <1>5, <1>6 DEF Promise!Init

LEMMA NextMapped ==
  IInv /\ IInv' /\ [Next]_vars => [Promise!Next]_<<IdOf, Asked>>
<1> SUFFICES ASSUME IInv, IInv', [Next]_vars PROVE [Promise!Next]_<<IdOf, Asked>>
  OBVIOUS
<1>1. CASE UNCHANGED <<tab, op>>
  BY <1>1, SameIds, AskedIs
<1>2. CASE UNCHANGED vars
  BY <1>1, <1>2 DEF vars, depotVars
<1>3. CASE BeginMap \/ ReadBucket \/ MapGet
  BY <1>1, <1>3 DEF BeginMap, ReadBucket, MapGet, depotVars
<1>4. ASSUME NEW t \in Threads, MayCall(t) PROVE Promise!Next
  <2>1. Promise!Ask(t)
    BY <1>4, CallForkMapped, CallPutMapped, CallGetMapped DEF MayCall
  <2> QED BY <2>1 DEF Promise!Next
<1>5. ASSUME NEW t \in Threads, Find(t) \/ Get(t) \/ UnlockAll(t) \/ UnlockFound(t)
      PROVE  Promise!Next \/ UNCHANGED <<IdOf, Asked>>
  <2>1. Promise!Reply(t) \/ UNCHANGED <<IdOf, Asked>>
    BY <1>5, FindMapped, GetMapped, UnlockAllMapped, UnlockFoundMapped
  <2> QED BY <2>1 DEF Promise!Next
<1>6. ASSUME NEW t \in Threads, Lock(t) \/ NewId(t) PROVE UNCHANGED <<IdOf, Asked>>
  BY <1>6, LockMapped, NewIdMapped
<1>7. ASSUME NEW t \in Threads, Allocate(t) PROVE [Promise!Next]_<<IdOf, Asked>>
  BY <1>1, <1>7 DEF Allocate
<1>8. ASSUME NEW t \in Threads, Publish(t) PROVE Promise!Next
  BY <1>8, PublishMapped DEF Promise!Next
<1>9. ASSUME NEW t \in Threads, LockAll(t) PROVE Promise!Next \/ UNCHANGED <<IdOf, Asked>>
  BY <1>9, LockAllMapped DEF Promise!Next
<1>10. ASSUME NEW t \in Threads, ForkParent(t) \/ ForkChild(t) \/ Return(t) PROVE Promise!Next
  BY <1>10, ForkParentMapped, ForkChildMapped, ReturnMapped DEF Promise!Next
<1>11. ASSUME NEW t \in Threads, Run(t) PROVE [Promise!Next]_<<IdOf, Asked>>
  BY <1>5, <1>6, <1>7, <1>8, <1>9, <1>10, <1>11 DEF Run
<1> QED BY <1>2, <1>3, <1>4, <1>10, <1>11 DEF Next

\* The depot implements Depot: however the Puts interleave a stack gets one
\* identifier, which leads back to it, and nothing is inserted during a fork
THEOREM DepotImplemented == Spec => ImplementsDepot
BY InitMapped, NextMapped, Inductive, PTL DEF Spec, ImplementsDepot, Promise!Spec
-----------------------------------------------------------------------------
(* The allocator as the depot uses it, for any threads, sizes and placement   *)
(* of the regions.                                                            *)
(*                                                                            *)
(* A thread may exchange the position it loaded long after it compared it     *)
(* with an end, and the position may have left and come back.  What it knows  *)
(* is that its block fits before the end it loaded; as long as every exchange *)
(* that succeeded did so before that end was replaced, this is the end of the *)
(* region the position is in, and what lies between them is unused.           *)

Region == [addr : Nat, size : Nat]
NodeBlock == [addr : Nat, size : Nat, stale : BOOLEAN]
EndOf(r) == r.addr + r.size
Reaches(r, pos) == r.addr <= pos /\ pos <= EndOf(r)

Mapping == {"zero", "mmap", "publish", "unlock"}
AllocPlace == [pc : Mapping \cup {"idle", "pos", "end", "cas", "lock", "done"},
               size : Nat, cmp : Nat, end : Nat, locked : BOOLEAN, mem : Nat]

AllocTypes ==
  /\ region_pos \in Nat /\ region_end \in Nat
  /\ mapped \subseteq Region
  /\ alloc \in [Threads -> AllocPlace]
  /\ blocks \in Seq(NodeBlock)

\* Who has the mutex
Holder(a) == a.locked /\ a.pc # "done"

MutexOK(al, m) ==
  \A t \in Threads : Holder(al[t]) => m = 1 /\ \A u \in Threads : Holder(al[u]) => u = t

RegionsOK(ms) == \A r, s \in ms : r # s => ~ Overlap(r.addr, r.size, s.addr, s.size)

\* No block is between the two addresses
Unused(bs, from, to) == \A i \in DOMAIN bs : EndOf(bs[i]) <= from \/ bs[i].addr >= to

CurrentOK(pos, end, ms, bs) ==
  pos # 0 => /\ \E r \in ms : Reaches(r, pos) /\ EndOf(r) = end
             /\ Unused(bs, pos, end)

\* What a thread knows where it is
AllocOK(a, pos, end, ms, bs) ==
  /\ a.pc \in Mapping => a.locked
  /\ a.pc \in {"mmap", "publish"} => pos = 0
  /\ a.pc = "publish" => /\ \E r \in ms : r.addr = a.mem /\ EndOf(r) = end
                         /\ Unused(bs, a.mem, end)
  /\ a.pc = "cas" => a.cmp # 0 /\ a.cmp + a.size <= a.end

AllocInv ==
  /\ AllocTypes
  /\ MutexOK(alloc, mtx)
  /\ RegionsOK(mapped)
  /\ CurrentOK(region_pos, region_end, mapped, blocks)
  /\ \A t \in Threads : AllocOK(alloc[t], region_pos, region_end, mapped, blocks)
  /\ BlocksDisjoint

\* Somebody's exchange succeeded after the end it compared with was replaced
SomeStale == \E i \in DOMAIN blocks : blocks[i].stale

-----------------------------------------------------------------------------
(* One thread's place changes                                                 *)

PcTo(a, l) == [a EXCEPT !.pc = l]
Loaded(a, l, pos) == [a EXCEPT !.pc = l, !.cmp = pos]
Compared(a, l, end) == [a EXCEPT !.pc = l, !.end = end]
WithMutex(a, l) == [a EXCEPT !.pc = l, !.locked = TRUE]
Mapped(a, l, mem) == [a EXCEPT !.pc = l, !.mem = mem]
Starting(size) == [NotAllocating EXCEPT !.pc = "pos", !.size = size]

\* A place's fields after each of these, and that it is one
LEMMA PcToFields ==
  ASSUME NEW a \in AllocPlace, NEW l, l \in Mapping \cup {"pos", "end", "cas", "lock", "done"}
  PROVE  /\ PcTo(a, l) \in AllocPlace
         /\ PcTo(a, l).pc = l /\ PcTo(a, l).size = a.size /\ PcTo(a, l).cmp = a.cmp
         /\ PcTo(a, l).end = a.end
         /\ PcTo(a, l).locked = a.locked /\ PcTo(a, l).mem = a.mem
<1>1. PcTo(a, l) \in AllocPlace
  BY DEF PcTo, AllocPlace
<1> QED BY <1>1, SMT DEF PcTo, AllocPlace

LEMMA LoadedFields ==
  ASSUME NEW a \in AllocPlace, NEW pos \in Nat
  PROVE  /\ Loaded(a, "end", pos) \in AllocPlace
         /\ Loaded(a, "end", pos).pc = "end" /\ Loaded(a, "end", pos).cmp = pos
         /\ Loaded(a, "end", pos).size = a.size
         /\ Loaded(a, "end", pos).locked = a.locked
<1>1. Loaded(a, "end", pos) \in AllocPlace
  BY DEF Loaded, AllocPlace
<1> QED BY <1>1, SMT DEF Loaded, AllocPlace

LEMMA ComparedFields ==
  ASSUME NEW a \in AllocPlace, NEW end \in Nat, NEW l \in {"cas", "zero", "lock"}
  PROVE  /\ Compared(a, l, end) \in AllocPlace
         /\ Compared(a, l, end).pc = l /\ Compared(a, l, end).cmp = a.cmp
         /\ Compared(a, l, end).size = a.size /\ Compared(a, l, end).end = end
         /\ Compared(a, l, end).locked = a.locked
<1>1. Compared(a, l, end) \in AllocPlace
  BY DEF Compared, AllocPlace, Mapping
<1> QED BY <1>1, SMT DEF Compared, AllocPlace

LEMMA WithMutexFields ==
  ASSUME NEW a \in AllocPlace
  PROVE  /\ WithMutex(a, "pos") \in AllocPlace
         /\ WithMutex(a, "pos").pc = "pos" /\ WithMutex(a, "pos").locked
<1>1. WithMutex(a, "pos") \in AllocPlace
  BY DEF WithMutex, AllocPlace
<1> QED BY <1>1, SMT DEF WithMutex, AllocPlace

LEMMA MappedFields ==
  ASSUME NEW a \in AllocPlace, NEW mem \in Nat
  PROVE  /\ Mapped(a, "publish", mem) \in AllocPlace
         /\ Mapped(a, "publish", mem).pc = "publish" /\ Mapped(a, "publish", mem).mem = mem
         /\ Mapped(a, "publish", mem).locked = a.locked
<1>1. Mapped(a, "publish", mem) \in AllocPlace
  BY DEF Mapped, AllocPlace, Mapping
<1> QED BY <1>1, SMT DEF Mapped, AllocPlace

LEMMA StartFields ==
  ASSUME NEW size \in Nat
  PROVE  /\ Starting(size) \in AllocPlace
         /\ Starting(size).pc = "pos" /\ ~ Starting(size).locked
         /\ NotAllocating \in AllocPlace
         /\ NotAllocating.pc = "idle" /\ ~ NotAllocating.locked
BY DEF Starting, NotAllocating, AllocPlace

\* The others' places stay
LEMMA AllocSet ==
  ASSUME NEW al \in [Threads -> AllocPlace], NEW t \in Threads, NEW a \in AllocPlace
  PROVE  LET to == [al EXCEPT ![t] = a]
         IN  /\ to \in [Threads -> AllocPlace]
             /\ to[t] = a
             /\ \A u \in Threads : u # t => to[u] = al[u]
OBVIOUS

LEMMA AllocForms ==
  ASSUME AllocTypes, NEW t \in Threads
  PROVE  /\ \A l : AllocGoto(t, l) <=> alloc' = [alloc EXCEPT ![t] = PcTo(alloc[t], l)]
         /\ LoadPos(t) => alloc' = [alloc EXCEPT ![t] = Loaded(alloc[t], "end", region_pos)]
         /\ LockMtx(t) => alloc' = [alloc EXCEPT ![t] = WithMutex(alloc[t], "pos")]
         /\ \A mem : alloc' = [alloc EXCEPT ![t].pc = "publish", ![t].mem = mem]
                       <=> alloc' = [alloc EXCEPT ![t] = Mapped(alloc[t], "publish", mem)]
BY DEF AllocGoto, LoadPos, LockMtx, PcTo, Loaded, WithMutex, Mapped, AllocTypes

-----------------------------------------------------------------------------
(* What keeps each part of the invariant                                      *)

\* A thread that takes the mutex finds it free, one that lets it go had it
LEMMA MutexStep ==
  ASSUME NEW al, NEW new, NEW m, NEW n, NEW t \in Threads, MutexOK(al, m),
         \A u \in Threads : u # t => new[u] = al[u],
         \/ n = m /\ (Holder(new[t]) => Holder(al[t]))
         \/ m = 0 /\ n = 1
         \/ Holder(al[t]) /\ ~ Holder(new[t])
  PROVE  MutexOK(new, n)
<1>1. ASSUME NEW u \in Threads, Holder(new[u])
      PROVE  n = 1 /\ \A v \in Threads : Holder(new[v]) => v = u
  BY <1>1, SMT DEF MutexOK
<1> QED BY <1>1 DEF MutexOK

-----------------------------------------------------------------------------
(* One lemma for each action                                                  *)

\* A step that changes neither the region nor the blocks: what the thread knows
\* afterwards is all there is to show
LEMMA PlaceStep ==
  ASSUME AllocInv, NEW t \in Threads, NEW a \in AllocPlace,
         alloc' = [alloc EXCEPT ![t] = a],
         UNCHANGED <<region_pos, region_end, mapped, blocks>>,
         \/ mtx' = mtx /\ (Holder(a) => Holder(alloc[t]))
         \/ mtx = 0 /\ mtx' = 1
         \/ Holder(alloc[t]) /\ ~ Holder(a),
         AllocOK(a, region_pos, region_end, mapped, blocks)
  PROVE  AllocInv'
<1>1. /\ alloc' \in [Threads -> AllocPlace]
      /\ alloc'[t] = a
      /\ \A u \in Threads : u # t => alloc'[u] = alloc[u]
  BY AllocSet DEF AllocInv, AllocTypes
<1>2. AllocTypes'
  BY <1>1 DEF AllocInv, AllocTypes
<1>3. MutexOK(alloc', mtx')
  <2>1. MutexOK(alloc, mtx)
    BY DEF AllocInv
  <2>2. \/ mtx' = mtx /\ (Holder(alloc'[t]) => Holder(alloc[t]))
        \/ mtx = 0 /\ mtx' = 1
        \/ Holder(alloc[t]) /\ ~ Holder(alloc'[t])
    BY <1>1
  <2>3. PICK al, new, m, n : al = alloc /\ new = alloc' /\ m = mtx /\ n = mtx'
    OBVIOUS
  <2>4. MutexOK(al, m) /\ \A u \in Threads : u # t => new[u] = al[u]
    BY <1>1, <2>1, <2>3
  <2>5. \/ n = m /\ (Holder(new[t]) => Holder(al[t]))
        \/ m = 0 /\ n = 1
        \/ Holder(al[t]) /\ ~ Holder(new[t])
    BY <2>2, <2>3
  <2>6. MutexOK(new, n)
    BY <2>4, <2>5, MutexStep
  <2> QED BY <2>3, <2>6
<1>4. ASSUME NEW u \in Threads
      PROVE  AllocOK(alloc'[u], region_pos, region_end, mapped, blocks)
  BY <1>1, Zenon DEF AllocInv
<1>5. BlocksDisjoint'
  BY DEF AllocInv, BlocksDisjoint
<1> QED BY <1>2, <1>3, <1>4, <1>5 DEF AllocInv

LEMMA LoadPosKeeps == ASSUME AllocInv, NEW t \in Threads, LoadPos(t) PROVE AllocInv'
<1> DEFINE a == Loaded(alloc[t], "end", region_pos)
<1>1. /\ AllocAt(t, "pos") /\ alloc' = [alloc EXCEPT ![t] = a]
      /\ UNCHANGED <<region_pos, region_end, mapped, blocks, mtx>>
  BY AllocForms DEF LoadPos, KeepRegion, AllocInv
<1>2. /\ a \in AllocPlace /\ a.pc = "end" /\ a.cmp = region_pos
      /\ a.locked = alloc[t].locked
  BY LoadedFields DEF AllocInv, AllocTypes
<1>3. AllocOK(a, region_pos, region_end, mapped, blocks)
  BY <1>2 DEF AllocOK, Mapping
<1>4. Holder(a) => Holder(alloc[t])
  BY <1>1, <1>2 DEF Holder, AllocAt
<1> HIDE DEF a
<1> QED BY <1>1, <1>2, <1>3, <1>4, PlaceStep

\* What the second load does to the thread's place
LEMMA LoadEndForm ==
  ASSUME AllocTypes, NEW t \in Threads, LoadEnd(t)
  PROVE  \E l \in {"cas", "zero", "lock"} :
           LET a == Compared(alloc[t], l, region_end)
           IN  /\ alloc[t].pc = "end" /\ alloc' = [alloc EXCEPT ![t] = a]
               /\ a \in AllocPlace /\ a.pc = l /\ a.cmp = alloc[t].cmp
               /\ a.size = alloc[t].size /\ a.end = region_end /\ a.locked = alloc[t].locked
               /\ l = "cas" => a.cmp # 0 /\ a.cmp + a.size <= a.end
               /\ l = "zero" => a.locked
<1>1. PICK l \in {"cas", "zero", "lock"} :
        /\ alloc[t].pc = "end"
        /\ alloc' = [alloc EXCEPT ![t].pc = l, ![t].end = region_end]
        /\ l = "cas" => alloc[t].cmp # 0 /\ alloc[t].cmp + alloc[t].size <= region_end
        /\ l = "zero" => alloc[t].locked
  BY DEF LoadEnd, AllocAt
<1>2. PICK end \in Nat : end = region_end
  BY DEF AllocTypes
<1>3. PICK o \in AllocPlace : o = alloc[t]
  BY DEF AllocTypes
<1>4. alloc' = [alloc EXCEPT ![t] = Compared(alloc[t], l, end)]
  <2>1. alloc' = [alloc EXCEPT ![t].pc = l, ![t].end = end]
    BY <1>1, <1>2
  <2> QED BY <2>1 DEF Compared, AllocTypes
<1>5. /\ Compared(o, l, end) \in AllocPlace
      /\ Compared(o, l, end).pc = l /\ Compared(o, l, end).cmp = o.cmp
      /\ Compared(o, l, end).size = o.size /\ Compared(o, l, end).end = end
      /\ Compared(o, l, end).locked = o.locked
  BY ComparedFields
<1> QED BY <1>1, <1>2, <1>3, <1>4, <1>5

LEMMA LoadEndKeeps == ASSUME AllocInv, NEW t \in Threads, LoadEnd(t) PROVE AllocInv'
<1>1. UNCHANGED <<region_pos, region_end, mapped, blocks, mtx>>
  BY DEF LoadEnd, KeepRegion
<1>2. PICK a \in AllocPlace :
        /\ alloc[t].pc = "end" /\ alloc' = [alloc EXCEPT ![t] = a]
        /\ a.pc \in {"cas", "zero", "lock"} /\ a.locked = alloc[t].locked
        /\ a.pc = "cas" => a.cmp # 0 /\ a.cmp + a.size <= a.end
        /\ a.pc = "zero" => a.locked
  BY LoadEndForm DEF AllocInv
<1>3. AllocOK(a, region_pos, region_end, mapped, blocks)
  BY <1>2 DEF AllocOK, Mapping
<1>4. Holder(a) => Holder(alloc[t])
  BY <1>2 DEF Holder
<1> QED BY <1>1, <1>2, <1>3, <1>4, PlaceStep

LEMMA LockMtxKeeps == ASSUME AllocInv, NEW t \in Threads, LockMtx(t) PROVE AllocInv'
<1> DEFINE a == WithMutex(alloc[t], "pos")
<1>1. /\ alloc' = [alloc EXCEPT ![t] = a] /\ mtx = 0 /\ mtx' = 1
      /\ UNCHANGED <<region_pos, region_end, mapped, blocks>>
  BY AllocForms DEF LockMtx, KeepRegion, AllocInv
<1>2. a \in AllocPlace /\ a.pc = "pos"
  BY WithMutexFields DEF AllocInv, AllocTypes
<1>3. AllocOK(a, region_pos, region_end, mapped, blocks)
  BY <1>2 DEF AllocOK, Mapping
<1> HIDE DEF a
<1> QED BY <1>1, <1>2, <1>3, PlaceStep

LEMMA UnlockMtxKeeps == ASSUME AllocInv, NEW t \in Threads, UnlockMtx(t) PROVE AllocInv'
<1> DEFINE a == PcTo(alloc[t], "done")
<1>1. /\ alloc[t].pc = "unlock" /\ alloc' = [alloc EXCEPT ![t] = a]
      /\ UNCHANGED <<region_pos, region_end, mapped, blocks>>
  BY AllocForms DEF UnlockMtx, KeepRegion, AllocAt, AllocInv
<1>2. a \in AllocPlace /\ a.pc = "done"
  BY PcToFields DEF AllocInv, AllocTypes
<1>3. AllocOK(a, region_pos, region_end, mapped, blocks)
  BY <1>2 DEF AllocOK, Mapping
<1>4. Holder(alloc[t]) /\ ~ Holder(a)
  BY <1>1, <1>2 DEF AllocInv, AllocOK, Mapping, Holder
<1> HIDE DEF a
<1> QED BY <1>1, <1>2, <1>3, <1>4, PlaceStep

\* Nobody but the thread with the mutex is between the two stores of region_pos
LEMMA OneMaps ==
  ASSUME AllocInv, NEW t \in Threads, alloc[t].pc \in Mapping, NEW u \in Threads, u # t
  PROVE  alloc[u].pc \notin Mapping
<1>1. ASSUME NEW v \in Threads, alloc[v].pc \in Mapping PROVE Holder(alloc[v])
  BY <1>1 DEF AllocInv, AllocOK, Holder, Mapping
<1> QED BY <1>1 DEF AllocInv, MutexOK

\* A step of the thread that maps a region, the blocks kept; what the others
\* know is still so
LEMMA MapStep ==
  ASSUME AllocInv, NEW t \in Threads, NEW a \in AllocPlace,
         alloc[t].pc \in Mapping, a.locked = alloc[t].locked,
         alloc' = [alloc EXCEPT ![t] = a], UNCHANGED <<mtx, blocks>>,
         region_pos' \in Nat, region_end' \in Nat,
         mapped' \subseteq Region, mapped \subseteq mapped', RegionsOK(mapped'),
         CurrentOK(region_pos', region_end', mapped', blocks),
         AllocOK(a, region_pos', region_end', mapped', blocks)
  PROVE  AllocInv'
<1>1. /\ alloc' \in [Threads -> AllocPlace]
      /\ alloc'[t] = a
      /\ \A u \in Threads : u # t => alloc'[u] = alloc[u]
  BY AllocSet DEF AllocInv, AllocTypes
<1>2. AllocTypes'
  BY <1>1 DEF AllocInv, AllocTypes
<1>3. MutexOK(alloc', mtx')
  <2>1. MutexOK(alloc, mtx)
    BY DEF AllocInv
  <2>2. mtx' = mtx /\ (Holder(alloc'[t]) => Holder(alloc[t]))
    BY <1>1 DEF Holder, Mapping
  <2>3. PICK al, new, m, n : al = alloc /\ new = alloc' /\ m = mtx /\ n = mtx'
    OBVIOUS
  <2>4. MutexOK(al, m) /\ \A u \in Threads : u # t => new[u] = al[u]
    BY <1>1, <2>1, <2>3
  <2>5. \/ n = m /\ (Holder(new[t]) => Holder(al[t]))
        \/ m = 0 /\ n = 1
        \/ Holder(al[t]) /\ ~ Holder(new[t])
    BY <2>2, <2>3
  <2>6. MutexOK(new, n)
    BY <2>4, <2>5, MutexStep
  <2> QED BY <2>3, <2>6
<1>4. ASSUME NEW u \in Threads
      PROVE  AllocOK(alloc'[u], region_pos', region_end', mapped', blocks)
  <2>1. CASE u = t
    BY <1>1, <2>1
  <2>2. CASE u # t
    <3>1. alloc'[u] = alloc[u] /\ alloc[u].pc \notin Mapping
      BY <1>1, <2>2, OneMaps
    <3>2. AllocOK(alloc[u], region_pos, region_end, mapped, blocks)
      BY DEF AllocInv
    <3> QED BY <3>1, <3>2 DEF AllocOK, Mapping
  <2> QED BY <2>1, <2>2
<1>5. BlocksDisjoint'
  BY DEF AllocInv, BlocksDisjoint
<1> QED BY <1>2, <1>3, <1>4, <1>5 DEF AllocInv

LEMMA ClearPosKeeps == ASSUME AllocInv, NEW t \in Threads, ClearPos(t) PROVE AllocInv'
<1> DEFINE a == PcTo(alloc[t], "mmap")
<1>1. /\ alloc[t].pc = "zero" /\ alloc' = [alloc EXCEPT ![t] = a] /\ region_pos' = 0
      /\ UNCHANGED <<region_end, mapped, mtx, blocks>>
  BY AllocForms DEF ClearPos, AllocAt, AllocInv
<1>2. a \in AllocPlace /\ a.pc = "mmap" /\ a.locked = alloc[t].locked
  BY PcToFields DEF AllocInv, AllocTypes, Mapping
<1>3. alloc[t].locked
  BY <1>1 DEF AllocInv, AllocOK, Mapping
<1>4. AllocOK(a, 0, region_end, mapped, blocks) /\ CurrentOK(0, region_end, mapped, blocks)
  BY <1>2, <1>3 DEF AllocOK, Mapping, CurrentOK
<1>5. /\ region_end \in Nat /\ mapped \subseteq Region /\ RegionsOK(mapped)
      /\ alloc[t].pc \in Mapping
  BY <1>1 DEF AllocInv, AllocTypes, Mapping
<1> HIDE DEF a
<1> QED BY <1>1, <1>2, <1>4, <1>5, MapStep

LEMMA PublishPosKeeps == ASSUME AllocInv, NEW t \in Threads, PublishPos(t) PROVE AllocInv'
<1> DEFINE a == PcTo(alloc[t], "pos")
           mem == alloc[t].mem
<1>1. /\ alloc[t].pc = "publish" /\ alloc' = [alloc EXCEPT ![t] = a] /\ region_pos' = mem
      /\ UNCHANGED <<region_end, mapped, mtx, blocks>>
  BY AllocForms DEF PublishPos, AllocAt, AllocInv
<1>2. a \in AllocPlace /\ a.pc = "pos" /\ a.locked = alloc[t].locked
  BY PcToFields DEF AllocInv, AllocTypes
<1>3. /\ \E r \in mapped : r.addr = mem /\ EndOf(r) = region_end
      /\ Unused(blocks, mem, region_end)
  BY <1>1 DEF AllocInv, AllocOK
<1>4. AllocOK(a, mem, region_end, mapped, blocks)
  BY <1>2 DEF AllocOK, Mapping
<1>5. CurrentOK(mem, region_end, mapped, blocks)
  <2>1. PICK r \in mapped : r.addr = mem /\ EndOf(r) = region_end
    BY <1>3
  <2>2. r \in Region
    BY DEF AllocInv, AllocTypes
  <2>3. Reaches(r, mem)
    BY <2>1, <2>2 DEF Region, Reaches, EndOf
  <2> QED BY <1>3, <2>1, <2>3 DEF CurrentOK
<1>6. /\ mem \in Nat /\ region_end \in Nat /\ mapped \subseteq Region /\ RegionsOK(mapped)
      /\ alloc[t].pc \in Mapping
  BY <1>1 DEF AllocInv, AllocTypes, AllocPlace, Mapping
<1> HIDE DEF a, mem
<1> QED BY <1>1, <1>2, <1>4, <1>5, <1>6, MapStep

-----------------------------------------------------------------------------
(* A new region                                                               *)

\* A block of an old region is not in a new one
LEMMA OutsideNew ==
  ASSUME NEW b \in NodeBlock, NEW r \in Region, NEW n \in Region,
         r.addr <= b.addr, EndOf(b) <= EndOf(r),
         ~ Overlap(n.addr, n.size, r.addr, r.size), n.size > 0
  PROVE  EndOf(b) <= n.addr \/ b.addr >= EndOf(n)
<1> /\ n.addr \in Nat /\ n.size \in Nat /\ r.addr \in Nat /\ r.size \in Nat
    /\ b.addr \in Nat /\ b.size \in Nat
  BY DEF Region, NodeBlock
<1> QED BY DEF Overlap, EndOf

LEMMA MmapOrDieKeeps ==
  ASSUME AllocInv, NEW t \in Threads, MmapOrDie(t) PROVE AllocInv'
<1> DEFINE size == IF RegionSize < alloc[t].size THEN alloc[t].size ELSE RegionSize
<1>1. PICK mem \in Bases :
        /\ Free(mem, size)
        /\ mapped' = mapped \cup {[addr |-> mem, size |-> size]}
        /\ region_end' = mem + size
        /\ alloc' = [alloc EXCEPT ![t].pc = "publish", ![t].mem = mem]
  BY Zenon DEF MmapOrDie
<1> DEFINE a == Mapped(alloc[t], "publish", mem)
           new == [addr |-> mem, size |-> size]
<1>2. /\ alloc[t].pc = "mmap" /\ alloc[t] \in AllocPlace /\ alloc[t].size \in Nat
      /\ UNCHANGED <<region_pos, mtx, blocks>>
  BY DEF MmapOrDie, AllocAt, AllocInv, AllocTypes, AllocPlace
<1>3. region_pos = 0 /\ alloc[t].locked
  BY <1>2 DEF AllocInv, AllocOK, Mapping
<1>4. mem \in Nat /\ size \in Nat /\ size > 0
  BY <1>2, AllocatorAssumption
<1>5. a \in AllocPlace /\ a.pc = "publish" /\ a.mem = mem /\ a.locked = alloc[t].locked
  BY <1>2, <1>4, MappedFields
<1>6. alloc' = [alloc EXCEPT ![t] = a]
  BY <1>1, AllocForms DEF AllocInv
<1> HIDE DEF size
<1>7. new \in Region /\ new.addr = mem /\ new.size = size /\ EndOf(new) = mem + size
  BY <1>4 DEF Region, EndOf
<1> HIDE DEF a, new
<1>8. mapped' = mapped \cup {new} /\ region_end' = EndOf(new)
  BY <1>1, <1>7 DEF new
<1>9. ASSUME NEW r \in mapped
      PROVE  /\ r \in Region /\ r # new
             /\ ~ Overlap(new.addr, new.size, r.addr, r.size)
  <2>1. r \in Region
    BY DEF AllocInv, AllocTypes
  <2>2. ~ Overlap(new.addr, new.size, r.addr, r.size)
    BY <1>1, <1>7 DEF Free
  <2>3. r # new
    BY <1>4, <1>7, <2>2 DEF Overlap
  <2> QED BY <2>1, <2>2, <2>3
<1>10. RegionsOK(mapped')
  <2>1. ASSUME NEW r \in mapped PROVE ~ Overlap(r.addr, r.size, new.addr, new.size)
    <3>1. ~ Overlap(new.addr, new.size, r.addr, r.size)
      BY <1>9
    <3> QED BY <3>1 DEF Overlap
  <2> QED BY <1>8, <1>9, <2>1 DEF AllocInv, RegionsOK
<1>11. Unused(blocks, mem, EndOf(new))
  <2>1. ASSUME NEW i \in DOMAIN blocks
        PROVE  EndOf(blocks[i]) <= mem \/ blocks[i].addr >= EndOf(new)
    <3>1. blocks[i] \in NodeBlock
      BY DEF AllocInv, AllocTypes
    <3>2. PICK r \in mapped : /\ r.addr <= blocks[i].addr
                              /\ blocks[i].addr + blocks[i].size <= r.addr + r.size
      BY DEF AllocInv, BlocksDisjoint
    <3>3. EndOf(blocks[i]) <= EndOf(r)
      BY <3>2 DEF EndOf
    <3>4. new.size > 0
      BY <1>4, <1>7
    <3> QED BY <1>7, <1>9, <3>1, <3>2, <3>3, <3>4, OutsideNew
  <2> QED BY <2>1 DEF Unused
<1>12. AllocOK(a, region_pos', region_end', mapped', blocks)
  BY <1>2, <1>3, <1>5, <1>7, <1>8, <1>11 DEF AllocOK, Mapping
<1>13. CurrentOK(region_pos', region_end', mapped', blocks)
  BY <1>2, <1>3 DEF CurrentOK
<1>14. /\ alloc[t].pc \in Mapping /\ region_pos' \in Nat /\ region_end' \in Nat
       /\ mapped' \subseteq Region /\ mapped \subseteq mapped'
  BY <1>2, <1>4, <1>7, <1>8 DEF AllocInv, AllocTypes, Mapping
<1> QED BY <1>2, <1>5, <1>6, <1>10, <1>12, <1>13, <1>14, MapStep

-----------------------------------------------------------------------------
(* A block is cut off                                                         *)

\* One that is in the unused part of a region keeps the blocks apart
LEMMA CutOff ==
  ASSUME AllocInv, NEW new \in NodeBlock, NEW end \in Nat, EndOf(new) <= end,
         Unused(blocks, new.addr, end), blocks' = Append(blocks, new), mapped' = mapped,
         \E r \in mapped : r.addr <= new.addr /\ EndOf(r) = end
  PROVE  /\ blocks' \in Seq(NodeBlock)
         /\ Unused(blocks', EndOf(new), end)
         /\ BlocksDisjoint'
<1> DEFINE n == Len(blocks) + 1
<1>1. /\ blocks \in Seq(NodeBlock) /\ Len(blocks) \in Nat
      /\ \A i \in DOMAIN blocks : blocks[i] \in NodeBlock
  BY DEF AllocInv, AllocTypes
<1>2. /\ blocks' \in Seq(NodeBlock) /\ DOMAIN blocks' = DOMAIN blocks \cup {n}
      /\ \A i \in DOMAIN blocks : blocks'[i] = blocks[i] /\ i # n
      /\ blocks'[n] = new
  BY <1>1, AppendProperties
<1> HIDE DEF n
<1>3. /\ new.addr \in Nat /\ new.size \in Nat /\ EndOf(new) = new.addr + new.size
      /\ \A i \in DOMAIN blocks : blocks[i].addr \in Nat /\ blocks[i].size \in Nat
  BY <1>1 DEF NodeBlock, EndOf
<1>4. ASSUME NEW i \in DOMAIN blocks
      PROVE  EndOf(blocks[i]) <= new.addr \/ blocks[i].addr >= end
  BY DEF Unused
<1>5. Unused(blocks', EndOf(new), end)
  <2>1. ASSUME NEW i \in DOMAIN blocks'
        PROVE  EndOf(blocks'[i]) <= EndOf(new) \/ blocks'[i].addr >= end
    <3>1. CASE i = n
      BY <1>2, <1>3, <3>1
    <3>2. CASE i \in DOMAIN blocks
      BY <1>2, <1>3, <1>4, <3>2 DEF EndOf
    <3> QED BY <1>2, <3>1, <3>2
  <2> QED BY <2>1 DEF Unused
<1>6. ASSUME NEW i \in DOMAIN blocks
      PROVE  /\ ~ Overlap(blocks[i].addr, blocks[i].size, new.addr, new.size)
             /\ ~ Overlap(new.addr, new.size, blocks[i].addr, blocks[i].size)
  BY <1>3, <1>4 DEF EndOf, Overlap
<1>7. ASSUME NEW i \in DOMAIN blocks', NEW j \in DOMAIN blocks', i # j
      PROVE  ~ Overlap(blocks'[i].addr, blocks'[i].size, blocks'[j].addr, blocks'[j].size)
  <2>1. CASE i \in DOMAIN blocks /\ j \in DOMAIN blocks
    BY <1>2, <1>7, <2>1 DEF AllocInv, BlocksDisjoint
  <2>2. CASE i = n \/ j = n
    BY <1>2, <1>6, <1>7, <2>2
  <2> QED BY <1>2, <2>1, <2>2
<1>8. ASSUME NEW i \in DOMAIN blocks'
      PROVE  \E r \in mapped' : /\ r.addr <= blocks'[i].addr
                                /\ blocks'[i].addr + blocks'[i].size <= r.addr + r.size
  <2>1. CASE i = n
    <3>1. PICK r \in mapped : r.addr <= new.addr /\ EndOf(r) = end
      OBVIOUS
    <3> QED BY <1>2, <2>1, <3>1 DEF EndOf
  <2>2. CASE i \in DOMAIN blocks
    BY <1>2, <2>2 DEF AllocInv, BlocksDisjoint
  <2> QED BY <1>2, <2>1, <2>2
<1> QED BY <1>2, <1>5, <1>7, <1>8 DEF BlocksDisjoint

\* The end is still the one that the block was found to fit before
LEMMA CasPosKeeps ==
  ASSUME AllocInv, NEW t \in Threads, CasPos(t),
         region_pos = alloc[t].cmp => alloc[t].end = region_end
  PROVE  AllocInv'
<1> DEFINE o == alloc[t]
           l == IF o.locked THEN "unlock" ELSE "done"
<1>1. o.pc = "cas" /\ o \in AllocPlace /\ UNCHANGED <<region_end, mapped, mtx>>
  BY DEF CasPos, AllocAt, AllocInv, AllocTypes
<1>2. CASE region_pos # o.cmp
  <2> DEFINE a == PcTo(o, "pos")
  <2>1. alloc' = [alloc EXCEPT ![t] = a] /\ UNCHANGED <<region_pos, blocks>>
    BY <1>2, AllocForms DEF CasPos, AllocInv
  <2>2. a \in AllocPlace /\ a.pc = "pos" /\ a.locked = o.locked
    BY <1>1, PcToFields
  <2>3. AllocOK(a, region_pos, region_end, mapped, blocks)
    BY <2>2 DEF AllocOK, Mapping
  <2>4. Holder(a) => Holder(o)
    BY <1>1, <2>2 DEF Holder
  <2> HIDE DEF a
  <2> QED BY <1>1, <2>1, <2>2, <2>3, <2>4, PlaceStep
<1>3. CASE region_pos = o.cmp
  <2> DEFINE a == PcTo(o, l)
             new == Block(t)
  <2>1. /\ alloc' = [alloc EXCEPT ![t] = a]
        /\ region_pos' = o.cmp + o.size
        /\ blocks' = Append(blocks, new)
    BY <1>3, AllocForms DEF CasPos, AllocInv
  <2>2. /\ a \in AllocPlace /\ a.pc = l /\ a.locked = o.locked
        /\ o.cmp \in Nat /\ o.size \in Nat
    BY <1>1, PcToFields DEF Mapping, AllocPlace
  <2>3. /\ new \in NodeBlock /\ new.addr = o.cmp /\ EndOf(new) = region_pos'
        /\ region_pos' \in Nat /\ region_pos' >= o.cmp
    <3>1. new \in NodeBlock /\ new.addr = o.cmp /\ new.size = o.size
      BY <2>2 DEF NodeBlock, Block
    <3>2. EndOf(new) = region_pos'
      BY <2>1, <3>1 DEF EndOf
    <3> QED BY <2>1, <2>2, <3>1, <3>2
  <2> HIDE DEF a, new
  <2>4. o.cmp # 0 /\ o.cmp + o.size <= region_end
    BY <1>1, <1>3 DEF AllocInv, AllocOK
  <2>5. Unused(blocks, new.addr, region_end)
    BY <1>3, <2>3, <2>4 DEF AllocInv, CurrentOK
  <2>6. PICK r \in mapped : Reaches(r, o.cmp) /\ EndOf(r) = region_end
    BY <1>3, <2>4 DEF AllocInv, CurrentOK
  <2>7. region_pos' <= region_end /\ region_end \in Nat
    BY <2>1, <2>4 DEF AllocInv, AllocTypes
  <2>8. /\ blocks' \in Seq(NodeBlock) /\ BlocksDisjoint'
        /\ Unused(blocks', region_pos', region_end)
    BY <1>1, <2>1, <2>3, <2>5, <2>6, <2>7, CutOff DEF Reaches
  <2>9. /\ alloc' \in [Threads -> AllocPlace]
        /\ alloc'[t] = a
        /\ \A u \in Threads : u # t => alloc'[u] = alloc[u]
    BY <2>1, <2>2, AllocSet DEF AllocInv, AllocTypes
  <2>10. AllocTypes'
    BY <1>1, <2>3, <2>8, <2>9 DEF AllocInv, AllocTypes
  <2>11. MutexOK(alloc', mtx')
    <3>1. PICK al, to, m : al = alloc /\ to = alloc' /\ m = mtx
      OBVIOUS
    <3>2. MutexOK(al, m) /\ \A u \in Threads : u # t => to[u] = al[u]
      BY <2>9, <3>1 DEF AllocInv
    <3>3. Holder(to[t]) => Holder(al[t])
      BY <1>1, <2>2, <2>9, <3>1 DEF Holder
    <3>4. MutexOK(to, m)
      BY <3>2, <3>3, MutexStep
    <3> QED BY <1>1, <3>1, <3>4
  <2>12. CurrentOK(region_pos', region_end, mapped, blocks')
    <3>1. r \in Region
      BY DEF AllocInv, AllocTypes
    <3>2. Reaches(r, region_pos')
      BY <2>2, <2>3, <2>6, <2>7, <3>1 DEF Reaches, Region
    <3> QED BY <2>6, <2>8, <3>2 DEF CurrentOK
  <2>13. ASSUME NEW u \in Threads
         PROVE  AllocOK(alloc'[u], region_pos', region_end, mapped, blocks')
    <3>1. CASE u = t
      <4>1. a.pc \in {"unlock", "done"} /\ (a.pc = "unlock" => a.locked)
        BY <2>2
      <4> QED BY <2>9, <3>1, <4>1 DEF AllocOK, Mapping
    <3>2. CASE u # t
      <4>1. AllocOK(alloc[u], region_pos, region_end, mapped, blocks)
        BY DEF AllocInv
      <4>2. alloc[u].pc \notin {"mmap", "publish"}
        BY <1>3, <2>4, <4>1 DEF AllocOK
      <4>3. AllocOK(alloc[u], region_pos', region_end, mapped, blocks')
        BY <4>1, <4>2 DEF AllocOK
      <4> QED BY <2>9, <3>2, <4>3
    <3> QED BY <3>1, <3>2
  <2> QED BY <1>1, <2>8, <2>10, <2>11, <2>12, <2>13 DEF AllocInv
<1> QED BY <1>2, <1>3

-----------------------------------------------------------------------------
(* The types, which hold also when blocks overlap: once an exchange came too  *)
(* late, nothing more is claimed                                              *)

TypedStep == AllocTypes' /\ (SomeStale => SomeStale')

\* A step that changes a thread's place and hands out nothing
LEMMA PlaceTyped ==
  ASSUME AllocTypes, NEW t \in Threads, NEW a \in AllocPlace,
         alloc' = [alloc EXCEPT ![t] = a], blocks' = blocks,
         region_pos' \in Nat, region_end' \in Nat, mapped' \subseteq Region
  PROVE  TypedStep
<1>1. alloc' \in [Threads -> AllocPlace]
  BY AllocSet DEF AllocTypes
<1>2. SomeStale => SomeStale'
  BY DEF SomeStale
<1> QED BY <1>1, <1>2 DEF AllocTypes, TypedStep

LEMMA GotoTyped ==
  ASSUME AllocTypes, NEW t \in Threads,
         NEW l \in Mapping \cup {"pos", "end", "cas", "lock", "done"}, AllocGoto(t, l),
         blocks' = blocks, region_pos' \in Nat, UNCHANGED <<region_end, mapped>>
  PROVE  TypedStep
<1>1. alloc' = [alloc EXCEPT ![t] = PcTo(alloc[t], l)]
  BY AllocForms
<1>2. PcTo(alloc[t], l) \in AllocPlace
  BY PcToFields DEF AllocTypes
<1>3. region_end' \in Nat /\ mapped' \subseteq Region
  BY DEF AllocTypes
<1> QED BY <1>1, <1>2, <1>3, PlaceTyped

LEMMA LoadEndTyped == ASSUME AllocTypes, NEW t \in Threads, LoadEnd(t) PROVE TypedStep
<1>1. UNCHANGED <<region_pos, region_end, mapped, blocks>>
  BY DEF LoadEnd, KeepRegion
<1>2. PICK a \in AllocPlace : alloc' = [alloc EXCEPT ![t] = a]
  BY LoadEndForm
<1>3. region_pos' \in Nat /\ region_end' \in Nat /\ mapped' \subseteq Region
  BY <1>1 DEF AllocTypes
<1> QED BY <1>1, <1>2, <1>3, PlaceTyped

LEMMA MmapOrDieTyped == ASSUME AllocTypes, NEW t \in Threads, MmapOrDie(t) PROVE TypedStep
<1> DEFINE size == IF RegionSize < alloc[t].size THEN alloc[t].size ELSE RegionSize
<1>1. PICK mem \in Bases :
        /\ mapped' = mapped \cup {[addr |-> mem, size |-> size]}
        /\ region_end' = mem + size
        /\ alloc' = [alloc EXCEPT ![t].pc = "publish", ![t].mem = mem]
  BY Zenon DEF MmapOrDie
<1>2. /\ alloc[t] \in AllocPlace /\ alloc[t].size \in Nat /\ region_pos \in Nat
      /\ mapped \subseteq Region /\ blocks' = blocks /\ region_pos' = region_pos
  BY DEF MmapOrDie, AllocTypes, AllocPlace
<1>3. mem \in Nat /\ size \in Nat
  BY <1>2, AllocatorAssumption
<1>4. Mapped(alloc[t], "publish", mem) \in AllocPlace
  BY <1>2, <1>3, MappedFields
<1>5. alloc' = [alloc EXCEPT ![t] = Mapped(alloc[t], "publish", mem)]
  BY <1>1, AllocForms
<1> HIDE DEF size
<1>6. region_pos' \in Nat /\ region_end' \in Nat /\ mapped' \subseteq Region
  BY <1>1, <1>2, <1>3 DEF Region
<1> QED BY <1>2, <1>4, <1>5, <1>6, PlaceTyped

\* The block that an exchange hands out is stale if the end was replaced
LEMMA CasPosTyped ==
  ASSUME AllocTypes, NEW t \in Threads, CasPos(t)
  PROVE  /\ TypedStep
         /\ region_pos = alloc[t].cmp /\ alloc[t].end # region_end => SomeStale'
<1> DEFINE o == alloc[t]
           l == IF o.locked THEN "unlock" ELSE "done"
           n == Len(blocks) + 1
<1>1. /\ o \in AllocPlace /\ o.cmp \in Nat /\ o.size \in Nat /\ UNCHANGED <<region_end, mapped>>
      /\ region_pos \in Nat
  BY DEF CasPos, AllocTypes, AllocPlace
<1>2. CASE region_pos # o.cmp
  <2>1. AllocGoto(t, "pos") /\ UNCHANGED <<region_pos, blocks>>
    BY <1>2 DEF CasPos
  <2> QED BY <1>1, <1>2, <2>1, GotoTyped
<1>3. CASE region_pos = o.cmp
  <2>1. /\ AllocGoto(t, l) /\ region_pos' = o.cmp + o.size /\ blocks' = Append(blocks, Block(t))
    BY <1>3 DEF CasPos
  <2>2. Block(t) \in NodeBlock /\ Block(t).stale = (o.end # region_end)
    BY <1>1 DEF Block, NodeBlock
  <2>3. blocks \in Seq(NodeBlock)
    BY DEF AllocTypes
  <2>4. /\ blocks' \in Seq(NodeBlock) /\ DOMAIN blocks' = DOMAIN blocks \cup {n}
        /\ \A i \in DOMAIN blocks : blocks'[i] = blocks[i]
        /\ blocks'[n] = Block(t)
    BY <2>1, <2>2, <2>3, AppendProperties
  <2>5. SomeStale => SomeStale'
    BY <2>4 DEF SomeStale
  <2>6. o.end # region_end => SomeStale'
    BY <2>2, <2>4 DEF SomeStale
  <2>7. alloc' \in [Threads -> AllocPlace]
    <3>1. alloc' = [alloc EXCEPT ![t] = PcTo(o, l)]
      BY <2>1, AllocForms
    <3>2. PcTo(o, l) \in AllocPlace
      BY <1>1, PcToFields DEF Mapping
    <3> QED BY <3>1, <3>2, AllocSet DEF AllocTypes
  <2>8. AllocTypes'
    BY <1>1, <2>1, <2>4, <2>7 DEF AllocTypes
  <2> QED BY <2>5, <2>6, <2>8 DEF TypedStep
<1> QED BY <1>2, <1>3

LEMMA AllocStepTyped == ASSUME AllocTypes, NEW t \in Threads, AllocStep(t) PROVE TypedStep
<1>1. region_pos \in Nat /\ region_end \in Nat /\ mapped \subseteq Region
      /\ alloc[t] \in AllocPlace
  BY DEF AllocTypes
<1>2. CASE LoadPos(t)
  <2>1. alloc' = [alloc EXCEPT ![t] = Loaded(alloc[t], "end", region_pos)]
    BY <1>2, AllocForms
  <2>2. Loaded(alloc[t], "end", region_pos) \in AllocPlace
    BY <1>1, LoadedFields
  <2>3. UNCHANGED <<region_pos, region_end, mapped, blocks>>
    BY <1>2 DEF LoadPos, KeepRegion
  <2> QED BY <1>1, <2>1, <2>2, <2>3, PlaceTyped
<1>3. CASE LockMtx(t)
  <2>1. alloc' = [alloc EXCEPT ![t] = WithMutex(alloc[t], "pos")]
    BY <1>3, AllocForms
  <2>2. WithMutex(alloc[t], "pos") \in AllocPlace
    BY <1>1, WithMutexFields
  <2>3. UNCHANGED <<region_pos, region_end, mapped, blocks>>
    BY <1>3 DEF LockMtx, KeepRegion
  <2> QED BY <1>1, <2>1, <2>2, <2>3, PlaceTyped
<1>4. CASE ClearPos(t)
  <2>1. AllocGoto(t, "mmap") /\ region_pos' = 0 /\ UNCHANGED <<region_end, mapped, blocks>>
    BY <1>4 DEF ClearPos
  <2> QED BY <2>1, GotoTyped DEF Mapping
<1>5. CASE PublishPos(t)
  <2>1. /\ AllocGoto(t, "pos") /\ region_pos' = alloc[t].mem
        /\ UNCHANGED <<region_end, mapped, blocks>>
    BY <1>5 DEF PublishPos
  <2>2. alloc[t].mem \in Nat
    BY <1>1 DEF AllocPlace
  <2> QED BY <2>1, <2>2, GotoTyped
<1>6. CASE UnlockMtx(t)
  <2>1. AllocGoto(t, "done") /\ UNCHANGED <<region_pos, region_end, mapped, blocks>>
    BY <1>6 DEF UnlockMtx, KeepRegion
  <2> QED BY <1>1, <2>1, GotoTyped
<1> QED BY <1>2, <1>3, <1>4, <1>5, <1>6, LoadEndTyped, MmapOrDieTyped, CasPosTyped DEF AllocStep

-----------------------------------------------------------------------------
(* The steps of the depot                                                     *)

BlocksInv == AllocTypes /\ (SomeStale \/ AllocInv)

LEMMA AllocateKeeps ==
  ASSUME BlocksInv, NEW t \in Threads, AllocStep(t) PROVE BlocksInv'
<1>1. AllocTypes' /\ (SomeStale => SomeStale')
  BY AllocStepTyped DEF BlocksInv, TypedStep
<1>2. ASSUME AllocInv, ~ SomeStale' PROVE AllocInv'
  <2>1. CASE CasPos(t)
    <3>1. region_pos = alloc[t].cmp => alloc[t].end = region_end
      BY <1>2, <2>1, CasPosTyped DEF BlocksInv
    <3> QED BY <1>2, <2>1, <3>1, CasPosKeeps
  <2> QED BY <1>2, <2>1, LoadPosKeeps, LoadEndKeeps, LockMtxKeeps, ClearPosKeeps, MmapOrDieKeeps,
             PublishPosKeeps, UnlockMtxKeeps DEF AllocStep
<1> QED BY <1>1, <1>2 DEF BlocksInv

\* An allocation is begun, or its block used
LEMMA BeginsKeeps ==
  ASSUME BlocksInv, NEW t \in Threads, NEW a \in AllocPlace, alloc' = [alloc EXCEPT ![t] = a],
         a.pc \in {"idle", "pos"}, ~ a.locked,
         UNCHANGED <<region_pos, region_end, mapped, mtx, blocks>>
  PROVE  BlocksInv'
<1>1. AllocOK(a, region_pos, region_end, mapped, blocks) /\ ~ Holder(a)
  BY DEF AllocOK, Mapping, Holder
<1>2. AllocInv => AllocInv'
  BY <1>1, PlaceStep
<1>3. region_pos' \in Nat /\ region_end' \in Nat /\ mapped' \subseteq Region
  BY DEF BlocksInv, AllocTypes
<1>4. TypedStep
  BY <1>3, PlaceTyped DEF BlocksInv
<1> QED BY <1>2, <1>4 DEF BlocksInv, TypedStep

LEMMA UnchangedKeeps == ASSUME BlocksInv, UNCHANGED allocVars PROVE BlocksInv'
BY DEF BlocksInv, AllocInv, AllocTypes, SomeStale, BlocksDisjoint, allocVars

LEMMA NewIdKeepsBlocks == ASSUME IInv, BlocksInv, NEW t \in Threads, NewId(t) PROVE BlocksInv'
<1>1. op[t].arg \in Stacks
  BY DEF IInv, PlacesOK, PlaceOK, PutOK, NewId, At, Putting, Inserting
<1>2. StorageSize[op[t].arg] \in Nat
  BY <1>1, DepotAssumption
<1> DEFINE a == Starting(StorageSize[op[t].arg])
<1>3. a \in AllocPlace /\ a.pc = "pos" /\ ~ a.locked
  BY <1>2, StartFields
<1>4. UNCHANGED <<region_pos, region_end, mapped, mtx, blocks>>
  BY DEF NewId, KeepRegion
<1>5. alloc' = [alloc EXCEPT ![t] = a] \/ alloc' = alloc
  BY DEF NewId, StartAlloc, Starting
<1>6. CASE alloc' = alloc
  BY <1>4, <1>6, UnchangedKeeps DEF allocVars
<1> HIDE DEF a
<1>7. CASE alloc' = [alloc EXCEPT ![t] = a]
  BY <1>3, <1>4, <1>7, BeginsKeeps
<1> QED BY <1>5, <1>6, <1>7

LEMMA PublishKeepsBlocks == ASSUME BlocksInv, NEW t \in Threads, Publish(t) PROVE BlocksInv'
<1>1. NotAllocating \in AllocPlace /\ NotAllocating.pc = "idle" /\ ~ NotAllocating.locked
  BY StartFields DEF Starting
<1>2. /\ UNCHANGED <<region_pos, region_end, mapped, mtx, blocks>>
      /\ alloc' = [alloc EXCEPT ![t] = NotAllocating]
  BY DEF Publish, KeepRegion
<1> QED BY <1>1, <1>2, BeginsKeeps

LEMMA NextKeepsBlocks == IInv /\ BlocksInv /\ [Next]_vars => BlocksInv'
<1> SUFFICES ASSUME IInv, BlocksInv, [Next]_vars PROVE BlocksInv'
  OBVIOUS
<1>1. CASE UNCHANGED allocVars
  BY <1>1, UnchangedKeeps
<1>2. CASE UNCHANGED vars
  BY <1>1, <1>2 DEF vars, depotVars
<1>3. CASE BeginMap \/ ReadBucket \/ MapGet
  BY <1>1, <1>3 DEF BeginMap, ReadBucket, MapGet, depotVars
<1>4. ASSUME NEW t \in Threads, MayCall(t) PROVE BlocksInv'
  BY <1>1, <1>4 DEF MayCall, CallFork, CallPut, CallGet, KeepAlloc
<1>5. ASSUME NEW t \in Threads,
             \/ Find(t) \/ Lock(t) \/ UnlockFound(t) \/ Get(t) \/ LockAll(t)
             \/ ForkParent(t) \/ ForkChild(t) \/ UnlockAll(t) \/ Return(t)
      PROVE  BlocksInv'
  BY <1>1, <1>5 DEF Find, Lock, UnlockFound, Get, LockAll, ForkParent, ForkChild,
                    UnlockAll, Return, KeepAlloc
<1>6. ASSUME NEW t \in Threads, NewId(t) \/ Publish(t) PROVE BlocksInv'
  BY <1>6, NewIdKeepsBlocks, PublishKeepsBlocks
<1>7. ASSUME NEW t \in Threads, Allocate(t) PROVE BlocksInv'
  BY <1>7, AllocateKeeps DEF Allocate
<1>8. ASSUME NEW t \in Threads, Run(t) PROVE BlocksInv'
  BY <1>5, <1>6, <1>7, <1>8 DEF Run
<1> QED BY <1>2, <1>3, <1>4, <1>5, <1>8 DEF Next

LEMMA InitBlocks == Init => BlocksInv
<1> SUFFICES ASSUME Init PROVE BlocksInv
  OBVIOUS
<1>1. /\ region_pos = 0 /\ region_end = 0 /\ mapped = {} /\ blocks = <<>>
      /\ alloc = [t \in Threads |-> NotAllocating]
  BY DEF Init, DepotInit, AllocInit
<1>2. NotAllocating \in AllocPlace /\ NotAllocating.pc = "idle" /\ ~ NotAllocating.locked
  BY StartFields
<1>3. \A t \in Threads : alloc[t] = NotAllocating
  BY <1>1
<1>4. AllocTypes
  BY <1>1, <1>2 DEF AllocTypes
<1>5. MutexOK(alloc, mtx)
  BY <1>2, <1>3 DEF MutexOK, Holder
<1>6. \A t \in Threads : AllocOK(alloc[t], region_pos, region_end, mapped, blocks)
  BY <1>2, <1>3 DEF AllocOK, Mapping
<1> QED BY <1>1, <1>4, <1>5, <1>6 DEF BlocksInv, AllocInv, RegionsOK, CurrentOK, BlocksDisjoint

\* The blocks in which the depot keeps its nodes never overlap, and each lies in
\* a region that was mapped for it, until a tryAlloc exchanges region_pos although
\* region_end has moved since it loaded that.  Wherever mmap puts the regions, that
\* the exchange looks at region_pos only is all that can make the allocator hand
\* out a byte twice
THEOREM OnlyStaleBlocksOverlap == Spec => []OverlapsAreStale
<1>1. BlocksInv => OverlapsAreStale
  BY DEF BlocksInv, AllocInv, SomeStale, OverlapsAreStale
<1> QED BY <1>1, InitBlocks, NextKeepsBlocks, Inductive, PTL DEF Spec

-----------------------------------------------------------------------------
(* The snapshot                                                               *)

\* Induction over the naturals: a finite set that holds with each number its
\* predecessor is mapped onto itself by taking one away
LEMMA NatInd ==
  ASSUME NEW S, 0 \in S, \A n \in Nat : n \in S => n + 1 \in S PROVE Nat \subseteq S
<1> SUFFICES ASSUME NEW n \in Nat, n \notin S PROVE FALSE
  OBVIOUS
<1> DEFINE T == {k \in 0 .. n : k \notin S}
           f == [x \in T |-> x - 1]
<1>1. IsFiniteSet(T)
  <2>1. IsFiniteSet(0 .. n)
    BY FS_Interval
  <2> QED BY <2>1, FS_Subset
<1>2. ASSUME NEW x \in T PROVE x - 1 \in T
  <2>1. x \in Nat /\ x # 0 /\ x - 1 \in Nat /\ (x - 1) + 1 = x
    OBVIOUS
  <2>2. x - 1 \in S => (x - 1) + 1 \in S
    BY <2>1
  <2> QED BY <2>1, <2>2
<1>3. f \in Injection(T, T)
  BY <1>2 DEF Injection, IsInjective
<1>4. f \in Surjection(T, T)
  BY <1>1, <1>3, FS_Injection
<1>5. n \in T
  OBVIOUS
<1>6. PICK y \in T : f[y] = n
  BY <1>4, <1>5 DEF Surjection
<1> QED BY <1>6

\* No two pairs have the same identifier
Distinct(v) == \A i, j \in DOMAIN v : v[i].id = v[j].id => i = j

Ascending(v) == \A i, j \in DOMAIN v : i < j => v[i].id < v[j].id

LEMMA PairsAre ==
  ASSUME NEW v \in Seq(Node)
  PROVE  /\ Len(v) \in Nat /\ DOMAIN v = 1 .. Len(v)
         /\ \A i \in DOMAIN v : v[i] \in Node /\ v[i].id \in Nat
<1>1. Len(v) \in Nat /\ DOMAIN v = 1 .. Len(v)
  BY LenProperties
<1>2. \A i \in DOMAIN v : v[i] \in Node
  BY <1>1, ElementOfSeq
<1>3. \A x \in Node : x.id \in Nat
  BY DEF Node
<1> QED BY <1>1, <1>2, <1>3

\* The position of an element is the number of those that are not above it
LEMMA RankIs ==
  ASSUME NEW v \in Seq(Node), Distinct(v)
  PROVE  \E r \in Bijection(DOMAIN v, DOMAIN v) :
           \A i, j \in DOMAIN v : v[i].id < v[j].id => r[i] < r[j]
<1> DEFINE D == DOMAIN v
           below(j) == {k \in D : v[k].id <= v[j].id}
           r == [j \in D |-> Cardinality(below(j))]
<1>1. /\ D = 1 .. Len(v) /\ Len(v) \in Nat /\ IsFiniteSet(D) /\ Cardinality(D) = Len(v)
  <2>1. Len(v) \in Nat /\ D = 1 .. Len(v)
    BY LenProperties
  <2>2. IsFiniteSet(1 .. Len(v)) /\ Cardinality(1 .. Len(v)) = Len(v)
    BY <2>1, FS_Interval
  <2> QED BY <2>1, <2>2
<1>2. \A i \in D : v[i].id \in Nat
  BY PairsAre
<1>3. ASSUME NEW j \in D PROVE below(j) \subseteq D /\ j \in below(j) /\ IsFiniteSet(below(j))
                               /\ Cardinality(below(j)) \in D
  <2>1. below(j) \subseteq D /\ j \in below(j)
    BY <1>2, <1>3
  <2>2. IsFiniteSet(below(j)) /\ Cardinality(below(j)) <= Cardinality(D)
    BY <1>1, <2>1, FS_Subset
  <2>3. Cardinality(below(j)) \in Nat /\ Cardinality(below(j)) # 0
    BY <2>1, <2>2, FS_CardinalityType, FS_EmptySet
  <2> HIDE DEF below
  <2> QED BY <1>1, <2>1, <2>2, <2>3
<1>4. ASSUME NEW i \in D, NEW j \in D, v[i].id < v[j].id PROVE r[i] < r[j]
  <2>1. below(i) \subseteq below(j) /\ j \notin below(i) /\ j \in below(j)
    BY <1>2, <1>4
  <2>2. below(i) # below(j)
    BY <2>1
  <2>3. Cardinality(below(i)) <= Cardinality(below(j))
        /\ (Cardinality(below(i)) = Cardinality(below(j)) => below(i) = below(j))
    BY <1>3, <2>1, FS_Subset
  <2>4. Cardinality(below(i)) \in D /\ Cardinality(below(j)) \in D
    BY <1>3
  <2> HIDE DEF below
  <2>5. Cardinality(below(i)) \in Nat /\ Cardinality(below(j)) \in Nat
    BY <1>1, <2>4
  <2>6. Cardinality(below(i)) < Cardinality(below(j))
    BY <2>2, <2>3, <2>5
  <2>7. r[i] = Cardinality(below(i)) /\ r[j] = Cardinality(below(j))
    OBVIOUS
  <2> QED BY <2>6, <2>7
<1>5. r \in [D -> D]
  BY <1>3
<1> HIDE DEF r
<1>6. r \in Injection(D, D)
  <2>1. ASSUME NEW i \in D, NEW j \in D, r[i] = r[j] PROVE i = j
    <3>1. r[i] \in Nat /\ r[j] \in Nat
      BY <1>1, <1>5
    <3>2. ~ (v[i].id < v[j].id) /\ ~ (v[j].id < v[i].id)
      BY <1>4, <2>1, <3>1
    <3>3. v[i].id = v[j].id
      BY <1>2, <3>2
    <3> QED BY <3>3 DEF Distinct
  <2> QED BY <1>5, <2>1 DEF Injection, IsInjective
<1>7. r \in Surjection(D, D)
  BY <1>1, <1>6, FS_Injection
<1> QED BY <1>4, <1>6, <1>7 DEF Bijection

\* Sort has an order to choose: the one that the positions give
LEMMA OrderExists ==
  ASSUME NEW v \in Seq(Node), Distinct(v)
  PROVE  \E p \in Bijection(DOMAIN v, DOMAIN v) :
           \A i, j \in DOMAIN v : i < j => ~ IdComparator(v[p[j]], v[p[i]])
<1> DEFINE D == DOMAIN v
<1>1. PICK r \in Bijection(D, D) : \A i, j \in D : v[i].id < v[j].id => r[i] < r[j]
  BY RankIs
<1>2. /\ r \in [D -> D] /\ \A i, j \in D : r[i] = r[j] => i = j
      /\ \A k \in D : \E i \in D : r[i] = k
  BY <1>1 DEF Bijection, Injection, Surjection, IsInjective
<1> DEFINE p == [k \in D |-> CHOOSE i \in D : r[i] = k]
<1>3. \A k \in D : p[k] \in D /\ r[p[k]] = k
  BY <1>2
<1>4. p \in [D -> D]
  BY <1>3
<1>5. \A i \in D : p[r[i]] = i
  <2> SUFFICES ASSUME NEW i \in D PROVE p[r[i]] = i
    OBVIOUS
  <2>1. r[i] \in D /\ p[r[i]] \in D /\ r[p[r[i]]] = r[i]
    BY <1>2, <1>3
  <2> HIDE DEF p
  <2> QED BY <1>2, <2>1
<1> HIDE DEF p
<1>6. p \in Bijection(D, D)
  <2>1. \A i, j \in D : p[i] = p[j] => i = j
    BY <1>3
  <2>2. \A k \in D : \E i \in D : p[i] = k
    BY <1>2, <1>5
  <2> QED BY <1>4, <2>1, <2>2 DEF Bijection, Injection, Surjection, IsInjective
<1>7. ASSUME NEW i \in D, NEW j \in D, i < j, v[p[j]].id < v[p[i]].id PROVE FALSE
  <2>1. r[p[j]] < r[p[i]] /\ r[p[j]] = j /\ r[p[i]] = i
    BY <1>1, <1>3, <1>7
  <2>2. i \in Nat /\ j \in Nat
    BY LenProperties
  <2> QED BY <1>7, <2>1, <2>2
<1> QED BY <1>6, <1>7 DEF IdComparator

\* Sort puts pairs with different identifiers into ascending order, and neither
\* loses one nor adds one
LEMMA SortIs ==
  ASSUME NEW v \in Seq(Node), Distinct(v)
  PROVE  /\ Sort(v) \in Seq(Node) /\ Ascending(Sort(v))
         /\ \A i \in DOMAIN v : \E j \in DOMAIN Sort(v) : Sort(v)[j] = v[i]
<1> DEFINE D == DOMAIN v
           p == CHOOSE q \in Bijection(D, D) : \A i, j \in D : i < j => ~ IdComparator(v[q[j]], v[q[i]])
<1>1. p \in Bijection(D, D) /\ \A i, j \in D : i < j => ~ IdComparator(v[p[j]], v[p[i]])
  BY OrderExists
<1>2. Sort(v) = [i \in D |-> v[p[i]]]
  BY DEF Sort
<1> HIDE DEF p
<1>3. /\ p \in [D -> D] /\ \A i, j \in D : p[i] = p[j] => i = j
      /\ \A k \in D : \E i \in D : p[i] = k
  BY <1>1 DEF Bijection, Injection, Surjection, IsInjective
<1>4. D = 1 .. Len(v) /\ Len(v) \in Nat /\ \A i \in D : v[i] \in Node /\ v[i].id \in Nat
  BY PairsAre
<1>5. Sort(v) \in Seq(Node) /\ DOMAIN Sort(v) = D
  <2>1. \A i \in 1 .. Len(v) : v[p[i]] \in Node
    BY <1>3, <1>4
  <2>2. [i \in 1 .. Len(v) |-> v[p[i]]] \in Seq(Node)
    BY <1>4, <2>1, IsASeq
  <2> QED BY <1>2, <1>4, <2>2
<1>6. Ascending(Sort(v))
  <2> SUFFICES ASSUME NEW i \in D, NEW j \in D, i < j PROVE v[p[i]].id < v[p[j]].id
    BY <1>2 DEF Ascending
  <2>1. p[i] \in D /\ p[j] \in D /\ p[i] # p[j]
    BY <1>3, <1>4
  <2>2. v[p[i]].id # v[p[j]].id
    BY <2>1 DEF Distinct
  <2>3. ~ (v[p[j]].id < v[p[i]].id)
    BY <1>1 DEF IdComparator
  <2>4. v[p[i]].id \in Nat /\ v[p[j]].id \in Nat
    BY <1>4, <2>1
  <2> QED BY <2>2, <2>3, <2>4
<1>7. \A i \in DOMAIN v : \E j \in DOMAIN Sort(v) : Sort(v)[j] = v[i]
  BY <1>2, <1>3, <1>5
<1> QED BY <1>5, <1>6, <1>7

\* The function that InternalLowerBound defines
Halves(g, v, val) ==
  g = [r \in (0 .. Len(v)) \X (0 .. Len(v)) |->
        IF r[2] > r[1]
          THEN g[IF v[(r[1] + r[2]) \div 2 + 1].id < val
                   THEN <<(r[1] + r[2]) \div 2 + 1, r[2]>> ELSE <<r[1], (r[1] + r[2]) \div 2>>]
          ELSE r[1]]

LEMMA LowerBoundIs ==
  ASSUME NEW v, NEW val
  PROVE  InternalLowerBound(v, val) = (CHOOSE g : Halves(g, v, val))[<<0, Len(v)>>]
BY DEF InternalLowerBound, Halves

LEMMA Middle ==
  ASSUME NEW n \in Nat, NEW a \in 0 .. n, NEW b \in 0 .. n, a < b
  PROVE  LET m == (a + b) \div 2
         IN  m \in 0 .. n /\ m + 1 \in 1 .. n /\ m + 1 \in 0 .. n /\ a <= m /\ m < b
OBVIOUS

\* Where a search between two positions ends that looks for position k
Between(a, b, k) == IF b > a THEN IF k < a THEN a ELSE IF k > b THEN b ELSE k ELSE a

\* In an ascending list it meets the element in front of which nothing is above
LEMMA HalvesExists ==
  ASSUME NEW v \in Seq(Node), Ascending(v), NEW j \in DOMAIN v
  PROVE  \E g : Halves(g, v, v[j].id)
<1>1. /\ Len(v) \in Nat /\ DOMAIN v = 1 .. Len(v) /\ j \in 1 .. Len(v)
      /\ \A i \in DOMAIN v : v[i].id \in Nat
  BY PairsAre
<1> DEFINE P == (0 .. Len(v)) \X (0 .. Len(v))
           g == [r \in P |-> Between(r[1], r[2], j - 1)]
           next(r) == IF v[(r[1] + r[2]) \div 2 + 1].id < v[j].id
                        THEN <<(r[1] + r[2]) \div 2 + 1, r[2]>> ELSE <<r[1], (r[1] + r[2]) \div 2>>
<1>2. ASSUME NEW a \in 0 .. Len(v), NEW b \in 0 .. Len(v), a < b
      PROVE  g[<<a, b>>] = g[next(<<a, b>>)]
  <2>1. PICK m : m = (a + b) \div 2
    OBVIOUS
  <2>2. m \in 0 .. Len(v) /\ m + 1 \in 1 .. Len(v) /\ m + 1 \in 0 .. Len(v) /\ a <= m /\ m < b
    BY <1>1, <1>2, <2>1, Middle
  <2>3. v[m + 1].id < v[j].id <=> m + 1 < j
    <3>1. v[m + 1].id \in Nat /\ v[j].id \in Nat
      BY <1>1, <2>2
    <3>2. m + 1 < j => v[m + 1].id < v[j].id
      BY <1>1, <2>2 DEF Ascending
    <3>3. j < m + 1 => v[j].id < v[m + 1].id
      BY <1>1, <2>2 DEF Ascending
    <3> QED BY <1>1, <2>2, <3>1, <3>2, <3>3
  <2>4. CASE m + 1 < j
    <3>1. next(<<a, b>>) = <<m + 1, b>>
      BY <2>1, <2>3, <2>4
    <3>2. g[<<a, b>>] = Between(a, b, j - 1) /\ g[<<m + 1, b>>] = Between(m + 1, b, j - 1)
      BY <2>2
    <3>3. Between(a, b, j - 1) = Between(m + 1, b, j - 1)
      BY <1>1, <1>2, <2>2, <2>4 DEF Between
    <3> QED BY <3>1, <3>2, <3>3
  <2>5. CASE ~ (m + 1 < j)
    <3>1. next(<<a, b>>) = <<a, m>>
      BY <2>1, <2>3, <2>5
    <3>2. g[<<a, b>>] = Between(a, b, j - 1) /\ g[<<a, m>>] = Between(a, m, j - 1)
      BY <2>2
    <3>3. Between(a, b, j - 1) = Between(a, m, j - 1)
      BY <1>1, <1>2, <2>2, <2>5 DEF Between
    <3> QED BY <3>1, <3>2, <3>3
  <2> QED BY <2>4, <2>5
<1>3. ASSUME NEW r \in P
      PROVE  g[r] = IF r[2] > r[1] THEN g[next(r)] ELSE r[1]
  <2>1. PICK a \in 0 .. Len(v), b \in 0 .. Len(v) : r = <<a, b>> /\ r[1] = a /\ r[2] = b
    OBVIOUS
  <2>2. g[r] = Between(a, b, j - 1)
    BY <2>1
  <2>3. g[r] = g[<<a, b>>] /\ g[next(r)] = g[next(<<a, b>>)]
    BY <2>1, Zenon
  <2> HIDE DEF g, next
  <2>4. CASE a < b
    BY <1>2, <2>1, <2>3, <2>4
  <2>5. CASE ~ (a < b)
    <3>1. Between(a, b, j - 1) = a
      BY <2>5 DEF Between
    <3> QED BY <2>1, <2>2, <2>5, <3>1
  <2> QED BY <2>4, <2>5
<1>4. g = [r \in P |-> g[r]]
  OBVIOUS
<1> HIDE DEF g
<1>5. g = [r \in P |-> IF r[2] > r[1] THEN g[next(r)] ELSE r[1]]
  BY <1>3, <1>4
<1> QED BY <1>5 DEF Halves

LEMMA HalvesFinds ==
  ASSUME NEW v \in Seq(Node), Ascending(v), NEW j \in DOMAIN v, NEW g, Halves(g, v, v[j].id)
  PROVE  g[<<0, Len(v)>>] = j - 1
<1>1. /\ Len(v) \in Nat /\ DOMAIN v = 1 .. Len(v) /\ j \in 1 .. Len(v)
      /\ \A i \in DOMAIN v : v[i].id \in Nat
  BY PairsAre
<1> DEFINE P == (0 .. Len(v)) \X (0 .. Len(v))
           next(a, b) == IF v[(a + b) \div 2 + 1].id < v[j].id
                           THEN <<(a + b) \div 2 + 1, b>> ELSE <<a, (a + b) \div 2>>
           S == {n \in Nat : \A a, b \in 0 .. Len(v) :
                   a <= j - 1 /\ j - 1 <= b /\ b - a <= n => g[<<a, b>>] = j - 1}
<1>2. ASSUME NEW a \in 0 .. Len(v), NEW b \in 0 .. Len(v)
      PROVE  g[<<a, b>>] = IF b > a THEN g[next(a, b)] ELSE a
  <2>1. <<a, b>> \in P /\ <<a, b>>[1] = a /\ <<a, b>>[2] = b
    OBVIOUS
  <2> QED BY <2>1 DEF Halves
<1>3. 0 \in S
  <2> SUFFICES ASSUME NEW a \in 0 .. Len(v), NEW b \in 0 .. Len(v),
                      a <= j - 1, j - 1 <= b, b - a <= 0
               PROVE  g[<<a, b>>] = j - 1
    OBVIOUS
  <2>1. ~ (b > a) /\ a = j - 1
    BY <1>1
  <2> QED BY <1>2, <2>1
<1>4. ASSUME NEW n \in Nat, n \in S PROVE n + 1 \in S
  <2> SUFFICES ASSUME NEW a \in 0 .. Len(v), NEW b \in 0 .. Len(v),
                      a <= j - 1, j - 1 <= b, b - a <= n + 1
               PROVE  g[<<a, b>>] = j - 1
    OBVIOUS
  <2>1. CASE ~ (b > a)
    <3>1. a = j - 1
      BY <1>1, <2>1
    <3> QED BY <1>2, <2>1, <3>1
  <2>2. CASE b > a
    <3>1. PICK m : m = (a + b) \div 2
      OBVIOUS
    <3>2. m \in 0 .. Len(v) /\ m + 1 \in 1 .. Len(v) /\ m + 1 \in 0 .. Len(v) /\ a <= m /\ m < b
      BY <1>1, <2>2, <3>1, Middle
    <3>3. v[m + 1].id < v[j].id <=> m + 1 < j
      <4>1. v[m + 1].id \in Nat /\ v[j].id \in Nat
        BY <1>1, <3>2
      <4>2. m + 1 < j => v[m + 1].id < v[j].id
        BY <1>1, <3>2 DEF Ascending
      <4>3. j < m + 1 => v[j].id < v[m + 1].id
        BY <1>1, <3>2 DEF Ascending
      <4> QED BY <1>1, <3>2, <4>1, <4>2, <4>3
    <3>4. g[<<a, b>>] = g[next(a, b)]
      BY <1>2, <2>2
    <3>5. CASE m + 1 < j
      <4>1. next(a, b) = <<m + 1, b>>
        BY <3>1, <3>3, <3>5
      <4>2. m + 1 <= j - 1 /\ b - (m + 1) <= n
        BY <1>1, <3>2, <3>5
      <4> QED BY <1>4, <3>2, <3>4, <4>1, <4>2
    <3>6. CASE ~ (m + 1 < j)
      <4>1. next(a, b) = <<a, m>>
        BY <3>1, <3>3, <3>6
      <4>2. j - 1 <= m /\ m - a <= n
        BY <1>1, <3>2, <3>6
      <4> QED BY <1>4, <3>2, <3>4, <4>1, <4>2
    <3> QED BY <3>5, <3>6
  <2> QED BY <2>1, <2>2
<1> HIDE DEF S
<1>5. Len(v) \in S
  BY <1>1, <1>3, <1>4, NatInd
<1>6. 0 \in 0 .. Len(v) /\ Len(v) \in 0 .. Len(v) /\ 0 <= j - 1 /\ j - 1 <= Len(v) /\ Len(v) - 0 <= Len(v)
  BY <1>1
<1> QED BY <1>5, <1>6 DEF S

\* Looking up an element of an ascending list finds its position
LEMMA Finds ==
  ASSUME NEW v \in Seq(Node), Ascending(v), NEW j \in DOMAIN v
  PROVE  InternalLowerBound(v, v[j].id) = j - 1
BY LowerBoundIs, HalvesExists, HalvesFinds

\* What has been read: nodes of the buckets that are behind, each once, and all
\* of the old nodes among these; the old nodes stay in the lists
In(tb, b, x) == \E k \in DOMAIN tb[b] : tb[b][k] = x
Listing(v, x) == \E i \in DOMAIN v : v[i] = x
Stored(tb, x) == \E b \in Buckets : In(tb, b, x)

Gathered(tb, v, n, old) ==
  /\ \A i \in DOMAIN v : \E b \in Buckets : b < n /\ In(tb, b, v[i])
  /\ Distinct(v)
  /\ \A x \in old : Stored(tb, x)
  /\ \A x \in old : \A b \in Buckets : b < n /\ In(tb, b, x) => Listing(v, x)

MapState == [pc : {"none", "read", "ready", "dead"}, i : Nat, pairs : Seq(Node)]

MapInv ==
  /\ map_ \in MapState
  /\ map_.pc = "read" => map_.i \in Buckets /\ Gathered(tab, map_.pairs, map_.i, before)
  /\ map_.pc = "ready" => /\ Ascending(map_.pairs)
                          /\ \A x \in before : Listing(map_.pairs, x)

\* A new node has an identifier that no node has
LEMMA PushedGathered ==
  ASSUME NEW tb \in Tab, NEW tc \in Tab, NEW b \in Buckets, NEW x \in Node, Pushed(tb, tc, b, x),
         \A c \in Buckets : \A i \in DOMAIN tb[c] : tb[c][i].id # x.id,
         NEW v \in Seq(Node), NEW n, NEW old, Gathered(tb, v, n, old)
  PROVE  Gathered(tc, v, n, old)
<1>0. /\ tc[b][1] = x
      /\ \A c \in Buckets : \A i \in DOMAIN tb[c] : \E j \in DOMAIN tc[c] : tc[c][j] = tb[c][i]
      /\ \A c \in Buckets : \A i \in DOMAIN tc[c] :
           (c = b /\ i = 1) \/ \E j \in DOMAIN tb[c] : tc[c][i] = tb[c][j]
                                     /\ (IF c = b THEN j = i - 1 ELSE j = i)
  BY PushedNodes
<1>1. \A c \in Buckets : \A y : In(tb, c, y) => In(tc, c, y)
  <2>1. \A c \in Buckets : \A i \in DOMAIN tb[c] : \E j \in DOMAIN tc[c] : tc[c][j] = tb[c][i]
    BY <1>0
  <2> QED BY <2>1 DEF In
<1>2. ASSUME NEW c \in Buckets, NEW y \in old, In(tc, c, y) PROVE In(tb, c, y)
  <2>1. PICK k \in DOMAIN tc[c] : tc[c][k] = y
    BY <1>2 DEF In
  <2>2. (c = b /\ k = 1) \/ \E j \in DOMAIN tb[c] : tc[c][k] = tb[c][j]
    BY <1>0
  <2>3. CASE c = b /\ k = 1
    <3>1. y = x
      BY <1>0, <2>1, <2>3
    <3>2. PICK d \in Buckets : In(tb, d, y)
      BY DEF Gathered, Stored
    <3> QED BY <3>1, <3>2 DEF In
  <2>4. CASE \E j \in DOMAIN tb[c] : tc[c][k] = tb[c][j]
    BY <2>1, <2>4 DEF In
  <2> QED BY <2>2, <2>3, <2>4
<1>3. \A i \in DOMAIN v : \E c \in Buckets : c < n /\ In(tc, c, v[i])
  BY <1>1 DEF Gathered
<1>4. \A y \in old : Stored(tc, y)
  BY <1>1 DEF Gathered, Stored
<1>5. \A y \in old : \A c \in Buckets : c < n /\ In(tc, c, y) => Listing(v, y)
  BY <1>2 DEF Gathered
<1> QED BY <1>3, <1>4, <1>5 DEF Gathered

\* The lists change only when a node is put in front of one
LEMMA TabSteps ==
  ASSUME [Next]_vars
  PROVE  tab' = tab \/ \E t \in Threads : Publish(t) /\ UNCHANGED <<map_, before>>
<1>1. CASE UNCHANGED vars
  BY <1>1 DEF vars, depotVars
<1>2. CASE BeginMap \/ ReadBucket \/ MapGet
  BY <1>2 DEF BeginMap, ReadBucket, MapGet, depotVars
<1>3. ASSUME NEW t \in Threads, MayCall(t) PROVE tab' = tab
  BY <1>3 DEF MayCall, CallFork, CallPut, CallGet
<1>4. ASSUME NEW t \in Threads, Run(t), ~ Publish(t) PROVE tab' = tab
  BY <1>4 DEF Run, Allocate, Find, Lock, UnlockFound, NewId, Get, LockAll, ForkParent, UnlockAll, Return
<1>5. ASSUME NEW t \in Threads, ForkChild(t) PROVE tab' = tab
  BY <1>5 DEF ForkChild
<1> QED BY <1>1, <1>2, <1>3, <1>4, <1>5 DEF Next

LEMMA PublishKeepsMap ==
  ASSUME IInv, MapInv, NEW t \in Threads, Publish(t), UNCHANGED <<map_, before>>
  PROVE  MapInv'
<1>1. PICK b \in Buckets : b = Bucket(t) /\ b = Hash[op[t].arg]
  BY PublishEffect, PutsAt DEF Putting, Inserting
<1>2. PICK x : x = [id |-> op[t].id, stack |-> op[t].arg]
  OBVIOUS
<1>3. /\ op[t].pc = "alloc" /\ op[t].id \in Nat /\ op[t].arg \in Stacks
      /\ tab' \in Tab /\ Pushed(tab, tab', b, x)
  BY <1>1, <1>2, PublishEffect
<1>4. x \in Node /\ x.id = op[t].id
  BY <1>2, <1>3 DEF Node
<1>5. PutOK(op[t], tab, seq)
  BY <1>3, PutsAt DEF Putting, Inserting
<1>6. PICK tb \in Tab, tc \in Tab : tb = tab /\ tc = tab' /\ Pushed(tb, tc, b, x)
  BY <1>3 DEF IInv, TypeInv
<1>7. \A c \in Buckets : \A i \in DOMAIN tb[c] : tb[c][i].id # x.id
  BY <1>3, <1>4, <1>5, <1>6 DEF PutOK
<1>8. PICK v \in Seq(Node), n \in Nat : v = map_.pairs /\ n = map_.i
  BY DEF MapInv, MapState
<1>9. Gathered(tb, v, n, before) => Gathered(tc, v, n, before)
  BY <1>4, <1>6, <1>7, PushedGathered
<1> QED BY <1>6, <1>8, <1>9 DEF MapInv

\* Once a bucket is behind, its nodes have been read too
LEMMA ReadGathered ==
  ASSUME NEW tb \in Tab, NEW sq, IdsOK(tb, sq), NEW v \in Seq(Node), NEW n \in Buckets, NEW old,
         Gathered(tb, v, n, old)
  PROVE  v \o tb[n] \in Seq(Node) /\ Gathered(tb, v \o tb[n], n + 1, old)
<1>1. PICK s \in Seq(Node) : s = tb[n] /\ DOMAIN s = 1 .. Len(s) /\ Len(s) \in Nat
  BY Listed
<1>2. Len(v) \in Nat /\ DOMAIN v = 1 .. Len(v)
  BY PairsAre
<1>3. PICK w \in Seq(Node) : /\ w = v \o s /\ DOMAIN w = 1 .. Len(v) + Len(s)
                             /\ \A i \in DOMAIN w : w[i] = IF i <= Len(v) THEN v[i] ELSE s[i - Len(v)]
  <2>1. /\ v \o s \in Seq(Node) /\ Len(v \o s) = Len(v) + Len(s)
        /\ \A i \in 1 .. Len(v) + Len(s) : (v \o s)[i] = IF i <= Len(v) THEN v[i] ELSE s[i - Len(v)]
    BY <1>1, <1>2, ConcatProperties
  <2>2. DOMAIN (v \o s) = 1 .. Len(v) + Len(s)
    BY <2>1, LenProperties
  <2> QED BY <2>1, <2>2
<1>4. \A i \in DOMAIN v : i \in DOMAIN w /\ w[i] = v[i]
  BY <1>1, <1>2, <1>3
<1>5. \A k \in DOMAIN s : k + Len(v) \in DOMAIN w /\ w[k + Len(v)] = s[k]
  <2> SUFFICES ASSUME NEW k \in DOMAIN s PROVE k + Len(v) \in DOMAIN w /\ w[k + Len(v)] = s[k]
    OBVIOUS
  <2>1. k + Len(v) \in 1 .. Len(v) + Len(s) /\ ~ (k + Len(v) <= Len(v)) /\ k + Len(v) - Len(v) = k
    BY <1>1, <1>2
  <2> QED BY <1>3, <2>1
<1>6. \A i \in DOMAIN w : (i \in DOMAIN v /\ w[i] = v[i])
                           \/ (i - Len(v) \in DOMAIN s /\ w[i] = s[i - Len(v)] /\ i \in Int)
  <2> SUFFICES ASSUME NEW i \in DOMAIN w
               PROVE  (i \in DOMAIN v /\ w[i] = v[i])
                           \/ (i - Len(v) \in DOMAIN s /\ w[i] = s[i - Len(v)] /\ i \in Int)
    OBVIOUS
  <2>1. i \in 1 .. Len(v) + Len(s)
    BY <1>3
  <2>2. CASE i <= Len(v)
    BY <1>2, <1>3, <2>1, <2>2
  <2>3. CASE ~ (i <= Len(v))
    <3>1. i - Len(v) \in 1 .. Len(s)
      BY <1>1, <1>2, <2>1, <2>3
    <3> QED BY <1>1, <1>3, <2>1, <2>3, <3>1
  <2> QED BY <2>2, <2>3
<1>7. n \in Nat /\ \A b \in Buckets : b \in Nat /\ (b < n + 1 <=> b < n \/ b = n)
  BY Sizes DEF Buckets
<1>8. /\ \A i \in DOMAIN v : \E b \in Buckets : b < n /\ In(tb, b, v[i])
      /\ \A x \in old : Stored(tb, x)
      /\ \A x \in old : \A b \in Buckets : b < n /\ In(tb, b, x) => Listing(v, x)
  BY DEF Gathered
<1>9. ASSUME NEW i \in DOMAIN w PROVE \E b \in Buckets : b < n + 1 /\ In(tb, b, w[i])
  <2>1. CASE i \in DOMAIN v /\ w[i] = v[i]
    BY <1>7, <1>8, <2>1
  <2>2. CASE i - Len(v) \in DOMAIN s /\ w[i] = s[i - Len(v)]
    <3>1. In(tb, n, w[i])
      BY <1>1, <2>2 DEF In
    <3> QED BY <1>7, <3>1
  <2> QED BY <1>6, <2>1, <2>2
<1>10. ASSUME NEW x \in old, NEW b \in Buckets, b < n + 1, In(tb, b, x) PROVE Listing(w, x)
  <2>1. CASE b < n
    <3>1. PICK i \in DOMAIN v : v[i] = x
      BY <1>8, <1>10, <2>1 DEF Listing
    <3> QED BY <1>4, <3>1 DEF Listing
  <2>2. CASE b = n
    <3>1. PICK k \in DOMAIN s : s[k] = x
      BY <1>1, <1>10, <2>2 DEF In
    <3> QED BY <1>5, <3>1 DEF Listing
  <2> QED BY <1>7, <1>10, <2>1, <2>2
<1>11. ASSUME NEW i \in DOMAIN v, NEW k \in DOMAIN s, v[i].id = s[k].id PROVE FALSE
  <2>1. PICK b \in Buckets : b < n /\ In(tb, b, v[i])
    BY <1>8
  <2>2. PICK l \in DOMAIN tb[b] : tb[b][l] = v[i]
    BY <2>1 DEF In
  <2>3. b = n
    BY <1>1, <1>11, <2>2 DEF IdsOK
  <2> QED BY <1>7, <2>1, <2>3
<1>12. \A k, l \in DOMAIN s : s[k].id = s[l].id => k = l
  BY <1>1 DEF IdsOK
<1>13. ASSUME NEW i \in DOMAIN w, NEW j \in DOMAIN w, w[i].id = w[j].id PROVE i = j
  <2>1. CASE i \in DOMAIN v /\ w[i] = v[i] /\ j \in DOMAIN v /\ w[j] = v[j]
    BY <1>13, <2>1 DEF Gathered, Distinct
  <2>2. CASE /\ i - Len(v) \in DOMAIN s /\ w[i] = s[i - Len(v)] /\ i \in Int
             /\ j - Len(v) \in DOMAIN s /\ w[j] = s[j - Len(v)] /\ j \in Int
    <3>1. i - Len(v) = j - Len(v)
      BY <1>12, <1>13, <2>2
    <3> QED BY <1>2, <2>2, <3>1
  <2> QED BY <1>6, <1>11, <1>13, <2>1, <2>2
<1>14. Gathered(tb, w, n + 1, old)
  BY <1>8, <1>9, <1>10, <1>13 DEF Gathered, Distinct
<1> QED BY <1>1, <1>3, <1>14

\* The places of the snapshot
ReadOn(m, n, v) == [m EXCEPT !.i = n, !.pairs = v]
Sorted(m, v) == [m EXCEPT !.pc = "ready", !.pairs = v]
NoMapBut(l) == [NoMap EXCEPT !.pc = l]

LEMMA ReadOnFields ==
  ASSUME NEW m \in MapState, NEW n \in Nat, NEW v \in Seq(Node)
  PROVE  /\ ReadOn(m, n, v) \in MapState
         /\ ReadOn(m, n, v).pc = m.pc /\ ReadOn(m, n, v).i = n /\ ReadOn(m, n, v).pairs = v
<1>1. ReadOn(m, n, v) \in MapState
  BY DEF ReadOn, MapState
<1> QED BY <1>1, SMT DEF ReadOn, MapState

LEMMA SortedFields ==
  ASSUME NEW m \in MapState, NEW v \in Seq(Node)
  PROVE  Sorted(m, v) \in MapState /\ Sorted(m, v).pc = "ready" /\ Sorted(m, v).pairs = v
<1>1. Sorted(m, v) \in MapState
  BY DEF Sorted, MapState
<1> QED BY <1>1, SMT DEF Sorted, MapState

LEMMA NoMapFields ==
  ASSUME NEW l \in {"none", "read", "dead"}
  PROVE  /\ NoMapBut(l) \in MapState
         /\ NoMapBut(l).pc = l /\ NoMapBut(l).i = 0 /\ NoMapBut(l).pairs = <<>>
<1>1. NoMap \in MapState
  <2>1. <<>> \in Seq(Node)
    OBVIOUS
  <2> QED BY <2>1 DEF NoMap, MapState
<1>2. NoMapBut(l) \in MapState
  BY <1>1 DEF NoMapBut, MapState
<1> QED BY <1>2, SMT DEF NoMapBut, NoMap

LEMMA ReadKeepsMap == ASSUME IInv, MapInv, ReadBucket PROVE MapInv'
<1>1. PICK m \in MapState : m = map_ /\ m.pc = "read" /\ m.i \in Buckets /\ m.pairs \in Seq(Node)
  BY DEF ReadBucket, MapInv, MapState
<1>2. tab' = tab /\ before' = before
  BY DEF ReadBucket, depotVars
<1>3. PICK tb \in Tab : tb = tab
  BY DEF IInv, TypeInv
<1>4. Gathered(tb, m.pairs, m.i, before) /\ IdsOK(tb, seq)
  BY <1>1, <1>3 DEF MapInv, IInv
<1>5. PICK v \in Seq(Node) : v = m.pairs \o tb[m.i] /\ Gathered(tb, v, m.i + 1, before)
  BY <1>1, <1>4, ReadGathered
<1>6. map_' = IF m.i < kTabSize - 1 THEN [m EXCEPT !.i = m.i + 1, !.pairs = v]
                                      ELSE [m EXCEPT !.pc = "ready", !.pairs = Sort(v)]
  BY <1>1, <1>3, <1>5 DEF ReadBucket, Read
<1>7. m.i \in Nat /\ kTabSize \in Nat /\ m.i < kTabSize /\ \A b \in Buckets : b \in Nat /\ b < kTabSize
  BY <1>1, Sizes DEF Buckets
<1>8. CASE m.i < kTabSize - 1
  <2>1. m.i + 1 \in Nat /\ m.i + 1 \in Buckets
    BY <1>7, <1>8, Sizes DEF Buckets
  <2>2. PICK n \in Nat : n = m.i + 1 /\ map_' = ReadOn(m, n, v)
    BY <1>6, <1>8, <2>1 DEF ReadOn
  <2>3. map_' \in MapState /\ map_'.pc = "read" /\ map_'.i = n /\ map_'.pairs = v
    <3>1. /\ ReadOn(m, n, v) \in MapState
          /\ ReadOn(m, n, v).pc = m.pc /\ ReadOn(m, n, v).i = n /\ ReadOn(m, n, v).pairs = v
      BY ReadOnFields
    <3> QED BY <1>1, <2>2, <3>1
  <2> QED BY <1>2, <1>3, <1>5, <2>1, <2>2, <2>3 DEF MapInv
<1>9. CASE ~ (m.i < kTabSize - 1)
  <2>1. Distinct(v)
    BY <1>5 DEF Gathered
  <2>2. /\ Sort(v) \in Seq(Node) /\ Ascending(Sort(v))
        /\ \A i \in DOMAIN v : \E j \in DOMAIN Sort(v) : Sort(v)[j] = v[i]
    BY <2>1, SortIs
  <2>3. PICK w \in Seq(Node) : /\ w = Sort(v) /\ Ascending(w)
                               /\ \A i \in DOMAIN v : \E j \in DOMAIN w : w[j] = v[i]
    BY <2>2
  <2>4. map_' = Sorted(m, w)
    BY <1>6, <1>9, <2>3 DEF Sorted
  <2>5. map_' \in MapState /\ map_'.pc = "ready" /\ map_'.pairs = w
    BY <2>3, <2>4, SortedFields
  <2>6. \A x \in before : Listing(w, x)
    <3> SUFFICES ASSUME NEW x \in before PROVE Listing(w, x)
      OBVIOUS
    <3>1. PICK b \in Buckets : In(tb, b, x)
      BY <1>5 DEF Gathered, Stored
    <3>2. b < m.i + 1
      BY <1>7, <1>9
    <3>3. Listing(v, x)
      BY <1>5, <3>1, <3>2 DEF Gathered
    <3> QED BY <2>3, <3>3 DEF Listing
  <2> QED BY <1>2, <2>3, <2>5, <2>6 DEF MapInv
<1> QED BY <1>8, <1>9

LEMMA BeginKeepsMap == ASSUME IInv, MapInv, BeginMap PROVE MapInv'
<1>1. before' = NodesIn(tab) /\ tab' = tab /\ map_' = [NoMap EXCEPT !.pc = "read"]
  BY DEF BeginMap, Nodes, NodesIn, depotVars
<1>2. map_' = NoMapBut("read")
  BY <1>1 DEF NoMapBut
<1>3. map_' \in MapState /\ map_'.pc = "read" /\ map_'.i = 0 /\ map_'.pairs = <<>>
  BY <1>2, NoMapFields
<1>4. 0 \in Buckets /\ \A b \in Buckets : ~ (b < 0)
  BY Sizes DEF Buckets
<1>5. PICK tb \in Tab : tb = tab
  BY DEF IInv, TypeInv
<1>6. PICK old : old = NodesIn(tb)
  OBVIOUS
<1>7. \A x \in old : Stored(tb, x)
  <2> SUFFICES ASSUME NEW x \in old PROVE Stored(tb, x)
    OBVIOUS
  <2>1. \E b \in Buckets : \E i \in DOMAIN tb[b] : x = tb[b][i]
    BY <1>6, NodeListed
  <2> QED BY <2>1 DEF Stored, In
<1>8. Gathered(tb, <<>>, 0, old)
  BY <1>4, <1>7 DEF Gathered, Distinct
<1> QED BY <1>1, <1>3, <1>4, <1>5, <1>6, <1>8 DEF MapInv

LEMMA GetKeepsMap == ASSUME MapInv, MapGet PROVE MapInv'
<1>1. PICK l \in {"none", "dead"} : map_' = [NoMap EXCEPT !.pc = l]
  BY DEF MapGet
<1>2. map_' = NoMapBut(l)
  BY <1>1 DEF NoMapBut
<1>3. map_' \in MapState /\ map_'.pc = l
  BY <1>2, NoMapFields
<1> QED BY <1>1, <1>3 DEF MapInv

LEMMA NextKeepsMap == IInv /\ MapInv /\ [Next]_vars => MapInv'
<1> SUFFICES ASSUME IInv, MapInv, [Next]_vars PROVE MapInv'
  OBVIOUS
<1>1. CASE UNCHANGED <<tab, map_, before>>
  BY <1>1 DEF MapInv
<1>2. CASE BeginMap \/ ReadBucket \/ MapGet
  BY <1>2, BeginKeepsMap, ReadKeepsMap, GetKeepsMap
<1>3. CASE ~ (BeginMap \/ ReadBucket \/ MapGet)
  <2>1. UNCHANGED <<map_, before>>
    BY <1>3 DEF Next, vars
  <2> QED BY <1>1, <2>1, TabSteps, PublishKeepsMap
<1> QED BY <1>2, <1>3

LEMMA InitMap == Init => MapInv
<1> SUFFICES ASSUME Init PROVE MapInv
  OBVIOUS
<1>1. map_ = NoMap /\ NoMap \in MapState /\ NoMap.pc = "none"
  <2>1. <<>> \in Seq(Node)
    OBVIOUS
  <2> QED BY <2>1 DEF Init, NoMap, MapState
<1> QED BY <1>1 DEF MapInv

LEMMA MapComplete == MapInv => SnapshotComplete
<1> SUFFICES ASSUME MapInv, map_.pc = "ready"
             PROVE  /\ before \subseteq ToSet(map_.pairs)
                    /\ \A i, j \in DOMAIN map_.pairs : i < j => map_.pairs[i].id < map_.pairs[j].id
                    /\ \A n \in ToSet(map_.pairs) : ~ CheckFails(n.id) /\ Found(n.id) = n.stack
  BY DEF SnapshotComplete
<1>1. PICK v \in Seq(Node) : v = map_.pairs /\ Ascending(v) /\ \A x \in before : Listing(v, x)
  BY DEF MapInv, MapState
<1>2. before \subseteq ToSet(v)
  BY <1>1 DEF Listing, ToSet
<1>3. \A i, j \in DOMAIN v : i < j => v[i].id < v[j].id
  BY <1>1 DEF Ascending
<1>4. ASSUME NEW n \in ToSet(v) PROVE ~ CheckFails(n.id) /\ Found(n.id) = n.stack
  <2>1. PICK j \in DOMAIN v : v[j] = n
    BY <1>4 DEF ToSet
  <2>2. Position(n.id) = j - 1
    BY <1>1, <2>1, Finds DEF Position
  <2>3. Len(v) \in Nat /\ j \in 1 .. Len(v)
    BY PairsAre
  <2>4. Position(n.id) < Len(v) /\ ~ (Position(n.id) >= Len(v)) /\ Position(n.id) + 1 = j
    BY <2>2, <2>3
  <2> QED BY <1>1, <2>1, <2>4 DEF CheckFails, Found
<1> QED BY <1>1, <1>2, <1>3, <1>4

\* The snapshot holds every stack that was stored before it was begun, once, and
\* finds each one it holds, whatever is stored while it is taken
THEOREM SnapshotIsComplete == Spec => []SnapshotComplete
<1>1. Spec => []MapInv
  BY Inductive, InitMap, NextKeepsMap, PTL DEF Spec
<1> QED BY <1>1, MapComplete, PTL
=============================================================================
