------------------------ MODULE StackDepotReverseMap ------------------------
(***************************************************************************)
(* StackDepotReverseMap of sanitizer_stackdepot.cc: a snapshot of the       *)
(* depot, taken bucket by bucket without a lock while threads put stacks,   *)
(* sorted by identifier and searched by halving.  One thread that is not    *)
(* one of Threads takes it, as the leak checker does.                       *)
(***************************************************************************)
EXTENDS StackDepot

CONSTANTS Newer,     \* whether identifiers given after the snapshot are looked up
          MapNodes   \* bound: a snapshot is begun before any fork and before
                     \* the depot holds more nodes than this

VARIABLES map_,   \* the snapshot: its place, the next bucket, the pairs
          before  \* the nodes that were in the depot when it was begun

vars == <<depotVars, map_, before>>

NoMap == [pc |-> "none", i |-> 0, pairs |-> <<>>]

Init == DepotInit /\ map_ = NoMap /\ before = {}

BeginMap ==
  /\ map_.pc = "none" /\ forks = 0 /\ Cardinality(Nodes) <= MapNodes
  /\ map_' = [NoMap EXCEPT !.pc = "read"]
  /\ before' = Nodes
  /\ UNCHANGED depotVars

IdComparator(a, b) == a.id < b.id

\* Sort: the same pairs, none in front of a smaller one
Sort(pairs) ==
  LET from == CHOOSE p \in Bijection(DOMAIN pairs, DOMAIN pairs) :
                \A i, j \in DOMAIN pairs : i < j => ~ IdComparator(pairs[p[j]], pairs[p[i]])
  IN  [i \in DOMAIN pairs |-> pairs[from[i]]]

\* A bucket's list is followed as it is read; the last one is followed by the sort
Read(pairs) ==
  LET i == map_.i
  IN  map_' = IF i < kTabSize - 1
                THEN [map_ EXCEPT !.i = i + 1, !.pairs = pairs]
                ELSE [map_ EXCEPT !.pc = "ready", !.pairs = Sort(pairs)]

\* Mutant: a bucket that is locked is left out
ReadUnlockedBucket ==
  /\ map_.pc = "read"
  /\ Read(IF lockBit[map_.i] THEN map_.pairs ELSE map_.pairs \o tab[map_.i])
  /\ UNCHANGED <<depotVars, before>>

ReadBucket ==
  /\ map_.pc = "read"
  /\ Read(map_.pairs \o tab[map_.i])
  /\ UNCHANGED <<depotVars, before>>

\* The first position, from 0, whose element is not below val
InternalLowerBound(v, val) ==
  LET bound[r \in (0 .. Len(v)) \X (0 .. Len(v))] ==
        LET first == r[1]
            last == r[2]
            mid == (first + last) \div 2
        IN  IF last > first
              THEN bound[IF v[mid + 1].id < val THEN <<mid + 1, last>> ELSE <<first, mid>>]
              ELSE first
  IN  bound[<<0, Len(v)>>]

\* Get: a position past the end is let through to the vector's own CHECK
Position(id) == InternalLowerBound(map_.pairs, id)
CheckFails(id) == map_.pairs # <<>> /\ Position(id) >= Len(map_.pairs)
Found(id) ==
  IF Position(id) < Len(map_.pairs) /\ map_.pairs[Position(id) + 1].id = id
    THEN map_.pairs[Position(id) + 1].stack ELSE NoStack

MapGet ==
  /\ map_.pc = "ready"
  /\ \E n \in Nodes :
       /\ Newer \/ \E m \in ToSet(map_.pairs) : n.id <= m.id
       /\ map_' = [NoMap EXCEPT !.pc = IF CheckFails(n.id) THEN "dead" ELSE "none"]
  /\ before' = {}
  /\ UNCHANGED depotVars

\* Bound: while a snapshot is taken nobody forks and only the threads that may
\* do so call the depot; the snapshot reads nothing but the lists, and one
\* thread brings these to every state that several do
MayCall(t) ==
  \/ map_.pc = "none" /\ CallFork(t)
  \/ (map_.pc = "none" \/ t \in Forkers) /\ (CallPut(t) \/ CallGet(t))

Next ==
  \/ \E t \in Threads : (MayCall(t) \/ Run(t) \/ ForkChild(t)) /\ UNCHANGED <<map_, before>>
  \/ BeginMap \/ ReadBucket \/ MapGet

Spec == Init /\ [][Next]_vars

\* A thread that can go on does: what it called returns
FairSpec == Spec /\ \A t \in Threads : WF_vars(Run(t) /\ UNCHANGED <<map_, before>>)

-----------------------------------------------------------------------------
\* The abstract state: what each thread asked and has not been told yet
Calls(t) ==
  LET o == op[t]
  IN  CASE o.pc \in {"find", "lock", "found", "insert", "alloc", "dead"} ->
              [op |-> "put", arg |-> o.arg]
        [] o.pc = "get" -> [op |-> "get", arg |-> o.arg]
        [] o.pc = "lockall" -> [op |-> "fork", arg |-> NoId]
        [] o.pc = "fork" -> [op |-> "forking", arg |-> NoId]
        [] o.pc = "unlockall" -> [op |-> "forked", arg |-> NoId]
        [] o.pc = "answered" -> [op |-> "answered", ans |-> o.arg]
        [] OTHER -> [op |-> o.pc]

Asked == [t \in Threads |-> Calls(t)]
IdOf == [s \in {n.stack : n \in Nodes} |-> (CHOOSE n \in Nodes : n.stack = s).id]

Promise == INSTANCE Depot WITH
  Ids <- 1 .. kTabSize * kMaxId, ids <- IdOf, call <- Asked

\* The depot does what Depot promises: one identifier for each stack however
\* the Puts of several threads interleave, each identifier leading back to its
\* stack, and no insertion while a fork holds all the buckets
ImplementsDepot == Promise!Spec

\* Whatever a thread calls returns, in the parent and in the child of a fork
CallsReturn == \A t \in Threads : ~ At(t, "idle") ~> (At(t, "idle") \/ At(t, "gone"))

\* The snapshot holds every stack that was stored before it was begun, once,
\* and looking one up finds it
SnapshotComplete ==
  map_.pc = "ready" =>
    /\ before \subseteq ToSet(map_.pairs)
    /\ \A i, j \in DOMAIN map_.pairs : i < j => map_.pairs[i].id < map_.pairs[j].id
    /\ \A n \in ToSet(map_.pairs) : ~ CheckFails(n.id) /\ Found(n.id) = n.stack

\* You can use it concurrently with the depot: looking up an identifier, known
\* to the snapshot or not, never fails a CHECK
LookupsSafe == map_.pc # "dead"
=============================================================================
