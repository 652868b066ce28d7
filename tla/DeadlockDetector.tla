-------------------------- MODULE DeadlockDetector --------------------------
(***************************************************************************)
(* The lock-order detector of sanitizer_deadlock_detector1.cc on the        *)
(* DeadlockDetector and BVGraph templates: a graph with few nodes, given to *)
(* mutexes as they are locked, recycled when mutexes are destroyed, and     *)
(* flushed, under a new epoch, when there are none left; and each thread's  *)
(* record of the locks it holds, which is read and extended without the     *)
(* detector's mutex when all edges seem to be there already.                *)
(*                                                                         *)
(* The threads are those of a program that locks for writing or reading,    *)
(* tries locks, unlocks in any order, and destroys mutexes nobody uses.  It *)
(* may deadlock.  What runs under the detector's mutex is one step; the     *)
(* loads of the lock-free paths are steps of their own.                     *)
(***************************************************************************)
EXTENDS Integers, Sequences, SequencesExt, FiniteSetsExt, Functions, Relation

CONSTANTS Threads, Mutexes,
          Shared,      \* the mutexes that can be locked for reading
          Tried,       \* the mutexes that can be locked by a try
          Dying,       \* the mutexes that may be destroyed
          kSize,       \* nodes of the graph
          Limits,      \* sizes of all_locks_with_contexts_ and recursive_locks
          NoMutex,
          MaxHeld,     \* bound: locks held at a time, by all threads
          MaxEpoch     \* bound: the last epoch

ASSUME NodesAssumption == kSize \in Nat \ {0}
ASSUME LimitsAssumption == Limits \subseteq [all : Nat \ {0}, recursive : Nat]
ASSUME MutexesAssumption == Tried \cup Dying \subseteq Mutexes

VARIABLES limits,  \* the sizes of the arrays in a record, 64 and 64 in the code
          id,      \* each mutex's node: its epoch plus its index, or 0
          dd,      \* the detector: epoch, vacant and recycled nodes, edges
          dtls,    \* each thread's record: bv_, epoch_, and its recursive locks
          held,    \* what each thread really holds, in the order it took it
          op,      \* each thread's place in the detector's calls
          nested   \* history: pairs of mutexes, the first held while the second
                   \* was asked for, in their present lives and in this epoch

vars == <<limits, id, dd, dtls, held, op, nested>>

Index == 0 .. kSize - 1
NodeIndex(node) == node % kSize
NodeEpoch(node) == (node \div kSize) * kSize

AtRest == [pc |-> "idle", m |-> NoMutex, w |-> FALSE, try |-> FALSE, node |-> 0, todo |-> {}]

Init ==
  /\ limits \in Limits
  /\ id = [m \in Mutexes |-> 0]
  /\ dd = [epoch |-> 0, available |-> {}, recycled |-> {}, g |-> {}]
  /\ dtls = [t \in Threads |-> [bv |-> {}, epoch |-> 0, rec |-> <<>>]]
  /\ held = [t \in Threads |-> <<>>]
  /\ op = [t \in Threads |-> AtRest]
  /\ nested = {}

At(t, l) == op[t].pc = l
Goto(t, l) == op' = [op EXCEPT ![t] = [@ EXCEPT !.pc = l, !.node = 0, !.todo = {}]]
Return(t) == op' = [op EXCEPT ![t] = AtRest]
HeldBy(t) == {held[t][k].m : k \in DOMAIN held[t]}
AllHeld == FoldFunction(LAMBDA h, n : Len(h) + n, 0, held)
NestedIn(epoch) == IF epoch = dd.epoch THEN nested ELSE {}

-----------------------------------------------------------------------------
\* DeadlockDetector: each operator returns the new state of what it is given

\* Mutant: the edges to recycled nodes stay
RecycleNodesOnly(d) ==
  [d EXCEPT !.available = d.recycled, !.recycled = {}]

RecycleNodes(d) ==
  [d EXCEPT !.available = d.recycled, !.recycled = {},
            !.g = {e \in @ : e[2] \notin d.recycled}]

Flush(d) ==
  [d EXCEPT !.epoch = @ + kSize, !.recycled = {}, !.available = Index, !.g = {}]

WithNodes(d) ==
  IF d.available # {} THEN d ELSE IF d.recycled # {} THEN RecycleNodes(d) ELSE Flush(d)

NodeBelongsToCurrentEpoch(node) == node # 0 /\ NodeEpoch(node) = dd.epoch

\* MutexEnsureID: a new node for the mutex, unless its node is of this epoch
EnsureDD(m) ==
  LET d == WithNodes(dd)
      i == Min(d.available)
  IN  IF NodeBelongsToCurrentEpoch(id[m]) THEN dd
      ELSE [d EXCEPT !.available = @ \ {i}]
EnsureNode(m) ==
  IF NodeBelongsToCurrentEpoch(id[m]) THEN id[m]
  ELSE EnsureDD(m).epoch + Min(WithNodes(dd).available)

\* Mutant: the thread keeps its record across a flush
KeepEpoch(r, epoch) == [r EXCEPT !.epoch = epoch]

EnsureCurrentEpoch(r, epoch) ==
  IF r.epoch = epoch THEN r ELSE [bv |-> {}, epoch |-> epoch, rec |-> <<>>]

AddLock(r, i) ==
  IF i \in r.bv THEN [r EXCEPT !.rec = Append(@, i)] ELSE [r EXCEPT !.bv = @ \cup {i}]

\* The CHECKs of addLock: there is room left in the array the lock goes to.
\* n_all_locks_ is the number of bits in bv_
Fits(r, i) ==
  IF i \in r.bv THEN Len(r.rec) < limits.recursive ELSE Cardinality(r.bv) < limits.all

RemoveLock(r, i) ==
  IF \E k \in DOMAIN r.rec : r.rec[k] = i
    THEN [r EXCEPT !.rec = RemoveFirst(@, i)]
    ELSE [r EXCEPT !.bv = @ \ {i}]

AddEdges(d, r, i) == [d EXCEPT !.g = @ \cup (r.bv \X {i})]

\* Whether a path of no or more edges leads from i to a held lock
Reachable(g, i, targets) ==
  LET R == [e \in Index \X Index |-> e \in g]
  IN  i \in targets \/ \E j \in targets : TransitiveClosure(R, Index)[i, j]

-----------------------------------------------------------------------------
\* What the program may ask for: a write lock it does not hold, or a read lock
\* on what it does not hold for writing
MayAsk(t, m, w) ==
  /\ w \/ m \in Shared
  /\ \A k \in DOMAIN held[t] : held[t][k].m = m => ~ w /\ ~ held[t][k].w

MayTake(t, m, w) ==
  \A u \in Threads \ {t} : \A k \in DOMAIN held[u] :
    held[u][k].m = m => ~ w /\ ~ held[u][k].w

\* The start of hasAllEdges for m: whether the epochs agree, and the held locks
\* whose edges are to be read
EpochsAgree(t, m) == /\ id[m] # 0
                     /\ dtls[t].epoch = dd.epoch /\ dtls[t].epoch = NodeEpoch(id[m])
ReadEpochs(t, o, edges, slow) ==
  op' = [op EXCEPT ![t] = IF EpochsAgree(t, o.m)
           THEN [o EXCEPT !.pc = edges, !.node = id[o.m], !.todo = dtls[t].bv]
           ELSE [o EXCEPT !.pc = slow]]

\* MutexBeforeLock: nothing to do for a first lock; else hasAllEdges
BeforeLock(t) ==
  /\ At(t, "idle") /\ AllHeld < MaxHeld
  /\ \E m \in Mutexes, w \in BOOLEAN :
       LET o == [AtRest EXCEPT !.m = m, !.w = w]
       IN  /\ MayAsk(t, m, w)
           /\ IF dtls[t].bv = {} THEN op' = [op EXCEPT ![t] = [o EXCEPT !.pc = "acquire"]]
              ELSE ReadEpochs(t, o, "beforeEdges", "beforeSlow")
           /\ nested' = nested \cup (HeldBy(t) \X {m})
  /\ UNCHANGED <<id, dd, dtls, held>>

\* The rest of hasAllEdges: the edges from the held locks one by one, in a graph
\* that may be changing
NextEdge(t) == Min(op[t].todo)

\* Mutant: the epochs are enough
EpochsEnough(t) == TRUE

EdgesRead(t) == op[t].todo = {}

ReadEdge(t) ==
  /\ op[t].pc \in {"beforeEdges", "afterEdges"}
  /\ ~ EdgesRead(t)
  /\ IF <<NextEdge(t), NodeIndex(op[t].node)>> \in dd.g
       THEN op' = [op EXCEPT ![t].todo = @ \ {NextEdge(t)}]
       ELSE Goto(t, IF At(t, "beforeEdges") THEN "beforeSlow" ELSE "afterSlow")
  /\ UNCHANGED <<id, dd, dtls, held, nested>>

BeforeLockFast(t) ==
  /\ At(t, "beforeEdges") /\ EdgesRead(t)
  /\ Goto(t, "acquire")
  /\ UNCHANGED <<id, dd, dtls, held, nested>>

\* Under the detector's mutex: a cycle is reported, and then its edges added
BeforeLockSlow(t) ==
  LET m == op[t].m
      d == EnsureDD(m)
      i == NodeIndex(EnsureNode(m))
      r == EnsureCurrentEpoch(dtls[t], d.epoch)
  IN  /\ At(t, "beforeSlow")
      /\ d.epoch <= MaxEpoch
      /\ id' = [id EXCEPT ![m] = EnsureNode(m)]
      /\ dtls' = [dtls EXCEPT ![t] = r]
      /\ dd' = IF i \notin r.bv /\ Reachable(d.g, i, r.bv) THEN AddEdges(d, r, i) ELSE d
      /\ nested' = NestedIn(d.epoch)
      /\ Goto(t, "acquire")
      /\ UNCHANGED held

\* MutexAfterLock starts with onFirstLock only if the thread's record is empty
AfterLock(t) == IF dtls[t].bv = {} THEN "first" ELSE "after"

Acquire(t) ==
  /\ At(t, "acquire")
  /\ MayTake(t, op[t].m, op[t].w)
  /\ held' = [held EXCEPT ![t] = Append(@, [m |-> op[t].m, w |-> op[t].w, try |-> FALSE])]
  /\ Goto(t, AfterLock(t))
  /\ UNCHANGED <<id, dd, dtls, nested>>

TryLock(t) ==
  /\ At(t, "idle") /\ AllHeld < MaxHeld
  /\ \E m \in Tried, w \in BOOLEAN :
       /\ MayAsk(t, m, w) /\ MayTake(t, m, w)
       /\ held' = [held EXCEPT ![t] = Append(@, [m |-> m, w |-> w, try |-> held[t] # <<>>])]
       /\ op' = [op EXCEPT ![t] = [AtRest EXCEPT !.m = m, !.w = w, !.try = TRUE, !.pc = AfterLock(t)]]
  /\ UNCHANGED <<id, dd, dtls, nested>>

\* The end of MutexAfterLock: addLock, in which the process may die
RecordLock(t, r, i) ==
  IF Fits(r, i) THEN dtls' = [dtls EXCEPT ![t] = AddLock(r, i)] /\ Return(t)
  ELSE Goto(t, "full") /\ UNCHANGED dtls

\* onFirstLock, without the detector's mutex ...
FirstLock(t) ==
  LET r == dtls[t]
      node == id[op[t].m]
  IN  /\ At(t, "first")
      /\ IF r.epoch # 0 /\ r.epoch = NodeEpoch(node)
           THEN RecordLock(t, r, NodeIndex(node))
           ELSE Goto(t, "after") /\ UNCHANGED dtls
      /\ UNCHANGED <<id, dd, held, nested>>

\* ... onLockFast, again hasAllEdges and then the thread's record ...
AfterReadEpochs(t) ==
  /\ At(t, "after")
  /\ ReadEpochs(t, op[t], "afterEdges", "afterSlow")
  /\ UNCHANGED <<id, dd, dtls, held, nested>>

AfterLockFast(t) ==
  /\ At(t, "afterEdges") /\ EdgesRead(t)
  /\ RecordLock(t, dtls[t], NodeIndex(op[t].node))
  /\ UNCHANGED <<id, dd, held, nested>>

\* ... and any other lock under the mutex
AfterLockSlow(t) ==
  LET m == op[t].m
      d == EnsureDD(m)
      i == NodeIndex(EnsureNode(m))
      r == EnsureCurrentEpoch(dtls[t], d.epoch)
  IN  /\ At(t, "afterSlow")
      /\ d.epoch <= MaxEpoch
      /\ id' = [id EXCEPT ![m] = EnsureNode(m)]
      /\ dd' = IF op[t].try THEN d ELSE AddEdges(d, r, i)
      /\ IF op[t].w /\ i \in r.bv THEN Goto(t, "dead") /\ UNCHANGED dtls
         ELSE RecordLock(t, r, i)
      /\ nested' = NestedIn(d.epoch)
      /\ UNCHANGED held

OnUnlock(r, node) ==
  IF r.epoch = NodeEpoch(node) THEN RemoveLock(r, NodeIndex(node)) ELSE r

\* MutexBeforeUnlock and the unlock
Unlock(t) ==
  /\ At(t, "idle")
  /\ \E k \in DOMAIN held[t] :
       /\ dtls' = [dtls EXCEPT ![t] = OnUnlock(@, id[held[t][k].m])]
       /\ held' = [held EXCEPT ![t] = RemoveAt(@, k)]
  /\ UNCHANGED <<id, dd, op, nested>>

RemoveNode(d, i) ==
  [d EXCEPT !.recycled = @ \cup {i}, !.g = {e \in @ : e[1] # i}]

\* A mutex nobody holds or asks for is destroyed, and may be made anew
MutexDestroy(m) ==
  LET i == NodeIndex(id[m])
  IN  /\ id[m] # 0
      /\ \A t \in Threads : m \notin HeldBy(t) /\ op[t].m # m
      /\ dd' = IF NodeBelongsToCurrentEpoch(id[m]) THEN RemoveNode(dd, i) ELSE dd
      /\ id' = [id EXCEPT ![m] = 0]
      /\ nested' = {p \in nested : m \notin {p[1], p[2]}}
      /\ UNCHANGED <<dtls, held, op>>

\* A CHECK that fails ends the process
Alive == \A t \in Threads : ~ At(t, "dead") /\ ~ At(t, "full")

Next ==
  /\ Alive
  /\ \/ \E t \in Threads :
          \/ BeforeLock(t) \/ ReadEdge(t)
          \/ BeforeLockFast(t) \/ BeforeLockSlow(t)
          \/ Acquire(t) \/ TryLock(t)
          \/ FirstLock(t) \/ AfterReadEpochs(t) \/ AfterLockFast(t) \/ AfterLockSlow(t)
          \/ Unlock(t)
     \/ \E m \in Dying : MutexDestroy(m)
  /\ UNCHANGED limits

Spec == Init /\ [][Next]_vars

-----------------------------------------------------------------------------
Live == Index \ (dd.available \cup dd.recycled)

\* The mutexes a node of the present epoch belongs to: data_ of a node in use
OwnersOf(i) == {m \in Mutexes : id[m] = dd.epoch + i}

\* The thread holds more than a record has room for: more mutexes than
\* all_locks_with_contexts_, or more locks besides the first of each mutex than
\* recursive_locks
HoldsTooMany(t) ==
  \/ Cardinality(HeldBy(t)) > limits.all
  \/ Len(held[t]) - Cardinality(HeldBy(t)) > limits.recursive

\* No CHECK fails but for the limits of a record, and those only if the thread
\* really holds too many locks: nothing a flush or an unlock leaves behind uses
\* the room up.  A write lock that was just taken is not recorded as held already,
\* a node that is removed is in use, and no two mutexes have the same node
NoCheckFails ==
  /\ \A t \in Threads : ~ At(t, "dead") /\ (At(t, "full") => HoldsTooMany(t))
  /\ \A m \in Mutexes : NodeBelongsToCurrentEpoch(id[m]) =>
       NodeIndex(id[m]) \in Live /\ OwnersOf(NodeIndex(id[m])) = {m}

\* No edge is invented, so no cycle is reported that the program's locks do not
\* make: an edge between nodes in use stands for two mutexes of which some
\* thread held the first while it asked for the second, since both were made
\* and since the last flush
EdgesReal ==
  \A e \in dd.g : e[1] \in Live /\ e[2] \in Live =>
    OwnersOf(e[1]) \X OwnersOf(e[2]) \subseteq nested

\* No edge is missed by the fast path: of two mutexes a thread records as held
\* in the present epoch, one taken before the other, and not again since, and the
\* other by a lock that waits, the graph has the edge.  (Taken again: a lock for
\* reading that was forgotten in a flush is in the record from its second time on)
EdgesComplete ==
  \A t \in Threads : At(t, "idle") /\ dtls[t].epoch = dd.epoch =>
    \A p, q \in DOMAIN held[t] :
      LET node(k) == id[held[t][k].m]
          recorded(k) == /\ NodeBelongsToCurrentEpoch(node(k))
                         /\ NodeIndex(node(k)) \in dtls[t].bv
      IN  /\ p < q /\ ~ held[t][q].try
          /\ \A k \in DOMAIN held[t] : q <= k => held[t][k].m # held[t][p].m
          /\ recorded(p) /\ recorded(q)
          => <<NodeIndex(node(p)), NodeIndex(node(q))>> \in dd.g
=============================================================================
