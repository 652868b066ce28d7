----------------------------- MODULE StackDepot -----------------------------
(***************************************************************************)
(* StackDepotBase of sanitizer_stackdepotbase.h, as sanitizer_stackdepot.cc *)
(* uses it, on the PersistentAllocator that holds its nodes: a hash table   *)
(* of linked lists that only grow at their heads.  Put searches the list    *)
(* without a lock and inserts under the bucket's lock, the low bit of the   *)
(* head pointer; Get never locks; LockAll and UnlockAll stand around a fork *)
(* (msan_interceptors.cc, hwasan_interceptors.cc).                          *)
(*                                                                         *)
(* A stack is an element of Stacks; a list is the sequence of its nodes,    *)
(* newest first.  An identifier is part * kMaxId + n, n from the part's seq.*)
(***************************************************************************)
EXTENDS PersistentAllocator, SequencesExt

CONSTANTS Stacks, NoStack,
          Hash,          \* the bucket of each stack: hash % kTabSize
          StorageSize,   \* bytes of each stack's node
          kTabSize, kPartSize, kMaxId,
          Forkers,       \* the threads that fork
          MaxForks       \* bound: forks in a behaviour

ASSUME DepotAssumption ==
  /\ kTabSize \in Nat \ {0} /\ kPartSize \in Nat \ {0} /\ kMaxId \in Nat \ {0}
  /\ kTabSize % kPartSize = 0
  /\ Hash \in [Stacks -> 0 .. kTabSize - 1] /\ StorageSize \in [Stacks -> Nat]

VARIABLES tab,     \* each bucket's list
          lockBit, \* the low bit of each bucket's head
          seq,     \* identifiers given by each part
          op,      \* each thread's place in Put, Get or around fork
          forks    \* forks so far

depotVars == <<allocVars, tab, lockBit, seq, op, forks>>

Buckets == 0 .. kTabSize - 1
NoId == 0
NotCalling == [pc |-> "idle", arg |-> NoId, seen |-> 0, id |-> NoId, i |-> 0]

At(t, l) == op[t].pc = l
Goto(t, l) == op' = [op EXCEPT ![t].pc = l]
Answer(t, ans) == op' = [op EXCEPT ![t] = [NotCalling EXCEPT !.pc = "answered", !.arg = ans]]
KeepAlloc == UNCHANGED allocVars

DepotInit ==
  /\ AllocInit
  /\ tab = [b \in Buckets |-> <<>>]
  /\ lockBit = [b \in Buckets |-> FALSE]
  /\ seq = [p \in 0 .. kTabSize \div kPartSize - 1 |-> 0]
  /\ op = [t \in Threads |-> NotCalling]
  /\ forks = 0

\* find: the node of a stack in a list
Matching(list, s) == {i \in DOMAIN list : list[i].stack = s}

-----------------------------------------------------------------------------
CallPut(t) ==
  /\ At(t, "idle")
  /\ \/ \E s \in Stacks : op' = [op EXCEPT ![t] = [NotCalling EXCEPT !.pc = "find", !.arg = s]]
     \/ Answer(t, NoId)     \* a stack that is not valid
  /\ KeepAlloc /\ UNCHANGED <<tab, lockBit, seq, forks>>

Bucket(t) == Hash[op[t].arg]

\* The search without the lock; the head it started from is remembered
Find(t) ==
  LET list == tab[Bucket(t)]
      hits == Matching(list, op[t].arg)
  IN  /\ At(t, "find")
      /\ IF hits # {}
           THEN \E i \in hits : Answer(t, list[i].id)
           ELSE op' = [op EXCEPT ![t].pc = "lock", ![t].seen = Len(list)]
      /\ KeepAlloc /\ UNCHANGED <<tab, lockBit, seq, forks>>

\* Mutant: what came in between the search and the lock is not looked at
LockUnchecked(t) ==
  /\ At(t, "lock")
  /\ ~ lockBit[Bucket(t)]
  /\ lockBit' = [lockBit EXCEPT ![Bucket(t)] = TRUE]
  /\ Goto(t, "insert")
  /\ KeepAlloc /\ UNCHANGED <<tab, seq, forks>>

\* The lock; a list with another head is searched again
Lock(t) ==
  LET b == Bucket(t)
      hits == IF Len(tab[b]) # op[t].seen THEN Matching(tab[b], op[t].arg) ELSE {}
  IN  /\ At(t, "lock")
      /\ ~ lockBit[b]
      /\ lockBit' = [lockBit EXCEPT ![b] = TRUE]
      /\ IF hits # {}
           THEN \E i \in hits : op' = [op EXCEPT ![t].pc = "found", ![t].id = tab[b][i].id]
           ELSE Goto(t, "insert")
      /\ KeepAlloc /\ UNCHANGED <<tab, seq, forks>>

UnlockFound(t) ==
  /\ At(t, "found")
  /\ lockBit' = [lockBit EXCEPT ![Bucket(t)] = FALSE]
  /\ Answer(t, op[t].id)
  /\ KeepAlloc /\ UNCHANGED <<tab, seq, forks>>

\* The identifier, then the node's memory ...
NewId(t) ==
  LET part == Bucket(t) \div kPartSize
      n == seq[part] + 1
  IN  /\ At(t, "insert")
      /\ seq' = [seq EXCEPT ![part] = n]
      /\ IF n < kMaxId
           THEN /\ op' = [op EXCEPT ![t].pc = "alloc", ![t].id = part * kMaxId + n]
                /\ StartAlloc(t, StorageSize[op[t].arg])
           ELSE Goto(t, "dead") /\ UNCHANGED alloc       \* CHECK_LT(id, kMaxId)
      /\ KeepRegion /\ UNCHANGED <<mtx, blocks, tab, lockBit, forks>>

Allocate(t) ==
  /\ At(t, "alloc")
  /\ AllocStep(t)
  /\ UNCHANGED <<tab, lockBit, seq, op, forks>>

\* ... and the store of the new head, which is also the unlock
Publish(t) ==
  LET node == [id |-> op[t].id, stack |-> op[t].arg]
  IN  /\ At(t, "alloc") /\ AllocAt(t, "done")
      /\ tab' = [tab EXCEPT ![Bucket(t)] = <<node>> \o @]
      /\ lockBit' = [lockBit EXCEPT ![Bucket(t)] = FALSE]
      /\ alloc' = [alloc EXCEPT ![t] = NotAllocating]
      /\ Answer(t, op[t].id)
      /\ KeepRegion /\ UNCHANGED <<mtx, blocks, seq, forks>>

-----------------------------------------------------------------------------
Nodes == UNION {ToSet(tab[b]) : b \in Buckets}

\* Get of an identifier that Put has given, or of none, bucket after bucket of
\* the identifier's part
CallGet(t) ==
  /\ At(t, "idle")
  /\ \/ \E n \in Nodes : op' = [op EXCEPT ![t] = [NotCalling EXCEPT !.pc = "get", !.arg = n.id]]
     \/ Answer(t, NoStack)
  /\ KeepAlloc /\ UNCHANGED <<tab, lockBit, seq, forks>>

Get(t) ==
  LET list == tab[(op[t].arg \div kMaxId) * kPartSize + op[t].i]
      hits == {i \in DOMAIN list : list[i].id = op[t].arg}
  IN  /\ At(t, "get")
      /\ IF hits # {} THEN \E i \in hits : Answer(t, list[i].stack)
         ELSE IF op[t].i + 1 = kPartSize THEN Answer(t, NoStack)
         ELSE op' = [op EXCEPT ![t].i = @ + 1]
      /\ KeepAlloc /\ UNCHANGED <<tab, lockBit, seq, forks>>

-----------------------------------------------------------------------------
CallFork(t) ==
  /\ At(t, "idle") /\ t \in Forkers /\ forks < MaxForks
  /\ forks' = forks + 1
  /\ Goto(t, "lockall")
  /\ KeepAlloc /\ UNCHANGED <<tab, lockBit, seq>>

\* Mutant: the first bucket is left out
LockRest(t) ==
  LET i == op[t].i + 1
  IN  /\ At(t, "lockall") /\ ~ lockBit[i]
      /\ lockBit' = [lockBit EXCEPT ![i] = TRUE]
      /\ IF i = kTabSize - 1 THEN op' = [op EXCEPT ![t] = [NotCalling EXCEPT !.pc = "fork"]]
                             ELSE op' = [op EXCEPT ![t].i = i]
      /\ KeepAlloc /\ UNCHANGED <<tab, seq, forks>>

LockAll(t) ==
  LET i == op[t].i
  IN  /\ At(t, "lockall") /\ ~ lockBit[i]
      /\ lockBit' = [lockBit EXCEPT ![i] = TRUE]
      /\ IF i = kTabSize - 1 THEN op' = [op EXCEPT ![t] = [NotCalling EXCEPT !.pc = "fork"]]
                             ELSE op' = [op EXCEPT ![t].i = i + 1]
      /\ KeepAlloc /\ UNCHANGED <<tab, seq, forks>>

\* The behaviour follows the parent, or the child, where no other thread is left
ForkParent(t) ==
  /\ At(t, "fork")
  /\ Goto(t, "unlockall")
  /\ KeepAlloc /\ UNCHANGED <<tab, lockBit, seq, forks>>

ForkChild(t) ==
  /\ At(t, "fork")
  /\ op' = [u \in Threads |-> [NotCalling EXCEPT !.pc = IF u = t THEN "unlockall" ELSE "gone"]]
  /\ KeepAlloc /\ UNCHANGED <<tab, lockBit, seq, forks>>

UnlockAll(t) ==
  LET i == op[t].i
  IN  /\ At(t, "unlockall")
      /\ lockBit' = [lockBit EXCEPT ![i] = FALSE]
      /\ IF i = kTabSize - 1 THEN Answer(t, NoId) ELSE op' = [op EXCEPT ![t].i = i + 1]
      /\ KeepAlloc /\ UNCHANGED <<tab, seq, forks>>

Return(t) ==
  /\ At(t, "answered")
  /\ op' = [op EXCEPT ![t] = NotCalling]
  /\ KeepAlloc /\ UNCHANGED <<tab, lockBit, seq, forks>>

\* The steps a thread takes once it has called
Run(t) ==
  \/ Find(t) \/ Lock(t) \/ UnlockFound(t) \/ NewId(t) \/ Allocate(t) \/ Publish(t)
  \/ Get(t)
  \/ LockAll(t) \/ ForkParent(t) \/ UnlockAll(t)
  \/ Return(t)

=============================================================================
