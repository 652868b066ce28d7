----------------------------- MODULE Quarantine -----------------------------
(***************************************************************************)
(* Quarantine of sanitizer_quarantine.h: freed chunks wait in batches, first *)
(* in a cache of the thread that freed them, then in the global cache_; a    *)
(* thread that finds the global one too large takes the oldest batches out   *)
(* and gives their chunks back.  cache_mutex_ guards the global cache, but   *)
(* its size is also read without it; recycle_mutex_ lets one thread at a     *)
(* time take batches out.                                                    *)
(*                                                                         *)
(* A chunk is one allocation, numbered in the order of the Puts, so that the *)
(* memory of a chunk that was given back is another chunk the next time.     *)
(***************************************************************************)
EXTENDS Integers, Sequences, SequencesExt

CONSTANTS Threads,
          Sizes,      \* sizes of chunks
          Limits,     \* pairs of max_size_ and max_cache_size_ given to Init
          kSize,      \* chunks a batch can hold
          Overhead,   \* sizeof(QuarantineBatch)
          Free,       \* a mutex nobody holds
          MaxPuts     \* bound: chunks freed in a behaviour

\* Sizes are unsigned, a batch is not empty memory and can hold a chunk; the
\* limits pass the CHECK of Init
ASSUME QuarantineAssumption ==
  /\ Sizes \subseteq Nat /\ kSize \in Nat \ {0} /\ Overhead \in Nat \ {0}
  /\ Limits \subseteq [size : Nat, cache : Nat]
  /\ \A l \in Limits : (l.size = 0 /\ l.cache = 0) \/ l.cache # 0

VARIABLES limits,
          cache_mutex_, recycle_mutex_,
          global,     \* cache_: its list_ of batches and its size_
          local,      \* each thread's cache
          th,         \* each thread's place in Put, Drain and Recycle, and its tmp
          puts,       \* chunks freed so far
          recycled    \* chunks given back

vars == <<limits, cache_mutex_, recycle_mutex_, global, local, th, puts, recycled>>

EmptyCache == [list |-> <<>>, size |-> 0]
AtRest == [pc |-> "idle", purge |-> FALSE, tmp |-> <<>>, due |-> {}]

Init ==
  /\ limits \in Limits
  /\ cache_mutex_ = Free /\ recycle_mutex_ = Free
  /\ global = EmptyCache
  /\ local = [t \in Threads |-> EmptyCache]
  /\ th = [t \in Threads |-> AtRest]
  /\ puts = 0
  /\ recycled = {}

At(t, l) == th[t].pc = l
Goto(t, l) == th' = [th EXCEPT ![t].pc = l]

ChunksOf(list) == FlattenSeq([i \in DOMAIN list |-> list[i].chunks])
min_size == (limits.size \div 10) * 9

-----------------------------------------------------------------------------
\* QuarantineCache
NewBatch(c) == [chunks |-> <<c>>, size |-> c.size + Overhead]
PushBack(b, c) == [chunks |-> Append(b.chunks, c), size |-> b.size + c.size]

Enqueue(q, c) ==
  IF q.list = <<>> \/ Len(Last(q.list).chunks) = kSize
    THEN [list |-> Append(q.list, NewBatch(c)), size |-> q.size + NewBatch(c).size]
    ELSE [list |-> Front(q.list) \o <<PushBack(Last(q.list), c)>>, size |-> q.size + c.size]

\* Merge(b, from): the chunks of from move to b; the emptied one is freed
Merge(b, from) == [chunks |-> b.chunks \o from.chunks, size |-> b.size + from.size - Overhead]
CanMerge(b, from) == Len(b.chunks) + Len(from.chunks) <= kSize

\* Each batch in turn takes in its successors while they fit
MergeNext(done, b) ==
  IF done # <<>> /\ CanMerge(Last(done), b)
    THEN Front(done) \o <<Merge(Last(done), b)>> ELSE Append(done, b)

Merged(list) ==
  LET upTo[n \in 0 .. Len(list)] == IF n = 0 THEN <<>> ELSE MergeNext(upTo[n - 1], list[n])
  IN  upTo[Len(list)]

\* Mutant: the batches that were emptied stay counted
MergeUncounted(q) == [list |-> Merged(q.list), size |-> q.size]

MergeBatches(q) ==
  [list |-> Merged(q.list), size |-> q.size - Overhead * (Len(q.list) - Len(Merged(q.list)))]

OverheadSize(q) == Len(q.list) * Overhead

\* Mutant: the cache that was transferred keeps its list
TransferCopy(t) ==
  /\ global' = [list |-> global.list \o local[t].list, size |-> global.size + local[t].size]
  /\ local' = [local EXCEPT ![t].size = 0]

Transfer(t) ==
  /\ global' = [list |-> global.list \o local[t].list, size |-> global.size + local[t].size]
  /\ local' = [local EXCEPT ![t] = EmptyCache]

\* Mutant: the newest batch is taken
DequeueLast(q) == [batch |-> Last(q.list),
                   rest |-> [list |-> Front(q.list), size |-> q.size - Last(q.list).size]]

DequeueBatch(q) == [batch |-> Head(q.list),
                    rest |-> [list |-> Tail(q.list), size |-> q.size - Head(q.list).size]]

-----------------------------------------------------------------------------
Put(t) ==
  /\ At(t, "idle") /\ puts < MaxPuts
  /\ puts' = puts + 1
  /\ \E size \in Sizes :
       LET chunk == [n |-> puts + 1, by |-> t, size |-> size]
           q == Enqueue(local[t], chunk)
       IN  IF limits.cache # 0
             THEN /\ local' = [local EXCEPT ![t] = q]
                  /\ Goto(t, IF q.size > limits.cache THEN "drain" ELSE "idle")
                  /\ UNCHANGED recycled
             ELSE recycled' = recycled \cup {chunk} /\ UNCHANGED <<local, th>>
  /\ UNCHANGED <<limits, cache_mutex_, recycle_mutex_, global>>

\* DrainAndRecycle: a purge; due is what it finds of the caller's and the others'
CallDrainAndRecycle(t) ==
  /\ At(t, "idle")
  /\ th' = [th EXCEPT ![t].pc = "drain", ![t].purge = TRUE,
                      ![t].due = ToSet(ChunksOf(global.list \o local[t].list))]
  /\ UNCHANGED <<limits, cache_mutex_, recycle_mutex_, global, local, puts, recycled>>

\* Under cache_mutex_ from beginning to end
Drain(t) ==
  /\ At(t, "drain")
  /\ cache_mutex_ = Free
  /\ Transfer(t)
  /\ Goto(t, IF th[t].purge THEN "lock" ELSE "size")
  /\ UNCHANGED <<limits, cache_mutex_, recycle_mutex_, puts, recycled>>

\* The size is looked at without a lock, while others may be changing it
CheckSize(t) ==
  /\ At(t, "size")
  /\ Goto(t, IF global.size > limits.size THEN "try" ELSE "idle")
  /\ UNCHANGED <<limits, cache_mutex_, recycle_mutex_, global, local, puts, recycled>>

TryLock(t) ==
  /\ At(t, "try")
  /\ IF recycle_mutex_ = Free
       THEN recycle_mutex_' = t /\ Goto(t, "recycle")
       ELSE Goto(t, "idle") /\ UNCHANGED recycle_mutex_
  /\ UNCHANGED <<limits, cache_mutex_, global, local, puts, recycled>>

\* Mutant: a purge, too, leaves it to the thread that is recycling
LockIfFree(t) ==
  /\ At(t, "lock")
  /\ IF recycle_mutex_ = Free THEN recycle_mutex_' = t /\ Goto(t, "recycle")
                              ELSE Goto(t, "unlock") /\ UNCHANGED recycle_mutex_
  /\ UNCHANGED <<limits, cache_mutex_, global, local, puts, recycled>>

Lock(t) ==
  /\ At(t, "lock")
  /\ recycle_mutex_ = Free
  /\ recycle_mutex_' = t
  /\ Goto(t, "recycle")
  /\ UNCHANGED <<limits, cache_mutex_, global, local, puts, recycled>>

\* Recycle: batches are merged when more than half of the cache is overhead ...
Recycle(t) ==
  LET much == global.size > OverheadSize(global) /\ OverheadSize(global) * 2 > global.size
  IN  /\ At(t, "recycle")
      /\ cache_mutex_ = Free
      /\ cache_mutex_' = t
      /\ global' = IF much THEN MergeBatches(global) ELSE global
      /\ Goto(t, "extract")
      /\ UNCHANGED <<limits, recycle_mutex_, local, puts, recycled>>

\* ... and taken out one by one until the rest is small enough
Extract(t) ==
  /\ At(t, "extract")
  /\ global.size > (IF th[t].purge THEN 0 ELSE min_size)
  /\ global' = DequeueBatch(global).rest
  /\ th' = [th EXCEPT ![t].tmp = Append(@, DequeueBatch(global).batch)]
  /\ UNCHANGED <<limits, cache_mutex_, recycle_mutex_, local, puts, recycled>>

Extracted(t) ==
  /\ At(t, "extract")
  /\ global.size <= (IF th[t].purge THEN 0 ELSE min_size)
  /\ cache_mutex_' = Free
  /\ Goto(t, "unlock")
  /\ UNCHANGED <<limits, recycle_mutex_, global, local, puts, recycled>>

Unlock(t) ==
  /\ At(t, "unlock")
  /\ recycle_mutex_' = Free
  /\ th' = [th EXCEPT ![t].pc = "dorecycle", ![t].purge = FALSE, ![t].due = {}]
  /\ UNCHANGED <<limits, cache_mutex_, global, local, puts, recycled>>

\* The chunks are given back batch by batch, under no lock
DoRecycle(t) ==
  /\ At(t, "dorecycle")
  /\ IF th[t].tmp = <<>>
       THEN Goto(t, "idle") /\ UNCHANGED recycled
       ELSE /\ recycled' = recycled \cup ToSet(Head(th[t].tmp).chunks)
            /\ th' = [th EXCEPT ![t].tmp = Tail(@)]
  /\ UNCHANGED <<limits, cache_mutex_, recycle_mutex_, global, local, puts>>

Next ==
  \E t \in Threads :
    \/ Put(t) \/ CallDrainAndRecycle(t)
    \/ Drain(t) \/ CheckSize(t) \/ TryLock(t) \/ Lock(t)
    \/ Recycle(t) \/ Extract(t) \/ Extracted(t) \/ Unlock(t) \/ DoRecycle(t)

Spec == Init /\ [][Next]_vars

-----------------------------------------------------------------------------
\* The sizes of chunks
Total(chunks) ==
  LET upTo[n \in 0 .. Len(chunks)] == IF n = 0 THEN 0 ELSE upTo[n - 1] + chunks[n].size
  IN  upTo[Len(chunks)]

\* The size a cache keeps by additions and subtractions is that of what is in
\* it, with the overhead of each batch, through transfers and merges; with it
\* the loop that takes batches out stops before the list is empty
SizesExact ==
  \A q \in {global} \cup {local[t] : t \in Threads} :
    /\ q.size = Total(ChunksOf(q.list)) + Len(q.list) * Overhead
    /\ \A i \in DOMAIN q.list :
         /\ Len(q.list[i].chunks) \in 1 .. kSize
         /\ q.list[i].size = Total(q.list[i].chunks) + Overhead

\* The chunks in a thread's cache, in the global one, in the batches a thread took out
Keepers == {<<"global", Free>>} \cup ({"local", "tmp"} \X Threads)
Kept(k) ==
  ChunksOf(CASE k[1] = "global" -> global.list
             [] k[1] = "local" -> local[k[2]].list
             [] k[1] = "tmp" -> th[k[2]].tmp)

\* Every chunk that was put is in one place: a thread's cache, the global one,
\* the batches a thread took out, or given back; none is lost or given back twice
EachChunkOnce ==
  /\ \A k, l \in Keepers : \A i \in DOMAIN Kept(k), j \in DOMAIN Kept(l) :
       Kept(k)[i].n = Kept(l)[j].n => k = l /\ i = j
  /\ \A k \in Keepers : \A i \in DOMAIN Kept(k) : \A c \in recycled : Kept(k)[i].n # c.n
  /\ \A c, d \in recycled : c.n = d.n => c = d
  /\ {c.n : c \in recycled \cup UNION {ToSet(Kept(k)) : k \in Keepers}} = 1 .. puts

\* A chunk leaves the quarantine after those its thread put before it, through
\* the transfers and the merges of batches
Waiting(t) == {c \in ToSet(ChunksOf(global.list \o local[t].list)) : c.by = t}

OldestFirst ==
  [][\A t \in Threads : \A c, d \in Waiting(t) :
       c.n < d.n /\ d \notin Waiting(t)' => c \notin Waiting(t)']_vars

\* A purge that has let go of the global cache has left nothing behind of what
\* it found there and in its thread's cache when it was called
PurgeComplete ==
  \A t \in Threads : th[t].purge /\ At(t, "unlock") =>
    th[t].due \cap ToSet(ChunksOf(global.list \o local[t].list)) = {}
=============================================================================
