------------------------ MODULE PersistentAllocator ------------------------
(***************************************************************************)
(* PersistentAllocator of sanitizer_persistent_allocator.h: blocks are cut  *)
(* off the current region without a lock, by a compare-and-exchange of      *)
(* region_pos; a thread that finds the region too small maps another one    *)
(* under a StaticSpinMutex.  Every atomic access is a step.                 *)
(*                                                                         *)
(* Addresses are numbers.  What a failed compare-and-exchange does is taken *)
(* to be the same whether it lost a race or failed spuriously.              *)
(***************************************************************************)
EXTENDS Integers, Sequences

CONSTANTS Threads,
          RegionSize,   \* the least a region is mapped with, 64 KB in the code
          Bases         \* the addresses at which mmap can place a region

ASSUME AllocatorAssumption == RegionSize \in Nat \ {0} /\ Bases \subseteq Nat

VARIABLES region_pos, region_end,
          mtx,      \* state_ of the StaticSpinMutex
          mapped,   \* the regions mapped so far
          alloc,    \* each thread's place in alloc and tryAlloc, and their locals
          blocks    \* the blocks handed out, in that order, each with the
                    \* question whether its thread compared with an old end

allocVars == <<region_pos, region_end, mtx, mapped, alloc, blocks>>

NotAllocating ==
  [pc |-> "idle", size |-> 0, cmp |-> 0, end |-> 0, locked |-> FALSE, mem |-> 0]

AllocInit ==
  /\ region_pos = 0 /\ region_end = 0
  /\ mtx = 0
  /\ mapped = {}
  /\ alloc = [t \in Threads |-> NotAllocating]
  /\ blocks = <<>>

AllocAt(t, l) == alloc[t].pc = l
AllocGoto(t, l) == alloc' = [alloc EXCEPT ![t].pc = l]

\* The parts an action touches: the region, the mutex
KeepRegion == UNCHANGED <<region_pos, region_end, mapped>>

StartAlloc(t, size) ==
  alloc' = [alloc EXCEPT ![t] = [NotAllocating EXCEPT !.pc = "pos", !.size = size]]

\* tryAlloc: the two loads ...
LoadPos(t) ==
  /\ AllocAt(t, "pos")
  /\ alloc' = [alloc EXCEPT ![t].pc = "end", ![t].cmp = region_pos]
  /\ KeepRegion /\ UNCHANGED <<mtx, blocks>>

\* ... a failure sends the optimistic attempt to the lock, the locked one to mmap ...
LoadEnd(t) ==
  LET a == alloc[t]
      fits == a.cmp # 0 /\ a.cmp + a.size <= region_end
  IN  /\ AllocAt(t, "end")
      /\ alloc' = [alloc EXCEPT ![t].pc = IF fits THEN "cas" ELSE IF a.locked THEN "zero" ELSE "lock",
                                ![t].end = region_end]
      /\ KeepRegion /\ UNCHANGED <<mtx, blocks>>

\* The block t cuts off; stale if another region has been mapped since t read the end
Block(t) == [addr |-> alloc[t].cmp, size |-> alloc[t].size, stale |-> alloc[t].end # region_end]

\* Mutant: the position is stored without a look at what it is by now
BlindStore(t) ==
  /\ AllocAt(t, "cas")
  /\ region_pos' = alloc[t].cmp + alloc[t].size
  /\ blocks' = Append(blocks, Block(t))
  /\ AllocGoto(t, IF alloc[t].locked THEN "unlock" ELSE "done")
  /\ UNCHANGED <<region_end, mapped, mtx>>

\* ... and the compare-and-exchange of region_pos
CasPos(t) ==
  LET a == alloc[t]
  IN  /\ AllocAt(t, "cas")
      /\ IF region_pos = a.cmp
           THEN /\ region_pos' = a.cmp + a.size
                /\ blocks' = Append(blocks, Block(t))
                /\ AllocGoto(t, IF a.locked THEN "unlock" ELSE "done")
           ELSE AllocGoto(t, "pos") /\ UNCHANGED <<region_pos, blocks>>
      /\ UNCHANGED <<region_end, mapped, mtx>>

\* alloc takes the mutex and tries again
LockMtx(t) ==
  /\ AllocAt(t, "lock")
  /\ mtx = 0
  /\ mtx' = 1
  /\ alloc' = [alloc EXCEPT ![t].pc = "pos", ![t].locked = TRUE]
  /\ KeepRegion /\ UNCHANGED blocks

\* A new region: the position is taken away from the others, then the end is
\* moved, then the position is given back
ClearPos(t) ==
  /\ AllocAt(t, "zero")
  /\ region_pos' = 0
  /\ AllocGoto(t, "mmap")
  /\ UNCHANGED <<region_end, mapped, mtx, blocks>>

Overlap(a, m, b, n) == a < b + n /\ b < a + m

\* The kernel places a mapping as high as it can
Free(mem, size) == \A r \in mapped : ~ Overlap(mem, size, r.addr, r.size)

MmapOrDie(t) ==
  LET size == IF RegionSize < alloc[t].size THEN alloc[t].size ELSE RegionSize
  IN  /\ AllocAt(t, "mmap")
      /\ \E mem \in Bases :
           /\ Free(mem, size)
           /\ \A higher \in Bases : higher > mem => ~ Free(higher, size)
           /\ mapped' = mapped \cup {[addr |-> mem, size |-> size]}
           /\ region_end' = mem + size
           /\ alloc' = [alloc EXCEPT ![t].pc = "publish", ![t].mem = mem]
      /\ UNCHANGED <<region_pos, mtx, blocks>>

PublishPos(t) ==
  /\ AllocAt(t, "publish")
  /\ region_pos' = alloc[t].mem
  /\ AllocGoto(t, "pos")
  /\ UNCHANGED <<region_end, mapped, mtx, blocks>>

UnlockMtx(t) ==
  /\ AllocAt(t, "unlock")
  /\ mtx' = 0
  /\ AllocGoto(t, "done")
  /\ KeepRegion /\ UNCHANGED blocks

AllocStep(t) ==
  \/ LoadPos(t) \/ LoadEnd(t) \/ CasPos(t)
  \/ LockMtx(t) \/ ClearPos(t) \/ MmapOrDie(t) \/ PublishPos(t) \/ UnlockMtx(t)

-----------------------------------------------------------------------------
\* All allocations are forever: no two blocks share an address, and each lies
\* in a region that was mapped for it
BlocksDisjoint ==
  /\ \A i, j \in DOMAIN blocks :
       i # j => ~ Overlap(blocks[i].addr, blocks[i].size, blocks[j].addr, blocks[j].size)
  /\ \A i \in DOMAIN blocks :
       \E r \in mapped : /\ r.addr <= blocks[i].addr
                         /\ blocks[i].addr + blocks[i].size <= r.addr + r.size

\* Only an exchange that finds its position back in the region after the one
\* whose end its thread compared with can break that: the ABA of region_pos
OverlapsAreStale == BlocksDisjoint \/ \E i \in DOMAIN blocks : blocks[i].stale
=============================================================================
