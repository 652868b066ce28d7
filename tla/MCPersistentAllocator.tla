----------------------- MODULE MCPersistentAllocator ------------------------
(* Clients of a PersistentAllocator: each thread allocates, keeps its block  *)
(* for ever and may allocate again.                                          *)
EXTENDS PersistentAllocator

CONSTANTS Sizes,       \* the sizes they ask for
          MaxBlocks    \* bound: blocks a behaviour allocates

Alloc(t) ==
  /\ alloc[t].pc \in {"idle", "done"}
  /\ Len(blocks) < MaxBlocks
  /\ \E size \in Sizes : StartAlloc(t, size)
  /\ KeepRegion /\ UNCHANGED <<mtx, blocks>>

Next == \E t \in Threads : Alloc(t) \/ AllocStep(t)

Spec == AllocInit /\ [][Next]_allocVars
=============================================================================
