------------------------ MODULE MCDeadlockDetector --------------------------
(* Threads are interchangeable, and so are the mutexes of a kind. *)
EXTENDS DeadlockDetector

\* Room that only a lock taken three times for reading exceeds, or any second lock
MCLimits == {[all |-> 2, recursive |-> 1], [all |-> 1, recursive |-> 0]}

Symmetry == Permutations(Threads) \cup Permutations(Mutexes \ (Shared \cup Tried \cup Dying))
=============================================================================
