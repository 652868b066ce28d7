---------------------------- MODULE MCQuarantine ----------------------------
(* Limits under which every Put drains, with batches worth merging; under    *)
(* which a cache fills a batch first; and a quarantine that is switched off. *)
EXTENDS Quarantine

MCLimits == {[size |-> 10, cache |-> 3], [size |-> 10, cache |-> 7], [size |-> 0, cache |-> 0]}
Symmetry == Permutations(Threads)
=============================================================================
