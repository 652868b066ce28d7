--------------------------- MODULE MCAddrHashMap ----------------------------
(* Threads and addresses are interchangeable. *)
EXTENDS AddrHashMap

Symmetry == Permutations(Threads) \cup Permutations(Addrs)
=============================================================================
