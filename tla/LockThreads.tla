----------------------------- MODULE LockThreads -----------------------------
(* The threads of a lock and where each is in its operations: what the modules *)
(* of sanitizer_mutex.h's locks have in common.                                *)
CONSTANT Threads

VARIABLE pc

At(t, l) == pc[t] = l
Goto(t, l) == pc' = [pc EXCEPT ![t] = l]
=============================================================================
