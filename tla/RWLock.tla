------------------------------- MODULE RWLock -------------------------------
(***************************************************************************)
(* What every lock of sanitizer_mutex.h promises its clients: a thread asks *)
(* for the lock, is let in when nobody is in who excludes it, and leaves.   *)
(* StaticSpinMutex and BlockingMutex are used for writing only.             *)
(***************************************************************************)
CONSTANT Threads

VARIABLE mode   \* where each thread stands with respect to the lock

Out == "out"
Modes == {Out, "wantWrite", "wantRead", "writing", "reading"}

Init == mode = [t \in Threads |-> Out]

Ask(t) ==
  /\ mode[t] = Out
  /\ \E w \in {"wantWrite", "wantRead"} : mode' = [mode EXCEPT ![t] = w]

EnterWrite(t) ==
  /\ mode[t] = "wantWrite"
  /\ \A u \in Threads : mode[u] \notin {"writing", "reading"}
  /\ mode' = [mode EXCEPT ![t] = "writing"]

EnterRead(t) ==
  /\ mode[t] = "wantRead"
  /\ \A u \in Threads : mode[u] # "writing"
  /\ mode' = [mode EXCEPT ![t] = "reading"]

Leave(t) ==
  /\ mode[t] \in {"writing", "reading"}
  /\ mode' = [mode EXCEPT ![t] = Out]

Next == \E t \in Threads : Ask(t) \/ EnterWrite(t) \/ EnterRead(t) \/ Leave(t)

Spec == Init /\ [][Next]_mode

-----------------------------------------------------------------------------
\* A writer is alone in the critical section
Exclusion ==
  \A t, u \in Threads :
    mode[t] = "writing" /\ mode[u] \in {"writing", "reading"} => t = u

\* A lock that nobody holds and somebody wants is taken
Progress ==
  (/\ \E t \in Threads : mode[t] \in {"wantWrite", "wantRead"}
   /\ \A t \in Threads : mode[t] \notin {"writing", "reading"})
  ~> (\E t \in Threads : mode[t] \in {"writing", "reading"})
=============================================================================
