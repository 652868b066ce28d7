---------------------------- MODULE BlockingMutex ----------------------------
(***************************************************************************)
(* BlockingMutex of sanitizer_mutex.h as sanitizer_linux.cc implements it   *)
(* on Linux: one word, and a futex for the threads that find it taken.      *)
(* Every atomic access and every system call is a step of its own.          *)
(*                                                                          *)
(* The slow path of Lock never knows whether others sleep, and the first    *)
(* exchange of Lock may overwrite MtxSleeping with MtxLocked: who wakes a   *)
(* sleeper then is what makes this lock hard to get right.                  *)
(* What RWMutex calls by the same name begins with Futex here, so that both *)
(* can be extended at once.                                                 *)
(***************************************************************************)
EXTENDS Integers, LockThreads

MtxUnlocked == 0
MtxLocked == 1
MtxSleeping == 2

VARIABLE m    \* the lock word, opaque_storage_[0]

futexVars == <<m, pc>>

FutexInit ==
  /\ m = MtxUnlocked
  /\ pc = [t \in Threads |-> "idle"]

\* A client without the lock calls Lock
CallFutexLock(t) == At(t, "idle") /\ Goto(t, "lock") /\ UNCHANGED m

\* Mutant: Lock enters whenever nobody is known to sleep
BargeIn(t) ==
  /\ At(t, "lock")
  /\ m' = MtxLocked
  /\ Goto(t, IF m # MtxSleeping THEN "cs" ELSE "slow")

\* atomic_exchange(m, MtxLocked): done if the word was MtxUnlocked
LockFast(t) ==
  /\ At(t, "lock")
  /\ m' = MtxLocked
  /\ Goto(t, IF m = MtxUnlocked THEN "cs" ELSE "slow")

\* Mutant: the slow path takes the lock as Lock does, and forgets the sleepers
SlowTakesLocked(t) ==
  /\ At(t, "slow")
  /\ m' = IF m = MtxUnlocked THEN MtxLocked ELSE MtxSleeping
  /\ Goto(t, IF m = MtxUnlocked THEN "cs" ELSE "wait")

\* atomic_exchange(m, MtxSleeping), the condition of the loop
LockSlow(t) ==
  /\ At(t, "slow")
  /\ m' = MtxSleeping
  /\ Goto(t, IF m = MtxUnlocked THEN "cs" ELSE "wait")

\* Mutant: the thread sleeps whatever the word holds by now
SleepUnchecked(t) ==
  /\ At(t, "wait")
  /\ Goto(t, "asleep")
  /\ UNCHANGED m

\* FUTEX_WAIT_PRIVATE with MtxSleeping: the kernel compares and sleeps atomically
FutexWait(t) ==
  /\ At(t, "wait")
  /\ Goto(t, IF m = MtxSleeping THEN "asleep" ELSE "slow")
  /\ UNCHANGED m

\* FUTEX_WAIT returns early, with EINTR
WaitInterrupted(t) ==
  /\ At(t, "asleep")
  /\ Goto(t, "slow")
  /\ UNCHANGED m

\* Mutant: Unlock takes the word back from MtxLocked, blind to MtxSleeping
UnlockDecrements(t) ==
  /\ At(t, "cs")
  /\ m' = MtxLocked - m
  /\ Goto(t, IF m = MtxSleeping THEN "wake" ELSE "idle")

\* atomic_exchange(m, MtxUnlocked) in Unlock
UnlockExchange(t) ==
  /\ At(t, "cs")
  /\ m' = MtxUnlocked
  /\ Goto(t, IF m = MtxSleeping THEN "wake" ELSE "idle")

\* FUTEX_WAKE_PRIVATE of one waiter, if there is one
FutexWake(t) ==
  /\ At(t, "wake")
  /\ \/ /\ \A u \in Threads : pc[u] # "asleep"
        /\ Goto(t, "idle")
     \/ \E u \in Threads :
          /\ At(u, "asleep")
          /\ pc' = [pc EXCEPT ![t] = "idle", ![u] = "slow"]
  /\ UNCHANGED m

\* What a thread does by itself once it is in Lock, in Unlock or has the lock
FutexStep(t) ==
  \/ LockFast(t) \/ LockSlow(t) \/ FutexWait(t)
  \/ UnlockExchange(t) \/ FutexWake(t)

FutexNext == \E t \in Threads : CallFutexLock(t) \/ FutexStep(t) \/ WaitInterrupted(t)

FutexSpec == FutexInit /\ [][FutexNext]_futexVars

\* The scheduler runs every thread that can run and clients give the lock back;
\* nobody has to ask for the lock, and no signal has to arrive
FairFutexSpec == FutexSpec /\ \A t \in Threads : WF_futexVars(FutexStep(t))

-----------------------------------------------------------------------------
\* The lock word holds one of the three states of enum MutexState and each
\* thread is at one of the atomic steps of Lock and Unlock
FutexTypeOK ==
  /\ m \in {MtxUnlocked, MtxLocked, MtxSleeping}
  /\ pc \in [Threads -> {"idle", "lock", "slow", "wait", "asleep", "cs", "wake"}]

\* One thread at most holds the lock, and the word says whether one does: the
\* CHECKs of Unlock and CheckLocked cannot fail in the thread that holds it
HolderMarked ==
  /\ \A t, u \in Threads : pc[t] = "cs" /\ pc[u] = "cs" => t = u
  /\ (m # MtxUnlocked) <=> (\E t \in Threads : pc[t] = "cs")

\* No lost wake-up: while a thread sleeps in the futex, the word tells the next
\* Unlock to wake somebody, or somebody is awake who is about to write
\* MtxSleeping or to wake a sleeper, even when the first exchange of a Lock has
\* just overwritten MtxSleeping
NoLostWakeup ==
  (\E t \in Threads : pc[t] = "asleep") =>
    \/ m = MtxSleeping
    \/ \E t \in Threads : pc[t] \in {"slow", "wake"}

-----------------------------------------------------------------------------
\* As the clients see it: in Lock until the exchange that returned MtxUnlocked,
\* out of the lock from the exchange of Unlock on
futexMode ==
  [t \in Threads |-> IF pc[t] = "cs" THEN "writing"
                     ELSE IF pc[t] \in {"lock", "slow", "wait", "asleep"} THEN "wantWrite"
                     ELSE "out"]

FutexLock == INSTANCE RWLock WITH mode <- futexMode

\* BlockingMutex implements the abstract lock
ImplementsMutex == FutexLock!Spec

\* Nobody is left asleep: a lock that is free and wanted is taken again
LockProgress == FutexLock!Progress
=============================================================================
