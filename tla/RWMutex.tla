------------------------------- MODULE RWMutex -------------------------------
(***************************************************************************)
(* RWMutex of sanitizer_mutex.h, the reader-writer spin lock: bit 0 of      *)
(* state_ is the writer, the rest counts the readers that announced         *)
(* themselves, in steps of kReadLock.  A reader announces itself before it  *)
(* knows whether it may enter, and stays announced while it spins.          *)
(* Every atomic access is a step.                                           *)
(***************************************************************************)
EXTENDS Integers, FiniteSets, LockThreads

CONSTANT Modulus   \* the number of values of state_, 2^32 for its atomic_uint32_t

\* All threads fit into the count; the modulus is a power of two, so even
ASSUME RWMutexAssumption ==
  /\ IsFiniteSet(Threads)
  /\ Modulus \in Nat /\ Modulus % 2 = 0
  /\ 2 * Cardinality(Threads) + 1 < Modulus

kUnlocked == 0
kWriteLock == 1
kReadLock == 2

WriterBit(s) == s % 2

\* atomic_fetch_add and atomic_fetch_sub of an unsigned word
Plus(s, n) == IF s + n < Modulus THEN s + n ELSE s + n - Modulus
Minus(s, n) == IF s >= n THEN s - n ELSE s + Modulus - n

VARIABLE state  \* state_

vars == <<state, pc>>

Init ==
  /\ state = kUnlocked
  /\ pc = [t \in Threads |-> "idle"]

\* A client without the lock calls Lock or ReadLock
CallLock(t) == At(t, "idle") /\ Goto(t, "lock") /\ UNCHANGED state
CallReadLock(t) == At(t, "idle") /\ Goto(t, "rlock") /\ UNCHANGED state

\* The compare-and-exchange from kUnlocked to kWriteLock, at any of its two places
TryWrite(t, from, else) ==
  /\ At(t, from)
  /\ IF state = kUnlocked THEN state' = kWriteLock /\ Goto(t, "write")
                          ELSE UNCHANGED state /\ Goto(t, else)

\* Lock: the first attempt
Lock(t) == TryWrite(t, "lock", "lockSlow")

\* LockSlow: the load that looks whether an attempt is worth it
LockSlowLoad(t) ==
  /\ At(t, "lockSlow")
  /\ Goto(t, IF state = kUnlocked THEN "lockCas" ELSE "lockSlow")
  /\ UNCHANGED state

\* Mutant: the attempt relies on what the load saw
LockBlind(t) ==
  /\ At(t, "lockCas")
  /\ state' = kWriteLock
  /\ Goto(t, "write")

\* LockSlow: the attempt, from the value just loaded; the weak form may fail
\* although the word still holds it
LockSlowCas(t) ==
  \/ TryWrite(t, "lockCas", "lockSlow")
  \/ At(t, "lockCas") /\ Goto(t, "lockSlow") /\ UNCHANGED state

\* Mutant: Unlock stores kUnlocked, as StaticSpinMutex does
UnlockStores(t) ==
  /\ At(t, "write")
  /\ state' = kUnlocked
  /\ Goto(t, "idle")

\* Unlock: atomic_fetch_sub of kWriteLock
Unlock(t) ==
  /\ At(t, "write")
  /\ state' = Minus(state, kWriteLock)
  /\ Goto(t, "idle")

\* Mutant: a reader that has to wait takes its announcement back
WithdrawingReadLock(t) ==
  /\ At(t, "rlock")
  /\ state' = IF WriterBit(state) = 0 THEN Plus(state, kReadLock) ELSE state
  /\ Goto(t, IF WriterBit(state) = 0 THEN "read" ELSE "readSlow")

\* ReadLock: atomic_fetch_add of kReadLock, and the test of what was there
ReadLock(t) ==
  /\ At(t, "rlock")
  /\ state' = Plus(state, kReadLock)
  /\ Goto(t, IF WriterBit(state) = 0 THEN "read" ELSE "readSlow")

\* Mutant: the reader waits until the word is all zero, its own announcement included
ReadLockSlowIdle(t) ==
  /\ At(t, "readSlow")
  /\ Goto(t, IF state = kUnlocked THEN "read" ELSE "readSlow")
  /\ UNCHANGED state

\* ReadLockSlow: spin until the writer's bit is off
ReadLockSlow(t) ==
  /\ At(t, "readSlow")
  /\ Goto(t, IF WriterBit(state) = 0 THEN "read" ELSE "readSlow")
  /\ UNCHANGED state

\* Mutant: a reader is taken off twice
ReadUnlockTwice(t) ==
  /\ At(t, "read")
  /\ state' = state - 2 * kReadLock
  /\ Goto(t, "idle")

\* ReadUnlock: atomic_fetch_sub of kReadLock
ReadUnlock(t) ==
  /\ At(t, "read")
  /\ state' = Minus(state, kReadLock)
  /\ Goto(t, "idle")

Step(t) ==
  \/ Lock(t) \/ LockSlowLoad(t) \/ LockSlowCas(t) \/ Unlock(t)
  \/ ReadLock(t) \/ ReadLockSlow(t) \/ ReadUnlock(t)

Next == \E t \in Threads : CallLock(t) \/ CallReadLock(t) \/ Step(t)

Spec == Init /\ [][Next]_vars

\* Every thread in an operation or in the critical section goes on
FairSpec == Spec /\ \A t \in Threads : WF_vars(Step(t))

-----------------------------------------------------------------------------
\* state_ is a value of its unsigned type, and each thread
\* is at one of the atomic steps of the four operations
TypeOK ==
  /\ state \in 0 .. Modulus - 1
  /\ pc \in [Threads -> {"idle", "lock", "lockSlow", "lockCas", "write",
                         "rlock", "readSlow", "read"}]

\* The readers that announced themselves, let in or not
Announced == {t \in Threads : pc[t] \in {"readSlow", "read"}}

Writing == \E t \in Threads : pc[t] = "write"

\* state_ is what it encodes: the writer that is in, and every announced
\* reader counted once.  The DCHECKs of Unlock and ReadUnlock follow, and so
\* does the CHECK of the destructor when nobody uses the lock.
StateCounts ==
  state = kReadLock * Cardinality(Announced) + (IF Writing THEN kWriteLock ELSE kUnlocked)

\* A reader that announced itself is overtaken by no writer: none enters while
\* one is announced
NoWriterOvertakes ==
  [][\A t \in Threads : pc[t] # "write" /\ pc'[t] = "write" => Announced = {}]_vars

-----------------------------------------------------------------------------
\* As the clients see it.  A reader is in from the access that showed it the
\* writer's bit off.
mode ==
  [t \in Threads |-> IF pc[t] = "write" THEN "writing"
                     ELSE IF pc[t] = "read" THEN "reading"
                     ELSE IF pc[t] \in {"lock", "lockSlow", "lockCas"} THEN "wantWrite"
                     ELSE IF pc[t] \in {"rlock", "readSlow"} THEN "wantRead"
                     ELSE "out"]

Abstract == INSTANCE RWLock

\* RWMutex implements the abstract reader-writer lock
ImplementsLock == Abstract!Spec

\* A reader that has called ReadLock gets in, whatever the writers do
ReaderEnters == \A t \in Threads : pc[t] = "rlock" ~> pc[t] = "read"
=============================================================================
