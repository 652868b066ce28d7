---------------------------- MODULE Mutex_proofs ----------------------------
(* The locks of sanitizer_mutex.h: RWMutex for any finite set of threads that *)
(* fits into its word, and then BlockingMutex for any set of threads.         *)
EXTENDS RWMutex, BlockingMutex, FiniteSetTheorems, TLAPS

\* A writer is alone
WriterExcludes ==
  \A t, u \in Threads : pc[t] = "write" /\ pc[u] \in {"write", "read"} => t = u

\* The encoding of the word is not inductive alone: that Unlock leaves no
\* writer behind needs that there was one only
IInv == TypeOK /\ StateCounts /\ WriterExcludes

-----------------------------------------------------------------------------
(* Counting *)

\* The library's facts on finite sets, for sets of threads
LEMMA Counting ==
  ASSUME NEW S \in SUBSET Threads
  PROVE  /\ IsFiniteSet(S) /\ Cardinality(S) \in Nat
         /\ 2 * Cardinality(S) + 1 < Modulus
         /\ Cardinality(S) = 0 <=> S = {}
         /\ \A t \in Threads \ S : Cardinality(S \cup {t}) = Cardinality(S) + 1
         /\ \A t \in S : Cardinality(S \ {t}) = Cardinality(S) - 1
<1>1. IsFiniteSet(Threads) /\ Cardinality(Threads) \in Nat
  BY RWMutexAssumption, FS_CardinalityType
<1>2. IsFiniteSet(S) /\ Cardinality(S) <= Cardinality(Threads)
  BY <1>1, FS_Subset
<1>3. Cardinality(S) \in Nat
  BY <1>2, FS_CardinalityType
<1>4. 2 * Cardinality(S) + 1 < Modulus
  BY <1>1, <1>2, <1>3, RWMutexAssumption
<1>5. Cardinality(S) = 0 <=> S = {}
  BY <1>2, FS_EmptySet
<1>6. \A t \in Threads \ S : Cardinality(S \cup {t}) = Cardinality(S) + 1
  BY <1>2, FS_AddElement
<1>7. \A t \in S : Cardinality(S \ {t}) = Cardinality(S) - 1
  BY <1>2, FS_RemoveElement
<1> QED BY <1>2, <1>3, <1>4, <1>5, <1>6, <1>7

\* What an operation learns from the word it reads
LEMMA Decode ==
  ASSUME StateCounts
  PROVE  /\ state \in Nat
         /\ WriterBit(state) = 0 <=> ~ Writing
         /\ state = kUnlocked <=> ~ Writing /\ Announced = {}
<1> DEFINE n == Cardinality(Announced)
<1>1. n \in Nat /\ (n = 0 <=> Announced = {})
  BY Counting DEF Announced
<1> HIDE DEF n
<1>2. state = 2 * n + (IF Writing THEN 1 ELSE 0)
  BY DEF StateCounts, n, kReadLock, kWriteLock, kUnlocked
<1> QED BY <1>1, <1>2 DEF WriterBit, kUnlocked

-----------------------------------------------------------------------------
(* The steps, by what they do to the word *)

\* Nobody has announced itself yet
LEMMA InitIInv == Init => IInv
<1> SUFFICES ASSUME Init PROVE IInv
  OBVIOUS
<1>1. Announced = {} /\ ~ Writing
  BY DEF Init, Announced, Writing
<1>2. Cardinality(Announced) = 0
  BY <1>1, FS_EmptySet
<1>3. StateCounts
  BY <1>1, <1>2 DEF Init, StateCounts, kUnlocked, kReadLock, kWriteLock
<1>4. TypeOK /\ WriterExcludes
  BY RWMutexAssumption, Counting DEF Init, TypeOK, WriterExcludes, kUnlocked
<1> QED BY <1>3, <1>4 DEF IInv

\* The type of the word follows from what it counts
LEMMA CountsType == StateCounts => state \in 0 .. Modulus - 1
<1> SUFFICES ASSUME StateCounts PROVE state \in 0 .. Modulus - 1
  OBVIOUS
<1> DEFINE n == Cardinality(Announced)
<1>1. n \in Nat /\ 2 * n + 1 < Modulus
  BY Counting DEF Announced
<1> HIDE DEF n
<1>2. state = 2 * n + (IF Writing THEN 1 ELSE 0)
  BY DEF StateCounts, n, kReadLock, kWriteLock, kUnlocked
<1> QED BY <1>1, <1>2, RWMutexAssumption

\* Every step moves its thread to a place of the code
LEMMA PcType == TypeOK /\ [Next]_vars => pc' \in [Threads -> {"idle", "lock", "lockSlow",
                                     "lockCas", "write", "rlock", "readSlow", "read"}]
<1> SUFFICES ASSUME TypeOK, [Next]_vars
             PROVE  pc' \in [Threads -> {"idle", "lock", "lockSlow",
                                     "lockCas", "write", "rlock", "readSlow", "read"}]
  OBVIOUS
<1> USE DEF TypeOK, At, Goto
<1>1. CASE UNCHANGED vars
  BY <1>1 DEF vars
<1>2. CASE \E t \in Threads : CallLock(t) \/ CallReadLock(t)
  BY <1>2 DEF CallLock, CallReadLock
<1>3. CASE \E t \in Threads : Lock(t) \/ LockSlowLoad(t) \/ LockSlowCas(t)
  BY <1>3 DEF Lock, LockSlowLoad, LockSlowCas, TryWrite
<1>4. CASE \E t \in Threads : Unlock(t) \/ ReadUnlock(t)
  BY <1>4 DEF Unlock, ReadUnlock
<1>5. CASE \E t \in Threads : ReadLock(t) \/ ReadLockSlow(t)
  BY <1>5 DEF ReadLock, ReadLockSlow
<1> QED BY <1>1, <1>2, <1>3, <1>4, <1>5 DEF Next, Step

\* A thread that reads the word as kUnlocked enters as the only one
LEMMA EnterWriteStep ==
  ASSUME IInv, NEW t \in Threads, pc[t] \notin {"write", "read", "readSlow"},
         state = kUnlocked, state' = kWriteLock, Goto(t, "write")
  PROVE  StateCounts' /\ WriterExcludes'
<1>1. ~ Writing /\ Announced = {}
  BY Decode DEF IInv
<1>2. Announced' = {} /\ Writing'
  BY <1>1 DEF IInv, TypeOK, Goto, Announced, Writing
<1>3. StateCounts'
  BY <1>2, FS_EmptySet DEF StateCounts, kWriteLock, kReadLock
<1>4. WriterExcludes'
  BY <1>1 DEF IInv, TypeOK, Goto, Announced, Writing, WriterExcludes
<1> QED BY <1>3, <1>4

\* A step that neither announces a reader, nor moves a writer, nor writes the word
LEMMA QuietStep ==
  ASSUME IInv, NEW t \in Threads, NEW l, state' = state, Goto(t, l),
         \/ /\ pc[t] \in {"idle", "lock", "lockSlow", "lockCas"}
            /\ l \in {"lock", "rlock", "lockSlow", "lockCas"}
         \/ pc[t] = "readSlow" /\ l = "readSlow"
         \/ pc[t] = "readSlow" /\ l = "read" /\ WriterBit(state) = 0
  PROVE  StateCounts' /\ WriterExcludes'
<1>1. Announced' = Announced /\ Writing' = Writing
  BY DEF IInv, TypeOK, Goto, Announced, Writing
<1>2. StateCounts'
  BY <1>1 DEF IInv, StateCounts
<1>3. WriterBit(state) = 0 => ~ Writing
  BY Decode DEF IInv
<1>4. WriterExcludes'
  BY <1>3 DEF IInv, TypeOK, Goto, Writing, WriterExcludes
<1> QED BY <1>2, <1>4

\* The writer that leaves was the only one
LEMMA UnlockStep ==
  ASSUME IInv, NEW t \in Threads, Unlock(t)
  PROVE  StateCounts' /\ WriterExcludes'
<1> DEFINE n == Cardinality(Announced)
<1>1. Announced' = Announced /\ Writing /\ ~ Writing'
  BY DEF Unlock, At, Goto, IInv, TypeOK, Announced, Writing, WriterExcludes
<1>2. n \in Nat
  BY Counting DEF Announced
<1>3. Cardinality(Announced)' = n
  BY <1>1
<1>4. state = 2 * n + 1
  BY <1>1 DEF IInv, StateCounts, kReadLock, kWriteLock
<1> HIDE DEF n
<1>5. state' = 2 * n
  BY <1>2, <1>4 DEF Unlock, Minus, kWriteLock
<1>6. StateCounts'
  BY <1>1, <1>2, <1>3, <1>5 DEF StateCounts, kReadLock, kWriteLock, kUnlocked
<1>7. WriterExcludes'
  BY DEF Unlock, At, Goto, IInv, TypeOK, WriterExcludes
<1> QED BY <1>6, <1>7

\* A reader announces itself, and is in if the word it added to had no writer
LEMMA ReadLockStep ==
  ASSUME IInv, NEW t \in Threads, ReadLock(t)
  PROVE  StateCounts' /\ WriterExcludes'
<1> DEFINE n == Cardinality(Announced)
           w == IF Writing THEN 1 ELSE 0
<1>1. t \in Threads \ Announced /\ Announced' = Announced \cup {t} /\ Writing' = Writing
  BY DEF ReadLock, At, Goto, IInv, TypeOK, Announced, Writing
<1>2. Announced \in SUBSET Threads /\ Announced' \in SUBSET Threads
  BY DEF Announced
<1>3. n \in Nat /\ Cardinality(Announced)' = n + 1
  BY <1>1, <1>2, Counting
<1>4. 2 * (n + 1) + 1 < Modulus
  BY <1>2, <1>3, Counting
<1>5. w \in {0, 1} /\ state = 2 * n + w /\ w' = w
  BY <1>1 DEF IInv, StateCounts, kReadLock, kWriteLock, kUnlocked
<1>6. state' = 2 * (n + 1) + w
  <2> HIDE DEF n, w
  <2> QED BY <1>3, <1>4, <1>5, RWMutexAssumption DEF ReadLock, Plus, kReadLock
<1>7. StateCounts'
  BY <1>3, <1>5, <1>6 DEF StateCounts, kReadLock, kWriteLock, kUnlocked
<1>8. WriterBit(state) = 0 => ~ Writing
  BY Decode DEF IInv
<1>9. WriterExcludes'
  BY <1>8 DEF ReadLock, At, Goto, IInv, TypeOK, Writing, WriterExcludes
<1> QED BY <1>7, <1>9

\* A reader that leaves was counted, so the subtraction does not wrap
LEMMA ReadUnlockStep ==
  ASSUME IInv, NEW t \in Threads, ReadUnlock(t)
  PROVE  StateCounts' /\ WriterExcludes'
<1> DEFINE n == Cardinality(Announced)
           w == IF Writing THEN 1 ELSE 0
<1>1. t \in Announced /\ Announced' = Announced \ {t} /\ Writing' = Writing
  BY DEF ReadUnlock, At, Goto, IInv, TypeOK, Announced, Writing
<1>2. Announced \in SUBSET Threads /\ Announced' \in SUBSET Threads
  BY DEF Announced
<1>3. n \in Nat /\ Cardinality(Announced)' = n - 1 /\ n - 1 \in Nat
  BY <1>1, <1>2, Counting
<1>5. w \in {0, 1} /\ state = 2 * n + w /\ w' = w
  BY <1>1 DEF IInv, StateCounts, kReadLock, kWriteLock, kUnlocked
<1>6. state' = 2 * (n - 1) + w
  <2> HIDE DEF n, w
  <2> QED BY <1>3, <1>5 DEF ReadUnlock, Minus, kReadLock
<1>7. StateCounts'
  BY <1>3, <1>5, <1>6 DEF StateCounts, kReadLock, kWriteLock, kUnlocked
<1>9. WriterExcludes'
  BY DEF ReadUnlock, At, Goto, IInv, TypeOK, WriterExcludes
<1> QED BY <1>7, <1>9

-----------------------------------------------------------------------------
\* Every operation keeps the invariant
LEMMA StepIInv == IInv /\ [Next]_vars => IInv'
<1> SUFFICES ASSUME IInv, [Next]_vars PROVE IInv'
  OBVIOUS
<1>1. StateCounts' /\ WriterExcludes'
  <2> USE DEF At
  <2>1. CASE UNCHANGED vars
    <3>1. Announced' = Announced /\ Writing' = Writing
      BY <2>1 DEF vars, Announced, Writing
    <3> QED BY <2>1, <3>1 DEF vars, IInv, StateCounts, WriterExcludes
  <2>2. ASSUME NEW t \in Threads, CallLock(t) \/ CallReadLock(t)
        PROVE  StateCounts' /\ WriterExcludes'
    BY <2>2, QuietStep DEF CallLock, CallReadLock
  <2>3. ASSUME NEW t \in Threads, Lock(t) \/ LockSlowCas(t)
        PROVE  StateCounts' /\ WriterExcludes'
    BY <2>3, EnterWriteStep, QuietStep DEF Lock, LockSlowCas, TryWrite
  <2>4. ASSUME NEW t \in Threads, LockSlowLoad(t) PROVE StateCounts' /\ WriterExcludes'
    BY <2>4, QuietStep DEF LockSlowLoad
  <2>5. ASSUME NEW t \in Threads, ReadLockSlow(t) PROVE StateCounts' /\ WriterExcludes'
    BY <2>5, QuietStep DEF ReadLockSlow
  <2> QED BY <2>1, <2>2, <2>3, <2>4, <2>5, UnlockStep, ReadLockStep, ReadUnlockStep
          DEF Next, Step
<1>2. TypeOK'
  <2>1. (StateCounts => state \in 0 .. Modulus - 1)'
    BY CountsType, PTL
  <2> QED BY <1>1, <2>1, PcType DEF IInv, TypeOK
<1> QED BY <1>1, <1>2 DEF IInv

LEMMA Invariance == Spec => []IInv
BY InitIInv, StepIInv, PTL DEF Spec

\* state_ never leaves its type and the operations their steps
THEOREM TypeCorrect == Spec => []TypeOK
BY Invariance, PTL DEF IInv

\* For any number of threads that fits, state_ counts the announced readers and
\* the writer exactly: no reader is counted twice or forgotten, and no DCHECK of
\* Unlock or ReadUnlock can fail
THEOREM CountsCorrect == Spec => []StateCounts
BY Invariance, PTL DEF IInv

\* A writer shares the lock with nobody
THEOREM Exclusion == Spec => []WriterExcludes
BY Invariance, PTL DEF IInv

\* A reader that announced itself is overtaken by no writer: this is what keeps
\* readers from starving
THEOREM ReadersFirst == Spec => NoWriterOvertakes
<1>1. IInv /\ [Next]_vars
        => [\A t \in Threads : pc[t] # "write" /\ pc'[t] = "write" => Announced = {}]_vars
  <2> SUFFICES ASSUME IInv, Next, NEW t \in Threads, pc[t] # "write", pc'[t] = "write"
               PROVE  Announced = {}
    OBVIOUS
  <2>1. state = kUnlocked
    BY DEF IInv, TypeOK, Next, Step, At, Goto, CallLock, CallReadLock, Lock, LockSlowLoad,
           LockSlowCas, TryWrite, Unlock, ReadLock, ReadLockSlow, ReadUnlock
  <2> QED BY <2>1, Decode DEF IInv
<1> QED BY <1>1, Invariance, PTL DEF Spec, NoWriterOvertakes

-----------------------------------------------------------------------------
(* The refinement *)

\* How a client sees a thread, by the place it is at
LEMMA ModeValues ==
  ASSUME TypeOK, NEW t \in Threads
  PROVE  /\ mode[t] = "writing" <=> pc[t] = "write"
         /\ mode[t] = "reading" <=> pc[t] = "read"
         /\ mode[t] = "wantWrite" <=> pc[t] \in {"lock", "lockSlow", "lockCas"}
         /\ mode[t] = "wantRead" <=> pc[t] \in {"rlock", "readSlow"}
         /\ mode[t] = "out" <=> pc[t] = "idle"
BY DEF mode, TypeOK

\* What the clients see of a step is a step of the abstract lock, or nothing
LEMMA RefinesStep == IInv /\ [Next]_vars => [Abstract!Next]_mode
<1> SUFFICES ASSUME IInv, [Next]_vars PROVE [Abstract!Next]_mode
  OBVIOUS
<1>t. TypeOK
  BY DEF IInv
<1> USE DEF At, Goto
<1>1. ASSUME NEW t \in Threads, CallLock(t) \/ CallReadLock(t) PROVE Abstract!Ask(t)
  <2>1. \E w \in {"wantWrite", "wantRead"} : mode' = [mode EXCEPT ![t] = w]
    BY <1>1, <1>t DEF CallLock, CallReadLock, mode, TypeOK
  <2> QED BY <1>1, <1>t, <2>1, ModeValues
          DEF CallLock, CallReadLock, Abstract!Ask, Abstract!Out
<1>2. ASSUME NEW t \in Threads, Lock(t) \/ LockSlowCas(t), pc'[t] = "write"
      PROVE  Abstract!EnterWrite(t)
  <2>1. state = kUnlocked /\ mode[t] = "wantWrite"
    BY <1>2, <1>t, ModeValues DEF Lock, LockSlowCas, TryWrite, TypeOK
  <2>2. mode' = [mode EXCEPT ![t] = "writing"]
    BY <1>2, <1>t DEF Lock, LockSlowCas, TryWrite, mode, TypeOK
  <2>3. \A u \in Threads : mode[u] \notin {"writing", "reading"}
    BY <2>1, <1>t, Decode, ModeValues DEF IInv, Writing, Announced
  <2> QED BY <2>1, <2>2, <2>3 DEF Abstract!EnterWrite
<1>3. ASSUME NEW t \in Threads, Lock(t) \/ LockSlowCas(t), pc'[t] # "write"
      PROVE  UNCHANGED mode
  BY <1>3, <1>t DEF Lock, LockSlowCas, TryWrite, mode, TypeOK
<1>4. ASSUME NEW t \in Threads, LockSlowLoad(t) PROVE UNCHANGED mode
  BY <1>4, <1>t DEF LockSlowLoad, mode, TypeOK
<1>5. ASSUME NEW t \in Threads, Unlock(t) \/ ReadUnlock(t) PROVE Abstract!Leave(t)
  <2>1. mode' = [mode EXCEPT ![t] = "out"]
    BY <1>5, <1>t DEF Unlock, ReadUnlock, mode, TypeOK
  <2> QED BY <1>5, <1>t, <2>1, ModeValues
          DEF Unlock, ReadUnlock, Abstract!Leave, Abstract!Out
<1>6. ASSUME NEW t \in Threads, ReadLock(t) \/ ReadLockSlow(t), pc'[t] = "read"
      PROVE  Abstract!EnterRead(t)
  <2>1. WriterBit(state) = 0 /\ mode[t] = "wantRead"
    BY <1>6, <1>t, ModeValues DEF ReadLock, ReadLockSlow, TypeOK
  <2>2. mode' = [mode EXCEPT ![t] = "reading"]
    BY <1>6, <1>t DEF ReadLock, ReadLockSlow, mode, TypeOK
  <2>3. \A u \in Threads : mode[u] # "writing"
    BY <2>1, <1>t, Decode, ModeValues DEF IInv, Writing
  <2> QED BY <2>1, <2>2, <2>3 DEF Abstract!EnterRead
<1>7. ASSUME NEW t \in Threads, ReadLock(t) \/ ReadLockSlow(t), pc'[t] # "read"
      PROVE  UNCHANGED mode
  BY <1>7, <1>t DEF ReadLock, ReadLockSlow, mode, TypeOK
<1>8. CASE UNCHANGED vars
  BY <1>8 DEF vars, mode
<1> QED BY <1>1, <1>2, <1>3, <1>4, <1>5, <1>6, <1>7, <1>8 DEF Next, Step, Abstract!Next

\* RWMutex implements the reader-writer lock its clients are written against
THEOREM Refinement == Spec => ImplementsLock
<1>1. Init => Abstract!Init
  BY DEF Init, Abstract!Init, Abstract!Out, mode
<1> QED BY <1>1, RefinesStep, Invariance, PTL DEF Spec, ImplementsLock, Abstract!Spec

-----------------------------------------------------------------------------
(* BlockingMutex: mutual exclusion, no lost wake-up, and the refinement of the *)
(* abstract lock.                                                              *)

\* The inductive invariant.  Each conjunct is inductive given FutexTypeOK.
FutexIInv == FutexTypeOK /\ HolderMarked /\ NoLostWakeup

LEMMA FutexInitIInv == FutexInit => FutexIInv
BY DEF FutexInit, FutexIInv, FutexTypeOK, HolderMarked, NoLostWakeup, MtxUnlocked, MtxLocked, MtxSleeping

\* Every step of Lock and Unlock keeps the lock word and the positions typed
LEMMA FutexTypeStep == FutexTypeOK /\ [FutexNext]_futexVars => FutexTypeOK'
<1> SUFFICES ASSUME FutexTypeOK, [FutexNext]_futexVars PROVE FutexTypeOK'
  OBVIOUS
<1> USE DEF FutexTypeOK, At, Goto, MtxUnlocked, MtxLocked, MtxSleeping
<1>1. ASSUME NEW t \in Threads, CallFutexLock(t) PROVE FutexTypeOK'
  BY <1>1 DEF CallFutexLock
<1>2. ASSUME NEW t \in Threads, LockFast(t) PROVE FutexTypeOK'
  BY <1>2 DEF LockFast
<1>3. ASSUME NEW t \in Threads, LockSlow(t) PROVE FutexTypeOK'
  BY <1>3 DEF LockSlow
<1>4. ASSUME NEW t \in Threads, FutexWait(t) PROVE FutexTypeOK'
  BY <1>4 DEF FutexWait
<1>5. ASSUME NEW t \in Threads, WaitInterrupted(t) PROVE FutexTypeOK'
  BY <1>5 DEF WaitInterrupted
<1>6. ASSUME NEW t \in Threads, UnlockExchange(t) PROVE FutexTypeOK'
  BY <1>6 DEF UnlockExchange
<1>7. ASSUME NEW t \in Threads, FutexWake(t) PROVE FutexTypeOK'
  BY <1>7 DEF FutexWake
<1>8. CASE UNCHANGED futexVars
  BY <1>8 DEF futexVars
<1> QED BY <1>1, <1>2, <1>3, <1>4, <1>5, <1>6, <1>7, <1>8 DEF FutexNext, FutexStep

\* Only the exchange that returned MtxUnlocked lets a thread in
LEMMA HolderStep == FutexTypeOK /\ HolderMarked /\ [FutexNext]_futexVars => HolderMarked'
<1> SUFFICES ASSUME FutexTypeOK, HolderMarked, [FutexNext]_futexVars PROVE HolderMarked'
  OBVIOUS
<1> USE DEF FutexTypeOK, HolderMarked, At, Goto, MtxUnlocked, MtxLocked, MtxSleeping
<1>1. ASSUME NEW t \in Threads, CallFutexLock(t) PROVE HolderMarked'
  BY <1>1 DEF CallFutexLock
<1>2. ASSUME NEW t \in Threads, LockFast(t) PROVE HolderMarked'
  BY <1>2 DEF LockFast
<1>3. ASSUME NEW t \in Threads, LockSlow(t) PROVE HolderMarked'
  BY <1>3 DEF LockSlow
<1>4. ASSUME NEW t \in Threads, FutexWait(t) PROVE HolderMarked'
  BY <1>4 DEF FutexWait
<1>5. ASSUME NEW t \in Threads, WaitInterrupted(t) PROVE HolderMarked'
  BY <1>5 DEF WaitInterrupted
<1>6. ASSUME NEW t \in Threads, UnlockExchange(t) PROVE HolderMarked'
  BY <1>6 DEF UnlockExchange
<1>7. ASSUME NEW t \in Threads, FutexWake(t) PROVE HolderMarked'
  BY <1>7 DEF FutexWake
<1>8. CASE UNCHANGED futexVars
  BY <1>8 DEF futexVars
<1> QED BY <1>1, <1>2, <1>3, <1>4, <1>5, <1>6, <1>7, <1>8 DEF FutexNext, FutexStep

\* A step that takes MtxSleeping out of the word leaves its thread in the slow
\* path or about to wake, and a thread leaves those places only by writing
\* MtxSleeping or by waking a sleeper into the slow path
LEMMA WakeupStep == FutexTypeOK /\ NoLostWakeup /\ [FutexNext]_futexVars => NoLostWakeup'
<1> SUFFICES ASSUME FutexTypeOK, NoLostWakeup, [FutexNext]_futexVars PROVE NoLostWakeup'
  OBVIOUS
<1> USE DEF FutexTypeOK, NoLostWakeup, At, Goto, MtxUnlocked, MtxLocked, MtxSleeping
<1>1. ASSUME NEW t \in Threads, CallFutexLock(t) PROVE NoLostWakeup'
  BY <1>1 DEF CallFutexLock
<1>2. ASSUME NEW t \in Threads, LockFast(t) PROVE NoLostWakeup'
  BY <1>2 DEF LockFast
<1>3. ASSUME NEW t \in Threads, LockSlow(t) PROVE NoLostWakeup'
  BY <1>3 DEF LockSlow
<1>4. ASSUME NEW t \in Threads, FutexWait(t) PROVE NoLostWakeup'
  BY <1>4 DEF FutexWait
<1>5. ASSUME NEW t \in Threads, WaitInterrupted(t) PROVE NoLostWakeup'
  BY <1>5 DEF WaitInterrupted
<1>6. ASSUME NEW t \in Threads, UnlockExchange(t) PROVE NoLostWakeup'
  BY <1>6 DEF UnlockExchange
<1>7. ASSUME NEW t \in Threads, FutexWake(t) PROVE NoLostWakeup'
  BY <1>7 DEF FutexWake
<1>8. CASE UNCHANGED futexVars
  BY <1>8 DEF futexVars
<1> QED BY <1>1, <1>2, <1>3, <1>4, <1>5, <1>6, <1>7, <1>8 DEF FutexNext, FutexStep

LEMMA FutexInvariance == FutexSpec => []FutexIInv
<1>1. FutexIInv /\ [FutexNext]_futexVars => FutexIInv'
  BY FutexTypeStep, HolderStep, WakeupStep DEF FutexIInv
<1> QED BY FutexInitIInv, <1>1, PTL DEF FutexSpec

\* The lock word and the program counters keep their types
THEOREM FutexTypeCorrect == FutexSpec => []FutexTypeOK
BY FutexInvariance, PTL DEF FutexIInv

\* BlockingMutex::Lock and Unlock give mutual exclusion, and the word is marked
\* exactly while somebody holds the lock
THEOREM MutualExclusion == FutexSpec => []HolderMarked
BY FutexInvariance, PTL DEF FutexIInv

\* However many threads race on the word, none sleeps unnoticed
THEOREM WakeupNotLost == FutexSpec => []NoLostWakeup
BY FutexInvariance, PTL DEF FutexIInv

-----------------------------------------------------------------------------
(* Its refinement.  The word changes under the clients' eyes all the time;   *)
(* what they see of it are three kinds of step.                              *)

\* How a client sees a thread, by the place it is at
LEMMA FutexModeValues ==
  ASSUME FutexTypeOK, NEW t \in Threads
  PROVE  /\ futexMode[t] = "writing" <=> pc[t] = "cs"
         /\ futexMode[t] = "wantWrite" <=> pc[t] \in {"lock", "slow", "wait", "asleep"}
         /\ futexMode[t] = "out" <=> pc[t] \in {"idle", "wake"}
         /\ futexMode[t] # "reading"
BY DEF futexMode, FutexTypeOK

\* What the clients see of a step is a step of the abstract lock, or nothing
LEMMA FutexRefinesStep == FutexIInv /\ FutexIInv' /\ [FutexNext]_futexVars => [FutexLock!Next]_futexMode
<1> SUFFICES ASSUME FutexIInv, FutexIInv', [FutexNext]_futexVars PROVE [FutexLock!Next]_futexMode
  OBVIOUS
<1> USE DEF FutexIInv, FutexTypeOK, At, Goto
<1>1. ASSUME NEW t \in Threads, CallFutexLock(t) PROVE FutexLock!Ask(t)
  <2>1. futexMode' = [futexMode EXCEPT ![t] = "wantWrite"]
    BY <1>1 DEF CallFutexLock, futexMode
  <2> QED BY <1>1, <2>1, FutexModeValues DEF CallFutexLock, FutexLock!Ask, FutexLock!Out
<1>2. ASSUME NEW t \in Threads, LockFast(t) \/ LockSlow(t), m = MtxUnlocked
      PROVE  FutexLock!EnterWrite(t)
  <2>1. futexMode' = [futexMode EXCEPT ![t] = "writing"]
    BY <1>2 DEF LockFast, LockSlow, futexMode
  <2>2. futexMode[t] = "wantWrite"
    BY <1>2, FutexModeValues DEF LockFast, LockSlow
  <2>3. \A u \in Threads : futexMode[u] \notin {"writing", "reading"}
    BY <1>2, FutexModeValues DEF HolderMarked
  <2> QED BY <2>1, <2>2, <2>3 DEF FutexLock!EnterWrite
<1>3. ASSUME NEW t \in Threads, LockFast(t) \/ LockSlow(t), m # MtxUnlocked
      PROVE  UNCHANGED futexMode
  BY <1>3 DEF LockFast, LockSlow, futexMode
<1>4. ASSUME NEW t \in Threads, FutexWait(t) \/ WaitInterrupted(t) PROVE UNCHANGED futexMode
  BY <1>4 DEF FutexWait, WaitInterrupted, futexMode
<1>5. ASSUME NEW t \in Threads, UnlockExchange(t) PROVE FutexLock!Leave(t)
  <2>1. futexMode' = [futexMode EXCEPT ![t] = "out"]
    BY <1>5 DEF UnlockExchange, futexMode
  <2> QED BY <1>5, <2>1, FutexModeValues DEF UnlockExchange, FutexLock!Leave, FutexLock!Out
<1>6. ASSUME NEW t \in Threads, FutexWake(t) PROVE UNCHANGED futexMode
  BY <1>6 DEF FutexWake, futexMode
<1>7. CASE UNCHANGED futexVars
  BY <1>7 DEF futexVars, futexMode
<1> QED BY <1>1, <1>2, <1>3, <1>4, <1>5, <1>6, <1>7 DEF FutexNext, FutexStep, FutexLock!Next

\* BlockingMutex implements the lock its clients are written against: whatever
\* the word and the futex do, they see threads ask, enter alone and leave
THEOREM FutexRefinement == FutexSpec => ImplementsMutex
<1>1. FutexInit => FutexLock!Init
  BY DEF FutexInit, FutexLock!Init, FutexLock!Out, futexMode
<1>2. FutexIInv /\ FutexIInv' /\ [FutexNext]_futexVars => [FutexLock!Next]_futexMode
  BY FutexRefinesStep
<1> QED BY <1>1, <1>2, FutexInvariance, PTL DEF FutexSpec, ImplementsMutex, FutexLock!Spec
=============================================================================
