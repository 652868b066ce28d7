--------------------------- MODULE ThreadRegistry ---------------------------
(***************************************************************************)
(* ThreadRegistry and ThreadContextBase of sanitizer_thread_registry: the   *)
(* table in which a sanitizer runtime keeps what it knows of each thread.   *)
(* Every operation holds mtx_ from beginning to end, so each is one step,   *)
(* except JoinThread, which takes the mutex anew for every look at the      *)
(* context it waits for.                                                    *)
(*                                                                          *)
(* The registry is one record, reg; the member functions are operators from *)
(* records to records.  A CHECK that fails ends the process: it clears      *)
(* reg.ok, and nothing happens after that.                                  *)
(*                                                                          *)
(* The clients are the threads of the program, as TSan's interceptors of    *)
(* pthread_create, pthread_join and pthread_detach report them: a thread is *)
(* created, then starts and finishes or fails to start, and if it is        *)
(* joinable somebody joins or detaches it, with calls that may fail before  *)
(* one succeeds.  They know it by the pthread_t, which is its user id and   *)
(* which the system gives to another thread once it is over, and look up    *)
(* the tid before the system's join or detach.  What becomes of a thread is *)
(* kept in handles, at the position of its unique_id + 1.                   *)
(***************************************************************************)
EXTENDS Naturals, Sequences, FiniteSets

CONSTANTS MaxThreads,            \* max_threads_
          ThreadQuarantineSize,  \* thread_quarantine_size_
          MaxReuse,              \* max_reuse_, 0 for no limit
          UserIds,               \* the values of pthread_t, 0 is none of them
          MaxTotal               \* bound: threads a behaviour creates

ASSUME RegistryAssumption ==
  /\ MaxThreads \in Nat \ {0}
  /\ ThreadQuarantineSize \in Nat \ {0}
  /\ MaxReuse \in Nat
  /\ MaxTotal \in Nat
  /\ 0 \notin UserIds

VARIABLES reg,      \* the ThreadRegistry
          handles,  \* what the program did with each thread it created
          limit     \* CreateThread hit the thread limit and the process died

vars == <<reg, handles, limit>>

Tids == 0 .. MaxThreads - 1
kUnknownTid == MaxThreads   \* any value that is no tid
Statuses == {"Invalid", "Created", "Running", "Finished", "Dead"}

NewContext == [status |-> "Invalid", unique_id |-> 0, reuse_count |-> 0, user_id |-> 0,
               detached |-> FALSE, destroyed |-> FALSE]

InitReg == [threads |-> [tid \in Tids |-> NewContext],
            n_contexts |-> 0, total |-> 0, alive |-> 0, max_alive |-> 0, running |-> 0,
            dead |-> <<>>, invalid |-> <<>>, ok |-> TRUE]

CHECK(r, cond) == [r EXCEPT !.ok = @ /\ cond]

-----------------------------------------------------------------------------
(* ThreadContextBase *)

SetDead(r, tid) ==
  [CHECK(r, r.threads[tid].status \in {"Running", "Finished"})
     EXCEPT !.threads[tid].status = "Dead", !.threads[tid].user_id = 0]

SetJoined(r, tid) ==
  [CHECK(r, ~ r.threads[tid].detached /\ r.threads[tid].status = "Finished")
     EXCEPT !.threads[tid].status = "Dead", !.threads[tid].user_id = 0]

\* A thread that never started goes to Finished even if it is detached
SetFinished(r, tid) ==
  IF ~ r.threads[tid].detached \/ r.threads[tid].status = "Created"
    THEN [r EXCEPT !.threads[tid].status = "Finished"]
    ELSE r

\* Mutant: the end of the thread is not published
DestroyedUnset(r, tid) == r

SetDestroyed(r, tid) == [r EXCEPT !.threads[tid].destroyed = TRUE]

\* Mutant: thread_destroyed keeps the value the last thread left
ResetStatusOnly(r, tid) == [r EXCEPT !.threads[tid].status = "Invalid"]

Reset(r, tid) ==
  [r EXCEPT !.threads[tid].status = "Invalid", !.threads[tid].destroyed = FALSE]

-----------------------------------------------------------------------------
(* The queues of dead and of reusable contexts *)

\* The context whose turn it is leaves the quarantine
Release(r) ==
  LET tid == Head(r.dead)
      released == Reset(CHECK([r EXCEPT !.dead = Tail(@)], r.threads[tid].status = "Dead"), tid)
      counted == [released EXCEPT !.threads[tid].reuse_count = @ + 1]
  IN  IF MaxReuse > 0 /\ counted.threads[tid].reuse_count >= MaxReuse
        THEN counted
        ELSE [counted EXCEPT !.invalid = Append(@, tid)]

\* Mutant: the context of the main thread is recycled as well
QuarantinePushAny(r, tid) ==
  LET pushed == [r EXCEPT !.dead = Append(@, tid)]
  IN  IF Len(pushed.dead) <= ThreadQuarantineSize THEN pushed ELSE Release(pushed)

\* Mutant: the quarantine is emptied one context too early
QuarantinePushShort(r, tid) ==
  IF tid = 0
    THEN r
    ELSE LET pushed == [r EXCEPT !.dead = Append(@, tid)]
         IN  IF Len(pushed.dead) < ThreadQuarantineSize THEN pushed ELSE Release(pushed)

QuarantinePush(r, tid) ==
  IF tid = 0
    THEN r
    ELSE LET pushed == [r EXCEPT !.dead = Append(@, tid)]
         IN  IF Len(pushed.dead) <= ThreadQuarantineSize THEN pushed ELSE Release(pushed)

\* QuarantinePop, or a context that was never used
CanCreate(r) == r.invalid # <<>> \/ r.n_contexts < MaxThreads
NextTid(r) == IF r.invalid # <<>> THEN Head(r.invalid) ELSE r.n_contexts
TakeContext(r) ==
  IF r.invalid # <<>> THEN [r EXCEPT !.invalid = Tail(@)]
                      ELSE [r EXCEPT !.n_contexts = @ + 1]

-----------------------------------------------------------------------------
(* ThreadRegistry *)

CreateThread(r, user_id, detached) ==
  LET tid == NextTid(r)
      taken == CHECK(TakeContext(r), r.threads[tid].status = "Invalid")
  IN  [taken EXCEPT
         !.alive = @ + 1,
         !.max_alive = IF @ < r.alive + 1 THEN @ + 1 ELSE @,
         !.ok = @ /\ (r.max_alive < r.alive + 1 => r.max_alive = r.alive),
         !.total = @ + 1,
         !.threads[tid].status = "Created",
         !.threads[tid].user_id = user_id,
         !.threads[tid].unique_id = r.total,
         !.threads[tid].detached = detached]

\* FindThread by user id, as FindThreadByUid and SetThreadNameByUserId look:
\* the first context in use that has the id
Matches(r, user_id) ==
  {tid \in 0 .. r.n_contexts - 1 :
     r.threads[tid].user_id = user_id /\ r.threads[tid].status # "Invalid"}
FindThread(r, user_id) ==
  IF Matches(r, user_id) = {} THEN kUnknownTid
  ELSE CHOOSE tid \in Matches(r, user_id) : \A other \in Matches(r, user_id) : tid <= other

\* Mutant: the lookup leaves the id with the thread that is about to be joined,
\* as the one of LeakSanitizer does
LookupKeepsId(r, user_id) == r

\* TSan's FindThreadByUid takes the id away from the thread it finds
TakeUserId(r, user_id) ==
  IF Matches(r, user_id) = {} THEN r
  ELSE [r EXCEPT !.threads[FindThread(r, user_id)].user_id = 0]

\* What ThreadNotJoined calls when the system did not join after all
SetThreadUserId(r, tid, user_id) ==
  [CHECK(r, /\ tid < r.n_contexts /\ r.threads[tid].status \notin {"Invalid", "Dead"}
            /\ r.threads[tid].user_id = 0)
     EXCEPT !.threads[tid].user_id = user_id]

StartThread(r, tid) ==
  LET checked == CHECK(r, tid < r.n_contexts /\ r.threads[tid].status = "Created")
  IN  [checked EXCEPT !.running = @ + 1, !.threads[tid].status = "Running"]

\* Mutant: a thread that never started is taken off the running ones, too
UncountBoth(r, tid) == [r EXCEPT !.alive = @ - 1, !.running = @ - 1]

\* Mutant: a thread that never started stays among the living
UncountStarted(r, tid) ==
  IF r.threads[tid].status = "Running"
    THEN [r EXCEPT !.alive = @ - 1, !.running = @ - 1]
    ELSE r

\* FinishThread takes the thread off alive_threads_ and off running_threads_ if it ran
Uncount(r, tid) ==
  [r EXCEPT !.alive = @ - 1,
            !.running = IF r.threads[tid].status = "Running" THEN @ - 1 ELSE @]

\* A thread that is detached, or never started, is dead at once
FinishThread(r, tid) ==
  LET started == r.threads[tid].status = "Running"
      checked == CHECK(r, /\ r.alive > 0
                          /\ tid < r.n_contexts
                          /\ IF started THEN r.running > 0
                                        ELSE r.threads[tid].status = "Created")
      finished == SetFinished(Uncount(checked, tid), tid)
      dead == r.threads[tid].detached \/ ~ started
      buried == IF dead THEN QuarantinePush(SetDead(finished, tid), tid) ELSE finished
  IN  SetDestroyed(buried, tid)

DetachThread(r, tid) ==
  LET checked == CHECK(r, tid < r.n_contexts)
  IN  IF r.threads[tid].status = "Invalid" THEN checked
      ELSE IF r.threads[tid].status = "Finished"
        THEN QuarantinePush(SetDead(checked, tid), tid)
        ELSE [checked EXCEPT !.threads[tid].detached = TRUE]

\* Mutant: the joiner goes by the status of the context alone
StatusSaysFinished(r, tid) == r.threads[tid].status # "Created"

\* GetDestroyed, what the loop of JoinThread waits for
GetDestroyed(r, tid) == r.threads[tid].destroyed

\* One round of the loop of JoinThread on an existing thread
JoinRound(r, tid) ==
  LET checked == CHECK(r, tid < r.n_contexts)
  IN  IF r.threads[tid].status # "Invalid" /\ GetDestroyed(r, tid)
        THEN QuarantinePush(SetJoined(checked, tid), tid)
        ELSE checked

-----------------------------------------------------------------------------
(* The clients.  A handle is the context a thread was given, its pthread_t,  *)
(* how far the thread is, who takes care of its end, and the tid that client *)
(* found.                                                                    *)

Handle == [tid : Tids, uid : UserIds \cup {0}, found : Tids \cup {kUnknownTid},
           phase : {"created", "running", "finished", "failed"},
           care : {"none", "bornDetached", "detaching", "letGo", "detached",
                   "joining", "ended", "joined", "lost"}]

Alive == reg.ok /\ ~ limit
Handles == 1 .. Len(handles)

\* The system still knows a thread by its pthread_t: it can reuse that of one
\* that is over and was joined or detached
Known(u) ==
  \/ handles[u].phase \in {"created", "running"}
  \/ handles[u].phase = "finished" /\ handles[u].care \in {"none", "detaching", "joining"}
FreeIds == UserIds \ {handles[u].uid : u \in {v \in Handles : Known(v)}}

Init == reg = InitReg /\ handles = <<>> /\ limit = FALSE

\* The first thread is the main thread, which every runtime creates detached;
\* later ones are created by threads that run
Create(detached) ==
  /\ Alive
  /\ Len(handles) < MaxTotal
  /\ IF handles = <<>> THEN detached ELSE \E u \in Handles : handles[u].phase = "running"
  /\ IF CanCreate(reg)
       THEN \E uid \in IF handles = <<>> THEN {0} ELSE FreeIds :
              /\ reg' = CreateThread(reg, uid, detached)
              /\ handles' = Append(handles, [tid |-> NextTid(reg), uid |-> uid,
                              found |-> kUnknownTid, phase |-> "created",
                              care |-> IF detached THEN "bornDetached" ELSE "none"])
              /\ UNCHANGED limit
       ELSE limit' = TRUE /\ UNCHANGED <<reg, handles>>

\* A thread calls an operation on its own context
Advance(u, from, to, after) ==
  /\ Alive
  /\ handles[u].phase = from
  /\ reg' = after
  /\ handles' = [handles EXCEPT ![u].phase = to]
  /\ UNCHANGED limit

Start(u) == Advance(u, "created", "running", StartThread(reg, handles[u].tid))
Finish(u) == Advance(u, "running", "finished", FinishThread(reg, handles[u].tid))

\* The system call that should have made the thread failed, and its creator
\* finishes the context for it
FailToStart(u) ==
  /\ u # 1 /\ handles[u].care \in {"none", "bornDetached"}
  /\ Advance(u, "created", "failed", FinishThread(reg, handles[u].tid))

\* The one client that takes care of a joinable thread looks its tid up ...
LookUp(u, care) ==
  /\ Alive
  /\ handles[u].care = "none" /\ handles[u].phase # "failed"
  /\ reg' = TakeUserId(reg, handles[u].uid)
  /\ handles' = [handles EXCEPT ![u].care = care,
                               ![u].found = FindThread(reg, handles[u].uid)]
  /\ UNCHANGED limit

CallDetach(u) == LookUp(u, "detaching")
CallJoin(u) == LookUp(u, "joining")

\* ... then calls the system, which may give the pthread_t to another thread at
\* once.  Its join may return a little before the thread's FinishThread ...
RealCall(u, from, to) ==
  /\ Alive
  /\ handles[u].care = from /\ handles[u].phase # "created"
  /\ handles' = [handles EXCEPT ![u].care = to]
  /\ UNCHANGED <<reg, limit>>

RealDetach(u) == RealCall(u, "detaching", "letGo")
RealJoin(u) == RealCall(u, "joining", "ended")

\* ... or times out, and then the client may try again
RealJoinFails(u) ==
  /\ Alive
  /\ handles[u].care = "joining"
  /\ reg' = SetThreadUserId(reg, handles[u].found, handles[u].uid)
  /\ handles' = [handles EXCEPT ![u].care = "none", ![u].found = kUnknownTid]
  /\ UNCHANGED limit

\* ... and reports to the registry.  ThreadJoin and ThreadDetach check the tid
Over(u, tid, care) ==
  handles' = [handles EXCEPT ![u].care =
                IF reg.threads[tid].status = "Invalid" THEN "lost" ELSE care]

Detach(u) ==
  LET tid == handles[u].found
  IN  /\ Alive
      /\ handles[u].care = "letGo"
      /\ IF tid \in Tids \ {0}
           THEN reg' = DetachThread(reg, tid) /\ Over(u, tid, "detached")
           ELSE reg' = CHECK(reg, FALSE) /\ UNCHANGED handles
      /\ UNCHANGED limit

\* A round of JoinThread that ends the loop; any other yields and looks again
JoinThread(u) ==
  LET tid == handles[u].found
  IN  /\ Alive
      /\ handles[u].care = "ended"
      /\ IF tid \in Tids \ {0}
           THEN /\ reg' = JoinRound(reg, tid)
                /\ Over(u, tid, IF GetDestroyed(reg, tid) THEN "joined" ELSE "ended")
           ELSE reg' = CHECK(reg, FALSE) /\ UNCHANGED handles
      /\ UNCHANGED limit

Next ==
  \/ \E d \in BOOLEAN : Create(d)
  \/ \E u \in Handles : \/ Start(u) \/ Finish(u) \/ FailToStart(u)
                        \/ CallDetach(u) \/ RealDetach(u) \/ Detach(u)
                        \/ CallJoin(u) \/ RealJoin(u) \/ RealJoinFails(u) \/ JoinThread(u)

Spec == Init /\ [][Next]_vars

\* A joiner that yields is scheduled again; threads may run for ever
FairSpec ==
  Spec /\ \A u \in 1 .. MaxTotal : WF_vars(u \in Handles /\ JoinThread(u))

-----------------------------------------------------------------------------
\* The registry, the handles and the process are what their declarations say
TypeOK ==
  /\ reg.threads \in [Tids -> [status : Statuses, unique_id : 0 .. MaxTotal,
                               reuse_count : 0 .. MaxTotal,
                               user_id : UserIds \cup {0},
                               detached : BOOLEAN, destroyed : BOOLEAN]]
  /\ reg.n_contexts \in 0 .. MaxThreads
  /\ \A c \in {"total", "alive", "max_alive", "running"} : reg[c] \in 0 .. MaxTotal
  /\ reg.dead \in Seq(Tids) /\ reg.invalid \in Seq(Tids)
  /\ reg.ok \in BOOLEAN /\ limit \in BOOLEAN
  /\ handles \in Seq(Handle)

WithStatus(S) == {tid \in Tids : reg.threads[tid].status \in S}

\* No CHECK of the registry can fail, and no join or detach finds a non-existent
\* thread, as long as each thread follows the life cycle of a thread, whatever
\* the order in which the threads, their joiners and their detachers come
NoCheckFails ==
  /\ reg.ok
  /\ \A u \in Handles : handles[u].care # "lost"

\* alive_threads_ and running_threads_ are the numbers of threads that live and run,
\* total_threads_ is that of the threads created so far
CountersMatch ==
  /\ reg.alive = Cardinality(WithStatus({"Created", "Running"}))
  /\ reg.running = Cardinality(WithStatus({"Running"}))
  /\ reg.alive <= reg.max_alive
  /\ reg.total = Len(handles)

\* A thread that lives or can still be joined has its context to itself, and
\* finds there what it left: its tid is not given to another thread, and the
\* joiner learns of its end and of nobody else's
ContextIsOwn ==
  \A u \in Handles :
    LET h == handles[u]
        c == reg.threads[h.tid]
    IN  /\ h.phase = "created" => c.status = "Created"
        /\ h.phase = "running" => c.status = "Running"
        /\ h.phase \in {"created", "running"} =>
             /\ c.unique_id = u - 1 /\ ~ c.destroyed
             /\ c.detached <=> h.care \in {"bornDetached", "detached"}
        /\ h.phase = "finished" /\ h.care \in {"none", "detaching", "letGo", "joining", "ended"} =>
             c.status = "Finished" /\ c.unique_id = u - 1 /\ c.destroyed /\ ~ c.detached

\* A lookup by pthread_t finds the thread that has it now: while nobody has begun
\* to join or detach it, FindThread returns its context and no other, though
\* the system reuses the ids of threads the registry still keeps; and the tid a
\* client found is that of the thread it joins or detaches
UserIdFindsThread ==
  \A u \in Handles :
    LET h == handles[u]
    IN  /\ Known(u) /\ h.uid # 0 /\ h.care \in {"none", "bornDetached"} =>
             FindThread(reg, h.uid) = h.tid
        /\ h.care \in {"detaching", "letGo", "joining", "ended"} => h.found = h.tid

Occurrences(queue, tid) == Cardinality({i \in DOMAIN queue : queue[i] = tid})
Retired(tid) == MaxReuse > 0 /\ reg.threads[tid].reuse_count >= MaxReuse

\* Every context that was handed out is in use, in the quarantine, ready for
\* reuse or retired, and in one of these only; the main thread's is never
\* recycled, and no tid serves more than MaxReuse threads
ContextsAccounted ==
  /\ Len(reg.dead) <= ThreadQuarantineSize
  /\ \A tid \in Tids :
       LET status == reg.threads[tid].status
       IN  /\ Occurrences(reg.dead, tid) = (IF status = "Dead" /\ tid # 0 THEN 1 ELSE 0)
           /\ Occurrences(reg.invalid, tid) =
                (IF status = "Invalid" /\ tid < reg.n_contexts /\ ~ Retired(tid) THEN 1 ELSE 0)
           /\ tid >= reg.n_contexts \/ Retired(tid) => status = "Invalid"
  /\ reg.n_contexts > 0 => reg.threads[0].unique_id = 0 /\ reg.threads[0].status # "Invalid"
  /\ MaxReuse > 0 => \A tid \in Tids :
                       Cardinality({u \in Handles : handles[u].tid = tid}) <= MaxReuse

\* What is known of a dead thread stays available until ThreadQuarantineSize
\* threads have died after it, and contexts are recycled in the order in which
\* their threads died
DeadStayQuarantined ==
  [][\A tid \in Tids :
       reg.threads[tid].status # "Invalid" /\ reg'.threads[tid].status = "Invalid" =>
         /\ reg.dead # <<>> /\ tid = Head(reg.dead)
         /\ Len(reg'.dead) = ThreadQuarantineSize]_vars

\* When the system has joined a thread and the thread has finished, JoinThread
\* returns
JoinReturns ==
  \A u \in 1 .. MaxTotal :
    (u \in Handles /\ handles[u].care = "ended" /\ handles[u].phase = "finished")
      ~> (limit \/ (u \in Handles /\ handles[u].care = "joined"))
=============================================================================
