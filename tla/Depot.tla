------------------------------- MODULE Depot --------------------------------
(***************************************************************************)
(* What a stack depot promises: a stack gets an identifier of its own the   *)
(* first time it is put, and keeps it; an identifier leads back to its      *)
(* stack; and nothing is added while a thread has the depot locked to fork. *)
(***************************************************************************)
CONSTANTS Threads, Stacks, NoStack, Ids

VARIABLES ids,    \* the identifier of every stack put so far
          call    \* what each thread is asking, or the answer it got

NoId == 0

Idle == [op |-> "idle"]
Gone == [op |-> "gone"]
Asked(op, arg) == [op |-> op, arg |-> arg]
Answered(ans) == [op |-> "answered", ans |-> ans]
Answer(t, ans) == call' = [call EXCEPT ![t] = Answered(ans)]

StackOf(id) == CHOOSE s \in DOMAIN ids : ids[s] = id

Init == ids = [s \in {} |-> NoId] /\ call = [t \in Threads |-> Idle]

Ask(t) ==
  /\ call[t] = Idle
  /\ \/ \E s \in Stacks : call' = [call EXCEPT ![t] = Asked("put", s)]
     \/ \E s \in DOMAIN ids : call' = [call EXCEPT ![t] = Asked("get", ids[s])]
     \/ \E none \in {NoId, NoStack} : Answer(t, none)   \* nothing put, nothing got
     \/ call' = [call EXCEPT ![t] = Asked("fork", NoId)]
  /\ UNCHANGED ids

Insert(t, s, id) ==
  /\ call[t] = Asked("put", s)
  /\ s \notin DOMAIN ids
  /\ \A r \in DOMAIN ids : ids[r] # id
  /\ \A u \in Threads : call[u].op # "forking"
  /\ ids' = [r \in DOMAIN ids \cup {s} |-> IF r = s THEN id ELSE ids[r]]
  /\ Answer(t, id)

Reply(t) ==
  /\ \/ \E s \in DOMAIN ids : call[t] = Asked("put", s) /\ Answer(t, ids[s])
     \/ call[t].op = "forked" /\ Answer(t, NoId)
     \/ call[t].op = "get" /\ Answer(t, StackOf(call[t].arg))
  /\ UNCHANGED ids

\* One thread at a time forks, and goes on as the parent or as the child
BeginFork(t) ==
  /\ call[t].op = "fork"
  /\ \A u \in Threads : call[u].op # "forking"
  /\ call' = [call EXCEPT ![t] = Asked("forking", NoId)]
  /\ UNCHANGED ids

BecomeParent(t) ==
  /\ call[t].op = "forking"
  /\ call' = [call EXCEPT ![t] = Asked("forked", NoId)]
  /\ UNCHANGED ids

BecomeChild(t) ==
  /\ call[t].op = "forking"
  /\ call' = [u \in Threads |-> IF u = t THEN Asked("forked", NoId) ELSE Gone]
  /\ UNCHANGED ids

Return(t) ==
  /\ call[t].op = "answered"
  /\ call' = [call EXCEPT ![t] = Idle]
  /\ UNCHANGED ids

Next ==
  \E t \in Threads :
    \/ Ask(t) \/ Reply(t) \/ Return(t)
    \/ \E s \in Stacks, id \in Ids : Insert(t, s, id)
    \/ BeginFork(t) \/ BecomeParent(t) \/ BecomeChild(t)

Spec == Init /\ [][Next]_<<ids, call>>
=============================================================================
