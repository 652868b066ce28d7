------------------------------ MODULE AddrMap -------------------------------
(***************************************************************************)
(* What AddrHashMap promises the threads that hold handles: a handle finds  *)
(* the element of its address or creates it, a created element is nobody    *)
(* else's until its handle is released, and an element is removed by one    *)
(* handle that nobody shares.                                               *)
(***************************************************************************)
CONSTANTS Threads, Addrs

VARIABLES present,   \* the addresses that have an element
          handle     \* what each thread asks of an address or holds

Idle == [is |-> "idle"]
A(is, addr) == [is |-> is, addr |-> addr]
Ops == {"get", "find", "remove"}   \* find does not create

Init == present = {} /\ handle = [t \in Threads |-> Idle]

Becomes(t, is) == handle' = [handle EXCEPT ![t] = A(is, handle[t].addr)]
Held(a) == {t \in Threads : handle[t] \in {A(is, a) : is \in {"found", "created", "removing"}}}

Ask(t) ==
  /\ handle[t] = Idle
  /\ \E op \in Ops, a \in Addrs : handle' = [handle EXCEPT ![t] = A(op, a)]
  /\ UNCHANGED present

Find(t) ==
  /\ handle[t].is \in {"get", "find"}
  /\ handle[t].addr \in present
  /\ \A u \in Held(handle[t].addr) : handle[u].is = "found"
  /\ Becomes(t, "found")
  /\ UNCHANGED present

Create(t) ==
  /\ handle[t].is = "get"
  /\ handle[t].addr \notin present /\ Held(handle[t].addr) = {}
  /\ Becomes(t, "created")
  /\ UNCHANGED present

Take(t) ==
  /\ handle[t].is = "remove"
  /\ handle[t].addr \in present /\ Held(handle[t].addr) = {}
  /\ Becomes(t, "removing")
  /\ UNCHANGED present

Miss(t) ==
  /\ handle[t].is \in {"find", "remove"}
  /\ handle[t].addr \notin present
  /\ Becomes(t, "leaving")
  /\ UNCHANGED present

Release(t) ==
  \/ /\ handle[t].is = "found"
     /\ handle' = [handle EXCEPT ![t] = Idle]
     /\ UNCHANGED present
  \/ /\ handle[t].is = "created"
     /\ present' = present \cup {handle[t].addr}
     /\ Becomes(t, "leaving")
  \/ /\ handle[t].is = "removing"
     /\ present' = present \ {handle[t].addr}
     /\ Becomes(t, "leaving")

Leave(t) ==
  /\ handle[t].is = "leaving"
  /\ handle' = [handle EXCEPT ![t] = Idle]
  /\ UNCHANGED present

Next ==
  \E t \in Threads :
    Ask(t) \/ Find(t) \/ Create(t) \/ Take(t) \/ Miss(t) \/ Release(t) \/ Leave(t)

Spec == Init /\ [][Next]_<<present, handle>>
=============================================================================
