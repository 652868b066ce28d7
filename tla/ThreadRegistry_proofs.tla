----------------------- MODULE ThreadRegistry_proofs ------------------------
(* The thread registry for any number of contexts, any size of the quarantine *)
(* and limit of reuse, any values of pthread_t and any number of threads.     *)
(*                                                                            *)
(* A context in use names, by its unique_id, the thread it serves, and says   *)
(* of it what the thread and its joiner did; every thread that is not over    *)
(* and done with has such a context; and the queues hold, once each, exactly  *)
(* the dead contexts and the reusable ones.                                   *)
EXTENDS ThreadRegistry, FiniteSetTheorems, SequenceTheorems, TLAPS

Context == [status : Statuses, unique_id : 0 .. MaxTotal, reuse_count : Nat,
            user_id : UserIds \cup {0}, detached : BOOLEAN, destroyed : BOOLEAN]
Registry == [threads : [Tids -> Context], n_contexts : 0 .. MaxThreads,
             total : Nat, alive : Nat, max_alive : Nat, running : Nat,
             dead : Seq(Tids), invalid : Seq(Tids), ok : BOOLEAN]

TypeInv ==
  /\ reg \in Registry
  /\ handles \in Seq(Handle)
  /\ limit \in BOOLEAN

In(queue, tid) == \E i \in DOMAIN queue : queue[i] = tid
Once(queue) == \A i, j \in DOMAIN queue : queue[i] = queue[j] => i = j
WornOut(c) == MaxReuse > 0 /\ c.reuse_count >= MaxReuse

\* What the queues hold, and what a context holds that nobody uses; the contexts
\* in out are dead and not yet in quarantine
Queued(r, tid, out) ==
  LET c == r.threads[tid]
  IN  /\ In(r.dead, tid) <=> c.status = "Dead" /\ tid # 0 /\ tid \notin out
      /\ In(r.invalid, tid) <=> c.status = "Invalid" /\ tid < r.n_contexts /\ ~ WornOut(c)
      /\ tid >= r.n_contexts \/ WornOut(c) => c.status = "Invalid"
      /\ c.status = "Invalid" => ~ c.destroyed
      /\ tid >= r.n_contexts => c.reuse_count = 0
      /\ MaxReuse > 0 => c.reuse_count <= MaxReuse

Queues(r, out) ==
  /\ Len(r.dead) <= ThreadQuarantineSize
  /\ Once(r.dead) /\ Once(r.invalid)
  /\ \A tid \in Tids : Queued(r, tid, out)
  /\ r.n_contexts > 0 => r.threads[0].status # "Invalid"

\* Who takes care of a thread and is not done yet, and whether the system knows it
Pending == {"none", "detaching", "letGo", "joining", "ended"}
Knows(h) ==
  \/ h.phase \in {"created", "running"}
  \/ h.phase = "finished" /\ h.care \in {"none", "detaching", "joining"}

\* What a context says of the thread it serves
StatusOf(h) ==
  IF h.phase = "created" THEN "Created"
  ELSE IF h.phase = "running" THEN "Running"
  ELSE IF h.phase = "finished" /\ h.care \in Pending THEN "Finished"
  ELSE "Dead"

Describes(c, h) ==
  /\ c.status = StatusOf(h)
  /\ c.destroyed <=> h.phase \in {"finished", "failed"}
  /\ c.status # "Dead" => (c.detached <=> h.care \in {"bornDetached", "detached"})
  /\ c.user_id = IF c.status # "Dead" /\ h.care \in {"none", "bornDetached"} THEN h.uid ELSE 0

Serves(hs, tid, c) ==
  /\ c.unique_id + 1 \in DOMAIN hs
  /\ hs[c.unique_id + 1].tid = tid
  /\ Describes(c, hs[c.unique_id + 1])

\* How a thread and its joiner or detacher go on
LifeOK(u, h) ==
  /\ h.tid = 0 <=> u = 1
  /\ u = 1 => h.care = "bornDetached" /\ h.uid = 0 /\ h.phase # "failed"
  /\ u # 1 => h.uid # 0
  /\ h.care # "lost"
  /\ h.care \in {"detaching", "letGo", "joining", "ended"} => h.found = h.tid
  /\ h.phase = "created" => h.care \in {"none", "bornDetached", "detaching", "joining"}
  /\ h.phase = "running" => h.care # "joined"
  /\ h.phase = "failed" => h.care \in {"none", "bornDetached"}

HandlesOK(r, hs) ==
  \A u \in DOMAIN hs :
    /\ LifeOK(u, hs[u])
    /\ StatusOf(hs[u]) # "Dead" =>
         r.threads[hs[u].tid].status # "Invalid" /\ r.threads[hs[u].tid].unique_id = u - 1

ContextsOK(r, hs) ==
  \A tid \in Tids : r.threads[tid].status # "Invalid" => Serves(hs, tid, r.threads[tid])

IdsDiffer(hs) ==
  \A u, v \in DOMAIN hs :
    Knows(hs[u]) /\ Knows(hs[v]) /\ hs[u].uid = hs[v].uid /\ u # 1 => u = v

\* The counters, and how many threads a context has served
Having(r, S) == {tid \in Tids : r.threads[tid].status \in S}
Served(hs, tid) == {u \in DOMAIN hs : hs[u].tid = tid}

Counts(r, hs) ==
  /\ r.alive = Cardinality(Having(r, {"Created", "Running"}))
  /\ r.running = Cardinality(Having(r, {"Running"}))
  /\ r.alive <= r.max_alive /\ r.max_alive <= r.total
  /\ r.total = Len(hs) /\ Len(hs) <= MaxTotal
  /\ hs = <<>> <=> r.n_contexts = 0

Uses(r, hs) ==
  \A tid \in Tids :
    Cardinality(Served(hs, tid)) =
      r.threads[tid].reuse_count + (IF r.threads[tid].status = "Invalid" THEN 0 ELSE 1)

\* A context becomes free only at the end of a full quarantine, in its turn
Frees(r, q) ==
  \A tid \in Tids :
    r.threads[tid].status # "Invalid" /\ q.threads[tid].status = "Invalid" =>
      r.dead # <<>> /\ tid = Head(r.dead) /\ Len(q.dead) = ThreadQuarantineSize

Good(r, hs) ==
  /\ HandlesOK(r, hs) /\ ContextsOK(r, hs) /\ IdsDiffer(hs)
  /\ Counts(r, hs) /\ Uses(r, hs)

IInv ==
  /\ TypeInv
  /\ reg.ok
  /\ Queues(reg, {})
  /\ Good(reg, handles)

-----------------------------------------------------------------------------
\* Queues
LEMMA PushedBack ==
  ASSUME NEW X, NEW s \in Seq(X), NEW x \in X
  PROVE  /\ Append(s, x) \in Seq(X) /\ Len(Append(s, x)) = Len(s) + 1
         /\ Append(s, x) # <<>> /\ Head(Append(s, x)) = IF s = <<>> THEN x ELSE Head(s)
         /\ \A y : In(Append(s, x), y) <=> In(s, y) \/ y = x
         /\ Once(s) /\ ~ In(s, x) => Once(Append(s, x))
<1> PICK a \in Seq(X) : a = Append(s, x)
  BY AppendProperties
<1>1. /\ Len(a) = Len(s) + 1 /\ a # <<>> /\ a[Len(s) + 1] = x
      /\ \A i \in 1 .. Len(s) : a[i] = s[i]
      /\ Len(s) \in Nat /\ DOMAIN s = 1 .. Len(s) /\ DOMAIN a = 1 .. Len(s) + 1
  BY AppendProperties, LenProperties
<1>2. \A i \in DOMAIN a : (i \in DOMAIN s /\ a[i] = s[i]) \/ (i = Len(s) + 1 /\ a[i] = x)
  BY <1>1
<1>3. \A i \in DOMAIN s : i \in DOMAIN a /\ a[i] = s[i] /\ i # Len(s) + 1
  BY <1>1
<1>4. Len(s) + 1 \in DOMAIN a
  BY <1>1
<1>5. Head(a) = IF s = <<>> THEN x ELSE Head(s)
  <2>1. Head(a) = a[1] /\ (s # <<>> => Head(s) = s[1] /\ 1 \in DOMAIN s)
    BY HeadTailProperties, <1>1
  <2>2. s = <<>> => Len(s) = 0
    BY EmptySeq
  <2> QED
    BY <1>1, <2>1, <2>2
<1>6. \A y : In(a, y) <=> In(s, y) \/ y = x
  BY <1>1, <1>2, <1>3, <1>4 DEF In
<1>7. Once(s) /\ ~ In(s, x) => Once(a)
  BY <1>2 DEF In, Once
<1> QED
  BY <1>1, <1>5, <1>6, <1>7

\* What leaves a queue without repetitions
LEMMA PoppedFront ==
  ASSUME NEW X, NEW s \in Seq(X), s # <<>>, Once(s)
  PROVE  /\ Head(s) \in X /\ In(s, Head(s))
         /\ Tail(s) \in Seq(X) /\ Len(Tail(s)) = Len(s) - 1
         /\ \A y : In(Tail(s), y) <=> In(s, y) /\ y # Head(s)
         /\ Once(Tail(s))
<1> PICK b \in Seq(X) : b = Tail(s)
  BY HeadTailProperties
<1>1. /\ Head(s) \in X /\ Head(s) = s[1] /\ Len(b) = Len(s) - 1
      /\ \A i \in 1 .. Len(b) : b[i] = s[i + 1]
      /\ Len(s) \in Nat /\ DOMAIN s = 1 .. Len(s) /\ DOMAIN b = 1 .. Len(s) - 1
      /\ 1 \in DOMAIN s
  <2>1. Len(s) # 0
    BY EmptySeq
  <2> QED
    BY <2>1, HeadTailProperties, LenProperties
<1>2. \A i \in DOMAIN b : b[i] = s[i + 1] /\ i + 1 \in DOMAIN s /\ i + 1 # 1
  BY <1>1
<1>3. \A i \in DOMAIN s : i = 1 \/ (i - 1 \in DOMAIN b /\ b[i - 1] = s[i])
  <2> TAKE i \in DOMAIN s
  <2>1. i # 1 => i - 1 \in 1 .. Len(b) /\ (i - 1) + 1 = i
    BY <1>1
  <2> QED
    BY <1>1, <2>1
<1>4. In(s, Head(s))
  BY <1>1 DEF In
<1>5. \A y : In(b, y) <=> In(s, y) /\ y # Head(s)
  <2> TAKE y
  <2>1. In(b, y) => In(s, y) /\ y # Head(s)
    BY <1>1, <1>2 DEF In, Once
  <2>2. In(s, y) /\ y # Head(s) => In(b, y)
    BY <1>1, <1>3 DEF In
  <2> QED
    BY <2>1, <2>2
<1>6. Once(b)
  <2> SUFFICES ASSUME NEW i \in DOMAIN b, NEW j \in DOMAIN b, b[i] = b[j]
               PROVE  i = j
    BY DEF Once
  <2>1. i + 1 = j + 1
    BY <1>2 DEF Once
  <2>2. i \in Int /\ j \in Int
    BY <1>1
  <2> QED
    BY <2>1, <2>2
<1> QED
  BY <1>1, <1>4, <1>5, <1>6

-----------------------------------------------------------------------------
\* The registry with another context for x, and its other fields
With(r, x, c) == [r EXCEPT !.threads = [r.threads EXCEPT ![x] = c]]

Same(r, s) ==
  /\ s.n_contexts = r.n_contexts /\ s.total = r.total /\ s.alive = r.alive
  /\ s.max_alive = r.max_alive /\ s.running = r.running /\ s.ok = r.ok

\* With changes one context and nothing else
LEMMA WithContext ==
  ASSUME NEW r \in Registry, NEW x \in Tids, NEW c \in Context
  PROVE  /\ With(r, x, c) \in Registry
         /\ With(r, x, c).threads = [r.threads EXCEPT ![x] = c]
         /\ With(r, x, c).dead = r.dead /\ With(r, x, c).invalid = r.invalid
         /\ Same(r, With(r, x, c))
BY DEF With, Registry, Same

\* The second of two changes of a context is what remains
LEMMA WithTwice ==
  ASSUME NEW r \in Registry, NEW x \in Tids, NEW c \in Context
  PROVE  \A d \in Context : With(With(r, x, c), x, d) = With(r, x, d)
BY DEF With, Registry

\* The context that leaves the quarantine
Freed(c) == [c EXCEPT !.status = "Invalid", !.destroyed = FALSE, !.reuse_count = @ + 1]

LEMMA FreedContext ==
  ASSUME NEW c \in Context
  PROVE  /\ Freed(c) \in Context
         /\ Freed(c).status = "Invalid" /\ Freed(c).reuse_count = c.reuse_count + 1
         /\ ~ Freed(c).destroyed
<1> PICK n \in Nat : n = c.reuse_count + 1
  BY DEF Context
<1>1. Freed(c) = [c EXCEPT !.status = "Invalid", !.destroyed = FALSE, !.reuse_count = n]
  BY DEF Freed
<1> QED
  BY <1>1, Zenon DEF Context, Statuses

\* Release frees the first of the dead contexts, and queues it unless it is worn out
LEMMA ReleaseEffect ==
  ASSUME NEW r \in Registry, r.dead # <<>>, r.threads[Head(r.dead)].status = "Dead"
  PROVE  /\ Release(r) \in Registry
         /\ Release(r).threads = [r.threads EXCEPT ![Head(r.dead)] = Freed(r.threads[Head(r.dead)])]
         /\ Release(r).dead = Tail(r.dead)
         /\ Release(r).invalid = IF WornOut(Freed(r.threads[Head(r.dead)])) THEN r.invalid
                                 ELSE Append(r.invalid, Head(r.dead))
         /\ Same(r, Release(r))
<1> PICK x \in Tids : x = Head(r.dead)
  BY HeadTailProperties DEF Registry
<1> PICK c \in Context : c = r.threads[x]
  BY DEF Registry
<1> DEFINE checked == CHECK([r EXCEPT !.dead = Tail(@)], r.threads[x].status = "Dead")
           reset == [c EXCEPT !.status = "Invalid", !.destroyed = FALSE]
           released == Reset(checked, x)
           counted == [released EXCEPT !.threads[x].reuse_count = @ + 1]
           Used(f) == [f EXCEPT !.reuse_count = @ + 1]
<1>1. Tail(r.dead) \in Seq(Tids) /\ Append(r.invalid, x) \in Seq(Tids)
  BY HeadTailProperties, AppendProperties DEF Registry
<1>2. /\ checked \in Registry /\ checked.threads = r.threads /\ checked.dead = Tail(r.dead)
      /\ checked.invalid = r.invalid /\ Same(r, checked)
  BY <1>1 DEF CHECK, Registry, Same
<1> HIDE DEF checked
<1>3. reset \in Context /\ Freed(c) \in Context /\ Used(reset) = Freed(c)
  BY FreedContext DEF Context, Statuses, Freed
<1>4. released = With(checked, x, reset)
  BY <1>2 DEF Reset, With, Registry, Context
<1> PICK k \in Registry : k = checked
  BY <1>2
<1> PICK e \in Context : e = reset
  BY <1>3
<1>5. counted = With(k, x, Freed(c))
  <2>1. With(k, x, e).threads[x] = e
    BY DEF With, Registry
  <2>2. counted = With(With(k, x, e), x, Used(With(k, x, e).threads[x]))
    BY <1>4 DEF With
  <2> HIDE DEF counted, Used, reset
  <2>3. counted = With(With(k, x, e), x, Freed(c))
    BY <1>3, <2>1, <2>2
  <2> QED
    BY <1>3, <2>3, WithTwice
<1> HIDE DEF counted
<1>6. /\ counted \in Registry /\ counted.threads = [r.threads EXCEPT ![x] = Freed(c)]
      /\ counted.threads[x] = Freed(c)
      /\ counted.dead = Tail(r.dead) /\ counted.invalid = r.invalid /\ Same(r, counted)
  BY <1>2, <1>3, <1>5, WithContext DEF Same, With, Registry
<1>7. Release(r) = IF WornOut(Freed(c)) THEN counted
                   ELSE [counted EXCEPT !.invalid = Append(r.invalid, x)]
  BY <1>6 DEF Release, WornOut, checked, released, counted
<1> DEFINE pushed == [counted EXCEPT !.invalid = Append(r.invalid, x)]
<1>8. /\ pushed \in Registry /\ pushed.threads = counted.threads
      /\ pushed.dead = counted.dead /\ pushed.invalid = Append(r.invalid, x)
      /\ Same(counted, pushed)
  BY <1>1, <1>6 DEF Registry, Same
<1> HIDE DEF pushed
<1>9. Release(r) = IF WornOut(Freed(c)) THEN counted ELSE pushed
  BY <1>7 DEF pushed
<1> QED
  BY <1>6, <1>8, <1>9 DEF Same

-----------------------------------------------------------------------------
\* A dead context enters the quarantine, and the first to have entered may leave
Leaves(r, s, x) ==
  /\ x \in Tids /\ r.threads[x].status = "Dead"
  /\ \A y \in Tids : s.threads[y] = IF y = x THEN Freed(r.threads[x]) ELSE r.threads[y]
  /\ r.dead # <<>> /\ x = Head(r.dead) /\ Len(s.dead) = ThreadQuarantineSize

Pushed(r, s, tid) ==
  /\ s \in Registry /\ Same(r, s) /\ Queues(s, {})
  /\ s.threads = r.threads \/ \E x \in Tids \ {tid} : Leaves(r, s, x)

\* QuarantinePush leaves the queues in order, and frees at most another context
LEMMA PushEffect ==
  ASSUME NEW r \in Registry, NEW tid \in Tids,
         r.threads[tid].status = "Dead", Queues(r, {tid})
  PROVE  Pushed(r, QuarantinePush(r, tid), tid)
<1> DEFINE p == [r EXCEPT !.dead = Append(@, tid)]
<1>0. /\ r.dead \in Seq(Tids) /\ r.invalid \in Seq(Tids)
      /\ r.threads \in [Tids -> Context] /\ Tids \subseteq Nat
      /\ r.n_contexts \in Nat
      /\ ThreadQuarantineSize \in Nat \ {0}
  BY RegistryAssumption DEF Registry, Tids
<1>1. /\ Append(r.dead, tid) \in Seq(Tids) /\ Len(Append(r.dead, tid)) = Len(r.dead) + 1
      /\ Append(r.dead, tid) # <<>>
      /\ Head(Append(r.dead, tid)) = IF r.dead = <<>> THEN tid ELSE Head(r.dead)
      /\ \A y : In(Append(r.dead, tid), y) <=> In(r.dead, y) \/ y = tid
      /\ Once(r.dead) /\ ~ In(r.dead, tid) => Once(Append(r.dead, tid))
      /\ Len(r.dead) \in Nat
  BY <1>0, PushedBack, LenProperties
<1>2. /\ Once(r.dead) /\ Once(r.invalid) /\ Len(r.dead) <= ThreadQuarantineSize
      /\ ~ In(r.dead, tid)
      /\ \A y \in Tids : Queued(r, y, {tid})
      /\ r.n_contexts > 0 => r.threads[0].status # "Invalid"
  BY DEF Queues, Queued
<1>3. CASE tid = 0
  <2>1. QuarantinePush(r, tid) = r
    BY <1>3 DEF QuarantinePush
  <2>2. \A y \in Tids : Queued(r, y, {})
    BY <1>2, <1>3 DEF Queued
  <2> QED
    BY <1>2, <2>1, <2>2 DEF Pushed, Same, Queues
<1>4. CASE tid # 0
  <2>1. /\ p \in Registry /\ p.threads = r.threads /\ p.dead = Append(r.dead, tid)
        /\ p.invalid = r.invalid /\ Same(r, p)
    BY <1>1 DEF Registry, Same
  <2>2. QuarantinePush(r, tid) = IF Len(p.dead) <= ThreadQuarantineSize THEN p ELSE Release(p)
    BY <1>4 DEF QuarantinePush
  <2> HIDE DEF p
  <2>3. \A y \in Tids : Queued(p, y, {})
    BY <1>1, <1>2, <1>4, <2>1 DEF Queued, Same
  <2>4. CASE Len(p.dead) <= ThreadQuarantineSize
    BY <1>1, <1>2, <2>1, <2>2, <2>3, <2>4 DEF Pushed, Queues, Same
  <2>5. CASE ~ (Len(p.dead) <= ThreadQuarantineSize)
    <3>1. Len(p.dead) = ThreadQuarantineSize + 1 /\ r.dead # <<>>
      <4>1. Len(p.dead) = ThreadQuarantineSize + 1 /\ Len(r.dead) # 0
        BY <1>0, <1>1, <1>2, <2>1, <2>5
      <4> QED
        BY <4>1, EmptySeq
    <3> PICK x \in Tids : x = Head(r.dead)
      BY <1>0, <3>1, HeadTailProperties
    <3>2. x = Head(p.dead) /\ p.dead # <<>> /\ Once(p.dead)
      BY <1>1, <1>2, <2>1, <3>1
    <3>3. In(r.dead, x)
      BY <1>0, <1>2, <3>1, PoppedFront
    <3>4. r.threads[x].status = "Dead" /\ x # 0 /\ x # tid
      BY <1>2, <3>3 DEF Queued
    <3> PICK s \in Registry : s = Release(p)
      BY <2>1, <3>2, <3>4, ReleaseEffect
    <3> PICK c \in Context : c = r.threads[x]
      BY <1>0
    <3>5. /\ s.threads = [r.threads EXCEPT ![x] = Freed(c)]
          /\ s.dead = Tail(p.dead)
          /\ s.invalid = IF WornOut(Freed(c)) THEN r.invalid ELSE Append(r.invalid, x)
          /\ Same(r, s)
      BY <2>1, <3>2, <3>4, ReleaseEffect DEF Same
    <3>6. \A y \in Tids : s.threads[y] = IF y = x THEN Freed(c) ELSE r.threads[y]
      BY <1>0, <3>5
    <3>7. /\ Len(s.dead) = ThreadQuarantineSize /\ Once(s.dead)
          /\ \A y : In(s.dead, y) <=> In(p.dead, y) /\ y # x
      <4>1. p.dead \in Seq(Tids)
        BY <1>1, <2>1
      <4>2. Len(Tail(p.dead)) = Len(p.dead) - 1
        BY <3>2, <4>1, PoppedFront
      <4>3. Once(Tail(p.dead)) /\ \A y : In(Tail(p.dead), y) <=> In(p.dead, y) /\ y # x
        BY <3>2, <4>1, PoppedFront
      <4> QED
        BY <1>0, <3>1, <3>5, <4>2, <4>3
    <3>8. /\ ~ In(r.invalid, x) /\ x < r.n_contexts
      BY <1>0, <1>2, <3>4 DEF Queued
    <3>9. /\ Once(s.invalid)
          /\ \A y : In(s.invalid, y) <=> In(r.invalid, y) \/ (y = x /\ ~ WornOut(Freed(c)))
      BY <1>0, <1>2, <3>5, <3>8, PushedBack
    <3>10. \A y \in Tids : Queued(s, y, {})
      <4> TAKE y \in Tids
      <4>1. Queued(p, y, {}) /\ p.threads[y] = r.threads[y] /\ s.n_contexts = r.n_contexts
            /\ p.n_contexts = r.n_contexts
        BY <2>1, <2>3, <3>5 DEF Same
      <4>2. CASE y = x
        <5>1. MaxReuse > 0 => Freed(c).reuse_count <= MaxReuse
          <6>1. c.reuse_count \in Nat /\ MaxReuse \in Nat
            BY RegistryAssumption DEF Context
          <6>2. ~ WornOut(c)
            BY <1>2, <3>4 DEF Queued
          <6> QED
            BY <6>1, <6>2, FreedContext DEF WornOut
        <5> QED
          BY <1>0, <3>6, <3>7, <3>8, <3>9, <4>1, <4>2, <5>1, FreedContext DEF Queued
      <4>3. CASE y # x
        BY <2>1, <3>6, <3>7, <3>9, <4>1, <4>3 DEF Queued
      <4> QED
        BY <4>2, <4>3
    <3>11. s.n_contexts > 0 => s.threads[0].status # "Invalid"
      <4>1. 0 \in Tids
        BY RegistryAssumption DEF Tids
      <4> QED
        BY <1>2, <3>4, <3>5, <3>6, <4>1 DEF Same
    <3>12. Queues(s, {})
      BY <1>0, <3>7, <3>9, <3>10, <3>11 DEF Queues
    <3>13. Leaves(r, s, x)
      BY <3>1, <3>4, <3>6, <3>7 DEF Leaves
    <3> QED
      BY <2>2, <2>5, <3>4, <3>5, <3>12, <3>13 DEF Pushed
  <2> QED
    BY <2>4, <2>5
<1> QED
  BY <1>3, <1>4

-----------------------------------------------------------------------------
\* A thread goes on: its handle and its context change together
\* Whether a context counts
Among(c, S) == IF c.status \in S THEN 1 ELSE 0

\* A context that changes with its thread, and the one that is then freed
Counted(r, s, c, d) ==
  /\ s.alive + Among(c, {"Created", "Running"}) = r.alive + Among(d, {"Created", "Running"})
  /\ s.running + Among(c, {"Running"}) = r.running + Among(d, {"Running"})
  /\ s.n_contexts = r.n_contexts /\ s.total = r.total /\ s.max_alive = r.max_alive

\* The registry s is r with the context c for x, and the counters follow
Moved(r, s, x, c) ==
  /\ s \in Registry /\ c \in Context
  /\ \A y \in Tids : s.threads[y] = IF y = x THEN c ELSE r.threads[y]
  /\ s.dead = r.dead /\ s.invalid = r.invalid
  /\ Counted(r, s, r.threads[x], c) /\ s.alive <= r.alive
  /\ c.unique_id = r.threads[x].unique_id /\ c.reuse_count = r.threads[x].reuse_count

\* The handle h is that of thread u, a step later, and c the context that goes with it
Continues(hs, u, c, h) ==
  /\ h \in Handle /\ h.tid = hs[u].tid /\ h.uid = hs[u].uid
  /\ Describes(c, h) /\ LifeOK(u, h)
  /\ Knows(h) => Knows(hs[u])

\* What is known of thread u and, unless it is over, of its context
LEMMA Parts ==
  ASSUME NEW r \in Registry, NEW hs \in Seq(Handle), HandlesOK(r, hs), ContextsOK(r, hs),
         NEW u \in DOMAIN hs
  PROVE  /\ hs[u] \in Handle /\ hs[u].tid \in Tids /\ u \in Nat \ {0}
         /\ r.threads[hs[u].tid] \in Context
         /\ LifeOK(u, hs[u])
         /\ StatusOf(hs[u]) # "Dead" =>
              /\ r.threads[hs[u].tid].unique_id = u - 1
              /\ r.threads[hs[u].tid].status = StatusOf(hs[u])
              /\ Describes(r.threads[hs[u].tid], hs[u])
<1>1. u \in 1 .. Len(hs) /\ Len(hs) \in Nat
  BY LenProperties
<1>2. hs[u] \in Handle
  BY <1>1, ElementOfSeq
<1>3. hs[u].tid \in Tids
  BY <1>2 DEF Handle
<1>4. r.threads[hs[u].tid] \in Context
  BY <1>3 DEF Registry
<1>5. ASSUME StatusOf(hs[u]) # "Dead"
      PROVE  /\ r.threads[hs[u].tid].unique_id = u - 1
             /\ Describes(r.threads[hs[u].tid], hs[u])
  <2>1. r.threads[hs[u].tid].status # "Invalid" /\ r.threads[hs[u].tid].unique_id = u - 1
    BY <1>5 DEF HandlesOK
  <2>2. (u - 1) + 1 = u
    BY <1>1
  <2> QED
    BY <1>3, <2>1, <2>2 DEF ContextsOK, Serves
<1> QED
  BY <1>1, <1>2, <1>3, <1>4, <1>5 DEF HandlesOK, Describes

\* Contexts and handles still agree when thread u and its context take a step
LEMMA HandleStep ==
  ASSUME NEW r \in Registry, NEW hs \in Seq(Handle),
         HandlesOK(r, hs), ContextsOK(r, hs), IdsDiffer(hs),
         NEW u \in DOMAIN hs, StatusOf(hs[u]) # "Dead",
         NEW s, NEW c, NEW h, Moved(r, s, hs[u].tid, c), Continues(hs, u, c, h)
  PROVE  /\ HandlesOK(s, [hs EXCEPT ![u] = h]) /\ ContextsOK(s, [hs EXCEPT ![u] = h])
         /\ IdsDiffer([hs EXCEPT ![u] = h])
<1>0. /\ u \in 1 .. Len(hs) /\ DOMAIN hs = 1 .. Len(hs)
      /\ s \in Registry /\ c \in Context /\ h \in Handle
      /\ \A y \in Tids : s.threads[y] = IF y = hs[u].tid THEN c ELSE r.threads[y]
      /\ h.tid = hs[u].tid /\ h.uid = hs[u].uid
      /\ Describes(c, h) /\ LifeOK(u, h) /\ (Knows(h) => Knows(hs[u]))
  BY LenProperties DEF Moved, Continues
<1>m. c.unique_id = u - 1
  BY Parts DEF Moved
<1> PICK g \in Seq(Handle) : g = [hs EXCEPT ![u] = h]
  BY <1>0, ExceptSeq
<1>1. /\ DOMAIN g = DOMAIN hs /\ \A v \in DOMAIN hs : g[v] = IF v = u THEN h ELSE hs[v]
      /\ DOMAIN hs \subseteq Nat \ {0}
  BY LenProperties
<1>2. hs[u].tid \in Tids /\ u \in Nat \ {0} /\ c.status # "Invalid" /\ c.unique_id + 1 = u
  BY <1>0, <1>m, Parts DEF Describes, StatusOf
<1>3. HandlesOK(s, g)
  <2> SUFFICES ASSUME NEW v \in DOMAIN hs
               PROVE  /\ LifeOK(v, g[v])
                      /\ StatusOf(g[v]) # "Dead" =>
                           s.threads[g[v].tid].status # "Invalid" /\ s.threads[g[v].tid].unique_id = v - 1
    BY <1>1 DEF HandlesOK
  <2>1. CASE v = u
    BY <1>0, <1>1, <1>2, <1>m, <2>1
  <2>2. CASE v # u
    <3>1. LifeOK(v, hs[v]) /\ hs[v].tid \in Tids /\ g[v] = hs[v] /\ v \in Nat
      BY <1>1, <2>2, Parts
    <3>2. ASSUME StatusOf(hs[v]) # "Dead"
          PROVE  /\ r.threads[hs[v].tid].status # "Invalid" /\ r.threads[hs[v].tid].unique_id = v - 1
                 /\ hs[v].tid # hs[u].tid
      <4>1. r.threads[hs[v].tid].status # "Invalid" /\ r.threads[hs[v].tid].unique_id = v - 1
        BY <3>2 DEF HandlesOK
      <4>2. r.threads[hs[u].tid].unique_id = u - 1
        BY DEF HandlesOK
      <4> QED
        BY <1>2, <2>2, <3>1, <4>1, <4>2
    <3> QED
      BY <1>0, <3>1, <3>2
  <2> QED
    BY <2>1, <2>2
<1>4. ContextsOK(s, g)
  <2> SUFFICES ASSUME NEW y \in Tids, s.threads[y].status # "Invalid"
               PROVE  Serves(g, y, s.threads[y])
    BY DEF ContextsOK
  <2>1. CASE y = hs[u].tid
    BY <1>0, <1>1, <1>2, <2>1 DEF Serves
  <2>2. CASE y # hs[u].tid
    BY <1>0, <1>1, <2>2 DEF Serves, ContextsOK
  <2> QED
    BY <2>1, <2>2
<1>5. IdsDiffer(g)
  BY <1>0, <1>1 DEF IdsDiffer
<1> QED
  BY <1>3, <1>4, <1>5

\* The threads of other contexts do not notice that a dead one is freed
LEMMA FreedKeeps ==
  ASSUME NEW r \in Registry, NEW hs \in Seq(Handle), HandlesOK(r, hs), ContextsOK(r, hs),
         NEW s \in Registry, NEW x, Leaves(r, s, x)
  PROVE  HandlesOK(s, hs) /\ ContextsOK(s, hs)
<1>1. r.threads[x] \in Context /\ x \in Tids
  BY DEF Leaves, Registry
<1>2. s.threads[x].status = "Invalid"
  BY <1>1, FreedContext DEF Leaves
<1>3. ASSUME NEW v \in DOMAIN hs, StatusOf(hs[v]) # "Dead"
      PROVE  hs[v].tid \in Tids /\ hs[v].tid # x
  BY <1>3, Parts DEF Leaves
<1>4. HandlesOK(s, hs)
  BY <1>3 DEF HandlesOK, Leaves
<1>5. ContextsOK(s, hs)
  BY <1>1, <1>2 DEF ContextsOK, Leaves
<1> QED
  BY <1>4, <1>5

-----------------------------------------------------------------------------
\* Counting: the status of one context changes
LEMMA HavingStep ==
  ASSUME NEW r \in Registry, NEW s \in Registry, NEW x \in Tids, NEW S,
         \A y \in Tids \ {x} : s.threads[y] = r.threads[y]
  PROVE  /\ Cardinality(Having(r, S)) \in Nat /\ Cardinality(Having(s, S)) \in Nat
         /\ Cardinality(Having(s, S)) + Among(r.threads[x], S)
              = Cardinality(Having(r, S)) + Among(s.threads[x], S)
         /\ r.threads[x].status \in S => Cardinality(Having(r, S)) > 0
<1> DEFINE rest == {y \in Tids \ {x} : r.threads[y].status \in S}
<1>1. IsFiniteSet(rest) /\ x \notin rest
  <2>1. IsFiniteSet(Tids)
    BY RegistryAssumption, FS_Interval DEF Tids
  <2> QED
    BY <2>1, FS_Subset
<1>2. /\ Having(r, S) = IF r.threads[x].status \in S THEN rest \cup {x} ELSE rest
      /\ Having(s, S) = IF s.threads[x].status \in S THEN rest \cup {x} ELSE rest
  BY DEF Having
<1> HIDE DEF rest
<1>3. Cardinality(rest) \in Nat /\ Cardinality(rest \cup {x}) = Cardinality(rest) + 1
  BY <1>1, FS_CardinalityType, FS_AddElement
<1> QED
  BY <1>2, <1>3 DEF Among

\* Two counts that change by the same amount
LEMMA Balanced ==
  ASSUME NEW a \in Nat, NEW b \in Nat, NEW m \in Nat, NEW n \in Nat, NEW i \in Nat, NEW j \in Nat,
         n + i = m + j, b + i = a + j, a = m
  PROVE  b = n
OBVIOUS

\* The counters still count when one context changes
LEMMA CountsStep ==
  ASSUME NEW r \in Registry, NEW hs, Counts(r, hs), NEW gs, Len(gs) = Len(hs),
         gs = <<>> <=> hs = <<>>, NEW s \in Registry, NEW x \in Tids,
         \A y \in Tids \ {x} : s.threads[y] = r.threads[y],
         Counted(r, s, r.threads[x], s.threads[x]), s.alive <= r.alive
  PROVE  Counts(s, gs)
<1> DEFINE L == {"Created", "Running"}
           R == {"Running"}
<1>1. /\ Cardinality(Having(s, L)) + Among(r.threads[x], L)
           = Cardinality(Having(r, L)) + Among(s.threads[x], L)
      /\ Cardinality(Having(s, L)) \in Nat /\ Cardinality(Having(r, L)) \in Nat
  BY HavingStep
<1>2. /\ Cardinality(Having(s, R)) + Among(r.threads[x], R)
           = Cardinality(Having(r, R)) + Among(s.threads[x], R)
      /\ Cardinality(Having(s, R)) \in Nat /\ Cardinality(Having(r, R)) \in Nat
  BY HavingStep
<1>3. /\ Among(r.threads[x], L) \in Nat /\ Among(s.threads[x], L) \in Nat
      /\ Among(r.threads[x], R) \in Nat /\ Among(s.threads[x], R) \in Nat
  BY DEF Among
<1>4. /\ r.alive = Cardinality(Having(r, L)) /\ r.running = Cardinality(Having(r, R))
      /\ r.alive <= r.max_alive /\ r.max_alive <= r.total
      /\ r.total = Len(hs) /\ Len(hs) <= MaxTotal /\ (hs = <<>> <=> r.n_contexts = 0)
  BY DEF Counts
<1>5. /\ s.alive + Among(r.threads[x], L) = r.alive + Among(s.threads[x], L)
      /\ s.running + Among(r.threads[x], R) = r.running + Among(s.threads[x], R)
      /\ s.n_contexts = r.n_contexts /\ s.total = r.total /\ s.max_alive = r.max_alive
  BY DEF Counted
<1>6. /\ s.alive \in Nat /\ s.running \in Nat /\ r.alive \in Nat /\ r.running \in Nat
      /\ s.max_alive \in Nat
  BY DEF Registry
<1> HIDE DEF L, R
<1>7. s.alive = Cardinality(Having(s, L)) /\ s.running = Cardinality(Having(s, R))
  <2>1. s.alive = Cardinality(Having(s, L))
    BY <1>1, <1>3, <1>4, <1>5, <1>6, Balanced
  <2>2. s.running = Cardinality(Having(s, R))
    BY <1>2, <1>3, <1>4, <1>5, <1>6, Balanced
  <2> QED
    BY <2>1, <2>2
<1> QED
  BY <1>4, <1>5, <1>6, <1>7 DEF Counts, L, R

\* A context that is freed has served one thread more
LEMMA UsesStep ==
  ASSUME NEW r \in Registry, NEW hs, Uses(r, hs), NEW gs, DOMAIN gs = DOMAIN hs,
         \A v \in DOMAIN hs : gs[v].tid = hs[v].tid,
         NEW s \in Registry, NEW x \in Tids,
         \A y \in Tids \ {x} : s.threads[y] = r.threads[y],
         r.threads[x].status # "Invalid",
         s.threads[x].reuse_count + (IF s.threads[x].status = "Invalid" THEN 0 ELSE 1)
           = r.threads[x].reuse_count + 1
  PROVE  Uses(s, gs)
<1>1. \A y \in Tids : Served(gs, y) = Served(hs, y)
  BY DEF Served
<1> QED
  BY <1>1 DEF Uses

-----------------------------------------------------------------------------
\* A context that does not become free disturbs the queues only by dying
LEMMA QueuesStep ==
  ASSUME NEW r \in Registry, Queues(r, {}), NEW x \in Tids, NEW s, NEW c, Moved(r, s, x, c),
         r.threads[x].status # "Invalid", r.threads[x].status # "Dead", c.status # "Invalid"
  PROVE  Queues(s, IF c.status = "Dead" THEN {x} ELSE {})
<1> DEFINE out == IF c.status = "Dead" THEN {x} ELSE {}
<1>1. /\ \A y \in Tids : s.threads[y] = IF y = x THEN c ELSE r.threads[y]
      /\ s.dead = r.dead /\ s.invalid = r.invalid /\ s.n_contexts = r.n_contexts
      /\ c.reuse_count = r.threads[x].reuse_count
  BY DEF Moved, Counted
<1>2. \A y \in Tids : Queued(s, y, out)
  <2> TAKE y \in Tids
  <2>1. Queued(r, y, {})
    BY DEF Queues
  <2>2. CASE y = x
    BY <1>1, <2>1, <2>2 DEF Queued, WornOut
  <2>3. CASE y # x
    BY <1>1, <2>1, <2>3 DEF Queued
  <2> QED
    BY <2>2, <2>3
<1>3. 0 \in Tids
  BY RegistryAssumption DEF Tids
<1> HIDE DEF out
<1>4. Queues(s, out)
  BY <1>1, <1>2, <1>3 DEF Queues
<1> QED
  BY <1>4 DEF out

\* The invariant when thread u and its context take a step, the dead one not yet queued
LEMMA ThreadStep ==
  ASSUME NEW r \in Registry, NEW hs \in Seq(Handle), Good(r, hs), Queues(r, {}),
         NEW u \in DOMAIN hs, StatusOf(hs[u]) # "Dead",
         NEW s, NEW c, NEW h, Moved(r, s, hs[u].tid, c), Continues(hs, u, c, h)
  PROVE  /\ [hs EXCEPT ![u] = h] \in Seq(Handle)
         /\ Good(s, [hs EXCEPT ![u] = h])
         /\ Queues(s, IF c.status = "Dead" THEN {hs[u].tid} ELSE {})
<1>0. u \in 1 .. Len(hs) /\ DOMAIN hs = 1 .. Len(hs) /\ h \in Handle
  BY LenProperties DEF Continues
<1> PICK g \in Seq(Handle) : g = [hs EXCEPT ![u] = h]
  BY <1>0, ExceptSeq
<1> PICK x \in Tids : x = hs[u].tid
  BY Parts DEF Good
<1> PICK d \in Context : d = r.threads[x]
  BY DEF Registry
<1>1. /\ DOMAIN g = DOMAIN hs /\ Len(g) = Len(hs)
      /\ \A v \in DOMAIN hs : g[v].tid = hs[v].tid
  BY <1>0, ExceptSeq DEF Continues
<1>2. g = <<>> <=> hs = <<>>
  <2>1. Len(hs) # 0
    BY <1>0
  <2> QED
    BY <1>1, <2>1, EmptySeq
<1>3. /\ s \in Registry /\ c \in Context
      /\ \A y \in Tids : s.threads[y] = IF y = x THEN c ELSE r.threads[y]
      /\ s.threads[x] = c /\ \A y \in Tids \ {x} : s.threads[y] = r.threads[y]
      /\ s.dead = r.dead /\ s.invalid = r.invalid
      /\ Counted(r, s, d, c) /\ s.alive <= r.alive /\ s.n_contexts = r.n_contexts
      /\ c.unique_id = d.unique_id /\ c.reuse_count = d.reuse_count
  BY DEF Moved, Counted
<1>4. /\ d.unique_id = u - 1 /\ d.status = StatusOf(hs[u])
      /\ d.status # "Invalid" /\ d.status # "Dead"
  BY Parts DEF Good, StatusOf
<1>5. c.status # "Invalid"
  BY DEF Continues, Describes, StatusOf
<1>6. HandlesOK(s, g) /\ ContextsOK(s, g) /\ IdsDiffer(g)
  <2>1. HandlesOK(r, hs) /\ ContextsOK(r, hs) /\ IdsDiffer(hs)
    BY DEF Good
  <2> QED
    BY <2>1, HandleStep
<1>7. Counts(s, g)
  BY <1>1, <1>2, <1>3, CountsStep DEF Good
<1>8. Uses(s, g)
  BY <1>1, <1>3, <1>4, <1>5, UsesStep DEF Good
<1>9. Queues(s, IF c.status = "Dead" THEN {x} ELSE {})
  BY <1>4, <1>5, QueuesStep
<1> QED
  BY <1>6, <1>7, <1>8, <1>9 DEF Good

\* The threads and the counters do not notice the quarantine
LEMMA BuriedStep ==
  ASSUME NEW r \in Registry, NEW hs \in Seq(Handle), Good(r, hs),
         NEW s, NEW tid, Pushed(r, s, tid)
  PROVE  Good(s, hs)
<1>1. s \in Registry /\ Same(r, s)
  BY DEF Pushed
<1>2. CASE s.threads = r.threads
  <2>1. \A S : Having(s, S) = Having(r, S)
    BY <1>2 DEF Having
  <2> QED
    BY <1>1, <1>2, <2>1 DEF Good, HandlesOK, ContextsOK, Counts, Uses, Same
<1>3. ASSUME NEW x \in Tids \ {tid}, Leaves(r, s, x)
      PROVE  Good(s, hs)
  <2> PICK d \in Context : d = r.threads[x]
    BY DEF Registry
  <2>1. /\ \A y \in Tids \ {x} : s.threads[y] = r.threads[y]
        /\ s.threads[x] = Freed(d) /\ d.status = "Dead"
    BY <1>3 DEF Leaves
  <2>2. HandlesOK(s, hs) /\ ContextsOK(s, hs)
    BY <1>1, <1>3, FreedKeeps DEF Good
  <2>3. Counted(r, s, d, Freed(d)) /\ s.alive <= r.alive
    BY <1>1, <2>1, FreedContext DEF Counted, Same, Among, Registry
  <2>4. Counts(s, hs)
    BY <1>1, <2>1, <2>3, CountsStep DEF Good
  <2>5. Uses(s, hs)
    <3>1. d.reuse_count \in Nat
      BY DEF Context
    <3>2. /\ d.status # "Invalid"
          /\ Freed(d).reuse_count + (IF Freed(d).status = "Invalid" THEN 0 ELSE 1) = d.reuse_count + 1
      BY <2>1, <3>1, FreedContext
    <3> QED
      BY <1>1, <2>1, <3>2, UsesStep DEF Good
  <2> QED
    BY <2>2, <2>4, <2>5 DEF Good
<1> QED
  BY <1>2, <1>3 DEF Pushed

-----------------------------------------------------------------------------
\* What the operations do to a context
Recounted(r, q, c, d) ==
  /\ q \in Registry /\ q.threads = r.threads /\ q.dead = r.dead /\ q.invalid = r.invalid
  /\ Counted(r, q, c, d) /\ q.alive <= r.alive /\ q.ok

\* A change of one context, with the counters recounted, moves that context
LEMMA WithMoved ==
  ASSUME NEW r \in Registry, NEW x \in Tids, NEW c, c = r.threads[x], NEW d \in Context,
         d.unique_id = c.unique_id, d.reuse_count = c.reuse_count,
         NEW q, Recounted(r, q, c, d)
  PROVE  With(q, x, d).ok /\ Moved(r, With(q, x, d), x, d)
<1>1. q \in Registry
  BY DEF Recounted
<1> PICK s \in Registry : s = With(q, x, d)
  BY <1>1, WithContext
<1>2. /\ s.threads = [q.threads EXCEPT ![x] = d]
      /\ s.dead = q.dead /\ s.invalid = q.invalid /\ Same(q, s)
  BY <1>1, WithContext
<1>3. \A y \in Tids : s.threads[y] = IF y = x THEN d ELSE r.threads[y]
  BY <1>1, <1>2 DEF Registry, Recounted
<1>4. Moved(r, s, x, d) /\ s.ok
  BY <1>2, <1>3 DEF Moved, Recounted, Same, Counted
<1> QED
  BY <1>4

RunningOf(c) == [c EXCEPT !.status = "Running"]

LEMMA RunningContext ==
  ASSUME NEW c \in Context
  PROVE  /\ RunningOf(c) \in Context /\ RunningOf(c).status = "Running"
         /\ RunningOf(c).user_id = c.user_id /\ RunningOf(c).detached = c.detached
         /\ RunningOf(c).destroyed = c.destroyed
         /\ RunningOf(c).unique_id = c.unique_id /\ RunningOf(c).reuse_count = c.reuse_count
BY DEF RunningOf, Context, Statuses

\* StartThread passes its checks and makes the context Running
LEMMA StartEffect ==
  ASSUME NEW r \in Registry, r.ok, NEW x \in Tids, NEW c \in Context, c = r.threads[x],
         x < r.n_contexts, c.status = "Created"
  PROVE  StartThread(r, x).ok /\ Moved(r, StartThread(r, x), x, RunningOf(c))
<1> PICK n \in Nat : n = r.running + 1
  BY DEF Registry
<1> DEFINE q == [r EXCEPT !.running = n]
<1>1. CHECK(r, x < r.n_contexts /\ r.threads[x].status = "Created") = r
  BY DEF CHECK, Registry
<1> PICK d \in Context : d = RunningOf(c)
  BY RunningContext
<1>2. d.status = "Running" /\ d.unique_id = c.unique_id /\ d.reuse_count = c.reuse_count
  BY RunningContext
<1>3. Recounted(r, q, c, d)
  <2>1. /\ q \in Registry /\ q.threads = r.threads /\ q.dead = r.dead
        /\ q.invalid = r.invalid /\ q.alive = r.alive /\ q.running = n
        /\ q.n_contexts = r.n_contexts /\ q.total = r.total /\ q.max_alive = r.max_alive
        /\ q.ok
    BY DEF Registry
  <2>2. r.alive \in Nat /\ r.running \in Nat
    BY DEF Registry
  <2> HIDE DEF q
  <2>3. Counted(r, q, c, d) /\ q.alive <= r.alive
    BY <1>2, <2>1, <2>2 DEF Counted, Among
  <2> QED
    BY <2>1, <2>3 DEF Recounted
<1>4. StartThread(r, x) = With(q, x, d)
  BY <1>1 DEF StartThread, With, RunningOf
<1> HIDE DEF q
<1>5. With(q, x, d).ok /\ Moved(r, With(q, x, d), x, d)
  BY <1>2, <1>3, WithMoved
<1> QED
  BY <1>4, <1>5

DeadOf(c) == [c EXCEPT !.status = "Dead", !.user_id = 0]

\* SetDead passes its check
LEMMA DeadEffect ==
  ASSUME NEW r \in Registry, r.ok, NEW x \in Tids, NEW c \in Context, c = r.threads[x],
         c.status \in {"Running", "Finished"}
  PROVE  SetDead(r, x) = With(r, x, DeadOf(c))
<1>1. CHECK(r, r.threads[x].status \in {"Running", "Finished"}) = r
  BY DEF CHECK, Registry
<1> QED
  BY <1>1 DEF SetDead, With, DeadOf, Registry, Context

FinishedOf(c) == [c EXCEPT !.status = "Finished"]
DestroyedOf(c) == [c EXCEPT !.destroyed = TRUE]

LEMMA DeadContext ==
  ASSUME NEW c \in Context
  PROVE  /\ DeadOf(c) \in Context /\ DeadOf(c).status = "Dead" /\ DeadOf(c).user_id = 0
         /\ DeadOf(c).unique_id = c.unique_id /\ DeadOf(c).reuse_count = c.reuse_count
         /\ DeadOf(c).detached = c.detached /\ DeadOf(c).destroyed = c.destroyed
BY DEF DeadOf, Context, Statuses

LEMMA FinishedContext ==
  ASSUME NEW c \in Context
  PROVE  /\ FinishedOf(c) \in Context /\ FinishedOf(c).status = "Finished"
         /\ FinishedOf(c).unique_id = c.unique_id /\ FinishedOf(c).reuse_count = c.reuse_count
         /\ FinishedOf(c).detached = c.detached /\ FinishedOf(c).user_id = c.user_id
         /\ DeadOf(FinishedOf(c)) = DeadOf(c)
BY DEF DeadOf, FinishedOf, Context, Statuses

LEMMA DestroyedContext ==
  ASSUME NEW c \in Context
  PROVE  /\ DestroyedOf(c) \in Context /\ DestroyedOf(c).destroyed
         /\ DestroyedOf(c).status = c.status /\ DestroyedOf(c).user_id = c.user_id
         /\ DestroyedOf(c).unique_id = c.unique_id
         /\ DestroyedOf(c).reuse_count = c.reuse_count
         /\ DestroyedOf(c).detached = c.detached
BY DEF DestroyedOf, Context

LEMMA PutThere ==
  ASSUME NEW q \in Registry, NEW x \in Tids, NEW c \in Context
  PROVE  /\ With(q, x, c) \in Registry /\ With(q, x, c).ok = q.ok
         /\ c = With(q, x, c).threads[x]
BY DEF With, Registry

\* A thread that never ran is finished and dead at once
LEMMA NeverRan ==
  ASSUME NEW r \in Registry, r.ok, NEW x \in Tids, NEW c \in Context, c = r.threads[x],
         c.status = "Created"
  PROVE  SetDead(SetFinished(r, x), x) = With(r, x, DeadOf(c))
<1> PICK f \in Registry : f = With(r, x, FinishedOf(c))
  BY FinishedContext, PutThere
<1>1. SetFinished(r, x) = f
  BY DEF SetFinished, With, FinishedOf
<1>2. f.ok /\ FinishedOf(c) = f.threads[x]
  BY FinishedContext, PutThere
<1> PICK k \in Context : k = FinishedOf(c)
  BY FinishedContext
<1>3. SetDead(f, x) = With(f, x, DeadOf(k))
  BY <1>2, FinishedContext, DeadEffect
<1>4. With(With(r, x, k), x, DeadOf(k)) = With(r, x, DeadOf(k)) /\ DeadOf(k) = DeadOf(c)
  BY FinishedContext, DeadContext, WithTwice
<1> QED
  BY <1>1, <1>3, <1>4

LEMMA DestroyedEffect ==
  ASSUME NEW r \in Registry, NEW x \in Tids, NEW c \in Context
  PROVE  SetDestroyed(With(r, x, c), x) = With(r, x, DestroyedOf(c))
<1> PICK f \in Registry : f = With(r, x, c)
  BY PutThere
<1>1. c = f.threads[x]
  BY PutThere
<1>2. SetDestroyed(f, x) = With(f, x, DestroyedOf(c))
  BY <1>1 DEF SetDestroyed, With, DestroyedOf
<1>3. With(With(r, x, c), x, DestroyedOf(c)) = With(r, x, DestroyedOf(c))
  BY DestroyedContext, WithTwice
<1> QED
  BY <1>2, <1>3

\* SetDestroyed comes after the context is pushed, and could as well come before
LEMMA DestroyedLater ==
  ASSUME NEW r \in Registry, r.ok, NEW x \in Tids, NEW s, Pushed(r, s, x),
         r.threads[x].status = "Dead"
  PROVE  Pushed(SetDestroyed(r, x), SetDestroyed(s, x), x) /\ SetDestroyed(s, x).ok
<1> DEFINE Set(q) == SetDestroyed(q, x)
           D(c) == DestroyedOf(c)
<1>1. ASSUME NEW q \in Registry
      PROVE  /\ Set(q) \in Registry /\ Set(q).dead = q.dead /\ Set(q).invalid = q.invalid
             /\ Same(q, Set(q))
             /\ \A y \in Tids : Set(q).threads[y] = IF y = x THEN D(q.threads[x]) ELSE q.threads[y]
  <2> PICK c \in Context : c = q.threads[x]
    BY DEF Registry
  <2>1. D(c) \in Context
    BY DestroyedContext
  <2>2. Set(q) = With(q, x, D(c))
    BY DEF SetDestroyed, With, DestroyedOf
  <2> HIDE DEF D, Set
  <2>3. /\ Set(q) \in Registry /\ Set(q).dead = q.dead /\ Set(q).invalid = q.invalid
        /\ Same(q, Set(q)) /\ Set(q).threads = [q.threads EXCEPT ![x] = D(c)]
    BY <2>1, <2>2, WithContext
  <2> QED
    BY <2>3 DEF Registry
<1>2. s \in Registry /\ Same(r, s) /\ Queues(s, {})
  BY DEF Pushed
<1> PICK rr \in Registry : rr = Set(r)
  BY <1>1
<1> PICK ss \in Registry : ss = Set(s)
  BY <1>1, <1>2
<1>3. \A c \in Context : D(c).status = c.status /\ D(c).reuse_count = c.reuse_count
  BY DestroyedContext
<1>4. /\ rr.dead = r.dead /\ Same(r, rr)
      /\ \A y \in Tids : rr.threads[y] = IF y = x THEN D(r.threads[x]) ELSE r.threads[y]
  BY <1>1
<1>5. /\ ss.dead = s.dead /\ ss.invalid = s.invalid /\ Same(s, ss)
      /\ \A y \in Tids : ss.threads[y] = IF y = x THEN D(s.threads[x]) ELSE s.threads[y]
  BY <1>1, <1>2
<1> HIDE DEF Set, D
<1>6. Same(rr, ss) /\ ss.ok
  BY <1>2, <1>4, <1>5 DEF Same
<1>7. \A y \in Tids : ss.threads[y].status = s.threads[y].status
                      /\ ss.threads[y].reuse_count = s.threads[y].reuse_count
  <2>1. s.threads[x] \in Context
    BY <1>2 DEF Registry
  <2> QED
    BY <1>3, <1>5, <2>1
<1>z. s.threads[x].status = "Dead"
  BY DEF Pushed, Leaves
<1>8. Queues(ss, {})
  <2>1. 0 \in Tids
    BY RegistryAssumption DEF Tids
  <2>2. \A y \in Tids : Queued(ss, y, {})
    BY <1>2, <1>5, <1>7, <1>z DEF Queues, Queued, WornOut, Same
  <2> QED
    BY <1>2, <1>5, <1>7, <2>1, <2>2 DEF Queues, Same
<1>9. CASE s.threads = r.threads
  <2>1. \A y \in Tids : ss.threads[y] = rr.threads[y]
    BY <1>4, <1>5, <1>9
  <2>2. ss.threads \in [Tids -> Context] /\ rr.threads \in [Tids -> Context]
    BY DEF Registry
  <2>3. ss.threads = rr.threads
    BY <2>1, <2>2
  <2> QED
    BY <1>6, <1>8, <2>3 DEF Pushed, Set
<1>10. ASSUME NEW z \in Tids \ {x}, Leaves(r, s, z)
       PROVE  Leaves(rr, ss, z)
  BY <1>4, <1>5, <1>10 DEF Leaves
<1> QED
  BY <1>6, <1>8, <1>9, <1>10 DEF Pushed, Set

\* The thread's end: its context is dead if nobody will join the thread
EndOf(c) == IF c.detached \/ c.status = "Created" THEN DeadOf(c) ELSE FinishedOf(c)

\* FinishThread passes its checks, and buries the context if nobody will join the thread
LEMMA FinishEffect ==
  ASSUME NEW r \in Registry, r.ok, NEW x \in Tids, NEW c \in Context, c = r.threads[x],
         x < r.n_contexts, c.status \in {"Created", "Running"}, Queues(r, {}),
         r.alive > 0, c.status = "Running" => r.running > 0
  PROVE  /\ FinishThread(r, x).ok
         /\ \E s \in Registry :
              /\ Moved(r, s, x, DestroyedOf(EndOf(c)))
              /\ IF EndOf(c).status = "Dead" THEN Pushed(s, FinishThread(r, x), x)
                                             ELSE FinishThread(r, x) = s
<1> PICK a \in Nat : a = r.alive - 1
  BY DEF Registry
<1> PICK b \in Nat : b = IF c.status = "Running" THEN r.running - 1 ELSE r.running
  BY DEF Registry
<1> DEFINE over == c.detached \/ c.status = "Created"
           e == EndOf(c)
           d == DestroyedOf(e)
           checked == CHECK(r, /\ r.alive > 0
                               /\ x < r.n_contexts
                               /\ IF c.status = "Running" THEN r.running > 0
                                                          ELSE c.status = "Created")
           finished == SetFinished(Uncount(checked, x), x)
<1> PICK q \in Registry : q = [r EXCEPT !.alive = a, !.running = b]
  BY DEF Registry
<1>1. checked = r
  BY DEF CHECK, Registry
<1>2. Uncount(r, x) = q
  BY DEF Uncount
<1>3. FinishThread(r, x) =
        SetDestroyed(IF over THEN QuarantinePush(SetDead(finished, x), x) ELSE finished, x)
  BY <1>1 DEF FinishThread
<1> HIDE DEF checked
<1>4. finished = SetFinished(q, x)
  BY <1>1, <1>2
<1> HIDE DEF finished
<1>5. /\ q.threads = r.threads /\ q.dead = r.dead /\ q.invalid = r.invalid
      /\ q.alive = a /\ q.running = b /\ q.n_contexts = r.n_contexts /\ q.total = r.total
      /\ q.max_alive = r.max_alive /\ q.ok
  BY DEF Registry
<1>6. /\ e \in Context /\ e.unique_id = c.unique_id /\ e.reuse_count = c.reuse_count
      /\ e.status = (IF over THEN "Dead" ELSE "Finished")
  BY DeadContext, FinishedContext DEF EndOf
<1>7. /\ d \in Context /\ d.unique_id = c.unique_id /\ d.reuse_count = c.reuse_count
      /\ d.status = e.status
  BY <1>6, DestroyedContext
<1>8. /\ over => SetDead(finished, x) = With(q, x, e)
      /\ ~ over => finished = With(q, x, e)
  <2>1. CASE ~ over
    BY <1>4, <1>5, <2>1 DEF SetFinished, With, EndOf, FinishedOf
  <2>2. CASE c.status = "Created"
    BY <1>4, <1>5, <2>2, NeverRan DEF EndOf
  <2>3. CASE c.detached /\ c.status # "Created"
    <3>1. finished = q /\ c.status = "Running"
      BY <1>4, <1>5, <2>3 DEF SetFinished
    <3> QED
      BY <1>5, <2>3, <3>1, DeadEffect DEF EndOf
  <2> QED
    BY <2>1, <2>2, <2>3
<1> HIDE DEF e, d
<1>9. Recounted(r, q, c, e) /\ Recounted(r, q, c, d)
  <2>1. \A k : k.status \in {"Dead", "Finished"} => Counted(r, q, c, k)
    <3> TAKE k
    <3> HAVE k.status \in {"Dead", "Finished"}
    <3>1. /\ Among(k, {"Created", "Running"}) = 0 /\ Among(k, {"Running"}) = 0
          /\ Among(c, {"Created", "Running"}) = 1
          /\ Among(c, {"Running"}) = IF c.status = "Running" THEN 1 ELSE 0
      BY DEF Among
    <3>2. r.alive \in Nat /\ r.running \in Nat
      BY DEF Registry
    <3>3. a + 1 = r.alive /\ a + 1 = r.alive + 0
      BY <3>2
    <3>4. b + (IF c.status = "Running" THEN 1 ELSE 0) = r.running + 0
      BY <3>2
    <3> QED
      BY <1>5, <3>1, <3>3, <3>4 DEF Counted
  <2>2. q.alive <= r.alive
    BY <1>5 DEF Registry
  <2> QED
    BY <1>5, <1>6, <1>7, <2>1, <2>2 DEF Recounted
<1>10. /\ With(q, x, e).ok /\ Moved(r, With(q, x, e), x, e)
       /\ With(q, x, d).ok /\ Moved(r, With(q, x, d), x, d)
  BY <1>6, <1>7, <1>9, WithMoved
<1> PICK f \in Registry : f = With(q, x, e)
  BY <1>6, PutThere
<1> PICK s \in Registry : s = With(q, x, d)
  BY <1>7, PutThere
<1>11. SetDestroyed(f, x) = s
  BY <1>6, DestroyedEffect DEF d
<1>12. CASE ~ over
  <2>1. FinishThread(r, x) = s
    BY <1>3, <1>8, <1>11, <1>12
  <2> QED
    BY <1>6, <1>10, <1>12, <2>1 DEF d, e
<1>13. CASE over
  <2>1. f.threads[x] = e /\ f.ok /\ e.status = "Dead"
    BY <1>6, <1>10, <1>13, PutThere
  <2>2. Queues(f, {x})
    BY <1>6, <1>10, <2>1, QueuesStep
  <2>3. Pushed(f, QuarantinePush(f, x), x)
    BY <2>1, <2>2, PushEffect
  <2>4. FinishThread(r, x) = SetDestroyed(QuarantinePush(f, x), x)
    BY <1>3, <1>8, <1>13
  <2>5. /\ Pushed(SetDestroyed(f, x), SetDestroyed(QuarantinePush(f, x), x), x)
        /\ SetDestroyed(QuarantinePush(f, x), x).ok
    BY <2>1, <2>3, DestroyedLater
  <2> QED
    BY <1>10, <1>11, <2>1, <2>4, <2>5 DEF d, e
<1> QED
  BY <1>12, <1>13

\* A finished thread's context dies when the thread is joined or detached
LEMMA DieEffect ==
  ASSUME NEW r \in Registry, r.ok, NEW x \in Tids, NEW c \in Context, c = r.threads[x],
         c.status = "Finished", Queues(r, {})
  PROVE  /\ QuarantinePush(With(r, x, DeadOf(c)), x).ok
         /\ \E s \in Registry :
              /\ Moved(r, s, x, DeadOf(c))
              /\ Pushed(s, QuarantinePush(With(r, x, DeadOf(c)), x), x)
<1> PICK d \in Context : d = DeadOf(c)
  BY DeadContext
<1>1. /\ d.status = "Dead" /\ d.unique_id = c.unique_id /\ d.reuse_count = c.reuse_count
  BY DeadContext
<1>2. Recounted(r, r, c, d)
  BY <1>1 DEF Recounted, Counted, Among, Registry
<1> PICK s \in Registry : s = With(r, x, d)
  BY PutThere
<1>3. Moved(r, s, x, d) /\ s.ok
  BY <1>1, <1>2, WithMoved
<1>4. Queues(s, {x})
  BY <1>1, <1>3, QueuesStep
<1>5. s.threads[x] = d
  BY PutThere
<1>6. Pushed(s, QuarantinePush(s, x), x)
  BY <1>1, <1>4, <1>5, PushEffect
<1>7. QuarantinePush(s, x).ok
  BY <1>3, <1>6 DEF Pushed, Same
<1> QED
  BY <1>3, <1>6, <1>7

DetachedOf(c) == [c EXCEPT !.detached = TRUE]

LEMMA DetachedContext ==
  ASSUME NEW c \in Context
  PROVE  /\ DetachedOf(c) \in Context /\ DetachedOf(c).detached
         /\ DetachedOf(c).status = c.status /\ DetachedOf(c).user_id = c.user_id
         /\ DetachedOf(c).unique_id = c.unique_id
         /\ DetachedOf(c).reuse_count = c.reuse_count
         /\ DetachedOf(c).destroyed = c.destroyed
BY DEF DetachedOf, Context

\* DetachThread buries the context of a thread that is over, and marks any other
LEMMA DetachEffect ==
  ASSUME NEW r \in Registry, r.ok, NEW x \in Tids, NEW c \in Context, c = r.threads[x],
         x < r.n_contexts, c.status # "Invalid"
  PROVE  IF c.status = "Finished"
         THEN DetachThread(r, x) = QuarantinePush(With(r, x, DeadOf(c)), x)
         ELSE /\ DetachThread(r, x).ok
              /\ Moved(r, DetachThread(r, x), x, DetachedOf(c))
<1>1. CHECK(r, x < r.n_contexts) = r
  BY DEF CHECK, Registry
<1>2. CASE c.status = "Finished"
  BY <1>1, <1>2, DeadEffect DEF DetachThread
<1>3. CASE c.status # "Finished"
  <2>1. DetachThread(r, x) = With(r, x, DetachedOf(c))
    BY <1>1, <1>3 DEF DetachThread, With, DetachedOf
  <2> PICK d \in Context : d = DetachedOf(c)
    BY DetachedContext
  <2>2. /\ d.status = c.status /\ d.unique_id = c.unique_id /\ d.reuse_count = c.reuse_count
    BY DetachedContext
  <2>3. Recounted(r, r, c, d)
    BY <2>2 DEF Recounted, Counted, Among, Registry
  <2> QED
    BY <1>3, <2>1, <2>2, <2>3, WithMoved
<1> QED
  BY <1>2, <1>3

\* A round of JoinThread passes its checks, and buries the context of a thread that is over
LEMMA JoinEffect ==
  ASSUME NEW r \in Registry, r.ok, NEW x \in Tids, NEW c \in Context, c = r.threads[x],
         x < r.n_contexts, c.status # "Invalid",
         c.destroyed => c.status = "Finished" /\ ~ c.detached
  PROVE  JoinRound(r, x) = IF c.destroyed THEN QuarantinePush(With(r, x, DeadOf(c)), x) ELSE r
<1>1. CHECK(r, x < r.n_contexts) = r
  BY DEF CHECK, Registry
<1>2. CASE c.destroyed
  <2>1. CHECK(r, ~ r.threads[x].detached /\ r.threads[x].status = "Finished") = r
    BY <1>2 DEF CHECK, Registry
  <2>2. SetJoined(r, x) = With(r, x, DeadOf(c))
    <3>1. CHECK(r, r.threads[x].status \in {"Running", "Finished"}) = r
      BY <1>2 DEF CHECK, Registry
    <3>2. SetJoined(r, x) = SetDead(r, x)
      BY <2>1, <3>1 DEF SetJoined, SetDead
    <3> QED
      BY <1>2, <3>2, DeadEffect
  <2> QED
    BY <1>1, <1>2, <2>2 DEF JoinRound, GetDestroyed
<1>3. CASE ~ c.destroyed
  BY <1>1, <1>3 DEF JoinRound, GetDestroyed
<1> QED
  BY <1>2, <1>3

\* The context of a thread that a client looked up, or failed to join
Renamed(c, uid) == [c EXCEPT !.user_id = uid]

LEMMA RenamedContext ==
  ASSUME NEW c \in Context, NEW uid \in UserIds \cup {0}
  PROVE  /\ Renamed(c, uid) \in Context /\ Renamed(c, uid).user_id = uid
         /\ Renamed(c, uid).status = c.status /\ Renamed(c, uid).detached = c.detached
         /\ Renamed(c, uid).unique_id = c.unique_id
         /\ Renamed(c, uid).reuse_count = c.reuse_count
         /\ Renamed(c, uid).destroyed = c.destroyed
BY DEF Renamed, Context

LEMMA RenameEffect ==
  ASSUME NEW r \in Registry, r.ok, NEW x \in Tids, NEW c \in Context, c = r.threads[x],
         NEW uid \in UserIds \cup {0}
  PROVE  /\ With(r, x, Renamed(c, uid)).ok
         /\ Moved(r, With(r, x, Renamed(c, uid)), x, Renamed(c, uid))
<1> PICK d \in Context : d = Renamed(c, uid)
  BY RenamedContext
<1>1. /\ d.status = c.status /\ d.unique_id = c.unique_id /\ d.reuse_count = c.reuse_count
  BY RenamedContext
<1>2. Recounted(r, r, c, d)
  BY <1>1 DEF Recounted, Counted, Among, Registry
<1> QED
  BY <1>1, <1>2, WithMoved

\* SetThreadUserId passes its check
LEMMA SetUserIdEffect ==
  ASSUME NEW r \in Registry, r.ok, NEW x \in Tids, NEW c \in Context, c = r.threads[x],
         x < r.n_contexts, c.status \notin {"Invalid", "Dead"}, c.user_id = 0,
         NEW uid \in UserIds \cup {0}
  PROVE  SetThreadUserId(r, x, uid) = With(r, x, Renamed(c, uid))
<1>1. CHECK(r, /\ x < r.n_contexts /\ r.threads[x].status \notin {"Invalid", "Dead"}
               /\ r.threads[x].user_id = 0) = r
  BY DEF CHECK, Registry
<1> QED
  BY <1>1 DEF SetThreadUserId, With, Renamed

-----------------------------------------------------------------------------
\* A thread that the system knows is found under its id, and no other is
LEMMA LookupFinds ==
  ASSUME NEW r \in Registry, NEW hs \in Seq(Handle), Good(r, hs), Queues(r, {}),
         NEW u \in DOMAIN hs, Knows(hs[u]), hs[u].uid # 0,
         hs[u].care \in {"none", "bornDetached"}
  PROVE  /\ Matches(r, hs[u].uid) = {hs[u].tid}
         /\ FindThread(r, hs[u].uid) = hs[u].tid
<1> PICK x \in Tids : x = hs[u].tid
  BY Parts DEF Good
<1>1. HandlesOK(r, hs) /\ ContextsOK(r, hs) /\ IdsDiffer(hs)
  BY DEF Good
<1>2. StatusOf(hs[u]) # "Dead" /\ StatusOf(hs[u]) # "Invalid"
  BY DEF StatusOf, Knows, Pending
<1>3. Describes(r.threads[x], hs[u]) /\ r.threads[x].unique_id = u - 1 /\ u # 1 /\ u \in Nat
  BY <1>1, <1>2, Parts DEF LifeOK
<1>4. r.threads[x].status # "Invalid" /\ r.threads[x].user_id = hs[u].uid
  BY <1>2, <1>3 DEF Describes
<1>5. Tids \subseteq Nat /\ r.n_contexts \in 0 .. MaxThreads /\ MaxThreads \in Nat
  BY RegistryAssumption DEF Tids, Registry
<1>6. x \in Matches(r, hs[u].uid)
  <2>1. x < r.n_contexts
    BY <1>4, <1>5 DEF Queues, Queued
  <2> QED
    BY <1>4, <1>5, <2>1 DEF Matches
<1>7. ASSUME NEW y \in Matches(r, hs[u].uid)
      PROVE  y = x
  <2>1. y \in Tids /\ r.threads[y].user_id = hs[u].uid /\ r.threads[y].status # "Invalid"
    BY <1>5 DEF Matches, Tids
  <2> PICK c \in Context : c = r.threads[y]
    BY <2>1 DEF Registry
  <2> PICK v \in DOMAIN hs : v = c.unique_id + 1
    BY <1>1, <2>1 DEF ContextsOK, Serves
  <2>2. hs[v].tid = y /\ Describes(c, hs[v])
    BY <1>1, <2>1 DEF ContextsOK, Serves
  <2>3. /\ c.user_id = hs[v].uid /\ c.status # "Dead"
        /\ hs[v].care \in {"none", "bornDetached"} /\ c.status = StatusOf(hs[v])
    BY <2>1, <2>2 DEF Describes
  <2>4. Knows(hs[v])
    <3>1. hs[v].phase \in {"created", "running", "finished", "failed"}
      BY <1>1, Parts DEF Handle
    <3> QED
      BY <2>3, <3>1 DEF StatusOf, Knows, Pending
  <2>5. u = v
    BY <1>1, <1>3, <2>1, <2>3, <2>4 DEF IdsDiffer
  <2> QED
    BY <2>2, <2>5
<1>8. Matches(r, hs[u].uid) = {x}
  BY <1>6, <1>7
<1>9. FindThread(r, hs[u].uid) = x
  <2> DEFINE P(z) == \A other \in {x} : z <= other
  <2>1. FindThread(r, hs[u].uid) = CHOOSE z \in {x} : P(z)
    BY <1>8 DEF FindThread
  <2>2. P(x)
    BY <1>5
  <2> HIDE DEF P
  <2>3. (CHOOSE z \in {x} : P(z)) = x
    BY <2>2
  <2> QED
    BY <2>1, <2>3
<1> QED
  BY <1>8, <1>9

-----------------------------------------------------------------------------
\* Thread u can act in the state of r and hs: its context is its own
Acting(r, hs, u) ==
  /\ r \in Registry /\ r.ok /\ hs \in Seq(Handle) /\ Good(r, hs) /\ Queues(r, {})
  /\ u \in DOMAIN hs /\ u \in Nat \ {0} /\ hs[u] \in Handle /\ LifeOK(u, hs[u])
  /\ hs[u].tid \in Tids /\ hs[u].tid < r.n_contexts
  /\ r.threads[hs[u].tid] \in Context
  /\ StatusOf(hs[u]) # "Dead" /\ Describes(r.threads[hs[u].tid], hs[u])
  /\ r.threads[hs[u].tid].unique_id = u - 1

\* A thread that is not over, and whoever takes care of it, can act
LEMMA Acts ==
  ASSUME IInv, NEW u \in Handles, StatusOf(handles[u]) # "Dead"
  PROVE  Acting(reg, handles, u)
<1> PICK r \in Registry : r = reg
  BY DEF IInv, TypeInv
<1> PICK hs \in Seq(Handle) : hs = handles
  BY DEF IInv, TypeInv
<1>1. r.ok /\ Good(r, hs) /\ Queues(r, {}) /\ u \in DOMAIN hs
  BY LenProperties DEF IInv, Handles
<1>2. /\ hs[u] \in Handle /\ hs[u].tid \in Tids /\ u \in Nat \ {0} /\ LifeOK(u, hs[u])
      /\ r.threads[hs[u].tid] \in Context
      /\ r.threads[hs[u].tid].unique_id = u - 1
      /\ Describes(r.threads[hs[u].tid], hs[u])
  BY <1>1, Parts DEF Good
<1>3. hs[u].tid < r.n_contexts
  <2>1. r.threads[hs[u].tid].status # "Invalid"
    BY <1>2 DEF Describes, StatusOf
  <2>2. Queued(r, hs[u].tid, {})
    BY <1>1, <1>2 DEF Queues
  <2>3. hs[u].tid \in Nat /\ r.n_contexts \in Nat
    BY <1>2, RegistryAssumption DEF Tids, Registry
  <2> QED
    BY <2>1, <2>2, <2>3 DEF Queued
<1> QED
  BY <1>1, <1>2, <1>3 DEF Acting

\* A step of thread u, its joiner or its detacher
Stepped(hs, u, h) == [hs EXCEPT ![u] = h]

LEMMA Done ==
  ASSUME NEW r, NEW hs, NEW u, Acting(r, hs, u),
         NEW s \in Registry, NEW c, NEW h, Moved(r, s, hs[u].tid, c), Continues(hs, u, c, h),
         c.status # "Dead", s.ok,
         reg' = s, handles' = Stepped(hs, u, h), limit' \in BOOLEAN
  PROVE  IInv' /\ Frees(r, reg')
<1> PICK g \in Seq(Handle) : g = [hs EXCEPT ![u] = h]
  BY ThreadStep DEF Acting
<1>1. Good(s, g) /\ Queues(s, {})
  BY ThreadStep DEF Acting
<1>2. handles' = g
  BY DEF Stepped
<1>3. Frees(r, s)
  <2>1. c.status # "Invalid"
    BY DEF Continues, Describes, StatusOf
  <2> QED
    BY <2>1 DEF Frees, Moved
<1> QED
  BY <1>1, <1>2, <1>3 DEF IInv, TypeInv

\* ... and one after which the context is dead
LEMMA DoneDead ==
  ASSUME NEW r, NEW hs, NEW u, Acting(r, hs, u),
         NEW s \in Registry, NEW c, NEW h, Moved(r, s, hs[u].tid, c), Continues(hs, u, c, h),
         NEW q, Pushed(s, q, hs[u].tid), q.ok,
         reg' = q, handles' = Stepped(hs, u, h), limit' \in BOOLEAN
  PROVE  IInv' /\ Frees(r, reg')
<1> PICK g \in Seq(Handle) : g = [hs EXCEPT ![u] = h]
  BY ThreadStep DEF Acting
<1>1. Good(s, g)
  BY ThreadStep DEF Acting
<1>2. q \in Registry /\ Good(q, g) /\ Queues(q, {})
  BY <1>1, BuriedStep DEF Pushed
<1>3. handles' = g
  BY DEF Stepped
<1>4. Frees(r, q)
  <2>1. c.status # "Invalid"
    BY DEF Continues, Describes, StatusOf
  <2>2. \A y \in Tids : s.threads[y].status = "Invalid" => r.threads[y].status = "Invalid"
    BY <2>1 DEF Moved
  <2>3. s.dead = r.dead
    BY DEF Moved
  <2> QED
    BY <2>2, <2>3 DEF Frees, Pushed, Leaves
<1> QED
  BY <1>2, <1>3, <1>4 DEF IInv, TypeInv

-----------------------------------------------------------------------------
\* One lemma for each action of a thread, its joiner or its detacher
LEMMA StartKeeps ==
  ASSUME IInv, NEW u \in Handles, Start(u)
  PROVE  IInv' /\ Frees(reg, reg')
<1>1. /\ handles[u].phase = "created" /\ reg' = StartThread(reg, handles[u].tid)
      /\ handles' = [handles EXCEPT ![u].phase = "running"] /\ limit' = limit
      /\ limit \in BOOLEAN
  BY DEF Start, Advance, IInv, TypeInv
<1>2. Acting(reg, handles, u)
  BY <1>1, Acts DEF StatusOf
<1> PICK r \in Registry : r = reg
  BY <1>2 DEF Acting
<1> PICK hs \in Seq(Handle) : hs = handles
  BY <1>2 DEF Acting
<1> PICK k \in Handle : k = hs[u]
  BY <1>2 DEF Acting
<1> PICK c \in Context : c = r.threads[k.tid]
  BY <1>2 DEF Acting
<1> PICK h \in Handle : h = [k EXCEPT !.phase = "running"]
  BY DEF Handle
<1>3. /\ h.phase = "running" /\ h.tid = k.tid /\ h.uid = k.uid /\ h.care = k.care
      /\ h.found = k.found
  BY DEF Handle
<1>4. handles' = Stepped(hs, u, h)
  BY <1>1 DEF Stepped
<1>5. /\ Acting(r, hs, u) /\ r.ok /\ k.phase = "created" /\ Describes(c, k) /\ LifeOK(u, k)
      /\ k.tid \in Tids /\ k.tid < r.n_contexts
  BY <1>1, <1>2 DEF Acting
<1>6. c.status = "Created"
  BY <1>5 DEF Describes, StatusOf
<1>7. StartThread(r, k.tid).ok /\ Moved(r, StartThread(r, k.tid), k.tid, RunningOf(c))
  BY <1>5, <1>6, StartEffect
<1>8. Continues(hs, u, RunningOf(c), h)
  <2>1. Describes(RunningOf(c), h)
    BY <1>3, <1>5, <1>6, RunningContext DEF Describes, StatusOf
  <2>2. LifeOK(u, h) /\ (Knows(h) => Knows(k))
    BY <1>3, <1>5 DEF LifeOK, Knows
  <2> QED
    BY <1>3, <2>1, <2>2 DEF Continues
<1> PICK s \in Registry : s = StartThread(r, k.tid)
  BY <1>7 DEF Moved
<1> PICK d \in Context : d = RunningOf(c)
  BY RunningContext
<1>9. d.status # "Dead" /\ reg' = s
  BY <1>1, RunningContext
<1> QED
  BY <1>1, <1>4, <1>5, <1>7, <1>8, <1>9, Done

LEMMA IsHandle ==
  ASSUME IInv, NEW u \in Handles
  PROVE  handles[u] \in Handle /\ LifeOK(u, handles[u])
<1> PICK hs \in Seq(Handle) : hs = handles
  BY DEF IInv, TypeInv
<1>1. u \in 1 .. Len(hs) /\ u \in DOMAIN hs
  BY LenProperties DEF Handles
<1> QED
  BY <1>1, ElementOfSeq DEF IInv, Good, HandlesOK

LEMMA EndContext ==
  ASSUME NEW c \in Context
  PROVE  /\ DestroyedOf(EndOf(c)) \in Context /\ DestroyedOf(EndOf(c)).destroyed
         /\ DestroyedOf(EndOf(c)).detached = c.detached
         /\ DestroyedOf(EndOf(c)).status = EndOf(c).status
         /\ EndOf(c).status = (IF c.detached \/ c.status = "Created" THEN "Dead" ELSE "Finished")
         /\ DestroyedOf(EndOf(c)).user_id = (IF EndOf(c).status = "Dead" THEN 0 ELSE c.user_id)
<1> PICK e \in Context : e = EndOf(c)
  BY DeadContext, FinishedContext DEF EndOf
<1>1. e.status = IF c.detached \/ c.status = "Created" THEN "Dead" ELSE "Finished"
  BY DeadContext, FinishedContext DEF EndOf
<1>2. e.detached = c.detached
  BY DeadContext, FinishedContext DEF EndOf
<1>3. e.user_id = IF e.status = "Dead" THEN 0 ELSE c.user_id
  BY DeadContext, FinishedContext DEF EndOf
<1>4. /\ DestroyedOf(e) \in Context /\ DestroyedOf(e).destroyed
      /\ DestroyedOf(e).detached = e.detached /\ DestroyedOf(e).status = e.status
      /\ DestroyedOf(e).user_id = e.user_id
  BY DestroyedContext
<1> QED
  BY <1>1, <1>2, <1>3, <1>4

LEMMA FinishKeeps ==
  ASSUME IInv, NEW u \in Handles, Finish(u) \/ FailToStart(u)
  PROVE  IInv' /\ Frees(reg, reg')
<1>0. PICK to \in {"finished", "failed"} :
      /\ handles[u].phase = IF to = "finished" THEN "running" ELSE "created"
      /\ to = "failed" => u # 1 /\ handles[u].care \in {"none", "bornDetached"}
      /\ handles' = [handles EXCEPT ![u].phase = to]
  BY DEF Finish, FailToStart, Advance
<1>1. /\ reg' = FinishThread(reg, handles[u].tid) /\ limit' = limit /\ limit \in BOOLEAN
  BY DEF Finish, FailToStart, Advance, IInv, TypeInv
<1>2. Acting(reg, handles, u)
  BY <1>0, Acts DEF StatusOf
<1> PICK r \in Registry : r = reg
  BY <1>2 DEF Acting
<1> PICK hs \in Seq(Handle) : hs = handles
  BY <1>2 DEF Acting
<1> PICK k \in Handle : k = hs[u]
  BY <1>2 DEF Acting
<1> PICK c \in Context : c = r.threads[k.tid]
  BY <1>2 DEF Acting
<1> PICK h \in Handle : h = [k EXCEPT !.phase = to]
  BY DEF Handle
<1>3. /\ h.phase = to /\ h.tid = k.tid /\ h.uid = k.uid /\ h.care = k.care /\ h.found = k.found
  BY DEF Handle
<1>4. handles' = Stepped(hs, u, h)
  BY <1>0 DEF Stepped
<1>5. /\ Acting(r, hs, u) /\ r.ok /\ Good(r, hs) /\ Queues(r, {}) /\ u \in DOMAIN hs
      /\ k.phase = (IF to = "finished" THEN "running" ELSE "created")
      /\ Describes(c, k) /\ LifeOK(u, k) /\ k.tid \in Tids /\ k.tid < r.n_contexts
  BY <1>0, <1>1, <1>2 DEF Acting
<1>6. c.status = IF to = "finished" THEN "Running" ELSE "Created"
  BY <1>5 DEF Describes, StatusOf
<1>7. r.alive > 0 /\ (c.status = "Running" => r.running > 0)
  <2>1. Counts(r, hs)
    BY <1>5 DEF Good
  <2>2. c.status \in {"Created", "Running"} => Cardinality(Having(r, {"Created", "Running"})) > 0
    BY <1>5, HavingStep
  <2>3. c.status \in {"Running"} => Cardinality(Having(r, {"Running"})) > 0
    BY <1>5, HavingStep
  <2> QED
    BY <1>6, <2>1, <2>2, <2>3 DEF Counts
<1> PICK d \in Context : d = DestroyedOf(EndOf(c))
  BY EndContext
<1>e. PICK s \in Registry :
      /\ Moved(r, s, k.tid, d)
      /\ IF EndOf(c).status = "Dead" THEN Pushed(s, FinishThread(r, k.tid), k.tid)
                                     ELSE FinishThread(r, k.tid) = s
  BY <1>5, <1>6, <1>7, FinishEffect
<1>8. FinishThread(r, k.tid).ok
  BY <1>5, <1>6, <1>7, FinishEffect
<1>9. /\ d.destroyed /\ d.detached = c.detached
      /\ d.status = (IF c.detached \/ c.status = "Created" THEN "Dead" ELSE "Finished")
      /\ d.user_id = (IF d.status = "Dead" THEN 0 ELSE c.user_id)
      /\ d.status = EndOf(c).status
  BY EndContext
<1>10. Continues(hs, u, d, h)
  <2>1. k.care \in Pending \cup {"bornDetached", "detached", "joined"}
    BY <1>5 DEF Handle, LifeOK, Pending
  <2>2. c.status # "Dead" /\ (c.detached <=> k.care \in {"bornDetached", "detached"})
    BY <1>5, <1>6 DEF Describes
  <2>3. d.status = StatusOf(h)
    BY <1>3, <1>5, <1>6, <1>9, <2>1, <2>2 DEF StatusOf, LifeOK, Pending
  <2>4. Describes(d, h)
    <3>1. d.destroyed <=> h.phase \in {"finished", "failed"}
      BY <1>3, <1>9
    <3>2. d.detached <=> h.care \in {"bornDetached", "detached"}
      BY <1>3, <1>9, <2>2
    <3>3. c.user_id = IF k.care \in {"none", "bornDetached"} THEN k.uid ELSE 0
      BY <1>5, <2>2 DEF Describes
    <3>4. d.user_id = IF d.status # "Dead" /\ h.care \in {"none", "bornDetached"} THEN h.uid ELSE 0
      BY <1>3, <1>9, <3>3
    <3> QED
      BY <2>3, <3>1, <3>2, <3>4 DEF Describes
  <2>5. LifeOK(u, h) /\ (Knows(h) => Knows(k))
    BY <1>0, <1>3, <1>5 DEF LifeOK, Knows
  <2> QED
    BY <1>3, <2>4, <2>5 DEF Continues
<1>11. CASE d.status = "Dead"
  <2> PICK q \in Registry : q = FinishThread(r, k.tid)
    BY <1>e, <1>9, <1>11 DEF Pushed
  <2>1. reg' = q /\ limit' \in BOOLEAN /\ q.ok /\ Pushed(s, q, k.tid)
    BY <1>e, <1>1, <1>8, <1>9, <1>11
  <2>2. Acting(r, hs, u) /\ Moved(r, s, hs[u].tid, d) /\ Pushed(s, q, hs[u].tid)
    BY <1>e, <1>5, <2>1
  <2> QED
    BY <1>4, <1>10, <2>1, <2>2, DoneDead
<1>12. CASE d.status # "Dead"
  <2>1. reg' = s /\ limit' \in BOOLEAN /\ s.ok
    BY <1>e, <1>1, <1>8, <1>9, <1>12
  <2> QED
    BY <1>e, <1>4, <1>5, <1>10, <1>12, <2>1, Done
<1> QED
  BY <1>11, <1>12

LEMMA LookUpKeeps ==
  ASSUME IInv, NEW u \in Handles, NEW care \in {"detaching", "joining"}, LookUp(u, care)
  PROVE  IInv' /\ Frees(reg, reg')
<1>1. /\ handles[u].care = "none" /\ handles[u].phase # "failed"
      /\ reg' = TakeUserId(reg, handles[u].uid)
      /\ handles' = [handles EXCEPT ![u].care = care,
                                    ![u].found = FindThread(reg, handles[u].uid)]
      /\ limit' = limit /\ limit \in BOOLEAN
  BY DEF LookUp, IInv, TypeInv
<1>2. Acting(reg, handles, u)
  BY <1>1, IsHandle, Acts DEF StatusOf, Pending, Handle
<1> PICK r \in Registry : r = reg
  BY <1>2 DEF Acting
<1> PICK hs \in Seq(Handle) : hs = handles
  BY <1>2 DEF Acting
<1> PICK k \in Handle : k = hs[u]
  BY <1>2 DEF Acting
<1> PICK c \in Context : c = r.threads[k.tid]
  BY <1>2 DEF Acting
<1> PICK h \in Handle : h = [k EXCEPT !.care = care, !.found = k.tid]
  BY Zenon DEF Handle
<1>3. /\ h.phase = k.phase /\ h.tid = k.tid /\ h.uid = k.uid /\ h.care = care
      /\ h.found = k.tid
  BY DEF Handle
<1>5. /\ Acting(r, hs, u) /\ r.ok /\ Good(r, hs) /\ Queues(r, {}) /\ u \in DOMAIN hs
      /\ k.care = "none" /\ k.phase # "failed"
      /\ Describes(c, k) /\ LifeOK(u, k) /\ k.tid \in Tids /\ k.tid < r.n_contexts
  BY <1>1, <1>2 DEF Acting
<1>6. Matches(r, k.uid) = {k.tid} /\ FindThread(r, k.uid) = k.tid
  <2>1. k.uid # 0
    BY <1>5 DEF LifeOK
  <2>2. Knows(k)
    BY <1>5 DEF Knows, Handle
  <2> QED
    BY <1>5, <2>1, <2>2, LookupFinds
<1>4. handles' = Stepped(hs, u, h)
  BY <1>1, <1>6 DEF Stepped
<1> PICK d \in Context : d = Renamed(c, 0)
  BY RenamedContext
<1>7. TakeUserId(r, k.uid) = With(r, k.tid, d)
  BY <1>6 DEF TakeUserId, With, Renamed
<1> PICK s \in Registry : s = With(r, k.tid, d)
  BY <1>5, PutThere
<1>8. s.ok /\ Moved(r, s, k.tid, d)
  BY <1>5, RenameEffect
<1>9. /\ d.status = c.status /\ d.user_id = 0 /\ d.detached = c.detached
      /\ d.destroyed = c.destroyed
  BY RenamedContext
<1>10. Continues(hs, u, d, h)
  <2>1. StatusOf(h) = StatusOf(k) /\ (Knows(h) => Knows(k))
    BY <1>3, <1>5 DEF StatusOf, Knows, Pending
  <2>2. Describes(d, h)
    BY <1>3, <1>5, <1>9, <2>1 DEF Describes
  <2>3. LifeOK(u, h)
    BY <1>3, <1>5 DEF LifeOK
  <2> QED
    BY <1>3, <2>1, <2>2, <2>3 DEF Continues
<1>11. d.status # "Dead" /\ reg' = s /\ limit' \in BOOLEAN
  BY <1>1, <1>5, <1>7, <1>9 DEF Acting, Describes
<1> QED
  BY <1>4, <1>5, <1>8, <1>10, <1>11, Done

LEMMA RealCallKeeps ==
  ASSUME IInv, NEW u \in Handles, RealDetach(u) \/ RealJoin(u)
  PROVE  IInv' /\ Frees(reg, reg')
<1> PICK to \in {"letGo", "ended"} :
      /\ handles[u].care = IF to = "letGo" THEN "detaching" ELSE "joining"
      /\ handles[u].phase # "created"
      /\ handles' = [handles EXCEPT ![u].care = to]
  BY DEF RealDetach, RealJoin, RealCall
<1>1. reg' = reg /\ limit' = limit /\ limit \in BOOLEAN
      /\ handles[u].phase \in {"running", "finished"}
  BY IsHandle DEF RealDetach, RealJoin, RealCall, IInv, TypeInv, LifeOK, Handle
<1>2. Acting(reg, handles, u)
  BY <1>1, Acts DEF StatusOf, Pending
<1> PICK r \in Registry : r = reg
  BY <1>2 DEF Acting
<1> PICK hs \in Seq(Handle) : hs = handles
  BY <1>2 DEF Acting
<1> PICK k \in Handle : k = hs[u]
  BY <1>2 DEF Acting
<1> PICK c \in Context : c = r.threads[k.tid]
  BY <1>2 DEF Acting
<1> PICK h \in Handle : h = [k EXCEPT !.care = to]
  BY DEF Handle
<1>3. /\ h.phase = k.phase /\ h.tid = k.tid /\ h.uid = k.uid /\ h.care = to
      /\ h.found = k.found
  BY DEF Handle
<1>4. handles' = Stepped(hs, u, h)
  BY DEF Stepped
<1>5. /\ Acting(r, hs, u) /\ r.ok /\ Good(r, hs) /\ Queues(r, {}) /\ u \in DOMAIN hs
      /\ k.care = (IF to = "letGo" THEN "detaching" ELSE "joining")
      /\ k.phase \in {"running", "finished"}
      /\ Describes(c, k) /\ LifeOK(u, k) /\ k.tid \in Tids /\ k.tid < r.n_contexts
  BY <1>1, <1>2 DEF Acting
<1>6. Moved(r, r, k.tid, c)
  BY <1>5 DEF Moved, Counted, Registry
<1>7. Continues(hs, u, c, h)
  <2>1. StatusOf(h) = StatusOf(k) /\ (Knows(h) => Knows(k))
    BY <1>3, <1>5 DEF StatusOf, Knows, Pending
  <2>2. Describes(c, h)
    BY <1>3, <1>5, <2>1 DEF Describes
  <2>3. LifeOK(u, h)
    BY <1>3, <1>5 DEF LifeOK
  <2> QED
    BY <1>3, <2>1, <2>2, <2>3 DEF Continues
<1>8. c.status # "Dead" /\ reg' = r /\ limit' \in BOOLEAN
  BY <1>1, <1>5 DEF Acting, Describes
<1> QED
  BY <1>4, <1>5, <1>6, <1>7, <1>8, Done

LEMMA RealJoinFailsKeeps ==
  ASSUME IInv, NEW u \in Handles, RealJoinFails(u)
  PROVE  IInv' /\ Frees(reg, reg')
<1>1. /\ handles[u].care = "joining"
      /\ reg' = SetThreadUserId(reg, handles[u].found, handles[u].uid)
      /\ handles' = [handles EXCEPT ![u].care = "none", ![u].found = kUnknownTid]
      /\ limit' = limit /\ limit \in BOOLEAN
      /\ handles[u].phase \in {"created", "running", "finished"}
  BY IsHandle DEF RealJoinFails, IInv, TypeInv, LifeOK, Handle
<1>2. Acting(reg, handles, u)
  BY <1>1, Acts DEF StatusOf, Pending
<1> PICK r \in Registry : r = reg
  BY <1>2 DEF Acting
<1> PICK hs \in Seq(Handle) : hs = handles
  BY <1>2 DEF Acting
<1> PICK k \in Handle : k = hs[u]
  BY <1>2 DEF Acting
<1> PICK c \in Context : c = r.threads[k.tid]
  BY <1>2 DEF Acting
<1> PICK h \in Handle : h = [k EXCEPT !.care = "none", !.found = kUnknownTid]
  BY Zenon DEF Handle
<1>3. /\ h.phase = k.phase /\ h.tid = k.tid /\ h.uid = k.uid /\ h.care = "none"
  BY DEF Handle
<1>4. handles' = Stepped(hs, u, h)
  BY <1>1 DEF Stepped
<1>5. /\ Acting(r, hs, u) /\ r.ok /\ Good(r, hs) /\ Queues(r, {}) /\ u \in DOMAIN hs
      /\ k.care = "joining" /\ k.phase \in {"created", "running", "finished"}
      /\ Describes(c, k) /\ LifeOK(u, k) /\ k.tid \in Tids /\ k.tid < r.n_contexts
  BY <1>1, <1>2 DEF Acting
<1>6. k.found = k.tid /\ k.uid \in UserIds \cup {0}
  BY <1>5 DEF LifeOK, Handle
<1>7. c.status = StatusOf(k) /\ c.status \notin {"Invalid", "Dead"} /\ c.user_id = 0
  BY <1>5 DEF Describes, StatusOf, Pending
<1> PICK d \in Context : d = Renamed(c, k.uid)
  BY <1>6, RenamedContext
<1> PICK s \in Registry : s = With(r, k.tid, d)
  BY <1>5, PutThere
<1>8. s.ok /\ Moved(r, s, k.tid, d)
  BY <1>5, <1>6, RenameEffect
<1>9. SetThreadUserId(r, k.tid, k.uid) = s
  BY <1>5, <1>6, <1>7, SetUserIdEffect
<1>10. /\ d.status = c.status /\ d.user_id = k.uid /\ d.detached = c.detached
       /\ d.destroyed = c.destroyed
  BY <1>6, RenamedContext
<1>11. Continues(hs, u, d, h)
  <2>1. StatusOf(h) = StatusOf(k) /\ (Knows(h) => Knows(k))
    BY <1>3, <1>5 DEF StatusOf, Knows, Pending
  <2>2. Describes(d, h)
    BY <1>3, <1>5, <1>7, <1>10, <2>1 DEF Describes
  <2>3. LifeOK(u, h)
    BY <1>3, <1>5 DEF LifeOK
  <2> QED
    BY <1>3, <2>1, <2>2, <2>3 DEF Continues
<1>12. d.status # "Dead" /\ reg' = s /\ limit' \in BOOLEAN
  BY <1>1, <1>6, <1>7, <1>9, <1>10
<1> QED
  BY <1>4, <1>5, <1>8, <1>11, <1>12, Done


\* What the report of a detach or a join finds: a thread that runs or has finished
LEMMA Reported ==
  ASSUME IInv, NEW u \in Handles, handles[u].care \in {"letGo", "ended"}
  PROVE  /\ Acting(reg, handles, u) /\ handles[u].phase \in {"running", "finished"}
         /\ handles[u].found = handles[u].tid /\ handles[u].tid \in Tids \ {0}
         /\ LET c == reg.threads[handles[u].tid]
            IN  /\ c.status = IF handles[u].phase = "running" THEN "Running" ELSE "Finished"
                /\ c.destroyed <=> handles[u].phase = "finished"
                /\ ~ c.detached /\ c.user_id = 0
<1>1. handles[u] \in Handle /\ LifeOK(u, handles[u])
  BY IsHandle
<1>2. handles[u].phase \in {"running", "finished"} /\ u # 1
  BY <1>1 DEF LifeOK, Handle
<1>3. Acting(reg, handles, u)
  BY <1>2, Acts DEF StatusOf, Pending
<1>4. Describes(reg.threads[handles[u].tid], handles[u])
  BY <1>3 DEF Acting
<1> QED
  BY <1>1, <1>2, <1>3, <1>4 DEF Describes, StatusOf, Pending, LifeOK, Handle

\* The thread is over and done with when its context dies
LEMMA ReportedDead ==
  ASSUME NEW r, NEW hs, NEW u, Acting(r, hs, u),
         NEW k \in Handle, k = hs[u], k.care \in {"letGo", "ended"}, k.phase = "finished",
         NEW c \in Context, c = r.threads[k.tid], c.status = "Finished", c.destroyed,
         NEW after \in {"detached", "joined"}, NEW h \in Handle,
         h.phase = k.phase, h.tid = k.tid, h.uid = k.uid, h.found = k.found, h.care = after,
         reg' = QuarantinePush(With(r, k.tid, DeadOf(c)), k.tid),
         handles' = Stepped(hs, u, h), limit' \in BOOLEAN
  PROVE  IInv' /\ Frees(r, reg')
<1>1. r \in Registry /\ r.ok /\ Queues(r, {}) /\ k.tid \in Tids /\ LifeOK(u, k)
  BY DEF Acting
<1>2. QuarantinePush(With(r, k.tid, DeadOf(c)), k.tid).ok
  BY <1>1, DieEffect
<1> PICK q : q = QuarantinePush(With(r, k.tid, DeadOf(c)), k.tid)
  OBVIOUS
<1> PICK d \in Context : d = DeadOf(c)
  BY DeadContext
<1>3. PICK s \in Registry : Moved(r, s, k.tid, d) /\ Pushed(s, q, k.tid)
  BY <1>1, DieEffect
<1>4. d.status = "Dead" /\ d.user_id = 0 /\ d.destroyed
  BY DeadContext
<1>5. Continues(hs, u, d, h)
  <2>1. Describes(d, h)
    BY <1>4 DEF Describes, StatusOf, Pending
  <2>2. LifeOK(u, h) /\ ~ Knows(h)
    BY <1>1 DEF LifeOK, Knows
  <2> QED
    BY <2>1, <2>2 DEF Continues
<1>6. Moved(r, s, hs[u].tid, d) /\ Pushed(s, q, hs[u].tid) /\ q.ok /\ reg' = q
  BY <1>2, <1>3
<1> QED
  BY <1>5, <1>6, DoneDead

LEMMA DetachKeeps ==
  ASSUME IInv, NEW u \in Handles, Detach(u)
  PROVE  IInv' /\ Frees(reg, reg')
<1>1. handles[u].care = "letGo" /\ limit' = limit /\ limit \in BOOLEAN
  BY DEF Detach, IInv, TypeInv
<1>2. Acting(reg, handles, u) /\ handles[u].found = handles[u].tid
  BY <1>1, Reported
<1> PICK r \in Registry : r = reg
  BY <1>2 DEF Acting
<1> PICK hs \in Seq(Handle) : hs = handles
  BY <1>2 DEF Acting
<1> PICK k \in Handle : k = hs[u]
  BY <1>2 DEF Acting
<1> PICK c \in Context : c = r.threads[k.tid]
  BY <1>2 DEF Acting
<1>3. /\ k.care = "letGo" /\ k.phase \in {"running", "finished"} /\ k.tid \in Tids \ {0}
      /\ c.status = IF k.phase = "running" THEN "Running" ELSE "Finished"
      /\ c.destroyed <=> k.phase = "finished"
      /\ ~ c.detached /\ c.user_id = 0
  BY <1>1, Reported
<1>4. /\ reg' = DetachThread(r, k.tid)
      /\ handles' = [handles EXCEPT ![u].care = "detached"]
  BY <1>2, <1>3 DEF Detach, Over
<1> PICK h \in Handle : h = [k EXCEPT !.care = "detached"]
  BY DEF Handle
<1>5. /\ h.phase = k.phase /\ h.tid = k.tid /\ h.uid = k.uid /\ h.care = "detached"
      /\ h.found = k.found
  BY DEF Handle
<1>6. handles' = Stepped(hs, u, h)
  BY <1>4 DEF Stepped
<1>7. Acting(r, hs, u) /\ r.ok /\ k.tid < r.n_contexts /\ Describes(c, k) /\ LifeOK(u, k)
  BY <1>2 DEF Acting
<1>8. CASE k.phase = "finished"
  <2>1. reg' = QuarantinePush(With(r, k.tid, DeadOf(c)), k.tid)
    BY <1>3, <1>4, <1>7, <1>8, DetachEffect
  <2> QED
    BY <1>1, <1>3, <1>5, <1>6, <1>7, <1>8, <2>1, ReportedDead
<1>9. CASE k.phase = "running"
  <2> PICK d \in Context : d = DetachedOf(c)
    BY DetachedContext
  <2>1. d.status = "Running" /\ d.detached /\ d.user_id = 0 /\ ~ d.destroyed
    BY <1>3, <1>9, DetachedContext
  <2> PICK s : s = DetachThread(r, k.tid)
    OBVIOUS
  <2>2. s.ok /\ Moved(r, s, k.tid, d)
    BY <1>3, <1>7, <1>9, DetachEffect
  <2>3. s \in Registry
    BY <2>2 DEF Moved
  <2>4. Continues(hs, u, d, h)
    <3>1. Describes(d, h)
      BY <1>5, <1>9, <2>1 DEF Describes, StatusOf
    <3>2. LifeOK(u, h) /\ Knows(k)
      BY <1>3, <1>5, <1>7, <1>9 DEF LifeOK, Knows
    <3> QED
      BY <1>5, <3>1, <3>2 DEF Continues
  <2>5. reg' = s /\ limit' \in BOOLEAN /\ Moved(r, s, hs[u].tid, d) /\ d.status # "Dead"
    BY <1>1, <1>4, <2>1, <2>2
  <2> QED
    BY <1>6, <1>7, <2>2, <2>3, <2>4, <2>5, Done
<1> QED
  BY <1>3, <1>8, <1>9

LEMMA JoinThreadKeeps ==
  ASSUME IInv, NEW u \in Handles, JoinThread(u)
  PROVE  IInv' /\ Frees(reg, reg')
<1>1. handles[u].care = "ended" /\ limit' = limit /\ limit \in BOOLEAN
  BY DEF JoinThread, IInv, TypeInv
<1>2. Acting(reg, handles, u) /\ handles[u].found = handles[u].tid
  BY <1>1, Reported
<1> PICK r \in Registry : r = reg
  BY <1>2 DEF Acting
<1> PICK hs \in Seq(Handle) : hs = handles
  BY <1>2 DEF Acting
<1> PICK k \in Handle : k = hs[u]
  BY <1>2 DEF Acting
<1> PICK c \in Context : c = r.threads[k.tid]
  BY <1>2 DEF Acting
<1>3. /\ k.care = "ended" /\ k.phase \in {"running", "finished"} /\ k.tid \in Tids \ {0}
      /\ c.status = IF k.phase = "running" THEN "Running" ELSE "Finished"
      /\ c.destroyed <=> k.phase = "finished"
      /\ ~ c.detached /\ c.user_id = 0
  BY <1>1, Reported
<1>4. /\ reg' = JoinRound(r, k.tid)
      /\ handles' = [handles EXCEPT ![u].care = IF c.destroyed THEN "joined" ELSE "ended"]
  BY <1>2, <1>3 DEF JoinThread, Over, GetDestroyed
<1>h. PICK h \in Handle : h = [k EXCEPT !.care = IF c.destroyed THEN "joined" ELSE "ended"]
  BY DEF Handle
<1>5. /\ h.phase = k.phase /\ h.tid = k.tid /\ h.uid = k.uid
      /\ h.care = (IF c.destroyed THEN "joined" ELSE "ended") /\ h.found = k.found
  BY <1>h DEF Handle
<1>6. handles' = Stepped(hs, u, h)
  BY <1>4, <1>h DEF Stepped
<1>7. Acting(r, hs, u) /\ r.ok /\ k.tid < r.n_contexts /\ Describes(c, k) /\ LifeOK(u, k)
  BY <1>2 DEF Acting
<1>8. JoinRound(r, k.tid) = IF c.destroyed THEN QuarantinePush(With(r, k.tid, DeadOf(c)), k.tid)
                                           ELSE r
  BY <1>3, <1>7, JoinEffect
<1>9. CASE k.phase = "finished"
  <2>1. reg' = QuarantinePush(With(r, k.tid, DeadOf(c)), k.tid)
    BY <1>3, <1>4, <1>8, <1>9
  <2>2. /\ c.destroyed /\ c.status = "Finished" /\ h.care = "joined" /\ h.phase = k.phase
        /\ h.tid = k.tid /\ h.uid = k.uid /\ h.found = k.found
        /\ k.care \in {"letGo", "ended"} /\ limit' \in BOOLEAN
    BY <1>1, <1>3, <1>5, <1>9
  <2> QED
    BY <1>6, <1>7, <1>9, <2>1, <2>2, ReportedDead
<1>10. CASE k.phase = "running"
  <2>1. Moved(r, r, k.tid, c) /\ c.status # "Dead"
    BY <1>3, <1>10 DEF Moved, Counted, Registry
  <2>2. Continues(hs, u, c, h)
    <3>1. Describes(c, h)
      BY <1>3, <1>5, <1>7, <1>10 DEF Describes, StatusOf
    <3>2. LifeOK(u, h) /\ Knows(k)
      BY <1>3, <1>5, <1>7, <1>10 DEF LifeOK, Knows
    <3> QED
      BY <1>5, <3>1, <3>2 DEF Continues
  <2>3. reg' = r /\ limit' \in BOOLEAN /\ Moved(r, r, hs[u].tid, c)
    BY <1>1, <1>3, <1>4, <1>8, <1>10, <2>1
  <2> QED
    BY <1>6, <1>7, <2>1, <2>2, <2>3, Done
<1> QED
  BY <1>3, <1>9, <1>10

-----------------------------------------------------------------------------
\* A new thread
Blank(c) == c.status = "Invalid" /\ ~ c.destroyed /\ ~ WornOut(c)

Taken(r, t, tid) ==
  /\ t \in Registry /\ t.threads = r.threads /\ t.dead = r.dead
  /\ t.total = r.total /\ t.alive = r.alive /\ t.max_alive = r.max_alive
  /\ t.running = r.running /\ t.ok = r.ok
  /\ tid \in Tids /\ tid < t.n_contexts /\ Blank(r.threads[tid])
  /\ tid = 0 <=> r.n_contexts = 0
  /\ t.n_contexts = r.n_contexts \/ (t.n_contexts = r.n_contexts + 1 /\ tid = r.n_contexts)
  /\ Once(t.invalid) /\ \A y : In(t.invalid, y) <=> In(r.invalid, y) /\ y # tid

\* The context CreateThread takes is blank, and is that of tid 0 only the first time
LEMMA TakeEffect ==
  ASSUME NEW r \in Registry, Queues(r, {}), CanCreate(r)
  PROVE  Taken(r, TakeContext(r), NextTid(r))
<1>0. /\ r.invalid \in Seq(Tids) /\ r.n_contexts \in 0 .. MaxThreads /\ MaxThreads \in Nat
      /\ Tids = 0 .. MaxThreads - 1 /\ Once(r.invalid) /\ \A y \in Tids : Queued(r, y, {})
      /\ r.n_contexts > 0 => r.threads[0].status # "Invalid"
      /\ MaxReuse \in Nat
  BY RegistryAssumption DEF Registry, Tids, Queues
<1>1. CASE r.invalid # <<>>
  <2> PICK x \in Tids : x = Head(r.invalid)
    BY <1>0, <1>1, PoppedFront
  <2> PICK b \in Seq(Tids) : b = Tail(r.invalid)
    BY <1>0, <1>1, PoppedFront
  <2>1. In(r.invalid, x) /\ Once(b) /\ \A y : In(b, y) <=> In(r.invalid, y) /\ y # x
    BY <1>0, <1>1, PoppedFront
  <2>2. Blank(r.threads[x]) /\ x < r.n_contexts
    BY <1>0, <2>1 DEF Queued, Blank
  <2>3. x # 0 /\ r.n_contexts # 0
    BY <1>0, <2>2 DEF Blank
  <2>4. NextTid(r) = x /\ TakeContext(r) = [r EXCEPT !.invalid = b]
    BY <1>1 DEF NextTid, TakeContext
  <2> DEFINE t == [r EXCEPT !.invalid = b]
  <2>5. /\ t \in Registry /\ t.threads = r.threads /\ t.dead = r.dead /\ t.invalid = b
        /\ t.n_contexts = r.n_contexts /\ t.total = r.total /\ t.alive = r.alive
        /\ t.max_alive = r.max_alive /\ t.running = r.running /\ t.ok = r.ok
    BY DEF Registry
  <2> HIDE DEF t
  <2>6. Taken(r, t, x)
    BY <2>1, <2>2, <2>3, <2>5 DEF Taken
  <2> QED
    BY <2>4, <2>6 DEF t
<1>2. CASE r.invalid = <<>>
  <2> PICK x \in Tids : x = r.n_contexts
    BY <1>0, <1>2 DEF CanCreate
  <2> PICK n \in 0 .. MaxThreads : n = x + 1
    BY <1>0
  <2>1. \A y : ~ In(r.invalid, y)
    BY <1>2 DEF In
  <2>2. Blank(r.threads[x])
    BY <1>0 DEF Queued, Blank, WornOut
  <2>3. NextTid(r) = x /\ TakeContext(r) = [r EXCEPT !.n_contexts = n]
    BY <1>2 DEF NextTid, TakeContext
  <2> DEFINE t == [r EXCEPT !.n_contexts = n]
  <2>4. /\ t \in Registry /\ t.threads = r.threads /\ t.dead = r.dead /\ t.invalid = r.invalid
        /\ t.n_contexts = n /\ t.total = r.total /\ t.alive = r.alive
        /\ t.max_alive = r.max_alive /\ t.running = r.running /\ t.ok = r.ok
    BY DEF Registry
  <2> HIDE DEF t
  <2>5. x < n
    BY <1>0
  <2>6. Taken(r, t, x)
    BY <1>0, <2>1, <2>2, <2>4, <2>5 DEF Taken
  <2> QED
    BY <2>3, <2>6 DEF t
<1> QED
  BY <1>1, <1>2

CreatedFor(c, uid, n, detached) ==
  [c EXCEPT !.status = "Created", !.user_id = uid, !.unique_id = n, !.detached = detached]

LEMMA CreatedContext ==
  ASSUME NEW c \in Context, NEW uid \in UserIds \cup {0}, NEW n \in 0 .. MaxTotal,
         NEW detached \in BOOLEAN
  PROVE  /\ CreatedFor(c, uid, n, detached) \in Context
         /\ CreatedFor(c, uid, n, detached).status = "Created"
         /\ CreatedFor(c, uid, n, detached).user_id = uid
         /\ CreatedFor(c, uid, n, detached).unique_id = n
         /\ CreatedFor(c, uid, n, detached).detached = detached
         /\ CreatedFor(c, uid, n, detached).destroyed = c.destroyed
         /\ CreatedFor(c, uid, n, detached).reuse_count = c.reuse_count
BY DEF CreatedFor, Context, Statuses

CreatedAt(q, x, uid, n, detached) ==
  [q EXCEPT !.threads[x].status = "Created", !.threads[x].user_id = uid,
            !.threads[x].unique_id = n, !.threads[x].detached = detached]

LEMMA CreatedThere ==
  ASSUME NEW q \in Registry, NEW x \in Tids, NEW c \in Context, c = q.threads[x],
         NEW uid \in UserIds \cup {0}, NEW n \in 0 .. MaxTotal, NEW detached \in BOOLEAN
  PROVE  CreatedAt(q, x, uid, n, detached) = With(q, x, CreatedFor(c, uid, n, detached))
<1>c1. PICK c1 \in Context : c1 = [c EXCEPT !.status = "Created"]
  BY DEF Context, Statuses
<1>f1. PICK f1 \in Registry : f1 = With(q, x, c1)
  BY PutThere
<1>1. [q EXCEPT !.threads[x].status = "Created"] = f1 /\ c1 = f1.threads[x]
  BY <1>c1, <1>f1, PutThere DEF With
<1>c2. PICK c2 \in Context : c2 = [c1 EXCEPT !.user_id = uid]
  BY DEF Context, Statuses
<1>f2. PICK f2 \in Registry : f2 = With(q, x, c2)
  BY PutThere
<1>2. [f1 EXCEPT !.threads[x].user_id = uid] = f2 /\ c2 = f2.threads[x]
  <2>1. [f1 EXCEPT !.threads[x].user_id = uid] = With(f1, x, c2)
    BY <1>1, <1>c2 DEF With
  <2> QED
    BY <1>f1, <1>f2, <2>1, PutThere, WithTwice
<1>c3. PICK c3 \in Context : c3 = [c2 EXCEPT !.unique_id = n]
  BY DEF Context, Statuses
<1>f3. PICK f3 \in Registry : f3 = With(q, x, c3)
  BY PutThere
<1>3. [f2 EXCEPT !.threads[x].unique_id = n] = f3 /\ c3 = f3.threads[x]
  <2>1. [f2 EXCEPT !.threads[x].unique_id = n] = With(f2, x, c3)
    BY <1>2, <1>c3 DEF With
  <2> QED
    BY <1>f2, <1>f3, <2>1, PutThere, WithTwice
<1>c4. PICK c4 \in Context : c4 = [c3 EXCEPT !.detached = detached]
  BY DEF Context, Statuses
<1>f4. PICK f4 \in Registry : f4 = With(q, x, c4)
  BY PutThere
<1>4. [f3 EXCEPT !.threads[x].detached = detached] = f4 /\ c4 = f4.threads[x]
  <2>1. [f3 EXCEPT !.threads[x].detached = detached] = With(f3, x, c4)
    BY <1>3, <1>c4 DEF With
  <2> QED
    BY <1>f3, <1>f4, <2>1, PutThere, WithTwice
<1>5. c4 = CreatedFor(c, uid, n, detached)
  BY <1>c1, <1>c2, <1>c3, <1>c4 DEF CreatedFor
<1> QED
  BY <1>1, <1>2, <1>3, <1>4, <1>5, <1>f4 DEF CreatedAt

\* The registry s is r with the context c for the new thread
Added(r, t, s, tid, c) ==
  /\ s \in Registry /\ s.ok
  /\ \A y \in Tids : s.threads[y] = IF y = tid THEN c ELSE r.threads[y]
  /\ s.dead = r.dead /\ s.invalid = t.invalid /\ s.n_contexts = t.n_contexts
  /\ s.total = r.total + 1 /\ s.alive = r.alive + 1 /\ s.running = r.running
  /\ s.alive <= s.max_alive /\ s.max_alive <= s.total

\* CreateThread passes its checks and counts the new thread
LEMMA CreateEffect ==
  ASSUME NEW r \in Registry, r.ok, r.alive <= r.max_alive, r.max_alive <= r.total,
         r.total < MaxTotal,
         NEW t, NEW x, t = TakeContext(r), x = NextTid(r), Taken(r, t, x),
         NEW uid \in UserIds \cup {0}, NEW detached \in BOOLEAN
  PROVE  Added(r, t, CreateThread(r, uid, detached), x,
               CreatedFor(r.threads[x], uid, r.total, detached))
<1>0. /\ t \in Registry /\ t.threads = r.threads /\ t.dead = r.dead
      /\ t.total = r.total /\ t.alive = r.alive /\ t.max_alive = r.max_alive
      /\ t.running = r.running /\ t.ok = r.ok
      /\ x \in Tids /\ r.threads[x].status = "Invalid"
  BY DEF Taken, Blank
<1>1. r.total \in Nat /\ r.alive \in Nat /\ r.max_alive \in Nat /\ r.threads[x] \in Context
      /\ r.total \in 0 .. MaxTotal
  BY <1>0, RegistryAssumption DEF Registry
<1>c. PICK c \in Context : c = r.threads[x]
  BY <1>1
<1>d. PICK d \in Context : d = CreatedFor(c, uid, r.total, detached)
  BY <1>1, CreatedContext
<1>n. PICK n \in Nat : n = r.total + 1
  BY <1>1
<1>a. PICK a \in Nat : a = r.alive + 1
  BY <1>1
<1>m. PICK m \in Nat : m = IF r.max_alive < a THEN r.max_alive + 1 ELSE r.max_alive
  BY <1>1
<1>2. CHECK(t, r.threads[x].status = "Invalid") = t
  BY <1>0 DEF CHECK, Registry
<1>3. t.ok /\ (r.max_alive < a => r.max_alive = r.alive)
  BY <1>0, <1>1, <1>a DEF Registry
<1>q. PICK q \in Registry : q = [t EXCEPT !.alive = a, !.max_alive = m, !.ok = TRUE, !.total = n]
  BY <1>0 DEF Registry
<1>4. CreateThread(r, uid, detached) = With(q, x, d)
  <2>1. t.alive + 1 = a /\ (IF t.max_alive < r.alive + 1 THEN t.max_alive + 1 ELSE t.max_alive) = m
        /\ t.total + 1 = n /\ (t.ok /\ (r.max_alive < r.alive + 1 => r.max_alive = r.alive)) = TRUE
    BY <1>0, <1>1, <1>3, <1>a, <1>m, <1>n
  <2>2. CreateThread(r, uid, detached) = CreatedAt(q, x, uid, r.total, detached)
    BY <1>2, <1>q, <2>1, Zenon DEF CreateThread, CreatedAt
  <2>3. q.threads[x] = c
    BY <1>0, <1>c, <1>q DEF Registry
  <2> QED
    BY <1>0, <1>1, <1>d, <2>2, <2>3, CreatedThere
<1>s. PICK s \in Registry : s = With(q, x, d)
  BY <1>0, PutThere
<1>5. /\ q.threads = r.threads /\ q.dead = r.dead /\ q.invalid = t.invalid
      /\ q.n_contexts = t.n_contexts /\ q.total = n /\ q.alive = a /\ q.max_alive = m
      /\ q.running = r.running /\ q.ok
  BY <1>0, <1>q DEF Registry
<1>6. /\ s.threads = [q.threads EXCEPT ![x] = d] /\ s.dead = q.dead /\ s.invalid = q.invalid
      /\ Same(q, s)
  BY <1>0, <1>s, WithContext
<1>7. \A y \in Tids : s.threads[y] = IF y = x THEN d ELSE r.threads[y]
  BY <1>5, <1>6 DEF Registry
<1>8. a <= m /\ m <= n
  BY <1>1, <1>a, <1>m, <1>n
<1>9. Added(r, t, s, x, d)
  BY <1>5, <1>6, <1>7, <1>8, <1>a, <1>n DEF Added, Same
<1> QED
  BY <1>4, <1>9, <1>c, <1>d, <1>s

\* The parts of the invariant when thread u = Len(hs) + 1 is created
Appended(hs, g, h) ==
  /\ g \in Seq(Handle) /\ Len(g) = Len(hs) + 1 /\ g # <<>> /\ Len(hs) \in Nat
  /\ DOMAIN hs = 1 .. Len(hs) /\ DOMAIN g = 1 .. Len(hs) + 1
  /\ \A v \in DOMAIN hs : v \in DOMAIN g /\ g[v] = hs[v] /\ v \in Nat /\ v # Len(hs) + 1
  /\ \A v \in DOMAIN g : v \in DOMAIN hs \/ v = Len(hs) + 1
  /\ Len(hs) + 1 \in DOMAIN g /\ g[Len(hs) + 1] = h

LEMMA AppendHandle ==
  ASSUME NEW hs \in Seq(Handle), NEW h \in Handle
  PROVE  Appended(hs, Append(hs, h), h)
<1> PICK g \in Seq(Handle) : g = Append(hs, h)
  BY AppendProperties
<1>1. /\ Len(g) = Len(hs) + 1 /\ g # <<>> /\ g[Len(hs) + 1] = h
      /\ \A i \in 1 .. Len(hs) : g[i] = hs[i]
      /\ Len(hs) \in Nat /\ DOMAIN hs = 1 .. Len(hs) /\ DOMAIN g = 1 .. Len(hs) + 1
  BY AppendProperties, LenProperties
<1> QED
  BY <1>1 DEF Appended

\* How the new context describes the new thread
Starts(r, hs, x, c, h) ==
  /\ c \in Context /\ h \in Handle
  /\ c.status = "Created" /\ c.unique_id = r.total
  /\ c.reuse_count = r.threads[x].reuse_count
  /\ h.tid = x /\ h.phase = "created" /\ h.care \in {"none", "bornDetached"}
  /\ Describes(c, h)
  /\ hs = <<>> => h.care = "bornDetached" /\ h.uid = 0
  /\ hs # <<>> => h.uid # 0 /\ \A v \in DOMAIN hs : Knows(hs[v]) => hs[v].uid # h.uid

\* The queues after CreateThread
LEMMA CreateQueues ==
  ASSUME NEW r \in Registry, Queues(r, {}), NEW x, NEW t, Taken(r, t, x),
         NEW s, NEW c, Added(r, t, s, x, c), c.status = "Created",
         c.reuse_count = r.threads[x].reuse_count
  PROVE  Queues(s, {})
<1>1. /\ x \in Tids /\ x < t.n_contexts /\ Blank(r.threads[x])
      /\ x = 0 <=> r.n_contexts = 0
      /\ t.n_contexts = r.n_contexts \/ (t.n_contexts = r.n_contexts + 1 /\ x = r.n_contexts)
      /\ Once(t.invalid) /\ \A y : In(t.invalid, y) <=> In(r.invalid, y) /\ y # x
  BY DEF Taken
<1>2. /\ \A y \in Tids : s.threads[y] = IF y = x THEN c ELSE r.threads[y]
      /\ s.dead = r.dead /\ s.invalid = t.invalid /\ s.n_contexts = t.n_contexts
  BY DEF Added
<1>3. /\ Len(r.dead) <= ThreadQuarantineSize /\ Once(r.dead)
      /\ \A y \in Tids : Queued(r, y, {})
      /\ r.n_contexts > 0 => r.threads[0].status # "Invalid"
  BY DEF Queues
<1>4. r.n_contexts \in Nat /\ t.n_contexts \in Nat /\ Tids \subseteq Nat /\ 0 \in Tids
  BY RegistryAssumption DEF Registry, Tids, Taken
<1>5. \A y \in Tids : Queued(s, y, {})
  <2> TAKE y \in Tids
  <2>1. Queued(r, y, {})
    BY <1>3
  <2>2. CASE y = x
    <3>1. ~ (x >= s.n_contexts) /\ ~ WornOut(c)
      BY <1>1, <1>2, <1>4 DEF Blank, WornOut
    <3>2. ~ In(s.dead, x) /\ ~ In(s.invalid, x)
      BY <1>1, <1>2, <2>1, <2>2 DEF Queued, Blank
    <3>3. MaxReuse > 0 => c.reuse_count <= MaxReuse
      BY <2>1, <2>2 DEF Queued
    <3> QED
      BY <1>2, <2>2, <3>1, <3>2, <3>3 DEF Queued
  <2>3. CASE y # x
    <3>1. /\ y < s.n_contexts <=> y < r.n_contexts
          /\ y >= s.n_contexts <=> y >= r.n_contexts
      BY <1>1, <1>2, <1>4, <2>3
    <3>2. /\ In(s.dead, y) <=> In(r.dead, y)
          /\ In(s.invalid, y) <=> In(r.invalid, y)
          /\ s.threads[y] = r.threads[y]
      BY <1>1, <1>2, <2>3
    <3> QED
      BY <2>1, <3>1, <3>2 DEF Queued
  <2> QED
    BY <2>2, <2>3
<1>6. s.threads[0].status # "Invalid"
  BY <1>1, <1>2, <1>3, <1>4
<1> QED
  BY <1>1, <1>2, <1>3, <1>5, <1>6 DEF Queues

\* The threads and their contexts after CreateThread
LEMMA CreateHandles ==
  ASSUME NEW r \in Registry, NEW hs \in Seq(Handle), Good(r, hs), NEW x, NEW t, Taken(r, t, x),
         NEW s, NEW c, Added(r, t, s, x, c), NEW h, Starts(r, hs, x, c, h),
         NEW g, Appended(hs, g, h)
  PROVE  HandlesOK(s, g) /\ ContextsOK(s, g) /\ IdsDiffer(g)
<1> DEFINE n == Len(hs) + 1
<1>0. /\ HandlesOK(r, hs) /\ ContextsOK(r, hs) /\ IdsDiffer(hs)
      /\ r.total = Len(hs) /\ (hs = <<>> <=> r.n_contexts = 0) /\ Len(hs) \in Nat
      /\ hs = <<>> <=> n = 1
  <2>1. hs = <<>> <=> Len(hs) = 0
    BY EmptySeq
  <2> QED
    BY <2>1 DEF Good, Counts, Appended
<1>1. /\ \A v \in DOMAIN hs : v \in DOMAIN g /\ g[v] = hs[v] /\ v \in Nat /\ v # n
      /\ \A v \in DOMAIN g : v \in DOMAIN hs \/ v = n
      /\ n \in DOMAIN g /\ g[n] = h
  BY DEF Appended
<1>2. /\ x \in Tids /\ r.threads[x].status = "Invalid" /\ (x = 0 <=> hs = <<>>)
      /\ \A y \in Tids : s.threads[y] = IF y = x THEN c ELSE r.threads[y]
  BY <1>0 DEF Taken, Blank, Added
<1>3. /\ c.status = "Created" /\ c.unique_id = Len(hs) /\ c.unique_id + 1 = n
      /\ c.unique_id = n - 1
  BY <1>0 DEF Starts
<1>4. /\ h.tid = x /\ h.phase = "created" /\ h.care \in {"none", "bornDetached"}
      /\ Describes(c, h) /\ StatusOf(h) # "Dead"
      /\ hs = <<>> => h.care = "bornDetached" /\ h.uid = 0
      /\ hs # <<>> => h.uid # 0 /\ \A v \in DOMAIN hs : Knows(hs[v]) => hs[v].uid # h.uid
  BY DEF Starts, StatusOf
<1>5. LifeOK(n, h)
  BY <1>0, <1>2, <1>4 DEF LifeOK
<1> HIDE DEF n
<1>6. HandlesOK(s, g)
  <2> SUFFICES ASSUME NEW v \in DOMAIN g
               PROVE  /\ LifeOK(v, g[v])
                      /\ StatusOf(g[v]) # "Dead" =>
                           s.threads[g[v].tid].status # "Invalid" /\ s.threads[g[v].tid].unique_id = v - 1
    BY DEF HandlesOK
  <2>1. CASE v = n
    BY <1>1, <1>2, <1>3, <1>4, <1>5, <2>1
  <2>2. CASE v \in DOMAIN hs
    <3>1. LifeOK(v, hs[v]) /\ hs[v].tid \in Tids /\ g[v] = hs[v]
      BY <1>0, <1>1, <2>2, Parts
    <3>2. StatusOf(hs[v]) # "Dead" =>
            r.threads[hs[v].tid].status # "Invalid" /\ r.threads[hs[v].tid].unique_id = v - 1
      BY <1>0, <2>2 DEF HandlesOK
    <3> QED
      BY <1>2, <3>1, <3>2
  <2> QED
    BY <1>1, <2>1, <2>2
<1>7. ContextsOK(s, g)
  <2> SUFFICES ASSUME NEW y \in Tids, s.threads[y].status # "Invalid"
               PROVE  Serves(g, y, s.threads[y])
    BY DEF ContextsOK
  <2>1. CASE y = x
    BY <1>1, <1>2, <1>3, <1>4, <2>1 DEF Serves
  <2>2. CASE y # x
    <3>1. Serves(hs, y, r.threads[y]) /\ s.threads[y] = r.threads[y]
      BY <1>0, <1>2, <2>2 DEF ContextsOK
    <3> QED
      BY <1>1, <3>1 DEF Serves
  <2> QED
    BY <2>1, <2>2
<1>8. IdsDiffer(g)
  <2> SUFFICES ASSUME NEW u \in DOMAIN g, NEW v \in DOMAIN g,
                      Knows(g[u]), Knows(g[v]), g[u].uid = g[v].uid, u # 1
               PROVE  u = v
    BY DEF IdsDiffer
  <2>1. CASE u \in DOMAIN hs /\ v \in DOMAIN hs
    BY <1>0, <1>1, <2>1 DEF IdsDiffer
  <2>2. CASE u \in DOMAIN hs /\ v = n
    <3>1. hs # <<>>
      BY <2>2
    <3> QED
      BY <1>1, <1>4, <2>2, <3>1
  <2>3. CASE u = n /\ v \in DOMAIN hs
    <3>1. hs # <<>>
      BY <2>3
    <3> QED
      BY <1>1, <1>4, <2>3, <3>1
  <2> QED
    BY <1>1, <2>1, <2>2, <2>3
<1> QED
  BY <1>6, <1>7, <1>8

\* The counters after CreateThread, and how many threads a context served
LEMMA CreateCounts ==
  ASSUME NEW r \in Registry, NEW hs \in Seq(Handle), Good(r, hs), NEW x, NEW t, Taken(r, t, x),
         NEW s, NEW c, Added(r, t, s, x, c), NEW h, Starts(r, hs, x, c, h),
         NEW g, Appended(hs, g, h), Len(hs) < MaxTotal
  PROVE  Counts(s, g) /\ Uses(s, g)
<1> DEFINE L == {"Created", "Running"}
           R == {"Running"}
<1>0. /\ r.alive = Cardinality(Having(r, L)) /\ r.running = Cardinality(Having(r, R))
      /\ r.total = Len(hs) /\ Uses(r, hs)
  BY DEF Good, Counts
<1>1. /\ x \in Tids /\ r.threads[x].status = "Invalid" /\ s.threads[x] = c
      /\ \A y \in Tids \ {x} : s.threads[y] = r.threads[y]
      /\ s \in Registry
      /\ s.total = r.total + 1 /\ s.alive = r.alive + 1 /\ s.running = r.running
      /\ s.alive <= s.max_alive /\ s.max_alive <= s.total
  BY DEF Taken, Blank, Added
<1>2. c.status = "Created" /\ c.reuse_count = r.threads[x].reuse_count /\ h.tid = x
  BY DEF Starts
<1>3. /\ Among(r.threads[x], L) = 0 /\ Among(c, L) = 1
      /\ Among(r.threads[x], R) = 0 /\ Among(c, R) = 0
  BY <1>1, <1>2 DEF Among
<1>4. /\ Cardinality(Having(s, L)) + Among(r.threads[x], L) = Cardinality(Having(r, L)) + Among(c, L)
      /\ Cardinality(Having(s, L)) \in Nat /\ Cardinality(Having(r, L)) \in Nat
  BY <1>1, HavingStep
<1>5. /\ Cardinality(Having(s, R)) + Among(r.threads[x], R) = Cardinality(Having(r, R)) + Among(c, R)
      /\ Cardinality(Having(s, R)) \in Nat /\ Cardinality(Having(r, R)) \in Nat
  BY <1>1, HavingStep
<1>6. s.n_contexts # 0
  <2>1. x \in Nat /\ x < t.n_contexts /\ s.n_contexts = t.n_contexts
    BY RegistryAssumption DEF Taken, Added, Tids
  <2> QED
    BY <2>1
<1>7. Len(g) = Len(hs) + 1 /\ g # <<>> /\ Len(hs) \in Nat /\ MaxTotal \in Nat
  BY RegistryAssumption DEF Appended
<1>8. Counts(s, g)
  <2>1. s.alive = Cardinality(Having(s, L)) /\ s.running = Cardinality(Having(s, R))
    BY <1>0, <1>1, <1>3, <1>4, <1>5
  <2> QED
    BY <1>0, <1>1, <1>6, <1>7, <2>1 DEF Counts
<1>9. Uses(s, g)
  <2> DEFINE n == Len(hs) + 1
  <2>1. /\ \A v \in DOMAIN hs : v \in DOMAIN g /\ g[v] = hs[v] /\ v # n
        /\ \A v \in DOMAIN g : v \in DOMAIN hs \/ v = n
        /\ n \in DOMAIN g /\ g[n] = h /\ DOMAIN hs = 1 .. Len(hs)
    BY DEF Appended
  <2> HIDE DEF n
  <2> SUFFICES ASSUME NEW y \in Tids
               PROVE  Cardinality(Served(g, y)) =
                        s.threads[y].reuse_count + (IF s.threads[y].status = "Invalid" THEN 0 ELSE 1)
    BY DEF Uses
  <2>2. Cardinality(Served(hs, y)) =
          r.threads[y].reuse_count + (IF r.threads[y].status = "Invalid" THEN 0 ELSE 1)
    BY <1>0 DEF Uses
  <2>3. CASE y = x
    <3>1. Served(g, x) = Served(hs, x) \cup {n} /\ n \notin Served(hs, x)
      BY <1>2, <2>1 DEF Served
    <3>2. IsFiniteSet(Served(hs, x))
      <4>1. IsFiniteSet(DOMAIN hs)
        BY <1>7, <2>1, FS_Interval
      <4> QED
        BY <4>1, FS_Subset DEF Served
    <3>3. Cardinality(Served(g, x)) = Cardinality(Served(hs, x)) + 1
      BY <3>1, <3>2, FS_AddElement
    <3>4. r.threads[x].reuse_count \in Nat
      BY <1>1 DEF Registry, Context
    <3> QED
      BY <1>1, <1>2, <2>2, <2>3, <3>3, <3>4
  <2>4. CASE y # x
    <3>1. Served(g, y) = Served(hs, y)
      BY <1>2, <2>1, <2>4 DEF Served
    <3> QED
      BY <1>1, <2>2, <2>4, <3>1
  <2> QED
    BY <2>3, <2>4
<1> QED
  BY <1>8, <1>9

LEMMA CreateKeeps ==
  ASSUME IInv, NEW detached \in BOOLEAN, Create(detached)
  PROVE  IInv' /\ Frees(reg, reg')
<1>1. CASE ~ CanCreate(reg)
  <2>1. limit' = TRUE /\ reg' = reg /\ handles' = handles
    BY <1>1 DEF Create
  <2> QED
    BY <2>1 DEF IInv, TypeInv, Frees
<1>2. CASE CanCreate(reg)
  <2> PICK r \in Registry : r = reg
    BY DEF IInv, TypeInv
  <2> PICK hs \in Seq(Handle) : hs = handles
    BY DEF IInv, TypeInv
  <2>1. /\ r.ok /\ Good(r, hs) /\ Queues(r, {}) /\ r.alive <= r.max_alive /\ r.max_alive <= r.total
        /\ Len(hs) < MaxTotal /\ limit' = limit /\ limit \in BOOLEAN
        /\ hs = <<>> => detached
    BY <1>2 DEF IInv, TypeInv, Good, Counts, Create
  <2> PICK x : x = NextTid(r)
    OBVIOUS
  <2> PICK t : t = TakeContext(r)
    OBVIOUS
  <2>2. Taken(r, t, x)
    BY <1>2, <2>1, TakeEffect
  <2>3. PICK uid \in IF hs = <<>> THEN {0} ELSE FreeIds :
          /\ reg' = CreateThread(r, uid, detached)
          /\ handles' = Append(hs, [tid |-> x, uid |-> uid, found |-> kUnknownTid,
                          phase |-> "created",
                          care |-> IF detached THEN "bornDetached" ELSE "none"])
    BY <1>2 DEF Create
  <2>4. /\ uid \in UserIds \cup {0}
        /\ hs = <<>> => uid = 0
        /\ hs # <<>> => uid # 0 /\ \A v \in DOMAIN hs : Knows(hs[v]) => hs[v].uid # uid
    <3>1. \A v \in DOMAIN hs : v \in Handles /\ (Known(v) <=> Knows(hs[v]))
      BY LenProperties DEF Handles, Known, Knows
    <3> QED
      BY <2>3, <3>1, RegistryAssumption DEF FreeIds
  <2> PICK e \in Context : e = r.threads[x]
    BY <2>2 DEF Taken, Registry
  <2>t. r.total \in 0 .. MaxTotal /\ r.total < MaxTotal
    BY <2>1, RegistryAssumption DEF Registry, Good, Counts
  <2> PICK c \in Context : c = CreatedFor(r.threads[x], uid, r.total, detached)
    BY <2>t, <2>4, CreatedContext
  <2>5. PICK h \in Handle : h = [tid |-> x, uid |-> uid, found |-> kUnknownTid,
                                  phase |-> "created",
                                  care |-> IF detached THEN "bornDetached" ELSE "none"]
    BY <2>2, <2>4 DEF Taken, Handle
  <2>6. /\ h.tid = x /\ h.uid = uid /\ h.phase = "created"
        /\ h.care = IF detached THEN "bornDetached" ELSE "none"
    BY <2>5
  <2> PICK s : s = CreateThread(r, uid, detached)
    OBVIOUS
  <2>7. Added(r, t, s, x, c)
    BY <2>1, <2>2, <2>4, <2>t, CreateEffect
  <2>8. /\ c.status = "Created" /\ c.user_id = uid /\ c.unique_id = r.total
        /\ c.detached = detached /\ ~ c.destroyed
        /\ c.reuse_count = r.threads[x].reuse_count
    <3>1. ~ e.destroyed
      BY <2>2 DEF Taken, Blank
    <3> QED
      BY <2>t, <2>4, <3>1, CreatedContext
  <2>9. Starts(r, hs, x, c, h)
    <3>1. Describes(c, h)
      BY <2>6, <2>8 DEF Describes, StatusOf
    <3> QED
      BY <2>1, <2>4, <2>6, <2>8, <3>1 DEF Starts
  <2> PICK g : g = Append(hs, h)
    OBVIOUS
  <2>10. Appended(hs, g, h)
    BY AppendHandle
  <2>11. /\ HandlesOK(s, g) /\ ContextsOK(s, g) /\ IdsDiffer(g)
    BY <2>1, <2>2, <2>7, <2>9, <2>10, CreateHandles
  <2>12. Counts(s, g) /\ Uses(s, g)
    BY <2>1, <2>2, <2>7, <2>9, <2>10, CreateCounts
  <2>13. Queues(s, {})
    BY <2>1, <2>2, <2>7, <2>8, CreateQueues
  <2>14. reg' = s /\ handles' = g
    BY <2>3, <2>5
  <2>15. s \in Registry /\ s.ok /\ g \in Seq(Handle)
    BY <2>7, <2>10 DEF Added, Appended
  <2>16. Frees(r, s)
    BY <2>7, <2>8 DEF Added, Frees
  <2> QED
    BY <2>1, <2>11, <2>12, <2>13, <2>14, <2>15, <2>16 DEF IInv, TypeInv, Good
<1> QED
  BY <1>1, <1>2

-----------------------------------------------------------------------------
\* The invariant holds at first
LEMMA InitIInv == Init => IInv
<1> SUFFICES ASSUME Init PROVE IInv
  OBVIOUS
<1>0. MaxThreads \in Nat /\ ThreadQuarantineSize \in Nat /\ MaxTotal \in Nat /\ 0 \in Tids
  BY RegistryAssumption DEF Tids
<1>1. NewContext \in Context
  BY <1>0 DEF NewContext, Context, Statuses
<1>2. InitReg \in Registry
  BY <1>0, <1>1, EmptySeq DEF InitReg, Registry
<1> PICK r \in Registry : r = reg
  BY <1>2 DEF Init
<1>3. /\ r.threads = [tid \in Tids |-> NewContext] /\ r.dead = <<>> /\ r.invalid = <<>>
      /\ r.n_contexts = 0 /\ r.total = 0 /\ r.alive = 0 /\ r.max_alive = 0 /\ r.running = 0
      /\ r.ok
  BY DEF Init, InitReg
<1>4. \A y \in Tids : r.threads[y].status = "Invalid" /\ ~ r.threads[y].destroyed
                      /\ r.threads[y].reuse_count = 0
  BY <1>3 DEF NewContext
<1>5. handles = <<>> /\ handles \in Seq(Handle) /\ DOMAIN handles = {} /\ Len(handles) = 0
      /\ limit \in BOOLEAN
  <2>1. handles = <<>> /\ limit = FALSE
    BY DEF Init
  <2>2. <<>> \in Seq(Handle)
    BY EmptySeq
  <2>3. Len(handles) = 0
    BY <2>1, <2>2, EmptySeq
  <2>4. DOMAIN handles = {}
    BY <2>1
  <2> QED
    BY <2>1, <2>2, <2>3, <2>4
<1>6. Queues(r, {})
  <2>1. \A y : ~ In(r.dead, y) /\ ~ In(r.invalid, y)
    BY <1>3 DEF In
  <2>2. Once(r.dead) /\ Once(r.invalid) /\ Len(r.dead) = 0
    BY <1>3 DEF Once
  <2>3. \A y \in Tids : y \in Nat
    BY <1>0 DEF Tids
  <2>4. \A y \in Tids : Queued(r, y, {})
    BY <1>3, <1>4, <2>1, <2>3, RegistryAssumption DEF Queued
  <2> QED
    BY <1>0, <1>3, <2>2, <2>4 DEF Queues
<1>7. HandlesOK(r, handles) /\ ContextsOK(r, handles) /\ IdsDiffer(handles)
  BY <1>4, <1>5 DEF HandlesOK, ContextsOK, IdsDiffer
<1>8. Counts(r, handles) /\ Uses(r, handles)
  <2>1. \A S : "Invalid" \notin S => Having(r, S) = {}
    BY <1>4 DEF Having
  <2>2. Having(r, {"Created", "Running"}) = {} /\ Having(r, {"Running"}) = {}
    BY <2>1
  <2>3. \A y : Served(handles, y) = {}
    BY <1>5 DEF Served
  <2>4. Cardinality({}) = 0
    BY FS_EmptySet
  <2>5. Counts(r, handles)
    BY <1>0, <1>3, <1>5, <2>2, <2>4 DEF Counts
  <2>6. Uses(r, handles)
    BY <1>4, <2>3, <2>4 DEF Uses
  <2> QED
    BY <2>5, <2>6
<1> QED
  BY <1>3, <1>5, <1>6, <1>7, <1>8 DEF IInv, TypeInv, Good

\* Every step keeps the invariant, and frees no context out of turn
LEMMA NextKeeps == IInv /\ [Next]_vars => IInv' /\ Frees(reg, reg')
<1> SUFFICES ASSUME IInv, [Next]_vars PROVE IInv' /\ Frees(reg, reg')
  OBVIOUS
<1>1. CASE UNCHANGED vars
  BY <1>1 DEF vars, IInv, TypeInv, Frees
<1>2. ASSUME NEW d \in BOOLEAN, Create(d) PROVE IInv' /\ Frees(reg, reg')
  BY <1>2, CreateKeeps
<1>3. ASSUME NEW u \in Handles, Start(u) PROVE IInv' /\ Frees(reg, reg')
  BY <1>3, StartKeeps
<1>4. ASSUME NEW u \in Handles, Finish(u) \/ FailToStart(u) PROVE IInv' /\ Frees(reg, reg')
  BY <1>4, FinishKeeps
<1>5. ASSUME NEW u \in Handles, CallDetach(u) \/ CallJoin(u) PROVE IInv' /\ Frees(reg, reg')
  BY <1>5, LookUpKeeps DEF CallDetach, CallJoin
<1>6. ASSUME NEW u \in Handles, RealDetach(u) \/ RealJoin(u) PROVE IInv' /\ Frees(reg, reg')
  BY <1>6, RealCallKeeps
<1>7. ASSUME NEW u \in Handles, RealJoinFails(u) PROVE IInv' /\ Frees(reg, reg')
  BY <1>7, RealJoinFailsKeeps
<1>8. ASSUME NEW u \in Handles, Detach(u) PROVE IInv' /\ Frees(reg, reg')
  BY <1>8, DetachKeeps
<1>9. ASSUME NEW u \in Handles, JoinThread(u) PROVE IInv' /\ Frees(reg, reg')
  BY <1>9, JoinThreadKeeps
<1> QED
  BY <1>1, <1>2, <1>3, <1>4, <1>5, <1>6, <1>7, <1>8, <1>9 DEF Next

\* The inductive invariant holds in every state of the registry
THEOREM Inductive == Spec => []IInv
BY InitIInv, NextKeeps, PTL DEF Spec

-----------------------------------------------------------------------------
\* The number of threads bounds what is counted
LEMMA CountsBounded ==
  ASSUME NEW r \in Registry, NEW hs \in Seq(Handle), Good(r, hs)
  PROVE  /\ r.total \in 0 .. MaxTotal /\ r.alive \in 0 .. MaxTotal
         /\ r.max_alive \in 0 .. MaxTotal /\ r.running \in 0 .. MaxTotal
         /\ \A y \in Tids : r.threads[y].reuse_count \in 0 .. MaxTotal
<1>0. /\ r.total \in Nat /\ r.alive \in Nat /\ r.max_alive \in Nat /\ r.running \in Nat
      /\ MaxTotal \in Nat
  BY RegistryAssumption DEF Registry
<1>1. /\ r.alive = Cardinality(Having(r, {"Created", "Running"}))
      /\ r.running = Cardinality(Having(r, {"Running"}))
      /\ r.alive <= r.max_alive /\ r.max_alive <= r.total
      /\ r.total = Len(hs) /\ Len(hs) <= MaxTotal
  BY DEF Good, Counts
<1>2. r.running <= r.alive
  <2>1. IsFiniteSet(Tids)
    BY RegistryAssumption, FS_Interval DEF Tids
  <2>2. IsFiniteSet(Having(r, {"Created", "Running"}))
    BY <2>1, FS_Subset DEF Having
  <2>3. Having(r, {"Running"}) \subseteq Having(r, {"Created", "Running"})
    BY DEF Having
  <2> QED
    BY <1>1, <2>2, <2>3, FS_Subset
<1>3. ASSUME NEW y \in Tids
      PROVE  r.threads[y].reuse_count \in 0 .. MaxTotal
  <2> PICK n \in Nat : n = r.threads[y].reuse_count
    BY DEF Registry, Context
  <2>1. Cardinality(Served(hs, y)) = n + (IF r.threads[y].status = "Invalid" THEN 0 ELSE 1)
    BY DEF Good, Uses
  <2>2. Cardinality(Served(hs, y)) <= Len(hs) /\ Cardinality(Served(hs, y)) \in Nat
    <3>1. DOMAIN hs = 1 .. Len(hs) /\ Len(hs) \in Nat
      BY LenProperties
    <3>2. IsFiniteSet(1 .. Len(hs)) /\ Cardinality(1 .. Len(hs)) = Len(hs)
      BY <3>1, FS_Interval
    <3>3. Served(hs, y) \subseteq 1 .. Len(hs)
      BY <3>1 DEF Served
    <3> QED
      BY <3>2, <3>3, FS_Subset, FS_CardinalityType
  <2> QED
    BY <1>0, <1>1, <2>1, <2>2
<1> QED
  BY <1>0, <1>1, <1>2, <1>3

\* Every part of the state has its type, and nothing is counted that was not created
THEOREM TypeCorrect == Spec => []TypeOK
<1>1. IInv => TypeOK
  <2> SUFFICES ASSUME IInv PROVE TypeOK
    OBVIOUS
  <2> PICK r \in Registry : r = reg
    BY DEF IInv, TypeInv
  <2> PICK hs \in Seq(Handle) : hs = handles
    BY DEF IInv, TypeInv
  <2>1. /\ r.total \in 0 .. MaxTotal /\ r.alive \in 0 .. MaxTotal
        /\ r.max_alive \in 0 .. MaxTotal /\ r.running \in 0 .. MaxTotal
        /\ \A y \in Tids : r.threads[y].reuse_count \in 0 .. MaxTotal
    BY CountsBounded DEF IInv
  <2> DEFINE Bounded == [status : Statuses, unique_id : 0 .. MaxTotal,
                         reuse_count : 0 .. MaxTotal, user_id : UserIds \cup {0},
                         detached : BOOLEAN, destroyed : BOOLEAN]
  <2>2. \A c \in Context : c.reuse_count \in 0 .. MaxTotal => c \in Bounded
    BY DEF Context
  <2>3. \A y \in Tids : r.threads[y] \in Bounded
    BY <2>1, <2>2 DEF Registry
  <2> HIDE DEF Bounded
  <2>4. r.threads \in [Tids -> Bounded]
    BY <2>3 DEF Registry
  <2>5. \A f \in {"total", "alive", "max_alive", "running"} : r[f] \in 0 .. MaxTotal
    BY <2>1
  <2>6. /\ r.n_contexts \in 0 .. MaxThreads /\ r.dead \in Seq(Tids) /\ r.invalid \in Seq(Tids)
        /\ r.ok \in BOOLEAN /\ limit \in BOOLEAN
    BY DEF Registry, IInv, TypeInv
  <2> QED
    BY <2>4, <2>5, <2>6 DEF TypeOK, Bounded
<1> QED
  BY <1>1, Inductive, PTL

\* No CHECK of the registry fails, in whatever order threads, joiners and
\* detachers come, and no join or detach is of a thread that does not exist
THEOREM ChecksPass == Spec => []NoCheckFails
<1>1. IInv => NoCheckFails
  BY IsHandle DEF IInv, NoCheckFails, LifeOK
<1> QED
  BY <1>1, Inductive, PTL

\* The counters of the registry are the numbers of threads that live and that run
THEOREM CountersAreRight == Spec => []CountersMatch
<1>1. IInv => CountersMatch
  BY DEF IInv, Good, Counts, CountersMatch, WithStatus, Having
<1> QED
  BY <1>1, Inductive, PTL

\* A thread that is not over and done with owns its context, which tells the
\* joiner of its end and of no other's
THEOREM ContextsAreOwned == Spec => []ContextIsOwn
<1>1. IInv => ContextIsOwn
  <2> SUFFICES ASSUME IInv, NEW u \in Handles
               PROVE  LET h == handles[u]
                          c == reg.threads[h.tid]
                      IN  /\ h.phase = "created" => c.status = "Created"
                          /\ h.phase = "running" => c.status = "Running"
                          /\ h.phase \in {"created", "running"} =>
                               /\ c.unique_id = u - 1 /\ ~ c.destroyed
                               /\ c.detached <=> h.care \in {"bornDetached", "detached"}
                          /\ h.phase = "finished" /\ h.care \in Pending =>
                               c.status = "Finished" /\ c.unique_id = u - 1 /\ c.destroyed /\ ~ c.detached
    BY DEF ContextIsOwn, Pending
  <2> PICK h \in Handle : h = handles[u]
    BY IsHandle
  <2> PICK c : c = reg.threads[h.tid]
    OBVIOUS
  <2>1. ASSUME StatusOf(h) # "Dead"
        PROVE  Describes(c, h) /\ c.unique_id = u - 1
    BY <2>1, Acts DEF Acting
  <2>2. CASE h.phase = "created"
    BY <2>1, <2>2 DEF StatusOf, Describes
  <2>3. CASE h.phase = "running"
    BY <2>1, <2>3 DEF StatusOf, Describes
  <2>4. CASE h.phase = "finished" /\ h.care \in Pending
    BY <2>1, <2>4 DEF StatusOf, Describes, Pending
  <2> QED
    BY <2>2, <2>3, <2>4
<1> QED
  BY <1>1, Inductive, PTL

\* A lookup by pthread_t finds the thread that has it now, and a client keeps the
\* tid of the thread it joins or detaches
THEOREM IdsFindThreads == Spec => []UserIdFindsThread
<1>1. IInv => UserIdFindsThread
  <2> SUFFICES ASSUME IInv, NEW u \in Handles
               PROVE  /\ Known(u) /\ handles[u].uid # 0 /\ handles[u].care \in {"none", "bornDetached"} =>
                           FindThread(reg, handles[u].uid) = handles[u].tid
                      /\ handles[u].care \in {"detaching", "letGo", "joining", "ended"} =>
                           handles[u].found = handles[u].tid
    BY DEF UserIdFindsThread
  <2> PICK r \in Registry : r = reg
    BY DEF IInv, TypeInv
  <2> PICK hs \in Seq(Handle) : hs = handles
    BY DEF IInv, TypeInv
  <2>1. Good(r, hs) /\ Queues(r, {}) /\ u \in DOMAIN hs /\ LifeOK(u, hs[u])
    BY IsHandle, LenProperties DEF IInv, Handles
  <2>2. Known(u) => Knows(hs[u])
    BY DEF Known, Knows
  <2>3. Knows(hs[u]) /\ hs[u].uid # 0 /\ hs[u].care \in {"none", "bornDetached"} =>
          FindThread(r, hs[u].uid) = hs[u].tid
    BY <2>1, LookupFinds
  <2> QED
    BY <2>1, <2>2, <2>3 DEF LifeOK
<1> QED
  BY <1>1, Inductive, PTL

\* In a queue without repetitions everything is there once or not at all
LEMMA OccursOnce ==
  ASSUME NEW queue, Once(queue), NEW tid
  PROVE  Occurrences(queue, tid) = IF In(queue, tid) THEN 1 ELSE 0
<1> DEFINE at == {i \in DOMAIN queue : queue[i] = tid}
<1>1. CASE In(queue, tid)
  <2> PICK i \in DOMAIN queue : queue[i] = tid
    BY <1>1 DEF In
  <2>1. at = {i}
    BY DEF Once
  <2> QED
    BY <1>1, <2>1, FS_Singleton DEF Occurrences
<1>2. CASE ~ In(queue, tid)
  <2>1. at = {}
    BY <1>2 DEF In
  <2> QED
    BY <1>2, <2>1, FS_EmptySet DEF Occurrences
<1> QED
  BY <1>1, <1>2

\* Every context that was handed out is in one place, the main thread's is never
\* recycled, and no tid serves more threads than the limit allows
THEOREM EveryContextAccounted == Spec => []ContextsAccounted
<1>1. IInv => ContextsAccounted
  <2> SUFFICES ASSUME IInv PROVE ContextsAccounted
    OBVIOUS
  <2> PICK r \in Registry : r = reg
    BY DEF IInv, TypeInv
  <2> PICK hs \in Seq(Handle) : hs = handles
    BY DEF IInv, TypeInv
  <2>1. /\ Len(r.dead) <= ThreadQuarantineSize /\ Once(r.dead) /\ Once(r.invalid)
        /\ \A y \in Tids : Queued(r, y, {})
        /\ r.n_contexts > 0 => r.threads[0].status # "Invalid"
        /\ HandlesOK(r, hs) /\ ContextsOK(r, hs) /\ Uses(r, hs)
    BY DEF IInv, Queues, Good
  <2>2. \A y \in Tids :
          LET status == r.threads[y].status
          IN  /\ Occurrences(r.dead, y) = (IF status = "Dead" /\ y # 0 THEN 1 ELSE 0)
              /\ Occurrences(r.invalid, y) =
                   (IF status = "Invalid" /\ y < r.n_contexts /\ ~ Retired(y) THEN 1 ELSE 0)
              /\ y >= r.n_contexts \/ Retired(y) => status = "Invalid"
    <3> TAKE y \in Tids
    <3>1. Queued(r, y, {}) /\ (Retired(y) <=> WornOut(r.threads[y]))
      BY <2>1 DEF Retired, WornOut
    <3>2. /\ Occurrences(r.dead, y) = IF In(r.dead, y) THEN 1 ELSE 0
          /\ Occurrences(r.invalid, y) = IF In(r.invalid, y) THEN 1 ELSE 0
      BY <2>1, OccursOnce
    <3> QED
      BY <3>1, <3>2 DEF Queued
  <2>3. r.n_contexts > 0 => r.threads[0].unique_id = 0 /\ r.threads[0].status # "Invalid"
    <3> HAVE r.n_contexts > 0
    <3>1. 0 \in Tids
      BY RegistryAssumption DEF Tids
    <3> PICK c \in Context : c = r.threads[0]
      BY <3>1 DEF Registry
    <3>2. /\ c.unique_id + 1 \in DOMAIN hs /\ hs[c.unique_id + 1].tid = 0
      BY <2>1, <3>1 DEF ContextsOK, Serves
    <3>3. c.unique_id + 1 = 1
      BY <2>1, <3>2 DEF HandlesOK, LifeOK
    <3>4. c.unique_id \in 0 .. MaxTotal
      BY DEF Context
    <3> QED
      BY <2>1, <3>3, <3>4
  <2>4. MaxReuse > 0 => \A y \in Tids : Cardinality({u \in Handles : handles[u].tid = y}) <= MaxReuse
    <3> HAVE MaxReuse > 0
    <3> TAKE y \in Tids
    <3> PICK n \in Nat : n = r.threads[y].reuse_count
      BY DEF Registry, Context
    <3>1. {u \in Handles : handles[u].tid = y} = Served(hs, y)
      BY LenProperties DEF Handles, Served
    <3>2. Cardinality(Served(hs, y)) = n + (IF r.threads[y].status = "Invalid" THEN 0 ELSE 1)
      BY <2>1 DEF Uses
    <3>3. n <= MaxReuse /\ (r.threads[y].status # "Invalid" => ~ (n >= MaxReuse))
      BY <2>1 DEF Queued, WornOut
    <3>4. Cardinality(Served(hs, y)) <= MaxReuse
      <4>1. MaxReuse \in Nat
        BY RegistryAssumption
      <4> QED
        BY <3>2, <3>3, <4>1
    <3> QED
      BY <3>1, <3>4
  <2> QED
    BY <2>1, <2>2, <2>3, <2>4 DEF ContextsAccounted
<1> QED
  BY <1>1, Inductive, PTL

\* What is known of a dead thread is kept until ThreadQuarantineSize threads have
\* died after it, and contexts are recycled in the order of the deaths
THEOREM DeadAreKept == Spec => DeadStayQuarantined
<1> DEFINE Kept == \A tid \in Tids :
                     reg.threads[tid].status # "Invalid" /\ reg'.threads[tid].status = "Invalid" =>
                       /\ reg.dead # <<>> /\ tid = Head(reg.dead)
                       /\ Len(reg'.dead) = ThreadQuarantineSize
<1>1. IInv /\ [Next]_vars => [Kept]_vars
  BY NextKeeps DEF Frees
<1> QED
  BY <1>1, Inductive, PTL DEF Spec, DeadStayQuarantined
=============================================================================
