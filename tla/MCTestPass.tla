----------------------------- MODULE MCTestPass -----------------------------
(* Small modules for TestPass: a main of at most two blocks, a function foo  *)
(* of one block with up to MaxBody instructions in front of its terminator,  *)
(* and possibly a declaration of one hook, with the expected type or not.    *)
EXTENDS TestPass

CONSTANTS MaxBody,
          Typed      \* of a hook the program may declare: is its type the expected one

MCNames == {"main", "foo", "malloc", "none"} \cup Hooks

Plain(op) == [op |-> op, callee |-> "none", direct |-> TRUE]
Ordinary == {Call("malloc", TRUE), Call("foo", TRUE), Call("malloc", FALSE), Plain("other")}
Terminators == {Plain("ret"), Plain("br"), [Call("malloc", TRUE) EXCEPT !.op = "invoke"]}

Bodies(n) == {Append(s, t) : s \in SeqOf(Ordinary, n), t \in Terminators}

MainBodies == {<<b>> : b \in Bodies(1)} \cup {<<b, c>> : b \in Bodies(1), c \in Bodies(0)}
FooBodies == {<<b>> : b \in Bodies(MaxBody)} \cup {<<>>}

MCModules ==
  {<<Function("malloc", TRUE, <<>>), Function("main", TRUE, m), Function("foo", TRUE, g)>> \o h :
     m \in MainBodies, g \in FooBodies,
     h \in {<<>>} \cup {<<Function(k, t, <<>>)>> : k \in Hooks, t \in Typed}}
=============================================================================
