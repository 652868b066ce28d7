----------------------------- MODULE MCTestSan ------------------------------
(* Small programs for TestSan: main has one or two blocks and may call foo,  *)
(* foo has one block; both may call malloc, directly or by an invoke.        *)
EXTENDS TestSan

MCNames == {"main", "foo", "malloc", "none"} \cup Hooks

Plain(op) == [op |-> op, callee |-> "none", direct |-> TRUE]
Malloc == Call("malloc", TRUE)
Ret == Plain("ret")

MainBodies ==
  { <<<<Malloc, Call("foo", TRUE), Ret>>>>,
    <<<<Malloc, Plain("br")>>, <<Call("foo", TRUE), Ret>>, <<Plain("other"), Ret>>>>,
    <<<<[Malloc EXCEPT !.op = "invoke"]>>, <<Malloc, Ret>>>> }

FooBodies == { <<<<Malloc, Malloc, Ret>>>>, <<<<Plain("other"), Malloc, Ret>>>>, <<<<Ret>>>> }

MCModules ==
  {<<Function("main", TRUE, m), Function("foo", TRUE, g)>> : m \in MainBodies, g \in FooBodies}
=============================================================================
