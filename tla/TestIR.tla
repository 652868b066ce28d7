------------------------------- MODULE TestIR -------------------------------
(***************************************************************************)
(* What testsan looks at in LLVM IR, shared by the passes and by the model  *)
(* of an instrumented program.  A function is its name, whether its type is *)
(* the one the passes expect of a hook, and its blocks (none for a          *)
(* declaration).  Of an instruction the class is kept and, for a call, the  *)
(* function called and whether the callee operand IS that function:         *)
(* getCalledFunction() is null for a call through a pointer or a cast.      *)
(***************************************************************************)
EXTENDS Naturals, Sequences, SequencesExt

CONSTANTS NULL,     \* the null Function*
          Names     \* the names a function may have

Hooks == {"testsan_HelloFunction", "testsan_EndOfMain", "testsan_AfterMalloc"}

ASSUME NamesAssumption == {"malloc"} \cup Hooks \subseteq Names /\ NULL \notin Names

Insts == [op : {"call", "invoke", "ret", "br", "other"}, callee : Names, direct : BOOLEAN]
FunctionTypes == [name : Names, typed : BOOLEAN, blocks : Seq(Seq(Insts))]
UniqueNames(fs) == \A j, k \in DOMAIN fs : fs[j].name = fs[k].name => j = k

Call(callee, direct) == [op |-> "call", callee |-> callee, direct |-> direct]

Function(name, typed, blocks) == [name |-> name, typed |-> typed, blocks |-> blocks]

isDeclaration(f) == f.blocks = <<>>

getCalledFunction(inst) == IF inst.direct THEN inst.callee ELSE NULL

Indirect(inst) == inst.op = "call" /\ getCalledFunction(inst) = NULL
CallsMalloc(inst) == inst.op = "call" /\ getCalledFunction(inst) = "malloc"
IsHookCall(inst) == inst.op = "call" /\ inst.callee \in Hooks

\* The hooks are defined in the runtime, and the passes alone insert calls of them
Instrumentable(m) ==
  /\ m \in Seq(FunctionTypes) /\ UniqueNames(m)
  /\ \A f \in DOMAIN m :
       /\ m[f].name \in Hooks => isDeclaration(m[f])
       /\ \A b \in DOMAIN m[f].blocks : \A i \in DOMAIN m[f].blocks[b] :
            ~ IsHookCall(m[f].blocks[b][i])

-----------------------------------------------------------------------------
\* Mutant: the hook of a malloc is put in front of it
ExpandedEarly(f, inst) ==
  IF CallsMalloc(inst) THEN <<Call("testsan_AfterMalloc", TRUE), inst>> ELSE <<inst>>

\* Mutant: the returns of every function get the hook of main
ExpandedAnyRet(f, inst) ==
  (IF inst.op = "ret" THEN <<Call("testsan_EndOfMain", TRUE)>> ELSE <<>>)
    \o <<inst>>
    \o (IF CallsMalloc(inst) THEN <<Call("testsan_AfterMalloc", TRUE)>> ELSE <<>>)

\* What the passes make of each instruction of function f and of each of its blocks
Expanded(f, inst) ==
  (IF f.name = "main" /\ inst.op = "ret" THEN <<Call("testsan_EndOfMain", TRUE)>> ELSE <<>>)
    \o <<inst>>
    \o (IF CallsMalloc(inst) THEN <<Call("testsan_AfterMalloc", TRUE)>> ELSE <<>>)

ExpectedBlock(f, b) ==
  (IF b = 1 THEN <<Call("testsan_HelloFunction", TRUE)>> ELSE <<>>)
    \o FlattenSeq([i \in DOMAIN f.blocks[b] |-> Expanded(f, f.blocks[b][i])])
=============================================================================
