------------------------------ MODULE TestPass ------------------------------
(***************************************************************************)
(* The compile-time half of testsan: the module, function and basic-block  *)
(* passes of lib/Transforms/Instrumentation/TestPass.cpp, run in the order *)
(* in which clang adds them and the legacy pass manager executes them.     *)
(*                                                                         *)
(* An LLVM module is its function list, in the terms of TestIR.  Every pass *)
(* inserts into the list it is iterating over, so the position of the       *)
(* iterator is part of the state.                                           *)
(***************************************************************************)
EXTENDS TestIR

CONSTANT Modules        \* the function lists the passes may be given

ASSUME ModulesAssumption == \A m \in Modules : Instrumentable(m)

VARIABLES original,     \* the module before the passes, never changed
          funcs,        \* the module's function list
          pc,           \* which pass is running
          fi, bi, ii    \* positions of the function, block and instruction iterators

vars == <<original, funcs, pc, fi, bi, ii>>

-----------------------------------------------------------------------------
(* Module::getOrInsertFunction appends a prototype if the module has no     *)
(* such symbol; a symbol of another type is used through a bitcast, which   *)
(* makes the call built from it one without a called function.              *)

\* Mutant: only a hook the passes declared themselves counts as declared
DeclaredTyped(fs, hook) == \E k \in DOMAIN fs : fs[k].name = hook /\ fs[k].typed

Declared(fs, hook) == \E k \in DOMAIN fs : fs[k].name = hook

getOrInsertFunction(fs, hook) ==
  IF Declared(fs, hook) THEN fs ELSE Append(fs, Function(hook, TRUE, <<>>))

\* Mutant: a hook is always called through a cast
CreateCastCall(fs, hook) == Call(hook, FALSE)

CreateCall(fs, hook) ==
  Call(hook, \A k \in DOMAIN fs : fs[k].name = hook => fs[k].typed)

\* Mutant: the instruction at the insertion point is overwritten
Overwrite(block, i, inst) == [block EXCEPT ![i] = inst]

\* IRBuilder::CreateCall puts the call in front of the insertion point
Insert(block, i, inst) == InsertAt(block, i, inst)

\* The function list with hook declared and inserted at position i of block b of function f
InsertCall(fs, f, b, i, hook) ==
  LET gs == getOrInsertFunction(fs, hook)
  IN  [gs EXCEPT ![f].blocks[b] = Insert(@, i, CreateCall(gs, hook))]

\* Mutant: the insertion point is the entry block's second instruction
EntrySecond == 2

\* The insertion point of the entry hook, getEntryBlock().front()
EntryFront == 1

Init ==
  /\ original \in Modules
  /\ funcs = original
  /\ pc = "module"
  /\ fi = 1 /\ bi = 1 /\ ii = 1

\* TestSanitizerModule::runOnModule only prints; the function passes follow
runOnModule ==
  /\ pc = "module"
  /\ pc' = "function"
  /\ UNCHANGED <<original, funcs, fi, bi, ii>>

\* Mutant: the loop over the functions does not go past a declaration
StayOnDeclaration ==
  /\ pc = "function"
  /\ fi <= Len(funcs)
  /\ isDeclaration(funcs[fi])
  /\ UNCHANGED vars

\* FPPassManager::runOnFunction returns at once for a declaration
SkipDeclaration ==
  /\ pc = "function"
  /\ fi <= Len(funcs)
  /\ isDeclaration(funcs[fi])
  /\ fi' = fi + 1
  /\ UNCHANGED <<original, funcs, pc, bi, ii>>

FinishModule ==
  /\ pc = "function"
  /\ fi > Len(funcs)
  /\ pc' = "done"
  /\ UNCHANGED <<original, funcs, fi, bi, ii>>

\* TestSanitizerFunction::runOnFunction up to the scan of main
runOnFunction ==
  /\ pc = "function"
  /\ fi <= Len(funcs)
  /\ ~ isDeclaration(funcs[fi])
  /\ funcs' = InsertCall(funcs, fi, 1, EntryFront, "testsan_HelloFunction")
  /\ pc' = IF funcs[fi].name = "main" THEN "rets" ELSE "block"
  /\ bi' = 1 /\ ii' = 1
  /\ UNCHANGED <<original, fi>>

\* The block and the instruction under the iterators of a scan
Block == funcs[fi].blocks[bi]
Inst == Block[ii]
LastBlock == bi = Len(funcs[fi].blocks)

\* One instruction of main in the search for returns; the hook goes in front
\* of the return, and the iterator stays on the return
ScanRet ==
  /\ pc = "rets"
  /\ ii <= Len(Block)
  /\ IF Inst.op = "ret"
       THEN /\ funcs' = InsertCall(funcs, fi, bi, ii, "testsan_EndOfMain")
            /\ ii' = ii + 2
       ELSE ii' = ii + 1 /\ UNCHANGED funcs
  /\ UNCHANGED <<original, pc, fi, bi>>

NextRetBlock ==
  /\ pc = "rets"
  /\ ii > Len(Block)
  /\ IF LastBlock THEN bi' = 1 /\ pc' = "block"
                  ELSE bi' = bi + 1 /\ UNCHANGED pc
  /\ ii' = 1
  /\ UNCHANGED <<original, funcs, fi>>

\* TestSanitizerBlock::runOnBasicBlock declares the hook before it looks for a malloc
runOnBasicBlock ==
  /\ pc = "block"
  /\ funcs' = getOrInsertFunction(funcs, "testsan_AfterMalloc")
  /\ pc' = "insts"
  /\ ii' = 1
  /\ UNCHANGED <<original, fi, bi>>

\* One instruction of the search for calls of malloc.  called_func->getName()
\* is evaluated whatever getCalledFunction() returned, and the call inserted
\* after a malloc is the next instruction the loop visits.
ScanInst ==
  /\ pc = "insts"
  /\ ii <= Len(Block)
  /\ IF Indirect(Inst)
       THEN pc' = "crashed" /\ UNCHANGED <<funcs, ii>>
       ELSE /\ funcs' = IF CallsMalloc(Inst)
                          THEN InsertCall(funcs, fi, bi, ii + 1, "testsan_AfterMalloc")
                          ELSE funcs
            /\ ii' = ii + 1
            /\ UNCHANGED pc
  /\ UNCHANGED <<original, fi, bi>>

\* BBPassManager::runOnFunction goes to the next block, FPPassManager::runOnModule
\* to the next function
NextBlock ==
  /\ pc = "insts"
  /\ ii > Len(Block)
  /\ IF LastBlock THEN fi' = fi + 1 /\ pc' = "function" /\ bi' = 1
                  ELSE bi' = bi + 1 /\ pc' = "block" /\ UNCHANGED fi
  /\ ii' = 1
  /\ UNCHANGED <<original, funcs>>

Terminated ==
  /\ pc \in {"done", "crashed"}
  /\ UNCHANGED vars

Next ==
  \/ runOnModule \/ SkipDeclaration \/ FinishModule
  \/ runOnFunction
  \/ ScanRet \/ NextRetBlock
  \/ runOnBasicBlock
  \/ ScanInst \/ NextBlock
  \/ Terminated

Spec == Init /\ [][Next]_vars /\ WF_vars(Next)

-----------------------------------------------------------------------------
(* What the passes promise. *)

\* The shape of the compiler's state: the iterators point into the module they
\* iterate over although it grows under them, and no symbol is declared twice
TypeOK ==
  /\ pc \in {"module", "function", "rets", "block", "insts", "done", "crashed"}
  /\ funcs \in Seq(FunctionTypes) /\ UniqueNames(funcs)
  /\ fi \in 1 .. Len(funcs) + 1
  /\ pc \in {"rets", "block", "insts"} =>
       /\ bi \in DOMAIN funcs[fi].blocks
       /\ ii \in 1 .. Len(Block) + 1

\* A block without the calls of hooks
Erase(block) ==
  FlattenSeq([i \in DOMAIN block |-> IF IsHookCall(block[i]) THEN <<>> ELSE <<block[i]>>])

\* At every step of every pass the program is the original one with calls of
\* hooks added: nothing is removed, replaced, reordered or moved to another
\* block, and the only functions added are declarations of hooks
OriginalPreserved ==
  \A f \in DOMAIN funcs :
    IF f \in DOMAIN original
      THEN /\ funcs[f].name = original[f].name
           /\ [b \in DOMAIN funcs[f].blocks |-> Erase(funcs[f].blocks[b])] = original[f].blocks
      ELSE funcs[f] \in {Function(h, TRUE, <<>>) : h \in Hooks}

\* A function the passes have left has exactly the hooks it should have: the
\* entry hook first, one hook after each direct call of malloc, one before each
\* return of main, although each pass runs over what the previous ones inserted
\* and over its own insertions
Instrumented ==
  \A f \in DOMAIN original :
    f < fi => funcs[f].blocks
                = [b \in DOMAIN original[f].blocks |-> ExpectedBlock(original[f], b)]

\* A module on which some pass meets a call without a called function: one of
\* the program's own, or the call of a hook the program declares with another type
Foreign(m, hook) == \E k \in DOMAIN m : m[k].name = hook /\ ~ m[k].typed
SomeInst(f, P(_)) == \E b \in DOMAIN f.blocks : \E i \in DOMAIN f.blocks[b] : P(f.blocks[b][i])
HasNullCallee(m) ==
  \E k \in DOMAIN m :
    \/ SomeInst(m[k], LAMBDA inst : inst.op = "call" /\ ~ inst.direct)
    \/ ~ isDeclaration(m[k]) /\ Foreign(m, "testsan_HelloFunction")
    \/ SomeInst(m[k], CallsMalloc) /\ Foreign(m, "testsan_AfterMalloc")
    \/ /\ m[k].name = "main" /\ SomeInst(m[k], LAMBDA inst : inst.op = "ret")
       /\ Foreign(m, "testsan_EndOfMain")

\* Whether a compilation with -fsanitize=test goes through is decided by the
\* module alone: it crashes on exactly the modules that give some pass a call
\* without a called function
CrashesExactlyOnNullCallee ==
  /\ pc = "crashed" => HasNullCallee(original)
  /\ pc = "done" => ~ HasNullCallee(original)

\* "CallInst inherits from CallBase meaning we can get the called function":
\* every call the block pass meets has one, so it never dereferences null
CalledFunctionKnown == pc # "crashed"

\* The passes stop, although each inserts into the list it is iterating over
PassesTerminate == <>(pc \in {"done", "crashed"})
=============================================================================
