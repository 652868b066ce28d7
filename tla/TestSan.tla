------------------------------- MODULE TestSan -------------------------------
(***************************************************************************)
(* A process that was compiled and linked with -fsanitize=test: the testsan *)
(* runtime (compiler-rt/lib/testsan/testsan.cpp) under an instrumented      *)
(* program.  The program is what TestPass makes of a module: the code of    *)
(* function f is ExpectedBlock of each of its blocks.                       *)
(*                                                                          *)
(* The dynamic loader runs testsan_Init from .preinit_array, then the       *)
(* constructors of the shared libraries, which may call malloc, then main.  *)
(* From then on several threads execute instrumented functions.  The reports *)
(* of different threads are not ordered: they go to two file descriptors.   *)
(***************************************************************************)
EXTENDS TestIR

CONSTANTS Modules,      \* modules a program is made of, without indirect calls
          Workers,      \* the threads besides the main thread
          Preinit,      \* SANITIZER_CAN_USE_PREINIT_ARRAY
          MaxCtor       \* bound: calls of malloc by library constructors

Main == "main"
Threads == {Main} \cup Workers

ASSUME RuntimeAssumption == Main \notin Workers /\ Preinit \in BOOLEAN /\ NULL # "libc"

\* main and foo are defined, each block ends in a terminator, and there are no
\* indirect calls, on which the passes crash
ASSUME ProgramAssumption ==
  \A m \in Modules :
    /\ Instrumentable(m)
    /\ \A n \in {"main", "foo"} : \E k \in DOMAIN m : m[k].name = n /\ ~ isDeclaration(m[k])
    /\ \A k \in DOMAIN m : \A b \in DOMAIN m[k].blocks :
         LET block == m[k].blocks[b]
         IN  /\ block # <<>> /\ Last(block).op \in {"ret", "br", "invoke"}
             /\ \A i \in DOMAIN block : ~ Indirect(block[i])

VARIABLES code,     \* the instrumented functions, by name
          phase,    \* how far the process is
          real,     \* REAL(malloc): NULL or libc's malloc
          shadow,   \* shadow_memory_storage: whether the region is mapped
          ctor,     \* calls of malloc the library constructors have made
          started,  \* the threads that have been started
          stack,    \* each thread's frames, innermost first
          inside,   \* the threads in testsan_Malloc that have REAL's block
          out       \* what the runtime reported for each thread, in order

vars == <<code, phase, real, shadow, ctor, started, stack, inside, out>>

Instrument(f) == [b \in DOMAIN f.blocks |-> ExpectedBlock(f, b)]
Named(m, name) == CHOOSE k \in DOMAIN m : m[k].name = name

\* Mutant: what comes first where there is no .preinit_array
CtorsFirst == "ctors"

\* testsan_Init is the first code of the executable that runs
FirstPhase == IF Preinit THEN "preinit" ELSE "ctors"

Init ==
  /\ \E m \in Modules : code = [n \in {"main", "foo"} |-> Instrument(m[Named(m, n)])]
  /\ phase = FirstPhase
  /\ real = NULL
  /\ shadow = FALSE
  /\ ctor = 0
  /\ started = {}
  /\ stack = [t \in Threads |-> <<>>]
  /\ inside = {}
  /\ out = [t \in Threads |-> <<>>]

\* The value testsan_Malloc returns in place of the block it allocated
ReturnValue == "0xdeadbeef"

\* A function begins with nothing returned to it yet
Frame(name) == [fn |-> name, b |-> 1, i |-> 1, value |-> NULL]
Report(t, what, value) == out' = [out EXCEPT ![t] = Append(@, [what |-> what, value |-> value])]

-----------------------------------------------------------------------------
(* Start-up *)

\* testsan_InitInterceptors: dlsym(RTLD_NEXT) finds libc's malloc
testsan_InitInterceptors ==
  /\ phase = "preinit" /\ real = NULL
  /\ real' = "libc"
  /\ UNCHANGED <<code, phase, shadow, ctor, started, stack, inside, out>>

\* testsan_AllocateShadowMemory: MmapNoReserveOrDie
testsan_AllocateShadowMemory ==
  /\ phase = "preinit" /\ real # NULL
  /\ \/ shadow' = TRUE /\ phase' = IF Preinit THEN "ctors" ELSE "run"
     \/ shadow' = FALSE /\ phase' = "died"
  /\ UNCHANGED <<code, real, ctor, started, stack, inside, out>>

\* A constructor of a library, not instrumented, calls malloc and so testsan_Malloc
CtorMalloc ==
  /\ phase = "ctors"
  /\ ctor < MaxCtor
  /\ ctor' = ctor + 1
  /\ IF real = NULL THEN phase' = "crashed" /\ UNCHANGED out
                    ELSE Report(Main, "hookedLibrary", ReturnValue) /\ UNCHANGED phase
  /\ UNCHANGED <<code, real, shadow, started, stack, inside>>

CtorsDone ==
  /\ phase = "ctors"
  /\ phase' = IF Preinit THEN "run" ELSE "preinit"
  /\ UNCHANGED <<code, real, shadow, ctor, started, stack, inside, out>>

-----------------------------------------------------------------------------
(* The instrumented program *)

Running(t) == phase = "run" /\ stack[t] # <<>>
Inst(t) == LET f == Head(stack[t]) IN code[f.fn][f.b][f.i]
NextInst(f) == [f EXCEPT !.i = @ + 1]
SetTop(t, f) == stack' = [stack EXCEPT ![t] = <<f>> \o Tail(@)]
AtCall(t, callee) == Running(t) /\ Inst(t).op = "call" /\ Inst(t).callee = callee

\* The main thread enters main, and other threads are started in foo
StartThread(t) ==
  /\ phase = "run" /\ t \notin started
  /\ t = Main \/ Main \in started
  /\ started' = started \cup {t}
  /\ stack' = [stack EXCEPT ![t] = <<Frame(IF t = Main THEN "main" ELSE "foo")>>]
  /\ UNCHANGED <<code, phase, real, shadow, ctor, inside, out>>

\* A call of malloc enters the interceptor, and testsan_Malloc calls REAL(malloc)
CallReal(t) ==
  /\ Running(t) /\ t \notin inside
  /\ Inst(t).op \in {"call", "invoke"} /\ Inst(t).callee = "malloc"
  /\ IF real = NULL THEN phase' = "crashed" /\ UNCHANGED inside
                    ELSE inside' = inside \cup {t} /\ UNCHANGED phase
  /\ UNCHANGED <<code, real, shadow, ctor, started, stack, out>>

\* An invoke goes on in a later block
Resume(f) ==
  IF code[f.fn][f.b][f.i].op = "call" THEN {NextInst(f)}
  ELSE {[f EXCEPT !.b = b, !.i = 1] : b \in {c \in DOMAIN code[f.fn] : c > f.b}}

\* testsan_Malloc reports and returns
testsan_Malloc(t) ==
  /\ phase = "run" /\ t \in inside
  /\ inside' = inside \ {t}
  /\ Report(t, IF Inst(t).op = "call" THEN "hooked" ELSE "hookedInvoke", ReturnValue)
  /\ \E f \in Resume(Head(stack[t])) : SetTop(t, [f EXCEPT !.value = ReturnValue])
  /\ UNCHANGED <<code, phase, real, shadow, ctor, started>>

testsan_HelloFunction(t) ==
  /\ AtCall(t, "testsan_HelloFunction")
  /\ SetTop(t, NextInst(Head(stack[t])))
  /\ UNCHANGED <<code, phase, real, shadow, ctor, started, inside, out>>

\* The hook after a malloc is given the result of that call
testsan_AfterMalloc(t) ==
  /\ AtCall(t, "testsan_AfterMalloc")
  /\ Report(t, "reported", Head(stack[t]).value)
  /\ SetTop(t, NextInst(Head(stack[t])))
  /\ UNCHANGED <<code, phase, real, shadow, ctor, started, inside>>

testsan_EndOfMain(t) ==
  /\ AtCall(t, "testsan_EndOfMain")
  /\ Report(t, "end", "none")
  /\ SetTop(t, NextInst(Head(stack[t])))
  /\ UNCHANGED <<code, phase, real, shadow, ctor, started, inside>>

\* Instructions of the program itself
CallFunction(t) ==
  /\ AtCall(t, "foo")
  /\ stack' = [stack EXCEPT ![t] = <<Frame("foo"), NextInst(Head(@))>> \o Tail(@)]
  /\ UNCHANGED <<code, phase, real, shadow, ctor, started, inside, out>>

Compute(t) ==
  /\ Running(t) /\ Inst(t).op = "other"
  /\ SetTop(t, NextInst(Head(stack[t])))
  /\ UNCHANGED <<code, phase, real, shadow, ctor, started, inside, out>>

Branch(t) ==
  /\ Running(t) /\ Inst(t).op = "br"
  /\ \E f \in Resume(Head(stack[t])) : SetTop(t, f)
  /\ UNCHANGED <<code, phase, real, shadow, ctor, started, inside, out>>

\* The return from main ends the process, and with it the threads that still run
Return(t) ==
  /\ Running(t) /\ Inst(t).op = "ret"
  /\ stack' = [stack EXCEPT ![t] = Tail(@)]
  /\ phase' = IF t = Main /\ Len(stack[t]) = 1 THEN "exited" ELSE phase
  /\ UNCHANGED <<code, real, shadow, ctor, started, inside, out>>

Step(t) ==
  \/ CallReal(t) \/ testsan_Malloc(t)
  \/ testsan_HelloFunction(t) \/ testsan_AfterMalloc(t) \/ testsan_EndOfMain(t)
  \/ CallFunction(t) \/ Compute(t) \/ Branch(t) \/ Return(t)

Next ==
  \/ testsan_InitInterceptors \/ testsan_AllocateShadowMemory
  \/ CtorMalloc \/ CtorsDone
  \/ \E t \in Threads : StartThread(t) \/ Step(t)

Spec == Init /\ [][Next]_vars

-----------------------------------------------------------------------------
\* The interceptor is in place before testsan_Init has run, but REAL(malloc) is
\* not: no code that calls malloc may run earlier, and once code of the program
\* runs the whole runtime is up
ReadyBeforeUse ==
  /\ phase # "crashed"
  /\ started # {} => real # NULL /\ shadow

\* Each call of malloc that instrumented code executes is intercepted and then
\* reported once, in the thread that made it, with the value the program got,
\* before anything else is reported for that thread, however the threads
\* interleave; a malloc by invoke is intercepted and not reported
EachMallocReported ==
  \A t \in Threads :
    LET log == out[t]
        reports(k) == k + 1 \in DOMAIN log /\ log[k + 1].what = "reported"
    IN  \A k \in DOMAIN log :
          /\ log[k].what = "hooked" =>
               \/ reports(k) /\ log[k + 1].value = log[k].value
               \/ k = Len(log) /\ Running(t) /\ AtCall(t, "testsan_AfterMalloc")
               \/ k = Len(log) /\ phase # "run"
          /\ log[k].what # "hooked" => ~ reports(k)
          /\ log[1].what # "reported"

\* The process leaves through main only after the end-of-main hook ran, once,
\* as the last thing the main thread reported
EndOfMainReported ==
  LET ends(t) == {k \in DOMAIN out[t] : out[t][k].what = "end"}
  IN  /\ phase = "exited" => Len(out[Main]) \in ends(Main)
      /\ ends(Main) \subseteq {Len(out[Main])}
      /\ \A t \in Workers : ends(t) = {}
=============================================================================
