---------------------------- MODULE TestSan_proofs ----------------------------
(* The runtime under any program of two functions that link, any number of    *)
(* threads and any number of calls by library constructors.                   *)
(*                                                                            *)
(* The passes leave every malloc in front of its hook, every return of main   *)
(* behind the hook of the end, and no hook elsewhere, so where a thread is    *)
(* says what was reported for it last: a malloc that was hooked and not yet   *)
(* reported if it is at that malloc's hook, the end if it is at main's return. *)
EXTENDS TestSan, Integers, FiniteSetTheorems, SequenceTheorems, TLAPS

\* The list lemmas do not depend on where the passes are
Passes == INSTANCE TestPass_proofs
            WITH original <- <<>>, funcs <- <<>>, pc <- "done", fi <- 1, bi <- 1, ii <- 1

FunctionNames == {"main", "foo"}
Terminators == {"ret", "br", "invoke"}
Calls(inst, callee) == inst.op = "call" /\ inst.callee = callee

\* What stands next to what in the code of function n, and the last of a block
Woven(n, s) ==
  \A k \in 1 .. Len(s) :
    /\ Calls(s[k], "malloc") => k < Len(s) /\ Calls(s[k + 1], "testsan_AfterMalloc")
    /\ Calls(s[k], "testsan_AfterMalloc") => k > 1 /\ Calls(s[k - 1], "malloc")
    /\ Calls(s[k], "testsan_EndOfMain") => n = "main" /\ k < Len(s) /\ s[k + 1].op = "ret"
    /\ n = "main" /\ s[k].op = "ret" => k > 1 /\ Calls(s[k - 1], "testsan_EndOfMain")

Terminated(s) == s # <<>> /\ s[Len(s)].op \in Terminators

BlockOK(n, s) == s \in Seq(Insts) /\ Woven(n, s) /\ Terminated(s)

CodeOK(c) ==
  \A n \in FunctionNames :
    /\ 1 \in DOMAIN c[n] /\ DOMAIN c[n] \subseteq Nat
    /\ \A b \in DOMAIN c[n] : BlockOK(n, c[n][b])

\* Where a frame is
Frames == [fn : FunctionNames, b : Nat, i : Nat, value : {NULL, ReturnValue}]
Place(c, f) == f.fn \in FunctionNames /\ f.b \in DOMAIN c[f.fn] /\ f.i \in 1 .. Len(c[f.fn][f.b])
InstAt(c, f) == c[f.fn][f.b][f.i]
AtHook(c, f) == Calls(InstAt(c, f), "testsan_AfterMalloc")
AtEnd(c, f) == f.fn = "main" /\ InstAt(c, f).op = "ret"
AtMalloc(c, f) == InstAt(c, f).op \in {"call", "invoke"} /\ InstAt(c, f).callee = "malloc"

\* main is the outermost function of the main thread alone, and a frame that
\* waits for foo stands behind a call of foo
StackOK(c, t, fr) ==
  /\ \A k \in 1 .. Len(fr) : Place(c, fr[k]) /\ (fr[k].fn = "main" <=> t = Main /\ k = Len(fr))
  /\ \A k \in 2 .. Len(fr) : ~ AtHook(c, fr[k]) /\ ~ AtEnd(c, fr[k])

Entries == [what : {"hookedLibrary", "hooked", "hookedInvoke", "reported", "end"},
            value : {NULL, ReturnValue, "none"}]

LogOK(log) ==
  \A k \in 1 .. Len(log) :
    /\ log[k].what = "hooked" /\ k < Len(log) =>
         log[k + 1].what = "reported" /\ log[k + 1].value = log[k].value
    /\ log[k].what = "reported" => k > 1 /\ log[k - 1].what = "hooked"
    /\ log[k].what = "end" => k = Len(log)

LastIs(log, what) == log # <<>> /\ log[Len(log)].what = what

\* What was reported last says where the thread is, and the other way round
ReportsOK(c, ph, t, fr, log) ==
  /\ LastIs(log, "hooked") =>
       fr # <<>> /\ AtHook(c, fr[1]) /\ fr[1].value = log[Len(log)].value
  /\ fr # <<>> /\ AtHook(c, fr[1]) => LastIs(log, "hooked")
  /\ LastIs(log, "end") =>
       t = Main /\ (ph = "exited" \/ (fr # <<>> /\ AtEnd(c, fr[1])))
  /\ fr # <<>> /\ AtEnd(c, fr[1]) => LastIs(log, "end")

OnlyLibrary(log) == \A k \in 1 .. Len(log) : log[k].what = "hookedLibrary"

ThreadOK(c, ph, st, in, t, fr, log) ==
  /\ StackOK(c, t, fr) /\ LogOK(log) /\ ReportsOK(c, ph, t, fr, log)
  /\ t \notin st => fr = <<>> /\ OnlyLibrary(log)
  /\ t = Main /\ ph = "exited" => LastIs(log, "end")
  /\ t \in in => fr # <<>> /\ AtMalloc(c, fr[1])

PhaseOK(ph, rl, sh, st) ==
  /\ st # {} => ph \in {"run", "exited"}
  /\ ph \in {"run", "exited"} => rl # NULL /\ sh
  /\ Preinit /\ ph = "ctors" => rl # NULL /\ sh
  /\ ph = "crashed" => ~ Preinit

IInv ==
  /\ stack \in [Threads -> Seq(Frames)] /\ out \in [Threads -> Seq(Entries)]
  /\ CodeOK(code) /\ PhaseOK(phase, real, shadow, started)
  /\ \A t \in Threads : ThreadOK(code, phase, started, inside, t, stack[t], out[t])
-----------------------------------------------------------------------------
(* The code                                                                   *)

LEMMA SameInsts == Insts = Passes!Insts /\ Passes!Expanders = [Insts -> Seq(Insts)]
BY DEF Insts, Passes!Insts, Hooks, Passes!Hooks, Passes!Expanders

LEMMA PassesModules == \A m \in Modules : Passes!Instrumentable(m)
<1>1. \A m \in Modules : Instrumentable(m)
  BY ProgramAssumption
<1>2. \A x : Passes!IsHookCall(x) <=> IsHookCall(x)
  BY DEF IsHookCall, Passes!IsHookCall, Hooks, Passes!Hooks
<1>3. FunctionTypes = Passes!FunctionTypes
  BY SameInsts DEF FunctionTypes, Passes!FunctionTypes
<1>4. \A m : UniqueNames(m) <=> Passes!UniqueNames(m)
  BY DEF UniqueNames, Passes!UniqueNames
<1>5. \A f : isDeclaration(f) <=> Passes!isDeclaration(f)
  BY DEF isDeclaration, Passes!isDeclaration
<1>6. Hooks = Passes!Hooks
  BY DEF Hooks, Passes!Hooks
<1> QED BY <1>1, <1>2, <1>3, <1>4, <1>5, <1>6 DEF Instrumentable, Passes!Instrumentable

LEMMA PassesNames == {"malloc"} \cup Passes!Hooks \subseteq Names /\ NULL \notin Names
BY NamesAssumption DEF Hooks, Passes!Hooks

LEMMA TwoInsts ==
  ASSUME NEW x \in Insts, NEW y \in Insts
  PROVE  /\ <<x>> \in Seq(Insts) /\ <<x, y>> \in Seq(Insts)
         /\ <<x>> \o <<y>> = <<x, y>> /\ <<x, y>> \o <<>> = <<x, y>>
         /\ <<>> \o <<x>> = <<x>> /\ <<x>> \o <<>> = <<x>>
<1>1. <<x, y>> \in Seq(Insts)
  OBVIOUS
<1>2. <<x>> \o <<y>> = <<x, y>> /\ <<x>> \in Seq(Insts)
  BY SameInsts, PassesModules, PassesNames, Passes!Two
<1> QED BY <1>1, <1>2, ConcatEmptySeq

LEMMA WovenConcat ==
  ASSUME NEW n, NEW s \in Seq(Insts), NEW t \in Seq(Insts), Woven(n, s), Woven(n, t)
  PROVE  Woven(n, s \o t)
<1> DEFINE z == s \o t
           l == Len(s)
<1>1. /\ Len(z) = l + Len(t) /\ l \in Nat /\ Len(t) \in Nat
      /\ \A i \in 1 .. l : z[i] = s[i]
      /\ \A i \in 1 .. Len(t) : z[l + i] = t[i]
  BY ConcatProperties
<1> HIDE DEF z
<1> SUFFICES ASSUME NEW k \in 1 .. Len(z)
             PROVE  /\ Calls(z[k], "malloc") =>
                         k < Len(z) /\ Calls(z[k + 1], "testsan_AfterMalloc")
                    /\ Calls(z[k], "testsan_AfterMalloc") => k > 1 /\ Calls(z[k - 1], "malloc")
                    /\ Calls(z[k], "testsan_EndOfMain") =>
                         n = "main" /\ k < Len(z) /\ z[k + 1].op = "ret"
                    /\ n = "main" /\ z[k].op = "ret" =>
                         k > 1 /\ Calls(z[k - 1], "testsan_EndOfMain")
  BY DEF Woven, z
<1>2. CASE k <= l
  <2>1. k \in 1 .. l
    BY <1>1, <1>2
  <2>5. z[k] = s[k]
    BY <1>1, <2>1
  <2>2. k < l => z[k + 1] = s[k + 1] /\ k < Len(z)
    <3>1. k < l => k + 1 \in 1 .. l
      BY <1>1, <2>1
    <3> QED BY <1>1, <3>1
  <2>3. k > 1 => z[k - 1] = s[k - 1]
    <3>1. k > 1 => k - 1 \in 1 .. l
      BY <1>1, <2>1
    <3> QED BY <1>1, <3>1
  <2> QED BY <2>1, <2>2, <2>3, <2>5, <1>1 DEF Woven
<1>3. CASE k > l
  <2> DEFINE j == k - l
  <2>1. j \in 1 .. Len(t) /\ k = l + j
    BY <1>1, <1>3
  <2>2. z[k] = t[j]
    BY <1>1, <2>1
  <2>3. j < Len(t) => z[k + 1] = t[j + 1] /\ k < Len(z)
    <3>1. j < Len(t) => j + 1 \in 1 .. Len(t) /\ k + 1 = l + (j + 1)
      BY <1>1, <2>1
    <3> QED BY <1>1, <2>1, <3>1
  <2>4. j > 1 => z[k - 1] = t[j - 1] /\ k > 1
    <3>1. j > 1 => j - 1 \in 1 .. Len(t) /\ k - 1 = l + (j - 1) /\ k > 1
      BY <1>1, <2>1
    <3> QED BY <1>1, <2>1, <3>1
  <2> HIDE DEF j
  <2> QED BY <2>1, <2>2, <2>3, <2>4, <1>1 DEF Woven
<1> QED BY <1>1, <1>2, <1>3

\* The program's own instructions
Own(inst) == inst \in Insts /\ ~ IsHookCall(inst) /\ ~ Indirect(inst)

LEMMA OwnIs ==
  ASSUME NEW x, Own(x)
  PROVE  /\ x \in Insts
         /\ CallsMalloc(x) <=> Calls(x, "malloc")
         /\ \A h \in Hooks : ~ Calls(x, h)
<1>1. NULL # "malloc"
  BY NamesAssumption
<1>2. x \in Insts /\ x.direct \in BOOLEAN /\ (x.op = "call" => x.direct)
  BY DEF Own, Indirect, getCalledFunction, Insts
<1> QED BY <1>1, <1>2 DEF Own, CallsMalloc, Calls, IsHookCall, getCalledFunction

LEMMA HookInsts ==
  \A h \in Hooks : Call(h, TRUE) \in Insts /\ Call(h, TRUE).op = "call" /\ Call(h, TRUE).callee = h
<1>1. Hooks \subseteq Names
  BY NamesAssumption
<1> QED BY <1>1 DEF Call, Insts

\* What the passes make of one instruction is woven, and ends in it unless it is a malloc
LEMMA ExpandedIs ==
  ASSUME NEW f, NEW x, Own(x)
  PROVE  /\ Expanded(f, x) \in Seq(Insts) /\ Woven(f.name, Expanded(f, x))
         /\ x.op \in Terminators => Terminated(Expanded(f, x))
<1> DEFINE end == Call("testsan_EndOfMain", TRUE)
           after == Call("testsan_AfterMalloc", TRUE)
<1>1. /\ x \in Insts
      /\ CallsMalloc(x) <=> Calls(x, "malloc")
      /\ ~ Calls(x, "testsan_EndOfMain") /\ ~ Calls(x, "testsan_AfterMalloc")
  BY OwnIs DEF Hooks
<1>2. /\ end \in Insts /\ Calls(end, "testsan_EndOfMain")
      /\ ~ Calls(end, "testsan_AfterMalloc") /\ ~ Calls(end, "malloc") /\ end.op # "ret"
      /\ after \in Insts /\ Calls(after, "testsan_AfterMalloc")
      /\ ~ Calls(after, "testsan_EndOfMain") /\ ~ Calls(after, "malloc") /\ after.op # "ret"
  BY HookInsts DEF Hooks, Calls
<1>3. Calls(x, "malloc") => x.op = "call"
  BY DEF Calls
<1> HIDE DEF end, after
<1>4. CASE f.name = "main" /\ x.op = "ret"
  <2>1. ~ CallsMalloc(x)
    BY <1>4, <1>1, <1>3
  <2>2. Expanded(f, x) = (<<end>> \o <<x>>) \o <<>>
    BY <1>4, <2>1 DEF Expanded, end
  <2>4. Expanded(f, x) = <<end, x>>
    BY <2>2, <1>1, <1>2, TwoInsts
  <2>3. Woven(f.name, <<end, x>>)
    BY <1>4, <1>1, <1>2, <1>3 DEF Woven
  <2> QED BY <2>3, <2>4, <1>1, <1>2 DEF Terminated
<1>5. CASE ~ (f.name = "main" /\ x.op = "ret") /\ CallsMalloc(x)
  <2>3. Expanded(f, x) = (<<>> \o <<x>>) \o <<after>>
    BY <1>5 DEF Expanded, after
  <2>1. Expanded(f, x) = <<x, after>>
    BY <2>3, <1>1, <1>2, TwoInsts
  <2>2. Woven(f.name, <<x, after>>)
    BY <1>5, <1>1, <1>2, <1>3 DEF Woven
  <2> QED BY <2>1, <2>2, <1>1, <1>2, <1>3, <1>5 DEF Terminators
<1>6. CASE ~ (f.name = "main" /\ x.op = "ret") /\ ~ CallsMalloc(x)
  <2>3. Expanded(f, x) = (<<>> \o <<x>>) \o <<>>
    BY <1>6 DEF Expanded
  <2>1. Expanded(f, x) = <<x>>
    BY <2>3, <1>1, TwoInsts
  <2>2. Woven(f.name, <<x>>)
    BY <1>6, <1>1 DEF Woven
  <2> QED BY <2>1, <2>2, <1>1 DEF Terminated
<1> QED BY <1>4, <1>5, <1>6

\* So is a list of instructions, and it ends as the last of them does
Expansion(f) == [x \in Insts |-> IF Own(x) THEN Expanded(f, x) ELSE <<>>]
OwnList(s) == s \in Seq(Insts) /\ \A i \in 1 .. Len(s) : Own(s[i])

LEMMA TerminatedConcat ==
  ASSUME NEW u \in Seq(Insts), NEW v \in Seq(Insts), Terminated(v) PROVE Terminated(u \o v)
<1>1. /\ Len(u \o v) = Len(u) + Len(v) /\ u \o v \in Seq(Insts)
      /\ Len(u) \in Nat /\ Len(v) \in Nat
      /\ \A i \in 1 .. Len(v) : (u \o v)[Len(u) + i] = v[i]
  BY ConcatProperties
<1>2. Len(v) # 0
  BY DEF Terminated
<1>3. Len(v) \in 1 .. Len(v) /\ Len(u \o v) # 0
  BY <1>1, <1>2
<1>4. (u \o v)[Len(u \o v)] = v[Len(v)] /\ u \o v # <<>>
  BY <1>1, <1>3
<1> QED BY <1>4 DEF Terminated

LEMMA PiecesWoven ==
  ASSUME NEW f, NEW s, OwnList(s), NEW g \in [Insts -> Seq(Insts)],
         \A x : Own(x) => g[x] = Expanded(f, x)
  PROVE  /\ Passes!Whole(s, g) \in Seq(Insts)
         /\ Woven(f.name, Passes!Whole(s, g))
         /\ Terminated(s) => Terminated(Passes!Whole(s, g))
<1> DEFINE P(k) == Passes!Pieces(s, g, k)
           S == {k \in Nat : k <= Len(s) => Woven(f.name, P(k))}
<1>1. s \in Seq(Insts) /\ s \in Seq(Passes!Insts) /\ g \in Passes!Expanders /\ Len(s) \in Nat
  BY SameInsts DEF OwnList
<1>2. ASSUME NEW k \in Nat, k + 1 <= Len(s)
      PROVE  /\ P(k + 1) = P(k) \o Expanded(f, s[k + 1])
             /\ P(k) \in Seq(Insts) /\ P(k + 1) \in Seq(Insts)
             /\ Own(s[k + 1]) /\ Expanded(f, s[k + 1]) \in Seq(Insts)
             /\ Woven(f.name, Expanded(f, s[k + 1]))
             /\ s[k + 1].op \in Terminators => Terminated(Expanded(f, s[k + 1]))
  <2>1. k \in 0 .. Len(s) - 1 /\ k + 1 \in 1 .. Len(s)
    BY <1>1, <1>2
  <2>2. Own(s[k + 1])
    BY <2>1 DEF OwnList
  <2>3. g[s[k + 1]] = Expanded(f, s[k + 1])
    BY <2>2
  <2>4. /\ P(k + 1) = P(k) \o g[s[k + 1]]
        /\ P(k) \in Seq(Insts) /\ P(k + 1) \in Seq(Insts)
    BY <1>1, <2>1, SameInsts, PassesModules, PassesNames, Passes!PiecesMore
  <2> HIDE DEF P
  <2> QED BY <2>2, <2>3, <2>4, ExpandedIs
<1>3. P(0) = <<>>
  BY PassesModules, PassesNames, Passes!PiecesNone
<1> HIDE DEF P
<1>4. 0 \in S
  BY <1>3 DEF Woven
<1>5. ASSUME NEW k \in Nat, k \in S PROVE k + 1 \in S
  <2>1. ASSUME k + 1 <= Len(s) PROVE Woven(f.name, P(k + 1))
    <3>1. Woven(f.name, P(k))
      BY <1>1, <1>5, <2>1
    <3> QED BY <1>2, <2>1, <3>1, WovenConcat
  <2> QED BY <2>1
<1> HIDE DEF S
<1>6. Nat \subseteq S
  BY <1>4, <1>5, PassesModules, PassesNames, Passes!NatInd
<1>7. Woven(f.name, P(Len(s)))
  BY <1>1, <1>6 DEF S
<1>8. Passes!Whole(s, g) = P(Len(s))
  BY DEF Passes!Whole, P
<1>9. P(Len(s)) \in Seq(Insts) /\ (Terminated(s) => Terminated(P(Len(s))))
  <2>1. CASE Len(s) = 0
    <3>1. s = <<>> /\ <<>> \in Seq(Insts)
      BY <1>1, <2>1, EmptySeq
    <3> QED BY <1>3, <2>1, <3>1 DEF Terminated
  <2>2. CASE Len(s) # 0
    <3> DEFINE k == Len(s) - 1
    <3>1. k \in Nat /\ k + 1 = Len(s)
      BY <1>1, <2>2
    <3> HIDE DEF k
    <3>2. /\ P(Len(s)) = P(k) \o Expanded(f, s[Len(s)])
          /\ P(k) \in Seq(Insts) /\ P(Len(s)) \in Seq(Insts)
          /\ Expanded(f, s[Len(s)]) \in Seq(Insts)
          /\ s[Len(s)].op \in Terminators => Terminated(Expanded(f, s[Len(s)]))
      <4>1. k + 1 <= Len(s)
        BY <3>1, <1>1
      <4> QED BY <1>2, <3>1, <4>1
    <3>3. Terminated(Expanded(f, s[Len(s)])) => Terminated(P(Len(s)))
      BY <3>2, TerminatedConcat
    <3> QED BY <3>2, <3>3 DEF Terminated
  <2> QED BY <2>1, <2>2
<1> QED BY <1>7, <1>8, <1>9

\* The functions of a program that was instrumented
LEMMA CodeIs ==
  ASSUME NEW m \in Modules PROVE CodeOK([n \in FunctionNames |-> Instrument(m[Named(m, n)])])
<1> DEFINE c == [n \in FunctionNames |-> Instrument(m[Named(m, n)])]
<1>1. Instrumentable(m)
  BY ProgramAssumption
<1>2. m \in Seq(FunctionTypes)
  BY <1>1 DEF Instrumentable
<1> SUFFICES ASSUME NEW n \in FunctionNames
             PROVE  /\ 1 \in DOMAIN c[n] /\ DOMAIN c[n] \subseteq Nat
                    /\ \A b \in DOMAIN c[n] : BlockOK(n, c[n][b])
  BY DEF CodeOK
<1> DEFINE j == Named(m, n)
           f == m[j]
<1>3. j \in DOMAIN m /\ f.name = n /\ ~ isDeclaration(f)
  <2>1. PICK k \in DOMAIN m : m[k].name = n /\ ~ isDeclaration(m[k])
    BY ProgramAssumption DEF FunctionNames
  <2>2. \A l \in DOMAIN m : m[l].name = n => l = k
    BY <1>1, <2>1 DEF Instrumentable, UniqueNames
  <2>3. \E l \in DOMAIN m : m[l].name = n
    BY <2>1
  <2>4. Named(m, n) \in DOMAIN m /\ m[Named(m, n)].name = n
    BY <2>3 DEF Named
  <2>5. j = k
    BY <2>2, <2>4
  <2> QED BY <2>1, <2>5
<1>4. f \in FunctionTypes
  BY <1>2, <1>3
<1>5. f.blocks \in Seq(Seq(Insts))
  BY <1>4 DEF FunctionTypes
<1>6. DOMAIN f.blocks = 1 .. Len(f.blocks) /\ Len(f.blocks) \in Nat
  BY <1>5
<1>7. 1 \in DOMAIN f.blocks
  <2>1. f.blocks # <<>>
    BY <1>3 DEF isDeclaration
  <2>2. Len(f.blocks) # 0
    BY <1>5, <2>1, EmptySeq
  <2> QED BY <1>6, <2>2
<1>8. c[n] = [b \in DOMAIN f.blocks |-> ExpectedBlock(f, b)]
  BY DEF Instrument
<1>9. ASSUME NEW b \in DOMAIN f.blocks
      PROVE  f.blocks[b] \in Seq(Insts) /\ OwnList(f.blocks[b]) /\ Terminated(f.blocks[b])
  <2> DEFINE block == f.blocks[b]
  <2>1. block \in Seq(Insts)
    BY <1>5, <1>6
  <2>2. DOMAIN block = 1 .. Len(block) /\ \A i \in 1 .. Len(block) : block[i] \in Insts
    BY <2>1
  <2>3. \A i \in DOMAIN block : ~ IsHookCall(block[i])
    BY <1>1, <1>3 DEF Instrumentable
  <2>4. /\ block # <<>> /\ Last(block).op \in Terminators
        /\ \A i \in DOMAIN block : ~ Indirect(block[i])
    BY <1>3, ProgramAssumption DEF Terminators
  <2>5. Terminated(block)
    BY <2>4 DEF Terminated, Last
  <2> HIDE DEF block
  <2>6. OwnList(block)
    BY <2>1, <2>2, <2>3, <2>4 DEF OwnList, Own
  <2> QED BY <2>1, <2>5, <2>6 DEF block
<1>10. ASSUME NEW b \in DOMAIN f.blocks PROVE BlockOK(n, ExpectedBlock(f, b))
  <2> DEFINE s == f.blocks[b]
             g == Expansion(f)
             z == Passes!Whole(s, g)
  <2>1. s \in Seq(Insts) /\ OwnList(s) /\ Terminated(s)
    BY <1>9
  <2>2. \A x : Own(x) => g[x] = Expanded(f, x)
    BY DEF Expansion, Own
  <2>3. g \in [Insts -> Seq(Insts)]
    <3>1. \A x \in Insts : Own(x) => Expanded(f, x) \in Seq(Insts)
      <4> HIDE DEF f
      <4> QED BY ExpandedIs
    <3>2. <<>> \in Seq(Insts)
      BY EmptySeq
    <3> QED BY <3>1, <3>2 DEF Expansion
  <2>4. z \in Seq(Insts) /\ Woven(f.name, z) /\ Terminated(z)
    <3> HIDE DEF f, g, s
    <3> QED BY <2>1, <2>2, <2>3, PiecesWoven
  <2>5. FlattenSeq([i \in DOMAIN s |-> Expanded(f, s[i])]) = z
    <3>1. DOMAIN s = 1 .. Len(s) /\ \A i \in 1 .. Len(s) : Own(s[i])
      BY <2>1 DEF OwnList
    <3>2. [i \in DOMAIN s |-> Expanded(f, s[i])] = [i \in 1 .. Len(s) |-> g[s[i]]]
      <4> HIDE DEF f, g, s
      <4> QED BY <2>2, <3>1
    <3>3. FlattenSeq([i \in 1 .. Len(s) |-> g[s[i]]]) = z
      BY DEF Passes!Whole, Passes!Pieces, Passes!FlattenSeq, FlattenSeq
    <3> QED BY <3>2, <3>3
  <2>6. ASSUME b = 1 PROVE BlockOK(n, <<Call("testsan_HelloFunction", TRUE)>> \o z)
    <3> DEFINE hello == Call("testsan_HelloFunction", TRUE)
    <3>1. /\ hello \in Insts /\ ~ Calls(hello, "malloc") /\ hello.op # "ret"
          /\ ~ Calls(hello, "testsan_AfterMalloc") /\ ~ Calls(hello, "testsan_EndOfMain")
      BY HookInsts DEF Hooks, Calls
    <3> HIDE DEF hello, z
    <3>2. <<hello>> \in Seq(Insts) /\ Woven(n, <<hello>>)
      BY <3>1 DEF Woven
    <3>3. <<hello>> \o z \in Seq(Insts)
      BY <2>4, <3>2, ConcatProperties
    <3>4. Woven(n, <<hello>> \o z) /\ Terminated(<<hello>> \o z)
      BY <1>3, <2>4, <3>2, WovenConcat, TerminatedConcat
    <3> QED BY <3>3, <3>4 DEF BlockOK, hello
  <2>7. ASSUME b # 1 PROVE BlockOK(n, <<>> \o z)
    <3> HIDE DEF z
    <3>1. <<>> \o z = z
      BY <2>4, ConcatEmptySeq
    <3> QED BY <1>3, <2>4, <3>1 DEF BlockOK
  <2> HIDE DEF z
  <2> QED BY <2>5, <2>6, <2>7 DEF ExpectedBlock
<1> QED BY <1>6, <1>7, <1>8, <1>10
-----------------------------------------------------------------------------
(* Where a frame goes                                                         *)

LEMMA PlaceIs ==
  ASSUME NEW c, CodeOK(c), NEW f, Place(c, f)
  PROVE  /\ c[f.fn][f.b] \in Seq(Insts) /\ Woven(f.fn, c[f.fn][f.b]) /\ Terminated(c[f.fn][f.b])
         /\ f.b \in Nat /\ f.i \in Nat /\ Len(c[f.fn][f.b]) \in Nat
         /\ InstAt(c, f) \in Insts
         /\ InstAt(c, f).op \in {"call", "invoke", "ret", "br", "other"}
<1>1. BlockOK(f.fn, c[f.fn][f.b]) /\ f.b \in Nat
  BY DEF CodeOK, Place
<1>2. c[f.fn][f.b] \in Seq(Insts) /\ Len(c[f.fn][f.b]) \in Nat
  BY <1>1 DEF BlockOK
<1>3. InstAt(c, f) \in Insts /\ f.i \in Nat
  BY <1>2 DEF Place, InstAt
<1> QED BY <1>1, <1>2, <1>3 DEF BlockOK, Insts

\* Behind an instruction that is no terminator there is another one: the hook
\* if it is a malloc, the return of main if it is the hook of the end
LEMMA Behind ==
  ASSUME NEW c, CodeOK(c), NEW f \in Frames, Place(c, f), InstAt(c, f).op \notin Terminators
  PROVE  /\ NextInst(f) \in Frames /\ Place(c, NextInst(f))
         /\ NextInst(f).fn = f.fn /\ NextInst(f).value = f.value
         /\ AtHook(c, NextInst(f)) <=> Calls(InstAt(c, f), "malloc")
         /\ AtEnd(c, NextInst(f)) <=> Calls(InstAt(c, f), "testsan_EndOfMain")
<1> DEFINE s == c[f.fn][f.b]
           g == NextInst(f)
<1>1. /\ s \in Seq(Insts) /\ Woven(f.fn, s) /\ Terminated(s) /\ Len(s) \in Nat /\ f.i \in 1 .. Len(s)
      /\ InstAt(c, f) = s[f.i]
  BY PlaceIs DEF Place, InstAt
<1>2. /\ g \in Frames /\ g.fn = f.fn /\ g.b = f.b /\ g.i = f.i + 1 /\ g.value = f.value
  <2>1. /\ f.fn \in FunctionNames /\ f.b \in Nat /\ f.i \in Nat /\ f.value \in {NULL, ReturnValue}
        /\ f = [fn |-> f.fn, b |-> f.b, i |-> f.i, value |-> f.value]
    BY DEF Frames
  <2>2. g = [fn |-> f.fn, b |-> f.b, i |-> f.i + 1, value |-> f.value]
    BY <2>1 DEF NextInst
  <2>3. f.i + 1 \in Nat
    BY <2>1
  <2> QED BY <2>1, <2>2, <2>3 DEF Frames
<1>3. f.i # Len(s)
  BY <1>1 DEF Terminated
<1> HIDE DEF g
<1>4. f.i + 1 \in 1 .. Len(s) /\ f.i + 1 > 1 /\ (f.i + 1) - 1 = f.i
  BY <1>1, <1>3
<1>5. Place(c, g) /\ InstAt(c, g) = s[f.i + 1]
  BY <1>2, <1>4 DEF Place, InstAt
<1> HIDE DEF s
<1>6. Calls(s[f.i + 1], "testsan_AfterMalloc") <=> Calls(s[f.i], "malloc")
  BY <1>1, <1>4 DEF Woven
<1>7. f.fn = "main" /\ s[f.i + 1].op = "ret" <=> Calls(s[f.i], "testsan_EndOfMain")
  BY <1>1, <1>4 DEF Woven
<1> QED BY <1>1, <1>2, <1>5, <1>6, <1>7 DEF AtHook, AtEnd, g

\* No block begins with a hook of the program or a return of main
LEMMA BlockBegins ==
  ASSUME NEW c, CodeOK(c), NEW f \in Frames, f.b \in DOMAIN c[f.fn], f.i = 1
  PROVE  Place(c, f) /\ ~ AtHook(c, f) /\ ~ AtEnd(c, f)
<1> DEFINE s == c[f.fn][f.b]
<1>1. f.fn \in FunctionNames
  BY DEF Frames
<1>2. s \in Seq(Insts) /\ Woven(f.fn, s) /\ Terminated(s)
  BY <1>1 DEF CodeOK, BlockOK
<1> HIDE DEF s
<1>3. 1 \in 1 .. Len(s)
  BY <1>2, EmptySeq DEF Terminated
<1>4. Place(c, f) /\ InstAt(c, f) = s[1]
  BY <1>1, <1>3 DEF Place, InstAt, s
<1>5. ~ Calls(s[1], "testsan_AfterMalloc") /\ ~ (f.fn = "main" /\ s[1].op = "ret")
  BY <1>2, <1>3 DEF Woven
<1> QED BY <1>4, <1>5 DEF AtHook, AtEnd

LEMMA FrameIs ==
  ASSUME NEW c, CodeOK(c), NEW n \in FunctionNames
  PROVE  /\ Frame(n) \in Frames /\ Frame(n).fn = n /\ Place(c, Frame(n))
         /\ ~ AtHook(c, Frame(n)) /\ ~ AtEnd(c, Frame(n))
<1>1. Frame(n) \in Frames /\ Frame(n).fn = n /\ Frame(n).b = 1 /\ Frame(n).i = 1
  BY DEF Frame, Frames
<1>2. 1 \in DOMAIN c[n]
  BY DEF CodeOK
<1> QED BY <1>1, <1>2, BlockBegins

\* A jump goes to the beginning of a block
Later(f) == {[f EXCEPT !.b = b, !.i = 1] : b \in {c \in DOMAIN code[f.fn] : c > f.b}}

LEMMA JumpIs ==
  ASSUME CodeOK(code), NEW f \in Frames, NEW g \in Later(f)
  PROVE  /\ g \in Frames /\ g.fn = f.fn /\ g.value = f.value
         /\ Place(code, g) /\ ~ AtHook(code, g) /\ ~ AtEnd(code, g)
<1>1. PICK b \in DOMAIN code[f.fn] : g = [f EXCEPT !.b = b, !.i = 1]
  BY DEF Later
<1>2. /\ f.fn \in FunctionNames /\ f.value \in {NULL, ReturnValue}
      /\ f = [fn |-> f.fn, b |-> f.b, i |-> f.i, value |-> f.value]
  BY DEF Frames
<1>3. b \in Nat
  BY <1>2 DEF CodeOK
<1>4. g = [fn |-> f.fn, b |-> b, i |-> 1, value |-> f.value]
  BY <1>1, <1>2
<1>5. /\ g \in Frames /\ g.fn = f.fn /\ g.value = f.value /\ g.b \in DOMAIN code[g.fn] /\ g.i = 1
  BY <1>2, <1>3, <1>4 DEF Frames
<1> QED BY <1>5, BlockBegins

\* The value of a frame changes with a return
WithValue(f, v) == [f EXCEPT !.value = v]

LEMMA WithValueIs ==
  ASSUME NEW c, NEW f \in Frames, NEW v \in {NULL, ReturnValue}
  PROVE  /\ WithValue(f, v) \in Frames /\ WithValue(f, v).fn = f.fn /\ WithValue(f, v).value = v
         /\ Place(c, WithValue(f, v)) <=> Place(c, f)
         /\ InstAt(c, WithValue(f, v)) = InstAt(c, f)
         /\ AtHook(c, WithValue(f, v)) <=> AtHook(c, f)
         /\ AtEnd(c, WithValue(f, v)) <=> AtEnd(c, f)
<1> DEFINE g == WithValue(f, v)
<1>1. /\ g = [fn |-> f.fn, b |-> f.b, i |-> f.i, value |-> v]
      /\ f.fn \in FunctionNames /\ f.b \in Nat /\ f.i \in Nat
  BY DEF Frames, WithValue
<1>2. g \in Frames /\ g.fn = f.fn /\ g.b = f.b /\ g.i = f.i /\ g.value = v
  BY <1>1 DEF Frames
<1> HIDE DEF g
<1>3. InstAt(c, g) = InstAt(c, f) /\ (Place(c, g) <=> Place(c, f))
  BY <1>2 DEF InstAt, Place
<1> QED BY <1>2, <1>3 DEF AtHook, AtEnd, g
-----------------------------------------------------------------------------
(* Stacks and logs                                                            *)

Over(f, fr) == <<f>> \o Tail(fr)

LEMMA OverIs ==
  ASSUME NEW fr \in Seq(Frames), fr # <<>>, NEW f \in Frames
  PROVE  /\ Over(f, fr) \in Seq(Frames) /\ Over(f, fr) # <<>> /\ Over(f, fr)[1] = f
         /\ Len(Over(f, fr)) = Len(fr) /\ Len(fr) \in Nat \ {0}
         /\ \A k \in 2 .. Len(fr) : Over(f, fr)[k] = fr[k]
         /\ fr[1] \in Frames /\ Head(fr) = fr[1]
<1>1. /\ Tail(fr) \in Seq(Frames) /\ Len(Tail(fr)) = Len(fr) - 1 /\ Len(fr) \in Nat /\ Len(fr) # 0
      /\ \A k \in 1 .. Len(fr) - 1 : Tail(fr)[k] = fr[k + 1]
      /\ Head(fr) = fr[1]
  BY EmptySeq
<1> DEFINE u == <<f>>
           v == Tail(fr)
           z == u \o v
<1>2. u \in Seq(Frames) /\ Len(u) = 1 /\ u[1] = f
  OBVIOUS
<1>3. /\ z \in Seq(Frames) /\ Len(z) = Len(u) + Len(v)
      /\ \A k \in 1 .. Len(u) + Len(v) : z[k] = IF k <= Len(u) THEN u[k] ELSE v[k - Len(u)]
  BY <1>1, <1>2, ConcatProperties
<1> HIDE DEF u, z
<1>4. Len(z) = Len(fr) /\ z # <<>> /\ z[1] = f
  BY <1>1, <1>2, <1>3
<1>5. ASSUME NEW k \in 2 .. Len(fr) PROVE z[k] = fr[k]
  <2>1. k - 1 \in 1 .. Len(fr) - 1 /\ (k - 1) + 1 = k /\ k \in 1 .. Len(fr) /\ ~ (k <= 1)
    BY <1>1
  <2>2. z[k] = v[k - 1]
    BY <1>1, <1>2, <1>3, <2>1
  <2>3. v[k - 1] = fr[(k - 1) + 1]
    BY <1>1, <2>1
  <2> QED BY <2>1, <2>2, <2>3
<1>6. 1 \in 1 .. Len(fr) /\ fr[1] \in Frames
  BY <1>1
<1> QED BY <1>1, <1>3, <1>4, <1>5, <1>6 DEF z, u, Over

\* The innermost frame goes on in its function
LEMMA OverStack ==
  ASSUME NEW c, NEW t, NEW fr \in Seq(Frames), fr # <<>>, StackOK(c, t, fr),
         NEW f \in Frames, Place(c, f), f.fn = fr[1].fn
  PROVE  StackOK(c, t, Over(f, fr))
<1> DEFINE z == Over(f, fr)
<1>1. /\ z[1] = f /\ Len(z) = Len(fr) /\ Len(fr) \in Nat \ {0}
      /\ \A k \in 2 .. Len(fr) : z[k] = fr[k]
  BY OverIs
<1> HIDE DEF z
<1>2. ASSUME NEW k \in 1 .. Len(z)
      PROVE  Place(c, z[k]) /\ (z[k].fn = "main" <=> t = Main /\ k = Len(z))
  <2>1. CASE k = 1
    <3>1. Place(c, fr[1]) /\ (fr[1].fn = "main" <=> t = Main /\ 1 = Len(fr))
      BY <1>1 DEF StackOK
    <3> QED BY <1>1, <2>1, <3>1
  <2>2. CASE k # 1
    <3>1. k \in 2 .. Len(fr) /\ k \in 1 .. Len(fr)
      BY <1>1, <2>2
    <3>2. Place(c, fr[k]) /\ (fr[k].fn = "main" <=> t = Main /\ k = Len(fr))
      BY <3>1 DEF StackOK
    <3> QED BY <1>1, <3>1, <3>2
  <2> QED BY <2>1, <2>2
<1>3. ASSUME NEW k \in 2 .. Len(z) PROVE ~ AtHook(c, z[k]) /\ ~ AtEnd(c, z[k])
  <2>1. k \in 2 .. Len(fr)
    BY <1>1
  <2>2. ~ AtHook(c, fr[k]) /\ ~ AtEnd(c, fr[k])
    BY <2>1 DEF StackOK
  <2> QED BY <1>1, <2>1, <2>2
<1> QED BY <1>2, <1>3 DEF StackOK, z

\* A frame on top of the others, which waits behind its call
Pushed(g, f, fr) == <<g, f>> \o Tail(fr)

LEMMA PushedStack ==
  ASSUME NEW c, NEW t, NEW fr \in Seq(Frames), fr # <<>>, StackOK(c, t, fr),
         NEW f \in Frames, Place(c, f), f.fn = fr[1].fn, ~ AtHook(c, f), ~ AtEnd(c, f),
         NEW g \in Frames, Place(c, g), g.fn = "foo"
  PROVE  /\ StackOK(c, t, Pushed(g, f, fr)) /\ Pushed(g, f, fr) \in Seq(Frames)
         /\ Pushed(g, f, fr) # <<>> /\ Pushed(g, f, fr)[1] = g
<1> DEFINE o == Over(f, fr)
           z == Pushed(g, f, fr)
           u == <<g>>
<1>1. /\ o \in Seq(Frames) /\ o # <<>> /\ o[1] = f /\ Len(o) = Len(fr) /\ Len(fr) \in Nat \ {0}
      /\ StackOK(c, t, o)
  BY OverIs, OverStack
<1>2. z = u \o o
  <2>1. Tail(fr) \in Seq(Frames)
    OBVIOUS
  <2>2. <<g>> \in Seq(Frames) /\ <<f>> \in Seq(Frames)
    OBVIOUS
  <2>3. (<<g>> \o <<f>>) \o Tail(fr) = <<g>> \o (<<f>> \o Tail(fr))
    BY <2>1, <2>2, ConcatAssociative
  <2>4. <<g>> \o <<f>> = <<g, f>>
    <3> DEFINE w == <<g>> \o <<f>>
    <3>1. /\ Len(<<g>>) = 1 /\ Len(<<f>>) = 1 /\ <<g>>[1] = g /\ <<f>>[1] = f
          /\ <<g, f>> \in Seq(Frames) /\ Len(<<g, f>>) = 2 /\ <<g, f>>[1] = g /\ <<g, f>>[2] = f
      OBVIOUS
    <3>2. /\ w \in Seq(Frames) /\ Len(w) = 2
          /\ \A k \in 1 .. 2 : w[k] = IF k <= 1 THEN g ELSE f
      BY <2>2, <3>1, ConcatProperties
    <3> HIDE DEF w
    <3>3. \A k \in 1 .. 2 : w[k] = <<g, f>>[k]
      <4>1. w[1] = g /\ w[2] = f
        BY <3>2
      <4>2. \A k \in 1 .. 2 : k = 1 \/ k = 2
        OBVIOUS
      <4> QED BY <3>1, <4>1, <4>2
    <3>4. w = <<g, f>>
      BY <3>1, <3>2, <3>3, SeqEqual
    <3> QED BY <3>4 DEF w
  <2> QED BY <2>3, <2>4 DEF Pushed, Over
<1>3. u \in Seq(Frames) /\ Len(u) = 1 /\ u[1] = g
  OBVIOUS
<1> HIDE DEF o, z, u
<1>4. /\ z \in Seq(Frames) /\ Len(z) = Len(u) + Len(o)
      /\ \A k \in 1 .. Len(u) + Len(o) : z[k] = IF k <= Len(u) THEN u[k] ELSE o[k - Len(u)]
  <2>1. o \in Seq(Frames) /\ u \in Seq(Frames)
    BY <1>1, <1>3
  <2> QED BY <1>2, <2>1, ConcatProperties
<1>5. Len(z) = Len(o) + 1 /\ z[1] = g /\ z # <<>> /\ Len(o) \in Nat \ {0}
  BY <1>1, <1>3, <1>4
<1>6. ASSUME NEW k \in 2 .. Len(z) PROVE k - 1 \in 1 .. Len(o) /\ z[k] = o[k - 1]
  <2>1. k - 1 \in 1 .. Len(o) /\ k \in 1 .. Len(u) + Len(o) /\ ~ (k <= Len(u)) /\ k - Len(u) = k - 1
    BY <1>3, <1>5
  <2> QED BY <1>4, <2>1
<1>7. ASSUME NEW k \in 1 .. Len(z)
      PROVE  Place(c, z[k]) /\ (z[k].fn = "main" <=> t = Main /\ k = Len(z))
  <2>1. CASE k = 1
    BY <1>5, <2>1
  <2>2. CASE k # 1
    <3>1. k \in 2 .. Len(z) /\ (k = Len(z) <=> k - 1 = Len(o))
      BY <1>5, <2>2
    <3>2. k - 1 \in 1 .. Len(o) /\ z[k] = o[k - 1]
      BY <1>6, <3>1
    <3>3. Place(c, o[k - 1]) /\ (o[k - 1].fn = "main" <=> t = Main /\ k - 1 = Len(o))
      BY <1>1, <3>2 DEF StackOK
    <3> QED BY <3>1, <3>2, <3>3
  <2> QED BY <2>1, <2>2
<1>8. ASSUME NEW k \in 2 .. Len(z) PROVE ~ AtHook(c, z[k]) /\ ~ AtEnd(c, z[k])
  <2>1. k - 1 \in 1 .. Len(o) /\ z[k] = o[k - 1]
    BY <1>6
  <2>2. CASE k = 2
    BY <1>1, <2>1, <2>2
  <2>3. CASE k # 2
    <3>1. k - 1 \in 2 .. Len(o)
      BY <1>5, <2>3
    <3> QED BY <1>1, <2>1, <3>1 DEF StackOK
  <2> QED BY <2>2, <2>3
<1>9. StackOK(c, t, z)
  BY <1>7, <1>8 DEF StackOK
<1> QED BY <1>4, <1>5, <1>9 DEF z

\* The innermost frame is left
LEMMA PoppedStack ==
  ASSUME NEW c, NEW t, NEW fr \in Seq(Frames), fr # <<>>, StackOK(c, t, fr)
  PROVE  /\ StackOK(c, t, Tail(fr)) /\ Tail(fr) \in Seq(Frames)
         /\ Tail(fr) # <<>> => ~ AtHook(c, Tail(fr)[1]) /\ ~ AtEnd(c, Tail(fr)[1])
         /\ Tail(fr) = <<>> <=> Len(fr) = 1
<1> DEFINE z == Tail(fr)
<1>1. /\ z \in Seq(Frames) /\ Len(z) = Len(fr) - 1 /\ Len(fr) \in Nat \ {0}
      /\ \A k \in 1 .. Len(fr) - 1 : z[k] = fr[k + 1]
      /\ z = <<>> <=> Len(fr) = 1
  <2>1. /\ z \in Seq(Frames) /\ Len(z) = Len(fr) - 1 /\ Len(fr) \in Nat /\ Len(fr) # 0
        /\ \A k \in 1 .. Len(fr) - 1 : z[k] = fr[k + 1]
    BY EmptySeq
  <2> HIDE DEF z
  <2>2. z = <<>> <=> Len(z) = 0
    BY <2>1, EmptySeq
  <2> QED BY <2>1, <2>2
<1> HIDE DEF z
<1>2. ASSUME NEW k \in 1 .. Len(z)
      PROVE  /\ Place(c, z[k]) /\ (z[k].fn = "main" <=> t = Main /\ k = Len(z))
             /\ ~ AtHook(c, z[k]) /\ ~ AtEnd(c, z[k])
  <2>1. k + 1 \in 2 .. Len(fr) /\ k + 1 \in 1 .. Len(fr) /\ (k = Len(z) <=> k + 1 = Len(fr))
    BY <1>1
  <2>2. z[k] = fr[k + 1]
    BY <1>1
  <2> QED BY <2>1, <2>2 DEF StackOK
<1>3. \A k \in 2 .. Len(z) : k \in 1 .. Len(z)
  BY <1>1
<1>4. StackOK(c, t, z)
  BY <1>2, <1>3 DEF StackOK
<1>5. z # <<>> => 1 \in 1 .. Len(z)
  BY <1>1
<1>6. z # <<>> => ~ AtHook(c, z[1]) /\ ~ AtEnd(c, z[1])
  BY <1>2, <1>5
<1> QED BY <1>1, <1>4, <1>6 DEF z

\* One more report: that of a hook follows its malloc, and nothing the end
LEMMA AppendLog ==
  ASSUME NEW log \in Seq(Entries), LogOK(log), NEW e \in Entries,
         LastIs(log, "hooked") <=> e.what = "reported",
         LastIs(log, "hooked") => e.value = log[Len(log)].value,
         ~ LastIs(log, "end")
  PROVE  /\ Append(log, e) \in Seq(Entries) /\ LogOK(Append(log, e))
         /\ Append(log, e)[Len(Append(log, e))] = e
         /\ \A w : LastIs(Append(log, e), w) <=> e.what = w
<1> DEFINE z == Append(log, e)
           n == Len(log)
<1>1. /\ z \in Seq(Entries) /\ Len(z) = n + 1 /\ n \in Nat /\ z[n + 1] = e
      /\ \A k \in 1 .. n : z[k] = log[k]
      /\ z # <<>> /\ (log = <<>> <=> n = 0)
  BY EmptySeq
<1> HIDE DEF z
<1>2. \A k \in 1 .. n : ~ (k = n /\ log[k].what = "end")
  BY <1>1 DEF LastIs
<1>3. ASSUME NEW k \in 1 .. Len(z)
      PROVE  /\ z[k].what = "hooked" /\ k < Len(z) =>
                  z[k + 1].what = "reported" /\ z[k + 1].value = z[k].value
             /\ z[k].what = "reported" => k > 1 /\ z[k - 1].what = "hooked"
             /\ z[k].what = "end" => k = Len(z)
  <2>1. CASE k = n + 1
    <3>1. e.what = "reported" => n # 0 /\ log[n].what = "hooked"
      BY <1>1 DEF LastIs
    <3>2. n # 0 => n \in 1 .. n /\ k > 1 /\ k - 1 = n
      BY <1>1, <2>1
    <3> QED BY <1>1, <2>1, <3>1, <3>2
  <2>2. CASE k # n + 1
    <3>1. k \in 1 .. n /\ z[k] = log[k]
      BY <1>1, <2>2
    <3>2. /\ log[k].what = "hooked" /\ k < n =>
               log[k + 1].what = "reported" /\ log[k + 1].value = log[k].value
          /\ log[k].what = "reported" => k > 1 /\ log[k - 1].what = "hooked"
          /\ log[k].what = "end" => k = n
      BY <3>1 DEF LogOK
    <3>3. log[k].what # "end"
      BY <1>2, <3>1, <3>2
    <3>4. k > 1 => z[k - 1] = log[k - 1]
      <4>1. k > 1 => k - 1 \in 1 .. n
        BY <1>1, <3>1
      <4> QED BY <1>1, <4>1
    <3>5. k < n => z[k + 1] = log[k + 1]
      <4>1. k < n => k + 1 \in 1 .. n
        BY <1>1, <3>1
      <4> QED BY <1>1, <4>1
    <3>6. log[k].what = "hooked" /\ k = n => e.what = "reported" /\ e.value = log[k].value
      <4>1. k = n /\ log[k].what = "hooked" => LastIs(log, "hooked")
        BY <1>1, <3>1 DEF LastIs
      <4> QED BY <4>1
    <3>7. k < n \/ k = n
      BY <1>1, <3>1
    <3> QED BY <1>1, <3>1, <3>2, <3>3, <3>4, <3>5, <3>6, <3>7
  <2> QED BY <2>1, <2>2
<1>4. LogOK(z)
  BY <1>3 DEF LogOK
<1>5. \A w : LastIs(z, w) <=> e.what = w
  BY <1>1 DEF LastIs
<1> QED BY <1>1, <1>4, <1>5 DEF z
-----------------------------------------------------------------------------
(* One thread goes on                                                         *)

\* What a thread knows does not depend on what the others do
LEMMA OthersKeep ==
  ASSUME NEW c, NEW ph, NEW ph2, NEW st, NEW st2, NEW in, NEW in2, NEW t, NEW fr, NEW log,
         ThreadOK(c, ph, st, in, t, fr, log),
         t \in st => t \in st2, t \in in2 => t \in in,
         ph = "exited" => ph2 = "exited",
         t = Main /\ ph2 = "exited" => ph = "exited"
  PROVE  ThreadOK(c, ph2, st2, in2, t, fr, log)
BY DEF ThreadOK, ReportsOK

\* The thread's place and what was reported for it before
LEMMA AtIs ==
  ASSUME NEW c, CodeOK(c), NEW ph, NEW st, NEW in, NEW t, NEW fr \in Seq(Frames), NEW log,
         ThreadOK(c, ph, st, in, t, fr, log), fr # <<>>
  PROVE  /\ Head(fr) = fr[1] /\ fr[1] \in Frames /\ Place(c, fr[1]) /\ t \in st
         /\ fr[1].fn \in FunctionNames
         /\ fr[1].fn = "main" => t = Main
         /\ LastIs(log, "hooked") <=> AtHook(c, fr[1])
         /\ LastIs(log, "hooked") => fr[1].value = log[Len(log)].value
<1>1. Head(fr) = fr[1] /\ fr[1] \in Frames /\ Len(fr) \in Nat \ {0}
  BY OverIs
<1>2. 1 \in 1 .. Len(fr)
  BY <1>1
<1>3. Place(c, fr[1]) /\ (fr[1].fn = "main" => t = Main)
  BY <1>2 DEF ThreadOK, StackOK
<1> QED BY <1>1, <1>3 DEF ThreadOK, ReportsOK, Frames

\* It moves without a report
LEMMA MoveKeeps ==
  ASSUME NEW c, CodeOK(c), NEW st, NEW in, NEW t, NEW fr \in Seq(Frames),
         NEW log, ThreadOK(c, "run", st, in, t, fr, log), fr # <<>>,
         NEW f \in Frames, Place(c, f), f.fn = fr[1].fn, ~ AtHook(c, f), ~ AtEnd(c, f),
         ~ AtHook(c, fr[1]), ~ AtEnd(c, fr[1]), t \notin in
  PROVE  ThreadOK(c, "run", st, in, t, Over(f, fr), log) /\ Over(f, fr) \in Seq(Frames)
<1>1. Over(f, fr) \in Seq(Frames) /\ Over(f, fr) # <<>> /\ Over(f, fr)[1] = f
  BY OverIs
<1>2. StackOK(c, t, Over(f, fr))
  BY OverStack DEF ThreadOK
<1>3. ReportsOK(c, "run", t, Over(f, fr), log)
  BY <1>1 DEF ThreadOK, ReportsOK
<1> QED BY <1>1, <1>2, <1>3 DEF ThreadOK

\* It moves and something is reported for it
LEMMA ReportKeeps ==
  ASSUME NEW c, CodeOK(c), NEW st, NEW in, NEW in2, NEW t, NEW fr \in Seq(Frames),
         NEW log \in Seq(Entries), ThreadOK(c, "run", st, in, t, fr, log), fr # <<>>,
         NEW f \in Frames, Place(c, f), f.fn = fr[1].fn, t \notin in2, ~ AtEnd(c, fr[1]),
         NEW e \in Entries,
         AtHook(c, fr[1]) <=> e.what = "reported", AtHook(c, fr[1]) => e.value = fr[1].value,
         AtHook(c, f) <=> e.what = "hooked", AtHook(c, f) => e.value = f.value,
         AtEnd(c, f) <=> e.what = "end"
  PROVE  /\ ThreadOK(c, "run", st, in2, t, Over(f, fr), Append(log, e))
         /\ Over(f, fr) \in Seq(Frames) /\ Append(log, e) \in Seq(Entries)
<1> DEFINE z == Over(f, fr)
           w == Append(log, e)
<1>1. z \in Seq(Frames) /\ z # <<>> /\ z[1] = f
  BY OverIs
<1>2. StackOK(c, t, z)
  BY OverStack DEF ThreadOK
<1>3. /\ t \in st
      /\ f.fn = "main" => t = Main
      /\ LastIs(log, "hooked") <=> AtHook(c, fr[1])
      /\ LastIs(log, "hooked") => fr[1].value = log[Len(log)].value
  <2>1. /\ t \in st
        /\ fr[1].fn = "main" => t = Main
        /\ LastIs(log, "hooked") <=> AtHook(c, fr[1])
        /\ LastIs(log, "hooked") => fr[1].value = log[Len(log)].value
    BY AtIs
  <2> QED BY <2>1
<1>4. ~ LastIs(log, "end")
  BY DEF ThreadOK, ReportsOK
<1>5. LogOK(log)
  BY DEF ThreadOK
<1>6. /\ w \in Seq(Entries) /\ LogOK(w) /\ w[Len(w)] = e
      /\ \A x : LastIs(w, x) <=> e.what = x
  <2>1. LastIs(log, "hooked") <=> e.what = "reported"
    BY <1>3
  <2>2. LastIs(log, "hooked") => e.value = log[Len(log)].value
    BY <1>3
  <2> QED BY <1>4, <1>5, <2>1, <2>2, AppendLog
<1> HIDE DEF z, w
<1>7. AtEnd(c, f) => t = Main
  BY <1>3 DEF AtEnd
<1>8. ReportsOK(c, "run", t, z, w)
  BY <1>1, <1>6, <1>7 DEF ReportsOK
<1>9. ThreadOK(c, "run", st, in2, t, z, w)
  BY <1>2, <1>3, <1>6, <1>8 DEF ThreadOK
<1> QED BY <1>1, <1>6, <1>9 DEF z, w
-----------------------------------------------------------------------------
(* The steps                                                                  *)

\* What the invariant says, with the state named
Facts(c, ph, rl, sh, st, sk, in, o) ==
  /\ sk \in [Threads -> Seq(Frames)] /\ o \in [Threads -> Seq(Entries)]
  /\ CodeOK(c) /\ PhaseOK(ph, rl, sh, st)
  /\ \A t \in Threads : ThreadOK(c, ph, st, in, t, sk[t], o[t])

SetStack(sk, t, fr) == [sk EXCEPT ![t] = fr]
AddReport(o, t, e) == [o EXCEPT ![t] = Append(@, e)]

\* A thread moves in the program, and the rest stays as it is
LEMMA OneMoves ==
  ASSUME NEW c, NEW rl, NEW sh, NEW st, NEW sk, NEW in, NEW o, NEW in2,
         Facts(c, "run", rl, sh, st, sk, in, o),
         NEW t \in Threads, NEW fr \in Seq(Frames), \A u \in Threads : u # t => (u \in in2 => u \in in)
  PROVE  /\ ThreadOK(c, "run", st, in2, t, fr, o[t]) =>
              Facts(c, "run", rl, sh, st, SetStack(sk, t, fr), in2, o)
         /\ \A e : Append(o[t], e) \in Seq(Entries)
                     /\ ThreadOK(c, "run", st, in2, t, fr, Append(o[t], e)) =>
              Facts(c, "run", rl, sh, st, SetStack(sk, t, fr), in2, AddReport(o, t, e))
<1> DEFINE s2 == SetStack(sk, t, fr)
<1>1. /\ s2 \in [Threads -> Seq(Frames)] /\ s2[t] = fr
      /\ \A u \in Threads : u # t => s2[u] = sk[u]
  BY DEF Facts, SetStack
<1>2. ASSUME NEW u \in Threads, u # t
      PROVE  ThreadOK(c, "run", st, in2, u, sk[u], o[u])
  <2>1. ThreadOK(c, "run", st, in, u, sk[u], o[u]) /\ (u \in in2 => u \in in)
    BY <1>2 DEF Facts
  <2> QED BY <2>1, OthersKeep
<1> HIDE DEF s2
<1>3. ASSUME ThreadOK(c, "run", st, in2, t, fr, o[t])
      PROVE  Facts(c, "run", rl, sh, st, s2, in2, o)
  <2>1. \A u \in Threads : ThreadOK(c, "run", st, in2, u, s2[u], o[u])
    BY <1>1, <1>2, <1>3
  <2> QED BY <1>1, <2>1 DEF Facts
<1>4. ASSUME NEW e, Append(o[t], e) \in Seq(Entries),
             ThreadOK(c, "run", st, in2, t, fr, Append(o[t], e))
      PROVE  Facts(c, "run", rl, sh, st, s2, in2, AddReport(o, t, e))
  <2> DEFINE o2 == AddReport(o, t, e)
  <2>1. /\ o2 \in [Threads -> Seq(Entries)] /\ o2[t] = Append(o[t], e)
        /\ \A u \in Threads : u # t => o2[u] = o[u]
    BY <1>4 DEF Facts, AddReport
  <2> HIDE DEF o2
  <2>2. \A u \in Threads : ThreadOK(c, "run", st, in2, u, s2[u], o2[u])
    BY <1>1, <1>2, <1>4, <2>1
  <2>3. Facts(c, "run", rl, sh, st, s2, in2, o2)
    BY <1>1, <2>1, <2>2 DEF Facts
  <2> QED BY <2>3 DEF o2
<1> QED BY <1>3, <1>4 DEF s2

\* The thread that takes a step of the program
LEMMA StepIs ==
  ASSUME IInv, NEW t \in Threads, phase = "run", stack[t] # <<>>
  PROVE  LET f == Head(stack[t])
         IN  /\ Facts(code, "run", real, shadow, started, stack, inside, out)
             /\ CodeOK(code) /\ stack[t] \in Seq(Frames) /\ out[t] \in Seq(Entries)
             /\ ThreadOK(code, "run", started, inside, t, stack[t], out[t])
             /\ f = stack[t][1] /\ f \in Frames /\ Place(code, f) /\ t \in started
             /\ Inst(t) = InstAt(code, f) /\ Inst(t) \in Insts
             /\ Inst(t).op \in {"call", "invoke", "ret", "br", "other"}
             /\ real # NULL
             /\ t \in inside => AtMalloc(code, f)
<1>1. Facts(code, "run", real, shadow, started, stack, inside, out)
  BY DEF IInv, Facts
<1>2. /\ CodeOK(code) /\ stack[t] \in Seq(Frames) /\ out[t] \in Seq(Entries)
      /\ ThreadOK(code, "run", started, inside, t, stack[t], out[t])
      /\ real # NULL
  BY <1>1 DEF Facts, PhaseOK
<1>3. /\ Head(stack[t]) = stack[t][1] /\ stack[t][1] \in Frames /\ Place(code, stack[t][1])
      /\ t \in started
  BY <1>2, AtIs
<1>4. InstAt(code, stack[t][1]) \in Insts
      /\ InstAt(code, stack[t][1]).op \in {"call", "invoke", "ret", "br", "other"}
  BY <1>2, <1>3, PlaceIs
<1>5. Inst(t) = InstAt(code, stack[t][1])
  BY <1>3 DEF Inst, InstAt
<1>6. t \in inside => AtMalloc(code, stack[t][1])
  BY <1>2 DEF ThreadOK
<1> QED BY <1>1, <1>2, <1>3, <1>4, <1>5, <1>6

LEMMA StackAfter ==
  ASSUME NEW t, NEW f, SetTop(t, f) PROVE stack' = SetStack(stack, t, Over(f, stack[t]))
BY DEF SetTop, SetStack, Over

LEMMA MovesOn ==
  ASSUME IInv, NEW t \in Threads, Running(t), NEW f \in Frames, Place(code, f),
         f.fn = Head(stack[t]).fn, ~ AtHook(code, f), ~ AtEnd(code, f),
         ~ AtHook(code, Head(stack[t])), ~ AtEnd(code, Head(stack[t])), t \notin inside,
         SetTop(t, f), UNCHANGED <<code, phase, real, shadow, ctor, started, inside, out>>
  PROVE  IInv'
<1>1. phase = "run" /\ stack[t] # <<>>
  BY DEF Running
<1>2. /\ Facts(code, "run", real, shadow, started, stack, inside, out)
      /\ CodeOK(code) /\ stack[t] \in Seq(Frames)
      /\ ThreadOK(code, "run", started, inside, t, stack[t], out[t])
      /\ Head(stack[t]) = stack[t][1]
  BY <1>1, StepIs
<1>3. /\ ThreadOK(code, "run", started, inside, t, Over(f, stack[t]), out[t])
      /\ Over(f, stack[t]) \in Seq(Frames)
  BY <1>1, <1>2, MoveKeeps
<1>4. Facts(code, "run", real, shadow, started, SetStack(stack, t, Over(f, stack[t])), inside, out)
  BY <1>2, <1>3, OneMoves
<1>5. stack' = SetStack(stack, t, Over(f, stack[t]))
  BY StackAfter
<1> QED BY <1>1, <1>4, <1>5 DEF IInv, Facts

LEMMA ReportsOn ==
  ASSUME IInv, NEW t \in Threads, phase = "run", stack[t] # <<>>,
         NEW f \in Frames, Place(code, f), f.fn = Head(stack[t]).fn,
         ~ AtEnd(code, Head(stack[t])), NEW what, NEW value,
         [what |-> what, value |-> value] \in Entries,
         AtHook(code, Head(stack[t])) <=> what = "reported",
         AtHook(code, Head(stack[t])) => value = Head(stack[t]).value,
         AtHook(code, f) <=> what = "hooked", AtHook(code, f) => value = f.value,
         AtEnd(code, f) <=> what = "end",
         SetTop(t, f), Report(t, what, value), inside' = inside \ {t},
         UNCHANGED <<code, phase, real, shadow, ctor, started>>
  PROVE  IInv'
<1> DEFINE e == [what |-> what, value |-> value]
<1>1. /\ Facts(code, "run", real, shadow, started, stack, inside, out)
      /\ CodeOK(code) /\ stack[t] \in Seq(Frames) /\ out[t] \in Seq(Entries)
      /\ ThreadOK(code, "run", started, inside, t, stack[t], out[t])
      /\ Head(stack[t]) = stack[t][1]
  BY StepIs
<1>2. e.what = what /\ e.value = value /\ e \in Entries
  OBVIOUS
<1>3. out' = AddReport(out, t, e)
  BY DEF Report, AddReport
<1>4. t \notin inside' /\ \A u \in Threads : u # t => (u \in inside' => u \in inside)
  OBVIOUS
<1> HIDE DEF e
<1>5. /\ ThreadOK(code, "run", started, inside', t, Over(f, stack[t]), Append(out[t], e))
      /\ Over(f, stack[t]) \in Seq(Frames) /\ Append(out[t], e) \in Seq(Entries)
  <2>1. /\ stack[t] # <<>> /\ f.fn = stack[t][1].fn /\ ~ AtEnd(code, stack[t][1])
        /\ AtHook(code, stack[t][1]) <=> e.what = "reported"
        /\ AtHook(code, stack[t][1]) => e.value = stack[t][1].value
    BY <1>1, <1>2
  <2>2. /\ AtHook(code, f) <=> e.what = "hooked"
        /\ AtHook(code, f) => e.value = f.value
        /\ AtEnd(code, f) <=> e.what = "end"
    BY <1>2
  <2> QED BY <1>1, <1>2, <1>4, <2>1, <2>2, ReportKeeps
<1>6. Facts(code, "run", real, shadow, started, SetStack(stack, t, Over(f, stack[t])),
            inside', AddReport(out, t, e))
  BY <1>1, <1>4, <1>5, OneMoves
<1>7. stack' = SetStack(stack, t, Over(f, stack[t]))
  BY StackAfter
<1> QED BY <1>3, <1>6, <1>7 DEF IInv, Facts

LEMMA CallRealKeeps == ASSUME IInv, NEW t \in Threads, CallReal(t) PROVE IInv'
<1>1. phase = "run" /\ stack[t] # <<>>
  BY DEF CallReal, Running
<1>2. /\ Facts(code, "run", real, shadow, started, stack, inside, out)
      /\ ThreadOK(code, "run", started, inside, t, stack[t], out[t])
      /\ Head(stack[t]) = stack[t][1] /\ Inst(t) = InstAt(code, stack[t][1]) /\ real # NULL
  BY <1>1, StepIs
<1>3. /\ inside' = inside \cup {t}
      /\ UNCHANGED <<code, phase, real, shadow, ctor, started, stack, out>>
  BY <1>2 DEF CallReal
<1>4. AtMalloc(code, stack[t][1])
  BY <1>2 DEF CallReal, AtMalloc
<1>5. ThreadOK(code, "run", started, inside', t, stack[t], out[t])
  BY <1>1, <1>2, <1>4 DEF ThreadOK
<1>6. ASSUME NEW u \in Threads, u # t
      PROVE  ThreadOK(code, "run", started, inside', u, stack[u], out[u])
  <2>1. ThreadOK(code, "run", started, inside, u, stack[u], out[u]) /\ (u \in inside' => u \in inside)
    BY <1>2, <1>3, <1>6 DEF Facts
  <2> QED BY <2>1, OthersKeep
<1>7. \A u \in Threads : ThreadOK(code, "run", started, inside', u, stack[u], out[u])
  BY <1>5, <1>6
<1> QED BY <1>1, <1>2, <1>3, <1>7 DEF IInv, Facts

LEMMA MallocKeeps == ASSUME IInv, NEW t \in Threads, testsan_Malloc(t) PROVE IInv'
<1>1. phase = "run" /\ t \in inside
  BY DEF testsan_Malloc
<1>2. stack[t] # <<>>
  BY <1>1 DEF IInv, ThreadOK
<1> DEFINE h == Head(stack[t])
<1>3. /\ CodeOK(code) /\ h \in Frames /\ Place(code, h) /\ Inst(t) = InstAt(code, h)
      /\ AtMalloc(code, h)
  BY <1>1, <1>2, StepIs
<1>4. PICK g \in Resume(h) : SetTop(t, WithValue(g, ReturnValue))
  BY DEF testsan_Malloc, WithValue
<1> DEFINE f == WithValue(g, ReturnValue)
           what == IF Inst(t).op = "call" THEN "hooked" ELSE "hookedInvoke"
<1>5. /\ Report(t, what, ReturnValue) /\ inside' = inside \ {t}
      /\ UNCHANGED <<code, phase, real, shadow, ctor, started>>
  BY DEF testsan_Malloc
<1>6. /\ ~ AtEnd(code, h) /\ ~ AtHook(code, h)
      /\ Calls(InstAt(code, h), "malloc") <=> Inst(t).op = "call"
      /\ ~ Calls(InstAt(code, h), "testsan_EndOfMain")
  BY <1>3 DEF AtMalloc, AtEnd, AtHook, Calls
<1>7. /\ g \in Frames /\ g.fn = h.fn /\ Place(code, g) /\ ~ AtEnd(code, g)
      /\ AtHook(code, g) <=> Inst(t).op = "call"
  <2>1. CASE Inst(t).op = "call"
    <3>1. g = NextInst(h) /\ InstAt(code, h).op \notin Terminators
      BY <1>3, <1>4, <2>1 DEF Resume, InstAt, Terminators
    <3> HIDE DEF h
    <3> QED BY <1>3, <1>6, <2>1, <3>1, Behind
  <2>2. CASE Inst(t).op # "call"
    <3>1. g \in Later(h)
      BY <1>3, <1>4, <2>2 DEF Resume, InstAt, Later
    <3> HIDE DEF h
    <3> QED BY <1>3, <2>2, <3>1, JumpIs
  <2> QED BY <2>1, <2>2
<1>8. /\ f \in Frames /\ f.fn = h.fn /\ f.value = ReturnValue /\ Place(code, f) /\ ~ AtEnd(code, f)
      /\ AtHook(code, f) <=> Inst(t).op = "call"
  BY <1>7, WithValueIs
<1>9. [what |-> what, value |-> ReturnValue] \in Entries
  BY DEF Entries
<1>10. what # "reported" /\ what # "end" /\ (what = "hooked" <=> Inst(t).op = "call")
  OBVIOUS
<1> HIDE DEF what, f
<1> QED BY <1>1, <1>2, <1>4, <1>5, <1>6, <1>8, <1>9, <1>10, ReportsOn DEF f

\* What the instruction a thread is at says of its place
LEMMA AtCallIs ==
  ASSUME IInv, NEW t \in Threads, NEW callee, AtCall(t, callee), callee # "malloc"
  PROVE  LET h == Head(stack[t])
         IN  /\ phase = "run" /\ stack[t] # <<>> /\ CodeOK(code) /\ h \in Frames /\ Place(code, h)
             /\ NextInst(h) \in Frames /\ Place(code, NextInst(h))
             /\ NextInst(h).fn = h.fn /\ ~ AtHook(code, NextInst(h))
             /\ AtEnd(code, NextInst(h)) <=> callee = "testsan_EndOfMain"
             /\ AtHook(code, h) <=> callee = "testsan_AfterMalloc"
             /\ ~ AtEnd(code, h) /\ t \notin inside
<1> DEFINE h == Head(stack[t])
<1>1. phase = "run" /\ stack[t] # <<>> /\ Inst(t).op = "call" /\ Inst(t).callee = callee
  BY DEF AtCall, Running
<1>2. /\ CodeOK(code) /\ h \in Frames /\ Place(code, h) /\ Inst(t) = InstAt(code, h)
      /\ t \in inside => AtMalloc(code, h)
  BY <1>1, StepIs
<1>3. /\ t \notin inside /\ ~ AtEnd(code, h)
      /\ AtHook(code, h) <=> callee = "testsan_AfterMalloc"
      /\ ~ Calls(InstAt(code, h), "malloc")
      /\ Calls(InstAt(code, h), "testsan_EndOfMain") <=> callee = "testsan_EndOfMain"
  BY <1>1, <1>2 DEF AtMalloc, AtEnd, AtHook, Calls
<1>4. InstAt(code, h).op \notin Terminators
  BY <1>1, <1>2 DEF Terminators
<1> HIDE DEF h
<1>5. /\ NextInst(h) \in Frames /\ Place(code, NextInst(h))
      /\ NextInst(h).fn = h.fn
      /\ AtHook(code, NextInst(h)) <=> Calls(InstAt(code, h), "malloc")
      /\ AtEnd(code, NextInst(h)) <=> Calls(InstAt(code, h), "testsan_EndOfMain")
  BY <1>2, <1>4, Behind
<1> QED BY <1>1, <1>2, <1>3, <1>5 DEF h

LEMMA HelloKeeps == ASSUME IInv, NEW t \in Threads, testsan_HelloFunction(t) PROVE IInv'
<1>1. AtCall(t, "testsan_HelloFunction")
  BY DEF testsan_HelloFunction
<1> QED BY <1>1, AtCallIs, MovesOn DEF testsan_HelloFunction, AtCall

LEMMA AfterMallocKeeps == ASSUME IInv, NEW t \in Threads, testsan_AfterMalloc(t) PROVE IInv'
<1> DEFINE h == Head(stack[t])
<1>1. AtCall(t, "testsan_AfterMalloc")
  BY DEF testsan_AfterMalloc
<1>2. /\ phase = "run" /\ stack[t] # <<>> /\ h \in Frames
      /\ NextInst(h) \in Frames /\ Place(code, NextInst(h))
      /\ NextInst(h).fn = h.fn /\ ~ AtHook(code, NextInst(h)) /\ ~ AtEnd(code, NextInst(h))
      /\ AtHook(code, h) /\ ~ AtEnd(code, h) /\ t \notin inside
  BY <1>1, AtCallIs
<1>3. [what |-> "reported", value |-> h.value] \in Entries
  <2>1. h.value \in {NULL, ReturnValue}
    BY <1>2 DEF Frames
  <2> QED BY <2>1 DEF Entries
<1>4. /\ SetTop(t, NextInst(h)) /\ Report(t, "reported", h.value)
      /\ inside' = inside \ {t} /\ UNCHANGED <<code, phase, real, shadow, ctor, started>>
  BY <1>2 DEF testsan_AfterMalloc
<1> QED BY <1>2, <1>3, <1>4, ReportsOn

LEMMA EndOfMainKeeps == ASSUME IInv, NEW t \in Threads, testsan_EndOfMain(t) PROVE IInv'
<1> DEFINE h == Head(stack[t])
<1>1. AtCall(t, "testsan_EndOfMain")
  BY DEF testsan_EndOfMain
<1>2. /\ phase = "run" /\ stack[t] # <<>> /\ h \in Frames
      /\ NextInst(h) \in Frames /\ Place(code, NextInst(h))
      /\ NextInst(h).fn = h.fn /\ ~ AtHook(code, NextInst(h)) /\ AtEnd(code, NextInst(h))
      /\ ~ AtHook(code, h) /\ ~ AtEnd(code, h) /\ t \notin inside
  BY <1>1, AtCallIs
<1>3. [what |-> "end", value |-> "none"] \in Entries
  BY DEF Entries
<1>4. /\ SetTop(t, NextInst(h)) /\ Report(t, "end", "none")
      /\ inside' = inside \ {t} /\ UNCHANGED <<code, phase, real, shadow, ctor, started>>
  BY <1>2 DEF testsan_EndOfMain
<1> QED BY <1>2, <1>3, <1>4, ReportsOn

LEMMA ComputeKeeps == ASSUME IInv, NEW t \in Threads, Compute(t) PROVE IInv'
<1> DEFINE h == Head(stack[t])
<1>1. Running(t) /\ phase = "run" /\ stack[t] # <<>> /\ Inst(t).op = "other"
  BY DEF Compute, Running
<1>2. /\ CodeOK(code) /\ h \in Frames /\ Place(code, h) /\ Inst(t) = InstAt(code, h)
      /\ t \in inside => AtMalloc(code, h)
  BY <1>1, StepIs
<1>3. /\ t \notin inside /\ ~ AtEnd(code, h) /\ ~ AtHook(code, h)
      /\ ~ Calls(InstAt(code, h), "malloc") /\ ~ Calls(InstAt(code, h), "testsan_EndOfMain")
      /\ InstAt(code, h).op \notin Terminators
  BY <1>1, <1>2 DEF AtMalloc, AtEnd, AtHook, Calls, Terminators
<1>4. /\ NextInst(h) \in Frames /\ Place(code, NextInst(h)) /\ NextInst(h).fn = h.fn
      /\ ~ AtHook(code, NextInst(h)) /\ ~ AtEnd(code, NextInst(h))
  <2> HIDE DEF h
  <2> QED BY <1>2, <1>3, Behind
<1>5. /\ SetTop(t, NextInst(h))
      /\ UNCHANGED <<code, phase, real, shadow, ctor, started, inside, out>>
  BY DEF Compute
<1> QED BY <1>1, <1>3, <1>4, <1>5, MovesOn

LEMMA BranchKeeps == ASSUME IInv, NEW t \in Threads, Branch(t) PROVE IInv'
<1> DEFINE h == Head(stack[t])
<1>1. Running(t) /\ phase = "run" /\ stack[t] # <<>> /\ Inst(t).op = "br"
  BY DEF Branch, Running
<1>2. /\ CodeOK(code) /\ h \in Frames /\ Place(code, h) /\ Inst(t) = InstAt(code, h)
      /\ t \in inside => AtMalloc(code, h)
  BY <1>1, StepIs
<1>3. t \notin inside /\ ~ AtEnd(code, h) /\ ~ AtHook(code, h)
  BY <1>1, <1>2 DEF AtMalloc, AtEnd, AtHook, Calls
<1>4. PICK f \in Resume(h) : SetTop(t, f)
  BY DEF Branch
<1>5. /\ f \in Frames /\ f.fn = h.fn /\ Place(code, f)
      /\ ~ AtHook(code, f) /\ ~ AtEnd(code, f)
  <2>1. f \in Later(h)
    BY <1>1, <1>2, <1>4 DEF Resume, InstAt, Later
  <2> HIDE DEF h
  <2> QED BY <1>2, <2>1, JumpIs
<1>6. UNCHANGED <<code, phase, real, shadow, ctor, started, inside, out>>
  BY DEF Branch
<1> QED BY <1>1, <1>3, <1>4, <1>5, <1>6, MovesOn

LEMMA CallFunctionKeeps == ASSUME IInv, NEW t \in Threads, CallFunction(t) PROVE IInv'
<1> DEFINE h == Head(stack[t])
           fr == Pushed(Frame("foo"), NextInst(h), stack[t])
<1>1. AtCall(t, "foo")
  BY DEF CallFunction
<1>2. /\ phase = "run" /\ stack[t] # <<>> /\ CodeOK(code) /\ h \in Frames /\ Place(code, h)
      /\ NextInst(h) \in Frames /\ Place(code, NextInst(h))
      /\ NextInst(h).fn = h.fn /\ ~ AtHook(code, NextInst(h)) /\ ~ AtEnd(code, NextInst(h))
      /\ ~ AtHook(code, h) /\ ~ AtEnd(code, h) /\ t \notin inside
  BY <1>1, AtCallIs
<1>3. /\ Facts(code, "run", real, shadow, started, stack, inside, out)
      /\ stack[t] \in Seq(Frames)
      /\ ThreadOK(code, "run", started, inside, t, stack[t], out[t])
      /\ h = stack[t][1]
  BY <1>2, StepIs
<1>4. /\ Frame("foo") \in Frames /\ Frame("foo").fn = "foo" /\ Place(code, Frame("foo"))
      /\ ~ AtHook(code, Frame("foo")) /\ ~ AtEnd(code, Frame("foo"))
  BY <1>2, FrameIs DEF FunctionNames
<1>5. /\ StackOK(code, t, fr) /\ fr \in Seq(Frames) /\ fr # <<>> /\ fr[1] = Frame("foo")
  <2>1. StackOK(code, t, stack[t]) /\ NextInst(h).fn = stack[t][1].fn
    BY <1>2, <1>3 DEF ThreadOK
  <2> HIDE DEF h
  <2> QED BY <1>2, <1>3, <1>4, <2>1, PushedStack
<1>6. stack' = SetStack(stack, t, fr)
  BY DEF CallFunction, SetStack, Pushed
<1> HIDE DEF fr
<1>7. ThreadOK(code, "run", started, inside, t, fr, out[t])
  BY <1>2, <1>3, <1>4, <1>5 DEF ThreadOK, ReportsOK
<1>8. Facts(code, "run", real, shadow, started, SetStack(stack, t, fr), inside, out)
  BY <1>3, <1>5, <1>7, OneMoves
<1>9. UNCHANGED <<code, phase, real, shadow, started, inside, out>>
  BY DEF CallFunction
<1> QED BY <1>2, <1>6, <1>8, <1>9 DEF IInv, Facts

\* A thread that leaves main has reported the end, and only the main thread does
LEMMA ReturnKeeps == ASSUME IInv, NEW t \in Threads, Return(t) PROVE IInv'
<1> DEFINE h == stack[t][1]
           fr == Tail(stack[t])
           ends == t = Main /\ Len(stack[t]) = 1
<1>1. phase = "run" /\ stack[t] # <<>> /\ Inst(t).op = "ret"
  BY DEF Return, Running
<1>2. /\ Facts(code, "run", real, shadow, started, stack, inside, out)
      /\ CodeOK(code) /\ stack[t] \in Seq(Frames) /\ t \in started
      /\ ThreadOK(code, "run", started, inside, t, stack[t], out[t])
      /\ Inst(t) = InstAt(code, h)
      /\ t \in inside => AtMalloc(code, h)
  BY <1>1, StepIs
<1>3. t \notin inside /\ ~ AtHook(code, h) /\ InstAt(code, h).op = "ret"
  BY <1>1, <1>2 DEF AtMalloc, AtHook, Calls
<1>4. /\ StackOK(code, t, fr) /\ fr \in Seq(Frames)
      /\ fr # <<>> => ~ AtHook(code, fr[1]) /\ ~ AtEnd(code, fr[1])
      /\ fr = <<>> <=> Len(stack[t]) = 1
  <2>1. StackOK(code, t, stack[t])
    BY <1>2 DEF ThreadOK
  <2> QED BY <1>1, <1>2, <2>1, PoppedStack
<1>5. AtEnd(code, h) <=> ends
  <2>1. 1 \in 1 .. Len(stack[t])
    BY <1>1, <1>2, OverIs
  <2>2. h.fn = "main" <=> t = Main /\ 1 = Len(stack[t])
    BY <1>2, <2>1 DEF ThreadOK, StackOK
  <2> QED BY <1>3, <2>2 DEF AtEnd
<1>6. LastIs(out[t], "end") <=> ends
  BY <1>1, <1>2, <1>5 DEF ThreadOK, ReportsOK
<1>7. ~ LastIs(out[t], "hooked") /\ LogOK(out[t])
  BY <1>2, <1>3 DEF ThreadOK, ReportsOK
<1>8. /\ stack' = SetStack(stack, t, fr)
      /\ phase' = IF ends THEN "exited" ELSE "run"
      /\ UNCHANGED <<code, real, shadow, started, inside, out>>
  BY <1>1 DEF Return, SetStack
<1> HIDE DEF fr, ends
<1>9. ThreadOK(code, phase', started, inside, t, fr, out[t])
  <2>1. ends => t = Main /\ fr = <<>> /\ phase' = "exited"
    BY <1>4, <1>8 DEF ends
  <2>2. ~ ends => phase' = "run" /\ ~ LastIs(out[t], "end")
    BY <1>6, <1>8
  <2>3. ReportsOK(code, phase', t, fr, out[t])
    BY <1>4, <1>6, <1>7, <2>1, <2>2 DEF ReportsOK
  <2>4. t = Main /\ phase' = "exited" => LastIs(out[t], "end")
    BY <1>6, <2>2
  <2> QED BY <1>2, <1>3, <1>4, <1>7, <2>3, <2>4 DEF ThreadOK
<1>10. ASSUME NEW u \in Threads, u # t
       PROVE  ThreadOK(code, phase', started, inside, u, stack[u], out[u])
  <2>1. ThreadOK(code, "run", started, inside, u, stack[u], out[u])
    BY <1>2 DEF Facts
  <2>2. u = Main => phase' = "run"
    BY <1>8, <1>10 DEF ends
  <2> QED BY <2>1, <2>2, OthersKeep
<1>11. /\ stack' \in [Threads -> Seq(Frames)] /\ stack'[t] = fr
       /\ \A u \in Threads : u # t => stack'[u] = stack[u]
  BY <1>2, <1>4, <1>8 DEF Facts, SetStack
<1>12. \A u \in Threads : ThreadOK(code, phase', started, inside, u, stack'[u], out[u])
  BY <1>9, <1>10, <1>11
<1>13. PhaseOK(phase', real, shadow, started)
  BY <1>2, <1>8 DEF Facts, PhaseOK
<1> QED BY <1>2, <1>8, <1>11, <1>12, <1>13 DEF IInv, Facts

LEMMA StartKeeps == ASSUME IInv, NEW t \in Threads, StartThread(t) PROVE IInv'
<1> DEFINE n == IF t = Main THEN "main" ELSE "foo"
           fr == <<Frame(n)>>
<1>1. /\ phase = "run" /\ t \notin started /\ started' = started \cup {t}
      /\ stack' = SetStack(stack, t, fr)
      /\ UNCHANGED <<code, phase, real, shadow, inside, out>>
  BY DEF StartThread, SetStack
<1>2. /\ Facts(code, "run", real, shadow, started, stack, inside, out) /\ CodeOK(code)
      /\ ThreadOK(code, "run", started, inside, t, stack[t], out[t])
      /\ out[t] \in Seq(Entries)
  BY <1>1 DEF IInv, Facts
<1>3. stack[t] = <<>> /\ OnlyLibrary(out[t]) /\ t \notin inside /\ LogOK(out[t])
  BY <1>1, <1>2 DEF ThreadOK
<1>4. ~ LastIs(out[t], "hooked") /\ ~ LastIs(out[t], "end")
  <2>1. out[t] # <<>> => Len(out[t]) \in 1 .. Len(out[t])
    BY <1>2, EmptySeq
  <2> QED BY <1>3, <2>1 DEF LastIs, OnlyLibrary
<1>5. n \in FunctionNames /\ (n = "main" <=> t = Main)
  BY DEF FunctionNames
<1> HIDE DEF n
<1>6. /\ Frame(n) \in Frames /\ Frame(n).fn = n /\ Place(code, Frame(n))
      /\ ~ AtHook(code, Frame(n)) /\ ~ AtEnd(code, Frame(n))
  BY <1>2, <1>5, FrameIs
<1>7. fr \in Seq(Frames) /\ fr # <<>> /\ fr[1] = Frame(n) /\ Len(fr) = 1
  BY <1>6
<1> HIDE DEF fr
<1>8. StackOK(code, t, fr)
  <2>1. \A k \in 1 .. Len(fr) : k = 1
    BY <1>7
  <2>2. \A k \in 2 .. Len(fr) : FALSE
    BY <1>7
  <2> QED BY <1>5, <1>6, <1>7, <2>1, <2>2 DEF StackOK
<1>9. ThreadOK(code, "run", started', inside, t, fr, out[t])
  BY <1>1, <1>3, <1>4, <1>6, <1>7, <1>8 DEF ThreadOK, ReportsOK
<1>10. ASSUME NEW u \in Threads, u # t
       PROVE  ThreadOK(code, "run", started', inside, u, stack[u], out[u])
  <2>1. ThreadOK(code, "run", started, inside, u, stack[u], out[u]) /\ (u \in started => u \in started')
    BY <1>1, <1>2 DEF Facts
  <2> QED BY <2>1, OthersKeep
<1>11. /\ stack' \in [Threads -> Seq(Frames)] /\ stack'[t] = fr
       /\ \A u \in Threads : u # t => stack'[u] = stack[u]
  BY <1>1, <1>2, <1>7 DEF Facts, SetStack
<1>12. \A u \in Threads : ThreadOK(code, "run", started', inside, u, stack'[u], out[u])
  BY <1>9, <1>10, <1>11
<1>13. PhaseOK("run", real, shadow, started')
  BY <1>2 DEF Facts, PhaseOK
<1> QED BY <1>1, <1>2, <1>11, <1>12, <1>13 DEF IInv, Facts

\* Before the program runs
LEMMA PhaseMoves ==
  ASSUME IInv, phase \in {"preinit", "ctors"}, phase' # "exited",
         PhaseOK(phase', real', shadow', started),
         UNCHANGED <<code, started, stack, inside, out>>
  PROVE  IInv'
<1>1. ASSUME NEW t \in Threads
      PROVE  ThreadOK(code, phase', started, inside, t, stack[t], out[t])
  <2>1. ThreadOK(code, phase, started, inside, t, stack[t], out[t])
    BY DEF IInv
  <2> QED BY <2>1, OthersKeep
<1> QED BY <1>1 DEF IInv

LEMMA InterceptorsKeep == ASSUME IInv, testsan_InitInterceptors PROVE IInv'
<1>1. PhaseOK(phase', real', shadow', started)
  BY DEF IInv, PhaseOK, testsan_InitInterceptors
<1> QED BY <1>1, PhaseMoves DEF testsan_InitInterceptors

LEMMA ShadowKeeps == ASSUME IInv, testsan_AllocateShadowMemory PROVE IInv'
<1>1. /\ phase = "preinit" /\ real # NULL /\ real' = real
      /\ \/ shadow' = TRUE /\ phase' = IF Preinit THEN "ctors" ELSE "run"
         \/ phase' = "died"
      /\ UNCHANGED <<code, started, stack, inside, out>>
  BY DEF testsan_AllocateShadowMemory
<1>2. started = {}
  BY <1>1 DEF IInv, PhaseOK
<1>3. PhaseOK(phase', real', shadow', started) /\ phase' # "exited"
  BY <1>1, <1>2, RuntimeAssumption DEF PhaseOK
<1> QED BY <1>1, <1>3, PhaseMoves

LEMMA CtorsDoneKeeps == ASSUME IInv, CtorsDone PROVE IInv'
<1>1. /\ phase = "ctors" /\ phase' = IF Preinit THEN "run" ELSE "preinit"
      /\ real' = real /\ shadow' = shadow
      /\ UNCHANGED <<code, started, stack, inside, out>>
  BY DEF CtorsDone
<1>2. started = {} /\ (Preinit => real # NULL /\ shadow)
  BY <1>1, RuntimeAssumption DEF IInv, PhaseOK
<1>3. PhaseOK(phase', real', shadow', started) /\ phase' # "exited"
  BY <1>1, <1>2, RuntimeAssumption DEF PhaseOK
<1> QED BY <1>1, <1>3, PhaseMoves

LEMMA CtorMallocKeeps == ASSUME IInv, CtorMalloc PROVE IInv'
<1>1. phase = "ctors" /\ UNCHANGED <<code, real, shadow, started, stack, inside>>
  BY DEF CtorMalloc
<1>2. started = {} /\ (Preinit => real # NULL /\ shadow)
  BY <1>1, RuntimeAssumption DEF IInv, PhaseOK
<1>3. CASE real = NULL
  <2>1. phase' = "crashed" /\ out' = out
    BY <1>3 DEF CtorMalloc
  <2>2. PhaseOK(phase', real', shadow', started)
    BY <1>1, <1>2, <1>3, <2>1, RuntimeAssumption DEF PhaseOK
  <2> QED BY <1>1, <2>1, <2>2, PhaseMoves
<1>4. CASE real # NULL
  <2> DEFINE e == [what |-> "hookedLibrary", value |-> ReturnValue]
             log == out[Main]
             w == Append(log, e)
  <2>1. phase' = phase /\ out' = AddReport(out, Main, e)
    BY <1>4 DEF CtorMalloc, Report, AddReport
  <2>2. Main \in Threads
    BY DEF Threads
  <2>3. /\ log \in Seq(Entries) /\ stack[Main] = <<>> /\ OnlyLibrary(log) /\ LogOK(log)
        /\ Main \notin inside
    BY <1>2, <2>2 DEF IInv, ThreadOK
  <2>4. ~ LastIs(log, "hooked") /\ ~ LastIs(log, "end")
    <3>1. log # <<>> => Len(log) \in 1 .. Len(log)
      BY <2>3, EmptySeq
    <3> QED BY <2>3, <3>1 DEF LastIs, OnlyLibrary
  <2>5. e \in Entries /\ e.what = "hookedLibrary"
    BY DEF Entries
  <2> HIDE DEF e, log
  <2>6. /\ w \in Seq(Entries) /\ LogOK(w)
        /\ \A x : LastIs(w, x) <=> e.what = x
    BY <2>3, <2>4, <2>5, AppendLog
  <2>7. OnlyLibrary(w)
    <3>1. /\ Len(w) = Len(log) + 1 /\ Len(log) \in Nat /\ w[Len(log) + 1] = e
          /\ \A k \in 1 .. Len(log) : w[k] = log[k]
      BY <2>3, <2>5
    <3>2. ASSUME NEW k \in 1 .. Len(w) PROVE w[k].what = "hookedLibrary"
      <4>1. k \in 1 .. Len(log) \/ k = Len(log) + 1
        BY <3>1
      <4> QED BY <2>3, <2>5, <3>1, <4>1 DEF OnlyLibrary
    <3> QED BY <3>2 DEF OnlyLibrary
  <2> HIDE DEF w
  <2>8. ThreadOK(code, phase, started, inside, Main, stack[Main], w)
    <3>1. StackOK(code, Main, stack[Main])
      BY <2>2 DEF IInv, ThreadOK
    <3>2. ReportsOK(code, phase, Main, stack[Main], w)
      BY <2>3, <2>5, <2>6 DEF ReportsOK
    <3> QED BY <1>1, <2>3, <2>6, <2>7, <3>1, <3>2 DEF ThreadOK
  <2>9. /\ out' \in [Threads -> Seq(Entries)] /\ out'[Main] = w
        /\ \A u \in Threads : u # Main => out'[u] = out[u]
    BY <2>1, <2>2, <2>6 DEF IInv, AddReport, w, log
  <2>10. \A u \in Threads : ThreadOK(code, phase, started, inside, u, stack[u], out'[u])
    BY <2>8, <2>9 DEF IInv
  <2> QED BY <1>1, <2>1, <2>9, <2>10 DEF IInv
<1> QED BY <1>3, <1>4

LEMMA InitIInv == Init => IInv
<1> SUFFICES ASSUME Init PROVE IInv
  OBVIOUS
<1>1. CodeOK(code)
  <2>1. PICK m \in Modules : code = [n \in {"main", "foo"} |-> Instrument(m[Named(m, n)])]
    BY DEF Init
  <2> QED BY <2>1, CodeIs DEF FunctionNames
<1>2. PhaseOK(phase, real, shadow, started)
  <2>1. phase = (IF Preinit THEN "preinit" ELSE "ctors") /\ started = {}
    BY DEF Init, FirstPhase
  <2> QED BY <2>1, RuntimeAssumption DEF PhaseOK
<1>3. <<>> \in Seq(Frames) /\ <<>> \in Seq(Entries) /\ Len(<<>>) = 0
  BY EmptySeq
<1>4. /\ stack \in [Threads -> Seq(Frames)] /\ out \in [Threads -> Seq(Entries)]
      /\ \A t \in Threads : stack[t] = <<>> /\ out[t] = <<>>
      /\ started = {} /\ inside = {} /\ phase \in {"preinit", "ctors"}
  BY <1>3, RuntimeAssumption DEF Init, FirstPhase
<1>5. ASSUME NEW t \in Threads PROVE ThreadOK(code, phase, started, inside, t, <<>>, <<>>)
  <2>1. \A k \in 1 .. Len(<<>>) : FALSE
    BY <1>3
  <2>2. \A k \in 2 .. Len(<<>>) : FALSE
    BY <1>3
  <2>3. StackOK(code, t, <<>>)
    BY <2>1, <2>2 DEF StackOK
  <2>4. LogOK(<<>>) /\ OnlyLibrary(<<>>)
    BY <2>1 DEF LogOK, OnlyLibrary
  <2>5. ReportsOK(code, phase, t, <<>>, <<>>)
    BY DEF ReportsOK, LastIs
  <2> QED BY <1>4, <2>3, <2>4, <2>5 DEF ThreadOK
<1> QED BY <1>1, <1>2, <1>4, <1>5 DEF IInv

LEMMA NextKeeps == IInv /\ [Next]_vars => IInv'
<1> SUFFICES ASSUME IInv, [Next]_vars PROVE IInv'
  OBVIOUS
<1>1. CASE UNCHANGED vars
  BY <1>1 DEF vars, IInv
<1>2. CASE testsan_InitInterceptors
  BY <1>2, InterceptorsKeep
<1>3. CASE testsan_AllocateShadowMemory
  BY <1>3, ShadowKeeps
<1>4. CASE CtorMalloc
  BY <1>4, CtorMallocKeeps
<1>5. CASE CtorsDone
  BY <1>5, CtorsDoneKeeps
<1>6. ASSUME NEW t \in Threads, StartThread(t) \/ Step(t) PROVE IInv'
  BY <1>6, StartKeeps, CallRealKeeps, MallocKeeps, HelloKeeps, AfterMallocKeeps,
     EndOfMainKeeps, CallFunctionKeeps, ComputeKeeps, BranchKeeps, ReturnKeeps DEF Step
<1> QED BY <1>1, <1>2, <1>3, <1>4, <1>5, <1>6 DEF Next

LEMMA Inductive == Spec => []IInv
BY InitIInv, NextKeeps, PTL DEF Spec
-----------------------------------------------------------------------------
\* Where testsan_Init is run from .preinit_array, no malloc of a library's
\* constructor or of the program meets an interceptor without libc's malloc
\* behind it, and the shadow is there before code of the program runs
THEOREM RuntimeIsReady == ASSUME Preinit PROVE Spec => []ReadyBeforeUse
<1>1. IInv => ReadyBeforeUse
  BY RuntimeAssumption DEF IInv, PhaseOK, ReadyBeforeUse
<1> QED BY <1>1, Inductive, PTL

\* In every program and every interleaving, each malloc by a call is hooked
\* and then reported, with its value, before anything else of that thread;
\* nothing else is reported
THEOREM MallocsAreReported == Spec => []EachMallocReported
<1>1. ASSUME IInv PROVE EachMallocReported
  <2> SUFFICES ASSUME NEW t \in Threads, NEW k \in DOMAIN out[t]
               PROVE  LET log == out[t]
                          reports(j) == j + 1 \in DOMAIN log /\ log[j + 1].what = "reported"
                      IN  /\ log[k].what = "hooked" =>
                               \/ reports(k) /\ log[k + 1].value = log[k].value
                               \/ k = Len(log) /\ Running(t) /\ AtCall(t, "testsan_AfterMalloc")
                               \/ k = Len(log) /\ phase # "run"
                          /\ log[k].what # "hooked" => ~ reports(k)
                          /\ log[1].what # "reported"
    BY DEF EachMallocReported
  <2> DEFINE log == out[t]
             fr == stack[t]
  <2>1. /\ log \in Seq(Entries) /\ fr \in Seq(Frames) /\ LogOK(log)
        /\ ReportsOK(code, phase, t, fr, log) /\ CodeOK(code)
    BY <1>1 DEF IInv, ThreadOK
  <2>2. DOMAIN log = 1 .. Len(log) /\ Len(log) \in Nat /\ k \in 1 .. Len(log)
    BY <2>1
  <2>3. k < Len(log) \/ k = Len(log)
    BY <2>2
  <2>4. k < Len(log) => k + 1 \in DOMAIN log
    BY <2>2
  <2>5. ASSUME log[k].what = "hooked", k < Len(log)
        PROVE  log[k + 1].what = "reported" /\ log[k + 1].value = log[k].value
    BY <2>1, <2>2, <2>5 DEF LogOK
  <2>6. ASSUME log[k].what = "hooked", k = Len(log), phase = "run"
        PROVE  Running(t) /\ AtCall(t, "testsan_AfterMalloc")
    <3>1. fr # <<>> /\ AtHook(code, fr[1])
      BY <2>1, <2>2, <2>6 DEF ReportsOK, LastIs
    <3>2. Head(fr) = fr[1]
      BY <2>1, <3>1
    <3>3. Inst(t) = InstAt(code, fr[1])
      BY <3>2 DEF Inst, InstAt
    <3> QED BY <2>6, <3>1, <3>3 DEF Running, AtCall, AtHook, Calls
  <2>7. ASSUME k + 1 \in DOMAIN log, log[k + 1].what = "reported" PROVE log[k].what = "hooked"
    <3>1. k + 1 \in 1 .. Len(log) /\ (k + 1) - 1 = k
      BY <2>2, <2>7
    <3>2. log[(k + 1) - 1].what = "hooked"
      BY <2>1, <2>7, <3>1 DEF LogOK
    <3> QED BY <3>1, <3>2
  <2>8. log[1].what # "reported"
    <3>1. 1 \in 1 .. Len(log)
      BY <2>2
    <3> QED BY <2>1, <3>1 DEF LogOK
  <2> HIDE DEF log
  <2>9. log[k].what = "hooked" =>
          \/ k + 1 \in DOMAIN log /\ log[k + 1].what = "reported" /\ log[k + 1].value = log[k].value
          \/ k = Len(log) /\ Running(t) /\ AtCall(t, "testsan_AfterMalloc")
          \/ k = Len(log) /\ phase # "run"
    BY <2>3, <2>4, <2>5, <2>6
  <2> QED BY <2>7, <2>8, <2>9 DEF log
<1> QED BY <1>1, Inductive, PTL

\* The process leaves through main only after the hook of its end, which is
\* run once, by the main thread, as the last thing that is reported for it
THEOREM EndIsReported == Spec => []EndOfMainReported
<1>1. ASSUME IInv PROVE EndOfMainReported
  <2>1. Main \in Threads /\ Workers \subseteq Threads /\ Main \notin Workers
    BY RuntimeAssumption DEF Threads
  <2>2. ASSUME NEW t \in Threads, NEW k \in DOMAIN out[t], out[t][k].what = "end"
        PROVE  k = Len(out[t]) /\ t = Main
    <3>1. /\ out[t] \in Seq(Entries) /\ LogOK(out[t])
          /\ ReportsOK(code, phase, t, stack[t], out[t])
      BY <1>1 DEF IInv, ThreadOK
    <3>2. k \in 1 .. Len(out[t])
      BY <3>1
    <3>3. k = Len(out[t])
      BY <2>2, <3>1, <3>2 DEF LogOK
    <3>4. out[t] # <<>>
      BY <3>1, <3>2, EmptySeq
    <3>5. LastIs(out[t], "end")
      BY <2>2, <3>3, <3>4 DEF LastIs
    <3> QED BY <3>1, <3>3, <3>5 DEF ReportsOK
  <2>3. ASSUME phase = "exited"
        PROVE  Len(out[Main]) \in DOMAIN out[Main] /\ out[Main][Len(out[Main])].what = "end"
    <3>1. out[Main] \in Seq(Entries) /\ LastIs(out[Main], "end")
      BY <1>1, <2>1, <2>3 DEF IInv, ThreadOK
    <3>2. out[Main] # <<>> /\ Len(out[Main]) \in Nat
      BY <3>1 DEF LastIs
    <3>3. Len(out[Main]) \in DOMAIN out[Main]
      BY <3>1, <3>2, EmptySeq
    <3> QED BY <3>1, <3>3 DEF LastIs
  <2> QED BY <2>1, <2>2, <2>3 DEF EndOfMainReported
<1> QED BY <1>1, Inductive, PTL
=============================================================================
