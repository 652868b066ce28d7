------------------------- MODULE AddrHashMap_proofs -------------------------
(* The bucket of AddrHashMap for any set of threads and addresses, any number *)
(* of embedded cells and any first array.                                    *)
EXTENDS AddrHashMap, SequenceTheorems, TLAPS

Addresses == Addrs \cup {NoAddr}
Cell == [addr : Addresses, val : Addresses]
Pointer == {NoCell} \cup [in : {"embed"}, i : 1 .. kBucketSize]
                    \cup [in : {"add"}, i : Nat, gen : Nat]

Searching == {"scan", "add", "readlock", "readunlock", "relock"}
Asking == Searching \cup {"lock", "locked"}
Moving == {"moveval", "moveaddr", "clear"}

Handle == [pc : Asking \cup Moving \cup {"idle", "held", "unlock"},
           addr : Addresses, remove : BOOLEAN, create : BOOLEAN,
           i : 1 .. kBucketSize, cell : Pointer, created : BOOLEAN]

TypeInv ==
  /\ cells \in [1 .. kBucketSize -> Cell]
  /\ add \in [gen : Nat, size : Nat, cells : Seq(Cell)]
  /\ add.size <= Len(add.cells)
  /\ add.gen # 0 => Len(add.cells) # 0
  /\ h \in [Threads -> Handle]

\* How a thread stands with the lock is a matter of where it is
ModeOf(x) ==
  CASE x.pc = "readlock" -> "wantRead"
    [] x.pc = "lock" -> "wantWrite"
    [] x.pc = "readunlock" -> "reading"
    [] x.pc \in {"locked", "unlock"} \cup Moving -> "writing"
    [] x.pc = "held" -> (IF x.created \/ x.remove THEN "writing"
                         ELSE IF x.cell.in = "add" THEN "reading" ELSE "out")
    [] OTHER -> "out"

LockInv ==
  /\ mode = [t \in Threads |-> ModeOf(h[t])]
  /\ Mtx!Exclusion

\* What a handle says of itself
HandleOK(x) ==
  /\ x.pc = "idle" <=> x.addr = NoAddr
  /\ x.pc \in Searching \cup Moving => x.remove <=> x.pc \in Moving
  /\ x.pc \in Asking \cup Moving => ~ x.created
  /\ x.created => ~ x.remove

\* Clients that use an address at the same time agree on what they do
Agree(x, y) == x.addr = y.addr /\ x.pc # "idle" => x.remove = y.remove

HandleInv == \A t \in Threads : HandleOK(h[t]) /\ \A u \in Threads : Agree(h[t], h[u])

\* An address is in one cell, or in two while its element is moved, with its value
CellInv ==
  /\ \A i, j \in 1 .. kBucketSize : cells[i].addr = cells[j].addr => i = j \/ cells[i].addr = NoAddr
  /\ \A i, j \in 1 .. Len(add.cells) :
       add.cells[i].addr = add.cells[j].addr => i = j \/ add.cells[i].addr = NoAddr
  /\ \A i \in 1 .. kBucketSize, j \in 1 .. Len(add.cells) :
       cells[i].addr = add.cells[j].addr /\ cells[i].addr # NoAddr =>
         \E t \in Threads : At(t, "clear") /\ h[t].cell.i = i /\ j = add.size + 1
  /\ \A i \in 1 .. kBucketSize : cells[i].addr # NoAddr => cells[i].val = cells[i].addr
  /\ \A j \in 1 .. Len(add.cells) :
       add.cells[j].addr # NoAddr => add.cells[j].val = add.cells[j].addr

\* Past the end of the additional cells there is nothing but the one being moved
EndInv ==
  \A j \in 1 .. Len(add.cells) :
    j > add.size /\ add.cells[j].addr # NoAddr =>
      j = add.size + 1 /\ \E t \in Threads : h[t].pc \in {"moveaddr", "clear"}

\* The cell of a handle that holds one
HeldOK(x) ==
  x.pc = "held" =>
    /\ x.cell # NoCell
    /\ x.cell.in = "add" => x.cell.gen = add.gen /\ x.cell.i \in 1 .. add.size
    /\ ~ x.created => Deref(x.cell).addr = x.addr
    /\ x.created =>
         /\ Deref(x.cell).addr = NoAddr
         /\ \A i \in 1 .. kBucketSize : cells[i].addr # x.addr
         /\ \A j \in 1 .. Len(add.cells) : add.cells[j].addr # x.addr

\* The embedded cell that is filled again
MoveOK(x) ==
  x.pc \in Moving =>
    /\ x.cell.in = "embed"
    /\ x.pc = "moveval" => add.size # 0
    /\ x.pc # "moveval" => add.size < Len(add.cells)
    /\ x.pc # "clear" => cells[x.cell.i].addr = NoAddr
    /\ x.pc = "moveaddr" => LET last == add.cells[add.size + 1]
                            IN  last.addr # NoAddr => cells[x.cell.i].val = last.addr
    /\ x.pc = "clear" => cells[x.cell.i].addr = add.cells[add.size + 1].addr

PlaceInv == \A t \in Threads : HeldOK(h[t]) /\ MoveOK(h[t])

IInv == TypeInv /\ LockInv /\ HandleInv /\ CellInv /\ EndInv /\ PlaceInv

-----------------------------------------------------------------------------
(* Steps that leave the cells alone *)

\* Where a thread stands with the lock, and who else can be there
LEMMA LockFacts ==
  ASSUME IInv, NEW t \in Threads
  PROVE  /\ mode[t] = ModeOf(h[t])
         /\ ModeOf(h[t]) = "writing" => \A u \in Threads \ {t} : ModeOf(h[u]) \notin {"writing", "reading"}
  BY DEF IInv, LockInv, Mtx!Exclusion

\* A thread that moves nothing, before and after, keeps the invariant when its
\* new handle is sound and it is let into the lock only if that is free
LEMMA QuietStep ==
  ASSUME IInv, NEW t \in Threads, NEW x \in Handle,
         UNCHANGED <<cells, add>>, h' = [h EXCEPT ![t] = x],
         mode' = [mode EXCEPT ![t] = ModeOf(x)],
         h[t].pc \notin Moving, x.pc \notin Moving,
         HandleOK(x), \A u \in Threads : Agree(x, h[u]) /\ Agree(h[u], x),
         HeldOK(x),
         ModeOf(x) = "writing" =>
           \A u \in Threads \ {t} : mode[u] \notin {"writing", "reading"},
         ModeOf(x) = "reading" => \A u \in Threads \ {t} : mode[u] # "writing"
  PROVE  IInv'
<1>1. TypeInv'
  BY DEF IInv, TypeInv
<1>2. /\ h \in [Threads -> Handle]
      /\ h'[t] = x /\ \A u \in Threads \ {t} : h'[u] = h[u]
  BY DEF IInv, TypeInv
<1>3. LockInv'
  BY <1>2 DEF IInv, LockInv, Mtx!Exclusion
<1>4. HandleInv'
  BY <1>2 DEF IInv, HandleInv, Agree
<1>5. CellInv' /\ EndInv'
  BY <1>2 DEF IInv, CellInv, EndInv, At, Moving
<1>6. PlaceInv'
  <2> SUFFICES ASSUME NEW u \in Threads PROVE HeldOK(h[u])' /\ MoveOK(h[u])'
    BY DEF PlaceInv
  <2>1. CASE u = t
    BY <2>1, <1>2 DEF HeldOK, MoveOK, Deref
  <2>2. CASE u # t
    BY <2>2, <1>2 DEF IInv, PlaceInv, HeldOK, MoveOK, Deref
  <2> QED BY <2>1, <2>2
<1> QED BY <1>1, <1>3, <1>4, <1>5, <1>6 DEF IInv

\* acquire before it holds anything
LEMMA CallStep == ASSUME IInv, NEW t \in Threads, Call(t) PROVE IInv'
<1>1. PICK a \in Addrs, remove \in BOOLEAN, create \in BOOLEAN :
        /\ \A u \in Threads \ {t} : h[u].addr = a => h[u].remove = remove
        /\ remove => create
        /\ h' = [h EXCEPT ![t] = [NoHandle EXCEPT !.pc = IF remove THEN "lock" ELSE "scan",
                                    !.addr = a, !.remove = remove, !.create = create]]
        /\ IF remove THEN Want(t, "wantWrite") ELSE UNCHANGED mode
  BY DEF Call
<1> DEFINE x == [NoHandle EXCEPT !.pc = IF remove THEN "lock" ELSE "scan",
                                 !.addr = a, !.remove = remove, !.create = create]
<1>2. At(t, "idle") /\ UNCHANGED <<cells, add>>
  BY DEF Call
<1>3. /\ x.pc = (IF remove THEN "lock" ELSE "scan")
      /\ x.addr = a /\ x.remove = remove /\ ~ x.created
  BY DEF NoHandle
<1>4. x \in Handle
  <2>1. NoCell \in Pointer /\ 1 \in 1 .. kBucketSize
    BY BucketAssumption DEF Pointer
  <2>2. NoHandle \in Handle
    BY <2>1 DEF NoHandle, Handle, Addresses
  <2> QED BY <2>2 DEF Handle, Asking, Searching, Addresses
<1>5. h' = [h EXCEPT ![t] = x]
  BY <1>1
<1> HIDE DEF x
<1>6. mode' = [mode EXCEPT ![t] = ModeOf(x)]
  BY <1>1, <1>2, <1>3 DEF IInv, LockInv, ModeOf, At, Want, Moving
<1>7. ModeOf(x) \notin {"writing", "reading"} /\ h[t].pc \notin Moving /\ x.pc \notin Moving
  BY <1>2, <1>3 DEF ModeOf, Moving, At
<1>8. HandleOK(x) /\ HeldOK(x)
  BY <1>3, BucketAssumption DEF HandleOK, HeldOK, Searching, Asking, Moving
<1>9. \A u \in Threads : Agree(x, h[u]) /\ Agree(h[u], x)
  BY <1>1, <1>2, <1>3, BucketAssumption DEF Agree, At, IInv, HandleInv, HandleOK
<1> QED BY <1>2, <1>4, <1>5, <1>6, <1>7, <1>8, <1>9, QuietStep

\* A step inside acquire that changes the place of its thread and nothing else
\* of its handle, and not to where it holds a cell
LEMMA GotoStep ==
  ASSUME IInv, NEW t \in Threads, NEW l,
         UNCHANGED <<cells, add>>, Goto(t, l),
         h[t].pc \in Asking, l \in Asking \cup {"unlock"}, l \in Searching => ~ h[t].remove,
         mode' = [mode EXCEPT ![t] = ModeOf([h[t] EXCEPT !.pc = l])],
         l \in {"locked", "unlock"} =>
           \A u \in Threads \ {t} : mode[u] \notin {"writing", "reading"},
         l = "readunlock" => \A u \in Threads \ {t} : mode[u] # "writing"
  PROVE  IInv'
<1> DEFINE x == [h[t] EXCEPT !.pc = l]
<1>1. h \in [Threads -> Handle] /\ h[t] \in Handle
  BY DEF IInv, TypeInv
<1>2. /\ x.pc = l /\ x.addr = h[t].addr /\ x.remove = h[t].remove
      /\ x.created = h[t].created /\ x \in Handle
  BY <1>1 DEF Handle, Asking
<1>3. h' = [h EXCEPT ![t] = x]
  BY DEF Goto
<1>4. mode' = [mode EXCEPT ![t] = ModeOf(x)]
  OBVIOUS
<1> HIDE DEF x
<1>5. /\ ModeOf(x) = "writing" => l \in {"locked", "unlock"}
      /\ ModeOf(x) = "reading" => l = "readunlock"
      /\ h[t].pc \notin Moving /\ x.pc \notin Moving
  BY <1>2 DEF ModeOf, Asking, Searching, Moving
<1>6. HandleOK(x) /\ HeldOK(x)
  BY <1>2 DEF HandleOK, HeldOK, Asking, Searching, Moving, IInv, HandleInv
<1>7. \A u \in Threads : Agree(x, h[u]) /\ Agree(h[u], x)
  BY <1>2 DEF Agree, IInv, HandleInv, Asking, Searching
<1> QED BY <1>2, <1>3, <1>4, <1>5, <1>6, <1>7, QuietStep

\* The steps of acquire that go on
LEMMA GoStep ==
  ASSUME IInv, NEW t \in Threads,
         \/ LoadAdd(t) \/ ReadUnlock(t) \/ AskAgain(t) \/ Lock(t) \/ Missing(t)
         \/ ReadLock(t) /\ AddedWith(h[t].addr) = {}
  PROVE  IInv'
<1>1. /\ h[t] \in Handle /\ mode = [u \in Threads |-> mode[u]]
      /\ mode[t] = ModeOf(h[t]) /\ HandleOK(h[t])
  BY DEF IInv, TypeInv, LockInv, HandleInv
<1> DEFINE y(l) == [h[t] EXCEPT !.pc = l]
<1>2. /\ \A l : y(l).pc = l
      /\ \A l, w : w = ModeOf(y(l)) /\ Want(t, w) => mode' = [mode EXCEPT ![t] = ModeOf(y(l))]
      /\ \A l : mode[t] = ModeOf(y(l)) => mode = [mode EXCEPT ![t] = ModeOf(y(l))]
  BY <1>1 DEF Handle, Want
<1>3. ModeOf(y("readlock")) = "wantRead" /\ ModeOf(y("lock")) = "wantWrite"
  BY <1>2 DEF ModeOf, Moving
<1>4. ModeOf(y("readunlock")) = "reading" /\ ModeOf(y("relock")) = "out"
  BY <1>2 DEF ModeOf, Moving
<1>5. ModeOf(y("locked")) = "writing" /\ ModeOf(y("unlock")) = "writing"
  BY <1>2 DEF ModeOf, Moving
<1> HIDE DEF y
<1>6. CASE LoadAdd(t)
  <2>1. PICK l \in {"readlock", "lock"} : Goto(t, l) /\ mode' = [mode EXCEPT ![t] = ModeOf(y(l))]
    BY <1>6, <1>2, <1>3 DEF LoadAdd
  <2>2. ~ h[t].remove /\ h[t].pc = "add" /\ UNCHANGED <<cells, add>>
    BY <1>6, <1>1 DEF LoadAdd, At, HandleOK, Searching, Moving
  <2> QED BY <2>1, <2>2, GotoStep DEF y, Asking, Searching
<1>7. CASE ReadUnlock(t) \/ AskAgain(t)
  <2>1. PICK l \in {"relock", "lock"} : Goto(t, l) /\ mode' = [mode EXCEPT ![t] = ModeOf(y(l))]
    BY <1>7, <1>2, <1>3, <1>4 DEF ReadUnlock, AskAgain, Mtx!Leave, Mtx!Out
  <2>2. ~ h[t].remove /\ h[t].pc \in {"readunlock", "relock"} /\ UNCHANGED <<cells, add>>
    BY <1>7, <1>1 DEF ReadUnlock, AskAgain, At, HandleOK, Searching, Moving
  <2> QED BY <2>1, <2>2, GotoStep DEF y, Asking, Searching
<1>8. CASE Lock(t) \/ Missing(t)
  <2>1. PICK l \in {"locked", "unlock"} : Goto(t, l) /\ mode' = [mode EXCEPT ![t] = ModeOf(y(l))]
    <3>1. CASE Lock(t)
      BY <3>1, <1>5 DEF Lock, Mtx!EnterWrite
    <3>2. CASE Missing(t)
      <4>1. mode[t] = "writing"
        BY <3>2, <1>1 DEF Missing, At, ModeOf, Moving
      <4> QED BY <3>2, <4>1, <1>2, <1>5 DEF Missing
    <3> QED BY <1>8, <3>1, <3>2
  <2>2. h[t].pc \in {"lock", "locked"} /\ UNCHANGED <<cells, add>>
    BY <1>8 DEF Lock, Missing, At
  <2>3. \A u \in Threads \ {t} : mode[u] \notin {"writing", "reading"}
    <3>1. CASE Lock(t)
      BY <3>1 DEF Lock, Mtx!EnterWrite
    <3>2. CASE Missing(t)
      BY <3>2, LockFacts DEF Missing, At, ModeOf, Moving
    <3> QED BY <1>8, <3>1, <3>2
  <2> QED BY <2>1, <2>2, <2>3, GotoStep DEF y, Asking, Searching
<1>9. CASE ReadLock(t) /\ AddedWith(h[t].addr) = {}
  <2>1. Goto(t, "readunlock") /\ mode' = [mode EXCEPT ![t] = ModeOf(y("readunlock"))]
    BY <1>9, <1>4 DEF ReadLock, Mtx!EnterRead
  <2>2. ~ h[t].remove /\ h[t].pc = "readlock" /\ UNCHANGED <<cells, add>>
    BY <1>9, <1>1 DEF ReadLock, At, HandleOK, Searching, Moving
  <2>3. \A u \in Threads \ {t} : mode[u] # "writing"
    BY <1>9 DEF ReadLock, Mtx!EnterRead
  <2> QED BY <2>1, <2>2, <2>3, GotoStep DEF y, Asking, Searching
<1> QED BY <1>6, <1>7, <1>8, <1>9

\* Where a handle gets a cell: without the lock, for reading or for writing
LEMMA GotStep ==
  ASSUME IInv, NEW t \in Threads, NEW x \in Handle,
         UNCHANGED <<cells, add>>, h[t].pc \in Asking,
         x.pc = "held", x.addr = h[t].addr, x.remove = h[t].remove, x.cell # NoCell,
         h' = [h EXCEPT ![t] = x], mode' = [mode EXCEPT ![t] = ModeOf(x)],
         x.cell.in = "add" => x.cell.gen = add.gen /\ x.cell.i \in 1 .. add.size,
         ~ x.created => Deref(x.cell).addr = h[t].addr,
         x.created =>
           /\ ~ h[t].remove
           /\ Deref(x.cell).addr = NoAddr
           /\ \A i \in 1 .. kBucketSize : cells[i].addr # h[t].addr
           /\ \A j \in 1 .. Len(add.cells) : add.cells[j].addr # h[t].addr,
         x.created \/ h[t].remove =>
           \A u \in Threads \ {t} : mode[u] \notin {"writing", "reading"},
         x.cell.in = "add" => \A u \in Threads \ {t} : mode[u] # "writing"
  PROVE  IInv'
<1>1. /\ ModeOf(x) = "writing" => x.created \/ h[t].remove
      /\ ModeOf(x) = "reading" => x.cell.in = "add"
      /\ h[t].pc \notin Moving /\ x.pc \notin Moving
  BY DEF ModeOf, Asking, Searching, Moving
<1>2. HandleOK(x) /\ HeldOK(x)
  BY DEF HandleOK, HeldOK, Asking, Searching, Moving, IInv, HandleInv
<1>3. \A u \in Threads : Agree(x, h[u]) /\ Agree(h[u], x)
  BY DEF Agree, IInv, HandleInv, Asking, Searching
<1> QED BY <1>1, <1>2, <1>3, QuietStep

\* The embedded cells hold what a search compares, one cell at a time
LEMMA ScanStep == ASSUME IInv, NEW t \in Threads, ScanEmbed(t) PROVE IInv'
<1> DEFINE i == h[t].i
           x == [h[t] EXCEPT !.pc = "held", !.cell = Embed(i)]
           y == [h[t] EXCEPT !.i = i + 1]
<1>1. /\ h \in [Threads -> Handle] /\ h[t] \in Handle /\ mode = [u \in Threads |-> mode[u]]
      /\ mode[t] = ModeOf(h[t]) /\ HandleOK(h[t]) /\ i \in 1 .. kBucketSize
  BY DEF IInv, TypeInv, LockInv, HandleInv, Handle
<1>2. /\ UNCHANGED <<mode, cells, add>> /\ h[t].pc = "scan" /\ ~ h[t].remove /\ ~ h[t].created
      /\ mode[t] = "out" /\ h[t].addr # NoAddr
  BY <1>1 DEF ScanEmbed, At, HandleOK, Searching, Asking, Moving, ModeOf
<1>3. CASE cells[i].addr = h[t].addr
  <2>1. Embed(i) \in Pointer /\ Embed(i).in = "embed" /\ Embed(i).i = i /\ Embed(i) # NoCell
    BY <1>1 DEF Embed, Pointer, NoCell
  <2>2. /\ x \in Handle /\ x.pc = "held" /\ x.addr = h[t].addr /\ ~ x.remove
        /\ ~ x.created /\ x.cell = Embed(i) /\ x.remove = h[t].remove
    BY <1>1, <1>2, <2>1 DEF Handle
  <2>3. h' = [h EXCEPT ![t] = x]
    BY <1>3 DEF ScanEmbed, Got
  <2> HIDE DEF x
  <2>4. ModeOf(x) = "out" /\ Deref(x.cell).addr = h[t].addr
    BY <1>3, <2>1, <2>2 DEF ModeOf, Moving, Deref
  <2>5. mode' = [mode EXCEPT ![t] = ModeOf(x)]
    BY <2>4, <1>1, <1>2
  <2> QED BY <1>2, <2>1, <2>2, <2>3, <2>4, <2>5, GotStep DEF Asking, Searching
<1>4. CASE cells[i].addr # h[t].addr /\ i < kBucketSize
  <2>1. /\ y \in Handle /\ y.pc = "scan" /\ y.addr = h[t].addr /\ ~ y.remove /\ ~ y.created
        /\ y.remove = h[t].remove
    BY <1>1, <1>2, <1>4, BucketAssumption DEF Handle
  <2>2. h' = [h EXCEPT ![t] = y]
    BY <1>4 DEF ScanEmbed
  <2> HIDE DEF y
  <2>3. ModeOf(y) = "out" /\ HandleOK(y) /\ HeldOK(y)
    BY <1>2, <2>1 DEF ModeOf, Moving, HandleOK, HeldOK, Searching
  <2>4. mode' = [mode EXCEPT ![t] = ModeOf(y)]
    BY <2>3, <1>1, <1>2
  <2>5. \A u \in Threads : Agree(y, h[u]) /\ Agree(h[u], y)
    BY <1>2, <2>1 DEF Agree, IInv, HandleInv
  <2> QED BY <1>2, <2>1, <2>2, <2>3, <2>4, <2>5, QuietStep DEF Moving
<1>5. CASE cells[i].addr # h[t].addr /\ ~ i < kBucketSize
  <2>1. Goto(t, "add")
    BY <1>5 DEF ScanEmbed
  <2>2. ModeOf([h[t] EXCEPT !.pc = "add"]) = "out"
    BY <1>1 DEF ModeOf, Moving, Handle
  <2>3. mode' = [mode EXCEPT ![t] = ModeOf([h[t] EXCEPT !.pc = "add"])]
    BY <2>2, <1>1, <1>2
  <2> QED BY <1>2, <2>1, <2>3, GotoStep DEF Asking, Searching
<1> QED BY <1>3, <1>4, <1>5

\* The lock is let go again, for good or to search once more
LEMMA LeaveStep ==
  ASSUME IInv, NEW t \in Threads, NEW x \in Handle,
         UNCHANGED <<cells, add>>, h[t].pc \notin Moving, h' = [h EXCEPT ![t] = x],
         mode' = [mode EXCEPT ![t] = "out"],
         \/ x = NoHandle
         \/ /\ x.pc = "scan" /\ x.addr = h[t].addr /\ x.remove = h[t].remove
            /\ ~ x.remove /\ ~ x.created /\ h[t].pc # "idle"
  PROVE  IInv'
<1>1. /\ ModeOf(x) = "out" /\ HandleOK(x) /\ HeldOK(x) /\ x.pc \notin Moving
  BY BucketAssumption DEF ModeOf, HandleOK, HeldOK, NoHandle, Searching, Asking, Moving,
     IInv, HandleInv
<1>2. \A u \in Threads : Agree(x, h[u]) /\ Agree(h[u], x)
  BY DEF Agree, NoHandle, IInv, HandleInv, HandleOK
<1> QED BY <1>1, <1>2, QuietStep

\* What a search under the lock finds is there
LEMMA ExistingFacts ==
  ASSUME IInv, NEW a \in Addrs
  PROVE  /\ \A i \in EmbedWith(a) : /\ i \in 1 .. kBucketSize /\ Deref(Embed(i)).addr = a
                                    /\ Embed(i) \in Pointer \ {NoCell} /\ Embed(i).in = "embed"
         /\ \A i \in AddedWith(a) : /\ i \in 1 .. add.size /\ Deref(Added(i)).addr = a
                                    /\ Added(i) \in Pointer \ {NoCell} /\ Added(i).in = "add"
                                    /\ Added(i).gen = add.gen /\ Added(i).i = i
<1>1. cells \in [1 .. kBucketSize -> Cell] /\ add.gen \in Nat /\ add.size \in Nat
  BY DEF IInv, TypeInv
<1>2. \A i \in EmbedWith(a) : i \in 1 .. kBucketSize /\ cells[i].addr = a
  BY <1>1 DEF EmbedWith
<1>3. \A i \in EmbedWith(a) : /\ Deref(Embed(i)).addr = a
                              /\ Embed(i) \in Pointer \ {NoCell} /\ Embed(i).in = "embed"
  BY <1>2 DEF Embed, Deref, Pointer, NoCell
<1>4. \A i \in AddedWith(a) : i \in 1 .. add.size /\ add.cells[i].addr = a
  BY DEF AddedWith
<1>5. \A i \in 1 .. add.size : /\ Added(i) \in Pointer \ {NoCell} /\ Added(i).in = "add"
                               /\ Added(i).gen = add.gen /\ Added(i).i = i
                               /\ Deref(Added(i)) = add.cells[i]
  BY <1>1 DEF Added, Deref, Pointer, NoCell
<1> QED BY <1>2, <1>3, <1>4, <1>5

\* A search that finds its element, under the read lock or to remove it
LEMMA FoundStep ==
  ASSUME IInv, NEW t \in Threads, NEW c \in Existing(h[t].addr),
         UNCHANGED <<cells, add>>, Got(t, c),
         \/ /\ At(t, "readlock") /\ Mtx!EnterRead(t) /\ c.in = "add"
         \/ /\ At(t, "locked") /\ UNCHANGED mode /\ h[t].remove
  PROVE  IInv'
<1> DEFINE x == [h[t] EXCEPT !.pc = "held", !.cell = c]
<1>1. /\ h \in [Threads -> Handle] /\ h[t] \in Handle /\ mode = [u \in Threads |-> mode[u]]
      /\ mode[t] = ModeOf(h[t]) /\ HandleOK(h[t])
  BY DEF IInv, TypeInv, LockInv, HandleInv
<1>2. h[t].pc \in {"readlock", "locked"} /\ h[t].addr \in Addrs /\ ~ h[t].created
  BY <1>1 DEF At, HandleOK, Handle, Addresses, Asking, Searching
<1>3. /\ c \in Pointer /\ c # NoCell /\ Deref(c).addr = h[t].addr
      /\ c.in = "add" => c.gen = add.gen /\ c.i \in 1 .. add.size
  BY <1>2, ExistingFacts DEF Existing
<1>4. /\ x \in Handle /\ x.pc = "held" /\ x.addr = h[t].addr /\ x.remove = h[t].remove
      /\ ~ x.created /\ x.cell = c
  BY <1>1, <1>2, <1>3 DEF Handle
<1>5. h' = [h EXCEPT ![t] = x]
  BY DEF Got
<1> HIDE DEF x
<1>6. CASE At(t, "readlock") /\ Mtx!EnterRead(t) /\ c.in = "add"
  <2>1. ~ h[t].remove
    BY <1>1, <1>6 DEF HandleOK, At, Searching, Moving
  <2>2. ModeOf(x) = "reading"
    BY <2>1, <1>4, <1>6 DEF ModeOf, Moving
  <2>3. mode' = [mode EXCEPT ![t] = ModeOf(x)] /\ \A u \in Threads \ {t} : mode[u] # "writing"
    BY <1>6, <2>2 DEF Mtx!EnterRead
  <2> QED BY <2>1, <2>3, <1>2, <1>3, <1>4, <1>5, GotStep DEF Asking, Searching
<1>7. CASE At(t, "locked") /\ UNCHANGED mode /\ h[t].remove
  <2>1. ModeOf(x) = "writing" /\ ModeOf(h[t]) = "writing"
    BY <1>4, <1>7 DEF ModeOf, Moving, At
  <2>2. /\ mode' = [mode EXCEPT ![t] = ModeOf(x)]
        /\ \A u \in Threads \ {t} : mode[u] \notin {"writing", "reading"}
    BY <1>1, <1>7, <2>1, LockFacts
  <2> QED BY <2>2, <1>2, <1>3, <1>4, <1>5, GotStep DEF Asking, Searching
<1> QED BY <1>6, <1>7

LEMMA ReadLockStep == ASSUME IInv, NEW t \in Threads, ReadLock(t) PROVE IInv'
<1>1. CASE AddedWith(h[t].addr) = {}
  BY <1>1, GoStep
<1>2. CASE AddedWith(h[t].addr) # {}
  <2>1. PICK i \in AddedWith(h[t].addr) : Got(t, Added(i))
    BY <1>2 DEF ReadLock
  <2>2. Added(i) \in Existing(h[t].addr) /\ Added(i).in = "add"
    BY DEF Existing, Added
  <2> QED BY <2>1, <2>2, FoundStep DEF ReadLock
<1> QED BY <1>1, <1>2

LEMMA FoundLockedStep == ASSUME IInv, NEW t \in Threads, FoundLocked(t) PROVE IInv'
<1>1. At(t, "locked") /\ UNCHANGED <<cells, add>>
  BY DEF FoundLocked
<1>2. CASE h[t].remove
  BY <1>1, <1>2, FoundStep DEF FoundLocked
<1>3. CASE ~ h[t].remove
  <2> DEFINE x == [h[t] EXCEPT !.pc = "scan", !.i = 1]
  <2>1. h' = [h EXCEPT ![t] = x] /\ mode' = [mode EXCEPT ![t] = "out"]
    BY <1>3 DEF FoundLocked, Mtx!Leave, Mtx!Out
  <2>2. h[t] \in Handle /\ ~ h[t].created
    BY <1>1 DEF IInv, TypeInv, HandleInv, HandleOK, At, Asking
  <2>3. /\ x \in Handle /\ x.pc = "scan" /\ x.addr = h[t].addr /\ ~ x.remove /\ ~ x.created
        /\ x.remove = h[t].remove
    <3>1. 1 \in 1 .. kBucketSize
      BY BucketAssumption
    <3>2. x \in Handle
      BY <2>2, <3>1 DEF Handle, Asking, Searching
    <3>3. /\ x.pc = "scan" /\ x.addr = h[t].addr /\ x.remove = h[t].remove
          /\ x.created = h[t].created
      BY <2>2 DEF Handle
    <3> QED BY <1>3, <2>2, <3>2, <3>3
  <2> HIDE DEF x
  <2> QED BY <1>1, <2>1, <2>3, LeaveStep DEF At, Moving
<1> QED BY <1>2, <1>3

\* The handle is gone
LEMMA DoneStep ==
  ASSUME IInv, NEW t \in Threads, Unlock(t) \/ ReleaseFound(t)
  PROVE  IInv'
<1>1. NoHandle \in Handle
  <2>1. NoCell \in Pointer /\ 1 \in 1 .. kBucketSize
    BY BucketAssumption DEF Pointer
  <2> QED BY <2>1 DEF NoHandle, Handle, Addresses
<1>2. UNCHANGED <<cells, add>> /\ h' = [h EXCEPT ![t] = NoHandle] /\ h[t].pc \notin Moving
  BY DEF Unlock, ReleaseFound, At, Moving
<1>3. mode' = [mode EXCEPT ![t] = "out"]
  <2>1. CASE Unlock(t)
    BY <2>1 DEF Unlock, Mtx!Leave, Mtx!Out
  <2>2. CASE ReleaseFound(t) /\ h[t].cell.in = "add"
    BY <2>2 DEF ReleaseFound, Mtx!Leave, Mtx!Out
  <2>3. CASE ReleaseFound(t) /\ h[t].cell.in # "add"
    <3>1. mode[t] = "out" /\ mode = [u \in Threads |-> mode[u]]
      BY <2>3 DEF ReleaseFound, IInv, LockInv, ModeOf, At, Moving
    <3> QED BY <2>3, <3>1 DEF ReleaseFound
  <2> QED BY <2>1, <2>2, <2>3
<1> QED BY <1>1, <1>2, <1>3, LeaveStep

-----------------------------------------------------------------------------
(* Steps of the one thread that has the lock for writing *)

\* Where the others are while a thread writes
LEMMA WriterAlone ==
  ASSUME IInv, NEW t \in Threads, ModeOf(h[t]) = "writing", NEW u \in Threads \ {t}
  PROVE  /\ h[u].pc \notin Moving \cup {"locked", "unlock", "readunlock"}
         /\ h[u].pc = "held" => /\ ~ h[u].created /\ ~ h[u].remove
                                /\ h[u].cell.in = "embed" /\ h[u].cell.i \in 1 .. kBucketSize
                                /\ h[u].addr # NoAddr
                                /\ h[u].addr = h[t].addr => ~ h[t].remove
<1>1. ModeOf(h[u]) \notin {"writing", "reading"}
  BY LockFacts
<1>2. h[u].pc \notin Moving \cup {"locked", "unlock", "readunlock"}
  BY <1>1 DEF ModeOf, Moving
<1>3. ASSUME h[u].pc = "held"
      PROVE  ~ h[u].created /\ ~ h[u].remove /\ h[u].cell.in # "add"
  BY <1>1, <1>3 DEF ModeOf, Moving
<1>4. ASSUME h[u].pc = "held"
      PROVE  h[u].cell.in = "embed" /\ h[u].cell.i \in 1 .. kBucketSize
  <2>1. h[u].cell \in Pointer /\ h[u].cell # NoCell
    BY <1>4 DEF IInv, TypeInv, Handle, PlaceInv, HeldOK
  <2> QED BY <2>1, <1>3, <1>4 DEF Pointer
<1>5. ASSUME h[u].pc = "held"
      PROVE  h[u].addr # NoAddr /\ (h[u].addr = h[t].addr => ~ h[t].remove)
  BY <1>3, <1>5 DEF IInv, HandleInv, HandleOK, Agree
<1> QED BY <1>2, <1>3, <1>4, <1>5

\* What is left to show of a step of the writer is what it does to the cells
LEMMA WriterStep ==
  ASSUME IInv, NEW t \in Threads, NEW x \in Handle,
         h' = [h EXCEPT ![t] = x], UNCHANGED mode,
         ModeOf(h[t]) = "writing", ModeOf(x) = "writing", HandleOK(x),
         x.addr = h[t].addr, x.remove = h[t].remove, h[t].pc # "idle",
         cells' \in [1 .. kBucketSize -> Cell],
         add' \in [gen : Nat, size : Nat, cells : Seq(Cell)],
         add'.size <= Len(add'.cells), add'.gen # 0 => Len(add'.cells) # 0,
         \A i \in 1 .. kBucketSize :
           cells[i].addr # NoAddr /\ (cells[i].addr = h[t].addr => ~ h[t].remove) =>
             cells'[i].addr = cells[i].addr,
         HeldOK(x)', MoveOK(x)', CellInv', EndInv'
  PROVE  IInv'
<1>1. /\ h \in [Threads -> Handle]
      /\ h'[t] = x /\ \A u \in Threads \ {t} : h'[u] = h[u]
  BY DEF IInv, TypeInv
<1>2. TypeInv'
  BY <1>1 DEF IInv, TypeInv
<1>3. LockInv'
  BY <1>1 DEF IInv, LockInv, Mtx!Exclusion
<1>4. HandleInv'
  BY <1>1 DEF IInv, HandleInv, Agree
<1>5. PlaceInv'
  <2> SUFFICES ASSUME NEW u \in Threads PROVE HeldOK(h[u])' /\ MoveOK(h[u])'
    BY DEF PlaceInv
  <2>1. CASE u = t
    BY <2>1, <1>1 DEF HeldOK, MoveOK, Deref
  <2>2. CASE u # t
    <3>1. h'[u] = h[u] /\ HeldOK(h[u])
      BY <2>2, <1>1 DEF IInv, PlaceInv
    <3>2. MoveOK(h[u])'
      BY <3>1, <2>2, WriterAlone DEF MoveOK
    <3>3. HeldOK(h[u])'
      BY <3>1, <2>2, WriterAlone DEF HeldOK, Deref
    <3> QED BY <3>2, <3>3
  <2> QED BY <2>1, <2>2
<1> QED BY <1>2, <1>3, <1>4, <1>5 DEF IInv

\* An array that is full is replaced by one with the same cells and empty ones
LEMMA GrownFacts ==
  ASSUME TypeInv
  PROVE  /\ Grown \in [gen : Nat, size : Nat, cells : Seq(Cell)]
         /\ Grown.size = add.size /\ Len(add.cells) \in Nat
         /\ add.size < Len(Grown.cells) /\ Len(add.cells) <= Len(Grown.cells)
         /\ \A j \in 1 .. Len(Grown.cells) :
              Grown.cells[j] = IF j <= Len(add.cells) THEN add.cells[j] ELSE Empty
<1> DEFINE n == Len(add.cells)
           m == IF add.gen = 0 THEN InitCap ELSE n
           more == [i \in 1 .. m |-> Empty]
<1>1. /\ n \in Nat /\ add.size \in Nat /\ add.size <= n /\ add.gen \in Nat
      /\ add.cells \in Seq(Cell) /\ (add.gen # 0 => n # 0)
      /\ add \in [gen : Nat, size : Nat, cells : Seq(Cell)]
  BY LenProperties DEF TypeInv
<1>2. CASE add.size < n
  BY <1>1, <1>2 DEF Grown
<1>3. CASE ~ add.size < n
  <2>1. m \in Nat \ {0} /\ Empty \in Cell
    BY <1>1, BucketAssumption DEF Empty, Cell, Addresses
  <2>2. more \in Seq(Cell) /\ Len(more) = m
    <3>1. more \in [1 .. m -> Cell]
      BY <2>1
    <3> HIDE DEF more, m
    <3>2. more \in Seq(Cell)
      BY <3>1, <2>1, SeqDef
    <3> QED BY <3>1, <3>2, <2>1, LenProperties
  <2>3. \A j \in 1 .. m : more[j] = Empty
    OBVIOUS
  <2>4. Grown = [add EXCEPT !.gen = @ + 1, !.cells = @ \o more]
    BY <1>3 DEF Grown
  <2> HIDE DEF more, m
  <2>5. /\ add.cells \o more \in Seq(Cell)
        /\ Len(add.cells \o more) = n + m
        /\ \A j \in 1 .. n + m : (add.cells \o more)[j] =
                                   IF j <= n THEN add.cells[j] ELSE more[j - n]
    BY <1>1, <2>2, ConcatProperties
  <2>6. /\ Grown.cells = add.cells \o more /\ Grown.size = add.size
        /\ Grown \in [gen : Nat, size : Nat, cells : Seq(Cell)]
    <3> DEFINE s == add.cells \o more
    <3>1. s \in Seq(Cell) /\ add.gen + 1 \in Nat
      BY <1>1, <2>5
    <3>2. Grown = [add EXCEPT !.gen = add.gen + 1, !.cells = s]
      BY <2>4
    <3> HIDE DEF s
    <3>3. Grown.cells = s /\ Grown.size = add.size
      BY <1>1, <3>2
    <3>4. Grown \in [gen : Nat, size : Nat, cells : Seq(Cell)]
      BY <1>1, <3>1, <3>2
    <3> QED BY <3>3, <3>4 DEF s
  <2>7. \A j \in 1 .. n + m : j > n => j - n \in 1 .. m
    BY <1>1, <2>1
  <2> QED BY <1>1, <1>3, <2>1, <2>3, <2>5, <2>6, <2>7
<1> QED BY <1>2, <1>3

LEMMA PresentMeans ==
  ASSUME TypeInv, TypeInv', NEW a
  PROVE  /\ a \in Present <=>
              /\ a # NoAddr
              /\ \/ \E i \in 1 .. kBucketSize : cells[i].addr = a
                 \/ \E j \in 1 .. Len(add.cells) : add.cells[j].addr = a
         /\ a \in Present' <=>
              /\ a # NoAddr
              /\ \/ \E i \in 1 .. kBucketSize : cells'[i].addr = a
                 \/ \E j \in 1 .. Len(add'.cells) : add'.cells[j].addr = a
<1>1. DOMAIN cells = 1 .. kBucketSize /\ DOMAIN cells' = 1 .. kBucketSize
  BY DEF TypeInv
<1>2. add.cells \in Seq(Cell) /\ add'.cells \in Seq(Cell)
  BY DEF TypeInv
<1>3. DOMAIN add.cells = 1 .. Len(add.cells) /\ DOMAIN add'.cells = 1 .. Len(add'.cells)
  BY <1>2, LenProperties
<1> QED BY <1>1, <1>3 DEF Present

\* While a thread writes that moves nothing, there is nothing past the end
LEMMA NothingPastEnd ==
  ASSUME IInv, NEW t \in Threads, ModeOf(h[t]) = "writing", h[t].pc \notin {"moveaddr", "clear"}
  PROVE  /\ \A j \in 1 .. Len(add.cells) : j > add.size => add.cells[j].addr = NoAddr
         /\ \A u \in Threads : h[u].pc \notin {"moveaddr", "clear"}
<1>1. \A u \in Threads : h[u].pc \notin {"moveaddr", "clear"}
  BY WriterAlone DEF Moving
<1> QED BY <1>1 DEF IInv, EndInv

\* An address that a search under the lock does not find is in no cell
LEMMA NotThere ==
  ASSUME IInv, NEW t \in Threads, MayCreate(t)
  PROVE  /\ \A i \in 1 .. kBucketSize : cells[i].addr # h[t].addr
         /\ \A j \in 1 .. Len(add.cells) : add.cells[j].addr # h[t].addr
<1>1. /\ cells \in [1 .. kBucketSize -> Cell] /\ add.size \in Nat /\ Len(add.cells) \in Nat
      /\ h[t].addr # NoAddr
  BY LenProperties DEF IInv, TypeInv, HandleInv, HandleOK, MayCreate, At
<1>2. EmbedWith(h[t].addr) = {} /\ AddedWith(h[t].addr) = {}
  BY DEF MayCreate, Existing
<1>3. ModeOf(h[t]) = "writing" /\ h[t].pc \notin {"moveaddr", "clear"}
  BY DEF MayCreate, At, ModeOf
<1>4. \A j \in 1 .. Len(add.cells) : j > add.size => add.cells[j].addr = NoAddr
  BY <1>3, NothingPastEnd
<1> QED BY <1>1, <1>2, <1>4 DEF EmbedWith, AddedWith

LEMMA CreateStep == ASSUME IInv, NEW t \in Threads, Create(t) PROVE IInv' /\ Present' = Present
<1> DEFINE x(c) == [h[t] EXCEPT !.pc = "held", !.created = TRUE, !.cell = c]
<1>1. /\ h \in [Threads -> Handle] /\ h[t] \in Handle /\ mode = [u \in Threads |-> mode[u]]
      /\ cells \in [1 .. kBucketSize -> Cell] /\ add.gen \in Nat /\ add.size \in Nat
      /\ add \in [gen : Nat, size : Nat, cells : Seq(Cell)]
  BY DEF IInv, TypeInv, LockInv
<1>2. /\ MayCreate(t) /\ UNCHANGED <<mode, cells>>
      /\ h[t].pc = "locked" /\ ~ h[t].remove /\ h[t].addr # NoAddr
  BY DEF Create, MayCreate, At, IInv, HandleInv, HandleOK
<1>3. /\ \A i \in 1 .. kBucketSize : cells[i].addr # h[t].addr
      /\ \A j \in 1 .. Len(add.cells) : add.cells[j].addr # h[t].addr
  BY <1>2, NotThere
<1>4. ModeOf(h[t]) = "writing"
  BY <1>2 DEF ModeOf
<1>5. /\ mode[t] = "writing"
      /\ \A u \in Threads \ {t} : mode[u] \notin {"writing", "reading"}
      /\ \A j \in 1 .. Len(add.cells) : j > add.size => add.cells[j].addr = NoAddr
      /\ \A u \in Threads : h[u].pc \notin {"moveaddr", "clear"}
  BY <1>2, <1>4, LockFacts, NothingPastEnd
<1>6. ASSUME NEW c \in Pointer \ {NoCell}, NEW y, y = x(c)
      PROVE  /\ y \in Handle /\ y.pc = "held" /\ y.addr = h[t].addr
             /\ y.remove = h[t].remove /\ ~ y.remove /\ y.created /\ y.cell = c
             /\ ModeOf(y) = "writing" /\ HandleOK(y)
  <2>1. /\ y \in Handle /\ y.pc = "held" /\ y.addr = h[t].addr
        /\ y.remove = h[t].remove /\ y.created = TRUE /\ y.cell = c
    BY <1>1, <1>6 DEF Handle
  <2>2. ModeOf(y) = "writing" /\ HandleOK(y)
    BY <1>2, <2>1 DEF ModeOf, Moving, HandleOK, Searching, Asking
  <2> QED BY <1>2, <2>1, <2>2
<1>7. CASE EmbedWith(NoAddr) # {}
  <2>1. PICK i \in EmbedWith(NoAddr) : h' = [h EXCEPT ![t].pc = "held", ![t].created = TRUE,
                                                      ![t].cell = Embed(i)]
    BY <1>7 DEF Create
  <2>2. PICK c \in Pointer \ {NoCell} : c = Embed(i) /\ c.in = "embed" /\ Deref(c).addr = NoAddr
    <3>1. i \in 1 .. kBucketSize /\ cells[i].addr = NoAddr
      BY <1>1 DEF EmbedWith
    <3>2. Embed(i) \in Pointer \ {NoCell} /\ Embed(i).in = "embed" /\ Embed(i).i = i
      BY <3>1 DEF Embed, Pointer, NoCell
    <3>3. Deref(Embed(i)) = cells[i]
      BY <3>2 DEF Deref
    <3> QED BY <3>1, <3>2, <3>3
  <2>3. PICK y : y = x(c)
    OBVIOUS
  <2>4. h' = [h EXCEPT ![t] = y] /\ UNCHANGED <<cells, add>>
    <3>1. h' = [h EXCEPT ![t] = x(c)]
      BY <2>1, <2>2
    <3> QED BY <1>2, <1>7, <2>3, <3>1 DEF Create
  <2> HIDE DEF x
  <2>5. /\ y \in Handle /\ y.pc = "held" /\ y.addr = h[t].addr
        /\ y.remove = h[t].remove /\ ~ y.remove /\ y.created /\ y.cell = c
        /\ ModeOf(y) = "writing" /\ HandleOK(y)
    BY <1>6, <2>3
  <2>6. mode' = [mode EXCEPT ![t] = ModeOf(y)]
    BY <1>1, <1>2, <1>5, <2>5
  <2>7. Present' = Present
    BY <2>4 DEF Present
  <2> QED BY <1>2, <1>3, <1>5, <2>2, <2>4, <2>5, <2>6, <2>7, GotStep DEF Asking, Searching
<1>8. CASE EmbedWith(NoAddr) = {}
  <2> DEFINE n == Len(add.cells)
  <2>1. PICK g \in [gen : Nat, size : Nat, cells : Seq(Cell)], k \in Nat :
          g = Grown /\ k = add.size + 1
    BY <1>1, GrownFacts DEF IInv
  <2>2. /\ g.size = add.size /\ n \in Nat
        /\ Len(g.cells) \in Nat /\ k \in 1 .. Len(g.cells) /\ n <= Len(g.cells)
        /\ \A j \in 1 .. Len(g.cells) : g.cells[j] = IF j <= n THEN add.cells[j] ELSE Empty
    <3>1. Len(g.cells) \in Nat
      BY LenProperties
    <3> QED BY <1>1, <2>1, <3>1, GrownFacts DEF IInv
  <2>3. g.cells[k].addr = NoAddr
    BY <1>1, <1>5, <2>1, <2>2 DEF Empty
  <2>4. PICK c \in Pointer \ {NoCell} : c = [in |-> "add", i |-> k, gen |-> g.gen]
    BY <2>1 DEF Pointer, NoCell
  <2>5. PICK y : y = x(c)
    OBVIOUS
  <2>6. h' = [h EXCEPT ![t] = y]
    <3>1. h' = [h EXCEPT ![t].created = TRUE, ![t].pc = "held", ![t].cell = c]
      BY <1>8, <2>1, <2>3, <2>4 DEF Create
    <3>2. /\ h' = [h EXCEPT ![t] = h'[t]] /\ h'[t] \in Handle /\ y \in Handle
          /\ \A f \in {"addr", "remove", "create", "i"} : h'[t][f] = h[t][f] /\ y[f] = h[t][f]
          /\ h'[t].pc = y.pc /\ h'[t].created = y.created /\ h'[t].cell = y.cell
      BY <1>1, <2>5, <3>1 DEF Handle
    <3>3. h'[t] = y
      BY <3>2 DEF Handle
    <3> QED BY <3>2, <3>3
  <2> HIDE DEF x
  <2>7. /\ y \in Handle /\ y.pc = "held" /\ y.addr = h[t].addr
        /\ y.remove = h[t].remove /\ ~ y.remove /\ y.created /\ y.cell = c
        /\ ModeOf(y) = "writing" /\ HandleOK(y)
    BY <1>6, <2>5
  <2>a. add' = [g EXCEPT !.size = k]
    BY <1>8, <2>1 DEF Create
  <2>b. /\ add' \in [gen : Nat, size : Nat, cells : Seq(Cell)]
        /\ add'.cells = g.cells /\ add'.size = k /\ add'.gen = g.gen
        /\ add'.size <= Len(add'.cells) /\ Len(add'.cells) # 0
    <3>1. add' \in [gen : Nat, size : Nat, cells : Seq(Cell)]
      BY <2>a
    <3>2. add'.cells = g.cells /\ add'.size = k /\ add'.gen = g.gen
      BY <2>a
    <3> QED BY <2>2, <3>1, <3>2
  <2>c. HeldOK(y)' /\ MoveOK(y)'
    <3>1. c.in = "add" /\ c.i = k /\ c.gen = g.gen
      BY <2>4
    <3>2. /\ Deref(c)'.addr = NoAddr
          /\ \A j \in 1 .. Len(add'.cells) : add'.cells[j].addr # h[t].addr
      BY <1>2, <1>3, <2>2, <2>3, <2>b, <3>1 DEF Deref, Empty
    <3> QED BY <1>2, <1>3, <2>2, <2>7, <2>b, <3>1, <3>2 DEF HeldOK, MoveOK, Moving
  <2>d. CellInv'
    <3>1. \A j \in 1 .. Len(add'.cells) :
            /\ j > n => add'.cells[j].addr = NoAddr
            /\ j <= n => j \in 1 .. n /\ add'.cells[j] = add.cells[j]
      BY <2>2, <2>b DEF Empty
    <3> HIDE DEF n
    <3>2. \A i, j \in 1 .. n :
            add.cells[i].addr = add.cells[j].addr => i = j \/ add.cells[i].addr = NoAddr
      BY DEF IInv, CellInv, n
    <3>3. \A i, j \in 1 .. Len(add'.cells) :
            add'.cells[i].addr = add'.cells[j].addr => i = j \/ add'.cells[i].addr = NoAddr
      <4> SUFFICES ASSUME NEW i \in 1 .. Len(add'.cells), NEW j \in 1 .. Len(add'.cells),
                          add'.cells[i].addr = add'.cells[j].addr, add'.cells[i].addr # NoAddr
                   PROVE  i = j
        OBVIOUS
      <4>1. i \in 1 .. n /\ j \in 1 .. n
        BY <2>2, <2>b, <3>1
      <4>2. add'.cells[i] = add.cells[i] /\ add'.cells[j] = add.cells[j]
        BY <2>2, <3>1, <4>1
      <4>3. add.cells[i].addr = add.cells[j].addr /\ add.cells[i].addr # NoAddr
        BY <4>2
      <4> QED BY <3>2, <4>1, <4>3
    <3>4. \A i \in 1 .. kBucketSize, j \in 1 .. n :
            cells[i].addr = add.cells[j].addr => cells[i].addr = NoAddr
      BY <1>5 DEF IInv, CellInv, n, At
    <3>5. \A i \in 1 .. kBucketSize, j \in 1 .. Len(add'.cells) :
            cells'[i].addr = add'.cells[j].addr => cells'[i].addr = NoAddr
      BY <1>2, <2>2, <3>1, <3>4
    <3>6. \A j \in 1 .. n : add.cells[j].addr # NoAddr => add.cells[j].val = add.cells[j].addr
      BY DEF IInv, CellInv, n
    <3>7. \A j \in 1 .. Len(add'.cells) :
            add'.cells[j].addr # NoAddr => add'.cells[j].val = add'.cells[j].addr
      BY <2>2, <3>1, <3>6
    <3>8. /\ \A i, j \in 1 .. kBucketSize :
               cells'[i].addr = cells'[j].addr => i = j \/ cells'[i].addr = NoAddr
          /\ \A i \in 1 .. kBucketSize : cells'[i].addr # NoAddr => cells'[i].val = cells'[i].addr
      BY <1>2 DEF IInv, CellInv
    <3> QED BY <3>3, <3>5, <3>7, <3>8 DEF CellInv
  <2>e. EndInv'
    BY <1>1, <1>5, <2>1, <2>2, <2>b DEF EndInv, Empty
  <2>f. IInv'
    BY <1>1, <1>2, <1>4, <2>6, <2>7, <2>b, <2>c, <2>d, <2>e, WriterStep
  <2>g. \A a : a # NoAddr => ((\E j \in 1 .. n : add.cells[j].addr = a)
                               <=> (\E j \in 1 .. Len(add'.cells) : add'.cells[j].addr = a))
    <3>1. \A j \in 1 .. Len(add'.cells) :
            /\ j \notin 1 .. n => add'.cells[j].addr = NoAddr
            /\ j \in 1 .. n => add'.cells[j] = add.cells[j]
      BY <2>2, <2>b DEF Empty
    <3>2. \A j \in 1 .. n : j \in 1 .. Len(add'.cells)
      BY <2>2, <2>b
    <3> HIDE DEF n
    <3> QED BY <3>1, <3>2
  <2>h. \A a : a \in Present <=> a \in Present'
    BY <1>2, <2>f, <2>g, PresentMeans DEF IInv
  <2> QED BY <2>f, <2>h
<1> QED BY <1>7, <1>8

\* The writer goes on with the cell it has
LEMMA WriterGoto ==
  ASSUME IInv, NEW t \in Threads, NEW l \in Moving \cup {"unlock"},
         Goto(t, l), UNCHANGED mode,
         ModeOf(h[t]) = "writing", h[t].pc # "idle", l \in Moving => h[t].remove,
         cells' \in [1 .. kBucketSize -> Cell],
         add' \in [gen : Nat, size : Nat, cells : Seq(Cell)],
         add'.size <= Len(add'.cells), add'.gen # 0 => Len(add'.cells) # 0,
         \A i \in 1 .. kBucketSize :
           cells[i].addr # NoAddr /\ (cells[i].addr = h[t].addr => ~ h[t].remove) =>
             cells'[i].addr = cells[i].addr,
         \A y : y.pc = l /\ y.cell = h[t].cell => MoveOK(y)',
         CellInv', EndInv'
  PROVE  IInv'
<1>1. h[t] \in Handle /\ HandleOK(h[t])
  BY DEF IInv, TypeInv, HandleInv
<1>2. PICK y : y = [h[t] EXCEPT !.pc = l]
  OBVIOUS
<1>3. /\ y \in Handle /\ y.pc = l /\ y.addr = h[t].addr /\ y.remove = h[t].remove
      /\ y.cell = h[t].cell /\ y.created = h[t].created
  BY <1>1, <1>2 DEF Handle
<1>4. h' = [h EXCEPT ![t] = y]
  BY <1>2 DEF Goto
<1>5. ModeOf(y) = "writing" /\ HeldOK(y)'
  BY <1>3 DEF ModeOf, HeldOK, Moving
<1>6. HandleOK(y)
  BY <1>1, <1>3 DEF HandleOK, Asking, Searching, Moving
<1>7. MoveOK(y)'
  BY <1>3
<1> QED BY <1>3, <1>4, <1>5, <1>6, <1>7, WriterStep

\* What the writer knows before it touches the cells
LEMMA WriterFacts ==
  ASSUME IInv, NEW t \in Threads
  PROVE  /\ cells \in [1 .. kBucketSize -> Cell]
         /\ add \in [gen : Nat, size : Nat, cells : Seq(Cell)]
         /\ add.gen \in Nat /\ add.size \in Nat /\ Len(add.cells) \in Nat
         /\ add.cells \in Seq(Cell) /\ add.size <= Len(add.cells)
         /\ add.gen # 0 => Len(add.cells) # 0
         /\ \A j \in 1 .. Len(add.cells) : add.cells[j] \in Cell
         /\ h[t].addr \in Addresses
         /\ h[t].pc \in {"held"} \cup Moving =>
              /\ h[t].addr # NoAddr
              /\ \/ h[t].cell.in = "embed" /\ h[t].cell.i \in 1 .. kBucketSize
                 \/ h[t].cell.in = "add" /\ h[t].pc = "held" /\ h[t].cell.i \in 1 .. add.size
<1>1. /\ cells \in [1 .. kBucketSize -> Cell]
      /\ add \in [gen : Nat, size : Nat, cells : Seq(Cell)]
      /\ add.gen \in Nat /\ add.size \in Nat /\ add.cells \in Seq(Cell)
      /\ add.size <= Len(add.cells) /\ (add.gen # 0 => Len(add.cells) # 0)
      /\ h[t].addr \in Addresses /\ h[t].cell \in Pointer
  BY DEF IInv, TypeInv, Handle
<1>2. Len(add.cells) \in Nat /\ \A j \in 1 .. Len(add.cells) : add.cells[j] \in Cell
  BY <1>1, LenProperties, ElementOfSeq
<1>3. ASSUME h[t].pc \in {"held"} \cup Moving PROVE h[t].addr # NoAddr
  BY <1>3 DEF IInv, HandleInv, HandleOK, Moving
<1>4. CASE h[t].pc = "held"
  <2>1. h[t].cell # NoCell /\ (h[t].cell.in = "add" => h[t].cell.i \in 1 .. add.size)
    BY <1>4 DEF IInv, PlaceInv, HeldOK
  <2>2. \/ h[t].cell.in = "embed" /\ h[t].cell.i \in 1 .. kBucketSize
        \/ h[t].cell.in = "add"
    BY <1>1, <2>1 DEF Pointer
  <2> QED BY <1>1, <1>2, <1>3, <1>4, <2>1, <2>2
<1>5. CASE h[t].pc \in Moving
  <2>1. h[t].cell.in = "embed"
    BY <1>5 DEF IInv, PlaceInv, MoveOK
  <2>2. h[t].cell.i \in 1 .. kBucketSize
    BY <1>1, <2>1 DEF Pointer, NoCell
  <2> QED BY <1>1, <1>2, <1>3, <1>5, <2>1, <2>2
<1> QED BY <1>1, <1>2, <1>4, <1>5

\* Assigning one field of a cell
LEMMA CellExcept ==
  ASSUME NEW e \in Cell, NEW a \in Addresses
  PROVE  /\ [e EXCEPT !.addr = a] \in Cell /\ [e EXCEPT !.val = a] \in Cell
         /\ [e EXCEPT !.addr = a].addr = a /\ [e EXCEPT !.addr = a].val = e.val
         /\ [e EXCEPT !.val = a].val = a /\ [e EXCEPT !.val = a].addr = e.addr
  BY DEF Cell

\* Assigning the address or the value of an embedded cell
LEMMA EmbedExcept ==
  ASSUME cells \in [1 .. kBucketSize -> Cell], NEW i \in 1 .. kBucketSize, NEW a \in Addresses,
         cells' = [cells EXCEPT ![i].addr = a] \/ cells' = [cells EXCEPT ![i].val = a]
  PROVE  /\ cells' \in [1 .. kBucketSize -> Cell]
         /\ \A j \in 1 .. kBucketSize \ {i} : cells'[j] = cells[j]
         /\ cells' = [cells EXCEPT ![i].addr = a] =>
              cells'[i].addr = a /\ cells'[i].val = cells[i].val
         /\ cells' = [cells EXCEPT ![i].val = a] =>
              cells'[i].val = a /\ cells'[i].addr = cells[i].addr
<1> DEFINE e == [cells[i] EXCEPT !.addr = a]
           f == [cells[i] EXCEPT !.val = a]
<1>1. cells[i] \in Cell
  OBVIOUS
<1>2. /\ e \in Cell /\ e.addr = a /\ e.val = cells[i].val
      /\ f \in Cell /\ f.val = a /\ f.addr = cells[i].addr
  BY <1>1, CellExcept
<1>3. CASE cells' = [cells EXCEPT ![i].addr = a] /\ cells' # [cells EXCEPT ![i].val = a]
  <2>1. cells' = [cells EXCEPT ![i] = e]
    BY <1>3
  <2> HIDE DEF e
  <2> QED BY <1>2, <1>3, <2>1
<1>4. CASE cells' = [cells EXCEPT ![i].val = a] /\ cells' # [cells EXCEPT ![i].addr = a]
  <2>1. cells' = [cells EXCEPT ![i] = f]
    BY <1>4
  <2> HIDE DEF f
  <2> QED BY <1>2, <1>4, <2>1
<1>5. CASE cells' = [cells EXCEPT ![i].addr = a] /\ cells' = [cells EXCEPT ![i].val = a]
  <2>1. cells' = [cells EXCEPT ![i] = e] /\ cells' = [cells EXCEPT ![i] = f]
    BY <1>5
  <2> HIDE DEF e, f
  <2> QED BY <1>2, <1>5, <2>1
<1> QED BY <1>3, <1>4, <1>5

LEMMA ReleaseCreatedStep == ASSUME IInv, NEW t \in Threads, ReleaseCreated(t)
  PROVE  IInv' /\ Present' = Present \cup {h[t].addr}
<1>1. PICK c : c = h[t].cell
  OBVIOUS
<1>2. PICK v \in Cell : /\ v = [addr |-> h[t].addr, val |-> h[t].addr]
                        /\ v.addr = h[t].addr /\ v.val = h[t].addr
  <2>1. h[t].addr \in Addresses
    BY WriterFacts
  <2>2. [addr |-> h[t].addr, val |-> h[t].addr] \in Cell
    BY <2>1 DEF Cell
  <2> QED BY <2>2
<1>3. /\ h[t].pc = "held" /\ h[t].created /\ ModeOf(h[t]) = "writing"
      /\ Deref(c).addr = NoAddr /\ h[t].addr # NoAddr /\ ~ h[t].remove
      /\ \A i \in 1 .. kBucketSize : cells[i].addr # h[t].addr
      /\ \A j \in 1 .. Len(add.cells) : add.cells[j].addr # h[t].addr
      /\ SetCell(c, v) /\ UNCHANGED mode /\ Goto(t, "unlock")
  BY <1>1, <1>2, WriterFacts DEF ReleaseCreated, At, ModeOf, Moving, IInv, PlaceInv, HeldOK,
     HandleInv, HandleOK
<1>4. /\ \A u \in Threads : h[u].pc \notin {"moveaddr", "clear"}
      /\ \A j \in 1 .. Len(add.cells) : j > add.size => add.cells[j].addr = NoAddr
  BY <1>3, NothingPastEnd
<1>5. \A y : y.pc = "unlock" => MoveOK(y)'
  BY DEF MoveOK, Moving
<1>6. CASE c.in = "embed"
  <2>1. c.i \in 1 .. kBucketSize /\ cells[c.i].addr = NoAddr
    BY <1>1, <1>3, <1>6, WriterFacts DEF Deref
  <2>2. UNCHANGED add /\ cells' = [cells EXCEPT ![c.i] = v]
    BY <1>3, <1>6 DEF SetCell
  <2>3. /\ cells' \in [1 .. kBucketSize -> Cell]
        /\ \A i \in 1 .. kBucketSize : cells'[i] = IF i = c.i THEN v ELSE cells[i]
    BY <2>2, WriterFacts
  <2>4. CellInv'
    <3>1. \A i \in 1 .. kBucketSize, j \in 1 .. Len(add.cells) :
            cells[i].addr = add.cells[j].addr => cells[i].addr = NoAddr
      BY <1>4 DEF IInv, CellInv, At
    <3>2. \A i, j \in 1 .. kBucketSize :
            cells'[i].addr = cells'[j].addr => i = j \/ cells'[i].addr = NoAddr
      BY <1>2, <1>3, <2>3 DEF IInv, CellInv
    <3>3. \A i \in 1 .. kBucketSize, j \in 1 .. Len(add.cells) :
            cells'[i].addr = add.cells[j].addr => cells'[i].addr = NoAddr
      BY <1>2, <1>3, <2>3, <3>1
    <3>4. \A i \in 1 .. kBucketSize : cells'[i].addr # NoAddr => cells'[i].val = cells'[i].addr
      BY <1>2, <2>3 DEF IInv, CellInv
    <3> QED BY <2>2, <3>2, <3>3, <3>4 DEF IInv, CellInv
  <2>5. EndInv'
    BY <1>4, <2>2 DEF EndInv
  <2>6. /\ add' \in [gen : Nat, size : Nat, cells : Seq(Cell)]
        /\ add'.size <= Len(add'.cells) /\ (add'.gen # 0 => Len(add'.cells) # 0)
    BY <2>2, WriterFacts
  <2>7. \A i \in 1 .. kBucketSize : cells[i].addr # NoAddr => cells'[i].addr = cells[i].addr
    BY <2>1, <2>3
  <2>8. IInv'
    BY <1>3, <1>5, <2>3, <2>4, <2>5, <2>6, <2>7, WriterGoto DEF Moving
  <2>9. \A a : a \in Present' <=> a \in Present \cup {h[t].addr}
    BY <1>2, <1>3, <2>1, <2>2, <2>3, <2>8, PresentMeans DEF IInv
  <2> QED BY <2>8, <2>9
<1>7. CASE c.in # "embed"
  <2>1. c.i \in 1 .. add.size /\ c.i \in 1 .. Len(add.cells)
    BY <1>1, <1>3, <1>7, WriterFacts
  <2>2. UNCHANGED cells /\ add' = [add EXCEPT !.cells = [add.cells EXCEPT ![c.i] = v]]
    BY <1>3, <1>7 DEF SetCell
  <2>3. /\ [add.cells EXCEPT ![c.i] = v] \in Seq(Cell)
        /\ Len([add.cells EXCEPT ![c.i] = v]) = Len(add.cells)
        /\ \A j \in 1 .. Len(add.cells) :
             [add.cells EXCEPT ![c.i] = v][j] = IF j = c.i THEN v ELSE add.cells[j]
    BY <2>1, WriterFacts, ExceptSeq
  <2>4. /\ add' \in [gen : Nat, size : Nat, cells : Seq(Cell)]
        /\ add'.size = add.size /\ add'.gen = add.gen /\ Len(add'.cells) = Len(add.cells)
        /\ \A j \in 1 .. Len(add.cells) : add'.cells[j] = IF j = c.i THEN v ELSE add.cells[j]
    BY <2>2, <2>3, WriterFacts
  <2>5. CellInv'
    BY <1>2, <1>3, <1>4, <2>2, <2>4 DEF IInv, CellInv, At
  <2>6. EndInv'
    BY <1>4, <2>1, <2>4, WriterFacts DEF EndInv
  <2>7. /\ add'.size <= Len(add'.cells) /\ (add'.gen # 0 => Len(add'.cells) # 0)
        /\ cells' \in [1 .. kBucketSize -> Cell]
    BY <2>2, <2>4, WriterFacts
  <2>8. IInv'
    BY <1>3, <1>5, <2>2, <2>4, <2>5, <2>6, <2>7, WriterGoto DEF Moving
  <2>9. add.cells[c.i].addr = NoAddr
    BY <1>3, <1>7 DEF Deref
  <2>a. \A a : a \in Present' <=> a \in Present \cup {h[t].addr}
    BY <1>2, <1>3, <2>1, <2>2, <2>4, <2>8, <2>9, PresentMeans DEF IInv
  <2> QED BY <2>8, <2>a
<1> QED BY <1>6, <1>7

LEMMA VacateStep == ASSUME IInv, NEW t \in Threads, Vacate(t)
  PROVE  IInv' /\ Present' = Present \ {h[t].addr}
<1>1. PICK c, l : c = h[t].cell /\ l = IF add.size # 0 THEN "moveval" ELSE "unlock"
  OBVIOUS
<1>2. /\ h[t].pc = "held" /\ h[t].remove /\ c.in = "embed" /\ ModeOf(h[t]) = "writing"
      /\ h[t].addr # NoAddr /\ ~ h[t].created
      /\ UNCHANGED <<mode, add>> /\ Goto(t, l) /\ cells' = [cells EXCEPT ![c.i].addr = NoAddr]
  BY <1>1 DEF Vacate, At, ModeOf, Moving, IInv, HandleInv, HandleOK
<1>3. c.i \in 1 .. kBucketSize /\ cells[c.i].addr = h[t].addr
  BY <1>1, <1>2, WriterFacts DEF IInv, PlaceInv, HeldOK, Deref
<1>4. /\ \A u \in Threads : h[u].pc \notin {"moveaddr", "clear"}
      /\ \A j \in 1 .. Len(add.cells) : j > add.size => add.cells[j].addr = NoAddr
  BY <1>2, NothingPastEnd
<1>5. /\ cells' \in [1 .. kBucketSize -> Cell]
      /\ \A i \in 1 .. kBucketSize \ {c.i} : cells'[i] = cells[i]
      /\ cells'[c.i].addr = NoAddr
  <2>1. NoAddr \in Addresses /\ cells \in [1 .. kBucketSize -> Cell]
    BY WriterFacts DEF Addresses
  <2> QED BY <1>2, <1>3, <2>1, EmbedExcept
<1>6. CellInv'
  BY <1>2, <1>4, <1>5 DEF IInv, CellInv, At
<1>7. EndInv'
  BY <1>2, <1>4 DEF EndInv
<1>8. \A y : y.pc = l /\ y.cell = c => MoveOK(y)'
  BY <1>1, <1>2, <1>5 DEF MoveOK, Moving
<1>9. \A i \in 1 .. kBucketSize :
        cells[i].addr # NoAddr /\ (cells[i].addr = h[t].addr => ~ h[t].remove) =>
          cells'[i].addr = cells[i].addr
  BY <1>2, <1>3, <1>5
<1>a. IInv'
  BY <1>1, <1>2, <1>5, <1>6, <1>7, <1>8, <1>9, WriterGoto, WriterFacts DEF Moving
<1>b. \A a : a \in Present' <=> a \in Present \ {h[t].addr}
  <2>1. \A i \in 1 .. kBucketSize : cells[i].addr = h[t].addr => i = c.i
    BY <1>2, <1>3 DEF IInv, CellInv
  <2>2. \A j \in 1 .. Len(add.cells) : add.cells[j].addr # h[t].addr
    BY <1>2, <1>3, <1>4 DEF IInv, CellInv, At
  <2> QED BY <1>2, <1>3, <1>5, <1>a, <2>1, <2>2, PresentMeans DEF IInv
<1> QED BY <1>a, <1>b

\* While an element is moved, by whom and to where
LEMMA MoverFacts ==
  ASSUME IInv, NEW t \in Threads, h[t].pc \in Moving
  PROVE  /\ ModeOf(h[t]) = "writing" /\ h[t].remove /\ h[t].pc # "idle"
         /\ h[t].cell.in = "embed" /\ h[t].cell.i \in 1 .. kBucketSize
         /\ \A u \in Threads \ {t} : h[u].pc \notin Moving
  BY WriterFacts, WriterAlone DEF ModeOf, Moving, IInv, HandleInv, HandleOK

LEMMA MoveValStep == ASSUME IInv, NEW t \in Threads, MoveVal(t)
  PROVE  IInv' /\ Present' = Present
<1>1. PICK c, v : c = h[t].cell /\ v = add.cells[add.size].val
  OBVIOUS
<1>2. PICK k \in Nat : k = add.size
  BY WriterFacts
<1>3. /\ h[t].pc = "moveval" /\ h[t].pc \in Moving /\ UNCHANGED mode /\ Goto(t, "moveaddr")
      /\ add' = [add EXCEPT !.size = k - 1] /\ cells' = [cells EXCEPT ![c.i].val = v]
  BY <1>1, <1>2 DEF MoveVal, At, Moving
<1>4. c.in = "embed" /\ c.i \in 1 .. kBucketSize /\ cells[c.i].addr = NoAddr /\ k # 0
  BY <1>1, <1>2, <1>3, MoverFacts DEF IInv, PlaceInv, MoveOK
<1>5. k \in 1 .. Len(add.cells) /\ v \in Addresses /\ v = add.cells[k].val
  BY <1>1, <1>2, <1>4, WriterFacts DEF Cell
<1>6. /\ cells' \in [1 .. kBucketSize -> Cell]
      /\ \A i \in 1 .. kBucketSize : cells'[i].addr = cells[i].addr
      /\ \A i \in 1 .. kBucketSize \ {c.i} : cells'[i] = cells[i]
      /\ cells'[c.i].val = v
  <2>1. cells \in [1 .. kBucketSize -> Cell]
    BY WriterFacts
  <2>2. /\ cells' \in [1 .. kBucketSize -> Cell]
        /\ \A i \in 1 .. kBucketSize \ {c.i} : cells'[i] = cells[i]
        /\ cells'[c.i].val = v /\ cells'[c.i].addr = cells[c.i].addr
    <3>1. cells' = [cells EXCEPT ![c.i].val = v] /\ c.i \in 1 .. kBucketSize /\ v \in Addresses
      BY <1>3, <1>4, <1>5
    <3> QED BY <2>1, <3>1, EmbedExcept
  <2> QED BY <1>4, <2>2
<1>7. /\ add' \in [gen : Nat, size : Nat, cells : Seq(Cell)]
      /\ add'.cells = add.cells /\ add'.size = k - 1 /\ add'.gen = add.gen
      /\ add'.size <= Len(add'.cells) /\ (add'.gen # 0 => Len(add'.cells) # 0)
  <2>1. add' \in [gen : Nat, size : Nat, cells : Seq(Cell)]
    BY <1>3, <1>5, WriterFacts
  <2>2. add'.cells = add.cells /\ add'.size = k - 1 /\ add'.gen = add.gen
    BY <1>3, WriterFacts
  <2> QED BY <1>5, <2>1, <2>2, WriterFacts
<1>8. /\ \A u \in Threads : h[u].pc \notin {"moveaddr", "clear"}
      /\ \A j \in 1 .. Len(add.cells) : j > k => add.cells[j].addr = NoAddr
  BY <1>2, <1>3, MoverFacts, NothingPastEnd
<1>9. CellInv'
  <2>1. \A i \in 1 .. kBucketSize, j \in 1 .. Len(add.cells) :
          cells[i].addr = add.cells[j].addr => cells[i].addr = NoAddr
    BY <1>8 DEF IInv, CellInv, At
  <2>2. \A i \in 1 .. kBucketSize : cells'[i].addr # NoAddr => cells'[i].val = cells'[i].addr
    BY <1>4, <1>6 DEF IInv, CellInv
  <2> QED BY <1>6, <1>7, <2>1, <2>2 DEF IInv, CellInv
<1>a. EndInv'
  <2>1. h'[t].pc = "moveaddr"
    BY <1>3 DEF Goto, IInv, TypeInv, Handle
  <2> QED BY <1>5, <1>7, <1>8, <2>1, WriterFacts DEF EndInv
<1>b. \A y : y.pc = "moveaddr" /\ y.cell = c => MoveOK(y)'
  <2>1. add'.size + 1 = k /\ add'.size < Len(add'.cells)
    BY <1>5, <1>7, WriterFacts
  <2>2. add.cells[k].addr # NoAddr => v = add.cells[k].addr
    BY <1>5 DEF IInv, CellInv
  <2> QED BY <1>4, <1>6, <1>7, <2>1, <2>2 DEF MoveOK, Moving
<1>c. IInv'
  BY <1>1, <1>3, <1>6, <1>7, <1>9, <1>a, <1>b, MoverFacts, WriterGoto DEF Moving
<1>d. \A a : a \in Present' <=> a \in Present
  BY <1>6, <1>7, <1>c, PresentMeans DEF IInv
<1> QED BY <1>c, <1>d

LEMMA MoveAddrStep == ASSUME IInv, NEW t \in Threads, MoveAddr(t)
  PROVE  IInv' /\ Present' = Present
<1>1. PICK c : c = h[t].cell
  OBVIOUS
<1>k. PICK k \in Nat : k = add.size + 1
  BY WriterFacts
<1>2. PICK a : a = add.cells[k].addr
  OBVIOUS
<1>3. /\ h[t].pc = "moveaddr" /\ h[t].pc \in Moving /\ UNCHANGED <<mode, add>> /\ Goto(t, "clear")
      /\ cells' = [cells EXCEPT ![c.i].addr = a]
  BY <1>k, <1>1, <1>2 DEF MoveAddr, At, Moving
<1>4. /\ c.in = "embed" /\ c.i \in 1 .. kBucketSize /\ cells[c.i].addr = NoAddr
      /\ k \in 1 .. Len(add.cells) /\ (a # NoAddr => cells[c.i].val = a)
  <2>1. c.in = "embed" /\ c.i \in 1 .. kBucketSize
    BY <1>1, <1>3, MoverFacts
  <2>2. MoveOK(h[t])
    BY DEF IInv, PlaceInv
  <2>3. cells[c.i].addr = NoAddr /\ add.size < Len(add.cells) /\ (a # NoAddr => cells[c.i].val = a)
    BY <1>k, <1>1, <1>2, <1>3, <2>2 DEF MoveOK
  <2> QED BY <1>k, <2>1, <2>3, WriterFacts
<1>5. a \in Addresses
  BY <1>2, <1>4, WriterFacts DEF Cell
<1>6. /\ cells' \in [1 .. kBucketSize -> Cell]
      /\ \A i \in 1 .. kBucketSize \ {c.i} : cells'[i] = cells[i]
      /\ cells'[c.i].addr = a /\ cells'[c.i].val = cells[c.i].val
  <2>1. cells \in [1 .. kBucketSize -> Cell]
    BY WriterFacts
  <2> QED BY <1>3, <1>4, <1>5, <2>1, EmbedExcept
<1>7. /\ h'[t].pc = "clear" /\ h'[t].cell = c
      /\ \A u \in Threads : h[u].pc # "clear"
  BY <1>k, <1>1, <1>3, MoverFacts DEF Goto, IInv, TypeInv, Handle, Moving
<1>8. CellInv'
  <2>1. \A i \in 1 .. kBucketSize, j \in 1 .. Len(add.cells) :
          cells[i].addr = add.cells[j].addr => cells[i].addr = NoAddr
    BY <1>7 DEF IInv, CellInv, At
  <2>2. \A j \in 1 .. Len(add.cells) : add.cells[j].addr = a => j = k \/ a = NoAddr
    BY <1>2, <1>4 DEF IInv, CellInv
  <2>3. \A i, j \in 1 .. kBucketSize :
          cells'[i].addr = cells'[j].addr => i = j \/ cells'[i].addr = NoAddr
    BY <1>2, <1>4, <1>6, <2>1 DEF IInv, CellInv
  <2>4. \A i \in 1 .. kBucketSize, j \in 1 .. Len(add'.cells) :
          cells'[i].addr = add'.cells[j].addr /\ cells'[i].addr # NoAddr => i = c.i /\ j = k
    BY <1>3, <1>6, <2>1, <2>2
  <2>5. \A i \in 1 .. kBucketSize : cells'[i].addr # NoAddr => cells'[i].val = cells'[i].addr
    BY <1>4, <1>6 DEF IInv, CellInv
  <2> QED BY <1>k, <1>1, <1>3, <1>7, <2>3, <2>4, <2>5 DEF IInv, CellInv, At
<1>9. EndInv'
  BY <1>3, <1>7 DEF IInv, EndInv
<1>a. \A y : y.pc = "clear" /\ y.cell = c => MoveOK(y)'
  <2>1. add'.size + 1 = k /\ add'.size < Len(add'.cells) /\ add'.cells = add.cells
    BY <1>k, <1>3, <1>4, WriterFacts
  <2> QED BY <1>2, <1>4, <1>6, <2>1 DEF MoveOK, Moving
<1>b. \A i \in 1 .. kBucketSize : cells[i].addr # NoAddr => cells'[i].addr = cells[i].addr
  BY <1>4, <1>6
<1>c. /\ add' \in [gen : Nat, size : Nat, cells : Seq(Cell)]
      /\ add'.size <= Len(add'.cells) /\ (add'.gen # 0 => Len(add'.cells) # 0)
  BY <1>3, WriterFacts
<1>d. IInv'
  BY <1>k, <1>1, <1>3, <1>6, <1>8, <1>9, <1>a, <1>b, <1>c, MoverFacts, WriterGoto DEF Moving
<1>e. \A x : x \in Present' <=> x \in Present
  BY <1>2, <1>3, <1>4, <1>6, <1>d, PresentMeans DEF IInv
<1> QED BY <1>d, <1>e

LEMMA ClearLastStep == ASSUME IInv, NEW t \in Threads, ClearLast(t)
  PROVE  IInv' /\ Present' = Present
<1>1. PICK c : c = h[t].cell
  OBVIOUS
<1>k. PICK k \in Nat : k = add.size + 1
  BY WriterFacts
<1>2. PICK e : e = [add.cells[k] EXCEPT !.addr = NoAddr]
  OBVIOUS
<1>3. /\ h[t].pc = "clear" /\ h[t].pc \in Moving /\ UNCHANGED <<mode, cells>> /\ Goto(t, "unlock")
      /\ add' = [add EXCEPT !.cells = [add.cells EXCEPT ![k] = e]]
  BY <1>k, <1>1, <1>2 DEF ClearLast, At, Moving
<1>4. k \in 1 .. Len(add.cells)
  BY <1>k, <1>1, <1>3, WriterFacts DEF IInv, PlaceInv, MoveOK
<1>5. e \in Cell /\ e.addr = NoAddr
  BY <1>2, <1>4, WriterFacts DEF Cell, Addresses
<1>6. /\ [add.cells EXCEPT ![k] = e] \in Seq(Cell)
      /\ Len([add.cells EXCEPT ![k] = e]) = Len(add.cells)
      /\ \A j \in 1 .. Len(add.cells) :
           [add.cells EXCEPT ![k] = e][j] = IF j = k THEN e ELSE add.cells[j]
  BY <1>4, <1>5, WriterFacts, ExceptSeq
<1>7. /\ add' \in [gen : Nat, size : Nat, cells : Seq(Cell)]
      /\ add'.size = add.size /\ add'.gen = add.gen /\ Len(add'.cells) = Len(add.cells)
      /\ \A j \in 1 .. Len(add.cells) : add'.cells[j] = IF j = k THEN e ELSE add.cells[j]
      /\ add'.size <= Len(add'.cells) /\ (add'.gen # 0 => Len(add'.cells) # 0)
  BY <1>3, <1>6, WriterFacts
<1>8. \A i \in 1 .. kBucketSize, j \in 1 .. Len(add.cells) :
        cells[i].addr = add.cells[j].addr /\ cells[i].addr # NoAddr => j = k
  BY <1>k, <1>1 DEF IInv, CellInv
<1>9. CellInv'
  BY <1>3, <1>5, <1>7, <1>8 DEF IInv, CellInv
<1>a. EndInv'
  BY <1>k, <1>1, <1>5, <1>7 DEF IInv, EndInv
<1>b. \A y : y.pc = "unlock" => MoveOK(y)'
  BY DEF MoveOK, Moving
<1>c. cells' \in [1 .. kBucketSize -> Cell]
  BY <1>3, WriterFacts
<1>d. IInv'
  BY <1>3, <1>7, <1>9, <1>a, <1>b, <1>c, MoverFacts, WriterGoto DEF Moving
<1>e. c.i \in 1 .. kBucketSize /\ cells[c.i].addr = add.cells[k].addr
  BY <1>k, <1>1, <1>3, MoverFacts DEF IInv, PlaceInv, MoveOK
<1>f. \A a : a \in Present' <=> a \in Present
  BY <1>3, <1>4, <1>5, <1>7, <1>d, <1>e, PresentMeans DEF IInv
<1> QED BY <1>d, <1>f

LEMMA RemoveAddedStep == ASSUME IInv, NEW t \in Threads, RemoveAdded(t)
  PROVE  IInv' /\ Present' = Present \ {h[t].addr}
<1>1. PICK c : c = h[t].cell
  OBVIOUS
<1>k. PICK k \in Nat : k = add.size
  BY WriterFacts
<1> DEFINE vacated == [add.cells EXCEPT ![c.i].addr = NoAddr]
           after == IF c.i = k THEN vacated
                    ELSE [vacated EXCEPT ![c.i] = vacated[k], ![k].addr = NoAddr]
<1>2. /\ h[t].pc = "held" /\ h[t].remove /\ c.in = "add" /\ ModeOf(h[t]) = "writing"
      /\ UNCHANGED <<mode, cells>> /\ Goto(t, "unlock")
      /\ add' = [add EXCEPT !.size = k - 1, !.cells = after]
  BY <1>k, <1>1 DEF RemoveAdded, At, ModeOf, Moving
<1>3. c.i \in 1 .. k /\ k \in 1 .. Len(add.cells) /\ c.i \in 1 .. Len(add.cells)
  <2>1. k <= Len(add.cells) /\ Len(add.cells) \in Nat
    BY <1>k, WriterFacts
  <2>2. c.i \in 1 .. k
    BY <1>k, <1>1, <1>2, WriterFacts
  <2> QED BY <2>1, <2>2
<1>4. /\ \A u \in Threads : h[u].pc \notin {"moveaddr", "clear"}
      /\ \A j \in 1 .. Len(add.cells) : j > k => add.cells[j].addr = NoAddr
  BY <1>k, <1>1, <1>2, NothingPastEnd
<1>5. /\ vacated \in Seq(Cell) /\ Len(vacated) = Len(add.cells)
      /\ vacated[c.i].addr = NoAddr
      /\ \A j \in 1 .. Len(add.cells) : j # c.i => vacated[j] = add.cells[j]
  <2> DEFINE e == [add.cells[c.i] EXCEPT !.addr = NoAddr]
  <2>1. e \in Cell /\ e.addr = NoAddr
    <3>1. add.cells[c.i] \in Cell /\ NoAddr \in Addresses
      BY <1>3, WriterFacts DEF Addresses
    <3> QED BY <3>1, CellExcept
  <2>2. vacated = [add.cells EXCEPT ![c.i] = e]
    OBVIOUS
  <2> HIDE DEF e, vacated
  <2> QED BY <1>3, <2>1, <2>2, WriterFacts, ExceptSeq
<1> HIDE DEF vacated
<1>6. /\ after \in Seq(Cell) /\ Len(after) = Len(add.cells) /\ after[k].addr = NoAddr
      /\ c.i # k => after[c.i] = add.cells[k]
      /\ \A j \in 1 .. Len(add.cells) : j \notin {c.i, k} => after[j] = add.cells[j]
  <2>1. CASE c.i = k
    BY <1>5, <2>1
  <2>2. CASE c.i # k
    <3> DEFINE mid == [vacated EXCEPT ![c.i] = vacated[k]]
    <3>1. vacated[k] = add.cells[k] /\ vacated[k] \in Cell
      BY <1>3, <1>5, <2>2, WriterFacts
    <3>2. /\ mid \in Seq(Cell) /\ Len(mid) = Len(add.cells)
          /\ \A j \in 1 .. Len(add.cells) : mid[j] = IF j = c.i THEN add.cells[k] ELSE vacated[j]
      BY <1>3, <1>5, <3>1, ExceptSeq
    <3> DEFINE e == [mid[k] EXCEPT !.addr = NoAddr]
    <3>3. e \in Cell /\ e.addr = NoAddr
      <4>1. mid[k] \in Cell /\ NoAddr \in Addresses
        BY <1>3, <1>5, <2>2, <3>1, <3>2 DEF Addresses
      <4> HIDE DEF mid
      <4> QED BY <4>1, CellExcept
    <3>4. after = [mid EXCEPT ![k] = e]
      BY <2>2
    <3> HIDE DEF mid, after, e
    <3>5. /\ after \in Seq(Cell) /\ Len(after) = Len(add.cells)
          /\ \A j \in 1 .. Len(add.cells) : after[j] = IF j = k THEN e ELSE mid[j]
      BY <1>3, <3>2, <3>3, <3>4, ExceptSeq
    <3> QED BY <1>3, <1>5, <2>2, <3>2, <3>3, <3>5
  <2> QED BY <2>1, <2>2
<1> HIDE DEF after
<1>7. /\ add' \in [gen : Nat, size : Nat, cells : Seq(Cell)]
      /\ add'.cells = after /\ add'.size = k - 1 /\ add'.gen = add.gen
      /\ add'.size <= Len(add'.cells) /\ (add'.gen # 0 => Len(add'.cells) # 0)
  <2>1. add' \in [gen : Nat, size : Nat, cells : Seq(Cell)]
    <3>1. k - 1 \in Nat
      BY <1>3
    <3> QED BY <1>2, <1>6, <3>1, WriterFacts
  <2>2. add'.cells = after /\ add'.size = k - 1 /\ add'.gen = add.gen
    BY <1>2, WriterFacts
  <2> QED BY <1>3, <1>6, <2>1, <2>2, WriterFacts
<1>8. CellInv'
  <2>1. \A i \in 1 .. kBucketSize, j \in 1 .. Len(add.cells) :
          cells[i].addr = add.cells[j].addr => cells[i].addr = NoAddr
    BY <1>4 DEF IInv, CellInv, At
  <2>2. \A j \in 1 .. Len(add.cells) : after[j].addr # NoAddr =>
          j # k /\ after[j] = add.cells[IF j = c.i THEN k ELSE j]
    BY <1>3, <1>6
  <2>3. \A i, j \in 1 .. Len(add.cells) :
          add.cells[i].addr = add.cells[j].addr => i = j \/ add.cells[i].addr = NoAddr
    BY DEF IInv, CellInv
  <2>4. \A i, j \in 1 .. Len(add.cells) :
          after[i].addr = after[j].addr => i = j \/ after[i].addr = NoAddr
    BY <1>3, <2>2, <2>3
  <2>5. \A i \in 1 .. kBucketSize, j \in 1 .. Len(add.cells) :
          cells[i].addr = after[j].addr => cells[i].addr = NoAddr
    BY <1>3, <2>1, <2>2
  <2>6. \A j \in 1 .. Len(add.cells) : after[j].addr # NoAddr => after[j].val = after[j].addr
    BY <1>3, <2>2 DEF IInv, CellInv
  <2> QED BY <1>2, <1>6, <1>7, <2>4, <2>5, <2>6 DEF IInv, CellInv
<1>9. EndInv'
  <2>1. \A j \in 1 .. Len(add.cells) : j > k - 1 => after[j].addr = NoAddr
    BY <1>3, <1>4, <1>6, WriterFacts
  <2> QED BY <1>6, <1>7, <2>1 DEF EndInv
<1>a. \A y : y.pc = "unlock" => MoveOK(y)'
  BY DEF MoveOK, Moving
<1>b. cells' \in [1 .. kBucketSize -> Cell]
  BY <1>2, WriterFacts
<1>c. IInv'
  BY <1>2, <1>7, <1>8, <1>9, <1>a, <1>b, WriterGoto DEF Moving
<1>d. \A a : a \in Present' <=> a \in Present \ {h[t].addr}
  <2>1. add.cells[c.i].addr = h[t].addr /\ h[t].addr # NoAddr
    BY <1>1, <1>2, WriterFacts DEF RemoveAdded, ReleaseChecks, Deref, IInv, HandleInv, HandleOK
  <2>2. \A i \in 1 .. kBucketSize : cells[i].addr # h[t].addr
    BY <1>3, <1>4, <2>1 DEF IInv, CellInv, At
  <2>3. \A j \in 1 .. Len(add.cells) : j = c.i <=> add.cells[j].addr = h[t].addr
    BY <1>3, <2>1 DEF IInv, CellInv
  <2>4. \A a : a # NoAddr => ((\E j \in 1 .. Len(add.cells) : after[j].addr = a)
          <=> (\E j \in 1 .. Len(add.cells) : j # c.i /\ add.cells[j].addr = a))
    BY <1>3, <1>5, <1>6
  <2>5. \A a : a \in Present' <=>
                 /\ a # NoAddr
                 /\ \/ \E i \in 1 .. kBucketSize : cells[i].addr = a
                    \/ \E j \in 1 .. Len(add.cells) : after[j].addr = a
    BY <1>2, <1>6, <1>7, <1>c, PresentMeans DEF IInv
  <2>6. \A a : a \in Present <=>
                 /\ a # NoAddr
                 /\ \/ \E i \in 1 .. kBucketSize : cells[i].addr = a
                    \/ \E j \in 1 .. Len(add.cells) : add.cells[j].addr = a
    BY <1>c, PresentMeans DEF IInv
  <2>7. ASSUME NEW a PROVE a \in Present' <=> a \in Present /\ a # h[t].addr
    <3>1. CASE a = h[t].addr
      BY <2>2, <2>3, <2>4, <2>5, <3>1
    <3>2. CASE a # h[t].addr
      BY <2>3, <2>4, <2>5, <2>6, <3>2
    <3> QED BY <3>1, <3>2
  <2> QED BY <2>7
<1> QED BY <1>c, <1>d

-----------------------------------------------------------------------------
(* The invariant *)

LEMMA InitIInv == Init => IInv
<1> SUFFICES ASSUME Init PROVE IInv
  OBVIOUS
<1>1. NoHandle \in Handle /\ NoHandle.pc = "idle" /\ NoHandle.addr = NoAddr /\ ~ NoHandle.created
  <2>1. NoCell \in Pointer /\ 1 \in 1 .. kBucketSize
    BY BucketAssumption DEF Pointer
  <2> QED BY <2>1 DEF NoHandle, Handle, Addresses
<1>2. /\ \A t \in Threads : h[t] = NoHandle
      /\ \A i \in 1 .. kBucketSize : cells[i] = Empty
      /\ add.gen = 0 /\ add.size = 0 /\ Len(add.cells) = 0
  BY EmptySeq DEF Init
<1>3. TypeInv
  <2>1. Empty \in Cell /\ <<>> \in Seq(Cell)
    BY EmptySeq DEF Empty, Cell, Addresses
  <2> QED BY <1>1, <1>2, <2>1 DEF Init, TypeInv
<1>4. LockInv
  <2>1. ModeOf(NoHandle) = "out"
    BY <1>1 DEF ModeOf, Moving
  <2> QED BY <1>2, <2>1 DEF Init, LockInv, Mtx!Init, Mtx!Out, Mtx!Exclusion
<1>5. HandleInv
  BY <1>1, <1>2 DEF HandleInv, HandleOK, Agree, Searching, Asking, Moving
<1>6. CellInv /\ EndInv
  BY <1>2 DEF CellInv, EndInv, Empty
<1>7. PlaceInv
  BY <1>1, <1>2 DEF PlaceInv, HeldOK, MoveOK, Moving
<1> QED BY <1>3, <1>4, <1>5, <1>6, <1>7 DEF IInv

LEMMA NextIInv == IInv /\ [Next]_vars => IInv'
<1> SUFFICES ASSUME IInv, [Next]_vars PROVE IInv'
  OBVIOUS
<1>1. CASE UNCHANGED vars
  <2> USE <1>1 DEF vars
  <2>1. TypeInv' /\ LockInv' /\ HandleInv'
    BY DEF IInv, TypeInv, LockInv, Mtx!Exclusion, HandleInv, HandleOK, Agree
  <2>2. CellInv' /\ EndInv'
    BY DEF IInv, CellInv, EndInv, At
  <2>3. PlaceInv'
    BY DEF IInv, PlaceInv, HeldOK, MoveOK, Deref
  <2> QED BY <2>1, <2>2, <2>3 DEF IInv
<1>2. ASSUME NEW t \in Threads, Call(t) PROVE IInv'
  BY <1>2, CallStep
<1>3. ASSUME NEW t \in Threads, ScanEmbed(t) PROVE IInv'
  BY <1>3, ScanStep
<1>4. ASSUME NEW t \in Threads, ReadLock(t) PROVE IInv'
  BY <1>4, ReadLockStep
<1>5. ASSUME NEW t \in Threads, LoadAdd(t) \/ ReadUnlock(t) \/ AskAgain(t) \/ Lock(t) \/ Missing(t)
      PROVE IInv'
  BY <1>5, GoStep
<1>6. ASSUME NEW t \in Threads, FoundLocked(t) PROVE IInv'
  BY <1>6, FoundLockedStep
<1>7. ASSUME NEW t \in Threads, Create(t) PROVE IInv'
  BY <1>7, CreateStep
<1>8. ASSUME NEW t \in Threads, ReleaseCreated(t) PROVE IInv'
  BY <1>8, ReleaseCreatedStep
<1>9. ASSUME NEW t \in Threads, Unlock(t) \/ ReleaseFound(t) PROVE IInv'
  BY <1>9, DoneStep
<1>a. ASSUME NEW t \in Threads, Vacate(t) \/ RemoveAdded(t) PROVE IInv'
  BY <1>a, VacateStep, RemoveAddedStep
<1>b. ASSUME NEW t \in Threads, MoveVal(t) \/ MoveAddr(t) \/ ClearLast(t) PROVE IInv'
  BY <1>b, MoveValStep, MoveAddrStep, ClearLastStep
<1> QED BY <1>1, <1>2, <1>3, <1>4, <1>5, <1>6, <1>7, <1>8, <1>9, <1>a, <1>b DEF Next

\* The invariant of the bucket: who has its lock, what every handle may rely on,
\* and where the element of an address is while a thread moves it
THEOREM Inductive == Spec => []IInv
BY InitIInv, NextIInv, PTL DEF Spec

\* No CHECK of acquire or release fails: a new cell is empty, a found one still
\* holds its address when the handle is released
THEOREM ChecksPass == Spec => []NoCheckFails
<1>1. IInv => NoCheckFails
  BY DEF IInv, TypeInv, Handle, Asking, Searching, Moving, PlaceInv, HeldOK, NoCheckFails,
     ReleaseChecks, At
<1> QED BY <1>1, Inductive, PTL

\* Handles point into the array in use, hold the element they found, and keep the
\* bucket locked when somebody else could move it
THEOREM HandlesStayValid == Spec => []HandlesValid
<1>1. IInv => HandlesValid
  <2> SUFFICES ASSUME IInv, NEW t \in Threads, At(t, "held")
               PROVE  /\ h[t].cell.in = "add" => h[t].cell.gen = add.gen /\ h[t].cell.i <= add.size
                      /\ ~ h[t].created => Deref(h[t].cell).val = h[t].addr
                      /\ mode[t] = IF h[t].created \/ h[t].remove THEN "writing"
                                   ELSE IF h[t].cell.in = "add" THEN "reading" ELSE "out"
    BY DEF HandlesValid
  <2>1. h[t].cell.in = "add" => h[t].cell.gen = add.gen /\ h[t].cell.i \in 1 .. add.size
    BY DEF IInv, PlaceInv, HeldOK, At
  <2>2. ASSUME ~ h[t].created PROVE Deref(h[t].cell).val = h[t].addr
    <3>1. Deref(h[t].cell).addr = h[t].addr /\ h[t].addr # NoAddr
      BY <2>2 DEF IInv, PlaceInv, HeldOK, HandleInv, HandleOK, At
    <3>2. \/ h[t].cell.in = "embed" /\ h[t].cell.i \in 1 .. kBucketSize
          \/ h[t].cell.in = "add" /\ h[t].cell.i \in 1 .. Len(add.cells)
      BY WriterFacts DEF At
    <3> QED BY <3>1, <3>2 DEF IInv, CellInv, Deref
  <2>3. mode[t] = IF h[t].created \/ h[t].remove THEN "writing"
                  ELSE IF h[t].cell.in = "add" THEN "reading" ELSE "out"
    BY LockFacts DEF ModeOf, Moving, At
  <2> QED BY <2>1, <2>2, <2>3, WriterFacts
<1> QED BY <1>1, Inductive, PTL

-----------------------------------------------------------------------------
(* What AddrMap promises *)

\* What AddrMap sees of a handle
LEMMA Seen ==
  ASSUME NEW x \in Handle
  PROVE  LET m == HandleOf(x)
         IN  /\ x.pc = "idle" => m = [is |-> "idle"]
             /\ x.pc # "idle" => m = Promise!A(m.is, x.addr) /\ m.addr = x.addr
             /\ x.pc = "held" =>
                  m.is = IF x.created THEN "created" ELSE IF x.remove THEN "removing" ELSE "found"
             /\ x.pc \in Moving \cup {"unlock"} => m.is = "leaving"
             /\ x.pc \in Asking =>
                  m.is = IF x.remove THEN "remove" ELSE IF x.create THEN "get" ELSE "find"
<1>1. x.pc \in Asking \cup Moving \cup {"idle", "held", "unlock"}
  BY DEF Handle
<1>2. CASE x.pc = "idle"
  BY <1>2 DEF HandleOf, Asking, Searching, Moving
<1>3. CASE x.pc = "held"
  BY <1>3 DEF HandleOf, Asking, Searching, Moving, Promise!A
<1>4. CASE x.pc \in Moving \cup {"unlock"}
  BY <1>4 DEF HandleOf, Asking, Searching, Moving, Promise!A
<1>5. CASE x.pc \in Asking
  BY <1>5 DEF HandleOf, Asking, Searching, Moving, Promise!A
<1> QED BY <1>1, <1>2, <1>3, <1>4, <1>5

\* Who holds an address
LEMMA HeldMeans ==
  ASSUME IInv, NEW a, NEW u \in Promise!Held(a)
  PROVE  /\ u \in Threads /\ h[u].pc = "held" /\ h[u].addr = a
         /\ HandleOf(h[u]).is = MapHandle[u].is
         /\ ~ h[u].created /\ ~ h[u].remove => MapHandle[u].is = "found"
<1>1. u \in Threads /\ h[u] \in Handle /\ MapHandle[u] = HandleOf(h[u])
  BY DEF Promise!Held, IInv, TypeInv, MapHandle
<1>2. PICK is \in {"found", "created", "removing"} : HandleOf(h[u]) = [is |-> is, addr |-> a]
  BY <1>1 DEF Promise!Held, Promise!A, MapHandle
<1>3. HandleOf(h[u]).is \in {"found", "created", "removing"} /\ HandleOf(h[u]).addr = a
  BY <1>2
<1>4. h[u].pc \in Asking \cup Moving \cup {"idle", "held", "unlock"}
  BY <1>1 DEF Handle
<1>5. h[u].pc = "held"
  BY <1>1, <1>3, <1>4, Seen
<1> QED BY <1>1, <1>3, <1>5, Seen

\* A step is one of its thread
LEMMA MapHandleStep ==
  ASSUME IInv, IInv', NEW t \in Threads, NEW x, h' = [h EXCEPT ![t] = x]
  PROVE  /\ x \in Handle /\ h'[t] = x /\ h[t] \in Handle
         /\ MapHandle' = [MapHandle EXCEPT ![t] = HandleOf(x)]
         /\ MapHandle[t] = HandleOf(h[t])
<1>1. h \in [Threads -> Handle] /\ h' \in [Threads -> Handle]
  BY DEF IInv, TypeInv
<1> QED BY <1>1 DEF MapHandle

\* Steps AddrMap does not see
LEMMA UnseenStep ==
  ASSUME IInv, IInv', NEW t \in Threads, NEW x, h' = [h EXCEPT ![t] = x],
         Present' = Present, x.addr = h[t].addr, x.remove = h[t].remove, x.create = h[t].create,
         \/ h[t].pc \in Asking /\ x.pc \in Asking
         \/ h[t].pc \in Moving \cup {"unlock"} /\ x.pc \in Moving \cup {"unlock"}
  PROVE  UNCHANGED <<Present, MapHandle>>
<1>1. /\ x \in Handle /\ h[t] \in Handle /\ MapHandle[t] = HandleOf(h[t])
      /\ MapHandle' = [MapHandle EXCEPT ![t] = HandleOf(x)]
  BY MapHandleStep
<1>2. h[t].pc # "idle" /\ x.pc # "idle"
  BY DEF Asking, Searching, Moving
<1>3. HandleOf(x) = Promise!A(HandleOf(x).is, x.addr)
  BY <1>1, <1>2, Seen
<1>4. HandleOf(h[t]) = Promise!A(HandleOf(h[t]).is, h[t].addr)
  BY <1>1, <1>2, Seen
<1>5. HandleOf(x).is = HandleOf(h[t]).is
  BY <1>1, Seen
<1>6. HandleOf(x) = HandleOf(h[t])
  BY <1>3, <1>4, <1>5
<1> QED BY <1>1, <1>6 DEF MapHandle

\* Steps of AddrMap that leave the handle with its address
LEMMA BecomesStep ==
  ASSUME IInv, IInv', NEW t \in Threads, NEW x, h' = [h EXCEPT ![t] = x],
         h[t].pc # "idle", x.pc # "idle", x.addr = h[t].addr
  PROVE  Promise!Becomes(t, HandleOf(x).is) /\ MapHandle[t].addr = h[t].addr
<1>1. /\ x \in Handle /\ h[t] \in Handle /\ MapHandle[t] = HandleOf(h[t])
      /\ MapHandle' = [MapHandle EXCEPT ![t] = HandleOf(x)]
  BY MapHandleStep
<1>2. HandleOf(x) = Promise!A(HandleOf(x).is, x.addr)
  BY <1>1, Seen
<1>3. HandleOf(h[t]).addr = h[t].addr
  BY <1>1, Seen
<1> QED BY <1>1, <1>2, <1>3 DEF Promise!Becomes

\* An element is found, whatever cell it was found in
LEMMA FindMapped ==
  ASSUME IInv, IInv', NEW t \in Threads, NEW x, h' = [h EXCEPT ![t] = x],
         UNCHANGED <<cells, add>>, h[t].pc \in Asking, x.pc = "held", ~ x.created,
         x.addr = h[t].addr, x.remove = h[t].remove,
         \/ \E i \in 1 .. kBucketSize : cells[i].addr = h[t].addr
         \/ \E j \in 1 .. Len(add.cells) : add.cells[j].addr = h[t].addr
  PROVE  /\ ~ h[t].remove => Promise!Find(t)
         /\ h[t].remove /\ h[t].pc = "locked" => Promise!Take(t)
<1> DEFINE a == h[t].addr
<1>1. /\ x \in Handle /\ h[t] \in Handle /\ MapHandle[t] = HandleOf(h[t])
  BY MapHandleStep
<1>2. h[t].pc # "idle" /\ a # NoAddr
  BY DEF Asking, Searching, IInv, HandleInv, HandleOK
<1>3. Promise!Becomes(t, HandleOf(x).is) /\ MapHandle[t].addr = a
  BY <1>2, BecomesStep
<1>4. a \in Present /\ Present' = Present
  <2>1. Present' = Present
    BY DEF Present
  <2>2. a \in Present
    BY <1>2, PresentMeans DEF IInv
  <2> QED BY <2>1, <2>2
<1>5. \A u \in Promise!Held(a) : ~ h[u].created /\ h[u].remove = h[t].remove
  <2> SUFFICES ASSUME NEW u \in Promise!Held(a)
               PROVE  ~ h[u].created /\ h[u].remove = h[t].remove
    OBVIOUS
  <2>1. u \in Threads /\ h[u].pc = "held" /\ h[u].addr = a
    BY HeldMeans
  <2> QED BY <2>1 DEF IInv, HandleInv, Agree, PlaceInv, HeldOK
<1>6. CASE ~ h[t].remove
  <2>1. \A u \in Promise!Held(a) : MapHandle[u].is = "found"
    BY <1>5, <1>6, HeldMeans
  <2>2. MapHandle[t].is \in {"get", "find"} /\ HandleOf(x).is = "found"
    BY <1>1, <1>6, Seen
  <2> QED BY <1>3, <1>4, <1>6, <2>1, <2>2 DEF Promise!Find
<1>7. CASE h[t].remove /\ h[t].pc = "locked"
  <2>1. ModeOf(h[t]) = "writing"
    BY <1>7 DEF ModeOf
  <2>2. Promise!Held(a) = {}
    <3> SUFFICES ASSUME NEW u \in Promise!Held(a) PROVE FALSE
      OBVIOUS
    <3>1. u \in Threads /\ h[u].pc = "held"
      BY HeldMeans
    <3>2. u # t /\ h[u].remove
      BY <1>5, <1>7, <3>1
    <3> QED BY <2>1, <3>1, <3>2, WriterAlone
  <2>3. MapHandle[t].is = "remove" /\ HandleOf(x).is = "removing"
    BY <1>1, <1>7, Seen
  <2> QED BY <1>3, <1>4, <1>7, <2>2, <2>3 DEF Promise!Take
<1> QED BY <1>6, <1>7

\* A thread asks
LEMMA CallMapped == ASSUME IInv, IInv', NEW t \in Threads, Call(t) PROVE Promise!Ask(t)
<1>1. PICK a \in Addrs, remove \in BOOLEAN, create \in BOOLEAN :
        h' = [h EXCEPT ![t] = [NoHandle EXCEPT !.pc = IF remove THEN "lock" ELSE "scan",
                                 !.addr = a, !.remove = remove, !.create = create]]
  BY DEF Call
<1>2. PICK x : x = [NoHandle EXCEPT !.pc = IF remove THEN "lock" ELSE "scan",
                                    !.addr = a, !.remove = remove, !.create = create]
  OBVIOUS
<1>3. x.pc \in {"lock", "scan"} /\ x.addr = a
  BY <1>2 DEF NoHandle
<1>4. h' = [h EXCEPT ![t] = x] /\ h[t].pc = "idle" /\ UNCHANGED <<cells, add>>
  BY <1>1, <1>2 DEF Call, At
<1>5. /\ x \in Handle /\ h[t] \in Handle /\ MapHandle[t] = HandleOf(h[t])
      /\ MapHandle' = [MapHandle EXCEPT ![t] = HandleOf(x)]
  BY <1>4, MapHandleStep
<1>6. MapHandle[t] = Promise!Idle
  BY <1>4, <1>5, Seen DEF Promise!Idle
<1>7. HandleOf(x) = Promise!A(HandleOf(x).is, a) /\ HandleOf(x).is \in Promise!Ops
  BY <1>3, <1>5, Seen DEF Promise!Ops, Asking, Searching
<1>8. Present' = Present
  BY <1>4 DEF Present
<1> QED BY <1>5, <1>6, <1>7, <1>8 DEF Promise!Ask

\* A search goes on, or it has found its element
LEMMA SearchMapped ==
  ASSUME IInv, IInv', NEW t \in Threads,
         ScanEmbed(t) \/ LoadAdd(t) \/ ReadLock(t) \/ ReadUnlock(t) \/ AskAgain(t) \/ Lock(t)
  PROVE  Promise!Find(t) \/ UNCHANGED <<Present, MapHandle>>
<1>1. h \in [Threads -> Handle] /\ h[t] \in Handle
  BY DEF IInv, TypeInv
<1>2. UNCHANGED <<cells, add>> /\ Present' = Present /\ h[t].pc \in Asking
  BY DEF ScanEmbed, LoadAdd, ReadLock, ReadUnlock, AskAgain, Lock, At, Asking, Searching, Present
<1>3. ~ h[t].created /\ (h[t].pc \in Searching => ~ h[t].remove)
  BY <1>2 DEF IInv, HandleInv, HandleOK, Asking, Searching, Moving
<1>4. ASSUME NEW l \in Asking, Goto(t, l) PROVE UNCHANGED <<Present, MapHandle>>
  <2>1. PICK x : x = [h[t] EXCEPT !.pc = l]
    OBVIOUS
  <2>2. h' = [h EXCEPT ![t] = x]
    BY <1>4, <2>1 DEF Goto
  <2>3. x.addr = h[t].addr /\ x.remove = h[t].remove /\ x.create = h[t].create /\ x.pc = l
    BY <1>1, <2>1 DEF Handle
  <2> QED BY <1>2, <2>2, <2>3, UnseenStep
<1>5. ASSUME NEW c, Got(t, c), ~ h[t].remove,
             \/ \E i \in 1 .. kBucketSize : cells[i].addr = h[t].addr
             \/ \E j \in 1 .. Len(add.cells) : add.cells[j].addr = h[t].addr
      PROVE  Promise!Find(t)
  <2>1. PICK x : x = [h[t] EXCEPT !.pc = "held", !.cell = c]
    OBVIOUS
  <2>2. h' = [h EXCEPT ![t] = x]
    BY <1>5, <2>1 DEF Got
  <2>3. x.addr = h[t].addr /\ x.remove = h[t].remove /\ x.created = h[t].created /\ x.pc = "held"
    BY <1>1, <2>1 DEF Handle
  <2> QED BY <1>2, <1>3, <1>5, <2>2, <2>3, FindMapped
<1>6. CASE ScanEmbed(t)
  <2>1. h[t].i \in 1 .. kBucketSize /\ h[t].pc = "scan"
    BY <1>1, <1>6 DEF Handle, ScanEmbed, At
  <2>2. CASE cells[h[t].i].addr = h[t].addr
    BY <1>3, <1>5, <1>6, <2>1, <2>2 DEF ScanEmbed, Searching
  <2>3. CASE cells[h[t].i].addr # h[t].addr /\ h[t].i < kBucketSize
    <3>1. PICK x : x = [h[t] EXCEPT !.i = h[t].i + 1]
      OBVIOUS
    <3>2. h' = [h EXCEPT ![t] = x]
      BY <1>6, <2>3, <3>1 DEF ScanEmbed
    <3>3. x.addr = h[t].addr /\ x.remove = h[t].remove /\ x.create = h[t].create /\ x.pc = h[t].pc
      BY <1>1, <3>1 DEF Handle
    <3> QED BY <1>2, <3>2, <3>3, UnseenStep
  <2>4. CASE cells[h[t].i].addr # h[t].addr /\ ~ h[t].i < kBucketSize
    BY <1>4, <1>6, <2>4 DEF ScanEmbed, Asking, Searching
  <2> QED BY <2>2, <2>3, <2>4
<1>7. CASE ReadLock(t)
  <2>1. CASE AddedWith(h[t].addr) = {}
    BY <1>4, <1>7, <2>1 DEF ReadLock, Asking, Searching
  <2>2. CASE AddedWith(h[t].addr) # {}
    <3>1. PICK i \in AddedWith(h[t].addr) : Got(t, Added(i))
      BY <1>7, <2>2 DEF ReadLock
    <3>2. i \in 1 .. Len(add.cells) /\ add.cells[i].addr = h[t].addr
      BY WriterFacts DEF AddedWith
    <3>3. ~ h[t].remove
      BY <1>3, <1>7 DEF ReadLock, At, Searching
    <3> QED BY <1>5, <3>1, <3>2, <3>3
  <2> QED BY <2>1, <2>2
<1>8. CASE LoadAdd(t) \/ ReadUnlock(t) \/ AskAgain(t) \/ Lock(t)
  BY <1>4, <1>8 DEF LoadAdd, ReadUnlock, AskAgain, Lock, Asking, Searching
<1> QED BY <1>6, <1>7, <1>8

\* What is looked for under the lock
LEMMA ExistingMeans ==
  ASSUME IInv, NEW a
  PROVE  Existing(a) # {} <=> \/ \E i \in 1 .. kBucketSize : cells[i].addr = a
                              \/ \E j \in 1 .. add.size : add.cells[j].addr = a
<1>1. Existing(a) # {} <=> EmbedWith(a) # {} \/ AddedWith(a) # {}
  BY DEF Existing
<1>2. DOMAIN cells = 1 .. kBucketSize
  BY DEF IInv, TypeInv
<1>3. EmbedWith(a) # {} <=> \E i \in 1 .. kBucketSize : cells[i].addr = a
  BY <1>2 DEF EmbedWith
<1>4. AddedWith(a) # {} <=> \E j \in 1 .. add.size : add.cells[j].addr = a
  BY DEF AddedWith
<1> QED BY <1>1, <1>3, <1>4

\* Under the lock a search ends for good, or begins again
LEMMA LockedMapped ==
  ASSUME IInv, IInv', NEW t \in Threads, FoundLocked(t) \/ Missing(t)
  PROVE  Promise!Take(t) \/ Promise!Miss(t) \/ UNCHANGED <<Present, MapHandle>>
<1>1. h \in [Threads -> Handle] /\ h[t] \in Handle
  BY DEF IInv, TypeInv
<1>2. UNCHANGED <<cells, add>> /\ Present' = Present /\ h[t].pc = "locked" /\ h[t].pc \in Asking
  BY DEF FoundLocked, Missing, At, Asking, Searching, Present
<1>3. ~ h[t].created /\ h[t].addr \in Addrs /\ h[t].addr # NoAddr
  BY <1>1, <1>2, BucketAssumption DEF IInv, HandleInv, HandleOK, Handle, Addresses
<1>4. CASE FoundLocked(t) /\ h[t].remove
  <2>1. PICK c \in Existing(h[t].addr) : Got(t, c)
    BY <1>4 DEF FoundLocked
  <2>2. \/ \E i \in 1 .. kBucketSize : cells[i].addr = h[t].addr
        \/ \E j \in 1 .. Len(add.cells) : add.cells[j].addr = h[t].addr
    BY <2>1, ExistingMeans, WriterFacts
  <2>3. PICK x : x = [h[t] EXCEPT !.pc = "held", !.cell = c]
    OBVIOUS
  <2>4. h' = [h EXCEPT ![t] = x]
    BY <2>1, <2>3 DEF Got
  <2>5. x.addr = h[t].addr /\ x.remove = h[t].remove /\ x.created = h[t].created /\ x.pc = "held"
    BY <1>1, <2>3 DEF Handle
  <2> QED BY <1>2, <1>3, <1>4, <2>2, <2>4, <2>5, FindMapped
<1>5. CASE FoundLocked(t) /\ ~ h[t].remove
  <2>1. PICK x : x = [h[t] EXCEPT !.pc = "scan", !.i = 1]
    OBVIOUS
  <2>2. h' = [h EXCEPT ![t] = x]
    BY <1>5, <2>1 DEF FoundLocked
  <2>3. x.addr = h[t].addr /\ x.remove = h[t].remove /\ x.create = h[t].create /\ x.pc = "scan"
    BY <1>1, <2>1 DEF Handle
  <2> QED BY <1>2, <2>2, <2>3, UnseenStep DEF Asking, Searching
<1>6. CASE Missing(t)
  <2>1. PICK x : x = [h[t] EXCEPT !.pc = "unlock"]
    OBVIOUS
  <2>2. h' = [h EXCEPT ![t] = x]
    BY <1>6, <2>1 DEF Missing, Goto
  <2>3. x.addr = h[t].addr /\ x.pc = "unlock"
    BY <1>1, <2>1 DEF Handle
  <2>4. /\ x \in Handle /\ MapHandle[t] = HandleOf(h[t])
    BY <2>2, MapHandleStep
  <2>5. HandleOf(x).is = "leaving" /\ MapHandle[t].is \in {"find", "remove"}
    BY <1>1, <1>2, <1>6, <2>3, <2>4, Seen DEF Missing
  <2>6. Promise!Becomes(t, "leaving") /\ MapHandle[t].addr = h[t].addr
    BY <1>2, <2>2, <2>3, <2>5, BecomesStep
  <2>7. h[t].addr \notin Present
    <3>1. ModeOf(h[t]) = "writing"
      BY <1>2 DEF ModeOf
    <3>2. \A j \in 1 .. Len(add.cells) : j > add.size => add.cells[j].addr = NoAddr
      BY <1>2, <3>1, NothingPastEnd
    <3>3. /\ \A i \in 1 .. kBucketSize : cells[i].addr # h[t].addr
          /\ \A j \in 1 .. add.size : add.cells[j].addr # h[t].addr
      BY <1>6, ExistingMeans DEF Missing
    <3>4. /\ \A i \in 1 .. kBucketSize : cells[i].addr # h[t].addr
          /\ \A j \in 1 .. Len(add.cells) : add.cells[j].addr # h[t].addr
      BY <1>3, <3>2, <3>3, WriterFacts
    <3> QED BY <3>4, PresentMeans DEF IInv
  <2> QED BY <1>2, <2>5, <2>6, <2>7 DEF Promise!Miss
<1> QED BY <1>4, <1>5, <1>6

\* The address gets one element, which is nobody else's yet
LEMMA CreateMapped == ASSUME IInv, IInv', NEW t \in Threads, Create(t) PROVE Promise!Create(t)
<1>1. h \in [Threads -> Handle] /\ h[t] \in Handle
  BY DEF IInv, TypeInv
<1>2. /\ MayCreate(t) /\ h[t].pc = "locked" /\ ~ h[t].remove /\ h[t].create
      /\ h[t].pc \in Asking /\ Present' = Present
  BY CreateStep DEF Create, MayCreate, At, Asking
<1>3. h'[t].created = TRUE /\ h'[t].pc \in {"held", "dead"} /\ h'[t].addr = h[t].addr
  <2>1. CASE EmbedWith(NoAddr) # {}
    BY <1>1, <2>1 DEF Create, Handle
  <2>2. CASE EmbedWith(NoAddr) = {}
    BY <1>1, <2>2 DEF Create, Handle
  <2> QED BY <2>1, <2>2
<1>4. PICK x \in Handle : x = h'[t]
  BY DEF IInv, TypeInv
<1>5. x.pc = "held" /\ x.created /\ x.addr = h[t].addr /\ x.pc # "idle"
  BY <1>3, <1>4 DEF Handle, Asking, Searching, Moving
<1>6. h' = [h EXCEPT ![t] = x]
  <2>1. h' \in [Threads -> Handle] /\ \A u \in Threads \ {t} : h'[u] = h[u]
    BY <1>1 DEF Create, IInv, TypeInv
  <2> QED BY <1>1, <1>4, <2>1
<1>7. MapHandle[t].is = "get" /\ HandleOf(x).is = "created"
  BY <1>1, <1>2, <1>5, <1>6, MapHandleStep, Seen
<1>8. Promise!Becomes(t, "created") /\ MapHandle[t].addr = h[t].addr
  BY <1>2, <1>5, <1>6, <1>7, BecomesStep DEF Asking, Searching
<1>9. h[t].addr \notin Present
  BY <1>2, NotThere, PresentMeans DEF IInv
<1>a. Promise!Held(h[t].addr) = {}
  <2> SUFFICES ASSUME NEW u \in Promise!Held(h[t].addr) PROVE FALSE
    OBVIOUS
  <2>1. u \in Threads \ {t} /\ h[u].pc = "held" /\ h[u].addr = h[t].addr
    BY <1>2, HeldMeans
  <2>2. ModeOf(h[t]) = "writing"
    BY <1>2 DEF ModeOf
  <2>3. ~ h[u].created /\ h[u].cell.in = "embed" /\ h[u].cell.i \in 1 .. kBucketSize
    BY <2>1, <2>2, WriterAlone
  <2>4. cells[h[u].cell.i].addr = h[t].addr
    BY <2>1, <2>3 DEF IInv, PlaceInv, HeldOK, Deref
  <2> QED BY <1>2, <2>3, <2>4, NotThere
<1> QED BY <1>2, <1>7, <1>8, <1>9, <1>a DEF Promise!Create

\* A handle that created or removed gives up its element, and keeps the lock
LEMMA WriteMapped ==
  ASSUME IInv, IInv', NEW t \in Threads,
         \/ ReleaseCreated(t)
         \/ Vacate(t)
         \/ RemoveAdded(t)
  PROVE  Promise!Release(t)
<1>1. h \in [Threads -> Handle] /\ h[t] \in Handle
  BY DEF IInv, TypeInv
<1>2. PICK l \in {"unlock", "moveval"} : Goto(t, l)
  BY DEF ReleaseCreated, Vacate, RemoveAdded
<1>3. PICK x : x = [h[t] EXCEPT !.pc = l]
  OBVIOUS
<1>4. /\ h' = [h EXCEPT ![t] = x] /\ x.addr = h[t].addr /\ x.pc = l
      /\ h[t].pc = "held"
  BY <1>1, <1>2, <1>3 DEF Goto, Handle, ReleaseCreated, Vacate, RemoveAdded, At
<1>5. HandleOf(x).is = "leaving"
  BY <1>4, MapHandleStep, Seen DEF Moving
<1>6. Promise!Becomes(t, "leaving") /\ MapHandle[t].addr = h[t].addr
  BY <1>4, <1>5, BecomesStep
<1>7. CASE ReleaseCreated(t)
  <2>1. MapHandle[t].is = "created"
    BY <1>1, <1>4, <1>7, MapHandleStep, Seen DEF ReleaseCreated
  <2> QED BY <1>6, <1>7, <2>1, ReleaseCreatedStep DEF Promise!Release
<1>8. CASE Vacate(t) \/ RemoveAdded(t)
  <2>1. MapHandle[t].is = "removing"
    <3>1. h[t].remove /\ ~ h[t].created
      BY <1>8 DEF Vacate, RemoveAdded, IInv, HandleInv, HandleOK
    <3> QED BY <1>1, <1>4, <3>1, MapHandleStep, Seen
  <2>2. Present' = Present \ {h[t].addr}
    BY <1>8, VacateStep, RemoveAddedStep
  <2> QED BY <1>6, <2>1, <2>2 DEF Promise!Release
<1> QED BY <1>7, <1>8

\* The handle is gone
LEMMA DoneMapped ==
  ASSUME IInv, IInv', NEW t \in Threads, Unlock(t) \/ ReleaseFound(t)
  PROVE  Promise!Leave(t) \/ Promise!Release(t)
<1>1. UNCHANGED <<cells, add>> /\ h' = [h EXCEPT ![t] = NoHandle] /\ NoHandle.pc = "idle"
  BY DEF Unlock, ReleaseFound, NoHandle
<1>2. Present' = Present
  BY <1>1 DEF Present
<1>3. /\ NoHandle \in Handle /\ h[t] \in Handle /\ MapHandle[t] = HandleOf(h[t])
      /\ MapHandle' = [MapHandle EXCEPT ![t] = HandleOf(NoHandle)]
  BY <1>1, MapHandleStep
<1>4. HandleOf(NoHandle) = Promise!Idle
  BY <1>1, <1>3, Seen DEF Promise!Idle
<1>5. CASE Unlock(t)
  <2>1. MapHandle[t].is = "leaving"
    BY <1>3, <1>5, Seen DEF Unlock, At
  <2> QED BY <1>2, <1>3, <1>4, <2>1 DEF Promise!Leave
<1>6. CASE ReleaseFound(t)
  <2>1. MapHandle[t].is = "found"
    BY <1>3, <1>6, Seen DEF ReleaseFound, At
  <2> QED BY <1>2, <1>3, <1>4, <2>1 DEF Promise!Release
<1> QED BY <1>5, <1>6

\* An element that is moved is there all the time
LEMMA MoveMapped ==
  ASSUME IInv, IInv', NEW t \in Threads, MoveVal(t) \/ MoveAddr(t) \/ ClearLast(t)
  PROVE  UNCHANGED <<Present, MapHandle>>
<1>1. h[t] \in Handle
  BY DEF IInv, TypeInv
<1>2. PICK l \in Moving \cup {"unlock"} : Goto(t, l)
  BY DEF MoveVal, MoveAddr, ClearLast, Moving
<1>3. PICK x : x = [h[t] EXCEPT !.pc = l]
  OBVIOUS
<1>4. h' = [h EXCEPT ![t] = x]
  BY <1>2, <1>3 DEF Goto
<1>5. x.addr = h[t].addr /\ x.remove = h[t].remove /\ x.create = h[t].create /\ x.pc = l
  BY <1>1, <1>3 DEF Handle
<1>6. h[t].pc \in Moving
  BY DEF MoveVal, MoveAddr, ClearLast, At, Moving
<1>7. Present' = Present
  BY MoveValStep, MoveAddrStep, ClearLastStep
<1> QED BY <1>4, <1>5, <1>6, <1>7, UnseenStep

LEMMA InitMapped == Init => Promise!Init
<1> SUFFICES ASSUME Init PROVE Promise!Init
  OBVIOUS
<1>1. HandleOf(NoHandle) = [is |-> "idle"]
  BY DEF HandleOf, NoHandle
<1>2. MapHandle = [t \in Threads |-> Promise!Idle]
  BY <1>1 DEF Init, MapHandle, Promise!Idle
<1>3. Present = {}
  BY EmptySeq DEF Init, Present, Empty
<1> QED BY <1>2, <1>3 DEF Promise!Init

LEMMA NextMapped ==
  IInv /\ IInv' /\ [Next]_vars => [Promise!Next]_<<Present, MapHandle>>
<1> SUFFICES ASSUME IInv, IInv', [Next]_vars PROVE [Promise!Next]_<<Present, MapHandle>>
  OBVIOUS
<1>1. CASE UNCHANGED vars
  BY <1>1 DEF vars, Present, MapHandle
<1>2. ASSUME NEW t \in Threads, Call(t)
      PROVE  Promise!Next
  BY <1>2, CallMapped DEF Promise!Next
<1>3. ASSUME NEW t \in Threads,
             ScanEmbed(t) \/ LoadAdd(t) \/ ReadLock(t) \/ ReadUnlock(t) \/ AskAgain(t) \/ Lock(t)
      PROVE  Promise!Next \/ UNCHANGED <<Present, MapHandle>>
  BY <1>3, SearchMapped DEF Promise!Next
<1>4. ASSUME NEW t \in Threads, FoundLocked(t) \/ Missing(t)
      PROVE  Promise!Next \/ UNCHANGED <<Present, MapHandle>>
  BY <1>4, LockedMapped DEF Promise!Next
<1>5. ASSUME NEW t \in Threads, Create(t)
      PROVE  Promise!Next
  BY <1>5, CreateMapped DEF Promise!Next
<1>6. ASSUME NEW t \in Threads, ReleaseCreated(t) \/ Vacate(t) \/ RemoveAdded(t)
      PROVE  Promise!Next
  BY <1>6, WriteMapped DEF Promise!Next
<1>7. ASSUME NEW t \in Threads, Unlock(t) \/ ReleaseFound(t)
      PROVE  Promise!Next
  BY <1>7, DoneMapped DEF Promise!Next
<1>8. ASSUME NEW t \in Threads, MoveVal(t) \/ MoveAddr(t) \/ ClearLast(t)
      PROVE  UNCHANGED <<Present, MapHandle>>
  BY <1>8, MoveMapped
<1> QED BY <1>1, <1>2, <1>3, <1>4, <1>5, <1>6, <1>7, <1>8 DEF Next

\* The bucket is the map AddrMap promises: an address has one element, found by
\* every later handle until it is removed, even while others are moved to other
\* cells under the eyes of lock-free readers
THEOREM MapImplemented == Spec => ImplementsMap
BY InitMapped, NextMapped, Inductive, PTL DEF Spec, ImplementsMap, Promise!Spec
=============================================================================
