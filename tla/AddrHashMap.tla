---------------------------- MODULE AddrHashMap -----------------------------
(***************************************************************************)
(* One bucket of AddrHashMap (sanitizer_addrhashmap.h): a few embedded      *)
(* cells that are searched without a lock, an array of additional cells     *)
(* behind the bucket's RWMutex, and the handles by which threads find,      *)
(* create and remove elements.  The RWMutex is the abstract lock RWLock,    *)
(* which RWMutex is shown to implement.                                     *)
(*                                                                         *)
(* The value of an element is taken to be its address, written by whoever   *)
(* creates it.  Clients remove an element when no other thread uses it,     *)
(* as those of the map in this repository do; otherwise a handle that was   *)
(* found without the lock would outlive its element.                        *)
(***************************************************************************)
EXTENDS Naturals, Sequences, SequencesExt

CONSTANTS Threads,
          Addrs,
          kBucketSize,   \* embedded cells of a bucket
          InitCap,       \* additional cells of the first array
          NoAddr         \* address 0

ASSUME BucketAssumption ==
  /\ kBucketSize \in Nat \ {0}
  /\ InitCap \in Nat \ {0}
  /\ NoAddr \notin Addrs

VARIABLES mode,    \* the bucket's RWMutex
          cells,   \* the embedded cells
          add,     \* the array of additional cells; a new generation replaces
                   \* and frees the one before, generation 0 is the null pointer
          h        \* each thread's handle and its place in acquire and release

vars == <<mode, cells, add, h>>

Mtx == INSTANCE RWLock

Empty == [addr |-> NoAddr, val |-> NoAddr]
NoCell == [in |-> "null"]
NoHandle == [pc |-> "idle", addr |-> NoAddr, remove |-> FALSE, create |-> FALSE,
             i |-> 1, cell |-> NoCell, created |-> FALSE]

Init ==
  /\ Mtx!Init
  /\ cells = [i \in 1 .. kBucketSize |-> Empty]
  /\ add = [gen |-> 0, size |-> 0, cells |-> <<>>]
  /\ h = [t \in Threads |-> NoHandle]

At(t, l) == h[t].pc = l
Goto(t, l) == h' = [h EXCEPT ![t].pc = l]
Got(t, cell) == h' = [h EXCEPT ![t].pc = "held", ![t].cell = cell]

\* Cells are pointers: an embedded one, or one in the array of a generation
Embed(i) == [in |-> "embed", i |-> i]
Added(i) == [in |-> "add", i |-> i, gen |-> add.gen]
Deref(c) == IF c.in = "embed" THEN cells[c.i] ELSE add.cells[c.i]
EmbedWith(a) == {i \in DOMAIN cells : cells[i].addr = a}
AddedWith(a) == {i \in 1 .. add.size : add.cells[i].addr = a}

\* b->mtx.Lock() and ReadLock() begin by asking
Want(t, w) == mode' = [mode EXCEPT ![t] = w]

Call(t) ==
  /\ At(t, "idle")
  /\ \E a \in Addrs, remove, create \in BOOLEAN :
       /\ \A u \in Threads \ {t} : h[u].addr = a => h[u].remove = remove
       /\ remove => create
       /\ h' = [h EXCEPT ![t] = [NoHandle EXCEPT !.pc = IF remove THEN "lock" ELSE "scan",
                                   !.addr = a, !.remove = remove, !.create = create]]
       /\ IF remove THEN Want(t, "wantWrite") ELSE UNCHANGED mode
  /\ UNCHANGED <<cells, add>>

-----------------------------------------------------------------------------
\* acquire: the embedded cells one by one, without the lock ...
ScanEmbed(t) ==
  LET i == h[t].i
  IN  /\ At(t, "scan")
      /\ IF cells[i].addr = h[t].addr THEN Got(t, Embed(i))
         ELSE IF i < kBucketSize THEN h' = [h EXCEPT ![t].i = i + 1]
         ELSE Goto(t, "add")
      /\ UNCHANGED <<mode, cells, add>>

\* ... the additional ones, if there are any, under the read lock ...
LoadAdd(t) ==
  /\ At(t, "add")
  /\ IF add.gen # 0 THEN Goto(t, "readlock") /\ Want(t, "wantRead")
                    ELSE Goto(t, "lock") /\ Want(t, "wantWrite")
  /\ UNCHANGED <<cells, add>>

\* Mutant: the read lock is given up as soon as the cell is found
ReadLockBriefly(t) ==
  /\ At(t, "readlock")
  /\ \A u \in Threads : mode[u] # "writing"
  /\ IF AddedWith(h[t].addr) # {}
       THEN (\E i \in AddedWith(h[t].addr) : Got(t, Added(i))) /\ Want(t, "out")
       ELSE Goto(t, "readunlock") /\ Want(t, "reading")
  /\ UNCHANGED <<cells, add>>

ReadLock(t) ==
  /\ At(t, "readlock")
  /\ Mtx!EnterRead(t)
  /\ IF AddedWith(h[t].addr) # {}
       THEN \E i \in AddedWith(h[t].addr) : Got(t, Added(i))
       ELSE Goto(t, "readunlock")
  /\ UNCHANGED <<cells, add>>

ReadUnlock(t) ==
  /\ At(t, "readunlock")
  /\ Mtx!Leave(t)
  /\ Goto(t, "relock")
  /\ UNCHANGED <<cells, add>>

AskAgain(t) ==
  /\ At(t, "relock")
  /\ Goto(t, "lock") /\ Want(t, "wantWrite")
  /\ UNCHANGED <<cells, add>>

\* ... and both again under the write lock
Lock(t) ==
  /\ At(t, "lock")
  /\ Mtx!EnterWrite(t)
  /\ Goto(t, "locked")
  /\ UNCHANGED <<cells, add>>

Unlock(t) ==
  /\ At(t, "unlock")
  /\ Mtx!Leave(t)
  /\ h' = [h EXCEPT ![t] = NoHandle]
  /\ UNCHANGED <<cells, add>>

Existing(a) == {Embed(i) : i \in EmbedWith(a)} \cup {Added(i) : i \in AddedWith(a)}

\* What is there is removed by this handle, or looked for again without the lock
FoundLocked(t) ==
  /\ At(t, "locked")
  /\ \E c \in Existing(h[t].addr) :
       IF h[t].remove THEN Got(t, c) /\ UNCHANGED mode
                      ELSE h' = [h EXCEPT ![t].pc = "scan", ![t].i = 1] /\ Mtx!Leave(t)
  /\ UNCHANGED <<cells, add>>

Missing(t) ==
  /\ At(t, "locked") /\ Existing(h[t].addr) = {}
  /\ h[t].remove \/ ~ h[t].create
  /\ Goto(t, "unlock")
  /\ UNCHANGED <<mode, cells, add>>

\* Mutant: what came in since the cells were searched is not looked for
MayCreateUnchecked(t) == At(t, "locked") /\ ~ h[t].remove /\ h[t].create

MayCreate(t) ==
  /\ At(t, "locked") /\ Existing(h[t].addr) = {}
  /\ ~ h[t].remove /\ h[t].create

\* The first array, or one twice as large to which the cells are copied
Grown ==
  IF add.size < Len(add.cells) THEN add
  ELSE [add EXCEPT !.gen = @ + 1,
                   !.cells = @ \o [i \in 1 .. (IF add.gen = 0 THEN InitCap ELSE Len(@)) |-> Empty]]

\* A free embedded cell, or the next additional one, which must be empty
Create(t) ==
  /\ MayCreate(t)
  /\ IF EmbedWith(NoAddr) # {}
       THEN /\ \E i \in EmbedWith(NoAddr) :
                 /\ \A j \in EmbedWith(NoAddr) : i <= j
                 /\ h' = [h EXCEPT ![t].pc = "held", ![t].created = TRUE, ![t].cell = Embed(i)]
            /\ UNCHANGED add
       ELSE LET i == add.size + 1
            IN  /\ add' = [Grown EXCEPT !.size = i]
                /\ h' = [h EXCEPT ![t].created = TRUE,
                           ![t].pc = IF Grown.cells[i].addr = NoAddr THEN "held" ELSE "dead",
                           ![t].cell = [in |-> "add", i |-> i, gen |-> Grown.gen]]
  /\ UNCHANGED <<mode, cells>>

-----------------------------------------------------------------------------
SetCell(c, v) ==
  IF c.in = "embed" THEN cells' = [cells EXCEPT ![c.i] = v] /\ UNCHANGED add
                    ELSE add' = [add EXCEPT !.cells[c.i] = v] /\ UNCHANGED cells

\* release: each kind of handle checks its cell first, and dies if that fails
ReleaseChecks(t) ==
  Deref(h[t].cell).addr = IF h[t].created THEN NoAddr ELSE h[t].addr

ReleaseCreated(t) ==
  /\ At(t, "held") /\ ReleaseChecks(t) /\ h[t].created
  /\ SetCell(h[t].cell, [addr |-> h[t].addr, val |-> h[t].addr])
  /\ Goto(t, "unlock")
  /\ UNCHANGED mode

ReleaseFound(t) ==
  /\ At(t, "held") /\ ReleaseChecks(t) /\ ~ h[t].created /\ ~ h[t].remove
  /\ h' = [h EXCEPT ![t] = NoHandle]
  /\ IF h[t].cell.in = "add" THEN Mtx!Leave(t) ELSE UNCHANGED mode
  /\ UNCHANGED <<cells, add>>

\* An embedded cell is emptied, then filled with the last additional one: its
\* value, its address, and then that cell is emptied; lock-free readers see it
Vacate(t) ==
  LET c == h[t].cell
  IN  /\ At(t, "held") /\ ReleaseChecks(t) /\ h[t].remove /\ c.in = "embed"
      /\ cells' = [cells EXCEPT ![c.i].addr = NoAddr]
      /\ Goto(t, IF add.size # 0 THEN "moveval" ELSE "unlock")
      /\ UNCHANGED <<mode, add>>

\* Mutant: the element is moved by its address alone
MoveSizeOnly(t) ==
  /\ At(t, "moveval")
  /\ add' = [add EXCEPT !.size = @ - 1]
  /\ Goto(t, "moveaddr")
  /\ UNCHANGED <<mode, cells>>

MoveVal(t) ==
  /\ At(t, "moveval")
  /\ add' = [add EXCEPT !.size = @ - 1]
  /\ cells' = [cells EXCEPT ![h[t].cell.i].val = add.cells[add.size].val]
  /\ Goto(t, "moveaddr")
  /\ UNCHANGED mode

MoveAddr(t) ==
  /\ At(t, "moveaddr")
  /\ cells' = [cells EXCEPT ![h[t].cell.i].addr = add.cells[add.size + 1].addr]
  /\ Goto(t, "clear")
  /\ UNCHANGED <<mode, add>>

\* Mutant: the cell that was moved keeps its address
KeepLast(t) == At(t, "clear") /\ Goto(t, "unlock") /\ UNCHANGED <<mode, cells, add>>

ClearLast(t) ==
  /\ At(t, "clear")
  /\ add' = [add EXCEPT !.cells[add.size + 1].addr = NoAddr]
  /\ Goto(t, "unlock")
  /\ UNCHANGED <<mode, cells>>

\* An additional cell is filled with the last one, which nobody else can see
RemoveAdded(t) ==
  LET c == h[t].cell
      vacated == [add.cells EXCEPT ![c.i].addr = NoAddr]
  IN  /\ At(t, "held") /\ ReleaseChecks(t) /\ h[t].remove /\ c.in = "add"
      /\ add' = [add EXCEPT !.size = @ - 1,
                   !.cells = IF c.i = add.size THEN vacated
                             ELSE [vacated EXCEPT ![c.i] = vacated[add.size],
                                                  ![add.size].addr = NoAddr]]
      /\ Goto(t, "unlock")
      /\ UNCHANGED <<mode, cells>>

Next ==
  \E t \in Threads :
    \/ Call(t)
    \/ ScanEmbed(t) \/ LoadAdd(t) \/ ReadLock(t) \/ ReadUnlock(t) \/ AskAgain(t)
    \/ Lock(t) \/ FoundLocked(t) \/ Missing(t) \/ Create(t)
    \/ ReleaseCreated(t) \/ ReleaseFound(t)
    \/ Vacate(t) \/ MoveVal(t) \/ MoveAddr(t) \/ ClearLast(t) \/ RemoveAdded(t)
    \/ Unlock(t)

Spec == Init /\ [][Next]_vars

-----------------------------------------------------------------------------
\* No CHECK of acquire or release fails: a new cell is empty, a found one still
\* holds its address when the handle is released
NoCheckFails == \A t \in Threads : ~ At(t, "dead") /\ (At(t, "held") => ReleaseChecks(t))

\* A handle points into the array that is in use, and where it found an element
\* there it reads that element's value; a handle of an additional cell, one that
\* created and one that removes keep the bucket locked for it
HandlesValid ==
  \A t \in Threads : At(t, "held") =>
    /\ h[t].cell.in = "add" => h[t].cell.gen = add.gen /\ h[t].cell.i <= add.size
    /\ ~ h[t].created => Deref(h[t].cell).val = h[t].addr
    /\ mode[t] = IF h[t].created \/ h[t].remove THEN "writing"
                 ELSE IF h[t].cell.in = "add" THEN "reading" ELSE "out"

\* What AddrMap sees of a handle
HandleOf(x) ==
  CASE x.pc = "idle" -> [is |-> "idle"]
    [] x.pc = "held" ->
         [is |-> IF x.created THEN "created" ELSE IF x.remove THEN "removing" ELSE "found",
          addr |-> x.addr]
    [] x.pc \in {"unlock", "moveval", "moveaddr", "clear"} -> [is |-> "leaving", addr |-> x.addr]
    [] OTHER -> [is |-> IF x.remove THEN "remove" ELSE IF x.create THEN "get" ELSE "find",
                 addr |-> x.addr]

MapHandle == [t \in Threads |-> HandleOf(h[t])]

\* The addresses that have an element
Present == ({cells[i].addr : i \in DOMAIN cells}
              \cup {add.cells[i].addr : i \in DOMAIN add.cells}) \ {NoAddr}

Promise == INSTANCE AddrMap WITH present <- Present, handle <- MapHandle

\* The bucket is the map AddrMap promises: an address has one element, found by
\* every later handle until it is removed, even while others are moved to other
\* cells under the eyes of lock-free readers
ImplementsMap == Promise!Spec
=============================================================================
