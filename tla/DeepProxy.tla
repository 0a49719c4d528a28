------------------------------ MODULE DeepProxy ------------------------------
(***************************************************************************)
(* DeepProxy: poly::proxy<Callable> (proxy.hpp) over poly::DeepWrapper     *)
(* (wrapper.hpp), the type of the procedures, callables and pool tasks     *)
(* that the library passes by value.  The specialisations of proxy for     *)
(* LinearBuffer and AtomicCounterModifier repeat the one for Callable.     *)
(*                                                                         *)
(* A cell is one proxy variable: a virtual table pointer, here its face,   *)
(* and a wrapper, that is holder_ and a block for small objects.  A cell   *)
(* is used by one thread at a time, so every operation is one step.  mem   *)
(* is the memory that the operations of the wrapper work on, one statement *)
(* after the other.                                                        *)
(***************************************************************************)
EXTENDS Integers, FiniteSets

CONSTANTS Cells,
          Ids,      \* names for the objects alive at one time
          None,     \* the null pointer
          Rubble    \* a pointer that is not null to where no object is

ASSUME DeepProxyAssumption ==
  /\ IsFiniteSet(Cells) /\ "heap" \notin Cells /\ IsFiniteSet(Ids)
  /\ {None, Rubble} \cap Ids = {} /\ None # Rubble
  /\ Cardinality(Ids) >= Cardinality(Cells)

Sizes == {"small", "large"}
NewObject(z) == [size |-> z, state |-> "new"]
Objects == [size : Sizes, state : {"new", "called", "moved"}]

VARIABLES
  face,     \* per cell: "raw" (no proxy there), "Uninitialized", "Implementation"
  mem,      \* holder: per cell, the object of the holder that holder_ points to;
            \* place: per object, "heap" or the cell whose block it is in;
            \* life: per object, "dead" or "live"; value: per object
  broken,   \* cells whose assignment was left by an exception
  twice     \* cells that destroyed what was not there

vars == <<face, mem, broken, twice>>

Init ==
  /\ face = [c \in Cells |-> "raw"]
  /\ mem = [holder |-> [c \in Cells |-> None],
            place  |-> [o \in Ids |-> "heap"],
            life   |-> [o \in Ids |-> "dead"],
            value  |-> [o \in Ids |-> NewObject("small")]]
  /\ broken = {}
  /\ twice = {}

-----------------------------------------------------------------------------
(***************************************************************************)
(* DeepWrapper: what each operation makes of the memory m.                 *)
(***************************************************************************)
InSoo(m, c) == m.holder[c] \in Ids /\ m.place[m.holder[c]] = c
Unused(m) == CHOOSE o \in Ids : m.life[o] = "dead"

\* An object ends; of the names that nothing lives under, all are alike.
End(m, o) == [m EXCEPT !.life[o] = "dead", !.place[o] = "heap", !.value[o] = NewObject("small")]

\* init(): invalid.
InitNull(m, c) == [m EXCEPT !.holder[c] = None]

\* init(data): in the block of the cell if the object is small, or from new.
InitObject(m, c, value) ==
  LET o == Unused(m)
  IN  [m EXCEPT !.holder[c] = o,
                !.place[o] = IF value.size = "small" THEN c ELSE "heap",
                !.life[o] = "live",
                !.value[o] = value]

\* Sharing the holder of a large object instead of copying it.
CopyInitShallow(m, c, src) ==
  IF m.holder[src] = None THEN InitNull(m, c)
  ELSE IF InSoo(m, src) THEN InitObject(m, c, m.value[m.holder[src]])
  ELSE [m EXCEPT !.holder[c] = m.holder[src]]

\* copy_init
CopyInit(m, c, src) ==
  IF m.holder[src] = None THEN InitNull(m, c)
  ELSE InitObject(m, c, m.value[m.holder[src]])

\* Leaving the pointer to a large object in the source, too.
MoveInitKeeping(m, c, src) ==
  LET o == m.holder[src]
  IN  IF o = None THEN InitNull(m, c)
      ELSE IF InSoo(m, src) THEN [InitObject(m, c, m.value[o]) EXCEPT !.value[o].state = "moved"]
      ELSE [m EXCEPT !.holder[c] = o]

\* move_init: a small object is moved out of, and stays; a large one changes
\* hands with the pointer.
MoveInit(m, c, src) ==
  LET o == m.holder[src]
  IN  IF o = None THEN InitNull(m, c)
      ELSE IF InSoo(m, src) THEN [InitObject(m, c, m.value[o]) EXCEPT !.value[o].state = "moved"]
      ELSE [m EXCEPT !.holder[c] = o, !.holder[src] = None]

\* Only deleting what is on the heap.
DeinitHeapOnly(m, c) ==
  IF m.holder[c] \in Ids /\ ~InSoo(m, c) THEN [End(m, m.holder[c]) EXCEPT !.holder[c] = Rubble] ELSE m

\* deinit: the object ends, in the block or on the heap; holder_ is left as it
\* is, and points to nothing any more.
Deinit(m, c) ==
  IF m.holder[c] \in Ids THEN [End(m, m.holder[c]) EXCEPT !.holder[c] = Rubble] ELSE m

\* deinit on a pointer that has been through it, or never was one.
Misses(m, c) ==
  m.holder[c] = Rubble \/ (m.holder[c] \in Ids /\ m.life[m.holder[c]] = "dead")

\* The constructor of the object, or operator new, throws after deinit: holder_
\* points to the block already, or it has still to be written and holds what it
\* held, or anything.
Thrown(m, c, value) ==
  LET left == {Rubble} \cup (IF value.size = "large" THEN {m.holder[c]} ELSE {})
  IN  {[m EXCEPT !.holder[c] = p] : p \in left}

-----------------------------------------------------------------------------
(***************************************************************************)
(* proxy: construction, assignment, destruction and the call.              *)
(***************************************************************************)
Raw(c) == face[c] = "raw"
Good(c) == ~Raw(c) /\ c \notin broken

\* proxy()
Default(c) ==
  /\ Raw(c)
  /\ face' = [face EXCEPT ![c] = "Uninitialized"]
  /\ mem' = InitNull(mem, c)
  /\ UNCHANGED <<broken, twice>>

\* proxy(T&&).  A constructor that throws leaves no proxy and no object.
Construct(c, z) ==
  /\ Raw(c)
  /\ face' = [face EXCEPT ![c] = "Implementation"]
  /\ mem' = InitObject(mem, c, NewObject(z))
  /\ UNCHANGED <<broken, twice>>

\* proxy(const proxy&): the face is copied byte by byte, then the wrapper.
CopyConstruct(c, src) ==
  /\ Raw(c) /\ Good(src)
  /\ face' = [face EXCEPT ![c] = face[src]]
  /\ mem' = CopyInit(mem, c, src)
  /\ UNCHANGED <<broken, twice>>

MoveConstruct(c, src) ==
  /\ Raw(c) /\ Good(src)
  /\ face' = [face EXCEPT ![c] = face[src]]
  /\ mem' = MoveInit(mem, c, src)
  /\ UNCHANGED <<broken, twice>>

\* The assignments: deinit, then as the constructor.  Nobody assigns a proxy to
\* itself: deinit would destroy the source.
AssignValue(c, z) ==
  /\ Good(c)
  /\ face' = [face EXCEPT ![c] = "Implementation"]
  /\ mem' = InitObject(Deinit(mem, c), c, NewObject(z))
  /\ UNCHANGED <<broken, twice>>

CopyAssign(c, src) ==
  /\ Good(c) /\ Good(src) /\ c # src
  /\ face' = [face EXCEPT ![c] = face[src]]
  /\ mem' = CopyInit(Deinit(mem, c), c, src)
  /\ UNCHANGED <<broken, twice>>

MoveAssign(c, src) ==
  /\ Good(c) /\ Good(src) /\ c # src
  /\ face' = [face EXCEPT ![c] = face[src]]
  /\ mem' = MoveInit(Deinit(mem, c), c, src)
  /\ UNCHANGED <<broken, twice>>

\* An assignment from a value that is left by an exception.
AssignThrows(c, value) ==
  /\ Good(c)
  /\ face' = [face EXCEPT ![c] = "Implementation"]
  /\ mem' \in Thrown(Deinit(mem, c), c, value)
  /\ broken' = broken \cup {c}
  /\ UNCHANGED twice

Destroy(c) ==
  /\ ~Raw(c)
  /\ face' = [face EXCEPT ![c] = "raw"]
  /\ mem' = InitNull(Deinit(mem, c), c)
  /\ twice' = IF Misses(mem, c) THEN twice \cup {c} ELSE twice
  /\ broken' = broken \ {c}

\* operator() where there is an object to call.
Call(c) ==
  /\ Good(c) /\ mem.holder[c] # None /\ mem.value[mem.holder[c]].state # "moved"
  /\ mem' = [mem EXCEPT !.value[mem.holder[c]].state = "called"]
  /\ UNCHANGED <<face, broken, twice>>

Next ==
  \E c \in Cells :
    \/ Default(c) \/ Destroy(c) \/ Call(c)
    \/ \E z \in Sizes :
         \/ Construct(c, z) \/ AssignValue(c, z)
         \/ AssignThrows(c, NewObject(z))
    \/ \E src \in Cells :
         CopyConstruct(c, src) \/ MoveConstruct(c, src) \/ CopyAssign(c, src) \/ MoveAssign(c, src)

Spec == Init /\ [][Next]_vars

-----------------------------------------------------------------------------
Memories ==
  [holder : [Cells -> Ids \cup {None, Rubble}],
   place  : [Ids -> Cells \cup {"heap"}],
   life   : [Ids -> {"dead", "live"}],
   value  : [Ids -> Objects]]

TypeOK ==
  /\ face \in [Cells -> {"raw", "Uninitialized", "Implementation"}]
  /\ mem \in Memories
  /\ broken \subseteq Cells /\ twice \subseteq Cells

\* Every living object belongs to exactly one proxy, in whose block it is if it
\* is small: nothing leaks, and nobody calls or deletes an object of another.
\* This holds for all other cells, too, when an assignment has been left by an
\* exception.
ObjectOwnedOnce ==
  /\ \A o \in Ids : mem.life[o] = "live" =>
       \E c \in Cells : {d \in Cells \ broken : mem.holder[d] = o} = {c}
                         /\ mem.place[o] \in {"heap", c}
  /\ \A c \in Cells \ broken : mem.holder[c] # None =>
       mem.holder[c] \in Ids /\ mem.life[mem.holder[c]] = "live"

\* No object is destroyed twice.  The one way to it is an assignment that throws
\* between deinit and init, which leaves a holder_ that the destructor takes for
\* good: whoever misses has had one.
DestroyedOnce == [][\A c \in Cells : c \in twice' \ twice => c \in broken]_vars

\* What a cell is to its user.
Without(why) == [size |-> "none", state |-> why]
CellOf(c) ==
  IF Raw(c) THEN Without("raw")
  ELSE IF c \in broken THEN Without("broken")
  ELSE IF face[c] = "Uninitialized" THEN Without("empty")
  ELSE IF mem.holder[c] = None \/ mem.value[mem.holder[c]].state = "moved" THEN Without("moved")
  ELSE mem.value[mem.holder[c]]

V == INSTANCE ValueCells WITH cell <- [c \in Cells |-> CellOf(c)]

\* A DeepProxy is a value: copies and their sources go separate ways whatever is
\* done to either, moves hand the value on whether it is in the block or on the
\* heap, and an empty proxy, its copies and what it is moved to know that they
\* are empty.
ImplementsValueCells == V!Spec

-----------------------------------------------------------------------------
(***************************************************************************)
(* The inductive strengthening of the invariants.                          *)
(***************************************************************************)
\* In the memory m the cells of D, and no others, have the living objects, each
\* one of its own.
Owned(m, D) ==
  /\ \A o \in Ids : m.life[o] = "live" => \E c \in D : m.holder[c] = o
  /\ \A c \in D : m.holder[c] # None =>
       /\ m.holder[c] \in Ids /\ m.life[m.holder[c]] = "live"
       /\ m.place[m.holder[c]] \in {"heap", c}
       /\ \A d \in D : m.holder[d] = m.holder[c] => d = c

\* What an exception has left has no object, but the remains of a pointer to one.
BrokenOK == \A c \in broken : ~Raw(c) /\ mem.holder[c] \in {None, Rubble}

FaceOK == \A c \in Cells \ broken : face[c] # "Implementation" => mem.holder[c] = None

IInv == TypeOK /\ Owned(mem, Cells \ broken) /\ BrokenOK /\ FaceOK
=============================================================================
