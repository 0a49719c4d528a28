----------------------------- MODULE ValueCells -----------------------------
(***************************************************************************)
(* What a deep-copying proxy promises: a variable of it is a value of its  *)
(* own.  A copy is as good as its source and has nothing to do with it     *)
(* afterwards; a move leaves something that can be assigned and destroyed; *)
(* calling a proxy that was never given an object is reported.             *)
(***************************************************************************)
CONSTANTS Cells, Sizes

VARIABLE cell   \* per variable: the size of the object in it, and "raw" (there is
                \* no variable), "empty", "moved" (from), "broken" (an assignment
                \* threw), or what became of the object: "new", "called"

Without(why) == [size |-> "none", state |-> why]

Init == cell = [c \in Cells |-> Without("raw")]

Put(c, x) == cell' = [cell EXCEPT ![c] = x]
Exists(c) == cell[c].state # "raw"
Usable(c) == cell[c].state # "broken"

\* Construction and assignment.
Clear(c) == ~Exists(c) /\ Put(c, Without("empty"))
Set(c, z) == Usable(c) /\ Put(c, [size |-> z, state |-> "new"])
From(c, src) == c # src /\ Usable(c) /\ Exists(src) /\ Usable(src)
Copy(c, src) == From(c, src) /\ Put(c, cell[src])

\* The source of a move keeps nothing that could be relied on.
Move(c, src) ==
  /\ From(c, src)
  /\ cell' = [cell EXCEPT ![c] = cell[src],
                          ![src] = IF @.state = "empty" THEN @ ELSE Without("moved")]

\* A construction that throws leaves nothing behind, an assignment a variable
\* that nothing can be done with, not even destroying it.
Break(c) == Exists(c) /\ Put(c, Without("broken"))
Destroy(c) == Exists(c) /\ Put(c, Without("raw"))

\* The object is called, which may change it, and nothing else.
Call(c) == cell[c].size \in Sizes /\ cell' = [cell EXCEPT ![c].state = "called"]

Next ==
  \E c \in Cells :
    \/ Clear(c) \/ Break(c) \/ Destroy(c) \/ Call(c)
    \/ \E z \in Sizes : Set(c, z)
    \/ \E src \in Cells : Copy(c, src) \/ Move(c, src)

Spec == Init /\ [][Next]_cell
=============================================================================
