--------------------------- MODULE MCSharedWrapper ---------------------------
(***************************************************************************)
(* Three wrappers and two objects: two wrappers can copy from the third at *)
(* once, one can be assigned while another drops the same object, and an   *)
(* assignment can replace the last reference of one object by one to       *)
(* another.  Handles and objects are interchangeable.                      *)
(***************************************************************************)
EXTENDS SharedWrapper, TLC
CONSTANTS h1, h2, h3, o1, o2
MCHandles == {h1, h2, h3}
MCObjects == {o1, o2}
Symmetry == Permutations(MCHandles) \cup Permutations(MCObjects)
=============================================================================
