---------------------------- MODULE MCDeepProxy ----------------------------
(***************************************************************************)
(* Three variables, so that something can be copied, the copy moved to     *)
(* where a third object was, and the first changed in between; objects of  *)
(* both sizes.  A cell never owns two objects, so three names suffice.     *)
(***************************************************************************)
EXTENDS DeepProxy, TLC
CONSTANTS c1, c2, c3
MCCells == {c1, c2, c3}
Symmetry == Permutations(MCCells)
=============================================================================
