------------------------------ MODULE MCPhases ------------------------------
(***************************************************************************)
(* A callable of up to three phases and one of up to one, over every       *)
(* choice of portals: a managed thread that starts a managed one while it  *)
(* is being joined, a daemon that starts one, which starts another, while  *)
(* the program exits, the same next to a callable of another kind, and a   *)
(* second invocation of both.                                              *)
(***************************************************************************)
EXTENDS Phases, TLC
CONSTANTS c1, c2
MCCallables == {c1, c2}
MCMaxPhases == c1 :> 3 @@ c2 :> 1
=============================================================================
