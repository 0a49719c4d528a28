--------------------------- MODULE MCBasicCounter ---------------------------
(***************************************************************************)
(* Five tasks: enough for Main to start two, for both to fork, for a       *)
(* forked task to fork again, and for joins to race with all of it.        *)
(***************************************************************************)
EXTENDS BasicCounter
CONSTANTS t1, t2, t3, t4, t5
MCTasks == {t1, t2, t3, t4, t5}
=============================================================================
