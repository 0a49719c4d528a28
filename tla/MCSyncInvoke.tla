---------------------------- MODULE MCSyncInvoke ----------------------------
(***************************************************************************)
(* Four tasks: Main can start two, one of which is still to be started     *)
(* when the other has forked and joined, or when the portal throws.  Every *)
(* class of semaphore with every past.  The configuration SyncFutex is     *)
(* about consecutive invocations, each with a futex semaphore of its own,  *)
(* two of which happen to be in the same place.                            *)
(***************************************************************************)
EXTENDS SyncInvoke
CONSTANTS t1, t2, t3, t4
MCTasks == {t1, t2, t3, t4}
=============================================================================
