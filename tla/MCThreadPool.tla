---------------------------- MODULE MCThreadPool ----------------------------
(***************************************************************************)
(* Two workers and two clients; of the three tasks t2 and t3 carry a       *)
(* handle, so a task can be submitted by a task that was itself submitted  *)
(* from a worker, and the last handle can be given up on any thread.       *)
(***************************************************************************)
EXTENDS ThreadPool
CONSTANTS w1, w2, c1, c2, t1, t2, t3
MCWorkers == {w1, w2}
MCClients == {c1, c2}
MCTasks == {t1, t2, t3}
MCCarriers == {t2, t3}
=============================================================================
