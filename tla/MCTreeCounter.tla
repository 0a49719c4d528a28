---------------------------- MODULE MCTreeCounter ----------------------------
(***************************************************************************)
(* MAX_COUNT = 2 is the smallest for which an increase can keep some of    *)
(* its tokens in the caller's node next to the parent link, and for which  *)
(* compare_exchange_weak can lose a race.  With four tasks there are       *)
(* chains of two nodes, increases that do not fit, that fit in part and    *)
(* that fit, and threads climbing at once.  No behaviour allocates more    *)
(* nodes than it has tasks: every new node takes a token that no other one *)
(* has.  One fork of nothing meets full nodes, others and lost races.      *)
(***************************************************************************)
EXTENDS TreeCounter
CONSTANTS t1, t2, t3, t4
MCTasks == {t1, t2, t3, t4}
=============================================================================
