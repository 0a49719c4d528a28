--------------------------- MODULE MCWorkerControl ---------------------------
(***************************************************************************)
(* Four workers, two of them at first, so that two may be forked, and race *)
(* with each other and with every instruction; a count that gets larger    *)
(* than the number of workers there are.                                   *)
(***************************************************************************)
EXTENDS WorkerControl
CONSTANTS w1, w2, w3, w4
MCWorkers == {w1, w2, w3, w4}
=============================================================================
