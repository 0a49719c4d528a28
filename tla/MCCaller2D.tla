----------------------------- MODULE MCCaller2D -----------------------------
(***************************************************************************)
(* Two calls on up to two workers: both, one or none of them made on a     *)
(* worker; fewer callables than chunks, as many, and a remainder.          *)
(***************************************************************************)
EXTENDS Caller2D
CONSTANTS k1, k2, w1, w2
MCCalls == {k1, k2}
MCWorkers == {w1, w2}
=============================================================================
