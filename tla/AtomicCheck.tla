----------------------------- MODULE AtomicCheck -----------------------------
(***************************************************************************)
(* What the comment on check() in example 3 says it is "equivalent to":    *)
(* one atomic block that takes one from a positive exit_count and stops    *)
(* the worker, and otherwise lets it go on.                                *)
(***************************************************************************)
EXTENDS Integers, FiniteSets

CONSTANTS Workers, InitCount, SizeMax

VARIABLES exit_count, running, stopped, reading

vars == <<exit_count, running, stopped, reading>>

Init ==
  /\ exit_count = 0
  /\ running \in {S \in SUBSET Workers : Cardinality(S) = InitCount}
  /\ stopped = {}
  /\ reading = TRUE

\* The instructions "+", "-" and "x".
Plus(w) ==
  /\ reading /\ w \notin running \cup stopped
  /\ running' = running \cup {w}
  /\ UNCHANGED <<exit_count, stopped, reading>>
Minus ==
  /\ reading /\ exit_count < SizeMax
  /\ exit_count' = exit_count + 1
  /\ UNCHANGED <<running, stopped, reading>>
X ==
  /\ reading
  /\ exit_count' = SizeMax
  /\ reading' = FALSE
  /\ UNCHANGED <<running, stopped>>

\* check() in a worker that is to stop; one that is not sees no change.
Stop(w) ==
  /\ w \in running /\ exit_count > 0
  /\ exit_count' = exit_count - 1
  /\ running' = running \ {w}
  /\ stopped' = stopped \cup {w}
  /\ UNCHANGED reading

Next == Minus \/ X \/ \E w \in Workers : Plus(w) \/ Stop(w)

\* Every worker checks again and again, so a positive count stops one.
Spec == Init /\ [][Next]_vars /\ WF_vars(\E w \in Workers : Stop(w))
=============================================================================
