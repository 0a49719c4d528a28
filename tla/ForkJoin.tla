------------------------------ MODULE ForkJoin ------------------------------
(***************************************************************************)
(* What one concurrent invocation promises to its user, whatever counter   *)
(* class counts its tasks: a set of tasks is started, a task may fork      *)
(* others before it joins, and the callback runs once, after the last join.*)
(* BasicCounter and TreeCounter are shown to implement this module.        *)
(***************************************************************************)
CONSTANT Tasks

VARIABLES active,   \* tasks that are part of the invocation and have not joined
          joined,   \* tasks that have joined
          fired     \* has the callback run?

vars == <<active, joined, fired>>

Init == active = {} /\ joined = {} /\ fired = FALSE

\* The invocation takes its first tasks.
Begin(S) ==
  /\ active = {} /\ joined = {} /\ S # {}
  /\ active' = S
  /\ UNCHANGED <<joined, fired>>

\* A task that has not joined makes fresh tasks part of the invocation.
Fork(t, S) ==
  /\ t \in active
  /\ S \cap (active \cup joined) = {}
  /\ active' = active \cup S
  /\ UNCHANGED <<joined, fired>>

Join(t) ==
  /\ t \in active
  /\ active' = active \ {t}
  /\ joined' = joined \cup {t}
  /\ UNCHANGED fired

\* The callback: nobody is left, and it has not run before.
Fire ==
  /\ active = {} /\ joined # {} /\ ~fired
  /\ fired' = TRUE
  /\ UNCHANGED <<active, joined>>

Next ==
  \/ \E S \in SUBSET Tasks : Begin(S)
  \/ \E t \in Tasks, S \in SUBSET Tasks : Fork(t, S)
  \/ \E t \in Tasks : Join(t)
  \/ Fire

\* Whether a task ever joins is the task's business; that the callback runs
\* once all have joined is the counter's.
SafeSpec == Init /\ [][Next]_vars
Spec == SafeSpec /\ WF_vars(Fire)
=============================================================================
