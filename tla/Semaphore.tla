------------------------------ MODULE Semaphore ------------------------------
(***************************************************************************)
(* What sync_concurrent_invoke_explicit (core.hpp) relies on in a binary   *)
(* semaphore.  One thread uses it for invocation after invocation: it      *)
(* starts one, whose callback calls release() on some other thread, and    *)
(* waits.  wait() returns once per release(), and only when that release() *)
(* has stopped using the semaphore, for the waiting thread may destroy it  *)
(* or start the next invocation with it.                                   *)
(***************************************************************************)
EXTENDS Naturals

VARIABLES started,    \* invocations started
          released,   \* calls of release() that are through with the semaphore
          passed,     \* calls of wait() that have returned
          destroyed

vars == <<started, released, passed, destroyed>>

Init == started = 0 /\ released = 0 /\ passed = 0 /\ destroyed = FALSE

Start ==
  /\ passed = started /\ ~destroyed
  /\ started' = started + 1
  /\ UNCHANGED <<released, passed, destroyed>>

Release ==
  /\ released < started
  /\ released' = released + 1
  /\ UNCHANGED <<started, passed, destroyed>>

Pass ==
  /\ passed < released
  /\ passed' = passed + 1
  /\ UNCHANGED <<started, released, destroyed>>

Destroy ==
  /\ passed = started /\ ~destroyed
  /\ destroyed' = TRUE
  /\ UNCHANGED <<started, released, passed>>

Next == Start \/ Release \/ Pass \/ Destroy

\* When the callback runs is the counter's business; that wait() returns after
\* it is the semaphore's.
SafeSpec == Init /\ [][Next]_vars
Spec == SafeSpec /\ WF_vars(Pass)
=============================================================================
