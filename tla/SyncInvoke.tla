------------------------------ MODULE SyncInvoke ------------------------------
(***************************************************************************)
(* sync_concurrent_invoke_explicit (core.hpp) with BasicAtomicCounter and  *)
(* any one of SystemSemaphores: the invocation of BasicCounter, whose      *)
(* callback releases the semaphore, most often one in the frame of Main,   *)
(* and Main, who starts the tasks, runs the runnable and waits in the      *)
(* destructor of the blocker.                                              *)
(***************************************************************************)
EXTENDS BasicCounter, SystemSemaphores

VARIABLES
  main,      \* where Main is, see MainAt
  outcome,   \* how Main leaves: "returned", "runnable_threw" or "portal_threw"
  released   \* the view carried by release()

frame == <<main, outcome, released>>
allVars == <<vars, semaphore, frame>>

(***************************************************************************)
(* "launching": in async_concurrent_invoke_explicit, no blocker yet.       *)
(* "running": in the runnable.  "waiting": in ~SyncInvokeHelper().         *)
(* "left": the frame is gone.  "terminated": std::terminate() has ended    *)
(* the program.                                                            *)
(***************************************************************************)
MainAt == {"entered", "launching", "running", "waiting", "left", "terminated"}

SyncInit ==
  /\ Init /\ SemaphoreInit
  /\ main = "entered"
  /\ outcome = "none"
  /\ released = {}

SyncBegin(S) ==
  /\ main = "entered" /\ Invoke(S)
  /\ main' = "launching"
  /\ UNCHANGED <<semaphore, outcome, released>>

\* A portal throws: the exception passes through before there is a blocker.
PortalThrows ==
  /\ main = "launching" /\ Abandon
  /\ main' = "left"
  /\ outcome' = "portal_threw"
  /\ UNCHANGED <<semaphore, released>>

\* All tasks are started: the blocker is constructed, and runnable() called.
Block ==
  /\ main = "launching" /\ pending[Main] = {}
  /\ main' = "running"
  /\ UNCHANGED <<vars, semaphore, outcome, released>>

\* An exception of the runnable passes by the blocker, as if there were none.
RunnableEndsUnblocked(how) ==
  /\ main = "running"
  /\ main' = IF how = "runnable_threw" THEN "left" ELSE "waiting"
  /\ outcome' = how
  /\ UNCHANGED <<vars, semaphore, released>>

\* runnable() returns or throws; either way the blocker is destroyed next.
RunnableEnds(how) ==
  /\ main = "running"
  /\ main' = "waiting"
  /\ outcome' = how
  /\ UNCHANGED <<vars, semaphore, released>>

\* What Main sees after its acquire fence, and without it.
Unacquired == view[Main]
AcquiredView == view[Main] \cup released

\* wait() returns, and then the frame is left.
WaitEnds ==
  /\ main = "waiting" /\ WaitReturns
  /\ view' = [view EXCEPT ![Main] = AcquiredView]
  /\ main' = "left"
  /\ UNCHANGED <<heap, count, published, st, pending, outcome, released>>

\* SyncConcurrentCallback: release(), up to and including the step after which
\* wait() can return.
SyncCallback(t) ==
  /\ Callback(t) /\ Releases
  /\ released' = view[t]
  /\ UNCHANGED <<main, outcome>>

\* An exception out of a destructor, or out of the function of a thread.
Terminate ==
  /\ PromiseUsedUp
  /\ main = "waiting" \/ In({"owner"}) # {}
  /\ main' = "terminated"
  /\ UNCHANGED <<vars, semaphore, outcome, released>>

\* The steps of BasicCounter that the frame has no part in.
Counting ==
  \/ \E a \in Actors, t \in Tasks : Launch(a, t)
  \/ \E t \in Tasks, S \in SUBSET Tasks : Fork(t, S)
  \/ \E t \in Tasks : Join(t) \/ Reclaim(t)

SyncNext ==
  /\ main # "terminated"
  /\ \/ \E S \in SUBSET Tasks : SyncBegin(S)
     \/ PortalThrows \/ Block \/ WaitEnds \/ Terminate
     \/ \E how \in {"returned", "runnable_threw"} : RunnableEnds(how)
     \/ \E t \in Tasks : SyncCallback(t)
     \/ main = "waiting" /\ FutexSleep /\ UNCHANGED <<vars, frame>>
     \/ \E w \in {"own", "earlier"} : FutexWake(w) /\ UNCHANGED <<vars, frame>>
     \/ Counting /\ UNCHANGED <<semaphore, frame>>

(***************************************************************************)
(* Procedures and the runnable end; threads run.  A failed test_and_set of *)
(* the spin changes nothing, and one that can succeed goes on being able.  *)
(* No signal has to come.                                                  *)
(***************************************************************************)
Going(A) == main # "terminated" /\ A

SyncFairness ==
  /\ WF_allVars(Block) /\ WF_allVars(WaitDue /\ WaitEnds) /\ WF_allVars(Going(Terminate))
  /\ WF_allVars(\E how \in {"returned", "runnable_threw"} : RunnableEnds(how))
  /\ \A a \in Actors, t \in Tasks :
       WF_allVars(Going(Launch(a, t) /\ UNCHANGED <<semaphore, frame>>))
  /\ \A t \in Tasks :
       /\ WF_allVars(Going(Join(t) /\ UNCHANGED <<semaphore, frame>>))
       /\ WF_allVars(Going(Reclaim(t) /\ UNCHANGED <<semaphore, frame>>))
       /\ WF_allVars(Going(SyncCallback(t)))
  /\ \A w \in {"own", "earlier"} :
       WF_allVars(Going(FutexWake(w) /\ UNCHANGED <<vars, frame>>))

SyncSpec == SyncInit /\ [][SyncNext]_allVars /\ SyncFairness

-----------------------------------------------------------------------------
SyncTypeOK ==
  /\ TypeOK
  /\ main \in MainAt
  /\ outcome \in {"none", "returned", "runnable_threw", "portal_threw"}
  /\ released \subseteq Tasks
  /\ kind \in Kinds /\ prior \in Priors
  /\ given \in BOOLEAN
  /\ sleep \in {"no", "asleep", "woken"}
  /\ wakes \subseteq {"own", "earlier"}
  /\ signals \in 0..MaxSignals

\* The callback holds a pointer to the semaphore in Main's frame.  Whatever way
\* Main leaves the frame, nobody is or ever gets in a position to call it: after
\* a return or an exception of the runnable because it has been called, after an
\* exception of a portal because the lost tasks keep the count up for ever.  The
\* exceptions are those of Dependable; what a FUTEX_WAKE may still do after the
\* frame has gone is not a use of the frame, but see MainWaitsForAllTasks.
FrameOutlivesCallback ==
  main = "left" =>
    /\ outcome = "portal_threw" => count + 1 > Cardinality(In({"queued", "running"}))
    /\ outcome = "portal_threw" \/ Dependable => In({"last", "owner"}) = {}

\* "Main thread does nothing but wait for the completion of other tasks"
\* (example 1): unless a portal throws, every task has joined when Main goes on,
\* and Main sees the effects of all of them, of those forked by others too.
AllTasksSeen == \A t \in Tasks \ Idle : st[t] \in {"joined", "called"} /\ t \in view[Main]

\* So it is with every class of semaphore, in the cases named by Dependable, and
\* the callback has run.  (Without any callables there is nobody to run it, so that
\* Main does not go on at all.)
MainGoesOnAfterAllTasks ==
  main = "left" /\ outcome # "portal_threw" /\ Dependable =>
    In({"called"}) # {} /\ AllTasksSeen

\* The comment of example 1 without any condition on the semaphore.
MainWaitsForAllTasks ==
  main = "left" /\ outcome # "portal_threw" => AllTasksSeen

\* An invocation ends in one of three ways.  A promise used again always ends the
\* program, unless a portal throws before it is asked for anything; nothing else
\* does.  An invocation of no callables may wait for ever.  All others are left.
MainLeaves ==
  (main # "entered") ~>
    \/ main = "left" /\ (PromiseUsedUp => outcome = "portal_threw")
    \/ main = "terminated" /\ PromiseUsedUp
    \/ [](main = "waiting" /\ Idle = Tasks)

\* What is in MainLeaves apart from the scheduling: when Main is in wait(), the
\* invocation goes on or wait() does, for which a FUTEX_WAIT that sleeps may need
\* the FUTEX_WAKE of this invocation.
MainNotStuck ==
  main = "waiting" /\ Tasks \ Idle # {} /\ ~PromiseUsedUp =>
    \/ In({"running", "last", "owner"}) # {} \/ \E t \in Tasks : pending[t] # {}
    \/ WaitDue \/ "own" \in wakes

-----------------------------------------------------------------------------
(***************************************************************************)
(* The inductive strengthening of the invariants.                          *)
(***************************************************************************)
\* Where wait() cannot have a token of an earlier use of the semaphore or of its
\* address, what it waits for comes after the callback.
TokenOK ==
  /\ given => In({"called"}) # {} \/ (prior = "same_object" /\ kind \in {"futex", "promise"})
  /\ kind = "futex" /\ prior = "none" /\ (sleep = "woken" \/ wakes # {}) => In({"called"}) # {}

\* The callback comes after all joins and passes their effects on.
ReleasedOK ==
  In({"called"}) # {} => \A t \in Tasks \ Idle : st[t] \in {"joined", "called"} /\ t \in released

\* Main leaves in one of two ways: some task is lost, or the callback has run.
LeftOK ==
  /\ outcome = "portal_threw" => In({"lost"}) # {}
  /\ main = "left" /\ outcome # "portal_threw" /\ Dependable => In({"called"}) # {} /\ AllTasksSeen

SyncIInv == SyncTypeOK /\ IInv /\ TokenOK /\ ReleasedOK /\ LeftOK

\* And that of MainNotStuck: when Main comes to wait everything has been launched,
\* and what the callback has done to the semaphore is not undone before Main leaves.
LaunchedOK ==
  /\ main \in {"entered", "launching", "running", "waiting"} => In({"lost"}) = {}
  /\ main \in {"running", "waiting"} => pending[Main] = {}
WakeOK ==
  In({"called"}) # {} /\ main \notin {"left", "terminated"} =>
    given /\ (kind = "futex" /\ sleep = "asleep" => "own" \in wakes)
=============================================================================
