---------------------------- MODULE BasicCounter ----------------------------
(***************************************************************************)
(* One invocation counted by BasicAtomicCounter (atomic_counter.hpp), with *)
(* the functions of core.hpp that drive it: async_concurrent_invoke_-      *)
(* explicit, concurrent_call, concurrent_fork and concurrent_join.         *)
(*                                                                         *)
(* A task is one concurrent callable unit: it receives a modifier, runs    *)
(* its procedure (which may fork), and joins.  Main is the thread that     *)
(* invokes.  An atomic read-modify-write is one step; what a thread does   *)
(* between two of them is not.                                             *)
(*                                                                         *)
(* Memory orders are modelled by views.  view[a] is the set of tasks whose *)
(* writes happen before what a does next; published is what the release    *)
(* sequence of the counter carries: a release operation adds the view of   *)
(* its thread, a relaxed read-modify-write leaves it alone, and the        *)
(* acquire fence takes it over.                                            *)
(***************************************************************************)
EXTENDS Integers, FiniteSets

CONSTANTS Tasks,    \* the callable units the program may start
          Main,     \* the invoking thread
          SizeMax   \* the largest std::size_t

ASSUME BasicAssumption ==
  /\ IsFiniteSet(Tasks)
  /\ Main \notin Tasks
  /\ SizeMax \in Nat
  /\ Cardinality(Tasks) <= SizeMax

Actors == Tasks \cup {Main}

VARIABLES
  heap,       \* the counter's allocation: "none", "live" or "deleted"
  count,      \* *count_, meaningful while allocated
  published,  \* the view carried by the release sequence of *count_
  st,         \* where each task is, see Status
  pending,    \* per actor: the tasks its concurrent_call has still to start
  view        \* per actor: the tasks whose effects it is sure to see

vars == <<heap, count, published, st, pending, view>>

(***************************************************************************)
(* "idle": not part of the invocation.  "queued": counted, its modifier    *)
(* still with the actor that will start it.  "running": in its procedure.  *)
(* "joined": decrement() returned true.  "last": its fetch_sub read 0.     *)
(* "owner": decrement() returned false, the callback is to be called.      *)
(* "called": the callback has run.  "lost": its launch was given up.       *)
(***************************************************************************)
Status == {"idle", "queued", "running", "joined", "last", "owner", "called", "lost"}

In(S) == {t \in Tasks : st[t] \in S}
Idle == In({"idle"})

\* std::size_t arithmetic.
Decr(n) == IF n = 0 THEN SizeMax ELSE n - 1
Plus(n, k) == IF n + k <= SizeMax THEN n + k ELSE n + k - SizeMax - 1

Init ==
  /\ heap = "none"
  /\ count = 0
  /\ published = {}
  /\ st = [t \in Tasks |-> "idle"]
  /\ pending = [a \in Actors |-> {}]
  /\ view = [a \in Actors |-> {}]

\* `a` now has the tasks of S to start.
Enqueue(a, S) ==
  /\ st' = [t \in Tasks |-> IF t \in S THEN "queued" ELSE st[t]]
  /\ pending' = [pending EXCEPT ![a] = S]

\* Without the `- 1u`.
InvokeCountsAll(S) ==
  /\ heap = "none" /\ heap' = "live"
  /\ count' = Cardinality(S)
  /\ Enqueue(Main, S)
  /\ UNCHANGED <<published, view>>

\* async_concurrent_invoke_explicit: initializer(count_call(callers...) - 1u).
\* The callers may be empty, and then the subtraction wraps.
Invoke(S) ==
  /\ heap = "none"
  /\ heap' = "live"
  /\ count' = Decr(Cardinality(S))
  /\ Enqueue(Main, S)
  /\ UNCHANGED <<published, view>>

\* concurrent_call: the next callable is given buffer.fetch() and its portal
\* starts it; all that its launcher has seen happens before it.
Launch(a, t) ==
  /\ t \in pending[a]
  /\ pending' = [pending EXCEPT ![a] = @ \ {t}]
  /\ st' = [st EXCEPT ![t] = "running"]
  /\ view' = [view EXCEPT ![t] = view[a]]
  /\ UNCHANGED <<heap, count, published>>

\* The portal of one of Main's callables throws: the exception leaves
\* concurrent_call and the callables not yet started never will be.
Abandon ==
  /\ pending[Main] # {}
  /\ pending' = [pending EXCEPT ![Main] = {}]
  /\ st' = [t \in Tasks |-> IF t \in pending[Main] THEN "lost" ELSE st[t]]
  /\ UNCHANGED <<heap, count, published, view>>

\* Counting no callable, and only one of them, in the increase of a fork.
ForkAdding(n, t, S) ==
  /\ st[t] = "running" /\ pending[t] = {}
  /\ S # {} /\ S \subseteq Idle
  /\ count' = Plus(count, n)
  /\ Enqueue(t, S)
  /\ UNCHANGED <<heap, published, view>>

ForkUncounted(t, S) == ForkAdding(0, t, S)
ForkCountsOne(t, S) == ForkAdding(1, t, S)

\* concurrent_fork from inside the procedure of t: increase(count_call(...)),
\* a relaxed fetch_add, before any of the new callables is called.
Fork(t, S) ==
  /\ st[t] = "running" /\ pending[t] = {}
  /\ S # {} /\ S \subseteq Idle
  /\ count' = Plus(count, Cardinality(S))
  /\ Enqueue(t, S)
  /\ UNCHANGED <<heap, published, view>>

\* The test of decrement() as for a counter that starts at the number of tasks.
JoinTestsOne(t) ==
  /\ st[t] = "running" /\ pending[t] = {}
  /\ view' = [view EXCEPT ![t] = @ \cup {t}]
  /\ published' = published \cup view[t] \cup {t}
  /\ count' = Decr(count)
  /\ st' = [st EXCEPT ![t] = IF count = 1 THEN "last" ELSE "joined"]
  /\ UNCHANGED <<heap, pending>>

\* The procedure of t has returned and concurrent_join calls decrement():
\* fetch_sub with release order.  Any value but 0 ends the task.
Join(t) ==
  /\ st[t] = "running" /\ pending[t] = {}
  /\ view' = [view EXCEPT ![t] = @ \cup {t}]
  /\ published' = published \cup view[t] \cup {t}
  /\ count' = Decr(count)
  /\ st' = [st EXCEPT ![t] = IF count = 0 THEN "last" ELSE "joined"]
  /\ UNCHANGED <<heap, pending>>

\* Without the fence.
ReclaimWithoutFence(t) ==
  /\ st[t] = "last"
  /\ heap' = "deleted"
  /\ st' = [st EXCEPT ![t] = "owner"]
  /\ UNCHANGED <<count, published, pending, view>>

\* The rest of decrement() after reading 0: acquire fence, delete count_.
Reclaim(t) ==
  /\ st[t] = "last"
  /\ view' = [view EXCEPT ![t] = @ \cup published]
  /\ heap' = "deleted"
  /\ st' = [st EXCEPT ![t] = "owner"]
  /\ UNCHANGED <<count, published, pending>>

\* concurrent_join: decrement() returned false, so callback().
Callback(t) ==
  /\ st[t] = "owner"
  /\ st' = [st EXCEPT ![t] = "called"]
  /\ UNCHANGED <<heap, count, published, pending, view>>

Next ==
  \/ \E S \in SUBSET Tasks : Invoke(S)
  \/ \E a \in Actors, t \in Tasks : Launch(a, t)
  \/ Abandon
  \/ \E t \in Tasks, S \in SUBSET Tasks : Fork(t, S)
  \/ \E t \in Tasks : Join(t)
  \/ \E t \in Tasks : Reclaim(t)
  \/ \E t \in Tasks : Callback(t)

(***************************************************************************)
(* Every thread that can run does run, and every procedure returns.  No    *)
(* thread has to fork, and none has to fail.                               *)
(***************************************************************************)
Fairness ==
  /\ \A a \in Actors, t \in Tasks : WF_vars(Launch(a, t))
  /\ \A t \in Tasks : WF_vars(Join(t)) /\ WF_vars(Reclaim(t)) /\ WF_vars(Callback(t))

Spec == Init /\ [][Next]_vars /\ Fairness

-----------------------------------------------------------------------------
TypeOK ==
  /\ heap \in {"none", "live", "deleted"}
  /\ count \in 0..SizeMax
  /\ published \subseteq Tasks
  /\ st \in [Tasks -> Status]
  /\ pending \in [Actors -> SUBSET Tasks]
  /\ view \in [Actors -> SUBSET Tasks]

\* Tasks that still hold, or are about to be given, a modifier to decrement.
Outstanding == In({"queued", "running", "lost"})

\* decrement() hands out "false", and with it the callback, only when every
\* other task of the invocation has joined, and to one task only: the property
\* that the `count - 1` of the initializer, the test against 0 and the order of
\* increase() before the launches of a fork exist for.  A task whose launch was
\* given up has not joined: after an exception the callback, which may refer to
\* objects the exception has destroyed, never runs.
CallbackAfterAllJoins ==
  \A t \in In({"last", "owner", "called"}) :
    \A u \in Tasks \ {t} : st[u] \in {"idle", "joined"}

\* Nobody dereferences count_ after `delete count_`: a task that has a modifier,
\* a launcher that will hand one out and the thread in decrement() find the
\* counter allocated.
NoUseAfterFree ==
  In({"queued", "running", "last"}) # {} => heap = "live"

\* The release of every fetch_sub and the acquire fence of the last one make
\* the effects of all tasks visible to the callback, although the increments
\* of forks are relaxed.
CallbackSeesAllTasks ==
  \A t \in In({"owner", "called"}) : \A u \in Tasks \ Idle : u \in view[t]

\* The last decrement is never missed: as long as the callback has not run there
\* is a task with a step to take, or somebody who has one to launch.  What is in
\* CallbackEventuallyRuns apart from the scheduling.
SomebodyGoesOn ==
  Tasks \ Idle # {} =>
    \/ In({"running", "last", "owner", "called", "lost"}) # {}
    \/ \E a \in Actors : pending[a] # {}

\* The initializer's subtraction has wrapped: there is no task to bring the count
\* down, and none will come.
Wrapped == heap = "live" /\ count = SizeMax /\ Idle = Tasks

\* Every invocation whose launches all succeed calls back, but for one of no
\* callables, which never does: its counter stays wrapped, and allocated.
CallbackEventuallyRuns ==
  (heap # "none") ~> (In({"called", "lost"}) # {} \/ []Wrapped)

\* The invocation as its user sees it.
FJ == INSTANCE ForkJoin WITH
        active <- Outstanding,
        joined <- In({"joined", "last", "owner", "called"}),
        fired  <- In({"called"}) # {}

\* The counter keeps the promise of ForkJoin: nothing is begun, forked, joined or
\* called back out of turn, and the callback does run once all have joined.
ImplementsForkJoin == FJ!Spec

-----------------------------------------------------------------------------
(***************************************************************************)
(* The inductive strengthening of the invariants.                          *)
(***************************************************************************)
\* What waits in a pending set is queued, there once, and its launcher lives.
PendingOK ==
  /\ \A a \in Actors : \A t \in pending[a] : st[t] = "queued"
  /\ \A a, b \in Actors : a # b => pending[a] \cap pending[b] = {}
  /\ heap = "none" => \A t \in Tasks : st[t] = "idle"

\* The counter holds one less than the modifiers still to be decremented.
CountOK ==
  Outstanding # {} =>
    /\ heap = "live"
    /\ In({"last", "owner", "called"}) = {}
    /\ count + 1 = Cardinality(Outstanding)

\* The counter is deleted by the thread that read 0, not before.
LastOK == \A t \in Tasks : st[t] = "last" => heap = "live"

\* A joined task's effects are in the release sequence, and the owner of the
\* callback has taken them over.
ViewOK ==
  /\ In({"joined", "last", "owner", "called"}) \subseteq published
  /\ \A t \in In({"owner", "called"}) :
       In({"joined", "last", "owner", "called"}) \subseteq view[t]

IInv ==
  /\ TypeOK /\ PendingOK /\ CountOK /\ LastOK /\ ViewOK
  /\ CallbackAfterAllJoins
=============================================================================
