----------------------------- MODULE ThreadPool -----------------------------
(***************************************************************************)
(* ThreadPool and ThreadPoolPortal (portal.hpp): workers that loop in      *)
(* execute(), a queue of tasks behind mtx_ and cond_, and a portal whose   *)
(* destructor calls shutdown().  The portal is not copyable; it is shared  *)
(* through a reference-counted proxy, so it is destroyed by whichever      *)
(* thread gives up the last handle, a client or a worker.                  *)
(*                                                                         *)
(* A block that locks mtx_, does one thing and unlocks is a single step    *)
(* that needs mtx_ free.  A worker keeps mtx_ over several steps.          *)
(***************************************************************************)
EXTENDS Integers, Sequences, FiniteSets

CONSTANTS Workers,      \* the threads that run execute()
          Clients,      \* other threads with a handle on the portal
          Tasks,        \* the tasks that may be submitted, once each
          Carriers,     \* the tasks that hold a handle: further phases, forks
          None,
          MaxSpurious   \* bound on the spurious wake-ups of cond_.wait

ASSUME PoolAssumption ==
  /\ IsFiniteSet(Workers) /\ IsFiniteSet(Clients)
  /\ Clients \cap (Workers \cup Tasks) = {}
  /\ None \notin Workers \cup Clients \cup Tasks
  /\ Carriers \subseteq Tasks
  /\ MaxSpurious \in Nat

Threads == Workers \cup Clients

VARIABLES
  mtx,          \* who owns mtx_
  is_shutdown,
  tasks,        \* tasks_
  asleep,       \* the workers in cond_.wait
  wpc,          \* per worker: where it is in execute()
  current,      \* per worker: the local `current`
  call,         \* per thread: where it is in emplace() or shutdown(), or "none"
  arg,          \* per thread: the task it is emplacing
  handles,      \* who holds a handle on the portal: clients and tasks
  keepers,      \* the carriers that hold their handle until they are destroyed
  stage,        \* per task: how far it has got
  spurious      \* spurious wake-ups so far

vars == <<mtx, is_shutdown, tasks, asleep, wpc, current, call, arg, handles, keepers, stage, spurious>>

Init ==
  /\ mtx = None
  /\ is_shutdown = FALSE
  /\ tasks = <<>>
  /\ asleep = {}
  /\ wpc = [w \in Workers |-> "enter"]
  /\ current = [w \in Workers |-> None]
  /\ call = [th \in Threads |-> "none"]
  /\ arg = [th \in Threads |-> None]
  /\ handles = Clients
  /\ keepers \in SUBSET Carriers
  /\ stage = [t \in Tasks |-> "new"]
  /\ spurious = 0

\* `x` gives up its handle on thread th; the last one to do so destroys the
\* portal, whose destructor calls shutdown().
GiveUp(th, x) ==
  /\ handles' = handles \ {x}
  /\ call' = [call EXCEPT ![th] = IF handles = {x} THEN "shutdown" ELSE "none"]

Wake(S) ==
  /\ asleep' = asleep \ S
  /\ wpc' = [w \in Workers |-> IF w \in S THEN "enter" ELSE wpc[w]]

-----------------------------------------------------------------------------
(***************************************************************************)
(* ThreadPoolPortal::operator(), by a client or from inside a task.        *)
(***************************************************************************)
HasHandle(th) ==
  \/ th \in Clients /\ th \in handles
  \/ th \in Workers /\ wpc[th] = "run" /\ current[th] \in handles

\* bind_simple builds the task, with a handle of its own if it carries one.
Submit(th, t) ==
  /\ call[th] = "none" /\ HasHandle(th) /\ stage[t] = "new"
  /\ stage' = [stage EXCEPT ![t] = "made"]
  /\ handles' = handles \cup ({t} \cap Carriers)
  /\ call' = [call EXCEPT ![th] = "emplace"]
  /\ arg' = [arg EXCEPT ![th] = t]
  /\ UNCHANGED <<mtx, is_shutdown, tasks, asleep, wpc, current, keepers, spurious>>

\* Notifying only for the first task in the queue.
EmplacePushSparing(th) ==
  /\ call[th] = "emplace" /\ mtx = None
  /\ tasks' = Append(tasks, arg[th])
  /\ stage' = [stage EXCEPT ![arg[th]] = "queued"]
  /\ arg' = [arg EXCEPT ![th] = None]
  /\ call' = [call EXCEPT ![th] = IF tasks = <<>> THEN "notify_one" ELSE "none"]
  /\ UNCHANGED <<mtx, is_shutdown, asleep, wpc, current, handles, keepers, spurious>>

\* emplace(): the push under the lock ...
EmplacePush(th) ==
  /\ call[th] = "emplace" /\ mtx = None
  /\ tasks' = Append(tasks, arg[th])
  /\ stage' = [stage EXCEPT ![arg[th]] = "queued"]
  /\ arg' = [arg EXCEPT ![th] = None]
  /\ call' = [call EXCEPT ![th] = "notify_one"]
  /\ UNCHANGED <<mtx, is_shutdown, asleep, wpc, current, handles, keepers, spurious>>

\* A notification that reaches nobody.
NotifyNobody(th) ==
  /\ call[th] = "notify_one"
  /\ call' = [call EXCEPT ![th] = "none"]
  /\ UNCHANGED <<mtx, is_shutdown, tasks, asleep, wpc, current, arg, handles, keepers, stage, spurious>>

\* ... and notify_one() after it.
NotifyOne(th) ==
  /\ call[th] = "notify_one"
  /\ \/ asleep = {} /\ UNCHANGED <<asleep, wpc>>
     \/ \E w \in asleep : Wake({w})
  /\ call' = [call EXCEPT ![th] = "none"]
  /\ UNCHANGED <<mtx, is_shutdown, tasks, current, arg, handles, keepers, stage, spurious>>

\* A client is done with the portal.
Leave(c) ==
  /\ call[c] = "none" /\ c \in handles
  /\ GiveUp(c, c)
  /\ UNCHANGED <<mtx, is_shutdown, tasks, asleep, wpc, current, arg, keepers, stage, spurious>>

\* shutdown(): the flag under the lock ...
ShutdownSet(th) ==
  /\ call[th] = "shutdown" /\ mtx = None
  /\ is_shutdown' = TRUE
  /\ call' = [call EXCEPT ![th] = "notify_all"]
  /\ UNCHANGED <<mtx, tasks, asleep, wpc, current, arg, handles, keepers, stage, spurious>>

\* One notification for all workers.
NotifyOneOfAll(th) ==
  /\ call[th] = "notify_all"
  /\ \/ asleep = {} /\ UNCHANGED <<asleep, wpc>>
     \/ \E w \in asleep : Wake({w})
  /\ call' = [call EXCEPT ![th] = "none"]
  /\ UNCHANGED <<mtx, is_shutdown, tasks, current, arg, handles, keepers, stage, spurious>>

\* ... and notify_all() after it.
NotifyAll(th) ==
  /\ call[th] = "notify_all"
  /\ Wake(asleep)
  /\ call' = [call EXCEPT ![th] = "none"]
  /\ UNCHANGED <<mtx, is_shutdown, tasks, current, arg, handles, keepers, stage, spurious>>

-----------------------------------------------------------------------------
(***************************************************************************)
(* execute()                                                               *)
(***************************************************************************)
\* The lock on entry, on return from cond_.wait and after current().
Lock(w) ==
  /\ wpc[w] \in {"enter", "relock"} /\ call[w] = "none" /\ mtx = None
  /\ mtx' = w
  /\ wpc' = [wpc EXCEPT ![w] = IF @ = "enter" THEN "check" ELSE "dispose"]
  /\ UNCHANGED <<is_shutdown, tasks, asleep, current, call, arg, handles, keepers, stage, spurious>>

\* Without the pop.
TakeWithoutPop(w) ==
  /\ wpc[w] = "check" /\ call[w] = "none" /\ tasks # <<>>
  /\ current' = [current EXCEPT ![w] = Head(tasks)]
  /\ stage' = [stage EXCEPT ![Head(tasks)] = "running"]
  /\ mtx' = None
  /\ wpc' = [wpc EXCEPT ![w] = "run"]
  /\ UNCHANGED <<is_shutdown, tasks, asleep, call, arg, handles, keepers, spurious>>

\* while (!tasks_.empty()): take the front task and unlock.
Take(w) ==
  /\ wpc[w] = "check" /\ call[w] = "none" /\ tasks # <<>>
  /\ current' = [current EXCEPT ![w] = Head(tasks)]
  /\ tasks' = Tail(tasks)
  /\ stage' = [stage EXCEPT ![Head(tasks)] = "running"]
  /\ mtx' = None
  /\ wpc' = [wpc EXCEPT ![w] = "run"]
  /\ UNCHANGED <<is_shutdown, asleep, call, arg, handles, keepers, spurious>>

\* Every task keeps its handle.
ReturnKeeping(w) ==
  /\ wpc[w] = "run" /\ call[w] = "none"
  /\ stage' = [stage EXCEPT ![current[w]] = "done"]
  /\ wpc' = [wpc EXCEPT ![w] = "relock"]
  /\ UNCHANGED <<mtx, is_shutdown, tasks, asleep, current, call, arg, handles, keepers, spurious>>

\* A task of the library has passed its handle on with the rest of its phases, and
\* execute() has dropped its own copy; a keeper still has it.
DropHandle(w, t) ==
  IF t \in Carriers \ keepers THEN GiveUp(w, t) ELSE UNCHANGED <<call, handles>>

\* current() returns.
Return(w) ==
  LET t == current[w]
  IN  /\ wpc[w] = "run" /\ call[w] = "none"
      /\ stage' = [stage EXCEPT ![t] = "done"]
      /\ wpc' = [wpc EXCEPT ![w] = "relock"]
      /\ DropHandle(w, t)
      /\ UNCHANGED <<mtx, is_shutdown, tasks, asleep, current, arg, keepers, spurious>>

\* The end of the loop's body destroys `current`, after mtx_.lock().
Dispose(w) ==
  LET t == current[w]
  IN  /\ wpc[w] = "dispose"
      /\ stage' = [stage EXCEPT ![t] = "destroyed"]
      /\ current' = [current EXCEPT ![w] = None]
      /\ wpc' = [wpc EXCEPT ![w] = "check"]
      /\ IF t \in handles THEN GiveUp(w, t) ELSE UNCHANGED <<call, handles>>
      /\ UNCHANGED <<mtx, is_shutdown, tasks, asleep, arg, keepers, spurious>>

\* Looking at the flag only.
ExitEarly(w) ==
  /\ wpc[w] = "check" /\ call[w] = "none" /\ is_shutdown
  /\ mtx' = None
  /\ wpc' = [wpc EXCEPT ![w] = "exited"]
  /\ UNCHANGED <<is_shutdown, tasks, asleep, current, call, arg, handles, keepers, stage, spurious>>

\* No task, and the pool is shut down: leave the loop, which unlocks.
Exit(w) ==
  /\ wpc[w] = "check" /\ call[w] = "none" /\ tasks = <<>> /\ is_shutdown
  /\ mtx' = None
  /\ wpc' = [wpc EXCEPT ![w] = "exited"]
  /\ UNCHANGED <<is_shutdown, tasks, asleep, current, call, arg, handles, keepers, stage, spurious>>

\* No task yet: cond_.wait(lk) unlocks and sleeps in one go.
Wait(w) ==
  /\ wpc[w] = "check" /\ call[w] = "none" /\ tasks = <<>> /\ ~is_shutdown
  /\ mtx' = None
  /\ asleep' = asleep \cup {w}
  /\ wpc' = [wpc EXCEPT ![w] = "asleep"]
  /\ UNCHANGED <<is_shutdown, tasks, current, call, arg, handles, keepers, stage, spurious>>

\* cond_.wait may return for no reason.
SpuriousWake(w) ==
  /\ w \in asleep /\ spurious < MaxSpurious
  /\ spurious' = spurious + 1
  /\ Wake({w})
  /\ UNCHANGED <<mtx, is_shutdown, tasks, current, call, arg, handles, keepers, stage>>

Next ==
  \/ \E th \in Threads, t \in Tasks : Submit(th, t)
  \/ \E th \in Threads : EmplacePush(th) \/ NotifyOne(th) \/ ShutdownSet(th) \/ NotifyAll(th)
  \/ \E c \in Clients : Leave(c)
  \/ \E w \in Workers :
       Lock(w) \/ Take(w) \/ Return(w) \/ Dispose(w) \/ Exit(w) \/ Wait(w) \/ SpuriousWake(w)

(***************************************************************************)
(* Threads that can run do, tasks return.  The mutex need not be fair: the *)
(* tasks and the spurious wake-ups being finite, contention for it ends.   *)
(* Nobody has to submit anything or to give up a client's handle.          *)
(***************************************************************************)
Fairness ==
  /\ \A th \in Threads : WF_vars(EmplacePush(th) \/ NotifyOne(th) \/ ShutdownSet(th) \/ NotifyAll(th))
  /\ \A w \in Workers : WF_vars(Lock(w) \/ Take(w) \/ Return(w) \/ Dispose(w) \/ Exit(w) \/ Wait(w))

Spec == Init /\ [][Next]_vars /\ Fairness

-----------------------------------------------------------------------------
TypeOK ==
  /\ mtx \in Workers \cup {None}
  /\ is_shutdown \in BOOLEAN
  /\ tasks \in Seq(Tasks)
  /\ asleep \subseteq Workers
  /\ wpc \in [Workers -> {"enter", "check", "run", "relock", "dispose", "asleep", "exited"}]
  /\ current \in [Workers -> Tasks \cup {None}]
  /\ call \in [Threads -> {"none", "emplace", "notify_one", "shutdown", "notify_all"}]
  /\ arg \in [Threads -> Tasks \cup {None}]
  /\ handles \subseteq Clients \cup Tasks
  /\ keepers \subseteq Carriers
  /\ stage \in [Tasks -> {"new", "made", "queued", "running", "done", "destroyed"}]
  /\ spurious \in 0..MaxSpurious

\* A worker that destroys the last handle together with its task does so with
\* mtx_ locked, and shutdown() locks mtx_ again: it waits for itself.
SelfLocked(w) == mtx = w /\ call[w] \in {"emplace", "shutdown"}

\* With tasks that pass their handle on before they return, as the phases of
\* MultiPhaseConcurrentCallable do, no worker ever waits for the mutex it owns;
\* it takes a task that keeps the last handle until it is destroyed.
NoSelfLock ==
  \A w \in Workers :
    SelfLocked(w) => handles = {} /\ \E t \in keepers : stage[t] = "destroyed"

\* A task is owned by exactly one place: the call that emplaces it, the queue,
\* or one worker.  Taking, returning and disposing by several workers at once
\* neither runs a task twice nor drops it.
OneOwner ==
  \A t \in Tasks :
    stage[t] \in {"made", "queued", "running", "done"} =>
      Cardinality({th \in Threads : arg[th] = t})
        + Cardinality({i \in DOMAIN tasks : tasks[i] = t})
        + Cardinality({w \in Workers : current[w] = t}) = 1

\* shutdown() does not cut work off: when a worker has left, nobody can submit
\* any more and what was submitted is in the hands of other workers; when all
\* have left, every task submitted has been run and destroyed.
DrainedBeforeExit ==
  LET Left == {w \in Workers : wpc[w] = "exited"}
  IN  /\ Left # {} => tasks = <<>> /\ \A th \in Threads : call[th] # "emplace"
      /\ Left = Workers /\ Left # {} => \A t \in Tasks : stage[t] \in {"new", "destroyed"}

\* Nobody sleeps over work: for every task that is queued while workers sleep
\* there is a worker on its way to the queue (or on its way to the mutex it owns,
\* see NoSelfLock), or a notification still to be sent.  It is not left to the
\* workers in the middle of a task, who may be there for long.  And who sleeps
\* when the pool is shut down will still be woken for that.
Heading == {w \in Workers : wpc[w] \in {"enter", "check", "relock", "dispose"}}
In(where) == {th \in Threads : call[th] = where}
NoLostWakeup ==
  asleep # {} =>
    /\ Len(tasks) <= Cardinality(Heading) + Cardinality(In("notify_one"))
    /\ is_shutdown => In("notify_all") # {}

AllExited == \A w \in Workers : wpc[w] = "exited"
Stuck == \E w \in Workers : SelfLocked(w)

\* No wake-up is lost: what is submitted is run, whatever the workers were doing
\* when it was pushed and whoever the notification went to.
SubmittedTasksRun ==
  \A t \in Tasks : (stage[t] = "queued") ~> (stage[t] = "destroyed" \/ Stuck)

\* When the last handle is given up, on whatever thread, all workers end; a
\* worker that waits for itself (see NoSelfLock) is the one thing that can keep
\* the pool from ending.
WorkersEnd == (handles = {}) ~> (AllExited \/ Stuck)

-----------------------------------------------------------------------------
(***************************************************************************)
(* The inductive strengthening of the invariants.                          *)
(***************************************************************************)
\* mtx_ is locked from the top of the loop to its two ends, and sleep is in wait.
MutexOK ==
  \A w \in Workers :
    /\ mtx = w <=> wpc[w] \in {"check", "dispose"}
    /\ w \in asleep <=> wpc[w] = "asleep"

\* Who is in emplace() has a handle for as long as the call takes; who is in
\* shutdown() has given up the last one.
CallOK ==
  /\ \A th \in Threads :
       /\ call[th] = "emplace" <=> arg[th] # None
       /\ call[th] = "emplace" => HasHandle(th)
       /\ call[th] \in {"shutdown", "notify_all"} => handles = {}
  /\ is_shutdown => handles = {}
  /\ \A w \in Workers :
       /\ call[w] \in {"emplace", "notify_one"} => wpc[w] = "run"
       /\ call[w] \in {"shutdown", "notify_all"} => wpc[w] \in {"relock", "check"}

\* What is in the hands of a call, in the queue or with a worker is there once,
\* and its stage says where it is.
ArgOK ==
  \A th \in Threads : arg[th] # None =>
    stage[arg[th]] = "made" /\ \A x \in Threads \ {th} : arg[x] # arg[th]

QueueOK ==
  \A i \in 1..Len(tasks) :
    stage[tasks[i]] = "queued" /\ \A j \in 1..Len(tasks) : tasks[j] = tasks[i] => j = i

CurrentOK ==
  \A w \in Workers :
    /\ current[w] # None <=> wpc[w] \in {"run", "relock", "dispose"}
    /\ current[w] # None =>
         /\ stage[current[w]] = IF wpc[w] = "run" THEN "running" ELSE "done"
         /\ \A v \in Workers \ {w} : current[v] # current[w]

\* And every stage has its place.
OwnedOK ==
  \A t \in Tasks :
    /\ stage[t] = "made" => \E th \in Threads : arg[th] = t
    /\ stage[t] = "queued" => \E i \in 1..Len(tasks) : tasks[i] = t
    /\ stage[t] \in {"running", "done"} => \E w \in Workers : current[w] = t

\* A task that keeps its handle when it has returned is a keeper.
HandlesOK ==
  \A t \in Tasks \cap handles :
    t \in Carriers /\ stage[t] \notin {"new", "destroyed"} /\ (stage[t] = "done" => t \in keepers)

ExitOK ==
  \A w \in Workers : wpc[w] = "exited" => is_shutdown /\ tasks = <<>>

IInv ==
  /\ TypeOK /\ MutexOK /\ CallOK /\ ArgOK /\ QueueOK /\ CurrentOK /\ OwnedOK
  /\ HandlesOK /\ ExitOK /\ NoSelfLock
=============================================================================
