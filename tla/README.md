# A TLA+ model of the concurrent support library

The repository implements ISO C++ P0642R0: concurrent programs structured like
serial ones. A program *invokes* a set of callable units, each unit may *fork*
others while it runs, each *joins* when it is through, and whoever joins last
runs the *callback* of the invocation. This directory holds TLA+ modules of the
library, TLC configurations that check them on small instances, and TLAPS proofs.

All line numbers are those of the files under `src/solution/` unless a path is given.

## 1. Inventory

| Component | State | Operations | Interacts with | What makes it correct |
|---|---|---|---|---|
| **BasicAtomicCounter** `atomic_counter.hpp` 50-88 | one heap-allocated `atomic_size_t`, one less than the modifiers outstanding | `Initializer()`, `increase`, `decrement` | every task holds a copy of the pointer | the last decrement, and only it, returns false; no access after `delete`; release/acquire makes all effects visible to the callback |
| **TreeAtomicCounter** 90-175, **StackedLinearBuffer** 31-48 | tree of nodes with a count of at most `MAX_COUNT`; a stack of (number, node) per increase | the same; `init_node` builds chains | as above | the same, and: no token lost or made up when an increase is split over nodes, no node above its bound, none deleted under a child |
| **core functions** `core.hpp` | stack frames | `async_/sync_concurrent_invoke(_explicit)`, `concurrent_call`, `concurrent_fork`, `concurrent_join` | counter, callers, semaphore | increase before launch, callback after the last join; a synchronous invocation returns after the callback, also when the runnable throws |
| **Binary semaphores** `binary_semaphore.hpp` | a flag, mutex + condition variable + two flags, a futex word, a `sem_t`, an event, a promise | `wait`, `release` | the callback of a synchronous invocation releases, the invoker waits and then destroys | one `wait` per `release`, after it; nobody inside when `wait` has returned; reuse |
| **Callers** `concurrent_caller.hpp` | callables; Caller2D also a portal and a concurrency | `size`, `call` | take modifiers from the buffer, start callables; Caller2D invokes synchronously inside `call` | `size` modifiers fetched; chunks cover every index once |
| **Callables** `concurrent_callable.hpp` | a procedure and portal; a queue of phases | `operator()`, `append_phase` | portals, procedures, join | phases in order, one join, single use |
| **Procedures** `concurrent_procedure.hpp` | reference to the modifier, copy of the callback | `operator()`, `fork` | modifier, callback | references live while the procedure runs |
| **ThreadPool, ThreadPoolPortal** `portal.hpp` 89-163 | `mtx_`, `cond_`, `is_shutdown_`, `tasks_`; a `shared_ptr` to the pool | `execute`, `emplace`, `shutdown`; submit, destroy | tasks hold handles on the portal | no lost wake-up, each task run once, drained before the workers end, no self-lock |
| **ThreadPortal, ThreadManager** 35-87 | the deque of threads to be joined at exit | submit; `emplace`, destructor | threads emplace others while they are joined | all managed threads joined before exit |
| **SharedWrapper** `wrapper.hpp` 198-285 | holder with `count_` | construct, copy, move, assign, destroy, `get` | portals, callbacks are shared through it | object lives as long as it is held; deletion after every use |
| **DeepWrapper** 42-173, Trivial/DeferredWrapper, **proxies** `proxy.hpp` | holder pointer and small-object buffer | the same | procedures, callables, tasks are passed by it | deep copies, no double destruction, moved-from states usable |
| **examples** `src/example` | `exit_count` (3), chunks (5) | `check`, `run`, `concurrent_copy` | the library | `check` is atomic, all workers stop; every item is copied once |
| requirements, abstractions, util | - | compile-time concepts, aliases, argument binding | - | not state |

What is hard here: decrements, increases and deletions race without a lock and
with relaxed orders; the threads of one invocation outlive the frame that
started them unless something waits; objects are destroyed by whichever thread
lets go last; a condition variable is used next to hand-made locking; portals,
runnables and tasks may throw half way. `PROJECT.json` ("hazards") lists each
place, with the properties that guard it or the reason why none does yet.

## 2. Modules

| Module | Models | Checked by | Proved in |
|---|---|---|---|
| `ForkJoin` | the abstract promise of one invocation to its user | as a property of the two counters | - |
| `BasicCounter` | one invocation on a `BasicAtomicCounter`, with the core functions | `basic` | `SyncInvokeProofs` |
| `TreeCounter` | one invocation on a `TreeAtomicCounter` and its buffer | `tree` | `TreeCounterProofs` |
| `ThreadPool` | the pool, and its portal shared by clients and tasks | `pool` | `ThreadPoolProofs` |
| `Semaphore` | the abstract promise of a binary semaphore to `sync_concurrent_invoke_explicit` | as a property of `BlockingSemaphore` | - |
| `BlockingSemaphore` | `BlockingBinarySemaphore`, invocation after invocation | `blocking_semaphore` | `BlockingSemaphoreProofs` |
| `SystemSemaphores` | the five other classes of semaphore, whose `wait()` is a spin or one call of the system | through `SyncInvoke` | `SyncInvokeProofs` |
| `SyncInvoke` | a synchronous invocation with the semaphore in the invoker's frame; composes `BasicCounter` and `SystemSemaphores` | `sync_invoke`, `sync_futex` | `SyncInvokeProofs` |
| `SharedWrapper` | the reference-counted holder | `shared_wrapper`, `shared_wrapper_comment` | `SharedWrapperProofs` |
| `ValueCells` | the abstract promise of a deep-copying proxy: a variable is a value | as a property of `DeepProxy` | - |
| `DeepProxy` | `proxy<Callable>` over `DeepWrapper`, with the small-object block | `deep_proxy` | `DeepProxyProofs` |
| `Phases` | multi-phase callables over thread portals, `ThreadManager`, the end of the program | `phases` | `PhasesProofs` |
| `Partition` | the division into chunks, as functions of size and concurrency, and what they have to be | through `Caller2D` | `Caller2DProofs` |
| `Caller2D` | `ConcurrentCaller2D::call` on threads or on a pool, several at a time | `caller2d` | `Caller2DProofs` |
| `AtomicCheck` | the atomic block that example 3 says `check()` is | as a property of `WorkerControl` | - |
| `WorkerControl` | example 3: workers, `check()` and the instructions | `worker_control` | - |

`MC*` modules give the constants their values for TLC. Next to some definitions
there is a second one with a plausible mistake in it (a missing fence, a fork
that does not count); they belong to no specification, and show which property
would notice the mistake.

Every module has a type invariant. Where it is not among the properties of the
module's run it has been checked with the same configuration; it is there for
the reader, and for the proofs.

### How the state corresponds to the code

**Tasks and steps.** A task is one callable unit from its call to its join. An
atomic read-modify-write, a `new`, a lock, a store that another thread may see
are steps; what a thread does on its own between two of them is not. `st[t]`
names where a task is. `pending[a]` is the rest of the loop of
`concurrent_call` (and of the callers' `call`) on thread `a`: `Launch` takes
from it in any order, which covers every order of callers and callables.
Operations on objects that one thread uses at a time (`DeepProxy`, the chunks'
arithmetic) are one step each.

**BasicCounter.** `heap` is the allocation behind `count_`, `count` its value
modulo `SizeMax + 1`. `Invoke(S)` is `async_concurrent_invoke_explicit`
(`initializer(count_call(...) - 1u)`, 71, which wraps for `S = {}`), `Launch` a
turn of `concurrent_call`, `Abandon` the exception of a portal that leaves it,
`Fork` is `concurrent_fork` with the relaxed `fetch_add`, `Join` the end of
`Callable::operator()` with the `fetch_sub`, `Reclaim` the fence and `delete`,
`Callback` the call in `concurrent_join`. An exception in a fork leaves the
procedure of a task, and with it (on a thread of its own) terminates the
program; it is not modelled.

**TreeCounter.** One record of variables per node (`mem`, `parent`, `count`,
`published`), one buffer per actor. `increase()` is `IncreaseLoad`, then
`IncreaseFull` or rounds of `CasFails` and `CasSucceeds`, then the allocations
of `init_node` one by one (`ChainNode`, `ChainEnd`), whose locals are `tail`
and `todo`. `decrement()` is `FetchSub`, `Reclaim`, `FetchSub`, ... up the tree.
A relaxed load reads the present count: that an older one would do no harm is
not shown (an older `MAX_COUNT` builds a chain where none was needed, any other
makes the exchange fail). `Abandon` is the exception of a portal out of Main's
calls: the modifiers left in the buffer are never given back, so the callback
never runs. A fork of no callables is `increase(0)`, which leaves a node's count
as it is, or allocates a node below a full one and moves its caller there. The
buffer is a temporary of `concurrent_fork`; with nothing to call it is gone as soon
as `increase(0)` has made it, and with it the entry of zero tokens that line 146
pushes and that nobody fetches (`InScope`).

**Memory orders** are views, sets of tasks (or of wrappers) whose effects
happen before what a thread does next. A release operation adds the view of its
thread to what the atomic carries, a relaxed read-modify-write continues the
release sequence, an acquire fence takes it over, starting a task hands the view
on. Data races other than those on the named state are not modelled.

**ThreadPool.** A locked block that does one thing is one step that needs `mtx`
free; `execute()` keeps it from `Lock` to `Take`, `Exit` or `Wait`. `call[th]`
is where a thread is in `emplace()` or `shutdown()`; it may be a worker, inside
its task or while it destroys one. The portal is not copyable, handles on it
are (a `SharedProxy`): `handles` is the set of those who hold one, and giving up
the last one is `~ThreadPoolPortal()`. `Carriers` are tasks with a handle:
further phases of a `MultiPhaseConcurrentCallable` release it before they
return, since `execute` (`concurrent_callable.hpp` 102-113) moves the rest of
the phases on and drops its own copy (`DropHandle`); `keepers`, chosen once at the start, are
carriers of any other make, which hold it until they are destroyed.

**BlockingSemaphore.** Main starts round after round (as
`sync_concurrent_invoke_explicit` does when it is given a named semaphore) and
waits; the releaser of a round is the thread that runs its callback. Every
statement of `wait()` and `release()` is a step.

**SystemSemaphores and SyncInvoke.** `kind` is the class of the semaphore and
`prior` its past: new at an address of its own, new in the stack frame of an
earlier invocation (whose `FUTEX_WAKE` may still be to come), or used for an
earlier invocation. `given` is what `release()` sets and a futex and a promise
never reset. Each of the `...Wait` actions is the return of `wait()`; a turn of
the spin that finds the flag set changes nothing. `main` is where
`sync_concurrent_invoke_explicit` is on the invoker's stack, `outcome` how it
ends. The tasks are those of `BasicCounter`; its `Invoke` is `SyncBegin`, its
`Abandon` is `PortalThrows` (the exception leaves at line 123, before the blocker
of line 126 exists), its `Callback` is `SyncCallback`, which releases.
`RunnableEnds` covers a runnable that returns and one that throws:
`~SyncInvokeHelper()` waits after both. A promise that is used again throws out
of a destructor or of a thread's function: `Terminate`. `Dependable` names the
cases in which `wait()` does wait (see 6).

**SharedWrapper.** A handle is one wrapper variable, `holder` its pointer, `at`
where it is in a constructor, assignment or destructor; `operator=` is `deinit`
and then `copy_init` or `move_init`, as in the code. Several threads may copy
from one handle at a time; its owner changes it only when nobody reads it, which
is what C++ asks of the caller for any type. So are two exclusions: a null
wrapper is not copied and none is assigned to itself.

**DeepProxy.** A cell is one proxy variable, `face` its virtual table pointer
(none while there is no proxy), `mem` what the wrappers work on: `holder_` per
cell, and for every object whether it lives, where (in the block of a cell or on
the heap) and in what state. `InitObject`, `CopyInit`, `MoveInit` and `Deinit`
are functions of the memory, composed as in the code: an assignment is `Deinit`
and then an init, and one that throws in between (`AssignThrows`) leaves
`holder_` pointing to what is gone (`Rubble`). `broken` and `twice` remember
what the code does not: which cells that has happened to, and who destroyed
what was not there. The proxies for `LinearBuffer` and `AtomicCounterModifier`
(150-370) repeat the lines of the one for `Callable`.

**Phases.** `plan[c]` is what `append_phase` was given, `data[c]` the queue in
the callable, `flow[c].rest` the queue in the `Callable` that travels from phase
to phase, `flow[c].on` the thread it is on. A `ThreadPortal<false>` constructs
the thread first, which runs at once, and emplaces it afterwards: `owes` is what
a thread still has to emplace, and it may be the last thing it does. `main`
follows the program through its invocations and the destructor of the manager,
which gives its lock up for every round of joins. Destroying a joinable
`std::thread` terminates.

**Partition and Caller2D.** `Chunks` and `CopyBlocks` are the pairs of loops of
`concurrent_caller.hpp` 126-142 and of example 5 as recursive functions of the
index. A call of `Caller2D` goes through `Divide`, `LaunchChunk` and `Block` to
`Return`; a chunk is a task on a thread of its own or in the queue of a pool
that has some of the `Workers`, and calls may be `pooled`, made by those same
workers. The nested invocation is a number here.

**WorkerControl.** `check()` is a `Load`, then `Exchange` or rounds of
`ExchangeFails`, as in its loop; `Plus`, `Minus` and `X` are the instructions
that `MainProcedure::run()` reads meanwhile, `outstanding` the modifiers of the
invocation.

## 3. Runs

| Run | Instance | States | What it shows |
|---|---|---|---|
| `basic` | 5 tasks, `SizeMax` 7 | 5,190 | the callback runs once, after the last join, with all effects visible, never after an abandoned launch, and never at all when nothing was invoked; no use after free; refinement of `ForkJoin` with liveness |
| `tree` | 4 tasks, `MAX_COUNT` 2, 4 nodes, 1 empty fork | 14,609 | conservation of tokens, bounded nodes, no dangling node, full buffers; the callback sees all tasks and does run; refinement of `ForkJoin` with liveness |
| `pool` | 2 workers, 2 clients, 3 tasks (2 carriers, any of them keepers), 1 spurious wake-up | 116,180 | every submitted task runs once, nobody sleeps over work, the pool drains and ends; a worker waits for itself only after it destroyed a task that kept the last handle |
| `blocking_semaphore` | 4 rounds, 2 spurious wake-ups | 254 | `wait()` returns after `release()` is through, in every round, and sleeps only while its wake-up is to come; refinement of `Semaphore` with liveness |
| `sync_invoke` | 4 tasks, 5 classes of semaphore with 3 pasts, 1 signal | 42,927 | the semaphore in the invoker's frame is not used after the frame is gone, whoever throws; the invoker goes on after all tasks and the callback, sees their effects, and does go on, unless it invoked nothing or a used promise ends the program |
| `sync_futex` | 4 tasks, a futex semaphore at a used address | - | violated: Main goes on while tasks run (see 6) |
| `shared_wrapper` | 3 wrappers, 2 objects, symmetric | 387,080 | alive exactly while held, deletion after every use |
| `shared_wrapper_comment` | the same | - | violated: one reference, and `count_` is 0 (see 6) |
| `deep_proxy` | 3 proxies, small and large objects, symmetric | 5,782 | every object has one owner, is destroyed once unless an assignment threw; refinement of `ValueCells` |
| `phases` | 2 callables of up to 3 and 1 phases, 2 invocations | 60,307 | phases in order and once, threads joined, the program ends |
| `caller2d` | 2 calls, sizes 0-3 (0-9 for the arithmetic), concurrency 1-3 (1-6), up to 2 workers | 168,088 | the chunks are a partition, every callable is started once, inside the call, which returns unless the pool is starved or has no workers |
| `worker_control` | 4 workers, 2 at first, 1 spurious failure | 161,517 | refinement of `AtomicCheck` with liveness; all workers stop after `x` |

**Why the bounds are enough.** Five tasks let Main start two, both fork, and a
forked one fork again while others join. In the tree the interesting cases are
per node: a chain of several nodes, an increase that fits, fits in part (with
one token left and with more) or not at all, a lost compare-exchange, and
climbs that meet; `MAX_COUNT` 2 and four tasks give each of them (three tasks
forked by the only one fill its node and make another; two tasks can fork one
each against each other). More tasks combine them on deeper trees, which is left
to the proofs. `MaxNodes` never binds, since every new node takes a token of a task or of an
empty fork, which is paid for with a task that is never started. Two
workers are the least that can compete for a notification; one of three tasks
can be submitted from a task that was itself submitted by a task, and the last
handle can go on any thread. Rounds of the semaphore repeat after the second.
One earlier invocation is all that a semaphore's past can consist of: it leaves
at most one `FUTEX_WAKE`. Three wrappers give two concurrent copies of a third,
and a copy racing with a drop and an assignment of the same object; three
proxies an assignment from the moved-from source of another. In `phases` one
callable goes through every sequence of portals up to its bound while another
one emplaces threads of its own; a third phase is needed for a managed thread
that is started by one that a detached one has started. Two calls can starve
two workers, three chunks leave a remainder of one and of two. Two of four
workers can be in `check()` while `-` and `x` come in between and others are
forked.

Deadlock is not checked: every instance comes to an end (all tasks called back,
all workers gone, all rounds over), or, with `DeepProxy` and `SharedWrapper`, may
be left alone; the liveness properties say that none stops before.

**Fairness.** Weak fairness of each thread's next step: operating-system
threads run. Procedures, callables and runnables are assumed to return (`Join`,
`Return`, `RunProcedure`, `Load`), which the library leaves to its user. No
thread has to fork, throw, submit, leave, make a call, enter an instruction or
destroy anything, and no signal has to come. Mutexes need not be fair:
contention ends because tasks and spurious wake-ups are finite. The spins and
the compare-exchange loops end under weak fairness of the other threads alone.

## 4. Proofs

The proofs are for all values of the constants under the named assumptions of the
modules: `BasicAssumption` (finitely many tasks, no more than a `size_t` counts, Main not
one of them), `TreeAssumption` (the same, and `MAX_COUNT` positive and below the
largest `size_t`), `SemaphoreAssumption` (numbers of rounds and of spurious wake-ups,
distinct names), `SystemSemaphoresAssumption` (classes of semaphores and their
pasts), `WrapperAssumption` (finitely many wrappers, no more than `count_` counts),
`PoolAssumption` (finitely many workers and clients; clients are neither workers nor
tasks), `DeepProxyAssumption` (finitely many variables, and names for as many objects; the
heap is no variable), `PhasesAssumption` (finitely many callables, a bound on the phases of each,
at least one invocation) and `Caller2DAssumption` (finitely many calls and workers,
bounds on the callables and on the chunks of a call). `None`, `Main` and `Idle` are
names of nothing else. Bounds such as `MaxNodes`, `MaxSpurious` and
`MaxRounds` are arbitrary numbers in the proofs.

Every proof has the same shape: the strengthening `IInv` at the end of the module
(`SyncIInv` in `SyncInvoke`), which TLC has checked too, one lemma per action that preserves it,
and the properties as consequences.

`SyncInvokeProofs` on `BasicCounter`. None of the properties is inductive: that the thread which
reads 0 is the last one follows only from what the count means. `IInv` adds
`CountOK` (while a modifier is outstanding - queued, running or lost to an
exception - the counter lives, nobody has the callback, and `count + 1` is the
cardinality of the outstanding tasks), `PendingOK` (what waits to be launched is
queued, once), `LastOK`, and `ViewOK` (the release sequence holds the effects of
all who joined, the owner has taken them over). Every step maps to one of
`ForkJoin` or to a stutter: `BasicRefinesForkJoin`.

`TreeCounterProofs`. The same for every node, where what the count answers for is a
set of four kinds of things: modifiers, entries of buffers, children, and nodes of
a chain that is being built. `Slots` makes a set of the stacked buffer, so that
`Conservation` is an equation between a number and a cardinality which every step
changes on both sides or on neither. `ChainOK` says what `init_node()` has still to
add, `CasOK` that the value a compare-exchange goes by was one the node may have,
`SeenOK` that the effects of a joined task are published in some live node or
climb with somebody. `MemOK` orders the nodes by their allocation, parents first: by
that order a tree without its root has no nodes at all, so that whoever deletes
the root is the last (`OwnerOK`), and nothing leads to a node that is gone. It
refines `ForkJoin` as `BasicCounter` does (`TreeRefinesForkJoin`).

`BlockingSemaphoreProofs`. `IInv` says who owns `mtx_` (`MutexOK`), that only the
releaser of the present round can be active, and only until the loop on
`notified_` ends (`RoundsOK`), and that `notified_` is that releaser's last store
and no leftover (`NotifiedOK`); these are `RoundInv`, from which `SemaphoreNobodyInside`
and `SemaphoreRefines` follow. `ReadyOK` says how long `ready_` lasts: as long as Main
tests it, and the releaser is past the store. So Main cannot go to sleep after the
notification (`SemaphoreNoLostWakeup`).

`SyncInvokeProofs` on the composition. The steps of `BasicCounter` keep its `IInv` in the composition,
whose own part is: nothing can end `wait()` before the callback unless the semaphore
or its address was used before (`TokenOK`), the callback comes after all joins
and passes their effects on (`ReleasedOK`), and Main leaves only when a task is
lost with a portal's exception or the callback has run (`LeftOK`). The safety
of `BasicCounter` and its refinement of `ForkJoin` carry over (`SyncCounterSafety`,
`SyncRefinesForkJoin`).

`SharedWrapperProofs`. `count_` is one less than the wrappers that refer to the holder,
those included that have not yet counted or have not yet dropped what they refer
to. For that to be kept, a source must stay what it is until its copy is through
(`SourceOK`), and the wrapper whose decrement read 0 must be alone (`LastOK`). That the
deletion sees every use needs to know who is still to tell of it: a use is known to
the release sequence or to a wrapper that will add to it (`ViewOK`).

`ThreadPoolProofs`. The parts of `IInv` name the owner of `mtx_` at every stage of
`execute()`, tie every call of a client or of a task to a handle it holds (`CallOK`), and give
every stage of a task exactly one place: the hands of a caller, the
queue, a worker (`ArgOK`, `QueueOK`, `CurrentOK`, `OwnedOK`). Handles exist until
`shutdown`, so that nothing is queued after it (`PoolDrainedBeforeExit`). That no wake-up
is lost (`PoolNoLostWakeup`) is a matter of counting: while somebody sleeps, the workers on
their way to the queue and the notifications to come are no fewer than the queued tasks.
A worker goes to sleep over an empty queue, and one that takes a task leaves both sides one
less; a push adds a notification, which is spent on a sleeper or on nobody.

`PhasesProofs`. What a `Callable` carries is the plan without the phases that have
run, and its thread has not ended. For the manager: a thread that was started as
managed is joined, in `threads_`, or owed to it by a thread that came before it in
the same callable. Were one left at the end, the first such thread would be owed
by an earlier one that has not ended either - unless that one was a daemon. So
without daemons nobody is left, by the well-founded order of the threads.

`Caller2DProofs`. The loops of `Partition` have a closed form (`From` is where a chunk
begins), which is proved for every number of items and chunks from the least turn at which
a loop would differ from it; partition, evenness and copy follow
by arithmetic. A call's state is then described by how far each chunk is in its piece
(`ChunkOK`) and what that means for the callables that were started (`StartedOK`); that the
pool's queue has no task twice (`QueueOK`) keeps a chunk from being run by two workers.

`DeepProxyProofs`. What `Deinit`, `InitObject`, `CopyInit` and `MoveInit` do is proved of
any memory first: `Owned(m, D)` says that the cells of `D`, and no others, have the objects
that live in `m`, each one its own, and every function hands the objects on from one set of
cells to the next and leaves the values of the other cells as they were (`Same`). An
operation of the proxy composes them, through memories that belong to no state of the
program, a cell being outside `D` in between. `BrokenOK` says that what an exception has left
has no object, `FaceOK` that a proxy without an implementation has none. Since
`ValueCells` asks for no fairness, `DeepProxyRefines` is all of the refinement.

**What liveness needs besides the scheduling.** That something happens in the end is out of
the prover's reach, but not that there is always somebody who can go on towards it. These are
invariants, proved as the others are, for all values of the constants:

- `BasicSomebodyGoesOn`, `TreeSomebodyGoesOn`: until the callback runs, a task has a step to
  take or is about to be launched. For the tree, suppose that no modifier were in anybody's
  hands: then the node allocated last would have no tokens left, which no node that lives
  can be without; so there is no node, and the effects of the tasks that have joined are
  with somebody who climbs or has the callback.
- `SyncMainNotStuck`: while Main is in `wait()`, a task goes on, or `wait()` can return, or the
  `FUTEX_WAKE` of this invocation is still to come. It needs that whoever waits has
  launched everything (`LaunchedOK`) and that the callback has set the flag and is not
  yet through with waking (`WakeOK`).
- `Caller2DNobodyStuck`: calls and chunks wait for each other in no other way than by
  taking up all workers of a pool (`Starved`). It needs that what waits is in the queue
  (`PlacesOK`) and that a call that waits has launched its chunks (`LaunchedOK`).
- `PoolNoLostWakeup` and `SemaphoreNoLostWakeup`, above.

`NoLostWakeup` is a property of the run `pool`, and of `blocking_semaphore` as a part of
`IInv`; the other three, and their strengthenings, have been checked on the instances of
`basic`, `tree`, `sync_invoke` and `caller2d` without being among the properties of those
runs, whose liveness properties they underlie.

Only model-checked:

- all liveness (callback, pool, semaphores, phases, calls, workers) and with it the
  fair part of the refinements; it is out of the prover's reach, as `ENABLED` is;
- the refinement of `AtomicCheck` by `WorkerControl`, the safety part included;
- `MainWaitsForAllTasks`, which is violated (see 6).

## 5. Plan

All modules of the plan exist, and the safety of all but one of them is proved. What is left:

1. `WorkerControl`: the safety part of its refinement of `AtomicCheck`, whose one atomic
   check is the successful exchange or the load of 0.
2. `TreeCounter`: an invocation of no callables; `ThreadPool`: the launching of its
   workers by another portal.

## 6. Findings

**A futex semaphore may let the invoker go on too early** (`sync_futex`).
`LinuxFutexBinarySemaphore::wait()` (140) calls `FUTEX_WAIT` once and does not
look at the word afterwards; `release()` (145-146) calls `FUTEX_WAKE` after the
store that already lets `wait()` return. A synchronous invocation in a loop has
its semaphore at the same address time after time, so the late wake-up of one
invocation can end the wait of the next while its tasks run, against what
example 1 (line 15) says of the main thread in a synchronous invocation; the example
itself uses the default semaphore, which does wait. A signal handler has the same
effect, as it has on `sem_wait` in `PosixBinarySemaphore` (122). A futex
semaphore that is used twice does not wait at all the second time. The default,
`DisposableBinarySemaphore`, is not affected; used twice it ends the program.
`Dependable` in `SystemSemaphores` says precisely when each class can be relied on.

**The comment on the reference count is wrong** (`shared_wrapper_comment`).
`wrapper.hpp` 237 says that the reference count "equals to `count_ - 1`". The code
starts `count_` at 0 with one reference (235) and deletes when `fetch_sub` reads 0
(278), so it is `count_ + 1`, as it has to be: `CountOK` holds, `CountAsCommented` is
violated by the first wrapper that is made.

Not contradictions to a statement in the repository, but worth knowing:

- A task of a `ThreadPool` that owns the last handle on its portal when it is
  destroyed locks the pool's mutex twice (`NoSelfLock`); phases of a multi-phase
  callable never do.
- A thread that a detached thread starts on a `ThreadPortal<false>` may be
  emplaced after the last round of joins, into a manager that is being destroyed,
  even when the callback of the invocation has run (`LateOnlyAfterDaemons`).
  Without detached threads everything is joined (`ManagedThreadsJoined`).
- `ConcurrentCaller2D` on a pool starves when all workers of that pool are inside
  its `call()`; one worker and one call are enough. On a pool of concurrency 0 it
  never returns (`CallsReturn` says both). If its portal
  throws, chunks that were launched go on with references to a frame that is gone
  (`FrameOutlivesChunks` excludes it).
- An assignment to a `DeepProxy` that is left by an exception leaves a variable
  that cannot even be destroyed (`DestroyedOnce`).
- An invocation of no callables on a `BasicAtomicCounter` never calls back, and a
  synchronous one waits for ever (`CallbackEventuallyRuns`, `MainLeaves`).
- If a portal throws, a synchronous invocation is left while tasks run. The
  semaphore is safe, since the callback does not run (`FrameOutlivesCallback`); other
  objects of the caller that the tasks refer to are not.
- A multi-phase callable runs once: invoked again, it joins without running
  anything (`PhasesOnceInOrder`).

## 7. Not modelled

- Compile-time requirements, type aliases, argument binding (`bind_simple`,
  `copy_construct`): no state that changes at run time.
- `TrivialWrapper` (a copied block) and `DeferredWrapper` (a pointer), which have no
  protocol; the references that `ConcurrentProcedureTemplate` keeps while it runs.
- An invocation of no callables on a `TreeAtomicCounter`, whose count wraps so that
  `init_node` allocates until it fails; on a `BasicAtomicCounter` it is modelled.
- Undefined behaviour that the caller has to avoid: self-assignment of a wrapper,
  copying a null `SharedWrapper` (a `ConcurrentProcedureTemplate` that has not run
  holds one, so it cannot be a copied phase of a multi-phase callable), a
  concurrency of 0 in `ConcurrentCaller2D`.
- Exceptions out of tasks on their own threads, which end the program; failure of
  allocations other than in an assignment; failing constructors of semaphores.
- The launching of a pool's workers, which is the other portal's business; output,
  input and sleeps of the examples.
