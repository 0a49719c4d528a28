------------------------------- MODULE Caller2D -------------------------------
(***************************************************************************)
(* ConcurrentCaller2D::call (concurrent_caller.hpp), which starts its      *)
(* callables by chunks on a portal of its own and waits for the chunks in  *)
(* a synchronous invocation inside the call.  Some calls are made at the   *)
(* same time, on threads of their own or on workers of the pool that the   *)
(* chunks go to.                                                           *)
(*                                                                         *)
(* What a pool does to a task is in ThreadPool, what an invocation does in *)
(* BasicCounter and SyncInvoke; here a pool is a queue and some workers,   *)
(* and an invocation counts the chunks that have not joined.               *)
(***************************************************************************)
EXTENDS Partition

CONSTANTS Calls, Workers,
          MaxSize, MaxConcurrency,   \* bounds on the callables and chunks of a call
          Idle

ASSUME Caller2DAssumption ==
  /\ IsFiniteSet(Calls) /\ IsFiniteSet(Workers)
  /\ MaxSize \in Nat /\ MaxConcurrency \in Nat \ {0}
  /\ Idle \notin Calls \X Nat

VARIABLES
  setting,   \* fixed: size and concurrency of the callers; workers, those that
             \* the pool has, or "threads" for a ThreadPortal; pooled, the calls
             \* made on its workers
  call,      \* per call: at, see CallAt, next (the chunk to be launched), count
             \* (of the nested invocation)
  chunk,     \* per call and chunk: at, see ChunkAt, next, the index i, and last
  started,   \* per call and callable: how often it has been started
  queue,     \* the tasks in the pool: <<k, 0>> makes call k, <<k, i>> is chunk i
  doing      \* per worker: its task, or Idle

vars == <<setting, call, chunk, started, queue, doing>>

CallAt == {"new", "queued", "entered", "launching", "waiting", "returned", "threw"}
ChunkAt == {"none", "queued", "running", "joined"}
Numbers == 1..setting.concurrency
NoChunks == [i \in Numbers |-> [at |-> "none", next |-> 0, last |-> 0]]

\* The chunks of a call, as they are bound to their tasks.
BoundChunks ==
  LET ranges == Chunks(setting.size, setting.concurrency)
  IN  [i \in Numbers |-> [at |-> "none", next |-> ranges[i].first, last |-> ranges[i].last]]

Init ==
  /\ setting \in [size : 0..MaxSize, concurrency : 1..MaxConcurrency,
                  threads : {FALSE}, workers : SUBSET Workers, pooled : SUBSET Calls]
            \cup [size : 0..MaxSize, concurrency : 1..MaxConcurrency,
                  threads : {TRUE}, workers : {{}}, pooled : {{}}]
  /\ call = [k \in Calls |-> [at |-> "new", next |-> 1, count |-> 0]]
  /\ chunk = [k \in Calls |-> NoChunks]
  /\ started = [k \in Calls |-> [x \in 0..(setting.size - 1) |-> 0]]
  /\ queue = <<>>
  /\ doing = [w \in Workers |-> Idle]

\* A task goes to the pool, or to a thread of its own.
Pushed(task) == queue' = IF setting.threads THEN queue ELSE Append(queue, task)
Free(task) == doing' = [w \in Workers |-> IF doing[w] = task THEN Idle ELSE doing[w]]

\* Somebody makes the call, or gives the task that makes it to the pool.
Make(k) ==
  /\ call[k].at = "new"
  /\ IF k \in setting.pooled
       THEN Pushed(<<k, 0>>) /\ call' = [call EXCEPT ![k].at = "queued"]
       ELSE call' = [call EXCEPT ![k].at = "entered"] /\ UNCHANGED queue
  /\ UNCHANGED <<setting, chunk, started, doing>>

\* A worker takes the task at the front.
Take(w) ==
  /\ w \in setting.workers /\ doing[w] = Idle /\ queue # <<>>
  /\ LET task == Head(queue)
     IN  /\ doing' = [doing EXCEPT ![w] = task]
         /\ IF task[2] = 0
              THEN call' = [call EXCEPT ![task[1]].at = "entered"] /\ UNCHANGED chunk
              ELSE chunk' = [chunk EXCEPT ![task[1]][task[2]].at = "running"] /\ UNCHANGED call
  /\ queue' = Tail(queue)
  /\ UNCHANGED <<setting, started>>

\* The nested invocation counts every chunk, the last included.
DivideCountingOneMore(k) ==
  /\ call[k].at = "entered"
  /\ call' = [call EXCEPT ![k] = [at |-> "launching", next |-> 1, count |-> setting.concurrency + 1]]
  /\ chunk' = [chunk EXCEPT ![k] = BoundChunks]
  /\ UNCHANGED <<setting, started, queue, doing>>

\* call(): fetch a modifier for each callable, and make the caller of the chunks.
Divide(k) ==
  /\ call[k].at = "entered"
  /\ call' = [call EXCEPT ![k] = [at |-> "launching", next |-> 1, count |-> setting.concurrency]]
  /\ chunk' = [chunk EXCEPT ![k] = BoundChunks]
  /\ UNCHANGED <<setting, started, queue, doing>>

\* The nested invocation submits the next chunk to portal_.
LaunchChunk(k) ==
  LET i == call[k].next
  IN  /\ call[k].at = "launching" /\ i \in Numbers
      /\ call' = [call EXCEPT ![k].next = i + 1]
      /\ chunk' = [chunk EXCEPT ![k][i].at = IF setting.threads THEN "running" ELSE "queued"]
      /\ Pushed(<<k, i>>)
      /\ UNCHANGED <<setting, started, doing>>

\* The portal throws, and call() is left; on a worker the program would end.
PortalThrows(k) ==
  /\ call[k].at = "launching" /\ call[k].next \in Numbers /\ k \notin setting.pooled
  /\ call' = [call EXCEPT ![k].at = "threw"]
  /\ UNCHANGED <<setting, chunk, started, queue, doing>>

\* All chunks are launched.
Block(k) ==
  /\ call[k].at = "launching" /\ call[k].next \notin Numbers
  /\ call' = [call EXCEPT ![k].at = "waiting"]
  /\ UNCHANGED <<setting, chunk, started, queue, doing>>

\* A turn of the chunk's loop: data[i](std::move(modifiers[i]), callback).
StartCallable(k, i) ==
  LET x == chunk[k][i].next
  IN  /\ chunk[k][i].at = "running" /\ x < chunk[k][i].last
      /\ started' = [started EXCEPT ![k][x] = @ + 1]
      /\ chunk' = [chunk EXCEPT ![k][i].next = x + 1]
      /\ UNCHANGED <<setting, call, queue, doing>>

\* The chunk is through, and its task ends.
JoinChunk(k, i) ==
  /\ chunk[k][i].at = "running" /\ chunk[k][i].next >= chunk[k][i].last
  /\ chunk' = [chunk EXCEPT ![k][i].at = "joined"]
  /\ call' = [call EXCEPT ![k].count = @ - 1]
  /\ Free(<<k, i>>)
  /\ UNCHANGED <<setting, started, queue>>

\* Not waiting for the last chunk.
ReturnEarly(k) ==
  /\ call[k].at = "waiting" /\ call[k].count <= 1
  /\ call' = [call EXCEPT ![k].at = "returned"]
  /\ Free(<<k, 0>>)
  /\ UNCHANGED <<setting, chunk, started, queue>>

\* The wait in the nested invocation ends, and call() returns.
Return(k) ==
  /\ call[k].at = "waiting" /\ call[k].count = 0
  /\ call' = [call EXCEPT ![k].at = "returned"]
  /\ Free(<<k, 0>>)
  /\ UNCHANGED <<setting, chunk, started, queue>>

CallStep(k) == Divide(k) \/ LaunchChunk(k) \/ Block(k) \/ Return(k)
ChunkStep(k, i) == StartCallable(k, i) \/ JoinChunk(k, i)

Next ==
  \/ \E k \in Calls : Make(k) \/ CallStep(k) \/ PortalThrows(k)
  \/ \E k \in Calls : \E i \in Numbers : ChunkStep(k, i)
  \/ \E w \in Workers : Take(w)

\* Threads and workers go on; nobody has to make a call.
Fairness ==
  /\ \A k \in Calls : WF_vars(CallStep(k))
  /\ \A k \in Calls, i \in 1..MaxConcurrency : WF_vars(i \in Numbers /\ ChunkStep(k, i))
  /\ \A w \in Workers : WF_vars(Take(w))

Spec == Init /\ [][Next]_vars /\ Fairness

-----------------------------------------------------------------------------
TypeOK ==
  /\ setting \in [size : 0..MaxSize, concurrency : 1..MaxConcurrency, threads : BOOLEAN,
                 workers : SUBSET Workers, pooled : SUBSET Calls]
  /\ call \in [Calls -> [at : CallAt, next : 1..MaxConcurrency + 1, count : 0..MaxConcurrency]]
  /\ chunk \in [Calls -> [Numbers -> [at : ChunkAt, next : 0..MaxSize, last : 0..MaxSize]]]
  /\ started \in [Calls -> [0..(setting.size - 1) -> Nat]]
  /\ queue \in Seq(Calls \X (0..MaxConcurrency))
  /\ doing \in [Workers -> (Calls \X (0..MaxConcurrency)) \cup {Idle}]

\* Whatever the size and the concurrency, the chunks hold every callable once and
\* are as even as they can be, and the copy of example 5 is one.  This depends on
\* no state, so it is looked at before the first call, for more sizes than are run.
ChunksPartition ==
  (\A k \in Calls : call[k].at = "new") =>
    \A n \in 0..(3 * MaxSize), c \in 1..(2 * MaxConcurrency) :
      IsPartition(Chunks(n, c), n, c) /\ IsCopy(CopyBlocks(n, c), n)

\* No callable is started twice, with a modifier that has been moved out of, and
\* when call() returns to the loop of the outer invocation all are started.
EachCallableOnce ==
  \A k \in Calls : \A x \in DOMAIN started[k] :
    /\ started[k][x] <= 1
    /\ call[k].at = "returned" => started[k][x] = 1

\* The chunks have modifiers and callback by reference to the frame of call(): as
\* long as one of them is queued or runs, the frame is there, unless a portal
\* threw.  (Then the chunks that were launched use what is gone.)
FrameOutlivesChunks ==
  \A k \in Calls : \A i \in Numbers :
    chunk[k][i].at \in {"queued", "running"} => call[k].at \in {"launching", "waiting", "threw"}

\* All workers of the pool, if any, are inside call(), and wait for chunks.
Starved ==
  /\ ~setting.threads
  /\ \A w \in setting.workers :
       /\ doing[w] # Idle /\ doing[w][2] = 0
       /\ call[doing[w][1]].at = "waiting" /\ call[doing[w][1]].count > 0

\* Somebody in the library has a step to take.
CanGoOn ==
  \/ \E k \in Calls : \/ call[k].at \in {"entered", "launching"}
                      \/ call[k].at = "waiting" /\ call[k].count = 0
  \/ \E k \in Calls : \E i \in Numbers : chunk[k][i].at = "running"
  \/ queue # <<>> /\ \E w \in setting.workers : doing[w] = Idle

\* Calls and chunks do not wait for each other in any other way than this: what
\* is in CallsReturn apart from the scheduling.
NobodyStuck ==
  \A k \in Calls :
    \/ call[k].at \in {"queued", "entered", "launching", "waiting"}
    \/ \E i \in Numbers : chunk[k][i].at \in {"queued", "running"}
    => CanGoOn \/ Starved

\* A pool of concurrency 0.
Unmanned == ~setting.threads /\ setting.workers = {}

\* A call returns, though never by way of a pool that has no workers.  The one thing
\* that can keep it from that is a pool whose last worker has gone to wait for
\* chunks itself, or that has none, and this is for ever: fewer calls than workers
\* cannot starve each other, nor can any number on threads of their own.
CallsReturn ==
  \A k \in Calls :
    (call[k].at # "new") ~>
      \/ call[k].at = "threw" \/ (call[k].at = "returned" /\ ~Unmanned)
      \/ [](Starved /\ call[k].at # "returned")

-----------------------------------------------------------------------------
(***************************************************************************)
(* The inductive strengthening of the invariants.                          *)
(***************************************************************************)
Piece(i) == Chunks(setting.size, setting.concurrency)[i]
Undivided(k) == call[k].at \in {"new", "queued", "entered"}
Unjoined(k) == {i \in Numbers : chunk[k][i].at # "joined"}

\* A chunk is somewhere in its piece, at the end of it when it has joined.
ChunkOK(k, i) ==
  /\ chunk[k][i].last = Piece(i).last
  /\ chunk[k][i].next \in Piece(i).first..Piece(i).last
  /\ chunk[k][i].at \in {"none", "queued"} => chunk[k][i].next = Piece(i).first
  /\ chunk[k][i].at = "joined" => chunk[k][i].next = Piece(i).last

\* The chunks are launched in their order, and counted until they join.
CallOK(k) ==
  /\ Undivided(k) => \A i \in Numbers : chunk[k][i].at = "none"
  /\ ~Undivided(k) =>
       /\ \A i \in Numbers : ChunkOK(k, i)
       /\ call[k].count = Cardinality(Unjoined(k))
  /\ call[k].at = "launching" => \A i \in Numbers : chunk[k][i].at = "none" <=> call[k].next <= i
  /\ call[k].at = "returned" => Unjoined(k) = {}

\* What has been started is what the chunks have passed.
Passed(k) ==
  IF Undivided(k) THEN {}
  ELSE {x \in 0..(setting.size - 1) :
          \E i \in Numbers : Piece(i).first <= x /\ x < chunk[k][i].next}
StartedOK ==
  \A k \in Calls : \A x \in 0..(setting.size - 1) :
    started[k][x] = IF x \in Passed(k) THEN 1 ELSE 0

\* A task of a pool waits in its queue, or some worker is in it.
Tasks == Calls \X (0..MaxConcurrency)
Waits(task) ==
  \/ task[2] = 0 /\ call[task[1]].at = "queued"
  \/ task[2] \in Numbers /\ chunk[task[1]][task[2]].at = "queued"
Runs(task) ==
  \/ /\ task[2] = 0 /\ task[1] \in setting.pooled
     /\ call[task[1]].at \in {"entered", "launching", "waiting"}
  \/ task[2] \in Numbers /\ chunk[task[1]][task[2]].at = "running"

\* The queue of the pool has every task once.
QueueOK ==
  /\ \A p \in DOMAIN queue : Waits(queue[p])
  /\ \A p, q \in DOMAIN queue : queue[p] = queue[q] => p = q

IInv == TypeOK /\ (\A k \in Calls : CallOK(k)) /\ StartedOK /\ QueueOK

(***************************************************************************)
(* And that of NobodyStuck: nothing is forgotten outside the queue, no     *)
(* worker is held by a task that is through, and a call that waits has     *)
(* launched all its chunks.                                                *)
(***************************************************************************)
PlacesOK ==
  /\ setting.threads => setting.pooled = {}
  /\ \A k \in Calls : call[k].at = "queued" => k \in setting.pooled
  /\ \A task \in Tasks : Waits(task) => ~setting.threads /\ \E p \in DOMAIN queue : queue[p] = task
  /\ \A w \in Workers : doing[w] # Idle => Runs(doing[w])
LaunchedOK ==
  \A k \in Calls : call[k].at = "waiting" => \A i \in Numbers : chunk[k][i].at # "none"
=============================================================================
