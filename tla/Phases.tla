-------------------------------- MODULE Phases --------------------------------
(***************************************************************************)
(* MultiPhaseConcurrentCallable (concurrent_callable.hpp) over SerialPortal*)
(* and the two ThreadPortals (portal.hpp), and ThreadManager, whose        *)
(* destructor joins the managed threads when the program exits.  A program *)
(* invokes some callables, synchronously or, the last time, asynchronously,*)
(* and leaves main().                                                      *)
(*                                                                         *)
(* The counter of an invocation, see BasicCounter, is a number here.       *)
(* Phases on a pool are tasks of ThreadPool.                               *)
(***************************************************************************)
EXTENDS Integers, Sequences, SequencesExt, FiniteSets

CONSTANTS Callables, Main, None,
          MaxPhases,   \* per callable: bound on its phases
          MaxRounds    \* bound on the number of invocations

ASSUME PhasesAssumption ==
  /\ IsFiniteSet(Callables) /\ Callables # {}
  /\ MaxPhases \in [Callables -> Nat] /\ MaxRounds \in Nat \ {0}
  /\ {Main, None} \cap (Callables \X Nat) = {}

Portals == {"serial", "daemon", "managed"}

\* A callable as it is put together with append_phase.
Plans == UNION {BoundedSeq(Portals, MaxPhases[c]) : c \in Callables}

\* The thread that the k-th phase of c is started on, if its portal starts one.
Threads == UNION {{c} \X (1..MaxPhases[c]) : c \in Callables}

VARIABLES
  plan,      \* per callable: the portals of its phases
  data,      \* per callable: data_, as the numbers of the phases in the queue
  flow,      \* per callable: its invocation, see FlowAt
  ran,       \* per callable: the phases run in all invocations
  owes,      \* per thread: the std::thread it has constructed and must emplace
  ended,     \* the threads that have ended
  manager,   \* ThreadManager: made, locked, threads (threads_), and joins, the
             \* local queue of its destructor
  late,      \* the threads emplaced after the last look at threads_
  main,      \* where Main is, see MainAt
  invocation \* the present one: number, sync, toCall (the callables it has not
             \* called yet), count (the modifiers that have not joined), calledBack

vars == <<plan, data, flow, ran, owes, ended, manager, late, main, invocation>>

(***************************************************************************)
(* at: "idle", "called" (in operator()), "running" (in the procedure of    *)
(* phase), "executing" (in execute() after it), "callback", "joined".      *)
(* on: the thread.  rest: rest_ of the Callable.                           *)
(***************************************************************************)
FlowAt == {"idle", "called", "running", "executing", "callback", "joined"}

(***************************************************************************)
(* "calling": in concurrent_call.  "waiting": for the semaphore.  Then the *)
(* destructor of the manager: "locking", "testing" the queue with the lock *)
(* held, "joining" those in its local queue, "leaving" its body,           *)
(* "destroyed" when the members are gone.  Then "exited"; or "terminated"  *)
(* by the destructor of a std::thread that nobody has joined.              *)
(***************************************************************************)
MainAt == {"calling", "waiting", "locking", "testing", "joining", "leaving", "destroyed",
           "exited", "terminated"}
Over == main \in {"exited", "terminated"}

NewInvocation(n) ==
  [number : {n}, sync : BOOLEAN, toCall : {Callables}, count : {Cardinality(Callables)},
   calledBack : {FALSE}]
NewFlow == [c \in Callables |-> [at |-> "idle", phase |-> 0, on |-> Main, rest |-> <<>>]]

Init ==
  /\ plan \in {p \in [Callables -> Plans] : \A c \in Callables : Len(p[c]) <= MaxPhases[c]}
  /\ data = [c \in Callables |-> [k \in DOMAIN plan[c] |-> k]]
  /\ flow = NewFlow
  /\ ran = [c \in Callables |-> <<>>]
  /\ owes = [th \in Threads \cup {Main} |-> None]
  /\ ended = {} /\ late = {}
  /\ manager = [made |-> FALSE, locked |-> FALSE, threads |-> <<>>, joins |-> <<>>]
  /\ main = "calling"
  /\ invocation \in NewInvocation(1)

-----------------------------------------------------------------------------
(***************************************************************************)
(* The callables.                                                          *)
(***************************************************************************)
\* The flow leaves thread th, which ends unless it is Main, or has a std::thread
\* to hand over first.
Leaves(th, owing) ==
  /\ owes' = [owes EXCEPT ![th] = owing]
  /\ ended' = IF th # Main /\ owing = None THEN ended \cup {th} ELSE ended
Stays == UNCHANGED <<owes, ended>>

\* The container that execute() works on: data_ in the call, rest_ afterwards.
InExecute(c) == ~Over /\ flow[c].at \in {"called", "executing"}
Container(c) == IF flow[c].at = "called" THEN data[c] ELSE flow[c].rest

\* concurrent_call and the caller's call(): the next callable, on Main.
MainFree ==
  /\ main = "calling" /\ owes[Main] = None
  /\ \A c \in Callables : flow[c].on = Main => flow[c].at \in {"idle", "joined"}
Call(c) ==
  /\ MainFree /\ c \in invocation.toCall
  /\ invocation' = [invocation EXCEPT !.toCall = @ \ {c}]
  /\ flow' = [flow EXCEPT ![c].at = "called"]
  /\ UNCHANGED <<plan, data, ran, owes, ended, manager, late, main>>

\* The queue is copied into the Callable.
NextPhaseCopying(c, k, th) ==
  /\ InExecute(c) /\ Container(c) # <<>> /\ k = Head(Container(c))
  /\ flow' = [flow EXCEPT ![c] = [at |-> "running", phase |-> k, on |-> th, rest |-> Tail(Container(c))]]
  /\ data' = IF flow[c].at = "called" THEN [data EXCEPT ![c] = Tail(@)] ELSE data
  /\ UNCHANGED <<plan, ran, late, main, invocation>>

\* execute() when the queue is not empty: the front is copied and popped, and
\* the rest moved into the Callable, which the portal of the phase runs on th.
NextPhase(c, k, th) ==
  /\ InExecute(c) /\ Container(c) # <<>> /\ k = Head(Container(c))
  /\ flow' = [flow EXCEPT ![c] = [at |-> "running", phase |-> k, on |-> th, rest |-> Tail(Container(c))]]
  /\ data' = IF flow[c].at = "called" THEN [data EXCEPT ![c] = <<>>] ELSE data
  /\ UNCHANGED <<plan, ran, late, main, invocation>>

\* SerialPortal: a call on the same thread.
RunSerial(c, k) ==
  /\ NextPhase(c, k, flow[c].on) /\ plan[c][k] = "serial"
  /\ Stays /\ UNCHANGED manager

\* ThreadPortal<true>: a thread of its own, detached.
RunDaemon(c, k) ==
  /\ NextPhase(c, k, <<c, k>>) /\ plan[c][k] = "daemon"
  /\ Leaves(flow[c].on, None) /\ UNCHANGED manager

\* ThreadPortal<false>: the constructor of std::thread starts the thread, which
\* runs before it is emplaced.
RunManaged(c, k) ==
  /\ NextPhase(c, k, <<c, k>>) /\ plan[c][k] = "managed"
  /\ Leaves(flow[c].on, <<c, k>>)
  /\ manager' = [manager EXCEPT !.made = TRUE]

\* procedure_ returns, to execute() on what is left.
RunProcedure(c) ==
  /\ ~Over /\ flow[c].at = "running"
  /\ ran' = [ran EXCEPT ![c] = Append(@, flow[c].phase)]
  /\ flow' = [flow EXCEPT ![c].at = "executing"]
  /\ UNCHANGED <<plan, data, owes, ended, manager, late, main, invocation>>

\* execute() when the queue is empty: concurrent_join, and if it is the last,
\* the callback.
Join(c) ==
  /\ InExecute(c) /\ Container(c) = <<>>
  /\ invocation' = [invocation EXCEPT !.count = @ - 1]
  /\ IF invocation.count = 1
       THEN flow' = [flow EXCEPT ![c].at = "callback"] /\ Stays
       ELSE flow' = [flow EXCEPT ![c].at = "joined"] /\ Leaves(flow[c].on, None)
  /\ UNCHANGED <<plan, data, ran, manager, late, main>>
Callback(c) ==
  /\ ~Over /\ flow[c].at = "callback"
  /\ invocation' = [invocation EXCEPT !.calledBack = TRUE]
  /\ flow' = [flow EXCEPT ![c].at = "joined"] /\ Leaves(flow[c].on, None)
  /\ UNCHANGED <<plan, data, ran, manager, late, main>>

-----------------------------------------------------------------------------
(***************************************************************************)
(* ThreadManager, and the end of the program.                              *)
(***************************************************************************)
\* emplace(), on thread th.  Nothing can be said of a manager that is destroyed.
Emplace(th) ==
  /\ ~Over /\ owes[th] # None /\ ~manager.locked
  /\ Leaves(th, None)
  /\ IF main \in {"leaving", "destroyed"}
       THEN late' = late \cup {owes[th]}
       ELSE UNCHANGED late
  /\ manager' = [manager EXCEPT !.threads = Append(@, owes[th])]
  /\ UNCHANGED <<plan, data, flow, ran, main, invocation>>

\* main() returns: only a manager that was made is destroyed.
AtExit == IF manager.made THEN "locking" ELSE "exited"

\* A synchronous invocation waits, main() returns after an asynchronous one.
AllCalled ==
  /\ MainFree /\ invocation.toCall = {}
  /\ main' = IF invocation.sync THEN "waiting" ELSE AtExit
  /\ UNCHANGED <<plan, data, flow, ran, owes, ended, manager, late, invocation>>

\* The semaphore is released: the same caller is used again, or main() returns.
WaitEnds ==
  /\ main = "waiting" /\ invocation.calledBack
  /\ \/ /\ invocation.number < MaxRounds
        /\ main' = "calling"
        /\ invocation' \in NewInvocation(invocation.number + 1)
        /\ flow' = NewFlow
     \/ main' = AtExit /\ UNCHANGED <<invocation, flow>>
  /\ UNCHANGED <<plan, data, ran, owes, ended, manager, late>>

LockManager ==
  /\ main = "locking"
  /\ manager' = [manager EXCEPT !.locked = TRUE]
  /\ main' = "testing"
  /\ UNCHANGED <<plan, data, flow, ran, owes, ended, late, invocation>>

\* One round, with the lock held throughout.
TestThreadsKeepingLock ==
  /\ main = "testing"
  /\ manager' = IF manager.threads = <<>>
                  THEN [manager EXCEPT !.locked = FALSE]
                  ELSE [manager EXCEPT !.threads = <<>>, !.joins = manager.threads]
  /\ main' = IF manager.threads = <<>> THEN "leaving" ELSE "joining"
  /\ UNCHANGED <<plan, data, flow, ran, owes, ended, late, invocation>>

\* threads_.empty()? If not, take the threads and unlock.
TestThreads ==
  /\ main = "testing"
  /\ manager' = [manager EXCEPT !.locked = FALSE, !.threads = <<>>, !.joins = manager.threads]
  /\ main' = IF manager.threads = <<>> THEN "leaving" ELSE "joining"
  /\ UNCHANGED <<plan, data, flow, ran, owes, ended, late, invocation>>

\* One round only.
JoinLast ==
  /\ main = "joining" /\ Last(manager.joins) \in ended
  /\ manager' = [manager EXCEPT !.joins = Front(@)]
  /\ main' = IF Len(manager.joins) = 1 THEN "leaving" ELSE "joining"
  /\ UNCHANGED <<plan, data, flow, ran, owes, ended, late, invocation>>

\* threads.back().join(), and look again when all are joined.
JoinBack ==
  /\ main = "joining" /\ Last(manager.joins) \in ended
  /\ manager' = [manager EXCEPT !.joins = Front(@)]
  /\ main' = IF Len(manager.joins) = 1 THEN "locking" ELSE "joining"
  /\ UNCHANGED <<plan, data, flow, ran, owes, ended, late, invocation>>

\* The members are destroyed: a std::thread that is still joinable terminates.
DestroyMembers ==
  /\ main = "leaving"
  /\ main' = IF manager.threads = <<>> THEN "destroyed" ELSE "terminated"
  /\ UNCHANGED <<plan, data, flow, ran, owes, ended, manager, late, invocation>>

\* What is still running ends with the program.
Exit ==
  /\ main = "destroyed"
  /\ main' = "exited"
  /\ UNCHANGED <<plan, data, flow, ran, owes, ended, manager, late, invocation>>

Step(c) ==
  \/ Call(c) \/ RunProcedure(c) \/ Join(c) \/ Callback(c)
  \/ \E k \in 1..MaxPhases[c] : RunSerial(c, k) \/ RunDaemon(c, k) \/ RunManaged(c, k)
MainStep ==
  AllCalled \/ WaitEnds \/ LockManager \/ TestThreads \/ JoinBack \/ DestroyMembers \/ Exit

Next == MainStep \/ (\E c \in Callables : Step(c)) \/ (\E th \in Threads \cup {Main} : Emplace(th))

\* Threads run, and procedures end.
Fairness ==
  /\ WF_vars(MainStep)
  /\ \A c \in Callables : WF_vars(Step(c))
  /\ \A th \in Threads \cup {Main} : WF_vars(Emplace(th))

Spec == Init /\ [][Next]_vars /\ Fairness

-----------------------------------------------------------------------------
TypeOK ==
  /\ plan \in [Callables -> Seq(Portals)]
  /\ data \in [Callables -> Seq(Nat)]
  /\ flow \in [Callables -> [at : FlowAt, phase : Nat, on : Threads \cup {Main}, rest : Seq(Nat)]]
  /\ ran \in [Callables -> Seq(Nat)]
  /\ owes \in [Threads \cup {Main} -> Threads \cup {None}]
  /\ ended \subseteq Threads /\ late \subseteq Threads
  /\ manager \in [made : BOOLEAN, locked : BOOLEAN, threads : Seq(Threads), joins : Seq(Threads)]
  /\ main \in MainAt
  /\ invocation \in [number : 1..MaxRounds, sync : BOOLEAN, toCall : SUBSET Callables,
                     count : 0..Cardinality(Callables), calledBack : BOOLEAN]

\* What c has run is a beginning of its phases, in their order, each once.  When
\* an invocation calls back all its callables have run all their phases, from
\* whatever thread to whatever thread they went; another invocation of the same
\* callables, whose queues have been moved out of, runs nothing.
PhasesOnceInOrder ==
  \A c \in Callables :
    /\ ran[c] = [k \in 1..Len(ran[c]) |-> k]
    /\ invocation.calledBack \/ invocation.number > 1 => Len(ran[c]) = Len(plan[c])

\* The program does not end before the work on threads that are not daemons: a
\* callable that no daemon has a part in has run all its phases and joined when
\* the manager is through, even if Main waits for nothing, the phases start
\* threads while others are joined, and other callables use daemons.
ManagedThreadsJoined ==
  main \in {"leaving", "destroyed", "exited", "terminated"} =>
    \A c \in Callables :
      (\A k \in DOMAIN plan[c] : plan[c][k] # "daemon") =>
        flow[c].at = "joined" /\ Len(ran[c]) = Len(plan[c])

\* Only what a detached thread has started can come too late to the manager: the
\* callback may have run, and the program be at its end, before the daemon gets
\* to emplace a thread, which meanwhile emplaces others.  That is also the only
\* way to a destructor that terminates the program.
LateOnlyAfterDaemons ==
  /\ \A th \in late : \E j \in 1..th[2]-1 : plan[th[1]][j] = "daemon"
  /\ main = "terminated" => late # {}

\* The semaphore is released and every round of joins ends, although the threads
\* that are joined need the lock of the manager themselves.
ProgramEnds == <>Over

-----------------------------------------------------------------------------
(***************************************************************************)
(* The inductive strengthening of the invariants.                          *)
(***************************************************************************)
\* The phases after the first n.
After(c, n) == [k \in 1..(Len(plan[c]) - n) |-> n + k]

PlanOK == \A c \in Callables : Len(plan[c]) <= MaxPhases[c]

\* The queue, be it in the callable or in the Callable under way, holds the
\* phases after those that have run; the callable gives its queue away at once.
QueueOf(c) ==
  LET n == Len(ran[c])
  IN  /\ n <= Len(plan[c])
      /\ ran[c] = [k \in 1..n |-> k]
      /\ flow[c].at \in {"idle", "called"} => data[c] = After(c, n)
      /\ flow[c].at \notin {"idle", "called"} => data[c] = <<>>
      /\ flow[c].at = "running" =>
           n < Len(plan[c]) /\ flow[c].phase = n + 1 /\ flow[c].rest = After(c, n + 1)
      /\ flow[c].at = "executing" => flow[c].rest = After(c, n)
      /\ flow[c].at \in {"callback", "joined"} \/ invocation.number > 1 => n = Len(plan[c])
QueueOK == \A c \in Callables : QueueOf(c)

\* The counter of the invocation.
Unjoined == {c \in Callables : flow[c].at \notin {"callback", "joined"}}
CallsOK ==
  /\ \A c \in Callables : flow[c].at = "idle" <=> c \in invocation.toCall
  /\ invocation.count = Cardinality(Unjoined)
  /\ invocation.calledBack \/ (\E c \in Callables : flow[c].at = "callback") => Unjoined = {}

\* The phases that have been started, with the threads made for them.
Started(c) ==
  {k \in 1..Len(plan[c]) :
     k <= Len(ran[c]) \/ (flow[c].at = "running" /\ k = flow[c].phase)}
Made == {th \in Threads : th[2] \in Started(th[1]) /\ plan[th[1]][th[2]] # "serial"}

\* A flow is on Main or on the thread of a phase of its own.  While it is under
\* way that thread has not ended and has nothing to emplace; and one flow at a
\* time is under way on Main.
OnMain == {c \in Callables : flow[c].on = Main /\ flow[c].at \notin {"idle", "joined"}}
FlowOK ==
  /\ \A c \in Callables :
       /\ flow[c].on # Main => flow[c].on \in Made /\ flow[c].on[1] = c
       /\ flow[c].at \in {"idle", "called"} => flow[c].on = Main
       /\ flow[c].at \notin {"idle", "joined"} =>
            flow[c].on \notin ended /\ owes[flow[c].on] = None
  /\ \A c, d \in OnMain : c = d
  /\ main # "calling" => owes[Main] = None /\ \A c \in Callables : flow[c].on = Main => flow[c].at = "joined"

\* What a thread owes is a managed thread of a later phase of the flow that it
\* was made for.
OwesOK ==
  \A th \in Threads \cup {Main} :
    owes[th] # None =>
      /\ owes[th] \in Made /\ plan[owes[th][1]][owes[th][2]] = "managed"
      /\ th # Main => th \in Made /\ th \notin ended /\ th[1] = owes[th][1] /\ th[2] < owes[th][2]

\* A managed thread that runs is known to the manager, or another one has still
\* to emplace it.
Managed == {th \in Made : plan[th[1]][th[2]] = "managed"}
Known(th) ==
  \/ \E i \in DOMAIN manager.threads : manager.threads[i] = th
  \/ \E i \in DOMAIN manager.joins : manager.joins[i] = th
ManagerOK ==
  /\ ended \subseteq Made
  /\ \A th \in Managed \ ended : Known(th) \/ \E o \in Threads \cup {Main} : owes[o] = th
  /\ ~manager.made => Managed = {}
  /\ manager.joins # <<>> <=> main = "joining"

\* When the manager is through, no managed thread runs that no daemon has had a
\* part in.
Daemonless(th) == \A k \in 1..th[2] : plan[th[1]][k] # "daemon"
GoneOK ==
  /\ main \in {"leaving", "destroyed", "exited", "terminated"} =>
       \A th \in Managed : Daemonless(th) => th \in ended
  /\ main = "leaving" /\ manager.threads # <<>> => late # {}

IInv ==
  /\ TypeOK /\ LateOnlyAfterDaemons
  /\ PlanOK /\ QueueOK /\ CallsOK /\ FlowOK /\ OwesOK /\ ManagerOK /\ GoneOK
=============================================================================
