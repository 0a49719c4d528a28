-------------------------- MODULE ThreadPoolProofs --------------------------
(***************************************************************************)
(* For any sets of workers, clients and tasks: a task is in one place at a *)
(* time and its stage says in which, no worker waits for the mutex it owns *)
(* unless a keeper takes the last handle to its grave, workers leave only  *)
(* after the last submission, all of them only when all is done, and no    *)
(* worker sleeps over work.                                                *)
(***************************************************************************)
EXTENDS ThreadPool, FiniteSetTheorems, SequenceTheorems, TLAPS

\* A thread with a handle shows that the pool is not being shut down.
LEMMA HandleMeansOpen ==
  ASSUME IInv, NEW th \in Threads, HasHandle(th)
  PROVE  /\ handles # {} /\ ~is_shutdown
         /\ \A x \in Threads : call[x] \notin {"shutdown", "notify_all"}
         /\ \A w \in Workers : ~SelfLocked(w)
         /\ th \in Workers => wpc[th] = "run" /\ mtx # th
BY PoolAssumption DEF IInv, CallOK, MutexOK, HasHandle, NoSelfLock

\* A task that is in nobody's hands yet.
LEMMA NewIsNowhere ==
  ASSUME IInv, NEW t \in Tasks, stage[t] = "new"
  PROVE  /\ \A x \in Threads : arg[x] # t
         /\ \A i \in 1..Len(tasks) : tasks[i] # t
         /\ \A w \in Workers : current[w] # t
         /\ t \notin handles /\ t # None
BY PoolAssumption DEF IInv, ArgOK, QueueOK, CurrentOK, HandlesOK

LEMMA InitIInv == Init => IInv
<1> SUFFICES ASSUME Init PROVE IInv
  OBVIOUS
<1>1. TypeOK
  <2>1. tasks \in Seq(Tasks) /\ spurious \in 0..MaxSpurious
    BY PoolAssumption, EmptySeq DEF Init
  <2> QED
    BY <2>1 DEF Init, TypeOK
<1>2. MutexOK /\ CallOK /\ NoSelfLock
  BY PoolAssumption DEF Init, MutexOK, CallOK, NoSelfLock, SelfLocked, Threads
<1>3. ArgOK /\ QueueOK /\ CurrentOK /\ OwnedOK
  BY PoolAssumption, EmptySeq DEF Init, ArgOK, QueueOK, CurrentOK, OwnedOK, Threads
<1>4. HandlesOK /\ ExitOK
  BY PoolAssumption DEF Init, HandlesOK, ExitOK
<1> QED
  BY <1>1, <1>2, <1>3, <1>4 DEF IInv

LEMMA SubmitIInv ==
  ASSUME IInv, NEW th \in Threads, NEW t \in Tasks, Submit(th, t)
  PROVE  IInv'
<1> USE DEF IInv
<1>1. /\ call[th] = "none" /\ HasHandle(th) /\ stage[t] = "new" /\ arg[th] = None
      /\ call' = [call EXCEPT ![th] = "emplace"] /\ arg' = [arg EXCEPT ![th] = t]
      /\ stage' = [stage EXCEPT ![t] = "made"] /\ handles' = handles \cup ({t} \cap Carriers)
      /\ UNCHANGED <<mtx, is_shutdown, tasks, asleep, wpc, current, keepers, spurious>>
  BY DEF Submit, CallOK
<1>2. /\ ~is_shutdown /\ \A x \in Threads : call[x] \notin {"shutdown", "notify_all"}
      /\ \A w \in Workers : ~SelfLocked(w)
      /\ th \in Workers => wpc[th] = "run" /\ mtx # th
  BY <1>1, HandleMeansOpen
<1>3. /\ \A x \in Threads : arg[x] # t
      /\ \A i \in 1..Len(tasks) : tasks[i] # t
      /\ \A w \in Workers : current[w] # t
      /\ t # None
  BY <1>1, NewIsNowhere
<1>4. TypeOK'
  BY <1>1 DEF TypeOK
<1>5. MutexOK' /\ ExitOK'
  BY <1>1 DEF MutexOK, ExitOK
<1>6. CallOK'
  <2>1. \A x \in Threads : HasHandle(x) => HasHandle(x)'
    BY <1>1 DEF HasHandle
  <2> QED
    BY <1>1, <1>2, <1>3, <2>1 DEF CallOK, TypeOK, Threads
<1>7. ArgOK'
  BY <1>1, <1>3 DEF ArgOK, TypeOK
<1>8. QueueOK' /\ CurrentOK'
  BY <1>1, <1>3 DEF QueueOK, CurrentOK, TypeOK
<1>9. OwnedOK'
  BY <1>1, <1>3, PoolAssumption DEF OwnedOK, TypeOK
<1>10. HandlesOK'
  BY <1>1 DEF HandlesOK, TypeOK
<1>11. NoSelfLock'
  BY <1>1, <1>2 DEF NoSelfLock, SelfLocked, TypeOK, Threads
<1> QED
  BY <1>4, <1>5, <1>6, <1>7, <1>8, <1>9, <1>10, <1>11

LEMMA EmplacePushIInv ==
  ASSUME IInv, NEW th \in Threads, EmplacePush(th)
  PROVE  IInv'
<1> USE DEF IInv
<1>0. PICK t \in Tasks : t = arg[th]
  BY DEF EmplacePush, TypeOK, CallOK
<1>1. /\ call[th] = "emplace" /\ HasHandle(th) /\ stage[t] = "made" /\ t # None
      /\ call' = [call EXCEPT ![th] = "notify_one"] /\ arg' = [arg EXCEPT ![th] = None]
      /\ stage' = [stage EXCEPT ![t] = "queued"] /\ tasks' = Append(tasks, t)
      /\ UNCHANGED <<mtx, is_shutdown, asleep, wpc, current, handles, keepers, spurious>>
  BY <1>0, PoolAssumption DEF EmplacePush, CallOK, ArgOK
<1>2. /\ ~is_shutdown /\ \A w \in Workers : ~SelfLocked(w)
      /\ \A x \in Threads : call[x] \notin {"shutdown", "notify_all"}
      /\ th \in Workers => wpc[th] = "run" /\ mtx # th
  BY <1>1, HandleMeansOpen
<1>3. /\ Len(tasks') = Len(tasks) + 1 /\ Len(tasks) \in Nat /\ tasks' \in Seq(Tasks)
      /\ tasks'[Len(tasks) + 1] = t
      /\ \A i \in 1..Len(tasks) : tasks'[i] = tasks[i]
  BY <1>1, AppendProperties, LenProperties DEF TypeOK
<1>4. /\ \A i \in 1..Len(tasks) : tasks[i] # t
      /\ \A w \in Workers : current[w] # t
      /\ \A x \in Threads \ {th} : arg[x] # t
  BY <1>0, <1>1 DEF QueueOK, CurrentOK, ArgOK
<1>5. TypeOK'
  BY <1>1, <1>3 DEF TypeOK
<1>6. MutexOK'
  BY <1>1 DEF MutexOK
<1>7. CallOK'
  <2>1. \A x \in Threads : HasHandle(x)' <=> HasHandle(x)
    BY <1>1 DEF HasHandle
  <2> QED
    BY <1>1, <1>2, <2>1 DEF CallOK, TypeOK, Threads
<1>8. ArgOK'
  BY <1>1, <1>4 DEF ArgOK, TypeOK
<1>9. QueueOK'
  <2>1. \A i \in 1..Len(tasks') : i \in 1..Len(tasks) \/ i = Len(tasks) + 1
    BY <1>3
  <2>2. \A i \in 1..Len(tasks') : stage'[tasks'[i]] = "queued"
    BY <1>1, <1>3, <2>1 DEF QueueOK, TypeOK
  <2>3. \A i, j \in 1..Len(tasks') : tasks'[j] = tasks'[i] => j = i
    BY <1>3, <1>4, <2>1 DEF QueueOK
  <2> QED
    BY <2>2, <2>3 DEF QueueOK
<1>10. CurrentOK'
  BY <1>1, <1>4 DEF CurrentOK, TypeOK
<1>11. OwnedOK'
  <2> SUFFICES ASSUME NEW u \in Tasks
               PROVE  /\ stage'[u] = "made" => \E x \in Threads : arg'[x] = u
                      /\ stage'[u] = "queued" => \E i \in 1..Len(tasks') : tasks'[i] = u
                      /\ stage'[u] \in {"running", "done"} => \E w \in Workers : current'[w] = u
    BY DEF OwnedOK
  <2>1. CASE u = t
    BY <1>1, <1>3, <2>1 DEF TypeOK
  <2>2. CASE u # t
    <3>1. stage'[u] = stage[u] /\ \A i \in 1..Len(tasks) : i \in 1..Len(tasks')
      BY <1>1, <1>3, <2>2 DEF TypeOK
    <3>2. \A x \in Threads : arg[x] = u => arg'[x] = u
      BY <1>0, <1>1, <2>2 DEF TypeOK
    <3> QED
      BY <1>1, <1>3, <3>1, <3>2 DEF OwnedOK
  <2> QED
    BY <2>1, <2>2
<1>12. HandlesOK'
  BY <1>1 DEF HandlesOK, TypeOK
<1>13. ExitOK' /\ NoSelfLock'
  BY <1>1, <1>2 DEF ExitOK, NoSelfLock, SelfLocked, TypeOK
<1> QED
  BY <1>5, <1>6, <1>7, <1>8, <1>9, <1>10, <1>11, <1>12, <1>13

\* A step that moves no task and no handle, with the wake-ups it may contain: it
\* is enough to look at mtx_, the workers' places and the calls.
LEMMA QuietIInv ==
  ASSUME IInv, UNCHANGED <<tasks, arg, handles, keepers, stage>>,
         TypeOK', MutexOK',
         \A w \in Workers : /\ current'[w] = current[w]
                            /\ wpc'[w] = "run" <=> wpc[w] = "run"
                            /\ wpc'[w] \in {"relock", "dispose"} <=> wpc[w] \in {"relock", "dispose"}
                            /\ wpc'[w] = "exited" => is_shutdown' /\ tasks = <<>>
                            /\ call'[w] # "none" => wpc'[w] = wpc[w],
         \A th \in Threads :
           /\ call'[th] = "emplace" <=> call[th] = "emplace"
           /\ call'[th] = "notify_one" => call[th] = "notify_one"
           /\ call'[th] = "shutdown" => call[th] = "shutdown"
           /\ call'[th] = "notify_all" => call[th] \in {"shutdown", "notify_all"},
         is_shutdown' => handles = {},
         \A w \in Workers : SelfLocked(w)' => SelfLocked(w)
  PROVE  IInv'
<1> USE DEF IInv
<1>1. CallOK'
  <2>1. \A th \in Threads : HasHandle(th)' <=> HasHandle(th)
    BY DEF HasHandle
  <2> QED
    BY <2>1 DEF CallOK, Threads
<1>2. ArgOK' /\ QueueOK' /\ HandlesOK'
  BY DEF ArgOK, QueueOK, HandlesOK
<1>3. CurrentOK'
  BY DEF CurrentOK
<1>4. OwnedOK' /\ ExitOK' /\ NoSelfLock'
  BY DEF OwnedOK, ExitOK, NoSelfLock
<1> QED
  BY <1>1, <1>2, <1>3, <1>4

\* Waking sleepers: they go to the entry of the loop, and had nothing to call.
LEMMA WakeEffect ==
  ASSUME IInv, NEW S \in SUBSET asleep, Wake(S)
  PROVE  /\ asleep' \subseteq Workers
         /\ wpc' \in [Workers -> {"enter", "check", "run", "relock", "dispose", "asleep", "exited"}]
         /\ \A w \in Workers : w \in asleep' <=> wpc'[w] = "asleep"
         /\ \A w \in Workers : \/ wpc'[w] = wpc[w]
                               \/ wpc[w] = "asleep" /\ wpc'[w] = "enter" /\ call[w] = "none"
<1>1. \A w \in Workers : w \in S => wpc[w] = "asleep" /\ call[w] = "none"
  BY DEF IInv, TypeOK, MutexOK, CallOK, Threads
<1> QED
  BY <1>1 DEF Wake, IInv, TypeOK, MutexOK

LEMMA NotifyIInv ==
  ASSUME IInv, NEW th \in Threads, NotifyOne(th) \/ NotifyAll(th)
  PROVE  IInv'
<1>1. /\ call[th] \in {"notify_one", "notify_all"} /\ call' = [call EXCEPT ![th] = "none"]
      /\ UNCHANGED <<mtx, is_shutdown, tasks, current, arg, handles, keepers, stage, spurious>>
  BY DEF NotifyOne, NotifyAll
<1>2. PICK S \in SUBSET asleep : Wake(S)
  <2>1. CASE asleep = {} /\ UNCHANGED <<asleep, wpc>>
    <3>1. Wake({})
      BY <2>1 DEF Wake, IInv, TypeOK
    <3> QED
      BY <3>1
  <2>2. CASE NotifyAll(th) \/ \E w \in asleep : Wake({w})
    BY <2>2 DEF NotifyAll
  <2> QED
    BY <2>1, <2>2 DEF NotifyOne
<1>3. /\ asleep' \subseteq Workers
      /\ wpc' \in [Workers -> {"enter", "check", "run", "relock", "dispose", "asleep", "exited"}]
      /\ \A w \in Workers : w \in asleep' <=> wpc'[w] = "asleep"
      /\ \A w \in Workers : \/ wpc'[w] = wpc[w]
                            \/ wpc[w] = "asleep" /\ wpc'[w] = "enter" /\ call[w] = "none"
  BY <1>2, WakeEffect
<1>4. call' \in [Threads -> {"none", "emplace", "notify_one", "shutdown", "notify_all"}]
      /\ \A x \in Threads : call'[x] = IF x = th THEN "none" ELSE call[x]
  BY <1>1 DEF IInv, TypeOK
<1>5. TypeOK' /\ MutexOK'
  BY <1>1, <1>3, <1>4 DEF IInv, TypeOK, MutexOK
<1>6. \A w \in Workers : SelfLocked(w)' => SelfLocked(w)
  BY <1>1, <1>4 DEF SelfLocked, Threads
<1>7. is_shutdown' => handles = {}
  BY <1>1 DEF IInv, CallOK
<1> QED
  BY <1>1, <1>3, <1>4, <1>5, <1>6, <1>7, QuietIInv DEF IInv, ExitOK, Threads

LEMMA ShutdownSetIInv ==
  ASSUME IInv, NEW th \in Threads, ShutdownSet(th)
  PROVE  IInv'
<1>1. /\ call[th] = "shutdown" /\ mtx = None /\ handles = {} /\ is_shutdown' = TRUE
      /\ call' = [call EXCEPT ![th] = "notify_all"]
      /\ UNCHANGED <<mtx, tasks, asleep, wpc, current, arg, handles, keepers, stage, spurious>>
  BY DEF ShutdownSet, IInv, CallOK
<1>2. call' \in [Threads -> {"none", "emplace", "notify_one", "shutdown", "notify_all"}]
      /\ \A x \in Threads : call'[x] = IF x = th THEN "notify_all" ELSE call[x]
  BY <1>1 DEF IInv, TypeOK
<1>3. TypeOK' /\ MutexOK'
  BY <1>1, <1>2 DEF IInv, TypeOK, MutexOK
<1>4. \A w \in Workers : SelfLocked(w)' => SelfLocked(w)
  BY <1>1, <1>2 DEF SelfLocked, Threads
<1> QED
  BY <1>1, <1>2, <1>3, <1>4, QuietIInv DEF IInv, ExitOK, Threads

LEMMA SpuriousWakeIInv ==
  ASSUME IInv, NEW w \in Workers, SpuriousWake(w)
  PROVE  IInv'
<1>1. /\ w \in asleep /\ Wake({w}) /\ spurious' \in 0..MaxSpurious
      /\ UNCHANGED <<mtx, is_shutdown, tasks, current, call, arg, handles, keepers, stage>>
  BY PoolAssumption DEF SpuriousWake, IInv, TypeOK
<1>2. /\ asleep' \subseteq Workers
      /\ wpc' \in [Workers -> {"enter", "check", "run", "relock", "dispose", "asleep", "exited"}]
      /\ \A v \in Workers : v \in asleep' <=> wpc'[v] = "asleep"
      /\ \A v \in Workers : \/ wpc'[v] = wpc[v]
                            \/ wpc[v] = "asleep" /\ wpc'[v] = "enter" /\ call[v] = "none"
  BY <1>1, WakeEffect
<1>3. TypeOK' /\ MutexOK'
  BY <1>1, <1>2 DEF IInv, TypeOK, MutexOK
<1>4. /\ \A v \in Workers : SelfLocked(v)' => SelfLocked(v)
      /\ is_shutdown' => handles = {}
  BY <1>1 DEF SelfLocked, IInv, CallOK
<1> QED
  BY <1>1, <1>2, <1>3, <1>4, QuietIInv DEF IInv, ExitOK, Threads

\* Lock, Exit and Wait: mtx_ is taken when free, and given up by its owner.
LEMMA LockIInv ==
  ASSUME IInv, NEW w \in Workers, Lock(w)
  PROVE  IInv'
<1>1. /\ wpc[w] \in {"enter", "relock"} /\ call[w] = "none" /\ mtx = None /\ mtx' = w
      /\ wpc' = [wpc EXCEPT ![w] = IF wpc[w] = "enter" THEN "check" ELSE "dispose"]
      /\ UNCHANGED <<is_shutdown, tasks, asleep, current, call, arg, handles, keepers, stage, spurious>>
  BY DEF Lock
<1>2. \A v \in Workers : wpc'[v] = IF v # w THEN wpc[v]
                                   ELSE IF wpc[w] = "enter" THEN "check" ELSE "dispose"
  BY <1>1 DEF IInv, TypeOK
<1>3. TypeOK'
  BY <1>1 DEF IInv, TypeOK
<1>4. MutexOK'
  BY <1>1, <1>2, PoolAssumption DEF IInv, MutexOK
<1>5. /\ \A v \in Workers : SelfLocked(v)' => SelfLocked(v)
      /\ is_shutdown' => handles = {}
  BY <1>1 DEF SelfLocked, IInv, CallOK
<1> QED
  BY <1>1, <1>2, <1>3, <1>4, <1>5, QuietIInv DEF IInv, ExitOK

LEMMA ExitWaitIInv ==
  ASSUME IInv, NEW w \in Workers, Exit(w) \/ Wait(w)
  PROVE  IInv'
<1>1. /\ wpc[w] = "check" /\ call[w] = "none" /\ mtx' = None /\ tasks = <<>>
      /\ UNCHANGED <<is_shutdown, tasks, current, call, arg, handles, keepers, stage, spurious>>
      /\ \/ /\ is_shutdown /\ wpc' = [wpc EXCEPT ![w] = "exited"] /\ asleep' = asleep
         \/ wpc' = [wpc EXCEPT ![w] = "asleep"] /\ asleep' = asleep \cup {w}
  BY DEF Exit, Wait
<1>2. mtx = w
  BY <1>1 DEF IInv, MutexOK
<1>3. /\ \A v \in Workers : v # w => wpc'[v] = wpc[v]
      /\ wpc'[w] \in {"exited", "asleep"} /\ (wpc'[w] = "exited" => is_shutdown)
  BY <1>1 DEF IInv, TypeOK
<1>4. TypeOK'
  BY <1>1 DEF IInv, TypeOK
<1>5. MutexOK'
  BY <1>1, <1>2, <1>3, PoolAssumption DEF IInv, MutexOK, TypeOK
<1>6. /\ \A v \in Workers : SelfLocked(v)' => SelfLocked(v)
      /\ is_shutdown' => handles = {}
  BY <1>1, PoolAssumption DEF SelfLocked, IInv, CallOK
<1> QED
  BY <1>1, <1>3, <1>4, <1>5, <1>6, QuietIInv DEF IInv, ExitOK

LEMMA LeaveIInv ==
  ASSUME IInv, NEW c \in Clients, Leave(c)
  PROVE  IInv'
<1> USE DEF IInv
<1>1. /\ call[c] = "none" /\ c \in handles /\ handles' = handles \ {c}
      /\ call' = [call EXCEPT ![c] = IF handles = {c} THEN "shutdown" ELSE "none"]
      /\ UNCHANGED <<mtx, is_shutdown, tasks, asleep, wpc, current, arg, keepers, stage, spurious>>
      /\ c \in Threads /\ c \notin Workers /\ c \notin Tasks
  BY PoolAssumption DEF Leave, GiveUp, Threads
<1>2. /\ ~is_shutdown /\ \A w \in Workers : ~SelfLocked(w)
      /\ \A x \in Threads : call[x] \notin {"shutdown", "notify_all"}
  BY <1>1, HandleMeansOpen DEF HasHandle
<1>3. TypeOK'
  BY <1>1 DEF TypeOK
<1>4. /\ \A x \in Threads \ {c} : call'[x] = call[x]
      /\ call'[c] \in {"none", "shutdown"} /\ (call'[c] = "shutdown" => handles' = {})
  BY <1>1 DEF TypeOK
<1>5. CallOK'
  <2>1. \A x \in Threads \ {c} : HasHandle(x) => HasHandle(x)'
    BY <1>1, PoolAssumption DEF HasHandle, TypeOK
  <2> QED
    BY <1>1, <1>2, <1>4, <2>1 DEF CallOK, Threads
<1>6. MutexOK' /\ ArgOK' /\ QueueOK' /\ CurrentOK' /\ OwnedOK' /\ ExitOK'
  BY <1>1 DEF MutexOK, ArgOK, QueueOK, CurrentOK, OwnedOK, ExitOK
<1>7. HandlesOK'
  BY <1>1 DEF HandlesOK
<1>8. NoSelfLock'
  BY <1>1, <1>2, <1>4 DEF NoSelfLock, SelfLocked, Threads
<1> QED
  BY <1>3, <1>5, <1>6, <1>7, <1>8

LEMMA TakeIInv ==
  ASSUME IInv, NEW w \in Workers, Take(w)
  PROVE  IInv'
<1> USE DEF IInv
<1>0. PICK t \in Tasks : t = Head(tasks) /\ t = tasks[1]
  BY HeadTailProperties DEF Take, TypeOK
<1>1. /\ wpc[w] = "check" /\ call[w] = "none" /\ current[w] = None /\ mtx = w /\ mtx' = None
      /\ current' = [current EXCEPT ![w] = t] /\ stage' = [stage EXCEPT ![t] = "running"]
      /\ wpc' = [wpc EXCEPT ![w] = "run"] /\ tasks' = Tail(tasks)
      /\ UNCHANGED <<is_shutdown, asleep, call, arg, handles, keepers, spurious>>
  BY <1>0 DEF Take, CurrentOK, MutexOK
<1>2. /\ tasks' \in Seq(Tasks) /\ Len(tasks) \in Nat \ {0} /\ Len(tasks') = Len(tasks) - 1
      /\ \A i \in 1..Len(tasks') : tasks'[i] = tasks[i + 1]
  BY <1>1, HeadTailProperties, LenProperties, EmptySeq DEF Take, TypeOK
<1>3. /\ stage[t] = "queued" /\ t # None
      /\ \A i \in 2..Len(tasks) : tasks[i] # t
      /\ \A v \in Workers : current[v] # t
      /\ \A x \in Threads : arg[x] # t
  BY <1>0, <1>2, PoolAssumption DEF QueueOK, CurrentOK, ArgOK
<1>4. TypeOK'
  BY <1>1, <1>2 DEF TypeOK
<1>5. MutexOK'
  BY <1>1, PoolAssumption DEF MutexOK, TypeOK
<1>6. CallOK'
  <2>1. \A x \in Threads : x # w => (HasHandle(x)' <=> HasHandle(x))
    BY <1>1 DEF HasHandle, TypeOK
  <2>2. \A v \in Workers : v # w => wpc'[v] = wpc[v]
    BY <1>1 DEF TypeOK
  <2> QED
    BY <1>1, <2>1, <2>2 DEF CallOK, Threads
<1>7. ArgOK'
  BY <1>1, <1>3 DEF ArgOK, TypeOK
<1>8. QueueOK'
  <2>1. \A i \in 1..Len(tasks') : i + 1 \in 2..Len(tasks) /\ i + 1 \in 1..Len(tasks)
    BY <1>2
  <2>2. \A i \in 1..Len(tasks') : stage'[tasks'[i]] = "queued"
    BY <1>1, <1>2, <1>3, <2>1 DEF QueueOK, TypeOK
  <2>3. \A i, j \in 1..Len(tasks') : tasks'[j] = tasks'[i] => j + 1 = i + 1
    BY <1>2, <2>1 DEF QueueOK
  <2>4. \A i, j \in 1..Len(tasks') : j + 1 = i + 1 => j = i
    BY <1>2
  <2> QED
    BY <2>2, <2>3, <2>4 DEF QueueOK
<1>9. CurrentOK'
  BY <1>1, <1>3 DEF CurrentOK, TypeOK
<1>10. OwnedOK'
  <2> SUFFICES ASSUME NEW u \in Tasks
               PROVE  /\ stage'[u] = "made" => \E x \in Threads : arg'[x] = u
                      /\ stage'[u] = "queued" => \E i \in 1..Len(tasks') : tasks'[i] = u
                      /\ stage'[u] \in {"running", "done"} => \E v \in Workers : current'[v] = u
    BY DEF OwnedOK
  <2>1. CASE u = t
    BY <1>1, <2>1 DEF TypeOK
  <2>2. CASE u # t
    <3>1. stage'[u] = stage[u]
      BY <1>1, <2>2 DEF TypeOK
    <3>2. \A v \in Workers : current[v] = u => current'[v] = u
      BY <1>1, PoolAssumption DEF TypeOK
    <3>3. ASSUME stage[u] = "queued" PROVE \E i \in 1..Len(tasks') : tasks'[i] = u
      <4>1. PICK i \in 1..Len(tasks) : tasks[i] = u
        BY <3>3 DEF OwnedOK
      <4>2. i # 1
        BY <1>0, <2>2, <4>1
      <4>3. i - 1 \in 1..Len(tasks') /\ (i - 1) + 1 = i
        BY <1>2, <4>2
      <4> QED
        BY <1>2, <4>1, <4>3
    <3> QED
      BY <1>1, <3>1, <3>2, <3>3 DEF OwnedOK
  <2> QED
    BY <2>1, <2>2
<1>11. HandlesOK'
  BY <1>1, <1>3 DEF HandlesOK, TypeOK
<1>12. ExitOK'
  <2>1. \A v \in Workers : wpc'[v] = "exited" => wpc[v] = "exited"
    BY <1>1 DEF TypeOK
  <2> QED
    BY <1>2, <2>1, EmptySeq DEF ExitOK
<1>13. NoSelfLock'
  BY <1>1, PoolAssumption DEF NoSelfLock, SelfLocked
<1> QED
  BY <1>4, <1>5, <1>6, <1>7, <1>8, <1>9, <1>10, <1>11, <1>12, <1>13

\* A worker gives up the handle of its task, or has none to give up.
LEMMA WorkerGivesUp ==
  ASSUME IInv, NEW w \in Workers, call[w] = "none", NEW t \in Tasks, t = current[w],
         GiveUp(w, t) \/ UNCHANGED <<call, handles>>,
         UNCHANGED <<is_shutdown, arg>>,
         \A v \in Workers \ {w} : wpc'[v] = wpc[v] /\ current'[v] = current[v],
         wpc'[w] \in {"relock", "check"}
  PROVE  CallOK' /\ \A v \in Workers \ {w} : SelfLocked(v) => handles' = handles
<1> USE DEF IInv
<1>1. w \in Threads /\ w \notin Clients /\ t \notin Clients /\ arg[w] = None /\ t # None
  BY PoolAssumption DEF Threads, CallOK
<1>2. /\ \A x \in Threads \ {w} : call'[x] = call[x]
      /\ call'[w] \in {"none", "shutdown"} /\ (call'[w] = "shutdown" => handles' = {})
      /\ handles' \subseteq handles /\ handles \ {t} \subseteq handles'
  BY <1>1 DEF GiveUp, TypeOK
<1>3. \A v \in Workers \ {w} : current[v] # t
  BY <1>1 DEF CurrentOK
<1>4. \A x \in Threads \ {w} : HasHandle(x) => HasHandle(x)'
  BY <1>1, <1>2, <1>3 DEF HasHandle
<1>5. CallOK'
  BY <1>1, <1>2, <1>4 DEF CallOK, Threads
<1>6. \A v \in Workers : SelfLocked(v) => handles = {}
  BY DEF NoSelfLock
<1> QED
  BY <1>2, <1>5, <1>6

LEMMA ReturnIInv ==
  ASSUME IInv, NEW w \in Workers, Return(w)
  PROVE  IInv'
<1> USE DEF IInv
<1>0. PICK t \in Tasks : t = current[w]
  BY DEF Return, DropHandle, CurrentOK, TypeOK
<1>1. /\ wpc[w] = "run" /\ call[w] = "none" /\ stage[t] = "running"
      /\ stage' = [stage EXCEPT ![t] = "done"] /\ wpc' = [wpc EXCEPT ![w] = "relock"]
      /\ GiveUp(w, t) \/ UNCHANGED <<call, handles>>
      /\ t \in Carriers \ keepers => handles' = handles \ {t}
      /\ UNCHANGED <<mtx, is_shutdown, tasks, asleep, current, arg, keepers, spurious>>
  BY <1>0, PoolAssumption DEF Return, DropHandle, GiveUp, CurrentOK
<1>2. /\ \A v \in Workers \ {w} : wpc'[v] = wpc[v] /\ current[v] # t
      /\ wpc'[w] = "relock" /\ t # None
  BY <1>0, <1>1, PoolAssumption DEF TypeOK, CurrentOK
<1>3. CallOK' /\ \A v \in Workers \ {w} : SelfLocked(v) => handles' = handles
  BY <1>0, <1>1, <1>2, WorkerGivesUp
<1>4. /\ call' \in [Threads -> {"none", "emplace", "notify_one", "shutdown", "notify_all"}]
      /\ handles' \subseteq handles /\ \A x \in Threads \ {w} : call'[x] = call[x]
  BY <1>1 DEF GiveUp, TypeOK
<1>5. TypeOK'
  BY <1>1, <1>4 DEF TypeOK
<1>6. MutexOK'
  BY <1>1, <1>2 DEF MutexOK
<1>7. ArgOK' /\ QueueOK'
  BY <1>1, SMTT(30) DEF ArgOK, QueueOK, TypeOK
<1>8. CurrentOK'
  BY <1>0, <1>1, <1>2 DEF CurrentOK, TypeOK
<1>9. OwnedOK'
  BY <1>0, <1>1 DEF OwnedOK, TypeOK
<1>10. HandlesOK'
  BY <1>1, <1>4 DEF HandlesOK, TypeOK
<1>11. ExitOK'
  BY <1>1, <1>2 DEF ExitOK
<1>12. NoSelfLock'
  <2> SUFFICES ASSUME NEW v \in Workers, SelfLocked(v)'
               PROVE  handles' = {} /\ \E u \in keepers' : stage'[u] = "destroyed"
    BY DEF NoSelfLock
  <2>1. v # w
    BY <1>1 DEF SelfLocked, MutexOK
  <2>2. SelfLocked(v)
    BY <1>1, <1>4, <2>1 DEF SelfLocked, Threads
  <2>3. handles' = {} /\ \E u \in keepers : stage[u] = "destroyed" /\ u \in Tasks
    BY <1>3, <2>1, <2>2, PoolAssumption DEF NoSelfLock, TypeOK
  <2> QED
    BY <1>1, <2>3 DEF TypeOK
<1> QED
  BY <1>3, <1>5, <1>6, <1>7, <1>8, <1>9, <1>10, <1>11, <1>12

LEMMA DisposeIInv ==
  ASSUME IInv, NEW w \in Workers, Dispose(w)
  PROVE  IInv'
<1> USE DEF IInv
<1>0. PICK t \in Tasks : t = current[w]
  BY DEF Dispose, CurrentOK, TypeOK
<1>1. /\ wpc[w] = "dispose" /\ call[w] = "none" /\ stage[t] = "done" /\ mtx = w
      /\ stage' = [stage EXCEPT ![t] = "destroyed"] /\ wpc' = [wpc EXCEPT ![w] = "check"]
      /\ current' = [current EXCEPT ![w] = None]
      /\ GiveUp(w, t) \/ (t \notin handles /\ UNCHANGED <<call, handles>>)
      /\ UNCHANGED <<mtx, is_shutdown, tasks, asleep, arg, keepers, spurious>>
  <2>1. call[w] = "none" /\ mtx = w
    BY DEF Dispose, CallOK, MutexOK, TypeOK, Threads
  <2> QED
    BY <1>0, <2>1, PoolAssumption DEF Dispose, CurrentOK
<1>2. /\ \A v \in Workers \ {w} : wpc'[v] = wpc[v] /\ current'[v] = current[v] /\ current[v] # t
      /\ wpc'[w] = "check" /\ current'[w] = None /\ t # None
  BY <1>0, <1>1, PoolAssumption DEF TypeOK, CurrentOK
<1>3. CallOK' /\ \A v \in Workers \ {w} : SelfLocked(v) => handles' = handles
  BY <1>0, <1>1, <1>2, WorkerGivesUp
<1>4. /\ call' \in [Threads -> {"none", "emplace", "notify_one", "shutdown", "notify_all"}]
      /\ handles' \subseteq handles /\ t \notin handles'
      /\ call'[w] = "shutdown" => handles' = {} /\ t \in handles
      /\ call'[w] \in {"none", "shutdown"}
      /\ \A x \in Threads \ {w} : call'[x] = call[x]
  BY <1>1 DEF GiveUp, TypeOK, Threads
<1>5. TypeOK'
  BY <1>1, <1>4 DEF TypeOK
<1>6. MutexOK'
  BY <1>1, <1>2 DEF MutexOK
<1>7. ArgOK' /\ QueueOK'
  BY <1>1, SMTT(30) DEF ArgOK, QueueOK, TypeOK
<1>8. CurrentOK'
  BY <1>1, <1>2 DEF CurrentOK, TypeOK
<1>9. OwnedOK'
  BY <1>0, <1>1, <1>2 DEF OwnedOK, TypeOK
<1>10. HandlesOK'
  BY <1>1, <1>4 DEF HandlesOK, TypeOK
<1>11. ExitOK'
  BY <1>1, <1>2 DEF ExitOK
<1>12. NoSelfLock'
  <2> SUFFICES ASSUME NEW v \in Workers, SelfLocked(v)'
               PROVE  handles' = {} /\ \E u \in keepers' : stage'[u] = "destroyed"
    BY DEF NoSelfLock
  <2>1. v = w
    BY <1>1 DEF SelfLocked
  <2>2. call'[w] = "shutdown"
    BY <1>4, <2>1 DEF SelfLocked
  <2>3. t \in keepers
    BY <1>1, <1>4, <2>2 DEF HandlesOK
  <2> QED
    BY <1>1, <1>4, <2>2, <2>3 DEF TypeOK
<1> QED
  BY <1>3, <1>5, <1>6, <1>7, <1>8, <1>9, <1>10, <1>11, <1>12

\* The strengthened invariant is inductive.
THEOREM PoolIInv == Spec => []IInv
<1>1. IInv /\ [Next]_vars => IInv'
  <2> SUFFICES ASSUME IInv, [Next]_vars PROVE IInv'
    OBVIOUS
  <2>1. CASE UNCHANGED vars
    <3>1. TypeOK' /\ MutexOK' /\ CallOK' /\ ExitOK' /\ NoSelfLock'
      BY <2>1 DEF vars, IInv, TypeOK, MutexOK, CallOK, HasHandle, ExitOK, NoSelfLock, SelfLocked
    <3>2. ArgOK' /\ QueueOK' /\ CurrentOK' /\ OwnedOK' /\ HandlesOK'
      BY <2>1 DEF vars, IInv, ArgOK, QueueOK, CurrentOK, OwnedOK, HandlesOK
    <3> QED
      BY <3>1, <3>2 DEF IInv
  <2>2. CASE Next
    BY <2>2, SubmitIInv, EmplacePushIInv, NotifyIInv, ShutdownSetIInv, LeaveIInv, LockIInv, TakeIInv,
       ReturnIInv, DisposeIInv, ExitWaitIInv, SpuriousWakeIInv DEF Next
  <2> QED
    BY <2>1, <2>2
<1> QED
  BY InitIInv, <1>1, PTL DEF Spec

\* Type correctness of the pool's state.
THEOREM PoolTypeOK == Spec => []TypeOK
<1>1. IInv => TypeOK
  BY DEF IInv
<1> QED
  BY <1>1, PoolIInv, PTL

\* No worker waits for the mutex it owns, but for a keeper of the last handle.
THEOREM PoolNoSelfLock == Spec => []NoSelfLock
<1>1. IInv => NoSelfLock
  BY DEF IInv
<1> QED
  BY <1>1, PoolIInv, PTL

\* Whatever the workers do at once, a task is in exactly one place from the call
\* that submits it to its destruction.
THEOREM PoolOneOwner == Spec => []OneOwner
<1>1. IInv => OneOwner
  <2> SUFFICES ASSUME IInv, NEW t \in Tasks, stage[t] \in {"made", "queued", "running", "done"}
               PROVE  Cardinality({th \in Threads : arg[th] = t})
                        + Cardinality({i \in DOMAIN tasks : tasks[i] = t})
                        + Cardinality({w \in Workers : current[w] = t}) = 1
    BY DEF OneOwner
  <2> USE DEF IInv
  <2> DEFINE A == {th \in Threads : arg[th] = t}
             Q == {i \in DOMAIN tasks : tasks[i] = t}
             C == {w \in Workers : current[w] = t}
  <2>1. t # None /\ DOMAIN tasks = 1..Len(tasks)
    BY PoolAssumption, LenProperties DEF TypeOK
  <2>2. /\ stage[t] # "made" => A = {}
        /\ stage[t] # "queued" => Q = {}
        /\ stage[t] \notin {"running", "done"} => C = {}
    BY <2>1 DEF ArgOK, QueueOK, CurrentOK
  <2>3. CASE stage[t] = "made"
    <3>1. PICK th \in Threads : arg[th] = t
      BY <2>3 DEF OwnedOK
    <3>2. A = {th} /\ Q = {} /\ C = {}
      BY <2>1, <2>2, <2>3, <3>1 DEF ArgOK
    <3>3. Cardinality(A) = 1 /\ Cardinality(Q) = 0 /\ Cardinality(C) = 0
      BY <3>2, FS_Singleton, FS_EmptySet
    <3> QED
      BY <3>3
  <2>4. CASE stage[t] = "queued"
    <3>1. PICK i \in 1..Len(tasks) : tasks[i] = t
      BY <2>4 DEF OwnedOK
    <3>2. A = {} /\ Q = {i} /\ C = {}
      BY <2>1, <2>2, <2>4, <3>1 DEF QueueOK
    <3>3. Cardinality(A) = 0 /\ Cardinality(Q) = 1 /\ Cardinality(C) = 0
      BY <3>2, FS_Singleton, FS_EmptySet
    <3> QED
      BY <3>3
  <2>5. CASE stage[t] \in {"running", "done"}
    <3>1. PICK w \in Workers : current[w] = t
      BY <2>5 DEF OwnedOK
    <3>2. A = {} /\ Q = {} /\ C = {w}
      BY <2>1, <2>2, <2>5, <3>1 DEF CurrentOK
    <3>3. Cardinality(A) = 0 /\ Cardinality(Q) = 0 /\ Cardinality(C) = 1
      BY <3>2, FS_Singleton, FS_EmptySet
    <3> QED
      BY <3>3
  <2> QED
    BY <2>3, <2>4, <2>5
<1> QED
  BY <1>1, PoolIInv, PTL

\* shutdown() cuts no work off.
THEOREM PoolDrainedBeforeExit == Spec => []DrainedBeforeExit
<1>1. IInv => DrainedBeforeExit
  <2> SUFFICES ASSUME IInv PROVE DrainedBeforeExit
    OBVIOUS
  <2> USE DEF IInv
  <2>1. ASSUME NEW w \in Workers, wpc[w] = "exited"
        PROVE  tasks = <<>> /\ \A th \in Threads : call[th] # "emplace"
    BY <2>1, HandleMeansOpen DEF ExitOK, CallOK
  <2>2. ASSUME NEW w \in Workers, \A v \in Workers : wpc[v] = "exited", NEW t \in Tasks
        PROVE  stage[t] \in {"new", "destroyed"}
    <3>1. tasks = <<>> /\ \A th \in Threads : arg[th] = None
      BY <2>1, <2>2 DEF CallOK
    <3>2. \A v \in Workers : current[v] = None
      BY <2>2 DEF CurrentOK
    <3>3. stage[t] \notin {"made", "queued", "running", "done"}
      BY <3>1, <3>2, EmptySeq, PoolAssumption DEF OwnedOK
    <3> QED
      BY <3>3 DEF TypeOK
  <2> QED
    BY <2>1, <2>2 DEF DrainedBeforeExit
<1> QED
  BY <1>1, PoolIInv, PTL

-----------------------------------------------------------------------------
(***************************************************************************)
(* Notifications.  NoLostWakeup is inductive given IInv: it counts workers *)
(* and calls, so every step has to say whom it adds to either and whom it  *)
(* takes away.                                                             *)
(***************************************************************************)
LEMMA Countable ==
  \A S \in SUBSET Threads : IsFiniteSet(S) /\ Cardinality(S) \in Nat
<1>1. IsFiniteSet(Threads)
  BY PoolAssumption, FS_Union DEF Threads
<1> QED
  BY <1>1, FS_Subset, FS_CardinalityType

LEMMA OneMore ==
  ASSUME NEW S \in SUBSET Threads, NEW th \in Threads, th \notin S
  PROVE  Cardinality(S \cup {th}) = Cardinality(S) + 1
BY Countable, FS_AddElement

\* The sets that are counted: what changes in them is seen in wpc and call.
LEMMA Counted ==
  /\ Heading \in SUBSET Threads /\ Heading' \in SUBSET Threads
  /\ In("notify_one") \in SUBSET Threads /\ In("notify_one")' \in SUBSET Threads
BY DEF Heading, In, Threads

LEMMA LengthOK ==
  ASSUME IInv
  PROVE  Len(tasks) \in Nat /\ tasks \in Seq(Tasks)
BY LenProperties DEF IInv, TypeOK

\* A step that takes neither a worker on its way to the queue nor a notification.
LEMMA QuietWakeup ==
  ASSUME IInv, NoLostWakeup, tasks' = tasks, asleep' \subseteq asleep,
         Heading \subseteq Heading', In("notify_one")' = In("notify_one"),
         is_shutdown' => (is_shutdown /\ In("notify_all") \subseteq In("notify_all")')
                           \/ In("notify_all")' # {}
  PROVE  NoLostWakeup'
<1>1. PICK h \in SUBSET Threads, k \in SUBSET Threads : h = Heading /\ k = Heading'
  BY Counted
<1>2. Cardinality(h) <= Cardinality(k) /\ Cardinality(h) \in Nat /\ Cardinality(k) \in Nat
  BY <1>1, Countable, FS_Subset
<1>3. PICK n : n = Cardinality(In("notify_one")) /\ n \in Nat
  BY Counted, Countable
<1>4. Cardinality(In("notify_one")') = n
  BY <1>3
<1>5. asleep' # {} => Len(tasks') <= Cardinality(k) + n
  BY <1>1, <1>2, <1>3, LengthOK DEF NoLostWakeup
<1>6. asleep' # {} => (is_shutdown' => In("notify_all")' # {})
  BY DEF NoLostWakeup
<1> QED
  BY <1>1, <1>4, <1>5, <1>6 DEF NoLostWakeup

LEMMA EmplacePushWakeup ==
  ASSUME IInv, NoLostWakeup, NEW th \in Threads, EmplacePush(th)
  PROVE  NoLostWakeup'
<1>1. PICK t \in Tasks : t = arg[th]
  BY DEF EmplacePush, IInv, TypeOK, CallOK
<1>2. Len(tasks') = Len(tasks) + 1 /\ Len(tasks) \in Nat
  BY <1>1, LengthOK, AppendProperties DEF EmplacePush
<1>3. /\ Heading' = Heading /\ In("notify_all")' = In("notify_all")
      /\ In("notify_one")' = In("notify_one") \cup {th} /\ th \notin In("notify_one")
      /\ asleep' = asleep /\ is_shutdown' = is_shutdown
  BY DEF EmplacePush, Heading, In, IInv, TypeOK
<1>4. PICK S \in SUBSET Threads, h \in SUBSET Threads : S = In("notify_one") /\ h = Heading
  BY Counted
<1>5. Cardinality(S \cup {th}) = Cardinality(S) + 1
  BY <1>3, <1>4, OneMore
<1>6. Cardinality(S) \in Nat /\ Cardinality(h) \in Nat
  BY Countable
<1>7. asleep # {} => Len(tasks') <= Cardinality(h) + Cardinality(S \cup {th})
  BY <1>2, <1>4, <1>5, <1>6 DEF NoLostWakeup
<1> QED
  BY <1>3, <1>4, <1>7 DEF NoLostWakeup

LEMMA NotifyOneWakeup ==
  ASSUME IInv, NoLostWakeup, NEW th \in Threads, NotifyOne(th)
  PROVE  NoLostWakeup'
<1>1. CASE asleep' = {}
  BY <1>1 DEF NoLostWakeup
<1>2. CASE asleep' # {}
  <2>1. PICK w \in asleep : Wake({w})
    BY <1>2 DEF NotifyOne
  <2>2. w \in Threads /\ wpc[w] = "asleep" /\ w \in Workers
    BY DEF IInv, TypeOK, MutexOK, Threads
  <2>3. /\ Heading' = Heading \cup {w} /\ w \notin Heading
        /\ In("notify_all")' = In("notify_all") /\ is_shutdown' = is_shutdown /\ tasks' = tasks
        /\ In("notify_one") = In("notify_one")' \cup {th} /\ th \notin In("notify_one")'
    BY <2>1, <2>2 DEF NotifyOne, Wake, Heading, In, IInv, TypeOK
  <2>4. PICK S \in SUBSET Threads, h \in SUBSET Threads : S = In("notify_one")' /\ h = Heading
    BY Counted
  <2>5. /\ Cardinality(S \cup {th}) = Cardinality(S) + 1
        /\ Cardinality(h \cup {w}) = Cardinality(h) + 1
    BY <2>2, <2>3, <2>4, OneMore
  <2>6. Cardinality(S) \in Nat /\ Cardinality(h) \in Nat
    BY Countable
  <2>7. Len(tasks) <= Cardinality(h) + Cardinality(S \cup {th})
    BY <2>1, <2>3, <2>4 DEF NoLostWakeup
  <2>8. Len(tasks') <= Cardinality(h \cup {w}) + Cardinality(S)
    BY <2>3, <2>5, <2>6, <2>7, LengthOK
  <2> QED
    BY <2>1, <2>3, <2>4, <2>8 DEF NoLostWakeup
<1> QED
  BY <1>1, <1>2

LEMMA TakeWakeup ==
  ASSUME IInv, NoLostWakeup, NEW w \in Workers, Take(w)
  PROVE  NoLostWakeup'
<1>1. Len(tasks') = Len(tasks) - 1 /\ Len(tasks) \in Nat
  BY LengthOK, HeadTailProperties DEF Take
<1>2. /\ Heading = Heading' \cup {w} /\ w \notin Heading' /\ w \in Threads
      /\ In("notify_all")' = In("notify_all") /\ is_shutdown' = is_shutdown
      /\ In("notify_one")' = In("notify_one") /\ asleep' = asleep
  BY DEF Take, Heading, In, Threads, IInv, TypeOK
<1>3. PICK S \in SUBSET Threads, h \in SUBSET Threads : S = In("notify_one") /\ h = Heading'
  BY Counted
<1>4. Cardinality(h \cup {w}) = Cardinality(h) + 1
  BY <1>2, <1>3, OneMore
<1>5. Cardinality(S) \in Nat /\ Cardinality(h) \in Nat
  BY Countable
<1>6. asleep # {} => Len(tasks') <= Cardinality(h) + Cardinality(S)
  BY <1>1, <1>2, <1>3, <1>4, <1>5 DEF NoLostWakeup
<1> QED
  BY <1>2, <1>3, <1>6 DEF NoLostWakeup

LEMMA ExitWaitWakeup ==
  ASSUME IInv, NoLostWakeup, NEW w \in Workers, Exit(w) \/ Wait(w)
  PROVE  NoLostWakeup'
<1>1. Len(tasks') = 0
  BY EmptySeq DEF Exit, Wait
<1>2. Cardinality(Heading') \in Nat /\ Cardinality(In("notify_one")') \in Nat
  <2>1. PICK S \in SUBSET Threads, h \in SUBSET Threads : S = In("notify_one")' /\ h = Heading'
    BY Counted
  <2> QED
    BY <2>1, Countable
<1>3. Len(tasks') <= Cardinality(Heading') + Cardinality(In("notify_one")')
  BY <1>1, <1>2
<1>4. asleep' # {} /\ is_shutdown' => In("notify_all")' # {}
  BY DEF Exit, Wait, In, NoLostWakeup
<1> QED
  BY <1>3, <1>4 DEF NoLostWakeup

LEMMA StepWakeup == IInv /\ NoLostWakeup /\ [Next]_vars => NoLostWakeup'
<1> SUFFICES ASSUME IInv, NoLostWakeup, [Next]_vars PROVE NoLostWakeup'
  OBVIOUS
<1> USE DEF IInv, TypeOK
<1>1. CASE UNCHANGED vars
  BY <1>1, QuietWakeup DEF vars, Heading, In
<1>2. ASSUME NEW th \in Threads, NEW t \in Tasks, Submit(th, t) PROVE NoLostWakeup'
  BY <1>2, QuietWakeup DEF Submit, Heading, In
<1>3. ASSUME NEW th \in Threads, ShutdownSet(th) PROVE NoLostWakeup'
  BY <1>3, QuietWakeup DEF ShutdownSet, Heading, In
<1>4. ASSUME NEW th \in Threads, NotifyAll(th) PROVE NoLostWakeup'
  BY <1>4 DEF NotifyAll, Wake, NoLostWakeup
<1>5. ASSUME NEW c \in Clients, Leave(c) PROVE NoLostWakeup'
  BY <1>5, QuietWakeup DEF Leave, GiveUp, Heading, In
<1>6. ASSUME NEW w \in Workers, Lock(w) PROVE NoLostWakeup'
  BY <1>6, QuietWakeup DEF Lock, Heading, In
<1>7. ASSUME NEW w \in Workers, Return(w) PROVE NoLostWakeup'
  BY <1>7, QuietWakeup DEF Return, DropHandle, GiveUp, Heading, In
<1>8. ASSUME NEW w \in Workers, Dispose(w) PROVE NoLostWakeup'
  <2>1. call[w] = "none"
    BY <1>8 DEF Dispose, CallOK, Threads
  <2> QED
    BY <1>8, <2>1, QuietWakeup DEF Dispose, GiveUp, Heading, In
<1>9. ASSUME NEW w \in Workers, SpuriousWake(w) PROVE NoLostWakeup'
  <2>1. wpc[w] = "asleep"
    BY <1>9 DEF SpuriousWake, MutexOK
  <2> QED
    BY <1>9, <2>1, QuietWakeup DEF SpuriousWake, Wake, Heading, In
<1> QED
  BY <1>1, <1>2, <1>3, <1>4, <1>5, <1>6, <1>7, <1>8, <1>9, EmplacePushWakeup, NotifyOneWakeup,
     TakeWakeup, ExitWaitWakeup DEF Next

\* Whatever workers were doing when a task was pushed and whoever the notification
\* went to, nobody sleeps in cond_.wait while there is work that nobody is coming
\* for; nor while the pool is shut down and nobody is about to say so.
THEOREM PoolNoLostWakeup == Spec => []NoLostWakeup
<1>1. Init => NoLostWakeup
  BY DEF Init, NoLostWakeup
<1> QED
  BY <1>1, StepWakeup, PoolIInv, PTL DEF Spec
=============================================================================
