-------------------------- MODULE SyncInvokeProofs --------------------------
(***************************************************************************)
(* For every finite set of tasks, first: the counter of BasicAtomicCounter *)
(* is one less than the modifiers still to be decremented, whence only the *)
(* last join gets the callback, nobody touches the counter after its       *)
(* deletion, and the callback sees the effects of all tasks.  And every    *)
(* step of the counter is a step of ForkJoin or a stuttering one.          *)
(*                                                                         *)
(* Then, for every class of semaphore and every past of it, too: Main      *)
(* waits for the callback, and with it for all tasks, in the cases named   *)
(* by Dependable, and an exception of a portal leaves nobody who could     *)
(* call it.  The counter keeps the invariant of BasicCounter under the     *)
(* steps of Main.                                                          *)
(***************************************************************************)
EXTENDS SyncInvoke, FiniteSetTheorems, TLAPS

-----------------------------------------------------------------------------
(***************************************************************************)
(* BasicCounter.                                                           *)
(***************************************************************************)
Finished == {"joined", "last", "owner", "called"}

LEMMA OutstandingFinite ==
  ASSUME TypeOK
  PROVE  /\ IsFiniteSet(Outstanding)
         /\ Cardinality(Outstanding) \in Nat
         /\ Cardinality(Outstanding) <= SizeMax
         /\ Cardinality(Tasks) \in Nat
<1>1. Outstanding \in SUBSET Tasks
  BY DEF Outstanding, In
<1>2. IsFiniteSet(Outstanding) /\ Cardinality(Outstanding) <= Cardinality(Tasks)
  BY <1>1, FS_Subset, BasicAssumption
<1>3. Cardinality(Outstanding) \in Nat /\ Cardinality(Tasks) \in Nat
  BY <1>2, FS_CardinalityType, BasicAssumption
<1> QED
  BY <1>2, <1>3, BasicAssumption

\* The tasks of S become queued: what that does to the sets of tasks.
LEMMA EnqueueEffect ==
  ASSUME TypeOK, NEW a \in Actors, NEW S \in SUBSET Tasks, S \subseteq Idle, Enqueue(a, S)
  PROVE  /\ Outstanding' = Outstanding \cup S
         /\ Outstanding \cap S = {}
         /\ \A T \in SUBSET Finished : In(T)' = In(T)
BY DEF TypeOK, Enqueue, Outstanding, In, Idle, Status, Finished

LEMMA InitIInv == Init => IInv
BY BasicAssumption DEF Init, IInv, TypeOK, PendingOK, CountOK, LastOK, ViewOK,
   CallbackAfterAllJoins, Outstanding, In, Actors, Status

LEMMA InvokeIInv ==
  ASSUME IInv, NEW S \in SUBSET Tasks, Invoke(S)
  PROVE  IInv'
<1> USE DEF IInv
<1>1. /\ Idle = Tasks /\ Outstanding = {} /\ In(Finished) = {}
  BY DEF PendingOK, Invoke, Idle, Outstanding, In, Finished
<1>2. /\ IsFiniteSet(S) /\ Cardinality(S) \in Nat /\ Cardinality(S) <= SizeMax
      /\ (Cardinality(S) = 0) <=> (S = {})
  BY FS_Subset, FS_CardinalityType, FS_EmptySet, BasicAssumption
<1>3. Main \in Actors
  BY DEF Actors
<1>4. Outstanding' = S
  BY <1>1, <1>3, EnqueueEffect DEF Invoke
<1>5. TypeOK'
  BY <1>2, <1>3, BasicAssumption DEF TypeOK, Invoke, Enqueue, Decr, Status
<1>6. PendingOK'
  BY <1>3 DEF PendingOK, TypeOK, Invoke, Enqueue
<1>7. \A t \in Tasks : st'[t] \in {"idle", "queued"}
  BY <1>1 DEF Invoke, Enqueue, Idle, In
<1>8. CountOK'
  <2>1. In({"last", "owner", "called"})' = {}
    BY <1>7 DEF In
  <2>2. S # {} => count' + 1 = Cardinality(S)
    BY <1>2 DEF Invoke, Decr
  <2> QED
    BY <1>4, <2>1, <2>2 DEF CountOK, Invoke
<1>9. LastOK' /\ ViewOK' /\ CallbackAfterAllJoins'
  BY <1>7 DEF LastOK, ViewOK, CallbackAfterAllJoins, In
<1> QED
  BY <1>5, <1>6, <1>8, <1>9

LEMMA LaunchIInv ==
  ASSUME IInv, NEW a \in Actors, NEW t \in Tasks, Launch(a, t)
  PROVE  IInv'
<1> USE DEF IInv
<1>1. st[t] = "queued"
  BY DEF Launch, PendingOK
<1>2. t \in Actors
  BY DEF Actors
<1>3. TypeOK'
  BY <1>2 DEF TypeOK, Launch, Status
<1>4. PendingOK'
  BY <1>1 DEF PendingOK, Launch, TypeOK
<1>5. /\ Outstanding' = Outstanding
      /\ \A T \in SUBSET Finished : In(T)' = In(T)
  BY <1>1 DEF Launch, TypeOK, Outstanding, In, Finished
<1>6. CountOK'
  BY <1>5 DEF CountOK, Launch, Finished
<1>7. LastOK' /\ CallbackAfterAllJoins'
  BY <1>1 DEF LastOK, CallbackAfterAllJoins, Launch, TypeOK, In
<1>8. ViewOK'
  BY <1>1, <1>2 DEF ViewOK, Launch, TypeOK, In
<1> QED
  BY <1>3, <1>4, <1>6, <1>7, <1>8

LEMMA AbandonIInv ==
  ASSUME IInv, Abandon
  PROVE  IInv'
<1> USE DEF IInv
<1>1. Main \in Actors /\ \A t \in pending[Main] : st[t] = "queued"
  BY DEF PendingOK, Actors
<1>2. TypeOK'
  BY <1>1 DEF TypeOK, Abandon, Status
<1>3. PendingOK'
  BY <1>1 DEF PendingOK, Abandon, TypeOK
<1>4. /\ Outstanding' = Outstanding
      /\ \A T \in SUBSET Finished : In(T)' = In(T)
  BY <1>1 DEF Abandon, TypeOK, Outstanding, In, Finished
<1>5. CountOK'
  BY <1>4 DEF CountOK, Abandon, Finished
<1>6. LastOK'
  BY <1>1 DEF LastOK, Abandon
<1>7. CallbackAfterAllJoins'
  <2>1. CASE In({"last", "owner", "called"}) = {}
    BY <1>4, <2>1 DEF CallbackAfterAllJoins, Finished
  <2>2. CASE In({"last", "owner", "called"}) # {}
    BY <1>1, <2>2 DEF CountOK, Outstanding, In, Abandon, TypeOK
  <2> QED
    BY <2>1, <2>2
<1>8. ViewOK'
  BY <1>4 DEF ViewOK, Abandon, Finished
<1> QED
  BY <1>2, <1>3, <1>5, <1>6, <1>7, <1>8

LEMMA ForkIInv ==
  ASSUME IInv, NEW t \in Tasks, NEW S \in SUBSET Tasks, Fork(t, S)
  PROVE  IInv'
<1> USE DEF IInv
<1>1. t \in Actors /\ S \subseteq Idle /\ st[t] = "running" /\ t \in Outstanding
  BY DEF Fork, Actors, Outstanding, In
<1>2. /\ Outstanding' = Outstanding \cup S
      /\ Outstanding \cap S = {}
      /\ \A T \in SUBSET Finished : In(T)' = In(T)
  BY <1>1, EnqueueEffect DEF Fork
<1>3. IsFiniteSet(S) /\ Cardinality(S) \in Nat
  BY FS_Subset, FS_CardinalityType, BasicAssumption
<1>4. Cardinality(Outstanding') = Cardinality(Outstanding) + Cardinality(S)
  <2>1. Cardinality(Outstanding \cup S) = Cardinality(Outstanding) + Cardinality(S) - Cardinality({})
    BY <1>2, <1>3, OutstandingFinite, FS_Union
  <2> QED
    BY <1>2, <1>3, <2>1, OutstandingFinite, FS_EmptySet
<1>5. Cardinality(Outstanding') <= SizeMax
  <2>1. Outstanding' \in SUBSET Tasks
    BY <1>2 DEF Outstanding, In
  <2> QED
    BY <2>1, FS_Subset, FS_CardinalityType, BasicAssumption
<1>6. count' + 1 = Cardinality(Outstanding') /\ count' \in 0..SizeMax
  <2>1. count + 1 = Cardinality(Outstanding) /\ count \in Nat
    BY <1>1 DEF CountOK, TypeOK
  <2>2. count + Cardinality(S) <= SizeMax
    BY <2>1, <1>3, <1>4, <1>5, OutstandingFinite, BasicAssumption
  <2>3. count' = count + Cardinality(S)
    BY <2>2 DEF Fork, Plus
  <2> QED
    BY <2>1, <2>2, <2>3, <1>3, <1>4, OutstandingFinite, BasicAssumption
<1>7. TypeOK'
  BY <1>1, <1>6 DEF TypeOK, Fork, Enqueue, Status
<1>8. PendingOK'
  <2>1. heap # "none"
    BY <1>1 DEF PendingOK
  <2>2. \A b \in Actors : pending[b] \cap S = {}
    BY <1>1 DEF PendingOK, Idle, In
  <2> QED
    BY <1>1, <2>1, <2>2 DEF PendingOK, TypeOK, Fork, Enqueue
<1>9. CountOK'
  BY <1>1, <1>2, <1>6 DEF CountOK, Fork, Finished
<1>10. LastOK' /\ CallbackAfterAllJoins'
  <2>1. In({"last", "owner", "called"})' = {}
    BY <1>1, <1>2 DEF CountOK, Finished
  <2> QED
    BY <2>1 DEF LastOK, CallbackAfterAllJoins, In
<1>11. ViewOK'
  BY <1>2 DEF ViewOK, Fork, Finished
<1> QED
  BY <1>7, <1>8, <1>9, <1>10, <1>11

LEMMA JoinIInv ==
  ASSUME IInv, NEW t \in Tasks, Join(t)
  PROVE  IInv'
<1> USE DEF IInv
<1>1. /\ t \in Actors /\ t \in Outstanding /\ st[t] = "running"
      /\ heap = "live" /\ count + 1 = Cardinality(Outstanding) /\ count \in Nat
      /\ In({"last", "owner", "called"}) = {}
  BY DEF Join, Actors, Outstanding, In, CountOK, TypeOK
<1>2. TypeOK'
  BY <1>1, BasicAssumption DEF TypeOK, Join, Decr, Status
<1>3. PendingOK'
  BY <1>1 DEF PendingOK, Join, TypeOK
<1>4. Outstanding' = Outstanding \ {t}
  BY <1>1 DEF Outstanding, In, Join, TypeOK
<1>5. Cardinality(Outstanding') = count
  <2>1. Cardinality(Outstanding \ {t}) = Cardinality(Outstanding) - 1
    BY <1>1, OutstandingFinite, FS_RemoveElement
  <2> QED
    BY <1>1, <1>4, <2>1
<1>6. LastOK'
  BY <1>1 DEF LastOK, Join
<1>7. ViewOK'
  BY <1>1 DEF ViewOK, Join, TypeOK, In
<1>8. CASE count = 0
  <2>1. Outstanding' = {}
    BY <1>4, <1>5, <1>8, OutstandingFinite, FS_RemoveElement, FS_EmptySet
  <2>2. \A u \in Tasks \ {t} : st'[u] \in {"idle", "joined"}
    <3> SUFFICES ASSUME NEW u \in Tasks \ {t} PROVE st'[u] \in {"idle", "joined"}
      OBVIOUS
    <3>1. st'[u] = st[u] /\ u \notin Outstanding
      BY <2>1, <1>4 DEF Join, TypeOK
    <3> QED
      BY <3>1, <1>1 DEF Outstanding, In, TypeOK, Status
  <2> QED
    BY <1>2, <1>3, <1>6, <1>7, <2>1, <2>2 DEF CountOK, CallbackAfterAllJoins, In
<1>9. CASE count # 0
  <2>1. In({"last", "owner", "called"})' = {}
    BY <1>1, <1>9 DEF Join, TypeOK, In
  <2>2. CountOK'
    BY <1>1, <1>5, <1>9, <2>1 DEF CountOK, Join, Decr
  <2> QED
    BY <1>2, <1>3, <1>6, <1>7, <2>1, <2>2 DEF CallbackAfterAllJoins
<1> QED
  BY <1>8, <1>9

LEMMA ReclaimIInv ==
  ASSUME IInv, NEW t \in Tasks, Reclaim(t)
  PROVE  IInv'
<1> USE DEF IInv
<1>1. t \in Actors /\ st[t] = "last" /\ \A u \in Tasks \ {t} : st[u] \in {"idle", "joined"}
  BY DEF Reclaim, Actors, CallbackAfterAllJoins, In
<1>2. TypeOK'
  BY <1>1 DEF TypeOK, Reclaim, Status
<1>3. PendingOK' /\ LastOK'
  BY <1>1 DEF PendingOK, LastOK, Reclaim, TypeOK
<1>4. Outstanding' = {}
  BY <1>1 DEF Outstanding, In, Reclaim, TypeOK
<1>5. CallbackAfterAllJoins'
  BY <1>1 DEF CallbackAfterAllJoins, Reclaim, TypeOK, In
<1>6. ViewOK'
  BY <1>1 DEF ViewOK, Reclaim, TypeOK, In
<1> QED
  BY <1>2, <1>3, <1>4, <1>5, <1>6 DEF CountOK

LEMMA CallbackIInv ==
  ASSUME IInv, NEW t \in Tasks, Callback(t)
  PROVE  IInv'
<1> USE DEF IInv
<1>1. st[t] = "owner" /\ \A u \in Tasks \ {t} : st[u] \in {"idle", "joined"}
  BY DEF Callback, CallbackAfterAllJoins, In
<1>2. TypeOK'
  BY <1>1 DEF TypeOK, Callback, Status
<1>3. PendingOK' /\ LastOK'
  BY <1>1 DEF PendingOK, LastOK, Callback, TypeOK
<1>4. Outstanding' = {}
  BY <1>1 DEF Outstanding, In, Callback, TypeOK
<1>5. CallbackAfterAllJoins' /\ ViewOK'
  BY <1>1 DEF CallbackAfterAllJoins, ViewOK, Callback, TypeOK, In
<1> QED
  BY <1>2, <1>3, <1>4, <1>5 DEF CountOK

\* The strengthened invariant is inductive: BasicAtomicCounter's count_ stays
\* one less than the modifiers that are still to be decremented.
THEOREM BasicIInv == Spec => []IInv
<1>1. IInv /\ [Next]_vars => IInv'
  <2> SUFFICES ASSUME IInv, [Next]_vars PROVE IInv'
    OBVIOUS
  <2>1. CASE UNCHANGED vars
    BY <2>1 DEF IInv, TypeOK, PendingOK, CountOK, LastOK, ViewOK, CallbackAfterAllJoins,
       Outstanding, In, vars
  <2>2. CASE Next
    BY <2>2, InvokeIInv, LaunchIInv, AbandonIInv, ForkIInv, JoinIInv, ReclaimIInv,
       CallbackIInv DEF Next
  <2> QED
    BY <2>1, <2>2
<1> QED
  BY InitIInv, <1>1, PTL DEF Spec

\* Type correctness of the invocation's state.
THEOREM BasicTypeOK == Spec => []TypeOK
<1>1. IInv => TypeOK
  BY DEF IInv
<1> QED
  BY <1>1, BasicIInv, PTL

\* The callback is handed out once, to the last task to join.
THEOREM BasicCallbackAfterAllJoins == Spec => []CallbackAfterAllJoins
<1>1. IInv => CallbackAfterAllJoins
  BY DEF IInv
<1> QED
  BY <1>1, BasicIInv, PTL

\* Whoever may still touch the counter finds it allocated.
THEOREM BasicNoUseAfterFree == Spec => []NoUseAfterFree
<1>1. IInv => NoUseAfterFree
  BY DEF IInv, NoUseAfterFree, CountOK, LastOK, Outstanding, In
<1> QED
  BY <1>1, BasicIInv, PTL

\* The writes of every task of the invocation happen before the callback.
THEOREM BasicCallbackSeesAllTasks == Spec => []CallbackSeesAllTasks
<1>1. IInv => CallbackSeesAllTasks
  BY DEF IInv, CallbackSeesAllTasks, CallbackAfterAllJoins, ViewOK, In, Idle
<1> QED
  BY <1>1, BasicIInv, PTL

\* A queued task has a launcher, and somebody goes on.
GoesOnInv ==
  /\ \A t \in In({"queued"}) : \E a \in Actors : t \in pending[a]
  /\ SomebodyGoesOn

LEMMA StepGoesOn == IInv /\ GoesOnInv /\ [Next]_vars => GoesOnInv'
<1> SUFFICES ASSUME IInv, GoesOnInv, [Next]_vars PROVE GoesOnInv'
  OBVIOUS
<1> USE DEF GoesOnInv, SomebodyGoesOn, In
<1>0. TypeOK /\ Main \in Actors /\ Tasks \subseteq Actors
  BY DEF IInv, Actors
<1>1. CASE UNCHANGED vars
  BY <1>1 DEF vars, Idle
<1>2. ASSUME NEW S \in SUBSET Tasks, Invoke(S) PROVE GoesOnInv'
  <2>1. \A t \in Tasks : st[t] = "idle"
    BY <1>2 DEF Invoke, IInv, PendingOK
  <2>2. pending'[Main] = S /\ \A t \in Tasks : st'[t] = IF t \in S THEN "queued" ELSE st[t]
    BY <1>0, <1>2 DEF Invoke, Enqueue, TypeOK
  <2> QED
    BY <1>0, <2>1, <2>2 DEF Idle
<1>3. ASSUME NEW a \in Actors, NEW t \in Tasks, Launch(a, t) PROVE GoesOnInv'
  <2>1. st' = [st EXCEPT ![t] = "running"] /\ pending' = [pending EXCEPT ![a] = pending[a] \ {t}]
    BY <1>3 DEF Launch
  <2>2. \A u \in Tasks, b \in Actors : u # t /\ u \in pending[b] => u \in pending'[b]
    BY <1>0, <2>1 DEF TypeOK
  <2> QED
    BY <1>0, <2>1, <2>2 DEF TypeOK
<1>4. CASE Abandon
  <2>1. PICK t \in Tasks : t \in pending[Main]
    BY <1>0, <1>4 DEF Abandon, TypeOK
  <2>2. st'[t] = "lost"
    BY <1>4, <2>1 DEF Abandon
  <2>3. \A u \in Tasks : st'[u] = "queued" => st[u] = "queued" /\ u \notin pending[Main]
    BY <1>4 DEF Abandon
  <2>4. \A b \in Actors \ {Main} : pending'[b] = pending[b]
    BY <1>0, <1>4 DEF Abandon, TypeOK
  <2> QED
    BY <2>2, <2>3, <2>4
<1>5. ASSUME NEW t \in Tasks, NEW S \in SUBSET Tasks, Fork(t, S) PROVE GoesOnInv'
  <2>1. st[t] = "running" /\ pending[t] = {} /\ S \subseteq Idle
    BY <1>5 DEF Fork
  <2>2. /\ pending'[t] = S /\ \A b \in Actors \ {t} : pending'[b] = pending[b]
        /\ \A u \in Tasks : st'[u] = IF u \in S THEN "queued" ELSE st[u]
    BY <1>0, <1>5 DEF Fork, Enqueue, TypeOK
  <2>3. st'[t] = "running"
    BY <2>1, <2>2 DEF Idle
  <2> QED
    BY <1>0, <2>1, <2>2, <2>3
<1>6. ASSUME NEW t \in Tasks, Join(t) PROVE GoesOnInv'
  <2>1. /\ st[t] = "running" /\ st' = [st EXCEPT ![t] = IF count = 0 THEN "last" ELSE "joined"]
        /\ pending' = pending
    BY <1>6 DEF Join
  <2>2. \A u \in Tasks : u # t => st'[u] = st[u]
    BY <1>0, <2>1 DEF TypeOK
  <2>3. \A u \in Tasks : st'[u] = "queued" => st[u] = "queued"
    BY <1>0, <2>1 DEF TypeOK
  <2>4. CASE count = 0
    BY <1>0, <2>1, <2>3, <2>4 DEF TypeOK
  <2>5. CASE count # 0
    <3>1. count + 1 = Cardinality(Outstanding) /\ count \in Nat
      BY <1>0, <2>1, BasicAssumption DEF IInv, CountOK, Outstanding, TypeOK
    <3>2. Outstanding # {t}
      <4>1. Cardinality({t}) = 1
        BY FS_Singleton
      <4> QED
        BY <2>5, <3>1, <4>1
    <3>3. PICK u \in Outstanding : u # t
      BY <2>1, <3>2 DEF Outstanding
    <3>4. u \in Tasks /\ st'[u] \in {"queued", "running", "lost"}
      BY <2>2, <3>3 DEF Outstanding
    <3>5. \E b \in Actors : pending'[b] # {} \/ st'[u] \in {"running", "lost"}
      BY <1>0, <2>1, <2>3, <3>4
    <3> QED
      BY <2>1, <2>3, <3>4, <3>5
  <2> QED
    BY <2>4, <2>5
<1>7. ASSUME NEW t \in Tasks, Reclaim(t) \/ Callback(t) PROVE GoesOnInv'
  <2>1. /\ st' = [st EXCEPT ![t] = "owner"] \/ st' = [st EXCEPT ![t] = "called"]
        /\ pending' = pending
    BY <1>7 DEF Reclaim, Callback
  <2> QED
    BY <1>0, <2>1 DEF TypeOK
<1> QED
  BY <1>1, <1>2, <1>3, <1>4, <1>5, <1>6, <1>7 DEF Next

\* An invocation cannot come to a stop before its callback: whatever forks and
\* joins race for the counter, somebody is left to take the next step.
THEOREM BasicSomebodyGoesOn == Spec => []SomebodyGoesOn
<1>1. Init => GoesOnInv
  BY DEF Init, GoesOnInv, SomebodyGoesOn, In, Idle
<1>2. GoesOnInv => SomebodyGoesOn
  BY DEF GoesOnInv
<1> QED
  BY <1>1, <1>2, StepGoesOn, BasicIInv, PTL DEF Spec

(***************************************************************************)
(* The refinement of ForkJoin, step by step.                               *)
(***************************************************************************)
LEMMA InitFJ == Init => FJ!Init
BY DEF Init, FJ!Init, Outstanding, In

LEMMA InvokeFJ ==
  ASSUME IInv, NEW S \in SUBSET Tasks, Invoke(S)
  PROVE  [FJ!Next]_FJ!vars
<1>1. TypeOK /\ Idle = Tasks /\ Outstanding = {} /\ In({"joined", "last", "owner", "called"}) = {}
  BY DEF IInv, PendingOK, Invoke, Idle, Outstanding, In
<1>2. /\ Outstanding' = S
      /\ In({"joined", "last", "owner", "called"})' = {}
      /\ In({"called"})' = In({"called"})
  BY <1>1, EnqueueEffect DEF Invoke, Actors, Finished
<1>3. CASE S = {}
  BY <1>1, <1>2, <1>3 DEF FJ!vars
<1>4. CASE S # {}
  <2>1. FJ!Begin(S)
    BY <1>1, <1>2, <1>4 DEF FJ!Begin
  <2> QED
    BY <2>1 DEF FJ!Next
<1> QED
  BY <1>3, <1>4

LEMMA ForkFJ ==
  ASSUME IInv, NEW t \in Tasks, NEW S \in SUBSET Tasks, Fork(t, S)
  PROVE  FJ!Next
<1>1. TypeOK /\ t \in Actors /\ S \subseteq Idle /\ t \in Outstanding
  BY DEF IInv, Fork, Actors, Outstanding, In
<1>2. /\ Outstanding' = Outstanding \cup S
      /\ Outstanding \cap S = {}
      /\ \A T \in SUBSET Finished : In(T)' = In(T)
  BY <1>1, EnqueueEffect DEF Fork
<1>3. S \cap In({"joined", "last", "owner", "called"}) = {}
  BY <1>1 DEF Idle, In
<1>4. FJ!Fork(t, S)
  BY <1>1, <1>2, <1>3 DEF FJ!Fork, Finished
<1> QED
  BY <1>4 DEF FJ!Next

LEMMA JoinFJ ==
  ASSUME IInv, NEW t \in Tasks, Join(t)
  PROVE  FJ!Next
<1>1. TypeOK /\ st[t] = "running" /\ t \in Outstanding
  BY DEF IInv, Join, Outstanding, In
<1>2. /\ Outstanding' = Outstanding \ {t}
      /\ In({"joined", "last", "owner", "called"})' = In({"joined", "last", "owner", "called"}) \cup {t}
      /\ In({"called"})' = In({"called"})
  BY <1>1 DEF Join, TypeOK, Outstanding, In
<1>3. FJ!Join(t)
  BY <1>1, <1>2 DEF FJ!Join
<1> QED
  BY <1>3 DEF FJ!Next

LEMMA CallbackFJ ==
  ASSUME IInv, NEW t \in Tasks, Callback(t)
  PROVE  FJ!Next
<1>1. TypeOK /\ st[t] = "owner" /\ \A u \in Tasks \ {t} : st[u] \in {"idle", "joined"}
  BY DEF IInv, Callback, CallbackAfterAllJoins, In
<1>2. /\ Outstanding = {} /\ Outstanding' = {}
      /\ In({"joined", "last", "owner", "called"})' = In({"joined", "last", "owner", "called"})
      /\ t \in In({"joined", "last", "owner", "called"})
      /\ In({"called"}) = {} /\ In({"called"})' = {t}
  BY <1>1 DEF Callback, TypeOK, Outstanding, In
<1>3. FJ!Fire
  BY <1>2 DEF FJ!Fire
<1> QED
  BY <1>3 DEF FJ!Next

LEMMA SilentFJ ==
  ASSUME IInv,
         \/ \E a \in Actors, t \in Tasks : Launch(a, t)
         \/ Abandon
         \/ \E t \in Tasks : Reclaim(t)
  PROVE  UNCHANGED FJ!vars
<1>1. Main \in Actors /\ TypeOK /\ \A a \in Actors : \A t \in pending[a] : st[t] = "queued"
  BY DEF IInv, PendingOK, Actors
<1>2. ASSUME NEW a \in Actors, NEW t \in Tasks, Launch(a, t)
      PROVE  UNCHANGED FJ!vars
  BY <1>1, <1>2 DEF Launch, TypeOK, FJ!vars, Outstanding, In
<1>3. CASE Abandon
  BY <1>1, <1>3 DEF Abandon, TypeOK, FJ!vars, Outstanding, In
<1>4. ASSUME NEW t \in Tasks, Reclaim(t)
      PROVE  UNCHANGED FJ!vars
  BY <1>1, <1>4 DEF Reclaim, TypeOK, FJ!vars, Outstanding, In
<1> QED
  BY <1>2, <1>3, <1>4

\* Every behaviour of the counter is, seen through the mapping, a behaviour of
\* ForkJoin: the safety half of ImplementsForkJoin, the run has the other.
THEOREM BasicRefinesForkJoin == Spec => FJ!SafeSpec
<1>1. IInv /\ [Next]_vars => [FJ!Next]_FJ!vars
  <2> SUFFICES ASSUME IInv, [Next]_vars PROVE [FJ!Next]_FJ!vars
    OBVIOUS
  <2>1. CASE UNCHANGED vars
    BY <2>1 DEF vars, FJ!vars, Outstanding, In
  <2>2. CASE Next
    BY <2>2, InvokeFJ, ForkFJ, JoinFJ, CallbackFJ, SilentFJ DEF Next
  <2> QED
    BY <2>1, <2>2
<1> QED
  BY InitFJ, <1>1, BasicIInv, PTL DEF Spec, FJ!SafeSpec

-----------------------------------------------------------------------------
(***************************************************************************)
(* SyncInvoke.                                                             *)
(***************************************************************************)
\* The callback is the last step of the invocation's tasks.
LEMMA NothingAfterCall ==
  ASSUME IInv, Next
  PROVE  In({"called"}) = {}
<1> SUFFICES ASSUME NEW c \in Tasks, st[c] = "called" PROVE FALSE
  BY DEF In
<1>1. \A u \in Tasks \ {c} : st[u] \in {"idle", "joined"}
  BY DEF IInv, CallbackAfterAllJoins, In
<1>2. heap # "none" /\ \A a \in Actors : pending[a] = {}
  BY <1>1 DEF IInv, TypeOK, PendingOK
<1> QED
  BY <1>1, <1>2 DEF Next, Invoke, Launch, Abandon, Fork, Join, Reclaim, Callback, Actors

\* What is lost stays lost.
LEMMA LostStays ==
  ASSUME IInv, Next, In({"lost"}) # {}
  PROVE  In({"lost"})' # {}
<1>1. PICK c \in Tasks : st[c] = "lost"
  BY DEF In
<1>2. heap # "none" /\ c \notin Idle /\ \A a \in Actors : c \notin pending[a]
  BY <1>1 DEF IInv, PendingOK, Idle, In
<1>3. ASSUME NEW S \in SUBSET Tasks, Invoke(S) PROVE st'[c] = "lost"
  BY <1>2, <1>3 DEF Invoke
<1>4. ASSUME NEW a \in Actors, NEW t \in Tasks, Launch(a, t) PROVE st'[c] = "lost"
  BY <1>1, <1>2, <1>4 DEF Launch, IInv, TypeOK
<1>5. ASSUME Abandon PROVE st'[c] = "lost"
  BY <1>1, <1>5 DEF Abandon
<1>6. ASSUME NEW t \in Tasks, NEW S \in SUBSET Tasks, Fork(t, S) PROVE st'[c] = "lost"
  BY <1>1, <1>2, <1>6 DEF Fork, Enqueue
<1>7. ASSUME NEW t \in Tasks, Join(t) \/ Reclaim(t) \/ Callback(t) PROVE st'[c] = "lost"
  BY <1>1, <1>7 DEF Join, Reclaim, Callback, IInv, TypeOK
<1>8. st'[c] = "lost"
  BY <1>3, <1>4, <1>5, <1>6, <1>7 DEF Next
<1> QED
  BY <1>8 DEF In

\* No step but Callback makes a task "called".
LEMMA CalledByCallbackOnly ==
  ASSUME IInv, Next, \A t \in Tasks : ~Callback(t)
  PROVE  In({"called"})' = {}
<1>1. In({"called"}) = {}
  BY NothingAfterCall
<1>2. ASSUME NEW S \in SUBSET Tasks, Invoke(S) PROVE In({"called"})' = {}
  BY <1>1, <1>2 DEF Invoke, Enqueue, In
<1>3. ASSUME NEW a \in Actors, NEW t \in Tasks, Launch(a, t) PROVE In({"called"})' = {}
  BY <1>1, <1>3 DEF Launch, In, IInv, TypeOK
<1>4. CASE Abandon
  BY <1>1, <1>4 DEF Abandon, In
<1>5. ASSUME NEW t \in Tasks, NEW S \in SUBSET Tasks, Fork(t, S) PROVE In({"called"})' = {}
  BY <1>1, <1>5 DEF Fork, Enqueue, In
<1>6. ASSUME NEW t \in Tasks, Join(t) \/ Reclaim(t) PROVE In({"called"})' = {}
  BY <1>1, <1>6 DEF Join, Reclaim, In, IInv, TypeOK
<1> QED
  BY <1>2, <1>3, <1>4, <1>5, <1>6 DEF Next

\* Every step of BasicCounter's Next keeps its invariant, in this composition too.
LEMMA CounterKeeps ==
  ASSUME IInv, Next
  PROVE  IInv'
BY InvokeIInv, LaunchIInv, AbandonIInv, ForkIInv, JoinIInv, ReclaimIInv, CallbackIInv DEF Next

LEMMA CounterStutters ==
  ASSUME IInv, UNCHANGED <<heap, count, published, st, pending>>,
         view' \in [Actors -> SUBSET Tasks], \A t \in Tasks : view'[t] = view[t]
  PROVE  IInv'
BY DEF IInv, TypeOK, PendingOK, CountOK, LastOK, ViewOK, CallbackAfterAllJoins, Outstanding, In

LEMMA InitSyncIInv == SyncInit => SyncIInv
<1> SUFFICES ASSUME SyncInit PROVE SyncIInv
  OBVIOUS
<1>1. IInv
  BY InitIInv DEF SyncInit
<1>2. SyncTypeOK
  <2>1. kind \in Kinds /\ prior \in Priors /\ given \in BOOLEAN /\ sleep = "no"
    BY DEF SyncInit, SemaphoreInit
  <2>2. wakes \subseteq {"own", "earlier"} /\ signals \in 0..MaxSignals
    BY SystemSemaphoresAssumption DEF SyncInit, SemaphoreInit
  <2> QED
    BY <1>1, <2>1, <2>2 DEF SyncInit, SyncTypeOK, IInv, MainAt
<1>3. TokenOK /\ ReleasedOK /\ LeftOK
  BY DEF SyncInit, SemaphoreInit, Init, TokenOK, ReleasedOK, LeftOK, In
<1> QED
  BY <1>1, <1>2, <1>3 DEF SyncIInv

\* A step of the counter other than the callback, which the semaphore has no part
\* in, and with which Main at most starts or gives up.
LEMMA CountingIInv ==
  ASSUME SyncIInv, Next, \A t \in Tasks : ~Callback(t), UNCHANGED <<semaphore, released>>,
         main' \in MainAt, outcome' \in {outcome, "portal_threw"},
         main' = "left" => (main = "left" /\ outcome' = outcome) \/ outcome' = "portal_threw",
         outcome' # outcome => In({"lost"})' # {}
  PROVE  SyncIInv'
<1> USE DEF SyncIInv
<1>1. IInv' /\ In({"called"}) = {} /\ In({"called"})' = {}
  BY CounterKeeps, NothingAfterCall, CalledByCallbackOnly
<1>2. SyncTypeOK'
  BY <1>1 DEF SyncTypeOK, IInv, semaphore
<1>3. TokenOK' /\ ReleasedOK'
  BY <1>1 DEF TokenOK, ReleasedOK, semaphore
<1>4. Dependable' <=> Dependable
  BY DEF Dependable, semaphore
<1>5. LeftOK'
  BY <1>1, <1>4, LostStays DEF LeftOK
<1> QED
  BY <1>1, <1>2, <1>3, <1>5

LEMMA SyncBeginIInv ==
  ASSUME SyncIInv, NEW S \in SUBSET Tasks, SyncBegin(S)
  PROVE  SyncIInv'
<1>1. Next /\ \A t \in Tasks : ~Callback(t)
  <2>1. heap = "none" /\ \A t \in Tasks : st[t] = "idle"
    BY DEF SyncBegin, Invoke, SyncIInv, IInv, PendingOK
  <2> QED
    BY <2>1 DEF SyncBegin, Next, Callback
<1> QED
  BY <1>1, CountingIInv DEF SyncBegin, MainAt

LEMMA PortalThrowsIInv ==
  ASSUME SyncIInv, PortalThrows
  PROVE  SyncIInv'
<1>1. PICK c \in Tasks : c \in pending[Main] /\ st[c] = "queued"
  BY DEF PortalThrows, Abandon, SyncIInv, IInv, TypeOK, PendingOK, Actors
<1>2. c \in In({"lost"})'
  BY <1>1 DEF PortalThrows, Abandon, In
<1>3. \A t \in Tasks : st[t] # "owner"
  BY <1>1 DEF SyncIInv, IInv, CallbackAfterAllJoins, In
<1>4. Next /\ \A t \in Tasks : ~Callback(t)
  BY <1>3 DEF PortalThrows, Next, Callback
<1> QED
  BY <1>2, <1>4, CountingIInv DEF PortalThrows, MainAt

LEMMA TasksIInv ==
  ASSUME SyncIInv, Counting, UNCHANGED <<semaphore, frame>>
  PROVE  SyncIInv'
<1>1. Next
  BY DEF Counting, Next
<1>2. \A t \in Tasks : ~Callback(t)
  <2> SUFFICES ASSUME NEW t \in Tasks, st[t] = "owner", st'[t] = "called" PROVE FALSE
    BY DEF Callback, SyncIInv, IInv, TypeOK
  <2>1. /\ \A u \in Tasks \ {t} : st[u] \in {"idle", "joined"}
        /\ \A a \in Actors : pending[a] = {}
    BY DEF SyncIInv, IInv, TypeOK, PendingOK, CallbackAfterAllJoins, In
  <2> QED
    BY <2>1 DEF Counting, Launch, Fork, Join, Reclaim
<1>3. main' = main /\ outcome' = outcome /\ released' = released /\ main \in MainAt
  BY DEF frame, SyncIInv, SyncTypeOK
<1> QED
  BY <1>1, <1>2, <1>3, CountingIInv

\* Main goes on without a step of the counter or of the semaphore.
LEMMA MainIInv ==
  ASSUME SyncIInv, Block \/ Terminate \/ \E how \in {"returned", "runnable_threw"} : RunnableEnds(how)
  PROVE  SyncIInv'
<1> USE DEF SyncIInv
<1>1. UNCHANGED <<vars, semaphore, released>> /\ main' \in MainAt \ {"left"}
  BY DEF Block, Terminate, RunnableEnds, MainAt
<1>2. outcome' \in {outcome, "returned", "runnable_threw"}
  BY DEF Block, Terminate, RunnableEnds
<1>3. IInv'
  BY <1>1, CounterStutters DEF vars, IInv, TypeOK
<1>4. SyncTypeOK'
  BY <1>1, <1>2, <1>3 DEF SyncTypeOK, IInv, semaphore
<1>5. TokenOK' /\ ReleasedOK' /\ LeftOK'
  BY <1>1, <1>2 DEF TokenOK, ReleasedOK, LeftOK, vars, semaphore, In, Idle
<1> QED
  BY <1>3, <1>4, <1>5

\* wait() returns: a signal has come, or an earlier token was there, or the
\* callback has run.
LEMMA WaitNeedsCallback ==
  ASSUME SyncIInv, WaitReturns, Dependable'
  PROVE  In({"called"}) # {}
<1> USE DEF SyncIInv
<1>1. UNCHANGED <<kind, prior>>
  BY DEF WaitReturns, SpinWait, EventWait, PosixWait, FutexWait, PromiseWait, Took, semaphore
<1>2. CASE SpinWait \/ EventWait \/ PromiseWait
  BY <1>2 DEF SpinWait, EventWait, PromiseWait, TokenOK
<1>3. CASE PosixWait
  <2>1. ~Signal
    BY <1>1, <1>3, SystemSemaphoresAssumption DEF Signal, PosixWait, Dependable, SyncTypeOK
  <2> QED
    BY <1>3, <2>1 DEF PosixWait, TokenOK
<1>4. CASE FutexWait
  <2>1. ~Signal /\ prior = "none"
    BY <1>1, <1>4, SystemSemaphoresAssumption DEF Signal, FutexWait, Dependable, SyncTypeOK
  <2> QED
    BY <1>4, <2>1 DEF FutexWait, TokenOK
<1> QED
  BY <1>2, <1>3, <1>4 DEF WaitReturns

\* What the return of a wait() does to its semaphore: it adds no token.
LEMMA WaitEffect ==
  ASSUME SyncTypeOK, WaitReturns
  PROVE  /\ UNCHANGED <<kind, prior, wakes>>
         /\ given' \in BOOLEAN /\ (given' => given)
         /\ sleep' \in {"no", sleep} /\ signals' \in 0..MaxSignals
<1>1. CASE SpinWait \/ EventWait \/ PromiseWait
  BY <1>1 DEF SpinWait, EventWait, PromiseWait, Took, SyncTypeOK, semaphore
<1>2. Signal => signals' \in 0..MaxSignals
  BY SystemSemaphoresAssumption DEF Signal, SyncTypeOK
<1>3. CASE PosixWait
  <2>1. CASE given /\ Took
    BY <2>1 DEF Took, SyncTypeOK
  <2>2. CASE Signal /\ UNCHANGED <<kind, prior, given, sleep, wakes>>
    BY <1>2, <2>2 DEF SyncTypeOK
  <2> QED
    BY <1>3, <2>1, <2>2 DEF PosixWait
<1>4. CASE FutexWait
  BY <1>2, <1>4 DEF FutexWait, SyncTypeOK
<1> QED
  BY <1>1, <1>3, <1>4 DEF WaitReturns

LEMMA WaitEndsIInv ==
  ASSUME SyncIInv, WaitEnds
  PROVE  SyncIInv'
<1> USE DEF SyncIInv
<1>0. /\ UNCHANGED <<kind, prior, wakes>>
      /\ given' \in BOOLEAN /\ (given' => given)
      /\ sleep' \in {"no", sleep} /\ signals' \in 0..MaxSignals
  BY WaitEffect DEF WaitEnds
<1>1. /\ UNCHANGED <<heap, count, published, st, pending, outcome, released>>
      /\ main' = "left" /\ view' = [view EXCEPT ![Main] = view[Main] \cup released]
      /\ Main \in Actors /\ released \subseteq Tasks
  BY DEF WaitEnds, AcquiredView, SyncTypeOK, Actors
<1>2. /\ view' \in [Actors -> SUBSET Tasks] /\ view'[Main] = view[Main] \cup released
      /\ \A t \in Tasks : view'[t] = view[t]
  BY <1>1, BasicAssumption DEF IInv, TypeOK, Actors
<1>3. IInv'
  BY <1>1, <1>2, CounterStutters
<1>4. SyncTypeOK'
  BY <1>0, <1>1, <1>3 DEF SyncTypeOK, IInv, MainAt
<1>5. TokenOK'
  BY <1>0, <1>1 DEF TokenOK, In
<1>6. ReleasedOK'
  BY <1>1 DEF ReleasedOK, In, Idle
<1>7. LeftOK'
  <2>1. outcome' = "portal_threw" => In({"lost"})' # {}
    BY <1>1 DEF LeftOK, In
  <2>2. ASSUME Dependable' PROVE In({"called"})' # {} /\ AllTasksSeen'
    <3>1. In({"called"}) # {}
      BY <2>2, WaitNeedsCallback DEF WaitEnds
    <3> QED
      BY <1>1, <1>2, <3>1 DEF ReleasedOK, AllTasksSeen, In, Idle
  <2> QED
    BY <2>1, <2>2 DEF LeftOK
<1> QED
  BY <1>3, <1>4, <1>5, <1>6, <1>7

\* The callback: its task has seen all others, and releases what it has seen.
LEMMA SyncCallbackIInv ==
  ASSUME SyncIInv, NEW c \in Tasks, SyncCallback(c)
  PROVE  SyncIInv'
<1> USE DEF SyncIInv
<1>1. /\ st[c] = "owner" /\ st' = [st EXCEPT ![c] = "called"]
      /\ UNCHANGED <<heap, count, published, pending, view, main, outcome>>
      /\ released' = view[c] /\ given' = TRUE
      /\ UNCHANGED <<kind, prior, sleep, signals>> /\ wakes' \subseteq wakes \cup {"own"}
  BY DEF SyncCallback, Callback, Releases, SpinRelease, EventRelease, PosixRelease, FutexStore,
         PromiseRelease, Gave
<1>2. In({"called"}) = {} /\ IInv'
  BY NothingAfterCall, CallbackIInv DEF SyncCallback, Next
<1>3. /\ In({"called"})' = {c}
      /\ \A t \in Tasks \ {c} : st[t] \in {"idle", "joined"}
      /\ In({"joined", "last", "owner", "called"}) \subseteq view[c]
      /\ view[c] \subseteq Tasks
  BY <1>1, <1>2 DEF IInv, TypeOK, CallbackAfterAllJoins, ViewOK, In, Actors
<1>4. SyncTypeOK'
  BY <1>1, <1>2, <1>3 DEF SyncTypeOK, IInv
<1>5. TokenOK' /\ ReleasedOK'
  BY <1>1, <1>3 DEF TokenOK, ReleasedOK, In, Idle, IInv, TypeOK
<1>6. LeftOK'
  <2>1. outcome # "portal_threw"
    BY <1>1, <1>3 DEF LeftOK, In
  <2>2. ~(main = "left" /\ Dependable)
    BY <1>2, <2>1 DEF LeftOK
  <2> QED
    BY <1>1, <2>1, <2>2 DEF LeftOK, Dependable
<1> QED
  BY <1>2, <1>4, <1>5, <1>6

\* FUTEX_WAIT goes to sleep, and a FUTEX_WAKE comes.
LEMMA FutexIInv ==
  ASSUME SyncIInv, FutexSleep \/ \E w \in {"own", "earlier"} : FutexWake(w), UNCHANGED <<vars, frame>>
  PROVE  SyncIInv'
<1> USE DEF SyncIInv
<1>1. /\ UNCHANGED <<kind, prior, given, signals>>
      /\ wakes' \subseteq wakes /\ sleep' \in {"no", "asleep", "woken"}
      /\ sleep' = "woken" => sleep = "woken" \/ wakes # {}
  BY DEF FutexSleep, FutexWake, SyncTypeOK
<1>2. IInv'
  BY CounterStutters DEF vars, IInv, TypeOK
<1>3. SyncTypeOK'
  BY <1>1, <1>2 DEF SyncTypeOK, IInv, frame
<1>4. TokenOK' /\ ReleasedOK'
  BY <1>1 DEF TokenOK, ReleasedOK, vars, frame, In, Idle
<1>5. LeftOK'
  BY <1>1 DEF LeftOK, AllTasksSeen, Dependable, vars, frame, In, Idle
<1> QED
  BY <1>2, <1>3, <1>4, <1>5

\* The strengthened invariant is inductive.
THEOREM SyncInvariant == SyncSpec => []SyncIInv
<1>1. SyncIInv /\ [SyncNext]_allVars => SyncIInv'
  <2> SUFFICES ASSUME SyncIInv, [SyncNext]_allVars PROVE SyncIInv'
    OBVIOUS
  <2>1. CASE UNCHANGED allVars
    <3>1. IInv'
      BY <2>1, CounterStutters DEF allVars, vars, SyncIInv, IInv, TypeOK
    <3> QED
      BY <2>1, <3>1 DEF allVars, vars, semaphore, frame, SyncIInv, SyncTypeOK, TokenOK, ReleasedOK,
         LeftOK, AllTasksSeen, Dependable, IInv, In, Idle
  <2>2. CASE SyncNext
    BY <2>2, SyncBeginIInv, PortalThrowsIInv, TasksIInv, MainIInv, WaitEndsIInv, SyncCallbackIInv,
       FutexIInv DEF SyncNext
  <2> QED
    BY <2>1, <2>2
<1> QED
  BY InitSyncIInv, <1>1, PTL DEF SyncSpec

\* Type correctness of the invocation and its semaphore.
THEOREM SyncTypes == SyncSpec => []SyncTypeOK
<1>1. SyncIInv => SyncTypeOK
  BY DEF SyncIInv
<1> QED
  BY <1>1, SyncInvariant, PTL

\* After a return or an exception of the runnable all tasks have joined and Main
\* has seen them, whatever the class of the semaphore, in the cases of Dependable.
THEOREM SyncMainGoesOnAfterAllTasks == SyncSpec => []MainGoesOnAfterAllTasks
<1>1. SyncIInv => MainGoesOnAfterAllTasks
  BY DEF SyncIInv, LeftOK, MainGoesOnAfterAllTasks
<1> QED
  BY <1>1, SyncInvariant, PTL

\* Nobody is or gets in a position to call the callback when Main has left the
\* frame it refers to.
THEOREM SyncFrameOutlivesCallback == SyncSpec => []FrameOutlivesCallback
<1>1. SyncIInv => FrameOutlivesCallback
  <2> SUFFICES ASSUME SyncIInv, main = "left" PROVE FrameOutlivesCallback
    BY DEF FrameOutlivesCallback
  <2> USE DEF SyncIInv
  <2>1. CASE outcome = "portal_threw"
    <3> DEFINE Q == In({"queued", "running"})
    <3>1. PICK c \in Tasks : st[c] = "lost"
      BY <2>1 DEF LeftOK, In
    <3>2. c \in Outstanding /\ c \notin Q /\ Q \subseteq Outstanding
      BY <3>1 DEF Outstanding, In
    <3>3. /\ count + 1 = Cardinality(Outstanding) /\ In({"last", "owner", "called"}) = {}
          /\ TypeOK
      BY <3>2 DEF IInv, CountOK
    <3>4. IsFiniteSet(Outstanding) /\ Cardinality(Outstanding) \in Nat
      BY <3>3, OutstandingFinite
    <3>5. Cardinality(Outstanding \ {c}) = Cardinality(Outstanding) - 1 /\ IsFiniteSet(Outstanding \ {c})
      BY <3>2, <3>4, FS_RemoveElement
    <3>6. Q \in SUBSET (Outstanding \ {c})
      BY <3>2
    <3>7. Cardinality(Q) <= Cardinality(Outstanding \ {c}) /\ IsFiniteSet(Q)
      BY <3>5, <3>6, FS_Subset
    <3>8. Cardinality(Q) \in Nat
      BY <3>7, FS_CardinalityType
    <3>9. count + 1 > Cardinality(Q)
      BY <3>3, <3>4, <3>5, <3>7, <3>8
    <3>10. In({"last", "owner"}) = {}
      BY <3>3 DEF In
    <3> QED
      BY <3>9, <3>10 DEF FrameOutlivesCallback
  <2>2. CASE outcome # "portal_threw"
    BY <2>2 DEF LeftOK, AllTasksSeen, FrameOutlivesCallback, In, Idle
  <2> QED
    BY <2>1, <2>2
<1> QED
  BY <1>1, SyncInvariant, PTL

\* What BasicCounter promises of the callback and of the counter's memory holds in
\* this composition as well.
THEOREM SyncCounterSafety == SyncSpec => [](CallbackAfterAllJoins /\ NoUseAfterFree /\ CallbackSeesAllTasks)
<1>1. SyncIInv => CallbackAfterAllJoins /\ NoUseAfterFree /\ CallbackSeesAllTasks
  BY DEF SyncIInv, IInv, CallbackAfterAllJoins, NoUseAfterFree, CallbackSeesAllTasks, CountOK,
     LastOK, ViewOK, Outstanding, In, Idle
<1> QED
  BY <1>1, SyncInvariant, PTL

\* So does the refinement: whatever Main and its semaphore do, the invocation is
\* one of ForkJoin.
THEOREM SyncRefinesForkJoin == SyncSpec => FJ!SafeSpec
<1>1. SyncIInv /\ [SyncNext]_allVars => [FJ!Next]_FJ!vars
  <2> SUFFICES ASSUME SyncIInv, [SyncNext]_allVars PROVE [FJ!Next]_FJ!vars
    OBVIOUS
  <2> USE DEF SyncIInv
  <2>1. CASE UNCHANGED st
    BY <2>1 DEF FJ!vars, Outstanding, In
  <2>2. CASE Next
    BY <2>2, InvokeFJ, ForkFJ, JoinFJ, CallbackFJ, SilentFJ DEF Next
  <2>3. Next \/ UNCHANGED st
    BY DEF SyncNext, SyncBegin, PortalThrows, Block, RunnableEnds, WaitEnds, SyncCallback, Terminate,
       Counting, Next, allVars, vars
  <2> QED
    BY <2>1, <2>2, <2>3
<1>2. SyncInit => FJ!Init
  BY InitFJ DEF SyncInit
<1> QED
  BY <1>1, <1>2, SyncInvariant, PTL DEF SyncSpec, FJ!SafeSpec

(***************************************************************************)
(* Main is not left waiting.                                               *)
(***************************************************************************)
\* No task that goes on is lost, or gives Main something to launch.
LEMMA CountingLosesNothing ==
  ASSUME IInv, Counting \/ \E t \in Tasks : Callback(t)
  PROVE  /\ In({"lost"}) = {} => In({"lost"})' = {}
         /\ pending[Main] = {} => pending'[Main] = {}
<1>0. TypeOK /\ Main \in Actors /\ Tasks \subseteq Actors /\ Main \notin Tasks
  BY BasicAssumption DEF IInv, Actors
<1>1. ASSUME NEW a \in Actors, NEW t \in Tasks, Launch(a, t)
      PROVE  /\ In({"lost"}) = {} => In({"lost"})' = {}
             /\ pending[Main] = {} => pending'[Main] = {}
  BY <1>0, <1>1 DEF Launch, In, TypeOK
<1>2. ASSUME NEW t \in Tasks, NEW S \in SUBSET Tasks, Fork(t, S)
      PROVE  /\ In({"lost"}) = {} => In({"lost"})' = {}
             /\ pending[Main] = {} => pending'[Main] = {}
  BY <1>0, <1>2 DEF Fork, Enqueue, In, TypeOK
<1>3. ASSUME NEW t \in Tasks, Join(t) \/ Reclaim(t) \/ Callback(t)
      PROVE  /\ In({"lost"}) = {} => In({"lost"})' = {}
             /\ pending[Main] = {} => pending'[Main] = {}
  BY <1>0, <1>3 DEF Join, Reclaim, Callback, In, TypeOK
<1> QED
  BY <1>1, <1>2, <1>3 DEF Counting

LEMMA StepLaunched == SyncIInv /\ LaunchedOK /\ [SyncNext]_allVars => LaunchedOK'
<1> SUFFICES ASSUME SyncIInv, LaunchedOK, [SyncNext]_allVars PROVE LaunchedOK'
  OBVIOUS
<1> USE DEF LaunchedOK
<1>1. ASSUME NEW S \in SUBSET Tasks, SyncBegin(S) PROVE LaunchedOK'
  BY <1>1 DEF SyncBegin, Invoke, Enqueue, In
<1>2. CASE PortalThrows
  BY <1>2 DEF PortalThrows
<1>3. CASE Block \/ Terminate \/ \E how \in {"returned", "runnable_threw"} : RunnableEnds(how)
  BY <1>3 DEF Block, Terminate, RunnableEnds, vars, In
<1>4. CASE WaitEnds
  BY <1>4 DEF WaitEnds
<1>5. CASE (Counting \/ \E t \in Tasks : SyncCallback(t)) /\ UNCHANGED main
  BY <1>5, CountingLosesNothing DEF SyncCallback, SyncIInv
<1>6. CASE UNCHANGED <<vars, frame>>
  BY <1>6 DEF vars, frame, In
<1> QED
  BY <1>1, <1>2, <1>3, <1>4, <1>5, <1>6 DEF SyncNext, SyncCallback, frame, allVars

LEMMA StepWake == SyncIInv /\ WakeOK /\ [SyncNext]_allVars => WakeOK'
<1> SUFFICES ASSUME SyncIInv, WakeOK, [SyncNext]_allVars PROVE WakeOK'
  OBVIOUS
<1> USE DEF WakeOK
<1>1. CASE WaitEnds \/ PortalThrows \/ Terminate
  BY <1>1 DEF WaitEnds, PortalThrows, Terminate
<1>2. CASE Block \/ \E how \in {"returned", "runnable_threw"} : RunnableEnds(how)
  BY <1>2 DEF Block, RunnableEnds, vars, semaphore, In
<1>3. ASSUME NEW S \in SUBSET Tasks, SyncBegin(S) PROVE WakeOK'
  <2>1. heap = "none" /\ \A t \in Tasks : st[t] = "idle"
    BY <1>3 DEF SyncBegin, Invoke, SyncIInv, IInv, PendingOK
  <2>2. In({"called"})' = {}
    BY <1>3, <2>1 DEF SyncBegin, Invoke, Enqueue, In
  <2> QED
    BY <2>2
<1>4. CASE Counting
  <2>1. In({"called"}) = {}
    BY <1>4, NothingAfterCall DEF SyncIInv, Counting, Next
  <2>2. In({"called"})' = {}
    BY <1>4, <2>1 DEF Counting, Launch, Fork, Enqueue, Join, Reclaim, In, SyncIInv, IInv, TypeOK
  <2> QED
    BY <2>2
<1>5. ASSUME NEW t \in Tasks, SyncCallback(t) PROVE WakeOK'
  BY <1>5 DEF SyncCallback, Releases, SpinRelease, EventRelease, PosixRelease, FutexStore,
     PromiseRelease, Gave
<1>6. CASE FutexSleep /\ UNCHANGED <<vars, frame>>
  BY <1>6 DEF FutexSleep, vars, frame, In
<1>7. ASSUME NEW w \in {"own", "earlier"}, FutexWake(w), UNCHANGED <<vars, frame>> PROVE WakeOK'
  <2>1. UNCHANGED <<kind, given, main>> /\ sleep' # "asleep" /\ In({"called"})' = In({"called"})
    BY <1>7 DEF FutexWake, vars, frame, In
  <2> QED
    BY <2>1
<1>8. CASE UNCHANGED allVars
  BY <1>8 DEF allVars, vars, semaphore, frame, In
<1> QED
  BY <1>1, <1>2, <1>3, <1>4, <1>5, <1>6, <1>7, <1>8 DEF SyncNext

LEMMA StepSyncGoesOn == SyncIInv /\ GoesOnInv /\ [SyncNext]_allVars => GoesOnInv'
<1> SUFFICES ASSUME SyncIInv, GoesOnInv, [SyncNext]_allVars PROVE GoesOnInv'
  OBVIOUS
<1>1. Next \/ UNCHANGED <<st, pending>>
  BY DEF SyncNext, SyncBegin, PortalThrows, Block, RunnableEnds, WaitEnds, SyncCallback, Terminate,
     Counting, Next, allVars, vars
<1>2. CASE Next
  BY <1>2, StepGoesOn DEF SyncIInv
<1>3. CASE UNCHANGED <<st, pending>>
  BY <1>3 DEF GoesOnInv, SomebodyGoesOn, In, Idle
<1> QED
  BY <1>1, <1>2, <1>3

\* When Main is in ~SyncInvokeHelper() the invocation goes on, or wait() returns
\* as soon as it is scheduled, or a FUTEX_WAKE is still to be sent to it: with no
\* class of semaphore can the release be missed.
THEOREM SyncMainNotStuck == SyncSpec => []MainNotStuck
<1>1. SyncIInv /\ LaunchedOK /\ WakeOK /\ GoesOnInv => MainNotStuck
  <2> SUFFICES ASSUME SyncIInv, LaunchedOK, WakeOK, GoesOnInv, main = "waiting", Tasks \ Idle # {},
                      In({"running", "last", "owner"}) = {}, \A t \in Tasks : pending[t] = {}
               PROVE  WaitDue \/ "own" \in wakes
    BY DEF MainNotStuck
  <2>1. In({"lost"}) = {} /\ \A a \in Actors : pending[a] = {}
    BY DEF LaunchedOK, Actors
  <2>2. In({"called"}) # {}
    BY <2>1 DEF GoesOnInv, SomebodyGoesOn, In
  <2>3. given /\ (kind = "futex" /\ sleep = "asleep" => "own" \in wakes)
    BY <2>2 DEF WakeOK
  <2>4. sleep \in {"no", "asleep", "woken"}
    BY DEF SyncIInv, SyncTypeOK
  <2> QED
    BY <2>3, <2>4 DEF WaitDue
<1>2. SyncInit => LaunchedOK /\ WakeOK /\ GoesOnInv
  BY DEF SyncInit, Init, LaunchedOK, WakeOK, GoesOnInv, SomebodyGoesOn, In, Idle
<1> QED
  BY <1>1, <1>2, StepLaunched, StepWake, StepSyncGoesOn, SyncInvariant, PTL DEF SyncSpec
=============================================================================
