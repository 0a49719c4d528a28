---------------------------- MODULE PhasesProofs ----------------------------
(***************************************************************************)
(* For any number of callables, phases and invocations: multi-phase        *)
(* callables run their phases in order and once, and the ThreadManager is  *)
(* not through before every managed thread has ended that no detached      *)
(* thread has had a part in.                                               *)
(***************************************************************************)
EXTENDS Phases, FiniteSetTheorems, SequenceTheorems, WellFoundedInduction, TLAPS

-----------------------------------------------------------------------------
(***************************************************************************)
(* Sequences of phases, and threads.                                       *)
(***************************************************************************)
LEMMA AfterSeq ==
  ASSUME TypeOK, NEW c \in Callables, NEW n \in 0..Len(plan[c])
  PROVE  /\ Len(plan[c]) \in Nat /\ n \in Nat
         /\ After(c, n) \in Seq(Nat)
         /\ After(c, n) = <<>> <=> n = Len(plan[c])
         /\ n # Len(plan[c]) => Head(After(c, n)) = n + 1 /\ Tail(After(c, n)) = After(c, n + 1)
<1>1. Len(plan[c]) \in Nat /\ n \in Nat /\ Len(plan[c]) - n \in Nat
  BY DEF TypeOK
<1> DEFINE s == After(c, n)
<1>2. s \in Seq(Nat) /\ Len(s) = Len(plan[c]) - n /\ \A k \in 1..(Len(plan[c]) - n) : s[k] = n + k
  BY <1>1 DEF After
<1>3. s = <<>> <=> n = Len(plan[c])
  BY <1>1, <1>2, EmptySeq
<1>4. ASSUME n # Len(plan[c])
      PROVE  Head(s) = n + 1 /\ Tail(s) = After(c, n + 1)
  <2> DEFINE t == After(c, n + 1)
  <2>1. Len(plan[c]) - (n + 1) \in Nat /\ 1 \in 1..Len(s) /\ s # <<>>
    BY <1>1, <1>2, <1>3, <1>4
  <2>2. t \in Seq(Nat) /\ Len(t) = Len(plan[c]) - (n + 1)
        /\ \A k \in 1..(Len(plan[c]) - (n + 1)) : t[k] = n + 1 + k
    BY <1>1, <2>1 DEF After
  <2>3. Head(s) = s[1]
    BY <1>2, <2>1
  <2>4. /\ Tail(s) \in Seq(Nat) /\ Len(Tail(s)) = Len(s) - 1
        /\ \A k \in 1..Len(Tail(s)) : Tail(s)[k] = s[k + 1]
    BY <1>2, <2>1, HeadTailProperties
  <2> HIDE DEF s, t
  <2>5. Len(Tail(s)) = Len(t)
    BY <1>1, <1>2, <2>2, <2>4
  <2>6. \A k \in 1..Len(Tail(s)) : Tail(s)[k] = t[k]
    <3> SUFFICES ASSUME NEW k \in 1..Len(Tail(s)) PROVE Tail(s)[k] = t[k]
      OBVIOUS
    <3>1. k \in 1..(Len(plan[c]) - (n + 1)) /\ k + 1 \in 1..(Len(plan[c]) - n) /\ k \in Int
      BY <1>1, <1>2, <2>4
    <3>2. Tail(s)[k] = s[k + 1] /\ s[k + 1] = n + (k + 1) /\ t[k] = n + 1 + k
      BY <1>2, <2>2, <2>4, <3>1
    <3> QED
      BY <1>1, <3>1, <3>2
  <2>7. Tail(s) = t
    BY <2>2, <2>4, <2>5, <2>6, SeqEqual
  <2> QED
    BY <1>1, <1>2, <2>1, <2>3, <2>7 DEF t
<1> QED
  BY <1>1, <1>2, <1>3, <1>4

LEMMA UpTo ==
  ASSUME NEW n \in Nat
  PROVE  /\ Append([k \in 1..n |-> k], n + 1) = [k \in 1..(n + 1) |-> k]
         /\ Len([k \in 1..n |-> k]) = n /\ [k \in 1..n |-> k] \in Seq(Nat)
<1> DEFINE s == [k \in 1..n |-> k]
           t == [k \in 1..(n + 1) |-> k]
<1>1. /\ s \in Seq(Nat) /\ Len(s) = n /\ \A k \in 1..n : s[k] = k
      /\ t \in Seq(Nat) /\ Len(t) = n + 1 /\ \A k \in 1..(n + 1) : t[k] = k
  OBVIOUS
<1> HIDE DEF s, t
<1>2. /\ Append(s, n + 1) \in Seq(Nat) /\ Len(Append(s, n + 1)) = n + 1
      /\ \A k \in 1..(n + 1) : Append(s, n + 1)[k] = t[k]
  BY <1>1, AppendProperties
<1>3. Append(s, n + 1) = t
  BY <1>1, <1>2, SeqEqual
<1> QED
  BY <1>1, <1>3 DEF s, t

LEMMA ThreadPairs ==
  /\ Main \notin Threads /\ None \notin Threads
  /\ \A th \in Threads : th[1] \in Callables /\ th[2] \in 1..MaxPhases[th[1]] /\ th[2] \in Nat /\ th = <<th[1], th[2]>>
  /\ \A c \in Callables : \A k \in 1..MaxPhases[c] : <<c, k>> \in Threads
<1>1. ASSUME NEW th \in Threads
      PROVE  th \in Callables \X Nat /\ th[2] \in 1..MaxPhases[th[1]]
  BY PhasesAssumption DEF Threads
<1> QED
  BY <1>1, PhasesAssumption DEF Threads

LEMMA UnjoinedFinite ==
  /\ IsFiniteSet(Callables) /\ Cardinality(Callables) \in Nat
  /\ IsFiniteSet(Unjoined) /\ Cardinality(Unjoined) \in 0..Cardinality(Callables)
<1>1. Unjoined \in SUBSET Callables
  BY DEF Unjoined
<1> QED
  BY <1>1, PhasesAssumption, FS_Subset, FS_CardinalityType

LEMMA InitIInv == Init => IInv
<1> SUFFICES ASSUME Init PROVE IInv
  OBVIOUS
<1>1. plan \in [Callables -> Seq(Portals)] /\ PlanOK
  <2>1. Plans \subseteq Seq(Portals)
    BY PhasesAssumption DEF Plans, BoundedSeq, SeqOf
  <2> QED
    BY <2>1 DEF Init, PlanOK
<1>2. TypeOK
  <2>1. data \in [Callables -> Seq(Nat)]
    <3>1. \A c \in Callables : DOMAIN plan[c] = 1..Len(plan[c]) /\ Len(plan[c]) \in Nat
      BY <1>1
    <3> QED
      BY <3>1 DEF Init
  <2>2. flow \in [Callables -> [at : FlowAt, phase : Nat, on : Threads \cup {Main}, rest : Seq(Nat)]]
    BY DEF Init, NewFlow, FlowAt
  <2>3. /\ invocation \in [number : 1..MaxRounds, sync : BOOLEAN, toCall : SUBSET Callables,
                           count : 0..Cardinality(Callables), calledBack : BOOLEAN]
    <3>1. 1 \in 1..MaxRounds /\ Cardinality(Callables) \in 0..Cardinality(Callables)
      BY PhasesAssumption, UnjoinedFinite
    <3> QED
      BY <3>1 DEF Init, NewInvocation
  <2>4. /\ ran \in [Callables -> Seq(Nat)]
        /\ owes \in [Threads \cup {Main} -> Threads \cup {None}]
        /\ ended \subseteq Threads /\ late \subseteq Threads
        /\ manager \in [made : BOOLEAN, locked : BOOLEAN, threads : Seq(Threads), joins : Seq(Threads)]
        /\ main \in MainAt
    BY DEF Init, MainAt
  <2> QED
    BY <1>1, <2>1, <2>2, <2>3, <2>4 DEF TypeOK
<1>3. \A c \in Callables : flow[c].at = "idle" /\ flow[c].on = Main /\ ran[c] = <<>>
  BY DEF Init, NewFlow
<1>4. QueueOK
  <2> SUFFICES ASSUME NEW c \in Callables
               PROVE  /\ Len(ran[c]) = 0 /\ 0 <= Len(plan[c])
                      /\ ran[c] = [k \in 1..0 |-> k]
                      /\ data[c] = After(c, 0) /\ invocation.number = 1
    BY <1>3 DEF QueueOK, QueueOf
  <2>1. Len(plan[c]) \in Nat /\ DOMAIN plan[c] = 1..Len(plan[c])
    BY <1>1
  <2>2. data[c] = After(c, 0)
    BY <2>1 DEF Init, After
  <2>3. ran[c] = [k \in 1..0 |-> k]
    BY <1>3
  <2> QED
    BY <1>3, <2>1, <2>2, <2>3 DEF Init, NewInvocation
<1>5. CallsOK
  <2>1. Unjoined = Callables
    BY <1>3 DEF Unjoined
  <2> QED
    BY <1>3, <2>1 DEF CallsOK, Init, NewInvocation
<1>6. Made = {} /\ Managed = {} /\ OnMain = {}
  <2>1. \A c \in Callables : Started(c) = {}
    BY <1>1, <1>3 DEF Started
  <2> QED
    BY <1>3, <2>1, ThreadPairs DEF Made, Managed, OnMain
<1>7. FlowOK /\ OwesOK
  <2>1. FlowOK
    BY <1>3, <1>6 DEF FlowOK, Init
  <2>2. OwesOK
    BY DEF OwesOK, Init
  <2> QED
    BY <2>1, <2>2
<1>8. ManagerOK /\ GoneOK /\ LateOnlyAfterDaemons
  BY <1>6 DEF ManagerOK, GoneOK, LateOnlyAfterDaemons, Init
<1> QED
  BY <1>1, <1>2, <1>4, <1>5, <1>7, <1>8 DEF IInv
-----------------------------------------------------------------------------
(***************************************************************************)
(* What the actions have in common.                                        *)
(***************************************************************************)
LEMMA PhasesPrimed ==
  ASSUME UNCHANGED plan
  PROVE  /\ \A c, n : After(c, n)' = After(c, n)
         /\ \A th : Daemonless(th)' <=> Daemonless(th)
BY DEF After, Daemonless

LEMMA MadeSame ==
  ASSUME UNCHANGED plan, \A c \in Callables : Started(c)' = Started(c)
  PROVE  Made' = Made /\ Managed' = Managed
<1>1. Made' = Made
  BY ThreadPairs DEF Made
<1> QED
  BY <1>1 DEF Managed

\* While a flow is between two phases, what has been started is what has run.
LEMMA StartedRan ==
  ASSUME TypeOK, QueueOK, NEW c \in Callables, flow[c].at # "running"
  PROVE  Started(c) = 1..Len(ran[c])
<1>1. Len(ran[c]) \in Nat /\ Len(plan[c]) \in Nat /\ Len(ran[c]) <= Len(plan[c])
  BY DEF TypeOK, QueueOK, QueueOf
<1> QED
  BY <1>1 DEF Started

\* The thread of a flow is a place where a std::thread can be owed.
LEMMA FlowThread ==
  ASSUME TypeOK, FlowOK, ManagerOK, OwesOK, NEW c \in Callables, flow[c].at \notin {"idle", "joined"}
  PROVE  /\ flow[c].on \in Threads \cup {Main} /\ flow[c].on \notin ended /\ owes[flow[c].on] = None
         /\ flow[c].on # Main => flow[c].on \in Made /\ flow[c].on[1] = c
         /\ \A d \in Callables : d # c /\ flow[d].at \notin {"idle", "joined"} => flow[d].on # flow[c].on
<1>1. flow[c].on \in Threads \cup {Main}
  BY DEF TypeOK
<1>2. ASSUME NEW d \in Callables, d # c, flow[d].at \notin {"idle", "joined"}
      PROVE  flow[d].on # flow[c].on
  <2>1. CASE flow[c].on = Main
    BY <1>2, <2>1 DEF FlowOK, OnMain
  <2>2. CASE flow[c].on # Main
    BY <1>2, <2>2 DEF FlowOK
  <2> QED
    BY <2>1, <2>2
<1> QED
  BY <1>1, <1>2 DEF FlowOK

\* After the manager, only daemons and what they have started go on.
LEMMA GoneFlow ==
  ASSUME IInv, main \in {"leaving", "destroyed", "exited", "terminated"},
         NEW th \in Made, th \notin ended
  PROVE  \E j \in 1..th[2] : plan[th[1]][j] = "daemon"
<1>1. th \in Threads /\ th[2] \in Started(th[1]) /\ plan[th[1]][th[2]] # "serial"
  BY DEF Made
<1>2. th[1] \in Callables /\ th[2] \in 1..Len(plan[th[1]]) /\ plan[th[1]] \in Seq(Portals)
  BY <1>1, ThreadPairs DEF Started, IInv, TypeOK
<1>3. plan[th[1]][th[2]] \in Portals /\ th[2] \in 1..th[2]
  BY <1>2
<1>4. CASE plan[th[1]][th[2]] = "daemon"
  BY <1>3, <1>4
<1>5. CASE plan[th[1]][th[2]] # "daemon"
  <2>1. th \in Managed
    BY <1>1, <1>3, <1>5 DEF Managed, Portals
  <2>2. ~Daemonless(th)
    BY <2>1 DEF IInv, GoneOK
  <2> QED
    BY <2>2 DEF Daemonless
<1> QED
  BY <1>4, <1>5

\* What Main does with the manager leaves the callables alone.
LEMMA CallablesAlone ==
  ASSUME IInv, UNCHANGED <<plan, data, flow, ran, owes, ended, late, invocation>>
  PROVE  /\ PlanOK' /\ QueueOK' /\ CallsOK' /\ OwesOK'
         /\ Made' = Made /\ Managed' = Managed
         /\ \A th : Daemonless(th)' <=> Daemonless(th)
<1>1. \A c \in Callables : Started(c)' = Started(c)
  BY DEF Started
<1>2. Made' = Made /\ Managed' = Managed
  BY <1>1, MadeSame
<1>3. QueueOK'
  BY PhasesPrimed DEF QueueOK, QueueOf, IInv
<1>4. CallsOK'
  BY DEF CallsOK, Unjoined, IInv
<1>5. OwesOK'
  BY <1>2 DEF OwesOK, IInv
<1> QED
  BY <1>2, <1>3, <1>4, <1>5, PhasesPrimed DEF PlanOK, IInv

\* Nor has it a part in their flows, once it has called them all.
LEMMA FlowsAlone ==
  ASSUME IInv, UNCHANGED <<plan, data, flow, ran, owes, ended, late, invocation>>,
         main # "calling"
  PROVE  FlowOK'
<1>1. Made' = Made /\ OnMain' = OnMain
  BY CallablesAlone DEF OnMain
<1> QED
  BY <1>1 DEF FlowOK, IInv

\* Main does nothing else in its calls when it goes on.
LEMMA MainFreeFacts ==
  ASSUME IInv, MainFree
  PROVE  OnMain = {} /\ owes[Main] = None
BY DEF MainFree, OnMain, IInv, FlowOK

LEMMA LockManagerIInv ==
  ASSUME IInv, LockManager PROVE IInv'
<1>1. UNCHANGED <<plan, data, flow, ran, owes, ended, late, invocation>> /\ main = "locking"
  BY DEF LockManager
<1>2. TypeOK'
  BY DEF LockManager, IInv, TypeOK, MainAt
<1>3. ManagerOK'
  BY <1>1, CallablesAlone DEF LockManager, ManagerOK, Known, IInv, TypeOK
<1>4. GoneOK' /\ LateOnlyAfterDaemons'
  BY DEF LockManager, GoneOK, LateOnlyAfterDaemons, IInv
<1> QED
  BY <1>1, <1>2, <1>3, <1>4, CallablesAlone, FlowsAlone DEF IInv

LEMMA DestroyMembersIInv ==
  ASSUME IInv, DestroyMembers PROVE IInv'
<1>1. UNCHANGED <<plan, data, flow, ran, owes, ended, late, invocation, manager>> /\ main = "leaving"
  BY DEF DestroyMembers
<1>2. main' \in {"destroyed", "terminated"} /\ (main' = "terminated" => manager.threads # <<>>)
  BY DEF DestroyMembers
<1>3. TypeOK'
  BY <1>1, <1>2 DEF IInv, TypeOK, MainAt
<1>4. ManagerOK'
  BY <1>1, <1>2, CallablesAlone DEF ManagerOK, Known, IInv, TypeOK
<1>5. GoneOK' /\ LateOnlyAfterDaemons'
  BY <1>1, <1>2, CallablesAlone DEF GoneOK, LateOnlyAfterDaemons, IInv
<1> QED
  BY <1>1, <1>3, <1>4, <1>5, CallablesAlone, FlowsAlone DEF IInv

LEMMA ExitIInv ==
  ASSUME IInv, Exit PROVE IInv'
<1>1. UNCHANGED <<plan, data, flow, ran, owes, ended, late, invocation, manager>> /\ main = "destroyed"
      /\ main' = "exited"
  BY DEF Exit
<1>2. TypeOK'
  BY <1>1 DEF IInv, TypeOK, MainAt
<1>3. ManagerOK'
  BY <1>1, CallablesAlone DEF ManagerOK, Known, IInv, TypeOK
<1>4. GoneOK' /\ LateOnlyAfterDaemons'
  BY <1>1, CallablesAlone DEF GoneOK, LateOnlyAfterDaemons, IInv
<1> QED
  BY <1>1, <1>2, <1>3, <1>4, CallablesAlone, FlowsAlone DEF IInv

\* A manager that was never made has no threads to wait for.
LEMMA AtExitFacts ==
  ASSUME IInv
  PROVE  /\ AtExit \in {"locking", "exited"}
         /\ AtExit = "exited" => Managed = {}
BY DEF AtExit, IInv, ManagerOK, TypeOK

LEMMA AllCalledIInv ==
  ASSUME IInv, AllCalled PROVE IInv'
<1>1. UNCHANGED <<plan, data, flow, ran, owes, ended, late, invocation, manager>> /\ main = "calling"
      /\ main' \in {"waiting", "locking", "exited"} /\ (main' = "exited" => Managed = {})
  BY AtExitFacts DEF AllCalled, MainFree
<1>2. \A c \in Callables : flow[c].on = Main => flow[c].at = "joined"
  BY DEF AllCalled, MainFree, IInv, CallsOK
<1>3. TypeOK'
  BY <1>1 DEF IInv, TypeOK, MainAt
<1>4. FlowOK'
  <2>1. Made' = Made /\ OnMain' = OnMain
    BY <1>1, CallablesAlone DEF OnMain
  <2> QED
    BY <1>1, <1>2, <2>1, MainFreeFacts DEF FlowOK, IInv, AllCalled
<1>5. ManagerOK'
  BY <1>1, CallablesAlone DEF ManagerOK, Known, IInv, TypeOK
<1>6. GoneOK' /\ LateOnlyAfterDaemons'
  BY <1>1, CallablesAlone DEF GoneOK, LateOnlyAfterDaemons, IInv
<1> QED
  BY <1>1, <1>3, <1>4, <1>5, <1>6, CallablesAlone DEF IInv

\* A thread leaves the local queue of the destructor when it has ended.
LEMMA JoinBackIInv ==
  ASSUME IInv, JoinBack PROVE IInv'
<1>1. UNCHANGED <<plan, data, flow, ran, owes, ended, late, invocation>> /\ main = "joining"
      /\ manager' = [manager EXCEPT !.joins = Front(@)]
      /\ main' = IF Len(manager.joins) = 1 THEN "locking" ELSE "joining"
  BY DEF JoinBack
<1>2. manager.joins \in Seq(Threads) /\ manager.joins # <<>>
  BY <1>1 DEF IInv, ManagerOK, TypeOK
<1> DEFINE s == manager.joins
           t == Front(manager.joins)
<1>3. /\ t \in Seq(Threads) /\ Len(s) \in Nat \ {0} /\ Len(t) = Len(s) - 1
      /\ \A i \in 1..(Len(s) - 1) : t[i] = s[i]
  <2>1. Len(s) \in Nat \ {0} /\ \A i \in 1..Len(s) : s[i] \in Threads
    BY <1>2, EmptySeq
  <2> QED
    BY <1>2, <2>1 DEF Front
<1>4. s[Len(s)] \in ended
  BY DEF JoinBack, Last
<1> HIDE DEF s, t
<1>5. manager' = [manager EXCEPT !.joins = t]
  BY <1>1 DEF t
<1>6. TypeOK'
  BY <1>1, <1>3, <1>5 DEF IInv, TypeOK, MainAt
<1>7. manager'.joins = t /\ manager'.threads = manager.threads /\ manager'.made = manager.made
  BY <1>5 DEF IInv, TypeOK
<1>8. ManagerOK'
  <2>1. \A x \in Managed \ ended : Known(x) => Known(x)'
    <3> SUFFICES ASSUME NEW x \in Managed \ ended, Known(x) PROVE Known(x)'
      OBVIOUS
    <3>1. CASE \E i \in DOMAIN manager.threads : manager.threads[i] = x
      BY <1>7, <3>1 DEF Known
    <3>2. ASSUME NEW i \in DOMAIN manager.joins, manager.joins[i] = x
          PROVE  Known(x)'
      <4>1. i \in 1..Len(s) /\ s[i] = x
        BY <1>2, <3>2 DEF s
      <4>2. i \in 1..(Len(s) - 1)
        BY <1>3, <1>4, <4>1
      <4>3. i \in DOMAIN t /\ t[i] = x
        BY <1>3, <4>1, <4>2
      <4> QED
        BY <1>7, <4>3 DEF Known
    <3> QED
      BY <3>1, <3>2 DEF Known
  <2>2. manager'.joins # <<>> <=> main' = "joining"
    <3>1. t = <<>> <=> Len(t) = 0
      BY <1>3, EmptySeq
    <3>2. main' = IF Len(s) = 1 THEN "locking" ELSE "joining"
      BY <1>1 DEF s
    <3> QED
      BY <1>3, <1>7, <3>1, <3>2
  <2> QED
    BY <1>1, <1>7, <2>1, <2>2, CallablesAlone DEF ManagerOK, IInv
<1>9. GoneOK' /\ LateOnlyAfterDaemons'
  BY <1>1 DEF GoneOK, LateOnlyAfterDaemons, IInv
<1> QED
  BY <1>1, <1>6, <1>8, <1>9, CallablesAlone, FlowsAlone DEF IInv

\* When threads_ is empty, every managed thread that no daemon has had a part in
\* has ended: the first of a callable that had not would still be owed by an
\* earlier one.
LEMMA NoneLeft ==
  ASSUME IInv, main = "testing", manager.threads = <<>>
  PROVE  \A th \in Managed : Daemonless(th) => th \in ended
<1> SUFFICES ASSUME NEW th \in Managed, Daemonless(th), th \notin ended
             PROVE  FALSE
  OBVIOUS
<1> DEFINE c == th[1]
           Left == {k \in Nat : <<c, k>> \in Managed \ ended /\ Daemonless(<<c, k>>)}
<1>1. th \in Threads /\ c \in Callables /\ th[2] \in Nat /\ th = <<c, th[2]>>
  BY ThreadPairs DEF Managed, Made
<1>2. th[2] \in Left
  BY <1>1
<1>3. PICK k \in Left : \A j \in Left : ~(<<j, k>> \in OpToRel(<, Nat))
  BY <1>2, WFMin, NatLessThanWellFounded
<1>4. \A j \in Left : ~(j < k)
  BY <1>3 DEF OpToRel
<1>5. k \in Nat /\ <<c, k>> \in Managed \ ended /\ Daemonless(<<c, k>>)
  OBVIOUS
<1>6. ~Known(<<c, k>>)
  <2>1. manager.joins = <<>>
    BY DEF IInv, ManagerOK
  <2> QED
    BY <2>1 DEF Known
<1>7. PICK o \in Threads \cup {Main} : owes[o] = <<c, k>>
  BY <1>5, <1>6 DEF IInv, ManagerOK
<1>8. o # Main
  BY <1>1, <1>5, <1>7, ThreadPairs DEF IInv, FlowOK, Managed, Made
<1>9. o \in Made /\ o \notin ended /\ o[1] = c /\ o[2] < k
  <2>1. <<c, k>> # None
    BY <1>5, ThreadPairs DEF Managed, Made
  <2> QED
    BY <1>7, <1>8, <2>1 DEF IInv, OwesOK
<1>10. o \in Threads /\ o[2] \in Nat /\ o = <<c, o[2]>> /\ 1 <= o[2]
  BY <1>8, <1>9, ThreadPairs
<1>11. plan[c][o[2]] # "daemon" /\ Daemonless(o)
  <2>1. \A i \in 1..k : plan[c][i] # "daemon"
    BY <1>5 DEF Daemonless
  <2> HIDE DEF c
  <2>2. \A i \in 1..o[2] : i \in 1..k
    BY <1>5, <1>9, <1>10
  <2> QED
    BY <1>9, <1>10, <2>1, <2>2 DEF Daemonless
<1>12. plan[c][o[2]] \in Portals
  BY <1>1, <1>9 DEF Made, Started, IInv, TypeOK
<1>13. o \in Managed
  BY <1>9, <1>11, <1>12 DEF Managed, Made, Portals
<1> HIDE DEF c
<1> QED
  BY <1>4, <1>9, <1>10, <1>11, <1>13

LEMMA TestThreadsIInv ==
  ASSUME IInv, TestThreads PROVE IInv'
<1>1. UNCHANGED <<plan, data, flow, ran, owes, ended, late, invocation>> /\ main = "testing"
      /\ manager' = [manager EXCEPT !.locked = FALSE, !.threads = <<>>, !.joins = manager.threads]
      /\ main' = IF manager.threads = <<>> THEN "leaving" ELSE "joining"
  BY DEF TestThreads
<1>2. TypeOK'
  <2>1. manager' \in [made : BOOLEAN, locked : BOOLEAN, threads : Seq(Threads), joins : Seq(Threads)]
    <3>1. manager' = [made |-> manager.made, locked |-> FALSE, threads |-> <<>>, joins |-> manager.threads]
      BY <1>1 DEF IInv, TypeOK
    <3>2. manager.made \in BOOLEAN /\ manager.threads \in Seq(Threads) /\ <<>> \in Seq(Threads)
      BY DEF IInv, TypeOK
    <3> QED
      BY <3>1, <3>2
  <2> QED
    BY <1>1, <2>1 DEF IInv, TypeOK, MainAt
<1>3. manager'.threads = <<>> /\ manager'.joins = manager.threads /\ manager'.made = manager.made
      /\ manager.joins = <<>>
  BY <1>1 DEF IInv, TypeOK, ManagerOK
<1>4. ManagerOK'
  <2>1. \A x : Known(x) => Known(x)'
    BY <1>3 DEF Known
  <2> QED
    BY <1>1, <1>3, <2>1, CallablesAlone DEF ManagerOK, IInv
<1>5. GoneOK' /\ LateOnlyAfterDaemons'
  BY <1>1, <1>3, NoneLeft, CallablesAlone DEF GoneOK, LateOnlyAfterDaemons, IInv
<1> QED
  BY <1>1, <1>2, <1>4, <1>5, CallablesAlone, FlowsAlone DEF IInv

LEMMA WaitEndsIInv ==
  ASSUME IInv, WaitEnds PROVE IInv'
<1>1. UNCHANGED <<plan, data, ran, owes, ended, manager, late>> /\ main = "waiting"
      /\ invocation.calledBack
  BY DEF WaitEnds
<1>2. ASSUME NEW c \in Callables
      PROVE  /\ flow[c].at \in {"callback", "joined"} /\ Len(ran[c]) = Len(plan[c]) /\ data[c] = <<>>
             /\ Started(c) = 1..Len(ran[c])
  <2>1. flow[c].at \in {"callback", "joined"}
    BY <1>1 DEF IInv, CallsOK, Unjoined
  <2> QED
    BY <2>1, StartedRan DEF IInv, QueueOK, QueueOf
<1>3. CASE main' = AtExit /\ UNCHANGED <<invocation, flow>>
  <2>1. UNCHANGED <<plan, data, flow, ran, owes, ended, late, invocation>>
    BY <1>1, <1>3
  <2>2. main' \in {"locking", "exited"} /\ (main' = "exited" => Managed = {})
    BY <1>3, AtExitFacts
  <2>3. TypeOK'
    BY <1>1, <2>1, <2>2 DEF IInv, TypeOK, MainAt
  <2>4. ManagerOK'
    BY <1>1, <2>1, <2>2, CallablesAlone DEF ManagerOK, Known, IInv, TypeOK
  <2>5. GoneOK' /\ LateOnlyAfterDaemons'
    BY <1>1, <2>1, <2>2, CallablesAlone DEF GoneOK, LateOnlyAfterDaemons, IInv
  <2> QED
    BY <1>1, <2>1, <2>3, <2>4, <2>5, CallablesAlone, FlowsAlone DEF IInv
<1>4. CASE /\ invocation.number < MaxRounds
           /\ main' = "calling"
           /\ invocation' \in NewInvocation(invocation.number + 1)
           /\ flow' = NewFlow
  <2>1. \A c \in Callables : flow'[c] = [at |-> "idle", phase |-> 0, on |-> Main, rest |-> <<>>]
    BY <1>4 DEF NewFlow
  <2>2. /\ invocation'.number = invocation.number + 1 /\ invocation'.sync \in BOOLEAN
        /\ invocation'.toCall = Callables /\ invocation'.count = Cardinality(Callables)
        /\ invocation'.calledBack = FALSE
    BY <1>4 DEF NewInvocation
  <2>3. TypeOK'
    <3>1. invocation.number + 1 \in 1..MaxRounds
      BY <1>4, PhasesAssumption DEF IInv, TypeOK
    <3>2. Cardinality(Callables) \in 0..Cardinality(Callables)
      BY UnjoinedFinite
    <3>3. invocation' \in [number : 1..MaxRounds, sync : BOOLEAN, toCall : SUBSET Callables,
                           count : 0..Cardinality(Callables), calledBack : BOOLEAN]
      BY <1>4, <3>1, <3>2 DEF NewInvocation
    <3>4. flow' \in [Callables -> [at : FlowAt, phase : Nat, on : Threads \cup {Main}, rest : Seq(Nat)]]
      BY <1>4 DEF NewFlow, FlowAt
    <3> QED
      BY <1>1, <1>4, <3>3, <3>4 DEF IInv, TypeOK, MainAt
  <2>4. Made' = Made /\ Managed' = Managed /\ \A th : Daemonless(th)' <=> Daemonless(th)
    <3>1. \A c \in Callables : Len(ran[c]) \in Nat /\ Len(plan[c]) \in Nat
      BY DEF IInv, TypeOK
    <3>2. \A c \in Callables : Started(c)' = Started(c)
      BY <1>1, <1>2, <2>1, <3>1 DEF Started
    <3> QED
      BY <1>1, <3>2, MadeSame, PhasesPrimed
  <2>5. QueueOK'
    <3> SUFFICES ASSUME NEW c \in Callables
                 PROVE  /\ Len(ran[c]) = Len(plan[c]) /\ Len(ran[c]) <= Len(plan[c])
                        /\ ran[c] = [k \in 1..Len(ran[c]) |-> k]
                        /\ data[c] = After(c, Len(ran[c]))
      BY <1>1, <2>1, PhasesPrimed DEF QueueOK, QueueOf
    <3>1. Len(plan[c]) \in Nat /\ Len(plan[c]) \in 0..Len(plan[c])
      BY DEF IInv, TypeOK
    <3>2. After(c, Len(plan[c])) = <<>>
      BY <3>1, AfterSeq DEF IInv
    <3> QED
      BY <1>2, <3>1, <3>2 DEF IInv, QueueOK, QueueOf
  <2>6. CallsOK'
    <3>1. Unjoined' = Callables
      BY <2>1 DEF Unjoined
    <3> QED
      BY <2>1, <2>2, <3>1 DEF CallsOK
  <2>7. FlowOK'
    <3>1. OnMain' = {}
      BY <2>1 DEF OnMain
    <3> QED
      BY <1>1, <1>4, <2>1, <3>1 DEF FlowOK
  <2>8. OwesOK' /\ PlanOK'
    BY <1>1, <2>4 DEF OwesOK, PlanOK, IInv
  <2>9. ManagerOK'
    BY <1>1, <1>4, <2>4 DEF ManagerOK, Known, IInv
  <2>10. GoneOK' /\ LateOnlyAfterDaemons'
    BY <1>1, <1>4 DEF GoneOK, LateOnlyAfterDaemons, IInv
  <2> QED
    BY <2>3, <2>5, <2>6, <2>7, <2>8, <2>9, <2>10 DEF IInv
<1> QED
  BY <1>3, <1>4 DEF WaitEnds

-----------------------------------------------------------------------------
(***************************************************************************)
(* The steps of the callables.                                             *)
(***************************************************************************)
LEMMA FlowMoves ==
  ASSUME TypeOK, NEW c \in Callables, NEW a \in FlowAt
  PROVE  [flow EXCEPT ![c].at = a]
           \in [Callables -> [at : FlowAt, phase : Nat, on : Threads \cup {Main}, rest : Seq(Nat)]]
<1> DEFINE F == [at : FlowAt, phase : Nat, on : Threads \cup {Main}, rest : Seq(Nat)]
           r == [flow[c] EXCEPT !.at = a]
<1>1. flow \in [Callables -> F]
  BY DEF TypeOK
<1>2. r \in F
  <2>1. flow[c] \in F
    BY <1>1
  <2> QED
    BY <2>1
<1>3. [flow EXCEPT ![c].at = a] = [flow EXCEPT ![c] = r]
  OBVIOUS
<1> HIDE DEF F, r
<1>4. [flow EXCEPT ![c] = r] \in [Callables -> F]
  BY <1>1, <1>2
<1> QED
  BY <1>3, <1>4 DEF F

LEMMA CallIInv ==
  ASSUME IInv, NEW c \in Callables, Call(c) PROVE IInv'
<1>1. UNCHANGED <<plan, data, ran, owes, ended, manager, late, main>> /\ main = "calling"
      /\ c \in invocation.toCall
      /\ invocation' = [invocation EXCEPT !.toCall = @ \ {c}]
      /\ flow' = [flow EXCEPT ![c].at = "called"]
  BY DEF Call, MainFree
<1>2. flow[c].at = "idle" /\ flow[c].on = Main
  BY <1>1 DEF IInv, CallsOK, FlowOK
<1>3. /\ flow'[c].at = "called" /\ flow'[c].on = Main
      /\ \A d \in Callables : d # c => flow'[d] = flow[d]
  BY <1>1, <1>2 DEF IInv, TypeOK
<1>4. /\ invocation'.toCall = invocation.toCall \ {c} /\ invocation'.count = invocation.count
      /\ invocation'.calledBack = invocation.calledBack /\ invocation'.number = invocation.number
  BY <1>1 DEF IInv, TypeOK
<1>5. TypeOK'
  <2>1. invocation' \in [number : 1..MaxRounds, sync : BOOLEAN, toCall : SUBSET Callables,
                         count : 0..Cardinality(Callables), calledBack : BOOLEAN]
    BY <1>1 DEF IInv, TypeOK
  <2>2. flow' \in [Callables -> [at : FlowAt, phase : Nat, on : Threads \cup {Main}, rest : Seq(Nat)]]
    BY <1>1, FlowMoves DEF IInv, FlowAt
  <2> QED
    BY <1>1, <2>1, <2>2 DEF IInv, TypeOK
<1>6. Made' = Made /\ Managed' = Managed /\ \A th : Daemonless(th)' <=> Daemonless(th)
  <2>1. \A d \in Callables : Started(d)' = Started(d)
    BY <1>1, <1>2, <1>3 DEF Started
  <2> QED
    BY <1>1, <2>1, MadeSame, PhasesPrimed
<1>7. QueueOK'
  BY <1>1, <1>2, <1>3, <1>4, PhasesPrimed DEF QueueOK, QueueOf, IInv
<1>8. CallsOK'
  <2>1. Unjoined' = Unjoined
    BY <1>2, <1>3 DEF Unjoined
  <2> QED
    BY <1>2, <1>3, <1>4, <2>1 DEF CallsOK, IInv
<1>9. FlowOK'
  <2>1. OnMain' \subseteq {c}
    BY <1>3, MainFreeFacts DEF OnMain, Call
  <2>2. Main \notin ended /\ owes[Main] = None
    BY MainFreeFacts, ThreadPairs DEF Call, IInv, TypeOK
  <2> QED
    BY <1>1, <1>3, <1>6, <2>1, <2>2 DEF FlowOK, IInv
<1>10. OwesOK' /\ PlanOK'
  BY <1>1, <1>6 DEF OwesOK, PlanOK, IInv
<1>11. ManagerOK' /\ GoneOK' /\ LateOnlyAfterDaemons'
  BY <1>1, <1>6 DEF ManagerOK, Known, GoneOK, LateOnlyAfterDaemons, IInv
<1> QED
  BY <1>5, <1>7, <1>8, <1>9, <1>10, <1>11 DEF IInv

LEMMA RunProcedureIInv ==
  ASSUME IInv, NEW c \in Callables, RunProcedure(c) PROVE IInv'
<1>1. UNCHANGED <<plan, data, owes, ended, manager, late, main, invocation>>
      /\ flow[c].at = "running"
      /\ ran' = [ran EXCEPT ![c] = Append(@, flow[c].phase)]
      /\ flow' = [flow EXCEPT ![c].at = "executing"]
  BY DEF RunProcedure
<1> DEFINE n == Len(ran[c])
<1>2. n \in Nat /\ Len(plan[c]) \in Nat /\ ran[c] \in Seq(Nat)
  BY DEF IInv, TypeOK
<1>3. n < Len(plan[c]) /\ flow[c].phase = n + 1 /\ flow[c].rest = After(c, n + 1)
      /\ ran[c] = [k \in 1..n |-> k] /\ data[c] = <<>>
  BY <1>1 DEF IInv, QueueOK, QueueOf
<1>4. /\ flow'[c].at = "executing" /\ flow'[c].on = flow[c].on /\ flow'[c].rest = flow[c].rest
      /\ \A d \in Callables : d # c => flow'[d] = flow[d] /\ ran'[d] = ran[d]
      /\ ran'[c] = Append(ran[c], n + 1)
  BY <1>1, <1>3 DEF IInv, TypeOK
<1>5. ran'[c] = [k \in 1..(n + 1) |-> k] /\ Len(ran'[c]) = n + 1
  <2>1. Len([k \in 1..(n + 1) |-> k]) = n + 1
    BY <1>2
  <2>2. ran'[c] = [k \in 1..(n + 1) |-> k]
    <3> HIDE DEF n
    <3> QED
      BY <1>2, <1>3, <1>4, UpTo
  <2> QED
    BY <2>1, <2>2
<1> HIDE DEF n
<1>6. TypeOK'
  <2>1. flow' \in [Callables -> [at : FlowAt, phase : Nat, on : Threads \cup {Main}, rest : Seq(Nat)]]
    BY <1>1, FlowMoves DEF IInv, FlowAt
  <2>2. ran' \in [Callables -> Seq(Nat)]
    <3>1. ran \in [Callables -> Seq(Nat)] /\ Append(ran[c], n + 1) \in Seq(Nat)
      BY <1>2 DEF IInv, TypeOK
    <3>2. ran' = [ran EXCEPT ![c] = Append(ran[c], n + 1)]
      BY <1>1, <1>3
    <3> QED
      BY <3>1, <3>2
  <2> QED
    BY <1>1, <2>1, <2>2 DEF IInv, TypeOK
<1>7. Made' = Made /\ Managed' = Managed /\ \A th : Daemonless(th)' <=> Daemonless(th)
  <2>1. Started(c)' = Started(c)
    <3>1. Started(c)' = {k \in 1..Len(plan[c]) : k <= n + 1}
      BY <1>1, <1>4, <1>5 DEF Started
    <3>2. Started(c) = {k \in 1..Len(plan[c]) : k <= n \/ k = n + 1}
      BY <1>1, <1>3 DEF Started, n
    <3> QED
      BY <1>2, <3>1, <3>2
  <2>2. \A d \in Callables : d # c => Started(d)' = Started(d)
    BY <1>1, <1>4 DEF Started
  <2> QED
    BY <1>1, <2>1, <2>2, MadeSame, PhasesPrimed
<1>8. QueueOK'
  <2>1. \A d \in Callables : d # c => data'[d] = data[d] /\ ran'[d] = ran[d] /\ flow'[d] = flow[d]
    BY <1>1, <1>4
  <2>2. /\ n + 1 <= Len(plan[c]) /\ flow'[c].rest = After(c, n + 1) /\ data'[c] = <<>>
        /\ invocation.number > 1 => FALSE
    BY <1>1, <1>2, <1>3, <1>4 DEF IInv, QueueOK, QueueOf, n
  <2> QED
    BY <1>1, <1>4, <1>5, <2>1, <2>2, PhasesPrimed DEF QueueOK, QueueOf, IInv
<1>9. CallsOK'
  <2>1. Unjoined' = Unjoined
    BY <1>1, <1>4 DEF Unjoined
  <2> QED
    BY <1>1, <1>4, <2>1 DEF CallsOK, IInv
<1>10. FlowOK'
  <2>1. OnMain' = OnMain
    BY <1>1, <1>4 DEF OnMain
  <2> QED
    BY <1>1, <1>4, <1>7, <2>1 DEF FlowOK, IInv
<1>11. OwesOK' /\ PlanOK'
  BY <1>1, <1>7 DEF OwesOK, PlanOK, IInv
<1>12. ManagerOK' /\ GoneOK' /\ LateOnlyAfterDaemons'
  BY <1>1, <1>7 DEF ManagerOK, Known, GoneOK, LateOnlyAfterDaemons, IInv
<1> QED
  BY <1>6, <1>8, <1>9, <1>10, <1>11, <1>12 DEF IInv

\* A flow leaves its thread, which has nothing to emplace: the thread ends.
LEMMA FlowLeaves ==
  ASSUME IInv, NEW c \in Callables, flow[c].at \notin {"idle", "joined"},
         Leaves(flow[c].on, None), UNCHANGED <<plan, manager, main, late>>,
         Made \subseteq Made', Managed' = Managed
  PROVE  /\ owes' = owes /\ ended' \subseteq Threads
         /\ ended' \subseteq ended \cup {flow[c].on} /\ Main \notin ended'
         /\ \A d \in Callables :
              d # c /\ flow[d].at \notin {"idle", "joined"} => flow[d].on \notin ended'
         /\ OwesOK' /\ ManagerOK' /\ GoneOK' /\ LateOnlyAfterDaemons'
<1> DEFINE o == flow[c].on
<1>1. /\ o \in Threads \cup {Main} /\ o \notin ended /\ owes[o] = None
      /\ o # Main => o \in Made
      /\ \A d \in Callables : d # c /\ flow[d].at \notin {"idle", "joined"} => flow[d].on # o
  BY FlowThread DEF IInv
<1>2. owes' = [owes EXCEPT ![o] = None] /\ ended' = IF o # Main THEN ended \cup {o} ELSE ended
  BY DEF Leaves
<1>3. ended \subseteq Made /\ ended \subseteq Threads /\ owes \in [Threads \cup {Main} -> Threads \cup {None}]
  BY DEF IInv, ManagerOK, TypeOK
<1> HIDE DEF o
<1>4. owes' = owes
  BY <1>1, <1>2, <1>3
<1>5. /\ ended' \subseteq Threads /\ ended' \subseteq Made /\ Main \notin ended'
      /\ ended \subseteq ended' /\ ended' \subseteq ended \cup {o}
  BY <1>1, <1>2, <1>3, ThreadPairs
<1>6. \A d \in Callables :
        d # c /\ flow[d].at \notin {"idle", "joined"} => flow[d].on \notin ended'
  BY <1>1, <1>5 DEF IInv, FlowOK
<1>7. OwesOK'
  <2>1. \A th : owes[th] # None => th # o
    BY <1>1
  <2> QED
    BY <1>4, <1>5, <2>1 DEF OwesOK, IInv
<1>8. ManagerOK'
  BY <1>4, <1>5 DEF ManagerOK, Known, IInv
<1>9. GoneOK' /\ LateOnlyAfterDaemons'
  BY <1>5, PhasesPrimed DEF GoneOK, LateOnlyAfterDaemons, IInv
<1> QED
  BY <1>4, <1>5, <1>6, <1>7, <1>8, <1>9 DEF o

\* The container that execute() works on holds the phases that have not run.
LEMMA ContainerFacts ==
  ASSUME IInv, NEW c \in Callables, InExecute(c)
  PROVE  /\ Len(ran[c]) \in 0..Len(plan[c]) /\ Len(plan[c]) \in Nat
         /\ Container(c) = After(c, Len(ran[c]))
         /\ flow[c].at \in {"called", "executing"} /\ main \notin {"exited", "terminated"}
<1>1. Len(ran[c]) \in 0..Len(plan[c]) /\ Len(plan[c]) \in Nat
  BY DEF IInv, QueueOK, QueueOf, TypeOK
<1> QED
  BY <1>1 DEF InExecute, Container, Over, IInv, QueueOK, QueueOf

LEMMA JoinIInv ==
  ASSUME IInv, NEW c \in Callables, Join(c) PROVE IInv'
<1> DEFINE a == IF invocation.count = 1 THEN "callback" ELSE "joined"
<1>1. /\ UNCHANGED <<plan, data, ran, manager, late, main>> /\ InExecute(c) /\ Container(c) = <<>>
      /\ invocation' = [invocation EXCEPT !.count = @ - 1]
      /\ flow' = [flow EXCEPT ![c].at = a]
      /\ (invocation.count = 1 /\ Stays) \/ (a # "callback" /\ Leaves(flow[c].on, None))
  BY DEF Join
<1>2. /\ Len(ran[c]) = Len(plan[c]) /\ flow[c].at \in {"called", "executing"}
      /\ data[c] = <<>> /\ Started(c) = 1..Len(ran[c])
  <2>1. Len(ran[c]) = Len(plan[c]) /\ flow[c].at \in {"called", "executing"}
    BY <1>1, ContainerFacts, AfterSeq DEF IInv
  <2>2. data[c] = <<>>
    BY <1>1, <2>1 DEF Container, IInv, QueueOK, QueueOf
  <2> QED
    BY <2>1, <2>2, StartedRan DEF IInv
<1>3. /\ a \in FlowAt /\ a \in {"callback", "joined"}
      /\ a \notin {"idle", "called", "running", "executing"}
      /\ a = "callback" <=> invocation.count = 1
  BY DEF FlowAt
<1> HIDE DEF a
<1>4. /\ flow'[c].at = a /\ flow'[c].on = flow[c].on
      /\ \A d \in Callables : d # c => flow'[d] = flow[d]
  BY <1>1 DEF IInv, TypeOK
<1>5. /\ invocation'.toCall = invocation.toCall /\ invocation'.count = invocation.count - 1
      /\ invocation'.calledBack = invocation.calledBack /\ invocation'.number = invocation.number
      /\ invocation'.sync = invocation.sync
  BY <1>1 DEF IInv, TypeOK
<1>6. /\ Unjoined' = Unjoined \ {c} /\ c \in Unjoined /\ Cardinality(Unjoined') = invocation.count - 1
      /\ invocation.count \in 1..Cardinality(Callables)
  <2>1. Unjoined' = Unjoined \ {c} /\ c \in Unjoined
    BY <1>2, <1>3, <1>4 DEF Unjoined
  <2>2. invocation.count = Cardinality(Unjoined) /\ IsFiniteSet(Unjoined)
        /\ Cardinality(Unjoined) \in 0..Cardinality(Callables) /\ Cardinality(Callables) \in Nat
    BY UnjoinedFinite DEF IInv, CallsOK
  <2>3. Cardinality(Unjoined) # 0
    BY <2>1, <2>2, FS_EmptySet
  <2>4. Cardinality(Unjoined \ {c}) = Cardinality(Unjoined) - 1
    BY <2>1, <2>2, FS_RemoveElement
  <2> QED
    BY <2>1, <2>2, <2>3, <2>4
<1>7. Made' = Made /\ Managed' = Managed /\ \A th : Daemonless(th)' <=> Daemonless(th)
  <2>1. \A d \in Callables : Started(d)' = Started(d)
    BY <1>1, <1>2, <1>3, <1>4 DEF Started
  <2> QED
    BY <1>1, <2>1, MadeSame, PhasesPrimed
<1>8. /\ owes' = owes /\ ended' \subseteq Threads /\ Main \notin ended'
      /\ \A d \in Callables : d # c /\ flow[d].at \notin {"idle", "joined"} => flow[d].on \notin ended'
      /\ a = "callback" => ended' = ended
      /\ OwesOK' /\ ManagerOK' /\ GoneOK' /\ LateOnlyAfterDaemons'
  <2>1. CASE Stays /\ invocation.count = 1
    <3>1. owes' = owes /\ ended' = ended /\ ended \subseteq Threads /\ Main \notin ended
      BY <2>1, ThreadPairs DEF Stays, IInv, TypeOK
    <3> QED
      BY <1>1, <1>7, <3>1 DEF FlowOK, OwesOK, ManagerOK, Known, GoneOK, LateOnlyAfterDaemons, IInv
  <2>2. CASE a # "callback" /\ Leaves(flow[c].on, None)
    BY <1>1, <1>2, <1>7, <2>2, FlowLeaves
  <2> QED
    BY <1>1, <1>3, <2>1, <2>2
<1>9. TypeOK'
  <2>1. flow' \in [Callables -> [at : FlowAt, phase : Nat, on : Threads \cup {Main}, rest : Seq(Nat)]]
    BY <1>1, <1>3, FlowMoves DEF IInv
  <2>2. invocation' \in [number : 1..MaxRounds, sync : BOOLEAN, toCall : SUBSET Callables,
                         count : 0..Cardinality(Callables), calledBack : BOOLEAN]
    <3>1. invocation.count - 1 \in 0..Cardinality(Callables)
      BY <1>6, UnjoinedFinite
    <3> QED
      BY <1>1, <3>1 DEF IInv, TypeOK
  <2> QED
    BY <1>1, <1>8, <2>1, <2>2 DEF IInv, TypeOK
<1>10. QueueOK'
  BY <1>1, <1>2, <1>3, <1>4, <1>5, PhasesPrimed DEF QueueOK, QueueOf, IInv
<1>11. CallsOK'
  <2>1. ~invocation.calledBack /\ \A d \in Callables : flow[d].at # "callback"
    BY <1>6 DEF IInv, CallsOK
  <2>2. a = "callback" => Unjoined' = {}
    <3>1. IsFiniteSet(Unjoined')
      BY <1>6, UnjoinedFinite, FS_RemoveElement
    <3>2. a = "callback" => Cardinality(Unjoined') = 0
      BY <1>3, <1>6
    <3> QED
      BY <3>1, <3>2, FS_EmptySet
  <2>3. invocation'.count = Cardinality(Unjoined')
    BY <1>5, <1>6
  <2>4. \A d \in Callables : flow'[d].at = "idle" <=> d \in invocation'.toCall
    BY <1>2, <1>3, <1>4, <1>5 DEF IInv, CallsOK
  <2> QED
    BY <1>4, <1>5, <2>1, <2>2, <2>3, <2>4 DEF CallsOK
<1>12. FlowOK'
  <2>1. OnMain' \subseteq OnMain
    BY <1>2, <1>4 DEF OnMain
  <2>2. flow'[c].at \notin {"idle", "joined"} => flow'[c].on \notin ended' /\ owes'[flow'[c].on] = None
    BY <1>2, <1>3, <1>4, <1>8 DEF IInv, FlowOK
  <2>3. main # "calling" => flow[c].on # Main
    BY <1>2 DEF IInv, FlowOK
  <2> QED
    BY <1>1, <1>3, <1>4, <1>7, <1>8, <2>1, <2>2, <2>3 DEF FlowOK, IInv
<1> QED
  BY <1>1, <1>8, <1>9, <1>10, <1>11, <1>12 DEF IInv, PlanOK

LEMMA CallbackIInv ==
  ASSUME IInv, NEW c \in Callables, Callback(c) PROVE IInv'
<1>1. UNCHANGED <<plan, data, ran, manager, late, main>> /\ flow[c].at = "callback"
      /\ invocation' = [invocation EXCEPT !.calledBack = TRUE]
      /\ flow' = [flow EXCEPT ![c].at = "joined"]
      /\ Leaves(flow[c].on, None)
  BY DEF Callback
<1>2. /\ flow'[c].at = "joined" /\ flow'[c].on = flow[c].on
      /\ \A d \in Callables : d # c => flow'[d] = flow[d]
  BY <1>1 DEF IInv, TypeOK
<1>3. /\ invocation'.toCall = invocation.toCall /\ invocation'.count = invocation.count
      /\ invocation'.calledBack = TRUE /\ invocation'.number = invocation.number
  BY <1>1 DEF IInv, TypeOK
<1>4. Made' = Made /\ Managed' = Managed /\ \A th : Daemonless(th)' <=> Daemonless(th)
  <2>1. \A d \in Callables : Started(d)' = Started(d)
    BY <1>1, <1>2 DEF Started
  <2> QED
    BY <1>1, <2>1, MadeSame, PhasesPrimed
<1>5. /\ owes' = owes /\ ended' \subseteq Threads /\ Main \notin ended'
      /\ \A d \in Callables : d # c /\ flow[d].at \notin {"idle", "joined"} => flow[d].on \notin ended'
      /\ OwesOK' /\ ManagerOK' /\ GoneOK' /\ LateOnlyAfterDaemons'
  BY <1>1, <1>4, FlowLeaves
<1>6. TypeOK'
  <2>1. flow' \in [Callables -> [at : FlowAt, phase : Nat, on : Threads \cup {Main}, rest : Seq(Nat)]]
    BY <1>1, FlowMoves DEF IInv, FlowAt
  <2>2. invocation' \in [number : 1..MaxRounds, sync : BOOLEAN, toCall : SUBSET Callables,
                         count : 0..Cardinality(Callables), calledBack : BOOLEAN]
    BY <1>1 DEF IInv, TypeOK
  <2> QED
    BY <1>1, <1>5, <2>1, <2>2 DEF IInv, TypeOK
<1>7. QueueOK'
  BY <1>1, <1>2, <1>3, PhasesPrimed DEF QueueOK, QueueOf, IInv
<1>8. CallsOK'
  <2>1. Unjoined' = Unjoined /\ Unjoined = {}
    BY <1>1, <1>2 DEF Unjoined, IInv, CallsOK
  <2> QED
    BY <1>1, <1>2, <1>3, <2>1 DEF CallsOK, IInv
<1>9. FlowOK'
  <2>1. OnMain' \subseteq OnMain
    BY <1>1, <1>2 DEF OnMain
  <2> QED
    BY <1>1, <1>2, <1>4, <1>5, <2>1 DEF FlowOK, IInv
<1> QED
  BY <1>1, <1>5, <1>6, <1>7, <1>8, <1>9 DEF IInv, PlanOK

LEMMA EmplaceIInv ==
  ASSUME IInv, NEW th \in Threads \cup {Main}, Emplace(th) PROVE IInv'
<1>0. PICK x : x = owes[th]
  OBVIOUS
<1>1. /\ UNCHANGED <<plan, data, flow, ran, main, invocation>>
      /\ main \notin {"exited", "terminated"} /\ x # None
      /\ owes' = [owes EXCEPT ![th] = None]
      /\ ended' = IF th # Main THEN ended \cup {th} ELSE ended
      /\ late' = IF main \in {"leaving", "destroyed"} THEN late \cup {x} ELSE late
      /\ manager' = [manager EXCEPT !.threads = Append(@, x)]
  BY <1>0 DEF Emplace, Leaves, Over
<1>2. /\ x \in Made /\ x \in Threads /\ plan[x[1]][x[2]] = "managed"
      /\ th # Main => th \in Made /\ th \in Threads /\ th \notin ended /\ th[1] = x[1] /\ th[2] < x[2]
  BY <1>0, <1>1 DEF IInv, OwesOK, Made
<1>3. manager \in [made : BOOLEAN, locked : BOOLEAN, threads : Seq(Threads), joins : Seq(Threads)]
      /\ owes \in [Threads \cup {Main} -> Threads \cup {None}]
      /\ ended \subseteq Threads /\ ended \subseteq Made /\ late \subseteq Threads
  BY DEF IInv, TypeOK, ManagerOK
<1>4. /\ manager'.joins = manager.joins /\ manager'.made = manager.made
      /\ manager'.threads = Append(manager.threads, x)
  BY <1>1, <1>3
<1>5. /\ Append(manager.threads, x) \in Seq(Threads) /\ Len(manager.threads) \in Nat
      /\ Len(Append(manager.threads, x)) = Len(manager.threads) + 1
      /\ Append(manager.threads, x)[Len(manager.threads) + 1] = x
      /\ \A i \in 1..Len(manager.threads) : Append(manager.threads, x)[i] = manager.threads[i]
  <2>1. manager.threads \in Seq(Threads)
    BY <1>3
  <2> QED
    BY <1>2, <2>1, AppendProperties, LenProperties
<1>6. owes'[th] = None /\ \A o : o # th => owes'[o] = owes[o]
  BY <1>1, <1>3
<1>7. Made' = Made /\ Managed' = Managed /\ \A y : Daemonless(y)' <=> Daemonless(y)
  <2>1. \A d \in Callables : Started(d)' = Started(d)
    BY <1>1 DEF Started
  <2> QED
    BY <1>1, <2>1, MadeSame, PhasesPrimed
<1>8. /\ ended' \subseteq Threads /\ ended' \subseteq Made /\ ended \subseteq ended'
      /\ ended' \subseteq ended \cup {th} /\ Main \notin ended'
  BY <1>1, <1>2, <1>3, ThreadPairs
<1>9. TypeOK'
  <2>1. manager' \in [made : BOOLEAN, locked : BOOLEAN, threads : Seq(Threads), joins : Seq(Threads)]
    BY <1>1, <1>3, <1>5
  <2>2. owes' \in [Threads \cup {Main} -> Threads \cup {None}] /\ late' \subseteq Threads
    BY <1>1, <1>2, <1>3
  <2> QED
    BY <1>1, <1>8, <2>1, <2>2 DEF IInv, TypeOK
<1>10. QueueOK' /\ PlanOK'
  BY <1>1, PhasesPrimed DEF QueueOK, QueueOf, PlanOK, IInv
<1>11. CallsOK'
  BY <1>1 DEF CallsOK, Unjoined, IInv
<1>12. FlowOK'
  <2>1. OnMain' = OnMain
    BY <1>1 DEF OnMain
  <2>2. \A c \in Callables : flow[c].at \notin {"idle", "joined"} => flow[c].on # th
    BY <1>0, <1>1 DEF IInv, FlowOK
  <2> QED
    BY <1>1, <1>6, <1>7, <1>8, <2>1, <2>2 DEF FlowOK, IInv
<1>13. OwesOK'
  BY <1>1, <1>6, <1>7, <1>8 DEF OwesOK, IInv
<1>14. ManagerOK'
  <2>1. \A y : Known(y) => Known(y)'
    <3>1. \A i \in DOMAIN manager.threads :
            i \in DOMAIN manager'.threads /\ manager'.threads[i] = manager.threads[i]
      <4>1. DOMAIN manager.threads = 1..Len(manager.threads)
            /\ DOMAIN manager'.threads = 1..(Len(manager.threads) + 1)
        BY <1>3, <1>4, <1>5
      <4> QED
        BY <1>4, <1>5, <4>1
    <3> QED
      BY <1>4, <3>1 DEF Known
  <2>2. Known(x)'
    <3>1. Len(manager.threads) + 1 \in DOMAIN manager'.threads
      BY <1>4, <1>5
    <3> QED
      BY <1>4, <1>5, <3>1 DEF Known
  <2>3. \A y \in Managed' \ ended' : Known(y)' \/ \E o \in Threads \cup {Main} : owes'[o] = y
    <3> SUFFICES ASSUME NEW y \in Managed \ ended, ~Known(y)'
                 PROVE  \E o \in Threads \cup {Main} : owes'[o] = y
      BY <1>7, <1>8
    <3>1. PICK o \in Threads \cup {Main} : owes[o] = y
      BY <2>1 DEF IInv, ManagerOK
    <3>2. o # th
      BY <1>0, <2>2, <3>1
    <3> QED
      BY <1>6, <3>1, <3>2
  <2>4. (~manager'.made => Managed' = {}) /\ (manager'.joins # <<>> <=> main' = "joining")
    BY <1>1, <1>4, <1>7 DEF IInv, ManagerOK
  <2> QED
    BY <1>7, <1>8, <2>3, <2>4 DEF ManagerOK
<1>15. GoneOK'
  BY <1>1, <1>7, <1>8 DEF GoneOK, IInv
<1>16. LateOnlyAfterDaemons'
  <2>1. ASSUME main \in {"leaving", "destroyed"}
        PROVE  \E j \in 1..x[2]-1 : plan[x[1]][j] = "daemon"
    <3>1. th # Main
      BY <1>0, <1>1, <2>1 DEF IInv, FlowOK
    <3>2. PICK j \in 1..th[2] : plan[th[1]][j] = "daemon"
      BY <1>2, <2>1, <3>1, GoneFlow
    <3>3. th[2] \in Nat /\ x[2] \in Nat
      BY <1>2, <3>1, ThreadPairs
    <3>4. j \in 1..x[2]-1
      BY <1>2, <3>1, <3>2, <3>3
    <3> QED
      BY <1>2, <3>1, <3>2, <3>4
  <2>2. \A y \in late' : \E j \in 1..y[2]-1 : plan'[y[1]][j] = "daemon"
    BY <1>1, <2>1 DEF LateOnlyAfterDaemons, IInv
  <2> QED
    BY <1>1, <2>2 DEF LateOnlyAfterDaemons
<1> QED
  BY <1>9, <1>10, <1>11, <1>12, <1>13, <1>14, <1>15, <1>16 DEF IInv

\* execute() goes on to the phase after those that have run, whose thread, if it
\* gets one, is made for it.
LEMMA NextPhaseFacts ==
  ASSUME IInv, NEW c \in Callables, NEW k, NEW th \in Threads \cup {Main}, NextPhase(c, k, th)
  PROVE  /\ k \in 1..Len(plan[c]) /\ k \in 1..MaxPhases[c] /\ k = Len(ran[c]) + 1
         /\ flow[c].at \in {"called", "executing"} /\ main \notin {"exited", "terminated"}
         /\ flow'[c].at = "running" /\ flow'[c].on = th
         /\ \A d \in Callables : d # c => flow'[d] = flow[d]
         /\ Started(c) = 1..Len(ran[c]) /\ Started(c)' = 1..k
         /\ \A d \in Callables : d # c => Started(d)' = Started(d)
         /\ UNCHANGED <<plan, ran, late, main, invocation>>
         /\ PlanOK' /\ QueueOK' /\ CallsOK'
         /\ data' \in [Callables -> Seq(Nat)]
         /\ flow' \in [Callables -> [at : FlowAt, phase : Nat, on : Threads \cup {Main}, rest : Seq(Nat)]]
<1> DEFINE n == Len(ran[c])
           r == [at |-> "running", phase |-> k, on |-> th, rest |-> Tail(Container(c))]
<1>1. /\ UNCHANGED <<plan, ran, late, main, invocation>> /\ InExecute(c)
      /\ Container(c) # <<>> /\ k = Head(Container(c))
      /\ flow' = [flow EXCEPT ![c] = r]
      /\ data' = IF flow[c].at = "called" THEN [data EXCEPT ![c] = <<>>] ELSE data
  BY DEF NextPhase
<1>2. /\ n \in 0..Len(plan[c]) /\ Len(plan[c]) \in Nat /\ Container(c) = After(c, n)
      /\ flow[c].at \in {"called", "executing"} /\ main \notin {"exited", "terminated"}
  BY <1>1, ContainerFacts
<1>3. /\ n # Len(plan[c]) /\ k = n + 1 /\ Tail(Container(c)) = After(c, n + 1) /\ n \in Nat
      /\ After(c, n + 1) \in Seq(Nat)
  <2>1. TypeOK
    BY DEF IInv
  <2> HIDE DEF n, r
  <2>2. n # Len(plan[c])
    BY <1>1, <1>2, <2>1, AfterSeq
  <2>3. n # Len(plan[c]) /\ n \in Nat /\ n + 1 \in 0..Len(plan[c])
    BY <1>2, <2>2
  <2>4. k = n + 1 /\ Tail(Container(c)) = After(c, n + 1)
    BY <1>1, <1>2, <2>3, <2>1, AfterSeq
  <2>5. After(c, n + 1) \in Seq(Nat)
    BY <2>3, <2>1, AfterSeq
  <2> QED
    BY <2>3, <2>4, <2>5
<1>4. k \in 1..Len(plan[c]) /\ k \in 1..MaxPhases[c] /\ k \in Nat
  <2>1. Len(plan[c]) <= MaxPhases[c] /\ MaxPhases[c] \in Nat
    BY PhasesAssumption DEF IInv, PlanOK
  <2> HIDE DEF n
  <2> QED
    BY <1>2, <1>3, <2>1
<1>5. data'[c] = <<>> /\ \A d \in Callables : d # c => data'[d] = data[d] /\ ran'[d] = ran[d]
  BY <1>1, <1>2 DEF IInv, TypeOK, QueueOK, QueueOf
<1>6. /\ flow'[c] = r /\ flow'[c].at = "running" /\ flow'[c].on = th
      /\ flow'[c].phase = n + 1 /\ flow'[c].rest = After(c, n + 1)
      /\ \A d \in Callables : d # c => flow'[d] = flow[d]
  BY <1>1, <1>3 DEF IInv, TypeOK
<1>7. data' \in [Callables -> Seq(Nat)]
  BY <1>1 DEF IInv, TypeOK
<1>8. flow' \in [Callables -> [at : FlowAt, phase : Nat, on : Threads \cup {Main}, rest : Seq(Nat)]]
  <2>1. r \in [at : FlowAt, phase : Nat, on : Threads \cup {Main}, rest : Seq(Nat)]
    BY <1>3, <1>4 DEF FlowAt
  <2> HIDE DEF r
  <2> QED
    BY <1>1, <2>1 DEF IInv, TypeOK
<1>9. /\ Started(c) = 1..n
      /\ Started(c)' = 1..k
      /\ \A d \in Callables : d # c => Started(d)' = Started(d)
  <2>1. Started(c) = 1..n
    BY <1>2, StartedRan DEF IInv
  <2>2. Started(c)' = {i \in 1..Len(plan[c]) : i <= n \/ i = k}
    BY <1>1, <1>3, <1>6 DEF Started
  <2>3. \A d \in Callables : d # c => Started(d)' = Started(d)
    BY <1>1, <1>6 DEF Started
  <2> HIDE DEF n
  <2>4. {i \in 1..Len(plan[c]) : i <= n \/ i = k} = 1..k
    BY <1>2, <1>3, <1>4
  <2> QED
    BY <2>1, <2>2, <2>3, <2>4
<1>10. QueueOK'
  <2>1. n < Len(plan[c]) /\ ~(invocation.number > 1)
    <3>1. invocation.number > 1 => n = Len(plan[c])
      BY DEF IInv, QueueOK, QueueOf
    <3> HIDE DEF n
    <3> QED
      BY <1>2, <1>3, <3>1
  <2>2. n <= Len(plan[c]) /\ ran[c] = [i \in 1..n |-> i]
    BY DEF IInv, QueueOK, QueueOf
  <2>3. QueueOf(c)'
    <3>1. plan' = plan /\ ran' = ran /\ invocation' = invocation /\ \A m : After(c, m)' = After(c, m)
      BY <1>1, PhasesPrimed
    <3>2. /\ flow'[c].at = "running" /\ flow'[c].phase = n + 1 /\ flow'[c].rest = After(c, n + 1)
          /\ data'[c] = <<>>
      BY <1>5, <1>6
    <3> HIDE DEF r
    <3> QED
      BY <2>1, <2>2, <3>1, <3>2 DEF QueueOf
  <2>4. \A d \in Callables : d # c => QueueOf(d)'
    BY <1>1, <1>5, <1>6, PhasesPrimed DEF QueueOf, QueueOK, IInv
  <2> QED
    BY <2>3, <2>4 DEF QueueOK
<1>11. CallsOK'
  <2>1. Unjoined' = Unjoined
    BY <1>2, <1>6 DEF Unjoined
  <2> QED
    BY <1>1, <1>2, <1>6, <2>1 DEF CallsOK, IInv
<1>12. PlanOK'
  BY <1>1 DEF PlanOK, IInv
<1> QED
  BY <1>1, <1>2, <1>3, <1>4, <1>6, <1>7, <1>8, <1>9, <1>10, <1>11, <1>12

\* The thread of the next phase, unless that is serial, is a new one.
LEMMA NextThread ==
  ASSUME IInv, NEW c \in Callables, NEW k, NEW th \in Threads \cup {Main}, NextPhase(c, k, th)
  PROVE  /\ <<c, k>> \in Threads /\ <<c, k>> \notin Made
         /\ <<c, k>> \notin ended /\ <<c, k>> # Main /\ owes[<<c, k>>] = None
         /\ Made' = IF plan[c][k] = "serial" THEN Made ELSE Made \cup {<<c, k>>}
         /\ Managed' = IF plan[c][k] = "managed" THEN Managed \cup {<<c, k>>} ELSE Managed
         /\ flow[c].on # <<c, k>>
<1>1. /\ k \in 1..MaxPhases[c] /\ k = Len(ran[c]) + 1 /\ Len(ran[c]) \in Nat
      /\ Started(c) = 1..Len(ran[c]) /\ Started(c)' = 1..k
      /\ \A d \in Callables : d # c => Started(d)' = Started(d)
      /\ plan' = plan /\ flow[c].at \in {"called", "executing"}
  BY NextPhaseFacts DEF IInv, TypeOK
<1>2. <<c, k>> \in Threads /\ <<c, k>> # Main
  BY <1>1, ThreadPairs
<1>3. <<c, k>> \notin Made
  BY <1>1 DEF Made
<1>4. Made' = IF plan[c][k] = "serial" THEN Made ELSE Made \cup {<<c, k>>}
  <2>1. \A x \in Threads : x[2] \in Started(x[1])' <=> x[2] \in Started(x[1]) \/ x = <<c, k>>
    <3> SUFFICES ASSUME NEW x \in Threads
                 PROVE  x[2] \in Started(x[1])' <=> x[2] \in Started(x[1]) \/ x = <<c, k>>
      OBVIOUS
    <3>1. x[1] \in Callables /\ x[2] \in Nat /\ x = <<x[1], x[2]>> /\ 1 <= x[2]
      BY ThreadPairs
    <3>2. CASE x[1] = c
      <4>1. x[2] \in 1..k <=> x[2] \in 1..Len(ran[c]) \/ x[2] = k
        BY <1>1, <3>1
      <4> QED
        BY <1>1, <3>1, <3>2, <4>1
    <3>3. CASE x[1] # c
      BY <1>1, <3>1, <3>3
    <3> QED
      BY <3>2, <3>3
  <2> QED
    BY <1>1, <1>2, <2>1 DEF Made
<1>5. Managed' = IF plan[c][k] = "managed" THEN Managed \cup {<<c, k>>} ELSE Managed
  BY <1>1, <1>4 DEF Managed
<1>6. <<c, k>> \notin ended /\ owes[<<c, k>>] = None
  BY <1>2, <1>3 DEF IInv, ManagerOK, OwesOK
<1>7. flow[c].on # <<c, k>>
  BY <1>1, <1>2, <1>3 DEF IInv, FlowOK
<1> QED
  BY <1>2, <1>3, <1>4, <1>5, <1>6, <1>7

LEMMA RunSerialIInv ==
  ASSUME IInv, NEW c \in Callables, NEW k, RunSerial(c, k) PROVE IInv'
<1>1. /\ NextPhase(c, k, flow[c].on) /\ plan[c][k] = "serial"
      /\ UNCHANGED <<owes, ended, manager>>
      /\ flow[c].on \in Threads \cup {Main}
  BY DEF RunSerial, Stays, IInv, TypeOK
<1>2. /\ flow[c].at \in {"called", "executing"}
      /\ flow'[c].at = "running" /\ flow'[c].on = flow[c].on
      /\ \A d \in Callables : d # c => flow'[d] = flow[d]
      /\ UNCHANGED <<plan, ran, late, main, invocation>>
      /\ PlanOK' /\ QueueOK' /\ CallsOK'
      /\ data' \in [Callables -> Seq(Nat)]
      /\ flow' \in [Callables -> [at : FlowAt, phase : Nat, on : Threads \cup {Main}, rest : Seq(Nat)]]
  BY <1>1, NextPhaseFacts
<1>3. Made' = Made /\ Managed' = Managed
  BY <1>1, NextThread
<1>4. TypeOK'
  BY <1>1, <1>2 DEF IInv, TypeOK
<1>5. FlowOK'
  <2>1. OnMain' = OnMain
    BY <1>2 DEF OnMain
  <2>6. ASSUME NEW d \in Callables
        PROVE  /\ flow'[d].on # Main => flow'[d].on \in Made' /\ flow'[d].on[1] = d
               /\ flow'[d].at \in {"idle", "called"} => flow'[d].on = Main
               /\ flow'[d].at \notin {"idle", "joined"} =>
                    flow'[d].on \notin ended' /\ owes'[flow'[d].on] = None
    <3>1. CASE d = c
      BY <1>1, <1>2, <1>3, <3>1 DEF FlowOK, IInv
    <3>2. CASE d # c
      BY <1>1, <1>2, <1>3, <3>2 DEF FlowOK, IInv
    <3> QED
      BY <3>1, <3>2
  <2>7. ASSUME main' # "calling"
        PROVE  owes'[Main] = None /\ \A d \in Callables : flow'[d].on = Main => flow'[d].at = "joined"
    <3>1. /\ main # "calling" /\ owes[Main] = None
          /\ \A d \in Callables : flow[d].on = Main => flow[d].at = "joined"
      BY <1>2, <2>7 DEF FlowOK, IInv
    <3>2. owes'[Main] = None
      BY <1>1, <3>1
    <3>3. flow'[c].on # Main
      BY <1>2, <3>1
    <3> QED
      BY <1>2, <3>1, <3>2, <3>3
  <2>8. \A d, e \in OnMain' : d = e
    BY <2>1 DEF FlowOK, IInv
  <2> QED
    BY <2>6, <2>7, <2>8 DEF FlowOK
<1>6. OwesOK' /\ ManagerOK'
  BY <1>1, <1>2, <1>3 DEF OwesOK, ManagerOK, Known, IInv
<1>7. GoneOK' /\ LateOnlyAfterDaemons'
  BY <1>1, <1>2, <1>3, PhasesPrimed DEF GoneOK, LateOnlyAfterDaemons, IInv
<1> QED
  BY <1>2, <1>4, <1>5, <1>6, <1>7 DEF IInv

LEMMA RunDaemonIInv ==
  ASSUME IInv, NEW c \in Callables, NEW k \in 1..MaxPhases[c], RunDaemon(c, k) PROVE IInv'
<1>1. /\ NextPhase(c, k, <<c, k>>) /\ plan[c][k] = "daemon"
      /\ Leaves(flow[c].on, None) /\ UNCHANGED manager
      /\ <<c, k>> \in Threads \cup {Main}
  BY ThreadPairs DEF RunDaemon
<1>2. /\ flow[c].at \in {"called", "executing"}
      /\ flow'[c].at = "running" /\ flow'[c].on = <<c, k>>
      /\ \A d \in Callables : d # c => flow'[d] = flow[d]
      /\ UNCHANGED <<plan, ran, late, main, invocation>>
      /\ PlanOK' /\ QueueOK' /\ CallsOK'
      /\ data' \in [Callables -> Seq(Nat)]
      /\ flow' \in [Callables -> [at : FlowAt, phase : Nat, on : Threads \cup {Main}, rest : Seq(Nat)]]
  BY <1>1, NextPhaseFacts
<1>3. /\ Made' = Made \cup {<<c, k>>} /\ Managed' = Managed
      /\ <<c, k>> \notin ended /\ owes[<<c, k>>] = None /\ <<c, k>> # Main /\ flow[c].on # <<c, k>>
  BY <1>1, NextThread
<1>4. /\ owes' = owes /\ ended' \subseteq Threads /\ ended' \subseteq ended \cup {flow[c].on}
      /\ \A d \in Callables : d # c /\ flow[d].at \notin {"idle", "joined"} => flow[d].on \notin ended'
      /\ OwesOK' /\ ManagerOK' /\ GoneOK' /\ LateOnlyAfterDaemons'
  BY <1>1, <1>2, <1>3, FlowLeaves
<1>5. TypeOK'
  BY <1>1, <1>2, <1>4 DEF IInv, TypeOK
<1>6. FlowOK'
  <2>1. OnMain' \subseteq OnMain
    BY <1>2, <1>3 DEF OnMain
  <2>2. <<c, k>>[1] = c /\ <<c, k>> \notin ended'
    BY <1>3, <1>4
  <2>6. ASSUME NEW d \in Callables
        PROVE  /\ flow'[d].on # Main => flow'[d].on \in Made' /\ flow'[d].on[1] = d
               /\ flow'[d].at \in {"idle", "called"} => flow'[d].on = Main
               /\ flow'[d].at \notin {"idle", "joined"} =>
                    flow'[d].on \notin ended' /\ owes'[flow'[d].on] = None
    <3>1. CASE d = c
      BY <1>2, <1>3, <1>4, <2>2, <3>1 DEF FlowOK, IInv
    <3>2. CASE d # c
      BY <1>2, <1>3, <1>4, <3>2 DEF FlowOK, IInv
    <3> QED
      BY <3>1, <3>2
  <2>7. ASSUME main' # "calling"
        PROVE  owes'[Main] = None /\ \A d \in Callables : flow'[d].on = Main => flow'[d].at = "joined"
    <3>1. /\ main # "calling" /\ owes[Main] = None
          /\ \A d \in Callables : flow[d].on = Main => flow[d].at = "joined"
      BY <1>2, <2>7 DEF FlowOK, IInv
    <3>2. owes'[Main] = None
      BY <1>4, <3>1
    <3>3. flow'[c].on # Main
      BY <1>2, <1>3
    <3> QED
      BY <1>2, <3>1, <3>2, <3>3
  <2>8. \A d, e \in OnMain' : d = e
    BY <2>1 DEF FlowOK, IInv
  <2> QED
    BY <2>6, <2>7, <2>8 DEF FlowOK
<1> QED
  BY <1>2, <1>4, <1>5, <1>6 DEF IInv

LEMMA RunManagedIInv ==
  ASSUME IInv, NEW c \in Callables, NEW k \in 1..MaxPhases[c], RunManaged(c, k) PROVE IInv'
<1>1. /\ NextPhase(c, k, <<c, k>>) /\ plan[c][k] = "managed"
      /\ Leaves(flow[c].on, <<c, k>>)
      /\ manager' = [manager EXCEPT !.made = TRUE]
      /\ <<c, k>> \in Threads \cup {Main}
  BY ThreadPairs DEF RunManaged
<1>2. /\ flow[c].at \in {"called", "executing"} /\ main \notin {"exited", "terminated"}
      /\ flow'[c].at = "running" /\ flow'[c].on = <<c, k>>
      /\ \A d \in Callables : d # c => flow'[d] = flow[d]
      /\ UNCHANGED <<plan, ran, late, main, invocation>>
      /\ PlanOK' /\ QueueOK' /\ CallsOK'
      /\ data' \in [Callables -> Seq(Nat)]
      /\ flow' \in [Callables -> [at : FlowAt, phase : Nat, on : Threads \cup {Main}, rest : Seq(Nat)]]
      /\ Started(c) = 1..Len(ran[c]) /\ k = Len(ran[c]) + 1 /\ Len(ran[c]) \in Nat
  <2>1. Len(ran[c]) \in Nat
    BY DEF IInv, TypeOK
  <2> QED
    BY <1>1, <2>1, NextPhaseFacts
<1>3. /\ Made' = Made \cup {<<c, k>>} /\ Managed' = Managed \cup {<<c, k>>} /\ <<c, k>> \in Threads
      /\ <<c, k>> \notin ended /\ owes[<<c, k>>] = None /\ <<c, k>> # Main /\ flow[c].on # <<c, k>>
  BY <1>1, NextThread
<1>4. PICK o : o = flow[c].on
  OBVIOUS
<1>5. /\ o \in Threads \cup {Main} /\ o \notin ended /\ owes[o] = None
      /\ o # Main => o \in Made /\ o[1] = c
      /\ \A d \in Callables : d # c /\ flow[d].at \notin {"idle", "joined"} => flow[d].on # o
  BY <1>2, <1>4, FlowThread DEF IInv
<1>6. /\ owes' = [owes EXCEPT ![o] = <<c, k>>] /\ <<c, k>> # None
      /\ owes \in [Threads \cup {Main} -> Threads \cup {None}]
  BY <1>1, <1>3, <1>4, ThreadPairs DEF Leaves, IInv, TypeOK
<1>7. ended' = ended
  BY <1>1, <1>6 DEF Leaves
<1>8. owes'[o] = <<c, k>> /\ \A th : th # o => owes'[th] = owes[th]
  BY <1>5, <1>6
<1>9. main # "calling" => o # Main
  BY <1>2, <1>4 DEF IInv, FlowOK
<1>10. o # Main => o[2] < k
  <2>1. o # Main => o[2] \in 1..Len(ran[c])
    BY <1>2, <1>5 DEF Made
  <2> QED
    BY <1>2, <2>1
<1>11. TypeOK'
  <2>1. manager' \in [made : BOOLEAN, locked : BOOLEAN, threads : Seq(Threads), joins : Seq(Threads)]
    BY <1>1 DEF IInv, TypeOK
  <2>2. owes' \in [Threads \cup {Main} -> Threads \cup {None}]
    BY <1>3, <1>5, <1>6
  <2> QED
    BY <1>2, <1>7, <2>1, <2>2 DEF IInv, TypeOK
<1>12. FlowOK'
  <2>1. OnMain' \subseteq OnMain
    BY <1>2, <1>3 DEF OnMain
  <2>2. <<c, k>>[1] = c /\ <<c, k>> \in Made' /\ owes'[<<c, k>>] = None
    BY <1>3, <1>4, <1>8
  <2>3. \A d \in Callables : d # c /\ flow[d].at \notin {"idle", "joined"} =>
          owes'[flow[d].on] = None
    BY <1>5, <1>8 DEF IInv, FlowOK
  <2>4. main # "calling" => owes'[Main] = None
    BY <1>8, <1>9 DEF IInv, FlowOK
  <2>6. ASSUME NEW d \in Callables
        PROVE  /\ flow'[d].on # Main => flow'[d].on \in Made' /\ flow'[d].on[1] = d
               /\ flow'[d].at \in {"idle", "called"} => flow'[d].on = Main
               /\ flow'[d].at \notin {"idle", "joined"} =>
                    flow'[d].on \notin ended' /\ owes'[flow'[d].on] = None
    <3>1. CASE d = c
      BY <1>2, <1>3, <1>7, <2>2, <3>1
    <3>2. CASE d # c
      <4>1. flow'[d] = flow[d]
        BY <1>2, <3>2
      <4>2. /\ flow[d].on # Main => flow[d].on \in Made /\ flow[d].on[1] = d
            /\ flow[d].at \in {"idle", "called"} => flow[d].on = Main
            /\ flow[d].at \notin {"idle", "joined"} => flow[d].on \notin ended
        BY DEF FlowOK, IInv
      <4> QED
        BY <1>3, <1>7, <2>3, <3>2, <4>1, <4>2
    <3> QED
      BY <3>1, <3>2
  <2>7. ASSUME main' # "calling"
        PROVE  owes'[Main] = None /\ \A d \in Callables : flow'[d].on = Main => flow'[d].at = "joined"
    <3>1. /\ main # "calling" /\ owes[Main] = None
          /\ \A d \in Callables : flow[d].on = Main => flow[d].at = "joined"
      BY <1>2, <2>7 DEF FlowOK, IInv
    <3>2. owes'[Main] = None
      BY <2>4, <3>1
    <3>3. flow'[c].on # Main
      BY <1>2, <1>3
    <3> QED
      BY <1>2, <3>1, <3>2, <3>3
  <2>8. \A d, e \in OnMain' : d = e
    BY <2>1 DEF FlowOK, IInv
  <2> QED
    BY <2>6, <2>7, <2>8 DEF FlowOK
<1>13. OwesOK'
  <2> SUFFICES ASSUME NEW th \in Threads \cup {Main}, owes'[th] # None
               PROVE  /\ owes'[th] \in Made' /\ plan[owes'[th][1]][owes'[th][2]] = "managed"
                      /\ th # Main => th \in Made' /\ th \notin ended /\ th[1] = owes'[th][1]
                                      /\ th[2] < owes'[th][2]
    BY <1>2, <1>7 DEF OwesOK
  <2>1. CASE th = o
    BY <1>1, <1>3, <1>5, <1>8, <1>10, <2>1
  <2>2. CASE th # o
    BY <1>3, <1>8, <2>2 DEF IInv, OwesOK
  <2> QED
    BY <2>1, <2>2
<1>14. ManagerOK'
  <2>1. manager'.joins = manager.joins /\ manager'.threads = manager.threads /\ manager'.made = TRUE
    BY <1>1 DEF IInv, TypeOK
  <2>2. \A x : Known(x)' <=> Known(x)
    BY <2>1 DEF Known
  <2>3. \A x \in Managed' \ ended' : Known(x)' \/ \E q \in Threads \cup {Main} : owes'[q] = x
    <3> SUFFICES ASSUME NEW x \in Managed' \ ended, ~Known(x)
                 PROVE  \E q \in Threads \cup {Main} : owes'[q] = x
      BY <1>7, <2>2
    <3>1. CASE x = <<c, k>>
      BY <1>5, <1>8, <3>1
    <3>2. CASE x # <<c, k>>
      <4>1. x \in Managed \ ended /\ x \in Threads
        BY <1>3, <3>2 DEF Managed, Made
      <4>2. PICK q \in Threads \cup {Main} : owes[q] = x
        BY <4>1 DEF IInv, ManagerOK
      <4>3. q # o
        BY <1>5, <4>1, <4>2, ThreadPairs
      <4> QED
        BY <1>8, <4>2, <4>3
    <3> QED
      BY <3>1, <3>2
  <2> QED
    BY <1>2, <1>3, <1>7, <2>1, <2>3 DEF ManagerOK, IInv
<1>15. GoneOK'
  <2>1. ASSUME main \in {"leaving", "destroyed", "exited", "terminated"}
        PROVE  ~Daemonless(<<c, k>>)
    <3>1. o \in Made /\ o[1] = c /\ o[2] < k /\ o[2] \in Nat
      BY <1>5, <1>9, <1>10, <2>1, ThreadPairs DEF Made
    <3>2. PICK j \in 1..o[2] : plan[c][j] = "daemon"
      BY <1>5, <2>1, <3>1, GoneFlow
    <3>3. j \in 1..k
      BY <3>1, <3>2
    <3> QED
      BY <3>2, <3>3 DEF Daemonless
  <2>2. manager'.threads = manager.threads
    BY <1>1 DEF IInv, TypeOK
  <2> QED
    BY <1>2, <1>3, <1>7, <2>1, <2>2, PhasesPrimed DEF GoneOK, IInv
<1>16. LateOnlyAfterDaemons'
  BY <1>2 DEF LateOnlyAfterDaemons, IInv
<1> QED
  BY <1>2, <1>11, <1>12, <1>13, <1>14, <1>15, <1>16 DEF IInv

-----------------------------------------------------------------------------
LEMMA NextIInv == IInv /\ [Next]_vars => IInv'
<1> SUFFICES ASSUME IInv, [Next]_vars PROVE IInv'
  OBVIOUS
<1>1. CASE MainStep
  BY <1>1, AllCalledIInv, WaitEndsIInv, LockManagerIInv, TestThreadsIInv, JoinBackIInv,
     DestroyMembersIInv, ExitIInv DEF MainStep
<1>2. ASSUME NEW c \in Callables, Step(c)
      PROVE  IInv'
  BY <1>2, CallIInv, RunProcedureIInv, JoinIInv, CallbackIInv, RunSerialIInv, RunDaemonIInv,
     RunManagedIInv DEF Step
<1>3. ASSUME NEW th \in Threads \cup {Main}, Emplace(th)
      PROVE  IInv'
  BY <1>3, EmplaceIInv
<1>4. CASE UNCHANGED vars
  <2>1. UNCHANGED <<plan, data, flow, ran, owes, ended, manager, late, main, invocation>>
    BY <1>4 DEF vars
  <2>2. TypeOK'
    BY <2>1 DEF IInv, TypeOK
  <2>3. FlowOK'
    BY <2>1, CallablesAlone DEF FlowOK, OnMain, IInv
  <2>4. ManagerOK' /\ GoneOK' /\ LateOnlyAfterDaemons'
    BY <2>1, CallablesAlone DEF ManagerOK, Known, GoneOK, LateOnlyAfterDaemons, IInv
  <2> QED
    BY <2>1, <2>2, <2>3, <2>4, CallablesAlone DEF IInv
<1> QED
  BY <1>1, <1>2, <1>3, <1>4 DEF Next

\* The inductive invariant: the queues hold what has not run, a flow is on a
\* thread that has not ended, and a managed thread is known to the manager or
\* owed to it by an earlier thread of the same callable.
THEOREM PhasesIInv == Spec => []IInv
<1> QED
  BY InitIInv, NextIInv, PTL DEF Spec

\* The variables keep their types: no queue, thread or counter gets out of range.
THEOREM PhasesTypeOK == Spec => []TypeOK
<1>1. IInv => TypeOK
  BY DEF IInv
<1> QED
  BY <1>1, PhasesIInv, PTL

\* The phases of a callable run in their order and once, whatever portals start
\* them, and all of them before the callback of their invocation.
THEOREM PhasesInOrder == Spec => []PhasesOnceInOrder
<1>1. IInv => PhasesOnceInOrder
  <2> SUFFICES ASSUME IInv, NEW c \in Callables
               PROVE  /\ ran[c] = [k \in 1..Len(ran[c]) |-> k]
                      /\ invocation.calledBack \/ invocation.number > 1 => Len(ran[c]) = Len(plan[c])
    BY DEF PhasesOnceInOrder
  <2>1. invocation.calledBack => flow[c].at \in {"callback", "joined"}
    BY DEF IInv, CallsOK, Unjoined
  <2> QED
    BY <2>1 DEF IInv, QueueOK, QueueOf
<1> QED
  BY <1>1, PhasesIInv, PTL

\* The destructor of the ThreadManager goes on until every callable that no
\* daemon has a part in has run its last phase and joined.
THEOREM PhasesManagedJoined == Spec => []ManagedThreadsJoined
<1>1. IInv => ManagedThreadsJoined
  <2> SUFFICES ASSUME IInv, main \in {"leaving", "destroyed", "exited", "terminated"},
                      NEW c \in Callables, \A k \in DOMAIN plan[c] : plan[c][k] # "daemon"
               PROVE  flow[c].at = "joined" /\ Len(ran[c]) = Len(plan[c])
    BY DEF ManagedThreadsJoined
  <2>1. flow[c].at = "joined"
    <3> SUFFICES ASSUME flow[c].at # "joined" PROVE FALSE
      OBVIOUS
    <3>1. flow[c].on # Main
      BY DEF IInv, FlowOK
    <3>2. flow[c].at # "idle"
      BY <3>1 DEF IInv, FlowOK
    <3>3. flow[c].on \in Made /\ flow[c].on[1] = c /\ flow[c].on \notin ended
      BY <3>1, <3>2 DEF IInv, FlowOK
    <3>4. PICK j \in 1..flow[c].on[2] : plan[c][j] = "daemon"
      BY <3>3, GoneFlow
    <3>5. flow[c].on[2] \in 1..Len(plan[c]) /\ plan[c] \in Seq(Portals)
      BY <3>3 DEF Made, Started, IInv, TypeOK
    <3>6. j \in DOMAIN plan[c]
      BY <3>4, <3>5
    <3> QED
      BY <3>4, <3>6
  <2> QED
    BY <2>1 DEF IInv, QueueOK, QueueOf
<1> QED
  BY <1>1, PhasesIInv, PTL

\* A thread that is emplaced after the manager has looked for the last time was
\* started after a daemon, and the program is terminated for no other reason.
THEOREM PhasesLateAfterDaemons == Spec => []LateOnlyAfterDaemons
<1>1. IInv => LateOnlyAfterDaemons
  BY DEF IInv
<1> QED
  BY <1>1, PhasesIInv, PTL
=============================================================================
