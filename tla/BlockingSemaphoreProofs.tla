----------------------- MODULE BlockingSemaphoreProofs -----------------------
(***************************************************************************)
(* For any number of rounds and of spurious wake-ups: when wait() rearms   *)
(* the flags of BlockingBinarySemaphore, returns or leaves the semaphore   *)
(* to be destroyed, no thread is inside release(); and every step is a     *)
(* step of Semaphore or a stuttering one.                                  *)
(***************************************************************************)
EXTENDS BlockingSemaphore, TLAPS

LEMMA RoundNumbers ==
  /\ \A n \in 0..Rounds : n \in Nat
  /\ \A n \in Releasers : n \in 0..Rounds /\ n > 0
BY SemaphoreAssumption DEF Releasers

LEMMA InitRoundInv == Init => RoundInv
<1> SUFFICES ASSUME Init PROVE RoundInv
  OBVIOUS
<1> USE SemaphoreAssumption DEF Init, Releasers
<1>1. TypeOK
  <2>1. ready \in BOOLEAN /\ notified \in BOOLEAN
    BY Zenon
  <2>2. round \in 0..Rounds /\ spurious \in 0..MaxSpurious
    BY SMT
  <2> QED
    BY <2>1, <2>2 DEF TypeOK, WaiterAt, ReleaserAt
<1>2. MutexOK
  BY DEF MutexOK
<1>3. RoundsOK
  BY DEF RoundsOK
<1>4. NotifiedOK
  BY DEF NotifiedOK
<1> QED
  BY <1>1, <1>2, <1>3, <1>4 DEF RoundInv

\* Main moves on, and no releaser does.
LEMMA WaitingRoundInv ==
  ASSUME RoundInv, Start \/ Destroy \/ Waiting \/ SpuriousWake
  PROVE  RoundInv'
<1> USE SemaphoreAssumption
        DEF RoundInv, TypeOK, MutexOK, RoundsOK, NotifiedOK, Releasers, WaiterAt, ReleaserAt
<1>1. CASE Start
  <2>1. round' = round + 1 /\ round' \in Releasers /\ rpc[round'] = "none"
    BY <1>1 DEF Start
  <2>2. rpc' = [rpc EXCEPT ![round'] = "lock"] /\ wpc' = "lock"
        /\ UNCHANGED <<ready, notified, mtx, spurious>>
    BY <1>1 DEF Start
  <2>3. TypeOK'
    <3>1. ready' \in BOOLEAN /\ notified' \in BOOLEAN
      BY <2>2, Zenon
    <3>2. round' \in 0..Rounds
      BY <2>1, RoundNumbers, Zenon
    <3>3. rpc' \in [Releasers -> ReleaserAt]
      BY <2>2
    <3> QED
      BY <2>2, <3>1, <3>2, <3>3
  <2>4. MutexOK'
    BY <1>1, <2>1, <2>2 DEF Start
  <2>5. RoundsOK'
    BY <1>1, <2>1, <2>2 DEF Start
  <2>6. NotifiedOK'
    BY <1>1, <2>2 DEF Start
  <2> QED
    BY <2>3, <2>4, <2>5, <2>6
<1>2. CASE Destroy
  BY <1>2 DEF Destroy
<1>3. CASE WaitLock
  BY <1>3 DEF WaitLock
<1>4. CASE WaitTest
  BY <1>4 DEF WaitTest
<1>5. CASE Spin
  BY <1>5 DEF Spin
<1>6. CASE RearmReady
  BY <1>6 DEF RearmReady
<1>7. CASE RearmNotified
  BY <1>7 DEF RearmNotified
<1>8. CASE SpuriousWake
  BY <1>8 DEF SpuriousWake
<1> QED
  BY <1>1, <1>2, <1>3, <1>4, <1>5, <1>6, <1>7, <1>8 DEF Waiting

\* The releaser that moves is the one of the current round, and Main is inside
\* wait(), before the end of the loop on notified_.
LEMMA OnlyThisRound ==
  ASSUME RoundInv, NEW r \in Releasers, rpc[r] \notin {"none", "done"}
  PROVE  /\ r = round
         /\ wpc \in {"lock", "test", "asleep", "spin"}
         /\ ~notified
<1>1. r \in Nat /\ round \in Nat
  BY SemaphoreAssumption DEF RoundInv, TypeOK, Releasers
<1>2. r = round
  <2>1. ~(r < round) /\ ~(r > round)
    BY DEF RoundInv, RoundsOK
  <2> QED
    BY <1>1, <2>1
<1>3. ~notified
  BY <1>2, Zenon DEF RoundInv, NotifiedOK
<1>4. round > 0
  BY <1>2, SemaphoreAssumption DEF Releasers
<1>5. wpc \in {"lock", "test", "asleep", "spin"}
  BY <1>2, <1>4 DEF RoundInv, TypeOK, RoundsOK, WaiterAt
<1> QED
  BY <1>2, <1>3, <1>5

LEMMA ReleasingRoundInv ==
  ASSUME RoundInv, NEW r \in Releasers, Releasing(r)
  PROVE  RoundInv'
<1>1. r = round /\ wpc \in {"lock", "test", "asleep", "spin"} /\ ~notified
  BY OnlyThisRound DEF Releasing, ReleaseLock, ReleaseSet, ReleaseUnlock, ReleaseNotify,
     ReleaseStore, Step
<1> USE SemaphoreAssumption, <1>1
        DEF RoundInv, TypeOK, MutexOK, RoundsOK, NotifiedOK, Releasers, WaiterAt, ReleaserAt, Step
<1>2. CASE ReleaseLock(r)
  BY <1>2 DEF ReleaseLock
<1>3. CASE ReleaseSet(r)
  BY <1>3 DEF ReleaseSet
<1>4. CASE ReleaseUnlock(r)
  BY <1>4 DEF ReleaseUnlock
<1>5. CASE ReleaseNotify(r)
  BY <1>5 DEF ReleaseNotify
<1>6. CASE ReleaseStore(r)
  BY <1>6 DEF ReleaseStore
<1> QED
  BY <1>2, <1>3, <1>4, <1>5, <1>6 DEF Releasing

\* The mutex and notified_ agree with where the two threads are, round after
\* round.
THEOREM SemaphoreRoundInv == Spec => []RoundInv
<1>1. ASSUME RoundInv, [Next]_vars PROVE RoundInv'
  <2>1. CASE UNCHANGED vars
    BY <1>1, <2>1 DEF vars, RoundInv, TypeOK, MutexOK, RoundsOK, NotifiedOK
  <2>2. CASE Start \/ Destroy \/ Waiting \/ SpuriousWake
    BY <1>1, <2>2, WaitingRoundInv
  <2>3. CASE \E r \in Releasers : Releasing(r)
    BY <1>1, <2>3, ReleasingRoundInv
  <2> QED
    BY <1>1, <2>1, <2>2, <2>3 DEF Next
<1> QED
  BY InitRoundInv, <1>1, PTL DEF Spec

\* wait() is through with notified_ only when release() is through with the
\* semaphore: it can be rearmed without the lock, used again, or destroyed.
THEOREM SemaphoreNobodyInside == Spec => []NobodyInsideAfterWait
<1>1. RoundInv => NobodyInsideAfterWait
  <2> SUFFICES ASSUME RoundInv, wpc \in {"rearm_ready", "rearm_notified", "outside", "gone"}
               PROVE  (\A r \in Releasers : rpc[r] \in {"none", "done"}) /\ mtx = Nobody
    BY DEF NobodyInsideAfterWait
  <2>1. \A r \in Releasers : rpc[r] \in {"none", "done"}
    BY OnlyThisRound
  <2>2. mtx = Nobody
    BY <2>1 DEF RoundInv, TypeOK, MutexOK
  <2> QED
    BY <2>1, <2>2
<1> QED
  BY SemaphoreRoundInv, <1>1, PTL

-----------------------------------------------------------------------------
(***************************************************************************)
(* The wake-up: ready_ says how far the releaser of the round is.          *)
(***************************************************************************)
WakeInv == ReadyOK /\ NoLostWakeup

LEMMA Places ==
  ASSUME RoundInv
  PROVE  /\ wpc \in WaiterAt /\ rpc \in [Releasers -> ReleaserAt]
         /\ wpc \notin {"outside", "gone"} => round \in Releasers
BY SemaphoreAssumption DEF RoundInv, TypeOK, RoundsOK, Releasers

LEMMA WaitingWakeInv ==
  ASSUME RoundInv, WakeInv, Start \/ Destroy \/ Waiting \/ SpuriousWake
  PROVE  WakeInv'
<1> USE DEF WakeInv, ReadyOK, NoLostWakeup
<1>1. CASE Start
  <2>1. round' \in Releasers
    BY <1>1, SemaphoreAssumption DEF Start, RoundInv, TypeOK, Releasers
  <2>2. rpc'[round'] = "lock" /\ wpc' = "lock" /\ wpc = "outside"
    BY <1>1, <2>1, Places DEF Start
  <2>3. ~ready'
    BY <1>1, Zenon DEF Start
  <2> QED
    BY <2>2, <2>3
<1>2. CASE Destroy
  BY <1>2 DEF Destroy
<1>3. CASE WaitLock
  BY <1>3 DEF WaitLock
<1>4. CASE WaitTest
  <2>1. /\ wpc = "test" /\ UNCHANGED <<ready, notified, round, rpc>> /\ mtx = Main
        /\ wpc' = IF ready THEN "spin" ELSE "asleep"
    BY <1>4 DEF WaitTest, RoundInv, MutexOK
  <2>2. rpc[round] \notin {"set", "unlock"}
    BY <2>1, SemaphoreAssumption, Places DEF RoundInv, MutexOK, Releasers
  <2> QED
    BY <2>1, <2>2, Places DEF ReleaserAt
<1>5. CASE Spin
  BY <1>5 DEF Spin
<1>6. CASE RearmReady
  BY <1>6 DEF RearmReady
<1>7. CASE RearmNotified
  BY <1>7 DEF RearmNotified
<1>8. CASE SpuriousWake
  BY <1>8 DEF SpuriousWake
<1> QED
  BY <1>1, <1>2, <1>3, <1>4, <1>5, <1>6, <1>7, <1>8 DEF Waiting

LEMMA ReleasingWakeInv ==
  ASSUME RoundInv, WakeInv, NEW r \in Releasers, Releasing(r)
  PROVE  WakeInv'
<1> USE DEF WakeInv, ReadyOK, NoLostWakeup
<1>1. r = round /\ wpc \in {"lock", "test", "asleep", "spin"} /\ ~notified
  BY OnlyThisRound DEF Releasing, ReleaseLock, ReleaseSet, ReleaseUnlock, ReleaseNotify,
     ReleaseStore, Step
<1>2. \A from, to \in ReleaserAt : Step(r, from, to) => rpc[round] = from /\ rpc'[round] = to
  BY <1>1, Places DEF Step
<1> USE DEF ReleaserAt
<1>3. CASE ReleaseLock(r)
  <2>1. rpc[round] = "lock" /\ rpc'[round] = "set"
    BY <1>2, <1>3 DEF ReleaseLock
  <2> QED
    BY <1>1, <1>3, <2>1 DEF ReleaseLock
<1>4. CASE ReleaseSet(r)
  <2>1. rpc[round] = "set" /\ rpc'[round] = "unlock"
    BY <1>2, <1>4 DEF ReleaseSet
  <2> QED
    BY <1>1, <1>4, <2>1 DEF ReleaseSet
<1>5. CASE ReleaseUnlock(r)
  <2>1. rpc[round] = "unlock" /\ rpc'[round] = "notify"
    BY <1>2, <1>5 DEF ReleaseUnlock
  <2> QED
    BY <1>1, <1>5, <2>1 DEF ReleaseUnlock
<1>6. CASE ReleaseNotify(r)
  <2>1. rpc[round] = "notify" /\ rpc'[round] = "store"
    BY <1>2, <1>6 DEF ReleaseNotify
  <2> QED
    BY <1>1, <1>6, <2>1 DEF ReleaseNotify
<1>7. CASE ReleaseStore(r)
  <2>1. rpc[round] = "store" /\ rpc'[round] = "done"
    BY <1>2, <1>7 DEF ReleaseStore
  <2> QED
    BY <1>1, <1>7, <2>1 DEF ReleaseStore
<1> QED
  BY <1>3, <1>4, <1>5, <1>6, <1>7 DEF Releasing

\* The flags and the mutex agree with where the two threads are, round after
\* round: the inductive invariant.
THEOREM SemaphoreIInv == Spec => []IInv
<1>1. Init => WakeInv
  BY DEF Init, WakeInv, ReadyOK, NoLostWakeup
<1>2. RoundInv /\ WakeInv /\ [Next]_vars => WakeInv'
  <2>1. UNCHANGED vars /\ WakeInv => WakeInv'
    BY DEF vars, WakeInv, ReadyOK, NoLostWakeup
  <2> QED
    BY <2>1, WaitingWakeInv, ReleasingWakeInv DEF Next
<1>3. RoundInv /\ WakeInv <=> IInv
  BY DEF IInv, WakeInv
<1> QED
  BY <1>1, <1>2, <1>3, SemaphoreRoundInv, PTL DEF Spec

\* Main never sleeps in cond_.wait when the notification of its round has been
\* sent, whatever spurious wake-ups there are and in whatever round it is, and
\* what it waits for with mtx_ free or in the loop on notified_ is still to be
\* done by the releaser: in no state do the two wait for each other.
THEOREM SemaphoreNoLostWakeup == Spec => []NoLostWakeup
<1>1. IInv => NoLostWakeup
  BY DEF IInv
<1> QED
  BY <1>1, SemaphoreIInv, PTL

-----------------------------------------------------------------------------
(***************************************************************************)
(* The refinement.                                                         *)
(***************************************************************************)
LEMMA InitS == Init => S!Init
BY DEF Init, S!Init

\* What Main does between the start of a round and the end of its wait(), and
\* a releaser before its last store, changes nothing of it.
LEMMA StutterS ==
  ASSUME UNCHANGED round,
         (wpc' \in {"outside", "gone"}) = (wpc \in {"outside", "gone"}),
         (wpc' = "gone") = (wpc = "gone"),
         (rpc'[round] # "done") = (rpc[round] # "done")
  PROVE  UNCHANGED S!vars
BY DEF S!vars

LEMMA StepS ==
  ASSUME RoundInv, [Next]_vars
  PROVE  [S!Next]_S!vars
<1>1. CASE UNCHANGED vars
  BY <1>1, StutterS DEF vars
<1>2. CASE Start
  <2>1. /\ round \in Nat /\ round' = round + 1 /\ round' \in Releasers
        /\ wpc = "outside" /\ wpc' = "lock"
        /\ rpc' = [rpc EXCEPT ![round'] = "lock"]
    BY <1>2, SemaphoreAssumption DEF Start, RoundInv, TypeOK, Releasers
  <2>2. rpc'[round'] = "lock"
    BY <2>1 DEF RoundInv, TypeOK
  <2>3. ~(round > 0 /\ rpc[round] # "done")
    BY <2>1 DEF RoundInv, RoundsOK
  <2> QED
    BY <2>1, <2>2, <2>3 DEF S!Next, S!Start
<1>3. CASE Destroy
  BY <1>3 DEF Destroy, S!Next, S!Destroy
<1>4. CASE RearmNotified
  <2>1. /\ round' = round /\ rpc' = rpc
        /\ wpc = "rearm_notified" /\ wpc' = "outside"
    BY <1>4 DEF RearmNotified
  <2>2. round \in Nat
    BY RoundNumbers DEF RoundInv, TypeOK
  <2>3. round > 0 /\ rpc[round] = "done"
    BY <2>1 DEF RoundInv, RoundsOK
  <2>4. round - 1 < round /\ round = (round - 1) + 1
    BY <2>2
  <2>5. (wpc' = "gone") = (wpc = "gone")
    BY <2>1
  <2>6. S!Pass
    BY <2>1, <2>3, <2>4, <2>5, Zenon DEF S!Pass
  <2> QED
    BY <2>6 DEF S!Next
<1>5. CASE WaitLock \/ WaitTest \/ Spin \/ RearmReady \/ SpuriousWake
  <2>1. /\ round' = round /\ rpc' = rpc
        /\ wpc \notin {"outside", "gone"} /\ wpc' \notin {"outside", "gone"}
    BY <1>5 DEF WaitLock, WaitTest, Spin, RearmReady, SpuriousWake
  <2> QED
    BY <2>1, StutterS
<1>6. ASSUME NEW r \in Releasers, Releasing(r)
      PROVE  [S!Next]_S!vars
  <2>1. r = round /\ wpc \in {"lock", "test", "asleep", "spin"}
    BY <1>6, OnlyThisRound DEF Releasing, ReleaseLock, ReleaseSet, ReleaseUnlock,
       ReleaseNotify, ReleaseStore, Step
  <2>2. CASE ReleaseStore(r)
    <3>1. /\ round \in Nat /\ round > 0 /\ round' = round /\ wpc' = wpc
          /\ rpc[round] = "store" /\ rpc'[round] = "done"
      BY <2>1, <2>2, SemaphoreAssumption DEF ReleaseStore, Step, RoundInv, TypeOK, Releasers
    <3> QED
      BY <3>1 DEF S!Next, S!Release
  <2>3. CASE ReleaseLock(r) \/ ReleaseSet(r) \/ ReleaseUnlock(r) \/ ReleaseNotify(r)
    <3>1. round' = round /\ rpc[round] # "done" /\ rpc'[round] # "done"
      BY <2>1, <2>3 DEF ReleaseLock, ReleaseSet, ReleaseUnlock, ReleaseNotify, Step,
         RoundInv, TypeOK
    <3>2. wpc \notin {"outside", "gone"} /\ wpc' \notin {"outside", "gone"}
      BY <2>1, <2>3 DEF ReleaseLock, ReleaseSet, ReleaseUnlock, ReleaseNotify
    <3> QED
      BY <3>1, <3>2, StutterS
  <2> QED
    BY <1>6, <2>2, <2>3 DEF Releasing
<1> QED
  BY <1>1, <1>2, <1>3, <1>4, <1>5, <1>6 DEF Next, Waiting

\* Every wait() returns for one release() of its own round, after it, in every
\* round: the safety part of Semaphore.
THEOREM SemaphoreRefines == Spec => S!SafeSpec
<1>1. Init => S!Init
  BY InitS
<1>2. RoundInv /\ [Next]_vars => [S!Next]_S!vars
  BY StepS
<1> QED
  BY <1>1, <1>2, SemaphoreRoundInv, PTL DEF Spec, S!SafeSpec
=============================================================================
