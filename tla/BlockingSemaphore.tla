--------------------------- MODULE BlockingSemaphore ---------------------------
(***************************************************************************)
(* BlockingBinarySemaphore (binary_semaphore.hpp), used for one invocation *)
(* after another as in Semaphore.  release() sets ready_ under mtx_, wakes *)
(* the waiter and, with its last access, sets notified_; wait() returns    *)
(* only after notified_, and rearms both flags with no lock held.          *)
(*                                                                         *)
(* Locking, a store, unlocking, notifying are steps of their own.          *)
(***************************************************************************)
EXTENDS Naturals

CONSTANTS Main,          \* the thread that waits
          Nobody,
          Rounds,        \* bound on the invocations
          MaxSpurious    \* bound on the spurious wake-ups of cond_.wait

ASSUME SemaphoreAssumption ==
  /\ Rounds \in Nat /\ MaxSpurious \in Nat
  /\ Main \notin 1..Rounds /\ Nobody \notin 1..Rounds \cup {Main}

Releasers == 1..Rounds   \* the thread that runs the callback of each round

VARIABLES
  ready, notified,   \* ready_, notified_
  mtx,               \* who owns mtx_
  round,             \* invocations started
  wpc,               \* where Main is, see WaiterAt
  rpc,               \* where each releaser is, see ReleaserAt
  spurious           \* spurious wake-ups so far

vars == <<ready, notified, mtx, round, wpc, rpc, spurious>>

WaiterAt == {"outside", "lock", "test", "asleep", "spin", "rearm_ready", "rearm_notified", "gone"}
ReleaserAt == {"none", "lock", "set", "unlock", "notify", "store", "done"}

Init ==
  /\ ready = FALSE
  /\ notified = FALSE
  /\ mtx = Nobody
  /\ round = 0
  /\ wpc = "outside"
  /\ rpc = [r \in Releasers |-> "none"]
  /\ spurious = 0

\* async_concurrent_invoke_explicit has been called with the callback of this
\* round, and the blocker's destructor calls wait().
Start ==
  /\ wpc = "outside" /\ round < Rounds
  /\ round' = round + 1
  /\ rpc' = [rpc EXCEPT ![round'] = "lock"]
  /\ wpc' = "lock"
  /\ UNCHANGED <<ready, notified, mtx, spurious>>

\* The owner of the semaphore has no more use for it.
Destroy ==
  /\ wpc = "outside"
  /\ wpc' = "gone"
  /\ UNCHANGED <<ready, notified, mtx, round, rpc, spurious>>

-----------------------------------------------------------------------------
(***************************************************************************)
(* wait()                                                                  *)
(***************************************************************************)
\* The unique_lock, and the lock that cond_.wait takes again on its way out.
WaitLock ==
  /\ wpc = "lock" /\ mtx = Nobody
  /\ mtx' = Main
  /\ wpc' = "test"
  /\ UNCHANGED <<ready, notified, round, rpc, spurious>>

\* The predicate under the lock: go on, or unlock and sleep in one go.
WaitTest ==
  /\ wpc = "test"
  /\ mtx' = Nobody
  /\ wpc' = IF ready THEN "spin" ELSE "asleep"
  /\ UNCHANGED <<ready, notified, round, rpc, spurious>>

SpuriousWake ==
  /\ wpc = "asleep" /\ spurious < MaxSpurious
  /\ spurious' = spurious + 1
  /\ wpc' = "lock"
  /\ UNCHANGED <<ready, notified, mtx, round, rpc>>

\* Without the loop.
SpinNot ==
  /\ wpc = "spin"
  /\ wpc' = "rearm_ready"
  /\ UNCHANGED <<ready, notified, mtx, round, rpc, spurious>>

\* The loop on notified_ ends.
Spin ==
  /\ wpc = "spin" /\ notified
  /\ wpc' = "rearm_ready"
  /\ UNCHANGED <<ready, notified, mtx, round, rpc, spurious>>

\* Forgetting notified_.
LeaveNotified ==
  /\ wpc = "rearm_notified"
  /\ wpc' = "outside"
  /\ UNCHANGED <<ready, notified, mtx, round, rpc, spurious>>

RearmReady ==
  /\ wpc = "rearm_ready"
  /\ ready' = FALSE
  /\ wpc' = "rearm_notified"
  /\ UNCHANGED <<notified, mtx, round, rpc, spurious>>

RearmNotified ==
  /\ wpc = "rearm_notified"
  /\ notified' = FALSE
  /\ wpc' = "outside"
  /\ UNCHANGED <<ready, mtx, round, rpc, spurious>>

-----------------------------------------------------------------------------
(***************************************************************************)
(* release()                                                               *)
(***************************************************************************)
Step(r, from, to) == rpc[r] = from /\ rpc' = [rpc EXCEPT ![r] = to]

ReleaseLock(r) ==
  /\ Step(r, "lock", "set") /\ mtx = Nobody
  /\ mtx' = r
  /\ UNCHANGED <<ready, notified, round, wpc, spurious>>

ReleaseSet(r) ==
  /\ Step(r, "set", "unlock")
  /\ ready' = TRUE
  /\ UNCHANGED <<notified, mtx, round, wpc, spurious>>

ReleaseUnlock(r) ==
  /\ Step(r, "unlock", "notify")
  /\ mtx' = Nobody
  /\ UNCHANGED <<ready, notified, round, wpc, spurious>>

\* Without notify_one(): wait() ends only if it has not gone to sleep yet.
NotifyNobody(r) ==
  /\ Step(r, "notify", "store")
  /\ UNCHANGED <<ready, notified, mtx, round, wpc, spurious>>

\* notify_one()
ReleaseNotify(r) ==
  /\ Step(r, "notify", "store")
  /\ wpc' = IF wpc = "asleep" THEN "lock" ELSE wpc
  /\ UNCHANGED <<ready, notified, mtx, round, spurious>>

ReleaseStore(r) ==
  /\ Step(r, "store", "done")
  /\ notified' = TRUE
  /\ UNCHANGED <<ready, mtx, round, wpc, spurious>>

Waiting == WaitLock \/ WaitTest \/ Spin \/ RearmReady \/ RearmNotified
Releasing(r) ==
  \/ ReleaseLock(r) \/ ReleaseSet(r) \/ ReleaseUnlock(r)
  \/ ReleaseNotify(r) \/ ReleaseStore(r)

Next ==
  \/ Start \/ Destroy
  \/ Waiting \/ SpuriousWake
  \/ \E r \in Releasers : Releasing(r)

(***************************************************************************)
(* The two threads run.  mtx_ need not be fair: wait() takes it again only *)
(* after a wake-up, and the spurious ones are finite.                      *)
(***************************************************************************)
Fairness == WF_vars(Waiting) /\ \A r \in Releasers : WF_vars(Releasing(r))

Spec == Init /\ [][Next]_vars /\ Fairness

-----------------------------------------------------------------------------
TypeOK ==
  /\ ready \in BOOLEAN /\ notified \in BOOLEAN
  /\ mtx \in Releasers \cup {Main, Nobody}
  /\ round \in 0..Rounds
  /\ wpc \in WaiterAt
  /\ rpc \in [Releasers -> ReleaserAt]
  /\ spurious \in 0..MaxSpurious

(***************************************************************************)
(* The inductive strengthening of NobodyInsideAfterWait, with the wake-up.  *)
(***************************************************************************)
\* Who owns mtx_ is where its owner is.
MutexOK ==
  /\ mtx = Main <=> wpc = "test"
  /\ \A r \in Releasers : mtx = r <=> rpc[r] \in {"set", "unlock"}

\* The releasers of earlier rounds are through, those of later ones have not
\* begun; Main is inside wait() in some round, and outside only when the
\* releaser of the last one is through.
RoundsOK ==
  /\ \A r \in Releasers : r < round => rpc[r] = "done"
  /\ \A r \in Releasers : r > round => rpc[r] = "none"
  /\ wpc \notin {"outside", "gone"} => round > 0
  /\ wpc \in {"rearm_ready", "rearm_notified", "outside", "gone"} /\ round > 0 =>
       rpc[round] = "done"

\* notified_ is the last store of the releaser of this round, not a leftover.
NotifiedOK ==
  notified => wpc \notin {"outside", "gone"} /\ rpc[round] = "done"

RoundInv == TypeOK /\ MutexOK /\ RoundsOK /\ NotifiedOK

\* Nor is ready_: it is set from the store in release() until Main has left the
\* loop on notified_, whose last store is not lost either.
ReadyOK ==
  /\ ready => wpc \notin {"rearm_notified", "outside", "gone"}
  /\ wpc \in {"lock", "test", "asleep", "spin"} =>
       /\ rpc[round] \in IF ready THEN {"unlock", "notify", "store", "done"} ELSE {"lock", "set"}
       /\ rpc[round] = "done" => notified

\* When Main sleeps in cond_.wait the notification of this round is still to
\* come, and the loop on notified_ is for a releaser that has passed ready_.
NoLostWakeup ==
  /\ wpc = "asleep" => rpc[round] \in {"lock", "set", "unlock", "notify"}
  /\ wpc = "spin" => rpc[round] \in {"unlock", "notify", "store", "done"}

IInv == RoundInv /\ ReadyOK /\ NoLostWakeup

\* From the end of the loop on notified_ until the next release() begins, no
\* thread is inside release(): the flags may be written without the lock, and
\* the mutex and the condition variable may be destroyed.  The notification that
\* wakes the waiter is not yet enough for that.
NobodyInsideAfterWait ==
  wpc \in {"rearm_ready", "rearm_notified", "outside", "gone"} =>
    /\ \A r \in Releasers : rpc[r] \in {"none", "done"}
    /\ mtx = Nobody

S == INSTANCE Semaphore WITH
       started   <- round,
       released  <- IF round > 0 /\ rpc[round] # "done" THEN round - 1 ELSE round,
       passed    <- IF wpc \in {"outside", "gone"} THEN round ELSE round - 1,
       destroyed <- wpc = "gone"

\* Round after round, wait() returns once for each release() and not before it:
\* neither a flag left set by an earlier round nor a spurious wake-up lets it
\* through, and no notification is lost.
ImplementsSemaphore == S!Spec
=============================================================================
