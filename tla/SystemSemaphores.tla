-------------------------- MODULE SystemSemaphores --------------------------
(***************************************************************************)
(* The binary semaphores of binary_semaphore.hpp whose wait() is a spin or *)
(* a single call of the system: SpinBinarySemaphore, WinEvent-, Posix-,    *)
(* LinuxFutex- and DisposableBinarySemaphore.  One thread calls wait(),    *)
(* one calls release().  What the system does behind the calls is known    *)
(* from how the code uses it: an auto-reset event, sem_t, FUTEX_WAIT and   *)
(* FUTEX_WAKE, std::promise<void>.                                         *)
(***************************************************************************)
EXTENDS Naturals

CONSTANTS Kinds,       \* the classes to consider, see KindNames
          Priors,      \* the pasts to consider, see PriorNames
          MaxSignals   \* bound on the signal handlers that run during wait()

KindNames == {"spin", "event", "posix", "futex", "promise"}

(***************************************************************************)
(* "none": a new semaphore, at an address that none has had.               *)
(* "same_address": a new one in the stack frame where the one of an        *)
(* earlier invocation was, whose release() may not be through.             *)
(* "same_object": one that has served an earlier invocation.               *)
(***************************************************************************)
PriorNames == {"none", "same_address", "same_object"}

ASSUME SystemSemaphoresAssumption ==
  /\ Kinds \subseteq KindNames /\ Priors \subseteq PriorNames
  /\ MaxSignals \in Nat

VARIABLES
  kind,      \* the class of the semaphore
  prior,     \* its past
  given,     \* flag_ clear, event set, sem_ > 0, futex_ = 1, promise satisfied
  sleep,     \* where a FUTEX_WAIT is: "no", "asleep" or "woken"
  wakes,     \* calls of FUTEX_WAKE at this address still to come
  signals    \* signal handlers run so far

semaphore == <<kind, prior, given, sleep, wakes, signals>>

\* A promise stays satisfied and the word of the futex stays 1: neither is
\* ever reset.
SemaphoreInit ==
  /\ kind \in Kinds /\ prior \in Priors
  /\ given = (prior = "same_object" /\ kind \in {"futex", "promise"})
  /\ sleep = "no"
  /\ wakes = IF kind = "futex" /\ prior # "none" THEN {"earlier"} ELSE {}
  /\ signals = 0

-----------------------------------------------------------------------------
(***************************************************************************)
(* wait(): each of these actions is its return.                            *)
(***************************************************************************)
Took == given' = FALSE /\ UNCHANGED <<kind, prior, sleep, wakes, signals>>

\* test_and_set finds the flag clear.  Before, it spins.
SpinWait == kind = "spin" /\ given /\ Took

\* WaitForSingleObject on an event that resets itself.
EventWait == kind = "event" /\ given /\ Took

Signal == signals < MaxSignals /\ signals' = signals + 1

\* sem_wait counts down, or fails with EINTR, which nobody looks at.
PosixWait ==
  /\ kind = "posix"
  /\ \/ given /\ Took
     \/ ~given /\ Signal /\ UNCHANGED <<kind, prior, given, sleep, wakes>>

\* FUTEX_WAIT goes to sleep only while the word is 0.
FutexSleep ==
  /\ kind = "futex" /\ sleep = "no" /\ ~given
  /\ sleep' = "asleep"
  /\ UNCHANGED <<kind, prior, given, wakes, signals>>

\* It returns for a word that is not 0, for a wake-up or for a signal; the word
\* is not looked at again, and is left as it is.
FutexWait ==
  /\ kind = "futex"
  /\ \/ sleep = "no" /\ given /\ UNCHANGED signals
     \/ sleep = "woken" /\ UNCHANGED signals
     \/ sleep = "asleep" /\ Signal
  /\ sleep' = "no"
  /\ UNCHANGED <<kind, prior, given, wakes>>

\* get_future().wait(), for the first time with this promise.
PromiseWait ==
  /\ kind = "promise" /\ prior # "same_object" /\ given
  /\ UNCHANGED semaphore

WaitReturns == SpinWait \/ EventWait \/ PosixWait \/ FutexWait \/ PromiseWait

\* wait() can return without the help of a signal.
WaitDue == IF kind = "futex" THEN sleep = "woken" \/ (sleep = "no" /\ given) ELSE given

-----------------------------------------------------------------------------
(***************************************************************************)
(* release()                                                               *)
(***************************************************************************)
Gave == given' = TRUE /\ UNCHANGED <<kind, prior, sleep, signals>>

SpinRelease == kind = "spin" /\ Gave /\ UNCHANGED wakes
EventRelease == kind = "event" /\ Gave /\ UNCHANGED wakes
PosixRelease == kind = "posix" /\ Gave /\ UNCHANGED wakes

\* The store without FUTEX_WAKE after it.
FutexStoreOnly ==
  /\ kind = "futex" /\ Gave
  /\ UNCHANGED wakes

\* The store; FUTEX_WAKE is still to come.
FutexStore ==
  /\ kind = "futex" /\ Gave
  /\ wakes' = wakes \cup {"own"}

\* set_value(), for the first time with this promise.
PromiseRelease == kind = "promise" /\ ~given /\ Gave /\ UNCHANGED wakes

Releases ==
  SpinRelease \/ EventRelease \/ PosixRelease \/ FutexStore \/ PromiseRelease

\* FUTEX_WAKE, of this release() or of one that once was at this address.
FutexWake(w) ==
  /\ w \in wakes
  /\ wakes' = wakes \ {w}
  /\ sleep' = IF sleep = "asleep" THEN "woken" ELSE sleep
  /\ UNCHANGED <<kind, prior, given, signals>>

\* std::promise throws when get_future or set_value is called again.
PromiseUsedUp == kind = "promise" /\ prior = "same_object"

\* The cases in which wait() does wait for release().  FUTEX_WAIT needs a word
\* and an address of its own, and no signal; sem_wait no signal.
Dependable ==
  /\ kind \in {"futex", "posix"} => signals = 0
  /\ kind = "futex" => prior = "none"
=============================================================================
