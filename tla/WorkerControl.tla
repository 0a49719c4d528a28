---------------------------- MODULE WorkerControl ----------------------------
(***************************************************************************)
(* Example 3 (concurrent_fork): workers that look at exit_count between    *)
(* two pieces of work, and a procedure that forks and stops workers on     *)
(* instructions that are read while they run.                              *)
(*                                                                         *)
(* exit_count is only used with relaxed order; a load reads the present    *)
(* value here.  An older one makes the exchange fail, or lets the worker   *)
(* do one more piece of work.                                              *)
(***************************************************************************)
EXTENDS Integers, FiniteSets

CONSTANTS Workers,       \* those that may ever be started
          InitCount,     \* INIT_COUNT
          SizeMax,       \* the largest std::size_t
          MaxSpurious    \* bound on spurious failures of compare_exchange_weak

ASSUME WorkerAssumption ==
  /\ IsFiniteSet(Workers) /\ InitCount \in 0..Cardinality(Workers)
  /\ SizeMax \in Nat /\ SizeMax >= Cardinality(Workers)
  /\ MaxSpurious \in Nat

VARIABLES
  exit_count,
  at,          \* per worker: "none", "working", "trying" (in the loop of check(),
               \* having read a positive value), "stopped" and joined
  cur,         \* per worker: the local variable of check()
  reading,     \* MainProcedure::run() reads instructions, and joins after that
  outstanding, \* the modifiers of the invocation that have not joined
  spurious     \* spurious failures so far

vars == <<exit_count, at, cur, reading, outstanding, spurious>>

\* main(): the initial workers, and MainProcedure on a SerialPortal.
Init ==
  /\ exit_count = 0
  /\ \E S \in SUBSET Workers :
       /\ Cardinality(S) = InitCount
       /\ at = [w \in Workers |-> IF w \in S THEN "working" ELSE "none"]
  /\ cur = [w \in Workers |-> 0]
  /\ reading = TRUE
  /\ outstanding = InitCount + 1
  /\ spurious = 0

\* "+": fork one worker.
Plus(w) ==
  /\ reading /\ at[w] = "none"
  /\ outstanding' = outstanding + 1
  /\ at' = [at EXCEPT ![w] = "working"]
  /\ UNCHANGED <<exit_count, cur, reading, spurious>>

\* "-".  Nobody enters it so often that the number wraps.
Minus ==
  /\ reading /\ exit_count < SizeMax
  /\ exit_count' = exit_count + 1
  /\ UNCHANGED <<at, cur, reading, outstanding, spurious>>

\* Stopping as many workers as there were at first.
XInitial ==
  /\ reading
  /\ exit_count' = InitCount
  /\ reading' = FALSE
  /\ outstanding' = outstanding - 1
  /\ UNCHANGED <<at, cur, spurious>>

\* "x": more than there are workers, and the end of run().
X ==
  /\ reading
  /\ exit_count' = SizeMax
  /\ reading' = FALSE
  /\ outstanding' = outstanding - 1
  /\ UNCHANGED <<at, cur, spurious>>

-----------------------------------------------------------------------------
(***************************************************************************)
(* check() and the loop of work().                                         *)
(***************************************************************************)
\* With cur as it now is, check() returns true, or tries to exchange.
Read(w, value) ==
  /\ cur' = [cur EXCEPT ![w] = value]
  /\ at' = [at EXCEPT ![w] = IF value = 0 THEN "working" ELSE "trying"]
Stops(w) ==
  /\ at' = [at EXCEPT ![w] = "stopped"]
  /\ outstanding' = outstanding - 1
  /\ UNCHANGED <<cur, reading, spurious>>

\* do_something() is over: the load.
Load(w) ==
  /\ at[w] = "working"
  /\ Read(w, exit_count)
  /\ UNCHANGED <<exit_count, reading, outstanding, spurious>>

\* A plain store in place of the exchange.
StoreBlindly(w) ==
  /\ at[w] = "trying"
  /\ exit_count' = cur[w] - 1
  /\ Stops(w)

\* compare_exchange_weak succeeds: check() returns false, work() returns and its
\* task joins.
Exchange(w) ==
  /\ at[w] = "trying" /\ exit_count = cur[w]
  /\ exit_count' = cur[w] - 1
  /\ Stops(w)

\* It fails: another value is there, or for no reason.
ExchangeFails(w) ==
  /\ at[w] = "trying"
  /\ \/ exit_count # cur[w] /\ UNCHANGED spurious
     \/ exit_count = cur[w] /\ spurious < MaxSpurious /\ spurious' = spurious + 1
  /\ Read(w, exit_count)
  /\ UNCHANGED <<exit_count, reading, outstanding>>

WorkerStep(w) == Load(w) \/ Exchange(w) \/ ExchangeFails(w)
Next == Minus \/ X \/ \E w \in Workers : Plus(w) \/ WorkerStep(w)

\* Work ends and workers run.  Nobody has to enter an instruction.
Fairness == \A w \in Workers : WF_vars(WorkerStep(w))

Spec == Init /\ [][Next]_vars /\ Fairness

-----------------------------------------------------------------------------
TypeOK ==
  /\ exit_count \in 0..SizeMax
  /\ at \in [Workers -> {"none", "working", "trying", "stopped"}]
  /\ cur \in [Workers -> 0..SizeMax]
  /\ reading \in BOOLEAN
  /\ outstanding \in 0..(Cardinality(Workers) + 1)
  /\ spurious \in 0..MaxSpurious

Atomic == INSTANCE AtomicCheck
  WITH running <- {w \in Workers : at[w] \in {"working", "trying"}},
       stopped <- {w \in Workers : at[w] = "stopped"}

\* "Equivalent to: [[atomic]] { if (exit_count > 0) ..." : the loop of loads and
\* exchanges takes exactly one from the count for each worker that stops, however
\* it races with other workers, with "-" and with the store of "x", and goes on
\* stopping workers while the count is positive.
ImplementsAtomicCheck == Atomic!Spec

\* After "x" every worker stops, those forked and those in the middle of check()
\* too, and the invocation is called back, as only those who are outstanding join.
EverybodyStops ==
  ~reading ~> (outstanding = 0 /\ \A w \in Workers : at[w] \in {"none", "stopped"})
=============================================================================
