----------------------------- MODULE TreeCounter -----------------------------
(***************************************************************************)
(* One invocation counted by TreeAtomicCounter<MAX_COUNT> and its          *)
(* StackedLinearBuffer (atomic_counter.hpp), driven by core.hpp as in      *)
(* BasicCounter.  The counter is a tree of nodes, none of which ever       *)
(* counts above MAX_COUNT: an increase that does not fit into the node of  *)
(* its caller hangs a chain of new nodes below it, a node that runs out is *)
(* deleted and gives its parent one decrement.                             *)
(*                                                                         *)
(* A node with count c answers for c + 1 "tokens"; a token is a modifier   *)
(* held by a task, one waiting in a buffer, or a child node.  Every atomic *)
(* operation and every `new Node` is a step of its own.  Views are those   *)
(* of BasicCounter, with one release sequence per node.                    *)
(***************************************************************************)
EXTENDS Integers, Sequences, FiniteSets, SequencesExt

CONSTANTS Tasks,      \* the callable units the program may start
          Main,       \* the invoking thread
          None,       \* nullptr
          MAX_COUNT,
          SizeMax,    \* the largest std::size_t
          MaxNodes,   \* bound on the nodes allocated over a run
          MaxEmpty    \* bound on the forks of no callable, for each of which one
                      \* of Tasks is never started

ASSUME TreeAssumption ==
  /\ IsFiniteSet(Tasks) /\ Main \notin Tasks
  /\ MAX_COUNT \in Nat \ {0}
  /\ SizeMax \in Nat /\ Cardinality(Tasks) <= SizeMax /\ MAX_COUNT < SizeMax
  /\ MaxNodes \in Nat /\ MaxEmpty \in Nat /\ None \notin 1..MaxNodes

Actors == Tasks \cup {Main}
Nodes == 1..MaxNodes     \* in the order of their allocation

VARIABLES
  used,       \* number of nodes allocated so far
  mem,        \* per node: "free", "live" or "deleted"
  parent,     \* per node: parent_
  count,      \* per node: count_
  published,  \* per node: the view carried by the release sequence of count_
  st,         \* where each task is, see Status
  mod,        \* per task: node_ of its modifier
  view,       \* per actor: the tasks whose effects it is sure to see
  pending,    \* per actor: the tasks its concurrent_call has still to start
  buffer,     \* per actor: the StackedLinearBuffer it hands modifiers out of
  at,         \* per actor: where it is in increase() or init_node()
  current,    \* per task: the local `current` of increase()
  tail, todo, \* per actor: the locals `parent` and `init_count` of init_node()
  empty       \* forks of no callable so far

tree == <<used, mem, parent, count>>
locals == <<at, current, tail, todo>>
vars == <<tree, published, st, mod, view, pending, buffer, locals, empty>>

(***************************************************************************)
(* As in BasicCounter; "climbing": the task has deleted a node and is      *)
(* about to decrement the parent.                                          *)
(***************************************************************************)
Status == {"idle", "queued", "running", "joined", "last", "climbing", "owner", "called", "lost"}

In(S) == {t \in Tasks : st[t] \in S}
Idle == In({"idle"})

Decr(n) == IF n = 0 THEN SizeMax ELSE n - 1

(***************************************************************************)
(* StackedLinearBuffer: a stack of pairs, its top at the end.              *)
(***************************************************************************)
Push(b, num, n) == Append(b, [num |-> num, node |-> n])
Top(b) == Last(b).node
Fetched(b) ==
  IF Decr(Last(b).num) = 0 THEN Front(b)
                           ELSE [b EXCEPT ![Len(b)].num = Decr(@)]

Init ==
  /\ used = 0
  /\ mem = [n \in Nodes |-> "free"]
  /\ parent = [n \in Nodes |-> None]
  /\ count = [n \in Nodes |-> 0]
  /\ published = [n \in Nodes |-> {}]
  /\ st = [t \in Tasks |-> "idle"]
  /\ mod = [t \in Tasks |-> None]
  /\ view = [a \in Actors |-> {}]
  /\ pending = [a \in Actors |-> {}]
  /\ buffer = [a \in Actors |-> <<>>]
  /\ at = [a \in Actors |-> "ready"]
  /\ current = [t \in Tasks |-> 0]
  /\ tail = [a \in Actors |-> None]
  /\ todo = [a \in Actors |-> 0]
  /\ empty = 0

Enqueue(a, S) ==
  /\ st' = [t \in Tasks |-> IF t \in S THEN "queued" ELSE st[t]]
  /\ pending' = [pending EXCEPT ![a] = S]

-----------------------------------------------------------------------------
(***************************************************************************)
(* init_node(p, k, buffer), one allocation at a time.                      *)
(***************************************************************************)
StartChain(a, where, p, k) ==
  /\ at' = [at EXCEPT ![a] = where]
  /\ tail' = [tail EXCEPT ![a] = p]
  /\ todo' = [todo EXCEPT ![a] = k]

\* new Node(p, c)
NewNode(p, c) ==
  /\ used < MaxNodes
  /\ used' = used + 1
  /\ mem' = [mem EXCEPT ![used'] = "live"]
  /\ parent' = [parent EXCEPT ![used'] = p]
  /\ count' = [count EXCEPT ![used'] = c]

\* The body of the loop: a full node, one of whose tokens the next node takes.
ChainNode(a) ==
  /\ at[a] \in {"chain", "chain_full"} /\ MAX_COUNT < todo[a]
  /\ NewNode(tail[a], MAX_COUNT)
  /\ buffer' = [buffer EXCEPT ![a] = Push(@, MAX_COUNT, used')]
  /\ tail' = [tail EXCEPT ![a] = used']
  /\ todo' = [todo EXCEPT ![a] = @ - MAX_COUNT]
  /\ UNCHANGED <<published, st, mod, view, pending, at, current, empty>>

\* The entry of the last node, also without the token the parent's link needs.
LastEntryShort(b, k, n) == Push(b, k, n)
LastEntry(b, k, n) == Push(b, k + 1, n)

\* After the loop: the last node, all its tokens in the buffer.  When increase()
\* found the caller's own node full, `*this = buffer.fetch()` follows.
ChainEnd(a) ==
  /\ at[a] \in {"chain", "chain_full"} /\ todo[a] <= MAX_COUNT
  /\ NewNode(tail[a], todo[a])
  /\ LET b == LastEntry(buffer[a], todo[a], used')
     IN  IF at[a] = "chain_full"
         THEN mod' = [mod EXCEPT ![a] = Top(b)] /\ buffer' = [buffer EXCEPT ![a] = Fetched(b)]
         ELSE buffer' = [buffer EXCEPT ![a] = b] /\ UNCHANGED mod
  /\ StartChain(a, "ready", None, 0)
  /\ UNCHANGED <<published, st, view, pending, current, empty>>

-----------------------------------------------------------------------------
\* async_concurrent_invoke_explicit: initializer(count_call(callers...) - 1u).
\* With no callers at all the count wraps, and init_node() allocates nodes for
\* SizeMax tokens that nobody will ever give back: left out here.
Invoke(S) ==
  /\ used = 0 /\ at[Main] = "ready"
  /\ S # {}
  /\ Enqueue(Main, S)
  /\ StartChain(Main, "chain", None, Cardinality(S) - 1)
  /\ UNCHANGED <<tree, published, mod, view, buffer, current, empty>>

\* concurrent_call: the next callable is started with buffer.fetch().
Launch(a, t) ==
  /\ at[a] = "ready" /\ t \in pending[a] /\ buffer[a] # <<>>
  /\ pending' = [pending EXCEPT ![a] = @ \ {t}]
  /\ mod' = [mod EXCEPT ![t] = Top(buffer[a])]
  /\ buffer' = [buffer EXCEPT ![a] = Fetched(@)]
  /\ st' = [st EXCEPT ![t] = "running"]
  /\ view' = [view EXCEPT ![t] = view[a]]
  /\ UNCHANGED <<tree, published, locals, empty>>

\* The portal of one of Main's callables throws: the rest of the callables, and
\* the modifiers for them in the buffer, are given up.
Abandon ==
  /\ at[Main] = "ready" /\ pending[Main] # {}
  /\ pending' = [pending EXCEPT ![Main] = {}]
  /\ st' = [t \in Tasks |-> IF t \in pending[Main] THEN "lost" ELSE st[t]]
  /\ UNCHANGED <<tree, published, mod, view, buffer, locals, empty>>

(***************************************************************************)
(* concurrent_fork: increase(count_call(callers...)), then the calls.      *)
(***************************************************************************)
\* The relaxed load that increase() starts with.  The callers may be empty:
\* increase(0).
IncreaseLoad(t, S) ==
  /\ st[t] = "running" /\ at[t] = "ready" /\ pending[t] = {}
  /\ S \subseteq Idle
  /\ empty' = IF S = {} THEN empty + 1 ELSE empty
  /\ empty' <= MaxEmpty /\ empty' <= Cardinality(Idle \ S)
  /\ Enqueue(t, S)
  /\ current' = [current EXCEPT ![t] = count[mod[t]]]
  /\ at' = [at EXCEPT ![t] = "cas"]
  /\ UNCHANGED <<tree, published, mod, view, buffer, tail, todo>>

\* The node is full: its count stays, everything goes into a chain below it.
IncreaseFull(t) ==
  /\ at[t] = "cas" /\ current[t] = MAX_COUNT
  /\ StartChain(t, "chain_full", mod[t], Cardinality(pending[t]))
  /\ UNCHANGED <<tree, published, st, mod, view, pending, buffer, current, empty>>

\* What compare_exchange_weak compares; without it, the exchange is a store.
CasBlind(t) == TRUE
CasMatches(t) == count[mod[t]] = current[t]

\* The tokens that increase() takes from a node that counts cur; all it needs.
TakeAll(k, cur) == k
Increased(k, cur) == IF k < MAX_COUNT - cur THEN k ELSE MAX_COUNT - cur

\* What the buffer gets of them when a chain is to follow, one of them becoming
\* its parent link; without the test for 1, and with the link forgotten.
KeptUntested(increased, n) == Push(<<>>, increased - 1, n)
KeptWithLink(increased, n) == Push(<<>>, increased, n)
Kept(increased, n) == IF increased # 1 THEN Push(<<>>, increased - 1, n) ELSE <<>>

\* compare_exchange_weak fails and loads the value it found.  (A spurious
\* failure finds the value it expects, and changes nothing.)
CasFails(t) ==
  /\ at[t] = "cas" /\ current[t] # MAX_COUNT
  /\ ~CasMatches(t)
  /\ current' = [current EXCEPT ![t] = count[mod[t]]]
  /\ UNCHANGED <<tree, published, st, mod, view, pending, buffer, at, tail, todo, empty>>

\* The buffer is a temporary of concurrent_fork.  When there is nothing to call it
\* goes as soon as increase() has made it, and with it what increase(0) pushes: an
\* entry with a zero, which nobody fetches.
InScope(calls, b) == IF calls = {} THEN <<>> ELSE b

\* compare_exchange_weak succeeds: as many tokens as fit come from this node,
\* and the rest from a chain below it.
CasSucceeds(t) ==
  LET n == mod[t]
      k == Cardinality(pending[t])
      increased == Increased(k, current[t])
  IN  /\ at[t] = "cas" /\ current[t] # MAX_COUNT
      /\ CasMatches(t)
      /\ count' = [count EXCEPT ![n] = current[t] + increased]
      /\ IF increased = k
         THEN /\ buffer' = [buffer EXCEPT ![t] = InScope(pending[t], Push(<<>>, increased, n))]
              /\ at' = [at EXCEPT ![t] = "ready"]
              /\ UNCHANGED <<tail, todo>>
         ELSE /\ buffer' = [buffer EXCEPT ![t] = Kept(increased, n)]
              /\ StartChain(t, "chain", n, k - increased)
      /\ UNCHANGED <<used, mem, parent, published, st, mod, view, pending, current, empty>>

-----------------------------------------------------------------------------
(***************************************************************************)
(* decrement(), the loop of which climbs the tree.                         *)
(***************************************************************************)
\* fetch_sub with release order: first when the procedure has returned, then
\* once for every node deleted on the way up.
FetchSub(t) ==
  LET n == mod[t]
  IN  /\ \/ st[t] = "running" /\ at[t] = "ready" /\ pending[t] = {}
         \/ st[t] = "climbing"
      /\ view' = [view EXCEPT ![t] = @ \cup {t}]
      /\ published' = [published EXCEPT ![n] = @ \cup view[t] \cup {t}]
      /\ count' = [count EXCEPT ![n] = Decr(@)]
      /\ st' = [st EXCEPT ![t] = IF count[n] = 0 THEN "last" ELSE "joined"]
      /\ UNCHANGED <<used, mem, parent, mod, pending, buffer, locals, empty>>

\* Where decrement() goes on: at the parent; or nowhere, without the loop.
Nowhere(n) == None
Above(n) == parent[n]

\* The view of t after the acquire fence, and without it.
Unacquired(t, n) == view[t]
Acquired(t, n) == view[t] \cup published[n]

\* The node has run out: acquire fence, delete, and on to its parent if any.
Reclaim(t) ==
  LET n == mod[t]
  IN  /\ st[t] = "last"
      /\ view' = [view EXCEPT ![t] = Acquired(t, n)]
      /\ mem' = [mem EXCEPT ![n] = "deleted"]
      /\ IF Above(n) = None
         THEN st' = [st EXCEPT ![t] = "owner"] /\ UNCHANGED mod
         ELSE st' = [st EXCEPT ![t] = "climbing"] /\ mod' = [mod EXCEPT ![t] = Above(n)]
      /\ UNCHANGED <<used, parent, count, published, pending, buffer, locals, empty>>

\* concurrent_join: decrement() returned false, so callback().
Callback(t) ==
  /\ st[t] = "owner"
  /\ st' = [st EXCEPT ![t] = "called"]
  /\ UNCHANGED <<tree, published, mod, view, pending, buffer, locals, empty>>

Next ==
  \/ Abandon \/ \E S \in SUBSET Tasks : Invoke(S)
  \/ \E a \in Actors : ChainNode(a) \/ ChainEnd(a)
  \/ \E a \in Actors, t \in Tasks : Launch(a, t)
  \/ \E t \in Tasks, S \in SUBSET Tasks : IncreaseLoad(t, S)
  \/ \E t \in Tasks : IncreaseFull(t) \/ CasFails(t) \/ CasSucceeds(t)
  \/ \E t \in Tasks : FetchSub(t) \/ Reclaim(t) \/ Callback(t)

(***************************************************************************)
(* Threads run and procedures return.  Forking is up to the procedure.     *)
(***************************************************************************)
Fairness ==
  /\ \A a \in Actors : WF_vars(ChainNode(a)) /\ WF_vars(ChainEnd(a))
  /\ \A a \in Actors, t \in Tasks : WF_vars(Launch(a, t))
  /\ \A t \in Tasks : WF_vars(IncreaseFull(t) \/ CasFails(t) \/ CasSucceeds(t))
  /\ \A t \in Tasks : WF_vars(FetchSub(t)) /\ WF_vars(Reclaim(t)) /\ WF_vars(Callback(t))

Spec == Init /\ [][Next]_vars /\ Fairness

-----------------------------------------------------------------------------
TypeOK ==
  /\ used \in 0..MaxNodes
  /\ mem \in [Nodes -> {"free", "live", "deleted"}]
  /\ parent \in [Nodes -> Nodes \cup {None}]
  /\ count \in [Nodes -> 0..SizeMax]
  /\ published \in [Nodes -> SUBSET Tasks]
  /\ st \in [Tasks -> Status]
  /\ mod \in [Tasks -> Nodes \cup {None}]
  /\ view \in [Actors -> SUBSET Tasks]
  /\ pending \in [Actors -> SUBSET Tasks]
  /\ buffer \in [Actors -> Seq([num : 0..SizeMax, node : Nodes])]
  /\ at \in [Actors -> {"ready", "cas", "chain", "chain_full"}]
  /\ current \in [Tasks -> 0..SizeMax]
  /\ tail \in [Actors -> Nodes \cup {None}]
  /\ todo \in [Actors -> 0..SizeMax]
  /\ empty \in 0..MaxEmpty

Live == {n \in Nodes : mem[n] = "live"}

(***************************************************************************)
(* The tokens of node n: modifiers held by tasks, modifiers in buffers,    *)
(* children, and the token a chain under construction will hang on to.     *)
(* A task in "chain_full" has put its own token there.  The modifiers that *)
(* Main gave up stay in its buffer here: nobody can give them back.        *)
(***************************************************************************)
Chaining == {a \in Actors : at[a] \in {"chain", "chain_full"}}
Holders(n) == {t \in In({"running", "climbing"}) : mod[t] = n /\ at[t] # "chain_full"}
Slots(b) == UNION {{i} \X (1..b[i].num) : i \in DOMAIN b}
SlotsAt(b, n) == {s \in Slots(b) : b[s[1]].node = n}
InBuffers(n) == UNION {{a} \X SlotsAt(buffer[a], n) : a \in Actors}
Children(n) == {c \in Live : parent[c] = n}
Chains(n) == {a \in Chaining : tail[a] = n}
Tokens(n) ==
  Cardinality(Holders(n)) + Cardinality(InBuffers(n))
    + Cardinality(Children(n)) + Cardinality(Chains(n))

\* Every live node answers for exactly its tokens: no increase, split of an
\* increase over a chain, move of the caller to a new node, hand-out from the
\* buffer or climb loses a decrement or makes one up.  (A node whose count was
\* read as 0 has none left and is about to be deleted.)
Conservation ==
  \A n \in Live :
    Tokens(n) = IF \E t \in In({"last"}) : mod[t] = n THEN 0 ELSE count[n] + 1

\* A node is never asked to count above MAX_COUNT, the bound on contention the
\* tree exists for, also when increases and joins race for the same node.
CountBounded ==
  \A n \in Live : count[n] <= MAX_COUNT \/ \E t \in In({"last"}) : mod[t] = n

\* Nobody reaches a deleted node: not a modifier in a task's hands, not one in
\* a buffer, not the end of a chain under construction, not a child.
NoDanglingNode ==
  /\ \A t \in In({"running", "climbing", "last"}) : mod[t] \in Live
  /\ \A a \in Actors : \A i \in DOMAIN buffer[a] : buffer[a][i].node \in Live
  /\ \A a \in Chaining : tail[a] = None \/ tail[a] \in Live
  /\ \A n \in Live : parent[n] = None \/ parent[n] \in Live

\* The tasks that an actor has still to give a modifier, or never will.
Missing(a) == IF a = Main THEN pending[a] \cup In({"lost"}) ELSE pending[a]

\* The buffer of an increase or of the initializer holds one modifier for every
\* callable that is still to be called, no more and no fewer, and as long as there
\* is one to call no entry with a zero that fetch() would wrap below.
BufferMatchesCalls ==
  \A a \in Actors :
    /\ at[a] = "ready" => Cardinality(Slots(buffer[a])) = Cardinality(Missing(a))
    /\ \A i \in DOMAIN buffer[a] : buffer[a][i].num > 0

\* Release on every fetch_sub, acquire before every delete: the chain of nodes
\* from any task to the root carries its effects to the callback, although
\* loads and increases are relaxed.
CallbackSeesAllTasks ==
  \A t \in In({"owner", "called"}) : \A u \in Tasks \ Idle : u \in view[t]

\* No decrement is lost on its way up the tree: as long as the callback has not run
\* there is a task with a step to take, or somebody who has one to launch.  What is
\* in CallbackEventuallyRuns apart from the scheduling.
SomebodyGoesOn ==
  Tasks \ Idle # {} =>
    \/ In({"running", "last", "climbing", "owner", "called", "lost"}) # {}
    \/ \E a \in Actors : pending[a] # {}

\* An invocation of at least one task calls back, unless a portal threw.
CallbackEventuallyRuns ==
  (Tasks \ Idle # {}) ~> (In({"called", "lost"}) # {})

\* The invocation as its user sees it: a task joins with its first fetch_sub.
FJ == INSTANCE ForkJoin WITH
        active <- In({"queued", "running", "lost"}),
        joined <- In({"joined", "last", "climbing", "owner", "called"}),
        fired  <- In({"called"}) # {}

\* The tree keeps the promise of ForkJoin, as the single counter does.
ImplementsForkJoin == FJ!Spec

-----------------------------------------------------------------------------
(***************************************************************************)
(* The inductive strengthening of the invariants.                          *)
(***************************************************************************)
\* Until Main allocates the root nothing else happens.
StartOK ==
  used = 0 =>
    /\ \A t \in Tasks : st[t] \in {"idle", "queued"}
    /\ at[Main] = "ready" => Idle = Tasks

\* Nodes are allocated in order, a parent before its children; the first is the
\* only root.
MemOK ==
  /\ \A n \in Nodes : mem[n] = "free" <=> n > used
  /\ \A n \in Nodes : n <= used => IF n = 1 THEN parent[n] = None ELSE parent[n] \in 1..(n - 1)

\* What waits to be launched is queued, by one actor; a task that increases the
\* counter or hands out modifiers has not joined.
PendingOK ==
  /\ \A a \in Actors : \A t \in pending[a] : st[t] = "queued"
  /\ \A a, b \in Actors : a # b => pending[a] \cap pending[b] = {}
  /\ \A t \in In({"queued"}) : \E a \in Actors : t \in pending[a]
  /\ at[Main] \in {"ready", "chain"}
  /\ \A t \in Tasks : pending[t] # {} \/ at[t] # "ready" => st[t] = "running"

\* Until the compare-exchange the buffer is empty, and `current` something that
\* was read from the node.
CasOK ==
  \A t \in Tasks : at[t] = "cas" => buffer[t] = <<>> /\ current[t] <= MAX_COUNT

\* What init_node() has still to put into the buffer: init_count, and one more
\* for the last node unless the caller takes that one for itself.
ChainOK ==
  \A a \in Chaining :
    /\ tail[a] = None <=> used = 0
    /\ Cardinality(Slots(buffer[a])) + todo[a] + (IF at[a] = "chain" THEN 1 ELSE 0)
         = Cardinality(Missing(a))
    /\ at[a] = "chain_full" =>
         IF buffer[a] = <<>> THEN tail[a] = mod[a] ELSE parent[buffer[a][1].node] = mod[a]

\* One task at most has found a node at 0.
LastOK == \A t, u \in In({"last"}) : mod[t] = mod[u] => t = u

\* With the root everything else has gone.
OwnerOK ==
  \A t \in In({"owner", "called"}) :
    Live = {} /\ \A u \in Tasks \ {t} : st[u] \in {"idle", "joined"}

\* The effects of a task that has joined are published in a live node, or on
\* their way up with a task that has deleted one.
Joined == {"joined", "last", "climbing", "owner", "called"}
SeenOK ==
  \A u \in In(Joined) :
    \/ \E n \in Live : u \in published[n]
    \/ \E t \in In(Joined \ {"joined"}) : u \in view[t]

IInv ==
  /\ TypeOK /\ Conservation /\ CountBounded /\ NoDanglingNode /\ BufferMatchesCalls
  /\ StartOK /\ MemOK /\ PendingOK /\ CasOK /\ ChainOK /\ LastOK /\ OwnerOK /\ SeenOK
=============================================================================
