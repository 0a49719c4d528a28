---------------------------- MODULE SharedWrapper ----------------------------
(***************************************************************************)
(* poly::SharedWrapper (wrapper.hpp), the reference-counted holder behind  *)
(* the portals, callbacks and other SharedProxy objects that the threads   *)
(* of an invocation hand to each other.                                    *)
(*                                                                         *)
(* A handle is one SharedWrapper variable.  It is used by one thread at a  *)
(* time, but several threads may copy from it at once (copy_init is        *)
(* const), and then its owner leaves it alone until they are through.      *)
(* view[h] is the set of handles whose use of the object of h happens      *)
(* before what the thread at h does next, published[o] what the release    *)
(* sequence of count_ carries, as in BasicCounter; views end with the      *)
(* reference, and the rest with the object.                                *)
(***************************************************************************)
EXTENDS Integers, FiniteSets

CONSTANTS Handles, Objects, None,
          SizeMax    \* the largest std::size_t

ASSUME WrapperAssumption ==
  /\ IsFiniteSet(Handles) /\ None \notin Objects \cup Handles
  /\ SizeMax \in Nat /\ Cardinality(Handles) <= SizeMax

VARIABLES
  mem,        \* per object: "free", "live" or "deleted"
  count,      \* per object: count_
  published,  \* per object: the view carried by the release sequence of count_
  users,      \* per object: the handles through which it has been used
  holder,     \* per handle: holder_
  at,         \* per handle: where it is, see HandleAt
  how, from,  \* per handle: the copy or move it is the target of, and its source
  view        \* per handle: the uses it is sure to come after

vars == <<mem, count, published, users, holder, at, how, from, view>>

(***************************************************************************)
(* "raw": no wrapper there.  "ready": constructed, holder_ may be null.    *)
(* "deinit": in deinit(), called by the destructor or by operator=, and in *)
(* the latter case a copy or move follows.  "last": its fetch_sub has      *)
(* returned 0.  "init": copy_init or move_init is next.  "counting":       *)
(* between the two statements of copy_init.                                *)
(***************************************************************************)
HandleAt == {"raw", "ready", "deinit", "last", "init", "counting"}

Decr(n) == IF n = 0 THEN SizeMax ELSE n - 1
Incr(n) == IF n = SizeMax THEN 0 ELSE n + 1

Init ==
  /\ mem = [o \in Objects |-> "free"]
  /\ count = [o \in Objects |-> 0]
  /\ published = [o \in Objects |-> {}]
  /\ users = [o \in Objects |-> {}]
  /\ holder = [h \in Handles |-> None]
  /\ at = [h \in Handles |-> "raw"]
  /\ how = [h \in Handles |-> "none"]
  /\ from = [h \in Handles |-> None]
  /\ view = [h \in Handles |-> {}]

\* A handle may be read unless it is being moved from, and changed or
\* destroyed only when nobody reads it.
Readable(h) == at[h] = "ready" /\ \A g \in Handles : from[g] = h => how[g] = "copy"
Own(h) == at[h] = "ready" /\ \A g \in Handles : from[g] # h

\* SharedWrapper(T&&): a new holder, whose count_ starts at 0.
Make(h, o) ==
  /\ at[h] = "raw" /\ mem[o] = "free"
  /\ mem' = [mem EXCEPT ![o] = "live"]
  /\ count' = [count EXCEPT ![o] = 0]
  /\ holder' = [holder EXCEPT ![h] = o]
  /\ at' = [at EXCEPT ![h] = "ready"]
  /\ UNCHANGED <<published, users, how, from, view>>

\* SharedWrapper(): holder_ is null.
MakeNull(h) ==
  /\ at[h] = "raw"
  /\ at' = [at EXCEPT ![h] = "ready"]
  /\ UNCHANGED <<mem, count, published, users, holder, how, from, view>>

\* get(), and an operation on the wrapped object.
Use(h) ==
  /\ Readable(h) /\ holder[h] # None
  /\ users' = [users EXCEPT ![holder[h]] = @ \cup {h}]
  /\ view' = [view EXCEPT ![h] = @ \cup {h}]
  /\ UNCHANGED <<mem, count, published, holder, at, how, from>>

-----------------------------------------------------------------------------
(***************************************************************************)
(* The constructors and assignments from another wrapper, and the          *)
(* destructor.  Copying a null wrapper dereferences a null pointer, and    *)
(* assigning a wrapper to itself uses what its deinit() has left: callers  *)
(* have to avoid both, and do so here.                                     *)
(***************************************************************************)
Sourced(h, src, kind) ==
  /\ h # src
  /\ \/ kind = "copy" /\ Readable(src) /\ holder[src] # None
     \/ kind = "move" /\ Own(src)
  /\ how' = [how EXCEPT ![h] = kind]
  /\ from' = [from EXCEPT ![h] = src]
  /\ UNCHANGED <<mem, count, published, users, holder, view>>

Construct(h, src, kind) ==
  /\ at[h] = "raw"
  /\ at' = [at EXCEPT ![h] = "init"]
  /\ Sourced(h, src, kind)

Assign(h, src, kind) ==
  /\ Own(h)
  /\ at' = [at EXCEPT ![h] = "deinit"]
  /\ Sourced(h, src, kind)

Destroy(h) ==
  /\ Own(h)
  /\ at' = [at EXCEPT ![h] = "deinit"]
  /\ UNCHANGED <<mem, count, published, users, holder, how, from, view>>

\* copy_init(rhs): rhs.holder_ = holder_ ...
CopyPointer(h) ==
  /\ at[h] = "init" /\ how[h] = "copy"
  /\ holder' = [holder EXCEPT ![h] = holder[from[h]]]
  /\ view' = [view EXCEPT ![h] = view[from[h]]]
  /\ at' = [at EXCEPT ![h] = "counting"]
  /\ UNCHANGED <<mem, count, published, users, how, from>>

\* Without the fetch_add.
CopyUncounted(h) ==
  /\ at[h] = "counting"
  /\ at' = [at EXCEPT ![h] = "ready"]
  /\ how' = [how EXCEPT ![h] = "none"]
  /\ from' = [from EXCEPT ![h] = None]
  /\ UNCHANGED <<mem, count, published, users, holder, view>>

\* ... then the relaxed fetch_add.
CopyCount(h) ==
  /\ at[h] = "counting"
  /\ count' = [count EXCEPT ![holder[h]] = Incr(@)]
  /\ at' = [at EXCEPT ![h] = "ready"]
  /\ how' = [how EXCEPT ![h] = "none"]
  /\ from' = [from EXCEPT ![h] = None]
  /\ UNCHANGED <<mem, published, users, holder, view>>

\* Leaving the pointer where it was, too.
MoveAndKeep(h) ==
  /\ at[h] = "init" /\ how[h] = "move"
  /\ holder' = [holder EXCEPT ![h] = holder[from[h]]]
  /\ view' = [view EXCEPT ![h] = view[from[h]]]
  /\ at' = [at EXCEPT ![h] = "ready"]
  /\ how' = [how EXCEPT ![h] = "none"]
  /\ from' = [from EXCEPT ![h] = None]
  /\ UNCHANGED <<mem, count, published, users>>

\* move_init(rhs): the pointer changes hands, and what its thread knows with it.
MovePointer(h) ==
  /\ at[h] = "init" /\ how[h] = "move"
  /\ holder' = [holder EXCEPT ![h] = holder[from[h]], ![from[h]] = None]
  /\ view' = [view EXCEPT ![h] = view[from[h]], ![from[h]] = {}]
  /\ at' = [at EXCEPT ![h] = "ready"]
  /\ how' = [how EXCEPT ![h] = "none"]
  /\ from' = [from EXCEPT ![h] = None]
  /\ UNCHANGED <<mem, count, published, users>>

-----------------------------------------------------------------------------
(***************************************************************************)
(* deinit()                                                                *)
(***************************************************************************)
AfterDeinit(h) == IF how[h] = "none" THEN "raw" ELSE "init"

DeinitNull(h) ==
  /\ at[h] = "deinit" /\ holder[h] = None
  /\ at' = [at EXCEPT ![h] = AfterDeinit(h)]
  /\ UNCHANGED <<mem, count, published, users, holder, how, from, view>>

\* The view after the acquire fence, and without it.
Unacquired(h, o) == view[h]
Acquired(h, o) == view[h] \cup published[o]

\* fetch_sub with release order; any value but 0 ends deinit().  The acquire
\* fence follows a 0.
FetchSub(h) ==
  LET o == holder[h]
  IN  /\ at[h] = "deinit" /\ o # None
      /\ count' = [count EXCEPT ![o] = Decr(@)]
      /\ published' = [published EXCEPT ![o] = @ \cup view[h]]
      /\ IF count[o] = 0
         THEN /\ at' = [at EXCEPT ![h] = "last"]
              /\ view' = [view EXCEPT ![h] = Acquired(h, o)]
              /\ UNCHANGED holder
         ELSE /\ at' = [at EXCEPT ![h] = AfterDeinit(h)]
              /\ holder' = [holder EXCEPT ![h] = None]
              /\ view' = [view EXCEPT ![h] = {}]
      /\ UNCHANGED <<mem, users, how, from>>

\* delete holder_
Delete(h) ==
  /\ at[h] = "last"
  /\ mem' = [mem EXCEPT ![holder[h]] = "deleted"]
  /\ holder' = [holder EXCEPT ![h] = None]
  /\ published' = [published EXCEPT ![holder[h]] = {}]
  /\ users' = [users EXCEPT ![holder[h]] = {}]
  /\ view' = [view EXCEPT ![h] = {}]
  /\ at' = [at EXCEPT ![h] = AfterDeinit(h)]
  /\ UNCHANGED <<count, how, from>>

Next ==
  \/ \E h \in Handles, o \in Objects : Make(h, o)
  \/ \E h, src \in Handles, kind \in {"copy", "move"} :
       Construct(h, src, kind) \/ Assign(h, src, kind)
  \/ \E h \in Handles :
       \/ MakeNull(h) \/ Use(h) \/ Destroy(h)
       \/ CopyPointer(h) \/ CopyCount(h) \/ MovePointer(h)
       \/ DeinitNull(h) \/ FetchSub(h) \/ Delete(h)

Spec == Init /\ [][Next]_vars

-----------------------------------------------------------------------------
TypeOK ==
  /\ mem \in [Objects -> {"free", "live", "deleted"}]
  /\ count \in [Objects -> 0..SizeMax]
  /\ published \in [Objects -> SUBSET Handles]
  /\ users \in [Objects -> SUBSET Handles]
  /\ holder \in [Handles -> Objects \cup {None}]
  /\ at \in [Handles -> HandleAt]
  /\ how \in [Handles -> {"none", "copy", "move"}]
  /\ from \in [Handles -> Handles \cup {None}]
  /\ view \in [Handles -> SUBSET Handles]

\* An object lives exactly as long as some wrapper points to it: copies, moves,
\* assignments and destructions that race for count_ neither delete it under
\* somebody's hands or twice, nor leak it.
LiveIffHeld ==
  \A o \in Objects : mem[o] = "live" <=> \E h \in Handles : holder[h] = o

\* The wrappers that count_ counts.
Counted(o) == {h \in Handles : holder[h] = o /\ at[h] \in {"ready", "deinit"}}

\* count_ is one less than the number of references, and reads 0 before the last
\* one goes.  It is what the test against 0 in deinit() needs; the comment on count_
\* says something else, see CountAsCommented.
CountOK ==
  \A o \in Objects :
    (mem[o] = "live" /\ ~\E h \in Handles : at[h] = "last" /\ holder[h] = o)
      => count[o] + 1 = Cardinality(Counted(o))

\* The comment on count_: "reference count equals to "count_ - 1" here".
CountAsCommented ==
  \A o \in Objects :
    (mem[o] = "live" /\ ~\E h \in Handles : at[h] = "last" /\ holder[h] = o)
      => Cardinality(Counted(o)) = count[o] - 1

\* "Every operation to the wrapped object happens before "delete holder_"", the
\* comment in deinit(): with a relaxed fetch_add and a release fetch_sub, the
\* acquire fence of the last owner covers the uses through all other wrappers.
DeleteSeesAllUses ==
  \A h \in Handles : at[h] = "last" => users[holder[h]] \subseteq view[h]

-----------------------------------------------------------------------------
(***************************************************************************)
(* The inductive strengthening of the invariants.                          *)
(***************************************************************************)
\* What a handle holds and is the target of, by where it is.
HandleOK ==
  \A h \in Handles :
    /\ at[h] \in {"raw", "init"} => holder[h] = None
    /\ at[h] \in {"raw", "ready"} => how[h] = "none"
    /\ at[h] \in {"init", "counting"} => how[h] # "none"
    /\ how[h] = "none" <=> from[h] = None

\* The source of a copy or move stays as it is until the target is through: a
\* reader is not alone in reading, a mover is.
SourceOK ==
  \A h \in Handles : how[h] # "none" =>
    /\ from[h] # h /\ at[from[h]] = "ready"
    /\ how[h] = "copy" => holder[from[h]] # None
    /\ how[h] = "move" => \A g \in Handles \ {h} : from[g] # from[h]
    /\ at[h] = "counting" => how[h] = "copy" /\ holder[h] = holder[from[h]]

\* The wrapper whose fetch_sub read 0 is alone with its object.
LastOK ==
  \A h \in Handles : at[h] = "last" =>
    /\ holder[h] # None
    /\ \A g \in Handles \ {h} : holder[g] # holder[h]

\* A use is known to the release sequence of count_ or to some wrapper that has
\* still to contribute to it.
ViewOK ==
  \A o \in Objects : (\A h \in Handles : at[h] = "last" => holder[h] # o) =>
    \A u \in users[o] : u \in published[o] \/ \E h \in Counted(o) : u \in view[h]

IInv ==
  /\ TypeOK /\ HandleOK /\ SourceOK /\ LastOK /\ ViewOK
  /\ LiveIffHeld /\ CountOK /\ DeleteSeesAllUses
=============================================================================
