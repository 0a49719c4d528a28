------------------------------ MODULE Partition ------------------------------
(***************************************************************************)
(* How ConcurrentCaller2D::call (concurrent_caller.hpp) and                *)
(* concurrent_copy (example 5) divide n items among c chunks, c > 0, and   *)
(* what that has to be.                                                    *)
(***************************************************************************)
EXTENDS Integers, Sequences, FiniteSets

\* The second loop begins where the first did not get to.
ChunksMisplaced(n, c) ==
  LET remainder == n % c
      task_size == n \div c
      loop[i \in 0..c] ==
        IF i = 0 THEN [first |-> 0, chunks |-> <<>>]
        ELSE LET first == loop[i - 1].first
                 size == IF i <= remainder THEN task_size + 1 ELSE task_size
             IN  [first  |-> first + task_size,
                  chunks |-> Append(loop[i - 1].chunks, [first |-> first, last |-> first + size])]
  IN  loop[c].chunks

\* The remainder is left out.
ChunksShort(n, c) ==
  [i \in 1..c |-> [first |-> (i - 1) * (n \div c), last |-> i * (n \div c)]]

\* Caller2D: the loop over the first remainder chunks, which take one item more,
\* and the loop over the rest; the chunks are half-open ranges of indices.
Chunks(n, c) ==
  LET remainder == n % c
      task_size == n \div c
      loop[i \in 0..c] ==
        IF i = 0 THEN [first |-> 0, chunks |-> <<>>]
        ELSE LET first == loop[i - 1].first
                 size == IF i <= remainder THEN task_size + 1 ELSE task_size
             IN  [first  |-> first + size,
                  chunks |-> Append(loop[i - 1].chunks, [first |-> first, last |-> first + size])]
  IN  loop[c].chunks

\* Example 5: the same loops, over pointers into two arrays and a number of items.
CopyBlocks(n, c) ==
  LET remainder == n % c
      task_size == n \div c
      loop[i \in 0..c] ==
        IF i = 0 THEN [src |-> 0, dest |-> 0, blocks |-> <<>>]
        ELSE LET at == loop[i - 1]
                 size == IF i <= remainder THEN task_size + 1 ELSE task_size
             IN  [src    |-> at.src + size,
                  dest   |-> at.dest + size,
                  blocks |-> Append(at.blocks, [src |-> at.src, dest |-> at.dest, n |-> size])]
  IN  loop[c].blocks

\* c ranges that hold every index below n once, none longer than another by more
\* than one.
Items(r) == r.first..(r.last - 1)
IsPartition(ranges, n, c) ==
  /\ Len(ranges) = c
  /\ \A x \in 0..(n - 1) : \E i \in 1..c : {j \in 1..c : x \in Items(ranges[j])} = {i}
  /\ \A i, j \in 1..c :
       /\ Items(ranges[i]) \subseteq 0..(n - 1)
       /\ Cardinality(Items(ranges[i])) - Cardinality(Items(ranges[j])) <= 1

\* Every item is copied from its place to the same place, once.
IsCopy(blocks, n) ==
  /\ \A x \in 0..(n - 1) :
       Cardinality({b \in DOMAIN blocks : x \in blocks[b].dest..(blocks[b].dest + blocks[b].n - 1)}) = 1
  /\ \A b \in DOMAIN blocks :
       blocks[b].src = blocks[b].dest /\ blocks[b].dest + blocks[b].n <= n
=============================================================================
