--------------------------- MODULE Caller2DProofs ---------------------------
(***************************************************************************)
(* For every number of callables and chunks: the loops of Partition divide *)
(* the callables evenly, and, however many calls are made on whatever pool,*)
(* every callable is started once, while the frame of its call is there.   *)
(***************************************************************************)
EXTENDS Caller2D, FiniteSetTheorems, SequenceTheorems, WellFoundedInduction, TLAPS

-----------------------------------------------------------------------------
(***************************************************************************)
(* What the loops of Partition compute.                                    *)
(***************************************************************************)
\* The items of chunk i, the first i chunks, and the items after them.
Share(n, c, i) == IF i <= n % c THEN n \div c + 1 ELSE n \div c
From(n, c, i) == i * (n \div c) + (IF i <= n % c THEN i ELSE n % c)
Ranges(n, c, i) == [j \in 1..i |-> [first |-> From(n, c, j - 1), last |-> From(n, c, j)]]
Blocks(n, c, i) ==
  [j \in 1..i |-> [src |-> From(n, c, j - 1), dest |-> From(n, c, j - 1), n |-> Share(n, c, j)]]

LEMMA DivMod ==
  ASSUME NEW n \in Nat, NEW c \in Nat \ {0}
  PROVE  n \div c \in Nat /\ n % c \in 0..(c - 1) /\ n = c * (n \div c) + (n % c)
OBVIOUS

LEMMA FromStep ==
  ASSUME NEW n \in Nat, NEW c \in Nat \ {0}, NEW i \in 0..c
  PROVE  /\ From(n, c, i) \in Nat
         /\ From(n, c, 0) = 0 /\ From(n, c, c) = n
         /\ Share(n, c, i) \in {n \div c, n \div c + 1} /\ n \div c \in Nat
         /\ i > 0 => From(n, c, i) = From(n, c, i - 1) + Share(n, c, i)
<1> DEFINE s == n \div c
           r == n % c
<1>1. s \in Nat /\ r \in 0..(c - 1) /\ n = c * s + r
  BY DivMod
<1>2. /\ From(n, c, i) = i * s + (IF i <= r THEN i ELSE r)
      /\ From(n, c, 0) = 0 * s + (IF 0 <= r THEN 0 ELSE r)
      /\ From(n, c, c) = c * s + (IF c <= r THEN c ELSE r)
      /\ From(n, c, i - 1) = (i - 1) * s + (IF i - 1 <= r THEN i - 1 ELSE r)
      /\ Share(n, c, i) = IF i <= r THEN s + 1 ELSE s
  BY DEF From, Share
<1> HIDE DEF s, r
<1>3. i * s \in Nat /\ c * s \in Nat /\ 0 * s = 0 /\ (i - 1) * s = i * s - s
  BY <1>1
<1>4. /\ From(n, c, i) \in Nat /\ From(n, c, 0) = 0 /\ From(n, c, c) = n
      /\ Share(n, c, i) \in {s, s + 1}
      /\ i > 0 => From(n, c, i) = From(n, c, i - 1) + Share(n, c, i)
  BY <1>1, <1>2, <1>3
<1> QED
  BY <1>1, <1>4 DEF s

LEMMA ChunksAre ==
  ASSUME NEW n \in Nat, NEW c \in Nat \ {0}
  PROVE  Chunks(n, c) = Ranges(n, c, c)
<1> DEFINE remainder == n % c
           task_size == n \div c
           Turn(g, i) ==
             IF i = 0 THEN [first |-> 0, chunks |-> <<>>]
             ELSE LET first == g[i - 1].first
                      size == IF i <= remainder THEN task_size + 1 ELSE task_size
                  IN  [first  |-> first + size,
                       chunks |-> Append(g[i - 1].chunks, [first |-> first, last |-> first + size])]
           h == [i \in 0..c |-> [first |-> From(n, c, i), chunks |-> Ranges(n, c, i)]]
           loop == CHOOSE g : g = [i \in 0..c |-> Turn(g, i)]
<1>1. Chunks(n, c) = loop[c].chunks
  BY DEF Chunks
<1>2. \A g, i : i # 0 => Turn(g, i) = [first |-> g[i - 1].first + Share(n, c, i),
                                       chunks |-> Append(g[i - 1].chunks, [first |-> g[i - 1].first,
                                                          last |-> g[i - 1].first + Share(n, c, i)])]
  BY DEF Share
<1>3. \A g : Turn(g, 0) = [first |-> 0, chunks |-> <<>>]
  OBVIOUS
<1> HIDE DEF Turn
<1>4. ASSUME NEW g, NEW i \in 0..c, i > 0 => g[i - 1] = h[i - 1]
      PROVE  Turn(g, i) = h[i]
  <2>1. CASE i = 0
    <3>1. From(n, c, 0) = 0 /\ Ranges(n, c, 0) = <<>>
      BY FromStep DEF Ranges
    <3> QED
      BY <1>3, <2>1, <3>1
  <2>2. CASE i # 0
    <3>1. i \in Nat \ {0} /\ i - 1 \in 0..c
      BY <2>2
    <3>2. g[i - 1] = [first |-> From(n, c, i - 1), chunks |-> Ranges(n, c, i - 1)]
      BY <1>4, <3>1
    <3>3. From(n, c, i) = From(n, c, i - 1) + Share(n, c, i)
      BY <3>1, FromStep
    <3>4. Append(Ranges(n, c, i - 1), [first |-> From(n, c, i - 1), last |-> From(n, c, i)])
            = Ranges(n, c, i)
      BY <3>1 DEF Ranges
    <3>5. Turn(g, i) = [first |-> From(n, c, i), chunks |-> Ranges(n, c, i)]
      <4>1. g[i - 1].first = From(n, c, i - 1) /\ g[i - 1].chunks = Ranges(n, c, i - 1)
        BY <3>2
      <4> QED
        BY <1>2, <2>2, <3>3, <3>4, <4>1
    <3> QED
      BY <3>5
  <2> QED
    BY <2>1, <2>2
<1>5. h = [i \in 0..c |-> Turn(h, i)]
  <2>1. \A i \in 0..c : Turn(h, i) = h[i]
    BY <1>4
  <2> QED
    BY <2>1
<1> HIDE DEF h
<1>6. loop = [i \in 0..c |-> Turn(loop, i)]
  BY <1>5
<1> HIDE DEF loop
<1>7. \A i \in 0..c : loop[i] = h[i]
  <2> DEFINE Wrong == {i \in 0..c : loop[i] # h[i]}
  <2> SUFFICES ASSUME NEW x \in Wrong PROVE FALSE
    OBVIOUS
  <2>1. Wrong \subseteq Nat
    OBVIOUS
  <2>2. PICK i \in Wrong : \A j \in Wrong : ~(<<j, i>> \in OpToRel(<, Nat))
    BY <2>1, WFMin, NatLessThanWellFounded
  <2>3. \A j \in Wrong : ~(j < i)
    BY <2>1, <2>2 DEF OpToRel
  <2>4. i > 0 => loop[i - 1] = h[i - 1]
    BY <2>3
  <2>5. loop[i] = Turn(loop, i)
    BY <1>6
  <2> QED
    BY <1>4, <2>4, <2>5
<1>8. loop[c] = h[c] /\ h[c] = [first |-> From(n, c, c), chunks |-> Ranges(n, c, c)]
  BY <1>7 DEF h
<1> QED
  BY <1>1, <1>8

LEMMA BlocksAre ==
  ASSUME NEW n \in Nat, NEW c \in Nat \ {0}
  PROVE  CopyBlocks(n, c) = Blocks(n, c, c)
<1> DEFINE remainder == n % c
           task_size == n \div c
           Turn(g, i) ==
             IF i = 0 THEN [src |-> 0, dest |-> 0, blocks |-> <<>>]
             ELSE LET at == g[i - 1]
                      size == IF i <= remainder THEN task_size + 1 ELSE task_size
                  IN  [src    |-> at.src + size,
                       dest   |-> at.dest + size,
                       blocks |-> Append(at.blocks, [src |-> at.src, dest |-> at.dest, n |-> size])]
           h == [i \in 0..c |-> [src |-> From(n, c, i), dest |-> From(n, c, i), blocks |-> Blocks(n, c, i)]]
           loop == CHOOSE g : g = [i \in 0..c |-> Turn(g, i)]
<1>1. CopyBlocks(n, c) = loop[c].blocks
  BY DEF CopyBlocks
<1>2. \A g, i : i # 0 =>
        Turn(g, i) = [src    |-> g[i - 1].src + Share(n, c, i),
                      dest   |-> g[i - 1].dest + Share(n, c, i),
                      blocks |-> Append(g[i - 1].blocks, [src |-> g[i - 1].src, dest |-> g[i - 1].dest,
                                                          n |-> Share(n, c, i)])]
  BY DEF Share
<1>3. \A g : Turn(g, 0) = [src |-> 0, dest |-> 0, blocks |-> <<>>]
  OBVIOUS
<1> HIDE DEF Turn
<1>4. ASSUME NEW g, NEW i \in 0..c, i > 0 => g[i - 1] = h[i - 1]
      PROVE  Turn(g, i) = h[i]
  <2>1. CASE i = 0
    <3>1. From(n, c, 0) = 0 /\ Blocks(n, c, 0) = <<>>
      BY FromStep DEF Blocks
    <3> QED
      BY <1>3, <2>1, <3>1
  <2>2. CASE i # 0
    <3>1. i \in Nat \ {0} /\ i - 1 \in 0..c
      BY <2>2
    <3>2. g[i - 1] = [src |-> From(n, c, i - 1), dest |-> From(n, c, i - 1), blocks |-> Blocks(n, c, i - 1)]
      BY <1>4, <3>1
    <3>3. From(n, c, i) = From(n, c, i - 1) + Share(n, c, i)
      BY <3>1, FromStep
    <3>4. Append(Blocks(n, c, i - 1), [src |-> From(n, c, i - 1), dest |-> From(n, c, i - 1),
                                       n |-> Share(n, c, i)]) = Blocks(n, c, i)
      BY <3>1 DEF Blocks
    <3>5. Turn(g, i) = [src |-> From(n, c, i), dest |-> From(n, c, i), blocks |-> Blocks(n, c, i)]
      <4>1. /\ g[i - 1].src = From(n, c, i - 1) /\ g[i - 1].dest = From(n, c, i - 1)
            /\ g[i - 1].blocks = Blocks(n, c, i - 1)
        BY <3>2
      <4> QED
        BY <1>2, <2>2, <3>3, <3>4, <4>1
    <3> QED
      BY <3>5
  <2> QED
    BY <2>1, <2>2
<1>5. h = [i \in 0..c |-> Turn(h, i)]
  <2>1. \A i \in 0..c : Turn(h, i) = h[i]
    BY <1>4
  <2> QED
    BY <2>1
<1> HIDE DEF h
<1>6. loop = [i \in 0..c |-> Turn(loop, i)]
  BY <1>5
<1> HIDE DEF loop
<1>7. \A i \in 0..c : loop[i] = h[i]
  <2> DEFINE Wrong == {i \in 0..c : loop[i] # h[i]}
  <2> SUFFICES ASSUME NEW x \in Wrong PROVE FALSE
    OBVIOUS
  <2>1. Wrong \subseteq Nat
    OBVIOUS
  <2>2. PICK i \in Wrong : \A j \in Wrong : ~(<<j, i>> \in OpToRel(<, Nat))
    BY <2>1, WFMin, NatLessThanWellFounded
  <2>3. \A j \in Wrong : ~(j < i)
    BY <2>1, <2>2 DEF OpToRel
  <2>4. i > 0 => loop[i - 1] = h[i - 1]
    BY <2>3
  <2>5. loop[i] = Turn(loop, i)
    BY <1>6
  <2> QED
    BY <1>4, <2>4, <2>5
<1>8. loop[c] = h[c]
      /\ h[c] = [src |-> From(n, c, c), dest |-> From(n, c, c), blocks |-> Blocks(n, c, c)]
  BY <1>7 DEF h
<1> QED
  BY <1>1, <1>8

\* The chunks follow each other, and each item is in one of them.
LEMMA FromOrdered ==
  ASSUME NEW n \in Nat, NEW c \in Nat \ {0}, NEW i \in 0..c, NEW j \in 0..c, i <= j
  PROVE  From(n, c, i) <= From(n, c, j)
<1> DEFINE s == n \div c
           r == n % c
<1>1. s \in Nat /\ r \in 0..(c - 1)
  BY DivMod
<1>2. /\ From(n, c, i) = i * s + (IF i <= r THEN i ELSE r)
      /\ From(n, c, j) = j * s + (IF j <= r THEN j ELSE r)
  BY DEF From
<1> HIDE DEF s, r
<1>3. j * s = i * s + (j - i) * s /\ (j - i) * s \in Nat /\ i * s \in Nat
  BY <1>1
<1> QED
  BY <1>1, <1>2, <1>3

LEMMA ItemLocated ==
  ASSUME NEW n \in Nat, NEW c \in Nat \ {0}, NEW x \in 0..(n - 1)
  PROVE  \E i \in 1..c :
           /\ From(n, c, i - 1) <= x /\ x < From(n, c, i)
           /\ \A j \in 1..c : From(n, c, j - 1) <= x /\ x < From(n, c, j) => j = i
<1> DEFINE Beyond == {i \in 0..c : x < From(n, c, i)}
<1>1. c \in Beyond /\ 0 \notin Beyond /\ Beyond \subseteq Nat
  BY FromStep
<1>2. PICK i \in Beyond : \A j \in Beyond : ~(<<j, i>> \in OpToRel(<, Nat))
  BY <1>1, WFMin, NatLessThanWellFounded
<1>3. i \in 1..c /\ i - 1 \in 0..c /\ i - 1 < i /\ i \in Nat /\ i - 1 \in Nat /\ x < From(n, c, i)
  BY <1>1
<1>4. From(n, c, i - 1) <= x
  <2>1. i - 1 \notin Beyond
    <3>1. <<i - 1, i>> \in OpToRel(<, Nat)
      BY <1>3 DEF OpToRel
    <3> QED
      BY <1>2, <3>1
  <2>2. From(n, c, i - 1) \in Nat
    BY <1>3, FromStep
  <2> QED
    BY <1>3, <2>1, <2>2
<1>5. ASSUME NEW j \in 1..c, From(n, c, j - 1) <= x, x < From(n, c, j)
      PROVE  j = i
  <2>1. /\ From(n, c, i) \in Nat /\ From(n, c, j) \in Nat
        /\ From(n, c, i - 1) \in Nat /\ From(n, c, j - 1) \in Nat
    <3>1. i \in 0..c /\ j \in 0..c /\ i - 1 \in 0..c /\ j - 1 \in 0..c
      BY <1>3
    <3> QED
      BY <3>1, FromStep
  <2>2. ~(i < j)
    <3>1. i < j => i <= j - 1 /\ j - 1 \in 0..c
      BY <1>3
    <3>2. i < j => From(n, c, i) <= From(n, c, j - 1)
      BY <3>1, FromOrdered
    <3> QED
      BY <1>3, <1>5, <2>1, <3>2
  <2>3. ~(j < i)
    <3>1. j < i => j <= i - 1 /\ j \in 0..c
      BY <1>3
    <3>2. j < i => From(n, c, j) <= From(n, c, i - 1)
      BY <1>3, <3>1, FromOrdered
    <3> QED
      BY <1>4, <1>5, <2>1, <3>2
  <2> QED
    BY <1>3, <2>2, <2>3
<1> QED
  BY <1>3, <1>4, <1>5

LEMMA ChunksDivide ==
  ASSUME NEW n \in Nat, NEW c \in Nat \ {0}
  PROVE  IsPartition(Chunks(n, c), n, c)
<1> DEFINE ranges == Ranges(n, c, c)
<1>1. Chunks(n, c) = ranges /\ Len(ranges) = c
  BY ChunksAre DEF Ranges
<1>2. ASSUME NEW j \in 1..c
      PROVE  /\ Items(ranges[j]) = From(n, c, j - 1)..(From(n, c, j) - 1)
             /\ Items(ranges[j]) \subseteq 0..(n - 1)
             /\ Cardinality(Items(ranges[j])) \in {n \div c, n \div c + 1}
  <2>1. ranges[j] = [first |-> From(n, c, j - 1), last |-> From(n, c, j)]
    BY DEF Ranges
  <2>2. Items(ranges[j]) = From(n, c, j - 1)..(From(n, c, j) - 1)
    BY <2>1 DEF Items
  <2>3. /\ From(n, c, j - 1) \in Nat /\ From(n, c, j) \in Nat
        /\ From(n, c, j) = From(n, c, j - 1) + Share(n, c, j)
        /\ Share(n, c, j) \in {n \div c, n \div c + 1} /\ n \div c \in Nat
    <3>1. j \in 0..c /\ j - 1 \in 0..c /\ j > 0
      OBVIOUS
    <3> QED
      BY <3>1, FromStep
  <2>4. From(n, c, j) <= n
    BY FromOrdered, FromStep
  <2>5. Cardinality(From(n, c, j - 1)..(From(n, c, j) - 1)) = Share(n, c, j)
    <3> DEFINE a == From(n, c, j - 1)
               b == From(n, c, j) - 1
    <3>1. a \in Int /\ b \in Int /\ b - a + 1 = Share(n, c, j) /\ (a > b => Share(n, c, j) = 0)
      BY <2>3
    <3> HIDE DEF a, b
    <3>2. Cardinality(a..b) = Share(n, c, j)
      BY <3>1, FS_Interval
    <3> QED
      BY <3>2 DEF a, b
  <2>6. From(n, c, j - 1)..(From(n, c, j) - 1) \subseteq 0..(n - 1)
    BY <2>3, <2>4
  <2> HIDE DEF ranges
  <2>7. Items(ranges[j]) \subseteq 0..(n - 1)
    BY <2>2, <2>6
  <2>8. Cardinality(Items(ranges[j])) \in {n \div c, n \div c + 1}
    BY <2>2, <2>3, <2>5
  <2> QED
    BY <2>2, <2>7, <2>8
<1>3. ASSUME NEW x \in 0..(n - 1)
      PROVE  \E i \in 1..c : {j \in 1..c : x \in Items(ranges[j])} = {i}
  <2>1. PICK i \in 1..c :
          /\ From(n, c, i - 1) <= x /\ x < From(n, c, i)
          /\ \A j \in 1..c : From(n, c, j - 1) <= x /\ x < From(n, c, j) => j = i
    BY ItemLocated
  <2>2. \A j \in 1..c : x \in Items(ranges[j]) <=> From(n, c, j - 1) <= x /\ x < From(n, c, j)
    <3> SUFFICES ASSUME NEW j \in 1..c
                 PROVE  x \in Items(ranges[j]) <=> From(n, c, j - 1) <= x /\ x < From(n, c, j)
      OBVIOUS
    <3>1. From(n, c, j - 1) \in Nat /\ From(n, c, j) \in Nat
      BY FromStep
    <3> QED
      BY <1>2, <3>1
  <2> HIDE DEF ranges
  <2> QED
    BY <2>1, <2>2
<1>4. \A i, j \in 1..c : Cardinality(Items(ranges[i])) - Cardinality(Items(ranges[j])) <= 1
  <2> SUFFICES ASSUME NEW i \in 1..c, NEW j \in 1..c
               PROVE  Cardinality(Items(ranges[i])) - Cardinality(Items(ranges[j])) <= 1
    OBVIOUS
  <2>1. n \div c \in Nat
    BY DivMod
  <2>2. /\ Cardinality(Items(ranges[i])) \in {n \div c, n \div c + 1}
        /\ Cardinality(Items(ranges[j])) \in {n \div c, n \div c + 1}
    BY <1>2
  <2> HIDE DEF ranges
  <2> QED
    BY <2>1, <2>2
<1> HIDE DEF ranges
<1> QED
  BY <1>1, <1>2, <1>3, <1>4 DEF IsPartition

LEMMA BlocksCopy ==
  ASSUME NEW n \in Nat, NEW c \in Nat \ {0}
  PROVE  IsCopy(CopyBlocks(n, c), n)
<1> DEFINE blocks == Blocks(n, c, c)
<1>1. CopyBlocks(n, c) = blocks /\ DOMAIN blocks = 1..c
  BY BlocksAre DEF Blocks
<1>2. ASSUME NEW j \in 1..c
      PROVE  /\ blocks[j].src = From(n, c, j - 1) /\ blocks[j].dest = From(n, c, j - 1)
             /\ blocks[j].n = Share(n, c, j)
             /\ From(n, c, j - 1) + Share(n, c, j) = From(n, c, j)
             /\ From(n, c, j - 1) \in Nat /\ From(n, c, j) \in Nat /\ From(n, c, j) <= n
             /\ Share(n, c, j) \in Nat
  <2>1. /\ From(n, c, j - 1) \in Nat /\ From(n, c, j) \in Nat
        /\ From(n, c, j) = From(n, c, j - 1) + Share(n, c, j)
        /\ Share(n, c, j) \in Nat
    <3>1. j \in 0..c /\ j - 1 \in 0..c /\ j > 0
      OBVIOUS
    <3>2. Share(n, c, j) \in {n \div c, n \div c + 1} /\ n \div c \in Nat
      BY <3>1, FromStep
    <3>3. Share(n, c, j) \in Nat
      BY <3>2
    <3> QED
      BY <3>1, <3>3, FromStep
  <2>2. From(n, c, j) <= n
    BY FromOrdered, FromStep
  <2>3. blocks[j] = [src |-> From(n, c, j - 1), dest |-> From(n, c, j - 1), n |-> Share(n, c, j)]
    BY DEF Blocks
  <2> QED
    BY <2>1, <2>2, <2>3
<1> HIDE DEF blocks
<1>3. ASSUME NEW x \in 0..(n - 1)
      PROVE  Cardinality({b \in DOMAIN blocks :
                            x \in blocks[b].dest..(blocks[b].dest + blocks[b].n - 1)}) = 1
  <2>1. PICK i \in 1..c :
          /\ From(n, c, i - 1) <= x /\ x < From(n, c, i)
          /\ \A j \in 1..c : From(n, c, j - 1) <= x /\ x < From(n, c, j) => j = i
    BY ItemLocated
  <2>2. ASSUME NEW j \in 1..c
        PROVE  x \in blocks[j].dest..(blocks[j].dest + blocks[j].n - 1)
                 <=> From(n, c, j - 1) <= x /\ x < From(n, c, j)
    <3>1. blocks[j].dest + blocks[j].n - 1 = From(n, c, j - 1) + Share(n, c, j) - 1
      BY <1>2
    <3>2. From(n, c, j - 1) + Share(n, c, j) - 1 = From(n, c, j) - 1
      BY <1>2
    <3> QED
      BY <1>2, <3>1, <3>2
  <2>3. {b \in DOMAIN blocks : x \in blocks[b].dest..(blocks[b].dest + blocks[b].n - 1)} = {i}
    BY <1>1, <2>1, <2>2
  <2> QED
    BY <2>3, FS_Singleton
<1>4. \A b \in DOMAIN blocks :
        blocks[b].src = blocks[b].dest /\ blocks[b].dest + blocks[b].n <= n
  <2> SUFFICES ASSUME NEW b \in 1..c
               PROVE  blocks[b].src = blocks[b].dest /\ blocks[b].dest + blocks[b].n <= n
    BY <1>1
  <2>1. blocks[b].dest + blocks[b].n = From(n, c, b - 1) + Share(n, c, b)
    BY <1>2
  <2> QED
    BY <1>2, <2>1
<1> QED
  BY <1>1, <1>3, <1>4 DEF IsCopy

-----------------------------------------------------------------------------
(***************************************************************************)
(* The pieces of a call, and what has an effect on one call only.          *)
(***************************************************************************)
\* For every number of callables and of chunks.
THEOREM ChunksArePartition == \A n \in Nat, c \in Nat \ {0} : IsPartition(Chunks(n, c), n, c)
BY ChunksDivide

THEOREM CopiesAreCopies == \A n \in Nat, c \in Nat \ {0} : IsCopy(CopyBlocks(n, c), n)
BY BlocksCopy

LEMMA Constants ==
  ASSUME TypeOK
  PROVE  /\ setting.size \in Nat /\ setting.size \in 0..MaxSize
         /\ setting.concurrency \in Nat \ {0} /\ setting.concurrency \in 1..MaxConcurrency
         /\ Numbers = 1..setting.concurrency /\ setting.threads \in BOOLEAN
         /\ IsFiniteSet(Numbers) /\ Cardinality(Numbers) = setting.concurrency
         /\ MaxConcurrency \in Nat /\ MaxSize \in Nat
<1>1. /\ setting.size \in 0..MaxSize /\ setting.concurrency \in 1..MaxConcurrency
      /\ setting.threads \in BOOLEAN /\ MaxSize \in Nat /\ MaxConcurrency \in Nat
  BY Caller2DAssumption DEF TypeOK
<1>2. setting.size \in Nat /\ setting.concurrency \in Nat \ {0}
  BY <1>1
<1>3. IsFiniteSet(1..setting.concurrency) /\ Cardinality(1..setting.concurrency) = setting.concurrency
  <2> DEFINE c == setting.concurrency
  <2>1. 1 \in Int /\ c \in Int /\ ~(1 > c) /\ c - 1 + 1 = c
    BY <1>2
  <2> HIDE DEF c
  <2>2. IsFiniteSet(1..c) /\ Cardinality(1..c) = c
    BY <2>1, FS_Interval
  <2> QED
    BY <2>2 DEF c
<1> QED
  BY <1>1, <1>2, <1>3 DEF Numbers

LEMMA Pieces ==
  ASSUME TypeOK
  PROVE  /\ \A i \in Numbers : /\ Piece(i).first \in Nat /\ Piece(i).last \in Nat
                               /\ Piece(i).first <= Piece(i).last /\ Piece(i).last <= setting.size
         /\ \A x \in 0..(setting.size - 1) :
              \E i \in Numbers : /\ Piece(i).first <= x /\ x < Piece(i).last
                                 /\ \A j \in Numbers : Piece(j).first <= x /\ x < Piece(j).last => j = i
<1> DEFINE n == setting.size
           c == setting.concurrency
<1>1. n \in Nat /\ c \in Nat \ {0} /\ Numbers = 1..c
  BY Constants
<1>2. \A i \in 1..c : Piece(i).first = From(n, c, i - 1) /\ Piece(i).last = From(n, c, i)
  <2>1. Chunks(n, c) = Ranges(n, c, c)
    BY <1>1, ChunksAre
  <2>2. \A i \in 1..c : Ranges(n, c, c)[i] = [first |-> From(n, c, i - 1), last |-> From(n, c, i)]
    BY DEF Ranges
  <2>3. \A i : Piece(i) = Ranges(n, c, c)[i]
    BY <2>1 DEF Piece
  <2> SUFFICES ASSUME NEW i \in 1..c
               PROVE  Piece(i).first = From(n, c, i - 1) /\ Piece(i).last = From(n, c, i)
    OBVIOUS
  <2>4. Piece(i) = [first |-> From(n, c, i - 1), last |-> From(n, c, i)]
    BY <2>2, <2>3
  <2> QED
    BY <2>4
<1> HIDE DEF n, c
<1>3. ASSUME NEW i \in 1..c
      PROVE  /\ Piece(i).first \in Nat /\ Piece(i).last \in Nat
             /\ Piece(i).first <= Piece(i).last /\ Piece(i).last <= n
  <2>1. i \in 0..c /\ i - 1 \in 0..c /\ c \in 0..c /\ i - 1 <= i /\ i <= c
    BY <1>1
  <2>2. /\ From(n, c, i - 1) \in Nat /\ From(n, c, i) \in Nat /\ From(n, c, c) = n
        /\ From(n, c, i - 1) <= From(n, c, i) /\ From(n, c, i) <= From(n, c, c)
    BY <1>1, <2>1, FromStep, FromOrdered
  <2> QED
    BY <1>2, <2>2
<1>4. \A x \in 0..(n - 1) :
        \E i \in 1..c : /\ Piece(i).first <= x /\ x < Piece(i).last
                        /\ \A j \in 1..c : Piece(j).first <= x /\ x < Piece(j).last => j = i
  <2> SUFFICES ASSUME NEW x \in 0..(n - 1)
               PROVE  \E i \in 1..c : /\ Piece(i).first <= x /\ x < Piece(i).last
                                       /\ \A j \in 1..c : Piece(j).first <= x /\ x < Piece(j).last => j = i
    OBVIOUS
  <2>1. PICK i \in 1..c :
          /\ From(n, c, i - 1) <= x /\ x < From(n, c, i)
          /\ \A j \in 1..c : From(n, c, j - 1) <= x /\ x < From(n, c, j) => j = i
    BY <1>1, ItemLocated
  <2> QED
    BY <1>2, <2>1
<1> QED
  BY <1>1, <1>3, <1>4 DEF n

LEMMA SettingKept ==
  ASSUME UNCHANGED setting
  PROVE  Numbers' = Numbers /\ \A i : Piece(i)' = Piece(i)
BY DEF Numbers, Piece

\* A call that a step does not touch.
LEMMA CallSame ==
  ASSUME UNCHANGED setting, NEW k \in Calls, call'[k] = call[k], chunk'[k] = chunk[k]
  PROVE  /\ CallOK(k)' <=> CallOK(k)
         /\ Passed(k)' = Passed(k)
<1>1. Numbers' = Numbers /\ \A i : Piece(i)' = Piece(i)
  BY SettingKept
<1>2. (Undivided(k)' <=> Undivided(k)) /\ Unjoined(k)' = Unjoined(k)
  BY <1>1 DEF Undivided, Unjoined
<1>3. \A i \in Numbers : ChunkOK(k, i)' <=> ChunkOK(k, i)
  BY <1>1 DEF ChunkOK
<1> QED
  BY <1>1, <1>2, <1>3 DEF CallOK, Passed

LEMMA StartedSame ==
  ASSUME IInv, UNCHANGED <<setting, started>>, \A k \in Calls : Passed(k)' = Passed(k)
  PROVE  StartedOK'
BY DEF StartedOK, IInv

ChunkRecords == [at : ChunkAt, next : 0..MaxSize, last : 0..MaxSize]

LEMMA ChunkPut ==
  ASSUME TypeOK, NEW k \in Calls, NEW i \in Numbers, NEW r \in ChunkRecords,
         chunk' = [chunk EXCEPT ![k][i] = r]
  PROVE  /\ chunk' \in [Calls -> [Numbers -> ChunkRecords]]
         /\ chunk'[k][i] = r
         /\ \A j \in Numbers : j # i => chunk'[k][j] = chunk[k][j]
         /\ \A l \in Calls : l # k => chunk'[l] = chunk[l]
<1> DEFINE F == [Numbers -> ChunkRecords]
           f == [chunk[k] EXCEPT ![i] = r]
<1>1. chunk \in [Calls -> F] /\ chunk[k] \in F
  BY DEF TypeOK, ChunkRecords
<1>2. f \in F /\ f[i] = r /\ \A j \in Numbers : j # i => f[j] = chunk[k][j]
  BY <1>1
<1>3. chunk' = [chunk EXCEPT ![k] = f]
  OBVIOUS
<1> HIDE DEF f, F
<1>4. chunk' \in [Calls -> F] /\ chunk'[k] = f /\ \A l \in Calls : l # k => chunk'[l] = chunk[l]
  BY <1>1, <1>2, <1>3
<1> QED
  BY <1>2, <1>4 DEF F

LEMMA ChunkMoves ==
  ASSUME TypeOK, NEW k \in Calls, NEW i \in Numbers, NEW a \in ChunkAt,
         chunk' = [chunk EXCEPT ![k][i].at = a]
  PROVE  /\ chunk' \in [Calls -> [Numbers -> ChunkRecords]]
         /\ chunk'[k][i] = [at |-> a, next |-> chunk[k][i].next, last |-> chunk[k][i].last]
         /\ \A j \in Numbers : j # i => chunk'[k][j] = chunk[k][j]
         /\ \A l \in Calls : l # k => chunk'[l] = chunk[l]
<1> DEFINE F == [Numbers -> ChunkRecords]
           r == [at |-> a, next |-> chunk[k][i].next, last |-> chunk[k][i].last]
           f == [chunk[k] EXCEPT ![i] = r]
<1>1. chunk \in [Calls -> F] /\ chunk[k] \in F /\ chunk[k][i] \in ChunkRecords
  BY DEF TypeOK, ChunkRecords
<1>2. r \in ChunkRecords /\ [chunk[k][i] EXCEPT !.at = a] = r
  BY <1>1 DEF ChunkRecords
<1>3. chunk' = [chunk EXCEPT ![k] = f]
  BY <1>2
<1> HIDE DEF r
<1>4. f \in F /\ f[i] = r /\ \A j \in Numbers : j # i => f[j] = chunk[k][j]
  BY <1>1, <1>2
<1> HIDE DEF f, F
<1>5. chunk' \in [Calls -> F] /\ chunk'[k] = f /\ \A l \in Calls : l # k => chunk'[l] = chunk[l]
  BY <1>1, <1>3, <1>4
<1> QED
  BY <1>4, <1>5 DEF F, r

\* The same without what the chunk is.
LEMMA ChunkGoes ==
  ASSUME TypeOK, NEW k \in Calls, NEW i \in Numbers, NEW a \in ChunkAt,
         chunk' = [chunk EXCEPT ![k][i].at = a]
  PROVE  /\ chunk'[k][i].at = a
         /\ \A j \in Numbers : j # i => chunk'[k][j] = chunk[k][j]
         /\ \A l \in Calls : l # k => chunk'[l] = chunk[l]
<1>1. /\ chunk' \in [Calls -> [Numbers -> ChunkRecords]]
      /\ chunk'[k][i] = [at |-> a, next |-> chunk[k][i].next, last |-> chunk[k][i].last]
      /\ \A j \in Numbers : j # i => chunk'[k][j] = chunk[k][j]
      /\ \A l \in Calls : l # k => chunk'[l] = chunk[l]
  BY ChunkMoves
<1> QED
  BY <1>1

CallRecords == [at : CallAt, next : 1..MaxConcurrency + 1, count : 0..MaxConcurrency]

LEMMA CallPut ==
  ASSUME TypeOK, NEW k \in Calls,
         NEW r \in CallRecords,
         call' = [call EXCEPT ![k] = r]
  PROVE  /\ call' \in [Calls -> CallRecords]
         /\ call'[k] = r /\ \A l \in Calls : l # k => call'[l] = call[l]
BY DEF TypeOK, CallRecords

LEMMA CallMoves ==
  ASSUME TypeOK, NEW k \in Calls, NEW a \in CallAt, call' = [call EXCEPT ![k].at = a]
  PROVE  /\ call' \in [Calls -> CallRecords]
         /\ call'[k] = [at |-> a, next |-> call[k].next, count |-> call[k].count]
         /\ \A l \in Calls : l # k => call'[l] = call[l]
<1>0. PICK r : r = [at |-> a, next |-> call[k].next, count |-> call[k].count]
  OBVIOUS
<1>1. call[k] \in CallRecords
  BY DEF TypeOK, CallRecords
<1>2. /\ r \in CallRecords
      /\ [call[k] EXCEPT !.at = a] = r
  BY <1>0, <1>1 DEF CallRecords
<1>3. call' = [call EXCEPT ![k] = r]
  BY <1>2
<1>4. /\ call' \in [Calls -> CallRecords]
      /\ call'[k] = r /\ \A l \in Calls : l # k => call'[l] = call[l]
  BY <1>2, <1>3, CallPut
<1> QED
  BY <1>0, <1>4

-----------------------------------------------------------------------------
(***************************************************************************)
(* What the steps have in common: the calls they leave alone, and the      *)
(* queue.                                                                  *)
(***************************************************************************)
LEMMA OthersKept ==
  ASSUME IInv, UNCHANGED setting, NEW k \in Calls,
         \A l \in Calls : l # k => call'[l] = call[l] /\ chunk'[l] = chunk[l]
  PROVE  \A l \in Calls : l # k => CallOK(l)' /\ Passed(l)' = Passed(l)
<1> SUFFICES ASSUME NEW l \in Calls, l # k
             PROVE  CallOK(l)' /\ Passed(l)' = Passed(l)
  OBVIOUS
<1>1. call'[l] = call[l] /\ chunk'[l] = chunk[l] /\ CallOK(l)
  BY DEF IInv
<1> QED
  BY <1>1, CallSame

LEMMA PassedKept ==
  ASSUME UNCHANGED setting, NEW k \in Calls, Undivided(k)' <=> Undivided(k),
         \A i \in Numbers : chunk'[k][i].next = chunk[k][i].next
  PROVE  Passed(k)' = Passed(k)
<1>1. Numbers' = Numbers /\ \A i : Piece(i)' = Piece(i)
  BY SettingKept
<1> QED
  BY <1>1 DEF Passed

\* A step of a call that leaves its chunks alone.
LEMMA ChunksKept ==
  ASSUME UNCHANGED setting, NEW k \in Calls, chunk'[k] = chunk[k]
  PROVE  /\ \A i \in Numbers : ChunkOK(k, i)' <=> ChunkOK(k, i)
         /\ Unjoined(k)' = Unjoined(k)
<1>1. Numbers' = Numbers /\ \A i : Piece(i)' = Piece(i)
  BY SettingKept
<1> QED
  BY <1>1 DEF ChunkOK, Unjoined

LEMMA QueueIs ==
  QueueOK <=> /\ \A p \in DOMAIN queue : Waits(queue[p])
              /\ \A p, q \in DOMAIN queue : queue[p] = queue[q] => p = q
BY DEF QueueOK

LEMMA QueueIsNext ==
  QueueOK' <=> /\ \A p \in DOMAIN queue' : Waits(queue[p])'
               /\ \A p, q \in DOMAIN queue' : queue'[p] = queue'[q] => p = q
BY DEF QueueOK

LEMMA QueueKept ==
  ASSUME IInv, UNCHANGED <<setting, queue>>, \A task \in Tasks : Waits(task) => Waits(task)'
  PROVE  QueueOK'
<1>1. queue \in Seq(Tasks) /\ \A p \in DOMAIN queue : queue[p] \in Tasks
  BY DEF IInv, TypeOK, Tasks
<1>2. \A p \in DOMAIN queue : Waits(queue[p]) /\ queue'[p] = queue[p]
  BY QueueIs DEF IInv
<1>3. \A p \in DOMAIN queue' : Waits(queue[p])'
  <2> SUFFICES ASSUME NEW p \in DOMAIN queue'
               PROVE  Waits(queue[p])'
    OBVIOUS
  <2>1. p \in DOMAIN queue
    OBVIOUS
  <2>2. PICK t \in Tasks : t = queue[p] /\ Waits(t)
    BY <1>1, <1>2, <2>1
  <2>3. Waits(t)' /\ queue'[p] = t
    BY <2>2
  <2> QED
    BY <2>3 DEF Waits
<1>4. \A p, q \in DOMAIN queue' : queue'[p] = queue'[q] => p = q
  BY DEF IInv, QueueOK
<1> QED
  BY <1>3, <1>4, QueueIsNext

LEMMA QueuePushed ==
  ASSUME IInv, UNCHANGED setting, NEW task \in Tasks, Pushed(task), ~Waits(task),
         ~setting.threads => Waits(task)', \A t \in Tasks : Waits(t) => Waits(t)'
  PROVE  QueueOK' /\ queue' \in Seq(Tasks)
<1>1. queue \in Seq(Tasks) /\ \A p \in DOMAIN queue : queue[p] \in Tasks
  BY DEF IInv, TypeOK, Tasks
<1>2. CASE setting.threads
  BY <1>1, <1>2, QueueKept DEF Pushed
<1>3. CASE ~setting.threads
  <2>1. queue' = Append(queue, task)
    BY <1>3 DEF Pushed
  <2>2. /\ queue' \in Seq(Tasks) /\ Len(queue') = Len(queue) + 1 /\ Len(queue) \in Nat
        /\ queue'[Len(queue) + 1] = task
        /\ \A p \in DOMAIN queue : queue'[p] = queue[p]
        /\ DOMAIN queue = 1..Len(queue) /\ DOMAIN queue' = 1..(Len(queue) + 1)
    BY <1>1, <2>1
  <2>3. \A p \in DOMAIN queue' : p \in DOMAIN queue \/ p = Len(queue) + 1
    BY <2>2
  <2>4. \A p \in DOMAIN queue : Waits(queue[p]) /\ queue[p] # task
    BY QueueIs DEF IInv
  <2>5. \A p \in DOMAIN queue' : Waits(queue[p])'
    <3> SUFFICES ASSUME NEW p \in DOMAIN queue'
                 PROVE  Waits(queue[p])'
      OBVIOUS
    <3>1. CASE p \in DOMAIN queue
      <4>1. PICK t \in Tasks : t = queue[p] /\ Waits(t)
        BY <1>1, <2>4, <3>1
      <4>2. Waits(t)' /\ queue'[p] = t
        BY <2>2, <3>1, <4>1
      <4> QED
        BY <4>2 DEF Waits
    <3>2. CASE p = Len(queue) + 1
      <4>1. Waits(task)' /\ queue'[p] = task
        BY <1>3, <2>2, <3>2
      <4> QED
        BY <4>1 DEF Waits
    <3> QED
      BY <2>3, <3>1, <3>2
  <2>6. \A p, q \in DOMAIN queue : queue[p] = queue[q] => p = q
    BY DEF IInv, QueueOK
  <2>7. \A p, q \in DOMAIN queue' : queue'[p] = queue'[q] => p = q
    BY <2>2, <2>3, <2>4, <2>6
  <2> QED
    BY <2>2, <2>5, <2>7, QueueIsNext
<1> QED
  BY <1>2, <1>3

\* Block and PortalThrows.
LEMMA LaunchingEnds ==
  ASSUME IInv, NEW k \in Calls, NEW a \in {"waiting", "threw"},
         call[k].at = "launching", call' = [call EXCEPT ![k].at = a],
         UNCHANGED <<setting, chunk, started, queue, doing>>
  PROVE  IInv'
<1>0. TypeOK /\ CallOK(k) /\ \A l \in Calls : CallOK(l)
  BY DEF IInv
<1>1. /\ call[k].at = "launching" /\ call' = [call EXCEPT ![k].at = a]
      /\ UNCHANGED <<setting, chunk, started, queue, doing>>
  OBVIOUS
<1>2. /\ call' \in [Calls -> CallRecords]
      /\ call'[k] = [at |-> a, next |-> call[k].next, count |-> call[k].count]
      /\ \A l \in Calls : l # k => call'[l] = call[l]
  <2>1. a \in CallAt
    BY DEF CallAt
  <2> QED
    BY <1>0, <1>1, <2>1, CallMoves
<1>3. Numbers' = Numbers /\ \A i : Piece(i)' = Piece(i)
  BY <1>1, SettingKept
<1>4. TypeOK'
  BY <1>0, <1>1, <1>2, <1>3 DEF TypeOK, CallRecords
<1>5. ~Undivided(k) /\ ~Undivided(k)' /\ call'[k].at = a /\ call'[k].count = call[k].count
  BY <1>1, <1>2 DEF Undivided
<1>6. CallOK(k)'
  BY <1>0, <1>1, <1>3, <1>5, ChunksKept DEF CallOK
<1>7. \A l \in Calls : l # k => CallOK(l)' /\ Passed(l)' = Passed(l)
  BY <1>1, <1>2, OthersKept
<1>8. Passed(k)' = Passed(k)
  BY <1>1, <1>5, PassedKept
<1>9. StartedOK'
  BY <1>1, <1>7, <1>8, StartedSame
<1>10. QueueOK'
  <2>1. \A t \in Tasks : Waits(t) => Waits(t)'
    BY <1>1, <1>2, <1>3 DEF Waits, Tasks
  <2> QED
    BY <1>1, <2>1, QueueKept
<1> QED
  BY <1>4, <1>6, <1>7, <1>9, <1>10 DEF IInv

LEMMA QueueTaken ==
  ASSUME IInv, UNCHANGED setting, queue # <<>>, queue' = Tail(queue), NEW task,
         task = Head(queue), \A t \in Tasks : t # task /\ Waits(t) => Waits(t)'
  PROVE  task \in Tasks /\ Waits(task) /\ QueueOK' /\ queue' \in Seq(Tasks)
<1>1. queue \in Seq(Tasks) /\ \A p \in DOMAIN queue : queue[p] \in Tasks
  BY DEF IInv, TypeOK, Tasks
<1>2. /\ \A p \in DOMAIN queue : Waits(queue[p])
      /\ \A p, q \in DOMAIN queue : queue[p] = queue[q] => p = q
  BY QueueIs DEF IInv
<1>3. /\ Len(queue) \in Nat /\ Len(queue) > 0 /\ DOMAIN queue = 1..Len(queue)
      /\ queue' \in Seq(Tasks) /\ DOMAIN queue' = 1..(Len(queue) - 1)
      /\ \A p \in 1..(Len(queue) - 1) : queue'[p] = queue[p + 1]
      /\ task = queue[1]
  BY <1>1
<1>4. 1 \in DOMAIN queue /\ task \in Tasks
  BY <1>1, <1>3
<1>5. \A p \in DOMAIN queue' :
        p + 1 \in DOMAIN queue /\ p + 1 # 1 /\ queue'[p] = queue[p + 1]
  BY <1>3
<1>6. \A p \in DOMAIN queue' : Waits(queue[p])'
  <2> SUFFICES ASSUME NEW p \in DOMAIN queue'
               PROVE  Waits(queue[p])'
    OBVIOUS
  <2>1. PICK t \in Tasks : t = queue[p + 1] /\ Waits(t)
    BY <1>1, <1>2, <1>5
  <2>2. t # task
    BY <1>2, <1>3, <1>4, <1>5, <2>1
  <2>3. Waits(t)' /\ queue'[p] = t
    BY <1>5, <2>1, <2>2
  <2> QED
    BY <2>3 DEF Waits
<1>7. \A p, q \in DOMAIN queue' : queue'[p] = queue'[q] => p = q
  <2> SUFFICES ASSUME NEW p \in DOMAIN queue', NEW q \in DOMAIN queue', queue'[p] = queue'[q]
               PROVE  p = q
    OBVIOUS
  <2>1. p + 1 = q + 1 /\ p \in Int /\ q \in Int
    BY <1>2, <1>3, <1>5
  <2> QED
    BY <2>1
<1>8. Waits(task)
  BY <1>2, <1>3, <1>4
<1> QED
  BY <1>3, <1>4, <1>6, <1>7, <1>8, QueueIsNext

LEMMA MakeStep ==
  ASSUME IInv, NEW k \in Calls, Make(k)
  PROVE  IInv'
<1>0. TypeOK /\ CallOK(k) /\ \A l \in Calls : CallOK(l)
  BY DEF IInv
<1>1. /\ call[k].at = "new"
      /\ UNCHANGED <<setting, chunk, started, doing>>
  BY DEF Make
<1>2. PICK a \in {"queued", "entered"} : call' = [call EXCEPT ![k].at = a]
  BY DEF Make
<1>3. /\ call' \in [Calls -> CallRecords]
      /\ call'[k] = [at |-> a, next |-> call[k].next, count |-> call[k].count]
      /\ \A l \in Calls : l # k => call'[l] = call[l]
  <2>1. a \in CallAt
    BY DEF CallAt
  <2> QED
    BY <1>0, <1>2, <2>1, CallMoves
<1>4. Numbers' = Numbers /\ \A i : Piece(i)' = Piece(i)
  BY <1>1, SettingKept
<1>5. Undivided(k) /\ Undivided(k)'
  BY <1>1, <1>3 DEF Undivided
<1>6. CallOK(k)'
  BY <1>0, <1>1, <1>3, <1>4, <1>5 DEF CallOK
<1>7. \A l \in Calls : l # k => CallOK(l)' /\ Passed(l)' = Passed(l)
  BY <1>1, <1>3, OthersKept
<1>8. Passed(k)' = Passed(k)
  BY <1>1, <1>5, PassedKept
<1>9. StartedOK'
  BY <1>1, <1>7, <1>8, StartedSame
<1>10. \A t \in Tasks : Waits(t) => Waits(t)'
  BY <1>1, <1>3, <1>4 DEF Waits, Tasks
<1>11. QueueOK' /\ queue' \in Seq(Tasks)
  <2>1. CASE k \in setting.pooled
    <3>1. Pushed(<<k, 0>>) /\ call' = [call EXCEPT ![k].at = "queued"]
      BY <2>1 DEF Make
    <3>2. call'[k].at = "queued"
      <4>1. "queued" \in CallAt
        BY DEF CallAt
      <4>2. call'[k] = [at |-> "queued", next |-> call[k].next, count |-> call[k].count]
        BY <1>0, <3>1, <4>1, CallMoves
      <4> QED
        BY <4>2
    <3>3. 0 \notin Numbers /\ 0 \in 0..MaxConcurrency
      BY <1>0, Constants
    <3>4. PICK t \in Tasks : t = <<k, 0>>
      BY <3>3 DEF Tasks
    <3>5. ~Waits(t) /\ Waits(t)'
      BY <1>1, <1>4, <3>2, <3>3, <3>4 DEF Waits
    <3> QED
      BY <1>1, <1>10, <3>1, <3>4, <3>5, QueuePushed
  <2>2. CASE k \notin setting.pooled
    <3>1. queue' = queue
      BY <2>2 DEF Make
    <3>2. queue \in Seq(Tasks)
      BY <1>0 DEF TypeOK, Tasks
    <3> QED
      BY <1>1, <1>10, <3>1, <3>2, QueueKept
  <2> QED
    BY <2>1, <2>2
<1>12. TypeOK'
  BY <1>0, <1>1, <1>3, <1>4, <1>11 DEF TypeOK, Tasks, CallRecords
<1> QED
  BY <1>6, <1>7, <1>9, <1>11, <1>12 DEF IInv

\* A chunk that is queued or begins to run.
LEMMA ChunkGoesOn ==
  ASSUME IInv, UNCHANGED setting, NEW k \in Calls, NEW i \in Numbers,
         NEW a \in {"queued", "running"}, ~Undivided(k), ~Undivided(k)',
         chunk[k][i].at \in {"none", "queued"}, chunk' = [chunk EXCEPT ![k][i].at = a]
  PROVE  /\ chunk' \in [Calls -> [Numbers -> ChunkRecords]]
         /\ \A j \in Numbers : ChunkOK(k, j)'
         /\ Unjoined(k)' = Unjoined(k) /\ Passed(k)' = Passed(k)
         /\ chunk'[k][i].at = a
         /\ \A j \in Numbers : j # i => chunk'[k][j] = chunk[k][j]
         /\ \A l \in Calls : l # k => chunk'[l] = chunk[l]
<1>0. TypeOK /\ \A j \in Numbers : ChunkOK(k, j)
  BY DEF IInv, CallOK
<1>1. a \in ChunkAt
  BY DEF ChunkAt
<1>2. /\ chunk' \in [Calls -> [Numbers -> ChunkRecords]]
      /\ chunk'[k][i] = [at |-> a, next |-> chunk[k][i].next, last |-> chunk[k][i].last]
      /\ \A j \in Numbers : j # i => chunk'[k][j] = chunk[k][j]
      /\ \A l \in Calls : l # k => chunk'[l] = chunk[l]
  BY <1>0, <1>1, ChunkMoves
<1>3. Numbers' = Numbers /\ \A j : Piece(j)' = Piece(j)
  BY SettingKept
<1>4. /\ chunk'[k][i].at = a /\ chunk'[k][i].next = chunk[k][i].next
      /\ chunk'[k][i].last = chunk[k][i].last
  BY <1>2
<1>5. ChunkOK(k, i)'
  BY <1>0, <1>3, <1>4 DEF ChunkOK
<1>6. \A j \in Numbers : j # i => ChunkOK(k, j)'
  BY <1>0, <1>2, <1>3 DEF ChunkOK
<1>7. Unjoined(k)' = Unjoined(k)
  BY <1>2, <1>3, <1>4 DEF Unjoined
<1>8. \A j \in Numbers : chunk'[k][j].next = chunk[k][j].next
  BY <1>2, <1>4
<1>9. Passed(k)' = Passed(k)
  BY <1>8, PassedKept
<1> QED
  BY <1>2, <1>4, <1>5, <1>6, <1>7, <1>9

LEMMA TakeStep ==
  ASSUME IInv, NEW w \in Workers, Take(w)
  PROVE  IInv'
<1>0. TypeOK /\ \A l \in Calls : CallOK(l)
  BY DEF IInv
<1>1. /\ queue # <<>> /\ queue' = Tail(queue) /\ UNCHANGED <<setting, started>>
      /\ doing' = [doing EXCEPT ![w] = Head(queue)]
  BY DEF Take
<1>2. PICK task : task = Head(queue)
  OBVIOUS
<1>3. task \in Tasks /\ Waits(task) /\ queue' \in Seq(Tasks)
  <2>1. queue \in Seq(Tasks) /\ \A p \in DOMAIN queue : queue[p] \in Tasks
    BY <1>0 DEF TypeOK, Tasks
  <2>2. 1 \in DOMAIN queue /\ task = queue[1] /\ queue' \in Seq(Tasks)
    BY <1>1, <1>2, <2>1
  <2> QED
    BY <2>1, <2>2, QueueIs DEF IInv
<1>4. PICK k \in Calls, i \in 0..MaxConcurrency : task = <<k, i>>
  BY <1>3 DEF Tasks
<1>5. Numbers' = Numbers /\ \A j : Piece(j)' = Piece(j)
  BY <1>1, SettingKept
<1>6. doing' \in [Workers -> Tasks \cup {Idle}]
  BY <1>0, <1>1, <1>2, <1>3 DEF TypeOK, Tasks
<1>7. CASE i = 0
  <2>1. 0 \notin Numbers
    BY <1>0, Constants
  <2>2. /\ call[k].at = "queued" /\ call' = [call EXCEPT ![k].at = "entered"]
        /\ UNCHANGED chunk
    BY <1>2, <1>3, <1>4, <1>7, <2>1 DEF Take, Waits
  <2>3. /\ call' \in [Calls -> CallRecords]
        /\ call'[k] = [at |-> "entered", next |-> call[k].next, count |-> call[k].count]
        /\ \A l \in Calls : l # k => call'[l] = call[l]
    <3>1. "entered" \in CallAt
      BY DEF CallAt
    <3> QED
      BY <1>0, <2>2, <3>1, CallMoves
  <2>4. Undivided(k) /\ Undivided(k)'
    BY <2>2, <2>3 DEF Undivided
  <2>5. CallOK(k)'
    BY <1>0, <1>5, <2>2, <2>3, <2>4 DEF CallOK
  <2>6. \A l \in Calls : l # k => CallOK(l)' /\ Passed(l)' = Passed(l)
    BY <1>1, <2>2, <2>3, OthersKept
  <2>7. Passed(k)' = Passed(k)
    BY <1>1, <2>2, <2>4, PassedKept
  <2>8. StartedOK'
    BY <1>1, <2>6, <2>7, StartedSame
  <2>9. \A t \in Tasks : t # task /\ Waits(t) => Waits(t)'
    BY <1>4, <1>5, <1>7, <2>2, <2>3 DEF Waits, Tasks
  <2>10. QueueOK'
    BY <1>1, <1>2, <2>9, QueueTaken
  <2>11. TypeOK'
    BY <1>0, <1>1, <1>3, <1>5, <1>6, <2>2, <2>3 DEF TypeOK, Tasks, CallRecords
  <2> QED
    BY <2>5, <2>6, <2>8, <2>10, <2>11 DEF IInv
<1>8. CASE i # 0
  <2>1. /\ i \in Numbers /\ chunk[k][i].at = "queued" /\ UNCHANGED call
        /\ chunk' = [chunk EXCEPT ![k][i].at = "running"]
    BY <1>2, <1>3, <1>4, <1>8 DEF Take, Waits
  <2>2. ~Undivided(k) /\ ~Undivided(k)'
    BY <1>0, <2>1 DEF CallOK, Undivided
  <2>3. /\ chunk' \in [Calls -> [Numbers -> ChunkRecords]]
        /\ \A j \in Numbers : ChunkOK(k, j)'
        /\ Unjoined(k)' = Unjoined(k) /\ Passed(k)' = Passed(k)
        /\ chunk'[k][i].at = "running"
        /\ \A j \in Numbers : j # i => chunk'[k][j] = chunk[k][j]
        /\ \A l \in Calls : l # k => chunk'[l] = chunk[l]
    BY <1>1, <2>1, <2>2, ChunkGoesOn
  <2>4. CallOK(k)'
    BY <1>0, <1>5, <2>1, <2>2, <2>3 DEF CallOK
  <2>5. \A l \in Calls : l # k => CallOK(l)' /\ Passed(l)' = Passed(l)
    BY <1>1, <2>1, <2>3, OthersKept
  <2>6. StartedOK'
    BY <1>1, <2>3, <2>5, StartedSame
  <2>7. \A t \in Tasks : t # task /\ Waits(t) => Waits(t)'
    BY <1>4, <1>5, <2>1, <2>3 DEF Waits, Tasks
  <2>8. QueueOK'
    BY <1>1, <1>2, <2>7, QueueTaken
  <2>9. TypeOK'
    BY <1>0, <1>1, <1>3, <1>5, <1>6, <2>1, <2>3 DEF TypeOK, Tasks, ChunkRecords
  <2> QED
    BY <2>4, <2>5, <2>6, <2>8, <2>9 DEF IInv
<1> QED
  BY <1>7, <1>8

LEMMA LaunchChunkStep ==
  ASSUME IInv, NEW k \in Calls, LaunchChunk(k)
  PROVE  IInv'
<1>0. TypeOK /\ CallOK(k) /\ \A l \in Calls : CallOK(l)
  BY DEF IInv
<1>1. PICK i \in Numbers : i = call[k].next
  BY DEF LaunchChunk
<1>2. PICK a \in {"queued", "running"} : a = IF setting.threads THEN "running" ELSE "queued"
  OBVIOUS
<1>3. /\ call[k].at = "launching" /\ call' = [call EXCEPT ![k].next = i + 1]
      /\ chunk' = [chunk EXCEPT ![k][i].at = a] /\ Pushed(<<k, i>>)
      /\ UNCHANGED <<setting, started, doing>>
  BY <1>1, <1>2 DEF LaunchChunk
<1>4. /\ call' \in [Calls -> CallRecords]
      /\ call'[k] = [at |-> "launching", next |-> i + 1, count |-> call[k].count]
      /\ \A l \in Calls : l # k => call'[l] = call[l]
  <2>1. PICK r : r = [at |-> "launching", next |-> i + 1, count |-> call[k].count]
    OBVIOUS
  <2>2. call[k] \in CallRecords
    BY <1>0 DEF TypeOK, CallRecords
  <2>3. i + 1 \in 1..MaxConcurrency + 1
    BY <1>0, Constants
  <2>4. call[k].at = "launching" /\ "launching" \in CallAt /\ call[k].count \in 0..MaxConcurrency
    BY <1>3, <2>2 DEF CallAt, CallRecords
  <2>5. r \in CallRecords
    BY <2>1, <2>3, <2>4 DEF CallRecords
  <2>6. [call[k] EXCEPT !.next = i + 1] = r
    BY <2>1, <2>2, <2>4 DEF CallRecords
  <2>7. call' = [call EXCEPT ![k] = r]
    BY <1>3, <2>6
  <2>8. /\ call' \in [Calls -> CallRecords]
        /\ call'[k] = r /\ \A l \in Calls : l # k => call'[l] = call[l]
    BY <1>0, <2>5, <2>7, CallPut
  <2> QED
    BY <2>1, <2>8
<1>5. Numbers' = Numbers /\ \A j : Piece(j)' = Piece(j)
  BY <1>3, SettingKept
<1>6. ~Undivided(k) /\ ~Undivided(k)'
  BY <1>3, <1>4 DEF Undivided
<1>7. \A j \in Numbers : chunk[k][j].at = "none" <=> call[k].next <= j
  BY <1>0, <1>3 DEF CallOK
<1>8. chunk[k][i].at = "none"
  <2>1. i <= i
    BY <1>0, Constants
  <2> QED
    BY <1>1, <1>7, <2>1
<1>9. /\ chunk' \in [Calls -> [Numbers -> ChunkRecords]]
      /\ \A j \in Numbers : ChunkOK(k, j)'
      /\ Unjoined(k)' = Unjoined(k) /\ Passed(k)' = Passed(k)
      /\ chunk'[k][i].at = a
      /\ \A j \in Numbers : j # i => chunk'[k][j] = chunk[k][j]
      /\ \A l \in Calls : l # k => chunk'[l] = chunk[l]
  <2>1. chunk[k][i].at \in {"none", "queued"} /\ UNCHANGED setting
    BY <1>3, <1>8
  <2> QED
    BY <1>3, <1>6, <2>1, ChunkGoesOn
<1>10. \A j \in Numbers : chunk'[k][j].at = "none" <=> call'[k].next <= j
  <2> SUFFICES ASSUME NEW j \in Numbers
               PROVE  chunk'[k][j].at = "none" <=> call'[k].next <= j
    OBVIOUS
  <2>1. i \in Int /\ j \in Int /\ call'[k].next = i + 1
    BY <1>0, <1>4, Constants
  <2>2. CASE j = i
    BY <1>9, <2>1, <2>2
  <2>3. CASE j # i
    BY <1>1, <1>7, <1>9, <2>1, <2>3
  <2> QED
    BY <2>2, <2>3
<1>11. CallOK(k)'
  BY <1>0, <1>4, <1>5, <1>6, <1>9, <1>10 DEF CallOK
<1>12. \A l \in Calls : l # k => CallOK(l)' /\ Passed(l)' = Passed(l)
  BY <1>3, <1>4, <1>9, OthersKept
<1>13. StartedOK'
  BY <1>3, <1>9, <1>12, StartedSame
<1>14. QueueOK' /\ queue' \in Seq(Tasks)
  <2>1. i \in 0..MaxConcurrency /\ i # 0
    BY <1>0, Constants
  <2>2. PICK task \in Tasks : task = <<k, i>>
    BY <2>1 DEF Tasks
  <2>3. ~Waits(task) /\ (~setting.threads => Waits(task)')
    BY <1>2, <1>5, <1>8, <1>9, <2>1, <2>2 DEF Waits
  <2>4. \A t \in Tasks : Waits(t) => Waits(t)'
    <3>1. \A l \in Calls : call'[l].at = call[l].at
      BY <1>3, <1>4
    <3>2. \A l \in Calls : \A j \in Numbers :
            chunk[l][j].at = "queued" => chunk'[l][j].at = "queued"
      BY <1>8, <1>9
    <3> QED
      BY <1>5, <3>1, <3>2 DEF Waits, Tasks
  <2> QED
    BY <1>3, <2>2, <2>3, <2>4, QueuePushed
<1>15. TypeOK'
  BY <1>0, <1>3, <1>4, <1>5, <1>9, <1>14 DEF TypeOK, Tasks, ChunkRecords, CallRecords
<1> QED
  BY <1>11, <1>12, <1>13, <1>14, <1>15 DEF IInv

LEMMA DivideStep ==
  ASSUME IInv, NEW k \in Calls, Divide(k)
  PROVE  IInv'
<1>0. TypeOK /\ CallOK(k) /\ \A l \in Calls : CallOK(l)
  BY DEF IInv
<1>1. /\ call[k].at = "entered" /\ chunk' = [chunk EXCEPT ![k] = BoundChunks]
      /\ call' = [call EXCEPT ![k] = [at |-> "launching", next |-> 1, count |-> setting.concurrency]]
      /\ UNCHANGED <<setting, started, queue, doing>>
  BY DEF Divide
<1>2. /\ setting.size \in Nat /\ setting.size \in 0..MaxSize
      /\ setting.concurrency \in 1..MaxConcurrency /\ MaxConcurrency \in Nat /\ MaxSize \in Nat
      /\ Numbers = 1..setting.concurrency
      /\ IsFiniteSet(Numbers) /\ Cardinality(Numbers) = setting.concurrency
  BY <1>0, Constants
<1>3. /\ call' \in [Calls -> CallRecords]
      /\ call'[k] = [at |-> "launching", next |-> 1, count |-> setting.concurrency]
      /\ \A l \in Calls : l # k => call'[l] = call[l]
  <2>1. "launching" \in CallAt /\ 1 \in 1..MaxConcurrency + 1 /\ setting.concurrency \in 0..MaxConcurrency
    BY <1>2 DEF CallAt
  <2>2. PICK r : r = [at |-> "launching", next |-> 1, count |-> setting.concurrency]
    OBVIOUS
  <2>3. /\ r \in CallRecords
        /\ call' = [call EXCEPT ![k] = r]
    BY <1>1, <2>1, <2>2 DEF CallRecords
  <2>4. /\ call' \in [Calls -> CallRecords]
        /\ call'[k] = r /\ \A l \in Calls : l # k => call'[l] = call[l]
    BY <1>0, <2>3, CallPut
  <2> QED
    BY <2>2, <2>4
<1>4. Numbers' = Numbers /\ \A j : Piece(j)' = Piece(j)
  BY <1>1, SettingKept
<1>5. \A i \in Numbers : /\ Piece(i).first \in Nat /\ Piece(i).last \in Nat
                         /\ Piece(i).first <= Piece(i).last /\ Piece(i).last <= setting.size
  BY <1>0, Pieces
<1>6. /\ BoundChunks \in [Numbers -> ChunkRecords]
      /\ \A i \in Numbers : /\ BoundChunks[i].at = "none"
                            /\ BoundChunks[i].next = Piece(i).first
                            /\ BoundChunks[i].last = Piece(i).last
  <2>1. BoundChunks = [i \in Numbers |-> [at |-> "none", next |-> Piece(i).first, last |-> Piece(i).last]]
    BY DEF BoundChunks, Piece
  <2>2. "none" \in ChunkAt
    BY DEF ChunkAt
  <2>3. \A i \in Numbers : Piece(i).first \in 0..MaxSize /\ Piece(i).last \in 0..MaxSize
    BY <1>2, <1>5
  <2> QED
    BY <2>1, <2>2, <2>3 DEF ChunkRecords
<1>7. /\ chunk' \in [Calls -> [Numbers -> ChunkRecords]] /\ chunk'[k] = BoundChunks
      /\ \A l \in Calls : l # k => chunk'[l] = chunk[l]
  <2>1. chunk \in [Calls -> [Numbers -> ChunkRecords]]
    BY <1>0 DEF TypeOK, ChunkRecords
  <2> QED
    BY <1>1, <1>6, <2>1
<1>8. Undivided(k) /\ ~Undivided(k)'
  BY <1>1, <1>3 DEF Undivided
<1>9. \A i \in Numbers : ChunkOK(k, i)'
  <2> SUFFICES ASSUME NEW i \in Numbers
               PROVE  ChunkOK(k, i)'
    OBVIOUS
  <2>1. Piece(i).first \in Piece(i).first..Piece(i).last
    BY <1>5
  <2> QED
    BY <1>4, <1>6, <1>7, <2>1 DEF ChunkOK
<1>10. Unjoined(k)' = Numbers
  BY <1>4, <1>6, <1>7 DEF Unjoined
<1>11. CallOK(k)'
  <2>1. \A i \in Numbers : 1 <= i
    BY <1>2
  <2>2. /\ call'[k].count = Cardinality(Unjoined(k)')
        /\ call'[k].at = "launching" /\ call'[k].next = 1
    BY <1>2, <1>3, <1>10
  <2>3. \A i \in Numbers : chunk'[k][i].at = "none" <=> call'[k].next <= i
    BY <1>6, <1>7, <2>1, <2>2
  <2> QED
    BY <1>4, <1>8, <1>9, <2>2, <2>3 DEF CallOK
<1>12. \A l \in Calls : l # k => CallOK(l)' /\ Passed(l)' = Passed(l)
  BY <1>1, <1>3, <1>7, OthersKept
<1>13. Passed(k)' = Passed(k)
  <2>1. Passed(k) = {}
    BY <1>8 DEF Passed
  <2>2. \A x \in 0..(setting.size - 1) : \A i \in Numbers :
          ~(Piece(i).first <= x /\ x < chunk'[k][i].next)
    BY <1>2, <1>5, <1>6, <1>7
  <2>3. Passed(k)' = {}
    BY <1>1, <1>4, <1>8, <2>2 DEF Passed
  <2> QED
    BY <2>1, <2>3
<1>14. StartedOK'
  BY <1>1, <1>12, <1>13, StartedSame
<1>15. QueueOK'
  <2>1. call[k].at # "queued" /\ \A i \in Numbers : chunk[k][i].at # "queued"
    BY <1>0, <1>1, <1>8 DEF CallOK
  <2>2. \A t \in Tasks : Waits(t) => Waits(t)'
    BY <1>3, <1>4, <1>7, <2>1 DEF Waits, Tasks
  <2> QED
    BY <1>1, <2>2, QueueKept
<1>16. TypeOK'
  BY <1>0, <1>1, <1>3, <1>4, <1>7 DEF TypeOK, ChunkRecords, CallRecords
<1> QED
  BY <1>11, <1>12, <1>14, <1>15, <1>16 DEF IInv

LEMMA FreeKeepsTypes ==
  ASSUME TypeOK, NEW task, Free(task)
  PROVE  doing' \in [Workers -> (Calls \X (0..MaxConcurrency)) \cup {Idle}]
BY DEF Free, TypeOK

LEMMA ReturnStep ==
  ASSUME IInv, NEW k \in Calls, Return(k)
  PROVE  IInv'
<1>0. TypeOK /\ CallOK(k) /\ \A l \in Calls : CallOK(l)
  BY DEF IInv
<1>1. /\ call[k].at = "waiting" /\ call[k].count = 0 /\ Free(<<k, 0>>)
      /\ call' = [call EXCEPT ![k].at = "returned"]
      /\ UNCHANGED <<setting, chunk, started, queue>>
  BY DEF Return
<1>2. /\ call' \in [Calls -> CallRecords]
      /\ call'[k] = [at |-> "returned", next |-> call[k].next, count |-> call[k].count]
      /\ \A l \in Calls : l # k => call'[l] = call[l]
  <2>1. "returned" \in CallAt
    BY DEF CallAt
  <2> QED
    BY <1>0, <1>1, <2>1, CallMoves
<1>3. Numbers' = Numbers /\ \A i : Piece(i)' = Piece(i)
  BY <1>1, SettingKept
<1>4. TypeOK'
  BY <1>0, <1>1, <1>2, <1>3, FreeKeepsTypes DEF TypeOK, CallRecords
<1>5. ~Undivided(k) /\ ~Undivided(k)' /\ call'[k].at = "returned" /\ call'[k].count = call[k].count
  BY <1>1, <1>2 DEF Undivided
<1>6. Unjoined(k) = {}
  <2>1. Cardinality(Unjoined(k)) = 0
    BY <1>0, <1>1, <1>5 DEF CallOK
  <2>2. IsFiniteSet(Numbers) /\ Unjoined(k) \subseteq Numbers
    BY <1>0, Constants DEF Unjoined
  <2>3. IsFiniteSet(Unjoined(k))
    BY <2>2, FS_Subset
  <2> QED
    BY <2>1, <2>3, FS_EmptySet
<1>7. CallOK(k)'
  BY <1>0, <1>1, <1>3, <1>5, <1>6, ChunksKept DEF CallOK
<1>8. \A l \in Calls : l # k => CallOK(l)' /\ Passed(l)' = Passed(l)
  BY <1>1, <1>2, OthersKept
<1>9. Passed(k)' = Passed(k)
  BY <1>1, <1>5, PassedKept
<1>10. StartedOK'
  BY <1>1, <1>8, <1>9, StartedSame
<1>11. QueueOK'
  <2>1. \A t \in Tasks : Waits(t) => Waits(t)'
    BY <1>1, <1>2, <1>3 DEF Waits, Tasks
  <2> QED
    BY <1>1, <2>1, QueueKept
<1> QED
  BY <1>4, <1>7, <1>8, <1>10, <1>11 DEF IInv

LEMMA JoinChunkStep ==
  ASSUME IInv, NEW k \in Calls, NEW i \in Numbers, JoinChunk(k, i)
  PROVE  IInv'
<1>0. TypeOK /\ CallOK(k) /\ \A l \in Calls : CallOK(l)
  BY DEF IInv
<1>1. /\ chunk[k][i].at = "running" /\ chunk[k][i].next >= chunk[k][i].last
      /\ chunk' = [chunk EXCEPT ![k][i].at = "joined"]
      /\ call' = [call EXCEPT ![k].count = @ - 1]
      /\ Free(<<k, i>>) /\ UNCHANGED <<setting, started, queue>>
  BY DEF JoinChunk
<1>2. /\ chunk' \in [Calls -> [Numbers -> ChunkRecords]]
      /\ chunk'[k][i] = [at |-> "joined", next |-> chunk[k][i].next, last |-> chunk[k][i].last]
      /\ \A j \in Numbers : j # i => chunk'[k][j] = chunk[k][j]
      /\ \A l \in Calls : l # k => chunk'[l] = chunk[l]
  <2>1. "joined" \in ChunkAt
    BY DEF ChunkAt
  <2> QED
    BY <1>0, <1>1, <2>1, ChunkMoves
<1>3. /\ chunk'[k][i].at = "joined" /\ chunk'[k][i].next = chunk[k][i].next
      /\ chunk'[k][i].last = chunk[k][i].last
  BY <1>2
<1>4. Numbers' = Numbers /\ \A j : Piece(j)' = Piece(j)
  BY <1>1, SettingKept
<1>5. ~Undivided(k) /\ i \in Unjoined(k)
  BY <1>0, <1>1 DEF CallOK, Unjoined
<1>6. (\A j \in Numbers : ChunkOK(k, j)) /\ call[k].count = Cardinality(Unjoined(k))
  BY <1>0, <1>5 DEF CallOK
<1>7. Unjoined(k)' = Unjoined(k) \ {i}
  BY <1>2, <1>3, <1>4 DEF Unjoined
<1>8. /\ Cardinality(Unjoined(k)') = call[k].count - 1 /\ call[k].count - 1 \in 0..MaxConcurrency
  <2>1. IsFiniteSet(Numbers) /\ Unjoined(k) \subseteq Numbers
    BY <1>0, Constants DEF Unjoined
  <2>2. IsFiniteSet(Unjoined(k)) /\ IsFiniteSet(Unjoined(k) \ {i})
    BY <2>1, FS_Subset
  <2>3. Cardinality(Unjoined(k) \ {i}) = Cardinality(Unjoined(k)) - 1
    BY <1>5, <2>2, FS_RemoveElement
  <2>4. Cardinality(Unjoined(k) \ {i}) \in Nat
    BY <2>2, FS_CardinalityType
  <2>5. call[k].count \in 0..MaxConcurrency /\ MaxConcurrency \in Nat
    BY <1>0, Constants DEF TypeOK
  <2> QED
    BY <1>6, <1>7, <2>3, <2>4, <2>5
<1>9. /\ call' \in [Calls -> CallRecords]
      /\ call'[k] = [at |-> call[k].at, next |-> call[k].next, count |-> call[k].count - 1]
      /\ \A l \in Calls : l # k => call'[l] = call[l]
  <2>1. PICK r : r = [at |-> call[k].at, next |-> call[k].next, count |-> call[k].count - 1]
    OBVIOUS
  <2>2. call[k] \in CallRecords
    BY <1>0 DEF TypeOK, CallRecords
  <2>3. r \in CallRecords
    BY <1>8, <2>1, <2>2 DEF CallRecords
  <2>4. [call[k] EXCEPT !.count = @ - 1] = r
    BY <2>1, <2>2 DEF CallRecords
  <2>5. call' = [call EXCEPT ![k] = r]
    BY <1>1, <2>4
  <2>6. /\ call' \in [Calls -> CallRecords]
        /\ call'[k] = r /\ \A l \in Calls : l # k => call'[l] = call[l]
    BY <1>0, <2>3, <2>5, CallPut
  <2> QED
    BY <2>1, <2>6
<1>10. /\ call'[k].at = call[k].at /\ call'[k].next = call[k].next
       /\ call'[k].count = call[k].count - 1 /\ ~Undivided(k)'
  BY <1>5, <1>9 DEF Undivided
<1>11. \A j \in Numbers : ChunkOK(k, j)'
  <2>1. chunk[k][i].next = Piece(i).last
    <3>1. chunk[k][i].next \in Piece(i).first..Piece(i).last /\ chunk[k][i].last = Piece(i).last
      BY <1>6 DEF ChunkOK
    <3>2. Piece(i).first \in Nat /\ Piece(i).last \in Nat
      BY <1>0, Pieces
    <3> QED
      BY <1>1, <3>1, <3>2
  <2>2. ChunkOK(k, i)'
    BY <1>3, <1>4, <1>6, <2>1 DEF ChunkOK
  <2>3. \A j \in Numbers : j # i => ChunkOK(k, j)'
    BY <1>2, <1>4, <1>6 DEF ChunkOK
  <2> QED
    BY <2>2, <2>3
<1>12. CallOK(k)'
  <2>1. call[k].at # "returned"
    BY <1>0, <1>5 DEF CallOK
  <2>2. \A j \in Numbers : chunk'[k][j].at = "none" <=> chunk[k][j].at = "none"
    BY <1>1, <1>2, <1>3
  <2>3. call[k].at = "launching" =>
          \A j \in Numbers : chunk'[k][j].at = "none" <=> call'[k].next <= j
    BY <1>0, <1>10, <2>2 DEF CallOK
  <2> QED
    BY <1>4, <1>8, <1>10, <1>11, <2>1, <2>3 DEF CallOK
<1>13. \A l \in Calls : l # k => CallOK(l)' /\ Passed(l)' = Passed(l)
  BY <1>1, <1>2, <1>9, OthersKept
<1>14. Passed(k)' = Passed(k)
  <2>1. \A j \in Numbers : chunk'[k][j].next = chunk[k][j].next
    BY <1>2, <1>3
  <2> QED
    BY <1>1, <1>5, <1>10, <2>1, PassedKept
<1>15. StartedOK'
  BY <1>1, <1>13, <1>14, StartedSame
<1>16. QueueOK'
  <2>1. \A t \in Tasks : Waits(t) => Waits(t)'
    <3>1. \A l \in Calls : call'[l].at = call[l].at
      BY <1>9, <1>10
    <3>2. \A l \in Calls : \A j \in Numbers :
            chunk[l][j].at = "queued" => chunk'[l][j].at = "queued"
      BY <1>1, <1>2
    <3> QED
      BY <1>4, <3>1, <3>2 DEF Waits, Tasks
  <2> QED
    BY <1>1, <2>1, QueueKept
<1>17. TypeOK'
  BY <1>0, <1>1, <1>2, <1>4, <1>9, FreeKeepsTypes DEF TypeOK, ChunkRecords, CallRecords
<1> QED
  BY <1>12, <1>13, <1>15, <1>16, <1>17 DEF IInv

LEMMA StartCallableStep ==
  ASSUME IInv, NEW k \in Calls, NEW i \in Numbers, StartCallable(k, i)
  PROVE  IInv'
<1>0. TypeOK /\ CallOK(k) /\ \A l \in Calls : CallOK(l)
  BY DEF IInv
<1>1. PICK x : x = chunk[k][i].next
  OBVIOUS
<1>2. /\ chunk[k][i].at = "running" /\ x < chunk[k][i].last
      /\ started' = [started EXCEPT ![k][x] = @ + 1]
      /\ chunk' = [chunk EXCEPT ![k][i].next = x + 1]
      /\ UNCHANGED <<setting, call, queue, doing>>
  BY <1>1 DEF StartCallable
<1>3. Numbers' = Numbers /\ \A j : Piece(j)' = Piece(j)
  BY <1>2, SettingKept
<1>4. ~Undivided(k) /\ ~Undivided(k)' /\ \A j \in Numbers : ChunkOK(k, j)
  BY <1>0, <1>2 DEF CallOK, Undivided
<1>5. \A j \in Numbers : /\ Piece(j).first \in Nat /\ Piece(j).last \in Nat
                         /\ Piece(j).first <= Piece(j).last /\ Piece(j).last <= setting.size
                         /\ chunk[k][j].last = Piece(j).last
                         /\ chunk[k][j].next \in Piece(j).first..Piece(j).last
  BY <1>0, <1>4, Pieces DEF ChunkOK
<1>6. /\ x \in Nat /\ Piece(i).first <= x /\ x < Piece(i).last /\ x \in 0..(setting.size - 1)
      /\ x + 1 \in Piece(i).first..Piece(i).last /\ x + 1 \in 0..MaxSize
  <2>1. /\ Piece(i).first \in Nat /\ Piece(i).last \in Nat /\ Piece(i).last <= setting.size
        /\ x \in Piece(i).first..Piece(i).last /\ x < Piece(i).last
    BY <1>1, <1>2, <1>5
  <2>2. setting.size \in Nat /\ MaxSize \in Nat /\ setting.size \in 0..MaxSize
    BY <1>0, Constants
  <2> QED
    BY <2>1, <2>2
<1>7. /\ chunk' \in [Calls -> [Numbers -> ChunkRecords]]
      /\ chunk'[k][i] = [at |-> "running", next |-> x + 1, last |-> chunk[k][i].last]
      /\ \A j \in Numbers : j # i => chunk'[k][j] = chunk[k][j]
      /\ \A l \in Calls : l # k => chunk'[l] = chunk[l]
  <2>1. PICK r : r = [at |-> "running", next |-> x + 1, last |-> chunk[k][i].last]
    OBVIOUS
  <2>2. chunk[k][i] \in ChunkRecords /\ "running" \in ChunkAt
    BY <1>0 DEF TypeOK, ChunkRecords, ChunkAt
  <2>3. r \in ChunkRecords
    BY <1>6, <2>1, <2>2 DEF ChunkRecords
  <2>4. [chunk[k][i] EXCEPT !.next = x + 1] = r
    BY <1>2, <2>1, <2>2 DEF ChunkRecords
  <2>5. chunk' = [chunk EXCEPT ![k][i] = r]
    BY <1>2, <2>4
  <2>6. /\ chunk' \in [Calls -> [Numbers -> ChunkRecords]]
        /\ chunk'[k][i] = r
        /\ \A j \in Numbers : j # i => chunk'[k][j] = chunk[k][j]
        /\ \A l \in Calls : l # k => chunk'[l] = chunk[l]
    BY <1>0, <2>3, <2>5, ChunkPut
  <2> QED
    BY <2>1, <2>6
<1>8. /\ chunk'[k][i].at = "running" /\ chunk'[k][i].next = x + 1
      /\ chunk'[k][i].last = chunk[k][i].last
  BY <1>7
<1>9. CallOK(k)'
  <2>1. ChunkOK(k, i)'
    BY <1>3, <1>5, <1>6, <1>8 DEF ChunkOK
  <2>2. \A j \in Numbers : j # i => ChunkOK(k, j)'
    BY <1>3, <1>4, <1>7 DEF ChunkOK
  <2>3. Unjoined(k)' = Unjoined(k)
    BY <1>2, <1>3, <1>7, <1>8 DEF Unjoined
  <2>4. \A j \in Numbers : chunk'[k][j].at = chunk[k][j].at
    BY <1>2, <1>7, <1>8
  <2> QED
    BY <1>0, <1>2, <1>3, <1>4, <2>1, <2>2, <2>3, <2>4 DEF CallOK
<1>10. \A l \in Calls : l # k => CallOK(l)' /\ Passed(l)' = Passed(l)
  BY <1>2, <1>7, OthersKept
<1>11. x \notin Passed(k)
  <2>1. ASSUME NEW j \in Numbers, Piece(j).first <= x, x < chunk[k][j].next
        PROVE  FALSE
    <3>1. x < Piece(j).last
      BY <1>5, <1>6, <2>1
    <3>2. j = i
      BY <1>0, <1>6, <2>1, <3>1, Pieces
    <3> QED
      BY <1>1, <1>6, <2>1, <3>2
  <2> QED
    BY <1>4, <2>1 DEF Passed
<1>12. \A y \in 0..(setting.size - 1) : y \in Passed(k)' <=> y = x \/ y \in Passed(k)
  <2> SUFFICES ASSUME NEW y \in 0..(setting.size - 1)
               PROVE  y \in Passed(k)' <=> y = x \/ y \in Passed(k)
    OBVIOUS
  <2>1. y \in Int /\ x \in Int
    BY <1>0, <1>6, Constants
  <2>2. y \in Passed(k)' <=> \E j \in Numbers : Piece(j).first <= y /\ y < chunk'[k][j].next
    BY <1>2, <1>3, <1>4 DEF Passed
  <2>3. y \in Passed(k) <=> \E j \in Numbers : Piece(j).first <= y /\ y < chunk[k][j].next
    BY <1>4 DEF Passed
  <2>4. y < x + 1 <=> y = x \/ y < x
    BY <2>1
  <2>5. Piece(i).first <= y /\ y < chunk'[k][i].next
          <=> y = x \/ (Piece(i).first <= y /\ y < chunk[k][i].next)
    BY <1>1, <1>6, <1>8, <2>4
  <2> QED
    BY <1>7, <2>2, <2>3, <2>5
<1>13. started[k] \in [0..(setting.size - 1) -> Nat] /\ started \in [Calls -> [0..(setting.size - 1) -> Nat]]
  BY <1>0 DEF TypeOK
<1>14. /\ started' \in [Calls -> [0..(setting.size - 1) -> Nat]]
       /\ started'[k][x] = started[k][x] + 1
       /\ \A y \in 0..(setting.size - 1) : y # x => started'[k][y] = started[k][y]
       /\ \A l \in Calls : l # k => started'[l] = started[l]
  <2> DEFINE D == 0..(setting.size - 1)
             f == [started[k] EXCEPT ![x] = started[k][x] + 1]
  <2>1. started' = [started EXCEPT ![k] = f]
    BY <1>2
  <2>2. /\ x \in D /\ started[k] \in [D -> Nat] /\ started \in [Calls -> [D -> Nat]]
        /\ started[k][x] \in Nat
    BY <1>6, <1>13
  <2> HIDE DEF D
  <2>3. f \in [D -> Nat] /\ f[x] = started[k][x] + 1 /\ \A y \in D : y # x => f[y] = started[k][y]
    BY <2>2
  <2> HIDE DEF f
  <2>4. /\ started' \in [Calls -> [D -> Nat]] /\ started'[k] = f
        /\ \A l \in Calls : l # k => started'[l] = started[l]
    BY <2>1, <2>2, <2>3
  <2> QED
    BY <2>3, <2>4 DEF D
<1>15. StartedOK'
  <2>1. StartedOK
    BY DEF IInv
  <2>2. \A y \in 0..(setting.size - 1) : started'[k][y] = IF y \in Passed(k)' THEN 1 ELSE 0
    <3>1. started[k][x] = 0
      BY <1>6, <1>11, <2>1 DEF StartedOK
    <3>2. \A y \in 0..(setting.size - 1) : started[k][y] = IF y \in Passed(k) THEN 1 ELSE 0
      BY <2>1 DEF StartedOK
    <3> QED
      BY <1>6, <1>12, <1>14, <3>1, <3>2
  <2>3. \A l \in Calls : l # k =>
          \A y \in 0..(setting.size - 1) : started'[l][y] = IF y \in Passed(l)' THEN 1 ELSE 0
    BY <1>10, <1>14, <2>1 DEF StartedOK
  <2> QED
    BY <1>2, <2>2, <2>3 DEF StartedOK
<1>16. QueueOK'
  <2>1. \A t \in Tasks : Waits(t) => Waits(t)'
    BY <1>2, <1>3, <1>7, <1>8 DEF Waits, Tasks
  <2> QED
    BY <1>2, <2>1, QueueKept
<1>17. TypeOK'
  BY <1>0, <1>2, <1>3, <1>7, <1>14 DEF TypeOK, ChunkRecords
<1> QED
  BY <1>9, <1>10, <1>15, <1>16, <1>17 DEF IInv

-----------------------------------------------------------------------------
(***************************************************************************)
(* The inductive invariant, and what it implies.                           *)
(***************************************************************************)
LEMMA InitIInv == Init => IInv
<1> SUFFICES ASSUME Init PROVE IInv
  OBVIOUS
<1>1. /\ MaxSize \in Nat /\ MaxConcurrency \in Nat \ {0}
      /\ 0 \in 0..MaxSize /\ 0 \in 0..MaxConcurrency /\ 1 \in 1..MaxConcurrency + 1
  BY Caller2DAssumption
<1>2. \A k \in Calls : call[k] = [at |-> "new", next |-> 1, count |-> 0] /\ chunk[k] = NoChunks
  BY DEF Init
<1>3. /\ NoChunks \in [Numbers -> ChunkRecords]
      /\ \A i \in Numbers : NoChunks[i].at = "none"
  BY <1>1 DEF NoChunks, ChunkRecords, ChunkAt
<1>4. TypeOK
  <2>1. setting \in [size : 0..MaxSize, concurrency : 1..MaxConcurrency, threads : BOOLEAN,
                     workers : SUBSET Workers, pooled : SUBSET Calls]
    BY DEF Init
  <2>2. call \in [Calls -> CallRecords]
    <3>1. [at |-> "new", next |-> 1, count |-> 0]
            \in CallRecords
      BY <1>1 DEF CallAt, CallRecords
    <3> QED
      BY <3>1 DEF Init
  <2>3. chunk \in [Calls -> [Numbers -> ChunkRecords]]
    BY <1>3 DEF Init
  <2>4. /\ started \in [Calls -> [0..(setting.size - 1) -> Nat]]
        /\ queue \in Seq(Calls \X (0..MaxConcurrency))
        /\ doing \in [Workers -> (Calls \X (0..MaxConcurrency)) \cup {Idle}]
    BY DEF Init
  <2> QED
    BY <2>1, <2>2, <2>3, <2>4 DEF TypeOK, ChunkRecords, CallRecords
<1>5. \A k \in Calls : CallOK(k)
  BY <1>2, <1>3 DEF CallOK, Undivided
<1>6. StartedOK
  BY <1>2 DEF Init, StartedOK, Passed, Undivided
<1>7. QueueOK
  BY DEF Init, QueueOK
<1> QED
  BY <1>4, <1>5, <1>6, <1>7 DEF IInv

LEMMA StutterStep ==
  ASSUME IInv, UNCHANGED vars
  PROVE  IInv'
<1>1. UNCHANGED <<setting, call, chunk, started, queue, doing>>
  BY DEF vars
<1>2. \A k \in Calls : (CallOK(k)' <=> CallOK(k)) /\ Passed(k)' = Passed(k)
  BY <1>1, CallSame
<1>3. Numbers' = Numbers
  BY <1>1 DEF Numbers
<1>4. TypeOK'
  BY <1>1, <1>3 DEF IInv, TypeOK
<1>5. QueueOK'
  BY <1>1, <1>3 DEF IInv, QueueOK, Waits
<1>6. StartedOK'
  BY <1>1, <1>2, StartedSame
<1> QED
  BY <1>2, <1>4, <1>5, <1>6 DEF IInv

LEMMA NextIInv == IInv /\ [Next]_vars => IInv'
<1> SUFFICES ASSUME IInv, [Next]_vars PROVE IInv'
  OBVIOUS
<1>1. ASSUME NEW k \in Calls, Make(k) PROVE IInv'
  BY <1>1, MakeStep
<1>2. ASSUME NEW k \in Calls, Divide(k) PROVE IInv'
  BY <1>2, DivideStep
<1>3. ASSUME NEW k \in Calls, LaunchChunk(k) PROVE IInv'
  BY <1>3, LaunchChunkStep
<1>4. ASSUME NEW k \in Calls, Block(k) PROVE IInv'
  <2>1. /\ call[k].at = "launching" /\ call' = [call EXCEPT ![k].at = "waiting"]
        /\ UNCHANGED <<setting, chunk, started, queue, doing>>
    BY <1>4 DEF Block
  <2> QED
    BY <2>1, LaunchingEnds
<1>5. ASSUME NEW k \in Calls, PortalThrows(k) PROVE IInv'
  <2>1. /\ call[k].at = "launching" /\ call' = [call EXCEPT ![k].at = "threw"]
        /\ UNCHANGED <<setting, chunk, started, queue, doing>>
    BY <1>5 DEF PortalThrows
  <2> QED
    BY <2>1, LaunchingEnds
<1>6. ASSUME NEW k \in Calls, Return(k) PROVE IInv'
  BY <1>6, ReturnStep
<1>7. ASSUME NEW k \in Calls, NEW i \in Numbers, StartCallable(k, i) PROVE IInv'
  BY <1>7, StartCallableStep
<1>8. ASSUME NEW k \in Calls, NEW i \in Numbers, JoinChunk(k, i) PROVE IInv'
  BY <1>8, JoinChunkStep
<1>9. ASSUME NEW w \in Workers, Take(w) PROVE IInv'
  BY <1>9, TakeStep
<1>10. CASE UNCHANGED vars
  BY <1>10, StutterStep
<1> QED
  BY <1>1, <1>2, <1>3, <1>4, <1>5, <1>6, <1>7, <1>8, <1>9, <1>10 DEF Next, CallStep, ChunkStep

\* The invariant from which the rest follows: every chunk is somewhere in its
\* piece, the callables that have been started are those that the chunks have
\* passed, and the nested invocation counts the chunks that have not joined.
THEOREM Caller2DIInv == Spec => []IInv
<1>1. Init => IInv
  BY InitIInv
<1>2. IInv /\ [Next]_vars => IInv'
  BY NextIInv
<1> QED
  BY <1>1, <1>2, PTL DEF Spec

\* A type correctness that covers what a call, a chunk and a worker can be at.
THEOREM Caller2DTypeOK == Spec => []TypeOK
<1>1. IInv => TypeOK
  BY DEF IInv
<1> QED
  BY <1>1, Caller2DIInv, PTL

\* The chunks of call() in concurrent_caller.hpp are a partition of the callables.
THEOREM Caller2DChunksPartition == Spec => []ChunksPartition
<1>1. ChunksPartition
  <2>1. \A n \in 0..(3 * MaxSize), c \in 1..(2 * MaxConcurrency) : n \in Nat /\ c \in Nat \ {0}
    BY Caller2DAssumption
  <2> QED
    BY <2>1, ChunksDivide, BlocksCopy DEF ChunksPartition
<1> QED
  BY <1>1, PTL

\* However the chunks of all calls interleave, a callable is started once.
THEOREM Caller2DEachCallableOnce == Spec => []EachCallableOnce
<1>1. IInv => EachCallableOnce
  <2> SUFFICES ASSUME IInv, NEW k \in Calls, NEW x \in DOMAIN started[k]
               PROVE  /\ started[k][x] <= 1
                      /\ call[k].at = "returned" => started[k][x] = 1
    BY DEF EachCallableOnce
  <2>0. TypeOK /\ CallOK(k)
    BY DEF IInv
  <2>1. x \in 0..(setting.size - 1)
    BY <2>0 DEF TypeOK
  <2>2. started[k][x] = IF x \in Passed(k) THEN 1 ELSE 0
    BY <2>1 DEF IInv, StartedOK
  <2>3. ASSUME call[k].at = "returned"
        PROVE  x \in Passed(k)
    <3>1. ~Undivided(k)
      BY <2>3 DEF Undivided
    <3>2. \A i \in Numbers : chunk[k][i].next = Piece(i).last
      BY <2>0, <2>3, <3>1 DEF CallOK, ChunkOK, Unjoined
    <3>3. PICK i \in Numbers : Piece(i).first <= x /\ x < Piece(i).last
      BY <2>0, <2>1, Pieces
    <3> QED
      BY <2>1, <3>1, <3>2, <3>3 DEF Passed
  <2> QED
    BY <2>2, <2>3
<1> QED
  BY <1>1, Caller2DIInv, PTL

\* What the chunks have by reference outlives them, unless the portal throws.
THEOREM Caller2DFrameOutlivesChunks == Spec => []FrameOutlivesChunks
<1>1. IInv => FrameOutlivesChunks
  <2> SUFFICES ASSUME IInv, NEW k \in Calls, NEW i \in Numbers,
                      chunk[k][i].at \in {"queued", "running"}
               PROVE  call[k].at \in {"launching", "waiting", "threw"}
    BY DEF FrameOutlivesChunks
  <2>1. CallOK(k) /\ call[k].at \in CallAt
    BY DEF IInv, TypeOK
  <2>2. ~Undivided(k) /\ i \in Unjoined(k)
    BY <2>1 DEF CallOK, Unjoined
  <2> QED
    BY <2>1, <2>2 DEF CallOK, Undivided, CallAt
<1> QED
  BY <1>1, Caller2DIInv, PTL

-----------------------------------------------------------------------------
(***************************************************************************)
(* Nobody is stuck: whatever is queued is in the queue, and whoever takes  *)
(* something from it is in it until it is through.                         *)
(***************************************************************************)
LEMMA PlacesNext ==
  PlacesOK' <=>
    /\ setting'.threads => setting'.pooled = {}
    /\ \A k \in Calls : call'[k].at = "queued" => k \in setting'.pooled
    /\ \A t \in Tasks : Waits(t)' =>
         ~setting'.threads /\ \E p \in DOMAIN queue' : queue'[p] = t
    /\ \A w \in Workers : doing'[w] # Idle => Runs(doing[w])'
BY DEF PlacesOK

\* Workers go on with their tasks, or are through with them.
LEMMA WorkersKept ==
  ASSUME TypeOK, PlacesOK, \A w \in Workers : doing'[w] \in {Idle, doing[w]},
         \A t \in Tasks : Runs(t) => Runs(t)' \/ \A w \in Workers : doing'[w] # t
  PROVE  \A w \in Workers : doing'[w] # Idle => Runs(doing[w])'
<1> SUFFICES ASSUME NEW w \in Workers, doing'[w] # Idle
             PROVE  Runs(doing[w])'
  OBVIOUS
<1>1. PICK t \in Tasks : t = doing[w] /\ Runs(t)
  BY DEF TypeOK, PlacesOK, Tasks
<1>2. doing'[w] = t /\ Runs(t)'
  BY <1>1
<1> QED
  BY <1>2 DEF Runs

LEMMA PlacesKept ==
  ASSUME IInv, PlacesOK, UNCHANGED <<setting, queue>>,
         \A k \in Calls : call'[k].at = "queued" => call[k].at = "queued",
         \A t \in Tasks : Waits(t)' => Waits(t),
         \A w \in Workers : doing'[w] \in {Idle, doing[w]},
         \A t \in Tasks : Runs(t) => Runs(t)' \/ \A w \in Workers : doing'[w] # t
  PROVE  PlacesOK'
<1>1. \A w \in Workers : doing'[w] # Idle => Runs(doing[w])'
  BY WorkersKept DEF IInv
<1> QED
  BY <1>1, PlacesNext DEF PlacesOK

LEMMA PushedHolds ==
  ASSUME queue \in Seq(Tasks), NEW task \in Tasks, queue' = Append(queue, task), NEW t,
         t = task \/ \E p \in DOMAIN queue : queue[p] = t
  PROVE  \E p \in DOMAIN queue' : queue'[p] = t
<1>1. /\ Len(queue) \in Nat /\ DOMAIN queue = 1..Len(queue)
      /\ DOMAIN queue' = 1..(Len(queue) + 1) /\ queue'[Len(queue) + 1] = task
      /\ \A p \in 1..Len(queue) : queue'[p] = queue[p]
  OBVIOUS
<1>2. CASE t = task
  BY <1>1, <1>2
<1>3. CASE \E p \in DOMAIN queue : queue[p] = t
  <2>1. PICK p \in DOMAIN queue : queue[p] = t
    BY <1>3
  <2>2. p \in DOMAIN queue' /\ queue'[p] = t
    BY <1>1, <2>1
  <2> QED
    BY <2>2
<1> QED
  BY <1>2, <1>3

LEMMA TakenHolds ==
  ASSUME queue \in Seq(Tasks), queue # <<>>, queue' = Tail(queue), NEW t, t # Head(queue),
         \E p \in DOMAIN queue : queue[p] = t
  PROVE  \E p \in DOMAIN queue' : queue'[p] = t
<1>1. /\ Len(queue) \in Nat /\ DOMAIN queue = 1..Len(queue) /\ Head(queue) = queue[1]
      /\ DOMAIN queue' = 1..(Len(queue) - 1)
      /\ \A p \in 1..(Len(queue) - 1) : queue'[p] = queue[p + 1]
  OBVIOUS
<1>2. PICK p \in DOMAIN queue : queue[p] = t
  OBVIOUS
<1>3. p - 1 \in DOMAIN queue' /\ queue'[p - 1] = t
  <2>1. p # 1 /\ p \in 1..Len(queue)
    BY <1>1, <1>2
  <2>2. p - 1 \in 1..(Len(queue) - 1) /\ (p - 1) + 1 = p
    BY <1>1, <2>1
  <2> QED
    BY <1>1, <1>2, <2>2
<1> QED
  BY <1>3

LEMMA MakePlaces ==
  ASSUME IInv, PlacesOK, LaunchedOK, NEW k \in Calls, Make(k)
  PROVE  PlacesOK' /\ LaunchedOK'
<1>0. TypeOK /\ queue \in Seq(Tasks)
  BY DEF IInv, TypeOK, Tasks
<1>1. call[k].at = "new" /\ UNCHANGED <<setting, chunk, doing>>
  BY DEF Make
<1>2. PICK a \in {"queued", "entered"} :
        /\ call' = [call EXCEPT ![k].at = a]
        /\ IF a = "queued" THEN k \in setting.pooled /\ Pushed(<<k, 0>>) ELSE queue' = queue
  BY DEF Make
<1>3. call'[k].at = a /\ \A l \in Calls : l # k => call'[l] = call[l]
  <2>1. a \in CallAt
    BY DEF CallAt
  <2>2. call'[k] = [at |-> a, next |-> call[k].next, count |-> call[k].count]
    BY <1>0, <1>2, <2>1, CallMoves
  <2> QED
    BY <1>0, <1>2, <2>1, <2>2, CallMoves
<1>4. Numbers' = Numbers
  BY <1>1, SettingKept
<1>5. LaunchedOK'
  BY <1>1, <1>3, <1>4 DEF LaunchedOK
<1>6. \A t \in Tasks : Runs(t) => Runs(t)'
  BY <1>1, <1>3, <1>4 DEF Runs, Tasks
<1>7. \A t \in Tasks : Waits(t)' => Waits(t) \/ (a = "queued" /\ t = <<k, 0>>)
  <2> SUFFICES ASSUME NEW t \in Tasks, Waits(t)', ~Waits(t)
               PROVE  a = "queued" /\ t = <<k, 0>>
    OBVIOUS
  <2>1. PICK l \in Calls, i \in 0..MaxConcurrency : t = <<l, i>>
    BY DEF Tasks
  <2>2. i = 0 /\ call'[l].at = "queued" /\ call[l].at # "queued"
    BY <1>1, <1>4, <2>1 DEF Waits
  <2> QED
    BY <1>3, <2>1, <2>2
<1>8. \A w \in Workers : doing'[w] # Idle => Runs(doing[w])'
  BY <1>0, <1>1, <1>6, WorkersKept
<1>9. \A t \in Tasks : Waits(t)' => ~setting.threads /\ \E p \in DOMAIN queue' : queue'[p] = t
  <2>1. CASE a = "entered"
    BY <1>2, <1>7, <2>1 DEF PlacesOK
  <2>2. CASE a = "queued"
    <3>1. ~setting.threads
      BY <1>2, <2>2 DEF PlacesOK
    <3>2. queue' = Append(queue, <<k, 0>>) /\ <<k, 0>> \in Tasks
      BY <1>0, <1>2, <2>2, <3>1, Constants DEF Pushed, Tasks
    <3>3. ASSUME NEW t \in Tasks, Waits(t)'
          PROVE  t = <<k, 0>> \/ \E p \in DOMAIN queue : queue[p] = t
      BY <1>7, <3>3 DEF PlacesOK
    <3> QED
      BY <1>0, <3>1, <3>2, <3>3, PushedHolds
  <2> QED
    BY <2>1, <2>2
<1>10. \A l \in Calls : call'[l].at = "queued" => l \in setting.pooled
  BY <1>2, <1>3 DEF PlacesOK
<1> QED
  BY <1>1, <1>5, <1>8, <1>9, <1>10, PlacesNext DEF PlacesOK

LEMMA TakePlaces ==
  ASSUME IInv, PlacesOK, LaunchedOK, NEW w \in Workers, Take(w)
  PROVE  PlacesOK' /\ LaunchedOK'
<1>0. TypeOK /\ queue \in Seq(Tasks)
  BY DEF IInv, TypeOK, Tasks
<1>1. /\ queue # <<>> /\ queue' = Tail(queue) /\ UNCHANGED setting
      /\ doing' = [doing EXCEPT ![w] = Head(queue)]
  BY DEF Take
<1>2. PICK task \in Tasks : task = Head(queue) /\ Waits(task)
  <2>1. 1 \in DOMAIN queue /\ Head(queue) = queue[1] /\ queue[1] \in Tasks
    BY <1>0, <1>1
  <2>2. Waits(queue[1])
    BY <2>1, QueueIs DEF IInv
  <2> QED
    BY <2>1, <2>2
<1>3. PICK k \in Calls, i \in 0..MaxConcurrency : task = <<k, i>>
  BY DEF Tasks
<1>4. Numbers' = Numbers /\ 0 \notin Numbers
  BY <1>0, <1>1, SettingKept, Constants
<1>5. doing'[w] = task /\ \A v \in Workers : v # w => doing'[v] = doing[v]
  BY <1>0, <1>1, <1>2 DEF TypeOK
<1>6. /\ LaunchedOK' /\ Runs(task)'
      /\ \A l \in Calls : call'[l].at = "queued" => call[l].at = "queued"
      /\ \A t \in Tasks : Waits(t)' => Waits(t) /\ t # task
      /\ \A t \in Tasks : Runs(t) => Runs(t)'
  <2>1. CASE i = 0
    <3>1. /\ call[k].at = "queued" /\ call' = [call EXCEPT ![k].at = "entered"]
          /\ UNCHANGED chunk
      BY <1>2, <1>3, <1>4, <2>1 DEF Take, Waits
    <3>2. call'[k].at = "entered" /\ \A l \in Calls : l # k => call'[l] = call[l]
      <4>1. "entered" \in CallAt
        BY DEF CallAt
      <4>2. call'[k] = [at |-> "entered", next |-> call[k].next, count |-> call[k].count]
        BY <1>0, <3>1, <4>1, CallMoves
      <4> QED
        BY <1>0, <3>1, <4>1, <4>2, CallMoves
    <3>3. LaunchedOK'
      BY <1>4, <3>1, <3>2 DEF LaunchedOK
    <3>4. Runs(task)'
      <4>1. k \in setting.pooled
        BY <3>1 DEF PlacesOK
      <4> QED
        BY <1>1, <1>3, <2>1, <3>2, <4>1 DEF Runs
    <3>5. \A l \in Calls : call'[l].at = "queued" => call[l].at = "queued"
      BY <3>2
    <3>6. \A t \in Tasks : Waits(t)' => Waits(t) /\ t # task
      BY <1>3, <1>4, <2>1, <3>1, <3>2 DEF Waits, Tasks
    <3>7. \A t \in Tasks : Runs(t) => Runs(t)'
      BY <1>1, <1>4, <3>1, <3>2 DEF Runs, Tasks
    <3> QED
      BY <3>3, <3>4, <3>5, <3>6, <3>7
  <2>2. CASE i # 0
    <3>1. /\ i \in Numbers /\ chunk[k][i].at = "queued" /\ UNCHANGED call
          /\ chunk' = [chunk EXCEPT ![k][i].at = "running"]
      BY <1>2, <1>3, <2>2 DEF Take, Waits
    <3>2. /\ chunk'[k][i].at = "running"
          /\ \A j \in Numbers : j # i => chunk'[k][j] = chunk[k][j]
          /\ \A l \in Calls : l # k => chunk'[l] = chunk[l]
      <4>1. "running" \in ChunkAt
        BY DEF ChunkAt
      <4> QED
        BY <1>0, <3>1, <4>1, ChunkGoes
    <3>3. LaunchedOK'
      BY <1>4, <3>1, <3>2 DEF LaunchedOK
    <3>4. Runs(task)'
      BY <1>3, <1>4, <3>1, <3>2 DEF Runs
    <3>5. \A l \in Calls : call'[l].at = "queued" => call[l].at = "queued"
      BY <3>1
    <3>6. \A t \in Tasks : Waits(t)' => Waits(t) /\ t # task
      BY <1>3, <1>4, <2>2, <3>1, <3>2 DEF Waits, Tasks
    <3>7. \A t \in Tasks : Runs(t) => Runs(t)'
      BY <1>1, <1>4, <3>1, <3>2 DEF Runs, Tasks
    <3> QED
      BY <3>3, <3>4, <3>5, <3>6, <3>7
  <2> QED
    BY <2>1, <2>2
<1>7. \A v \in Workers : doing'[v] # Idle => Runs(doing[v])'
  <2> SUFFICES ASSUME NEW v \in Workers, doing'[v] # Idle
               PROVE  Runs(doing[v])'
    OBVIOUS
  <2>1. PICK t \in Tasks : t = doing'[v] /\ Runs(t)'
    <3>1. CASE v = w
      BY <1>5, <1>6, <3>1
    <3>2. CASE v # w
      BY <1>0, <1>5, <1>6, <3>2 DEF TypeOK, PlacesOK, Tasks
    <3> QED
      BY <3>1, <3>2
  <2> QED
    BY <2>1 DEF Runs
<1>8. \A t \in Tasks : Waits(t)' => ~setting.threads /\ \E p \in DOMAIN queue' : queue'[p] = t
  <2> SUFFICES ASSUME NEW t \in Tasks, Waits(t)'
               PROVE  ~setting.threads /\ \E p \in DOMAIN queue' : queue'[p] = t
    OBVIOUS
  <2>1. t # Head(queue) /\ ~setting.threads /\ \E p \in DOMAIN queue : queue[p] = t
    BY <1>2, <1>6 DEF PlacesOK
  <2> QED
    BY <1>0, <1>1, <2>1, TakenHolds
<1> QED
  BY <1>1, <1>6, <1>7, <1>8, PlacesNext DEF PlacesOK

LEMMA DividePlaces ==
  ASSUME IInv, PlacesOK, LaunchedOK, NEW k \in Calls, Divide(k)
  PROVE  PlacesOK' /\ LaunchedOK'
<1>0. TypeOK /\ CallOK(k)
  BY DEF IInv
<1>1. /\ call[k].at = "entered" /\ UNCHANGED <<setting, queue, doing>>
      /\ call' = [call EXCEPT ![k] = [at |-> "launching", next |-> 1, count |-> setting.concurrency]]
      /\ chunk' = [chunk EXCEPT ![k] = BoundChunks]
  BY DEF Divide
<1>2. call'[k].at = "launching" /\ \A l \in Calls : l # k => call'[l] = call[l]
  BY <1>0, <1>1 DEF TypeOK
<1>3. /\ \A i \in Numbers : chunk'[k][i].at = "none"
      /\ \A l \in Calls : l # k => chunk'[l] = chunk[l]
  BY <1>0, <1>1 DEF TypeOK, BoundChunks
<1>4. \A i \in Numbers : chunk[k][i].at = "none"
  BY <1>0, <1>1 DEF CallOK, Undivided
<1>5. Numbers' = Numbers
  BY <1>1, SettingKept
<1>6. LaunchedOK'
  BY <1>2, <1>3, <1>5 DEF LaunchedOK
<1>7. \A t \in Tasks : Waits(t)' => Waits(t)
  BY <1>2, <1>3, <1>5 DEF Waits, Tasks
<1>8. \A t \in Tasks : Runs(t) => Runs(t)'
  BY <1>1, <1>2, <1>3, <1>4, <1>5 DEF Runs, Tasks
<1>9. PlacesOK'
  BY <1>1, <1>2, <1>7, <1>8, PlacesKept
<1> QED
  BY <1>6, <1>9

LEMMA LaunchChunkPlaces ==
  ASSUME IInv, PlacesOK, LaunchedOK, NEW k \in Calls, LaunchChunk(k)
  PROVE  PlacesOK' /\ LaunchedOK'
<1>0. TypeOK /\ CallOK(k) /\ queue \in Seq(Tasks)
  BY DEF IInv, TypeOK, Tasks
<1>1. PICK i \in Numbers : i = call[k].next
  BY DEF LaunchChunk
<1>2. PICK a \in {"running", "queued"} : a = IF setting.threads THEN "running" ELSE "queued"
  OBVIOUS
<1>3. /\ call[k].at = "launching" /\ UNCHANGED <<setting, doing>>
      /\ call' = [call EXCEPT ![k].next = i + 1]
      /\ chunk' = [chunk EXCEPT ![k][i].at = a]
      /\ Pushed(<<k, i>>)
  BY <1>1, <1>2 DEF LaunchChunk
<1>4. /\ chunk'[k][i].at = a
      /\ \A j \in Numbers : j # i => chunk'[k][j] = chunk[k][j]
      /\ \A l \in Calls : l # k => chunk'[l] = chunk[l]
  <2>1. a \in ChunkAt
    BY DEF ChunkAt
  <2> QED
    BY <1>0, <1>3, <2>1, ChunkGoes
<1>5. \A l \in Calls : call'[l].at = call[l].at
  BY <1>0, <1>3 DEF TypeOK
<1>6. Numbers' = Numbers
  BY <1>3, SettingKept
<1>7. chunk[k][i].at = "none"
  <2>1. call[k].next <= i
    BY <1>0, <1>1, Constants
  <2> QED
    BY <1>0, <1>3, <2>1 DEF CallOK
<1>8. LaunchedOK'
  BY <1>3, <1>4, <1>5, <1>6 DEF LaunchedOK
<1>9. \A t \in Tasks : Runs(t) => Runs(t)'
  BY <1>3, <1>4, <1>5, <1>6, <1>7 DEF Runs, Tasks
<1>10. \A w \in Workers : doing'[w] # Idle => Runs(doing[w])'
  BY <1>0, <1>3, <1>9, WorkersKept
<1>11. \A t \in Tasks : Waits(t)' => Waits(t) \/ (a = "queued" /\ t = <<k, i>>)
  <2> SUFFICES ASSUME NEW t \in Tasks, Waits(t)', ~Waits(t)
               PROVE  a = "queued" /\ t = <<k, i>>
    OBVIOUS
  <2>1. PICK l \in Calls, j \in 0..MaxConcurrency : t = <<l, j>>
    BY DEF Tasks
  <2>2. j \in Numbers /\ chunk'[l][j].at = "queued" /\ chunk[l][j].at # "queued"
    BY <1>5, <1>6, <2>1 DEF Waits
  <2> QED
    BY <1>4, <2>1, <2>2
<1>12. \A t \in Tasks : Waits(t)' => ~setting.threads /\ \E p \in DOMAIN queue' : queue'[p] = t
  <2>1. CASE a = "running"
    <3>1. queue' = queue
      BY <1>2, <1>3, <2>1 DEF Pushed
    <3> QED
      BY <1>11, <2>1, <3>1 DEF PlacesOK
  <2>2. CASE a = "queued"
    <3>1. ~setting.threads
      BY <1>2, <2>2
    <3>2. queue' = Append(queue, <<k, i>>) /\ <<k, i>> \in Tasks
      BY <1>0, <1>3, <3>1, Constants DEF Pushed, Tasks
    <3>3. ASSUME NEW t \in Tasks, Waits(t)'
          PROVE  t = <<k, i>> \/ \E p \in DOMAIN queue : queue[p] = t
      BY <1>11, <3>3 DEF PlacesOK
    <3> QED
      BY <1>0, <3>1, <3>2, <3>3, PushedHolds
  <2> QED
    BY <2>1, <2>2
<1> QED
  BY <1>3, <1>5, <1>8, <1>10, <1>12, PlacesNext DEF PlacesOK

\* Block and PortalThrows: who blocks has launched all chunks, and who leaves is
\* not on a worker.
LEMMA LaunchingEndsPlaces ==
  ASSUME IInv, PlacesOK, LaunchedOK, NEW k \in Calls, Block(k) \/ PortalThrows(k)
  PROVE  PlacesOK' /\ LaunchedOK'
<1>0. TypeOK /\ CallOK(k)
  BY DEF IInv
<1>1. PICK a \in {"waiting", "threw"} :
        /\ call' = [call EXCEPT ![k].at = a]
        /\ IF a = "waiting" THEN call[k].next \notin Numbers ELSE k \notin setting.pooled
  BY DEF Block, PortalThrows
<1>2. call[k].at = "launching" /\ UNCHANGED <<setting, chunk, queue, doing>>
  BY DEF Block, PortalThrows
<1>3. call'[k].at = a /\ \A l \in Calls : l # k => call'[l] = call[l]
  <2>1. a \in CallAt
    BY DEF CallAt
  <2>2. call'[k] = [at |-> a, next |-> call[k].next, count |-> call[k].count]
    BY <1>0, <1>1, <2>1, CallMoves
  <2> QED
    BY <1>0, <1>1, <2>1, <2>2, CallMoves
<1>4. Numbers' = Numbers
  BY <1>2, SettingKept
<1>5. LaunchedOK'
  <2>1. a = "waiting" => \A i \in Numbers : chunk[k][i].at # "none"
    <3> SUFFICES ASSUME a = "waiting", NEW i \in Numbers
                 PROVE  chunk[k][i].at # "none"
      OBVIOUS
    <3>1. ~(call[k].next <= i)
      <4>1. Numbers = 1..setting.concurrency /\ setting.concurrency \in Nat
        BY <1>0, Constants
      <4>2. call[k].next \in 1..MaxConcurrency + 1 /\ MaxConcurrency \in Nat
        BY <1>0, Constants DEF TypeOK
      <4>3. call[k].next \in Nat /\ call[k].next >= 1 /\ call[k].next \notin Numbers
        BY <1>1, <4>2
      <4> QED
        BY <4>1, <4>3
    <3> QED
      BY <1>0, <1>2, <3>1 DEF CallOK
  <2> QED
    BY <1>2, <1>3, <1>4, <2>1 DEF LaunchedOK
<1>6. \A t \in Tasks : Waits(t)' => Waits(t)
  BY <1>2, <1>3, <1>4 DEF Waits, Tasks
<1>7. \A t \in Tasks : Runs(t) => Runs(t)'
  BY <1>1, <1>2, <1>3, <1>4 DEF Runs, Tasks
<1>8. PlacesOK'
  BY <1>2, <1>3, <1>6, <1>7, PlacesKept
<1> QED
  BY <1>5, <1>8

LEMMA Freed ==
  ASSUME TypeOK, NEW task, task # Idle, Free(task)
  PROVE  \A w \in Workers : doing'[w] \in {Idle, doing[w]} /\ doing'[w] # task
BY DEF Free, TypeOK

LEMMA ReturnPlaces ==
  ASSUME IInv, PlacesOK, LaunchedOK, NEW k \in Calls, Return(k)
  PROVE  PlacesOK' /\ LaunchedOK'
<1>0. TypeOK /\ CallOK(k)
  BY DEF IInv
<1>1. /\ call[k].at = "waiting" /\ Free(<<k, 0>>) /\ UNCHANGED <<setting, chunk, queue>>
      /\ call' = [call EXCEPT ![k].at = "returned"]
  BY DEF Return
<1>2. call'[k].at = "returned" /\ \A l \in Calls : l # k => call'[l] = call[l]
  <2>1. "returned" \in CallAt
    BY DEF CallAt
  <2>2. call'[k] = [at |-> "returned", next |-> call[k].next, count |-> call[k].count]
    BY <1>0, <1>1, <2>1, CallMoves
  <2> QED
    BY <1>0, <1>1, <2>1, <2>2, CallMoves
<1>3. Numbers' = Numbers
  BY <1>1, SettingKept
<1>4. LaunchedOK'
  BY <1>1, <1>2, <1>3 DEF LaunchedOK
<1>5. \A w \in Workers : doing'[w] \in {Idle, doing[w]} /\ doing'[w] # <<k, 0>>
  <2>1. <<k, 0>> # Idle
    BY Caller2DAssumption
  <2> QED
    BY <1>0, <1>1, <2>1, Freed
<1>6. \A t \in Tasks : Waits(t)' => Waits(t)
  BY <1>1, <1>2, <1>3 DEF Waits, Tasks
<1>7. \A t \in Tasks : Runs(t) => Runs(t)' \/ t = <<k, 0>>
  <2> SUFFICES ASSUME NEW t \in Tasks, Runs(t), t # <<k, 0>>
               PROVE  Runs(t)'
    OBVIOUS
  <2>1. PICK l \in Calls, j \in 0..MaxConcurrency : t = <<l, j>>
    BY DEF Tasks
  <2>2. j = 0 => l # k
    BY <2>1
  <2> QED
    BY <1>1, <1>2, <1>3, <2>1, <2>2 DEF Runs
<1>8. PlacesOK'
  BY <1>1, <1>2, <1>5, <1>6, <1>7, PlacesKept
<1> QED
  BY <1>4, <1>8

LEMMA JoinChunkPlaces ==
  ASSUME IInv, PlacesOK, LaunchedOK, NEW k \in Calls, NEW i \in Numbers, JoinChunk(k, i)
  PROVE  PlacesOK' /\ LaunchedOK'
<1>0. TypeOK
  BY DEF IInv
<1>1. /\ chunk' = [chunk EXCEPT ![k][i].at = "joined"] /\ Free(<<k, i>>)
      /\ call' = [call EXCEPT ![k].count = @ - 1] /\ UNCHANGED <<setting, queue>>
  BY DEF JoinChunk
<1>2. /\ chunk'[k][i].at = "joined"
      /\ \A j \in Numbers : j # i => chunk'[k][j] = chunk[k][j]
      /\ \A l \in Calls : l # k => chunk'[l] = chunk[l]
  <2>1. "joined" \in ChunkAt
    BY DEF ChunkAt
  <2> QED
    BY <1>0, <1>1, <2>1, ChunkGoes
<1>3. \A l \in Calls : call'[l].at = call[l].at
  BY <1>0, <1>1 DEF TypeOK
<1>4. Numbers' = Numbers
  BY <1>1, SettingKept
<1>5. LaunchedOK'
  BY <1>2, <1>3, <1>4 DEF LaunchedOK
<1>6. \A w \in Workers : doing'[w] \in {Idle, doing[w]} /\ doing'[w] # <<k, i>>
  <2>1. <<k, i>> # Idle
    BY <1>0, Constants, Caller2DAssumption
  <2> QED
    BY <1>0, <1>1, <2>1, Freed
<1>7. \A t \in Tasks : Waits(t)' => Waits(t)
  BY <1>2, <1>3, <1>4 DEF Waits, Tasks
<1>8. \A t \in Tasks : Runs(t) => Runs(t)' \/ t = <<k, i>>
  <2> SUFFICES ASSUME NEW t \in Tasks, Runs(t), t # <<k, i>>
               PROVE  Runs(t)'
    OBVIOUS
  <2>1. PICK l \in Calls, j \in 0..MaxConcurrency : t = <<l, j>>
    BY DEF Tasks
  <2>2. l # k \/ j # i
    BY <2>1
  <2> QED
    BY <1>1, <1>2, <1>3, <1>4, <2>1, <2>2 DEF Runs
<1>9. PlacesOK'
  BY <1>1, <1>3, <1>6, <1>7, <1>8, PlacesKept
<1> QED
  BY <1>5, <1>9

LEMMA StartCallablePlaces ==
  ASSUME IInv, PlacesOK, LaunchedOK, NEW k \in Calls, NEW i \in Numbers, StartCallable(k, i)
  PROVE  PlacesOK' /\ LaunchedOK'
<1>1. UNCHANGED <<setting, call, queue, doing>>
  BY DEF StartCallable
<1>2. \A l \in Calls : \A j \in Numbers : chunk'[l][j].at = chunk[l][j].at
  BY DEF StartCallable, IInv, TypeOK
<1>3. Numbers' = Numbers
  BY <1>1, SettingKept
<1>4. LaunchedOK'
  BY <1>1, <1>2, <1>3 DEF LaunchedOK
<1>5. \A t \in Tasks : Waits(t)' <=> Waits(t)
  BY <1>1, <1>2, <1>3 DEF Waits, Tasks
<1>6. \A t \in Tasks : Runs(t)' <=> Runs(t)
  BY <1>1, <1>2, <1>3 DEF Runs, Tasks
<1>7. PlacesOK'
  BY <1>1, <1>5, <1>6, PlacesKept
<1> QED
  BY <1>4, <1>7

LEMMA StepPlaces == IInv /\ PlacesOK /\ LaunchedOK /\ [Next]_vars => PlacesOK' /\ LaunchedOK'
<1> SUFFICES ASSUME IInv, PlacesOK, LaunchedOK, [Next]_vars PROVE PlacesOK' /\ LaunchedOK'
  OBVIOUS
<1>1. ASSUME NEW k \in Calls, Make(k) \/ PortalThrows(k) \/ CallStep(k)
      PROVE  PlacesOK' /\ LaunchedOK'
  BY <1>1, MakePlaces, DividePlaces, LaunchChunkPlaces, LaunchingEndsPlaces, ReturnPlaces DEF CallStep
<1>2. ASSUME NEW k \in Calls, NEW i \in Numbers, ChunkStep(k, i)
      PROVE  PlacesOK' /\ LaunchedOK'
  BY <1>2, StartCallablePlaces, JoinChunkPlaces DEF ChunkStep
<1>3. ASSUME NEW w \in Workers, Take(w)
      PROVE  PlacesOK' /\ LaunchedOK'
  BY <1>3, TakePlaces
<1>4. CASE UNCHANGED vars
  <2>1. UNCHANGED <<setting, call, chunk, queue, doing>>
    BY <1>4 DEF vars
  <2>2. Numbers' = Numbers
    BY <2>1, SettingKept
  <2>3. \A t \in Tasks : (Waits(t)' <=> Waits(t)) /\ (Runs(t)' <=> Runs(t))
    BY <2>1, <2>2 DEF Waits, Runs
  <2>4. PlacesOK'
    BY <2>1, <2>3, PlacesKept
  <2> QED
    BY <2>1, <2>2, <2>4 DEF LaunchedOK
<1> QED
  BY <1>1, <1>2, <1>3, <1>4 DEF Next

LEMMA InitPlaces == Init => PlacesOK /\ LaunchedOK
<1> SUFFICES ASSUME Init PROVE PlacesOK /\ LaunchedOK
  OBVIOUS
<1>1. /\ \A k \in Calls : call[k].at = "new" /\ \A i \in Numbers : chunk[k][i].at = "none"
      /\ \A w \in Workers : doing[w] = Idle
  BY DEF Init, NoChunks
<1>2. setting.threads => setting.pooled = {}
  BY DEF Init
<1>3. \A t \in Tasks : ~Waits(t)
  BY <1>1 DEF Waits, Tasks
<1> QED
  BY <1>1, <1>2, <1>3 DEF PlacesOK, LaunchedOK

\* Calls and chunks that go to a pool do not wait for each other in a circle, but
\* when all workers of the pool have gone to wait inside call().
THEOREM Caller2DNobodyStuck == Spec => []NobodyStuck
<1>1. IInv /\ PlacesOK /\ LaunchedOK => NobodyStuck
  <2> SUFFICES ASSUME IInv, PlacesOK, LaunchedOK, ~CanGoOn, NEW k \in Calls,
                      \/ call[k].at \in {"queued", "entered", "launching", "waiting"}
                      \/ \E i \in Numbers : chunk[k][i].at \in {"queued", "running"}
               PROVE  Starved
    BY DEF NobodyStuck
  <2>1. TypeOK /\ CallOK(k)
    BY DEF IInv
  <2>2. PICK task \in Tasks : Waits(task)
    <3>1. Numbers \subseteq 0..MaxConcurrency /\ 0 \in 0..MaxConcurrency
      BY <2>1, Constants
    <3>2. ASSUME NEW i \in Numbers, chunk[k][i].at = "queued"
          PROVE  <<k, i>> \in Tasks /\ Waits(<<k, i>>)
      BY <3>1, <3>2 DEF Tasks, Waits
    <3>3. CASE call[k].at = "queued"
      <4>1. <<k, 0>> \in Tasks /\ Waits(<<k, 0>>)
        BY <3>1, <3>3 DEF Tasks, Waits
      <4> QED
        BY <4>1
    <3>4. CASE \E i \in Numbers : chunk[k][i].at \in {"queued", "running"}
      BY <3>2, <3>4 DEF CanGoOn
    <3>5. CASE call[k].at = "waiting"
      <4>1. call[k].count # 0
        BY <3>5 DEF CanGoOn
      <4>2. Unjoined(k) # {}
        BY <2>1, <3>5, <4>1, FS_EmptySet DEF CallOK, Undivided
      <4>3. PICK i \in Numbers : chunk[k][i].at # "joined" /\ chunk[k][i].at # "none"
        BY <3>5, <4>2 DEF Unjoined, LaunchedOK
      <4>4. chunk[k][i].at \in {"queued", "running"}
        BY <2>1, <4>3 DEF TypeOK, ChunkAt
      <4> QED
        BY <3>4, <4>4
    <3> QED
      BY <3>3, <3>4, <3>5 DEF CanGoOn
  <2>3. queue # <<>> /\ ~setting.threads
    <3>1. ~setting.threads /\ DOMAIN queue # {}
      BY <2>2 DEF PlacesOK
    <3> QED
      BY <3>1
  <2>4. ASSUME NEW w \in setting.workers
        PROVE  /\ doing[w] # Idle /\ doing[w][2] = 0
               /\ call[doing[w][1]].at = "waiting" /\ call[doing[w][1]].count > 0
    <3>1. w \in Workers /\ doing[w] # Idle
      BY <2>1, <2>3 DEF TypeOK, CanGoOn
    <3>2. PICK l \in Calls, j \in 0..MaxConcurrency : doing[w] = <<l, j>> /\ Runs(<<l, j>>)
      <4>1. doing[w] \in Tasks
        BY <2>1, <3>1 DEF TypeOK, Tasks
      <4>2. PICK t \in Tasks : t = doing[w] /\ Runs(t)
        BY <3>1, <4>1 DEF PlacesOK
      <4> QED
        BY <4>2 DEF Tasks
    <3>3. j \notin Numbers \/ chunk[l][j].at # "running"
      BY DEF CanGoOn
    <3>4. j = 0 /\ call[l].at \in {"entered", "launching", "waiting"}
      BY <3>2, <3>3 DEF Runs
    <3>5. call[l].at = "waiting" /\ call[l].count # 0
      BY <3>4 DEF CanGoOn
    <3>6. call[l].count \in Nat
      BY <2>1, Constants DEF TypeOK
    <3> QED
      BY <3>1, <3>2, <3>4, <3>5, <3>6
  <2> QED
    BY <2>3, <2>4 DEF Starved
<1> QED
  BY <1>1, Caller2DIInv, InitPlaces, StepPlaces, PTL DEF Spec
=============================================================================
