-------------------------- MODULE TreeCounterProofs --------------------------
(***************************************************************************)
(* For every finite set of tasks and every MAX_COUNT: the nodes of         *)
(* TreeAtomicCounter answer for exactly the tokens that are about, so that *)
(* no node is reached after its deletion, the last task to join is the one *)
(* that gets the callback, and it sees the effects of all tasks.  And every*)
(* step of the tree is a step of ForkJoin or a stuttering one.             *)
(***************************************************************************)
EXTENDS TreeCounter, FiniteSetTheorems, SequenceTheorems, TLAPS

-----------------------------------------------------------------------------
(***************************************************************************)
(* The StackedLinearBuffer: what push() and fetch() do to its slots.       *)
(***************************************************************************)
Entry == [num : 0..SizeMax, node : Nodes]
Filled(b) == \A i \in DOMAIN b : b[i].num > 0

LEMMA EntryAt ==
  ASSUME NEW b \in Seq(Entry), NEW i \in 1..Len(b)
  PROVE  /\ b[i] \in Entry /\ b[i].node \in Nodes
         /\ b[i].num \in Nat /\ b[i].num \in 0..SizeMax
<1>1. b[i] \in Entry
  BY ElementOfSeq
<1> QED
  BY <1>1, TreeAssumption DEF Entry

LEMMA SlotMember ==
  ASSUME NEW b \in Seq(Entry)
  PROVE  /\ \A i, j : <<i, j>> \in Slots(b) <=> i \in 1..Len(b) /\ j \in 1..b[i].num
         /\ \A s \in Slots(b) : s = <<s[1], s[2]>> /\ s[1] \in 1..Len(b) /\ s[2] \in 1..b[s[1]].num
<1>1. DOMAIN b = 1..Len(b)
  OBVIOUS
<1>2. ASSUME NEW s
      PROVE  s \in Slots(b) <=> \E i \in 1..Len(b) : s \in {i} \X (1..b[i].num)
  BY <1>1 DEF Slots
<1> QED
  BY <1>2

LEMMA SlotsFinite ==
  ASSUME NEW b \in Seq(Entry)
  PROVE  /\ IsFiniteSet(Slots(b)) /\ Cardinality(Slots(b)) \in Nat
         /\ \A n : IsFiniteSet(SlotsAt(b, n)) /\ Cardinality(SlotsAt(b, n)) \in Nat
<1>1. Len(b) \in Nat /\ SizeMax \in Nat
  BY TreeAssumption
<1>2. IsFiniteSet(1..Len(b)) /\ IsFiniteSet(1..SizeMax)
  BY <1>1, FS_Interval
<1>3. IsFiniteSet((1..Len(b)) \X (1..SizeMax))
  BY <1>2, FS_Product
<1>4. ASSUME NEW s \in Slots(b)
      PROVE  s \in (1..Len(b)) \X (1..SizeMax)
  <2>1. s = <<s[1], s[2]>> /\ s[1] \in 1..Len(b) /\ s[2] \in 1..b[s[1]].num
    BY SlotMember
  <2>2. b[s[1]].num \in 0..SizeMax
    BY <2>1, EntryAt
  <2> QED
    BY <2>1, <2>2, <1>1
<1>5. IsFiniteSet(Slots(b)) /\ \A n : SlotsAt(b, n) \in SUBSET Slots(b)
  BY <1>3, <1>4, FS_Subset DEF SlotsAt
<1> QED
  BY <1>5, FS_Subset, FS_CardinalityType

LEMMA SlotsEmpty ==
  /\ Slots(<<>>) = {} /\ \A n : SlotsAt(<<>>, n) = {}
  /\ Cardinality({}) = 0
  /\ <<>> \in Seq(Entry)
BY FS_EmptySet DEF Slots, SlotsAt

LEMMA FilledSlots ==
  ASSUME NEW b \in Seq(Entry), Filled(b)
  PROVE  /\ Cardinality(Slots(b)) = 0 => b = <<>>
         /\ \A i \in 1..Len(b) : Cardinality(SlotsAt(b, b[i].node)) > 0
<1>1. ASSUME NEW i \in 1..Len(b)
      PROVE  <<i, 1>> \in SlotsAt(b, b[i].node)
  <2>1. b[i].num > 0 /\ b[i].num \in Nat
    BY EntryAt DEF Filled
  <2>2. <<i, 1>> \in Slots(b)
    BY <2>1, SlotMember
  <2> QED
    BY <2>2 DEF SlotsAt
<1>2. ASSUME NEW i \in 1..Len(b)
      PROVE  Cardinality(SlotsAt(b, b[i].node)) > 0 /\ Cardinality(Slots(b)) > 0
  <2>1. SlotsAt(b, b[i].node) # {} /\ Slots(b) # {}
    BY <1>1, <1>2 DEF SlotsAt
  <2>2. Cardinality(SlotsAt(b, b[i].node)) # 0 /\ Cardinality(Slots(b)) # 0
    BY <2>1, SlotsFinite, FS_EmptySet
  <2> QED
    BY <2>2, SlotsFinite
<1>3. CASE Len(b) = 0
  BY <1>3, <1>2
<1>4. CASE Len(b) # 0
  BY <1>4, <1>2
<1> QED
  BY <1>3, <1>4

LEMMA PushSeq ==
  ASSUME NEW b \in Seq(Entry), NEW k \in 0..SizeMax, NEW n \in Nodes
  PROVE  /\ Push(b, k, n) \in Seq(Entry)
         /\ Len(Push(b, k, n)) = Len(b) + 1
         /\ Push(b, k, n)[Len(b) + 1] = [num |-> k, node |-> n]
         /\ \A i \in 1..Len(b) : Push(b, k, n)[i] = b[i]
<1>1. [num |-> k, node |-> n] \in Entry
  BY DEF Entry
<1> QED
  BY <1>1, AppendProperties DEF Push

LEMMA PushSlots ==
  ASSUME NEW b \in Seq(Entry), NEW k \in 0..SizeMax, NEW n \in Nodes
  PROVE  /\ Cardinality(Slots(Push(b, k, n))) = Cardinality(Slots(b)) + k
         /\ Cardinality(SlotsAt(Push(b, k, n), n)) = Cardinality(SlotsAt(b, n)) + k
         /\ \A m : m # n => Cardinality(SlotsAt(Push(b, k, n), m)) = Cardinality(SlotsAt(b, m))
<1> DEFINE c == Push(b, k, n)
           new == {Len(b) + 1} \X (1..k)
<1>2. /\ c \in Seq(Entry) /\ Len(c) = Len(b) + 1
      /\ c[Len(b) + 1] = [num |-> k, node |-> n]
      /\ \A i \in 1..Len(b) : c[i] = b[i]
  BY PushSeq
<1>3. k \in Nat /\ Len(b) \in Nat
  BY TreeAssumption
<1>4. IsFiniteSet(new) /\ Cardinality(new) = k
  <2>1. IsFiniteSet(1..k) /\ Cardinality(1..k) = k
    BY <1>3, FS_Interval
  <2>2. IsFiniteSet({Len(b) + 1}) /\ Cardinality({Len(b) + 1}) = 1
    BY FS_Singleton
  <2>3. ASSUME NEW R, NEW C, IsFiniteSet(R), IsFiniteSet(C)
        PROVE  IsFiniteSet(R \X C) /\ Cardinality(R \X C) = Cardinality(R) * Cardinality(C)
    BY <2>3, FS_Product
  <2>4. /\ IsFiniteSet(new)
        /\ Cardinality(new) = Cardinality({Len(b) + 1}) * Cardinality(1..k)
    BY <2>1, <2>2, <2>3
  <2> HIDE DEF new
  <2> QED
    BY <2>1, <2>2, <2>4, <1>3
<1>5. Slots(c) = Slots(b) \cup new /\ Slots(b) \cap new = {}
  <2>1. ASSUME NEW s
        PROVE  /\ s \in Slots(c) <=> s \in Slots(b) \/ s \in new
               /\ ~(s \in Slots(b) /\ s \in new)
    <3>1. /\ s \in Slots(c) => s = <<s[1], s[2]>>
          /\ s \in Slots(b) => s = <<s[1], s[2]>>
          /\ s \in new => s = <<s[1], s[2]>>
      BY <1>2, SlotMember
    <3>2. \A i, j : /\ <<i, j>> \in Slots(c) <=> i \in 1..(Len(b) + 1) /\ j \in 1..c[i].num
                    /\ <<i, j>> \in Slots(b) <=> i \in 1..Len(b) /\ j \in 1..b[i].num
                    /\ <<i, j>> \in new <=> i = Len(b) + 1 /\ j \in 1..k
      <4> HIDE DEF c
      <4> QED
        BY <1>2, SlotMember
    <3>3. \A i : i \in 1..(Len(b) + 1) <=> i \in 1..Len(b) \/ i = Len(b) + 1
      BY <1>3
    <3>4. \A i, j : /\ <<i, j>> \in Slots(c) <=> <<i, j>> \in Slots(b) \/ <<i, j>> \in new
                    /\ ~(<<i, j>> \in Slots(b) /\ <<i, j>> \in new)
      <4> SUFFICES ASSUME NEW i, NEW j
                   PROVE  /\ <<i, j>> \in Slots(c) <=> <<i, j>> \in Slots(b) \/ <<i, j>> \in new
                          /\ ~(<<i, j>> \in Slots(b) /\ <<i, j>> \in new)
        OBVIOUS
      <4> HIDE DEF c, new
      <4>1. CASE i = Len(b) + 1
        BY <4>1, <1>2, <1>3, <3>2
      <4>2. CASE i # Len(b) + 1
        BY <4>2, <1>2, <1>3, <3>2, <3>3
      <4> QED
        BY <4>1, <4>2
    <3> HIDE DEF c, new
    <3> QED
      BY <3>1, <3>4
  <2> QED
    BY <2>1
<1>6. ASSUME NEW m
      PROVE  /\ m = n => SlotsAt(c, m) = SlotsAt(b, m) \cup new
             /\ m # n => SlotsAt(c, m) = SlotsAt(b, m)
             /\ SlotsAt(b, m) \cap new = {}
  <2>1. ASSUME NEW s \in Slots(b)
        PROVE  c[s[1]].node = b[s[1]].node
    BY <1>2, SlotMember
  <2>2. ASSUME NEW s \in new
        PROVE  c[s[1]].node = n
    <3>1. s[1] = Len(b) + 1
      OBVIOUS
    <3> HIDE DEF c, new
    <3> QED
      BY <3>1, <1>2
  <2> HIDE DEF c, new
  <2> QED
    BY <1>5, <2>1, <2>2 DEF SlotsAt
<1> HIDE DEF c, new
<1>7. Cardinality(Slots(c)) = Cardinality(Slots(b)) + k
  <2>1. Cardinality(Slots(b) \cup new)
          = Cardinality(Slots(b)) + Cardinality(new) - Cardinality({})
    BY <1>4, <1>5, SlotsFinite, FS_Union
  <2>2. Cardinality(Slots(b)) \in Nat
    BY SlotsFinite
  <2> QED
    BY <2>1, <2>2, <1>3, <1>4, <1>5, FS_EmptySet
<1>8. Cardinality(SlotsAt(c, n)) = Cardinality(SlotsAt(b, n)) + k
  <2>1. Cardinality(SlotsAt(b, n) \cup new)
          = Cardinality(SlotsAt(b, n)) + Cardinality(new) - Cardinality({})
    <3>1. IsFiniteSet(SlotsAt(b, n)) /\ SlotsAt(b, n) \cap new = {}
      BY <1>6, SlotsFinite
    <3> QED
      BY <3>1, <1>4, FS_Union, Zenon
  <2>2. Cardinality(SlotsAt(b, n)) \in Nat
    BY SlotsFinite
  <2>3. SlotsAt(c, n) = SlotsAt(b, n) \cup new
    BY <1>6
  <2>4. Cardinality({}) = 0
    BY FS_EmptySet
  <2> QED
    BY <2>1, <2>2, <2>3, <2>4, <1>3, <1>4
<1>9. \A m : m # n => Cardinality(SlotsAt(c, m)) = Cardinality(SlotsAt(b, m))
  BY <1>6
<1> QED
  BY <1>7, <1>8, <1>9 DEF c

\* Only the top of the stack changes: it loses one slot.
LEMMA FetchSlots ==
  ASSUME NEW b \in Seq(Entry), Filled(b), b # <<>>
  PROVE  /\ Top(b) \in Nodes
         /\ Fetched(b) \in Seq(Entry) /\ Filled(Fetched(b))
         /\ Len(Fetched(b)) \in {Len(b), Len(b) - 1}
         /\ \A i \in 1..Len(Fetched(b)) : Fetched(b)[i].node = b[i].node
         /\ Cardinality(Slots(Fetched(b))) = Cardinality(Slots(b)) - 1
         /\ \A m : Cardinality(SlotsAt(Fetched(b), m))
                     = Cardinality(SlotsAt(b, m)) - (IF m = Top(b) THEN 1 ELSE 0)
<1> DEFINE c == Fetched(b)
           l == Len(b)
           k == b[l].num
           slot == <<l, k>>
<1>1. /\ l \in Nat \ {0} /\ l \in 1..l
      /\ b[l] \in Entry /\ k \in Nat /\ k > 0 /\ k \in 0..SizeMax /\ b[l].node \in Nodes
  <2>1. l \in Nat \ {0} /\ l \in 1..l
    BY EmptySeq, LenProperties
  <2> QED
    BY <2>1, EntryAt DEF Filled
<1>2. Top(b) = b[l].node /\ Last(b).num = k /\ Decr(k) = k - 1
  BY <1>1 DEF Top, Last, Decr
<1>3. ASSUME k = 1
      PROVE  /\ c \in Seq(Entry) /\ Len(c) = l - 1
             /\ \A i \in 1..(l - 1) : c[i] = b[i]
  <2>1. c = SubSeq(b, 1, l - 1)
    BY <1>2, <1>3 DEF Fetched, Front
  <2>2. \A i \in 1..(l - 1) : b[i] \in Entry
    BY <1>1, EntryAt
  <2>3. 1 \in Int /\ l - 1 \in Int
    BY <1>1
  <2>4. /\ SubSeq(b, 1, l - 1) \in Seq(Entry)
        /\ Len(SubSeq(b, 1, l - 1)) = IF 1 <= l - 1 THEN l - 1 - 1 + 1 ELSE 0
        /\ \A i \in 1..(l - 1 - 1 + 1) : SubSeq(b, 1, l - 1)[i] = b[1 + i - 1]
    BY <2>2, <2>3, SubSeqProperties
  <2> HIDE DEF c, l
  <2>5. (IF 1 <= l - 1 THEN l - 1 - 1 + 1 ELSE 0) = l - 1 /\ l - 1 - 1 + 1 = l - 1
    BY <1>1
  <2>6. \A i \in 1..(l - 1) : 1 + i - 1 = i
    OBVIOUS
  <2> QED
    BY <2>1, <2>4, <2>5, <2>6
<1>4. ASSUME k # 1
      PROVE  /\ c \in Seq(Entry) /\ Len(c) = l
             /\ c[l] = [num |-> k - 1, node |-> b[l].node]
             /\ \A i \in 1..(l - 1) : c[i] = b[i]
  <2> DEFINE e == [num |-> k - 1, node |-> b[l].node]
  <2>1. e = [b[l] EXCEPT !.num = k - 1] /\ e \in Entry
    BY <1>1, TreeAssumption DEF Entry
  <2>2. c = [b EXCEPT ![l] = e]
    <3>1. Decr(Last(b).num) # 0
      BY <1>1, <1>2, <1>4
    <3>2. c = [b EXCEPT ![l].num = Decr(@)]
      BY <3>1 DEF Fetched
    <3>3. c = [b EXCEPT ![l] = [b[l] EXCEPT !.num = Decr(k)]]
      BY <3>2
    <3> QED
      BY <3>3, <2>1, <1>2
  <2> HIDE DEF c, e
  <2>3. c \in Seq(Entry) /\ Len(c) = l
    BY <1>1, <2>1, <2>2, ExceptSeq
  <2>4. c[l] = e /\ \A i \in 1..(l - 1) : c[i] = b[i]
    BY <1>1, <2>2
  <2> QED
    BY <2>3, <2>4 DEF e
<1> HIDE DEF c
<1>5. /\ c \in Seq(Entry) /\ Len(c) \in {l, l - 1}
      /\ \A i \in 1..Len(c) : c[i].node = b[i].node
  <2>1. CASE k = 1
    BY <1>1, <1>3, <2>1
  <2>2. CASE k # 1
    <3>1. c[l].node = b[l].node
      BY <1>4, <2>2
    <3>2. \A i \in 1..l : i = l \/ i \in 1..(l - 1)
      BY <1>1
    <3> QED
      BY <1>4, <2>2, <3>1, <3>2
  <2> QED
    BY <2>1, <2>2
<1>6. Filled(c)
  <2> SUFFICES ASSUME NEW i \in 1..Len(c) PROVE c[i].num > 0
    BY <1>5 DEF Filled
  <2>1. b[i].num > 0
    BY <1>1, <1>5 DEF Filled
  <2>2. CASE k = 1
    BY <2>1, <2>2, <1>1, <1>3
  <2>3. CASE k # 1 /\ i = l
    BY <2>3, <1>1, <1>4
  <2>4. CASE k # 1 /\ i # l
    BY <2>1, <2>4, <1>1, <1>4
  <2> QED
    BY <2>2, <2>3, <2>4
<1>7. \A i, j : <<i, j>> \in Slots(c) <=> <<i, j>> \in Slots(b) /\ <<i, j>> # slot
  <2> SUFFICES ASSUME NEW i, NEW j
               PROVE  <<i, j>> \in Slots(c) <=> <<i, j>> \in Slots(b) /\ ~(i = l /\ j = k)
    OBVIOUS
  <2>1. /\ <<i, j>> \in Slots(c) <=> i \in 1..Len(c) /\ j \in 1..c[i].num
        /\ <<i, j>> \in Slots(b) <=> i \in 1..l /\ j \in 1..b[i].num
    BY <1>5, SlotMember
  <2>2. CASE i = l
    BY <2>1, <2>2, <1>1, <1>3, <1>4
  <2>3. CASE i # l
    BY <2>1, <2>3, <1>1, <1>3, <1>4
  <2> QED
    BY <2>2, <2>3
<1>8. Slots(c) = Slots(b) \ {slot} /\ slot \in Slots(b)
  <2>1. \A s : /\ s \in Slots(c) => s = <<s[1], s[2]>>
               /\ s \in Slots(b) => s = <<s[1], s[2]>>
    BY <1>5, SlotMember
  <2>2. slot \in Slots(b)
    BY <1>1, SlotMember
  <2> HIDE DEF l, k, slot
  <2> QED
    BY <1>7, <2>1, <2>2
<1>9. ASSUME NEW m
      PROVE  /\ SlotsAt(c, m) = SlotsAt(b, m) \ {slot}
             /\ slot \in SlotsAt(b, m) <=> m = Top(b)
  <2>1. \A s \in Slots(c) : c[s[1]].node = b[s[1]].node
    BY <1>5, SlotMember
  <2>2. slot[1] = l
    OBVIOUS
  <2> HIDE DEF slot
  <2> QED
    BY <2>1, <2>2, <1>2, <1>8 DEF SlotsAt
<1>10. Cardinality(Slots(c)) = Cardinality(Slots(b)) - 1
  <2> HIDE DEF slot
  <2>1. IsFiniteSet(Slots(b))
    BY SlotsFinite
  <2> QED
    BY <2>1, <1>8, FS_RemoveElement
<1>11. ASSUME NEW m
       PROVE  Cardinality(SlotsAt(c, m)) = Cardinality(SlotsAt(b, m)) - (IF m = Top(b) THEN 1 ELSE 0)
  <2>1. Cardinality(SlotsAt(b, m) \ {slot})
          = Cardinality(SlotsAt(b, m)) - (IF slot \in SlotsAt(b, m) THEN 1 ELSE 0)
    <3>1. IsFiniteSet(SlotsAt(b, m)) /\ Cardinality(SlotsAt(b, m)) \in Nat
      BY SlotsFinite
    <3> HIDE DEF slot
    <3>2. Cardinality(SlotsAt(b, m) \ {slot})
            = IF slot \in SlotsAt(b, m) THEN Cardinality(SlotsAt(b, m)) - 1
                                        ELSE Cardinality(SlotsAt(b, m))
      BY <3>1, FS_RemoveElement
    <3> QED
      BY <3>1, <3>2
  <2> QED
    BY <2>1, <1>9
<1> QED
  BY <1>1, <1>2, <1>5, <1>6, <1>10, <1>11 DEF c

-----------------------------------------------------------------------------
(***************************************************************************)
(* The four kinds of tokens of a node.                                     *)
(***************************************************************************)
LEMMA BufferType ==
  ASSUME TypeOK, NEW a \in Actors
  PROVE  buffer[a] \in Seq(Entry)
BY DEF TypeOK, Entry

LEMMA InBuffersFinite ==
  ASSUME TypeOK, NEW n
  PROVE  IsFiniteSet(InBuffers(n)) /\ Cardinality(InBuffers(n)) \in Nat
<1> DEFINE f == [a \in Actors |-> {a} \X SlotsAt(buffer[a], n)]
           T == {f[a] : a \in Actors}
<1>1. IsFiniteSet(Actors)
  BY FS_AddElement, TreeAssumption DEF Actors
<1>2. f \in Surjection(Actors, T)
  BY DEF Surjection
<1>3. IsFiniteSet(T)
  <2> HIDE DEF f, T
  <2> QED
    BY <1>1, <1>2, FS_Surjection
<1>4. ASSUME NEW a \in Actors
      PROVE  IsFiniteSet({a} \X SlotsAt(buffer[a], n))
  BY BufferType, SlotsFinite, FS_Singleton, FS_Product
<1>5. \A U \in T : IsFiniteSet(U)
  BY <1>4
<1>6. UNION T = InBuffers(n)
  BY DEF InBuffers
<1> HIDE DEF f, T
<1>7. IsFiniteSet(UNION T)
  BY <1>3, <1>5, FS_UNION
<1> QED
  BY <1>6, <1>7, FS_CardinalityType

\* When one actor's buffer changes, so do the tokens in buffers.
LEMMA BufferChange ==
  ASSUME TypeOK, NEW a \in Actors, NEW b \in Seq(Entry), buffer' = [buffer EXCEPT ![a] = b], NEW n
  PROVE  Cardinality(InBuffers(n)')
           = Cardinality(InBuffers(n)) - Cardinality(SlotsAt(buffer[a], n)) + Cardinality(SlotsAt(b, n))
<1> DEFINE rest == UNION {{c} \X SlotsAt(buffer[c], n) : c \in Actors \ {a}}
           before == {a} \X SlotsAt(buffer[a], n)
           after == {a} \X SlotsAt(b, n)
<1>1. InBuffers(n) = rest \cup before /\ rest \cap before = {}
  BY DEF InBuffers
<1>2. InBuffers(n)' = rest \cup after /\ rest \cap after = {}
  <2>1. buffer \in [Actors -> Seq(Entry)]
    BY DEF TypeOK, Entry
  <2>2. buffer'[a] = b /\ \A c \in Actors \ {a} : buffer'[c] = buffer[c]
    BY <2>1
  <2>3. InBuffers(n)' = UNION {{c} \X SlotsAt(buffer'[c], n) : c \in Actors}
    BY DEF InBuffers, SlotsAt, Slots
  <2> QED
    BY <2>2, <2>3
<1>3. ASSUME NEW c \in Seq(Entry)
      PROVE  /\ IsFiniteSet({a} \X SlotsAt(c, n))
             /\ Cardinality({a} \X SlotsAt(c, n)) = Cardinality(SlotsAt(c, n))
             /\ Cardinality(SlotsAt(c, n)) \in Nat
  <2>1. IsFiniteSet({a}) /\ Cardinality({a}) = 1
    BY FS_Singleton
  <2>2. IsFiniteSet(SlotsAt(c, n)) /\ Cardinality(SlotsAt(c, n)) \in Nat
    BY SlotsFinite
  <2>3. /\ IsFiniteSet({a} \X SlotsAt(c, n))
        /\ Cardinality({a} \X SlotsAt(c, n)) = 1 * Cardinality(SlotsAt(c, n))
    BY <2>1, <2>2, FS_Product
  <2> QED
    BY <2>2, <2>3
<1>4. /\ IsFiniteSet(before) /\ Cardinality(before) = Cardinality(SlotsAt(buffer[a], n))
      /\ IsFiniteSet(after) /\ Cardinality(after) = Cardinality(SlotsAt(b, n))
      /\ Cardinality(before) \in Nat /\ Cardinality(after) \in Nat
  BY <1>3, BufferType
<1> HIDE DEF rest, before, after
<1>5. IsFiniteSet(rest) /\ Cardinality(rest) \in Nat
  <2>1. IsFiniteSet(InBuffers(n)) /\ rest \in SUBSET InBuffers(n)
    BY <1>1, InBuffersFinite
  <2> QED
    BY <2>1, FS_Subset, FS_CardinalityType
<1>6. Cardinality(InBuffers(n)) = Cardinality(rest) + Cardinality(before) - 0
  BY <1>1, <1>4, <1>5, FS_Union, FS_EmptySet
<1>7. Cardinality(InBuffers(n)') = Cardinality(rest) + Cardinality(after) - 0
  BY <1>2, <1>4, <1>5, FS_Union, FS_EmptySet
<1> QED
  BY <1>4, <1>5, <1>6, <1>7

LEMMA TokensFinite ==
  ASSUME TypeOK, NEW n
  PROVE  /\ IsFiniteSet(Holders(n)) /\ Cardinality(Holders(n)) \in Nat
         /\ Cardinality(InBuffers(n)) \in Nat
         /\ IsFiniteSet(Children(n)) /\ Cardinality(Children(n)) \in Nat
         /\ IsFiniteSet(Chains(n)) /\ Cardinality(Chains(n)) \in Nat
<1>1. IsFiniteSet(Actors) /\ IsFiniteSet(Tasks) /\ IsFiniteSet(Nodes)
  <2>1. IsFiniteSet(Nodes)
    BY FS_Interval, TreeAssumption DEF Nodes
  <2> QED
    BY <2>1, FS_AddElement, TreeAssumption DEF Actors
<1>2. /\ Holders(n) \in SUBSET Tasks /\ Children(n) \in SUBSET Nodes
      /\ Chains(n) \in SUBSET Actors
  BY DEF Holders, In, Children, Live, Chains, Chaining
<1>3. /\ IsFiniteSet(Holders(n)) /\ IsFiniteSet(Children(n)) /\ IsFiniteSet(Chains(n))
  BY <1>1, <1>2, FS_Subset
<1> QED
  BY <1>3, InBuffersFinite, FS_CardinalityType

AtZero(n) == \E t \in In({"last"}) : mod[t] = n

\* A live node with a token has not been counted down to 0 by anybody.
LEMMA TokenAlive ==
  ASSUME IInv, NEW n \in Live,
         \/ Holders(n) # {} \/ Children(n) # {} \/ Chains(n) # {}
         \/ \E a \in Actors : \E i \in 1..Len(buffer[a]) : buffer[a][i].node = n
  PROVE  /\ ~AtZero(n) /\ count[n] \in 0..MAX_COUNT
         /\ Tokens(n) = count[n] + 1
<1>1. TypeOK /\ n \in Nodes
  BY DEF IInv, Live
<1>2. ASSUME NEW a \in Actors, NEW i \in 1..Len(buffer[a]), buffer[a][i].node = n
      PROVE  Cardinality(InBuffers(n)) > 0
  <2>1. Filled(buffer[a]) /\ buffer[a] \in Seq(Entry)
    BY <1>1, BufferType DEF IInv, BufferMatchesCalls, Filled
  <2>2. Cardinality(SlotsAt(buffer[a], n)) > 0
    BY <1>2, <2>1, FilledSlots
  <2>3. PICK s : s \in SlotsAt(buffer[a], n)
    <3>1. Cardinality({}) = 0 /\ ~(0 > 0)
      BY FS_EmptySet
    <3>2. SlotsAt(buffer[a], n) # {}
      BY <2>2, <3>1
    <3> QED
      BY <3>2
  <2>4. <<a, s>> \in InBuffers(n)
    BY <2>3 DEF InBuffers
  <2> QED
    BY <1>1, <2>4, InBuffersFinite, FS_EmptySet
<1>3. Tokens(n) > 0
  <2>1. /\ Holders(n) # {} => Cardinality(Holders(n)) > 0
        /\ Children(n) # {} => Cardinality(Children(n)) > 0
        /\ Chains(n) # {} => Cardinality(Chains(n)) > 0
    BY <1>1, TokensFinite, FS_EmptySet
  <2> QED
    BY <1>1, <1>2, <2>1, TokensFinite DEF Tokens
<1>4. ~AtZero(n)
  BY <1>3 DEF AtZero, IInv, Conservation
<1>5. count[n] \in Nat /\ count[n] <= MAX_COUNT
  BY <1>1, <1>4, TreeAssumption DEF AtZero, IInv, CountBounded, TypeOK
<1> QED
  BY <1>4, <1>5, TreeAssumption DEF AtZero, IInv, Conservation

LEMMA TreeStutters ==
  ASSUME IInv, UNCHANGED vars
  PROVE  IInv'
<1> USE DEF IInv, vars, tree, locals
<1>0. TypeOK'
  BY DEF TypeOK
<1>1. StartOK' /\ MemOK' /\ PendingOK' /\ CasOK' /\ LastOK'
  <2>1. StartOK' /\ MemOK' /\ CasOK'
    BY DEF StartOK, MemOK, CasOK, In, Idle
  <2>2. PendingOK' /\ LastOK'
    BY DEF PendingOK, LastOK, In
  <2> QED
    BY <2>1, <2>2
<1>2. Conservation'
  BY DEF Conservation, Tokens, Holders, InBuffers, Children, Chains, Chaining, In, Live
<1>3. CountBounded' /\ NoDanglingNode' /\ OwnerOK' /\ SeenOK'
  BY DEF CountBounded, NoDanglingNode, OwnerOK, SeenOK, Live, In, Chaining
<1>4. BufferMatchesCalls' /\ ChainOK'
  BY DEF BufferMatchesCalls, ChainOK, Missing, Chaining, In
<1> QED
  BY <1>0, <1>1, <1>2, <1>3, <1>4

\* Steps that touch no token.
LEMMA TokensUnchanged ==
  ASSUME IInv, UNCHANGED <<mem, parent, count, mod, buffer, tail>>,
         Chaining' = Chaining, \A t \in Tasks : at'[t] = "chain_full" <=> at[t] = "chain_full",
         In({"running", "climbing"})' = In({"running", "climbing"}), In({"last"})' = In({"last"})
  PROVE  Conservation' /\ CountBounded' /\ NoDanglingNode' /\ LastOK'
<1>1. Live' = Live
  BY DEF Live
<1>2. \A n : /\ Holders(n)' = Holders(n) /\ InBuffers(n)' = InBuffers(n)
             /\ Children(n)' = Children(n) /\ Chains(n)' = Chains(n)
  BY <1>1 DEF Holders, InBuffers, Children, Chains, In
<1>3. \A n : Tokens(n)' = Tokens(n)
  BY <1>2 DEF Tokens
<1>4. In({"running", "climbing", "last"})' = In({"running", "climbing", "last"})
  BY DEF In
<1> QED
  BY <1>1, <1>3, <1>4 DEF IInv, Conservation, CountBounded, NoDanglingNode, LastOK

LEMMA AbandonIInv ==
  ASSUME IInv, Abandon
  PROVE  IInv'
<1> USE DEF IInv
<1>1. /\ Main \in Actors /\ Main \notin Tasks /\ \A t \in pending[Main] : st[t] = "queued"
      /\ pending[Main] \subseteq Tasks
  BY TreeAssumption DEF PendingOK, Actors, TypeOK
<1>2. TypeOK'
  BY <1>1 DEF TypeOK, Abandon, tree, locals, Status
<1>3. /\ \A T \in SUBSET (Status \ {"queued", "lost"}) : In(T)' = In(T)
      /\ In({"lost"})' = In({"lost"}) \cup pending[Main]
  BY <1>1 DEF Abandon, In, TypeOK, Status
<1>4. Conservation' /\ CountBounded' /\ NoDanglingNode' /\ LastOK'
  BY <1>3, TokensUnchanged DEF Abandon, tree, locals, Chaining, Status
<1>5. \A a \in Actors : Missing(a)' = Missing(a)
  BY <1>1, <1>3 DEF Missing, Abandon, TypeOK
<1>6. BufferMatchesCalls' /\ ChainOK'
  BY <1>5 DEF BufferMatchesCalls, ChainOK, Chaining, Abandon, tree, locals
<1>7. StartOK'
  BY <1>1 DEF StartOK, Abandon, tree, locals, Idle, In
<1>8. MemOK' /\ CasOK'
  BY DEF MemOK, CasOK, Abandon, tree, locals
<1>9. PendingOK'
  BY <1>1 DEF PendingOK, Abandon, locals, TypeOK, In
<1>10. OwnerOK'
  BY <1>1, <1>3 DEF OwnerOK, Abandon, tree, Live, Status, In
<1>11. SeenOK'
  BY <1>3 DEF SeenOK, Abandon, tree, Live, Status, Joined
<1> QED
  BY <1>2, <1>4, <1>6, <1>7, <1>8, <1>9, <1>10, <1>11

LEMMA CallbackIInv ==
  ASSUME IInv, NEW t \in Tasks, Callback(t)
  PROVE  IInv'
<1> USE DEF IInv
<1>1. /\ st[t] = "owner" /\ Live = {} /\ \A u \in Tasks \ {t} : st[u] \in {"idle", "joined"}
      /\ used # 0 /\ t \in Actors
  BY DEF Callback, OwnerOK, In, StartOK, Actors
<1>2. TypeOK'
  BY DEF TypeOK, Callback, tree, locals, Status
<1>3. \A T \in SUBSET (Status \ {"owner", "called"}) : In(T)' = In(T)
  BY <1>1 DEF Callback, In, TypeOK, Status
<1>4. Conservation' /\ CountBounded' /\ NoDanglingNode' /\ LastOK'
  BY <1>3, TokensUnchanged DEF Callback, tree, locals, Chaining, Status
<1>5. BufferMatchesCalls' /\ ChainOK'
  BY <1>3 DEF BufferMatchesCalls, ChainOK, Chaining, Missing, Callback, tree, locals, Status
<1>6. StartOK' /\ MemOK' /\ CasOK'
  BY <1>1 DEF StartOK, MemOK, CasOK, Callback, tree, locals
<1>7. PendingOK'
  BY <1>1 DEF PendingOK, Callback, locals, TypeOK, In
<1>8. OwnerOK' /\ SeenOK'
  BY <1>1 DEF OwnerOK, SeenOK, Callback, tree, TypeOK, Live, In, Joined
<1> QED
  BY <1>2, <1>4, <1>5, <1>6, <1>7, <1>8

LEMMA InvokeIInv ==
  ASSUME IInv, NEW S \in SUBSET Tasks, Invoke(S)
  PROVE  IInv'
<1> USE DEF IInv
<1>1. /\ Main \in Actors /\ Main \notin Tasks /\ used = 0 /\ at[Main] = "ready" /\ S # {}
      /\ \A t \in Tasks : st[t] = "idle" /\ st'[t] = (IF t \in S THEN "queued" ELSE "idle")
      /\ pending'[Main] = S /\ \A a \in Actors \ {Main} : pending'[a] = pending[a]
  BY TreeAssumption DEF Invoke, Enqueue, StartOK, Idle, In, Actors, TypeOK
<1>2. \A a \in Actors : pending[a] = {} /\ (a \in Tasks => at[a] = "ready")
  BY <1>1 DEF PendingOK, TypeOK, Actors
<1>3. Live = {}
  BY <1>1 DEF MemOK, Live, Nodes
<1>4. \A a \in Actors : buffer[a] = <<>>
  <2> SUFFICES ASSUME NEW a \in Actors PROVE buffer[a] = <<>>
    OBVIOUS
  <2>1. Missing(a) = {} /\ at[a] = "ready"
    BY <1>1, <1>2 DEF Missing, In, Actors
  <2>2. Cardinality(Slots(buffer[a])) = 0 /\ Filled(buffer[a])
    BY <2>1, FS_EmptySet DEF BufferMatchesCalls, Filled
  <2> QED
    BY <2>2, BufferType, FilledSlots
<1>5. /\ Cardinality(S) \in Nat /\ Cardinality(S) # 0 /\ Cardinality(S) <= SizeMax
  BY <1>1, FS_Subset, FS_CardinalityType, FS_EmptySet, TreeAssumption
<1>6. /\ at' = [at EXCEPT ![Main] = "chain"] /\ tail' = [tail EXCEPT ![Main] = None]
      /\ todo' = [todo EXCEPT ![Main] = Cardinality(S) - 1]
      /\ UNCHANGED <<tree, published, mod, view, buffer, current, empty>>
  BY DEF Invoke, StartChain
<1>7. TypeOK'
  <2>1. Cardinality(S) - 1 \in 0..SizeMax
    BY <1>5, TreeAssumption
  <2>2. st' \in [Tasks -> Status]
    <3>1. st' = [t \in Tasks |-> IF t \in S THEN "queued" ELSE st[t]]
      BY DEF Invoke, Enqueue
    <3> QED
      BY <3>1 DEF TypeOK, Status
  <2>3. pending' \in [Actors -> SUBSET Tasks]
    BY DEF Invoke, Enqueue, TypeOK
  <2>4. /\ at' \in [Actors -> {"ready", "cas", "chain", "chain_full"}]
        /\ tail' \in [Actors -> Nodes \cup {None}]
        /\ todo' \in [Actors -> 0..SizeMax]
    <3> HIDE DEF TypeOK
    <3>1. /\ at \in [Actors -> {"ready", "cas", "chain", "chain_full"}]
          /\ tail \in [Actors -> Nodes \cup {None}]
          /\ todo \in [Actors -> 0..SizeMax]
      BY DEF TypeOK
    <3> QED
      BY <1>6, <2>1, <3>1
  <2> QED
    BY <1>6, <2>2, <2>3, <2>4 DEF TypeOK, tree
<1>8. Live' = {} /\ \A T \in SUBSET (Status \ {"queued", "idle"}) : In(T)' = {}
  BY <1>1, <1>3, <1>6 DEF Live, tree, In, Status
<1>9. Conservation' /\ CountBounded' /\ LastOK' /\ OwnerOK' /\ SeenOK'
  BY <1>8 DEF Conservation, CountBounded, LastOK, OwnerOK, SeenOK, Status, Joined
<1>10. Chaining' = {Main}
  BY <1>1, <1>2, <1>6 DEF Chaining, Actors, TypeOK
<1>11. NoDanglingNode'
  <2>1. In({"running", "climbing", "last"})' = {}
    BY <1>8 DEF Status
  <2>2. \A a \in Actors : buffer'[a] = <<>>
    BY <1>4, <1>6
  <2>3. tail'[Main] = None
    BY <1>1, <1>6 DEF TypeOK
  <2> QED
    BY <1>8, <1>10, <2>1, <2>2, <2>3 DEF NoDanglingNode
<1>12. Missing(Main)' = S
  BY <1>1, <1>8 DEF Missing, Status
<1>13. ChainOK'
  <2>1. Cardinality(Slots(buffer'[Main])) = 0
    BY <1>1, <1>4, <1>6, SlotsEmpty
  <2>2. at'[Main] = "chain" /\ tail'[Main] = None /\ todo'[Main] = Cardinality(S) - 1 /\ used' = 0
    BY <1>1, <1>6 DEF TypeOK, tree
  <2> QED
    BY <1>5, <1>10, <1>12, <2>1, <2>2 DEF ChainOK
<1>14. BufferMatchesCalls'
  <2> SUFFICES ASSUME NEW a \in Actors
               PROVE  /\ at'[a] = "ready" => Cardinality(Slots(buffer'[a])) = Cardinality(Missing(a)')
                      /\ buffer'[a] = <<>>
    BY DEF BufferMatchesCalls
  <2>1. buffer'[a] = <<>>
    BY <1>4, <1>6
  <2>2. at'[a] = "ready" => Missing(a)' = {}
    BY <1>1, <1>2, <1>6 DEF Missing, TypeOK
  <2> QED
    BY <2>1, <2>2, SlotsEmpty
<1>15. StartOK' /\ MemOK'
  BY <1>1, <1>6 DEF StartOK, MemOK, tree, TypeOK
<1>16. PendingOK' /\ CasOK'
  <2>1. /\ at'[Main] = "chain" /\ \A t \in Tasks : at'[t] = "ready" /\ pending'[t] = {}
        /\ \A a \in Actors : pending'[a] = IF a = Main THEN S ELSE {}
    BY <1>1, <1>2, <1>6 DEF TypeOK, Actors
  <2> QED
    BY <1>1, <2>1 DEF PendingOK, CasOK, In
<1> QED
  BY <1>7, <1>9, <1>11, <1>13, <1>14, <1>15, <1>16

\* The task sits in a node that is in order.
LEMMA HolderNode ==
  ASSUME IInv, NEW t \in Tasks, st[t] \in {"running", "climbing"}, at[t] # "chain_full"
  PROVE  /\ mod[t] \in Nodes /\ mod[t] \in Live /\ t \in Holders(mod[t])
         /\ count[mod[t]] \in 0..MAX_COUNT /\ ~AtZero(mod[t])
         /\ Tokens(mod[t]) = count[mod[t]] + 1
<1>1. mod[t] \in Live /\ t \in Holders(mod[t])
  BY DEF IInv, NoDanglingNode, In, Holders
<1>2. mod[t] \in Nodes
  BY <1>1 DEF Live
<1> QED
  BY <1>1, <1>2, TokenAlive

LEMMA CasFailsIInv ==
  ASSUME IInv, NEW t \in Tasks, CasFails(t)
  PROVE  IInv'
<1> USE DEF IInv
<1>1. at[t] = "cas" /\ st[t] = "running" /\ t \in Actors
  BY DEF CasFails, PendingOK, Actors
<1>2. count[mod[t]] \in 0..MAX_COUNT
  BY <1>1, HolderNode
<1>3. /\ current' = [current EXCEPT ![t] = count[mod[t]]]
      /\ UNCHANGED <<used, mem, parent, count, published, st, mod, view, pending, buffer, at, tail, todo, empty>>
  BY DEF CasFails, tree
<1>4. TypeOK'
  <2>1. count[mod[t]] \in 0..SizeMax
    BY <1>2, TreeAssumption
  <2> QED
    BY <1>3, <2>1 DEF TypeOK
<1>5. Conservation' /\ CountBounded' /\ NoDanglingNode' /\ LastOK'
  BY <1>3, TokensUnchanged DEF Chaining, In
<1>6. CasOK'
  BY <1>1, <1>2, <1>3 DEF CasOK, TypeOK
<1>7. BufferMatchesCalls' /\ ChainOK' /\ StartOK' /\ MemOK' /\ PendingOK' /\ OwnerOK' /\ SeenOK'
  <2>1. Chaining' = Chaining /\ Live' = Live /\ Idle' = Idle /\ \A T : In(T)' = In(T)
    BY <1>3 DEF Chaining, Live, Idle, In
  <2>2. \A a : Missing(a)' = Missing(a)
    BY <1>3, <2>1 DEF Missing
  <2>3. BufferMatchesCalls' /\ ChainOK'
    BY <1>3, <2>1, <2>2 DEF BufferMatchesCalls, ChainOK
  <2> QED
    BY <1>3, <2>1, <2>3 DEF StartOK, MemOK, PendingOK, OwnerOK, SeenOK
<1> QED
  BY <1>4, <1>5, <1>6, <1>7

LEMMA IncreaseLoadIInv ==
  ASSUME IInv, NEW t \in Tasks, NEW S \in SUBSET Tasks, IncreaseLoad(t, S)
  PROVE  IInv'
<1> USE DEF IInv
<1>1. /\ at[t] = "ready" /\ st[t] = "running" /\ t \in Actors /\ t # Main /\ pending[t] = {}
      /\ S \subseteq Tasks /\ \A u \in S : st[u] = "idle"
      /\ used # 0
  BY TreeAssumption DEF IncreaseLoad, Actors, Idle, In, StartOK
<1>2. count[mod[t]] \in 0..MAX_COUNT
  BY <1>1, HolderNode
<1>3. /\ st' = [u \in Tasks |-> IF u \in S THEN "queued" ELSE st[u]]
      /\ pending' = [pending EXCEPT ![t] = S]
      /\ current' = [current EXCEPT ![t] = count[mod[t]]]
      /\ at' = [at EXCEPT ![t] = "cas"]
      /\ UNCHANGED <<used, mem, parent, count, published, mod, view, buffer, tail, todo>>
  BY DEF IncreaseLoad, Enqueue, tree
<1>4. TypeOK'
  <2>1. count[mod[t]] \in 0..SizeMax
    BY <1>2, TreeAssumption
  <2>2. empty' \in 0..MaxEmpty
    BY TreeAssumption DEF IncreaseLoad, TypeOK
  <2> QED
    BY <1>1, <1>3, <2>1, <2>2 DEF TypeOK, Status
<1>5. \A T \in SUBSET (Status \ {"idle", "queued"}) : In(T)' = In(T)
  BY <1>1, <1>3 DEF In, Status
<1>6. Chaining' = Chaining
  BY <1>1, <1>3 DEF Chaining, TypeOK
<1>7. Conservation' /\ CountBounded' /\ NoDanglingNode' /\ LastOK'
  <2>1. In({"running", "climbing"})' = In({"running", "climbing"}) /\ In({"last"})' = In({"last"})
    BY <1>5 DEF Status
  <2>2. \A u \in Tasks : at'[u] = "chain_full" <=> at[u] = "chain_full"
    BY <1>1, <1>3 DEF TypeOK
  <2> QED
    BY <1>3, <1>6, <2>1, <2>2, TokensUnchanged
<1>8. buffer[t] = <<>>
  <2>1. Cardinality(Slots(buffer[t])) = 0 /\ Filled(buffer[t])
    <3>1. Missing(t) = {}
      BY <1>1 DEF Missing
    <3> QED
      BY <1>1, <3>1, FS_EmptySet DEF BufferMatchesCalls, Filled
  <2> QED
    BY <1>1, <2>1, BufferType, FilledSlots
<1>9. \A a \in Actors \ {t} : Missing(a)' = Missing(a) /\ at'[a] = at[a]
  BY <1>1, <1>3, <1>5 DEF Missing, TypeOK, Status
<1>10. BufferMatchesCalls'
  BY <1>1, <1>3, <1>9 DEF BufferMatchesCalls, TypeOK
<1>11. ChainOK'
  <2>1. t \notin Chaining
    BY <1>1 DEF Chaining
  <2> QED
    BY <1>3, <1>6, <1>9, <2>1 DEF ChainOK, Chaining
<1>12. CasOK'
  BY <1>1, <1>2, <1>3, <1>8 DEF CasOK, TypeOK
<1>13. StartOK' /\ MemOK'
  BY <1>1, <1>3 DEF StartOK, MemOK
<1>14. PendingOK'
  <2>1. t \notin S /\ \A a \in Actors : pending[a] \cap S = {}
    BY <1>1 DEF PendingOK
  <2> QED
    BY <1>1, <1>3, <2>1 DEF PendingOK, TypeOK, In
<1>15. OwnerOK' /\ SeenOK'
  BY <1>1, <1>3, <1>5 DEF OwnerOK, SeenOK, Live, Status, Joined, In
<1> QED
  BY <1>4, <1>7, <1>10, <1>11, <1>12, <1>13, <1>14, <1>15

LEMMA IncreaseFullIInv ==
  ASSUME IInv, NEW t \in Tasks, IncreaseFull(t)
  PROVE  IInv'
<1> USE DEF IInv
<1> DEFINE n == mod[t]
<1>1. /\ at[t] = "cas" /\ st[t] = "running" /\ t \in Actors /\ t # Main /\ used # 0
      /\ buffer[t] = <<>> /\ pending[t] \subseteq Tasks
  BY TreeAssumption DEF IncreaseFull, PendingOK, Actors, CasOK, StartOK, TypeOK
<1>2. n \in Nodes /\ n \in Live /\ t \in Holders(n)
  BY <1>1, HolderNode
<1>3. /\ at' = [at EXCEPT ![t] = "chain_full"] /\ tail' = [tail EXCEPT ![t] = n]
      /\ todo' = [todo EXCEPT ![t] = Cardinality(pending[t])]
      /\ UNCHANGED <<used, mem, parent, count, published, st, mod, view, pending, buffer, current, empty>>
  BY DEF IncreaseFull, StartChain, tree
<1>4. /\ IsFiniteSet(pending[t]) /\ Cardinality(pending[t]) \in Nat
      /\ Cardinality(pending[t]) <= SizeMax
  BY <1>1, FS_Subset, FS_CardinalityType, TreeAssumption
<1>5. TypeOK'
  <2>1. Cardinality(pending[t]) \in 0..SizeMax
    BY <1>4, TreeAssumption
  <2> QED
    BY <1>1, <1>2, <1>3, <2>1 DEF TypeOK
<1>6. /\ Chaining' = Chaining \cup {t} /\ t \notin Chaining
      /\ \A T : In(T)' = In(T)
      /\ Live' = Live
  BY <1>1, <1>3 DEF Chaining, TypeOK, In, Live
<1>7. ASSUME NEW m
      PROVE  Tokens(m)' = Tokens(m)
  <2>1. InBuffers(m)' = InBuffers(m) /\ Children(m)' = Children(m)
    BY <1>3, <1>6 DEF InBuffers, Children
  <2>2. CASE m = n
    <3>1. Holders(m)' = Holders(m) \ {t}
      BY <1>1, <1>3, <1>6, <2>2 DEF Holders, TypeOK, In
    <3>2. Chains(m)' = Chains(m) \cup {t} /\ t \notin Chains(m)
      BY <1>1, <1>3, <1>6, <2>2 DEF Chains, TypeOK, Chaining
    <3>3. Cardinality(Holders(m) \ {t}) = Cardinality(Holders(m)) - 1
      BY <1>2, <2>2, TokensFinite, FS_RemoveElement
    <3>4. Cardinality(Chains(m) \cup {t}) = Cardinality(Chains(m)) + 1
      BY <3>2, TokensFinite, FS_AddElement
    <3>5. /\ Cardinality(Holders(m)) \in Nat /\ Cardinality(Chains(m)) \in Nat
          /\ Cardinality(InBuffers(m)) \in Nat /\ Cardinality(Children(m)) \in Nat
      BY TokensFinite
    <3> QED
      BY <2>1, <3>1, <3>2, <3>3, <3>4, <3>5 DEF Tokens
  <2>3. CASE m # n
    <3>1. Holders(m)' = Holders(m)
      BY <1>1, <1>3, <1>6, <2>3 DEF Holders, TypeOK, In
    <3>2. Chains(m)' = Chains(m)
      BY <1>1, <1>3, <1>6, <2>3 DEF Chains, TypeOK, Chaining
    <3> QED
      BY <2>1, <3>1, <3>2 DEF Tokens
  <2> QED
    BY <2>2, <2>3
<1>8. Conservation' /\ CountBounded' /\ LastOK'
  BY <1>3, <1>6, <1>7 DEF Conservation, CountBounded, LastOK
<1>9. NoDanglingNode'
  BY <1>1, <1>2, <1>3, <1>6 DEF NoDanglingNode, TypeOK, Chaining
<1>10. \A a \in Actors : Missing(a)' = Missing(a)
  BY <1>3, <1>6 DEF Missing
<1>11. BufferMatchesCalls' /\ CasOK'
  BY <1>1, <1>3, <1>10 DEF BufferMatchesCalls, CasOK, TypeOK
<1>12. ChainOK'
  <2> SUFFICES ASSUME NEW a \in Chaining'
               PROVE  /\ tail'[a] = None <=> used' = 0
                      /\ Cardinality(Slots(buffer'[a])) + todo'[a] + (IF at'[a] = "chain" THEN 1 ELSE 0)
                           = Cardinality(Missing(a)')
                      /\ at'[a] = "chain_full" =>
                           IF buffer'[a] = <<>> THEN tail'[a] = mod'[a]
                                                ELSE parent'[buffer'[a][1].node] = mod'[a]
    BY DEF ChainOK
  <2>1. CASE a = t
    <3>1. Cardinality(Slots(buffer[t])) = 0 /\ Missing(t) = pending[t]
      BY <1>1, SlotsEmpty DEF Missing
    <3>2. at'[t] = "chain_full" /\ tail'[t] = n /\ todo'[t] = Cardinality(pending[t])
      BY <1>1, <1>3 DEF TypeOK
    <3>3. n # None
      BY <1>2, TreeAssumption DEF Nodes
    <3> QED
      BY <1>1, <1>3, <1>4, <1>10, <2>1, <3>1, <3>2, <3>3
  <2>2. CASE a # t
    <3>1. a \in Chaining /\ a \in Actors /\ at'[a] = at[a] /\ tail'[a] = tail[a] /\ todo'[a] = todo[a]
      BY <1>3, <1>6, <2>2 DEF TypeOK, Chaining
    <3> QED
      BY <1>3, <1>10, <3>1 DEF ChainOK
  <2> QED
    BY <2>1, <2>2
<1>13. StartOK' /\ MemOK' /\ OwnerOK' /\ SeenOK'
  BY <1>1, <1>3, <1>6 DEF StartOK, MemOK, OwnerOK, SeenOK, TypeOK
<1>14. PendingOK'
  BY <1>1, <1>3, <1>6 DEF PendingOK, TypeOK
<1> QED
  BY <1>5, <1>8, <1>9, <1>11, <1>12, <1>13, <1>14

LEMMA MissingFinite ==
  ASSUME TypeOK, NEW a \in Actors
  PROVE  /\ IsFiniteSet(Missing(a)) /\ Cardinality(Missing(a)) \in Nat
         /\ Cardinality(Missing(a)) <= SizeMax
<1>1. Missing(a) \in SUBSET Tasks
  BY DEF TypeOK, Missing, In
<1>2. IsFiniteSet(Missing(a)) /\ Cardinality(Missing(a)) <= Cardinality(Tasks)
  BY <1>1, FS_Subset, TreeAssumption
<1> QED
  BY <1>2, FS_CardinalityType, TreeAssumption

LEMMA LaunchIInv ==
  ASSUME IInv, NEW a \in Actors, NEW t \in Tasks, Launch(a, t)
  PROVE  IInv'
<1> USE DEF IInv
<1> DEFINE b == buffer[a]
           top == Top(b)
<1>1. /\ st[t] = "queued" /\ at[a] = "ready" /\ t \in pending[a] /\ t \in Actors
      /\ at[t] = "ready" /\ pending[t] = {} /\ t # a /\ t # Main /\ b # <<>>
  BY TreeAssumption DEF Launch, PendingOK, Actors
<1>2. b \in Seq(Entry) /\ Filled(b)
  BY BufferType DEF BufferMatchesCalls, Filled
<1>3. /\ top \in Nodes
      /\ Fetched(b) \in Seq(Entry) /\ Filled(Fetched(b))
      /\ Len(Fetched(b)) \in {Len(b), Len(b) - 1}
      /\ \A i \in 1..Len(Fetched(b)) : Fetched(b)[i].node = b[i].node
      /\ Cardinality(Slots(Fetched(b))) = Cardinality(Slots(b)) - 1
      /\ \A m : Cardinality(SlotsAt(Fetched(b), m))
                  = Cardinality(SlotsAt(b, m)) - (IF m = top THEN 1 ELSE 0)
  BY <1>1, <1>2, FetchSlots
<1>4. top \in Live
  <2>1. Len(b) \in 1..Len(b) /\ Len(b) \in DOMAIN b
    BY <1>1, <1>2, EmptySeq, LenProperties
  <2> QED
    BY <2>1 DEF NoDanglingNode, Top, Last
<1>5. /\ pending' = [pending EXCEPT ![a] = @ \ {t}] /\ mod' = [mod EXCEPT ![t] = top]
      /\ buffer' = [buffer EXCEPT ![a] = Fetched(b)] /\ st' = [st EXCEPT ![t] = "running"]
      /\ view' = [view EXCEPT ![t] = view[a]]
      /\ UNCHANGED <<used, mem, parent, count, published, at, current, tail, todo, empty>>
  BY DEF Launch, tree, locals
<1> HIDE DEF top
<1>6. TypeOK'
  BY <1>1, <1>3, <1>5 DEF TypeOK, Status, Entry
<1>7. /\ \A T \in SUBSET (Status \ {"running", "queued"}) : In(T)' = In(T)
      /\ Live' = Live /\ Chaining' = Chaining /\ t \notin Chaining
  BY <1>1, <1>5 DEF In, Status, TypeOK, Live, Chaining
<1>8. /\ \A c \in Actors \ {a} : buffer'[c] = buffer[c] /\ pending'[c] = pending[c]
      /\ buffer'[a] = Fetched(b)
  BY <1>5 DEF TypeOK
<1>9. ASSUME NEW m
      PROVE  Tokens(m)' = Tokens(m)
  <2>1. Children(m)' = Children(m) /\ Chains(m)' = Chains(m)
    BY <1>5, <1>7 DEF Children, Chains
  <2>2. Cardinality(InBuffers(m)') = Cardinality(InBuffers(m)) - Cardinality(SlotsAt(b, m))
                                       + Cardinality(SlotsAt(Fetched(b), m))
    BY <1>3, <1>5, BufferChange
  <2>3. Cardinality(SlotsAt(b, m)) \in Nat /\ Cardinality(InBuffers(m)) \in Nat
    BY <1>2, SlotsFinite, TokensFinite
  <2>4. /\ Cardinality(Holders(m)) \in Nat /\ Cardinality(Children(m)) \in Nat
        /\ Cardinality(Chains(m)) \in Nat /\ IsFiniteSet(Holders(m))
    BY TokensFinite
  <2>5. CASE m = top
    <3>1. Holders(m)' = Holders(m) \cup {t} /\ t \notin Holders(m)
      BY <1>1, <1>5, <2>5 DEF Holders, In, TypeOK
    <3>2. Cardinality(Holders(m)') = Cardinality(Holders(m)) + 1
      BY <2>4, <3>1, FS_AddElement
    <3>3. Cardinality(InBuffers(m)') = Cardinality(InBuffers(m)) - 1
      BY <1>3, <2>2, <2>3, <2>5
    <3> QED
      BY <2>1, <2>3, <2>4, <3>2, <3>3 DEF Tokens
  <2>6. CASE m # top
    <3>1. Holders(m)' = Holders(m)
      BY <1>1, <1>5, <2>6 DEF Holders, In, TypeOK
    <3>2. Cardinality(InBuffers(m)') = Cardinality(InBuffers(m))
      BY <1>3, <2>2, <2>3, <2>6
    <3> QED
      BY <2>1, <3>1, <3>2 DEF Tokens
  <2> QED
    BY <2>5, <2>6
<1>10. Conservation' /\ CountBounded' /\ LastOK'
  <2>1. In({"last"})' = In({"last"}) /\ t \notin In({"last"})
    BY <1>1, <1>7 DEF Status, In
  <2>2. \A u \in In({"last"}) : mod'[u] = mod[u]
    BY <1>5, <2>1 DEF TypeOK, In
  <2> QED
    BY <1>5, <1>7, <1>9, <2>1, <2>2 DEF Conservation, CountBounded, LastOK
<1>11. NoDanglingNode'
  <2>1. \A u \in In({"running", "climbing", "last"})' : mod'[u] \in Live'
    BY <1>1, <1>4, <1>5, <1>7 DEF NoDanglingNode, In, TypeOK
  <2>2. ASSUME NEW c \in Actors, NEW i \in DOMAIN buffer'[c]
        PROVE  buffer'[c][i].node \in Live'
    <3>1. CASE c = a
      <4>1. DOMAIN Fetched(b) = 1..Len(Fetched(b)) /\ DOMAIN b = 1..Len(b)
            /\ Len(b) \in Nat
        BY <1>2, <1>3, LenProperties
      <4>2. i \in 1..Len(Fetched(b)) /\ buffer'[c][i] = Fetched(b)[i]
        BY <1>8, <2>2, <3>1, <4>1
      <4>3. i \in DOMAIN b
        BY <1>3, <4>1, <4>2
      <4>4. b[i].node \in Live
        BY <4>3 DEF NoDanglingNode
      <4> QED
        BY <1>3, <1>7, <4>2, <4>4
    <3>2. CASE c # a
      BY <1>7, <1>8, <2>2, <3>2 DEF NoDanglingNode
    <3> QED
      BY <3>1, <3>2
  <2> QED
    BY <1>5, <1>7, <2>1, <2>2 DEF NoDanglingNode
<1>12. /\ Missing(a)' = Missing(a) \ {t} /\ t \in Missing(a)
       /\ \A c \in Actors \ {a} : Missing(c)' = Missing(c)
  <2>1. In({"lost"})' = In({"lost"}) /\ t \notin In({"lost"})
    BY <1>1, <1>7 DEF Status, In
  <2> QED
    BY <1>1, <1>5, <2>1 DEF Missing, TypeOK
<1>13. BufferMatchesCalls'
  <2>1. Cardinality(Missing(a)') = Cardinality(Missing(a)) - 1
    BY <1>12, MissingFinite, FS_RemoveElement
  <2>2. Cardinality(Slots(buffer'[a])) = Cardinality(Missing(a)')
    BY <1>1, <1>3, <1>8, <2>1 DEF BufferMatchesCalls
  <2>3. \A c \in Actors \ {a} :
          /\ at'[c] = "ready" => Cardinality(Slots(buffer'[c])) = Cardinality(Missing(c)')
          /\ \A i \in DOMAIN buffer'[c] : buffer'[c][i].num > 0
    BY <1>5, <1>8, <1>12 DEF BufferMatchesCalls
  <2>4. \A i \in DOMAIN buffer'[a] : buffer'[a][i].num > 0
    BY <1>3, <1>8 DEF Filled
  <2> QED
    BY <2>2, <2>3, <2>4 DEF BufferMatchesCalls
<1>14. ChainOK'
  <2> SUFFICES ASSUME NEW c \in Chaining'
               PROVE  /\ tail'[c] = None <=> used' = 0
                      /\ Cardinality(Slots(buffer'[c])) + todo'[c] + (IF at'[c] = "chain" THEN 1 ELSE 0)
                           = Cardinality(Missing(c)')
                      /\ at'[c] = "chain_full" =>
                           IF buffer'[c] = <<>> THEN tail'[c] = mod'[c]
                                                ELSE parent'[buffer'[c][1].node] = mod'[c]
    BY DEF ChainOK
  <2>1. c \in Chaining /\ c \in Actors /\ c # a /\ c # t
    BY <1>1, <1>7 DEF Chaining
  <2>2. mod'[c] = mod[c]
    BY <1>5, <2>1
  <2> QED
    BY <1>5, <1>8, <1>12, <2>1, <2>2 DEF ChainOK
<1>15. StartOK'
  <2>1. used # 0
    BY <1>1, <1>4 DEF MemOK, Live, Nodes, TypeOK
  <2> QED
    BY <1>5, <2>1 DEF StartOK
<1>16. MemOK' /\ CasOK'
  BY <1>1, <1>5, <1>8 DEF MemOK, CasOK, Actors
<1>17. PendingOK'
  <2>1. /\ st'[t] = "running" /\ \A u \in Tasks \ {t} : st'[u] = st[u]
        /\ pending'[a] = pending[a] \ {t} /\ \A c \in Actors : t \in pending[c] => c = a
    BY <1>1, <1>5 DEF TypeOK, PendingOK
  <2>2. \A c \in Actors : \A u \in pending'[c] : st'[u] = "queued"
    <3> SUFFICES ASSUME NEW c \in Actors, NEW u \in pending'[c] PROVE st'[u] = "queued"
      OBVIOUS
    <3>1. u \in pending[c] /\ u # t /\ u \in Tasks
      BY <1>8, <2>1 DEF TypeOK
    <3> QED
      BY <2>1, <3>1 DEF PendingOK
  <2>3. \A u \in In({"queued"})' : \E c \in Actors : u \in pending'[c]
    BY <1>8, <2>1 DEF PendingOK, In
  <2>4. \A u \in Tasks : pending'[u] # {} \/ at'[u] # "ready" => st'[u] = "running"
    BY <1>5, <1>8, <2>1 DEF PendingOK, Actors
  <2>5. \A c, d \in Actors : c # d => pending'[c] \cap pending'[d] = {}
    BY <1>8, <2>1 DEF PendingOK
  <2> QED
    BY <1>5, <2>2, <2>3, <2>4, <2>5 DEF PendingOK
<1>18. OwnerOK' /\ SeenOK'
  <2>1. OwnerOK'
    <3>1. In({"owner", "called"})' = In({"owner", "called"})
      BY <1>7 DEF Status
    <3>2. In({"owner", "called"}) = {}
      BY <1>1 DEF OwnerOK, In
    <3> QED
      BY <3>1, <3>2 DEF OwnerOK
  <2>2. SeenOK'
    <3>1. In(Joined)' = In(Joined) /\ In(Joined \ {"joined"})' = In(Joined \ {"joined"})
      BY <1>7 DEF Status, Joined
    <3>2. \A u \in In(Joined \ {"joined"}) : view'[u] = view[u]
      BY <1>1, <1>5 DEF In, Joined, TypeOK, Actors
    <3> QED
      BY <1>5, <1>7, <3>1, <3>2 DEF SeenOK
  <2> QED
    BY <2>1, <2>2
<1> QED
  BY <1>6, <1>10, <1>11, <1>13, <1>14, <1>15, <1>16, <1>17, <1>18

LEMMA CasSucceedsIInv ==
  ASSUME IInv, NEW t \in Tasks, CasSucceeds(t)
  PROVE  IInv'
<1> USE DEF IInv
<1> DEFINE k == Cardinality(pending[t])
           inc == Increased(k, current[t])
           fits == inc = k
           b == buffer'[t]
           x == IF fits THEN inc ELSE inc - 1
<1>1. /\ at[t] = "cas" /\ st[t] = "running" /\ t \in Actors /\ t # Main /\ used # 0
      /\ buffer[t] = <<>> /\ pending[t] \subseteq Tasks /\ Missing(t) = pending[t]
      /\ current[t] = count[mod[t]] /\ current[t] # MAX_COUNT
  BY TreeAssumption DEF CasSucceeds, CasMatches, PendingOK, Actors, CasOK, StartOK, TypeOK, Missing
<1>0. PICK n \in Nodes : n = mod[t]
  BY <1>1, HolderNode
<1>2. /\ n = mod[t] /\ n \in Live /\ t \in Holders(n) /\ n # None /\ ~AtZero(n)
      /\ count[n] \in 0..MAX_COUNT /\ Tokens(n) = count[n] + 1
  BY <1>0, <1>1, HolderNode, TreeAssumption DEF Nodes
<1>3. k \in Nat /\ k <= SizeMax
  BY <1>1, FS_Subset, FS_CardinalityType, TreeAssumption
<1>4. /\ inc \in 0..k /\ count[n] + inc \in 0..MAX_COUNT
      /\ ~fits => inc = MAX_COUNT - count[n] /\ inc > 0 /\ inc < k
      /\ x \in 0..SizeMax /\ k - inc \in 0..SizeMax
  <2>1. inc = IF k < MAX_COUNT - count[n] THEN k ELSE MAX_COUNT - count[n]
    BY <1>0, <1>1 DEF Increased
  <2>2. x = IF inc = k THEN inc ELSE inc - 1
    OBVIOUS
  <2>3. count[n] \in Nat /\ MAX_COUNT \in Nat /\ count[n] < MAX_COUNT /\ SizeMax \in Nat
    BY <1>1, <1>2, TreeAssumption
  <2> HIDE DEF k, inc, x
  <2> QED
    BY <1>3, <2>1, <2>2, <2>3
<1>5. /\ count' = [count EXCEPT ![n] = count[n] + inc]
      /\ UNCHANGED <<used, mem, parent, published, st, mod, view, pending, current, empty>>
  BY <1>0, <1>1 DEF CasSucceeds
<1>6. /\ fits => /\ buffer' = [buffer EXCEPT ![t] = IF k = 0 THEN <<>> ELSE Push(<<>>, inc, n)]
                 /\ at' = [at EXCEPT ![t] = "ready"] /\ UNCHANGED <<tail, todo>>
      /\ ~fits => /\ buffer' = [buffer EXCEPT ![t] = Kept(inc, n)]
                  /\ at' = [at EXCEPT ![t] = "chain"] /\ tail' = [tail EXCEPT ![t] = n]
                  /\ todo' = [todo EXCEPT ![t] = k - inc]
  <2>1. pending[t] = {} <=> k = 0
    BY <1>1, FS_Subset, FS_EmptySet, TreeAssumption
  <2> HIDE DEF k
  <2>2. InScope(pending[t], Push(<<>>, inc, n)) = IF k = 0 THEN <<>> ELSE Push(<<>>, inc, n)
    BY <2>1 DEF InScope
  <2> USE DEF k
  <2> QED
    BY <1>0, <2>2 DEF CasSucceeds, StartChain
<1> HIDE DEF inc, fits, x
<1>7. b = IF x = 0 THEN <<>> ELSE Push(<<>>, x, n)
  <2>1. buffer \in [Actors -> Seq(Entry)]
    BY DEF TypeOK, Entry
  <2>2. CASE fits
    BY <1>1, <1>3, <1>4, <1>6, <2>1, <2>2 DEF x, fits
  <2>3. CASE ~fits
    BY <1>1, <1>3, <1>4, <1>6, <2>1, <2>3 DEF x, Kept
  <2> QED
    BY <2>2, <2>3
<1> HIDE DEF b
<1>8. /\ b \in Seq(Entry) /\ \A i \in DOMAIN b : b[i].node = n /\ b[i].num > 0
      /\ Cardinality(Slots(b)) = x
      /\ \A m : Cardinality(SlotsAt(b, m)) = IF m = n THEN x ELSE 0
  <2>1. CASE x = 0
    <3>1. b = <<>> /\ DOMAIN b = {}
      BY <1>7, <2>1
    <3> QED
      BY <2>1, <3>1, SlotsEmpty
  <2>2. CASE x # 0
    <3>1. PICK e \in Seq(Entry) : e = <<>>
      BY SlotsEmpty
    <3>2. /\ b \in Seq(Entry) /\ Len(b) = 1 /\ b[1] = [num |-> x, node |-> n]
          /\ Cardinality(Slots(b)) = x
          /\ \A m : Cardinality(SlotsAt(b, m)) = IF m = n THEN x ELSE 0
      <4>1. b = Push(e, x, n) /\ Len(e) = 0
        BY <1>7, <2>2, <3>1
      <4>2. /\ b \in Seq(Entry) /\ Len(b) = Len(e) + 1 /\ b[Len(e) + 1] = [num |-> x, node |-> n]
            /\ Cardinality(Slots(b)) = Cardinality(Slots(e)) + x
            /\ Cardinality(SlotsAt(b, n)) = Cardinality(SlotsAt(e, n)) + x
            /\ \A m : m # n => Cardinality(SlotsAt(b, m)) = Cardinality(SlotsAt(e, m))
        <5>1. e \in Seq(Entry) /\ x \in 0..SizeMax /\ n \in Nodes
          BY <1>4
        <5>2. /\ Push(e, x, n) \in Seq(Entry)
              /\ Len(Push(e, x, n)) = Len(e) + 1
              /\ Push(e, x, n)[Len(e) + 1] = [num |-> x, node |-> n]
              /\ Cardinality(Slots(Push(e, x, n))) = Cardinality(Slots(e)) + x
          BY <5>1, PushSeq, PushSlots
        <5>3. /\ Cardinality(SlotsAt(Push(e, x, n), n)) = Cardinality(SlotsAt(e, n)) + x
              /\ \A m : m # n => Cardinality(SlotsAt(Push(e, x, n), m)) = Cardinality(SlotsAt(e, m))
          BY <5>1, PushSlots
        <5> QED
          BY <4>1, <5>2, <5>3
      <4>3. Cardinality(Slots(e)) = 0 /\ \A m : Cardinality(SlotsAt(e, m)) = 0
        BY <3>1, SlotsEmpty
      <4>4. x \in Nat
        BY <1>4, TreeAssumption
      <4> QED
        BY <4>1, <4>2, <4>3, <4>4
    <3>3. DOMAIN b = {1}
      BY <3>2
    <3>4. x \in Nat /\ x > 0
      BY <1>4, <2>2, TreeAssumption
    <3> QED
      BY <3>2, <3>3, <3>4
  <2> QED
    BY <2>1, <2>2
<1>9. /\ buffer' = [buffer EXCEPT ![t] = b]
      /\ \A c \in Actors \ {t} : buffer'[c] = buffer[c] /\ at'[c] = at[c] /\ tail'[c] = tail[c] /\ todo'[c] = todo[c]
      /\ at'[t] = (IF fits THEN "ready" ELSE "chain")
      /\ ~fits => tail'[t] = n /\ todo'[t] = k - inc
  <2>1. buffer \in [Actors -> Seq(Entry)]
    BY DEF TypeOK, Entry
  <2> QED
    BY <1>1, <1>6, <2>1 DEF TypeOK, b
<1>10. TypeOK'
  <2>1. count[n] + inc \in 0..SizeMax
    BY <1>4, TreeAssumption
  <2>2. /\ at' \in [Actors -> {"ready", "cas", "chain", "chain_full"}]
        /\ tail' \in [Actors -> Nodes \cup {None}]
        /\ todo' \in [Actors -> 0..SizeMax]
    <3>1. CASE fits
      BY <1>1, <1>6, <3>1 DEF TypeOK
    <3>2. CASE ~fits
      <4>1. n \in Nodes \cup {None} /\ k - inc \in 0..SizeMax
        BY <1>2, <1>4
      <4>2. tail' \in [Actors -> Nodes \cup {None}]
        BY <1>6, <3>2, <4>1 DEF TypeOK
      <4>3. todo' \in [Actors -> 0..SizeMax]
        BY <1>6, <3>2, <4>1 DEF TypeOK
      <4> QED
        BY <1>6, <3>2, <4>2, <4>3 DEF TypeOK
    <3> QED
      BY <3>1, <3>2
  <2>3. buffer' \in [Actors -> Seq(Entry)]
    BY <1>8, <1>9 DEF TypeOK, Entry
  <2> QED
    BY <1>5, <2>1, <2>2, <2>3 DEF TypeOK, Entry
<1>11. /\ \A T : In(T)' = In(T)
       /\ Live' = Live /\ \A c : Missing(c)' = Missing(c)
  BY <1>5 DEF In, Live, Missing
<1>12. Chaining' = (IF fits THEN Chaining ELSE Chaining \cup {t}) /\ t \notin Chaining
  BY <1>1, <1>9 DEF Chaining
<1>13. ASSUME NEW m
       PROVE  Tokens(m)' = Tokens(m) + (IF m = n THEN inc ELSE 0)
  <2>1. Children(m)' = Children(m)
    BY <1>5, <1>11 DEF Children
  <2>2. Holders(m)' = Holders(m)
    <3>1. \A u \in Tasks : at'[u] # "chain_full" <=> at[u] # "chain_full"
      BY <1>1, <1>9 DEF Actors
    <3>2. In({"running", "climbing"}) \subseteq Tasks
      BY DEF In
    <3> QED
      BY <1>5, <1>11, <3>1, <3>2 DEF Holders
  <2>3. Cardinality(InBuffers(m)') = Cardinality(InBuffers(m)) + (IF m = n THEN x ELSE 0)
    <3>1. Cardinality(InBuffers(m)')
            = Cardinality(InBuffers(m)) - Cardinality(SlotsAt(buffer[t], m)) + Cardinality(SlotsAt(b, m))
      BY <1>1, <1>8, <1>9, BufferChange
    <3>2. Cardinality(SlotsAt(buffer[t], m)) = 0
      BY <1>1, SlotsEmpty
    <3> QED
      BY <1>4, <1>8, <3>1, <3>2, TokensFinite
  <2>4. /\ Cardinality(Holders(m)) \in Nat /\ Cardinality(Children(m)) \in Nat
        /\ Cardinality(Chains(m)) \in Nat /\ IsFiniteSet(Chains(m)) /\ Cardinality(InBuffers(m)) \in Nat
    BY TokensFinite
  <2>5. CASE m = n /\ ~fits
    <3>1. Chains(m)' = Chains(m) \cup {t} /\ t \notin Chains(m)
      BY <1>1, <1>9, <1>12, <2>5 DEF Chains, Chaining
    <3>2. Cardinality(Chains(m)') = Cardinality(Chains(m)) + 1
      BY <2>4, <3>1, FS_AddElement
    <3> QED
      BY <1>4, <2>1, <2>2, <2>3, <2>4, <2>5, <3>2 DEF Tokens, x
  <2>6. CASE m # n \/ fits
    <3>1. Chains(m)' = Chains(m)
      BY <1>1, <1>9, <1>12, <2>6 DEF Chains, Chaining
    <3> QED
      BY <1>4, <2>1, <2>2, <2>3, <2>4, <2>6, <3>1 DEF Tokens, x
  <2> QED
    BY <2>5, <2>6
<1>14. Conservation' /\ CountBounded'
  <2>1. /\ count'[n] = count[n] + inc /\ \A m \in Nodes \ {n} : count'[m] = count[m]
        /\ count[n] + inc <= MAX_COUNT
    BY <1>2, <1>4, <1>5, TreeAssumption DEF TypeOK
  <2>2. Tokens(n)' = count[n] + 1 + inc
    <3>1. Tokens(n)' = Tokens(n) + inc
      BY <1>13
    <3> QED
      BY <1>2, <1>3, <1>4, <3>1, TreeAssumption
  <2>3. \A m \in Nodes \ {n} : Tokens(m)' = Tokens(m)
    <3>1. \A m : Cardinality(Holders(m)) \in Nat /\ Cardinality(InBuffers(m)) \in Nat
                   /\ Cardinality(Children(m)) \in Nat /\ Cardinality(Chains(m)) \in Nat
      BY TokensFinite
    <3>2. \A m : Tokens(m) \in Nat
      BY <3>1 DEF Tokens
    <3> QED
      BY <1>13, <3>2
  <2>4. Conservation'
    <3> SUFFICES ASSUME NEW m \in Live'
                 PROVE  Tokens(m)' = IF \E u \in In({"last"})' : mod'[u] = m THEN 0 ELSE count'[m] + 1
      BY DEF Conservation
    <3>1. m \in Live /\ m \in Nodes
      BY <1>11 DEF Live
    <3>2. CASE m = n
      <4>1. ~\E u \in In({"last"})' : mod'[u] = n
        BY <1>2, <1>5, <1>11 DEF AtZero
      <4>2. count[n] \in Nat /\ inc \in Nat
        BY <1>2, <1>3, <1>4, TreeAssumption
      <4>3. count[n] + 1 + inc = count'[n] + 1
        BY <2>1, <4>2
      <4> QED
        BY <2>2, <3>2, <4>1, <4>3
    <3>3. CASE m # n
      BY <1>5, <1>11, <2>1, <2>3, <3>1, <3>3 DEF Conservation
    <3> QED
      BY <3>2, <3>3
  <2>5. CountBounded'
    BY <1>5, <1>11, <2>1 DEF CountBounded, Live
  <2> QED
    BY <2>4, <2>5
<1>15. LastOK' /\ MemOK' /\ StartOK'
  BY <1>1, <1>5, <1>11 DEF LastOK, MemOK, StartOK
<1>16. NoDanglingNode'
  <2>1. \A c \in Actors : \A i \in DOMAIN buffer'[c] : buffer'[c][i].node \in Live'
    BY <1>2, <1>8, <1>9, <1>11 DEF NoDanglingNode, b
  <2>2. \A c \in Chaining' : tail'[c] = None \/ tail'[c] \in Live'
    BY <1>2, <1>9, <1>11, <1>12 DEF NoDanglingNode, Chaining
  <2> QED
    BY <1>5, <1>11, <2>1, <2>2 DEF NoDanglingNode
<1>17. BufferMatchesCalls'
  <2>1. at'[t] = "ready" => Cardinality(Slots(buffer'[t])) = Cardinality(Missing(t)')
    BY <1>1, <1>8, <1>9, <1>11 DEF x, fits, b
  <2> QED
    BY <1>8, <1>9, <1>11, <2>1 DEF BufferMatchesCalls, b
<1>18. CasOK'
  BY <1>5, <1>9 DEF CasOK, Actors
<1>19. ChainOK'
  <2> SUFFICES ASSUME NEW a \in Chaining'
               PROVE  /\ tail'[a] = None <=> used' = 0
                      /\ Cardinality(Slots(buffer'[a])) + todo'[a] + (IF at'[a] = "chain" THEN 1 ELSE 0)
                           = Cardinality(Missing(a)')
                      /\ at'[a] = "chain_full" =>
                           IF buffer'[a] = <<>> THEN tail'[a] = mod'[a]
                                                ELSE parent'[buffer'[a][1].node] = mod'[a]
    BY DEF ChainOK
  <2>1. CASE a = t
    <3>1. ~fits
      BY <1>12, <2>1
    <3>2. Cardinality(Missing(t)') = k
      BY <1>1, <1>11
    <3>3. Cardinality(Slots(buffer'[t])) = inc - 1 /\ todo'[t] = k - inc
      BY <1>8, <1>9, <3>1 DEF x, b
    <3> QED
      <4>1. /\ tail'[t] # None /\ used' # 0 /\ at'[t] = "chain"
        BY <1>1, <1>2, <1>5, <1>9, <3>1
      <4>2. Cardinality(Slots(buffer'[t])) + todo'[t] + 1 = k
        BY <1>3, <1>4, <3>3
      <4> QED
        BY <2>1, <3>2, <4>1, <4>2
  <2>2. CASE a # t
    <3>1. a \in Chaining /\ a \in Actors
      BY <1>12, <2>2 DEF Chaining
    <3> QED
      BY <1>5, <1>9, <1>11, <2>2, <3>1 DEF ChainOK
  <2> QED
    BY <2>1, <2>2
<1>20. PendingOK' /\ OwnerOK' /\ SeenOK'
  <2>1. PendingOK'
    BY <1>1, <1>5, <1>9, <1>11 DEF PendingOK, Actors
  <2>2. OwnerOK' /\ SeenOK'
    BY <1>5, <1>11 DEF OwnerOK, SeenOK
  <2> QED
    BY <2>1, <2>2
<1> QED
  BY <1>10, <1>14, <1>15, <1>16, <1>17, <1>18, <1>19, <1>20

LEMMA FetchSubIInv ==
  ASSUME IInv, NEW t \in Tasks, FetchSub(t)
  PROVE  IInv'
<1> USE DEF IInv
<1>1. /\ st[t] \in {"running", "climbing"} /\ at[t] = "ready" /\ pending[t] = {}
      /\ t \in Actors /\ t # Main /\ used # 0
  <2>1. /\ st[t] \in {"running", "climbing"} /\ t \in Actors /\ t # Main
        /\ st[t] = "running" => at[t] = "ready" /\ pending[t] = {}
    BY TreeAssumption DEF FetchSub, Actors
  <2>2. (pending[t] # {} \/ at[t] # "ready") => st[t] = "running"
    BY DEF PendingOK
  <2>3. used # 0
    BY <2>1 DEF StartOK
  <2> QED
    BY <2>1, <2>2, <2>3
<1>2. PICK n \in Nodes : n = mod[t]
  BY <1>1, HolderNode
<1>3. /\ n \in Live /\ t \in Holders(n) /\ ~AtZero(n)
      /\ count[n] \in 0..MAX_COUNT /\ Tokens(n) = count[n] + 1
  BY <1>1, <1>2, HolderNode
<1>4. /\ view' = [view EXCEPT ![t] = @ \cup {t}]
      /\ published' = [published EXCEPT ![n] = @ \cup view[t] \cup {t}]
      /\ count' = [count EXCEPT ![n] = Decr(@)]
      /\ st' = [st EXCEPT ![t] = IF count[n] = 0 THEN "last" ELSE "joined"]
      /\ UNCHANGED <<used, mem, parent, mod, pending, buffer, at, current, tail, todo, empty>>
  BY <1>2 DEF FetchSub, locals
<1>5. /\ count'[n] = (IF count[n] = 0 THEN SizeMax ELSE count[n] - 1)
      /\ count'[n] \in 0..SizeMax /\ (count[n] # 0 => count'[n] <= MAX_COUNT)
      /\ \A m \in Nodes \ {n} : count'[m] = count[m]
  BY <1>3, <1>4, TreeAssumption DEF TypeOK, Decr
<1>6. /\ st'[t] = (IF count[n] = 0 THEN "last" ELSE "joined")
      /\ \A u \in Tasks \ {t} : st'[u] = st[u]
      /\ view'[t] = view[t] \cup {t} /\ \A u \in Actors \ {t} : view'[u] = view[u]
      /\ published'[n] = published[n] \cup view[t] \cup {t}
      /\ \A m \in Nodes \ {n} : published'[m] = published[m]
  BY <1>1, <1>4 DEF TypeOK
<1>7. TypeOK'
  <2>1. count' \in [Nodes -> 0..SizeMax]
    BY <1>4, <1>5 DEF TypeOK
  <2> QED
    BY <1>1, <1>4, <2>1 DEF TypeOK, Status
<1>8. /\ Live' = Live /\ Chaining' = Chaining
      /\ \A T \in SUBSET {"idle", "queued", "lost", "owner", "called"} : In(T)' = In(T)
  BY <1>1, <1>4, <1>6 DEF Live, Chaining, In
<1>9. In({"last"})' = (IF count[n] = 0 THEN In({"last"}) \cup {t} ELSE In({"last"}))
  BY <1>1, <1>6 DEF In
<1>10. /\ Tokens(n)' = Tokens(n) - 1
       /\ \A m \in Nodes \ {n} : Tokens(m)' = Tokens(m)
  <2>1. ASSUME NEW m
        PROVE  InBuffers(m)' = InBuffers(m) /\ Children(m)' = Children(m) /\ Chains(m)' = Chains(m)
    BY <1>4, <1>8 DEF InBuffers, Children, Chains
  <2>2. Holders(n)' = Holders(n) \ {t}
    BY <1>1, <1>4, <1>6 DEF Holders, In
  <2>3. Cardinality(Holders(n)') = Cardinality(Holders(n)) - 1
    BY <1>3, <2>2, <1>7, TokensFinite, FS_RemoveElement
  <2>4. \A m \in Nodes \ {n} : Holders(m)' = Holders(m)
    BY <1>2, <1>4, <1>6 DEF Holders, In
  <2>5. /\ Cardinality(Holders(n)) \in Nat /\ Cardinality(InBuffers(n)) \in Nat
        /\ Cardinality(Children(n)) \in Nat /\ Cardinality(Chains(n)) \in Nat
    BY TokensFinite
  <2> QED
    BY <2>1, <2>3, <2>4, <2>5 DEF Tokens
<1>11. Conservation' /\ CountBounded'
  <2>1. ASSUME NEW m \in Live'
        PROVE  /\ Tokens(m)' = IF \E u \in In({"last"})' : mod'[u] = m THEN 0 ELSE count'[m] + 1
               /\ count'[m] <= MAX_COUNT \/ \E u \in In({"last"})' : mod'[u] = m
    <3>1. m \in Live /\ m \in Nodes
      BY <1>8 DEF Live
    <3>2. CASE m # n
      <4>1. (\E u \in In({"last"})' : mod'[u] = m) <=> \E u \in In({"last"}) : mod[u] = m
        BY <1>2, <1>4, <1>9, <3>2
      <4> QED
        BY <1>5, <1>10, <3>1, <3>2, <4>1 DEF Conservation, CountBounded
    <3>3. CASE m = n /\ count[n] = 0
      <4>1. \E u \in In({"last"})' : mod'[u] = m
        BY <1>2, <1>4, <1>9, <3>3
      <4> QED
        BY <1>3, <1>10, <3>3, <4>1
    <3>4. CASE m = n /\ count[n] # 0
      <4>1. ~\E u \in In({"last"})' : mod'[u] = m
        BY <1>3, <1>4, <1>9, <3>4 DEF AtZero
      <4>2. count[n] \in Nat
        BY <1>3, TreeAssumption
      <4> QED
        BY <1>3, <1>5, <1>10, <3>4, <4>1, <4>2
    <3> QED
      BY <3>2, <3>3, <3>4
  <2> QED
    BY <2>1 DEF Conservation, CountBounded
<1>12. LastOK'
  <2>1. \A u \in In({"last"}) : mod[u] # n
    BY <1>3 DEF AtZero
  <2> QED
    BY <1>2, <1>4, <1>9, <2>1 DEF LastOK
<1>13. NoDanglingNode'
  <2>1. \A u \in In({"running", "climbing", "last"})' : mod'[u] \in Live'
    BY <1>1, <1>4, <1>6, <1>8 DEF NoDanglingNode, In
  <2> QED
    BY <1>4, <1>8, <2>1 DEF NoDanglingNode
<1>14. \A a \in Actors : Missing(a)' = Missing(a)
  BY <1>4, <1>8 DEF Missing
<1>15. BufferMatchesCalls' /\ ChainOK'
  <2>1. BufferMatchesCalls'
    BY <1>4, <1>14 DEF BufferMatchesCalls
  <2>2. Chaining \subseteq Actors
    BY DEF Chaining
  <2> QED
    BY <1>4, <1>8, <1>14, <2>1, <2>2 DEF ChainOK
<1>16. StartOK' /\ MemOK' /\ CasOK'
  BY <1>1, <1>4 DEF StartOK, MemOK, CasOK
<1>17. PendingOK'
  <2>1. \A a \in Actors : \A u \in pending'[a] : st'[u] = "queued"
    BY <1>1, <1>4, <1>6 DEF PendingOK, TypeOK
  <2>2. \A u \in Tasks : pending'[u] # {} \/ at'[u] # "ready" => st'[u] = "running"
    BY <1>1, <1>4, <1>6 DEF PendingOK
  <2> QED
    BY <1>4, <1>8, <2>1, <2>2 DEF PendingOK
<1>18. OwnerOK'
  <2>1. In({"owner", "called"}) = {}
    BY <1>1 DEF OwnerOK, In
  <2> QED
    BY <1>8, <2>1 DEF OwnerOK
<1>19. SeenOK'
  <2> SUFFICES ASSUME NEW u \in In(Joined)'
               PROVE  \/ \E m \in Live' : u \in published'[m]
                      \/ \E w \in In(Joined \ {"joined"})' : u \in view'[w]
    BY DEF SeenOK
  <2>1. CASE u = t
    BY <1>3, <1>6, <1>8, <2>1
  <2>2. CASE u # t
    <3>1. u \in In(Joined)
      BY <1>6, <2>2 DEF In
    <3>2. CASE \E m \in Live : u \in published[m]
      <4>1. PICK m \in Live : u \in published[m]
        BY <3>2
      <4>2. u \in published'[m]
        BY <1>6, <4>1 DEF Live
      <4> QED
        BY <1>8, <4>1, <4>2
    <3>3. CASE \E w \in In(Joined \ {"joined"}) : u \in view[w]
      <4>1. PICK w \in In(Joined \ {"joined"}) : u \in view[w]
        BY <3>3
      <4>2. CASE w = t
        BY <1>3, <1>6, <1>8, <4>1, <4>2
      <4>3. CASE w # t
        <5>1. w \in In(Joined \ {"joined"})' /\ view'[w] = view[w]
          BY <1>6, <4>1, <4>3 DEF In, Actors
        <5> QED
          BY <4>1, <5>1
      <4> QED
        BY <4>2, <4>3
    <3> QED
      BY <3>1, <3>2, <3>3 DEF SeenOK
  <2> QED
    BY <2>1, <2>2
<1> QED
  BY <1>7, <1>11, <1>12, <1>13, <1>15, <1>16, <1>17, <1>18, <1>19

-----------------------------------------------------------------------------
(***************************************************************************)
(* What is left when a node has run out.                                   *)
(***************************************************************************)
LEMMA Drained ==
  ASSUME IInv, NEW n \in Live, AtZero(n)
  PROVE  /\ Children(n) = {} /\ Holders(n) = {} /\ Chains(n) = {}
         /\ \A a \in Actors : \A i \in DOMAIN buffer[a] : buffer[a][i].node # n
         /\ \A u \in In({"running", "climbing"}) : mod[u] # n
<1> USE DEF IInv
<1>1. Children(n) = {} /\ Holders(n) = {} /\ Chains(n) = {}
  BY TokenAlive
<1>2. \A a \in Actors : DOMAIN buffer[a] = 1..Len(buffer[a])
  BY DEF TypeOK
<1>3. \A a \in Actors : \A i \in DOMAIN buffer[a] : buffer[a][i].node # n
  BY <1>2, TokenAlive
<1>4. ASSUME NEW u \in In({"running", "climbing"}), mod[u] = n
      PROVE  FALSE
  <2>1. u \in Tasks /\ u \in Actors /\ at[u] = "chain_full" /\ u \in Chaining
    BY <1>1, <1>4 DEF In, Holders, Actors, Chaining
  <2>2. CASE buffer[u] = <<>>
    BY <1>1, <1>4, <2>1, <2>2 DEF ChainOK, Chains
  <2>3. CASE buffer[u] # <<>>
    <3>1. 1 \in DOMAIN buffer[u]
      BY <1>2, <2>1, <2>3, BufferType, EmptySeq, LenProperties
    <3>2. buffer[u][1].node \in Live /\ parent[buffer[u][1].node] = n
      BY <1>4, <2>1, <2>3, <3>1 DEF ChainOK, NoDanglingNode
    <3> QED
      BY <1>1, <3>2 DEF Children
  <2> QED
    BY <2>2, <2>3
<1> QED
  BY <1>1, <1>3, <1>4

\* No node lives below a root that has no children.
LEMMA OnlyRoot ==
  ASSUME IInv, NEW n \in Live, parent[n] = None, Children(n) = {}
  PROVE  Live = {n}
<1> USE DEF IInv
<1>1. Live \subseteq Nodes /\ Live \subseteq Nat /\ \A m \in Live : m <= used
  BY TreeAssumption DEF Live, MemOK, Nodes, TypeOK
<1>2. n = 1
  <2>1. n \in Nodes /\ n <= used
    BY <1>1
  <2>2. n # 1 => parent[n] \in 1..(n - 1)
    BY <2>1 DEF MemOK
  <2>3. n # 1 => 1..(n - 1) \subseteq Nodes
    BY <2>1, TreeAssumption DEF Nodes
  <2> QED
    BY <2>2, <2>3, TreeAssumption DEF Nodes
<1> SUFFICES ASSUME Live # {n} PROVE FALSE
  OBVIOUS
<1> DEFINE T == Live \ {n}
<1>3. T \subseteq Nat /\ T # {}
  BY <1>1
<1>4. PICK x \in T : \A y \in T : ~(<<y, x>> \in OpToRel(<, Nat))
  <2> HIDE DEF T
  <2> QED
    BY <1>3, NatLessThanWellFounded, WFMin
<1>5. parent[x] \in 1..(x - 1)
  BY <1>1, <1>2 DEF MemOK
<1>6. parent[x] \in T
  <2>1. parent[x] # None
    <3>1. 1..(x - 1) \subseteq Nodes
      BY <1>1, TreeAssumption DEF Nodes
    <3> QED
      BY <1>5, <3>1, TreeAssumption DEF Nodes
  <2>2. parent[x] \in Live
    BY <2>1 DEF NoDanglingNode
  <2>3. parent[x] # n
    BY DEF Children
  <2> QED
    BY <2>2, <2>3
<1>7. <<parent[x], x>> \in OpToRel(<, Nat)
  BY <1>1, <1>5 DEF OpToRel
<1> QED
  BY <1>4, <1>6, <1>7

\* With the last node gone nothing is outstanding.
LEMMA NothingLeft ==
  ASSUME IInv, NEW n \in Live, AtZero(n), parent[n] = None
  PROVE  \A u \in Tasks : st[u] \in {"idle", "joined"} \/ (st[u] = "last" /\ mod[u] = n)
<1> USE DEF IInv
<1>1. /\ Live = {n} /\ Chains(n) = {}
      /\ \A a \in Actors : \A i \in DOMAIN buffer[a] : buffer[a][i].node # n
      /\ \A u \in In({"running", "climbing"}) : mod[u] # n
  BY Drained, OnlyRoot
<1>2. used # 0
  BY TreeAssumption DEF Live, MemOK, Nodes, TypeOK
<1>3. \A u \in Tasks : st[u] \notin {"running", "climbing"} /\ (st[u] = "last" => mod[u] = n)
  BY <1>1 DEF NoDanglingNode, In
<1>4. \A u \in Tasks : st[u] \notin {"owner", "called"}
  BY <1>1 DEF OwnerOK, In
<1>5. Missing(Main) = {}
  <2>1. Main \in Actors
    BY DEF Actors
  <2>2. buffer[Main] = <<>>
    <3>1. buffer[Main] # <<>> => 1 \in DOMAIN buffer[Main]
      BY <2>1, BufferType, EmptySeq, LenProperties
    <3> QED
      BY <1>1, <2>1, <3>1 DEF NoDanglingNode
  <2>3. Main \notin Chaining
    BY <1>1, <1>2 DEF ChainOK, NoDanglingNode, Chains
  <2>4. at[Main] = "ready"
    BY <2>1, <2>3 DEF PendingOK, Chaining
  <2>5. Cardinality(Missing(Main)) = 0
    BY <2>1, <2>2, <2>4, SlotsEmpty DEF BufferMatchesCalls
  <2> QED
    BY <2>1, <2>5, MissingFinite, FS_EmptySet
<1>6. \A u \in Tasks : st[u] \notin {"lost", "queued"}
  <2>1. \A a \in Actors : pending[a] = {}
    BY <1>3, <1>5 DEF PendingOK, Missing, Actors
  <2> QED
    BY <1>5, <2>1 DEF PendingOK, Missing, In
<1> QED
  BY <1>3, <1>4, <1>6 DEF TypeOK, Status

LEMMA ReclaimIInv ==
  ASSUME IInv, NEW t \in Tasks, Reclaim(t)
  PROVE  IInv'
<1> USE DEF IInv
<1>1. /\ st[t] = "last" /\ at[t] = "ready" /\ pending[t] = {} /\ t \in Actors /\ t # Main
      /\ used # 0 /\ t \in In({"last"})
  <2>1. /\ st[t] = "last" /\ t \in Actors /\ t # Main
    BY TreeAssumption DEF Reclaim, Actors
  <2>2. (pending[t] # {} \/ at[t] # "ready") => st[t] = "running"
    BY DEF PendingOK
  <2> QED
    BY <2>1, <2>2 DEF StartOK, In
<1>2. PICK n \in Live : n = mod[t]
  BY <1>1 DEF NoDanglingNode, In
<1>3. n \in Nodes /\ AtZero(n) /\ \A u \in In({"last"}) : mod[u] = n => u = t
  BY <1>1, <1>2 DEF Live, AtZero, LastOK
<1>4. /\ Children(n) = {} /\ Chains(n) = {}
      /\ \A a \in Actors : \A i \in DOMAIN buffer[a] : buffer[a][i].node # n
      /\ \A u \in In({"running", "climbing"}) : mod[u] # n
  BY <1>3, Drained
<1>5. PICK p : p = parent[n]
  OBVIOUS
<1>6. p = None \/ (p \in Live /\ p \in Nodes /\ p # n)
  <2>1. p = None \/ p \in Live
    BY <1>5 DEF NoDanglingNode
  <2>2. p # n
    BY <1>2, <1>4, <1>5 DEF Children
  <2> QED
    BY <2>1, <2>2 DEF Live
<1>7. /\ view' = [view EXCEPT ![t] = view[t] \cup published[n]]
      /\ mem' = [mem EXCEPT ![n] = "deleted"]
      /\ p = None => st' = [st EXCEPT ![t] = "owner"] /\ UNCHANGED mod
      /\ p # None => st' = [st EXCEPT ![t] = "climbing"] /\ mod' = [mod EXCEPT ![t] = p]
      /\ UNCHANGED <<used, parent, count, published, pending, buffer, at, current, tail, todo, empty>>
  BY <1>2, <1>5 DEF Reclaim, Acquired, Above, locals
<1>8. /\ st'[t] = (IF p = None THEN "owner" ELSE "climbing")
      /\ mod'[t] = (IF p = None THEN n ELSE p)
      /\ \A u \in Tasks \ {t} : st'[u] = st[u] /\ mod'[u] = mod[u]
      /\ view'[t] = view[t] \cup published[n] /\ \A u \in Actors \ {t} : view'[u] = view[u]
  BY <1>1, <1>2, <1>7 DEF TypeOK
<1>9. TypeOK'
  <2>1. st' \in [Tasks -> Status]
    <3>1. st \in [Tasks -> Status] /\ {"owner", "climbing"} \subseteq Status
      BY DEF TypeOK, Status
    <3> QED
      BY <1>7, <3>1
  <2>2. mod' \in [Tasks -> Nodes \cup {None}]
    BY <1>6, <1>7 DEF TypeOK
  <2> QED
    BY <1>1, <1>3, <1>7, <2>1, <2>2 DEF TypeOK
<1>10. Live' = Live \ {n} /\ Chaining' = Chaining
  BY <1>3, <1>7 DEF Live, Chaining, TypeOK
<1>11. /\ \A T \in SUBSET (Status \ {"last", "climbing", "owner"}) : In(T)' = In(T)
       /\ In({"last"})' = In({"last"}) \ {t}
       /\ In(Joined)' = In(Joined)
       /\ In(Joined \ {"joined"})' = In(Joined \ {"joined"})
       /\ In({"running", "climbing"})'
            = IF p = None THEN In({"running", "climbing"}) ELSE In({"running", "climbing"}) \cup {t}
  BY <1>1, <1>8 DEF In, Status, Joined
<1>12. ASSUME NEW m \in Live'
       PROVE  Tokens(m)' = Tokens(m)
  <2>1. m # n /\ m \in Live /\ m # None
    BY <1>10, TreeAssumption DEF Live, Nodes
  <2>2. InBuffers(m)' = InBuffers(m) /\ Chains(m)' = Chains(m)
    BY <1>7, <1>10 DEF InBuffers, Chains
  <2>3. CASE m = p
    <3>1. Children(m)' = Children(m) \ {n} /\ n \in Children(m)
      BY <1>5, <1>7, <1>10, <2>3 DEF Children
    <3>2. Holders(m)' = Holders(m) \cup {t} /\ t \notin Holders(m)
      <4>1. t \notin In({"running", "climbing"})
        BY <1>1 DEF In
      <4>2. \A u \in In({"running", "climbing"}) : mod'[u] = mod[u] /\ at'[u] = at[u]
        BY <1>7, <1>8, <4>1 DEF In
      <4>3. mod'[t] = m /\ at'[t] # "chain_full"
        BY <1>1, <1>7, <1>8, <2>1, <2>3
      <4> QED
        BY <1>11, <2>1, <2>3, <4>1, <4>2, <4>3 DEF Holders
    <3>3. /\ IsFiniteSet(Holders(m)) /\ IsFiniteSet(Children(m))
          /\ Cardinality(Holders(m)) \in Nat /\ Cardinality(Children(m)) \in Nat
          /\ Cardinality(InBuffers(m)) \in Nat /\ Cardinality(Chains(m)) \in Nat
      BY TokensFinite
    <3>4. Cardinality(Children(m)') = Cardinality(Children(m)) - 1
      BY <3>1, <3>3, FS_RemoveElement
    <3>5. Cardinality(Holders(m)') = Cardinality(Holders(m)) + 1
      BY <3>2, <3>3, FS_AddElement
    <3> QED
      BY <2>2, <3>3, <3>4, <3>5 DEF Tokens
  <2>4. CASE m # p
    <3>1. Children(m)' = Children(m)
      BY <1>5, <1>7, <1>10, <2>4 DEF Children
    <3>2. Holders(m)' = Holders(m)
      <4>1. t \notin In({"running", "climbing"})
        BY <1>1 DEF In
      <4>2. \A u \in In({"running", "climbing"}) : mod'[u] = mod[u] /\ at'[u] = at[u]
        BY <1>7, <1>8, <4>1 DEF In
      <4>3. p = None \/ mod'[t] # m
        BY <1>8, <2>4
      <4> QED
        BY <1>11, <4>1, <4>2, <4>3 DEF Holders
    <3> QED
      BY <2>2, <3>1, <3>2 DEF Tokens
  <2> QED
    BY <2>3, <2>4
<1>13. ASSUME NEW m \in Live'
       PROVE  (\E u \in In({"last"})' : mod'[u] = m) <=> (\E u \in In({"last"}) : mod[u] = m)
  <2>1. m # n
    BY <1>10
  <2>2. \A u \in In({"last"}) \ {t} : mod'[u] = mod[u]
    BY <1>8 DEF In
  <2> QED
    BY <1>2, <1>11, <2>1, <2>2
<1>14. Conservation' /\ CountBounded'
  BY <1>7, <1>10, <1>12, <1>13 DEF Conservation, CountBounded
<1>15. LastOK'
  <2>1. \A u \in In({"last"}) \ {t} : mod'[u] = mod[u]
    BY <1>8 DEF In
  <2> QED
    BY <1>11, <2>1 DEF LastOK
<1>16. NoDanglingNode'
  <2>1. ASSUME NEW u \in In({"running", "climbing", "last"})'
        PROVE  mod'[u] \in Live'
    <3>1. CASE u = t
      BY <1>6, <1>8, <1>10, <2>1, <3>1 DEF In
    <3>2. CASE u # t
      <4>1. u \in In({"running", "climbing", "last"}) /\ mod'[u] = mod[u]
        BY <1>8, <2>1, <3>2 DEF In
      <4>2. mod[u] # n
        BY <1>3, <1>4, <3>2, <4>1 DEF In
      <4> QED
        BY <1>10, <4>1, <4>2 DEF NoDanglingNode
    <3> QED
      BY <3>1, <3>2
  <2>2. \A a \in Actors : \A i \in DOMAIN buffer'[a] : buffer'[a][i].node \in Live'
    BY <1>4, <1>7, <1>10 DEF NoDanglingNode
  <2>3. \A a \in Chaining' : tail'[a] = None \/ tail'[a] \in Live'
    BY <1>4, <1>7, <1>10 DEF NoDanglingNode, Chains
  <2>4. \A m \in Live' : parent'[m] = None \/ parent'[m] \in Live'
    BY <1>4, <1>7, <1>10 DEF NoDanglingNode, Children
  <2> QED
    BY <2>1, <2>2, <2>3, <2>4 DEF NoDanglingNode
<1>17. \A a \in Actors : Missing(a)' = Missing(a)
  BY <1>7, <1>11 DEF Missing, Status
<1>18. BufferMatchesCalls'
  BY <1>7, <1>17 DEF BufferMatchesCalls
<1>19. ChainOK'
  <2>1. \A a \in Chaining : a \in Actors /\ a # t
    BY <1>1 DEF Chaining
  <2>2. \A a \in Chaining : at[a] = "chain_full" => mod'[a] = mod[a]
    BY <1>8, <2>1 DEF PendingOK, Actors
  <2> QED
    BY <1>7, <1>10, <1>17, <2>1, <2>2 DEF ChainOK
<1>20. StartOK' /\ CasOK'
  BY <1>1, <1>7 DEF StartOK, CasOK
<1>21. MemOK'
  <2>1. mem[n] # "free" /\ \A m \in Nodes : mem'[m] = "free" <=> mem[m] = "free"
    BY <1>3, <1>7 DEF Live, TypeOK
  <2> QED
    BY <1>7, <2>1 DEF MemOK
<1>22. PendingOK'
  <2>1. \A a \in Actors : \A u \in pending'[a] : st'[u] = "queued"
    BY <1>1, <1>7, <1>8 DEF PendingOK, TypeOK
  <2>2. \A u \in Tasks : pending'[u] # {} \/ at'[u] # "ready" => st'[u] = "running"
    BY <1>1, <1>7, <1>8 DEF PendingOK
  <2>3. In({"queued"})' = In({"queued"})
    BY <1>11 DEF Status
  <2> QED
    BY <1>7, <2>1, <2>2, <2>3 DEF PendingOK
<1>23. OwnerOK'
  <2>1. In({"owner", "called"}) = {}
    BY <1>2 DEF OwnerOK
  <2>2. CASE p = None
    <3>1. Live = {n} /\ \A u \in Tasks \ {t} : st[u] \in {"idle", "joined"}
      BY <1>3, <1>4, <1>5, <2>2, OnlyRoot, NothingLeft DEF In
    <3> QED
      BY <1>8, <1>10, <3>1 DEF OwnerOK, In
  <2>3. CASE p # None
    <3>1. In({"owner", "called"})' = {}
      BY <1>8, <2>1, <2>3 DEF In
    <3> QED
      BY <3>1 DEF OwnerOK
  <2> QED
    BY <2>2, <2>3
<1>24. SeenOK'
  <2> SUFFICES ASSUME NEW u \in In(Joined)
               PROVE  \/ \E m \in Live' : u \in published'[m]
                      \/ \E w \in In(Joined \ {"joined"}) : u \in view'[w]
    BY <1>11 DEF SeenOK
  <2>1. CASE \E m \in Live : u \in published[m]
    <3>1. PICK m \in Live : u \in published[m]
      BY <2>1
    <3>2. CASE m = n
      BY <1>1, <1>8, <3>1, <3>2 DEF In, Joined
    <3>3. CASE m # n
      BY <1>7, <1>10, <3>1, <3>3
    <3> QED
      BY <3>2, <3>3
  <2>2. CASE \E w \in In(Joined \ {"joined"}) : u \in view[w]
    <3>1. \A w \in Tasks : view[w] \subseteq view'[w]
      BY <1>8 DEF Actors
    <3> QED
      BY <2>2, <3>1 DEF In
  <2> QED
    BY <2>1, <2>2 DEF SeenOK
<1> QED
  BY <1>9, <1>14, <1>15, <1>16, <1>18, <1>19, <1>20, <1>21, <1>22, <1>23, <1>24

-----------------------------------------------------------------------------
(***************************************************************************)
(* The next node of a chain.                                               *)
(***************************************************************************)
LEMMA FreshNode ==
  ASSUME IInv, NEW m \in Nodes, m = used + 1
  PROVE  /\ m \notin Live /\ mem[m] = "free" /\ m # None
         /\ Holders(m) = {} /\ Children(m) = {} /\ Chains(m) = {}
         /\ \A a \in Actors : SlotsAt(buffer[a], m) = {}
         /\ Cardinality(InBuffers(m)) = 0
         /\ ~AtZero(m)
<1> USE DEF IInv
<1>1. m \notin Live /\ mem[m] = "free" /\ m # None
  <2>1. mem[m] = "free"
    BY TreeAssumption DEF MemOK, TypeOK, Nodes
  <2> QED
    BY <2>1, TreeAssumption DEF Live, Nodes
<1>2. Holders(m) = {} /\ Children(m) = {} /\ Chains(m) = {} /\ ~AtZero(m)
  <2>1. Holders(m) = {} /\ ~AtZero(m)
    BY <1>1 DEF NoDanglingNode, Holders, AtZero, In
  <2>2. Children(m) = {} /\ Chains(m) = {}
    BY <1>1 DEF NoDanglingNode, Children, Chains
  <2> QED
    BY <2>1, <2>2
<1>3. ASSUME NEW a \in Actors
      PROVE  SlotsAt(buffer[a], m) = {}
  <2>1. buffer[a] \in Seq(Entry)
    BY BufferType
  <2>2. \A s \in Slots(buffer[a]) : s[1] \in DOMAIN buffer[a]
    BY <2>1, SlotMember
  <2> QED
    BY <1>1, <2>2 DEF SlotsAt, NoDanglingNode
<1>4. InBuffers(m) = {}
  BY <1>3 DEF InBuffers
<1> QED
  BY <1>1, <1>2, <1>3, <1>4, FS_EmptySet

\* Nobody has the callback yet; and the chain of the root is Main's alone.
LEMMA ChainStart ==
  ASSUME IInv, NEW a \in Chaining
  PROVE  /\ In({"owner", "called"}) = {}
         /\ used = 0 => Chaining = {a}
         /\ a \in Actors /\ (a \in Tasks => st[a] = "running")
<1> USE DEF IInv
<1>1. a \in Actors /\ (a \in Tasks => st[a] = "running")
  BY DEF Chaining, PendingOK
<1>2. ASSUME used = 0
      PROVE  Chaining = {a} /\ In({"owner", "called"}) = {}
  <2>1. \A t \in Tasks : st[t] \in {"idle", "queued"}
    BY <1>2 DEF StartOK
  <2>2. \A c \in Chaining : c = Main
    BY <2>1 DEF Chaining, PendingOK, Actors
  <2> QED
    BY <2>1, <2>2 DEF In
<1>3. ASSUME used # 0
      PROVE  In({"owner", "called"}) = {}
  BY <1>3 DEF ChainOK, NoDanglingNode, OwnerOK
<1> QED
  BY <1>1, <1>2, <1>3

\* Actor a hangs a node m that counts c below the end of its chain.  Then the
\* chain goes on from m, or it ends; and if the actor's own node was full, it
\* moves to m and leaves its token to the chain.
HangStep(a, m, c, b) ==
  /\ a \in Chaining /\ m = used + 1 /\ used' = m
  /\ mem' = [mem EXCEPT ![m] = "live"]
  /\ parent' = [parent EXCEPT ![m] = tail[a]]
  /\ count' = [count EXCEPT ![m] = c]
  /\ buffer' = [buffer EXCEPT ![a] = b]
  /\ \A d \in Actors \ {a} : at'[d] = at[d] /\ tail'[d] = tail[d] /\ todo'[d] = todo[d]
  /\ \A t \in Tasks \ {a} : mod'[t] = mod[t]
  /\ UNCHANGED <<published, st, view, pending, current, empty>>

GoesOn(a, m, c, b) ==
  /\ MAX_COUNT < todo[a] /\ c = MAX_COUNT /\ b = Push(buffer[a], c, m)
  /\ at'[a] = at[a] /\ tail'[a] = m /\ todo'[a] = todo[a] - MAX_COUNT /\ mod' = mod

Ends(a, m, c) ==
  /\ c = todo[a] /\ at'[a] = "ready"
  /\ IF at[a] = "chain_full" THEN a \in Tasks => mod'[a] = m ELSE mod' = mod

\* The slots of m in the buffer, and whether its last token stays outside.
Entered(a, m, c, b, x) ==
  /\ b \in Seq(Entry) /\ Filled(b) /\ x \in Nat
  /\ \A i \in 1..Len(b) : b[i].node = m \/ b[i].node \in Live
  /\ Cardinality(Slots(b)) = Cardinality(Slots(buffer[a])) + x
  /\ Cardinality(SlotsAt(b, m)) = x
  /\ \A n : n # m => Cardinality(SlotsAt(b, n)) = Cardinality(SlotsAt(buffer[a], n))
  /\ x = IF at'[a] = "ready" /\ at[a] = "chain" THEN c + 1 ELSE c

LEMMA HangTokens ==
  ASSUME IInv, NEW a, NEW m \in Nodes, NEW c \in 0..MAX_COUNT, NEW b, NEW x,
         HangStep(a, m, c, b), Entered(a, m, c, b, x),
         GoesOn(a, m, c, b) \/ Ends(a, m, c)
  PROVE  Conservation' /\ CountBounded' /\ LastOK' /\ NoDanglingNode'
<1> USE DEF IInv
<1>1. /\ a \in Actors /\ a \in Chaining /\ (a \in Tasks => st[a] = "running") /\ at[a] \in {"chain", "chain_full"}
      /\ m \notin Live /\ m # None /\ Holders(m) = {} /\ Children(m) = {} /\ Chains(m) = {} /\ ~AtZero(m)
      /\ Cardinality(InBuffers(m)) = 0 /\ SlotsAt(buffer[a], m) = {}
  BY FreshNode, ChainStart DEF HangStep, Chaining
<1>2. /\ Live' = Live \cup {m}
      /\ \A T : In(T)' = In(T)
      /\ \A n \in Nodes \ {m} : parent'[n] = parent[n] /\ count'[n] = count[n]
      /\ parent'[m] = tail[a] /\ count'[m] = c
      /\ tail[a] = None \/ tail[a] \in Live
  BY <1>1 DEF HangStep, Live, In, TypeOK, NoDanglingNode
<1>3. Chaining' = IF GoesOn(a, m, c, b) THEN Chaining ELSE Chaining \ {a}
  <2>1. CASE GoesOn(a, m, c, b)
    BY <1>1, <2>1 DEF HangStep, Chaining, GoesOn
  <2>2. CASE ~GoesOn(a, m, c, b)
    BY <1>1, <2>2 DEF HangStep, Chaining, Ends
  <2> QED
    BY <2>1, <2>2
<1>4. /\ at'[a] \in {"ready", at[a]}
      /\ \A u \in Tasks \ {a} : at'[u] = at[u]
      /\ a \in Tasks => mod'[a] \in {m, mod[a]}
      /\ ~(a \in Tasks /\ at[a] = "chain_full" /\ at'[a] = "ready" /\ mod'[a] # m)
      /\ ~(a \in Tasks /\ (at[a] = "chain" \/ at'[a] # "ready") /\ mod'[a] # mod[a])
  BY <1>1 DEF HangStep, GoesOn, Ends, Actors
<1>5. ASSUME NEW n
      PROVE  /\ IsFiniteSet(Holders(n)) /\ Cardinality(Holders(n)) \in Nat
             /\ IsFiniteSet(Children(n)) /\ Cardinality(Children(n)) \in Nat
             /\ IsFiniteSet(Chains(n)) /\ Cardinality(Chains(n)) \in Nat
             /\ Cardinality(InBuffers(n)) \in Nat
             /\ Cardinality(InBuffers(n)')
                  = Cardinality(InBuffers(n)) - Cardinality(SlotsAt(buffer[a], n)) + Cardinality(SlotsAt(b, n))
             /\ Cardinality(SlotsAt(buffer[a], n)) \in Nat
  <2>1. b \in Seq(Entry) /\ buffer' = [buffer EXCEPT ![a] = b] /\ buffer[a] \in Seq(Entry)
    BY <1>1, BufferType DEF HangStep, Entered
  <2> QED
    BY <1>1, <2>1, TokensFinite, BufferChange, SlotsFinite
<1>6. ASSUME NEW n \in Live
      PROVE  Tokens(n)' = Tokens(n)
  <2>1. n # m /\ n \in Nodes /\ n # None
    BY <1>1, TreeAssumption DEF Live, Nodes
  <2>2. Cardinality(InBuffers(n)') = Cardinality(InBuffers(n))
    <3>1. Cardinality(SlotsAt(b, n)) = Cardinality(SlotsAt(buffer[a], n))
      BY <2>1 DEF Entered
    <3> QED
      BY <1>5, <3>1
  <2>3. Holders(n)' = Holders(n)
    <3>1. \A u \in Tasks \ {a} : mod'[u] = mod[u]
      BY DEF HangStep
    <3>2. a \in Tasks => ((mod'[a] = n /\ at'[a] # "chain_full") <=> (mod[a] = n /\ at[a] # "chain_full"))
      BY <1>1, <1>4, <2>1
    <3> QED
      BY <1>2, <1>4, <3>1, <3>2 DEF Holders, In
  <2>4. Cardinality(Children(n)') + Cardinality(Chains(n)') = Cardinality(Children(n)) + Cardinality(Chains(n))
    <3>1. Children(n)' = IF tail[a] = n THEN Children(n) \cup {m} ELSE Children(n)
      BY <1>1, <1>2 DEF Children, Live
    <3>2. Chains(n)' = Chains(n) \ {a}
      BY <1>1, <1>3, <2>1 DEF Chains, HangStep, Chaining, GoesOn
    <3>3. m \notin Children(n) /\ (a \in Chains(n) <=> tail[a] = n)
      BY <1>1 DEF Children, Chains
    <3>4. CASE tail[a] = n
      <4>0. IsFiniteSet(Children(n)) /\ IsFiniteSet(Chains(n))
        BY <1>5
      <4>1. Cardinality(Children(n)') = Cardinality(Children(n)) + 1
        BY <3>1, <3>3, <3>4, <4>0, FS_AddElement
      <4>2. Cardinality(Chains(n)') = Cardinality(Chains(n)) - 1
        BY <3>2, <3>3, <3>4, <4>0, FS_RemoveElement
      <4> QED
        BY <1>5, <4>1, <4>2
    <3>5. CASE tail[a] # n
      <4>1. Children(n)' = Children(n) /\ Chains(n)' = Chains(n)
        BY <3>1, <3>2, <3>3, <3>5
      <4> QED
        BY <4>1
    <3> QED
      BY <3>4, <3>5
  <2>5. Cardinality(Holders(n)') = Cardinality(Holders(n))
    BY <2>3
  <2>6. Cardinality(Children(n)') \in Nat /\ Cardinality(Chains(n)') \in Nat
    <3>1. Children(n)' \subseteq Children(n) \cup {m} /\ Chains(n)' \subseteq Chains(n)
      BY <1>2, <1>3, <1>1, <2>1 DEF Children, Chains, HangStep, GoesOn, Live, Chaining
    <3>2. IsFiniteSet(Children(n) \cup {m})
      BY <1>5, FS_AddElement
    <3> QED
      BY <1>5, <3>1, <3>2, FS_Subset, FS_CardinalityType
  <2> QED
    BY <1>5, <2>2, <2>4, <2>5, <2>6 DEF Tokens
<1>7. Tokens(m)' = c + 1
  <2>1. Cardinality(InBuffers(m)') = x
    <3>1. Cardinality(InBuffers(m)) = 0 /\ Cardinality(SlotsAt(buffer[a], m)) = 0
      BY <1>1, FS_EmptySet
    <3>2. Cardinality(SlotsAt(b, m)) = x /\ x \in Nat
      BY DEF Entered
    <3>3. Cardinality(InBuffers(m)')
            = Cardinality(InBuffers(m)) - Cardinality(SlotsAt(buffer[a], m)) + Cardinality(SlotsAt(b, m))
      BY <1>5
    <3> QED
      BY <3>1, <3>2, <3>3
  <2>2. Children(m)' = {}
    BY <1>1, <1>2 DEF Children, Live
  <2>3. Holders(m)' = IF a \in Tasks /\ at[a] = "chain_full" /\ at'[a] = "ready" THEN {a} ELSE {}
    <3>1. \A u \in Tasks \ {a} : u \notin Holders(m)'
      <4>1. \A u \in Tasks \ {a} : mod'[u] = mod[u]
        BY DEF HangStep
      <4>2. \A u \in In({"running", "climbing"}) : mod[u] # m
        BY <1>1 DEF NoDanglingNode, In
      <4> QED
        BY <1>2, <4>1, <4>2 DEF Holders, In
    <3>2. a \in Tasks => mod[a] # m
      BY <1>1 DEF NoDanglingNode, In
    <3>3. a \in Tasks => (a \in Holders(m)' <=> mod'[a] = m /\ at'[a] # "chain_full")
      BY <1>1, <1>2 DEF Holders, In
    <3>4. Holders(m)' \subseteq Tasks
      BY DEF Holders, In
    <3>5. a \in Tasks => (a \in Holders(m)' <=> at[a] = "chain_full" /\ at'[a] = "ready")
      BY <1>1, <1>4, <3>2, <3>3
    <3> QED
      BY <3>1, <3>4, <3>5
  <2>4. Chains(m)' = IF at'[a] = "ready" THEN {} ELSE {a}
    <3>1. \A d \in Chaining \ {a} : tail[d] # m
      BY <1>1 DEF Chains
    <3>2. a \in Chains(m)' <=> at'[a] # "ready"
      <4>1. GoesOn(a, m, c, b) => at'[a] # "ready" /\ a \in Chaining' /\ tail'[a] = m
        BY <1>1, <1>3 DEF GoesOn
      <4>2. ~GoesOn(a, m, c, b) => at'[a] = "ready" /\ a \notin Chaining'
        BY <1>3 DEF Ends
      <4> QED
        BY <4>1, <4>2 DEF Chains
    <3>3. \A d : d # a => d \notin Chains(m)'
      BY <1>1, <1>3, <3>1 DEF Chains, HangStep, Chaining
    <3> QED
      BY <3>2, <3>3
  <2>5. c \in Nat /\ a \in Actors /\ (a = Main => at[a] = "chain")
    BY <1>1, TreeAssumption DEF PendingOK
  <2>6. Cardinality({}) = 0 /\ Cardinality({a}) = 1
    BY FS_EmptySet, FS_Singleton
  <2>7. Tokens(m)' = Cardinality(Holders(m)') + x + 0 + Cardinality(Chains(m)')
    BY <2>1, <2>2, <2>6 DEF Tokens
  <2>8. CASE at'[a] # "ready"
    BY <2>3, <2>4, <2>5, <2>6, <2>7, <2>8 DEF Entered
  <2>9. CASE at'[a] = "ready" /\ at[a] = "chain"
    BY <2>3, <2>4, <2>5, <2>6, <2>7, <2>9 DEF Entered
  <2>10. CASE at'[a] = "ready" /\ at[a] = "chain_full"
    BY <2>3, <2>4, <2>5, <2>6, <2>7, <2>10 DEF Entered, Actors
  <2> QED
    BY <1>1, <2>8, <2>9, <2>10
<1>8. \A u \in In({"last"}) : u # a /\ mod'[u] = mod[u] /\ mod[u] # m
  BY <1>1 DEF In, HangStep, AtZero
<1>9. Conservation' /\ CountBounded' /\ LastOK'
  <2>1. c <= MAX_COUNT
    BY TreeAssumption
  <2> QED
    BY <1>2, <1>6, <1>7, <1>8, <2>1 DEF Conservation, CountBounded, LastOK, Live
<1>10. NoDanglingNode'
  <2>1. ASSUME NEW u \in In({"running", "climbing", "last"})'
        PROVE  mod'[u] \in Live'
    <3>1. u \in Tasks /\ u \in In({"running", "climbing", "last"})
      BY <1>2 DEF In
    <3>2. mod'[u] = mod[u] \/ mod'[u] = m
      BY <1>4, <3>1 DEF HangStep
    <3> QED
      BY <1>2, <3>1, <3>2 DEF NoDanglingNode
  <2>2. ASSUME NEW d \in Actors, NEW i \in DOMAIN buffer'[d]
        PROVE  buffer'[d][i].node \in Live'
    <3>1. CASE d = a
      <4>1. buffer'[d] = b /\ DOMAIN b = 1..Len(b)
        BY <1>1, <3>1 DEF HangStep, Entered, TypeOK
      <4> QED
        BY <1>2, <2>2, <4>1 DEF Entered
    <3>2. CASE d # a
      BY <1>1, <1>2, <2>2, <3>2 DEF HangStep, NoDanglingNode, TypeOK
    <3> QED
      BY <3>1, <3>2
  <2>3. \A d \in Chaining' : tail'[d] = None \/ tail'[d] \in Live'
    BY <1>2, <1>3 DEF HangStep, GoesOn, NoDanglingNode, Chaining
  <2>4. \A n \in Live' : parent'[n] = None \/ parent'[n] \in Live'
    BY <1>2 DEF NoDanglingNode, Live
  <2> QED
    BY <2>1, <2>2, <2>3, <2>4 DEF NoDanglingNode
<1> QED
  BY <1>9, <1>10

LEMMA HangIInv ==
  ASSUME IInv, TypeOK', NEW a, NEW m \in Nodes, NEW c \in 0..MAX_COUNT, NEW b, NEW x,
         HangStep(a, m, c, b), Entered(a, m, c, b, x),
         GoesOn(a, m, c, b) \/ Ends(a, m, c)
  PROVE  IInv'
<1> USE DEF IInv
<1>1. /\ a \in Actors /\ a \in Chaining /\ (a \in Tasks => st[a] = "running") /\ at[a] \in {"chain", "chain_full"}
      /\ m \notin Live /\ m # None /\ In({"owner", "called"}) = {}
      /\ used = 0 => Chaining = {a}
      /\ used \in Nat /\ m = used + 1 /\ used' = m
  <2>1. a \in Chaining /\ m = used + 1 /\ used' = m /\ used \in Nat
    BY TreeAssumption DEF HangStep, TypeOK
  <2>2. m \notin Live /\ m # None
    BY <2>1, FreshNode
  <2>3. /\ In({"owner", "called"}) = {} /\ (used = 0 => Chaining = {a})
        /\ a \in Actors /\ (a \in Tasks => st[a] = "running")
    BY <2>1, ChainStart
  <2> QED
    BY <2>1, <2>2, <2>3 DEF Chaining
<1>2. /\ Live' = Live \cup {m} /\ \A T : In(T)' = In(T) /\ \A d : Missing(d)' = Missing(d)
      /\ parent'[m] = tail[a] /\ \A n \in Nodes \ {m} : parent'[n] = parent[n] /\ mem'[n] = mem[n]
      /\ mem'[m] = "live"
  BY DEF HangStep, Live, In, Missing, TypeOK
<1>3. /\ at'[a] = at[a] \/ at'[a] = "ready"
      /\ buffer'[a] = b
      /\ \A d \in Actors \ {a} : at'[d] = at[d] /\ tail'[d] = tail[d] /\ todo'[d] = todo[d] /\ buffer'[d] = buffer[d]
      /\ \A u \in Tasks \ {a} : mod'[u] = mod[u]
      /\ \A u \in Tasks : pending'[u] = pending[u] /\ st'[u] = st[u] /\ current'[u] = current[u]
  BY <1>1 DEF HangStep, GoesOn, Ends, TypeOK
<1>4. Conservation' /\ CountBounded' /\ LastOK' /\ NoDanglingNode'
  BY HangTokens
<1>5. StartOK'
  BY <1>1 DEF StartOK
<1>6. MemOK'
  <2>1. ASSUME NEW n \in Nodes
        PROVE  mem'[n] = "free" <=> n > used'
    BY <1>1, <1>2 DEF MemOK, Nodes
  <2>2. ASSUME NEW n \in Nodes, n <= used'
        PROVE  IF n = 1 THEN parent'[n] = None ELSE parent'[n] \in 1..(n - 1)
    <3>1. CASE n = m
      <4>1. n = 1 <=> used = 0
        BY <1>1, <3>1
      <4>2. used = 0 => tail[a] = None
        BY <1>1 DEF ChainOK
      <4>3. used # 0 => tail[a] \in Live
        BY <1>1 DEF ChainOK, NoDanglingNode
      <4>4. used # 0 => tail[a] \in Nodes /\ mem[tail[a]] = "live"
        BY <4>3 DEF Live
      <4>5. used # 0 => tail[a] \in 1..used
        BY <1>1, <4>4, TreeAssumption DEF MemOK, Nodes
      <4> QED
        BY <1>1, <1>2, <3>1, <4>1, <4>2, <4>5
    <3>2. CASE n # m
      <4>1. n <= used
        BY <1>1, <2>2, <3>2 DEF Nodes
      <4> QED
        BY <1>2, <3>2, <4>1 DEF MemOK
    <3> QED
      BY <3>1, <3>2
  <2> QED
    BY <2>1, <2>2 DEF MemOK
<1>7. PendingOK'
  <2>1. pending' = pending /\ st' = st
    BY DEF HangStep
  <2>2. at'[Main] \in {"ready", "chain"}
    BY <1>3 DEF PendingOK, Actors
  <2>3. \A u \in Tasks : at'[u] # "ready" => at[u] # "ready"
    BY <1>1, <1>3 DEF Actors
  <2> QED
    BY <1>2, <2>1, <2>2, <2>3 DEF PendingOK
<1>8. CasOK'
  BY <1>1, <1>3 DEF CasOK, Actors
<1>9. OwnerOK' /\ SeenOK'
  <2>1. OwnerOK'
    BY <1>1, <1>2 DEF OwnerOK
  <2>2. SeenOK'
    BY <1>2 DEF SeenOK, HangStep
  <2> QED
    BY <2>1, <2>2
<1>10. Cardinality(Slots(buffer[a])) \in Nat /\ x \in Nat /\ todo[a] \in Nat
       /\ Cardinality(Slots(b)) = Cardinality(Slots(buffer[a])) + x
       /\ Cardinality(Slots(buffer[a])) + todo[a] + (IF at[a] = "chain" THEN 1 ELSE 0)
            = Cardinality(Missing(a))
       /\ x = IF at'[a] = "ready" /\ at[a] = "chain" THEN c + 1 ELSE c
  <2>1. Cardinality(Slots(buffer[a])) \in Nat
    BY <1>1, BufferType, SlotsFinite
  <2>2. todo[a] \in Nat
    BY <1>1, TreeAssumption DEF TypeOK
  <2>3. Cardinality(Slots(buffer[a])) + todo[a] + (IF at[a] = "chain" THEN 1 ELSE 0)
          = Cardinality(Missing(a))
    BY <1>1 DEF ChainOK
  <2> QED
    BY <2>1, <2>2, <2>3 DEF Entered
<1>11. BufferMatchesCalls'
  <2>1. at'[a] = "ready" => Cardinality(Slots(b)) = Cardinality(Missing(a))
    <3>1. at'[a] = "ready" => c = todo[a]
      BY <1>1 DEF GoesOn, Ends
    <3> QED
      BY <1>1, <1>10, <3>1
  <2>2. \A i \in DOMAIN b : b[i].num > 0
    BY DEF Entered, Filled
  <2> QED
    BY <1>2, <1>3, <2>1, <2>2 DEF BufferMatchesCalls
<1>12. ChainOK'
  <2> SUFFICES ASSUME NEW d \in Chaining'
               PROVE  /\ tail'[d] = None <=> used' = 0
                      /\ Cardinality(Slots(buffer'[d])) + todo'[d] + (IF at'[d] = "chain" THEN 1 ELSE 0)
                           = Cardinality(Missing(d)')
                      /\ at'[d] = "chain_full" =>
                           IF buffer'[d] = <<>> THEN tail'[d] = mod'[d]
                                                ELSE parent'[buffer'[d][1].node] = mod'[d]
    BY DEF ChainOK
  <2>0. used' # 0
    BY <1>1
  <2>1. CASE d = a
    <3>1. GoesOn(a, m, c, b) /\ at'[a] = at[a] /\ tail'[a] = m /\ mod' = mod
      BY <2>1 DEF Ends, GoesOn, Chaining
    <3>2. Cardinality(Slots(b)) + todo'[a] + (IF at'[a] = "chain" THEN 1 ELSE 0)
            = Cardinality(Missing(a)')
      <4>1. x = MAX_COUNT /\ todo'[a] = todo[a] - MAX_COUNT
        BY <1>1, <1>10, <3>1 DEF GoesOn
      <4>2. Missing(a)' = Missing(a)
        BY <1>2
      <4> QED
        BY <1>1, <1>10, <3>1, <4>1, <4>2
    <3>3. ASSUME at[a] = "chain_full"
          PROVE  b # <<>> /\ parent'[b[1].node] = mod[a]
      <4>1. buffer[a] \in Seq(Entry) /\ Len(buffer[a]) \in Nat /\ c \in 0..SizeMax
        BY <1>1, BufferType, TreeAssumption
      <4>2. /\ Len(b) = Len(buffer[a]) + 1
            /\ b[Len(buffer[a]) + 1] = [num |-> c, node |-> m]
            /\ \A i \in 1..Len(buffer[a]) : b[i] = buffer[a][i]
        BY <3>1, <4>1, PushSeq DEF GoesOn
      <4>3. b # <<>>
        BY <4>1, <4>2
      <4>4. CASE buffer[a] = <<>>
        <5>1. b[1].node = m /\ tail[a] = mod[a]
          BY <1>1, <3>3, <4>2, <4>4 DEF ChainOK
        <5> QED
          BY <1>2, <4>3, <5>1
      <4>5. CASE buffer[a] # <<>>
        <5>1. 1 \in 1..Len(buffer[a]) /\ 1 \in DOMAIN buffer[a]
          BY <4>1, <4>5, EmptySeq
        <5>2. b[1] = buffer[a][1] /\ buffer[a][1].node \in Live /\ parent[buffer[a][1].node] = mod[a]
          BY <1>1, <3>3, <4>2, <4>5, <5>1 DEF ChainOK, NoDanglingNode
        <5>3. buffer[a][1].node \in Nodes \ {m}
          BY <1>1, <5>2 DEF Live
        <5> QED
          BY <1>2, <4>3, <5>2, <5>3
      <4> QED
        BY <4>4, <4>5
    <3> QED
      BY <1>1, <1>3, <2>0, <2>1, <3>1, <3>2, <3>3
  <2>2. CASE d # a
    <3>1. d \in Actors /\ d \in Chaining /\ used # 0
      BY <1>1, <1>3, <2>2 DEF Chaining
    <3>2. tail'[d] # None
      BY <1>3, <2>2, <3>1 DEF ChainOK
    <3>3. Cardinality(Slots(buffer'[d])) + todo'[d] + (IF at'[d] = "chain" THEN 1 ELSE 0)
            = Cardinality(Missing(d)')
      BY <1>2, <1>3, <2>2, <3>1 DEF ChainOK
    <3>4. ASSUME at[d] = "chain_full"
          PROVE  IF buffer[d] = <<>> THEN tail[d] = mod'[d] ELSE parent'[buffer[d][1].node] = mod'[d]
      <4>1. mod'[d] = mod[d]
        BY <1>3, <2>2, <3>1, <3>4 DEF PendingOK, Actors
      <4>2. buffer[d] # <<>> => parent'[buffer[d][1].node] = parent[buffer[d][1].node]
        <5>1. buffer[d] # <<>> => 1 \in DOMAIN buffer[d]
          BY <3>1, BufferType, EmptySeq, LenProperties
        <5>2. buffer[d] # <<>> => buffer[d][1].node \in Nodes \ {m}
          BY <1>1, <3>1, <5>1 DEF NoDanglingNode, Live
        <5> QED
          BY <1>2, <5>2
      <4> QED
        BY <3>1, <3>4, <4>1, <4>2 DEF ChainOK
    <3> QED
      BY <1>3, <2>0, <2>2, <3>1, <3>2, <3>3, <3>4
  <2> QED
    BY <2>1, <2>2
<1> QED
  BY <1>4, <1>5, <1>6, <1>7, <1>8, <1>9, <1>11, <1>12

\* A push at node n of something that is not zero keeps the buffer filled.
LEMMA PushFilled ==
  ASSUME NEW b \in Seq(Entry), Filled(b), NEW k \in 0..SizeMax, NEW n \in Nodes, k > 0
  PROVE  /\ Filled(Push(b, k, n)) /\ Push(b, k, n) # <<>> /\ Top(Push(b, k, n)) = n
         /\ \A i \in 1..Len(Push(b, k, n)) :
              Push(b, k, n)[i].node = n \/ \E j \in 1..Len(b) : Push(b, k, n)[i].node = b[j].node
<1> DEFINE c == Push(b, k, n)
<1>1. /\ c \in Seq(Entry) /\ Len(c) = Len(b) + 1 /\ Len(b) \in Nat
      /\ c[Len(b) + 1] = [num |-> k, node |-> n]
      /\ \A i \in 1..Len(b) : c[i] = b[i]
  BY PushSeq
<1> HIDE DEF c
<1>2. c # <<>> /\ DOMAIN c = 1..(Len(b) + 1) /\ DOMAIN b = 1..Len(b)
  BY <1>1
<1>3. Top(c) = n
  BY <1>1 DEF Top, Last
<1>4. \A i \in 1..(Len(b) + 1) : i = Len(b) + 1 \/ i \in 1..Len(b)
  BY <1>1
<1> QED
  BY <1>1, <1>2, <1>3, <1>4 DEF Filled, c

LEMMA ChainNodeIInv ==
  ASSUME IInv, NEW a \in Actors, ChainNode(a)
  PROVE  IInv'
<1> USE DEF IInv
<1>1. /\ a \in Chaining /\ MAX_COUNT < todo[a] /\ todo[a] \in 0..SizeMax
      /\ MAX_COUNT \in 0..SizeMax /\ MAX_COUNT \in 0..MAX_COUNT /\ MAX_COUNT > 0 /\ MAX_COUNT \in Nat
  BY TreeAssumption DEF ChainNode, Chaining, TypeOK
<1>2. PICK m \in Nodes : m = used + 1
  BY TreeAssumption DEF ChainNode, NewNode, TypeOK, Nodes
<1>3. PICK b : b = Push(buffer[a], MAX_COUNT, m)
  OBVIOUS
<1>4. buffer[a] \in Seq(Entry) /\ Filled(buffer[a])
  BY BufferType DEF BufferMatchesCalls, Filled
<1>5. /\ used' = m
      /\ mem' = [mem EXCEPT ![m] = "live"] /\ parent' = [parent EXCEPT ![m] = tail[a]]
      /\ count' = [count EXCEPT ![m] = MAX_COUNT] /\ buffer' = [buffer EXCEPT ![a] = b]
      /\ tail' = [tail EXCEPT ![a] = m] /\ todo' = [todo EXCEPT ![a] = todo[a] - MAX_COUNT]
      /\ UNCHANGED <<published, st, mod, view, pending, at, current, empty>>
  BY <1>2, <1>3 DEF ChainNode, NewNode
<1>6. HangStep(a, m, MAX_COUNT, b) /\ GoesOn(a, m, MAX_COUNT, b)
  BY <1>1, <1>2, <1>3, <1>5 DEF HangStep, GoesOn, TypeOK
<1>7. Entered(a, m, MAX_COUNT, b, MAX_COUNT)
  <2>1. b \in Seq(Entry) /\ Filled(b)
    BY <1>1, <1>3, <1>4, PushSeq, PushFilled
  <2>2. \A i \in 1..Len(b) : b[i].node = m \/ b[i].node \in Live
    <3>1. DOMAIN buffer[a] = 1..Len(buffer[a])
      BY <1>4
    <3>2. \A j \in 1..Len(buffer[a]) : buffer[a][j].node \in Live
      BY <3>1 DEF NoDanglingNode
    <3>3. \A i \in 1..Len(b) : b[i].node = m \/ \E j \in 1..Len(buffer[a]) : b[i].node = buffer[a][j].node
      BY <1>1, <1>3, <1>4, PushFilled
    <3> QED
      BY <3>2, <3>3
  <2>3. /\ Cardinality(Slots(b)) = Cardinality(Slots(buffer[a])) + MAX_COUNT
        /\ Cardinality(SlotsAt(b, m)) = Cardinality(SlotsAt(buffer[a], m)) + MAX_COUNT
        /\ \A n : n # m => Cardinality(SlotsAt(b, n)) = Cardinality(SlotsAt(buffer[a], n))
    <3> DEFINE q == Push(buffer[a], MAX_COUNT, m)
    <3>1. /\ Cardinality(Slots(q)) = Cardinality(Slots(buffer[a])) + MAX_COUNT
          /\ Cardinality(SlotsAt(q, m)) = Cardinality(SlotsAt(buffer[a], m)) + MAX_COUNT
      BY <1>1, <1>4, PushSlots
    <3>2. \A n : n # m => Cardinality(SlotsAt(q, n)) = Cardinality(SlotsAt(buffer[a], n))
      BY <1>1, <1>4, PushSlots
    <3> QED
      BY <1>3, <3>1, <3>2
  <2>4. Cardinality(SlotsAt(b, m)) = MAX_COUNT
    <3>1. SlotsAt(buffer[a], m) = {}
      BY <1>2, FreshNode
    <3>2. Cardinality(SlotsAt(buffer[a], m)) = 0
      BY <3>1, FS_EmptySet
    <3> QED
      BY <1>1, <2>3, <3>2
  <2>5. at'[a] # "ready"
    BY <1>1, <1>5 DEF Chaining
  <2> QED
    BY <1>1, <2>1, <2>2, <2>3, <2>4, <2>5 DEF Entered
<1>8. TypeOK'
  <2>1. /\ used' \in 0..MaxNodes /\ MAX_COUNT \in 0..SizeMax /\ todo[a] - MAX_COUNT \in 0..SizeMax
        /\ b \in Seq([num : 0..SizeMax, node : Nodes])
    BY <1>1, <1>2, <1>5, <1>7, TreeAssumption DEF Nodes, Entered, Entry
  <2> QED
    BY <1>2, <1>5, <2>1 DEF TypeOK
<1> QED
  BY <1>1, <1>6, <1>7, <1>8, HangIInv

LEMMA ChainEndIInv ==
  ASSUME IInv, NEW a \in Actors, ChainEnd(a)
  PROVE  IInv'
<1> USE DEF IInv
<1> DEFINE c == todo[a]
           full == at[a] = "chain_full"
           x == IF full THEN c ELSE c + 1
<1>1. /\ a \in Chaining /\ c <= MAX_COUNT /\ c \in Nat /\ c \in 0..MAX_COUNT /\ c \in 0..SizeMax
      /\ c + 1 \in 0..SizeMax /\ c + 1 > 0
  BY TreeAssumption DEF ChainEnd, Chaining, TypeOK
<1>2. PICK m \in Nodes : m = used + 1
  BY TreeAssumption DEF ChainEnd, NewNode, TypeOK, Nodes
<1>3. buffer[a] \in Seq(Entry) /\ Filled(buffer[a]) /\ DOMAIN buffer[a] = 1..Len(buffer[a])
  BY BufferType DEF BufferMatchesCalls, Filled
<1>4. PICK p : p = Push(buffer[a], c + 1, m)
  OBVIOUS
<1>5. PICK b : b = IF full THEN Fetched(p) ELSE p
  OBVIOUS
<1>6. /\ p \in Seq(Entry) /\ Filled(p) /\ p # <<>> /\ Top(p) = m
      /\ \A i \in 1..Len(p) : p[i].node = m \/ p[i].node \in Live
      /\ Cardinality(Slots(p)) = Cardinality(Slots(buffer[a])) + (c + 1)
      /\ Cardinality(SlotsAt(p, m)) = c + 1
      /\ \A n : n # m => Cardinality(SlotsAt(p, n)) = Cardinality(SlotsAt(buffer[a], n))
  <2> HIDE DEF c
  <2>1. /\ p \in Seq(Entry)
        /\ Cardinality(Slots(p)) = Cardinality(Slots(buffer[a])) + (c + 1)
        /\ Cardinality(SlotsAt(p, m)) = Cardinality(SlotsAt(buffer[a], m)) + (c + 1)
        /\ \A n : n # m => Cardinality(SlotsAt(p, n)) = Cardinality(SlotsAt(buffer[a], n))
    <3> DEFINE q == Push(buffer[a], c + 1, m)
    <3>0. q \in Seq(Entry)
      BY <1>1, <1>3, PushSeq
    <3>1. /\ Cardinality(Slots(q)) = Cardinality(Slots(buffer[a])) + (c + 1)
          /\ Cardinality(SlotsAt(q, m)) = Cardinality(SlotsAt(buffer[a], m)) + (c + 1)
      BY <1>1, <1>3, PushSlots
    <3>2. \A n : n # m => Cardinality(SlotsAt(q, n)) = Cardinality(SlotsAt(buffer[a], n))
      BY <1>1, <1>3, PushSlots
    <3> QED
      BY <1>4, <3>0, <3>1, <3>2
  <2>2. /\ Filled(p) /\ p # <<>> /\ Top(p) = m
        /\ \A i \in 1..Len(p) : p[i].node = m \/ \E j \in 1..Len(buffer[a]) : p[i].node = buffer[a][j].node
    BY <1>1, <1>3, <1>4, PushFilled
  <2>3. \A i \in 1..Len(p) : p[i].node = m \/ p[i].node \in Live
    BY <1>3, <2>2 DEF NoDanglingNode
  <2>4. Cardinality(SlotsAt(buffer[a], m)) = 0
    BY <1>2, FreshNode, FS_EmptySet
  <2> QED
    BY <1>1, <2>1, <2>2, <2>3, <2>4
<1>7. /\ b \in Seq(Entry) /\ Filled(b)
      /\ \A i \in 1..Len(b) : b[i].node = m \/ b[i].node \in Live
      /\ Cardinality(Slots(b)) = Cardinality(Slots(buffer[a])) + x
      /\ Cardinality(SlotsAt(b, m)) = x
      /\ \A n : n # m => Cardinality(SlotsAt(b, n)) = Cardinality(SlotsAt(buffer[a], n))
  <2>1. CASE ~full
    BY <1>5, <1>6, <2>1
  <2>2. CASE full
    <3>1. /\ b \in Seq(Entry) /\ Filled(b) /\ Len(b) \in {Len(p), Len(p) - 1}
          /\ \A i \in 1..Len(b) : b[i].node = p[i].node
          /\ Cardinality(Slots(b)) = Cardinality(Slots(p)) - 1
          /\ \A n : Cardinality(SlotsAt(b, n)) = Cardinality(SlotsAt(p, n)) - (IF n = m THEN 1 ELSE 0)
      BY <1>5, <1>6, <2>2, FetchSlots
    <3>2. \A i \in 1..Len(b) : i \in 1..Len(p)
      BY <1>6, <3>1, LenProperties
    <3>3. /\ Cardinality(Slots(buffer[a])) \in Nat
          /\ \A n : Cardinality(SlotsAt(buffer[a], n)) \in Nat
      BY <1>3, SlotsFinite
    <3> HIDE DEF c
    <3>4. Cardinality(Slots(b)) = Cardinality(Slots(buffer[a])) + c /\ Cardinality(SlotsAt(b, m)) = c
      BY <1>1, <1>6, <3>1, <3>3
    <3>5. ASSUME NEW n, n # m
          PROVE  Cardinality(SlotsAt(b, n)) = Cardinality(SlotsAt(buffer[a], n))
      BY <1>6, <3>1, <3>3, <3>5
    <3> QED
      BY <1>6, <2>2, <3>1, <3>2, <3>4, <3>5
  <2> QED
    BY <2>1, <2>2
<1>8. /\ used' = m
      /\ mem' = [mem EXCEPT ![m] = "live"] /\ parent' = [parent EXCEPT ![m] = tail[a]]
      /\ count' = [count EXCEPT ![m] = c] /\ buffer' = [buffer EXCEPT ![a] = b]
      /\ full => mod' = [mod EXCEPT ![a] = m]
      /\ ~full => UNCHANGED mod
      /\ at' = [at EXCEPT ![a] = "ready"] /\ tail' = [tail EXCEPT ![a] = None] /\ todo' = [todo EXCEPT ![a] = 0]
      /\ UNCHANGED <<published, st, view, pending, current, empty>>
  <2>1. p = LastEntry(buffer[a], todo[a], used')
    BY <1>2, <1>4 DEF ChainEnd, NewNode, LastEntry
  <2>2. used' = m
    BY <1>2 DEF ChainEnd, NewNode
  <2>3. /\ full => mod' = [mod EXCEPT ![a] = Top(p)] /\ buffer' = [buffer EXCEPT ![a] = Fetched(p)]
        /\ ~full => buffer' = [buffer EXCEPT ![a] = p] /\ UNCHANGED mod
    BY <2>1 DEF ChainEnd
  <2> QED
    BY <1>5, <1>6, <2>2, <2>3 DEF ChainEnd, NewNode, StartChain
<1>9. HangStep(a, m, c, b) /\ Ends(a, m, c)
  <2>1. a \in Tasks => (full => mod'[a] = m)
    BY <1>8 DEF TypeOK
  <2>2. \A t \in Tasks \ {a} : mod'[t] = mod[t]
    BY <1>8 DEF TypeOK
  <2> QED
    BY <1>1, <1>2, <1>8, <2>1, <2>2 DEF HangStep, Ends, TypeOK
<1>10. Entered(a, m, c, b, x)
  <2>1. at'[a] = "ready" /\ (at[a] = "chain" <=> ~full)
    BY <1>1, <1>8 DEF Chaining, TypeOK
  <2> QED
    BY <1>1, <1>7, <2>1 DEF Entered
<1>11. TypeOK'
  <2>1. used' \in 0..MaxNodes /\ 0 \in 0..SizeMax
    BY <1>2, <1>8, TreeAssumption DEF Nodes
  <2>2. mod' \in [Tasks -> Nodes \cup {None}]
    BY <1>8 DEF TypeOK
  <2>3. buffer' \in [Actors -> Seq([num : 0..SizeMax, node : Nodes])]
    BY <1>7, <1>8 DEF TypeOK, Entry
  <2> QED
    BY <1>1, <1>2, <1>8, <2>1, <2>2, <2>3 DEF TypeOK
<1> QED
  BY <1>1, <1>9, <1>10, <1>11, HangIInv

-----------------------------------------------------------------------------
(***************************************************************************)
(* The theorems about the invariants.                                      *)
(***************************************************************************)
LEMMA InitIInv == Init => IInv
<1> SUFFICES ASSUME Init PROVE IInv
  OBVIOUS
<1>1. /\ Live = {} /\ Chaining = {} /\ \A T \in SUBSET (Status \ {"idle"}) : In(T) = {}
      /\ Main \in Actors
  BY DEF Init, Live, Chaining, In, Status, Actors
<1>2. TypeOK
  <2>1. 0 \in 0..MaxNodes /\ 0 \in 0..SizeMax /\ 0 \in 0..MaxEmpty
    BY TreeAssumption
  <2>2. <<>> \in Seq([num : 0..SizeMax, node : Nodes])
    OBVIOUS
  <2> QED
    BY <2>1, <2>2 DEF Init, TypeOK, Status
<1>3. Conservation /\ CountBounded /\ LastOK /\ OwnerOK /\ SeenOK /\ NoDanglingNode
  <2>1. /\ In({"last"}) = {} /\ In({"owner", "called"}) = {} /\ In(Joined) = {}
        /\ In({"running", "climbing", "last"}) = {}
    BY <1>1 DEF Status, Joined
  <2>2. \A a \in Actors : DOMAIN buffer[a] = {}
    BY DEF Init
  <2> QED
    BY <1>1, <2>1, <2>2 DEF Conservation, CountBounded, LastOK, OwnerOK, SeenOK, NoDanglingNode
<1>4. BufferMatchesCalls /\ ChainOK
  <2>1. \A a \in Actors : Missing(a) = {} /\ buffer[a] = <<>>
    BY <1>1 DEF Init, Missing, Status
  <2>2. ASSUME NEW a \in Actors
        PROVE  /\ Cardinality(Slots(buffer[a])) = Cardinality(Missing(a))
               /\ DOMAIN buffer[a] = {}
    <3>1. Slots(buffer[a]) = {} /\ DOMAIN buffer[a] = {}
      BY <2>1, SlotsEmpty
    <3> QED
      BY <2>1, <3>1
  <2>3. BufferMatchesCalls
    BY <2>2 DEF BufferMatchesCalls
  <2> QED
    BY <1>1, <2>3 DEF ChainOK
<1>5. StartOK /\ MemOK
  <2>1. \A n \in Nodes : n > 0
    BY DEF Nodes
  <2> QED
    BY <2>1 DEF Init, StartOK, MemOK, Idle, In, Nodes
<1>6. PendingOK /\ CasOK
  BY <1>1 DEF Init, PendingOK, CasOK, In, Actors
<1> QED
  BY <1>2, <1>3, <1>4, <1>5, <1>6 DEF IInv

LEMMA NextIInv == IInv /\ [Next]_vars => IInv'
<1> SUFFICES ASSUME IInv, [Next]_vars PROVE IInv'
  OBVIOUS
<1>1. CASE UNCHANGED vars
  BY <1>1, TreeStutters
<1>2. CASE Abandon
  BY <1>2, AbandonIInv
<1>3. CASE \E S \in SUBSET Tasks : Invoke(S)
  BY <1>3, InvokeIInv
<1>4. CASE \E a \in Actors : ChainNode(a) \/ ChainEnd(a)
  BY <1>4, ChainNodeIInv, ChainEndIInv
<1>5. CASE \E a \in Actors, t \in Tasks : Launch(a, t)
  BY <1>5, LaunchIInv
<1>6. CASE \E t \in Tasks, S \in SUBSET Tasks : IncreaseLoad(t, S)
  BY <1>6, IncreaseLoadIInv
<1>7. CASE \E t \in Tasks : IncreaseFull(t) \/ CasFails(t) \/ CasSucceeds(t)
  BY <1>7, IncreaseFullIInv, CasFailsIInv, CasSucceedsIInv
<1>8. CASE \E t \in Tasks : FetchSub(t) \/ Reclaim(t) \/ Callback(t)
  BY <1>8, FetchSubIInv, ReclaimIInv, CallbackIInv
<1> QED
  BY <1>1, <1>2, <1>3, <1>4, <1>5, <1>6, <1>7, <1>8 DEF Next

\* The inductive invariant holds of every reachable state.
THEOREM TreeIInv == Spec => []IInv
BY InitIInv, NextIInv, PTL DEF Spec

\* In particular no count wraps below 0 or above SizeMax.
THEOREM TreeTypeOK == Spec => []TypeOK
<1>1. IInv => TypeOK
  BY DEF IInv
<1> QED
  BY <1>1, TreeIInv, PTL

\* Every live node of TreeAtomicCounter answers for exactly the tokens that
\* tasks, buffers, children and chains under construction hold of it.
THEOREM TreeConservation == Spec => []Conservation
<1>1. IInv => Conservation
  BY DEF IInv
<1> QED
  BY <1>1, TreeIInv, PTL

\* increase() never makes a node count above MAX_COUNT, whatever is raced.
THEOREM TreeCountBounded == Spec => []CountBounded
<1>1. IInv => CountBounded
  BY DEF IInv
<1> QED
  BY <1>1, TreeIInv, PTL

\* decrement() deletes a node only when no modifier, buffer, child or chain
\* leads to it any more.
THEOREM TreeNoDanglingNode == Spec => []NoDanglingNode
<1>1. IInv => NoDanglingNode
  BY DEF IInv
<1> QED
  BY <1>1, TreeIInv, PTL

\* increase() and the initializer fill the buffer with a modifier for every
\* callable to be called, and fetch() never meets an entry with a zero.
THEOREM TreeBufferMatchesCalls == Spec => []BufferMatchesCalls
<1>1. IInv => BufferMatchesCalls
  BY DEF IInv
<1> QED
  BY <1>1, TreeIInv, PTL

\* The effects of all tasks climb the tree to the callback.
THEOREM TreeCallbackSeesAllTasks == Spec => []CallbackSeesAllTasks
<1>1. IInv => CallbackSeesAllTasks
  <2> SUFFICES ASSUME IInv, NEW t \in In({"owner", "called"}), NEW u \in Tasks \ Idle
               PROVE  u \in view[t]
    BY DEF CallbackSeesAllTasks
  <2>1. /\ Live = {} /\ \A w \in Tasks \ {t} : st[w] \in {"idle", "joined"}
        /\ t \in Tasks /\ st[t] \in {"owner", "called"}
    BY DEF IInv, OwnerOK, In
  <2>2. u \in In(Joined)
    BY <2>1 DEF In, Joined, Idle
  <2>3. PICK w \in In(Joined \ {"joined"}) : u \in view[w]
    BY <2>1, <2>2 DEF IInv, SeenOK
  <2>4. w = t
    BY <2>1, <2>3 DEF In, Joined
  <2> QED
    BY <2>3, <2>4
<1> QED
  BY <1>1, TreeIInv, PTL

\* Without a modifier in anybody's hands there is no node, as the one that was
\* allocated last has nothing to answer for.
LEMMA NoHandsNoNodes ==
  ASSUME IInv, In({"running", "climbing", "last"}) = {}, Chaining = {},
         \A a \in Actors : buffer[a] = <<>>
  PROVE  Live = {}
<1> USE DEF IInv
<1> SUFFICES ASSUME Live # {} PROVE FALSE
  OBVIOUS
<1>1. /\ used \in Nat /\ MaxNodes \in Nat
      /\ \A n \in Live : n \in Nodes /\ n \in Nat /\ n >= 1 /\ n <= used
  BY TreeAssumption DEF Live, MemOK, Nodes, TypeOK
<1> DEFINE T == {used - n : n \in Live}
<1>2. T \subseteq Nat /\ T # {}
  BY <1>1
<1>3. PICK k \in T : \A y \in T : ~(<<y, k>> \in OpToRel(<, Nat))
  <2> HIDE DEF T
  <2> QED
    BY <1>2, NatLessThanWellFounded, WFMin
<1>4. PICK x \in Live : k = used - x
  OBVIOUS
<1>5. \A n \in Live : n <= x
  <2> SUFFICES ASSUME NEW n \in Live, n > x PROVE FALSE
    BY <1>1
  <2>1. used - n \in T /\ used - n \in Nat /\ k \in Nat /\ used - n < k
    BY <1>1, <1>4
  <2>2. <<used - n, k>> \in OpToRel(<, Nat)
    BY <2>1 DEF OpToRel
  <2> QED
    BY <1>3, <2>1, <2>2
<1>6. Children(x) = {}
  <2> SUFFICES ASSUME NEW c \in Live, parent[c] = x PROVE FALSE
    BY DEF Children
  <2>1. c # 1
    BY <1>1, TreeAssumption DEF MemOK, Nodes
  <2>2. parent[c] \in 1..(c - 1)
    BY <1>1, <2>1 DEF MemOK
  <2> QED
    BY <1>1, <1>5, <2>2
<1>7. Holders(x) = {} /\ Chains(x) = {} /\ ~AtZero(x)
  BY DEF Holders, In, Chains, AtZero
<1>8. InBuffers(x) = {}
  BY SlotsEmpty DEF InBuffers
<1>9. Tokens(x) = 0
  BY <1>6, <1>7, <1>8, FS_EmptySet DEF Tokens
<1>10. Tokens(x) = count[x] + 1 /\ count[x] \in Nat
  BY <1>1, <1>7, TreeAssumption DEF Conservation, AtZero, TypeOK
<1> QED
  BY <1>9, <1>10

\* The invocation cannot come to a stop before its callback: however increases are
\* split over nodes and decrements climb, somebody is left to take the next step.
THEOREM TreeSomebodyGoesOn == Spec => []SomebodyGoesOn
<1>1. IInv => SomebodyGoesOn
  <2> USE DEF IInv
  <2> SUFFICES ASSUME IInv, NEW t \in Tasks, st[t] # "idle",
                      In({"running", "last", "climbing", "owner", "called", "lost"}) = {},
                      \A a \in Actors : pending[a] = {}
               PROVE  FALSE
    BY DEF SomebodyGoesOn, Idle, In
  <2>1. \A u \in Tasks : st[u] \in {"idle", "joined"}
    BY DEF PendingOK, In, TypeOK, Status
  <2>2. \A u \in Tasks : at[u] = "ready" /\ u \in Actors
    BY <2>1 DEF PendingOK, Actors
  <2>3. \A a \in Actors : Missing(a) = {}
    BY <2>1 DEF Missing, In
  <2>4. Main \in Actors /\ at[Main] = "ready"
    <3>1. Main \in Actors
      BY DEF Actors
    <3>2. SUFFICES ASSUME at[Main] = "chain" PROVE FALSE
      BY <3>1 DEF PendingOK
    <3>3. Cardinality(Slots(buffer[Main])) + todo[Main] + 1 = 0
      BY <2>3, <3>1, <3>2, FS_EmptySet DEF ChainOK, Chaining
    <3>4. Cardinality(Slots(buffer[Main])) \in Nat
      BY <3>1, BufferType, SlotsFinite
    <3>5. todo[Main] \in Nat
      BY <3>1, TreeAssumption DEF TypeOK
    <3> QED
      BY <3>3, <3>4, <3>5
  <2>5. \A a \in Actors : at[a] = "ready"
    BY <2>2, <2>4 DEF Actors
  <2>6. \A a \in Actors : buffer[a] = <<>>
    BY <2>3, <2>5, BufferType, FilledSlots, FS_EmptySet DEF BufferMatchesCalls, Filled
  <2>7. Live = {}
    BY <2>1, <2>5, <2>6, NoHandsNoNodes DEF In, Chaining
  <2>8. t \in In(Joined) /\ In(Joined \ {"joined"}) = {}
    BY <2>1 DEF In, Joined
  <2> QED
    BY <2>7, <2>8 DEF SeenOK
<1> QED
  BY <1>1, TreeIInv, PTL

(***************************************************************************)
(* The refinement of ForkJoin, step by step.                               *)
(***************************************************************************)
LEMMA TreeInitFJ == Init => FJ!Init
BY DEF Init, FJ!Init, In

LEMMA TreeInvokeFJ ==
  ASSUME IInv, NEW S \in SUBSET Tasks, Invoke(S)
  PROVE  FJ!Next
<1>1. \A t \in Tasks : st[t] = "idle" /\ st'[t] = (IF t \in S THEN "queued" ELSE "idle")
  BY DEF Invoke, Enqueue, IInv, StartOK, Idle, In, TypeOK
<1>2. /\ In({"queued", "running", "lost"}) = {} /\ In({"queued", "running", "lost"})' = S
      /\ In({"joined", "last", "climbing", "owner", "called"}) = {}
      /\ In({"joined", "last", "climbing", "owner", "called"})' = {}
      /\ In({"called"}) = {} /\ In({"called"})' = {}
  BY <1>1 DEF In
<1>3. FJ!Begin(S)
  BY <1>2 DEF FJ!Begin, Invoke
<1> QED
  BY <1>3 DEF FJ!Next

LEMMA TreeForkFJ ==
  ASSUME IInv, NEW t \in Tasks, NEW S \in SUBSET Tasks, IncreaseLoad(t, S)
  PROVE  FJ!Next
<1>1. /\ st[t] = "running" /\ \A u \in S : st[u] = "idle"
      /\ \A u \in Tasks : st'[u] = IF u \in S THEN "queued" ELSE st[u]
  BY DEF IncreaseLoad, Enqueue, Idle, In
<1>2. /\ t \in In({"queued", "running", "lost"})
      /\ In({"queued", "running", "lost"})' = In({"queued", "running", "lost"}) \cup S
      /\ In({"joined", "last", "climbing", "owner", "called"})'
           = In({"joined", "last", "climbing", "owner", "called"})
      /\ In({"called"})' = In({"called"})
      /\ S \cap In({"queued", "running", "lost"}) = {}
      /\ S \cap In({"joined", "last", "climbing", "owner", "called"}) = {}
  BY <1>1 DEF In
<1>3. FJ!Fork(t, S)
  BY <1>2 DEF FJ!Fork
<1> QED
  BY <1>3 DEF FJ!Next

\* The first fetch_sub of a task is its join; those of a climb are not seen.
LEMMA TreeJoinFJ ==
  ASSUME IInv, NEW t \in Tasks, FetchSub(t)
  PROVE  [FJ!Next]_FJ!vars
<1>1. /\ st[t] \in {"running", "climbing"} /\ st'[t] \in {"last", "joined"}
      /\ \A u \in Tasks \ {t} : st'[u] = st[u]
  BY DEF FetchSub, IInv, TypeOK
<1>2. /\ In({"queued", "running", "lost"})' = In({"queued", "running", "lost"}) \ {t}
      /\ In({"joined", "last", "climbing", "owner", "called"})'
           = In({"joined", "last", "climbing", "owner", "called"}) \cup {t}
      /\ In({"called"})' = In({"called"})
  BY <1>1 DEF In
<1>3. CASE st[t] = "running"
  <2>1. t \in In({"queued", "running", "lost"})
    BY <1>3 DEF In
  <2>2. FJ!Join(t)
    BY <1>2, <2>1 DEF FJ!Join
  <2> QED
    BY <2>2 DEF FJ!Next
<1>4. CASE st[t] = "climbing"
  <2>1. /\ t \notin In({"queued", "running", "lost"})
        /\ t \in In({"joined", "last", "climbing", "owner", "called"})
    BY <1>4 DEF In
  <2> QED
    BY <1>2, <2>1 DEF FJ!vars
<1> QED
  BY <1>1, <1>3, <1>4

LEMMA TreeCallbackFJ ==
  ASSUME IInv, NEW t \in Tasks, Callback(t)
  PROVE  FJ!Next
<1>1. /\ st[t] = "owner" /\ \A u \in Tasks \ {t} : st[u] \in {"idle", "joined"} /\ st'[u] = st[u]
      /\ st'[t] = "called"
  BY DEF IInv, OwnerOK, Callback, In, TypeOK
<1>2. /\ In({"queued", "running", "lost"}) = {} /\ In({"queued", "running", "lost"})' = {}
      /\ In({"joined", "last", "climbing", "owner", "called"})'
           = In({"joined", "last", "climbing", "owner", "called"})
      /\ t \in In({"joined", "last", "climbing", "owner", "called"})
      /\ In({"called"}) = {} /\ In({"called"})' = {t}
  BY <1>1 DEF In
<1>3. FJ!Fire
  BY <1>2 DEF FJ!Fire
<1> QED
  BY <1>3 DEF FJ!Next

\* Moves of a task that its user does not see.
Silent(u) ==
  \/ st'[u] = st[u]
  \/ st[u] = "queued" /\ st'[u] \in {"running", "lost"}
  \/ st[u] = "last" /\ st'[u] \in {"climbing", "owner"}

LEMMA SilentMoves ==
  ASSUME \A u \in Tasks : Silent(u)
  PROVE  UNCHANGED FJ!vars
<1>1. /\ In({"queued", "running", "lost"})' = In({"queued", "running", "lost"})
      /\ In({"joined", "last", "climbing", "owner", "called"})'
           = In({"joined", "last", "climbing", "owner", "called"})
      /\ In({"called"})' = In({"called"})
  BY DEF In, Silent
<1> QED
  BY <1>1 DEF FJ!vars

LEMMA TreeSilentFJ ==
  ASSUME IInv,
         \/ Abandon
         \/ \E a \in Actors : ChainNode(a) \/ ChainEnd(a)
         \/ \E a \in Actors, t \in Tasks : Launch(a, t)
         \/ \E t \in Tasks : IncreaseFull(t) \/ CasFails(t) \/ CasSucceeds(t)
         \/ \E t \in Tasks : Reclaim(t)
  PROVE  UNCHANGED FJ!vars
<1>1. /\ st \in [Tasks -> Status] /\ Main \in Actors
      /\ \A a \in Actors : \A t \in pending[a] : st[t] = "queued"
  BY DEF IInv, PendingOK, TypeOK, Actors
<1>2. CASE Abandon
  <2>1. \A u \in Tasks : Silent(u)
    BY <1>1, <1>2 DEF Abandon, Silent
  <2> QED
    BY <2>1, SilentMoves
<1>3. ASSUME NEW a \in Actors, NEW t \in Tasks, Launch(a, t)
      PROVE  UNCHANGED FJ!vars
  <2>1. \A u \in Tasks : Silent(u)
    BY <1>1, <1>3 DEF Launch, Silent
  <2> QED
    BY <2>1, SilentMoves
<1>4. ASSUME NEW t \in Tasks, Reclaim(t)
      PROVE  UNCHANGED FJ!vars
  <2>1. \A u \in Tasks : Silent(u)
    BY <1>1, <1>4 DEF Reclaim, Silent
  <2> QED
    BY <2>1, SilentMoves
<1>5. ASSUME UNCHANGED st
      PROVE  UNCHANGED FJ!vars
  BY <1>5, SilentMoves DEF Silent
<1>6. CASE \E a \in Actors : ChainNode(a) \/ ChainEnd(a)
  BY <1>5, <1>6 DEF ChainNode, ChainEnd
<1>7. CASE \E t \in Tasks : IncreaseFull(t) \/ CasFails(t) \/ CasSucceeds(t)
  BY <1>5, <1>7 DEF IncreaseFull, CasFails, CasSucceeds
<1> QED
  BY <1>2, <1>3, <1>4, <1>6, <1>7

\* Every behaviour of the tree is, seen through the mapping, a behaviour of
\* ForkJoin: the safety half of ImplementsForkJoin, the run has the other.
THEOREM TreeRefinesForkJoin == Spec => FJ!SafeSpec
<1>1. IInv /\ [Next]_vars => [FJ!Next]_FJ!vars
  <2> SUFFICES ASSUME IInv, [Next]_vars PROVE [FJ!Next]_FJ!vars
    OBVIOUS
  <2>1. CASE UNCHANGED vars
    BY <2>1, SilentMoves DEF vars, Silent
  <2>2. CASE Next
    <3>1. CASE \E S \in SUBSET Tasks : Invoke(S)
      BY <3>1, TreeInvokeFJ
    <3>2. CASE \E t \in Tasks, S \in SUBSET Tasks : IncreaseLoad(t, S)
      BY <3>2, TreeForkFJ
    <3>3. CASE \E t \in Tasks : FetchSub(t) \/ Callback(t)
      BY <3>3, TreeJoinFJ, TreeCallbackFJ
    <3> QED
      BY <2>2, <3>1, <3>2, <3>3, TreeSilentFJ DEF Next
  <2> QED
    BY <2>1, <2>2
<1> QED
  BY TreeInitFJ, <1>1, TreeIInv, PTL DEF Spec, FJ!SafeSpec
=============================================================================
