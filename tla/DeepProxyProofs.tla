--------------------------- MODULE DeepProxyProofs ---------------------------
(***************************************************************************)
(* For any cells and objects: the operations of DeepWrapper hand the       *)
(* objects of a memory on as they should, whatever memory it is; so every  *)
(* object has one owner, nothing is destroyed twice but for an assignment  *)
(* that threw, and a DeepProxy implements ValueCells.                      *)
(***************************************************************************)
EXTENDS DeepProxy, FiniteSetTheorems, TLAPS

-----------------------------------------------------------------------------
(***************************************************************************)
(* What the operations of DeepWrapper do to a memory.                      *)
(***************************************************************************)
\* The value in a cell, as its user sees it.
View(m, c) ==
  IF m.holder[c] = None \/ m.value[m.holder[c]].state = "moved" THEN Without("moved")
  ELSE m.value[m.holder[c]]

\* The cells of D see and hold in n what they did in m, and so do the cells
\* that have no object.
Same(m, n, D, c) ==
  /\ \A d \in D \ {c} : View(n, d) = View(m, d) /\ n.holder[d] = m.holder[d]
  /\ \A d \in Cells : d # c /\ m.holder[d] \notin Ids => n.holder[d] = m.holder[d]

LEMMA MemoryOf ==
  ASSUME NEW m \in Memories
  PROVE  /\ m.holder \in [Cells -> Ids \cup {None, Rubble}]
         /\ m.place \in [Ids -> Cells \cup {"heap"}]
         /\ m.life \in [Ids -> {"dead", "live"}]
         /\ m.value \in [Ids -> Objects]
BY DEF Memories

\* There is a name left for an object of a cell that has none.
LEMMA UnusedExists ==
  ASSUME NEW m \in Memories, NEW D \in SUBSET Cells, NEW c \in Cells \ D, Owned(m, D)
  PROVE  Unused(m) \in Ids /\ m.life[Unused(m)] = "dead"
<1> DEFINE live == {o \in Ids : m.life[o] = "live"}
           owner == [o \in live |-> CHOOSE d \in D : m.holder[d] = o]
<1>1. \A o \in live : owner[o] \in D /\ m.holder[owner[o]] = o
  BY DEF Owned
<1>2. owner \in Injection(live, D)
  <2>1. owner \in [live -> D]
    BY <1>1
  <2>2. \A o, p \in live : owner[o] = owner[p] => o = p
    BY <1>1
  <2> HIDE DEF owner, live
  <2> QED
    BY <2>1, <2>2 DEF Injection, IsInjective
<1>3. /\ IsFiniteSet(Cells) /\ IsFiniteSet(Ids) /\ Cardinality(Ids) >= Cardinality(Cells)
      /\ Cardinality(Ids) \in Nat /\ Cardinality(Cells) \in Nat
  BY DeepProxyAssumption, FS_CardinalityType
<1>4. /\ IsFiniteSet(Cells \ {c}) /\ Cardinality(Cells \ {c}) = Cardinality(Cells) - 1
      /\ D \subseteq Cells \ {c}
  BY <1>3, FS_RemoveElement
<1>5. IsFiniteSet(D) /\ Cardinality(D) <= Cardinality(Cells) - 1
  BY <1>4, FS_Subset
<1> HIDE DEF owner
<1>6. IsFiniteSet(live) /\ Cardinality(live) <= Cardinality(D)
  BY <1>2, <1>5, FS_Injection
<1>7. live # Ids
  <2>1. Cardinality(live) \in Nat /\ Cardinality(D) \in Nat
    BY <1>5, <1>6, FS_CardinalityType
  <2> HIDE DEF live
  <2> QED
    BY <1>3, <1>5, <1>6, <2>1
<1>8. \E o \in Ids : m.life[o] = "dead"
  BY <1>7, MemoryOf
<1> QED
  BY <1>8 DEF Unused

LEMMA InitNullHands ==
  ASSUME NEW m \in Memories, NEW D \in SUBSET Cells, NEW c \in Cells \ D, Owned(m, D)
  PROVE  LET n == InitNull(m, c)
         IN  /\ n \in Memories /\ Owned(n, D \cup {c}) /\ Same(m, n, D, c)
             /\ n.holder[c] = None
<1> DEFINE n == InitNull(m, c)
<1>0. /\ m.holder \in [Cells -> Ids \cup {None, Rubble}]
      /\ m.place \in [Ids -> Cells \cup {"heap"}]
      /\ m.life \in [Ids -> {"dead", "live"}]
      /\ m.value \in [Ids -> Objects]
  BY MemoryOf
<1>1. n = [holder |-> [m.holder EXCEPT ![c] = None], place |-> m.place, life |-> m.life, value |-> m.value]
  BY DEF InitNull, Memories
<1>2. /\ n.holder = [m.holder EXCEPT ![c] = None] /\ n.place = m.place
      /\ n.life = m.life /\ n.value = m.value
  BY <1>1
<1>3. n \in Memories
  BY <1>0, <1>1 DEF Memories
<1> HIDE DEF n
<1>4. n.holder[c] = None /\ \A d \in Cells \ {c} : n.holder[d] = m.holder[d]
  BY <1>0, <1>2
<1>5. Owned(n, D \cup {c})
  BY <1>2, <1>4, DeepProxyAssumption DEF Owned
<1>6. Same(m, n, D, c)
  BY <1>2, <1>4 DEF Same, View
<1> QED
  BY <1>3, <1>4, <1>5, <1>6 DEF n

LEMMA InitObjectHands ==
  ASSUME NEW m \in Memories, NEW D \in SUBSET Cells, NEW c \in Cells \ D, Owned(m, D),
         NEW x \in Objects
  PROVE  LET n == InitObject(m, c, x)
         IN  /\ n \in Memories /\ Owned(n, D \cup {c}) /\ Same(m, n, D, c)
             /\ n.holder[c] \in Ids /\ n.value[n.holder[c]] = x
             /\ n.holder[c] = Unused(m)
<1> DEFINE n == InitObject(m, c, x)
           o == Unused(m)
           p == IF x.size = "small" THEN c ELSE "heap"
<1>0. /\ m.holder \in [Cells -> Ids \cup {None, Rubble}]
      /\ m.place \in [Ids -> Cells \cup {"heap"}]
      /\ m.life \in [Ids -> {"dead", "live"}]
      /\ m.value \in [Ids -> Objects]
  BY MemoryOf
<1>1. o \in Ids /\ m.life[o] = "dead" /\ p \in {c, "heap"}
  BY UnusedExists
<1>2. n = [holder |-> [m.holder EXCEPT ![c] = o], place |-> [m.place EXCEPT ![o] = p],
           life |-> [m.life EXCEPT ![o] = "live"], value |-> [m.value EXCEPT ![o] = x]]
  <2>1. n = [m EXCEPT !.holder[c] = o, !.place[o] = p, !.life[o] = "live", !.value[o] = x]
    BY DEF InitObject
  <2> HIDE DEF n, o, p
  <2>2. m = [holder |-> m.holder, place |-> m.place, life |-> m.life, value |-> m.value]
    BY DEF Memories
  <2> QED
    BY <2>1, <2>2
<1> HIDE DEF o, p
<1>3. /\ n.holder = [m.holder EXCEPT ![c] = o] /\ n.place = [m.place EXCEPT ![o] = p]
      /\ n.life = [m.life EXCEPT ![o] = "live"] /\ n.value = [m.value EXCEPT ![o] = x]
  BY <1>2
<1>4. n \in Memories
  BY <1>0, <1>1, <1>2 DEF Memories
<1> HIDE DEF n
<1>5. n.holder[c] = o /\ \A d \in Cells \ {c} : n.holder[d] = m.holder[d]
  BY <1>0, <1>3
<1>6. /\ n.life[o] = "live" /\ n.place[o] = p /\ n.value[o] = x
      /\ \A q \in Ids : q # o =>
           n.life[q] = m.life[q] /\ n.place[q] = m.place[q] /\ n.value[q] = m.value[q]
  BY <1>0, <1>1, <1>3
<1>7. \A d \in D : m.holder[d] # o /\ d # c
  BY <1>1, DeepProxyAssumption DEF Owned
<1>8. Owned(n, D \cup {c})
  <2>1. \A q \in Ids : n.life[q] = "live" => \E d \in D \cup {c} : n.holder[d] = q
    BY <1>1, <1>5, <1>6, <1>7 DEF Owned
  <2>2. ASSUME NEW d \in D, m.holder[d] # None
        PROVE  /\ n.holder[d] \in Ids /\ n.life[n.holder[d]] = "live"
               /\ n.place[n.holder[d]] \in {"heap", d}
               /\ \A e \in D \cup {c} : n.holder[e] = n.holder[d] => e = d
    BY <1>1, <1>5, <1>6, <1>7, <2>2 DEF Owned
  <2>3. /\ n.holder[c] \in Ids /\ n.life[n.holder[c]] = "live"
        /\ n.place[n.holder[c]] \in {"heap", c}
        /\ \A e \in D \cup {c} : n.holder[e] = n.holder[c] => e = c
    BY <1>1, <1>5, <1>6, <1>7
  <2> QED
    BY <1>5, <1>7, <2>1, <2>2, <2>3 DEF Owned
<1>9. Same(m, n, D, c)
  <2>1. \A d \in D : n.holder[d] = m.holder[d] /\ View(n, d) = View(m, d)
    BY <1>5, <1>6, <1>7 DEF View, Owned
  <2> QED
    BY <1>5, <2>1 DEF Same
<1> QED
  BY <1>1, <1>4, <1>5, <1>6, <1>8, <1>9 DEF n, o

\* It leaves the values of the other objects as they are.
LEMMA InitObjectKeeps ==
  ASSUME NEW m \in Memories, NEW c \in Cells, NEW x \in Objects, NEW o \in Ids, o # Unused(m)
  PROVE  InitObject(m, c, x).value[o] = m.value[o]
<1> DEFINE u == Unused(m)
           p == IF x.size = "small" THEN c ELSE "heap"
<1>1. m.value \in [Ids -> Objects]
  BY MemoryOf
<1>2. InitObject(m, c, x) = [m EXCEPT !.holder[c] = u, !.place[u] = p, !.life[u] = "live", !.value[u] = x]
  BY DEF InitObject
<1>3. m = [holder |-> m.holder, place |-> m.place, life |-> m.life, value |-> m.value]
  BY DEF Memories
<1> HIDE DEF u, p
<1>4. InitObject(m, c, x).value = [m.value EXCEPT ![u] = x]
  BY <1>2, <1>3
<1>5. o # u
  BY DEF u
<1> QED
  BY <1>1, <1>4, <1>5

LEMMA DeinitHands ==
  ASSUME NEW m \in Memories, NEW D \in SUBSET Cells, NEW c \in D, Owned(m, D)
  PROVE  LET n == Deinit(m, c)
         IN  /\ n \in Memories /\ Owned(n, D \ {c}) /\ Same(m, n, D, c)
             /\ n.holder[c] \in {None, Rubble} /\ ~Misses(m, c)
<1> DEFINE n == Deinit(m, c)
           o == m.holder[c]
<1>0. /\ m.holder \in [Cells -> Ids \cup {None, Rubble}]
      /\ m.place \in [Ids -> Cells \cup {"heap"}]
      /\ m.life \in [Ids -> {"dead", "live"}]
      /\ m.value \in [Ids -> Objects]
  BY MemoryOf
<1>1. ~Misses(m, c)
  BY DeepProxyAssumption DEF Misses, Owned
<1>2. CASE o \notin Ids
  <2>1. n = m /\ o = None
    BY <1>0, <1>2 DEF Deinit, Owned
  <2>2. Owned(m, D \ {c})
    BY <2>1, DeepProxyAssumption DEF Owned
  <2> QED
    BY <1>1, <2>1, <2>2 DEF Same
<1>3. CASE o \in Ids
  <2>1. n = [holder |-> [m.holder EXCEPT ![c] = Rubble], place |-> [m.place EXCEPT ![o] = "heap"],
             life |-> [m.life EXCEPT ![o] = "dead"],
             value |-> [m.value EXCEPT ![o] = NewObject("small")]]
    <3>1. n = [End(m, o) EXCEPT !.holder[c] = Rubble]
      BY <1>3 DEF Deinit
    <3>2. m = [holder |-> m.holder, place |-> m.place, life |-> m.life, value |-> m.value]
      BY DEF Memories
    <3> HIDE DEF n, o
    <3>3. End(m, o) = [holder |-> m.holder, place |-> [m.place EXCEPT ![o] = "heap"],
                       life |-> [m.life EXCEPT ![o] = "dead"],
                       value |-> [m.value EXCEPT ![o] = NewObject("small")]]
      <4>1. End(m, o) = [m EXCEPT !.life[o] = "dead", !.place[o] = "heap",
                                  !.value[o] = NewObject("small")]
        BY DEF End
      <4> QED
        BY <3>2, <4>1
    <3> QED
      BY <3>1, <3>3
  <2>2. /\ n.holder = [m.holder EXCEPT ![c] = Rubble] /\ n.place = [m.place EXCEPT ![o] = "heap"]
        /\ n.life = [m.life EXCEPT ![o] = "dead"]
        /\ n.value = [m.value EXCEPT ![o] = NewObject("small")]
    BY <2>1
  <2>3. n \in Memories
    <3>1. NewObject("small") \in Objects
      BY DEF NewObject, Objects, Sizes
    <3> HIDE DEF n, o
    <3>2. /\ n.holder \in [Cells -> Ids \cup {None, Rubble}]
          /\ n.place \in [Ids -> Cells \cup {"heap"}]
          /\ n.life \in [Ids -> {"dead", "live"}]
          /\ n.value \in [Ids -> Objects]
      BY <1>0, <1>3, <2>2, <3>1
    <3> QED
      BY <2>1, <2>2, <3>2 DEF Memories
  <2> HIDE DEF n
  <2>4. n.holder[c] = Rubble /\ \A d \in Cells : d # c => n.holder[d] = m.holder[d]
    BY <1>0, <2>2
  <2>5. /\ n.life[o] = "dead"
        /\ \A q \in Ids : q # o =>
             n.life[q] = m.life[q] /\ n.place[q] = m.place[q] /\ n.value[q] = m.value[q]
    BY <1>0, <1>3, <2>2
  <2>6. \A d \in D \ {c} : m.holder[d] # o
    BY <1>3, DeepProxyAssumption DEF Owned
  <2>7. Owned(n, D \ {c})
    <3>1. ASSUME NEW q \in Ids, n.life[q] = "live"
          PROVE  \E d \in D \ {c} : n.holder[d] = q
      <4>1. q # o /\ m.life[q] = "live"
        BY <2>5, <3>1
      <4>2. PICK d \in D : m.holder[d] = q
        BY <4>1 DEF Owned
      <4> QED
        BY <2>4, <4>1, <4>2
    <3>2. ASSUME NEW d \in D \ {c}, n.holder[d] # None
          PROVE  /\ n.holder[d] \in Ids /\ n.life[n.holder[d]] = "live"
                 /\ n.place[n.holder[d]] \in {"heap", d}
                 /\ \A e \in D \ {c} : n.holder[e] = n.holder[d] => e = d
      BY <2>4, <2>5, <2>6, <3>2 DEF Owned
    <3> QED
      BY <3>1, <3>2 DEF Owned
  <2>8. Same(m, n, D, c)
    <3>1. ASSUME NEW d \in D \ {c}
          PROVE  View(n, d) = View(m, d) /\ n.holder[d] = m.holder[d]
      <4>1. n.holder[d] = m.holder[d] /\ m.holder[d] # o
        BY <2>4, <2>6
      <4>2. m.holder[d] # None => n.value[m.holder[d]] = m.value[m.holder[d]]
        BY <2>5, <4>1 DEF Owned
      <4> QED
        BY <4>1, <4>2 DEF View
    <3> QED
      BY <2>4, <3>1 DEF Same
  <2> QED
    BY <1>1, <2>3, <2>4, <2>7, <2>8 DEF n
<1> QED
  BY <1>2, <1>3

LEMMA CopyInitHands ==
  ASSUME NEW m \in Memories, NEW D \in SUBSET Cells, NEW c \in Cells \ D, Owned(m, D), NEW src \in D
  PROVE  LET n == CopyInit(m, c, src)
         IN  /\ n \in Memories /\ Owned(n, D \cup {c}) /\ Same(m, n, D, c)
             /\ View(n, c) = View(m, src) /\ (m.holder[src] = None => n.holder[c] = None)
<1> DEFINE n == CopyInit(m, c, src)
           x == m.value[m.holder[src]]
<1>1. CASE m.holder[src] = None
  <2>1. n = InitNull(m, c)
    BY <1>1 DEF CopyInit
  <2> HIDE DEF n
  <2>2. n \in Memories /\ Owned(n, D \cup {c}) /\ Same(m, n, D, c) /\ n.holder[c] = None
    BY <2>1, InitNullHands
  <2>3. View(n, c) = View(m, src)
    BY <1>1, <2>2 DEF View
  <2> QED
    BY <2>2, <2>3 DEF n
<1>2. CASE m.holder[src] # None
  <2>1. n = InitObject(m, c, x)
    BY <1>2 DEF CopyInit
  <2>2. m.holder[src] \in Ids /\ x \in Objects
    BY <1>2, MemoryOf DEF Owned
  <2> HIDE DEF n, x
  <2>3. /\ n \in Memories /\ Owned(n, D \cup {c}) /\ Same(m, n, D, c)
        /\ n.holder[c] \in Ids /\ n.value[n.holder[c]] = x
    BY <2>1, <2>2, InitObjectHands
  <2>4. View(n, c) = View(m, src)
    BY <1>2, <2>3, DeepProxyAssumption DEF View, x
  <2> QED
    BY <1>2, <2>3, <2>4 DEF n
<1> QED
  BY <1>1, <1>2

LEMMA MoveInitHands ==
  ASSUME NEW m \in Memories, NEW D \in SUBSET Cells, NEW c \in Cells \ D, Owned(m, D), NEW src \in D
  PROVE  LET n == MoveInit(m, c, src)
         IN  /\ n \in Memories /\ Owned(n, D \cup {c}) /\ Same(m, n, D \ {src}, c)
             /\ View(n, c) = View(m, src) /\ View(n, src) = Without("moved")
             /\ m.holder[src] = None => n.holder[c] = None /\ n.holder[src] = None
<1> DEFINE n == MoveInit(m, c, src)
           o == m.holder[src]
<1>0. /\ m.holder \in [Cells -> Ids \cup {None, Rubble}]
      /\ m.place \in [Ids -> Cells \cup {"heap"}]
      /\ m.life \in [Ids -> {"dead", "live"}]
      /\ m.value \in [Ids -> Objects]
  BY MemoryOf
<1>1. CASE o = None
  <2>1. n = InitNull(m, c)
    BY <1>1 DEF MoveInit
  <2> HIDE DEF n
  <2>2. n \in Memories /\ Owned(n, D \cup {c}) /\ Same(m, n, D, c) /\ n.holder[c] = None
    BY <2>1, InitNullHands
  <2>3. n.holder[src] = None
    BY <1>1, <2>2 DEF Same
  <2>4. View(n, c) = View(m, src) /\ View(n, src) = Without("moved")
    BY <1>1, <2>2, <2>3 DEF View
  <2>5. Same(m, n, D \ {src}, c)
    BY <2>2 DEF Same
  <2> QED
    BY <2>2, <2>3, <2>4, <2>5 DEF n
<1>2. CASE o # None /\ InSoo(m, src)
  <2> DEFINE x == m.value[o]
             k == InitObject(m, c, x)
  <2>1. n = [k EXCEPT !.value[o].state = "moved"]
    BY <1>2 DEF MoveInit
  <2>2. /\ o \in Ids /\ m.value[o] \in Objects /\ m.life[o] = "live"
        /\ Unused(m) \in Ids /\ m.life[Unused(m)] = "dead"
    BY <1>0, <1>2, UnusedExists DEF Owned
  <2>3. /\ k \in Memories /\ Owned(k, D \cup {c}) /\ Same(m, k, D, c)
        /\ k.holder[c] \in Ids /\ k.value[k.holder[c]] = m.value[o] /\ k.holder[c] = Unused(m)
        /\ \A q \in Ids : q # Unused(m) => k.value[q] = m.value[q]
    <3>1. x \in Objects /\ c \in Cells \ D
      BY <2>2
    <3> HIDE DEF k, x, o
    <3>3. \E y \in Objects : y = x /\ k = InitObject(m, c, y)
      BY <3>1 DEF k
    <3>4. PICK y \in Objects : y = x /\ k = InitObject(m, c, y)
      BY <3>3
    <3>5. /\ k \in Memories /\ Owned(k, D \cup {c}) /\ Same(m, k, D, c)
          /\ k.holder[c] \in Ids /\ k.value[k.holder[c]] = x /\ k.holder[c] = Unused(m)
      <4>1. PICK n1 : n1 = InitObject(m, c, y)
        OBVIOUS
      <4>2. /\ n1 \in Memories /\ Owned(n1, D \cup {c}) /\ Same(m, n1, D, c)
            /\ n1.holder[c] \in Ids /\ n1.value[n1.holder[c]] = y /\ n1.holder[c] = Unused(m)
        BY <4>1, InitObjectHands, SMTT(30)
      <4> QED
        BY <3>4, <4>1, <4>2
    <3>6. \A q \in Ids : q # Unused(m) => k.value[q] = m.value[q]
      BY <3>4, InitObjectKeeps
    <3> QED
      BY <3>5, <3>6 DEF x
  <2>4. o # Unused(m) /\ k.value[o] = m.value[o] /\ k.holder[src] = o /\ src # c
    BY <2>2, <2>3 DEF Same
  <2> HIDE DEF n, k, x, o
  <2>5. k.value \in [Ids -> Objects] /\ k.holder \in [Cells -> Ids \cup {None, Rubble}]
    BY <2>3, MemoryOf
  <2>6. n = [holder |-> k.holder, place |-> k.place, life |-> k.life,
             value |-> [k.value EXCEPT ![o].state = "moved"]]
    BY <2>1, <2>3 DEF Memories
  <2>7. /\ n.holder = k.holder /\ n.place = k.place /\ n.life = k.life
        /\ n.value = [k.value EXCEPT ![o].state = "moved"]
    BY <2>6
  <2>8. n.value \in [Ids -> Objects] /\ n.value[o].state = "moved"
        /\ \A q \in Ids : q # o => n.value[q] = k.value[q]
    BY <2>2, <2>5, <2>7 DEF Objects
  <2>9. n \in Memories
    BY <2>3, <2>6, <2>7, <2>8 DEF Memories
  <2>10. Owned(n, D \cup {c})
    BY <2>3, <2>7 DEF Owned
  <2>11. View(n, c) = View(m, src) /\ View(n, src) = Without("moved")
    BY <1>2, <2>2, <2>3, <2>4, <2>7, <2>8, DeepProxyAssumption DEF View, o
  <2>12. Same(m, n, D \ {src}, c)
    <3>1. ASSUME NEW d \in (D \ {src}) \ {c}
          PROVE  View(n, d) = View(m, d) /\ n.holder[d] = m.holder[d]
      <4>1. View(k, d) = View(m, d) /\ k.holder[d] = m.holder[d]
        BY <2>3, <3>1 DEF Same
      <4>2. k.holder[d] # None => k.holder[d] \in Ids /\ k.holder[d] # o
        BY <2>2, <2>4, <3>1, <4>1 DEF Owned, o
      <4>3. View(n, d) = View(k, d)
        BY <2>7, <2>8, <4>2 DEF View
      <4> QED
        BY <2>7, <4>1, <4>3
    <3>2. \A d \in Cells : d # c /\ m.holder[d] \notin Ids => n.holder[d] = m.holder[d]
      BY <2>3, <2>7 DEF Same
    <3> QED
      BY <3>1, <3>2 DEF Same
  <2> QED
    BY <1>2, <2>9, <2>10, <2>11, <2>12 DEF n, o
<1>3. CASE o # None /\ ~InSoo(m, src)
  <2>1. n = [m EXCEPT !.holder[c] = o, !.holder[src] = None]
    BY <1>3 DEF MoveInit
  <2>2. o \in Ids /\ m.life[o] = "live" /\ m.place[o] = "heap" /\ src # c /\ src \in Cells
    BY <1>0, <1>3 DEF Owned, InSoo
  <2> HIDE DEF n, o
  <2>3. n = [holder |-> [m.holder EXCEPT ![c] = o, ![src] = None], place |-> m.place,
             life |-> m.life, value |-> m.value]
    BY <2>1 DEF Memories
  <2>4. /\ n.holder = [m.holder EXCEPT ![c] = o, ![src] = None]
        /\ n.place = m.place /\ n.life = m.life /\ n.value = m.value
    BY <2>3
  <2>5. n \in Memories
    BY <1>0, <2>2, <2>3 DEF Memories
  <2>6. /\ n.holder[c] = o /\ n.holder[src] = None
        /\ \A d \in Cells \ {c, src} : n.holder[d] = m.holder[d]
    BY <1>0, <2>2, <2>4
  <2>7. \A d \in D \ {src} : m.holder[d] # o
    BY <1>3, <2>2 DEF Owned, o
  <2>8. Owned(n, D \cup {c})
    <3>1. ASSUME NEW q \in Ids, n.life[q] = "live"
          PROVE  \E d \in D \cup {c} : n.holder[d] = q
      <4>1. PICK d \in D : m.holder[d] = q
        BY <2>4, <3>1 DEF Owned
      <4>2. CASE d = src
        BY <2>6, <4>1, <4>2 DEF o
      <4>3. CASE d # src
        BY <2>6, <4>1, <4>3
      <4> QED
        BY <4>2, <4>3
    <3>2. ASSUME NEW d \in D \cup {c}, n.holder[d] # None
          PROVE  /\ n.holder[d] \in Ids /\ n.life[n.holder[d]] = "live"
                 /\ n.place[n.holder[d]] \in {"heap", d}
                 /\ \A e \in D \cup {c} : n.holder[e] = n.holder[d] => e = d
      <4>1. CASE d = c
        BY <2>2, <2>4, <2>6, <2>7, <4>1, DeepProxyAssumption
      <4>2. CASE d # c
        <5>1. d \in D \ {src} /\ n.holder[d] = m.holder[d] /\ n.holder[d] # o
          BY <2>6, <2>7, <3>2, <4>2
        <5>2. \A e \in D \cup {c} : n.holder[e] = n.holder[d] => e \in D \ {src} /\ n.holder[e] = m.holder[e]
          BY <2>6, <3>2, <5>1
        <5> QED
          BY <2>4, <3>2, <5>1, <5>2 DEF Owned
      <4> QED
        BY <4>1, <4>2
    <3> QED
      BY <3>1, <3>2 DEF Owned
  <2>9. View(n, c) = View(m, src) /\ View(n, src) = Without("moved")
    BY <1>3, <2>4, <2>6 DEF View, o
  <2>10. Same(m, n, D \ {src}, c)
    <3>1. \A d \in D \ {src} : n.holder[d] = m.holder[d] /\ View(n, d) = View(m, d)
      BY <2>4, <2>6 DEF View
    <3>2. \A d \in Cells : d # c /\ m.holder[d] \notin Ids => n.holder[d] = m.holder[d]
      BY <2>2, <2>6 DEF o
    <3> QED
      BY <3>1, <3>2 DEF Same
  <2> QED
    BY <1>3, <2>5, <2>8, <2>9, <2>10 DEF n, o
<1> QED
  BY <1>1, <1>2, <1>3

-----------------------------------------------------------------------------
(***************************************************************************)
(* The operations of proxy.  Each of them makes c ready, by being where    *)
(* nothing is or by deinit, and lets DeepWrapper put an object there.      *)
(***************************************************************************)
Kept == Cells \ broken
Ready(m, c) == m \in Memories /\ Owned(m, Kept \ {c}) /\ Same(mem, m, Kept, c)

cells == [c \in Cells |-> CellOf(c)]

\* An operation that leaves c with the new face, and no other cell with less
\* than it had.
Puts(c) ==
  /\ face'[c] \in {"Uninitialized", "Implementation"}
  /\ face' = [face EXCEPT ![c] = face'[c]]
  /\ UNCHANGED <<broken, twice>>
  /\ face'[c] = "Uninitialized" => mem'.holder[c] = None
  /\ mem' \in Memories /\ Owned(mem', Kept)
  /\ \A d \in Cells : d # c /\ mem.holder[d] \notin Ids => mem'.holder[d] = mem.holder[d]

LEMMA HolderTypes ==
  ASSUME IInv
  PROVE  /\ \A c \in Cells : mem.holder[c] \in Ids \cup {None, Rubble}
         /\ \A c \in Cells : face[c] \in {"raw", "Uninitialized", "Implementation"}
         /\ \A o \in Ids : mem.value[o] \in Objects
         /\ mem \in Memories /\ face \in [Cells -> {"raw", "Uninitialized", "Implementation"}]
         /\ None \notin Ids /\ Rubble \notin Ids
BY DeepProxyAssumption, MemoryOf DEF IInv, TypeOK

\* What a proxy is to its user, by what it holds.
LEMMA CellKinds ==
  ASSUME IInv, NEW c \in Cells
  PROVE  /\ cells[c] = CellOf(c)
         /\ Raw(c) => CellOf(c) = Without("raw") /\ c \notin broken
         /\ ~Raw(c) /\ c \in broken => CellOf(c) = Without("broken")
         /\ Good(c) /\ face[c] = "Uninitialized" => CellOf(c) = Without("empty")
         /\ Good(c) /\ face[c] # "Uninitialized" =>
              CellOf(c) = View(mem, c) /\ CellOf(c).state \in {"new", "called", "moved"}
<1>1. Raw(c) => c \notin broken
  BY DEF IInv, BrokenOK
<1>2. c \notin broken => mem.holder[c] = None \/ mem.holder[c] \in Ids
  BY DEF IInv, Owned
<1>3. c \notin broken => View(mem, c).state \in {"new", "called", "moved"}
  <2>1. Without("moved").state = "moved"
    BY DEF Without
  <2>2. \A x \in Objects : x.state \in {"new", "called", "moved"}
    BY DEF Objects
  <2> QED
    BY <1>2, <2>1, <2>2, HolderTypes DEF View
<1>4. Good(c) /\ face[c] # "Uninitialized" => CellOf(c) = View(mem, c)
  BY DEF CellOf, View, Good
<1> QED
  BY <1>1, <1>3, <1>4 DEF cells, CellOf, Good

LEMMA PutsKeeps ==
  ASSUME IInv, NEW c \in Cells, c \notin broken, Puts(c)
  PROVE  IInv'
<1>1. face \in [Cells -> {"raw", "Uninitialized", "Implementation"}]
  BY HolderTypes
<1>2. TypeOK'
  BY <1>1 DEF IInv, TypeOK, Puts
<1>3. \A d \in Cells : d # c => face'[d] = face[d]
  BY <1>1 DEF Puts
<1>4. Owned(mem', Cells \ broken')
  BY DEF Puts, Kept
<1>5. BrokenOK'
  <2> SUFFICES ASSUME NEW d \in broken
               PROVE  face'[d] # "raw" /\ mem'.holder[d] \in {None, Rubble}
    BY DEF BrokenOK, Puts, Raw
  <2>1. d \in Cells /\ d # c /\ face[d] # "raw" /\ mem.holder[d] \in {None, Rubble}
    BY DEF IInv, TypeOK, BrokenOK, Raw
  <2> QED
    BY <1>3, <2>1, HolderTypes DEF Puts
<1>6. FaceOK'
  <2> SUFFICES ASSUME NEW d \in Cells \ broken, face'[d] # "Implementation"
               PROVE  mem'.holder[d] = None
    BY DEF FaceOK, Puts
  <2>1. CASE d = c
    BY <2>1 DEF Puts
  <2>2. CASE d # c
    <3>1. face[d] # "Implementation" /\ mem.holder[d] = None
      BY <1>3, <2>2 DEF IInv, FaceOK
    <3> QED
      BY <2>2, <3>1, HolderTypes DEF Puts
  <2> QED
    BY <2>1, <2>2
<1> QED
  BY <1>2, <1>4, <1>5, <1>6 DEF IInv

\* To the users of the other cells nothing happens.
LEMMA PutsKeepsCells ==
  ASSUME IInv, NEW c \in Cells, Puts(c), NEW d \in Cells, d # c,
         d \in Kept => View(mem', d) = View(mem, d)
  PROVE  CellOf(d)' = CellOf(d)
<1>1. face'[d] = face[d] /\ broken' = broken
  BY HolderTypes DEF Puts
<1>2. CASE d \in broken
  BY <1>1, <1>2 DEF CellOf, Raw, Without
<1>3. CASE d \notin broken
  <2>1. View(mem', d) = View(mem, d)
    BY <1>3 DEF Kept
  <2> QED
    BY <1>1, <2>1 DEF CellOf, Raw, View, Without
<1> QED
  BY <1>2, <1>3

LEMMA RawReady ==
  ASSUME IInv, NEW c \in Cells, Raw(c)
  PROVE  c \notin broken /\ mem.holder[c] = None /\ Ready(mem, c)
<1>1. c \notin broken /\ mem.holder[c] = None
  BY DEF IInv, BrokenOK, FaceOK, Raw
<1>2. mem \in Memories /\ Owned(mem, Kept)
  BY DEF IInv, TypeOK, Kept
<1>3. Owned(mem, Kept \ {c})
  BY <1>1, <1>2, DeepProxyAssumption DEF Owned
<1>4. Same(mem, mem, Kept, c)
  BY DEF Same
<1> QED
  BY <1>1, <1>2, <1>3, <1>4 DEF Ready

LEMMA DeinitReady ==
  ASSUME IInv, NEW c \in Cells, c \notin broken
  PROVE  Ready(Deinit(mem, c), c) /\ Deinit(mem, c).holder[c] \in {None, Rubble} /\ ~Misses(mem, c)
<1>1. PICK m : m = mem
  OBVIOUS
<1>2. PICK D : D = Kept
  OBVIOUS
<1>3. m \in Memories /\ D \in SUBSET Cells /\ c \in D /\ Owned(m, D)
  BY <1>1, <1>2 DEF IInv, TypeOK, Kept
<1>4. /\ Deinit(m, c) \in Memories /\ Owned(Deinit(m, c), D \ {c}) /\ Same(m, Deinit(m, c), D, c)
      /\ Deinit(m, c).holder[c] \in {None, Rubble} /\ ~Misses(m, c)
  BY <1>3, DeinitHands
<1> QED
  BY <1>1, <1>2, <1>4 DEF Ready

-----------------------------------------------------------------------------
(***************************************************************************)
(* Into a ready c: a new object, a copy of another, another.               *)
(***************************************************************************)
LEMMA Sets ==
  ASSUME IInv, NEW c \in Cells, c \notin broken, NEW m, Ready(m, c), NEW z \in Sizes,
         face' = [face EXCEPT ![c] = "Implementation"],
         mem' = InitObject(m, c, NewObject(z)), UNCHANGED <<broken, twice>>
  PROVE  IInv' /\ V!Set(c, z)
<1>1. PICK D : D = Kept \ {c}
  OBVIOUS
<1>2. PICK x \in Objects : x = NewObject(z)
  BY DEF NewObject, Objects, Sizes
<1>3. /\ m \in Memories /\ D \in SUBSET Cells /\ c \in Cells \ D /\ Owned(m, D)
      /\ D \cup {c} = Kept
  BY <1>1 DEF Ready, Kept
<1>4. PICK n : n = InitObject(m, c, x)
  OBVIOUS
<1>5. /\ n \in Memories /\ Owned(n, D \cup {c}) /\ Same(m, n, D, c)
      /\ n.holder[c] \in Ids /\ n.value[n.holder[c]] = x
  BY <1>3, <1>4, InitObjectHands
<1>6. mem' = n
  BY <1>2, <1>4
<1>7. face'[c] = "Implementation"
  BY HolderTypes
<1>8. Puts(c)
  BY <1>3, <1>5, <1>6, <1>7 DEF Puts, Ready, Same
<1>9. IInv'
  BY <1>8, PutsKeeps
<1>10. \A d \in Cells : d # c => CellOf(d)' = CellOf(d)
  <2> SUFFICES ASSUME NEW d \in Cells, d # c
               PROVE  CellOf(d)' = CellOf(d)
    OBVIOUS
  <2>1. d \in Kept => View(mem', d) = View(mem, d)
    BY <1>1, <1>5, <1>6 DEF Ready, Same
  <2> QED
    BY <1>8, <2>1, PutsKeepsCells
<1>11. CellOf(c)' = [size |-> z, state |-> "new"]
  <2>1. mem'.holder[c] # None /\ mem'.value[mem'.holder[c]] = [size |-> z, state |-> "new"]
    BY <1>2, <1>5, <1>6, HolderTypes DEF NewObject
  <2> QED
    BY <1>7, <2>1 DEF CellOf, Raw
<1>12. cells' = [cells EXCEPT ![c] = [size |-> z, state |-> "new"]]
  BY <1>10, <1>11 DEF cells
<1>13. cells[c].state # "broken"
  BY CellKinds DEF Good, Without
<1> QED
  BY <1>9, <1>12, <1>13 DEF V!Set, V!Usable, V!Put, cells

LEMMA Copies ==
  ASSUME IInv, NEW c \in Cells, c \notin broken, NEW m, Ready(m, c),
         NEW src \in Cells, Good(src), c # src,
         face' = [face EXCEPT ![c] = face[src]],
         mem' = CopyInit(m, c, src), UNCHANGED <<broken, twice>>
  PROVE  IInv' /\ V!Copy(c, src)
<1>1. PICK D : D = Kept \ {c}
  OBVIOUS
<1>2. src \in D /\ face[src] \in {"Uninitialized", "Implementation"}
  BY <1>1, HolderTypes DEF Good, Raw, Kept
<1>3. /\ m \in Memories /\ D \in SUBSET Cells /\ c \in Cells \ D /\ Owned(m, D)
      /\ D \cup {c} = Kept
  BY <1>1 DEF Ready, Kept
<1>4. PICK n : n = CopyInit(m, c, src)
  OBVIOUS
<1>5. /\ n \in Memories /\ Owned(n, D \cup {c}) /\ Same(m, n, D, c)
      /\ View(n, c) = View(m, src) /\ (m.holder[src] = None => n.holder[c] = None)
  BY <1>2, <1>3, <1>4, CopyInitHands
<1>6. mem' = n /\ face'[c] = face[src]
  BY <1>4, HolderTypes
<1>7. face[src] = "Uninitialized" => m.holder[src] = None
  BY <1>1, <1>2 DEF IInv, FaceOK, Kept, Ready, Same
<1>8. Puts(c)
  BY <1>2, <1>3, <1>5, <1>6, <1>7 DEF Puts, Ready, Same
<1>9. IInv'
  BY <1>8, PutsKeeps
<1>10. \A d \in Cells : d # c => CellOf(d)' = CellOf(d)
  <2> SUFFICES ASSUME NEW d \in Cells, d # c
               PROVE  CellOf(d)' = CellOf(d)
    OBVIOUS
  <2>1. d \in Kept => View(mem', d) = View(mem, d)
    BY <1>1, <1>5, <1>6 DEF Ready, Same
  <2> QED
    BY <1>8, <2>1, PutsKeepsCells
<1>11. CellOf(c)' = CellOf(src)
  <2>1. View(mem', c) = View(mem, src)
    BY <1>1, <1>2, <1>5, <1>6 DEF Ready, Same
  <2> QED
    BY <1>2, <1>6, <2>1 DEF CellOf, Raw, View, Without, Good
<1>12. cells' = [cells EXCEPT ![c] = cells[src]]
  BY <1>10, <1>11 DEF cells
<1>13. cells[c].state # "broken" /\ cells[src].state \notin {"broken", "raw"}
  BY CellKinds DEF Good, Without
<1> QED
  BY <1>9, <1>12, <1>13 DEF V!Copy, V!From, V!Usable, V!Exists, V!Put, cells

LEMMA Moves ==
  ASSUME IInv, NEW c \in Cells, c \notin broken, NEW m, Ready(m, c),
         NEW src \in Cells, Good(src), c # src,
         face' = [face EXCEPT ![c] = face[src]],
         mem' = MoveInit(m, c, src), UNCHANGED <<broken, twice>>
  PROVE  IInv' /\ V!Move(c, src)
<1>1. PICK D : D = Kept \ {c}
  OBVIOUS
<1>2. src \in D /\ face[src] \in {"Uninitialized", "Implementation"}
  BY <1>1, HolderTypes DEF Good, Raw, Kept
<1>3. /\ m \in Memories /\ D \in SUBSET Cells /\ c \in Cells \ D /\ Owned(m, D)
      /\ D \cup {c} = Kept
  BY <1>1 DEF Ready, Kept
<1>4. PICK n : n = MoveInit(m, c, src)
  OBVIOUS
<1>5. /\ n \in Memories /\ Owned(n, D \cup {c}) /\ Same(m, n, D \ {src}, c)
      /\ View(n, c) = View(m, src) /\ View(n, src) = Without("moved")
      /\ (m.holder[src] = None => n.holder[c] = None)
  BY <1>2, <1>3, <1>4, MoveInitHands
<1>6. mem' = n /\ face'[c] = face[src] /\ face'[src] = face[src]
  BY <1>4, HolderTypes
<1>7. face[src] = "Uninitialized" => m.holder[src] = None
  BY <1>1, <1>2 DEF IInv, FaceOK, Kept, Ready, Same
<1>8. Puts(c)
  BY <1>2, <1>3, <1>5, <1>6, <1>7 DEF Puts, Ready, Same
<1>9. IInv'
  BY <1>8, PutsKeeps
<1>10. \A d \in Cells : d # c /\ d # src => CellOf(d)' = CellOf(d)
  <2> SUFFICES ASSUME NEW d \in Cells, d # c, d # src
               PROVE  CellOf(d)' = CellOf(d)
    OBVIOUS
  <2>1. d \in Kept => View(mem', d) = View(mem, d)
    BY <1>1, <1>5, <1>6 DEF Ready, Same
  <2> QED
    BY <1>8, <2>1, PutsKeepsCells
<1>11. CellOf(c)' = CellOf(src)
  <2>1. View(mem', c) = View(mem, src)
    BY <1>1, <1>2, <1>5, <1>6 DEF Ready, Same
  <2> QED
    BY <1>2, <1>6, <2>1 DEF CellOf, Raw, View, Without, Good
<1>12. CellOf(src)' = IF CellOf(src).state = "empty" THEN CellOf(src) ELSE Without("moved")
  <2>1. View(mem', src) = Without("moved") /\ ~Raw(src)' /\ src \notin broken'
    BY <1>2, <1>5, <1>6 DEF Raw, Good
  <2>2. CASE face[src] = "Uninitialized"
    <3>1. CellOf(src)' = Without("empty") /\ CellOf(src) = Without("empty")
      BY <1>6, <2>1, <2>2 DEF CellOf, Raw, Without, Good
    <3> QED
      BY <3>1 DEF Without
  <2>3. CASE face[src] # "Uninitialized"
    <3>1. CellOf(src)' = Without("moved")
      BY <1>6, <2>1, <2>3 DEF CellOf, Raw, Without, View
    <3>2. CellOf(src).state # "empty"
      BY <2>3, CellKinds
    <3> QED
      BY <3>1, <3>2
  <2> QED
    BY <2>2, <2>3
<1>13. cells' = [cells EXCEPT ![c] = cells[src],
                              ![src] = IF @.state = "empty" THEN @ ELSE Without("moved")]
  BY <1>10, <1>11, <1>12 DEF cells
<1>14. cells[c].state # "broken" /\ cells[src].state \notin {"broken", "raw"}
  BY CellKinds DEF Good, Without
<1> QED
  BY <1>9, <1>13, <1>14 DEF V!Move, V!From, V!Usable, V!Exists, V!Without, Without, cells

-----------------------------------------------------------------------------
(***************************************************************************)
(* An assignment that throws, destruction, the call.                       *)
(***************************************************************************)
LEMMA Breaks ==
  ASSUME IInv, NEW c \in Cells, NEW z \in Sizes, AssignThrows(c, NewObject(z))
  PROVE  IInv' /\ V!Break(c)
<1>1. PICK m : m = Deinit(mem, c)
  OBVIOUS
<1>2. /\ m \in Memories /\ Owned(m, Kept \ {c}) /\ Same(mem, m, Kept, c)
      /\ m.holder[c] \in {None, Rubble} /\ c \notin broken /\ face[c] # "raw"
  BY <1>1, DeinitReady DEF Ready, AssignThrows, Good, Raw
<1>3. PICK p \in {None, Rubble} : mem' = [m EXCEPT !.holder[c] = p]
  BY <1>1, <1>2 DEF AssignThrows, Thrown
<1>4. /\ m.holder \in [Cells -> Ids \cup {None, Rubble}]
      /\ m.place \in [Ids -> Cells \cup {"heap"}]
      /\ m.life \in [Ids -> {"dead", "live"}]
      /\ m.value \in [Ids -> Objects]
  BY <1>2, MemoryOf
<1>5. PICK n : n = mem'
  OBVIOUS
<1>6. n = [holder |-> [m.holder EXCEPT ![c] = p], place |-> m.place, life |-> m.life, value |-> m.value]
  BY <1>2, <1>3, <1>5 DEF Memories
<1>7. n \in Memories
  BY <1>4, <1>6 DEF Memories
<1>8. /\ n.place = m.place /\ n.life = m.life /\ n.value = m.value
      /\ n.holder[c] = p /\ \A d \in Cells : d # c => n.holder[d] = m.holder[d]
  BY <1>4, <1>6
<1>9. Owned(n, Kept \ {c})
  BY <1>2, <1>8 DEF Owned, Kept
<1>10. /\ face'[c] = "Implementation" /\ \A d \in Cells : d # c => face'[d] = face[d]
       /\ broken' = broken \cup {c} /\ Cells \ broken' = Kept \ {c}
       /\ face' \in [Cells -> {"raw", "Uninitialized", "Implementation"}]
  BY HolderTypes DEF AssignThrows, Kept
<1>11. IInv'
  <2>1. TypeOK'
    BY <1>5, <1>7, <1>10 DEF IInv, TypeOK, AssignThrows
  <2>2. Owned(mem', Cells \ broken')
    BY <1>5, <1>9, <1>10
  <2>3. BrokenOK'
    <3> SUFFICES ASSUME NEW d \in broken'
                 PROVE  face'[d] # "raw" /\ mem'.holder[d] \in {None, Rubble}
      BY DEF BrokenOK, Raw
    <3>1. CASE d = c
      BY <1>5, <1>8, <1>10, <3>1
    <3>2. CASE d # c
      <4>1. d \in broken /\ d \in Cells
        BY <1>10, <3>2 DEF IInv, TypeOK
      <4>2. face[d] # "raw" /\ mem.holder[d] \in {None, Rubble}
        BY <4>1 DEF IInv, BrokenOK, Raw
      <4>3. m.holder[d] = mem.holder[d]
        BY <1>2, <3>2, <4>1, <4>2, HolderTypes DEF Same
      <4> QED
        BY <1>5, <1>8, <1>10, <3>2, <4>1, <4>2, <4>3
    <3> QED
      BY <3>1, <3>2
  <2>4. FaceOK'
    <3> SUFFICES ASSUME NEW d \in Kept \ {c}, face'[d] # "Implementation"
                 PROVE  mem'.holder[d] = None
      BY <1>10 DEF FaceOK
    <3>1. mem.holder[d] = None
      BY <1>10 DEF IInv, FaceOK, Kept
    <3> QED
      BY <1>2, <1>5, <1>8, <3>1 DEF Same, Kept
  <2> QED
    BY <2>1, <2>2, <2>3, <2>4 DEF IInv
<1>12. \A d \in Cells : d # c => CellOf(d)' = CellOf(d)
  <2> SUFFICES ASSUME NEW d \in Cells, d # c
               PROVE  CellOf(d)' = CellOf(d)
    OBVIOUS
  <2>1. CASE d \in broken
    BY <1>10, <2>1 DEF CellOf, Raw, Without
  <2>2. CASE d \notin broken
    <3>1. View(m, d) = View(mem, d) /\ m.holder[d] = mem.holder[d]
      BY <1>2, <2>2 DEF Same, Kept
    <3>2. View(mem', d) = View(mem, d)
      BY <1>5, <1>8, <3>1 DEF View
    <3> QED
      BY <1>10, <2>2, <3>2 DEF CellOf, Raw, View, Without
  <2> QED
    BY <2>1, <2>2
<1>13. CellOf(c)' = Without("broken")
  BY <1>10 DEF CellOf, Raw, Without
<1>14. cells' = [cells EXCEPT ![c] = Without("broken")]
  BY <1>12, <1>13 DEF cells
<1>15. cells[c].state # "raw"
  BY <1>2, CellKinds DEF Good, Raw, Without
<1> QED
  BY <1>11, <1>14, <1>15 DEF V!Break, V!Exists, V!Put, V!Without, Without, cells

LEMMA Destroys ==
  ASSUME IInv, NEW c \in Cells, Destroy(c)
  PROVE  IInv' /\ V!Destroy(c) /\ (Misses(mem, c) => c \in broken)
<1>1. PICK m : m = Deinit(mem, c)
  OBVIOUS
<1>2. Ready(m, c) /\ (Misses(mem, c) => c \in broken)
  <2>1. CASE c \notin broken
    BY <1>1, <2>1, DeinitReady
  <2>2. CASE c \in broken
    <3>1. m = mem
      BY <1>1, <2>2, HolderTypes DEF IInv, BrokenOK, Deinit
    <3>2. Same(mem, mem, Kept, c) /\ Kept \ {c} = Kept
      BY <2>2 DEF Same, Kept
    <3> QED
      BY <2>2, <3>1, <3>2 DEF Ready, IInv, TypeOK, Kept
  <2> QED
    BY <2>1, <2>2
<1>3. PICK D : D = Kept \ {c}
  OBVIOUS
<1>4. m \in Memories /\ D \in SUBSET Cells /\ c \in Cells \ D /\ Owned(m, D)
  BY <1>2, <1>3 DEF Ready, Kept
<1>5. PICK n : n = InitNull(m, c)
  OBVIOUS
<1>6. n \in Memories /\ Owned(n, D \cup {c}) /\ Same(m, n, D, c) /\ n.holder[c] = None
  BY <1>4, <1>5, InitNullHands
<1>7. mem' = n
  BY <1>1, <1>5 DEF Destroy
<1>8. /\ face'[c] = "raw" /\ \A d \in Cells : d # c => face'[d] = face[d]
      /\ face' \in [Cells -> {"raw", "Uninitialized", "Implementation"}]
      /\ broken' = broken \ {c} /\ Cells \ broken' = D \cup {c}
  BY <1>3, HolderTypes DEF Destroy, Kept
<1>9. IInv'
  <2>1. TypeOK'
    BY <1>6, <1>7, <1>8 DEF IInv, TypeOK, Destroy
  <2>2. Owned(mem', Cells \ broken')
    BY <1>6, <1>7, <1>8
  <2>3. BrokenOK'
    <3> SUFFICES ASSUME NEW d \in broken, d # c
                 PROVE  face'[d] # "raw" /\ mem'.holder[d] \in {None, Rubble}
      BY <1>8 DEF BrokenOK, Raw
    <3>1. d \in Cells /\ face[d] # "raw" /\ mem.holder[d] \in {None, Rubble}
      BY DEF IInv, TypeOK, BrokenOK, Raw
    <3>2. m.holder[d] = mem.holder[d]
      BY <1>2, <3>1, HolderTypes DEF Ready, Same
    <3> QED
      BY <1>6, <1>7, <1>8, <3>1, <3>2, HolderTypes DEF Same
  <2>4. FaceOK'
    <3> SUFFICES ASSUME NEW d \in D, face'[d] # "Implementation"
                 PROVE  mem'.holder[d] = None
      BY <1>6, <1>7, <1>8 DEF FaceOK
    <3>1. mem.holder[d] = None
      BY <1>3, <1>8 DEF IInv, FaceOK, Kept
    <3> QED
      BY <1>2, <1>3, <1>6, <1>7, <3>1 DEF Same, Ready
  <2> QED
    BY <2>1, <2>2, <2>3, <2>4 DEF IInv
<1>10. \A d \in Cells : d # c => CellOf(d)' = CellOf(d)
  <2> SUFFICES ASSUME NEW d \in Cells, d # c
               PROVE  CellOf(d)' = CellOf(d)
    OBVIOUS
  <2>1. CASE d \in broken
    BY <1>8, <2>1 DEF CellOf, Raw, Without
  <2>2. CASE d \notin broken
    <3>1. View(mem', d) = View(mem, d)
      BY <1>2, <1>3, <1>6, <1>7, <2>2 DEF Same, Ready, Kept
    <3> QED
      BY <1>8, <2>2, <3>1 DEF CellOf, Raw, View, Without
  <2> QED
    BY <2>1, <2>2
<1>11. CellOf(c)' = Without("raw")
  BY <1>8 DEF CellOf, Raw, Without
<1>12. cells' = [cells EXCEPT ![c] = Without("raw")]
  BY <1>10, <1>11 DEF cells
<1>13. cells[c].state # "raw"
  BY CellKinds DEF Good, Destroy, Without
<1> QED
  BY <1>2, <1>9, <1>12, <1>13 DEF V!Destroy, V!Exists, V!Put, V!Without, Without, cells

LEMMA Calls ==
  ASSUME IInv, NEW c \in Cells, Call(c)
  PROVE  IInv' /\ V!Call(c)
<1>1. PICK m \in Memories : m = mem
  BY HolderTypes
<1>2. PICK o \in Ids : o = m.holder[c]
  BY <1>1 DEF Call, Good, IInv, Owned
<1>3. /\ m.holder \in [Cells -> Ids \cup {None, Rubble}]
      /\ m.place \in [Ids -> Cells \cup {"heap"}]
      /\ m.life \in [Ids -> {"dead", "live"}]
      /\ m.value \in [Ids -> Objects]
  BY MemoryOf
<1>4. PICK n : n = mem'
  OBVIOUS
<1>5. n = [holder |-> m.holder, place |-> m.place, life |-> m.life,
           value |-> [m.value EXCEPT ![o].state = "called"]]
  BY <1>1, <1>2, <1>4 DEF Call, Memories
<1>6. /\ n.holder = m.holder /\ n.place = m.place /\ n.life = m.life
      /\ n.value = [m.value EXCEPT ![o].state = "called"]
  BY <1>5
<1>7. /\ n.value \in [Ids -> Objects] /\ n.value[o] = [m.value[o] EXCEPT !.state = "called"]
      /\ \A q \in Ids : q # o => n.value[q] = m.value[q]
  BY <1>3, <1>6 DEF Objects
<1>8. n \in Memories
  BY <1>3, <1>5, <1>7 DEF Memories
<1>9. /\ c \in Kept /\ face[c] # "raw" /\ m.holder[c] # None /\ m.value[o].state # "moved"
      /\ UNCHANGED <<face, broken, twice>>
  BY <1>1, <1>2 DEF Call, Good, Raw, Kept
<1>10. Owned(m, Kept)
  BY <1>1 DEF IInv, Kept
<1>11. IInv'
  <2>1. Owned(n, Kept)
    BY <1>6, <1>10 DEF Owned
  <2>2. TypeOK' /\ Owned(mem', Cells \ broken')
    BY <1>4, <1>8, <1>9, <2>1 DEF IInv, TypeOK, Kept
  <2>3. BrokenOK' /\ FaceOK'
    BY <1>1, <1>4, <1>6, <1>9 DEF IInv, BrokenOK, FaceOK, Raw
  <2> QED
    BY <2>2, <2>3 DEF IInv
<1>12. \A d \in Cells : d # c => CellOf(d)' = CellOf(d)
  <2> SUFFICES ASSUME NEW d \in Cells, d # c
               PROVE  CellOf(d)' = CellOf(d)
    OBVIOUS
  <2>1. CASE d \in broken
    BY <1>9, <2>1 DEF CellOf, Raw, Without
  <2>2. CASE d \notin broken
    <3>1. m.holder[d] # None => m.holder[d] \in Ids /\ m.holder[d] # o
      BY <1>2, <1>9, <1>10, <2>2 DEF Owned, Kept
    <3>2. View(n, d) = View(m, d)
      BY <1>6, <1>7, <3>1 DEF View
    <3>3. View(mem', d) = View(mem, d)
      BY <1>1, <1>4, <3>2
    <3> QED
      BY <1>9, <2>2, <3>3 DEF CellOf, Raw, View, Without
  <2> QED
    BY <2>1, <2>2
<1>13. face[c] # "Uninitialized"
  BY <1>1, <1>9 DEF IInv, FaceOK, Kept
<1>14. CellOf(c) = m.value[o]
  BY <1>1, <1>2, <1>9, <1>13 DEF CellOf, Raw, Kept
<1>15. CellOf(c)' = n.value[o]
  <2>1. n.holder[c] = o /\ o # None /\ n.value[o].state = "called"
    BY <1>2, <1>3, <1>6, <1>7, <1>9 DEF Objects
  <2> QED
    BY <1>4, <1>9, <1>13, <2>1 DEF CellOf, Raw, Kept
<1>16. cells' = [cells EXCEPT ![c].state = "called"]
  <2>1. cells[c] = m.value[o]
    BY <1>14 DEF cells
  <2>2. CellOf(c)' = [cells[c] EXCEPT !.state = "called"]
    BY <1>7, <1>15, <2>1
  <2> QED
    BY <1>12, <2>2 DEF cells
<1>17. cells[c].size \in Sizes
  BY <1>3, <1>14 DEF cells, Objects
<1> QED
  BY <1>11, <1>16, <1>17 DEF V!Call, cells

LEMMA Defaults ==
  ASSUME IInv, NEW c \in Cells, Default(c)
  PROVE  IInv' /\ V!Clear(c)
<1>1. PICK m \in Memories : m = mem
  BY HolderTypes
<1>2. PICK D : D = Kept \ {c}
  OBVIOUS
<1>3. c \notin broken /\ Ready(m, c)
  BY <1>1, RawReady DEF Default
<1>4. D \in SUBSET Cells /\ c \in Cells \ D /\ Owned(m, D) /\ D \cup {c} = Kept
  BY <1>2, <1>3 DEF Ready, Kept
<1>5. PICK n : n = InitNull(m, c)
  OBVIOUS
<1>6. n \in Memories /\ Owned(n, D \cup {c}) /\ Same(m, n, D, c) /\ n.holder[c] = None
  BY <1>4, <1>5, InitNullHands
<1>7. mem' = n /\ face'[c] = "Uninitialized"
  BY <1>1, <1>5, HolderTypes DEF Default
<1>8. Puts(c)
  BY <1>1, <1>4, <1>6, <1>7 DEF Puts, Default, Same
<1>9. IInv'
  BY <1>3, <1>8, PutsKeeps
<1>10. \A d \in Cells : d # c => CellOf(d)' = CellOf(d)
  <2> SUFFICES ASSUME NEW d \in Cells, d # c
               PROVE  CellOf(d)' = CellOf(d)
    OBVIOUS
  <2>1. d \in Kept => View(mem', d) = View(mem, d)
    BY <1>1, <1>2, <1>6, <1>7 DEF Same
  <2> QED
    BY <1>8, <2>1, PutsKeepsCells
<1>11. CellOf(c)' = Without("empty")
  BY <1>3, <1>7 DEF CellOf, Raw, Without, Default
<1>12. cells' = [cells EXCEPT ![c] = Without("empty")]
  BY <1>10, <1>11 DEF cells
<1>13. cells[c].state = "raw"
  BY CellKinds DEF Default, Without
<1> QED
  BY <1>9, <1>12, <1>13 DEF V!Clear, V!Exists, V!Put, V!Without, Without, cells

\* What every step of a proxy does.
LEMMA Steps ==
  ASSUME IInv, [Next]_vars
  PROVE  IInv' /\ [V!Next]_cells /\ \A c \in Cells : c \in twice' \ twice => c \in broken
<1>1. CASE UNCHANGED vars
  <2>1. cells' = cells
    BY <1>1 DEF vars, cells, CellOf, Raw, Without
  <2>2. IInv'
    BY <1>1 DEF vars, IInv, TypeOK, BrokenOK, FaceOK, Raw
  <2> QED
    BY <1>1, <2>1, <2>2 DEF vars
<1>2. ASSUME NEW c \in Cells, Default(c)
      PROVE  IInv' /\ V!Next /\ twice' = twice
  BY <1>2, Defaults DEF V!Next, Default
<1>3. ASSUME NEW c \in Cells, Destroy(c)
      PROVE  IInv' /\ V!Next /\ \A d \in Cells : d \in twice' \ twice => d \in broken
  BY <1>3, Destroys DEF V!Next, Destroy
<1>4. ASSUME NEW c \in Cells, Call(c)
      PROVE  IInv' /\ V!Next /\ twice' = twice
  BY <1>4, Calls DEF V!Next, Call
<1>5. ASSUME NEW c \in Cells, NEW z \in Sizes, Construct(c, z)
      PROVE  IInv' /\ V!Next /\ twice' = twice
  <2>1. PICK m : m = mem
    OBVIOUS
  <2>2. c \notin broken /\ Ready(m, c)
    BY <1>5, <2>1, RawReady DEF Construct
  <2>3. mem' = InitObject(m, c, NewObject(z))
    BY <1>5, <2>1 DEF Construct
  <2>4. IInv' /\ V!Set(c, z)
    BY <1>5, <2>2, <2>3, Sets DEF Construct
  <2> QED
    BY <1>5, <2>4 DEF V!Next, Construct
<1>6. ASSUME NEW c \in Cells, NEW z \in Sizes, AssignValue(c, z)
      PROVE  IInv' /\ V!Next /\ twice' = twice
  <2>1. PICK m : m = Deinit(mem, c)
    OBVIOUS
  <2>2. c \notin broken /\ Ready(m, c)
    BY <1>6, <2>1, DeinitReady DEF AssignValue, Good
  <2>3. mem' = InitObject(m, c, NewObject(z))
    BY <1>6, <2>1 DEF AssignValue
  <2>4. IInv' /\ V!Set(c, z)
    BY <1>6, <2>2, <2>3, Sets DEF AssignValue
  <2> QED
    BY <1>6, <2>4 DEF V!Next, AssignValue
<1>7. ASSUME NEW c \in Cells, NEW z \in Sizes, AssignThrows(c, NewObject(z))
      PROVE  IInv' /\ V!Next /\ twice' = twice
  BY <1>7, Breaks DEF V!Next, AssignThrows
<1>8. ASSUME NEW c \in Cells, NEW src \in Cells, CopyConstruct(c, src) \/ MoveConstruct(c, src)
      PROVE  IInv' /\ V!Next /\ twice' = twice
  <2>1. PICK m : m = mem
    OBVIOUS
  <2>2. c \notin broken /\ Ready(m, c) /\ Good(src) /\ c # src
    BY <1>8, <2>1, RawReady DEF CopyConstruct, MoveConstruct, Good
  <2>3. face' = [face EXCEPT ![c] = face[src]] /\ UNCHANGED <<broken, twice>>
    BY <1>8 DEF CopyConstruct, MoveConstruct
  <2>4. mem' = CopyInit(m, c, src) => IInv' /\ V!Copy(c, src)
    BY <2>2, <2>3, Copies
  <2>5. mem' = MoveInit(m, c, src) => IInv' /\ V!Move(c, src)
    BY <2>2, <2>3, Moves
  <2>6. mem' = CopyInit(m, c, src) \/ mem' = MoveInit(m, c, src)
    BY <1>8, <2>1 DEF CopyConstruct, MoveConstruct
  <2> QED
    BY <2>3, <2>4, <2>5, <2>6 DEF V!Next
<1>9. ASSUME NEW c \in Cells, NEW src \in Cells, CopyAssign(c, src) \/ MoveAssign(c, src)
      PROVE  IInv' /\ V!Next /\ twice' = twice
  <2>1. PICK m : m = Deinit(mem, c)
    OBVIOUS
  <2>2. c \notin broken /\ Ready(m, c) /\ Good(src) /\ c # src
    BY <1>9, <2>1, DeinitReady DEF CopyAssign, MoveAssign, Good
  <2>3. face' = [face EXCEPT ![c] = face[src]] /\ UNCHANGED <<broken, twice>>
    BY <1>9 DEF CopyAssign, MoveAssign
  <2>4. mem' = CopyInit(m, c, src) => IInv' /\ V!Copy(c, src)
    BY <2>2, <2>3, Copies
  <2>5. mem' = MoveInit(m, c, src) => IInv' /\ V!Move(c, src)
    BY <2>2, <2>3, Moves
  <2>6. mem' = CopyInit(m, c, src) \/ mem' = MoveInit(m, c, src)
    BY <1>9, <2>1 DEF CopyAssign, MoveAssign
  <2> QED
    BY <2>3, <2>4, <2>5, <2>6 DEF V!Next
<1> QED
  BY <1>1, <1>2, <1>3, <1>4, <1>5, <1>6, <1>7, <1>8, <1>9 DEF Next

-----------------------------------------------------------------------------
(***************************************************************************)
(* The theorems.                                                           *)
(***************************************************************************)
LEMMA InitIInv ==
  ASSUME Init
  PROVE  IInv /\ V!Init
<1>1. NewObject("small") \in Objects
  BY DEF NewObject, Objects, Sizes
<1>2. PICK m : m = mem
  OBVIOUS
<1>3. /\ m = [holder |-> [c \in Cells |-> None], place |-> [o \in Ids |-> "heap"],
              life |-> [o \in Ids |-> "dead"], value |-> [o \in Ids |-> NewObject("small")]]
  BY <1>2 DEF Init
<1>4. m \in Memories
  BY <1>1, <1>3 DEF Memories
<1>5. Owned(m, Cells)
  BY <1>3 DEF Owned
<1>6. face = [c \in Cells |-> "raw"] /\ broken = {} /\ twice = {}
  BY DEF Init
<1>7. TypeOK /\ Owned(mem, Cells \ broken)
  BY <1>2, <1>4, <1>5, <1>6 DEF TypeOK
<1>8. BrokenOK /\ FaceOK
  BY <1>2, <1>3, <1>6 DEF BrokenOK, FaceOK, Raw
<1>9. V!Init
  BY <1>6 DEF V!Init, V!Without, Without, CellOf, Raw
<1> QED
  BY <1>7, <1>8, <1>9 DEF IInv

\* DeepProxy keeps its inductive invariant: objects, their owners, and what
\* exceptions leave.
THEOREM DeepProxyIInv == Spec => []IInv
<1>1. Init => IInv
  BY InitIInv
<1>2. IInv /\ [Next]_vars => IInv'
  BY Steps
<1> QED
  BY <1>1, <1>2, PTL DEF Spec

\* The state of the proxies of wrapper.hpp and proxy.hpp is of its type.
THEOREM DeepProxyTypeOK == Spec => []TypeOK
<1>1. IInv => TypeOK
  BY DEF IInv
<1> QED
  BY <1>1, DeepProxyIInv, PTL

\* Every living object belongs to exactly one proxy, and every proxy that points
\* to an object to a living one: nothing leaks and nothing dangles, whatever
\* copies, moves, assignments and exceptions there were.
THEOREM DeepProxyObjectOwnedOnce == Spec => []ObjectOwnedOnce
<1>1. IInv => ObjectOwnedOnce
  <2> SUFFICES ASSUME IInv
               PROVE  ObjectOwnedOnce
    OBVIOUS
  <2>1. ASSUME NEW o \in Ids, mem.life[o] = "live"
        PROVE  \E c \in Cells : {d \in Cells \ broken : mem.holder[d] = o} = {c}
                                 /\ mem.place[o] \in {"heap", c}
    <3>1. PICK c \in Cells \ broken : mem.holder[c] = o
      BY <2>1 DEF IInv, Owned
    <3>2. /\ mem.place[o] \in {"heap", c}
          /\ \A d \in Cells \ broken : mem.holder[d] = o => d = c
      BY <3>1, DeepProxyAssumption DEF IInv, Owned
    <3> QED
      BY <3>1, <3>2
  <2>2. \A c \in Cells \ broken : mem.holder[c] # None =>
          mem.holder[c] \in Ids /\ mem.life[mem.holder[c]] = "live"
    BY DEF IInv, Owned
  <2> QED
    BY <2>1, <2>2 DEF ObjectOwnedOnce
<1> QED
  BY <1>1, DeepProxyIInv, PTL

\* deinit never destroys what is not there, but in a proxy whose assignment was
\* left by an exception.
THEOREM DeepProxyDestroyedOnce == Spec => DestroyedOnce
<1>1. IInv /\ [Next]_vars => [\A c \in Cells : c \in twice' \ twice => c \in broken]_vars
  BY Steps
<1> QED
  BY <1>1, DeepProxyIInv, PTL DEF Spec, DestroyedOnce

\* A DeepProxy is a value: the wrapper, with its block and its heap, implements
\* variables that are copied, moved, assigned and destroyed each on its own.
THEOREM DeepProxyRefines == Spec => ImplementsValueCells
<1>1. Init => V!Init
  BY InitIInv
<1>2. IInv /\ [Next]_vars => [V!Next]_([c \in Cells |-> CellOf(c)])
  BY Steps DEF cells
<1> QED
  BY <1>1, <1>2, DeepProxyIInv, PTL DEF Spec, V!Spec, ImplementsValueCells
=============================================================================
