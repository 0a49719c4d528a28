------------------------- MODULE SharedWrapperProofs -------------------------
(***************************************************************************)
(* For every finite set of handles and every set of objects: count_ of an  *)
(* object is one less than the wrappers that hold a counted reference to   *)
(* it, whence the one that reads 0 is alone, deletes the object once and   *)
(* after all uses of it, and the object lives as long as it is held.       *)
(***************************************************************************)
EXTENDS SharedWrapper, FiniteSetTheorems, TLAPS

LEMMA CountedFinite ==
  ASSUME NEW o \in Objects
  PROVE  /\ Counted(o) \subseteq Handles
         /\ IsFiniteSet(Counted(o)) /\ Cardinality(Counted(o)) \in Nat
         /\ Cardinality(Counted(o)) <= SizeMax
         /\ Cardinality(Handles) \in Nat
<1>1. Counted(o) \in SUBSET Handles
  BY DEF Counted
<1>2. IsFiniteSet(Counted(o)) /\ Cardinality(Counted(o)) <= Cardinality(Handles)
  BY <1>1, FS_Subset, WrapperAssumption
<1>3. Cardinality(Counted(o)) \in Nat /\ Cardinality(Handles) \in Nat
  BY <1>2, FS_CardinalityType, WrapperAssumption
<1> QED
  BY <1>1, <1>2, <1>3, WrapperAssumption

\* A wrapper that is counted, or about to be, is not alone with a "last" one.
LEMMA NoLastBesideCounted ==
  ASSUME IInv, NEW h \in Handles, holder[h] # None, at[h] # "last"
  PROVE  \A g \in Handles : at[g] = "last" => holder[g] # holder[h]
BY DEF IInv, LastOK

LEMMA InitIInv == Init => IInv
BY FS_EmptySet, WrapperAssumption
   DEF Init, IInv, TypeOK, HandleOK, SourceOK, LastOK, ViewOK, LiveIffHeld, CountOK,
       DeleteSeesAllUses, Counted, HandleAt


LEMMA MakeIInv ==
  ASSUME IInv, NEW h \in Handles, NEW o \in Objects, Make(h, o)
  PROVE  IInv'
<1> USE DEF IInv
<1>1. /\ at[h] = "raw" /\ how[h] = "none" /\ holder[h] = None /\ o # None
      /\ \A g \in Handles : holder[g] # o
      /\ \A g \in Handles : from[g] # h
  BY WrapperAssumption DEF Make, HandleOK, SourceOK, LiveIffHeld
<1>2. TypeOK'
  BY WrapperAssumption DEF TypeOK, Make, HandleAt
<1>3. HandleOK' /\ SourceOK' /\ LastOK'
  BY <1>1 DEF TypeOK, HandleOK, SourceOK, LastOK, Make
<1>4. /\ Counted(o) = {} /\ Counted(o)' = {h}
      /\ \A p \in Objects \ {o} : Counted(p)' = Counted(p)
  BY <1>1 DEF TypeOK, Counted, Make
<1>5. LiveIffHeld'
  BY <1>1, WrapperAssumption DEF TypeOK, LiveIffHeld, Make
<1>6. CountOK'
  <2>1. count'[o] = 0 /\ Cardinality(Counted(o)') = 1
    BY <1>4, FS_Singleton DEF TypeOK, Make
  <2>2. \A p \in Objects \ {o} : mem'[p] = mem[p] /\ count'[p] = count[p]
    BY DEF TypeOK, Make
  <2>3. \A g \in Handles : at[g] = "last" => at'[g] = "last" /\ holder'[g] = holder[g]
    BY <1>1 DEF TypeOK, Make
  <2> SUFFICES ASSUME NEW p \in Objects, mem'[p] = "live",
                      ~\E g \in Handles : at'[g] = "last" /\ holder'[g] = p
               PROVE  count'[p] + 1 = Cardinality(Counted(p)')
    BY DEF CountOK
  <2>4. CASE p = o
    BY <2>1, <2>4
  <2>5. CASE p # o
    BY <1>4, <2>2, <2>3, <2>5 DEF CountOK
  <2> QED
    BY <2>4, <2>5
<1>7. ViewOK'
  <2>1. users[o] \subseteq published[o]
    BY <1>1, <1>4 DEF ViewOK
  <2>2. \A p \in Objects \ {o} :
          (\A g \in Handles : at'[g] = "last" => holder'[g] # p)
            => \A g \in Handles : at[g] = "last" => holder[g] # p
    BY <1>1 DEF TypeOK, Make
  <2> QED
    BY <1>4, <2>1, <2>2 DEF ViewOK, Make
<1>8. DeleteSeesAllUses'
  BY <1>1 DEF TypeOK, DeleteSeesAllUses, Make
<1> QED
  BY <1>2, <1>3, <1>5, <1>6, <1>7, <1>8

LEMMA MakeNullIInv ==
  ASSUME IInv, NEW h \in Handles, MakeNull(h)
  PROVE  IInv'
<1> USE DEF IInv
<1>1. /\ at[h] = "raw" /\ how[h] = "none" /\ holder[h] = None
      /\ \A g \in Handles : from[g] # h
  BY WrapperAssumption DEF MakeNull, HandleOK, SourceOK
<1>2. TypeOK'
  BY DEF TypeOK, MakeNull, HandleAt
<1>3. HandleOK' /\ SourceOK' /\ LastOK'
  BY <1>1 DEF TypeOK, HandleOK, SourceOK, LastOK, MakeNull
<1>4. \A p \in Objects : Counted(p)' = Counted(p)
  BY <1>1, WrapperAssumption DEF TypeOK, Counted, MakeNull
<1>5. LiveIffHeld' /\ CountOK' /\ ViewOK' /\ DeleteSeesAllUses'
  BY <1>1, <1>4 DEF TypeOK, LiveIffHeld, CountOK, ViewOK, DeleteSeesAllUses, MakeNull
<1> QED
  BY <1>2, <1>3, <1>5

LEMMA UseIInv ==
  ASSUME IInv, NEW h \in Handles, Use(h)
  PROVE  IInv'
<1> USE DEF IInv
<1>1. at[h] = "ready" /\ holder[h] \in Objects /\ h \in Counted(holder[h])
  BY DEF Use, Readable, TypeOK, Counted
<1>2. TypeOK'
  BY <1>1 DEF TypeOK, Use
<1>3. HandleOK' /\ SourceOK' /\ LastOK' /\ LiveIffHeld'
  BY DEF HandleOK, SourceOK, LastOK, LiveIffHeld, Use
<1>4. \A p \in Objects : Counted(p)' = Counted(p)
  BY DEF Counted, Use
<1>5. CountOK'
  BY <1>4 DEF CountOK, Use
<1>6. ViewOK'
  BY <1>1, <1>4 DEF TypeOK, ViewOK, Use, Counted
<1>7. DeleteSeesAllUses'
  BY <1>1, NoLastBesideCounted DEF TypeOK, LastOK, DeleteSeesAllUses, Use
<1> QED
  BY <1>2, <1>3, <1>5, <1>6, <1>7

\* A copy or move is begun: only at, how and from change, and only at `h`.
LEMMA SourcedIInv ==
  ASSUME IInv, NEW h \in Handles, NEW src \in Handles, NEW kind \in {"copy", "move"},
         Construct(h, src, kind) \/ Assign(h, src, kind)
  PROVE  IInv'
<1> USE DEF IInv
<1>1. /\ Sourced(h, src, kind) /\ h # src /\ at[src] = "ready"
      /\ how[h] = "none" /\ \A g \in Handles : from[g] # h
      /\ \/ at[h] = "raw" /\ at' = [at EXCEPT ![h] = "init"]
         \/ at[h] = "ready" /\ at' = [at EXCEPT ![h] = "deinit"]
  BY WrapperAssumption DEF Construct, Assign, Own, Sourced, Readable, HandleOK, SourceOK
<1>2. TypeOK'
  BY <1>1 DEF TypeOK, Sourced, HandleAt
<1>3. HandleOK'
  BY <1>1, WrapperAssumption DEF TypeOK, HandleOK, Sourced
<1>4. SourceOK'
  BY <1>1 DEF TypeOK, HandleOK, SourceOK, Sourced, Readable, Own
<1>5. \A p \in Objects : Counted(p)' = Counted(p)
  BY <1>1, WrapperAssumption DEF TypeOK, HandleOK, Counted, Sourced
<1>6. \A g \in Handles : at'[g] = "last" <=> at[g] = "last"
  BY <1>1 DEF TypeOK
<1>7. LastOK' /\ LiveIffHeld' /\ CountOK' /\ ViewOK' /\ DeleteSeesAllUses'
  BY <1>1, <1>5, <1>6
     DEF LastOK, LiveIffHeld, CountOK, ViewOK, DeleteSeesAllUses, Sourced
<1> QED
  BY <1>2, <1>3, <1>4, <1>7

LEMMA DestroyIInv ==
  ASSUME IInv, NEW h \in Handles, Destroy(h)
  PROVE  IInv'
<1> USE DEF IInv
<1>1. at[h] = "ready" /\ \A g \in Handles : from[g] # h
  BY DEF Destroy, Own
<1>2. TypeOK'
  BY <1>1 DEF TypeOK, Destroy, HandleAt
<1>3. HandleOK' /\ SourceOK'
  BY <1>1 DEF TypeOK, HandleOK, SourceOK, Destroy
<1>4. \A p \in Objects : Counted(p)' = Counted(p)
  BY <1>1 DEF TypeOK, Counted, Destroy
<1>5. \A g \in Handles : at'[g] = "last" <=> at[g] = "last"
  BY <1>1 DEF TypeOK, Destroy
<1>6. LastOK' /\ LiveIffHeld' /\ CountOK' /\ ViewOK' /\ DeleteSeesAllUses'
  BY <1>1, <1>4, <1>5
     DEF LastOK, LiveIffHeld, CountOK, ViewOK, DeleteSeesAllUses, Destroy
<1> QED
  BY <1>2, <1>3, <1>6

LEMMA CopyPointerIInv ==
  ASSUME IInv, NEW h \in Handles, CopyPointer(h)
  PROVE  IInv'
<1> USE DEF IInv
<1>1. /\ at[h] = "init" /\ how[h] = "copy" /\ holder[h] = None
      /\ from[h] \in Handles /\ from[h] # h /\ at[from[h]] = "ready"
      /\ holder[from[h]] \in Objects
      /\ \A g \in Handles : from[g] # h
  BY WrapperAssumption DEF CopyPointer, TypeOK, HandleOK, SourceOK
<1>2. TypeOK'
  BY <1>1 DEF TypeOK, CopyPointer, HandleAt
<1>3. HandleOK' /\ SourceOK'
  BY <1>1 DEF TypeOK, HandleOK, SourceOK, CopyPointer
<1>4. \A p \in Objects : Counted(p)' = Counted(p)
  BY <1>1, WrapperAssumption DEF TypeOK, Counted, CopyPointer
<1>5. /\ \A g \in Handles : at'[g] = "last" <=> at[g] = "last"
      /\ \A g \in Handles \ {h} : holder'[g] = holder[g] /\ view'[g] = view[g]
      /\ holder'[h] = holder[from[h]] /\ at'[h] = "counting"
  BY <1>1 DEF TypeOK, CopyPointer
<1>6. \A g \in Handles : at[g] = "last" => holder[g] # holder[from[h]]
  BY <1>1, NoLastBesideCounted, WrapperAssumption
<1>7. LastOK' /\ DeleteSeesAllUses'
  BY <1>1, <1>5, <1>6 DEF LastOK, DeleteSeesAllUses, CopyPointer
<1>8. LiveIffHeld'
  BY <1>1, <1>5, WrapperAssumption DEF LiveIffHeld, CopyPointer
<1>9. CountOK'
  BY <1>4, <1>5, <1>1 DEF CountOK, CopyPointer
<1>10. ViewOK'
  <2>1. \A p \in Objects : h \notin Counted(p)
    BY <1>1 DEF Counted
  <2> QED
    BY <1>1, <1>4, <1>5, <2>1 DEF ViewOK, CopyPointer, Counted
<1> QED
  BY <1>2, <1>3, <1>7, <1>8, <1>9, <1>10

LEMMA CopyCountIInv ==
  ASSUME IInv, NEW h \in Handles, CopyCount(h)
  PROVE  IInv'
<1> USE DEF IInv
<1> DEFINE o == holder[h]
<1>1. /\ at[h] = "counting" /\ how[h] = "copy" /\ o \in Objects
      /\ \A g \in Handles : from[g] # h
  BY WrapperAssumption DEF CopyCount, TypeOK, HandleOK, SourceOK
<1>2. /\ mem[o] = "live" /\ ~\E g \in Handles : at[g] = "last" /\ holder[g] = o
  BY <1>1, NoLastBesideCounted, WrapperAssumption DEF LiveIffHeld
<1>3. /\ Counted(o)' = Counted(o) \cup {h} /\ h \notin Counted(o)
      /\ \A p \in Objects \ {o} : Counted(p)' = Counted(p)
  BY <1>1 DEF TypeOK, Counted, CopyCount
<1>4. /\ Cardinality(Counted(o)') = Cardinality(Counted(o)) + 1
      /\ Cardinality(Counted(o)') <= SizeMax
  <2>1. Counted(o)' \in SUBSET Handles
    BY <1>1, <1>3, CountedFinite
  <2>2. Cardinality(Counted(o)') <= Cardinality(Handles)
    BY <2>1, FS_Subset, WrapperAssumption
  <2>3. Cardinality(Counted(o) \cup {h}) = Cardinality(Counted(o)) + 1
    BY <1>1, <1>3, CountedFinite, FS_AddElement
  <2> QED
    BY <1>1, <1>3, <2>2, <2>3, CountedFinite, WrapperAssumption
<1>5. count[o] + 1 = Cardinality(Counted(o)) /\ count[o] \in Nat
  BY <1>1, <1>2 DEF CountOK, TypeOK
<1>6. count'[o] = count[o] + 1 /\ count'[o] \in 0..SizeMax
  BY <1>1, <1>4, <1>5, WrapperAssumption DEF TypeOK, CopyCount, Incr
<1>7. TypeOK'
  BY <1>1, <1>6 DEF TypeOK, CopyCount, HandleAt
<1>8. HandleOK' /\ SourceOK'
  BY <1>1, WrapperAssumption DEF TypeOK, HandleOK, SourceOK, CopyCount
<1>9. \A g \in Handles : at'[g] = "last" <=> at[g] = "last"
  BY <1>1 DEF TypeOK, CopyCount
<1>10. LastOK' /\ LiveIffHeld' /\ DeleteSeesAllUses'
  BY <1>1, <1>9 DEF LastOK, LiveIffHeld, DeleteSeesAllUses, CopyCount
<1>11. CountOK'
  <2>1. \A p \in Objects \ {o} : count'[p] = count[p] /\ Counted(p)' = Counted(p)
    BY <1>1, <1>3 DEF TypeOK, CopyCount
  <2>2. count'[o] + 1 = Cardinality(Counted(o)')
    BY <1>1, <1>3, <1>4, <1>5, <1>6, CountedFinite
  <2>3. mem' = mem /\ holder' = holder
    BY DEF CopyCount
  <2> QED
    BY <1>9, <2>1, <2>2, <2>3 DEF CountOK
<1>12. ViewOK'
  BY <1>1, <1>3, <1>9 DEF ViewOK, CopyCount
<1> QED
  BY <1>7, <1>8, <1>10, <1>11, <1>12

LEMMA MovePointerIInv ==
  ASSUME IInv, NEW h \in Handles, MovePointer(h)
  PROVE  IInv'
<1> USE DEF IInv
<1>0. PICK src \in Handles, o \in Objects \cup {None} : src = from[h] /\ o = holder[src]
  BY DEF MovePointer, TypeOK, HandleOK
<1>1. /\ at[h] = "init" /\ how[h] = "move" /\ holder[h] = None
      /\ src # h /\ at[src] = "ready"
      /\ \A g \in Handles : from[g] # h
      /\ \A g \in Handles \ {h} : from[g] # src
  BY <1>0, WrapperAssumption DEF MovePointer, TypeOK, HandleOK, SourceOK
<1>2. TypeOK'
  BY <1>0, <1>1 DEF TypeOK, MovePointer, HandleAt
<1>3. HandleOK' /\ SourceOK'
  BY <1>0, <1>1, WrapperAssumption DEF TypeOK, HandleOK, SourceOK, MovePointer
<1>4. /\ \A g \in Handles : at'[g] = "last" <=> at[g] = "last"
      /\ \A g \in Handles \ {h, src} : holder'[g] = holder[g] /\ view'[g] = view[g]
      /\ \A g \in Handles \ {h} : at'[g] = at[g]
      /\ holder'[h] = o /\ holder'[src] = None /\ view'[h] = view[src]
      /\ at'[h] = "ready" /\ at'[src] = "ready"
  BY <1>0, <1>1 DEF TypeOK, MovePointer
<1>5. \A g \in Handles : at[g] = "last" => holder[g] # o /\ g \notin {h, src}
  BY <1>0, <1>1, NoLastBesideCounted DEF LastOK
<1>6. LastOK' /\ DeleteSeesAllUses'
  <2> SUFFICES ASSUME NEW g \in Handles, at'[g] = "last"
               PROVE  /\ holder'[g] # None
                      /\ \A k \in Handles \ {g} : holder'[k] # holder'[g]
                      /\ users'[holder'[g]] \subseteq view'[g]
    BY DEF LastOK, DeleteSeesAllUses
  <2>1. at[g] = "last" /\ g \notin {h, src} /\ holder[g] # o
    BY <1>4, <1>5
  <2>2. holder'[g] = holder[g] /\ view'[g] = view[g] /\ users' = users
    BY <1>4, <2>1 DEF MovePointer
  <2> QED
    BY <1>4, <2>1, <2>2 DEF LastOK, DeleteSeesAllUses
<1>7. LiveIffHeld'
  <2> SUFFICES ASSUME NEW p \in Objects
               PROVE  (\E g \in Handles : holder'[g] = p) <=> \E g \in Handles : holder[g] = p
    BY DEF LiveIffHeld, MovePointer
  <2>1. ASSUME NEW g \in Handles, holder'[g] = p PROVE \E k \in Handles : holder[k] = p
    BY <1>0, <1>1, <1>4, <2>1, WrapperAssumption
  <2>2. ASSUME NEW g \in Handles, holder[g] = p PROVE \E k \in Handles : holder'[k] = p
    BY <1>0, <1>1, <1>4, <2>2, WrapperAssumption
  <2> QED
    BY <2>1, <2>2
<1>8. /\ o \in Objects => /\ src \in Counted(o) /\ h \notin Counted(o)
                          /\ Counted(o)' = (Counted(o) \ {src}) \cup {h}
      /\ \A p \in Objects : p # o => /\ Counted(p)' = Counted(p)
                                     /\ src \notin Counted(p) /\ h \notin Counted(p)
  <2> SUFFICES ASSUME NEW p \in Objects
               PROVE  /\ h \notin Counted(p)
                      /\ p = o => /\ src \in Counted(p)
                                  /\ Counted(p)' = (Counted(p) \ {src}) \cup {h}
                      /\ p # o => Counted(p)' = Counted(p) /\ src \notin Counted(p)
    OBVIOUS
  <2>1. h \notin Counted(p) /\ (src \in Counted(p) <=> p = o) /\ src \notin Counted(p)'
    BY <1>0, <1>1, <1>4, WrapperAssumption DEF Counted
  <2>2. h \in Counted(p)' <=> p = o
    BY <1>4 DEF Counted
  <2>3. \A g \in Handles \ {h, src} : g \in Counted(p)' <=> g \in Counted(p)
    BY <1>4 DEF Counted
  <2>4. Counted(p) \subseteq Handles /\ Counted(p)' \subseteq Handles
    BY DEF Counted
  <2> QED
    BY <2>1, <2>2, <2>3, <2>4
<1>9. CountOK'
  <2>1. ASSUME o \in Objects PROVE Cardinality(Counted(o)') = Cardinality(Counted(o))
    <3>1. Cardinality(Counted(o) \ {src}) = Cardinality(Counted(o)) - 1
      BY <1>8, <2>1, CountedFinite, FS_RemoveElement
    <3>2. IsFiniteSet(Counted(o) \ {src}) /\ h \notin Counted(o) \ {src}
      BY <1>8, <2>1, CountedFinite, FS_RemoveElement
    <3>3. Cardinality((Counted(o) \ {src}) \cup {h}) = Cardinality(Counted(o) \ {src}) + 1
      BY <3>2, FS_AddElement
    <3>4. Cardinality(Counted(o)) \in Nat /\ Counted(o)' = (Counted(o) \ {src}) \cup {h}
      BY <1>8, <2>1, CountedFinite
    <3> QED
      BY <3>1, <3>3, <3>4
  <2>2. ASSUME NEW p \in Objects PROVE Cardinality(Counted(p)') = Cardinality(Counted(p))
    <3>1. CASE p = o
      BY <2>1, <3>1
    <3>2. CASE p # o
      BY <1>8, <3>2
    <3> QED
      BY <3>1, <3>2
  <2>3. ASSUME NEW p \in Objects, ~\E g \in Handles : at'[g] = "last" /\ holder'[g] = p
        PROVE  ~\E g \in Handles : at[g] = "last" /\ holder[g] = p
    BY <1>1, <1>4, <1>5, <2>3
  <2> QED
    BY <2>2, <2>3 DEF CountOK, MovePointer
<1>10. ViewOK'
  <2> SUFFICES ASSUME NEW p \in Objects, NEW u \in users[p], u \notin published[p],
                      \A g \in Handles : at'[g] = "last" => holder'[g] # p
               PROVE  \E g \in Counted(p)' : u \in view'[g]
    BY DEF ViewOK, MovePointer
  <2>1. PICK g \in Counted(p) : u \in view[g]
    <3>1. \A k \in Handles : at[k] = "last" => holder[k] # p
      BY <1>1, <1>4, <1>5
    <3> QED
      BY <3>1 DEF ViewOK
  <2>2. CASE g = src
    <3>1. p = o /\ h \in Counted(p)'
      BY <1>8, <2>1, <2>2
    <3> QED
      BY <1>4, <2>1, <2>2, <3>1
  <2>3. CASE g # src
    <3>1. g \in Handles /\ g # h /\ g \in Counted(p)'
      BY <1>8, <2>1, <2>3, CountedFinite
    <3> QED
      BY <1>4, <2>1, <2>3, <3>1
  <2> QED
    BY <2>2, <2>3
<1> QED
  BY <1>2, <1>3, <1>6, <1>7, <1>9, <1>10

LEMMA DeinitNullIInv ==
  ASSUME IInv, NEW h \in Handles, DeinitNull(h)
  PROVE  IInv'
<1> USE DEF IInv
<1>1. /\ at[h] = "deinit" /\ holder[h] = None
      /\ \A g \in Handles : from[g] # h
      /\ at'[h] \in {"raw", "init"} /\ (at'[h] = "raw" <=> how[h] = "none")
  BY WrapperAssumption DEF DeinitNull, TypeOK, HandleOK, SourceOK, AfterDeinit
<1>2. TypeOK'
  BY <1>1 DEF TypeOK, DeinitNull, HandleAt, AfterDeinit
<1>3. HandleOK' /\ SourceOK'
  BY <1>1 DEF TypeOK, HandleOK, SourceOK, DeinitNull
<1>4. \A p \in Objects : Counted(p)' = Counted(p)
  BY <1>1, WrapperAssumption DEF TypeOK, Counted, DeinitNull
<1>5. \A g \in Handles : at'[g] = "last" <=> at[g] = "last"
  BY <1>1 DEF TypeOK, DeinitNull
<1>6. LastOK' /\ LiveIffHeld' /\ CountOK' /\ ViewOK' /\ DeleteSeesAllUses'
  BY <1>1, <1>4, <1>5
     DEF LastOK, LiveIffHeld, CountOK, ViewOK, DeleteSeesAllUses, DeinitNull
<1> QED
  BY <1>2, <1>3, <1>6

\* The fetch_sub that reads another value than 0: another wrapper is left.
LEMMA FetchSubMoreIInv ==
  ASSUME IInv, NEW h \in Handles, FetchSub(h), count[holder[h]] # 0
  PROVE  IInv'
<1> USE DEF IInv
<1>0. PICK o \in Objects : o = holder[h]
  BY DEF FetchSub, TypeOK
<1>1. /\ at[h] = "deinit"
      /\ \A g \in Handles : from[g] # h
      /\ at'[h] \in {"raw", "init"} /\ (at'[h] = "raw" <=> how[h] = "none")
  BY <1>0, WrapperAssumption DEF FetchSub, TypeOK, HandleOK, SourceOK, AfterDeinit
<1>2. /\ holder' = [holder EXCEPT ![h] = None]
      /\ view' = [view EXCEPT ![h] = {}]
      /\ at' = [at EXCEPT ![h] = AfterDeinit(h)]
      /\ published' = [published EXCEPT ![o] = @ \cup view[h]]
      /\ count' = [count EXCEPT ![o] = Decr(@)]
      /\ UNCHANGED <<mem, users, how, from>>
  BY <1>0 DEF FetchSub
<1>3. mem[o] = "live" /\ ~\E g \in Handles : at[g] = "last" /\ holder[g] = o
  BY <1>0, <1>1, NoLastBesideCounted, WrapperAssumption DEF LiveIffHeld
<1>4. /\ count[o] + 1 = Cardinality(Counted(o)) /\ count[o] \in 1..SizeMax
      /\ count'[o] = count[o] - 1
  <2>1. count[o] + 1 = Cardinality(Counted(o)) /\ count[o] \in 1..SizeMax
    BY <1>0, <1>1, <1>3 DEF CountOK, TypeOK
  <2>2. count'[o] = Decr(count[o])
    BY <1>1, <1>2 DEF TypeOK
  <2> QED
    BY <2>1, <2>2, WrapperAssumption DEF Decr
<1>5. /\ h \in Counted(o) /\ Counted(o)' = Counted(o) \ {h}
      /\ \A p \in Objects : p # o => Counted(p)' = Counted(p) /\ h \notin Counted(p)
  <2> SUFFICES ASSUME NEW p \in Objects
               PROVE  (h \in Counted(p) <=> p = o) /\ Counted(p)' = Counted(p) \ {h}
    OBVIOUS
  <2>1. (h \in Counted(p) <=> p = o) /\ h \notin Counted(p)'
    BY <1>0, <1>1 DEF Counted
  <2>2. \A g \in Handles \ {h} : holder'[g] = holder[g] /\ at'[g] = at[g]
    BY <1>2 DEF TypeOK
  <2>3. \A g \in Handles \ {h} : g \in Counted(p)' <=> g \in Counted(p)
    BY <2>2 DEF Counted
  <2>4. Counted(p) \subseteq Handles /\ Counted(p)' \subseteq Handles
    BY DEF Counted
  <2> QED
    BY <2>1, <2>3, <2>4
<1>6. Cardinality(Counted(o)') = count[o]
  <2>1. Cardinality(Counted(o) \ {h}) = Cardinality(Counted(o)) - 1
    BY <1>1, <1>5, CountedFinite, FS_RemoveElement
  <2> QED
    BY <1>4, <1>5, <2>1
<1>7. PICK k \in Counted(o) : k # h
  <2>1. Counted(o)' # {}
    BY <1>4, <1>6, FS_EmptySet
  <2> QED
    BY <1>5, <2>1
<1>8. TypeOK'
  <2>1. Decr(count[o]) \in 0..SizeMax
    BY <1>4, WrapperAssumption DEF Decr
  <2> QED
    BY <1>1, <1>2, <2>1 DEF TypeOK, HandleAt, AfterDeinit
<1>9. /\ \A g \in Handles : at'[g] = "last" <=> at[g] = "last"
      /\ \A g \in Handles \ {h} : holder'[g] = holder[g] /\ view'[g] = view[g]
      /\ holder'[h] = None
  BY <1>1, <1>2 DEF TypeOK, AfterDeinit
<1>10. HandleOK' /\ SourceOK'
  BY <1>1, <1>2 DEF TypeOK, HandleOK, SourceOK
<1>11. LastOK' /\ DeleteSeesAllUses'
  BY <1>1, <1>2, <1>9, WrapperAssumption DEF LastOK, DeleteSeesAllUses, TypeOK
<1>12. LiveIffHeld'
  BY <1>0, <1>1, <1>2, <1>7, <1>9, WrapperAssumption DEF LiveIffHeld, Counted
<1>13. CountOK'
  <2>1. \A p \in Objects \ {o} : count'[p] = count[p]
    BY <1>2 DEF TypeOK
  <2>2. count'[o] + 1 = Cardinality(Counted(o)')
    BY <1>4, <1>6
  <2>3. \A p \in Objects : (\E g \in Handles : at[g] = "last" /\ holder[g] = p)
                             => \E g \in Handles : at'[g] = "last" /\ holder'[g] = p
    BY <1>1, <1>9
  <2> SUFFICES ASSUME NEW p \in Objects, mem'[p] = "live",
                      ~\E g \in Handles : at'[g] = "last" /\ holder'[g] = p
               PROVE  count'[p] + 1 = Cardinality(Counted(p)')
    BY DEF CountOK
  <2>4. CASE p = o
    BY <2>2, <2>4
  <2>5. CASE p # o
    BY <1>2, <1>5, <2>1, <2>3, <2>5 DEF CountOK
  <2> QED
    BY <2>4, <2>5
<1>14. ViewOK'
  <2> SUFFICES ASSUME NEW p \in Objects, NEW u \in users[p], u \notin published'[p],
                      \A g \in Handles : at'[g] = "last" => holder'[g] # p
               PROVE  \E g \in Counted(p)' : u \in view'[g]
    BY <1>2 DEF ViewOK
  <2>1. u \notin published[p] /\ (p = o => u \notin view[h])
    BY <1>1, <1>2 DEF TypeOK
  <2>2. PICK g \in Counted(p) : u \in view[g]
    <3>1. \A k2 \in Handles : at[k2] = "last" => holder[k2] # p
      BY <1>1, <1>9
    <3> QED
      BY <2>1, <3>1 DEF ViewOK
  <2>3. g # h /\ g \in Handles
    BY <1>5, <2>1, <2>2, CountedFinite
  <2>4. g \in Counted(p)'
    BY <1>5, <2>2, <2>3
  <2> QED
    BY <1>9, <2>2, <2>3, <2>4
<1> QED
  BY <1>8, <1>10, <1>11, <1>12, <1>13, <1>14

\* The fetch_sub that reads 0: no other wrapper is left, not even one that is
\* being copied to, for its source would be counted.
LEMMA FetchSubLastIInv ==
  ASSUME IInv, NEW h \in Handles, FetchSub(h), count[holder[h]] = 0
  PROVE  IInv'
<1> USE DEF IInv
<1> DEFINE o == holder[h]
<1>1. /\ at[h] = "deinit" /\ o \in Objects
      /\ \A g \in Handles : from[g] # h
  BY WrapperAssumption DEF FetchSub, TypeOK, HandleOK, SourceOK
<1>2. /\ at' = [at EXCEPT ![h] = "last"]
      /\ view' = [view EXCEPT ![h] = view[h] \cup published[o]]
      /\ published' = [published EXCEPT ![o] = @ \cup view[h]]
      /\ count' = [count EXCEPT ![o] = Decr(@)]
      /\ UNCHANGED <<mem, holder, users, how, from>>
  BY DEF FetchSub, Acquired
<1>3. mem[o] = "live" /\ ~\E g \in Handles : at[g] = "last" /\ holder[g] = o
  BY <1>1, NoLastBesideCounted, WrapperAssumption DEF LiveIffHeld
<1>4. Counted(o) = {h}
  <2>1. Cardinality(Counted(o)) = 1 /\ h \in Counted(o)
    BY <1>1, <1>3 DEF CountOK, Counted
  <2>2. Cardinality(Counted(o) \ {h}) = 0 /\ IsFiniteSet(Counted(o) \ {h})
    BY <1>1, <2>1, CountedFinite, FS_RemoveElement
  <2>3. Counted(o) \ {h} = {}
    BY <2>2, FS_EmptySet
  <2> QED
    BY <2>1, <2>3
<1>5. \A g \in Handles \ {h} : holder[g] # o
  <2> SUFFICES ASSUME NEW g \in Handles \ {h}, holder[g] = o PROVE FALSE
    OBVIOUS
  <2>1. at[g] \notin {"ready", "deinit", "raw", "init", "last"}
    BY <1>1, <1>3, <1>4, WrapperAssumption DEF Counted, HandleOK
  <2>2. at[g] = "counting"
    BY <2>1 DEF TypeOK, HandleAt
  <2>3. from[g] \in Handles /\ from[g] \in Counted(o) /\ from[g] # h
    BY <1>1, <2>2 DEF TypeOK, HandleOK, SourceOK, Counted
  <2> QED
    BY <1>4, <2>3
<1>6. TypeOK'
  <2>1. Decr(count[o]) \in 0..SizeMax
    BY WrapperAssumption DEF Decr
  <2> QED
    BY <1>1, <1>2, <2>1 DEF TypeOK, HandleAt
<1>7. HandleOK' /\ SourceOK'
  BY <1>1, <1>2 DEF TypeOK, HandleOK, SourceOK
<1>8. /\ \A g \in Handles : at'[g] = "last" <=> at[g] = "last" \/ g = h
      /\ \A g \in Handles \ {h} : at'[g] = at[g] /\ view'[g] = view[g]
  BY <1>2 DEF TypeOK
<1>9. LastOK'
  BY <1>1, <1>2, <1>5, <1>8, WrapperAssumption DEF LastOK
<1>10. LiveIffHeld'
  BY <1>2 DEF LiveIffHeld
<1>11. \A p \in Objects : p # o => Counted(p)' = Counted(p)
  <2> SUFFICES ASSUME NEW p \in Objects, p # o PROVE Counted(p)' = Counted(p)
    OBVIOUS
  <2>1. h \notin Counted(p) /\ h \notin Counted(p)'
    BY <1>2 DEF Counted
  <2>2. \A g \in Handles \ {h} : g \in Counted(p)' <=> g \in Counted(p)
    BY <1>2, <1>8 DEF Counted
  <2>3. Counted(p) \subseteq Handles /\ Counted(p)' \subseteq Handles
    BY DEF Counted
  <2> QED
    BY <2>1, <2>2, <2>3
<1>12. CountOK'
  <2> SUFFICES ASSUME NEW p \in Objects, mem'[p] = "live",
                      ~\E g \in Handles : at'[g] = "last" /\ holder'[g] = p
               PROVE  count'[p] + 1 = Cardinality(Counted(p)')
    BY DEF CountOK
  <2>1. p # o /\ ~\E g \in Handles : at[g] = "last" /\ holder[g] = p
    BY <1>2, <1>8
  <2> QED
    BY <1>2, <1>11, <2>1 DEF CountOK, TypeOK
<1>13. users[o] \subseteq view[h] \cup published[o]
  BY <1>1, <1>3, <1>4 DEF ViewOK
<1>14. ViewOK'
  <2> SUFFICES ASSUME NEW p \in Objects, NEW u \in users[p], u \notin published'[p],
                      \A g \in Handles : at'[g] = "last" => holder'[g] # p
               PROVE  \E g \in Counted(p)' : u \in view'[g]
    BY <1>2 DEF ViewOK
  <2>1. p # o /\ u \notin published[p]
    BY <1>2, <1>8 DEF TypeOK
  <2>2. PICK g \in Counted(p) : u \in view[g]
    BY <1>2, <1>8, <2>1 DEF ViewOK
  <2>3. g # h /\ g \in Handles
    BY <2>1, <2>2 DEF Counted
  <2> QED
    BY <1>8, <1>11, <2>1, <2>2, <2>3
<1>15. DeleteSeesAllUses'
  <2> SUFFICES ASSUME NEW g \in Handles, at'[g] = "last"
               PROVE  users[holder[g]] \subseteq view'[g]
    BY <1>2 DEF DeleteSeesAllUses
  <2>1. CASE g = h
    BY <1>2, <1>13, <2>1 DEF TypeOK
  <2>2. CASE g # h
    BY <1>8, <2>2 DEF DeleteSeesAllUses
  <2> QED
    BY <2>1, <2>2
<1> QED
  BY <1>6, <1>7, <1>9, <1>10, <1>12, <1>14, <1>15

LEMMA DeleteIInv ==
  ASSUME IInv, NEW h \in Handles, Delete(h)
  PROVE  IInv'
<1> USE DEF IInv
<1> DEFINE o == holder[h]
<1>1. /\ at[h] = "last" /\ o \in Objects
      /\ \A g \in Handles : from[g] # h
      /\ \A g \in Handles \ {h} : holder[g] # o
      /\ at'[h] \in {"raw", "init"} /\ (at'[h] = "raw" <=> how[h] = "none")
  BY WrapperAssumption DEF Delete, TypeOK, HandleOK, SourceOK, LastOK, AfterDeinit
<1>2. TypeOK'
  BY <1>1 DEF TypeOK, Delete, HandleAt, AfterDeinit
<1>3. HandleOK' /\ SourceOK'
  BY <1>1 DEF TypeOK, HandleOK, SourceOK, Delete
<1>4. /\ \A g \in Handles : at'[g] = "last" <=> at[g] = "last" /\ g # h
      /\ \A g \in Handles \ {h} : at'[g] = at[g] /\ holder'[g] = holder[g] /\ view'[g] = view[g]
      /\ holder'[h] = None /\ mem'[o] = "deleted" /\ users'[o] = {}
      /\ \A p \in Objects : p # o =>
           mem'[p] = mem[p] /\ users'[p] = users[p] /\ published'[p] = published[p]
  BY <1>1 DEF TypeOK, Delete
<1>5. LastOK'
  BY <1>1, <1>4 DEF LastOK
<1>6. DeleteSeesAllUses'
  <2> SUFFICES ASSUME NEW g \in Handles, at'[g] = "last"
               PROVE  users'[holder'[g]] \subseteq view'[g]
    BY DEF DeleteSeesAllUses
  <2>1. at[g] = "last" /\ g # h /\ holder[g] # o /\ holder[g] \in Objects
    BY <1>1, <1>4 DEF TypeOK, LastOK
  <2> QED
    BY <1>4, <2>1 DEF DeleteSeesAllUses
<1>7. LiveIffHeld'
  <2> SUFFICES ASSUME NEW p \in Objects
               PROVE  mem'[p] = "live" <=> \E g \in Handles : holder'[g] = p
    BY DEF LiveIffHeld
  <2>1. CASE p = o
    BY <1>1, <1>4, <2>1, WrapperAssumption
  <2>2. CASE p # o
    BY <1>4, <2>2, WrapperAssumption DEF LiveIffHeld
  <2> QED
    BY <2>1, <2>2
<1>8. \A p \in Objects : p # o => Counted(p)' = Counted(p)
  <2> SUFFICES ASSUME NEW p \in Objects, p # o PROVE Counted(p)' = Counted(p)
    OBVIOUS
  <2>1. h \notin Counted(p) /\ h \notin Counted(p)'
    BY <1>4, WrapperAssumption DEF Counted
  <2>2. \A g \in Handles \ {h} : g \in Counted(p)' <=> g \in Counted(p)
    BY <1>4 DEF Counted
  <2>3. Counted(p) \subseteq Handles /\ Counted(p)' \subseteq Handles
    BY DEF Counted
  <2> QED
    BY <2>1, <2>2, <2>3
<1>9. \A p \in Objects : p # o =>
        ((\A g \in Handles : at'[g] = "last" => holder'[g] # p)
           => \A g \in Handles : at[g] = "last" => holder[g] # p)
  BY <1>4
<1>10. CountOK'
  <2> SUFFICES ASSUME NEW p \in Objects, mem'[p] = "live",
                      ~\E g \in Handles : at'[g] = "last" /\ holder'[g] = p
               PROVE  count'[p] + 1 = Cardinality(Counted(p)')
    BY DEF CountOK
  <2>1. p # o /\ mem[p] = "live" /\ count' = count
    BY <1>4 DEF Delete
  <2> QED
    BY <1>8, <1>9, <2>1 DEF CountOK
<1>11. ViewOK'
  <2> SUFFICES ASSUME NEW p \in Objects, NEW u \in users'[p], u \notin published'[p],
                      \A g \in Handles : at'[g] = "last" => holder'[g] # p
               PROVE  \E g \in Counted(p)' : u \in view'[g]
    BY DEF ViewOK
  <2>1. p # o /\ u \in users[p] /\ u \notin published[p]
    BY <1>4
  <2>2. PICK g \in Counted(p) : u \in view[g]
    BY <1>9, <2>1 DEF ViewOK
  <2>3. g # h /\ g \in Handles
    BY <2>1, <2>2 DEF Counted
  <2> QED
    BY <1>4, <1>8, <2>1, <2>2, <2>3
<1> QED
  BY <1>2, <1>3, <1>5, <1>6, <1>7, <1>10, <1>11

\* The strengthened invariant is inductive: a wrapper that is neither counted nor
\* alone is being copied to from one that is counted.
THEOREM WrapperIInv == Spec => []IInv
<1>1. IInv /\ [Next]_vars => IInv'
  <2> SUFFICES ASSUME IInv, [Next]_vars PROVE IInv'
    OBVIOUS
  <2>1. CASE UNCHANGED vars
    BY <2>1 DEF IInv, TypeOK, HandleOK, SourceOK, LastOK, ViewOK, LiveIffHeld, CountOK,
       DeleteSeesAllUses, Counted, vars
  <2>2. ASSUME NEW h \in Handles, FetchSub(h) PROVE IInv'
    BY <2>2, FetchSubMoreIInv, FetchSubLastIInv
  <2>3. CASE Next
    BY <2>2, <2>3, MakeIInv, SourcedIInv, MakeNullIInv, UseIInv, DestroyIInv, CopyPointerIInv,
       CopyCountIInv, MovePointerIInv, DeinitNullIInv, DeleteIInv DEF Next
  <2> QED
    BY <2>1, <2>3
<1> QED
  BY InitIInv, <1>1, PTL DEF Spec

\* Type correctness of the wrappers and their objects.
THEOREM WrapperTypeOK == Spec => []TypeOK
<1>1. IInv => TypeOK
  BY DEF IInv
<1> QED
  BY <1>1, WrapperIInv, PTL

\* An object lives exactly as long as some wrapper points to it.
THEOREM WrapperLiveIffHeld == Spec => []LiveIffHeld
<1>1. IInv => LiveIffHeld
  BY DEF IInv
<1> QED
  BY <1>1, WrapperIInv, PTL

\* count_ is one less than the number of references that are counted.
THEOREM WrapperCountOK == Spec => []CountOK
<1>1. IInv => CountOK
  BY DEF IInv
<1> QED
  BY <1>1, WrapperIInv, PTL

\* All uses of an object happen before it is deleted.
THEOREM WrapperDeleteSeesAllUses == Spec => []DeleteSeesAllUses
<1>1. IInv => DeleteSeesAllUses
  BY DEF IInv
<1> QED
  BY <1>1, WrapperIInv, PTL
=============================================================================
