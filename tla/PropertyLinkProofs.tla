-------------------------- MODULE PropertyLinkProofs --------------------------
(***************************************************************************)
(* Proofs about the link engine of addDimPropsToCache: with the code's     *)
(* one-link configuration and join keys that identify their source, every  *)
(* cached target holds the property of the cached source it matches.      *)
(***************************************************************************)
EXTENDS PropertyLink, TLAPS

USE PropertyLinkAssumption

L == Links[1]

\* The strengthening: kind entries track the records, and a source record is
\* one its handler produced (a push writes only into targets).
KindsTrack ==
    \A k \in Keys : uidKindCache[k] = IF dimPropCache[k] = Nil THEN NoKind ELSE KindOf[k]
SourcesFromProps ==
    \A k \in Keys : KindOf[k] = L.SourceKind /\ dimPropCache[k] # Nil
                        => dimPropCache[k] \in PropsOf[k]
LIInv == LinkTypeOK /\ KindsTrack /\ SourcesFromProps /\ LinkConsistent

-----------------------------------------------------------------------------
\* The loop of addDimPropsToCache over a one-element link list is one
\* iteration of its body.
LEMMA ApplyOneLink ==
    ASSUME OneLink, NEW key, NEW kinds, NEW own, NEW cache
    PROVE  ApplyLinks(key, kinds, own, cache) = LinkStep(L, key, kinds, own, cache)
<1>. DEFINE Body(f, i) == IF i = 0 THEN {<<own, cache>>}
                          ELSE UNION {LinkStep(Links[i], key, kinds, o[1], o[2]) : o \in f[i - 1]}
<1>1. \E f : f = [i \in 0..Len(Links) |-> Body(f, i)]
  <2>. DEFINE g == [i \in 0..1 |-> IF i = 0 THEN {<<own, cache>>}
                                   ELSE LinkStep(Links[1], key, kinds, own, cache)]
  <2>1. g = [i \in 0..Len(Links) |-> Body(g, i)]
    BY DEF OneLink
  <2>. QED  BY <2>1
<1>2. ASSUME NEW f, f = [i \in 0..Len(Links) |-> Body(f, i)]
      PROVE  f[Len(Links)] = LinkStep(L, key, kinds, own, cache)
  BY <1>2 DEF OneLink, L
<1>. QED
  BY <1>1, <1>2 DEF ApplyLinks

\* The link is a record of LinkRecords.
LEMMA LinkType ==
    ASSUME OneLink
    PROVE  /\ L \in LinkRecords
           /\ L.SourceKind # L.TargetKind
           /\ L.TargetProperty # L.TargetJoinKey
           /\ DOMAIN Links = {1}
<1>1. DOMAIN Links = {1}
  BY DEF OneLink
<1>2. L \in LinkRecords
  BY <1>1 DEF L
<1>. QED
  BY <1>1, <1>2 DEF L

\* Reading a property back from a record.
LEMMA ReadType ==
    ASSUME NEW r \in Records, NEW n \in PropNames
    PROVE  Read(r, n) \in Vals
BY DEF Read, Records

LEMMA ReadExcept ==
    ASSUME NEW r \in Records, NEW n \in PropNames, NEW v \in Vals, NEW m \in PropNames
    PROVE  /\ [r EXCEPT ![n] = v] \in Records
           /\ Read([r EXCEPT ![n] = v], n) = v
           /\ m # n => Read([r EXCEPT ![n] = v], m) = Read(r, m)
BY DEF Read, Records

\* LinkConsistent for the one link.
LEMMA LinkConsistentOne ==
    ASSUME OneLink
    PROVE  LinkConsistent <=>
             \A t, s \in Keys : Linked(L, t, s) =>
                 Read(dimPropCache[t], L.TargetProperty) = Read(dimPropCache[s], L.SourceProperty)
BY LinkType DEF LinkConsistent, L
-----------------------------------------------------------------------------
(***************************************************************************)
(* HandleAdd.                                                              *)
(***************************************************************************)

\* With one link, HandleAdd stores key's kind, pushes into the matching
\* targets and stores one of the records the pull can produce.
LEMMA HandleAddForm ==
    ASSUME OneLink, NEW k \in Keys, NEW props, HandleAdd(k, props)
    PROVE  /\ uidKindCache' = [uidKindCache EXCEPT ![k] = KindOf[k]]
           /\ \E own1 \in Pull(L, k, [uidKindCache EXCEPT ![k] = KindOf[k]], props, dimPropCache) :
                 dimPropCache' = [Push(L, k, [uidKindCache EXCEPT ![k] = KindOf[k]], props,
                                       dimPropCache) EXCEPT ![k] = own1]
<1>. DEFINE kinds == [uidKindCache EXCEPT ![k] = KindOf[k]]
<1>1. ApplyLinks(k, kinds, props, dimPropCache) = LinkStep(L, k, kinds, props, dimPropCache)
  BY ApplyOneLink
<1>2. PICK o \in LinkStep(L, k, kinds, props, dimPropCache) :
          dimPropCache' = [o[2] EXCEPT ![k] = o[1]]
  BY <1>1 DEF HandleAdd
<1>3. PICK own1 \in Pull(L, k, kinds, props, dimPropCache) :
          o = <<own1, Push(L, k, kinds, props, dimPropCache)>>
  BY DEF LinkStep
<1>4. uidKindCache' = kinds
  BY DEF HandleAdd
<1>. QED
  BY <1>2, <1>3, <1>4

\* The facts about the state before a HandleAdd that every case uses.
LEMMA CachedKind ==
    ASSUME OneLink, LIInv, NEW k \in Keys, NEW x \in Keys, x # k, NEW K \in Kinds,
           x \in CachedOfKind(dimPropCache, [uidKindCache EXCEPT ![k] = KindOf[k]], K)
    PROVE  /\ dimPropCache[x] \in Records
           /\ KindOf[x] = K
           /\ uidKindCache[x] = K
           /\ K = L.SourceKind => dimPropCache[x] \in PropsOf[x]
BY DEF CachedOfKind, LIInv, LinkTypeOK, KindsTrack, SourcesFromProps

\* HandleAdd of a source: its record is stored as given and pushed into
\* every cached target whose join key matches; join keys identify sources,
\* so no target is linked to another source with that key.
LEMMA HandleAddSourceInv ==
    ASSUME OneLink, UniqueSourceKeys, LIInv,
           NEW k \in Keys, NEW props \in PropsOf[k], HandleAdd(k, props),
           KindOf[k] = L.SourceKind
    PROVE  LIInv'
<1>. DEFINE C == dimPropCache
            kinds == [uidKindCache EXCEPT ![k] = KindOf[k]]
            S == L.SourceKind
            T == L.TargetKind
            Pushed(x) == /\ x \in CachedOfKind(C, kinds, T)
                         /\ JoinMatch(Read(C[x], L.TargetJoinKey), Read(props, L.SourceJoinKey))
            v == Read(props, L.SourceProperty)
<1>. USE DEF C, kinds, S, T, v
<1>0. /\ dimPropCache \in [Keys -> Records \cup {Nil}]
      /\ uidKindCache \in [Keys -> Kinds \cup {NoKind}]
      /\ kinds[k] = S
      /\ \A x \in Keys : x # k => kinds[x] = uidKindCache[x]
  BY DEF LIInv, LinkTypeOK
<1>1. /\ L \in LinkRecords /\ S # T /\ L.TargetProperty # L.TargetJoinKey
      /\ S \in Kinds /\ T \in Kinds
  BY LinkType DEF LinkRecords
<1>2. props \in Records /\ v \in Vals
  BY <1>1, ReadType DEF LinkRecords
<1>3. PICK own1 \in Pull(L, k, kinds, props, C) :
          /\ uidKindCache' = kinds
          /\ dimPropCache' = [Push(L, k, kinds, props, C) EXCEPT ![k] = own1]
  <2>1. /\ uidKindCache' = kinds
        /\ \E own1 \in Pull(L, k, kinds, props, C) :
              dimPropCache' = [Push(L, k, kinds, props, C) EXCEPT ![k] = own1]
    BY HandleAddForm
  <2>. QED  BY <2>1
<1>4. own1 = props
  BY <1>0, <1>1, <1>3 DEF Pull
<1>5. \A x \in Keys : x # k =>
         dimPropCache'[x] = IF Pushed(x) THEN [C[x] EXCEPT ![L.TargetProperty] = v] ELSE C[x]
  BY <1>0, <1>3 DEF Push
<1>6. /\ DOMAIN Push(L, k, kinds, props, C) = Keys
      /\ dimPropCache'[k] = props /\ uidKindCache'[k] = S
      /\ DOMAIN dimPropCache' = Keys /\ DOMAIN uidKindCache' = Keys
  <2>1. DOMAIN Push(L, k, kinds, props, C) = Keys
    BY <1>0 DEF Push
  <2>. QED
    BY <1>0, <1>3, <1>4, <2>1
<1>7. ASSUME NEW x \in Keys, x # k, Pushed(x)
      PROVE  /\ C[x] \in Records /\ KindOf[x] = T /\ uidKindCache[x] = T
             /\ dimPropCache'[x] = [C[x] EXCEPT ![L.TargetProperty] = v]
             /\ dimPropCache'[x] \in Records
             /\ Read(dimPropCache'[x], L.TargetJoinKey) = Read(C[x], L.TargetJoinKey)
             /\ Read(dimPropCache'[x], L.TargetProperty) = v
  <2>1. C[x] \in Records /\ KindOf[x] = T /\ uidKindCache[x] = T
    <3>1. /\ x \in CachedOfKind(dimPropCache, [uidKindCache EXCEPT ![k] = KindOf[k]],
                                L.TargetKind)
          /\ L.TargetKind \in Kinds
      BY <1>1, <1>7
    <3>. QED
      BY <1>7, <3>1, CachedKind
  <2>2. dimPropCache'[x] = [C[x] EXCEPT ![L.TargetProperty] = v]
    BY <1>5, <1>7
  <2>. QED
    BY <1>1, <1>2, <2>1, <2>2, ReadExcept DEF LinkRecords
<1>8. ASSUME NEW x \in Keys, x # k, ~Pushed(x)
      PROVE  dimPropCache'[x] = C[x]
  BY <1>5, <1>8
<1>9. LinkTypeOK'
  <2>1. \A x \in Keys : dimPropCache'[x] \in Records \cup {Nil}
    BY <1>0, <1>2, <1>6, <1>7, <1>8
  <2>2. dimPropCache' \in [Keys -> Records \cup {Nil}]
    BY <1>3, <1>6, <2>1
  <2>3. uidKindCache' \in [Keys -> Kinds \cup {NoKind}]
    BY <1>0, <1>3 DEF Kinds
  <2>. QED
    BY <2>2, <2>3 DEF LinkTypeOK
<1>10. KindsTrack'
  <2>1. SUFFICES ASSUME NEW x \in Keys
                 PROVE  uidKindCache'[x] = IF dimPropCache'[x] = Nil THEN NoKind ELSE KindOf[x]
    BY DEF KindsTrack
  <2>2. CASE x = k
    BY <1>2, <1>6, <2>2
  <2>3. CASE x # k /\ Pushed(x)
    BY <1>0, <1>3, <1>7, <2>3
  <2>4. CASE x # k /\ ~Pushed(x)
    BY <1>0, <1>3, <1>8, <2>4 DEF LIInv, KindsTrack
  <2>. QED
    BY <2>2, <2>3, <2>4
<1>11. SourcesFromProps'
  BY <1>1, <1>6, <1>7, <1>8 DEF LIInv, SourcesFromProps
<1>12. LinkConsistent'
  <2>1. SUFFICES ASSUME NEW t \in Keys, NEW s \in Keys, Linked(L, t, s)'
                 PROVE  Read(dimPropCache'[t], L.TargetProperty)
                          = Read(dimPropCache'[s], L.SourceProperty)
    BY LinkType DEF LinkConsistent, L
  <2>2. t # k /\ dimPropCache'[t] # Nil /\ uidKindCache[t] = T
    BY <1>0, <1>1, <1>3, <1>6, <2>1 DEF Linked, CachedOfKind
  <2>3. C[t] \in Records /\ KindOf[t] = T
    BY <1>1, <2>2 DEF LIInv, LinkTypeOK, KindsTrack
  <2>4. t \in CachedOfKind(C, kinds, T)
    BY <2>2, <2>3, PropertyLinkAssumption DEF CachedOfKind, Records
  <2>5. Read(dimPropCache'[t], L.TargetJoinKey) = Read(C[t], L.TargetJoinKey)
    BY <1>7, <1>8, <2>2
  <2>6. CASE s = k
    <3>1. JoinMatch(Read(props, L.SourceJoinKey), Read(C[t], L.TargetJoinKey))
      BY <1>6, <2>1, <2>5, <2>6 DEF Linked
    <3>2. Pushed(t)
      BY <2>4, <3>1 DEF JoinMatch
    <3>. QED
      BY <1>6, <1>7, <2>2, <2>6, <3>2
  <2>7. CASE s # k
    <3>1. s \in CachedOfKind(C, kinds, S)
      BY <1>3, <1>7, <1>8, <2>1, <2>7 DEF Linked, CachedOfKind
    <3>2. C[s] \in PropsOf[s] /\ KindOf[s] = S /\ uidKindCache[s] = S
      <4>1. /\ s \in CachedOfKind(dimPropCache, [uidKindCache EXCEPT ![k] = KindOf[k]],
                                  L.SourceKind)
            /\ s # k /\ L.SourceKind \in Kinds
        BY <1>1, <2>7, <3>1
      <4>. QED
        BY <4>1, CachedKind
    <3>3. dimPropCache'[s] = C[s]
      BY <1>1, <1>7, <1>8, <2>7, <3>2
    <3>4. JoinMatch(Read(C[s], L.SourceJoinKey), Read(C[t], L.TargetJoinKey))
      BY <2>1, <2>5, <3>3 DEF Linked
    <3>5. ~Pushed(t)
      <4>1. ~JoinMatch(Read(C[s], L.SourceJoinKey), Read(props, L.SourceJoinKey))
        BY <2>7, <3>2 DEF UniqueSourceKeys, L
      <4>. QED
        BY <3>4, <4>1 DEF JoinMatch
    <3>6. Linked(L, t, s)
      BY <2>2, <2>3, <3>2, <3>3, <3>4, <3>5, <1>8, <2>7 DEF Linked, CachedOfKind
    <3>. QED
      BY <1>8, <2>2, <3>3, <3>5, <3>6, LinkConsistentOne DEF LIInv
  <2>. QED
    BY <2>6, <2>7
<1>. QED
  BY <1>9, <1>10, <1>11, <1>12 DEF LIInv

\* HandleAdd of a target: the record stored is the one given, with the
\* source property of a matching cached source pulled in; join keys
\* identify sources, so that source is the only one the target matches.
LEMMA HandleAddTargetInv ==
    ASSUME OneLink, UniqueSourceKeys, LIInv,
           NEW k \in Keys, NEW props \in PropsOf[k], HandleAdd(k, props),
           KindOf[k] = L.TargetKind
    PROVE  LIInv'
<1>. DEFINE C == dimPropCache
            kinds == [uidKindCache EXCEPT ![k] = KindOf[k]]
            S == L.SourceKind
            T == L.TargetKind
            M == {ck \in CachedOfKind(C, kinds, S) :
                    JoinMatch(Read(C[ck], L.SourceJoinKey), Read(props, L.TargetJoinKey))}
<1>. USE DEF C, kinds, S, T
<1>0. /\ dimPropCache \in [Keys -> Records \cup {Nil}]
      /\ uidKindCache \in [Keys -> Kinds \cup {NoKind}]
      /\ kinds[k] = T
      /\ \A x \in Keys : x # k => kinds[x] = uidKindCache[x]
  BY DEF LIInv, LinkTypeOK
<1>1. /\ L \in LinkRecords /\ S # T /\ L.TargetProperty # L.TargetJoinKey
      /\ S \in Kinds /\ T \in Kinds
      /\ L.TargetProperty \in PropNames /\ L.TargetJoinKey \in PropNames
      /\ L.SourceProperty \in PropNames /\ L.SourceJoinKey \in PropNames
  BY LinkType DEF LinkRecords
<1>2. props \in Records
  OBVIOUS
<1>3. PICK own1 \in Pull(L, k, kinds, props, C) :
          /\ uidKindCache' = kinds
          /\ dimPropCache' = [Push(L, k, kinds, props, C) EXCEPT ![k] = own1]
  <2>1. /\ uidKindCache' = kinds
        /\ \E own1 \in Pull(L, k, kinds, props, C) :
              dimPropCache' = [Push(L, k, kinds, props, C) EXCEPT ![k] = own1]
    BY HandleAddForm
  <2>. QED  BY <2>1
<1>4. Push(L, k, kinds, props, C) = C
  BY <1>0, <1>1 DEF Push
<1>5. /\ own1 \in Records
      /\ Read(own1, L.TargetJoinKey) = Read(props, L.TargetJoinKey)
      /\ M # {} => \E ck \in M : own1 = [props EXCEPT ![L.TargetProperty] = Read(C[ck], L.SourceProperty)]
  <2>1. CASE M = {}
    <3>1. own1 = props
      BY <1>3, <2>1 DEF Pull
    <3>. QED  BY <1>2, <2>1, <3>1
  <2>2. CASE M # {}
    <3>1. PICK ck \in M : own1 = [props EXCEPT ![L.TargetProperty] = Read(C[ck], L.SourceProperty)]
      BY <1>0, <1>3, <2>2 DEF Pull
    <3>2. ck # k /\ C[ck] \in Records
      <4>1. /\ ck \in Keys /\ ck # k /\ L.SourceKind \in Kinds
            /\ ck \in CachedOfKind(dimPropCache, [uidKindCache EXCEPT ![k] = KindOf[k]],
                                   L.SourceKind)
        BY <1>0, <1>1 DEF M, CachedOfKind
      <4>. QED
        BY <4>1, CachedKind
    <3>3. Read(C[ck], L.SourceProperty) \in Vals
      BY <1>1, <3>2, ReadType
    <3>4. /\ own1 \in Records
          /\ Read(own1, L.TargetJoinKey) = Read(props, L.TargetJoinKey)
      <4>. DEFINE v == Read(C[ck], L.SourceProperty)
      <4>1. /\ [props EXCEPT ![L.TargetProperty] = v] \in Records
            /\ Read([props EXCEPT ![L.TargetProperty] = v], L.TargetJoinKey)
                 = Read(props, L.TargetJoinKey)
        BY <1>1, <1>2, <3>3, ReadExcept
      <4>. QED  BY <3>1, <4>1
    <3>. QED  BY <3>4, <3>1
  <2>. QED  BY <2>1, <2>2
<1>6. /\ dimPropCache' = [C EXCEPT ![k] = own1]
      /\ dimPropCache'[k] = own1 /\ uidKindCache'[k] = T
      /\ \A x \in Keys : x # k => dimPropCache'[x] = C[x] /\ uidKindCache'[x] = uidKindCache[x]
  BY <1>0, <1>3, <1>4
<1>7. LinkTypeOK'
  <2>1. dimPropCache' \in [Keys -> Records \cup {Nil}]
    BY <1>0, <1>5, <1>6
  <2>2. uidKindCache' \in [Keys -> Kinds \cup {NoKind}]
    BY <1>0, <1>3 DEF Kinds
  <2>. QED
    BY <2>1, <2>2 DEF LinkTypeOK
<1>8. KindsTrack'
  BY <1>5, <1>6 DEF LIInv, KindsTrack
<1>9. SourcesFromProps'
  BY <1>1, <1>6 DEF LIInv, SourcesFromProps
<1>10. LinkConsistent'
  <2>1. SUFFICES ASSUME NEW t \in Keys, NEW s \in Keys, Linked(L, t, s)'
                 PROVE  Read(dimPropCache'[t], L.TargetProperty)
                          = Read(dimPropCache'[s], L.SourceProperty)
    BY LinkType DEF LinkConsistent, L
  <2>2. s # k /\ s \in CachedOfKind(C, kinds, S)
    BY <1>0, <1>1, <1>6, <2>1 DEF Linked, CachedOfKind
  <2>3. C[s] \in PropsOf[s] /\ C[s] \in Records /\ KindOf[s] = S /\ dimPropCache'[s] = C[s]
    <3>0. /\ s \in CachedOfKind(dimPropCache, [uidKindCache EXCEPT ![k] = KindOf[k]], L.SourceKind)
          /\ s # k /\ L.SourceKind \in Kinds
      BY <1>1, <2>2
    <3>1. C[s] \in PropsOf[s] /\ C[s] \in Records /\ KindOf[s] = S
      BY <3>0, CachedKind
    <3>. QED  BY <1>6, <2>2, <3>1
  <2>4. CASE t = k
    <3>1. s \in M
      BY <1>5, <1>6, <2>1, <2>2, <2>3, <2>4 DEF Linked
    <3>2. PICK ck \in M : own1 = [props EXCEPT ![L.TargetProperty] = Read(C[ck], L.SourceProperty)]
      BY <1>5, <3>1
    <3>3. ck = s
      <4>1. SUFFICES ASSUME ck # s PROVE FALSE
        OBVIOUS
      <4>2. ck # k /\ C[ck] \in PropsOf[ck] /\ KindOf[ck] = S
        <5>1. /\ ck \in Keys /\ ck # k /\ L.SourceKind \in Kinds
              /\ ck \in CachedOfKind(dimPropCache, [uidKindCache EXCEPT ![k] = KindOf[k]],
                                     L.SourceKind)
          BY <1>0, <1>1 DEF M, CachedOfKind
        <5>. QED
          BY <5>1, CachedKind
      <4>3. ~JoinMatch(Read(C[ck], L.SourceJoinKey), Read(C[s], L.SourceJoinKey))
        <5>1. ck \in Keys
          BY DEF M, CachedOfKind
        <5>. QED
          BY <2>3, <4>1, <4>2, <5>1 DEF UniqueSourceKeys, L
      <4>. QED
        BY <3>1, <4>3 DEF JoinMatch
    <3>4. Read(C[s], L.SourceProperty) \in Vals
      BY <1>1, <2>3, ReadType
    <3>5. Read(own1, L.TargetProperty) = Read(C[s], L.SourceProperty)
      <4>1. Read([props EXCEPT ![L.TargetProperty] = Read(C[s], L.SourceProperty)],
                 L.TargetProperty) = Read(C[s], L.SourceProperty)
        BY <1>1, <1>2, <3>4, ReadExcept
      <4>. QED  BY <3>2, <3>3, <4>1
    <3>. QED
      BY <1>6, <2>3, <2>4, <3>5
  <2>5. CASE t # k
    <3>1. Linked(L, t, s)
      BY <1>6, <2>1, <2>2, <2>3, <2>5 DEF Linked, CachedOfKind
    <3>. QED
      BY <1>6, <2>2, <2>5, <3>1, LinkConsistentOne DEF LIInv
  <2>. QED
    BY <2>4, <2>5
<1>. QED
  BY <1>7, <1>8, <1>9, <1>10 DEF LIInv

\* HandleAdd of a resource the link does not name stores its record and
\* kind and touches no other record.
LEMMA HandleAddOtherInv ==
    ASSUME OneLink, LIInv,
           NEW k \in Keys, NEW props \in PropsOf[k], HandleAdd(k, props),
           KindOf[k] # L.SourceKind, KindOf[k] # L.TargetKind
    PROVE  LIInv'
<1>. DEFINE C == dimPropCache
            kinds == [uidKindCache EXCEPT ![k] = KindOf[k]]
<1>. USE DEF C, kinds
<1>0. /\ dimPropCache \in [Keys -> Records \cup {Nil}]
      /\ uidKindCache \in [Keys -> Kinds \cup {NoKind}]
      /\ kinds[k] = KindOf[k]
  BY DEF LIInv, LinkTypeOK
<1>1. PICK own1 \in Pull(L, k, kinds, props, C) :
          /\ uidKindCache' = kinds
          /\ dimPropCache' = [Push(L, k, kinds, props, C) EXCEPT ![k] = own1]
  <2>1. /\ uidKindCache' = kinds
        /\ \E own1 \in Pull(L, k, kinds, props, C) :
              dimPropCache' = [Push(L, k, kinds, props, C) EXCEPT ![k] = own1]
    BY HandleAddForm
  <2>. QED  BY <2>1
<1>2. own1 = props /\ Push(L, k, kinds, props, C) = C
  BY <1>0, <1>1 DEF Pull, Push
<1>3. /\ dimPropCache'[k] = props /\ props \in Records
      /\ uidKindCache'[k] = KindOf[k] /\ KindOf[k] \in Kinds
      /\ \A x \in Keys : x # k => dimPropCache'[x] = C[x] /\ uidKindCache'[x] = uidKindCache[x]
  BY <1>0, <1>1, <1>2 DEF Kinds
<1>4. LinkTypeOK'
  BY <1>0, <1>1, <1>2, <1>3 DEF LinkTypeOK
<1>5. KindsTrack'
  BY <1>3 DEF LIInv, KindsTrack
<1>6. SourcesFromProps'
  BY <1>3 DEF LIInv, SourcesFromProps
<1>7. LinkConsistent'
  <2>1. SUFFICES ASSUME NEW t \in Keys, NEW s \in Keys, Linked(L, t, s)'
                 PROVE  Read(dimPropCache'[t], L.TargetProperty)
                          = Read(dimPropCache'[s], L.SourceProperty)
    BY LinkType DEF LinkConsistent, L
  <2>2. t # k /\ s # k
    BY <1>3, <2>1 DEF Linked, CachedOfKind
  <2>3. Linked(L, t, s)
    BY <1>3, <2>1, <2>2 DEF Linked, CachedOfKind
  <2>. QED
    BY <1>3, <2>2, <2>3, LinkConsistentOne DEF LIInv
<1>. QED
  BY <1>4, <1>5, <1>6, <1>7 DEF LIInv

\* DeleteByKey removes one record and its kind; it creates no link.
LEMMA DeleteByKeyInv ==
    ASSUME OneLink, LIInv, NEW k \in Keys, DeleteByKey(k)
    PROVE  LIInv'
<1>1. /\ dimPropCache'[k] = Nil /\ uidKindCache'[k] = NoKind
      /\ \A x \in Keys : x # k => dimPropCache'[x] = dimPropCache[x]
                                   /\ uidKindCache'[x] = uidKindCache[x]
  BY DEF DeleteByKey, LIInv, LinkTypeOK
<1>2. LinkTypeOK'
  BY DEF DeleteByKey, LIInv, LinkTypeOK
<1>3. KindsTrack'
  BY <1>1 DEF LIInv, KindsTrack
<1>4. SourcesFromProps'
  BY <1>1 DEF LIInv, SourcesFromProps
<1>5. LinkConsistent'
  <2>1. SUFFICES ASSUME NEW t \in Keys, NEW s \in Keys, Linked(L, t, s)'
                 PROVE  Read(dimPropCache'[t], L.TargetProperty)
                          = Read(dimPropCache'[s], L.SourceProperty)
    BY LinkType DEF LinkConsistent, L
  <2>2. t # k /\ s # k
    BY <1>1, <2>1 DEF Linked, CachedOfKind
  <2>3. Linked(L, t, s)
    BY <1>1, <2>1, <2>2 DEF Linked, CachedOfKind
  <2>. QED
    BY <1>1, <2>2, <2>3, LinkConsistentOne DEF LIInv
<1>. QED
  BY <1>2, <1>3, <1>4, <1>5 DEF LIInv

-----------------------------------------------------------------------------
LEMMA InitLIInv == Init => LIInv
BY PropertyLinkAssumption DEF Init, LIInv, LinkTypeOK, KindsTrack, SourcesFromProps,
   LinkConsistent, Linked, CachedOfKind, Kinds

LEMMA NextLIInv ==
    ASSUME OneLink, UniqueSourceKeys
    PROVE  LIInv /\ [Next]_vars => LIInv'
<1>. SUFFICES ASSUME LIInv, [Next]_vars PROVE LIInv'
  OBVIOUS
<1>1. ASSUME NEW k \in Keys, NEW props \in PropsOf[k], HandleAdd(k, props)
      PROVE  LIInv'
  <2>1. CASE KindOf[k] = L.SourceKind
    BY <1>1, <2>1, HandleAddSourceInv
  <2>2. CASE KindOf[k] = L.TargetKind
    BY <1>1, <2>2, HandleAddTargetInv
  <2>3. CASE KindOf[k] # L.SourceKind /\ KindOf[k] # L.TargetKind
    BY <1>1, <2>3, HandleAddOtherInv
  <2>. QED  BY <2>1, <2>2, <2>3
<1>2. ASSUME NEW k \in Keys, DeleteByKey(k)
      PROVE  LIInv'
  BY <1>2, DeleteByKeyInv
<1>3. CASE UNCHANGED vars
  BY <1>3 DEF vars, LIInv, LinkTypeOK, KindsTrack, SourcesFromProps, LinkConsistent,
     Linked, CachedOfKind
<1>. QED
  BY <1>1, <1>2, <1>3 DEF Next

(* With the code's one link and join keys that identify their source (the *)
(* ReplicaSet names of one namespace), every cached pod whose replicaSet   *)
(* property names a cached ReplicaSet holds that ReplicaSet's deployment,  *)
(* whatever order HandleAdd and DeleteByKey ran in: the pull of            *)
(* addDimPropsToCache covers a target stored after its source, the push   *)
(* one stored before it.                                                   *)
THEOREM LinkConsistency ==
    ASSUME OneLink, UniqueSourceKeys
    PROVE  Spec => []LinkConsistent
<1>1. LIInv => LinkConsistent
  BY DEF LIInv
<1>. QED
  BY <1>1, InitLIInv, NextLIInv, PTL DEF Spec

-----------------------------------------------------------------------------
(***************************************************************************)
(* Type correctness needs only the one link.                               *)
(***************************************************************************)

\* A pull yields records, and a push keeps the cache a map of records, for
\* any link.
LEMMA PullPushType ==
    ASSUME NEW l \in LinkRecords, NEW key, NEW kinds, NEW own \in Records,
           NEW cache \in [Keys -> Records \cup {Nil}]
    PROVE  /\ Pull(l, key, kinds, own, cache) \subseteq Records
           /\ Push(l, key, kinds, own, cache) \in [Keys -> Records \cup {Nil}]
<1>0. /\ l.TargetProperty \in PropNames /\ l.SourceProperty \in PropNames
  BY DEF LinkRecords
<1>1. Pull(l, key, kinds, own, cache) \subseteq Records
  <2>1. ASSUME NEW ck \in CachedOfKind(cache, kinds, l.SourceKind)
        PROVE  [own EXCEPT ![l.TargetProperty] = Read(cache[ck], l.SourceProperty)]
                 \in Records
    <3>1. cache[ck] \in Records
      BY DEF CachedOfKind
    <3>2. Read(cache[ck], l.SourceProperty) \in Vals
      BY <1>0, <3>1, ReadType
    <3>. QED
      BY <1>0, <3>2, ReadExcept
  <2>. QED
    BY <2>1 DEF Pull
<1>2. Push(l, key, kinds, own, cache) \in [Keys -> Records \cup {Nil}]
  <2>1. ASSUME NEW ck \in CachedOfKind(cache, kinds, l.TargetKind)
        PROVE  [cache[ck] EXCEPT ![l.TargetProperty] = Read(own, l.SourceProperty)] \in Records
    <3>1. cache[ck] \in Records
      BY DEF CachedOfKind
    <3>2. Read(own, l.SourceProperty) \in Vals
      BY <1>0, ReadType
    <3>. QED
      BY <1>0, <3>1, <3>2, ReadExcept
  <2>. QED
    BY <2>1 DEF Push
<1>. QED
  BY <1>1, <1>2

LEMMA NextLinkType ==
    ASSUME OneLink
    PROVE  LinkTypeOK /\ [Next]_vars => LinkTypeOK'
<1>. SUFFICES ASSUME LinkTypeOK, [Next]_vars PROVE LinkTypeOK'
  OBVIOUS
<1>1. ASSUME NEW k \in Keys, NEW props \in PropsOf[k], HandleAdd(k, props)
      PROVE  LinkTypeOK'
  <2>. DEFINE kinds == [uidKindCache EXCEPT ![k] = KindOf[k]]
  <2>1. /\ uidKindCache' = kinds
        /\ \E own1 \in Pull(L, k, kinds, props, dimPropCache) :
              dimPropCache' = [Push(L, k, kinds, props, dimPropCache) EXCEPT ![k] = own1]
    BY <1>1, HandleAddForm
  <2>2. /\ Pull(L, k, kinds, props, dimPropCache) \subseteq Records
        /\ Push(L, k, kinds, props, dimPropCache) \in [Keys -> Records \cup {Nil}]
    <3>1. L \in LinkRecords /\ props \in Records
      BY LinkType
    <3>. QED
      BY <3>1, PullPushType DEF LinkTypeOK
  <2>3. uidKindCache' \in [Keys -> Kinds \cup {NoKind}]
    BY <2>1 DEF LinkTypeOK, Kinds
  <2>4. dimPropCache' \in [Keys -> Records \cup {Nil}]
    BY <2>1, <2>2
  <2>. QED
    BY <2>3, <2>4 DEF LinkTypeOK
<1>2. ASSUME NEW k \in Keys, DeleteByKey(k)
      PROVE  LinkTypeOK'
  BY <1>2 DEF DeleteByKey, LinkTypeOK
<1>3. CASE UNCHANGED vars
  BY <1>3 DEF vars, LinkTypeOK
<1>. QED
  BY <1>1, <1>2, <1>3 DEF Next

(* With the code's one link, whatever the join keys, every reachable state *)
(* is well typed: the records the link pushes and pulls write stay records *)
(* of the property names, and the kind cache holds kinds.                 *)
THEOREM LinkTypeCorrect ==
    ASSUME OneLink
    PROVE  Spec => []LinkTypeOK
<1>1. Init => LinkTypeOK
  BY DEF Init, LinkTypeOK
<1>. QED
  BY <1>1, NextLinkType, PTL DEF Spec

====
