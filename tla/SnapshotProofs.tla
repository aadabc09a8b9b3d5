---------------------------- MODULE SnapshotProofs ----------------------------
(***************************************************************************)
(* Proofs that the record snapshots AllDimProperties hands out are         *)
(* isolated from the cache, for every set of keys and every heap bound.    *)
(***************************************************************************)
EXTENDS Snapshot, FiniteSetTheorems, FunctionTheorems, TLAPS

USE SnapshotAssumption

(* No aliasing between the cache and what the consumer holds: a map of a   *)
(* cached record is never reachable from the consumer, and never the       *)
(* Dimensions map of a cached datapoint (which AllDatapoints hands out).   *)
RecordsUnshared ==
    /\ \A m \in CachedRecMaps : held[m] = None
    /\ CachedDims \cap CachedRecMaps = {}

\* The inductive invariant.
SIInv == SnapTypeOK /\ SnapshotStable /\ RecordIsolation /\ RecordsUnshared

-----------------------------------------------------------------------------
(***************************************************************************)
(* Allocation.                                                             *)
(***************************************************************************)

\* A finite set injects into a finite set at least as large.
LEMMA InjectionExists ==
    ASSUME NEW S, NEW T, IsFiniteSet(S), IsFiniteSet(T),
           Cardinality(S) <= Cardinality(T)
    PROVE  \E f \in [S -> T] : \A x, y \in S : x # y => f[x] # f[y]
<1>. DEFINE n == Cardinality(S)
            m == Cardinality(T)
<1>1. n \in Nat /\ m \in Nat
  BY FS_CardinalityType
<1>2. PICK F \in Bijection(S, 1..n) : TRUE
  <2>1. ExistsBijection(1..n, S)
    BY FS_CardinalityType
  <2>2. ExistsBijection(S, 1..n)
    BY <2>1, Fun_ExistsBijSymmetric
  <2>. QED
    BY <2>2 DEF ExistsBijection
<1>3. PICK G \in Bijection(1..m, T) : TRUE
  <2>1. ExistsBijection(1..m, T)
    BY FS_CardinalityType
  <2>. QED
    BY <2>1 DEF ExistsBijection
<1>4. F \in Injection(S, 1..m)
  <2>1. F \in [S -> 1..n] /\ \A x, y \in S : F[x] = F[y] => x = y
    BY <1>2 DEF Bijection, Injection, IsInjective
  <2>2. F \in [S -> 1..m]
    BY <1>1, <2>1
  <2>. QED
    BY <2>1, <2>2, Fun_IsInj
<1>5. G \in Injection(1..m, T)
  BY <1>3 DEF Bijection
<1>6. [s \in S |-> G[F[s]]] \in Injection(S, T)
  BY <1>4, <1>5, Fun_InjTransitive
<1>. QED
  BY <1>6 DEF Injection, IsInjective

\* Alloc picks distinct free maps for the slots whenever CanAlloc holds.
LEMMA AllocFresh ==
    ASSUME SnapTypeOK, NEW slots, IsFiniteSet(slots), CanAlloc(slots)
    PROVE  /\ Alloc(slots) \in [slots -> FreeMaps]
           /\ \A x, y \in slots : x # y => Alloc(slots)[x] # Alloc(slots)[y]
<1>1. IsFiniteSet(FreeMaps)
  BY FS_Subset DEF FreeMaps
<1>2. \E f \in [slots -> FreeMaps] : \A x, y \in slots : x # y => f[x] # f[y]
  BY <1>1, InjectionExists DEF CanAlloc
<1>. QED
  BY <1>2 DEF Alloc

\* The three slots of an add are a finite set.
LEMMA AddSlotsFinite == IsFiniteSet(AddSlots)
<1>1. IsFiniteSet({"Dimensions"})
  BY FS_Singleton
<1>2. IsFiniteSet({"Dimensions", "Properties"})
  BY <1>1, FS_AddElement
<1>3. IsFiniteSet({"Dimensions", "Properties", "Tags"})
  BY <1>2, FS_AddElement
<1>. QED
  BY <1>3 DEF AddSlots, Fields

\* The two fields of a record are a finite set.
LEMMA FieldsFinite == IsFiniteSet(Fields)
<1>1. IsFiniteSet({"Properties"})
  BY FS_Singleton
<1>2. IsFiniteSet({"Properties", "Tags"})
  BY <1>1, FS_AddElement
<1>. QED
  BY <1>2 DEF Fields

\* A free map is a map no cached entry and no consumer reaches.
LEMMA FreeIsFree ==
    ASSUME NEW m \in FreeMaps
    PROVE  /\ m \in MapIds
           /\ m \notin CachedDims
           /\ m \notin CachedRecMaps
           /\ held[m] = None
BY DEF FreeMaps

-----------------------------------------------------------------------------
(***************************************************************************)
(* SIInv is inductive: one lemma per action.                               *)
(***************************************************************************)

\* HandleAdd stores the new datapoint and record in three fresh maps.
LEMMA HandleAddInv ==
    ASSUME SIInv, NEW k \in Keys, NEW v \in Vals, HandleAdd(k, v)
    PROVE  SIInv'
<1>. DEFINE a == Alloc(AddSlots)
            D == a["Dimensions"]
            W == {a[sl] : sl \in AddSlots}
<1>1. /\ a \in [AddSlots -> FreeMaps]
      /\ \A x, y \in AddSlots : x # y => a[x] # a[y]
  BY AllocFresh, AddSlotsFinite DEF SIInv, HandleAdd
<1>2. /\ dpDims' = [dpDims EXCEPT ![k] = D]
      /\ recMaps' = [recMaps EXCEPT ![k] = [f \in Fields |-> a[f]]]
      /\ held' = held
      /\ heap' = Collect([m \in MapIds |-> IF m \in W THEN v ELSE heap[m]])
      /\ wrote' = Collect([m \in MapIds |-> IF m \in W THEN v ELSE wrote[m]])
  BY DEF HandleAdd
<1>3. \A m \in W : m \in FreeMaps
  BY <1>1
<1>4. \A kk \in RecKeys', f \in Fields :
         recMaps'[kk][f] = IF kk = k THEN a[f] ELSE recMaps[kk][f]
  BY <1>2 DEF SIInv, SnapTypeOK, RecKeys
<1>5. \A kk \in RecKeys' : kk # k => kk \in RecKeys
  BY <1>2 DEF SIInv, SnapTypeOK, RecKeys
<1>6. \A kk \in Keys : dpDims'[kk] # None =>
         dpDims'[kk] = IF kk = k THEN D ELSE dpDims[kk]
  BY <1>2 DEF SIInv, SnapTypeOK
<1>7. \A m \in MapIds : held[m] # None \/ m \in CachedRecMaps' \/ m \in CachedDims'
         => m \in Reachable'
  BY <1>2 DEF Reachable
<1>8. \A m \in MapIds : m \in Reachable' =>
         /\ heap'[m] = IF m \in W THEN v ELSE heap[m]
         /\ wrote'[m] = IF m \in W THEN v ELSE wrote[m]
  BY <1>2 DEF Collect
<1>9. SnapTypeOK'
  <2>1. D \in MapIds /\ \A f \in Fields : a[f] \in MapIds
    BY <1>1, FreeIsFree DEF AddSlots
  <2>2. heap' \in [MapIds -> Vals \cup {None}] /\ wrote' \in [MapIds -> Vals \cup {None}]
    BY <1>2 DEF Collect, SIInv, SnapTypeOK
  <2>. QED
    BY <1>2, <2>1, <2>2 DEF SIInv, SnapTypeOK
<1>10. SnapshotStable'
  <2> SUFFICES ASSUME NEW m \in MapIds, held'[m] # None PROVE heap'[m] = held'[m]
    BY DEF SnapshotStable
  <2>1. m \notin W
    BY <1>2, <1>3, FreeIsFree
  <2>. QED
    BY <1>2, <1>7, <1>8, <2>1 DEF SIInv, SnapshotStable
<1>11. RecordIsolation'
  <2> SUFFICES ASSUME NEW kk \in RecKeys', NEW f \in Fields
               PROVE  heap'[recMaps'[kk][f]] = wrote'[recMaps'[kk][f]]
    BY DEF RecordIsolation
  <2>. DEFINE x == recMaps'[kk][f]
  <2>1. x \in CachedRecMaps' /\ x \in MapIds
    <3>1. x \in CachedRecMaps'
      BY DEF CachedRecMaps
    <3>2. CASE kk = k
      <4>1. x = a[f] /\ f \in AddSlots
        BY <1>4, <3>2 DEF AddSlots
      <4>. QED
        BY <1>1, <3>1, <4>1, FreeIsFree
    <3>3. CASE kk # k
      BY <1>4, <1>5, <3>1, <3>3 DEF SIInv, SnapTypeOK, RecKeys
    <3>. QED
      BY <3>1, <3>2, <3>3
  <2>2. x \in Reachable'
    BY <1>7, <2>1
  <2>3. CASE kk = k
    <3>1. x \in W
      BY <1>4, <2>3 DEF AddSlots
    <3>. QED
      BY <1>8, <2>1, <2>2, <3>1
  <2>4. CASE kk # k
    <3>1. x = recMaps[kk][f] /\ kk \in RecKeys
      BY <1>4, <1>5, <2>4
    <3>2. x \in CachedRecMaps
      BY <3>1 DEF CachedRecMaps
    <3>3. x \notin W
      BY <1>3, <3>2, FreeIsFree
    <3>. QED
      BY <1>8, <2>1, <2>2, <3>1, <3>3 DEF SIInv, RecordIsolation
  <2>. QED
    BY <2>3, <2>4
<1>12. RecordsUnshared'
  <2>1. \A m \in CachedRecMaps' : m \in W \/ m \in CachedRecMaps
    <3> SUFFICES ASSUME NEW m \in CachedRecMaps' PROVE m \in W \/ m \in CachedRecMaps
      OBVIOUS
    <3>1. PICK kk \in RecKeys', f \in Fields : m = recMaps'[kk][f]
      BY DEF CachedRecMaps
    <3>2. CASE kk = k
      BY <1>4, <3>1, <3>2 DEF AddSlots
    <3>3. CASE kk # k
      BY <1>4, <1>5, <3>1, <3>3 DEF CachedRecMaps
    <3>. QED
      BY <3>2, <3>3
  <2>2. \A m \in CachedDims' : m = D \/ m \in CachedDims
    BY <1>6 DEF CachedDims
  <2>3. \A m \in CachedRecMaps' : held'[m] = None
    BY <1>2, <1>3, <2>1, FreeIsFree DEF SIInv, RecordsUnshared
  <2>4. \A m \in CachedRecMaps' : m # D
    <3> SUFFICES ASSUME NEW m \in CachedRecMaps', m = D PROVE FALSE
      OBVIOUS
    <3>1. CASE m \in CachedRecMaps
      BY <1>1, <3>1, FreeIsFree DEF AddSlots
    <3>2. CASE m \notin CachedRecMaps
      <4>1. PICK kk \in RecKeys', f \in Fields : m = recMaps'[kk][f]
        BY DEF CachedRecMaps
      <4>2. kk = k
        BY <1>4, <1>5, <3>2, <4>1 DEF CachedRecMaps
      <4>3. m = a[f]
        BY <1>4, <4>1, <4>2
      <4>. QED
        BY <1>1, <4>3 DEF AddSlots, Fields
    <3>. QED
      BY <3>1, <3>2
  <2>5. \A m \in CachedRecMaps' : m \notin CachedDims
    BY <1>3, <2>1, FreeIsFree DEF SIInv, RecordsUnshared
  <2>6. CachedDims' \cap CachedRecMaps' = {}
    BY <2>2, <2>4, <2>5
  <2>. QED
    BY <2>3, <2>6 DEF RecordsUnshared
<1>. QED
  BY <1>9, <1>10, <1>11, <1>12 DEF SIInv

\* UpdateServiceProp writes the service property into a cached record's
\* Properties map, which no consumer holds.
LEMMA UpdateServicePropInv ==
    ASSUME SIInv, NEW k \in Keys, NEW v \in Vals, UpdateServiceProp(k, v)
    PROVE  SIInv'
<1>. DEFINE x == recMaps[k]["Properties"]
<1>1. x \in CachedRecMaps /\ x \in MapIds
  BY DEF UpdateServiceProp, CachedRecMaps, Fields, SIInv, SnapTypeOK, RecKeys
<1>2. held[x] = None
  BY <1>1 DEF SIInv, RecordsUnshared
<1>3. SnapTypeOK'
  BY <1>1 DEF UpdateServiceProp, SIInv, SnapTypeOK
<1>4. SnapshotStable'
  BY <1>1, <1>2 DEF UpdateServiceProp, SIInv, SnapTypeOK, SnapshotStable
<1>5. RecordIsolation'
  BY <1>1 DEF UpdateServiceProp, SIInv, SnapTypeOK, RecordIsolation, RecKeys
<1>6. RecordsUnshared'
  BY DEF UpdateServiceProp, SIInv, RecordsUnshared, CachedRecMaps, CachedDims, RecKeys
<1>. QED
  BY <1>3, <1>4, <1>5, <1>6 DEF SIInv

\* In a well-typed state the cached maps are maps of the heap.
LEMMA CachedAreMaps ==
    ASSUME SnapTypeOK
    PROVE  CachedRecMaps \subseteq MapIds /\ CachedDims \subseteq MapIds
BY DEF SnapTypeOK, CachedRecMaps, CachedDims, RecKeys

\* Collecting keeps every map that stays reachable.
LEMMA CollectKeeps ==
    ASSUME NEW h, NEW m \in MapIds, m \in Reachable'
    PROVE  Collect(h)[m] = h[m]
BY DEF Collect, Reachable

\* DeleteByKey drops the key's maps; the rest stay as they are.
LEMMA DeleteByKeyInv ==
    ASSUME SIInv, NEW k \in Keys, DeleteByKey(k)
    PROVE  SIInv'
<1>1. /\ dpDims' = [dpDims EXCEPT ![k] = None]
      /\ recMaps' = [recMaps EXCEPT ![k] = None]
      /\ held' = held
      /\ heap' = Collect(heap)
      /\ wrote' = Collect(wrote)
  BY DEF DeleteByKey
<1>2. RecKeys' = RecKeys \ {k} /\ \A kk \in RecKeys' : recMaps'[kk] = recMaps[kk]
  BY <1>1 DEF RecKeys, SIInv, SnapTypeOK
<1>3. CachedRecMaps' \subseteq CachedRecMaps /\ CachedDims' \subseteq CachedDims
  BY <1>1, <1>2 DEF CachedRecMaps, CachedDims, SIInv, SnapTypeOK
<1>4. SnapTypeOK'
  BY <1>1 DEF Collect, SIInv, SnapTypeOK
<1>5. SnapshotStable'
  <2> SUFFICES ASSUME NEW m \in MapIds, held'[m] # None PROVE heap'[m] = held'[m]
    BY DEF SnapshotStable
  <2>1. m \in Reachable'
    BY <1>1 DEF Reachable
  <2>. QED
    BY <1>1, <2>1, CollectKeeps DEF SIInv, SnapshotStable
<1>6. RecordIsolation'
  <2> SUFFICES ASSUME NEW kk \in RecKeys', NEW f \in Fields
               PROVE  heap'[recMaps'[kk][f]] = wrote'[recMaps'[kk][f]]
    BY DEF RecordIsolation
  <2>1. recMaps'[kk][f] \in Reachable'
    BY DEF Reachable, CachedRecMaps
  <2>2. kk \in RecKeys /\ recMaps'[kk] = recMaps[kk]
    BY <1>2
  <2>3. recMaps'[kk][f] \in MapIds
    BY <2>2, CachedAreMaps DEF SIInv, CachedRecMaps
  <2>. QED
    BY <1>1, <2>1, <2>2, <2>3, CollectKeeps DEF SIInv, RecordIsolation
<1>7. RecordsUnshared'
  BY <1>1, <1>3 DEF SIInv, RecordsUnshared
<1>. QED
  BY <1>4, <1>5, <1>6, <1>7 DEF SIInv

\* AllDatapoints hands out the cached Dimensions maps, none of them a map
\* of a cached record.
LEMMA AllDatapointsInv ==
    ASSUME SIInv, AllDatapoints
    PROVE  SIInv'
<1>0. CachedRecMaps \subseteq MapIds
  BY CachedAreMaps DEF SIInv
<1>1. \A m \in CachedRecMaps : held'[m] = None
  BY <1>0 DEF AllDatapoints, SIInv, RecordsUnshared
<1>2. SnapTypeOK'
  BY DEF AllDatapoints, SIInv, SnapTypeOK, CachedDims
<1>3. SnapshotStable'
  BY DEF AllDatapoints, SIInv, SnapshotStable
<1>4. RecordIsolation' /\ RecordsUnshared'
  BY <1>1 DEF AllDatapoints, SIInv, RecordIsolation, RecordsUnshared, RecKeys,
              CachedRecMaps, CachedDims
<1>. QED
  BY <1>2, <1>3, <1>4 DEF SIInv

\* The consumer writes only into maps it holds, none of them cached.
LEMMA ConsumerWriteInv ==
    ASSUME SIInv, NEW m \in MapIds, NEW v \in Vals, ConsumerWrite(m, v)
    PROVE  SIInv'
<1>1. m \notin CachedRecMaps
  BY DEF ConsumerWrite, SIInv, RecordsUnshared
<1>2. \A x \in CachedRecMaps : x # m
  BY <1>1
<1>3. SnapTypeOK' /\ SnapshotStable'
  BY DEF ConsumerWrite, SIInv, SnapTypeOK, SnapshotStable
<1>4. RecordIsolation'
  <2> SUFFICES ASSUME NEW kk \in RecKeys, NEW f \in Fields
               PROVE  heap'[recMaps[kk][f]] = wrote[recMaps[kk][f]]
    BY DEF ConsumerWrite, RecordIsolation, RecKeys
  <2>1. recMaps[kk][f] # m
    BY <1>2 DEF CachedRecMaps
  <2>. QED
    BY <2>1 DEF ConsumerWrite, SIInv, RecordIsolation
<1>5. RecordsUnshared'
  BY <1>2 DEF ConsumerWrite, SIInv, RecordsUnshared, CachedRecMaps, CachedDims, RecKeys
<1>. QED
  BY <1>3, <1>4, <1>5 DEF SIInv

\* ConsumerRelease drops every reference the consumer held.
LEMMA ConsumerReleaseInv ==
    ASSUME SIInv, ConsumerRelease
    PROVE  SIInv'
<1>1. SnapTypeOK'
  BY DEF ConsumerRelease, Collect, SIInv, SnapTypeOK
<1>2. SnapshotStable'
  BY DEF ConsumerRelease, SnapshotStable
<1>3. RecordIsolation'
  <2> SUFFICES ASSUME NEW kk \in RecKeys, NEW f \in Fields
               PROVE  heap'[recMaps[kk][f]] = wrote'[recMaps[kk][f]]
    BY DEF ConsumerRelease, RecordIsolation, RecKeys
  <2>1. recMaps[kk][f] \in Reachable'
    BY DEF ConsumerRelease, Reachable, CachedRecMaps, RecKeys
  <2>2. recMaps[kk][f] \in MapIds
    BY CachedAreMaps DEF SIInv, CachedRecMaps
  <2>. QED
    BY <2>1, <2>2, CollectKeeps DEF ConsumerRelease, SIInv, RecordIsolation
<1>4. RecordsUnshared'
  <2>1. CachedRecMaps' = CachedRecMaps /\ CachedDims' = CachedDims
    BY DEF ConsumerRelease, CachedRecMaps, CachedDims, RecKeys
  <2>2. CachedRecMaps \subseteq MapIds
    BY CachedAreMaps DEF SIInv
  <2>. QED
    BY <2>1, <2>2 DEF ConsumerRelease, SIInv, RecordsUnshared
<1>. QED
  BY <1>1, <1>2, <1>3, <1>4 DEF SIInv


\* AllDimProperties copies every cached record into fresh maps and hands
\* out only the copies.
LEMMA AllDimPropertiesInv ==
    ASSUME SIInv, AllDimProperties
    PROVE  SIInv'
<1>. DEFINE slots == Copied(RecKeys)
            a == Alloc(slots)
            A == {a[sl] : sl \in slots}
<1>1. IsFiniteSet(slots)
  <2>1. IsFiniteSet(RecKeys)
    BY FS_Subset DEF RecKeys
  <2>. QED
    BY <2>1, FieldsFinite, FS_Product DEF Copied
<1>2. a \in [slots -> FreeMaps]
  BY <1>1, AllocFresh DEF SIInv, AllDimProperties
<1>3. A \cap CachedRecMaps = {} /\ A \subseteq MapIds
  BY <1>2, FreeIsFree
<1>4. UNCHANGED <<dpDims, recMaps, wrote>>
  BY DEF AllDimProperties
<1>5. \A m \in MapIds \ A : heap'[m] = heap[m]
  BY DEF AllDimProperties
<1>6. \A m \in MapIds \ A : held'[m] = held[m]
  <2> SUFFICES ASSUME NEW m \in MapIds \ A,
                      \E k \in RecKeys, f \in Fields :
                          (IF <<k, f>> \in slots THEN a[<<k, f>>]
                           ELSE recMaps[k][f]) = m
               PROVE  FALSE
    BY DEF AllDimProperties
  <2>1. PICK k \in RecKeys, f \in Fields :
            (IF <<k, f>> \in slots THEN a[<<k, f>>] ELSE recMaps[k][f]) = m
    OBVIOUS
  <2>2. <<k, f>> \in slots
    BY DEF Copied
  <2>. QED
    BY <2>1, <2>2
<1>7. \A m \in A : held'[m] = heap'[m]
  <2> SUFFICES ASSUME NEW sl \in slots PROVE held'[a[sl]] = heap'[a[sl]]
    OBVIOUS
  <2>1. PICK k \in RecKeys, f \in Fields : sl = <<k, f>>
    BY DEF Copied
  <2>2. a[sl] \in MapIds
    BY <1>3
  <2>. QED
    BY <2>1, <2>2 DEF AllDimProperties
<1>8. \A m \in A : heap'[m] \in Vals \cup {None}
  <2> SUFFICES ASSUME NEW m \in A PROVE heap'[m] \in Vals \cup {None}
    OBVIOUS
  <2>1. \E sl \in slots : a[sl] = m
    OBVIOUS
  <2>2. \A sl \in slots : recMaps[sl[1]][sl[2]] \in MapIds
    BY CachedAreMaps DEF SIInv, Copied, CachedRecMaps
  <2>3. heap'[m] = heap[recMaps[(CHOOSE sl \in slots : a[sl] = m)[1]]
                           [(CHOOSE sl \in slots : a[sl] = m)[2]]]
    BY <1>3, <2>1 DEF AllDimProperties
  <2>. QED
    BY <2>1, <2>2, <2>3 DEF SIInv, SnapTypeOK
<1>9. SnapTypeOK'
  <2>1. heap' \in [MapIds -> Vals \cup {None}]
    BY <1>5, <1>8, <1>3 DEF AllDimProperties, SIInv, SnapTypeOK
  <2>2. held' \in [MapIds -> Vals \cup {None}]
    BY <1>6, <1>7, <1>8, <1>3, <2>1 DEF AllDimProperties, SIInv, SnapTypeOK
  <2>. QED
    BY <1>4, <2>1, <2>2 DEF SIInv, SnapTypeOK
<1>10. SnapshotStable'
  BY <1>5, <1>6, <1>7 DEF SIInv, SnapshotStable
<1>11. RecordIsolation'
  <2> SUFFICES ASSUME NEW k \in RecKeys, NEW f \in Fields
               PROVE  heap'[recMaps[k][f]] = wrote[recMaps[k][f]]
    BY <1>4 DEF RecordIsolation, RecKeys
  <2>1. recMaps[k][f] \in CachedRecMaps /\ recMaps[k][f] \in MapIds
    BY CachedAreMaps DEF SIInv, CachedRecMaps
  <2>. QED
    BY <1>3, <1>5, <2>1 DEF SIInv, RecordIsolation
<1>12. RecordsUnshared'
  <2>1. CachedRecMaps' = CachedRecMaps /\ CachedDims' = CachedDims
    BY <1>4 DEF CachedRecMaps, CachedDims, RecKeys
  <2>2. CachedRecMaps \subseteq MapIds
    BY CachedAreMaps DEF SIInv
  <2>. QED
    BY <1>3, <1>6, <2>1, <2>2 DEF SIInv, RecordsUnshared
<1>. QED
  BY <1>9, <1>10, <1>11, <1>12 DEF SIInv


\* The initial state satisfies the invariant: nothing is cached or held.
LEMMA SInitInv == Init => SIInv
<1> SUFFICES ASSUME Init PROVE SIInv
  OBVIOUS
<1>1. RecKeys = {} /\ CachedDims = {}
  BY DEF Init, RecKeys, CachedDims
<1>2. CachedRecMaps = {}
  BY <1>1 DEF CachedRecMaps
<1>. QED
  BY <1>1, <1>2 DEF Init, SIInv, SnapTypeOK, SnapshotStable, RecordIsolation,
                    RecordsUnshared

\* Every step, and every stutter, preserves the invariant.
LEMMA SNextInv == SIInv /\ [Next]_vars => SIInv'
<1> SUFFICES ASSUME SIInv, [Next]_vars PROVE SIInv'
  OBVIOUS
<1>1. CASE \E k \in Keys, v \in Vals : HandleAdd(k, v)
  BY <1>1, HandleAddInv
<1>2. CASE \E k \in Keys, v \in Vals : UpdateServiceProp(k, v)
  BY <1>2, UpdateServicePropInv
<1>3. CASE \E k \in Keys : DeleteByKey(k)
  BY <1>3, DeleteByKeyInv
<1>4. CASE AllDatapoints
  BY <1>4, AllDatapointsInv
<1>5. CASE AllDimProperties
  BY <1>5, AllDimPropertiesInv
<1>6. CASE \E m \in MapIds, v \in Vals : ConsumerWrite(m, v)
  BY <1>6, ConsumerWriteInv
<1>7. CASE ConsumerRelease
  BY <1>7, ConsumerReleaseInv
<1>8. CASE UNCHANGED vars
  <2>1. heap' = heap /\ dpDims' = dpDims /\ recMaps' = recMaps /\ held' = held
        /\ wrote' = wrote
    BY <1>8 DEF vars
  <2>2. RecKeys' = RecKeys
    BY <2>1 DEF RecKeys
  <2>3. CachedRecMaps' = CachedRecMaps /\ CachedDims' = CachedDims
    BY <2>1, <2>2 DEF CachedRecMaps, CachedDims
  <2>4. SnapTypeOK' /\ SnapshotStable'
    BY <2>1 DEF SIInv, SnapTypeOK, SnapshotStable
  <2>5. RecordIsolation'
    BY <2>1, <2>2 DEF SIInv, RecordIsolation
  <2>6. RecordsUnshared'
    BY <2>1, <2>3 DEF SIInv, RecordsUnshared
  <2>. QED
    BY <2>4, <2>5, <2>6 DEF SIInv
<1>. QED
  BY <1>1, <1>2, <1>3, <1>4, <1>5, <1>6, <1>7, <1>8 DEF Next

-----------------------------------------------------------------------------
(***************************************************************************)
(* Theorems.                                                               *)
(***************************************************************************)

(* Snapshot stability and record isolation for every key set and heap      *)
(* bound: whatever HandleAdd, updateServicePropForPods and DeleteByKey do   *)
(* to the cache, the maps a consumer of AllDatapoints or AllDimProperties   *)
(* holds keep what it saw or wrote, and whatever the consumer writes, the  *)
(* Properties and Tags maps of every cached record keep what the cache     *)
(* stored (Copy in AllDimProperties clones both maps).                     *)
THEOREM SnapshotIsolation == Spec => [](SnapshotStable /\ RecordIsolation)
<1>1. SIInv => SnapshotStable /\ RecordIsolation
  BY DEF SIInv
<1>. QED
  BY <1>1, SInitInv, SNextInv, PTL DEF Spec

(* Type correctness of the heap model: the cache's entries and the         *)
(* consumer's references are always maps of the heap, and AllDimProperties *)
(* never copies out of an unallocated map.                                 *)
THEOREM SnapTypeCorrect == Spec => []SnapTypeOK
<1>1. SIInv => SnapTypeOK
  BY DEF SIInv
<1>. QED
  BY <1>1, SInitInv, SNextInv, PTL DEF Spec

=============================================================================
