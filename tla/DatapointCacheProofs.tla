------------------------- MODULE DatapointCacheProofs -------------------------
(***************************************************************************)
(* Proofs about the datapoint cache composed with its join index: every    *)
(* pod record's "service" property is the one the index resolves now, and  *)
(* every pod the index reaches has a record, for every set of resources.   *)
(***************************************************************************)
EXTENDS DatapointCache, PodServiceCacheProofs, WellFoundedInduction

USE ResourceAssumption, DatapointCacheAssumption

(* The kind recorded for a UID is its own: DeleteByKey dispatches a "Pod"  *)
(* entry to DeletePodFromCache and a "Service" entry to                    *)
(* handleDeleteService only for UIDs of that kind.                         *)
KindsOK ==
    \A u \in UIDs : /\ uidKindCache[u] = "Pod" => u \in Pods
                    /\ uidKindCache[u] = "Service" => u \in Svcs

\* The inductive invariant: the index's own, the kinds, and the two
\* properties of the records.
DCInv == /\ DCTypeOK
         /\ JoinSymmetric
         /\ JoinCached
         /\ JoinComplete
         /\ KindsOK
         /\ IndexedPodsHaveRecords
         /\ ServicePropConsistent

(***************************************************************************)
(* The name GetServiceNameForPodUID resolves.                              *)
(***************************************************************************)

\* A nonempty set of naturals has a least element.
LEMMA NatMinimum ==
    ASSUME NEW T \in SUBSET Nat, T # {}
    PROVE  \E n \in T : \A m \in T : n <= m
<1>1. PICK x \in T : \A y \in T : ~(<<y, x>> \in OpToRel(<, Nat))
  BY NatLessThanWellFounded, WFMin
<1>2. OpToRel(<, Nat) = {ss \in Nat \X Nat : ss[1] < ss[2]}
  BY Zenon DEF OpToRel
<1>3. \A m \in T : ~(m < x)
  BY <1>1, <1>2
<1>4. \A m \in T : x <= m
  BY <1>3
<1>. QED
  BY <1>4, Zenon

\* The name GetServiceNameForPodUID picks from a set of names.
MinName(S) == IF S = {} THEN NoService
              ELSE CHOOSE n \in S : \A m \in S : n <= m

\* GetServiceNameForPodUID is MinName of the joined services' names, in
\* this state and in the next.
LEMMA NameIsMin ==
    ASSUME NEW p
    PROVE  /\ GetServiceNameForPodUID(p) = MinName(getServiceNamesForPodUID(p))
           /\ GetServiceNameForPodUID(p)' = MinName(getServiceNamesForPodUID(p)')
BY DEF GetServiceNameForPodUID, MinName

\* The name picked from a set of names is one of them, or NoService.
LEMMA MinNameType ==
    ASSUME NEW S \in SUBSET (Names \cup {0})
    PROVE  MinName(S) \in Names \cup {0, NoService}
<1>1. CASE S = {}
  BY <1>1 DEF MinName
<1>2. CASE S # {}
  <2>1. \E n \in S : \A m \in S : n <= m
    BY <1>2, NatMinimum DEF Names
  <2>2. (CHOOSE n \in S : \A m \in S : n <= m) \in S
    BY <2>1
  <2>. QED
    BY <1>2, <2>2 DEF MinName
<1>. QED
  BY <1>1, <1>2

\* In a well-typed state every pod resolves to a name or to NoService.
LEMMA ServiceNameType ==
    ASSUME NEW p \in Pods, svcUIDNameCache \in [Svcs -> Names \cup {0}],
           podSvcUIDCache \in [Pods -> SUBSET Svcs]
    PROVE  GetServiceNameForPodUID(p) \in Names \cup {0, NoService}
<1>1. getServiceNamesForPodUID(p) \in SUBSET (Names \cup {0})
  BY DEF getServiceNamesForPodUID
<1>. QED
  BY <1>1, NameIsMin, MinNameType

\* The same, for the state after a step that keeps the join index typed.
LEMMA ServiceNameTypeNext ==
    ASSUME NEW p \in Pods, svcUIDNameCache' \in [Svcs -> Names \cup {0}],
           podSvcUIDCache' \in [Pods -> SUBSET Svcs]
    PROVE  GetServiceNameForPodUID(p)' \in Names \cup {0, NoService}
<1>1. getServiceNamesForPodUID(p)' \in SUBSET (Names \cup {0})
  BY DEF getServiceNamesForPodUID
<1>. QED
  BY <1>1, NameIsMin, MinNameType

\* A pod whose joined services and their names are unchanged by a step
\* resolves to the same name after it.
LEMMA ServiceNameFrame ==
    ASSUME NEW p \in Pods,
           podSvcUIDCache'[p] = podSvcUIDCache[p],
           \A t \in podSvcUIDCache[p] : svcUIDNameCache'[t] = svcUIDNameCache[t]
    PROVE  GetServiceNameForPodUID(p)' = GetServiceNameForPodUID(p)
<1>1. getServiceNamesForPodUID(p)' = getServiceNamesForPodUID(p)
  BY DEF getServiceNamesForPodUID
<1>. QED
  BY <1>1, NameIsMin

-----------------------------------------------------------------------------
(***************************************************************************)
(* DCInv is inductive: one lemma per handler.                              *)
(***************************************************************************)

\* The empty caches satisfy DCInv.
LEMMA DCInitInv == DCInit => DCInv
<1> SUFFICES ASSUME DCInit PROVE DCInv
  OBVIOUS
<1>1. IInv
  BY InitIInv DEF DCInit
<1>2. DCTypeOK
  BY <1>1 DEF DCInit, DCTypeOK, IInv, UIDs
<1>3. KindsOK /\ ServicePropConsistent
  BY DEF DCInit, KindsOK, ServicePropConsistent, UIDs
<1>4. IndexedPodsHaveRecords
  BY DEF DCInit, Init, IndexedPodsHaveRecords, CachedPods
<1>. QED
  BY <1>1, <1>2, <1>3, <1>4 DEF DCInv, IInv

\* The join index part of DCInv is the index's own inductive invariant.
LEMMA DCInvIInv == DCInv => IInv
BY DEF DCInv, DCTypeOK, IInv

\* HandleAddOther stores a record under a UID that is neither a pod nor a
\* service, and leaves the index alone.
LEMMA HandleAddOtherInv ==
    ASSUME DCInv, NEW o \in Others, NEW v \in Versions, HandleAddOther(o, v)
    PROVE  DCInv'
<1>1. UNCHANGED <<pscVars, specSelector>>
  BY DEF HandleAddOther
<1>2. /\ \A p \in Pods : dimPropCache'[p] = dimPropCache[p]
      /\ \A p \in Pods : uidKindCache'[p] = uidKindCache[p]
      /\ uidKindCache'[o] = KindOf[o]
  BY DEF DCInv, DCTypeOK, HandleAddOther, StoreAdd, addDimPropsToCache, UIDs
<1>3. dimPropsForOther(o, v) \in DimProps \cup {Nil}
  BY DEF dimPropsForOther, DimProps, NoService
<1>4. DCTypeOK'
  BY <1>1, <1>3 DEF DCInv, DCTypeOK, TypeOK, pscVars, HandleAddOther, StoreAdd,
                    addDimPropsToCache, UIDs, OtherKinds
<1>5. IInv'
  BY <1>1, DCInvIInv DEF IInv, pscVars, TypeOK, JoinSymmetric, JoinCached,
                         JoinComplete, CachedPods, CachedSvcs
<1>6. KindsOK'
  BY <1>2 DEF DCInv, DCTypeOK, KindsOK, HandleAddOther, StoreAdd, UIDs, OtherKinds
<1>7. IndexedPodsHaveRecords'
  BY <1>1, <1>2 DEF DCInv, IndexedPodsHaveRecords, pscVars, CachedPods
<1>8. ServicePropConsistent'
  <2>1. \A p \in Pods : GetServiceNameForPodUID(p)' = GetServiceNameForPodUID(p)
    BY <1>1, ServiceNameFrame DEF pscVars
  <2>. QED
    BY <1>2, <2>1 DEF DCInv, ServicePropConsistent
<1>. QED
  BY <1>4, <1>5, <1>6, <1>7, <1>8 DEF DCInv, IInv

\* SetPod(p, lbl) changes the index only at p: no other pod's entries,
\* joins or memberships, and no service name.
LEMMA SetPodFrame ==
    ASSUME TypeOK, NEW p \in Pods, NEW lbl \in LabelSets, SetPod(p, lbl)
    PROVE  /\ svcUIDNameCache' = svcUIDNameCache
           /\ \A q \in Pods \ {p} :
                 /\ podSvcUIDCache'[q] = podSvcUIDCache[q]
                 /\ podUIDLabelCache'[q] = podUIDLabelCache[q]
                 /\ \A t \in Svcs : q \in svcPodUIDCache'[t] <=> q \in svcPodUIDCache[t]
<1>1. CASE SetPodUnchanged(p, lbl)
  BY <1>1 DEF SetPod, pscVars
<1>2. CASE ~SetPodUnchanged(p, lbl)
  BY <1>2 DEF SetPod, refreshCacheByPod, TypeOK
<1>. QED
  BY <1>1, <1>2

\* HandleAddPod re-joins the pod and stores a record carrying the name the
\* index resolves for it after the join.
LEMMA HandleAddPodInv ==
    ASSUME DCInv, NEW p \in Pods, NEW lbl \in LabelSets, NEW v \in Versions,
           HandleAddPod(p, lbl, v)
    PROVE  DCInv'
<1>. DEFINE R == handleAddPod(p, lbl)'
<1>1. IInv'
  BY SetPodIInv, DCInvIInv DEF HandleAddPod
<1>2. /\ svcUIDNameCache' = svcUIDNameCache
      /\ \A q \in Pods \ {p} :
            /\ podSvcUIDCache'[q] = podSvcUIDCache[q]
            /\ podUIDLabelCache'[q] = podUIDLabelCache[q]
            /\ \A t \in Svcs : q \in svcPodUIDCache'[t] <=> q \in svcPodUIDCache[t]
  BY SetPodFrame DEF HandleAddPod, DCInv, DCTypeOK
<1>3. /\ R = [src |-> lbl, service |-> GetServiceNameForPodUID(p)']
      /\ R \in DimProps
      /\ R # Nil
  <2>1. GetServiceNameForPodUID(p)' \in Names \cup {0, NoService}
    BY <1>1, ServiceNameTypeNext DEF IInv, TypeOK
  <2>2. R = [src |-> lbl, service |-> GetServiceNameForPodUID(p)']
    BY DEF handleAddPod, dimPropsForPod
  <2>. QED
    BY <2>1, <2>2 DEF DimProps
<1>4. /\ dimPropCache' = [dimPropCache EXCEPT ![p] = R]
      /\ uidKindCache' = [uidKindCache EXCEPT ![p] = "Pod"]
      /\ dpCache' = [dpCache EXCEPT ![p] = v]
      /\ specSelector' = specSelector
  BY <1>3 DEF HandleAddPod, StoreAdd, addDimPropsToCache
<1>5. DCTypeOK'
  BY <1>1, <1>3, <1>4 DEF DCInv, DCTypeOK, IInv, UIDs
<1>6. KindsOK'
  BY <1>4 DEF DCInv, DCTypeOK, KindsOK, UIDs
<1>7. IndexedPodsHaveRecords'
  <2> SUFFICES ASSUME NEW q \in Pods,
                      q \in CachedPods' \/ \E t \in Svcs : q \in svcPodUIDCache'[t]
               PROVE  dimPropCache'[q] # Nil /\ uidKindCache'[q] = "Pod"
    BY DEF IndexedPodsHaveRecords
  <2>1. CASE q = p
    BY <1>3, <1>4, <2>1 DEF DCInv, DCTypeOK, UIDs
  <2>2. CASE q # p
    <3>1. q \in CachedPods \/ \E t \in Svcs : q \in svcPodUIDCache[t]
      BY <1>2, <2>2 DEF CachedPods
    <3>. QED
      BY <1>4, <2>2, <3>1 DEF DCInv, DCTypeOK, IndexedPodsHaveRecords, UIDs
  <2>. QED
    BY <2>1, <2>2
<1>8. ServicePropConsistent'
  <2> SUFFICES ASSUME NEW q \in Pods, dimPropCache'[q] # Nil
               PROVE  dimPropCache'[q].service = GetServiceNameForPodUID(q)'
    BY DEF ServicePropConsistent
  <2>1. CASE q = p
    BY <1>3, <1>4, <2>1 DEF DCInv, DCTypeOK, UIDs
  <2>2. CASE q # p
    <3>1. GetServiceNameForPodUID(q)' = GetServiceNameForPodUID(q)
      BY <1>2, <2>2, ServiceNameFrame
    <3>. QED
      BY <1>4, <2>2, <3>1 DEF DCInv, DCTypeOK, ServicePropConsistent, UIDs
  <2>. QED
    BY <2>1, <2>2
<1>. QED
  BY <1>1, <1>5, <1>6, <1>7, <1>8 DEF DCInv, IInv

\* SetService(s, sel) renames only s and changes the joins only of pods it
\* joins to s; it leaves the pods' entries alone.
LEMMA SetServiceFrame ==
    ASSUME IInv, NEW s \in Svcs, NEW sel \in LabelSets, SetService(s, sel)
    PROVE  /\ podUIDLabelCache' = podUIDLabelCache
           /\ \A t \in Svcs \ {s} : svcUIDNameCache'[t] = svcUIDNameCache[t]
           /\ \A q \in Pods : q \notin svcPodUIDCache'[s] =>
                 /\ podSvcUIDCache'[q] = podSvcUIDCache[q]
                 /\ s \notin podSvcUIDCache[q]
<1>1. CASE sel = {} \/ SetServiceUnchanged(s, sel)
  BY <1>1 DEF SetService, pscVars, IInv, JoinSymmetric
<1>2. CASE sel # {} /\ ~SetServiceUnchanged(s, sel)
  BY <1>2 DEF SetService, refreshCacheByService, IInv, TypeOK, JoinSymmetric
<1>. QED
  BY <1>1, <1>2

\* A pod the index joins to a service in a state satisfying IInv is a
\* cached pod.
LEMMA JoinedIsCached ==
    ASSUME IInv, NEW q \in Pods, NEW t \in Svcs, q \in svcPodUIDCache[t]
    PROVE  q \in CachedPods
BY DEF IInv, JoinSymmetric, JoinCached

\* The same, in the state after a step.
LEMMA JoinedIsCachedNext ==
    ASSUME IInv', NEW q \in Pods, NEW t \in Svcs, q \in svcPodUIDCache'[t]
    PROVE  q \in CachedPods'
BY DEF IInv, JoinSymmetric, JoinCached

\* HandleAddService re-joins the service and rewrites the "service" property
\* of every pod joined to it after the join.
LEMMA HandleAddServiceInv ==
    ASSUME DCInv, NEW s \in Svcs, NEW sel \in LabelSets, HandleAddService(s, sel)
    PROVE  DCInv'
<1>. DEFINE J == svcPodUIDCache'[s]
<1>1. IInv'
  BY SetServiceIInv, DCInvIInv DEF HandleAddService
<1>2. /\ podUIDLabelCache' = podUIDLabelCache
      /\ \A t \in Svcs \ {s} : svcUIDNameCache'[t] = svcUIDNameCache[t]
      /\ \A q \in Pods : q \notin J =>
            /\ podSvcUIDCache'[q] = podSvcUIDCache[q]
            /\ s \notin podSvcUIDCache[q]
  BY SetServiceFrame, DCInvIInv DEF HandleAddService
<1>3. /\ dimPropCache' = updateServicePropForPods(dimPropCache, J, ServiceNameOfPods')
      /\ uidKindCache' = [uidKindCache EXCEPT ![s] = "Service"]
      /\ dpCache' = dpCache
  BY DEF HandleAddService, StoreAdd, GetPodUIDsForServiceUID
<1>4. \A q \in Pods : q \in J => q \in CachedPods
  BY <1>1, <1>2, JoinedIsCachedNext DEF CachedPods
<1>5. \A q \in Pods : q \in J =>
         /\ dimPropCache'[q] = [dimPropCache[q] EXCEPT !.service = GetServiceNameForPodUID(q)']
         /\ dimPropCache'[q] \in DimProps
  <2> SUFFICES ASSUME NEW q \in Pods, q \in J
               PROVE  /\ dimPropCache'[q] = [dimPropCache[q] EXCEPT !.service = GetServiceNameForPodUID(q)']
                      /\ dimPropCache'[q] \in DimProps
    OBVIOUS
  <2>1. dimPropCache[q] \in DimProps
    BY <1>4 DEF DCInv, DCTypeOK, IndexedPodsHaveRecords, UIDs
  <2>2. GetServiceNameForPodUID(q)' \in Names \cup {0, NoService}
    BY <1>1, ServiceNameTypeNext DEF IInv, TypeOK
  <2>3. dimPropCache'[q] = [dimPropCache[q] EXCEPT !.service = GetServiceNameForPodUID(q)']
    BY <1>3 DEF updateServicePropForPods, ServiceNameOfPods, UIDs
  <2>. QED
    BY <2>1, <2>2, <2>3 DEF DimProps
<1>6. \A u \in UIDs : u \notin J => dimPropCache'[u] = dimPropCache[u]
  BY <1>3 DEF updateServicePropForPods
<1>7. DCTypeOK'
  <2>1. J \subseteq Pods
    BY <1>1 DEF IInv, TypeOK
  <2>2. dimPropCache' \in [UIDs -> DimProps \cup {Nil}]
    BY <1>3, <1>5, <1>6, <2>1 DEF DCInv, DCTypeOK, updateServicePropForPods, UIDs
  <2>. QED
    BY <1>1, <1>3, <2>2 DEF DCInv, DCTypeOK, IInv, HandleAddService, UIDs
<1>8. KindsOK'
  BY <1>3 DEF DCInv, DCTypeOK, KindsOK, UIDs
<1>9. IndexedPodsHaveRecords'
  <2> SUFFICES ASSUME NEW q \in Pods,
                      q \in CachedPods' \/ \E t \in Svcs : q \in svcPodUIDCache'[t]
               PROVE  dimPropCache'[q] # Nil /\ uidKindCache'[q] = "Pod"
    BY DEF IndexedPodsHaveRecords
  <2>1. q \in CachedPods
    BY <1>1, <1>2, JoinedIsCachedNext DEF CachedPods
  <2>2. dimPropCache[q] # Nil /\ uidKindCache[q] = "Pod" /\ q # s
    BY <2>1 DEF DCInv, IndexedPodsHaveRecords
  <2>3. dimPropCache'[q] # Nil
    <3>1. CASE q \in J
      BY <1>5, <3>1 DEF DimProps
    <3>2. CASE q \notin J
      BY <1>6, <2>2, <3>2 DEF UIDs
    <3>. QED
      BY <3>1, <3>2
  <2>. QED
    BY <1>3, <2>2, <2>3 DEF DCInv, DCTypeOK, UIDs
<1>10. ServicePropConsistent'
  <2> SUFFICES ASSUME NEW q \in Pods, dimPropCache'[q] # Nil
               PROVE  dimPropCache'[q].service = GetServiceNameForPodUID(q)'
    BY DEF ServicePropConsistent
  <2>1. CASE q \in J
    <3>1. dimPropCache[q] \in DimProps
      BY <1>4, <2>1 DEF DCInv, DCTypeOK, IndexedPodsHaveRecords, UIDs
    <3>2. [dimPropCache[q] EXCEPT !.service = GetServiceNameForPodUID(q)'].service
            = GetServiceNameForPodUID(q)'
      BY <3>1 DEF DimProps
    <3>. QED
      BY <1>5, <2>1, <3>2, Zenon
  <2>2. CASE q \notin J
    <3>0. \A t \in podSvcUIDCache[q] : svcUIDNameCache'[t] = svcUIDNameCache[t]
      BY <1>2, <2>2 DEF DCInv, DCTypeOK, TypeOK
    <3>1. GetServiceNameForPodUID(q)' = GetServiceNameForPodUID(q)
      BY <1>2, <2>2, <3>0, ServiceNameFrame
    <3>. QED
      BY <1>6, <2>2, <3>1 DEF DCInv, ServicePropConsistent, UIDs
  <2>. QED
    BY <2>1, <2>2
<1>. QED
  BY <1>1, <1>7, <1>8, <1>9, <1>10 DEF DCInv, IInv

\* The specSelector history stays typed when DeleteByKey forgets a UID.
LEMMA SpecSelectorForget ==
    ASSUME DCTypeOK, NEW u \in UIDs,
           specSelector' = [t \in Svcs |-> IF t = u THEN Nil ELSE specSelector[t]]
    PROVE  specSelector' \in [Svcs -> LabelSets \cup {Nil}]
BY DEF DCTypeOK

\* DeleteByKey of a UID the kind cache has no pod or service entry for only
\* purges the caches' entries for it.
LEMMA DeleteOtherKeyInv ==
    ASSUME DCInv, NEW u \in UIDs, uidKindCache[u] \notin {"Pod", "Service"},
           UNCHANGED pscVars, Purge(u, dimPropCache),
           specSelector' = [t \in Svcs |-> IF t = u THEN Nil ELSE specSelector[t]]
    PROVE  DCInv'
<1>1. /\ dimPropCache' = [dimPropCache EXCEPT ![u] = Nil]
      /\ uidKindCache' = [uidKindCache EXCEPT ![u] = NoKind]
      /\ dpCache' = [dpCache EXCEPT ![u] = Nil]
  BY DEF Purge
<1>2. IInv'
  BY DCInvIInv DEF IInv, pscVars, TypeOK, JoinSymmetric, JoinCached,
                   JoinComplete, CachedPods, CachedSvcs
<1>3. DCTypeOK'
  BY <1>1, <1>2, SpecSelectorForget DEF DCInv, DCTypeOK, IInv
<1>4. KindsOK'
  BY <1>1 DEF DCInv, DCTypeOK, KindsOK
<1>5. IndexedPodsHaveRecords'
  <2> SUFFICES ASSUME NEW q \in Pods,
                      q \in CachedPods' \/ \E t \in Svcs : q \in svcPodUIDCache'[t]
               PROVE  dimPropCache'[q] # Nil /\ uidKindCache'[q] = "Pod"
    BY DEF IndexedPodsHaveRecords
  <2>1. dimPropCache[q] # Nil /\ uidKindCache[q] = "Pod"
    BY DEF DCInv, IndexedPodsHaveRecords, pscVars, CachedPods
  <2>. QED
    BY <1>1, <2>1 DEF DCInv, DCTypeOK, UIDs
<1>6. ServicePropConsistent'
  <2> SUFFICES ASSUME NEW q \in Pods, dimPropCache'[q] # Nil
               PROVE  dimPropCache'[q].service = GetServiceNameForPodUID(q)'
    BY DEF ServicePropConsistent
  <2>1. GetServiceNameForPodUID(q)' = GetServiceNameForPodUID(q)
    BY ServiceNameFrame DEF pscVars
  <2>. QED
    BY <1>1, <2>1 DEF DCInv, DCTypeOK, ServicePropConsistent, UIDs
<1>. QED
  BY <1>2, <1>3, <1>4, <1>5, <1>6 DEF DCInv, IInv

\* DeletePodFromCache(p) unjoins p and leaves every other pod's joins and
\* every service name alone.
LEMMA DeletePodFrame ==
    ASSUME TypeOK, NEW p \in Pods, DeletePodFromCache(p)
    PROVE  /\ svcUIDNameCache' = svcUIDNameCache
           /\ \A q \in Pods \ {p} : /\ podSvcUIDCache'[q] = podSvcUIDCache[q]
                                    /\ podUIDLabelCache'[q] = podUIDLabelCache[q]
BY DEF DeletePodFromCache, TypeOK

\* DeleteByKey of a pod purges its record and unjoins it.
LEMMA DeletePodKeyInv ==
    ASSUME DCInv, NEW u \in UIDs, uidKindCache[u] = "Pod",
           DeletePodFromCache(u), Purge(u, dimPropCache),
           specSelector' = [t \in Svcs |-> IF t = u THEN Nil ELSE specSelector[t]]
    PROVE  DCInv'
<1>0. u \in Pods
  BY DEF DCInv, KindsOK
<1>1. /\ dimPropCache' = [dimPropCache EXCEPT ![u] = Nil]
      /\ uidKindCache' = [uidKindCache EXCEPT ![u] = NoKind]
      /\ dpCache' = [dpCache EXCEPT ![u] = Nil]
  BY DEF Purge
<1>2. IInv'
  BY <1>0, DeletePodIInv, DCInvIInv
<1>3. /\ svcUIDNameCache' = svcUIDNameCache
      /\ \A q \in Pods \ {u} : /\ podSvcUIDCache'[q] = podSvcUIDCache[q]
                               /\ podUIDLabelCache'[q] = podUIDLabelCache[q]
  BY <1>0, DeletePodFrame DEF DCInv, DCTypeOK
<1>4. DCTypeOK'
  BY <1>1, <1>2, SpecSelectorForget DEF DCInv, DCTypeOK, IInv
<1>5. KindsOK'
  BY <1>1 DEF DCInv, DCTypeOK, KindsOK
<1>6. IndexedPodsHaveRecords'
  <2> SUFFICES ASSUME NEW q \in Pods,
                      q \in CachedPods' \/ \E t \in Svcs : q \in svcPodUIDCache'[t]
               PROVE  dimPropCache'[q] # Nil /\ uidKindCache'[q] = "Pod"
    BY DEF IndexedPodsHaveRecords
  <2>1. q \in CachedPods'
    BY <1>2, JoinedIsCachedNext
  <2>2. q # u
    BY <1>0, <2>1 DEF DeletePodFromCache, CachedPods, DCInv, DCTypeOK, TypeOK
  <2>3. dimPropCache[q] # Nil /\ uidKindCache[q] = "Pod"
    BY <1>3, <2>1, <2>2 DEF DCInv, IndexedPodsHaveRecords, CachedPods
  <2>. QED
    BY <1>1, <2>2, <2>3 DEF DCInv, DCTypeOK, UIDs
<1>7. ServicePropConsistent'
  <2> SUFFICES ASSUME NEW q \in Pods, dimPropCache'[q] # Nil
               PROVE  dimPropCache'[q].service = GetServiceNameForPodUID(q)'
    BY DEF ServicePropConsistent
  <2>1. q # u
    BY <1>1 DEF DCInv, DCTypeOK, UIDs
  <2>2. GetServiceNameForPodUID(q)' = GetServiceNameForPodUID(q)
    BY <1>3, <2>1, ServiceNameFrame
  <2>. QED
    BY <1>1, <2>1, <2>2 DEF DCInv, DCTypeOK, ServicePropConsistent, UIDs
<1>. QED
  BY <1>2, <1>4, <1>5, <1>6, <1>7 DEF DCInv, IInv

\* DeleteServiceFromCache(s) unjoins s from the pods it was joined to and
\* leaves every other join, every pod entry and every other name alone.
LEMMA DeleteServiceFrame ==
    ASSUME IInv, NEW s \in Svcs, DeleteServiceFromCache(s)
    PROVE  /\ podUIDLabelCache' = podUIDLabelCache
           /\ \A t \in Svcs \ {s} : svcUIDNameCache'[t] = svcUIDNameCache[t]
           /\ \A q \in Pods : q \notin svcPodUIDCache[s] =>
                 /\ podSvcUIDCache'[q] = podSvcUIDCache[q]
                 /\ s \notin podSvcUIDCache[q]
BY DEF DeleteServiceFromCache, IInv, TypeOK, JoinSymmetric

\* DeleteByKey of a service unjoins it and rewrites the "service" property
\* of the pods that were joined to it.
LEMMA DeleteServiceKeyInv ==
    ASSUME DCInv, NEW u \in UIDs, uidKindCache[u] = "Service",
           handleDeleteService(u),
           specSelector' = [t \in Svcs |-> IF t = u THEN Nil ELSE specSelector[t]]
    PROVE  DCInv'
<1>. DEFINE J == svcPodUIDCache[u]
            P == updateServicePropForPods(dimPropCache, J, ServiceNameOfPods')
<1>0. u \in Svcs /\ u \notin Pods
  BY DEF DCInv, KindsOK
<1>1. /\ DeleteServiceFromCache(u)
      /\ dimPropCache' = [P EXCEPT ![u] = Nil]
      /\ uidKindCache' = [uidKindCache EXCEPT ![u] = NoKind]
      /\ dpCache' = [dpCache EXCEPT ![u] = Nil]
  BY DEF handleDeleteService, Purge, GetPodUIDsForServiceUID
<1>2. IInv'
  BY <1>0, <1>1, DeleteServiceIInv, DCInvIInv
<1>3. /\ podUIDLabelCache' = podUIDLabelCache
      /\ \A t \in Svcs \ {u} : svcUIDNameCache'[t] = svcUIDNameCache[t]
      /\ \A q \in Pods : q \notin J =>
            /\ podSvcUIDCache'[q] = podSvcUIDCache[q]
            /\ u \notin podSvcUIDCache[q]
  BY <1>0, <1>1, DeleteServiceFrame, DCInvIInv
<1>4. \A q \in Pods : q \in J =>
         /\ dimPropCache[q] \in DimProps
         /\ dimPropCache'[q] = [dimPropCache[q] EXCEPT !.service = GetServiceNameForPodUID(q)']
         /\ dimPropCache'[q] \in DimProps
  <2> SUFFICES ASSUME NEW q \in Pods, q \in J
               PROVE  /\ dimPropCache[q] \in DimProps
                      /\ dimPropCache'[q] = [dimPropCache[q] EXCEPT !.service = GetServiceNameForPodUID(q)']
                      /\ dimPropCache'[q] \in DimProps
    OBVIOUS
  <2>1. dimPropCache[q] \in DimProps
    BY <1>0, JoinedIsCached, DCInvIInv DEF DCInv, DCTypeOK, IndexedPodsHaveRecords, UIDs
  <2>2. GetServiceNameForPodUID(q)' \in Names \cup {0, NoService}
    BY <1>2, ServiceNameTypeNext DEF IInv, TypeOK
  <2>3. dimPropCache'[q] = [dimPropCache[q] EXCEPT !.service = GetServiceNameForPodUID(q)']
    BY <1>0, <1>1 DEF updateServicePropForPods, ServiceNameOfPods, UIDs, DCInv, DCTypeOK
  <2>. QED
    BY <2>1, <2>2, <2>3 DEF DimProps
<1>5. \A q \in Pods : q \notin J => dimPropCache'[q] = dimPropCache[q]
  BY <1>0, <1>1 DEF updateServicePropForPods, UIDs, DCInv, DCTypeOK
<1>6. DCTypeOK'
  <2>1. J \subseteq Pods
    BY <1>0 DEF DCInv, DCTypeOK, TypeOK
  <2>2. dimPropCache' = [x \in UIDs |-> dimPropCache'[x]]
    BY <1>1 DEF updateServicePropForPods
  <2>3. ASSUME NEW x \in UIDs PROVE dimPropCache'[x] \in DimProps \cup {Nil}
    <3>1. CASE x \in Pods
      BY <1>4, <1>5, <3>1 DEF DCInv, DCTypeOK, UIDs
    <3>2. CASE x \notin Pods
      BY <1>1, <2>1, <3>2 DEF DCInv, DCTypeOK, updateServicePropForPods
    <3>. QED
      BY <3>1, <3>2
  <2>4. dimPropCache' \in [UIDs -> DimProps \cup {Nil}]
    BY <2>2, <2>3, Zenon
  <2>. QED
    BY <1>1, <1>2, <2>4, SpecSelectorForget DEF DCInv, DCTypeOK, IInv
<1>7. KindsOK'
  BY <1>1 DEF DCInv, DCTypeOK, KindsOK
<1>8. IndexedPodsHaveRecords'
  <2> SUFFICES ASSUME NEW q \in Pods,
                      q \in CachedPods' \/ \E t \in Svcs : q \in svcPodUIDCache'[t]
               PROVE  dimPropCache'[q] # Nil /\ uidKindCache'[q] = "Pod"
    BY DEF IndexedPodsHaveRecords
  <2>1. q \in CachedPods
    BY <1>2, <1>3, JoinedIsCachedNext DEF CachedPods
  <2>2. dimPropCache[q] # Nil /\ uidKindCache[q] = "Pod"
    BY <2>1 DEF DCInv, IndexedPodsHaveRecords
  <2>3. dimPropCache'[q] # Nil
    <3>1. CASE q \in J
      BY <1>4, <3>1 DEF DimProps
    <3>2. CASE q \notin J
      BY <1>5, <2>2, <3>2
    <3>. QED
      BY <3>1, <3>2
  <2>. QED
    BY <1>0, <1>1, <2>2, <2>3 DEF DCInv, DCTypeOK, UIDs
<1>9. ServicePropConsistent'
  <2> SUFFICES ASSUME NEW q \in Pods, dimPropCache'[q] # Nil
               PROVE  dimPropCache'[q].service = GetServiceNameForPodUID(q)'
    BY DEF ServicePropConsistent
  <2>1. CASE q \in J
    <3>1. [dimPropCache[q] EXCEPT !.service = GetServiceNameForPodUID(q)'].service
            = GetServiceNameForPodUID(q)'
      BY <1>4, <2>1 DEF DimProps
    <3>. QED
      BY <1>4, <2>1, <3>1, Zenon
  <2>2. CASE q \notin J
    <3>0. \A t \in podSvcUIDCache[q] : svcUIDNameCache'[t] = svcUIDNameCache[t]
      BY <1>3, <2>2 DEF DCInv, DCTypeOK, TypeOK
    <3>1. GetServiceNameForPodUID(q)' = GetServiceNameForPodUID(q)
      BY <1>3, <2>2, <3>0, ServiceNameFrame
    <3>. QED
      BY <1>5, <2>2, <3>1 DEF DCInv, ServicePropConsistent
  <2>. QED
    BY <2>1, <2>2
<1>. QED
  BY <1>2, <1>6, <1>7, <1>8, <1>9 DEF DCInv, IInv

\* Every step of the composed cache preserves DCInv.
LEMMA DCNextInv == DCInv /\ [DCNext]_vars => DCInv'
<1> SUFFICES ASSUME DCInv, [DCNext]_vars PROVE DCInv'
  OBVIOUS
<1>1. ASSUME NEW p \in Pods, NEW lbl \in LabelSets, NEW v \in Versions,
             HandleAddPod(p, lbl, v)
      PROVE  DCInv'
  BY <1>1, HandleAddPodInv
<1>2. ASSUME NEW s \in Svcs, NEW sel \in LabelSets, HandleAddService(s, sel)
      PROVE  DCInv'
  BY <1>2, HandleAddServiceInv
<1>3. ASSUME NEW o \in Others, NEW v \in Versions, HandleAddOther(o, v)
      PROVE  DCInv'
  BY <1>3, HandleAddOtherInv
<1>4. ASSUME NEW u \in UIDs, DeleteByKey(u)
      PROVE  DCInv'
  <2>. DEFINE Forget == specSelector' = [t \in Svcs |-> IF t = u THEN Nil
                                                       ELSE specSelector[t]]
  <2>1. Forget
    BY <1>4 DEF DeleteByKey
  <2>2. CASE uidKindCache[u] = "Pod" /\ DeletePodFromCache(u) /\ Purge(u, dimPropCache)
    BY <2>1, <2>2, DeletePodKeyInv
  <2>3. CASE uidKindCache[u] = "Service" /\ handleDeleteService(u)
    BY <2>1, <2>3, DeleteServiceKeyInv
  <2>4. CASE /\ uidKindCache[u] \notin {"Pod", "Service"}
             /\ UNCHANGED pscVars
             /\ Purge(u, dimPropCache)
    BY <2>1, <2>4, DeleteOtherKeyInv
  <2>. QED
    BY <1>4, <2>2, <2>3, <2>4 DEF DeleteByKey
<1>5. CASE UNCHANGED vars
  <2>1. UNCHANGED pscVars /\ UNCHANGED <<dpCache, dimPropCache, uidKindCache, specSelector>>
    BY <1>5 DEF vars, cacheVars
  <2>2. IInv'
    BY <2>1, DCInvIInv, NextIInv
  <2>3. DCTypeOK' /\ KindsOK' /\ IndexedPodsHaveRecords'
    BY <2>1, <2>2 DEF pscVars, DCInv, DCTypeOK, IInv, KindsOK,
                      IndexedPodsHaveRecords, CachedPods
  <2>4. \A p \in Pods : GetServiceNameForPodUID(p)' = GetServiceNameForPodUID(p)
    BY <2>1, ServiceNameFrame DEF pscVars
  <2>5. ServicePropConsistent'
    BY <2>1, <2>4 DEF DCInv, ServicePropConsistent
  <2>. QED
    BY <2>2, <2>3, <2>5 DEF DCInv, IInv
<1>. QED
  BY <1>1, <1>2, <1>3, <1>4, <1>5 DEF DCNext

-----------------------------------------------------------------------------
(* Every pod record's "service" property is the name the join index       *)
(* resolves for the pod now (HandleAddPod, HandleAddService and the        *)
(* service branch of DeleteByKey rewrite exactly the records whose answer  *)
(* they change), and every pod the index holds has a "Pod" record, for     *)
(* every set of pods, services, other resources, labels and namespaces.    *)
THEOREM ServicePropInvariant ==
    DCSpec => [](ServicePropConsistent /\ IndexedPodsHaveRecords)
<1>1. DCInv => ServicePropConsistent /\ IndexedPodsHaveRecords
  BY DEF DCInv
<1>. QED
  BY <1>1, DCInitInv, DCNextInv, PTL DEF DCSpec

(* Every reachable state of the composed cache is well typed: in particular *)
(* updateServicePropForPods never rewrites the "service" field of a record  *)
(* that is not there, since every pod it reaches has one.                   *)
THEOREM DCTypeCorrect == DCSpec => []DCTypeOK
<1>1. DCInv => DCTypeOK
  BY DEF DCInv
<1>. QED
  BY <1>1, DCInitInv, DCNextInv, PTL DEF DCSpec

============================================================================
