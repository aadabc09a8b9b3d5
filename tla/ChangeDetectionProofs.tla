------------------------- MODULE ChangeDetectionProofs -------------------------
(***************************************************************************)
(* Proofs about the change-detection caches: the namespace index is exact  *)
(* and a pod that IsCached reports unchanged is recorded again without any *)
(* change, for every set of pods, services, labels and owner references.   *)
(***************************************************************************)
EXTENDS ChangeDetection, TLAPS

USE ResourceAssumption, ChangeDetectionAssumption

(* A service with a cached selector has a pod set, so the write of         *)
(* GetMatchingServices into svcUIDPodsCache[svcUID] never meets a nil map. *)
SelectorHasPodSet ==
    \A s \in Svcs : svcUIDSelectorCache[s] # Nil => svcUIDPodsCache[s] # Nil

(* A pod's cached namespace is its own or absent: a UID never changes        *)
(* namespace, so AddPod never moves a pod between namespace sets.          *)
CachedNsIsOwn ==
    \A p \in Pods : podUIDNamespaceCache[p] = NoNamespace \/ podUIDNamespaceCache[p] = PodNs[p]

(* A cached pod has an owner-reference entry: AddPod writes it with the    *)
(* namespace, and PodCache.DeleteByKey never deletes it.                   *)
CachedPodHasOR ==
    \A p \in Pods : podUIDNamespaceCache[p] # NoNamespace => podUIDORCache[p] # Nil

IInv == /\ CDTypeOK
        /\ SelectorHasPodSet
        /\ CachedNsIsOwn
        /\ CachedPodHasOR
        /\ NamespaceIndexExact

\* The initial caches satisfy the inductive invariant.
LEMMA InitIInv == Init => IInv
<1>. SUFFICES ASSUME Init PROVE IInv
  OBVIOUS
<1>1. CDTypeOK
  BY DEF Init, NewServiceCache, NewPodCache, CDTypeOK
<1>2. SelectorHasPodSet
  BY DEF Init, NewServiceCache, SelectorHasPodSet
<1>3. CachedNsIsOwn
  BY DEF Init, NewPodCache, CachedNsIsOwn
<1>4. CachedPodHasOR
  BY DEF Init, NewPodCache, CachedPodHasOR
<1>5. NamespaceIndexExact
  BY DEF Init, NewPodCache, NamespaceIndexExact
<1>. QED
  BY <1>1, <1>2, <1>3, <1>4, <1>5, Zenon DEF IInv

\* AddService keeps the invariant: a stored selector comes with a fresh,
\* non-nil pod set.
LEMMA AddServiceIInv ==
    ASSUME IInv, NEW s \in Svcs, NEW sel \in LabelSets, AddService(s, sel)
    PROVE  IInv'
<1>. USE DEF IInv
<1>1. CASE sel = {}
  <2>0. UNCHANGED <<svcVars, podVars, matchedSince>>
    BY <1>1, Zenon DEF AddService
  <2>1. CDTypeOK'
    BY <2>0 DEF svcVars, podVars, CDTypeOK
  <2>2. SelectorHasPodSet'
    BY <2>0 DEF svcVars, podVars, CDTypeOK, SelectorHasPodSet
  <2>3. CachedNsIsOwn'
    BY <2>0 DEF svcVars, podVars, CDTypeOK, CachedNsIsOwn
  <2>4. CachedPodHasOR'
    BY <2>0 DEF svcVars, podVars, CDTypeOK, CachedPodHasOR
  <2>5. NamespaceIndexExact'
    BY <2>0 DEF svcVars, podVars, CDTypeOK, NamespaceIndexExact
  <2>. QED
    BY <2>1, <2>2, <2>3, <2>4, <2>5, Zenon DEF IInv
<1>2. CASE sel # {}
  <2>0. /\ svcUIDPodsCache' = [svcUIDPodsCache EXCEPT ![s] = {}]
        /\ svcUIDNamespaceCache' = [svcUIDNamespaceCache EXCEPT ![s] = SvcNs[s]]
        /\ svcUIDSelectorCache' = [svcUIDSelectorCache EXCEPT ![s] = sel]
        /\ svcUIDNameCache' = [svcUIDNameCache EXCEPT ![s] = SvcNameOf[s]]
        /\ UNCHANGED <<podVars, matchedSince>>
    BY <1>2, Zenon DEF AddService
  <2>1. CDTypeOK'
    BY <2>0 DEF podVars, CDTypeOK
  <2>2. SelectorHasPodSet'
    BY <2>0 DEF podVars, CDTypeOK, SelectorHasPodSet
  <2>3. CachedNsIsOwn'
    BY <2>0 DEF podVars, CDTypeOK, CachedNsIsOwn
  <2>4. CachedPodHasOR'
    BY <2>0 DEF podVars, CDTypeOK, CachedPodHasOR
  <2>5. NamespaceIndexExact'
    BY <2>0 DEF podVars, CDTypeOK, NamespaceIndexExact
  <2>. QED
    BY <2>1, <2>2, <2>3, <2>4, <2>5, Zenon DEF IInv
<1>. QED
  BY <1>1, <1>2

\* ServiceCache.DeleteByKey keeps the invariant: selector and pod set go
\* together.
LEMMA ServiceDeleteIInv ==
    ASSUME IInv, NEW s \in Svcs, ServiceDeleteByKey(s)
    PROVE  IInv'
<1>. USE DEF IInv
<1>1. CDTypeOK'
  BY DEF ServiceDeleteByKey, podVars, CDTypeOK
<1>2. SelectorHasPodSet'
  BY DEF ServiceDeleteByKey, podVars, CDTypeOK, SelectorHasPodSet
<1>3. CachedNsIsOwn'
  BY DEF ServiceDeleteByKey, podVars, CDTypeOK, CachedNsIsOwn
<1>4. CachedPodHasOR'
  BY DEF ServiceDeleteByKey, podVars, CDTypeOK, CachedPodHasOR
<1>5. NamespaceIndexExact'
  BY DEF ServiceDeleteByKey, podVars, CDTypeOK, NamespaceIndexExact
<1>. QED
  BY <1>1, <1>2, <1>3, <1>4, <1>5, Zenon DEF IInv

\* AddPod keeps the invariant: the pod joins the set of its own namespace,
\* the only set it can already be in.
LEMMA AddPodIInv ==
    ASSUME IInv, NEW p \in Pods, NEW lbl \in LabelSets, NEW refs \in ORLists,
           AddPod(p, lbl, refs)
    PROVE  IInv'
<1>. USE DEF IInv
<1>1. CDTypeOK'
  BY DEF AddPod, svcVars, ORLists, CDTypeOK
<1>2. SelectorHasPodSet'
  BY DEF AddPod, svcVars, ORLists, CDTypeOK, SelectorHasPodSet
<1>3. CachedNsIsOwn'
  BY DEF AddPod, svcVars, ORLists, CDTypeOK, CachedNsIsOwn
<1>4. CachedPodHasOR'
  BY DEF AddPod, svcVars, ORLists, CDTypeOK, CachedPodHasOR
<1>5. NamespaceIndexExact'
  <2>1. PodNs[p] \in Namespaces
    OBVIOUS
  <2>2. podUIDNamespaceCache' = [podUIDNamespaceCache EXCEPT ![p] = PodNs[p]]
    BY DEF AddPod
  <2>3. \A ns \in Namespaces, q \in Pods :
           (namespacePodUIDCache'[ns] # Nil /\ q \in namespacePodUIDCache'[ns])
             <=> \/ namespacePodUIDCache[ns] # Nil /\ q \in namespacePodUIDCache[ns]
                 \/ ns = PodNs[p] /\ q = p
    BY <2>1 DEF AddPod, CDTypeOK
  <2>4. SUFFICES ASSUME NEW ns \in Namespaces, NEW q \in Pods
                 PROVE  (namespacePodUIDCache'[ns] # Nil /\ q \in namespacePodUIDCache'[ns])
                          <=> podUIDNamespaceCache'[q] = ns
    BY DEF NamespaceIndexExact
  <2>5. CASE q = p
    <3>1. podUIDNamespaceCache'[q] = PodNs[p]
      BY <2>2, <2>5 DEF CDTypeOK
    <3>2. (namespacePodUIDCache'[ns] # Nil /\ q \in namespacePodUIDCache'[ns])
            <=> \/ namespacePodUIDCache[ns] # Nil /\ p \in namespacePodUIDCache[ns]
                \/ ns = PodNs[p]
      BY <2>3, <2>5
    <3>3. namespacePodUIDCache[ns] # Nil /\ p \in namespacePodUIDCache[ns] => ns = PodNs[p]
      BY DEF NamespaceIndexExact, CachedNsIsOwn, CDTypeOK
    <3>. QED
      BY <3>1, <3>2, <3>3
  <2>6. CASE q # p
    BY <2>2, <2>3, <2>6 DEF CDTypeOK, NamespaceIndexExact
  <2>. QED
    BY <2>5, <2>6
<1>. QED
  BY <1>1, <1>2, <1>3, <1>4, <1>5, Zenon DEF IInv

\* PodCache.DeleteByKey keeps the invariant: the set it cleans is the one
\* the cached namespace names, the only one holding the pod.
LEMMA PodDeleteIInv ==
    ASSUME IInv, NEW p \in Pods, PodDeleteByKey(p)
    PROVE  IInv'
<1>. USE DEF IInv
<1>1. CDTypeOK'
  BY DEF PodDeleteByKey, Unlisted, svcVars, CDTypeOK
<1>2. SelectorHasPodSet'
  BY DEF PodDeleteByKey, Unlisted, svcVars, CDTypeOK, SelectorHasPodSet
<1>3. CachedNsIsOwn'
  BY DEF PodDeleteByKey, Unlisted, svcVars, CDTypeOK, CachedNsIsOwn
<1>4. CachedPodHasOR'
  BY DEF PodDeleteByKey, Unlisted, svcVars, CDTypeOK, CachedPodHasOR
<1>5. NamespaceIndexExact'
  <2>1. podUIDNamespaceCache' = [podUIDNamespaceCache EXCEPT ![p] = NoNamespace]
    BY DEF PodDeleteByKey
  <2>2. \A ns \in Namespaces, q \in Pods :
           (namespacePodUIDCache'[ns] # Nil /\ q \in namespacePodUIDCache'[ns])
             <=> /\ namespacePodUIDCache[ns] # Nil /\ q \in namespacePodUIDCache[ns]
                 /\ ~(ns = podUIDNamespaceCache[p] /\ q = p)
    BY DEF PodDeleteByKey, Unlisted, CDTypeOK
  <2>3. SUFFICES ASSUME NEW ns \in Namespaces, NEW q \in Pods
                 PROVE  (namespacePodUIDCache'[ns] # Nil /\ q \in namespacePodUIDCache'[ns])
                          <=> podUIDNamespaceCache'[q] = ns
    BY DEF NamespaceIndexExact
  <2>4. CASE q = p
    BY <2>1, <2>2, <2>4 DEF CDTypeOK, NamespaceIndexExact
  <2>5. CASE q # p
    BY <2>1, <2>2, <2>5 DEF CDTypeOK, NamespaceIndexExact
  <2>. QED
    BY <2>4, <2>5
<1>. QED
  BY <1>1, <1>2, <1>3, <1>4, <1>5, Zenon DEF IInv

\* GetMatchingServices keeps the invariant: it writes only into pod sets of
\* services with a cached selector, which exist.
LEMMA GetMatchingIInv ==
    ASSUME IInv, NEW p \in Pods, GetMatchingServices(p)
    PROVE  IInv'
<1>. USE DEF IInv
<1>1. CDTypeOK'
  <2>1. /\ MatchingServices(p) \subseteq Svcs
        /\ \A t \in MatchingServices(p) : svcUIDPodsCache[t] # Nil
    BY DEF MatchingServices, SelectorHasPodSet
  <2>. QED
    BY <2>1 DEF GetMatchingServices, podVars, CDTypeOK
<1>2. SelectorHasPodSet'
  BY DEF GetMatchingServices, MatchingServices, podVars, CDTypeOK, SelectorHasPodSet
<1>3. CachedNsIsOwn'
  BY DEF GetMatchingServices, MatchingServices, podVars, CDTypeOK, CachedNsIsOwn
<1>4. CachedPodHasOR'
  BY DEF GetMatchingServices, MatchingServices, podVars, CDTypeOK, CachedPodHasOR
<1>5. NamespaceIndexExact'
  BY DEF GetMatchingServices, MatchingServices, podVars, CDTypeOK, NamespaceIndexExact
<1>. QED
  BY <1>1, <1>2, <1>3, <1>4, <1>5, Zenon DEF IInv

\* Every step, a stutter included, keeps the invariant.
LEMMA NextIInv == IInv /\ [Next]_cdVars => IInv'
<1>. SUFFICES ASSUME IInv, [Next]_cdVars PROVE IInv'
  OBVIOUS
<1>1. CASE \E s \in Svcs, sel \in LabelSets : AddService(s, sel)
  BY <1>1, AddServiceIInv
<1>2. CASE \E s \in Svcs : ServiceDeleteByKey(s)
  BY <1>2, ServiceDeleteIInv
<1>3. CASE \E p \in Pods, lbl \in LabelSets, refs \in ORLists : AddPod(p, lbl, refs)
  BY <1>3, AddPodIInv
<1>4. CASE \E p \in Pods : PodDeleteByKey(p)
  BY <1>4, PodDeleteIInv
<1>5. CASE \E p \in Pods : GetMatchingServices(p)
  BY <1>5, GetMatchingIInv
<1>6. CASE UNCHANGED cdVars
  BY <1>6 DEF cdVars, svcVars, podVars, IInv, CDTypeOK, SelectorHasPodSet,
              CachedNsIsOwn, CachedPodHasOR, NamespaceIndexExact
<1>. QED
  BY <1>1, <1>2, <1>3, <1>4, <1>5, <1>6 DEF Next

(* PodCache keeps its namespace index exact (NamespaceIndexExact) in every *)
(* reachable state, for every set of pods, namespaces and labels.          *)
THEOREM NamespaceIndexInvariant == Spec => [](CDTypeOK /\ NamespaceIndexExact)
<1>1. IInv => CDTypeOK /\ NamespaceIndexExact
  BY DEF IInv
<1>. QED
  BY InitIInv, NextIInv, <1>1, PTL DEF Spec

\* A pod that IsCached reports unchanged is already in its namespace's set
\* and holds exactly the labels and owner references given, so AddPod
\* rewrites every entry with the value it has.
LEMMA UpsertUnchanged ==
    ASSUME IInv, NEW p \in Pods, NEW lbl \in LabelSets, NEW refs \in ORLists,
           PodIsCached(p, lbl, refs), AddPod(p, lbl, refs)
    PROVE  UNCHANGED podVars
<1>. USE DEF IInv
<1>1. podUIDNamespaceCache[p] = PodNs[p]
  BY DEF PodIsCached
<1>2. namespacePodUIDCache[PodNs[p]] # Nil /\ p \in namespacePodUIDCache[PodNs[p]]
  BY <1>1 DEF NamespaceIndexExact
<1>3. podUIDORCache[p] # Nil
  BY <1>1 DEF CachedPodHasOR
<1>4. podUIDORCache[p] = refs
  BY <1>3 DEF PodIsCached, CachedOR
<1>5. namespacePodUIDCache' = namespacePodUIDCache
  BY <1>2 DEF AddPod, CDTypeOK
<1>6. podUIDNamespaceCache' = podUIDNamespaceCache
  BY <1>1 DEF AddPod, CDTypeOK
<1>7. podUIDLabelCache' = podUIDLabelCache
  BY DEF AddPod, PodIsCached, CDTypeOK
<1>8. podUIDORCache' = podUIDORCache
  BY <1>4 DEF AddPod, CDTypeOK
<1>. QED
  BY <1>5, <1>6, <1>7, <1>8 DEF podVars

(* Update idempotence for pods (PodUpsertIdempotent): in every behaviour,  *)
(* an AddPod of a pod that PodCache.IsCached reports unchanged leaves the  *)
(* pod cache as it was, for every set of pods, labels and owner            *)
(* references.                                                             *)
THEOREM PodUpsertIdempotence == Spec => PodUpsertIdempotent
<1>1. IInv => \A p \in Pods, lbl \in LabelSets, refs \in ORLists :
                 PodIsCached(p, lbl, refs) /\ AddPod(p, lbl, refs) => UNCHANGED podVars
  BY UpsertUnchanged
<1>2. Spec => []IInv
  BY InitIInv, NextIInv, PTL DEF Spec
<1>. QED
  BY <1>1, <1>2, PTL DEF PodUpsertIdempotent

=============================================================================
