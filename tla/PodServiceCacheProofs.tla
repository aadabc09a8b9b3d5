------------------------ MODULE PodServiceCacheProofs ------------------------
(***************************************************************************)
(* Proofs about the join index, for every value of the constants.          *)
(***************************************************************************)
EXTENDS PodServiceCache, TLAPS

USE ResourceAssumption

(***************************************************************************)
(* Type correctness.                                                       *)
(***************************************************************************)

LEMMA SetServiceType ==
    ASSUME TypeOK, NEW s \in Svcs, NEW sel \in LabelSets, SetService(s, sel)
    PROVE  TypeOK'
<1>1. CASE sel = {} \/ SetServiceUnchanged(s, sel)
  BY <1>1 DEF SetService, SetServiceUnchanged, TypeOK, pscVars
<1>2. CASE sel # {} /\ ~SetServiceUnchanged(s, sel)
  <2>1. /\ svcUIDNamespaceCache' = [svcUIDNamespaceCache EXCEPT ![s] = SvcNs[s]]
        /\ svcUIDSelectorCache' = [svcUIDSelectorCache EXCEPT ![s] = sel]
        /\ svcUIDNameCache' = [svcUIDNameCache EXCEPT ![s] = SvcNameOf[s]]
        /\ refreshCacheByService(s, sel)
        /\ UNCHANGED <<podUIDLabelCache, podUIDNamespaceCache>>
    BY <1>2, Zenon DEF SetService
  <2>2. RefreshedPodsOf(s, sel) \subseteq Pods
    BY DEF RefreshedPodsOf, CachedPods
  <2>3. /\ svcUIDNamespaceCache' \in [Svcs -> Namespaces \cup {NoNamespace}]
        /\ svcUIDNameCache' \in [Svcs -> Names \cup {0}]
        /\ svcUIDSelectorCache' \in [Svcs -> LabelSets \cup {Nil}]
        /\ podUIDLabelCache' \in [Pods -> LabelSets \cup {Nil}]
        /\ podUIDNamespaceCache' \in [Pods -> Namespaces \cup {NoNamespace}]
    BY <2>1 DEF TypeOK
  <2>4. /\ podSvcUIDCache' \in [Pods -> SUBSET Svcs]
        /\ svcPodUIDCache' \in [Svcs -> SUBSET Pods]
    BY <2>1, <2>2 DEF refreshCacheByService, TypeOK
  <2>5. QED
    BY <2>3, <2>4 DEF TypeOK
<1>3. QED
  BY <1>1, <1>2

LEMMA SetPodType ==
    ASSUME TypeOK, NEW p \in Pods, NEW lbl \in LabelSets, SetPod(p, lbl)
    PROVE  TypeOK'
<1>1. CASE SetPodUnchanged(p, lbl)
  BY <1>1 DEF SetPod, SetPodUnchanged, TypeOK, pscVars
<1>2. CASE ~SetPodUnchanged(p, lbl)
  <2>1. /\ podUIDNamespaceCache' = [podUIDNamespaceCache EXCEPT ![p] = PodNs[p]]
        /\ podUIDLabelCache' = [podUIDLabelCache EXCEPT ![p] = lbl]
        /\ refreshCacheByPod(p, lbl)
        /\ UNCHANGED <<svcUIDNamespaceCache, svcUIDNameCache, svcUIDSelectorCache>>
    BY <1>2, Zenon DEF SetPod
  <2>2. RefreshedSvcsOf(p, lbl) \subseteq Svcs
    BY DEF RefreshedSvcsOf, CachedSvcs
  <2>3. /\ svcUIDNamespaceCache' \in [Svcs -> Namespaces \cup {NoNamespace}]
        /\ svcUIDNameCache' \in [Svcs -> Names \cup {0}]
        /\ svcUIDSelectorCache' \in [Svcs -> LabelSets \cup {Nil}]
        /\ podUIDLabelCache' \in [Pods -> LabelSets \cup {Nil}]
        /\ podUIDNamespaceCache' \in [Pods -> Namespaces \cup {NoNamespace}]
    BY <2>1 DEF TypeOK
  <2>4. /\ podSvcUIDCache' \in [Pods -> SUBSET Svcs]
        /\ svcPodUIDCache' \in [Svcs -> SUBSET Pods]
    BY <2>1, <2>2 DEF refreshCacheByPod, TypeOK
  <2>5. QED
    BY <2>3, <2>4 DEF TypeOK
<1>3. QED
  BY <1>1, <1>2

LEMMA NextType == TypeOK /\ [Next]_pscVars => TypeOK'
<1> SUFFICES ASSUME TypeOK, [Next]_pscVars PROVE TypeOK'
  OBVIOUS
<1>1. ASSUME NEW s \in Svcs, NEW sel \in LabelSets, SetService(s, sel)
      PROVE  TypeOK'
  BY <1>1, SetServiceType
<1>2. ASSUME NEW s \in Svcs, DeleteServiceFromCache(s) PROVE TypeOK'
  BY <1>2 DEF DeleteServiceFromCache, TypeOK
<1>3. ASSUME NEW p \in Pods, NEW lbl \in LabelSets, SetPod(p, lbl)
      PROVE  TypeOK'
  BY <1>3, SetPodType
<1>4. ASSUME NEW p \in Pods, DeletePodFromCache(p) PROVE TypeOK'
  BY <1>4 DEF DeletePodFromCache, TypeOK
<1>5. CASE UNCHANGED pscVars
  BY <1>5 DEF TypeOK, pscVars
<1>6. QED
  BY <1>1, <1>2, <1>3, <1>4, <1>5 DEF Next

(* The join index only ever holds values of its declared types.            *)
THEOREM TypeCorrect == Spec => []TypeOK
<1>1. Init => TypeOK
  BY DEF Init, TypeOK
<1>2. QED
  BY <1>1, NextType, PTL DEF Spec

-----------------------------------------------------------------------------
(***************************************************************************)
(* The join invariant.  Symmetry, cached-only joins and completeness are   *)
(* inductive together with the type invariant: the deletes rely on         *)
(* symmetry to find every set that holds the deleted UID.                  *)
(***************************************************************************)
IInv == TypeOK /\ JoinSymmetric /\ JoinCached /\ JoinComplete

LEMMA InitIInv == Init => IInv
BY DEF Init, IInv, TypeOK, JoinSymmetric, JoinCached, JoinComplete,
       CachedPods, CachedSvcs

LEMMA SetServiceIInv ==
    ASSUME IInv, NEW s \in Svcs, NEW sel \in LabelSets, SetService(s, sel)
    PROVE  IInv'
<1>1. CASE sel = {} \/ SetServiceUnchanged(s, sel)
  <2>1. UNCHANGED pscVars
    BY <1>1, Zenon DEF SetService
  <2>2. QED
    BY <2>1 DEF pscVars, IInv, TypeOK, JoinSymmetric, JoinCached,
                JoinComplete, CachedPods, CachedSvcs, Selects
<1>2. CASE sel # {} /\ ~SetServiceUnchanged(s, sel)
  <2>1. /\ svcUIDNamespaceCache' = [svcUIDNamespaceCache EXCEPT ![s] = SvcNs[s]]
        /\ svcUIDSelectorCache' = [svcUIDSelectorCache EXCEPT ![s] = sel]
        /\ svcUIDNameCache' = [svcUIDNameCache EXCEPT ![s] = SvcNameOf[s]]
        /\ refreshCacheByService(s, sel)
        /\ UNCHANGED <<podUIDLabelCache, podUIDNamespaceCache>>
    BY <1>2, Zenon DEF SetService
  <2>2. sel # Nil
    BY ResourceAssumption
  <2>3. TypeOK /\ TypeOK'
    BY SetServiceType DEF IInv
  <2>4. /\ CachedPods' = CachedPods
        /\ CachedSvcs' = CachedSvcs \cup {s}
        /\ RefreshedPodsOf(s, sel) \subseteq CachedPods
    <3>1. CachedPods' = CachedPods
      BY <2>1 DEF CachedPods
    <3>2. CachedSvcs' = CachedSvcs \cup {s}
      <4>1. \A t \in Svcs : svcUIDSelectorCache'[t] =
                              IF t = s THEN sel ELSE svcUIDSelectorCache[t]
        BY <2>1, <2>3 DEF TypeOK
      <4>2. QED
        BY <4>1, <2>2 DEF CachedSvcs
    <3>3. RefreshedPodsOf(s, sel) \subseteq CachedPods
      BY DEF RefreshedPodsOf
    <3>4. QED
      BY <3>1, <3>2, <3>3
  <2>5. /\ \A p \in Pods : podSvcUIDCache'[p] =
              IF p \in RefreshedPodsOf(s, sel) THEN podSvcUIDCache[p] \cup {s}
                                              ELSE podSvcUIDCache[p]
        /\ \A t \in Svcs : svcPodUIDCache'[t] =
              IF t = s THEN svcPodUIDCache[s] \cup RefreshedPodsOf(s, sel)
                       ELSE svcPodUIDCache[t]
    BY <2>1, <2>3 DEF refreshCacheByService, TypeOK
  <2>6. JoinSymmetric'
    <3> SUFFICES ASSUME NEW p \in Pods, NEW t \in Svcs
                 PROVE  t \in podSvcUIDCache'[p] <=> p \in svcPodUIDCache'[t]
      BY DEF JoinSymmetric
    <3>1. t \in podSvcUIDCache[p] <=> p \in svcPodUIDCache[t]
      BY DEF IInv, JoinSymmetric
    <3>2. QED
      BY <3>1, <2>5
  <2>9. JoinCached'
    <3>1. \A p \in Pods : podSvcUIDCache'[p] # {} => p \in CachedPods'
      BY <2>4, <2>5 DEF IInv, JoinCached
    <3>2. \A t \in Svcs : svcPodUIDCache'[t] # {} => t \in CachedSvcs'
      BY <2>4, <2>5 DEF IInv, JoinCached
    <3>3. QED
      BY <3>1, <3>2 DEF JoinCached
  <2>7. JoinComplete'
    <3> SUFFICES ASSUME NEW p \in CachedPods', NEW t \in CachedSvcs',
                        Selects(svcUIDSelectorCache[t], podUIDLabelCache[p],
                                svcUIDNamespaceCache[t], podUIDNamespaceCache[p])'
                 PROVE  t \in podSvcUIDCache'[p]
      BY DEF JoinComplete
    <3>0. p \in Pods /\ t \in Svcs
      BY DEF CachedPods, CachedSvcs
    <3>1. CASE t = s
      BY <3>0, <3>1, <2>1, <2>3, <2>4, <2>5 DEF refreshCacheByService, RefreshedPodsOf,
                                    Selects, TypeOK
    <3>2. CASE t # s
      <4>1. p \in CachedPods /\ t \in CachedSvcs
        BY <3>2, <2>4
      <4>2. Selects(svcUIDSelectorCache[t], podUIDLabelCache[p],
                    svcUIDNamespaceCache[t], podUIDNamespaceCache[p])
        BY <3>0, <3>2, <2>1, <2>3 DEF Selects, TypeOK
      <4>3. t \in podSvcUIDCache[p]
        BY <4>1, <4>2 DEF IInv, JoinComplete
      <4>4. QED
        BY <3>0, <4>3, <2>5
    <3>3. QED
      BY <3>1, <3>2
  <2>8. QED
    BY <2>3, <2>6, <2>9, <2>7 DEF IInv
<1>3. QED
  BY <1>1, <1>2

LEMMA SetPodIInv ==
    ASSUME IInv, NEW p \in Pods, NEW lbl \in LabelSets, SetPod(p, lbl)
    PROVE  IInv'
<1>1. CASE SetPodUnchanged(p, lbl)
  <2>1. UNCHANGED pscVars
    BY <1>1, Zenon DEF SetPod
  <2>2. QED
    BY <2>1 DEF pscVars, IInv, TypeOK, JoinSymmetric, JoinCached,
                JoinComplete, CachedPods, CachedSvcs, Selects
<1>2. CASE ~SetPodUnchanged(p, lbl)
  <2>1. /\ podUIDNamespaceCache' = [podUIDNamespaceCache EXCEPT ![p] = PodNs[p]]
        /\ podUIDLabelCache' = [podUIDLabelCache EXCEPT ![p] = lbl]
        /\ refreshCacheByPod(p, lbl)
        /\ UNCHANGED <<svcUIDNamespaceCache, svcUIDNameCache, svcUIDSelectorCache>>
    BY <1>2, Zenon DEF SetPod
  <2>2. lbl # Nil
    BY ResourceAssumption
  <2>3. TypeOK /\ TypeOK'
    BY SetPodType DEF IInv
  <2>4. /\ CachedSvcs' = CachedSvcs
        /\ CachedPods' = CachedPods \cup {p}
        /\ RefreshedSvcsOf(p, lbl) \subseteq CachedSvcs
    <3>1. CachedSvcs' = CachedSvcs
      BY <2>1 DEF CachedSvcs
    <3>2. CachedPods' = CachedPods \cup {p}
      <4>1. \A q \in Pods : podUIDLabelCache'[q] =
                              IF q = p THEN lbl ELSE podUIDLabelCache[q]
        BY <2>1, <2>3 DEF TypeOK
      <4>2. QED
        BY <4>1, <2>2 DEF CachedPods
    <3>3. RefreshedSvcsOf(p, lbl) \subseteq CachedSvcs
      BY DEF RefreshedSvcsOf
    <3>4. QED
      BY <3>1, <3>2, <3>3
  <2>5. /\ \A t \in Svcs : svcPodUIDCache'[t] =
              IF t \in RefreshedSvcsOf(p, lbl) THEN svcPodUIDCache[t] \cup {p}
                                              ELSE svcPodUIDCache[t]
        /\ \A q \in Pods : podSvcUIDCache'[q] =
              IF q = p THEN podSvcUIDCache[p] \cup RefreshedSvcsOf(p, lbl)
                       ELSE podSvcUIDCache[q]
    BY <2>1, <2>3 DEF refreshCacheByPod, TypeOK
  <2>6. JoinSymmetric'
    <3> SUFFICES ASSUME NEW q \in Pods, NEW t \in Svcs
                 PROVE  t \in podSvcUIDCache'[q] <=> q \in svcPodUIDCache'[t]
      BY DEF JoinSymmetric
    <3>1. t \in podSvcUIDCache[q] <=> q \in svcPodUIDCache[t]
      BY DEF IInv, JoinSymmetric
    <3>2. QED
      BY <3>1, <2>5
  <2>7. JoinCached'
    <3>1. \A q \in Pods : podSvcUIDCache'[q] # {} => q \in CachedPods'
      BY <2>4, <2>5 DEF IInv, JoinCached
    <3>2. \A t \in Svcs : svcPodUIDCache'[t] # {} => t \in CachedSvcs'
      BY <2>4, <2>5 DEF IInv, JoinCached
    <3>3. QED
      BY <3>1, <3>2 DEF JoinCached
  <2>8. JoinComplete'
    <3> SUFFICES ASSUME NEW q \in CachedPods', NEW t \in CachedSvcs',
                        Selects(svcUIDSelectorCache[t], podUIDLabelCache[q],
                                svcUIDNamespaceCache[t], podUIDNamespaceCache[q])'
                 PROVE  t \in podSvcUIDCache'[q]
      BY DEF JoinComplete
    <3>0. q \in Pods /\ t \in Svcs
      BY DEF CachedPods, CachedSvcs
    <3>1. CASE q = p
      <4>1. t \in CachedSvcs
        BY <2>4
      <4>2. Selects(svcUIDSelectorCache[t], lbl, svcUIDNamespaceCache[t], PodNs[p])
        BY <3>0, <3>1, <2>1, <2>3 DEF Selects, TypeOK
      <4>3. t \in RefreshedSvcsOf(p, lbl)
        BY <4>1, <4>2 DEF RefreshedSvcsOf
      <4>4. QED
        BY <3>0, <3>1, <4>3, <2>5
    <3>2. CASE q # p
      <4>1. q \in CachedPods /\ t \in CachedSvcs
        BY <3>2, <2>4
      <4>2. Selects(svcUIDSelectorCache[t], podUIDLabelCache[q],
                    svcUIDNamespaceCache[t], podUIDNamespaceCache[q])
        BY <3>0, <3>2, <2>1, <2>3 DEF Selects, TypeOK
      <4>3. t \in podSvcUIDCache[q]
        BY <4>1, <4>2 DEF IInv, JoinComplete
      <4>4. QED
        BY <3>0, <3>2, <4>3, <2>5
    <3>3. QED
      BY <3>1, <3>2
  <2>9. QED
    BY <2>3, <2>6, <2>7, <2>8 DEF IInv
<1>3. QED
  BY <1>1, <1>2

LEMMA DeleteServiceIInv ==
    ASSUME IInv, NEW s \in Svcs, DeleteServiceFromCache(s)
    PROVE  IInv'
<1>1. TypeOK'
  BY DEF IInv, DeleteServiceFromCache, TypeOK
<1>2. /\ \A p \in Pods : podSvcUIDCache'[p] = podSvcUIDCache[p] \ {s}
      /\ \A t \in Svcs : svcPodUIDCache'[t] = IF t = s THEN {} ELSE svcPodUIDCache[t]
      /\ \A t \in Svcs : svcUIDSelectorCache'[t] =
                             IF t = s THEN Nil ELSE svcUIDSelectorCache[t]
      /\ \A t \in Svcs : svcUIDNamespaceCache'[t] =
                             IF t = s THEN NoNamespace ELSE svcUIDNamespaceCache[t]
  <2>1. \A p \in Pods : p \notin svcPodUIDCache[s] => s \notin podSvcUIDCache[p]
    BY DEF IInv, JoinSymmetric
  <2>2. QED
    BY <2>1 DEF IInv, TypeOK, DeleteServiceFromCache
<1>3. /\ CachedPods' = CachedPods
      /\ CachedSvcs' = CachedSvcs \ {s}
  BY <1>2 DEF DeleteServiceFromCache, CachedPods, CachedSvcs
<1>4. JoinSymmetric'
  <2> SUFFICES ASSUME NEW q \in Pods, NEW t \in Svcs
               PROVE  t \in podSvcUIDCache'[q] <=> q \in svcPodUIDCache'[t]
    BY DEF JoinSymmetric
  <2>1. t \in podSvcUIDCache[q] <=> q \in svcPodUIDCache[t]
    BY DEF IInv, JoinSymmetric
  <2>2. QED
    BY <2>1, <1>2
<1>5. JoinCached'
  BY <1>2, <1>3 DEF IInv, JoinCached
<1>6. JoinComplete'
  <2> SUFFICES ASSUME NEW p \in CachedPods', NEW t \in CachedSvcs',
                      Selects(svcUIDSelectorCache[t], podUIDLabelCache[p],
                              svcUIDNamespaceCache[t], podUIDNamespaceCache[p])'
               PROVE  t \in podSvcUIDCache'[p]
    BY DEF JoinComplete
  <2>1. p \in CachedPods /\ t \in CachedSvcs /\ t # s /\ p \in Pods /\ t \in Svcs
    BY <1>3 DEF CachedPods, CachedSvcs
  <2>2. Selects(svcUIDSelectorCache[t], podUIDLabelCache[p],
                svcUIDNamespaceCache[t], podUIDNamespaceCache[p])
    BY <2>1, <1>2 DEF DeleteServiceFromCache, Selects
  <2>3. QED
    BY <2>1, <2>2, <1>2 DEF IInv, JoinComplete
<1>7. QED
  BY <1>1, <1>4, <1>5, <1>6 DEF IInv

LEMMA DeletePodIInv ==
    ASSUME IInv, NEW p \in Pods, DeletePodFromCache(p)
    PROVE  IInv'
<1>1. TypeOK'
  BY DEF IInv, DeletePodFromCache, TypeOK
<1>2. /\ \A t \in Svcs : svcPodUIDCache'[t] = svcPodUIDCache[t] \ {p}
      /\ \A q \in Pods : podSvcUIDCache'[q] = IF q = p THEN {} ELSE podSvcUIDCache[q]
      /\ \A q \in Pods : podUIDLabelCache'[q] =
                             IF q = p THEN Nil ELSE podUIDLabelCache[q]
      /\ \A q \in Pods : podUIDNamespaceCache'[q] =
                             IF q = p THEN NoNamespace ELSE podUIDNamespaceCache[q]
  <2>1. \A t \in Svcs : t \notin podSvcUIDCache[p] => p \notin svcPodUIDCache[t]
    BY DEF IInv, JoinSymmetric
  <2>2. QED
    BY <2>1 DEF IInv, TypeOK, DeletePodFromCache
<1>3. /\ CachedSvcs' = CachedSvcs
      /\ CachedPods' = CachedPods \ {p}
  BY <1>2 DEF DeletePodFromCache, CachedPods, CachedSvcs
<1>4. JoinSymmetric'
  <2> SUFFICES ASSUME NEW q \in Pods, NEW t \in Svcs
               PROVE  t \in podSvcUIDCache'[q] <=> q \in svcPodUIDCache'[t]
    BY DEF JoinSymmetric
  <2>1. t \in podSvcUIDCache[q] <=> q \in svcPodUIDCache[t]
    BY DEF IInv, JoinSymmetric
  <2>2. QED
    BY <2>1, <1>2
<1>5. JoinCached'
  BY <1>2, <1>3 DEF IInv, JoinCached
<1>6. JoinComplete'
  <2> SUFFICES ASSUME NEW q \in CachedPods', NEW t \in CachedSvcs',
                      Selects(svcUIDSelectorCache[t], podUIDLabelCache[q],
                              svcUIDNamespaceCache[t], podUIDNamespaceCache[q])'
               PROVE  t \in podSvcUIDCache'[q]
    BY DEF JoinComplete
  <2>1. q \in CachedPods /\ t \in CachedSvcs /\ q # p /\ q \in Pods /\ t \in Svcs
    BY <1>3 DEF CachedPods, CachedSvcs
  <2>2. Selects(svcUIDSelectorCache[t], podUIDLabelCache[q],
                svcUIDNamespaceCache[t], podUIDNamespaceCache[q])
    BY <2>1, <1>2 DEF DeletePodFromCache, Selects
  <2>3. QED
    BY <2>1, <2>2, <1>2 DEF IInv, JoinComplete
<1>7. QED
  BY <1>1, <1>4, <1>5, <1>6 DEF IInv

LEMMA NextIInv == IInv /\ [Next]_pscVars => IInv'
<1> SUFFICES ASSUME IInv, [Next]_pscVars PROVE IInv'
  OBVIOUS
<1>1. ASSUME NEW s \in Svcs, NEW sel \in LabelSets, SetService(s, sel)
      PROVE  IInv'
  BY <1>1, SetServiceIInv
<1>2. ASSUME NEW s \in Svcs, DeleteServiceFromCache(s) PROVE IInv'
  BY <1>2, DeleteServiceIInv
<1>3. ASSUME NEW p \in Pods, NEW lbl \in LabelSets, SetPod(p, lbl)
      PROVE  IInv'
  BY <1>3, SetPodIInv
<1>4. ASSUME NEW p \in Pods, DeletePodFromCache(p) PROVE IInv'
  BY <1>4, DeletePodIInv
<1>5. CASE UNCHANGED pscVars
  BY <1>5 DEF pscVars, IInv, TypeOK, JoinSymmetric, JoinCached,
              JoinComplete, CachedPods, CachedSvcs, Selects
<1>6. QED
  BY <1>1, <1>2, <1>3, <1>4, <1>5 DEF Next

(* Whatever sequence of SetService, DeleteServiceFromCache, SetPod and     *)
(* DeletePodFromCache calls the cluster's events produce, the pod->service *)
(* and service->pod sets mirror each other, hold only cached UIDs, and     *)
(* join every cached pod to every cached service that selects it.          *)
THEOREM JoinInvariant == Spec => [](JoinSymmetric /\ JoinCached /\ JoinComplete)
<1>1. IInv => JoinSymmetric /\ JoinCached /\ JoinComplete
  BY DEF IInv
<1>2. QED
  BY InitIInv, NextIInv, <1>1, PTL DEF Spec

-----------------------------------------------------------------------------
(***************************************************************************)
(* The index implements JoinRelation under the mapping JoinPairs.          *)
(***************************************************************************)

\* A step that keeps the index's variables keeps the mapped ones.
LEMMA UnchangedRefines ==
    ASSUME UNCHANGED pscVars
    PROVE  UNCHANGED JR!jrVars
BY DEF pscVars, JR!jrVars, JoinPairs

\* A changing SetService is the relation's UpsertService.
LEMMA SetServiceRefines ==
    ASSUME TypeOK, NEW s \in Svcs, NEW sel \in LabelSets, SetService(s, sel)
    PROVE  [JR!JRNext]_JR!jrVars
<1>1. CASE sel = {} \/ SetServiceUnchanged(s, sel)
  BY <1>1, UnchangedRefines, Zenon DEF SetService
<1>2. CASE sel # {} /\ ~SetServiceUnchanged(s, sel)
  <2>. DEFINE New == RefreshedPodsOf(s, sel)
  <2>1. /\ svcUIDNamespaceCache' = [svcUIDNamespaceCache EXCEPT ![s] = SvcNs[s]]
        /\ svcUIDSelectorCache' = [svcUIDSelectorCache EXCEPT ![s] = sel]
        /\ refreshCacheByService(s, sel)
        /\ UNCHANGED <<podUIDLabelCache, podUIDNamespaceCache>>
    BY <1>2, Zenon DEF SetService
  <2>2. \A p \in Pods : podSvcUIDCache'[p] =
           IF p \in New THEN podSvcUIDCache[p] \cup {s} ELSE podSvcUIDCache[p]
    BY <2>1 DEF refreshCacheByService
  <2>3. New = {q \in Pods : /\ podUIDLabelCache[q] # Nil
                            /\ JR!Matches(sel, podUIDLabelCache[q], SvcNs[s],
                                          podUIDNamespaceCache[q])}
    BY DEF RefreshedPodsOf, CachedPods, Selects, JR!Matches
  <2>4. JoinPairs' = JoinPairs \cup {<<p, s>> : p \in New}
    <3>1. New \subseteq Pods
      BY DEF RefreshedPodsOf, CachedPods
    <3>2. ASSUME NEW q \in Pods, NEW t \in Svcs
          PROVE  t \in podSvcUIDCache'[q] <=> t \in podSvcUIDCache[q] \/ (q \in New /\ t = s)
      BY <2>2
    <3>. QED
      BY <3>1, <3>2 DEF JoinPairs
  <2>5. JR!UpsertService(s, sel)
    BY <1>2, <2>1, <2>3, <2>4 DEF JR!UpsertService
  <2>. QED
    BY <2>5 DEF JR!JRNext, JR!LabelSets, JR!Labels, LabelSets, Labels
<1>. QED
  BY <1>1, <1>2

\* DeleteServiceFromCache unjoins only the pods in svcPodUIDCache[s]; by
\* JoinSymmetric these are all the pods joined to s, so it is the relation's
\* RemoveService.
LEMMA DeleteServiceRefines ==
    ASSUME IInv, NEW s \in Svcs, DeleteServiceFromCache(s)
    PROVE  JR!RemoveService(s)
<1>1. \A p \in Pods : podSvcUIDCache'[p] = podSvcUIDCache[p] \ {s}
  BY DEF DeleteServiceFromCache, IInv, JoinSymmetric, TypeOK
<1>2. JoinPairs' = {m \in JoinPairs : m[2] # s}
  BY <1>1 DEF JoinPairs
<1>. QED
  BY <1>2 DEF DeleteServiceFromCache, JR!RemoveService

\* A changing SetPod is the relation's UpsertPod.
LEMMA SetPodRefines ==
    ASSUME TypeOK, NEW p \in Pods, NEW lbl \in LabelSets, SetPod(p, lbl)
    PROVE  [JR!JRNext]_JR!jrVars
<1>1. CASE SetPodUnchanged(p, lbl)
  BY <1>1, UnchangedRefines, Zenon DEF SetPod
<1>2. CASE ~SetPodUnchanged(p, lbl)
  <2>. DEFINE New == RefreshedSvcsOf(p, lbl)
  <2>1. /\ podUIDNamespaceCache' = [podUIDNamespaceCache EXCEPT ![p] = PodNs[p]]
        /\ podUIDLabelCache' = [podUIDLabelCache EXCEPT ![p] = lbl]
        /\ refreshCacheByPod(p, lbl)
        /\ UNCHANGED <<svcUIDNamespaceCache, svcUIDSelectorCache>>
    BY <1>2, Zenon DEF SetPod
  <2>2. \A q \in Pods : podSvcUIDCache'[q] =
           IF q = p THEN podSvcUIDCache[p] \cup New ELSE podSvcUIDCache[q]
    BY <2>1 DEF refreshCacheByPod, TypeOK
  <2>3. New = {t \in Svcs : /\ svcUIDSelectorCache[t] # Nil
                            /\ JR!Matches(svcUIDSelectorCache[t], lbl,
                                          svcUIDNamespaceCache[t], PodNs[p])}
    BY DEF RefreshedSvcsOf, CachedSvcs, Selects, JR!Matches
  <2>4. JoinPairs' = JoinPairs \cup {<<p, t>> : t \in New}
    <3>1. New \subseteq Svcs
      BY DEF RefreshedSvcsOf, CachedSvcs
    <3>2. \A m : m \in JoinPairs' <=> m \in JoinPairs \cup {<<p, t>> : t \in New}
      BY <2>2, <3>1 DEF JoinPairs
    <3>. QED
      BY <3>2
  <2>5. JR!UpsertPod(p, lbl)
    BY <2>1, <2>3, <2>4 DEF JR!UpsertPod
  <2>. QED
    BY <2>5 DEF JR!JRNext, JR!LabelSets, JR!Labels, LabelSets, Labels
<1>. QED
  BY <1>1, <1>2

\* DeletePodFromCache empties the pod's own set: the relation's RemovePod.
LEMMA DeletePodRefines ==
    ASSUME TypeOK, NEW p \in Pods, DeletePodFromCache(p)
    PROVE  JR!RemovePod(p)
<1>1. \A q \in Pods : podSvcUIDCache'[q] = IF q = p THEN {} ELSE podSvcUIDCache[q]
  BY DEF DeletePodFromCache, TypeOK
<1>2. JoinPairs' = {m \in JoinPairs : m[1] # p}
  BY <1>1 DEF JoinPairs
<1>. QED
  BY <1>2 DEF DeletePodFromCache, JR!RemovePod

(* The two-map join index implements the single relation of JoinRelation, *)
(* for every value of the constants: what DeleteServiceFromCache reaches   *)
(* through svcPodUIDCache is exactly what the pod-side map holds.           *)
THEOREM JoinRefinement == Spec => ImplementsJoinRelation
<1>1. Init => JR!JRInit
  BY DEF Init, JR!JRInit, JoinPairs
<1>2. IInv /\ [Next]_pscVars => [JR!JRNext]_JR!jrVars
  <2> SUFFICES ASSUME IInv, [Next]_pscVars PROVE [JR!JRNext]_JR!jrVars
    OBVIOUS
  <2>0. TypeOK
    BY DEF IInv
  <2>1. ASSUME NEW s \in Svcs, NEW sel \in LabelSets, SetService(s, sel)
        PROVE  [JR!JRNext]_JR!jrVars
    BY <2>0, <2>1, SetServiceRefines
  <2>2. ASSUME NEW s \in Svcs, DeleteServiceFromCache(s)
        PROVE  [JR!JRNext]_JR!jrVars
    BY <2>2, DeleteServiceRefines DEF JR!JRNext, JR!LabelSets, JR!Labels, LabelSets, Labels
  <2>3. ASSUME NEW p \in Pods, NEW lbl \in LabelSets, SetPod(p, lbl)
        PROVE  [JR!JRNext]_JR!jrVars
    BY <2>0, <2>3, SetPodRefines
  <2>4. ASSUME NEW p \in Pods, DeletePodFromCache(p)
        PROVE  [JR!JRNext]_JR!jrVars
    BY <2>0, <2>4, DeletePodRefines DEF JR!JRNext
  <2>5. CASE UNCHANGED pscVars
    BY <2>5, UnchangedRefines
  <2>. QED
    BY <2>1, <2>2, <2>3, <2>4, <2>5 DEF Next
<1>. QED
  BY <1>1, <1>2, InitIInv, NextIInv, PTL DEF Spec, ImplementsJoinRelation, JR!JRSpec

=============================================================================
