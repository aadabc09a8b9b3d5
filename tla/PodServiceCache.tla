--------------------------- MODULE PodServiceCache ---------------------------
(***************************************************************************)
(* The pod:service join index of the kubernetes-cluster monitor            *)
(* (k8sutil.PodServiceCache, src/unnamed/part_001 lines 176-414).          *)
(*                                                                         *)
(* Each Go map of the struct is a TLA+ function over the UIDs of its key   *)
(* kind.  An absent map entry is the Go zero value the code reads back:    *)
(* "" for a namespace, 0 (the empty name) for a service name, Nil for a    *)
(* selector or a label set.  An absent UID set reads as the empty set,     *)
(* which the code treats exactly like an allocated empty set.              *)
(*                                                                         *)
(* A label set (and a service selector, built from the same kind of map)   *)
(* is a set of <<key, value>> pairs with one value per key.  An            *)
(* equality-based selector matches a label set when each of its pairs is   *)
(* in the set.  Service names are ranked by their alphabetical order: a    *)
(* name is a positive natural and 0 stands for "".                         *)
(*                                                                         *)
(* A UID's namespace and (for services) its name never change in           *)
(* Kubernetes, so they are constants of the UID; labels and selectors      *)
(* change from one event to the next.                                      *)
(***************************************************************************)
EXTENDS K8sResources

VARIABLES
    svcUIDNamespaceCache, \* service UID -> namespace
    svcUIDNameCache,      \* service UID -> name
    svcUIDSelectorCache,  \* service UID -> selector
    podUIDLabelCache,     \* pod UID -> label set
    podUIDNamespaceCache, \* pod UID -> namespace
    podSvcUIDCache,       \* pod UID -> set of service UIDs joined to it
    svcPodUIDCache        \* service UID -> set of pod UIDs joined to it

pscVars == <<svcUIDNamespaceCache, svcUIDNameCache, svcUIDSelectorCache,
             podUIDLabelCache, podUIDNamespaceCache, podSvcUIDCache,
             svcPodUIDCache>>

TypeOK ==
    /\ svcUIDNamespaceCache \in [Svcs -> Namespaces \cup {NoNamespace}]
    /\ svcUIDNameCache \in [Svcs -> Names \cup {0}]
    /\ svcUIDSelectorCache \in [Svcs -> LabelSets \cup {Nil}]
    /\ podUIDLabelCache \in [Pods -> LabelSets \cup {Nil}]
    /\ podUIDNamespaceCache \in [Pods -> Namespaces \cup {NoNamespace}]
    /\ podSvcUIDCache \in [Pods -> SUBSET Svcs]
    /\ svcPodUIDCache \in [Svcs -> SUBSET Pods]

\* NewPodServiceCache: every map empty.
Init ==
    /\ svcUIDNamespaceCache = [s \in Svcs |-> NoNamespace]
    /\ svcUIDNameCache = [s \in Svcs |-> 0]
    /\ svcUIDSelectorCache = [s \in Svcs |-> Nil]
    /\ podUIDLabelCache = [p \in Pods |-> Nil]
    /\ podUIDNamespaceCache = [p \in Pods |-> NoNamespace]
    /\ podSvcUIDCache = [p \in Pods |-> {}]
    /\ svcPodUIDCache = [s \in Svcs |-> {}]

(***************************************************************************)
(* The join condition of refreshCacheByService and refreshCacheByPod: the  *)
(* selector matches the label set and the namespaces are equal.            *)
(***************************************************************************)
Selects(selector, labelSet, svcNs, podNs) ==
    /\ selector \subseteq labelSet
    /\ svcNs = podNs

\* The pods cached for the join are the keys of podUIDLabelCache.
CachedPods == {p \in Pods : podUIDLabelCache[p] # Nil}

\* The services cached for the join are the keys of svcUIDSelectorCache.
CachedSvcs == {s \in Svcs : svcUIDSelectorCache[s] # Nil}

(***************************************************************************)
(* refreshCacheByService(s): join s to every cached pod its (just stored)  *)
(* selector selects.  Earlier joins of s are not cleared.                  *)
(***************************************************************************)
\* Mutant: the namespace test reads the service's cached namespace before
\* it is stored ("" for a new service).
RefreshedPodsOfStaleNs(s, sel) ==
    {p \in CachedPods :
        Selects(sel, podUIDLabelCache[p], svcUIDNamespaceCache[s],
                podUIDNamespaceCache[p])}

RefreshedPodsOf(s, sel) ==
    {p \in CachedPods :
        Selects(sel, podUIDLabelCache[p], SvcNs[s], podUIDNamespaceCache[p])}

refreshCacheByService(s, sel) ==
    LET new == RefreshedPodsOf(s, sel) IN
    /\ podSvcUIDCache' = [p \in Pods |->
                            IF p \in new THEN podSvcUIDCache[p] \cup {s}
                                         ELSE podSvcUIDCache[p]]
    /\ svcPodUIDCache' = [svcPodUIDCache EXCEPT ![s] = @ \cup new]

(***************************************************************************)
(* SetService(svc): an empty selector, or a selector, name and namespace   *)
(* equal to the cached ones, is a no-op; otherwise the three are stored    *)
(* and the service is re-joined.                                           *)
(***************************************************************************)
SetServiceUnchanged(s, sel) ==
    /\ svcUIDSelectorCache[s] = sel
    /\ svcUIDNameCache[s] = SvcNameOf[s]
    /\ svcUIDNamespaceCache[s] = SvcNs[s]

SetService(s, sel) ==
    \/ /\ sel = {} \/ SetServiceUnchanged(s, sel)
       /\ UNCHANGED pscVars
    \/ /\ sel # {}
       /\ ~SetServiceUnchanged(s, sel)
       /\ svcUIDNamespaceCache' = [svcUIDNamespaceCache EXCEPT ![s] = SvcNs[s]]
       /\ svcUIDSelectorCache' = [svcUIDSelectorCache EXCEPT ![s] = sel]
       /\ svcUIDNameCache' = [svcUIDNameCache EXCEPT ![s] = SvcNameOf[s]]
       /\ refreshCacheByService(s, sel)
       /\ UNCHANGED <<podUIDLabelCache, podUIDNamespaceCache>>

(***************************************************************************)
(* DeleteServiceFromCache(s): drop the service's entries and remove it     *)
(* from the set of every pod it was joined to.                             *)
(***************************************************************************)
DeleteServiceFromCache(s) ==
    /\ svcUIDNamespaceCache' = [svcUIDNamespaceCache EXCEPT ![s] = NoNamespace]
    /\ svcUIDSelectorCache' = [svcUIDSelectorCache EXCEPT ![s] = Nil]
    /\ svcUIDNameCache' = [svcUIDNameCache EXCEPT ![s] = 0]
    /\ podSvcUIDCache' = [p \in Pods |->
                            IF p \in svcPodUIDCache[s]
                            THEN podSvcUIDCache[p] \ {s}
                            ELSE podSvcUIDCache[p]]
    /\ svcPodUIDCache' = [svcPodUIDCache EXCEPT ![s] = {}]
    /\ UNCHANGED <<podUIDLabelCache, podUIDNamespaceCache>>

(***************************************************************************)
(* refreshCacheByPod(p): join p to every cached service whose selector     *)
(* selects its (just stored) labels.  Earlier joins of p are not cleared.  *)
(***************************************************************************)
RefreshedSvcsOf(p, lbl) ==
    {s \in CachedSvcs :
        Selects(svcUIDSelectorCache[s], lbl, svcUIDNamespaceCache[s], PodNs[p])}

\* Mutant: the join is written under the pod's UID on both sides
\* (psc.podSvcUIDCache[pod.UID][pod.UID]).
refreshCacheByPodSwapped(p, lbl) ==
    LET new == RefreshedSvcsOf(p, lbl) IN
    /\ podSvcUIDCache' = [podSvcUIDCache EXCEPT ![p] =
                            IF new = {} THEN @ ELSE @ \cup {p}]
    /\ svcPodUIDCache' = [s \in Svcs |->
                            IF s \in new THEN svcPodUIDCache[s] \cup {p}
                                         ELSE svcPodUIDCache[s]]

refreshCacheByPod(p, lbl) ==
    LET new == RefreshedSvcsOf(p, lbl) IN
    /\ podSvcUIDCache' = [podSvcUIDCache EXCEPT ![p] = @ \cup new]
    /\ svcPodUIDCache' = [s \in Svcs |->
                            IF s \in new THEN svcPodUIDCache[s] \cup {p}
                                         ELSE svcPodUIDCache[s]]

(***************************************************************************)
(* SetPod(pod): labels and namespace equal to the cached ones are a        *)
(* no-op; otherwise both are stored and the pod is re-joined.              *)
(***************************************************************************)
SetPodUnchanged(p, lbl) ==
    /\ podUIDLabelCache[p] = lbl
    /\ podUIDNamespaceCache[p] = PodNs[p]

SetPod(p, lbl) ==
    \/ /\ SetPodUnchanged(p, lbl)
       /\ UNCHANGED pscVars
    \/ /\ ~SetPodUnchanged(p, lbl)
       /\ podUIDNamespaceCache' = [podUIDNamespaceCache EXCEPT ![p] = PodNs[p]]
       /\ podUIDLabelCache' = [podUIDLabelCache EXCEPT ![p] = lbl]
       /\ refreshCacheByPod(p, lbl)
       /\ UNCHANGED <<svcUIDNamespaceCache, svcUIDNameCache, svcUIDSelectorCache>>

\* Mutant: the pod's entries are dropped but its joins are left in place.
DeletePodFromCacheNoUnjoin(p) ==
    /\ podUIDNamespaceCache' = [podUIDNamespaceCache EXCEPT ![p] = NoNamespace]
    /\ podUIDLabelCache' = [podUIDLabelCache EXCEPT ![p] = Nil]
    /\ UNCHANGED <<svcUIDNamespaceCache, svcUIDNameCache, svcUIDSelectorCache,
                   podSvcUIDCache, svcPodUIDCache>>

\* Mutant: the pod is not removed from the sets of its services.
DeletePodFromCacheKeepsReverse(p) ==
    /\ podUIDNamespaceCache' = [podUIDNamespaceCache EXCEPT ![p] = NoNamespace]
    /\ podUIDLabelCache' = [podUIDLabelCache EXCEPT ![p] = Nil]
    /\ podSvcUIDCache' = [podSvcUIDCache EXCEPT ![p] = {}]
    /\ UNCHANGED <<svcUIDNamespaceCache, svcUIDNameCache, svcUIDSelectorCache,
                   svcPodUIDCache>>

(***************************************************************************)
(* DeletePodFromCache(p): drop the pod's entries and remove it from the    *)
(* set of every service it was joined to.                                  *)
(***************************************************************************)
DeletePodFromCache(p) ==
    /\ podUIDNamespaceCache' = [podUIDNamespaceCache EXCEPT ![p] = NoNamespace]
    /\ podUIDLabelCache' = [podUIDLabelCache EXCEPT ![p] = Nil]
    /\ svcPodUIDCache' = [s \in Svcs |->
                            IF s \in podSvcUIDCache[p]
                            THEN svcPodUIDCache[s] \ {p}
                            ELSE svcPodUIDCache[s]]
    /\ podSvcUIDCache' = [podSvcUIDCache EXCEPT ![p] = {}]
    /\ UNCHANGED <<svcUIDNamespaceCache, svcUIDNameCache, svcUIDSelectorCache>>

(***************************************************************************)
(* Lookups used by the datapoint cache.                                    *)
(***************************************************************************)
GetPodUIDsForServiceUID(s) == svcPodUIDCache[s]

\* getServiceNamesForPodUID: the cached name of every joined service.
getServiceNamesForPodUID(p) == {svcUIDNameCache[s] : s \in podSvcUIDCache[p]}

\* GetServiceNameForPodUID: the alphabetically first name, or NoService.
NoService == Nil

GetServiceNameForPodUID(p) ==
    LET names == getServiceNamesForPodUID(p) IN
    IF names = {} THEN NoService
    ELSE CHOOSE n \in names : \A m \in names : n <= m

Next ==
    \/ \E s \in Svcs, sel \in LabelSets : SetService(s, sel)
    \/ \E s \in Svcs : DeleteServiceFromCache(s)
    \/ \E p \in Pods, lbl \in LabelSets : SetPod(p, lbl)
    \/ \E p \in Pods : DeletePodFromCache(p)

Spec == Init /\ [][Next]_pscVars

-----------------------------------------------------------------------------
(***************************************************************************)
(* Properties.                                                             *)
(***************************************************************************)

(* Join symmetry (spec property 1): a service is in a pod's set exactly    *)
(* when the pod is in the service's set, after any sequence of SetPod,     *)
(* SetService, DeletePodFromCache and DeleteServiceFromCache.  The two     *)
(* deletes only walk one side to clean the other.                          *)
JoinSymmetric ==
    \A p \in Pods, s \in Svcs : s \in podSvcUIDCache[p] <=> p \in svcPodUIDCache[s]

(* Only cached pods and services are joined: after a delete no set still   *)
(* holds the deleted UID, so getServiceNamesForPodUID never reads the ""   *)
(* name of a deleted service.                                              *)
JoinCached ==
    /\ \A p \in Pods : podSvcUIDCache[p] # {} => p \in CachedPods
    /\ \A s \in Svcs : svcPodUIDCache[s] # {} => s \in CachedSvcs

(* Join completeness: every cached pod that a cached service's selector    *)
(* selects (same namespace) is joined to it, whichever of the two was      *)
(* stored last.                                                            *)
JoinComplete ==
    \A p \in CachedPods, s \in CachedSvcs :
        Selects(svcUIDSelectorCache[s], podUIDLabelCache[p],
                svcUIDNamespaceCache[s], podUIDNamespaceCache[p])
            => s \in podSvcUIDCache[p]

(* Join soundness (spec 4.2: SetPod and SetService rebuild the membership  *)
(* "clear-then-rematch"): a pod is joined only to services whose cached    *)
(* selector selects its cached labels.                                     *)
JoinSound ==
    \A p \in Pods, s \in Svcs :
        s \in podSvcUIDCache[p] =>
            /\ p \in CachedPods /\ s \in CachedSvcs
            /\ Selects(svcUIDSelectorCache[s], podUIDLabelCache[p],
                       svcUIDNamespaceCache[s], podUIDNamespaceCache[p])

-----------------------------------------------------------------------------
(***************************************************************************)
(* The two maps as one relation (spec.md, "Join Index").                   *)
(***************************************************************************)

\* The refinement mapping reads the relation off podSvcUIDCache alone.
JoinPairs == {m \in Pods \X Svcs : m[2] \in podSvcUIDCache[m[1]]}

JR == INSTANCE JoinRelation WITH podLabels <- podUIDLabelCache,
                                 podNamespace <- podUIDNamespaceCache,
                                 svcSelector <- svcUIDSelectorCache,
                                 svcNamespace <- svcUIDNamespaceCache,
                                 members <- JoinPairs

(* The index implements the single join relation: every SetPod, SetService, *)
(* DeletePodFromCache and DeleteServiceFromCache moves the pod-side map as  *)
(* an upsert or a delete of the relation would, although                    *)
(* DeleteServiceFromCache finds the pods to unjoin through the other map,   *)
(* svcPodUIDCache[s].                                                       *)
ImplementsJoinRelation == JR!JRSpec

=============================================================================
