---------------------------- MODULE ChangeDetection ----------------------------
(***************************************************************************)
(* The change-detection caches of the kubernetes monitor                   *)
(* (utils.ServiceCache and utils.PodCache, src/unnamed/part_001 lines      *)
(* 1-175): the last seen selector, name and namespace of each service, and *)
(* the labels, namespace and owner references of each pod, with IsCached  *)
(* to report "unchanged" and GetMatchingServices to record which pods a    *)
(* service's selector matched.                                             *)
(*                                                                         *)
(* An absent map entry is Nil, except where the code reads it back as a Go *)
(* zero value: "" for a namespace, 0 for a name, NoOwners (a nil slice)    *)
(* for owner references.  Each method is one step: the caller serializes   *)
(* resource events.                                                        *)
(***************************************************************************)
EXTENDS K8sResources

CONSTANTS
    OwnerRefs, \* owner-reference lists a pod can carry (compared as a whole)
    NoOwners   \* the nil owner-reference slice

ASSUME ChangeDetectionAssumption ==
    /\ \A S \in SUBSET Pods : S # Nil
    /\ NoOwners \notin OwnerRefs
    /\ Nil \notin OwnerRefs \cup {NoOwners}

ORLists == OwnerRefs \cup {NoOwners}

VARIABLES
    svcUIDNamespaceCache, \* ServiceCache: service UID -> namespace
    svcUIDNameCache,      \* ServiceCache: service UID -> name
    svcUIDSelectorCache,  \* ServiceCache: service UID -> selector
    svcUIDPodsCache,      \* ServiceCache: service UID -> pods matched (Nil: no map)
    namespacePodUIDCache, \* PodCache: namespace -> pods in it (Nil: no map)
    podUIDNamespaceCache, \* PodCache: pod UID -> namespace
    podUIDLabelCache,     \* PodCache: pod UID -> label set
    podUIDORCache,        \* PodCache: pod UID -> owner references
    matchedSince,         \* history: pods GetMatchingServices matched to a
                          \* service since it was last deleted
    specSelector          \* history: the selector of each service's latest
                          \* AddService (Nil: none since it was deleted)

svcVars == <<svcUIDNamespaceCache, svcUIDNameCache, svcUIDSelectorCache,
             svcUIDPodsCache>>
podVars == <<namespacePodUIDCache, podUIDNamespaceCache, podUIDLabelCache,
             podUIDORCache>>
cdVars == <<svcVars, podVars, matchedSince, specSelector>>

CDTypeOK ==
    /\ svcUIDNamespaceCache \in [Svcs -> Namespaces \cup {NoNamespace}]
    /\ svcUIDNameCache \in [Svcs -> Names \cup {0}]
    /\ svcUIDSelectorCache \in [Svcs -> LabelSets \cup {Nil}]
    /\ svcUIDPodsCache \in [Svcs -> (SUBSET Pods) \cup {Nil}]
    /\ namespacePodUIDCache \in [Namespaces -> (SUBSET Pods) \cup {Nil}]
    /\ podUIDNamespaceCache \in [Pods -> Namespaces \cup {NoNamespace}]
    /\ podUIDLabelCache \in [Pods -> LabelSets \cup {Nil}]
    /\ podUIDORCache \in [Pods -> ORLists \cup {Nil}]
    /\ matchedSince \in [Svcs -> SUBSET Pods]

\* NewServiceCache: its four maps empty.
NewServiceCache ==
    /\ svcUIDNamespaceCache = [s \in Svcs |-> NoNamespace]
    /\ svcUIDNameCache = [s \in Svcs |-> 0]
    /\ svcUIDSelectorCache = [s \in Svcs |-> Nil]
    /\ svcUIDPodsCache = [s \in Svcs |-> Nil]

\* NewPodCache: its four maps empty.
NewPodCache ==
    /\ namespacePodUIDCache = [n \in Namespaces |-> Nil]
    /\ podUIDNamespaceCache = [p \in Pods |-> NoNamespace]
    /\ podUIDLabelCache = [p \in Pods |-> Nil]
    /\ podUIDORCache = [p \in Pods |-> Nil]

Init ==
    /\ NewServiceCache
    /\ NewPodCache
    /\ matchedSince = [s \in Svcs |-> {}]
    /\ specSelector = [s \in Svcs |-> Nil]

-----------------------------------------------------------------------------
(***************************************************************************)
(* ServiceCache.                                                           *)
(***************************************************************************)

\* IsCached(svc): selector, name and namespace all equal the cached ones.
ServiceIsCached(s, sel) ==
    /\ svcUIDSelectorCache[s] = sel
    /\ svcUIDNameCache[s] = SvcNameOf[s]
    /\ svcUIDNamespaceCache[s] = SvcNs[s]

\* AddService: nothing for an empty selector; otherwise a fresh pod set and
\* the three fields.
AddService(s, sel) ==
    /\ specSelector' = [specSelector EXCEPT ![s] = sel]
    /\ \/ /\ sel = {}
          /\ UNCHANGED <<svcVars, podVars, matchedSince>>
       \/ /\ sel # {}
          /\ svcUIDPodsCache' = [svcUIDPodsCache EXCEPT ![s] = {}]
          /\ svcUIDNamespaceCache' = [svcUIDNamespaceCache EXCEPT ![s] = SvcNs[s]]
          /\ svcUIDSelectorCache' = [svcUIDSelectorCache EXCEPT ![s] = sel]
          /\ svcUIDNameCache' = [svcUIDNameCache EXCEPT ![s] = SvcNameOf[s]]
          /\ UNCHANGED <<podVars, matchedSince>>

\* Delete / DeleteByKey: the four entries of the service are deleted (the
\* pods it returns go to the caller).
ServiceDeleteByKey(s) ==
    /\ svcUIDPodsCache' = [svcUIDPodsCache EXCEPT ![s] = Nil]
    /\ svcUIDNamespaceCache' = [svcUIDNamespaceCache EXCEPT ![s] = NoNamespace]
    /\ svcUIDSelectorCache' = [svcUIDSelectorCache EXCEPT ![s] = Nil]
    /\ svcUIDNameCache' = [svcUIDNameCache EXCEPT ![s] = 0]
    /\ matchedSince' = [matchedSince EXCEPT ![s] = {}]
    /\ specSelector' = [specSelector EXCEPT ![s] = Nil]
    /\ UNCHANGED podVars

-----------------------------------------------------------------------------
(***************************************************************************)
(* PodCache.                                                               *)
(***************************************************************************)

\* Owner references as the code reads them: an absent entry is a nil slice.
CachedOR(p) == IF podUIDORCache[p] = Nil THEN NoOwners ELSE podUIDORCache[p]

\* Mutant: owner references are not compared.
PodIsCachedNoOR(p, lbl, refs) ==
    /\ podUIDLabelCache[p] = lbl
    /\ podUIDNamespaceCache[p] = PodNs[p]

\* IsCached(pod): labels, namespace and owner references all equal.
PodIsCached(p, lbl, refs) ==
    /\ podUIDLabelCache[p] = lbl
    /\ podUIDNamespaceCache[p] = PodNs[p]
    /\ CachedOR(p) = refs

\* AddPod: create the namespace's set if missing, add the pod to it, and
\* store the three fields.
AddPod(p, lbl, refs) ==
    /\ namespacePodUIDCache' =
           [namespacePodUIDCache EXCEPT ![PodNs[p]] = (IF @ = Nil THEN {} ELSE @) \cup {p}]
    /\ podUIDNamespaceCache' = [podUIDNamespaceCache EXCEPT ![p] = PodNs[p]]
    /\ podUIDLabelCache' = [podUIDLabelCache EXCEPT ![p] = lbl]
    /\ podUIDORCache' = [podUIDORCache EXCEPT ![p] = refs]
    /\ UNCHANGED <<svcVars, matchedSince, specSelector>>

\* Remove p from the set of namespace ns; a delete on a missing (nil) set,
\* or on the set of "", does nothing.
Unlisted(ns, p) ==
    IF ns \in Namespaces /\ namespacePodUIDCache[ns] # Nil
    THEN [namespacePodUIDCache EXCEPT ![ns] = @ \ {p}]
    ELSE namespacePodUIDCache

\* Mutant: the namespace is read after its entry was deleted.
PodDeleteByKeyLateNamespace(p) ==
    /\ podUIDNamespaceCache' = [podUIDNamespaceCache EXCEPT ![p] = NoNamespace]
    /\ namespacePodUIDCache' = Unlisted(podUIDNamespaceCache'[p], p)
    /\ podUIDLabelCache' = [podUIDLabelCache EXCEPT ![p] = Nil]
    /\ UNCHANGED <<podUIDORCache, svcVars, matchedSince, specSelector>>

\* DeleteByKey: the pod leaves its namespace's set, and its namespace and
\* labels are deleted.  Its owner references are left in place.
PodDeleteByKey(p) ==
    /\ namespacePodUIDCache' = Unlisted(podUIDNamespaceCache[p], p)
    /\ podUIDNamespaceCache' = [podUIDNamespaceCache EXCEPT ![p] = NoNamespace]
    /\ podUIDLabelCache' = [podUIDLabelCache EXCEPT ![p] = Nil]
    /\ UNCHANGED <<podUIDORCache, svcVars, matchedSince, specSelector>>

(***************************************************************************)
(* GetMatchingServices(podUID, sc): if the pod is cached, every cached     *)
(* service of its namespace whose selector matches its labels records the  *)
(* pod in its pod set (the names go to the caller).                        *)
(***************************************************************************)
MatchingServices(p) ==
    {s \in Svcs : /\ svcUIDSelectorCache[s] # Nil
                  /\ svcUIDSelectorCache[s] \subseteq podUIDLabelCache[p]
                  /\ svcUIDNamespaceCache[s] = podUIDNamespaceCache[p]}

\* Mutant: the pod set is written under the service's UID
\* (sc.svcUIDPodsCache[svcUID][svcUID]).
GetMatchingServicesSwapped(p) ==
    /\ podUIDLabelCache[p] # Nil
    /\ svcUIDPodsCache' = [s \in Svcs |->
                             IF s \in MatchingServices(p)
                             THEN svcUIDPodsCache[s] \cup {s}
                             ELSE svcUIDPodsCache[s]]
    /\ matchedSince' = [s \in Svcs |->
                          IF s \in MatchingServices(p)
                          THEN matchedSince[s] \cup {p} ELSE matchedSince[s]]
    /\ UNCHANGED <<svcUIDNamespaceCache, svcUIDNameCache, svcUIDSelectorCache,
                   podVars, specSelector>>

GetMatchingServices(p) ==
    /\ podUIDLabelCache[p] # Nil
    /\ svcUIDPodsCache' = [s \in Svcs |->
                             IF s \in MatchingServices(p)
                             THEN svcUIDPodsCache[s] \cup {p}
                             ELSE svcUIDPodsCache[s]]
    /\ matchedSince' = [s \in Svcs |->
                          IF s \in MatchingServices(p)
                          THEN matchedSince[s] \cup {p} ELSE matchedSince[s]]
    /\ UNCHANGED <<svcUIDNamespaceCache, svcUIDNameCache, svcUIDSelectorCache,
                   podVars, specSelector>>

Next ==
    \/ \E s \in Svcs, sel \in LabelSets : AddService(s, sel)
    \/ \E s \in Svcs : ServiceDeleteByKey(s)
    \/ \E p \in Pods, lbl \in LabelSets, refs \in ORLists : AddPod(p, lbl, refs)
    \/ \E p \in Pods : PodDeleteByKey(p)
    \/ \E p \in Pods : GetMatchingServices(p)

Spec == Init /\ [][Next]_cdVars

-----------------------------------------------------------------------------
(***************************************************************************)
(* Properties.                                                             *)
(***************************************************************************)

(* The namespace index is exact: a pod is in the set of namespace ns iff   *)
(* its cached namespace is ns.  PodCache.DeleteByKey can only find the set *)
(* to clean through the cached namespace, so reading it after deleting it, *)
(* or a pod moving sets, would leave a deleted pod listed by               *)
(* GetPodsInNamespace.                                                     *)
NamespaceIndexExact ==
    \A ns \in Namespaces, p \in Pods :
        (namespacePodUIDCache[ns] # Nil /\ p \in namespacePodUIDCache[ns])
            <=> podUIDNamespaceCache[p] = ns

(* Update idempotence for pods (spec testable property 4): when            *)
(* PodCache.IsCached reports a pod unchanged, recording it again with      *)
(* AddPod changes nothing, so the skip it licenses loses no update.        *)
PodUpsertIdempotent ==
    [][\A p \in Pods, lbl \in LabelSets, refs \in ORLists :
          PodIsCached(p, lbl, refs) /\ AddPod(p, lbl, refs) => UNCHANGED podVars]_cdVars

(* ServiceCache.DeleteByKey "returns pods that were previously matched by  *)
(* this service so their properties may be updated": every pod            *)
(* GetMatchingServices matched to a cached service since it was added is   *)
(* in the service's pod set.                                               *)
MatchedPodsReturned ==
    \A s \in Svcs : svcUIDSelectorCache[s] # Nil => matchedSince[s] \subseteq svcUIDPodsCache[s]

(* "empty selectors match nothing" (the comment at part_001:46; spec 3):  *)
(* GetMatchingServices never matches a pod to a service whose latest       *)
(* AddService carried an empty selector.                                   *)
EmptySelectorMatchesNothing ==
    \A s \in Svcs, p \in Pods :
        specSelector[s] = {} /\ podUIDLabelCache[p] # Nil => s \notin MatchingServices(p)

(* PodCache.DeleteByKey "removes a pod from the cache": no owner           *)
(* references are kept for a pod that is not cached.                       *)
OwnerRefsOnlyForCached ==
    \A p \in Pods : podUIDORCache[p] # Nil => podUIDNamespaceCache[p] # NoNamespace

=============================================================================
