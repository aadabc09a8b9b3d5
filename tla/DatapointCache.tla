---------------------------- MODULE DatapointCache ----------------------------
(***************************************************************************)
(* The datapoint/property cache of the kubernetes-cluster monitor          *)
(* (metrics.DatapointCache, src/internal/monitors/kubernetes/cluster/      *)
(* metrics/cache.go), composed with the join index it owns.                *)
(*                                                                         *)
(* Every exported method of the cache runs under one mutex (HandleAdd and  *)
(* HandleDelete are called with it held), so each is one atomic step that *)
(* includes the calls it makes into the PodServiceCache.                   *)
(*                                                                         *)
(* Datapoints of a resource are abstracted to the version of the resource  *)
(* they were computed from.  A dimension-property record is abstracted to  *)
(* what it was derived from (the labels of a pod, the version of another   *)
(* resource) and the value of its "service" property (NoService when the   *)
(* key is absent).  The property links of addDimPropsToCache are an empty  *)
(* list in the code, so storing a record is a plain map write here.        *)
(***************************************************************************)
EXTENDS PodServiceCache

CONSTANTS
    Others,    \* UIDs of resources that are neither pods nor services
    KindOf,    \* KindOf[o]: the kind of resource o
    PropKinds, \* the kinds whose handler produces a dimension-property record
    Versions,  \* contents of a resource that its datapoints are computed from
    NoKind     \* "", the kind an absent uidKindCache entry reads as

\* Kinds handled by HandleAdd other than Pod and Service.
OtherKinds == {"Namespace", "ReplicationController", "DaemonSet",
               "Deployment", "ReplicaSet", "ResourceQuota", "Node"}

UIDs == Pods \cup Svcs \cup Others

ASSUME DatapointCacheAssumption ==
    /\ Others \cap (Pods \cup Svcs) = {}
    /\ KindOf \in [Others -> OtherKinds]
    /\ PropKinds = {"Deployment", "ReplicaSet", "Node"}
    /\ Nil \notin Versions
    \* a nil *atypes.DimProperties is no dimension-property record
    /\ Nil \notin [src : LabelSets \cup Versions, service : Names \cup {0, NoService}]
    /\ NoKind \notin OtherKinds \cup {"Pod", "Service"}

VARIABLES
    dpCache,      \* UID -> datapoints (Nil: no entry)
    dimPropCache, \* UID -> dimension-property record (Nil: no entry)
    uidKindCache, \* UID -> kind (NoKind: no entry)
    specSelector  \* history: the selector of each service's latest Add event

cacheVars == <<dpCache, dimPropCache, uidKindCache>>
vars == <<pscVars, cacheVars, specSelector>>

DimProps == [src : LabelSets \cup Versions, service : Names \cup {0, NoService}]

DCTypeOK ==
    /\ TypeOK
    /\ dpCache \in [UIDs -> Versions \cup {Nil}]
    /\ dimPropCache \in [UIDs -> DimProps \cup {Nil}]
    /\ uidKindCache \in [UIDs -> OtherKinds \cup {"Pod", "Service", NoKind}]
    /\ specSelector \in [Svcs -> LabelSets \cup {Nil}]

\* NewDatapointCache: empty maps and a new PodServiceCache.
DCInit ==
    /\ Init
    /\ dpCache = [u \in UIDs |-> Nil]
    /\ dimPropCache = [u \in UIDs |-> Nil]
    /\ uidKindCache = [u \in UIDs |-> NoKind]
    /\ specSelector = [s \in Svcs |-> Nil]

\* The "service" property each pod would get from the index as it is now.
ServiceNameOfPods == [p \in Pods |-> GetServiceNameForPodUID(p)]

(***************************************************************************)
(* updateServicePropForPods(podUIDs): set (or delete) the "service"        *)
(* property of each listed pod from the index.  Applied to the cache as it *)
(* is, with the names the index gives after the caller's update.           *)
(***************************************************************************)
updateServicePropForPods(props, podUIDs, names) ==
    [u \in UIDs |-> IF u \in podUIDs
                    THEN [props[u] EXCEPT !.service = names[u]]
                    ELSE props[u]]

(***************************************************************************)
(* The tail of HandleAdd: store the datapoints if there are any, the kind, *)
(* and the record if there is one (addDimPropsToCache), on top of the      *)
(* property map `props` the kind handler left.                             *)
(***************************************************************************)
addDimPropsToCache(props, key, dimProps) == [props EXCEPT ![key] = dimProps]

\* Mutant: the record is stored in the datapoint map.
StoreAddSwapped(key, dps, kind, dimProps, props) ==
    /\ dpCache' = IF dps = Nil THEN dpCache ELSE [dpCache EXCEPT ![key] = dimProps]
    /\ uidKindCache' = [uidKindCache EXCEPT ![key] = kind]
    /\ dimPropCache' = IF dimProps = Nil THEN props
                       ELSE addDimPropsToCache(props, key, dimProps)

StoreAdd(key, dps, kind, dimProps, props) ==
    /\ dpCache' = IF dps = Nil THEN dpCache ELSE [dpCache EXCEPT ![key] = dps]
    /\ uidKindCache' = [uidKindCache EXCEPT ![key] = kind]
    /\ dimPropCache' = IF dimProps = Nil THEN props
                       ELSE addDimPropsToCache(props, key, dimProps)

(***************************************************************************)
(* HandleAdd of a v1.Pod via handleAddPod: datapoints and a record from the   *)
(* pod, SetPod, then the first service name the index now gives goes into  *)
(* the record's "service" property.                                        *)
(***************************************************************************)
dimPropsForPod(lbl) == [src |-> lbl, service |-> NoService]

handleAddPod(p, lbl) ==
    [dimPropsForPod(lbl) EXCEPT !.service = GetServiceNameForPodUID(p)]

HandleAddPod(p, lbl, v) ==
    /\ SetPod(p, lbl)
    /\ StoreAdd(p, v, "Pod", handleAddPod(p, lbl)', dimPropCache)
    /\ UNCHANGED specSelector

(***************************************************************************)
(* HandleAdd of a v1.Service via handleAddService: SetService, then refresh   *)
(* the "service" property of every pod the index joins to the service.     *)
(* No datapoints and no record of its own.                                 *)
(***************************************************************************)
HandleAddService(s, sel) ==
    /\ SetService(s, sel)
    /\ StoreAdd(s, Nil, "Service", Nil,
                updateServicePropForPods(dimPropCache,
                                         GetPodUIDsForServiceUID(s)',
                                         ServiceNameOfPods'))
    /\ specSelector' = [specSelector EXCEPT ![s] = sel]

(***************************************************************************)
(* HandleAdd of any other kind: datapoints, and a record for the kinds     *)
(* that have one; no join involvement.                                     *)
(***************************************************************************)
dimPropsForOther(o, v) ==
    IF KindOf[o] \in PropKinds THEN [src |-> v, service |-> NoService] ELSE Nil

HandleAddOther(o, v) ==
    /\ UNCHANGED <<pscVars, specSelector>>
    /\ StoreAdd(o, v, KindOf[o], dimPropsForOther(o, v), dimPropCache)

(***************************************************************************)
(* HandleDelete / DeleteByKey(u): dispatch on the cached kind (a pod leaves *)
(* the index; a service leaves it and the pods it was joined to get their  *)
(* "service" property re-resolved), then purge the three maps.             *)
(***************************************************************************)
Purge(u, props) ==
    /\ uidKindCache' = [uidKindCache EXCEPT ![u] = NoKind]
    /\ dpCache' = [dpCache EXCEPT ![u] = Nil]
    /\ dimPropCache' = [props EXCEPT ![u] = Nil]

\* Mutant: the joined pods are looked up after the service left the index.
handleDeleteServiceLateLookup(u) ==
    /\ DeleteServiceFromCache(u)
    /\ Purge(u, updateServicePropForPods(dimPropCache,
                                         GetPodUIDsForServiceUID(u)',
                                         ServiceNameOfPods'))

handleDeleteService(u) ==
    LET podUIDs == GetPodUIDsForServiceUID(u) IN
    /\ DeleteServiceFromCache(u)
    /\ Purge(u, updateServicePropForPods(dimPropCache, podUIDs, ServiceNameOfPods'))

\* Mutant: the dispatch has no case for pods.
DeleteByKeyNoPodCase(u) ==
    /\ \/ uidKindCache[u] = "Service" /\ handleDeleteService(u)
       \/ /\ uidKindCache[u] # "Service"
          /\ UNCHANGED pscVars
          /\ Purge(u, dimPropCache)
    /\ specSelector' = [s \in Svcs |-> IF s = u THEN Nil ELSE specSelector[s]]

DeleteByKey(u) ==
    /\ \/ uidKindCache[u] = "Pod" /\ DeletePodFromCache(u) /\ Purge(u, dimPropCache)
       \/ uidKindCache[u] = "Service" /\ handleDeleteService(u)
       \/ /\ uidKindCache[u] \notin {"Pod", "Service"}
          /\ UNCHANGED pscVars
          /\ Purge(u, dimPropCache)
    /\ specSelector' = [s \in Svcs |-> IF s = u THEN Nil ELSE specSelector[s]]

DCNext ==
    \/ \E p \in Pods, lbl \in LabelSets, v \in Versions : HandleAddPod(p, lbl, v)
    \/ \E s \in Svcs, sel \in LabelSets : HandleAddService(s, sel)
    \/ \E o \in Others, v \in Versions : HandleAddOther(o, v)
    \/ \E u \in UIDs : DeleteByKey(u)

DCSpec == DCInit /\ [][DCNext]_vars

-----------------------------------------------------------------------------
(***************************************************************************)
(* Properties.                                                             *)
(***************************************************************************)

(* The "service" property of every cached pod record is the alphabetically *)
(* first name of the services the index joins it to, and absent when there *)
(* is none, after any interleaving of pod and service adds and deletes:    *)
(* handleAddService and handleDeleteService only touch the pods the index  *)
(* lists for that service.                                                 *)
ServicePropConsistent ==
    \A p \in Pods :
        dimPropCache[p] # Nil => dimPropCache[p].service = GetServiceNameForPodUID(p)

(* Every pod the index holds, or joins to a service, has a record in       *)
(* dimPropCache and the kind "Pod": updateServicePropForPods never         *)
(* dereferences a nil record and DeleteByKey always finds the pod's kind.  *)
IndexedPodsHaveRecords ==
    \A p \in Pods :
        (p \in CachedPods \/ \E s \in Svcs : p \in svcPodUIDCache[s])
            => dimPropCache[p] # Nil /\ uidKindCache[p] = "Pod"

(* A service whose latest Add event carries an empty selector is joined to *)
(* no pod (spec 3 "an empty selector matches nothing", testable property   *)
(* 2).                                                                     *)
EmptySelectorNeverJoined ==
    \A s \in Svcs : specSelector[s] = {} => svcPodUIDCache[s] = {}

=============================================================================
