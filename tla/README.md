# TLA+ models of the kubernetes-cluster metadata cache

This directory holds the formal models of the incremental resource-metadata
cache of the kubernetes-cluster monitor. It contains:

- TLA+ modules,
- the TLC configurations that model-check them on small instances,
- TLAPS proofs that hold for every instance.

`PROJECT.json` lists each module's definitions next to the source lines they
translate, the runs, the mutants that show each property can fail, the
findings, and the hazards of the code.

## The system

The monitor receives a stream of add/update/delete events for cluster
resources. It keeps, per resource, derived datapoints and a
dimension-property record. Its parts:

| Part | Source | Role |
|------|--------|------|
| Selector join index (`PodServiceCache`) | `src/unnamed/part_001` 176-414 | Two maps that form one relation: pod UID -> set of service UIDs, and service UID -> set of pod UIDs. Around them are caches of each pod's labels and namespace, and of each service's selector, namespace and name. `SetService`, `SetPod`, `DeleteServiceFromCache` and `DeletePodFromCache` maintain it. `GetServiceNameForPodUID` resolves a pod's single "service" property as the alphabetically first joined service name. |
| Unified cache (`DatapointCache`) | `cache.go` | The monitor calls `HandleAdd`/`HandleDelete` with one resource at a time, holding the cache's mutex. The cache dispatches on the kind, stores datapoints, the kind and the property record under the UID, and drives the join index for pods and services. After every join change it rewrites the "service" property of the affected pod records (`updateServicePropForPods`). Readers take snapshots (`AllDatapoints`, `AllDimProperties`) under the same mutex. |
| Property link engine | `cache.go` 157-208 | A declarative copy of properties between linked kinds. The link list in the code is empty (the one link is commented out), so `DatapointCache` stores a record with a plain write. `PropertyLink` models the engine with the link list as a constant. |
| Change-detection caches (`ServiceCache`, `PodCache`) | `part_001` 1-175 | Remember the last seen selector/name/namespace of a service, and the labels/namespace/owner references of a pod, to report "unchanged". |
| `DimProperties.Copy` | `part_000` 1-42 | A deep copy of a property record, used by `AllDimProperties`. |
| Config validation | `validator.go` | Up-front checks of a monitor configuration (`validateConfig`) and a duplicate test (`isConfigUnique`). Out of the core's scope (spec 1); the functions have no state. |

How they interact: the informer goroutine calls `HandleAdd`/`HandleDelete` of
`DatapointCache`, which calls into `PodServiceCache`. Every exported method of
`DatapointCache` holds its mutex, and the join index is only reached through
it. So each handler is one atomic step of the model, and it includes every
index call it makes.

## Modules

### `K8sResources.tla` (shared data)

The constants both index modules read: pod and service UIDs, label keys and
values, namespaces, each UID's namespace and (for services) name, `Nil`, and
`NoNamespace` (the `""` an absent namespace entry reads as; the MC modules set
it to `""`). `ResourceAssumption` states what the proofs need of them.

### `PodServiceCache.tla` (join index)

**State.** The seven Go maps of the struct (lines 190-197), with the same names.

Each Go map is a total function. An absent entry reads as the Go zero value:

- `""` for a namespace;
- `0` for a name (the empty string, which sorts first);
- `Nil` for a selector or a label set;
- `{}` for a missing UID set.

The code treats a missing UID set and an empty one alike.

Labels and selectors are sets of `<<key, value>>` pairs with one value per key
(`LabelSets`). A selector matches a label set when it is a subset of it
(`Selects`, which also compares the namespaces as lines 298-299 and 324-325
do). A UID's namespace and name are constants (`PodNs`, `SvcNs`, `SvcNameOf`),
because Kubernetes never changes them. Service names are positive naturals
ranked alphabetically.

**Actions.** There is one per exported mutator:

- `SetService(s, sel)` models lines 222-242. It has two paths:
  - It is a no-op when the selector is empty (line 224), or when the selector, name and namespace are unchanged (228-236).
  - Otherwise it stores all three and runs `refreshCacheByService` (294-314). The refresh adds a join to every cached pod of the service's namespace that the new selector selects. It never removes one.
- `SetPod(p, lbl)` models lines 261-275 and `refreshCacheByPod` (320-340), symmetrically.
- `DeleteServiceFromCache` models 246-256 and `DeletePodFromCache` models 279-288. Each drops its entries and cleans the other side through its own set.

**Lookups.** `GetPodUIDsForServiceUID`, `getServiceNamesForPodUID` and `GetServiceNameForPodUID`.

**Refinement.** `JoinPairs` reads the pod-side map as one relation. `JR` instantiates `JoinRelation` with it and with the four cached entries, and `ImplementsJoinRelation == JR!JRSpec`.

### `JoinRelation.tla` (abstract join)

This module is what spec.md calls the Join Index: "two maps forming one bidirectional relation". It has the cached labels, namespaces and selectors, and one variable `members`, a set of `<<pod, service>>` pairs.

- `UpsertService` and `UpsertPod` add the pairs that now match.
- `RemoveService` and `RemovePod` drop every pair of the UID.
- An empty selector is a no-op.

Upserts add pairs and never clear them. This matches the code rather than the spec's clear-then-rematch, which is finding 1. What the abstraction pins down is the other half of the spec's claim: the two maps really are one relation.

The refinement is not a renaming. `DeleteServiceFromCache` unjoins only the pods it finds in `svcPodUIDCache[s]`, while the mapping reads `podSvcUIDCache`. So the service-delete step is a `RemoveService` only because `JoinSymmetric` holds.

### `DatapointCache.tla` (unified cache)

It EXTENDS `PodServiceCache` and adds these variables:

- `dpCache`: the datapoints of a UID, abstracted to the resource version they come from.
- `dimPropCache`: a record `[src, service]`. `src` is what the record was derived from (the pod's labels or the resource's version). `service` is the value of its "service" property, or `NoService` when the key is absent.
- `uidKindCache`: the kind stored for a UID. `NoKind` stands for the `""` an absent entry reads as.
- A history variable `specSelector`: each service's latest selector. It is used only by the spec-level property `EmptySelectorNeverJoined`.

**Actions.**

- `HandleAddPod` is `HandleAdd` with a pod (`handleAddPod`, lines 273-283):
  1. `SetPod`;
  2. the pod's record gets the service name the index gives after `SetPod`;
  3. the store tail (`StoreAdd`, lines 144-152).
- `HandleAddService` is `handleAddService` (292-296):
  1. `SetService`;
  2. the pods the index now lists get their property rewritten from the index after the update (`updateServicePropForPods`, 310-325);
  3. the kind is stored.
- `HandleAddOther` covers the other seven kinds, some with a property record (lines 101-124).
- `DeleteByKey` (60-73) dispatches on the cached kind:
  - for a pod, `DeletePodFromCache`;
  - for a service, `handleDeleteService` (301-306), which reads the service's pods before `DeleteServiceFromCache` and then re-resolves them;
  - then it purges the three maps.

The index state after an update is read in the same step through primed
operators (`ServiceNameOfPods'`). This is exactly the order in which the Go
code reads it.

### `ChangeDetection.tla` (`ServiceCache`, `PodCache`)

**State.** The eight maps of the two structs (part_001 lines 13-18 and 90-95),
with the same names, and two history variables: `matchedSince`, the pods
`GetMatchingServices` matched to each service since it was last deleted, and
`specSelector`, the selector of each service's latest `AddService` (`Nil`
after a delete), which `AddService` records even when it returns early.
Absent entries read as in the code: `NoNamespace`, name `0`, `Nil` selector,
label set or pod set (a nil map), `NoOwners` for owner references (a nil
slice, `CachedOR`).

**Actions.** `AddService` (44-54: nothing on an empty selector, otherwise a
fresh empty pod set and the three fields), `ServiceDeleteByKey` (64-74),
`AddPod` (121-129, creating the namespace's set when missing),
`PodDeleteByKey` (132-137: it reads the cached namespace first, and leaves
the owner references), and `GetMatchingServices` (162-175), which records the
pod in the pod set of every cached service of its namespace whose selector
matches. `ServiceIsCached` and `PodIsCached` are the two `IsCached`
predicates. Nothing in the excerpt calls these caches, so each call is a step
of its own.

### `Snapshot.tla` (readers and their consumer)

Go maps are references, so this module keeps a heap of map identities:

- `dpDims[k]` is the `Dimensions` map of the cached datapoint of `k`;
- `recMaps[k]` holds the `Properties` and `Tags` maps of its record;
- `held` is what the consumer of a snapshot can reach, and what it last saw;
- `wrote` is a history variable: what the cache last stored in each map.

A map's content is abstracted to one value. `HandleAdd` builds a new
datapoint and record with maps of their own (cache.go 144-152).
`UpdateServiceProp` writes into a record's `Properties` map in place
(319-323). `DeleteByKey` drops the entries (70-72). `AllDatapoints` hands out
struct copies that share the cached `Dimensions` maps (232-251).
`AllDimProperties` hands out `Copy`s: new `Properties` and `Tags` maps
(253-268, part_000 21-42). The consumer writes into what it holds outside
the lock, or drops it. A garbage collector (`Collect`) clears maps nobody
reaches, which keeps the heap of six identities enough.

### `PropertyLink.tla` (link engine)

`addDimPropsToCache` (cache.go 166-208) loops over a link list before it
stores a record. Each link names a source kind, a target kind, a join-key
property on each side and a property to copy. The list is a literal that is
empty in the build: its one ReplicaSet -> Pod link is commented out. The spec
(4.4) asks for the engine all the same, so the model takes the list as the
constant `Links`. The one instance configures the commented-out link. State:

- `dimPropCache` holds the record of each UID, restricted to the properties the links name;
- `uidKindCache` holds the kind of each UID.

A missing property reads as `""` (`Read`), and `""` never matches
(`JoinMatch`). `HandleAdd` sets the kind first (line 147) and then runs the
loop (`ApplyLinks`, a fold over the list). In each link:

- `Pull` copies into the new record the property of a matching cached source. The scan visits `dimPropCache` in Go's random order, and the last match wins, so with several matches the model chooses any of them.
- `Push` writes the new record's property into every matching cached target, in place.

Then `HandleAdd` stores the record. `DeleteByKey` removes the UID's own entries
and nothing else. The service property and the datapoints are left to
`DatapointCache`, since no link reads or writes them.

The assumption `PropertyLinkAssumption` asks two things of every link, and the
commented-out link meets both:

- it joins two different kinds, so only one of the two branches runs for a record;
- its target property is not its target join key, so the pull's comparisons do not change during the scan.

### `ConfigValidation.tla` (monitor configuration)

A configuration is a record of the fields the checks read. Three verdicts come
from code outside this repository, so they are inputs:

- the `validator.v9` tag check (`structOK`);
- a module's own `Validate` (`custom`: not implemented, ok, or an error);
- `services.ValidateDiscoveryRule` (the constant `ValidRules`).

`validateConfig` (validator.go 66-99) is a sequence of seven checks, `Fails`,
and returns the error of the first one that fails (`Errors`, in source
order), or nil. `configAcceptsEndpoints` returns false when the struct has no
`MonitorConfig` field, and otherwise compares its tag with `"true"`.
`isConfigUnique` loops over the other configurations and returns true at the
first whose core `Equals` the configuration's.

The state holds the configuration, the list it is compared with, and what
the two calls returned. Each call is one step, and the run ends when both
have returned. Not modelled:
`Error.Error`, which only formats messages, and
`validateConfigWithDiscoveryRule`, whose body is empty in the source.

No run checks this module. The spec puts configuration validation out of
scope, and the code's comments promise only a "valid" configuration, which
the seven checks themselves define. A statement of validity would restate
`Fails`, so checking it, or proving it, would show nothing about the code.

### `MC*.tla` and `*.cfg`

These define the instances:

- Pods, services and other resources are model values.
- Label keys `{k1, k2}` with one value, so a selector can select a strict part of a label set, match, and stop matching after an update.
- Namespaces `{"a", "b"}`.
- Service names are chosen so that the service with the smaller UID has the larger name. The alphabetical tie-break then differs from any UID order.

### `PodServiceCacheProofs.tla`, `ChangeDetectionProofs.tla`, `DatapointCacheProofs.tla`, `SnapshotProofs.tla`, `PropertyLinkProofs.tla`

These modules hold the TLAPS proofs described below.

## Runs

| Run | What it checks | What it shows |
|-----|----------------|---------------|
| `psc_join` (pass) | `TypeOK`, `JoinSymmetric`, `JoinCached`, `JoinComplete` and the refinement property `ImplementsJoinRelation` on 2 pods in "a" and 3 services (2 in "a", 1 in "b"): 6,252 states | Every sequence of the four mutators keeps the two maps mirrored (spec testable property 1). Only cached UIDs stay joined, so a deleted service's empty name never wins the tie-break. Every cached pod is joined to every cached same-namespace service that selects it, whichever was stored last. Every step of the index is an upsert or a delete of the abstract relation, or leaves it unchanged. |
| `psc_stale_join` (violation) | `JoinSound`: a pod is joined only to services whose current selector selects its current labels | Violated in 3 steps: add a service with selector `{k1}`, add a matching pod, change the selector to one that no longer matches. The join survives (finding 1). |
| `dc_core` (pass) | `DCTypeOK`, `ServicePropConsistent`, `IndexedPodsHaveRecords` on 2 pods, 2 services and a node: 67,872 states | Every pod record's "service" property equals what the index resolves now, after any interleaving of pod, service and node adds, updates and deletes. No pod reachable through the index lacks a record, so the nil dereference at `cache.go:320/322` cannot happen. |
| `dc_empty_selector` (violation) | `EmptySelectorNeverJoined` | A service re-added with an empty selector keeps its old pods (finding 2). |
| `snap_isolation` (pass) | `SnapTypeOK`, `SnapshotStable`, `RecordIsolation` on one UID, six map identities, two contents: 8,209 states | Whatever the writers do after a snapshot was taken, the maps the consumer holds keep what it saw or wrote; and whatever the consumer writes, a cached record's maps keep what the cache stored (spec property 6). |
| `snap_dims_shared` (violation) | `DatapointIsolation` | In 3 steps (`HandleAdd`, `AllDatapoints`, a consumer write) the cached datapoint's `Dimensions` map changes: the copy in `AllDatapoints` is shallow (finding 3). |
| `cd_core` (pass) | `CDTypeOK`, `NamespaceIndexExact`, `PodUpsertIdempotent` on a pod and a service in each of two namespaces: 10,816 states | The namespace index lists exactly the pods cached in each namespace, after any sequence of calls; and an `AddPod` of a pod `IsCached` calls unchanged is a no-op (spec property 4 for pods). |
| `cd_matched_forgotten` (violation) | `MatchedPodsReturned` | Add a service, add a matching pod, `GetMatchingServices`, re-add the service: its pod set is empty again, so `DeleteByKey` will not return the pod (finding 4). |
| `cd_or_leak` (violation) | `OwnerRefsOnlyForCached` | Add a pod and delete it: its owner references stay (finding 5). |
| `cd_empty_selector` (violation) | `EmptySelectorMatchesNothing` | Add a service with a selector, update it to an empty one, add a matching pod: `GetMatchingServices` still matches the pod to the service (finding 6). |
| `link_consistent` (pass) | `LinkTypeOK`, `LinkConsistent` on two ReplicaSets with distinct names and two pods, under the ReplicaSet -> Pod link: 490 states | Whether a pod is stored before or after its ReplicaSet, and through any updates and deletes, a cached pod whose `replicaSet` property names a cached ReplicaSet holds that ReplicaSet's deployment. The pull covers one order and the push the other. |


**Bounds.** Two pods and two or three services are enough:

- every pairing of "joined/not joined" occurs;
- a pod can be joined to two services, so the tie-break matters;
- a namespace mismatch occurs;
- every operation can follow every other.

For the change-detection caches, one pod and one service in each of two
namespaces let a match, a namespace mismatch and a stale entry occur, and one
owner list besides the nil one lets `IsCached` see owner references change.
For `Snapshot`, one UID and six map identities are enough for a datapoint map,
two record maps and two copies to be live at once; two contents let a write
be told apart from what was stored. For the link engine, two ReplicaSets and
two pods let a pod be added before or after its ReplicaSet, match one
ReplicaSet or none, and move from one to the other. Two deployments let an
update of a ReplicaSet change what its pods must hold.

One label value keeps the label sets at 4 per pod. With two values the first
run takes over a minute and adds no new control path.

**Mutants.** Each property of a passing run is broken by a plausible bug in the
code it is about:

- a pod delete that does not clean the services' sets;
- one that cleans nothing;
- a refresh that compares against the service's old cached namespace (this breaks `JoinComplete`, and the refinement too);
- a service delete that looks up its pods after removing the service;
- a `DeleteByKey` without its pod case;
- a `HandleAdd` that rewrites the cached `Dimensions` map in place;
- a `Copy` that hands out the record's own `Tags` map;
- a `PodCache.DeleteByKey` that reads the namespace after deleting it;
- an `IsCached` that does not compare owner references;
- a link push that compares the target's join key with the wrong property of the new record;
- an interval check written `< 0`, which lets 0 through;
- and, for each type invariant, a write under the wrong key or into the wrong map, or a delete that stores an empty record.

**Fairness.** There is no liveness property and no fairness. Every operation is
synchronous under one mutex and completes in its step. Nothing in the code
waits for anything. The only concurrency is the consumer of a snapshot, which
`Snapshot` interleaves freely with the writers.

## Findings

1. **Joins are never cleared on update** (`part_001:308`, `:334`). The spec says both upserts "clear-then-rematch". The code only adds. So a relabelled pod, or a service whose selector changed, keeps a join it no longer satisfies, and the pod keeps the old service as its "service" property until one side is deleted.
2. **An empty selector keeps old joins** (`part_001:224`). `SetService` returns on an empty selector before touching the cached selector or the joins, so a service whose selector is emptied stays joined. The spec says an empty selector matches nothing.
3. **`AllDatapoints` shares dimension maps** (`cache.go:244`). `dp := *dc.dpCache[k][i]` copies the struct, not its `Dimensions` map, so a consumer that adds a dimension changes the cached datapoint. The spec says a caller's mutation of a returned sample must not affect the cache.
4. **`AddService` forgets matched pods** (`part_001:50`). Every `AddService`, updates included, installs a new empty pod set. `DeleteByKey` is documented to return the pods previously matched by the service so their properties can be updated; it misses those matched before the last update.
5. **Owner references leak** (`part_001:136`). `PodCache.DeleteByKey` deletes the namespace and labels of the pod but not its owner references, which stay for the life of the process and are still returned by `GetOwnerReferences`.
6. **An empty selector keeps the old one in `ServiceCache`** (`part_001:47`). `AddService` returns on an empty selector without deleting the cached selector. After an update to an empty selector, `GetMatchingServices` still matches pods against the old one, although the comment on the line above says empty selectors match nothing. This is finding 2's defect in the other cache.

## Observed without a run

Each of these follows from the modelled code: a TLC trace of two to four
steps exhibits it. But each depends on a reading that the repository does
not settle, so no run states it as the program's contract. The hazards in
PROJECT.json record them.

- **A link copies from whichever match it visits last** (`cache.go:184`). The pull overwrites the target property at every matching source, in Go's random map order. The commented-out link joins on the ReplicaSet's name alone (line 175), which is unique only within a namespace. So a pod can get the deployment of a same-named ReplicaSet in another namespace. The spec says a target copies from "one" matching source and is silent on ties.
- **Linked values outlive their source** (`cache.go:71`). `DeleteByKey` removes only the key's own entries. A deployment copied from a ReplicaSet stays in its pods' records after the ReplicaSet is deleted, until each pod is updated. The spec describes links only on updates.
- **`isConfigUnique` is inverted** (`validator.go:121`). It returns true as soon as another configuration's core `Equals` the given one, and false when none does. That is the opposite of its name, so a caller that trusts the name admits duplicates and rejects unique configurations. The callers are not in this repository.

## Proofs

In `PodServiceCacheProofs.tla`, `ChangeDetectionProofs.tla`,
`DatapointCacheProofs.tla`, `SnapshotProofs.tla` and
`PropertyLinkProofs.tla`, checked by `tlapm`. They assume only
`ResourceAssumption`, plus two module-specific assumptions:

- for the change-detection caches, `ChangeDetectionAssumption`: `Nil` is not a set of pods, and the owner lists are distinct from `Nil` and `NoOwners`;
- for the unified cache, `DatapointCacheAssumption`: the kinds and UIDs are as in the code, `NoKind` is no kind, and `Nil` is no version and no dimension-property record (a nil `*DimProperties` is not a struct).

`ResourceAssumption` says:

- pods and services are disjoint;
- `NoNamespace` is not a namespace;
- `Nil` is not a label set;
- the namespace and name maps are typed.

**`TypeCorrect`: `Spec => []TypeOK`.** There is one lemma per mutator, and a
per-field split for the two refresh paths.

**`JoinInvariant`: `Spec => [](JoinSymmetric /\ JoinCached /\ JoinComplete)`.**
The three properties are not inductive one by one:

- the deletes keep symmetry only because the set they walk is exact, which is symmetry itself;
- `JoinCached` after a delete needs symmetry;
- completeness after a delete needs only that the other UIDs are untouched.

The inductive invariant is `IInv == TypeOK /\ JoinSymmetric /\ JoinCached /\ JoinComplete`.
The proof shows:

- `Init => IInv`;
- one lemma per action shows the action preserves `IInv`. Each lemma first rewrites the action into pointwise equations for the new maps, then proves each conjunct from them;
- the no-op paths (`SetServiceUnchanged`, the empty selector, `SetPodUnchanged`) are stutters.

**`JoinRefinement`: `Spec => ImplementsJoinRelation`.** The proof has three parts:

- the initial state maps to `JRInit`;
- under `IInv`, every step maps to a step of `JRNext` or to a stutter;
- the last step combines the two with `InitIInv` and `NextIInv` by PTL.

There is one lemma per mutator. The no-op paths of `SetService` and `SetPod` map to stutters. A changing upsert maps to the abstract upsert: its refreshed set, rewritten through `Selects`, is the abstract matching set. The service delete needs `JoinSymmetric`, as explained above.

**`NamespaceIndexInvariant`: `Spec => [](CDTypeOK /\ NamespaceIndexExact)`.**
`NamespaceIndexExact` is not inductive: `AddPod` would leave the pod in its old
namespace's set if its cached namespace could differ from its own, and
`GetMatchingServices` would write into a nil pod set. The inductive invariant
adds three facts, each checked by TLC first:

- `SelectorHasPodSet`: a service with a cached selector has a pod set (this is why line 169 never panics);
- `CachedNsIsOwn`: a pod's cached namespace is `NoNamespace` or its own;
- `CachedPodHasOR`: a cached pod has an owner-reference entry.

There is one lemma per action, with one step per conjunct.

**`PodUpsertIdempotence`: `Spec => PodUpsertIdempotent`.** From the same
invariant: a pod `IsCached` calls unchanged is in its namespace's set
(`NamespaceIndexExact`) and has a stored owner list equal to the given one
(`CachedPodHasOR`), so `AddPod` rewrites every entry with its value.

**`ServicePropInvariant`: `DCSpec => [](ServicePropConsistent /\ IndexedPodsHaveRecords)`,
and `DCTypeCorrect`: `DCSpec => []DCTypeOK`.** Neither property is inductive alone:

- `updateServicePropForPods` rewrites the `service` field of a pod's record. This is well typed only if every pod the index joins has a record. That needs `IndexedPodsHaveRecords`, and that in turn needs `JoinSymmetric` and `JoinCached`, because a joined pod is a cached pod.
- `DeleteByKey` dispatches on the stored kind. So `KindsOK` (a `"Pod"` or `"Service"` entry belongs to a UID of that kind) is needed to know which UIDs a branch touches.

The inductive invariant `DCInv` is therefore `DCTypeOK`, the three join properties, `KindsOK`, `IndexedPodsHaveRecords` and `ServicePropConsistent`. TLC checked it on the `dc_core` instance first.

The argument rests on three lemmas about the resolved name:

- `NatMinimum`: a nonempty set of naturals has a least element. It follows from `WFMin` of the well-founded-induction library.
- `ServiceNameType`: the `CHOOSE` in `GetServiceNameForPodUID` returns a name, `0` or `NoService`.
- `ServiceNameFrame`: a pod whose joined services, and their names, are unchanged by a step keeps its resolved name.

Each mutator gets a frame lemma. `SetPod` touches only its pod. `SetService` and `DeleteServiceFromCache` change the joins only of the pods in the service's set; the handler rewrites exactly those pods' records. For all other pods, `ServiceNameFrame` applies.

**`SnapshotIsolation`: `Spec => [](SnapshotStable /\ RecordIsolation)`, and
`SnapTypeCorrect`: `Spec => []SnapTypeOK`** (in `Snapshot.tla`). They rest on
`SnapshotAssumption`: the keys and the heap identities are finite sets, and
`None` is no map and no content. The finiteness is what makes `Alloc`
meaningful: a finite set of slots injects into a finite set of free maps at
least as large (`InjectionExists`, built from the bijections of
`FS_CardinalityType` and `Fun_InjTransitive`), so the `CHOOSE` in `Alloc`
picks distinct free maps whenever `CanAlloc` holds (`AllocFresh`).

Neither property is inductive alone. `UpdateServiceProp` writes into a
cached `Properties` map in place; the consumer writes into what it holds. Both
writes are harmless only if no cached record map is reachable by the
consumer. So the inductive invariant `SIInv` adds `RecordsUnshared`:

- no map of a cached record is held by the consumer;
- no map of a cached record is the `Dimensions` map of a cached datapoint, which `AllDatapoints` hands out.

TLC checked `SIInv` on the `snap_isolation` instance, and on one with two
keys, first. There is one lemma per action:

- `HandleAdd` and `AllDimProperties` allocate fresh maps, which are neither cached nor held;
- `Collect` keeps every map that stays reachable (`CollectKeeps`);
- `AllDatapoints` hands out only `Dimensions` maps, disjoint from the record maps.

`DatapointIsolation` is not proved: the `snap_dims_shared` run shows it fails.

**`LinkConsistency`: `Spec => []LinkConsistent`** is proved under two hypotheses on the
constants, defined in `PropertyLink.tla`. `MCPropertyLink` asserts them for its
instance, so TLC confirms they can hold.

- `OneLink`: the link list has one link, as the code's commented-out configuration does.
- `UniqueSourceKeys`: two different resources of the source kind never carry the same non-empty join key, as ReplicaSet names within one namespace do.

Without the second hypothesis the property is false: a pod whose
`replicaSet` matches two ReplicaSets holds the deployment of whichever the
scan visited last (hazard at `cache.go:184`). `LinkConsistent` alone is not
inductive. The inductive invariant `LIInv` adds two facts:

- `KindsTrack`: a UID has a kind entry exactly when it has a record, so the kind `HandleAdd` writes first agrees with the records the scans read;
- `SourcesFromProps`: a source record is one its handler produced, because a push writes only into targets.

**`LinkTypeCorrect`: `Spec => []LinkTypeOK`** needs `OneLink` only. `LinkTypeOK`
is inductive by itself. `PullPushType` shows that a pull and a push of any link
write records of the property names.

TLC checked `LIInv` on the `link_consistent` instance before it was proved.
The step proof has one lemma per case of `HandleAdd` and one for `DeleteByKey`:

- A source: the push reaches every matching target. Uniqueness means no target is linked to another source with the same key.
- A target: the pull copies from a matching source. Uniqueness means it is the only source the target matches.
- Another kind: it changes no linked pair.
- `DeleteByKey`: it creates no linked pair.

`ApplyOneLink` unfolds the recursive function `after` of `ApplyLinks` for a
one-element list. It does so by exhibiting the function that satisfies the
definition's equation. The general list would need induction over the
sequence, which the provers cannot do here.

**Out of reach of the prover.** These stay with TLC:

- which name the alphabetical tie-break picks, beyond the fact that it is one of the joined names;
- the link engine with more than one link (it needs induction over the link list);
- liveness (there is none here).

## Not modelled (yet)

- **`addPropertiesToDimProps` / `deletePropertiesFromDimProps`.** They are never called in the excerpt.
- **The `keyForObject` error paths.** They apply to objects without metadata.
- **The read-only getters** of `PodCache` (`GetLabels`, `GetOwnerReferences`, `GetPodsInNamespace`): they are read off the state.

## Plan

1. A liveness property for the link engine under fair re-adds of every target. It would say that a target eventually holds its source's value.
