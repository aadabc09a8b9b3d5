------------------------------- MODULE Snapshot -------------------------------
(***************************************************************************)
(* The readers of the datapoint cache against its writers and a consumer   *)
(* of the snapshots they return (cache.go AllDatapoints, AllDimProperties, *)
(* part_000 DimProperties.Copy).                                           *)
(*                                                                         *)
(* Go maps are reference values, so the model keeps a heap of map          *)
(* identities: each cached datapoint owns a Dimensions map and each cached *)
(* property record a Properties and a Tags map.  The content of a map is   *)
(* abstracted to one value.  A snapshot is the set of maps the consumer    *)
(* can reach from the slice it was handed; it writes into them at will     *)
(* after the lock is released (the monitor's output adds dimensions and    *)
(* properties).  Writers and readers hold the cache mutex, so each of them *)
(* is one step; the consumer's writes are not under the lock.              *)
(***************************************************************************)
EXTENDS Naturals, FiniteSets

CONSTANTS
    Keys,   \* UIDs of resources that have datapoints and a property record
    MapIds, \* identities of allocated maps (the heap bound)
    Vals,   \* contents a map can hold
    None    \* an unallocated map, an absent entry, a map the consumer lacks

ASSUME SnapshotAssumption ==
    /\ IsFiniteSet(Keys)
    /\ IsFiniteSet(MapIds)
    /\ None \notin MapIds \cup Vals

VARIABLES
    heap,     \* MapIds -> content (None: never allocated)
    dpDims,   \* UID -> Dimensions map of its cached datapoint
    recMaps,  \* UID -> [Properties |-> map, Tags |-> map] of its record, or None
    held,     \* MapIds -> content the consumer last saw or wrote (None: not reachable)
    wrote     \* history: MapIds -> content the cache last stored in the map

vars == <<heap, dpDims, recMaps, held, wrote>>

Fields == {"Properties", "Tags"}

SnapTypeOK ==
    /\ heap \in [MapIds -> Vals \cup {None}]
    /\ dpDims \in [Keys -> MapIds \cup {None}]
    /\ recMaps \in [Keys -> [Fields -> MapIds] \cup {None}]
    /\ held \in [MapIds -> Vals \cup {None}]
    /\ wrote \in [MapIds -> Vals \cup {None}]

Init ==
    /\ heap = [m \in MapIds |-> None]
    /\ dpDims = [k \in Keys |-> None]
    /\ recMaps = [k \in Keys |-> None]
    /\ held = [m \in MapIds |-> None]
    /\ wrote = [m \in MapIds |-> None]

RecKeys == {k \in Keys : recMaps[k] # None}
CachedRecMaps == {recMaps[k][f] : k \in RecKeys, f \in Fields}
CachedDims == {dpDims[k] : k \in {k \in Keys : dpDims[k] # None}}

\* A map nobody references any more is garbage and its identity reusable.
FreeMaps == {m \in MapIds : m \notin CachedDims \cup CachedRecMaps /\ held[m] = None}

\* Allocate a distinct fresh map for each slot (CHOOSE: the address is not
\* observable).  Disabled when the heap bound is reached.
Alloc(slots) == CHOOSE a \in [slots -> FreeMaps] :
                    \A x, y \in slots : x # y => a[x] # a[y]
CanAlloc(slots) == Cardinality(slots) <= Cardinality(FreeMaps)

\* The garbage collector: a map that is neither cached nor reachable by the
\* consumer after the step loses its content.
Reachable == CachedDims \cup CachedRecMaps \cup {m \in MapIds : held[m] # None}
Collect(h) == [m \in MapIds |-> IF m \in Reachable' THEN h[m] ELSE None]

(***************************************************************************)
(* HandleAdd(k) with content v: the kind handler builds a new datapoint    *)
(* and a new record, with maps of their own, and they replace the cached   *)
(* ones (dc.dpCache[key] = dps; dc.dimPropCache[key] = dimProps).          *)
(***************************************************************************)
AddSlots == {"Dimensions"} \cup Fields

\* Mutant: an update of a cached resource rewrites its datapoint's
\* Dimensions map in place instead of building a new datapoint.
HandleAddInPlace(k, v) ==
    LET a == Alloc(AddSlots)
        d == IF dpDims[k] # None THEN dpDims[k] ELSE a["Dimensions"] IN
    /\ CanAlloc(AddSlots)
    /\ dpDims' = [dpDims EXCEPT ![k] = d]
    /\ recMaps' = [recMaps EXCEPT ![k] = [f \in Fields |-> a[f]]]
    /\ UNCHANGED held
    /\ heap' = Collect([m \in MapIds |->
                  IF m \in {d, a["Properties"], a["Tags"]} THEN v ELSE heap[m]])
    /\ wrote' = Collect([m \in MapIds |->
                  IF m \in {d, a["Properties"], a["Tags"]} THEN v ELSE wrote[m]])

HandleAdd(k, v) ==
    LET a == Alloc(AddSlots) IN
    /\ CanAlloc(AddSlots)
    /\ dpDims' = [dpDims EXCEPT ![k] = a["Dimensions"]]
    /\ recMaps' = [recMaps EXCEPT ![k] = [f \in Fields |-> a[f]]]
    /\ UNCHANGED held
    /\ heap' = Collect([m \in MapIds |-> IF m \in {a[s] : s \in AddSlots} THEN v ELSE heap[m]])
    /\ wrote' = Collect([m \in MapIds |-> IF m \in {a[s] : s \in AddSlots} THEN v ELSE wrote[m]])

(***************************************************************************)
(* updateServicePropForPods: the "service" property of a cached record is  *)
(* set or deleted in place, in the record's Properties map.                *)
(***************************************************************************)
UpdateServiceProp(k, v) ==
    /\ k \in RecKeys
    /\ heap' = [heap EXCEPT ![recMaps[k]["Properties"]] = v]
    /\ wrote' = [wrote EXCEPT ![recMaps[k]["Properties"]] = v]
    /\ UNCHANGED <<dpDims, recMaps, held>>

\* Mutant: the record is reset to a zero DimProperties (nil maps) instead
\* of being deleted from dimPropCache.
DeleteByKeyZeroRecord(k) ==
    /\ dpDims' = [dpDims EXCEPT ![k] = None]
    /\ recMaps' = [recMaps EXCEPT ![k] = IF @ = None THEN None
                                         ELSE [f \in Fields |-> None]]
    /\ UNCHANGED held
    /\ heap' = Collect(heap)
    /\ wrote' = Collect(wrote)

\* DeleteByKey: the three cache entries of the UID are deleted.
DeleteByKey(k) ==
    /\ dpDims' = [dpDims EXCEPT ![k] = None]
    /\ recMaps' = [recMaps EXCEPT ![k] = None]
    /\ UNCHANGED held
    /\ heap' = Collect(heap)
    /\ wrote' = Collect(wrote)

(***************************************************************************)
(* AllDatapoints: `dp := *dc.dpCache[k][i]` copies the datapoint struct,   *)
(* not its Dimensions map, so the consumer reaches the cached map itself.  *)
(***************************************************************************)
AllDatapoints ==
    /\ held' = [m \in MapIds |-> IF m \in CachedDims THEN heap[m] ELSE held[m]]
    /\ UNCHANGED <<heap, dpDims, recMaps, wrote>>

(***************************************************************************)
(* AllDimProperties: every cached record goes through Copy, which makes a  *)
(* new Properties map and a new Tags map and copies the entries.           *)
(***************************************************************************)
\* Mutant: Copy clones Properties but hands out the record's own Tags map.
CopiedNoTags(keys) == keys \X {"Properties"}

Copied(keys) == keys \X Fields

AllDimProperties ==
    LET slots == Copied(RecKeys)
        a == Alloc(slots)
        source(sl) == recMaps[sl[1]][sl[2]]
        reach(k, f) == IF <<k, f>> \in slots THEN a[<<k, f>>] ELSE recMaps[k][f] IN
    /\ CanAlloc(slots)
    /\ heap' = [m \in MapIds |->
                  IF \E sl \in slots : a[sl] = m
                  THEN heap[source(CHOOSE sl \in slots : a[sl] = m)]
                  ELSE heap[m]]
    /\ held' = [m \in MapIds |->
                  IF \E k \in RecKeys, f \in Fields : reach(k, f) = m
                  THEN heap'[m] ELSE held[m]]
    /\ UNCHANGED <<dpDims, recMaps, wrote>>

(***************************************************************************)
(* The consumer, outside the lock: writes into a map it holds, or drops    *)
(* the slices it was handed.                                               *)
(***************************************************************************)
ConsumerWrite(m, v) ==
    /\ held[m] # None
    /\ heap' = [heap EXCEPT ![m] = v]
    /\ held' = [held EXCEPT ![m] = v]
    /\ UNCHANGED <<dpDims, recMaps, wrote>>

ConsumerRelease ==
    /\ held' = [m \in MapIds |-> None]
    /\ UNCHANGED <<dpDims, recMaps>>
    /\ heap' = Collect(heap)
    /\ wrote' = Collect(wrote)

Next ==
    \/ \E k \in Keys, v \in Vals : HandleAdd(k, v) \/ UpdateServiceProp(k, v)
    \/ \E k \in Keys : DeleteByKey(k)
    \/ AllDatapoints
    \/ AllDimProperties
    \/ \E m \in MapIds, v \in Vals : ConsumerWrite(m, v)
    \/ ConsumerRelease

Spec == Init /\ [][Next]_vars

-----------------------------------------------------------------------------
(***************************************************************************)
(* Properties.                                                             *)
(***************************************************************************)

(* Snapshot stability: what a consumer holds from AllDatapoints or         *)
(* AllDimProperties keeps what it saw or wrote, whatever HandleAdd,        *)
(* updateServicePropForPods and DeleteByKey do to the cache afterwards.    *)
SnapshotStable ==
    \A m \in MapIds : held[m] # None => heap[m] = held[m]

(* Copy isolation for property records (spec testable property 6): the    *)
(* Properties and Tags maps of every cached record hold what the cache     *)
(* last stored in them, whatever the consumers of AllDimProperties wrote   *)
(* into the records they were handed.                                      *)
RecordIsolation ==
    \A k \in RecKeys, f \in Fields :
        heap[recMaps[k][f]] = wrote[recMaps[k][f]]

(* Copy isolation for datapoints (spec 4.3: a caller's mutation of a       *)
(* returned sample must not affect the cache): the Dimensions map of every *)
(* cached datapoint holds what the cache stored in it.                     *)
DatapointIsolation ==
    \A k \in Keys : dpDims[k] # None => heap[dpDims[k]] = wrote[dpDims[k]]

=============================================================================
