----------------------------- MODULE PropertyLink -----------------------------
(***************************************************************************)
(* The property-link loops of DatapointCache.addDimPropsToCache (cache.go  *)
(* 157-208), run by HandleAdd for every resource whose handler produces a  *)
(* dimension-property record, and the DeleteByKey that removes a record.   *)
(*                                                                         *)
(* The code's link list is a literal; it is empty in the build, with a     *)
(* ReplicaSet -> Pod link commented out.  Here it is the constant Links,   *)
(* so an instance can configure the engine as the spec (4.4) describes.    *)
(* Only the properties the links name are kept; the "service" property    *)
(* that handleAddPod and updateServicePropForPods write is never a link    *)
(* property, and the datapoints play no part (DatapointCache models both). *)
(*                                                                         *)
(* A record's Properties map is a function from property names to values;  *)
(* Absent is a missing key, which Go reads back as "" (Empty).  The scan   *)
(* `for cachedKey := range dc.dimPropCache` visits keys in an unspecified  *)
(* order: when several cached sources match, the last one visited wins,    *)
(* which is any of them.                                                   *)
(***************************************************************************)
EXTENDS Naturals, Sequences

CONSTANTS
    Keys,      \* UIDs of resources with a dimension-property record
    KindOf,    \* KindOf[k]: the kind of resource k (fixed for a UID)
    PropNames, \* property names the links read or write
    Vals,      \* property values
    Empty,     \* "", the value of a missing property
    Absent,    \* a key missing from a Properties map
    Nil,       \* no record cached for a UID
    NoKind,    \* "", the kind of a UID with no uidKindCache entry
    PropsOf,   \* PropsOf[k]: the records dimPropsFor<Kind> can produce for k
    Links      \* the link list of addDimPropsToCache

Kinds == {KindOf[k] : k \in Keys}
Records == [PropNames -> Vals \cup {Absent}]

\* type propertyLink struct (cache.go 157-164).
LinkRecords == [SourceProperty : PropNames, SourceKind : Kinds,
                SourceJoinKey : PropNames, TargetProperty : PropNames,
                TargetKind : Kinds, TargetJoinKey : PropNames]

ASSUME PropertyLinkAssumption ==
    /\ Empty \in Vals
    /\ Absent \notin Vals
    /\ Nil \notin Records
    /\ NoKind \notin Kinds
    /\ PropsOf \in [Keys -> SUBSET Records]
    /\ Links \in Seq(LinkRecords)
    \* a link joins two different kinds, and does not overwrite the join
    \* key it compares against (true of the ReplicaSet -> Pod link)
    /\ \A i \in DOMAIN Links :
          /\ Links[i].SourceKind # Links[i].TargetKind
          /\ Links[i].TargetProperty # Links[i].TargetJoinKey

VARIABLES
    dimPropCache, \* UID -> record (Nil: no entry)
    uidKindCache  \* UID -> kind (NoKind: no entry)

vars == <<dimPropCache, uidKindCache>>

LinkTypeOK ==
    /\ dimPropCache \in [Keys -> Records \cup {Nil}]
    /\ uidKindCache \in [Keys -> Kinds \cup {NoKind}]

Init ==
    /\ dimPropCache = [k \in Keys |-> Nil]
    /\ uidKindCache = [k \in Keys |-> NoKind]

\* props[name] as Go reads it: "" for a missing key.
Read(props, name) == IF props[name] = Absent THEN Empty ELSE props[name]

\* Two join-key values match when they are equal and not "".
JoinMatch(x, y) == x # Empty /\ x = y

-----------------------------------------------------------------------------
(***************************************************************************)
(* One link, for the record `own` of `key` about to be stored, against the *)
(* cache `cache`; `kinds` already holds key's kind (HandleAdd writes       *)
(* uidKindCache before it calls addDimPropsToCache).                       *)
(***************************************************************************)

\* The cached records of kind `kind`.
CachedOfKind(cache, kinds, kind) == {ck \in Keys : cache[ck] # Nil /\ kinds[ck] = kind}

\* The target branch: pull the source property of a matching cached source
\* into own; with several matches, any of them is the last one visited.
Pull(l, key, kinds, own, cache) ==
    LET M == {ck \in CachedOfKind(cache, kinds, l.SourceKind) :
                JoinMatch(Read(cache[ck], l.SourceJoinKey),
                          Read(own, l.TargetJoinKey))} IN
    IF kinds[key] = l.TargetKind /\ M # {}
    THEN {[own EXCEPT ![l.TargetProperty] = Read(cache[ck], l.SourceProperty)] :
            ck \in M}
    ELSE {own}

\* Mutant: the push compares the target's join key with own's target join
\* key (the pull's field names, copied into the second loop).
PushWrongKey(l, key, kinds, own, cache) ==
    IF kinds[key] = l.SourceKind
    THEN [ck \in Keys |->
            IF /\ ck \in CachedOfKind(cache, kinds, l.TargetKind)
               /\ JoinMatch(Read(cache[ck], l.TargetJoinKey),
                            Read(own, l.TargetJoinKey))
            THEN [cache[ck] EXCEPT ![l.TargetProperty] = Read(own, l.SourceProperty)]
            ELSE cache[ck]]
    ELSE cache

\* The source branch: push own's source property into every matching cached
\* target, writing into the cached Properties maps in place.
Push(l, key, kinds, own, cache) ==
    IF kinds[key] = l.SourceKind
    THEN [ck \in Keys |->
            IF /\ ck \in CachedOfKind(cache, kinds, l.TargetKind)
               /\ JoinMatch(Read(cache[ck], l.TargetJoinKey),
                            Read(own, l.SourceJoinKey))
            THEN [cache[ck] EXCEPT ![l.TargetProperty] = Read(own, l.SourceProperty)]
            ELSE cache[ck]]
    ELSE cache

\* One iteration of `for _, link := range links`: the possible <<own, cache>>.
LinkStep(l, key, kinds, own, cache) ==
    {<<o, Push(l, key, kinds, own, cache)>> : o \in Pull(l, key, kinds, own, cache)}

\* The whole loop, link after link in the order of the list.
ApplyLinks(key, kinds, own, cache) ==
    LET after[i \in 0..Len(Links)] ==
            IF i = 0 THEN {<<own, cache>>}
            ELSE UNION {LinkStep(Links[i], key, kinds, o[1], o[2]) : o \in after[i - 1]}
    IN after[Len(Links)]

-----------------------------------------------------------------------------
\* HandleAdd of a resource with a record: store its kind, run the links,
\* then store the record (dc.dimPropCache[key] = dimProps).
HandleAdd(key, props) ==
    LET kinds == [uidKindCache EXCEPT ![key] = KindOf[key]] IN
    /\ uidKindCache' = kinds
    /\ \E o \in ApplyLinks(key, kinds, props, dimPropCache) :
          dimPropCache' = [o[2] EXCEPT ![key] = o[1]]

\* Mutant: the record is reset to an empty DimProperties (nil Properties
\* map) instead of being deleted.
DeleteByKeyZeroRecord(key) ==
    /\ uidKindCache' = [uidKindCache EXCEPT ![key] = NoKind]
    /\ dimPropCache' = [dimPropCache EXCEPT ![key] = [n \in PropNames |-> Nil]]

\* DeleteByKey: the kind and the record of the UID are deleted; what links
\* pushed into other records stays.
DeleteByKey(key) ==
    /\ uidKindCache' = [uidKindCache EXCEPT ![key] = NoKind]
    /\ dimPropCache' = [dimPropCache EXCEPT ![key] = Nil]

Next ==
    \/ \E k \in Keys : \E props \in PropsOf[k] : HandleAdd(k, props)
    \/ \E k \in Keys : DeleteByKey(k)

Spec == Init /\ [][Next]_vars

-----------------------------------------------------------------------------
(***************************************************************************)
(* Properties.                                                             *)
(***************************************************************************)

\* Link l joins cached target t to cached source s.
Linked(l, t, s) ==
    /\ t \in CachedOfKind(dimPropCache, uidKindCache, l.TargetKind)
    /\ s \in CachedOfKind(dimPropCache, uidKindCache, l.SourceKind)
    /\ JoinMatch(Read(dimPropCache[s], l.SourceJoinKey),
                 Read(dimPropCache[t], l.TargetJoinKey))

(* Link consistency (spec 4.4): whatever order targets and sources were    *)
(* added, updated and deleted in, a cached target record whose join key    *)
(* matches a cached source holds that source's property: the pull of       *)
(* addDimPropsToCache covers a target stored after its source, the push    *)
(* one stored before it.                                                   *)
LinkConsistent ==
    \A i \in DOMAIN Links, t, s \in Keys :
        Linked(Links[i], t, s) =>
            Read(dimPropCache[t], Links[i].TargetProperty)
                = Read(dimPropCache[s], Links[i].SourceProperty)

-----------------------------------------------------------------------------
(***************************************************************************)
(* Configurations of the engine under which links stay consistent.        *)
(***************************************************************************)

\* The link list of the code's commented-out configuration: one link.
OneLink == Len(Links) = 1

\* Join keys identify sources: two different resources of the source kind
\* never carry the same non-empty join key (ReplicaSet names within one
\* namespace).
UniqueSourceKeys ==
    \A s1, s2 \in Keys :
        /\ KindOf[s1] = Links[1].SourceKind
        /\ KindOf[s2] = Links[1].SourceKind
        /\ s1 # s2
        => \A r1 \in PropsOf[s1], r2 \in PropsOf[s2] :
              ~JoinMatch(Read(r1, Links[1].SourceJoinKey),
                         Read(r2, Links[1].SourceJoinKey))

=============================================================================
