-------------------------- MODULE MCDatapointCache --------------------------
(***************************************************************************)
(* A small instance of the datapoint cache: two pods in namespace "a",    *)
(* two services in "a" (the second sorts first by name), a node, two      *)
(* label keys with one value, and two resource versions.  Namespace       *)
(* isolation is the join index's own run (MCPodServiceCache).             *)
(***************************************************************************)
EXTENDS DatapointCache, TLC

CONSTANTS p1, p2, s1, s2, n1, k1, k2, v, ver1, ver2

MCPods == {p1, p2}
MCSvcs == {s1, s2}
MCOthers == {n1}
MCKindOf == n1 :> "Node"
MCLabelKeys == {k1, k2}
MCLabelValues == {v}
MCNamespaces == {"a", "b"}
MCNoNamespace == ""
MCNoKind == ""
MCPodNs == [p \in MCPods |-> "a"]
MCSvcNs == [s \in MCSvcs |-> "a"]
MCSvcNameOf == (s1 :> 2) @@ (s2 :> 1)
MCVersions == {ver1, ver2}

=============================================================================
