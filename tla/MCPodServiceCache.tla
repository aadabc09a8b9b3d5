-------------------------- MODULE MCPodServiceCache --------------------------
(***************************************************************************)
(* A small instance of the join index: two pods in namespace "a", two     *)
(* services in "a" and one in "b", two label keys with one value.  A       *)
(* selector can be a strict part of a label set, can match, stop matching  *)
(* and be tested across namespaces.                                        *)
(***************************************************************************)
EXTENDS PodServiceCache, TLC

CONSTANTS p1, p2, s1, s2, s3, k1, k2, v

MCPods == {p1, p2}
MCSvcs == {s1, s2, s3}
MCLabelKeys == {k1, k2}
MCLabelValues == {v}
MCNamespaces == {"a", "b"}
MCNoNamespace == ""
MCPodNs == [p \in MCPods |-> "a"]
MCSvcNs == (s1 :> "a") @@ (s2 :> "a") @@ (s3 :> "b")
\* s2 sorts before s1, so the first name is not the first UID.
MCSvcNameOf == (s1 :> 2) @@ (s2 :> 1) @@ (s3 :> 3)

=============================================================================
