------------------------- MODULE MCChangeDetection -------------------------
(***************************************************************************)
(* A small instance of the change-detection caches: a pod and a service in *)
(* namespace "a", another pair in "b", two label keys with one value, one  *)
(* owner-reference list besides the nil one.  A pod can match a service of *)
(* its own namespace only, and each delete can meet a stale entry.         *)
(***************************************************************************)
EXTENDS ChangeDetection, TLC

CONSTANTS p1, p2, s1, s2, k1, k2, v, o1

MCPods == {p1, p2}
MCSvcs == {s1, s2}
MCLabelKeys == {k1, k2}
MCLabelValues == {v}
MCNamespaces == {"a", "b"}
MCNoNamespace == ""
MCPodNs == (p1 :> "a") @@ (p2 :> "b")
MCSvcNs == (s1 :> "a") @@ (s2 :> "b")
MCSvcNameOf == (s1 :> 1) @@ (s2 :> 2)
MCOwnerRefs == {o1}

=============================================================================
