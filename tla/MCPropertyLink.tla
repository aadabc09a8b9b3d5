--------------------------- MODULE MCPropertyLink ---------------------------
(***************************************************************************)
(* The link engine configured with the link cache.go 172-179 leaves        *)
(* commented out: a pod's "deployment" property is copied from the         *)
(* ReplicaSet whose "name" equals the pod's "replicaSet" property.  Two    *)
(* ReplicaSets and two pods.  A ReplicaSet's name is fixed for its UID     *)
(* (object names are immutable); a ReplicaSet's record may name either of  *)
(* two deployments or none, and a pod's may name either ReplicaSet or none *)
(* (a pod without an owner).  dimPropsForPod never sets "deployment".      *)
(***************************************************************************)
EXTENDS PropertyLink

CONSTANTS r1, r2, p1, p2, Absent_, Nil_

MCKeys == {r1, r2, p1, p2}
MCKindOf == [k \in MCKeys |-> IF k \in {r1, r2} THEN "ReplicaSet" ELSE "Pod"]
MCPropNames == {"name", "deployment", "replicaSet"}
MCVals == {"", "rs1", "rs2", "d1", "d2"}

\* ReplicaSet rs is named rsName[rs]; the two instances differ here.
RSRecords(name) ==
    {[n \in MCPropNames |-> CASE n = "name" -> name
                              [] n = "deployment" -> d
                              [] OTHER -> Absent] : d \in {"d1", "d2", Absent}}
PodRecords ==
    {[n \in MCPropNames |-> IF n = "replicaSet" THEN rs ELSE Absent] :
        rs \in {"rs1", "rs2", Absent}}

\* Distinct names: two ReplicaSets of one namespace.
MCUniqueNames == [k \in MCKeys |-> IF k = r1 THEN RSRecords("rs1")
                                   ELSE IF k = r2 THEN RSRecords("rs2")
                                   ELSE PodRecords]

MCLinks == <<[SourceKind |-> "ReplicaSet", SourceProperty |-> "deployment",
              SourceJoinKey |-> "name", TargetKind |-> "Pod",
              TargetProperty |-> "deployment", TargetJoinKey |-> "replicaSet"]>>

\* The instance meets the hypotheses of LinkConsistency (PropertyLinkProofs).
ASSUME MCLinkHypotheses == OneLink /\ UniqueSourceKeys

=============================================================================
