---------------------------- MODULE JoinRelation ----------------------------
(***************************************************************************)
(* What the selector join index promises (spec.md, "Join Index"): one      *)
(* relation between pods and services, not two maps.  A pod upsert joins  *)
(* the pod to every cached service of its namespace whose selector it      *)
(* matches, a service upsert joins every cached pod its selector matches,  *)
(* and a delete removes every pair of the deleted UID.  An upsert with an  *)
(* empty selector is a no-op (spec.md 4.2).  Upserts add pairs and never    *)
(* clear them: this is the discipline PodServiceCache follows (its         *)
(* JoinSound run shows it differs from clear-then-rematch).                *)
(***************************************************************************)
EXTENDS K8sResources

VARIABLES
    podLabels,    \* pod -> cached label set (Nil: not cached)
    podNamespace, \* pod -> cached namespace (NoNamespace: not cached)
    svcSelector,  \* service -> cached selector (Nil: not cached)
    svcNamespace, \* service -> cached namespace (NoNamespace: not cached)
    members       \* the join: a set of <<pod, service>> pairs

jrVars == <<podLabels, podNamespace, svcSelector, svcNamespace, members>>

JRInit ==
    /\ podLabels = [p \in Pods |-> Nil]
    /\ podNamespace = [p \in Pods |-> NoNamespace]
    /\ svcSelector = [s \in Svcs |-> Nil]
    /\ svcNamespace = [s \in Svcs |-> NoNamespace]
    /\ members = {}

\* A selector matches a pod when it is part of the pod's labels and the two
\* share a namespace.
Matches(sel, lbl, sns, pns) == sel \subseteq lbl /\ sns = pns

UpsertService(s, sel) ==
    /\ sel # {}
    /\ svcSelector' = [svcSelector EXCEPT ![s] = sel]
    /\ svcNamespace' = [svcNamespace EXCEPT ![s] = SvcNs[s]]
    /\ members' = members \cup
                  {<<p, s>> : p \in {q \in Pods :
                                       /\ podLabels[q] # Nil
                                       /\ Matches(sel, podLabels[q], SvcNs[s],
                                                  podNamespace[q])}}
    /\ UNCHANGED <<podLabels, podNamespace>>

RemoveService(s) ==
    /\ svcSelector' = [svcSelector EXCEPT ![s] = Nil]
    /\ svcNamespace' = [svcNamespace EXCEPT ![s] = NoNamespace]
    /\ members' = {m \in members : m[2] # s}
    /\ UNCHANGED <<podLabels, podNamespace>>

UpsertPod(p, lbl) ==
    /\ podLabels' = [podLabels EXCEPT ![p] = lbl]
    /\ podNamespace' = [podNamespace EXCEPT ![p] = PodNs[p]]
    /\ members' = members \cup
                  {<<p, s>> : s \in {t \in Svcs :
                                       /\ svcSelector[t] # Nil
                                       /\ Matches(svcSelector[t], lbl,
                                                  svcNamespace[t], PodNs[p])}}
    /\ UNCHANGED <<svcSelector, svcNamespace>>

RemovePod(p) ==
    /\ podLabels' = [podLabels EXCEPT ![p] = Nil]
    /\ podNamespace' = [podNamespace EXCEPT ![p] = NoNamespace]
    /\ members' = {m \in members : m[1] # p}
    /\ UNCHANGED <<svcSelector, svcNamespace>>

JRNext ==
    \/ \E s \in Svcs, sel \in LabelSets : UpsertService(s, sel)
    \/ \E s \in Svcs : RemoveService(s)
    \/ \E p \in Pods, lbl \in LabelSets : UpsertPod(p, lbl)
    \/ \E p \in Pods : RemovePod(p)

JRSpec == JRInit /\ [][JRNext]_jrVars

=============================================================================
