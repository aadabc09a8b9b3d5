----------------------------- MODULE K8sResources -----------------------------
(***************************************************************************)
(* The resource data the caches of the kubernetes-cluster monitor read     *)
(* from pods and services: UIDs, namespaces, names, labels and selectors.  *)
(*                                                                         *)
(* A label set (labels.Set) and a service selector built from one are sets *)
(* of <<key, value>> pairs with one value per key.  Service names are      *)
(* ranked by their alphabetical order: a name is a positive natural and 0  *)
(* stands for "".  A UID's namespace and (for services) its name never     *)
(* change in Kubernetes, so they are constants of the UID.                 *)
(***************************************************************************)
EXTENDS Naturals

CONSTANTS
    Pods,        \* UIDs of pods
    Svcs,        \* UIDs of services
    LabelKeys,   \* label keys
    LabelValues, \* label values
    Namespaces,  \* namespace names
    NoNamespace, \* "", the namespace an absent map entry reads as
    PodNs,       \* PodNs[p]: the namespace of pod p
    SvcNs,       \* SvcNs[s]: the namespace of service s
    SvcNameOf,   \* SvcNameOf[s]: the name of service s, as its alphabetical rank
    Nil          \* the nil selector or label set of an absent map entry

Labels == LabelKeys \X LabelValues

\* labels.Set: a map from key to value, i.e. a set of pairs with unique keys.
LabelSets == {L \in SUBSET Labels : \A a, b \in L : a[1] = b[1] => a = b}

\* Names of services, ranked alphabetically; 0 is the empty string.
Names == Nat \ {0}

ASSUME ResourceAssumption ==
    /\ Pods \cap Svcs = {}
    /\ NoNamespace \notin Namespaces
    /\ \A L \in LabelSets : L # Nil
    /\ PodNs \in [Pods -> Namespaces]
    /\ SvcNs \in [Svcs -> Namespaces]
    /\ SvcNameOf \in [Svcs -> Names]

=============================================================================
