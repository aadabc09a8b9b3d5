CONSTANTS
    p1 = p1
    p2 = p2
    s1 = s1
    s2 = s2
    k1 = k1
    k2 = k2
    v = v
    o1 = o1
    Nil = Nil
    NoOwners = NoOwners
    Pods <- MCPods
    Svcs <- MCSvcs
    LabelKeys <- MCLabelKeys
    LabelValues <- MCLabelValues
    Namespaces <- MCNamespaces
    NoNamespace <- MCNoNamespace
    PodNs <- MCPodNs
    SvcNs <- MCSvcNs
    SvcNameOf <- MCSvcNameOf
    OwnerRefs <- MCOwnerRefs
SPECIFICATION Spec
INVARIANTS
    EmptySelectorMatchesNothing
