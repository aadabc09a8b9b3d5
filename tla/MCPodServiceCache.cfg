CONSTANTS
    p1 = p1
    p2 = p2
    s1 = s1
    s2 = s2
    s3 = s3
    k1 = k1
    k2 = k2
    v = v
    Nil = Nil
    Pods <- MCPods
    Svcs <- MCSvcs
    LabelKeys <- MCLabelKeys
    LabelValues <- MCLabelValues
    Namespaces <- MCNamespaces
    NoNamespace <- MCNoNamespace
    PodNs <- MCPodNs
    SvcNs <- MCSvcNs
    SvcNameOf <- MCSvcNameOf
SPECIFICATION Spec
INVARIANTS
    TypeOK
    JoinSymmetric
    JoinCached
    JoinComplete
PROPERTY
    ImplementsJoinRelation
