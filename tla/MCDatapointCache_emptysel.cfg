CONSTANTS
    p1 = p1
    p2 = p2
    s1 = s1
    s2 = s2
    n1 = n1
    k1 = k1
    k2 = k2
    v = v
    ver1 = ver1
    ver2 = ver2
    Nil = Nil
    Pods <- MCPods
    Svcs <- MCSvcs
    Others <- MCOthers
    KindOf <- MCKindOf
    PropKinds = {"Deployment", "ReplicaSet", "Node"}
    Versions <- MCVersions
    LabelKeys <- MCLabelKeys
    LabelValues <- MCLabelValues
    Namespaces <- MCNamespaces
    NoNamespace <- MCNoNamespace
    NoKind <- MCNoKind
    PodNs <- MCPodNs
    SvcNs <- MCSvcNs
    SvcNameOf <- MCSvcNameOf
SPECIFICATION DCSpec
INVARIANTS
    EmptySelectorNeverJoined
