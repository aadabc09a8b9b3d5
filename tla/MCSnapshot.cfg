CONSTANTS
    k1 = k1
    m1 = m1
    m2 = m2
    m3 = m3
    m4 = m4
    m5 = m5
    m6 = m6
    v1 = v1
    v2 = v2
    None = None
    Keys <- MCKeys
    MapIds <- MCMapIds
    Vals <- MCVals
SPECIFICATION Spec
INVARIANTS
    SnapTypeOK
    SnapshotStable
    RecordIsolation
