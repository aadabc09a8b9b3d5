CONSTANTS
    r1 = r1
    r2 = r2
    p1 = p1
    p2 = p2
    Empty = ""
    Absent = Absent_
    Nil = Nil_
    NoKind = ""
    Absent_ = Absent_
    Nil_ = Nil_
    Keys <- MCKeys
    KindOf <- MCKindOf
    PropNames <- MCPropNames
    Vals <- MCVals
    PropsOf <- MCUniqueNames
    Links <- MCLinks
SPECIFICATION Spec
INVARIANTS
    LinkTypeOK
    LinkConsistent
