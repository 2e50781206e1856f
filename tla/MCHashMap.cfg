SPECIFICATION Spec
CONSTANTS
    k1 = k1
    k2 = k2
    k3 = k3
    Keys = {k1, k2, k3}
    Values = {v1, v2}
    Absent = Absent
    Hashes <- MCHashes
    InitialCapacity = 2
INVARIANTS
    ProbesEnd
    CountersAgree
PROPERTIES
    IsAMap
