\* Four keys for three places, entries that expire at once, soon and never.
SPECIFICATION Spec
CONSTANTS
    Keys = {k1, k2, k3, k4}
    Values = {v1, v2}
    TTLs <- MCTTLs
    Null = Null
    Forever = Forever
    Capacity = 3
    MaxNow = 3
SYMMETRY KeySymmetry
INVARIANTS TypeOK StoreBounded
PROPERTIES ImplementsPort
