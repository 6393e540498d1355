\* Four clients, two counters and the overflow counter; two full windows.
SPECIFICATION Spec
CONSTANTS
    Clients = {c1, c2, c3, c4}
    Overflow = Overflow
    TTL = 3
    Limit = 2
    MaxEntries = 3
    MaxNow = 6
SYMMETRY ClientSymmetry
INVARIANTS TypeOK EntriesBounded WindowKept FinishedWindowsGoWithinTTL SlidingBound
