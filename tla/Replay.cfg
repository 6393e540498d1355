\* More nonces than the cache holds, for two windows.
SPECIFICATION Spec
CONSTANTS
    Nonces = {n1, n2, n3, n4, n5, n6}
    Timestamps <- MCTimestamps
    BadNonce = BadNonce
    BadTimestamp = BadTimestamp
    MaxSkew = 2
    MaxEntries = 5
    MaxNow = 4
SYMMETRY NonceSymmetry
INVARIANTS TypeOK CacheBounded RememberedUnlessBurst NoFalseReplay
PROPERTIES NoEarlyReuse
