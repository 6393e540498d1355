\* One nonce, used again when its entry has expired but its timestamp has not.
SPECIFICATION HSpec
CONSTANTS
    Nonces = {n1}
    Timestamps <- MCTimestamps
    BadNonce = BadNonce
    BadTimestamp = BadTimestamp
    MaxSkew = 2
    MaxEntries = 3
    MaxNow = 4
INVARIANT OncePerWindow
