\* Two instances, two attempts at a time, one restart, a timestamp whose window
\* is the whole run.
SPECIFICATION Spec
CONSTANTS
    Instances = {i1, i2}
    Requests = {r1, r2}
    n1 = n1
    n2 = n2
    Nonces <- MCNonces
    Envelopes <- MCEnvelopes
    BadNonce = BadNonce
    BadTimestamp = BadTimestamp
    RequireNonce = TRUE
    MaxSkew = 2
    MaxEntries = 3
    Timeout = 1
    MaxNow = 5
    MaxRestarts = 1
SYMMETRY MCSymmetry
INVARIANTS TypeOK EffectsBounded SpentWhileWaiting CallsApart
