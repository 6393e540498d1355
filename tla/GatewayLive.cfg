\* Nonces are not required; every call must end although the upstream is silent.
SPECIFICATION LiveSpec
CONSTANTS
    Instances = {i1}
    Requests = {r1, r2}
    n1 = n1
    n2 = n2
    Nonces <- MCNonces
    Envelopes <- LiveEnvelopes
    BadNonce = BadNonce
    BadTimestamp = BadTimestamp
    RequireNonce = FALSE
    MaxSkew = 2
    MaxEntries = 3
    Timeout = 2
    MaxNow = 4
    MaxRestarts = 0
PROPERTIES Answered
