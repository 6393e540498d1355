\* Both stores, the one in process with room for two entries; challenges expire,
\* are evicted, and are lost in restarts; the shared store answers late or never.
SPECIFICATION Spec
CONSTANTS
    Requests = {r1, r2}
    Challenges = {c1, c2}
    UnknownId = UnknownId
    Devices = {d1}
    DeviceKeys = {k1}
    Null = Null
    Forever = Forever
    Capacity = 2
    RoutePurpose = "transfer"
    DevicePolicy = "report"
    Stores = {"memory", "upstash"}
    ChallengeTTL = 1
    MaxNow = 2
SYMMETRY MCSymmetry
INVARIANTS TypeOK ChallengeUsedOnce PurposeKept BoundOnce VerifiedByBoundKey
PROPERTIES ChallengeFresh
