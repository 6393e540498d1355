\* One device and room for two entries: two challenges take its place.
SPECIFICATION Spec
CONSTANTS
    Requests = {r1}
    Challenges = {c1, c2, c3}
    UnknownId = UnknownId
    Devices = {d1}
    DeviceKeys = {k1, k2}
    Null = Null
    Forever = Forever
    Capacity = 2
    RoutePurpose = "transfer"
    DevicePolicy = "required"
    Stores = {"memory"}
    ChallengeTTL = 1
    MaxNow = 0
SYMMETRY MCSymmetry
INVARIANT NeverRebound
