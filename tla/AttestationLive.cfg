\* Either store; every request must end.
SPECIFICATION LiveSpec
CONSTANTS
    Requests = {r1, r2}
    Challenges = {c1}
    UnknownId = UnknownId
    Devices = {d1}
    DeviceKeys = {k1}
    Null = Null
    Forever = Forever
    Capacity = 2
    RoutePurpose = "transfer"
    DevicePolicy = "required"
    Stores = {"memory", "upstash"}
    ChallengeTTL = 1
    MaxNow = 0
PROPERTIES Answered
