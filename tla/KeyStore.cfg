\* Two instances, a run of the key script, one client with and one without KeyId, two rotations.
SPECIFICATION Spec
CONSTANTS
    Instances = {i1, i2}
    Scripts = {s1}
    Clients = {c1, c2}
    Legacy = {c2}
    Keys = {k1, k2, k3}
    BadKey = BadKey
    Missing = Missing
    Cut = Cut
    NoKey = NoKey
    NoId = NoId
SYMMETRY MCSymmetry
INVARIANTS TypeOK NoLockout PersistedIdentity PairOnDisk
PROPERTY IdentityKept
