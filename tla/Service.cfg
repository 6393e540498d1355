SPECIFICATION Spec
CONSTANTS
    Unset = Unset
    Empty = Empty
    Spaces = Spaces
    Malformed = Malformed
    Thrown = Thrown
    AnyRoot = AnyRoot
    GoogleRoots = {"google"}
    FullDigests <- MCFullDigests
    DefaultPort = DefaultPort
    Characters <- MCCharacters
    NotScalar = NotScalar
    NullItem = NullItem
    MaxEntries = 3
    MaxName = 3
    MaxValue = 3
    MaxDepth = 2
    ForwardedFamily = {"x-forwarded-for", "x-forwarded-host"}
    Unreadable = Unreadable
    NoRecord = NoRecord
    NoApp = NoApp
    NoRoot = NoRoot
    Absent = Absent
    Failed = Failed
    NoReply = NoReply
    NoRequest = NoRequest
    DefaultLimit = 2
    DefaultTimeout = 15
    Environments <- MCEnvironments
    Addresses <- MCAddresses
    Calls <- MCCalls
    MaxCalls <- MCMaxCalls
    Offers <- MCOffers
    Replies <- MCReplies
    Foreign <- MCForeign
INVARIANTS
    TypeOK
    RulesMeanSegments
    HeadersClean
    SentAsChecked
    PlainOnlyByChoice
    Delivered
    OneCounterPerNetwork
    EmptyIsUnset
    AcceptedIfGenuine
PROPERTIES
    ImplementsRelay
CHECK_DEADLOCK FALSE
