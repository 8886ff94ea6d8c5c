SPECIFICATION Spec
CONSTANTS
    Handlers = {"h1", "h2"}
    Clients = {"c1", "c2"}
    MaxRequests = 2
    Window = 3
    MaxTracked = 1
    MaxLag = 1
    Threads = {"t1", "t2"}
    MacKeys = {"k1", "k2"}
    FirstKey = "k1"
    Payloads = {"p1"}
    Fragile = {"k1"}
    CacheSize = 1
    FailureThreshold = 2
    ResetAfter = 1
    MaxSigners = 3
INVARIANTS
    RateIsBounded
    VerdictsAreTrue
PROPERTY
    SignerRecovers
