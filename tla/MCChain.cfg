SPECIFICATION FairSpec
CONSTANTS
    k1 = k1
    s1 = s1
    svc = svc
    NoRoute = NoRoute
    Inbound = Inbound
    None = None
    Dests = {svc}
    Services = {s1}
    Conns = {c1, c2}
    Keys = {k1}
    Routes <- OneEndpoint
    Snapshots <- OneOrNone
    Attempts = 2
    TimeoutOn = TRUE
    MTLS = TRUE
    FailureThreshold = 2
    RecoveryTime = 1
CHECK_DEADLOCK FALSE
INVARIANTS
    TypeOK
    PlacesHeld
    AllAttemptsUnlessHTTP
    RetriesCounted
PROPERTIES
    NoRetryOnceConnected
    EveryConnectionEnds
