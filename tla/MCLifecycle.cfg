\* All three listeners, the metrics server, and as many connections as listeners.
SPECIFICATION FairSpec
CONSTANTS
    Conns = {c1, c2, c3}
    MTLS = TRUE
    Monitoring = TRUE
    None = None
INVARIANTS
    TypeOK
    DrainedUnlessTimeout
    RootCauseReturned
PROPERTIES
    ShutdownEnds
CHECK_DEADLOCK FALSE
