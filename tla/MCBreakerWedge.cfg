SPECIFICATION FairSpec
CONSTANTS
    k1 = k1
    k2 = k2
    s1 = s1
    s2 = s2
    s3 = s3
    NoRoute = NoRoute
    Conns = {c1, c2}
    Keys = {k1}
    Services = {s1}
    Routes <- OneEndpoint
    FailureThreshold = 2
    RecoveryTime = 2
PROPERTIES
    Unblocked
