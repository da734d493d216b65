SPECIFICATION FairSpec
CONSTANTS
    k1 = k1
    k2 = k2
    s1 = s1
    s2 = s2
    s3 = s3
    NoRoute = NoRoute
    Conns = {c1, c2, c3}
    Keys = {k1, k2}
    Services = {s1, s2, s3}
    Routes <- SharedPod
    FailureThreshold = 2
    RecoveryTime = 1
INVARIANTS
    TypeOK
    TripNeedsStreak
    OneProbePerOpening
PROPERTIES
    UnblockedOrWedged
