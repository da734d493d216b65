SPECIFICATION FairSpec
CONSTANTS
    http = http
    admin = admin
    web = web
    p1 = p1
    p2 = p2
    Keys = {http, admin}
    Pods = {p1}
    Services = {web}
    ServiceOf <- TwoPorts
    MaxChanges = 2
CHECK_DEADLOCK FALSE
INVARIANTS
    TypeOK
    CacheOfOneRelist
PROPERTIES
    Converges
