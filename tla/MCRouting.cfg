SPECIFICATION RoutingSpec
CONSTANTS
    Conns = {c1, c2}
    Endpoints = {e1, e2, e3}
    Algorithm = "roundRobin"
    NoList = NoList
    MaxPicks = 3
INVARIANTS
    RoutingTypeOK
    Balanced
