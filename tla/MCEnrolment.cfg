SPECIFICATION Spec
CONSTANTS
    Pods <- SomePods
    Specs <- SomeSpecs
    Files <- SomeFiles
    Roots <- SomeRoots
    Unset = Unset
    Malformed = Malformed
    p1 = p1
    p2 = p2
    r1 = r1
    r2 = r2
INVARIANTS TypeOK InjectedPodsUpdatable PeersReachEachOther RefusalsExplained
PROPERTY ComesUp
