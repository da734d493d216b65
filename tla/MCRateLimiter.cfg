CONSTANTS
  Callers = {c1,c2}
  MaxHits = 1
  Window = 3
  MaxTime = 6
  MaxRequests = 4
  Never = Never
SPECIFICATION Spec
SYMMETRY Symmetry
INVARIANTS TypeOK OvershootBounded
PROPERTIES ImplementsWindow RefusedForAReason
CHECK_DEADLOCK FALSE
