SPECIFICATION Spec
SYMMETRY Symmetry
INVARIANTS TypeOK ListingFits OperationsNumbered ListingCurrent HiddenSettled
PROPERTIES PromisesKept VisibilityEarned
CONSTANTS
  Worlds = {w1}
  Administrators = {a1, a2}
  Operations = {o1, o2, o3}
  Reports = {r1}
  Reporters = {p1}
  None = None
  MaxSeats = 2
  MaxRevision = 2
  Staleness = 1
  MaxTime = 2
