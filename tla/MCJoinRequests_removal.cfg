SPECIFICATION Spec
SYMMETRY Symmetry
INVARIANTS TypeOK QueueBounded RowsConsistent BlocksBounded
PROPERTIES BlocksAccounted ImplementsLifecycle
CONSTANTS
  Worlds = {w1}
  Installations = {i1, i2}
  Requests = {r1, r2}
  Decisions = {d1}
  Names = {n1}
  Credentials = {k1}
  Removals = {o1}
  Clients = {c1}
  Maintainers = {}
  None = None
  PendingTTL = 2
  Retention = 2
  MaxPending = 1
  MaxBlocks = 1
  MaxTime = 3
