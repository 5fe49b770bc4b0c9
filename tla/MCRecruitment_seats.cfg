SPECIFICATION RecruitSpec
SYMMETRY Symmetry
INVARIANTS SeatsAgree DeadlineEnforced OneActive
PROPERTIES SeatsReconcile RetentionHonoured
CONSTANTS
  Worlds = {w1}
  Installations = {i1}
  Requests = {r1, r2}
  Decisions = {d1, d2}
  Names = {n1}
  Credentials = {k1}
  Removals = {}
  Clients = {c1, c2}
  Maintainers = {}
  None = None
  PendingTTL = 2
  Retention = 2
  MaxPending = 2
  MaxBlocks = 1
  MaxTime = 4
