SPECIFICATION Spec
SYMMETRY Symmetry
INVARIANTS PeersDistinct BookBounded
PROPERTY NothingRewritten
CONSTANTS
  Worlds = {w1, w2}
  Holders = {a1, a2}
  Locators = {l1, l2}
  Attempts = {x1, x2}
  Peers = {p1}
  Proofs = {f1}
  Sdps = {s1, s2}
  Candidates = {k1}
  Principals = {}
  Clients = {c1}
  None = None
  Revocable = TRUE
  LeaseTTL = 1
  AttemptTTL = 2
  GrantTTL = 3
  Window = 2
  MaxLeases = 1
  MaxAttempts = 2
  MaxOpened = 2
  MaxGrants = 2
  MaxWorldGrants = 2
  MaxIssued = 2
  MaxCandidates = 2
  MaxAccess = 2
  MaxTime = 2
