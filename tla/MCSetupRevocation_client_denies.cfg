SPECIFICATION HistorySpec
SYMMETRY Symmetry
PROPERTY ClientDenies
CONSTANTS
  Worlds = {w1}
  Holders = {a1, a2}
  Locators = {l1}
  Attempts = {x1}
  Peers = {p1}
  Proofs = {f1}
  Sdps = {}
  Candidates = {}
  Principals = {g1}
  Clients = {c1}
  None = None
  Revocable = TRUE
  LeaseTTL = 3
  AttemptTTL = 3
  GrantTTL = 3
  Window = 2
  MaxLeases = 2
  MaxAttempts = 2
  MaxOpened = 2
  MaxGrants = 2
  MaxWorldGrants = 2
  MaxIssued = 2
  MaxCandidates = 2
  MaxAccess = 2
  MaxTime = 1
