SPECIFICATION AvailSpec
SYMMETRY Symmetry
INVARIANTS OnlineFresh
PROPERTIES ImplementsDirectory
CONSTANTS
  Worlds = {w1}
  Holders = {a1, a2}
  Locators = {l1}
  Attempts = {}
  Peers = {}
  Proofs = {}
  Sdps = {}
  Candidates = {}
  Principals = {}
  Clients = {c1, c2}
  None = None
  Revocable = TRUE
  LeaseTTL = 1
  AttemptTTL = 1
  GrantTTL = 2
  Window = 1
  MaxLeases = 1
  MaxAttempts = 1
  MaxOpened = 1
  MaxGrants = 1
  MaxWorldGrants = 1
  MaxIssued = 1
  MaxCandidates = 1
  MaxAccess = 1
  MaxTime = 3
  Operations = {o1}
  Reports = {}
  Reporters = {}
  MaxSeats = 1
  MaxRevision = 1
  Staleness = 3
  Readers = {r1}
