SPECIFICATION Spec
SYMMETRY Symmetry
INVARIANTS TypeOK OwnersAgree
PROPERTIES RevokedNotDisclosed RevocationSticks ImplementsCredential
CONSTANTS
  Worlds = {w1}
  Holders = {a1, a2}
  Locators = {l1}
  Attempts = {x1}
  Peers = {p1}
  Proofs = {f1}
  Sdps = {}
  Candidates = {}
  Principals = {g1, g2}
  Clients = {c1, c2}
  None = None
  Revocable = TRUE
  LeaseTTL = 1
  AttemptTTL = 1
  GrantTTL = 2
  Window = 1
  MaxLeases = 2
  MaxAttempts = 2
  MaxOpened = 2
  MaxGrants = 2
  MaxWorldGrants = 2
  MaxIssued = 1
  MaxCandidates = 2
  MaxAccess = 1
  MaxTime = 1
