SPECIFICATION FairSpec
INVARIANTS TypeOK AdmittedBounded
PROPERTIES EveryCallEnds ImplementsBudget
CONSTANTS
  Calls = {c1, c2}
  Installations = {i1}
  Networks = {n1,n2}
  Kinds = {"submit"}
  PoolSize = 2
  CheckInstall = 1
  CheckNetwork = 1
  SubmitInstall = 2
  SubmitNetwork = 1
  MaxTime = 2
