SPECIFICATION FairSpec
PROPERTIES EveryRequestSettles TextErased TerminalForgotten
CONSTANTS
  Worlds = {w1}
  Installations = {i1}
  Requests = {r1}
  Decisions = {d1}
  Names = {n1}
  Credentials = {k1}
  Removals = {}
  Clients = {c1}
  Maintainers = {m}
  None = None
  PendingTTL = 2
  Retention = 2
  MaxPending = 1
  MaxBlocks = 1
  MaxTime = 4
