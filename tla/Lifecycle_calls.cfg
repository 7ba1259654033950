SPECIFICATION FairSpec
CONSTANTS
  Clients = {c1, c2}
  None = None
  MaxCalls = 4
  StoreFails = TRUE
CHECK_DEADLOCK FALSE
INVARIANTS OneEngine HealthAgrees
PROPERTY CallsReturn
