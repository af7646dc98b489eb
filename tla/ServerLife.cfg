SPECIFICATION FairLifeSpec
CONSTANTS
  r1 = r1
  r2 = r2
  r3 = r3
  token = token
  Requests = {r1, r2, r3}
  Keys = {token}
  Asks <- MCAsks
  Capacity = 1
  MaxTries = 2
  MaxAnswer = 2
  Unusable = {2}
  MaxBegun = 2
  Servers = 2
  ServerOf <- MCServerOf
INVARIANTS LifeTypeOK InOnePlace LeavesNothingBehind BatchBounded CompletedLeavesUsable
PROPERTIES ImplementsCache EverySetEnds ActiveRequestsComplete
CHECK_DEADLOCK FALSE
