SPECIFICATION Spec
CONSTANTS
  r1 = r1
  r2 = r2
  token = token
  schedule = schedule
  Requests = {r1, r2}
  Keys = {token, schedule}
  Asks <- MCAsks
  Capacity = 2
  MaxTries = 2
  MaxAnswer = 2
  Unusable = {}
INVARIANT AllAnswersCached
CHECK_DEADLOCK FALSE
