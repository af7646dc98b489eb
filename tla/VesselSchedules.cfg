SPECIFICATION FairSpec
CONSTANTS
  r1 = r1
  r2 = r2
  v1 = v1
  v2 = v2
  Unset = Unset
  Requests = {r1}
  Carriers = {MAEU, ONEY, HDMU}
  Vessels = {v1, v2}
  Vessel <- MCVessel
  External = {MAEU, ONEY}
  Supported = {MAEU, ONEY}
  Maersk = {MAEU}
  ReadsImo = {MAEU, ONEY}
  Indexing = {MAEU, ONEY}
INVARIANTS TypeOK EveryCarrierAnswered
PROPERTIES HandlerReturns NoGoroutineLeak ImplementsContract
CHECK_DEADLOCK FALSE
