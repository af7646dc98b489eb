SPECIFICATION Spec
CONSTANTS
  r1 = r1
  r2 = r2
  v1 = v1
  v2 = v2
  Unset = Unset
  Requests = {r1, r2}
  Carriers = {MAEU}
  Vessels = {v1, v2}
  Vessel <- MCVessel
  External = {MAEU}
  Supported = {MAEU}
  Maersk = {MAEU}
  ReadsImo = {MAEU}
  Indexing = {MAEU}
INVARIANT RequestedVessel
CHECK_DEADLOCK FALSE
