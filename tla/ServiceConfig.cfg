SPECIFICATION FairSpec
CONSTANTS
  CMDU = CMDU
  ANNU = ANNU
  MSCU = MSCU
  Requests = {r1}
  Codes = {CMDU, ANNU, MSCU}
  Excluded = {ANNU}
  Contents <- MCContents
INVARIANT AdmittedByOneVersion
PROPERTY ChangesArrive
