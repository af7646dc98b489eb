SPECIFICATION Spec
CONSTANTS
  None = None
  Now = 1050
  MaxRoutes = 1
  Routes <- MCRoutes
  Queries <- MCQueries
INVARIANT ServiceByCodeOrName
CHECK_DEADLOCK FALSE
