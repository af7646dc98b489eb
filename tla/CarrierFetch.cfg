SPECIFICATION Spec
CONSTANTS
  None = None
  Now = 1050
  MaxRoutes = 1
  Routes <- MCRoutes
  Queries <- MCQueries
INVARIANTS AskedWithWhatItRequires CompleteIsValid StaysJoined VesselSearch TransshipmentSearch
CHECK_DEADLOCK FALSE
