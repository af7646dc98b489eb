SPECIFICATION FairSpec
CONSTANTS
  MaxRetries = 2
  MaxPages = 2
INVARIANTS TypeOK CachesWhatItReturns PagesOnce NoStragglers
PROPERTIES WindsDownOnceCancelled Returns
CHECK_DEADLOCK FALSE
