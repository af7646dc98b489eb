SPECIFICATION Spec
CONSTANTS
  StopLists <- MCStopLists
  Voyages <- MCVoyages
  Documents <- MCDocuments
INVARIANTS OneCallPerStop NumberedInOrder CallsNameTheirVoyages EveryStopListed CallsAsStated
CHECK_DEADLOCK FALSE
