CONSTANTS
  MaxChanges = 1
  MaxFaults = 1
SPECIFICATION LiveSpec
INVARIANTS TypeOK RemovedIsGone LegsFit GoneIsUnindexed
PROPERTIES RemovalEnds ValueShows
CHECK_DEADLOCK FALSE
