CONSTANTS
  t1 = t1 t2 = t2
  Targets = {t1, t2}
  Refusing = {t1}
  PageSize = 1
  MaxPlans = 1
  MaxEpoch = 2
  Jobs0 <- TwoJobs
  Planned = {}
  PageLimit = 0
  MaxPagesPerJob = 1
  MaxChanges = 1
  MaxFaults = 0
SPECIFICATION LiveSpec
PROPERTIES IdleChainNudged
CHECK_DEADLOCK FALSE
