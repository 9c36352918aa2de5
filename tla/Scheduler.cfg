CONSTANTS
  t1 = t1 t2 = t2
  Targets = {t1, t2}
  Refusing = {t1}
  PageSize = 1
  MaxPlans = 2
  MaxEpoch = 1
  Jobs0 <- TwoJobs
  Planned = {t2}
  PageLimit = 0
  MaxPagesPerJob = 2
  MaxChanges = 2
  MaxFaults = 1
SPECIFICATION LiveSpec
PROPERTIES RunsTheJobItNames RevertsOnlyWhenRaced ReadyJobsServed BoundariesNoticed UncoveredReported
CHECK_DEADLOCK FALSE
