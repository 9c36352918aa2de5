CONSTANTS
  t1 = t1 t2 = t2 t3 = t3
  Targets = {t1, t2, t3}
  Refusing = {t1}
  BatchSizes = {2, 3}
  Batch0 = 2
  PageSize = 2
  MaxPlans = 3
  MaxEpoch = 1
SPECIFICATION Spec
INVARIANTS TypeOK JobIndexConsistent
PROPERTIES OnlyActiveJobsAdvance RunDueServesAll AutomationServesAll
CHECK_DEADLOCK FALSE
