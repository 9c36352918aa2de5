CONSTANTS
  MaxChanges = 1
  MaxFaults = 0
SPECIFICATION LiveSpec
INVARIANTS NeverHiddenOnTrust
CHECK_DEADLOCK FALSE
