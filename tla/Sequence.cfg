CONSTANTS
  Steps = {1, 2}
  Lists <- OneOrTwo
  Tails <- Rebuilt
  WaitCloses = TRUE
  MaxNonce = 3
SPECIFICATION LiveSpec
INVARIANTS TypeOK NoStepSentTwice FailedStepDidNotRun StepsRunInOrder SyncedWalletIsCurrent
PROPERTIES FlowsEnd ImplementsOrderedSteps
CHECK_DEADLOCK FALSE
