SPECIFICATION WorkflowsSpec
CONSTANTS
  MaximumAttempts = 2
  PollInterval = 2
  MaxRuntime = 4
  MaxAttempts = 3
  MaxFaults = 2
INVARIANTS Inv CancelIsHonoured VerdictIsRight
PROPERTY EveryWorkflowEnds
CHECK_DEADLOCK FALSE
