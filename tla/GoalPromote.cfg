SPECIFICATION Spec
CONSTANTS
  edit = edit
  add = add
  Changes <- MCChanges
  NewFiles <- MCNewFiles
  Passing <- MCPassing
  Configs <- MCConfigs
  VerifyAttempts = 1
  MaxTasks = 1
  MaxEdits = 2
  MaxFaults = 1
  MaxUser = 1
INVARIANT
  PromotedPassed
CHECK_DEADLOCK FALSE
