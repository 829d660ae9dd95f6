SPECIFICATION Spec
CONSTANTS
  edit = edit
  add = add
  Changes <- MCChanges
  NewFiles <- MCNewFiles
  Passing <- MCPassing
  Configs <- MCConfigs
  VerifyAttempts = 2
  MaxTasks = 2
  MaxEdits = 2
  MaxFaults = 1
  MaxUser = 1
INVARIANTS
  TypeOK
  AttemptIsKept
  RollbackIsJustified
  RollbackRestoresStart
  PromotedPassedWithoutCheckpoints
  OnlyMergedWorkIsRemoved
PROPERTIES
  MainOnlyMovesForward
CHECK_DEADLOCK FALSE
