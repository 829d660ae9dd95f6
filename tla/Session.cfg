SPECIFICATION Spec
CONSTANTS
  Platforms = {"linux", "other"}
  OutputLimit = 1
  MaxWritten = 2
  MaxForks = 1
  MaxTasks = 2
  MaxSteps = 2
  MaxCalls = 1
  MaxSignals = 2
  Setups <- MCSetups
  Lines <- MCLines
INVARIANTS
  TypeOK
  OutcomeIsTrue
  OnlyItsOwnInterrupt
PROPERTIES
  NothingUnapproved
  InterruptEndsTask
