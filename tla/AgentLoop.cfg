SPECIFICATION FairSpec
CONSTANTS
  a = a
  b = b
  say = say
  blank = blank
  NoCall = NoCall
  Calls <- MCCalls
  Replies <- MCReplies
  BlankReplies <- MCBlankReplies
  Completions <- MCCompletions
  MaxSteps = 3
  VerifyAttempts = 1
  StallNudge = 2
  StallAbort = 3
  KeepRecent = 3
  MinEvict = 2
  MaxTasks = 2
  MaxFaults = 1
INVARIANTS
  TypeOK
  TranscriptIsPaired
  SavedIsResumable
  CrashLosesOneTurn
  StallIsStopped
PROPERTIES
  AnsweredIsMeaningful
  CompactionKeepsTheTail
  TaskEnds
CHECK_DEADLOCK FALSE
