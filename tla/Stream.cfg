SPECIFICATION FairSpec
CONSTANTS
  prose = prose
  object = object
  open = open
  close = close
  nothing = nothing
  say = say
  run = run
  Tokens <- MCTokens
  Calls <- MCCalls
  Replies <- MCReplies
  Serialized <- MCSerialized
  EmptyArray <- MCEmptyArray
  Chunks <- MCChunks
  JSONModes <- AllModes
  Debug <- AllModes
  MaxRetries = 1
  MaxChunks = 3
  MaxRequests = 2
  MaxInterrupts = 1
INVARIANTS
  TypeOK
  ShownIsRecorded
  LogIsSequential
PROPERTIES
  BrokenIsAnError
  InterruptIsObeyed
  RequestReturns
CHECK_DEADLOCK FALSE
