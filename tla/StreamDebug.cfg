SPECIFICATION FairSpec
CONSTANTS
  prose = prose
  object = object
  open = open
  close = close
  nothing = nothing
  say = say
  run = run
  Tokens <- MCTokens
  Calls <- MCCalls
  Replies <- MCReplies
  Serialized <- MCSerialized
  EmptyArray <- MCEmptyArray
  Chunks <- MCChunks
  JSONModes <- AllModes
  Debug <- LogOn
  MaxRetries = 1
  MaxChunks = 3
  MaxRequests = 2
  MaxInterrupts = 1
PROPERTY
  RequestAlwaysReturns
CHECK_DEADLOCK FALSE
