SPECIFICATION Spec
CONSTANTS
  prose = prose
  object = object
  open = open
  close = close
  nothing = nothing
  say = say
  run = run
  Tokens <- MCTokens
  Calls <- MCCalls
  Replies <- MCReplies
  Serialized <- MCSerialized
  EmptyArray <- MCEmptyArray
  Chunks <- MCChunks
  JSONModes <- JSONOnly
  Debug <- LogOff
  MaxRetries = 1
  MaxChunks = 3
  MaxRequests = 1
  MaxInterrupts = 1
PROPERTY
  CallsAreOfTheWholeContent
CHECK_DEADLOCK FALSE
