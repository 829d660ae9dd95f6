SPECIFICATION Spec
CONSTANTS
  MaxStarts = 2
  MaxTurns = 2
  MaxEvents = 3
  MaxCalls = 1
  MaxTail = 2
INVARIANTS
  TypeOK
  TextSurvives
  IndicatorIsGone
