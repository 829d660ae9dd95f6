SPECIFICATION Spec
CONSTANTS
  first = first
  second = second
  third = third
  i1 = i1
  i2 = i2
  i3 = i3
  i4 = i4
  None = None
  Texts <- MCTexts
  Inodes <- MCInodes
  Calls <- MCCalls
  Platforms <- MCPlatforms
  MaxCalls = 1
  MaxUser = 2
  MaxFaults = 1
SYMMETRY Symmetry
INVARIANTS
  TypeOK
  UsersVersionSurvives
  NoTempIsLeft
PROPERTIES
  OnlyWhatWasReadIsReplaced
  WrittenIsShown
CHECK_DEADLOCK FALSE
