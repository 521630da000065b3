SPECIFICATION ChecksSpec
CONSTANTS
  nan = nan
  unset = unset
  RuleSets <- SomeRuleSets
  FieldValues <- SomeFieldValues
  NaN = nan
  Unset = unset
  Infinite <- Infinities
  PerSecond = 4
  MaxSecond = 7
  MaxNano = 7
  Wide = 64
  MinTime <- Earliest
  MaxTime = 15
  ClockReadings = {0, 2, 8}
INVARIANT InDeclaredOrder
CHECK_DEADLOCK FALSE
