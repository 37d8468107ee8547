SPECIFICATION Spec
CONSTANTS
  N = 2
  Stacks <- MyStacks
  MaxStops = 2
INVARIANTS
  OwnAnswer
  NothingOutlives
  FixturesNested
PROPERTIES
  TimedTestsEnd
CHECK_DEADLOCK FALSE
