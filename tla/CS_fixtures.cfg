SPECIFICATION Spec
CONSTANTS
  p = p
  a = a
  b = b
  A = A
  m = m
  s = s
  t = t
  u = u
  NoContext = NoContext
  Contexts <- MyContexts
  Around <- MyAround
  Programs <- MyPrograms
  Outcomes = {"ok", "error", "interrupt", "exit", "timeout"}
  MaxNames = 3
INVARIANTS
  TypeOK
  TestsLeaveNothingUp
  AllTestsRun
  FactoryGroups
  Nested
PROPERTIES
  FixturesKept
