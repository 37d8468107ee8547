SPECIFICATION Spec
CONSTANTS
  m1 = m1
  m2 = m2
  f = f
  NoTest = NoTest
  Tests = {m1, m2, f}
  Methods = {m1, m2}
  Contents <- MyContents
  CmdLines <- MyCmdLines
INVARIANTS
  IdsKept
  FailuresNoted
PROPERTIES
  RerunsNoted
