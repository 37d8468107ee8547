SPECIFICATION Spec
CONSTANTS
  M = "M"
  L = "L"
  Files <- MyFiles
  Dirs <- MyDirs
  Matching <- MyMatching
  Private = {"_test"}
  Included <- MyIncluded
  Excluded <- MyExcluded
  KnownToPlugin <- MyKnown
  SrcDirs = {"lib", "src"}
  Obj <- MyObj
  Order <- MyOrder
  WorkingDir <- W
  Inputs <- MyInputs
INVARIANTS
  RunsSelected
  SameTests
  FixturesUp
  NamesLead
  DoctestsOnce
CHECK_DEADLOCK FALSE
