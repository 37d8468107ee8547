SPECIFICATION Spec
CONSTANTS
  Nodes <- MyNodes
  Kind <- MyKind
  NameOf <- MyNameOf
  Entries <- MyEntries
  TestLike <- MyTestLike
  Broken = {"B/q/t"}
  Command <- MyCommand
  Helper = "helper"
INVARIANTS
  DiscoveredOnce
  OwnFile
  RootOnPath
  Isolated
CHECK_DEADLOCK FALSE
