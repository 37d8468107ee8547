SPECIFICATION Spec
CONSTANTS
  Tests = {s, t}
  Contexts = {c, d}
  PluginSets <- MyPluginSets
  NoOne = NoOne
  WatchScores <- MyScores
  MaxDepth = 2
INVARIANTS
  ErrorsHeard
CHECK_DEADLOCK FALSE
