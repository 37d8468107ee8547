SPECIFICATION Spec
CONSTANTS
  Tests = {s, t}
  Contexts = {c, d}
  PluginSets <- MyPluginSets
  NoOne = NoOne
  WatchScores <- MyScores
  MaxDepth = 2
SYMMETRY Alike
INVARIANTS
  OutputKept
  ResultsAgree
CHECK_DEADLOCK FALSE
