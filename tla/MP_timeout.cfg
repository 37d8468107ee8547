SPECIFICATION FairSpec
CONSTANTS
  a = a
  b = b
  c = c
  NoTask = NoTask
  STOP = STOP
  Size <- SizeOf
  Tasks = {a, b}
  Slow = {a}
  Hang = {a}
  Stuck = {}
  NumWorkers = 2
  MaxProcs = 4
  MaxInterrupts = 0
  StopOnError = FALSE
  RestartWorker = FALSE
  Faults = {"load", "exit", "crash", "fail"}
INVARIANTS
  NoTaskForgotten
  WorkersTracked
PROPERTIES
  Termination
CHECK_DEADLOCK FALSE
