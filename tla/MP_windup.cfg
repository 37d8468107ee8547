SPECIFICATION Spec
CONSTANTS
  a = a
  b = b
  c = c
  NoTask = NoTask
  STOP = STOP
  Size <- SizeOf
  Tasks = {a, b, c}
  Slow = {}
  Hang = {}
  Stuck = {}
  NumWorkers = 1
  MaxProcs = 1
  MaxInterrupts = 2
  StopOnError = TRUE
  RestartWorker = FALSE
  Faults = {"fail", "raise", "exit", "collect", "teardown"}
INVARIANTS
  StopBound
  InterruptObeyed
