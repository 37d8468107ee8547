SPECIFICATION Spec
CONSTANTS
  a = a
  b = b
  c = c
  NoTask = NoTask
  STOP = STOP
  Size <- SizeOf
  Tasks = {a, b, c}
  Slow = {}
  Hang = {}
  Stuck = {}
  NumWorkers = 2
  MaxProcs = 5
  MaxInterrupts = 0
  StopOnError = FALSE
  RestartWorker = TRUE
  Faults = {"raise"}
INVARIANTS
  EveryTaskAccounted
  TypeOK
  QueueServed
  SummarySound
  SharedFixturesUp
SYMMETRY Alike
