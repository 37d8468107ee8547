---------------------------- MODULE MultiProcess ----------------------------
(***************************************************************************)
(* The multiprocess test runner of nose/plugins/multiprocess.py: a parent  *)
(* that has queued the test addresses (module Dispatch says which), N      *)
(* worker processes that take them from a shared queue and post results,   *)
(* and the timeouts the parent enforces by signalling its workers.         *)
(*                                                                         *)
(* Time is abstract: late[p] says that more than the process timeout (less *)
(* the 0.1s margin) has passed since currentstart of worker p was written. *)
(***************************************************************************)
EXTENDS Integers, FiniteSets, Sequences

CONSTANTS
  Tasks,          \* the addresses collect() queued
  Size,           \* Size[t]: the tests in the suite that address t loads
  Slow,           \* tasks that may run beyond the timeout
  Hang,           \* slow tasks whose first test never ends by itself
  Stuck,          \* hanging tasks that no signal interrupts (C code)
  NumWorkers,     \* --processes
  MaxProcs,       \* bound on the processes ever started
  MaxInterrupts,  \* bound on the times the user presses ctrl-c
  StopOnError,    \* --stop
  RestartWorker,  \* --process-restartworker
  Faults,         \* what may go wrong in the tests: a subset of FaultKinds
  NoTask, STOP

FaultKinds == {"collect", "fail", "raise", "exit", "crash", "load", "slowload",
               "teardown"}

ASSUME TasksAssumption ==
  /\ IsFiniteSet(Tasks)
  /\ NoTask \notin Tasks
  /\ STOP \notin Tasks
  /\ Size \in [Tasks -> Nat]
  /\ Slow \subseteq Tasks /\ Hang \subseteq Slow /\ Stuck \subseteq Hang

ASSUME OptionsAssumption ==
  /\ NumWorkers \in Nat \ {0}
  /\ MaxProcs \in Nat /\ NumWorkers <= MaxProcs
  /\ MaxInterrupts \in Nat
  /\ StopOnError \in BOOLEAN
  /\ RestartWorker \in BOOLEAN
  /\ Faults \subseteq FaultKinds

Slots == 1 .. NumWorkers
Procs == 1 .. MaxProcs

VARIABLES
  ppc,          \* where the parent is in run()
  cursor,       \* the worker slot a loop of the parent is at (iworker)
  anyAlive,     \* any_alive of the loop over the workers
  tasks,        \* addresses without a result yet
  failed,       \* not result.wasSuccessful()
  testsRun,     \* result.testsRun
  shouldStop,   \* the event that tells workers to stop
  thrown,       \* thrownError is set
  interrupts,   \* how often the user has pressed ctrl-c
  sharedUp,     \* shared fixtures are set up and not torn down
  testQueue,    \* addresses, then STOP sentinels
  resultQueue,  \* what workers posted and the parent has not read
  worker,       \* workers[i]: the process now in slot i
  nextProc,     \* the next process to start
  pc,           \* where each process is in __runner
  slotOf,       \* ix, the slot a process was started for
  held,         \* test_addr of the loop in __runner
  left,         \* tests of the suite still to run
  ran,          \* testsRun of the worker's own result
  err,          \* that result has failures or errors
  currentaddr,  \* shared memory: is the address non-empty?
  late,         \* time.time() - currentstart exceeds the timeout
  keyboardCaught, \* shared event: the worker has handled the timeout
  pending,      \* signals sent to a process and not delivered yet
  cause,        \* history: why a process ended
  broken,       \* history: tasks that had a test fail or raise
  reported,     \* history: how many results of a task were consolidated
  afterStop     \* history: tasks loaded after shouldStop was set

loop    == <<ppc, cursor, anyAlive>>
outcome == <<tasks, failed, testsRun, reported>>
flags   == <<shouldStop, thrown, interrupts, sharedUp>>
queues  == <<testQueue, resultQueue>>
pool    == <<worker, slotOf, nextProc>>
process == <<pc, cause>>
suite   == <<held, left, ran, err>>
shared  == <<currentaddr, late, keyboardCaught, pending>>
history == <<broken, afterStop>>
parent  == <<loop, outcome, flags, pool>>
vars    == <<parent, queues, process, suite, shared, history>>

-----------------------------------------------------------------------------
Alive(p) == pc[p] \notin {"unborn", "dead"}

\* The states of the try block in __runner that reports a task's outcome.
Busy == {"mark", "run", "report", "posted"}
Handling == {"caught", "fail", "abort"}
ProcStates == {"unborn", "get", "check", "load", "loop", "dead"}
                \cup Busy \cup Handling

Causes == {"none", "stop", "idle", "restart",
           "stopped", "ILL", "INT", "exit", "crash", "terminated"}
\* Ends of a process at which the task it holds has no result.
Abrupt == {"stopped", "ILL", "INT", "exit", "crash", "terminated"}

ParentStates == {"start", "wait", "scan", "hit", "kill", "rejoin",
                 "teardown", "summary", "stop", "join", "done", "raised"}

Result == [slot : Slots, task : Tasks, ran : Nat, err : BOOLEAN]

Orders == {q \in [1 .. Cardinality(Tasks) -> Tasks] :
             \A t \in Tasks : \E i \in DOMAIN q : q[i] = t}

Init ==
  /\ ppc = "start" /\ cursor = 1 /\ anyAlive = FALSE
  /\ tasks = Tasks
  /\ failed \in BOOLEAN /\ (failed => "collect" \in Faults)
  /\ testsRun = 0
  /\ shouldStop = FALSE /\ thrown = FALSE /\ interrupts = 0
  /\ sharedUp = TRUE
  /\ testQueue \in Orders
  /\ resultQueue = <<>>
  /\ worker = [i \in Slots |-> 1] /\ nextProc = 1
  /\ pc = [p \in Procs |-> "unborn"]
  /\ slotOf = [p \in Procs |-> 1]
  /\ held = [p \in Procs |-> NoTask]
  /\ left = [p \in Procs |-> 0] /\ ran = [p \in Procs |-> 0]
  /\ err = [p \in Procs |-> FALSE]
  /\ currentaddr = [p \in Procs |-> FALSE]
  /\ late = [p \in Procs |-> FALSE]
  /\ keyboardCaught = [p \in Procs |-> FALSE]
  /\ pending = [p \in Procs |-> {}]
  /\ cause = [p \in Procs |-> "none"]
  /\ broken = {} /\ afterStop = 0
  /\ reported = [t \in Tasks |-> 0]

-----------------------------------------------------------------------------
(***************************************************************************)
(* A worker process: __runner.                                             *)
(***************************************************************************)
At(p, l) == pc[p] = l
Go(p, l) == pc' = [pc EXCEPT ![p] = l]
Die(p, why) == /\ pc' = [pc EXCEPT ![p] = "dead"]
               /\ cause' = [cause EXCEPT ![p] = why]

\* Mutant of Message: the number of the process in place of its slot.
MessageByProcess(p, n, e) ==
  [slot |-> p, task |-> held[p], ran |-> n, err |-> e]
Message(p, n, e) ==
  [slot |-> slotOf[p], task |-> held[p], ran |-> n, err |-> e]
Post(p, n, e) == resultQueue' = Append(resultQueue, Message(p, n, e))

Clear(p) == currentaddr' = [currentaddr EXCEPT ![p] = FALSE]

\* The first test of the suite that p runs cannot end by itself.
Hangs(p) == held[p] \in Hang /\ ran[p] = 0

Get(p) ==
  /\ At(p, "get") /\ testQueue # <<>> /\ Head(testQueue) # STOP
  /\ held' = [held EXCEPT ![p] = Head(testQueue)]
  /\ testQueue' = Tail(testQueue)
  /\ Go(p, "check")
  /\ UNCHANGED <<parent, resultQueue, cause, left, ran, err, shared, history>>

GetStop(p) ==
  /\ At(p, "get") /\ testQueue # <<>> /\ Head(testQueue) = STOP
  /\ testQueue' = Tail(testQueue)
  /\ Die(p, "stop")
  /\ UNCHANGED <<parent, resultQueue, suite, shared, history>>

\* testQueue.get times out: runner() swallows Empty and the process ends.
Idle(p) ==
  /\ At(p, "get") /\ testQueue = <<>>
  /\ Die(p, "idle")
  /\ UNCHANGED <<parent, queues, suite, shared, history>>

\* Mutant of MustStop: the event is never looked at.
NeverStop == FALSE
MustStop == shouldStop

\* The address just taken is dropped when the parent has set shouldStop.
Check(p) ==
  /\ At(p, "check")
  /\ IF MustStop
       THEN Die(p, "stopped")
       ELSE Go(p, "load") /\ UNCHANGED cause
  /\ UNCHANGED <<parent, queues, suite, shared, history>>

MakeResult(p) == /\ ran' = [ran EXCEPT ![p] = 0]
                 /\ err' = [err EXCEPT ![p] = FALSE]

\* makeResult, loadTestsFromNames, then currentaddr is written.
Load(p) ==
  /\ At(p, "load")
  /\ left' = [left EXCEPT ![p] = Size[held[p]]]
  /\ MakeResult(p)
  /\ currentaddr' = [currentaddr EXCEPT ![p] = TRUE]
  /\ Go(p, "mark")
  /\ afterStop' = IF shouldStop THEN afterStop + 1 ELSE afterStop
  /\ UNCHANGED <<parent, queues, cause, held, late, keyboardCaught, pending, broken>>

\* An exception while loading is outside the try block: the process ends.
LoadFails(p) ==
  /\ At(p, "load") /\ "load" \in Faults
  /\ Die(p, "exit")
  /\ broken' = broken \cup {held[p]}
  /\ UNCHANGED <<parent, queues, suite, shared, afterStop>>

MarkStart(p) ==
  /\ At(p, "mark")
  /\ late' = [late EXCEPT ![p] = FALSE]
  /\ Go(p, "run")
  /\ UNCHANGED <<parent, queues, cause, suite, currentaddr, keyboardCaught,
                 pending, history>>

\* One test of the suite ends; with --stop a failure ends the suite.
RunTest(p) ==
  /\ At(p, "run") /\ left[p] > 0 /\ ~Hangs(p)
  /\ ran' = [ran EXCEPT ![p] = @ + 1]
  /\ \/ /\ left' = [left EXCEPT ![p] = @ - 1]
        /\ UNCHANGED <<err, broken>>
     \/ /\ "fail" \in Faults
        /\ left' = [left EXCEPT ![p] = IF StopOnError THEN 0 ELSE @ - 1]
        /\ err' = [err EXCEPT ![p] = TRUE]
        /\ broken' = broken \cup {held[p]}
  /\ UNCHANGED <<parent, queues, process, held, shared, afterStop>>

SuiteDone(p) ==
  /\ At(p, "run") /\ left[p] = 0
  /\ Clear(p)
  /\ Go(p, "report")
  /\ UNCHANGED <<parent, queues, cause, suite, late, keyboardCaught, pending,
                 history>>

\* batch(result) asks each failed case for its id(), which runs it again: a
\* test that hung and was interrupted hangs here once more.
Report(p) ==
  /\ At(p, "report") /\ ~(err[p] /\ held[p] \in Hang)
  /\ Post(p, ran[p], err[p])
  /\ Go(p, "posted")
  /\ UNCHANGED <<parent, testQueue, cause, suite, shared, history>>

\* An Exception that escapes test(result) or batch(result).
RunRaises(p) ==
  /\ "raise" \in Faults
  /\ pc[p] \in {"run", "report"}
  /\ Clear(p)
  /\ Go(p, "fail")
  /\ broken' = broken \cup {held[p]}
  /\ UNCHANGED <<parent, queues, cause, suite, late, keyboardCaught, pending, afterStop>>

\* SystemExit from a fixture: the address is cleared and the process ends.
FixtureExits(p) ==
  /\ "exit" \in Faults
  /\ At(p, "run")
  /\ Clear(p)
  /\ Die(p, "exit")
  /\ broken' = broken \cup {held[p]}
  /\ UNCHANGED <<parent, queues, suite, late, keyboardCaught, pending, afterStop>>

\* The handler of a timeout: the event first, then a minimal result.
HandleTimeout(p) ==
  /\ At(p, "caught")
  /\ keyboardCaught' = [keyboardCaught EXCEPT ![p] = TRUE]
  /\ Go(p, "fail")
  /\ UNCHANGED <<parent, queues, cause, suite, currentaddr, late, pending,
                 history>>

PostFailure(p) ==
  /\ At(p, "fail")
  /\ Post(p, 0, TRUE)
  /\ Clear(p)
  /\ Go(p, "loop")
  /\ UNCHANGED <<parent, testQueue, cause, suite, late, keyboardCaught,
                 pending, history>>

\* The handler of ctrl-c posts the same result and raises again.
PostInterrupt(p) ==
  /\ At(p, "abort")
  /\ Post(p, 0, TRUE)
  /\ Clear(p)
  /\ Die(p, "INT")
  /\ UNCHANGED <<parent, testQueue, suite, late, keyboardCaught, pending,
                 history>>

EndsAfterTask == RestartWorker

NextTask(p) ==
  /\ pc[p] \in {"posted", "loop"}
  /\ held' = [held EXCEPT ![p] = NoTask]
  /\ IF EndsAfterTask
       THEN Die(p, "restart")
       ELSE Go(p, "get") /\ UNCHANGED cause
  /\ UNCHANGED <<parent, queues, left, ran, err, shared, history>>

\* The process dies without unwinding: os._exit, a segmentation fault.
Crash(p) ==
  /\ "crash" \in Faults
  /\ At(p, "run")
  /\ Die(p, "crash")
  /\ broken' = broken \cup {held[p]}
  /\ UNCHANGED <<parent, queues, suite, shared, afterStop>>

-----------------------------------------------------------------------------
(***************************************************************************)
(* Signals.  "ILL" raises TimedOutException, "INT" KeyboardInterrupt, at   *)
(* whatever point of the worker they are delivered.                        *)
(***************************************************************************)
Consume(p, s) == pending' = [pending EXCEPT ![p] = @ \ {s}]

\* Mutant of HandlerOf: the handler only logs, and no result is posted.
LoggingHandler(s) == IF s = "ILL" THEN "loop" ELSE "abort"
HandlerOf(s) == IF s = "ILL" THEN "caught" ELSE "abort"

Interruptible(p) == ~(At(p, "run") /\ Hangs(p) /\ held[p] \in Stuck)

\* Outside the try block, or inside one of its handlers: only runner() is left
\* to catch it, and the process ends.
DeliverOutside(p, s) ==
  /\ s \in pending[p]
  /\ Alive(p) /\ pc[p] \notin Busy
  /\ Consume(p, s)
  /\ Die(p, s)
  /\ UNCHANGED <<parent, queues, suite, currentaddr, late, keyboardCaught,
                 history>>

\* In the try block, in no test: __runner's own handler catches it.
DeliverInRunner(p, s) ==
  /\ s \in pending[p]
  /\ pc[p] \in Busy /\ Interruptible(p)
  /\ Consume(p, s)
  /\ Go(p, HandlerOf(s))
  /\ broken' = broken \cup {held[p]}
  /\ UNCHANGED <<parent, queues, cause, suite, currentaddr, late,
                 keyboardCaught, afterStop>>

\* Mutant of RaisesAgain: ctrl-c is taken for a timeout.
NeverRaises(s) == FALSE
RaisesAgain(s) == s = "INT"

\* In a test: NoSharedFixtureContextSuite.run records the error.  After a
\* timeout it goes on with the next test and keyboardCaught stays clear; after
\* ctrl-c it raises again.
DeliverInTest(p, s) ==
  /\ s \in pending[p]
  /\ At(p, "run") /\ left[p] > 0 /\ Interruptible(p)
  /\ Consume(p, s)
  /\ left' = [left EXCEPT ![p] = @ - 1]
  /\ ran' = [ran EXCEPT ![p] = @ + 1]
  /\ err' = [err EXCEPT ![p] = TRUE]
  /\ broken' = broken \cup {held[p]}
  /\ IF RaisesAgain(s) THEN Go(p, "abort") ELSE UNCHANGED pc
  /\ UNCHANGED <<parent, queues, cause, held, currentaddr, late,
                 keyboardCaught, afterStop>>

Deliver(p) == \E s \in {"ILL", "INT"} : \/ DeliverOutside(p, s)
                                        \/ DeliverInRunner(p, s)
                                        \/ DeliverInTest(p, s)

\* Time passes: a slow task exceeds the timeout, or a worker waits so long for
\* its next task that its previous currentstart is old.
Tick(p) ==
  /\ ~late[p]
  /\ \/ /\ Alive(p) /\ held[p] \in Slow
        /\ pc[p] \in {"check", "load", "mark"} => "slowload" \in Faults
     \/ At(p, "get") /\ testQueue = <<>>
  /\ late' = [late EXCEPT ![p] = TRUE]
  /\ UNCHANGED <<parent, queues, process, suite, currentaddr, keyboardCaught,
                 pending, history>>

-----------------------------------------------------------------------------
(***************************************************************************)
(* The parent: NoseMultiProcessTestRunner.run after collect.               *)
(***************************************************************************)
\* startProcess(i): a fresh process with fresh shared memory.
StartProcess(i) ==
  /\ nextProc <= MaxProcs
  /\ worker' = [worker EXCEPT ![i] = nextProc]
  /\ slotOf' = [slotOf EXCEPT ![nextProc] = i]
  /\ nextProc' = nextProc + 1

StartWorker ==
  /\ ppc = "start" /\ cursor <= NumWorkers
  /\ StartProcess(cursor)
  /\ Go(nextProc, "get")
  /\ cursor' = cursor + 1
  /\ UNCHANGED <<ppc, anyAlive, outcome, flags, queues, cause, suite, shared,
                 history>>

EnterLoop ==
  /\ ppc = "start" /\ cursor > NumWorkers
  /\ ppc' = "wait"
  /\ UNCHANGED <<cursor, anyAlive, outcome, flags, pool, queues, process,
                 suite, shared, history>>

\* Mutant of Waiting: leave the loop as soon as the queue is drained.
WaitingForQueue == ppc = "wait" /\ testQueue # <<>>
Waiting == ppc = "wait" /\ tasks # {}

\* Mutant of Unsuccessful: the last result decides.
LastUnsuccessful(m) == m.err
Unsuccessful(m) == failed \/ m.err

\* resultQueue.get returns: the address leaves tasks (a second result for it is
\* only logged) and the batch is consolidated in any case.
Receive ==
  /\ Waiting /\ resultQueue # <<>>
  /\ LET m == Head(resultQueue) IN
       /\ tasks' = tasks \ {m.task}
       /\ reported' = [reported EXCEPT ![m.task] = @ + 1]
       /\ testsRun' = testsRun + m.ran
       /\ failed' = Unsuccessful(m)
       /\ IF StopOnError /\ Unsuccessful(m)
            THEN shouldStop' = TRUE /\ ppc' = "teardown" /\ UNCHANGED cursor
            ELSE /\ UNCHANGED shouldStop
                 /\ IF RestartWorker
                      THEN ppc' = "rejoin" /\ cursor' = m.slot
                      ELSE UNCHANGED <<ppc, cursor>>
  /\ resultQueue' = Tail(resultQueue)
  /\ UNCHANGED <<anyAlive, thrown, interrupts, sharedUp, pool, testQueue,
                 process, suite, shared, history>>

\* Mutant of MoreWork: one address too few.
MoreThanOne == ~shouldStop /\ Len(testQueue) > 1
MoreWork == ~shouldStop /\ testQueue # <<>>

\* workers[iworker].join(timeout=1) returns, the worker ended or not.  A new
\* process takes the slot while there are addresses queued.
Rejoin ==
  /\ ppc = "rejoin"
  /\ ppc' = "wait"
  /\ IF MoreWork
       THEN StartProcess(cursor) /\ Go(nextProc, "get")
       ELSE UNCHANGED <<worker, slotOf, nextProc, pc>>
  /\ UNCHANGED <<cursor, anyAlive, outcome, flags, queues, cause, suite,
                 shared, history>>

AllDone ==
  /\ ppc = "wait" /\ ~Waiting
  /\ ppc' = "teardown"
  /\ UNCHANGED <<cursor, anyAlive, outcome, flags, pool, queues, process,
                 suite, shared, history>>

\* resultQueue.get raises Empty, wherever the workers are: look at each in turn.
GetTimesOut ==
  /\ Waiting /\ resultQueue = <<>>
  /\ ppc' = "scan" /\ cursor' = 1 /\ anyAlive' = FALSE
  /\ UNCHANGED <<outcome, flags, pool, queues, process, suite, shared,
                 history>>

\* Reads is_alive, currentaddr and currentstart of one worker.
ScanWorker ==
  /\ ppc = "scan" /\ cursor <= NumWorkers
  /\ LET w == worker[cursor] IN
       /\ anyAlive' = (anyAlive \/ (Alive(w) /\ (currentaddr[w] \/ ~late[w])))
       /\ IF Alive(w) /\ currentaddr[w] /\ late[w]
            THEN ppc' = "hit" /\ UNCHANGED cursor
            ELSE cursor' = cursor + 1 /\ UNCHANGED ppc
  /\ UNCHANGED <<outcome, flags, pool, queues, process, suite, shared,
                 history>>

\* Clears what the worker reports of itself, whatever it runs by now.
TimeOutWorker ==
  /\ ppc = "hit"
  /\ LET w == worker[cursor] IN
       /\ Clear(w)
       /\ keyboardCaught' = [keyboardCaught EXCEPT ![w] = FALSE]
  /\ ppc' = "kill"
  /\ UNCHANGED <<cursor, anyAlive, outcome, flags, pool, queues, process,
                 suite, late, pending, history>>

Resisting(w) == Alive(w) /\ ~keyboardCaught[w]

SendSigill ==
  /\ ppc = "kill"
  /\ LET w == worker[cursor] IN
       /\ Resisting(w)
       /\ pending' = [pending EXCEPT ![w] = @ \cup {"ILL"}]
  /\ UNCHANGED <<parent, queues, process, suite, currentaddr, late,
                 keyboardCaught, history>>

KillDone ==
  /\ ppc = "kill" /\ ~Resisting(worker[cursor])
  /\ ppc' = "scan" /\ cursor' = cursor + 1
  /\ UNCHANGED <<anyAlive, outcome, flags, pool, queues, process, suite,
                 shared, history>>

\* waitkilltime has passed with a signal unanswered: SIGTERM, and a new process
\* takes the slot.
Terminate ==
  /\ ppc = "kill"
  /\ LET w == worker[cursor] IN
       /\ Resisting(w) /\ "ILL" \in pending[w]
       /\ StartProcess(cursor)
       /\ pc' = [pc EXCEPT ![w] = "dead", ![nextProc] = "get"]
       /\ cause' = [cause EXCEPT ![w] = "terminated"]
  /\ ppc' = "scan" /\ cursor' = cursor + 1
  /\ UNCHANGED <<anyAlive, outcome, flags, queues, suite, shared, history>>

\* Mutant of AllGone: only results end the wait.
AllReported == tasks = {}
AllGone == ~anyAlive /\ testQueue = <<>>

ScanDone ==
  /\ ppc = "scan" /\ cursor > NumWorkers
  /\ ppc' = IF AllGone THEN "teardown" ELSE "wait"
  /\ UNCHANGED <<cursor, anyAlive, outcome, flags, pool, queues, process,
                 suite, shared, history>>

\* The shared fixtures set up by collect are torn down.
TeardownShared ==
  /\ ppc = "teardown"
  /\ sharedUp' = FALSE
  /\ \/ UNCHANGED failed
     \/ "teardown" \in Faults /\ failed' = TRUE
  /\ ppc' = "summary"
  /\ UNCHANGED <<cursor, anyAlive, tasks, testsRun, reported, shouldStop,
                 thrown, interrupts, pool, queues, process, suite, shared,
                 history>>

\* printErrors, printSummary, finalize.
Summarize ==
  /\ ppc = "summary"
  /\ ppc' = IF thrown THEN "join" ELSE "stop"
  /\ cursor' = 1
  /\ UNCHANGED <<anyAlive, outcome, flags, pool, queues, process, suite,
                 shared, history>>

\* One STOP for each worker that is alive when its turn comes.
TellStop ==
  /\ ppc = "stop"
  /\ IF cursor > NumWorkers
       THEN ppc' = "join" /\ cursor' = 1 /\ UNCHANGED testQueue
       ELSE /\ cursor' = cursor + 1
            /\ testQueue' = IF Alive(worker[cursor])
                              THEN Append(testQueue, STOP) ELSE testQueue
            /\ UNCHANGED ppc
  /\ UNCHANGED <<anyAlive, outcome, flags, pool, resultQueue, process, suite,
                 shared, history>>

\* Mutant of MustJoin: a worker that reports no test is not waited for.
BusyOnly(w) == Alive(w) /\ currentaddr[w]
MustJoin(w) == Alive(w)

\* worker.join() without a timeout, one worker after the other.
Join ==
  /\ ppc = "join"
  /\ IF cursor > NumWorkers
       THEN ppc' = "done" /\ UNCHANGED cursor
       ELSE ~MustJoin(worker[cursor]) /\ cursor' = cursor + 1 /\ UNCHANGED ppc
  /\ UNCHANGED <<anyAlive, outcome, flags, pool, queues, process, suite,
                 shared, history>>

Interrupted == [p \in Procs |-> IF Alive(p) THEN pending[p] \cup {"INT"}
                                            ELSE pending[p]]

\* Ctrl-c reaches the parent and its children.  In the loop it is recorded as
\* an error and the run is wound up.
InterruptLoop ==
  /\ interrupts < MaxInterrupts
  /\ ppc \in {"wait", "scan", "hit", "kill", "rejoin"}
  /\ interrupts' = interrupts + 1
  /\ thrown' = TRUE /\ failed' = TRUE
  /\ ppc' = "teardown"
  /\ pending' = Interrupted
  /\ UNCHANGED <<cursor, anyAlive, tasks, testsRun, reported, shouldStop,
                 sharedUp, pool, queues, process, suite, currentaddr, late,
                 keyboardCaught, history>>

\* While shutting down it terminates every worker and is raised again.
InterruptShutdown ==
  /\ interrupts < MaxInterrupts
  /\ ppc \in {"teardown", "summary", "stop", "join"}
  /\ interrupts' = interrupts + 1
  /\ ppc' = "raised"
  /\ LET killed == {p \in Procs : Alive(p) /\ \E i \in Slots : worker[i] = p} IN
       /\ pc' = [p \in Procs |-> IF p \in killed THEN "dead" ELSE pc[p]]
       /\ cause' = [p \in Procs |-> IF p \in killed THEN "terminated"
                                                    ELSE cause[p]]
  /\ pending' = Interrupted
  /\ UNCHANGED <<cursor, anyAlive, outcome, shouldStop, thrown, sharedUp, pool,
                 queues, suite, currentaddr, late, keyboardCaught, history>>

-----------------------------------------------------------------------------
Work(p) ==
  \/ Get(p) \/ GetStop(p) \/ Idle(p) \/ Check(p) \/ Load(p) \/ MarkStart(p)
  \/ RunTest(p) \/ SuiteDone(p) \/ Report(p)
  \/ HandleTimeout(p) \/ PostFailure(p) \/ PostInterrupt(p) \/ NextTask(p)

Fault(p) == LoadFails(p) \/ RunRaises(p) \/ FixtureExits(p) \/ Crash(p)

Parent ==
  \/ StartWorker \/ EnterLoop \/ Receive \/ Rejoin \/ AllDone \/ GetTimesOut
  \/ ScanWorker \/ TimeOutWorker \/ KillDone \/ ScanDone
  \/ TeardownShared \/ Summarize \/ TellStop \/ Join

Finished == ppc \in {"done", "raised"} /\ \A p \in Procs : ~Alive(p)
Terminated == Finished /\ UNCHANGED vars

Next ==
  \/ \E p \in Procs : Work(p) \/ Fault(p) \/ Deliver(p) \/ Tick(p)
  \/ Parent \/ SendSigill \/ Terminate
  \/ InterruptLoop \/ InterruptShutdown
  \/ Terminated

Spec == Init /\ [][Next]_vars

\* Every process is scheduled; a pending signal is delivered; a task that has
\* run for too long is found late; the loop that kills a worker signals it in
\* each turn and gives up after waitkilltime.  No fault ever has to happen.
Fairness ==
  /\ \A p \in Procs : WF_vars(Work(p)) /\ WF_vars(Deliver(p)) /\ WF_vars(Tick(p))
  /\ WF_vars(Parent) /\ WF_vars(SendSigill) /\ WF_vars(Terminate)

FairSpec == Spec /\ Fairness

-----------------------------------------------------------------------------
(***************************************************************************)
(* Properties.                                                             *)
(***************************************************************************)
TypeOfParent ==
  /\ ppc \in ParentStates /\ cursor \in 1 .. NumWorkers + 1
  /\ anyAlive \in BOOLEAN
  /\ tasks \subseteq Tasks /\ failed \in BOOLEAN /\ testsRun \in Nat
  /\ reported \in [Tasks -> Nat]
  /\ shouldStop \in BOOLEAN /\ thrown \in BOOLEAN /\ sharedUp \in BOOLEAN
  /\ interrupts \in 0 .. MaxInterrupts
TypeOfQueues ==
  /\ testQueue \in Seq(Tasks \cup {STOP}) /\ resultQueue \in Seq(Result)
TypeOfPool ==
  /\ worker \in [Slots -> Procs] /\ nextProc \in 1 .. MaxProcs + 1
  /\ slotOf \in [Procs -> Slots]
TypeOfProcess ==
  /\ pc \in [Procs -> ProcStates] /\ cause \in [Procs -> Causes]
  /\ held \in [Procs -> Tasks \cup {NoTask}]
  /\ left \in [Procs -> Nat] /\ ran \in [Procs -> Nat]
  /\ err \in [Procs -> BOOLEAN]
TypeOfShared ==
  /\ currentaddr \in [Procs -> BOOLEAN] /\ late \in [Procs -> BOOLEAN]
  /\ keyboardCaught \in [Procs -> BOOLEAN]
  /\ pending \in [Procs -> SUBSET {"ILL", "INT"}]
TypeOfHistory ==
  broken \subseteq Tasks /\ afterStop \in Nat

\* Each variable has its type.
TypeOK == /\ TypeOfParent /\ TypeOfQueues /\ TypeOfPool
          /\ TypeOfProcess /\ TypeOfShared /\ TypeOfHistory

\* An address that still awaits its result is in a queue, or with a live worker,
\* or was with a worker that ended abruptly: no step of the protocol, no
\* timeout, restart or stop may lose one silently.
Queued(t)   == \E i \in 1 .. Len(testQueue) : testQueue[i] = t
Posted(t)   == \E i \in 1 .. Len(resultQueue) : resultQueue[i].task = t
WithWorker(t) == \E p \in Procs : held[p] = t /\ (Alive(p) \/ cause[p] \in Abrupt)
NoTaskForgotten == \A t \in tasks : Queued(t) \/ Posted(t) \/ WithWorker(t)

Summarized == ppc \in {"stop", "join", "done"}

LostWithWorker(t) == \E p \in Procs : held[p] = t /\ ~Alive(p) /\ cause[p] \in Abrupt
Accounted(t) ==
  \/ reported[t] = 1 /\ ~Posted(t)
  \/ reported[t] = 0 /\ (Posted(t) \/ LostWithWorker(t))
Retired(p) == ~Alive(p) \/ pc[p] \in {"get", "posted", "loop"}

\* When the summary of a run that was not stopped has been printed, no address is
\* queued or in work, and each was reported to the parent once, but for two kinds:
\* a worker that ended abruptly takes the address it held with it, and a result
\* that a worker posts between Empty and the parent's look at it, the last thing
\* that worker does, may be left unread.
EveryTaskAccounted ==
  Summarized /\ ~thrown /\ ~shouldStop =>
    /\ \A t \in Tasks : ~Queued(t) /\ Accounted(t)
    /\ \A p \in Procs : Retired(p)

\* The tests of a set of tasks, and the tasks that were reported.
TestsOf(T) == UNION {{t} \X (1 .. Size[t]) : t \in T}
Reported == {t \in Tasks : reported[t] > 0}
TestsCounted ==
  testsRun \in Cardinality(TestsOf(Reported \ broken)) .. Cardinality(TestsOf(Reported))
VerdictSound ==
  /\ broken \cap Reported # {} => failed
  /\ failed => broken # {} \/ thrown \/ Faults \cap {"collect", "teardown"} # {}

\* The summary is right: it counts each test of each task that was reported, once,
\* whichever worker ran it (tasks that were broken off may count for less), and
\* the run is a failure exactly when some task failed, collection, shared teardown and
\* interrupts apart: no order of results, no restart and no exception in a worker
\* hides one (consolidate, run).
SummarySound == Summarized => TestsCounted /\ VerdictSound

WorkersInSlots == \A p \in Procs : Alive(p) => \E i \in Slots : worker[i] = p

\* Every live process is the worker of a slot, where the parent can signal and
\* join it, and none is left when run() returns.
WorkersTracked ==
  /\ WorkersInSlots
  /\ ppc \in {"done", "raised"} => \A p \in Procs : ~Alive(p)

\* While addresses are queued and the parent waits, some worker is there to take
\* them, or a result is there to make the parent start one.
QueueServed ==
  ppc = "wait" /\ testQueue # <<>> =>
    resultQueue # <<>> \/ \E p \in Procs : Alive(p)

\* Shared fixtures are up whenever a test runs.
SharedFixturesUp == \A p \in Procs : At(p, "run") => sharedUp

\* After --stop has set shouldStop, each worker starts at most the one task it
\* had already checked the event for.
StopBound == afterStop <= NumWorkers

Starved == testQueue # <<>> /\ \A p \in Procs : ~Alive(p)

\* The run ends, with all processes gone: whatever hangs is signalled or killed,
\* and whoever joins a worker sees it end.  One thing alone can stop it: every
\* worker has died and left addresses in the queue.
Termination == <>[](Finished \/ Starved)

\* After ctrl-c a worker reports the task it is at and takes no other: it has
\* the interrupt pending, or is in the handler that ends it.
InterruptObeyed ==
  thrown => \A p \in Procs : Alive(p) => "INT" \in pending[p] \/ At(p, "abort")

=============================================================================
