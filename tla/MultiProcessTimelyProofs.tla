---------------------- MODULE MultiProcessTimelyProofs ----------------------
(***************************************************************************)
(* Theorems about the runs of MultiProcess in which no task takes longer   *)
(* than the timeout: what the summary says, that each address is accounted *)
(* for, that shared fixtures are up while tests run, that queued           *)
(* addresses are served, and how much runs after --stop.                   *)
(***************************************************************************)
EXTENDS MultiProcessProofs

\* No task may exceed the timeout.
Timely == Slow = {}

\* The run has not been interrupted.
Calm == ~thrown /\ ppc # "raised"

Winding == {"teardown", "summary", "stop", "join", "done"}
Looping == {"wait", "scan", "rejoin"}

\* Only sentinels are queued.
NoAddress == \A i \in 1 .. Len(testQueue) : testQueue[i] = STOP

\* No worker is ever found late: it is late only while there is no address to wait for.
NoTimeouts ==
  /\ ppc \notin {"hit", "kill"}
  /\ \A p \in Procs :
       /\ "ILL" \notin pending[p] /\ pc[p] # "caught"
       /\ currentaddr[p] => pc[p] \in {"mark", "run", "abort", "dead"}
       /\ late[p] => pc[p] \in {"get", "dead"} /\ NoAddress
\* Without an interrupt no signal is on its way.
Quiet == Calm => \A p \in Procs : pending[p] = {} /\ pc[p] # "abort"
\* The parent stops before it tells the workers.
StopOrder ==
  /\ shouldStop => ppc \in Winding \cup {"raised"}
  /\ ppc \in {"start", "teardown", "summary"} \cup Looping =>
       \A i \in 1 .. Len(testQueue) : testQueue[i] # STOP
Peace == Typing /\ NoTimeouts /\ Quiet /\ StopOrder /\ WindingUp /\ InterruptObeyed

\* What a process does in a run without timeouts and interrupts.
CalmWork(p) ==
  \/ Get(p) \/ GetStop(p) \/ Idle(p) \/ Check(p) \/ Load(p) \/ MarkStart(p)
  \/ RunTest(p) \/ SuiteDone(p) \/ Report(p) \/ PostFailure(p) \/ NextTask(p)
  \/ Fault(p) \/ Tick(p)

\* What the parent does in one.
CalmParent ==
  \/ StartWorker \/ EnterLoop \/ Receive \/ Rejoin \/ AllDone \/ GetTimesOut
  \/ ScanWorker \/ ScanDone \/ TeardownShared \/ Summarize \/ TellStop \/ Join \/ Terminated

USE DEF parent, queues, process, suite, shared, history, loop, outcome, flags, pool

\* A step of p changes nothing of another process.
LEMMA OthersKept ==
  ASSUME Typing, NEW p \in Procs, Step(p)
  PROVE  \A q \in Procs \ {p} :
           /\ pc'[q] = pc[q] /\ held'[q] = held[q] /\ cause'[q] = cause[q]
           /\ left'[q] = left[q] /\ ran'[q] = ran[q] /\ err'[q] = err[q]
           /\ currentaddr'[q] = currentaddr[q] /\ late'[q] = late[q] /\ pending'[q] = pending[q]
<1>1. \A q \in Procs \ {p} : pc'[q] = pc[q] /\ held'[q] = held[q] /\ cause'[q] = cause[q]
  BY StepMoves
<1>2. /\ left \in [Procs -> Nat] /\ ran \in [Procs -> Nat] /\ err \in [Procs -> BOOLEAN]
      /\ currentaddr \in [Procs -> BOOLEAN] /\ late \in [Procs -> BOOLEAN]
      /\ pending \in [Procs -> SUBSET {"ILL", "INT"}]
  BY DEF Typing, WorkerTyping, TypeOfProcess, TypeOfShared
<1>3. /\ \/ left' = left \/ \E n : left' = [left EXCEPT ![p] = n]
      /\ \/ ran' = ran \/ \E n : ran' = [ran EXCEPT ![p] = n]
      /\ \/ err' = err \/ \E n : err' = [err EXCEPT ![p] = n]
  BY
    DEF MakeResult, Step, Work, Fault, Deliver, Get, GetStop, Idle, Check, Load, LoadFails,
        MarkStart, RunTest, SuiteDone, Report, RunRaises, FixtureExits, HandleTimeout,
        PostFailure, PostInterrupt, NextTask, Crash, Tick, DeliverOutside, DeliverInRunner,
        DeliverInTest
<1>4. /\ \/ currentaddr' = currentaddr \/ \E n : currentaddr' = [currentaddr EXCEPT ![p] = n]
      /\ \/ late' = late \/ \E n : late' = [late EXCEPT ![p] = n]
      /\ \/ pending' = pending \/ \E n : pending' = [pending EXCEPT ![p] = n]
  BY
    DEF Clear, Consume, Step, Work, Fault, Deliver, Get, GetStop, Idle, Check, Load,
        LoadFails, MarkStart, RunTest, SuiteDone, Report, RunRaises, FixtureExits,
        HandleTimeout, PostFailure, PostInterrupt, NextTask, Crash, Tick, DeliverOutside,
        DeliverInRunner, DeliverInTest
<1> QED
  BY <1>1, <1>2, <1>3, <1>4

\* Sentinels only are left after one has been taken.
LEMMA NoAddressKept ==
  ASSUME Typing, NoAddress, NEW p \in Procs, Step(p)
  PROVE  NoAddress' /\ ~Get(p)
<1>1. testQueue \in Seq(Tasks \cup {STOP})
  BY DEF Typing, WorkerTyping, TypeOfQueues
<1>2. ~Get(p)
  BY <1>1, HeadTailProperties DEF Get, NoAddress
<1>3. CASE GetStop(p)
  <2>1. testQueue # <<>> /\ testQueue' = Tail(testQueue)
    BY <1>3 DEF GetStop
  <2>2. \A k \in 1 .. Len(Tail(testQueue)) :
          k + 1 \in 1 .. Len(testQueue) /\ Tail(testQueue)[k] = testQueue[k + 1]
    BY <1>1, <2>1, HeadTailProperties
  <2> QED
    BY <1>2, <2>1, <2>2 DEF NoAddress
<1>4. CASE ~GetStop(p)
  <2>1. testQueue' = testQueue
    BY <1>2, <1>4
      DEF Step, Work, Fault, Deliver, Idle, Check, Load, LoadFails, MarkStart, RunTest,
          SuiteDone, Report, RunRaises, FixtureExits, HandleTimeout, PostFailure,
          PostInterrupt, NextTask, Crash, Tick, DeliverOutside, DeliverInRunner,
          DeliverInTest
  <2> QED
    BY <1>2, <2>1 DEF NoAddress
<1> QED
  BY <1>3, <1>4

\* Where a step of p leads in a run without timeouts.
LEMMA StepUntimed ==
  ASSUME Timely, Typing, NoTimeouts, NEW p \in Procs, Step(p)
  PROVE  /\ "ILL" \notin pending'[p] /\ pc'[p] # "caught"
         /\ currentaddr'[p] => pc'[p] \in {"mark", "run", "abort", "dead"}
         /\ late'[p] => pc'[p] \in {"get", "dead"} /\ NoAddress
<1>1. /\ "ILL" \notin pending[p] /\ pc[p] # "caught"
      /\ currentaddr[p] => pc[p] \in {"mark", "run", "abort", "dead"}
      /\ late[p] => pc[p] \in {"get", "dead"} /\ NoAddress
      /\ held[p] \notin Slow
  BY DEF NoTimeouts, Timely
<1>2. /\ pc \in [Procs -> ProcStates] /\ currentaddr \in [Procs -> BOOLEAN]
      /\ late \in [Procs -> BOOLEAN] /\ pending \in [Procs -> SUBSET {"ILL", "INT"}]
  BY DEF Typing, WorkerTyping, TypeOfProcess, TypeOfShared
<1>3. late[p] => ~Get(p)
  BY <1>1, NoAddressKept
<1>4. testQueue = <<>> => NoAddress
  BY DEF NoAddress
<1> HIDE DEF NoAddress
<1>5. CASE Work(p)
  BY <1>1, <1>2, <1>3, <1>5
  DEF Work, Get, GetStop, Idle, Check, Load, MarkStart, RunTest, SuiteDone, Report,
      HandleTimeout, PostFailure, PostInterrupt, NextTask, At, Go, Die, Clear
<1>6. CASE Fault(p)
  BY <1>1, <1>2, <1>6 DEF Fault, LoadFails, RunRaises, FixtureExits, Crash, At, Go, Die, Clear
<1>7. CASE Tick(p)
  BY <1>1, <1>2, <1>4, <1>7 DEF Tick, At
<1>8. CASE Deliver(p)
  <2>1. \/ DeliverOutside(p, "INT") \/ DeliverInRunner(p, "INT") \/ DeliverInTest(p, "INT")
    BY <1>1, <1>8 DEF Deliver, DeliverOutside, DeliverInRunner, DeliverInTest
  <2>2. pc'[p] \in {"dead", "abort"} /\ currentaddr' = currentaddr
    BY <1>2, <2>1
    DEF DeliverOutside, DeliverInRunner, DeliverInTest, Go, Die, HandlerOf, RaisesAgain
  <2>3. late' = late /\ pending'[p] \subseteq pending[p]
    BY <1>2, <2>1 DEF DeliverOutside, DeliverInRunner, DeliverInTest, Consume
  <2>4. late[p] => pc'[p] = "dead"
    BY <1>1, <1>2, <2>1
    DEF DeliverOutside, DeliverInRunner, DeliverInTest, At, Go, Die, Busy
  <2> QED
    BY <1>1, <2>2, <2>3, <2>4
<1> QED
  BY <1>5, <1>6, <1>7, <1>8 DEF Step

LEMMA WorkerUntimed ==
  ASSUME Timely, Typing, NoTimeouts, NEW p \in Procs, Step(p)
  PROVE  NoTimeouts'
<1>1. ppc' = ppc
  BY ParentKept
<1>2. ASSUME NEW q \in Procs
      PROVE  /\ "ILL" \notin pending'[q] /\ pc'[q] # "caught"
             /\ currentaddr'[q] => pc'[q] \in {"mark", "run", "abort", "dead"}
             /\ late'[q] => pc'[q] \in {"get", "dead"} /\ NoAddress
  BY OthersKept, StepUntimed DEF NoTimeouts
<1>3. NoAddress => NoAddress'
  BY NoAddressKept
<1> QED
  BY <1>1, <1>2, <1>3 DEF NoTimeouts

\* Only an interrupt makes the parent touch what a worker shares with it.
LEMMA ParentLeaves ==
  ASSUME Typing, NoTimeouts, ParentStep
  PROVE  /\ UNCHANGED <<currentaddr, late>>
         /\ \A p \in Procs : pending'[p] \subseteq pending[p] \cup {"INT"}
         /\ ppc' \notin {"hit", "kill"}
         /\ \/ /\ CalmParent /\ UNCHANGED <<pending, thrown, interrupts>>
               /\ ppc # "raised" /\ ppc' # "raised"
            \/ CalmParent /\ UNCHANGED vars
            \/ InterruptLoop \/ InterruptShutdown
<1>1. ppc \notin {"hit", "kill"} /\ CursorInSlots /\ worker \in [Slots -> Procs]
  BY DEF NoTimeouts, Typing, ParentTyping, TypeOfPool
<1>2. CalmParent \/ InterruptLoop \/ InterruptShutdown
  BY <1>1 DEF CalmParent, ParentStep, Parent, TimeOutWorker, KillDone, SendSigill, Terminate
<1>3. CASE CalmParent
  <2>1. UNCHANGED <<currentaddr, late, pending, thrown, interrupts>>
    BY <1>3
      DEF CalmParent, StartWorker, EnterLoop, Receive, Rejoin, AllDone, GetTimesOut,
          ScanWorker, ScanDone, TeardownShared, Summarize, TellStop, Join, Terminated, vars
  <2>2. ppc' \notin {"hit", "kill"}
    <3>1. CASE ScanWorker
      <4>1. cursor \in Slots
        BY <3>1, OptionsAssumption
        DEF ScanWorker, Slots, Typing, ParentTyping, TypeOfParent
      <4>2. ~(Alive(worker[cursor]) /\ currentaddr[worker[cursor]] /\ late[worker[cursor]])
        BY <1>1, <4>1 DEF NoTimeouts, Alive
      <4> QED
        BY <1>1, <3>1, <4>2 DEF ScanWorker
    <3>2. CASE ~ScanWorker
      BY <1>1, <1>3, <3>2
        DEF CalmParent, StartWorker, EnterLoop, Receive, Rejoin, AllDone, GetTimesOut,
            ScanDone, TeardownShared, Summarize, TellStop, Join, Terminated, vars
    <3> QED
      BY <3>1, <3>2
  <2>3. (ppc # "raised" /\ ppc' # "raised") \/ UNCHANGED vars
    BY <1>3
      DEF Waiting, CalmParent, StartWorker, EnterLoop, Receive, Rejoin, AllDone,
          GetTimesOut, ScanWorker, ScanDone, TeardownShared, Summarize, TellStop, Join,
          Terminated, vars
  <2> QED
    BY <1>3, <2>1, <2>2, <2>3
<1>4. CASE InterruptLoop \/ InterruptShutdown
  <2>1. pending \in [Procs -> SUBSET {"ILL", "INT"}]
    BY DEF Typing, WorkerTyping, TypeOfShared
  <2> QED
    BY <1>4, <2>1 DEF InterruptLoop, InterruptShutdown, Interrupted
<1> QED
  BY <1>2, <1>3, <1>4

\* The parent adds no address to the queue.
LEMMA ParentQueues ==
  ASSUME Typing, ParentStep
  PROVE  testQueue' = testQueue \/ (TellStop /\ testQueue' = Append(testQueue, STOP))
  BY
    DEF ParentStep, Parent, StartWorker, EnterLoop, Receive, Rejoin, AllDone, GetTimesOut,
        ScanWorker, TimeOutWorker, KillDone, ScanDone, TeardownShared, Summarize, TellStop,
        Join, SendSigill, Terminate, InterruptLoop, InterruptShutdown, Terminated, vars

LEMMA ParentUntimed ==
  ASSUME Typing, NoTimeouts, ParentStep
  PROVE  NoTimeouts'
<1>1. NoAddress => NoAddress'
  <2>1. testQueue \in Seq(Tasks \cup {STOP})
    BY DEF Typing, WorkerTyping, TypeOfQueues
  <2>2. ASSUME NoAddress, testQueue' = Append(testQueue, STOP)
        PROVE  NoAddress'
    <3>1. /\ Len(testQueue) \in Nat /\ Len(testQueue') = Len(testQueue) + 1
          /\ testQueue'[Len(testQueue) + 1] = STOP
          /\ \A k \in 1 .. Len(testQueue) : testQueue'[k] = testQueue[k]
      BY <2>1, <2>2, AppendProperties
    <3> QED
      BY <2>2, <3>1 DEF NoAddress
  <2> QED
    BY <2>2, ParentQueues DEF NoAddress
<1>2. ASSUME NEW p \in Procs
      PROVE  /\ "ILL" \notin pending'[p] /\ pc'[p] # "caught"
             /\ currentaddr'[p] => pc'[p] \in {"mark", "run", "abort", "dead"}
             /\ late'[p] => pc'[p] \in {"get", "dead"} /\ NoAddress
  <2>1. /\ "ILL" \notin pending'[p]
        /\ currentaddr'[p] = currentaddr[p] /\ late'[p] = late[p]
    BY ParentLeaves DEF NoTimeouts
  <2>2. \/ pc'[p] = pc[p] \/ pc'[p] = "dead"
        \/ pc'[p] = "get" /\ pc[p] = "unborn"
    <3>1. nextProc \in Nat /\ \A q \in Procs : q = nextProc => pc[q] = "unborn"
      BY OptionsAssumption DEF Typing, ParentTyping, WorkerTyping, TypeOfPool, UnbornOK, Procs
    <3> QED
      BY <3>1, ParentSteps
  <2> QED
    BY <2>1, <2>2 DEF NoTimeouts
<1> QED
  BY <1>1, <1>2, ParentLeaves DEF NoTimeouts

LEMMA NextUntimed ==
  ASSUME Timely, Typing, NoTimeouts, [Next]_vars
  PROVE  NoTimeouts'
<1>1. CASE \E p \in Procs : Step(p)
  BY <1>1, WorkerUntimed
<1>2. CASE ParentStep
  BY <1>2, ParentUntimed
<1>3. CASE UNCHANGED vars
  BY <1>3 DEF vars, NoTimeouts, NoAddress
<1> QED
  BY <1>1, <1>2, <1>3 DEF Next, Step, ParentStep

\* Without timeouts and interrupts no signal is delivered.
LEMMA WorkIsCalm ==
  ASSUME Typing, NoTimeouts, Quiet, Calm, NEW p \in Procs, Step(p)
  PROVE  CalmWork(p) /\ pending' = pending /\ pc'[p] # "abort"
<1>1. pending[p] = {} /\ pc[p] \notin {"abort", "caught"} /\ pc \in [Procs -> ProcStates]
  BY DEF Quiet, NoTimeouts, Typing, WorkerTyping, TypeOfProcess
<1>2. CalmWork(p)
  BY <1>1
  DEF Step, Work, Deliver, DeliverOutside, DeliverInRunner, DeliverInTest, HandleTimeout,
      PostInterrupt, At, CalmWork
<1>3. pending' = pending
  BY <1>2
    DEF CalmWork, Fault, Get, GetStop, Idle, Check, Load, LoadFails, MarkStart, RunTest,
        SuiteDone, Report, RunRaises, FixtureExits, PostFailure, NextTask, Crash, Tick
<1>4. pc'[p] # "abort"
  BY <1>1, <1>2
    DEF Go, Die, CalmWork, Fault, Get, GetStop, Idle, Check, Load, LoadFails, MarkStart,
        RunTest, SuiteDone, Report, RunRaises, FixtureExits, PostFailure, NextTask, Crash,
        Tick
<1> QED
  BY <1>2, <1>3, <1>4

\* An interrupt is not undone.
LEMMA CalmBefore ==
  ASSUME Typing, NoTimeouts, ParentStep, Calm'
  PROVE  Calm /\ pending' = pending /\ CalmParent /\ ~InterruptLoop /\ ~InterruptShutdown
<1>1. ~InterruptLoop /\ ~InterruptShutdown
  BY DEF Calm, InterruptLoop, InterruptShutdown
<1> QED
  BY <1>1, ParentLeaves DEF Calm, vars

LEMMA NextQuiet ==
  ASSUME Typing, NoTimeouts, Quiet, [Next]_vars
  PROVE  Quiet'
<1> SUFFICES ASSUME Calm' PROVE \A q \in Procs : pending'[q] = {} /\ pc'[q] # "abort"
  BY DEF Quiet
<1>1. CASE \E p \in Procs : Step(p)
  <2>1. PICK p \in Procs : Step(p)
    BY <1>1
  <2>2. Calm
    BY <2>1, ParentKept DEF Calm
  <2> QED
    BY <2>1, <2>2, WorkIsCalm, OthersKept DEF Quiet
<1>2. CASE ParentStep
  <2>1. pending' = pending /\ Calm
    BY <1>2, CalmBefore
  <2>2. \A q \in Procs : pc'[q] # "abort" \/ pc'[q] = pc[q]
    BY <1>2, ParentSteps
  <2> QED
    BY <2>1, <2>2 DEF Quiet
<1>3. CASE UNCHANGED vars
  BY <1>3 DEF vars, Quiet, Calm
<1> QED
  BY <1>1, <1>2, <1>3 DEF Next, Step, ParentStep

LEMMA NextStops ==
  ASSUME Typing, NoTimeouts, StopOrder, [Next]_vars
  PROVE  StopOrder'
<1> USE DEF Winding, Looping
<1>1. testQueue \in Seq(Tasks \cup {STOP})
  BY DEF Typing, WorkerTyping, TypeOfQueues
<1>2. CASE \E p \in Procs : Step(p)
  <2>1. PICK p \in Procs : Step(p)
    BY <1>2
  <2>2. ppc' = ppc /\ shouldStop' = shouldStop
    BY <2>1, ParentKept
  <2>3. testQueue' = testQueue \/ (testQueue # <<>> /\ testQueue' = Tail(testQueue))
    BY <2>1
      DEF Step, Work, Fault, Deliver, Get, GetStop, Idle, Check, Load, LoadFails, MarkStart,
          RunTest, SuiteDone, Report, RunRaises, FixtureExits, HandleTimeout, PostFailure,
          PostInterrupt, NextTask, Crash, Tick, DeliverOutside, DeliverInRunner,
          DeliverInTest
  <2>4. \A k \in 1 .. Len(testQueue') : \E j \in 1 .. Len(testQueue) : testQueue'[k] = testQueue[j]
    <3>1. CASE testQueue' = testQueue
      BY <3>1
    <3>2. CASE testQueue # <<>> /\ testQueue' = Tail(testQueue)
      <4>1. \A k \in 1 .. Len(Tail(testQueue)) :
              k + 1 \in 1 .. Len(testQueue) /\ Tail(testQueue)[k] = testQueue[k + 1]
        BY <1>1, <3>2, HeadTailProperties
      <4> QED
        BY <3>2, <4>1
    <3> QED
      BY <2>3, <3>1, <3>2
  <2> QED
    BY <2>2, <2>4 DEF StopOrder
<1>3. CASE ParentStep
  <2>1. ppc' \in {"start", "teardown", "summary", "wait", "scan", "rejoin"} =>
          testQueue' = testQueue /\ ppc \in {"start", "teardown", "summary", "wait", "scan", "rejoin"}
    BY <1>3
      DEF NoTimeouts, Waiting, ParentStep, Parent, StartWorker, EnterLoop, Receive, Rejoin,
          AllDone, GetTimesOut, ScanWorker, TimeOutWorker, KillDone, ScanDone,
          TeardownShared, Summarize, TellStop, Join, SendSigill, Terminate, InterruptLoop,
          InterruptShutdown, Terminated, vars
  <2>2. shouldStop' => ppc' \in Winding \cup {"raised"}
    BY <1>3
      DEF StopOrder, NoTimeouts, Waiting, ParentStep, Parent, StartWorker, EnterLoop,
          Receive, Rejoin, AllDone, GetTimesOut, ScanWorker, TimeOutWorker, KillDone,
          ScanDone, TeardownShared, Summarize, TellStop, Join, SendSigill, Terminate,
          InterruptLoop, InterruptShutdown, Terminated, vars
  <2> QED
    BY <2>1, <2>2 DEF StopOrder
<1>4. CASE UNCHANGED vars
  BY <1>4 DEF vars, StopOrder
<1> QED
  BY <1>2, <1>3, <1>4 DEF Next, Step, ParentStep

LEMMA InitPeace == Init => Peace
<1> SUFFICES ASSUME Init PROVE Peace
  OBVIOUS
<1>1. NoTimeouts /\ Quiet /\ WindingUp /\ InterruptObeyed
  BY DEF Init, NoTimeouts, Quiet, WindingUp, InterruptObeyed, Alive
<1>2. StopOrder
  <2>1. testQueue \in [1 .. Cardinality(Tasks) -> Tasks] /\ Cardinality(Tasks) \in Nat
    BY TasksAssumption, FS_CardinalityType DEF Init, Orders
  <2>2. \A i \in 1 .. Len(testQueue) : testQueue[i] # STOP
    <3> HIDE DEF Init
    <3> QED  BY <2>1, TasksAssumption
  <2> QED
    BY <2>2 DEF Init, StopOrder
<1> QED
  BY <1>1, <1>2, InitTyping DEF Peace

LEMMA NextPeace ==
  ASSUME Timely, Peace, [Next]_vars
  PROVE  Peace'
<1>1. Typing' /\ NoTimeouts' /\ Quiet' /\ StopOrder'
  BY NextTyping, NextUntimed, NextQuiet, NextStops DEF Peace
<1>2. WindingUp' /\ InterruptObeyed'
  <2>1. CASE \E p \in Procs : Step(p)
    BY <2>1, WorkerObeys DEF Peace
  <2>2. CASE ParentStep
    BY <2>2, ParentObeys DEF Peace
  <2>3. CASE UNCHANGED vars
    BY <2>3 DEF vars, Peace, WindingUp, InterruptObeyed, Alive, At
  <2> QED
    BY <2>1, <2>2, <2>3 DEF Next, Step, ParentStep
<1> QED
  BY <1>1, <1>2 DEF Peace

-----------------------------------------------------------------------------
(***************************************************************************)
(* Each address is in one place: queued, with one worker, or posted once.  *)
(* A worker that was interrupted may post a second time, so this is about  *)
(* runs that have not been.                                                *)
(***************************************************************************)
\* Where a process has an address without having posted a result of it.
AtWork == {"check", "load", "mark", "run", "report", "fail"}

Apart ==
  /\ \A i, j \in 1 .. Len(testQueue) :
       testQueue[i] = testQueue[j] /\ testQueue[i] # STOP => i = j
  /\ \A i, j \in 1 .. Len(resultQueue) :
       resultQueue[i].task = resultQueue[j].task => i = j
  /\ \A p, q \in Procs : held[p] = held[q] /\ held[p] # NoTask => p = q
  /\ \A t \in Tasks : Queued(t) => t \in tasks /\ ~Posted(t) /\ \A p \in Procs : held[p] # t
  /\ \A t \in Tasks : Posted(t) => t \in tasks
  /\ \A p \in Procs : pc[p] \in AtWork => held[p] \in tasks /\ ~Posted(held[p])

\* The elements of the tail of a sequence, and of a sequence with one more.
LEMMA TailElements ==
  ASSUME NEW S, NEW s \in Seq(S), s # <<>>
  PROVE  /\ Tail(s) \in Seq(S) /\ Len(Tail(s)) = Len(s) - 1 /\ Len(s) \in Nat /\ Len(s) >= 1
         /\ Head(s) = s[1] /\ 1 \in 1 .. Len(s) /\ s[1] \in S
         /\ \A k \in 1 .. Len(Tail(s)) : k + 1 \in 1 .. Len(s) /\ Tail(s)[k] = s[k + 1]
         /\ \A k \in 1 .. Len(s) : k = 1 \/ (k - 1 \in 1 .. Len(Tail(s)) /\ Tail(s)[k - 1] = s[k])
<1>1. /\ Tail(s) \in Seq(S) /\ Len(Tail(s)) = Len(s) - 1 /\ Len(s) \in Nat /\ Head(s) = s[1]
      /\ \A k \in 1 .. Len(Tail(s)) : Tail(s)[k] = s[k + 1]
  BY HeadTailProperties
<1>2. Len(s) >= 1
  BY <1>1, EmptySeq
<1>3. s[1] \in S
  BY <1>1, <1>2, ElementOfSeq
<1> QED
  BY <1>1, <1>2, <1>3

LEMMA AppendElements ==
  ASSUME NEW S, NEW s \in Seq(S), NEW e \in S
  PROVE  /\ Append(s, e) \in Seq(S) /\ Len(s) \in Nat /\ Len(Append(s, e)) = Len(s) + 1
         /\ Append(s, e)[Len(s) + 1] = e
         /\ \A k \in 1 .. Len(s) : Append(s, e)[k] = s[k]
         /\ \A k \in 1 .. Len(Append(s, e)) : k = Len(s) + 1 \/ k \in 1 .. Len(s)
BY AppendProperties

\* Which addresses are queued, and which posted, after one is taken or added.
LEMMA QueuedTail ==
  ASSUME Typing, testQueue # <<>>, testQueue' = Tail(testQueue), NEW t
  PROVE  Queued(t)' => Queued(t)
BY TailElements DEF Typing, WorkerTyping, TypeOfQueues, Queued

LEMMA PostedAppend ==
  ASSUME Typing, NEW m \in Result, resultQueue' = Append(resultQueue, m), NEW t
  PROVE  Posted(t)' <=> Posted(t) \/ t = m.task
<1>1. resultQueue \in Seq(Result)
  BY DEF Typing, WorkerTyping, TypeOfQueues
<1>2. /\ Len(resultQueue) \in Nat /\ Len(resultQueue') = Len(resultQueue) + 1
      /\ resultQueue'[Len(resultQueue) + 1] = m
      /\ \A k \in 1 .. Len(resultQueue) : resultQueue'[k] = resultQueue[k]
  BY <1>1, AppendElements
<1> QED
  BY <1>2 DEF Posted

LEMMA PostedTail ==
  ASSUME Typing, Apart, resultQueue # <<>>, resultQueue' = Tail(resultQueue), NEW t
  PROVE  Posted(t)' <=> Posted(t) /\ t # Head(resultQueue).task
<1>1. resultQueue \in Seq(Result)
  BY DEF Typing, WorkerTyping, TypeOfQueues
<1>2. /\ Len(resultQueue') = Len(resultQueue) - 1 /\ Len(resultQueue) \in Nat
      /\ Head(resultQueue) = resultQueue[1] /\ 1 \in 1 .. Len(resultQueue)
      /\ \A k \in 1 .. Len(resultQueue') :
           k + 1 \in 1 .. Len(resultQueue) /\ resultQueue'[k] = resultQueue[k + 1]
      /\ \A k \in 1 .. Len(resultQueue) :
           k = 1 \/ (k - 1 \in 1 .. Len(resultQueue') /\ resultQueue'[k - 1] = resultQueue[k])
  BY <1>1, TailElements
<1>3. \A k \in 2 .. Len(resultQueue) : resultQueue[k].task # resultQueue[1].task
  BY <1>2 DEF Apart
<1>4. ASSUME Posted(t)' PROVE Posted(t) /\ t # Head(resultQueue).task
  <2>1. PICK k \in 1 .. Len(resultQueue') : resultQueue'[k].task = t
    BY <1>4 DEF Posted
  <2>2. k + 1 \in 2 .. Len(resultQueue) /\ resultQueue[k + 1].task = t
    BY <1>2, <2>1
  <2> QED
    BY <1>2, <1>3, <2>2 DEF Posted
<1>5. ASSUME Posted(t), t # Head(resultQueue).task PROVE Posted(t)'
  <2>1. PICK k \in 1 .. Len(resultQueue) : resultQueue[k].task = t
    BY <1>5 DEF Posted
  <2>2. k - 1 \in 1 .. Len(resultQueue') /\ resultQueue'[k - 1].task = t
    BY <1>2, <1>5, <2>1
  <2> QED
    BY <2>2 DEF Posted
<1> QED
  BY <1>4, <1>5

\* The messages of a worker: one for the address it works on.
PostsResult(p) ==
  \E m \in Result :
    /\ m.slot = slotOf[p] /\ m.task = held[p]
    /\ \/ pc[p] = "report" /\ pc'[p] = "posted" /\ m.ran = ran[p] /\ m.err = err[p]
       \/ pc[p] = "fail" /\ pc'[p] = "loop" /\ m.ran = 0 /\ m.err = TRUE
    /\ resultQueue' = Append(resultQueue, m)
    /\ UNCHANGED <<testQueue, held, left, ran, err, broken>>

\* A step of p that neither takes an address nor posts a result.
Continues(p) ==
  /\ \/ testQueue' = testQueue
     \/ testQueue # <<>> /\ Head(testQueue) = STOP /\ testQueue' = Tail(testQueue)
  /\ resultQueue' = resultQueue
  /\ held'[p] \in {held[p], NoTask}
  /\ pc'[p] \in AtWork => pc[p] \in AtWork /\ held'[p] = held[p]
  /\ pc'[p] \in {"posted", "loop"} => pc'[p] = pc[p]
  /\ broken' = broken \/ (broken' = broken \cup {held[p]} /\ pc[p] \in AtWork)

\* The three things a worker does to the queues.
LEMMA WorkerMoves ==
  ASSUME Typing, NEW p \in Procs, CalmWork(p)
  PROVE  \/ Get(p) /\ held'[p] = testQueue[1] /\ testQueue[1] \in Tasks /\ pc'[p] = "check"
         \/ PostsResult(p)
         \/ Continues(p)
<1>1. /\ pc \in [Procs -> ProcStates] /\ held \in [Procs -> Tasks \cup {NoTask}]
      /\ ran[p] \in Nat /\ err[p] \in BOOLEAN /\ testQueue \in Seq(Tasks \cup {STOP})
      /\ slotOf[p] \in Slots /\ (HoldsTask(p) => held[p] \in Tasks)
  BY DEF Typing, WorkerTyping, ParentTyping, TypeOfProcess, TypeOfPool, TypeOfQueues, HeldOK
<1>2. CASE Get(p)
  <2>1. testQueue[1] \in Tasks /\ Head(testQueue) = testQueue[1]
    BY <1>1, <1>2, TailElements DEF Get
  <2> QED
    BY <1>1, <1>2, <2>1 DEF Get, Go
<1>3. CASE Report(p)
  <2>1. Message(p, ran[p], err[p]) \in Result
    BY <1>1, <1>3 DEF Report, At, HoldsTask, Busy, Message, Result
  <2> QED
    BY <1>1, <1>3, <2>1 DEF Report, At, Go, Post, Message, PostsResult
<1>4. CASE PostFailure(p)
  <2>1. Message(p, 0, TRUE) \in Result
    BY <1>1, <1>4 DEF PostFailure, At, HoldsTask, Handling, Message, Result
  <2> QED
    BY <1>1, <1>4, <2>1 DEF PostFailure, At, Go, Post, Message, PostsResult
<1>5. CASE ~(Get(p) \/ Report(p) \/ PostFailure(p))
  <2> USE DEF AtWork
  <2>1. /\ \/ testQueue' = testQueue
           \/ testQueue # <<>> /\ Head(testQueue) = STOP /\ testQueue' = Tail(testQueue)
        /\ resultQueue' = resultQueue
    BY <1>5
      DEF CalmWork, Fault, GetStop, Idle, Check, Load, LoadFails, MarkStart, RunTest,
          SuiteDone, RunRaises, FixtureExits, NextTask, Crash, Tick
  <2>2. held'[p] \in {held[p], NoTask}
    BY <1>1, <1>5
      DEF CalmWork, Fault, GetStop, Idle, Check, Load, LoadFails, MarkStart, RunTest,
          SuiteDone, RunRaises, FixtureExits, NextTask, Crash, Tick
  <2>3. /\ pc'[p] \in AtWork => pc[p] \in AtWork /\ held'[p] = held[p]
        /\ pc'[p] \in {"posted", "loop"} => pc'[p] = pc[p]
    BY <1>1, <1>5
      DEF At, Go, Die, CalmWork, Fault, GetStop, Idle, Check, Load, LoadFails, MarkStart,
          RunTest, SuiteDone, RunRaises, FixtureExits, NextTask, Crash, Tick
  <2>4. broken' = broken \/ (broken' = broken \cup {held[p]} /\ pc[p] \in AtWork)
    BY <1>5
      DEF At, CalmWork, Fault, GetStop, Idle, Check, Load, LoadFails, MarkStart, RunTest,
          SuiteDone, RunRaises, FixtureExits, NextTask, Crash, Tick
  <2> QED
    BY <2>1, <2>2, <2>3, <2>4 DEF Continues
<1> QED
  BY <1>2, <1>3, <1>4, <1>5


LEMMA WorkerApart ==
  ASSUME Typing, Apart, NEW p \in Procs, CalmWork(p)
  PROVE  Apart'
<1>1. /\ testQueue \in Seq(Tasks \cup {STOP}) /\ resultQueue \in Seq(Result)
      /\ held \in [Procs -> Tasks \cup {NoTask}] /\ NoTask \notin Tasks
      /\ HoldsTask(p) => held[p] \in Tasks
  BY TasksAssumption
  DEF Typing, WorkerTyping, TypeOfQueues, TypeOfProcess, HeldOK
<1>2. Step(p) /\ tasks' = tasks /\ \A q \in Procs \ {p} : pc'[q] = pc[q] /\ held'[q] = held[q]
  <2>1. Step(p)
    BY DEF CalmWork, Step, Work
  <2> QED
    BY <2>1, ParentKept, OthersKept
<1>3. ASSUME testQueue # <<>>, testQueue' = Tail(testQueue)
      PROVE  \A i, j \in 1 .. Len(testQueue') :
               testQueue'[i] = testQueue'[j] /\ testQueue'[i] # STOP => i = j
  BY <1>1, <1>3, TailElements DEF Apart
<1>4. CASE Get(p) /\ held'[p] = testQueue[1] /\ testQueue[1] \in Tasks /\ pc'[p] = "check"
  <2> PICK t \in Tasks : t = testQueue[1]
    BY <1>4
  <2>1. testQueue # <<>> /\ testQueue' = Tail(testQueue) /\ resultQueue' = resultQueue
    BY <1>4 DEF Get
  <2>2. /\ 1 \in 1 .. Len(testQueue)
        /\ \A k \in 1 .. Len(testQueue') :
             k + 1 \in 1 .. Len(testQueue) /\ testQueue'[k] = testQueue[k + 1] /\ k \in Nat
    BY <1>1, <2>1, TailElements
  <2>3. Queued(t) /\ t # STOP /\ t # NoTask
    BY <1>4, <2>2, TasksAssumption DEF Queued
  <2>4. ~Queued(t)'
    BY <2>2, <2>3 DEF Queued, Apart
  <2>5. t \in tasks /\ ~Posted(t) /\ \A q \in Procs : held[q] # t
    BY <1>4, <2>3 DEF Apart
  <2>6. \A u : Posted(u)' <=> Posted(u)
    BY <2>1 DEF Posted
  <2>7. \A u : Queued(u)' => Queued(u) /\ u # t
    BY <2>1, <2>4, QueuedTail
  <2>8. held'[p] = t /\ pc'[p] = "check"
    BY <1>4
  <2>9. \A q, r \in Procs : held'[q] = held'[r] /\ held'[q] # NoTask => q = r
    BY <1>2, <2>5, <2>8 DEF Apart
  <2> QED
    BY <1>2, <1>3, <2>1, <2>5, <2>6, <2>7, <2>8, <2>9 DEF Apart
<1>5. CASE PostsResult(p)
  <2> PICK m \in Result :
        /\ m.task = held[p] /\ pc[p] \in {"report", "fail"} /\ pc'[p] \in {"posted", "loop"}
        /\ resultQueue' = Append(resultQueue, m)
        /\ UNCHANGED <<testQueue, held>>
    BY <1>5 DEF PostsResult
  <2> PICK t \in Tasks : t = held[p]
    BY <1>1 DEF HoldsTask, Busy, Handling
  <2>1. t \in tasks /\ ~Posted(t) /\ ~Queued(t)
    BY DEF Apart, AtWork
  <2>2. \A u : Posted(u)' <=> Posted(u) \/ u = t
    BY PostedAppend
  <2>3. \A u : Queued(u)' <=> Queued(u)
    BY DEF Queued
  <2>4. \A i, j \in 1 .. Len(resultQueue') :
          resultQueue'[i].task = resultQueue'[j].task => i = j
    <3>1. /\ Len(resultQueue) \in Nat /\ resultQueue'[Len(resultQueue) + 1].task = t
          /\ \A k \in 1 .. Len(resultQueue) : resultQueue'[k] = resultQueue[k]
          /\ \A k \in 1 .. Len(resultQueue') :
               k = Len(resultQueue) + 1 \/ k \in 1 .. Len(resultQueue)
      BY <1>1, AppendElements
    <3>2. \A k \in 1 .. Len(resultQueue) : resultQueue[k].task # t
      BY <2>1 DEF Posted
    <3> QED
      BY <3>1, <3>2 DEF Apart
  <2>5. \A q \in Procs : pc'[q] \in AtWork => pc[q] \in AtWork /\ held[q] # t
    <3>1. t # NoTask /\ pc'[p] \notin AtWork
      BY <1>1 DEF AtWork
    <3> QED
      BY <1>2, <3>1 DEF Apart
  <2> QED
    BY <1>2, <2>1, <2>2, <2>3, <2>4, <2>5 DEF Apart
<1>6. CASE Continues(p)
  <2>1. \A u : Posted(u)' <=> Posted(u)
    BY <1>6 DEF Continues, Posted
  <2>2. \A u : Queued(u)' => Queued(u)
    BY <1>6, QueuedTail DEF Continues, Queued
  <2>3. \A q \in Procs : held'[q] \in {held[q], NoTask}
    BY <1>2, <1>6 DEF Continues
  <2>4. \A i, j \in 1 .. Len(testQueue') :
          testQueue'[i] = testQueue'[j] /\ testQueue'[i] # STOP => i = j
    BY <1>3, <1>6 DEF Continues, Apart
  <2>5. \A q \in Procs : pc'[q] \in AtWork => held'[q] \in tasks /\ ~Posted(held'[q])
    BY <1>2, <1>6 DEF Continues, Apart
  <2>6. \A q \in Procs : pc'[q] \in AtWork => (held[q] \in tasks /\ ~Posted(held[q]))'
    <3> SUFFICES ASSUME NEW q \in Procs, pc'[q] \in AtWork
                 PROVE  (held[q] \in tasks /\ ~Posted(held[q]))'
      OBVIOUS
    <3> PICK u : u = held'[q]
      OBVIOUS
    <3>1. ~Posted(u)' /\ u \in tasks
      BY <2>1, <2>5
    <3> QED
      BY <1>2, <3>1 DEF Posted
  <2>7. /\ \A i, j \in 1 .. Len(resultQueue') :
             resultQueue'[i].task = resultQueue'[j].task => i = j
        /\ \A q, r \in Procs : held'[q] = held'[r] /\ held'[q] # NoTask => q = r
    BY <1>6, <2>3 DEF Continues, Apart
  <2>8. /\ \A t \in Tasks : Queued(t)' =>
             t \in tasks' /\ ~Posted(t)' /\ \A q \in Procs : held'[q] # t
        /\ \A t \in Tasks : Posted(t)' => t \in tasks'
    BY <1>1, <1>2, <2>1, <2>2, <2>3 DEF Apart
  <2> QED
    BY <2>4, <2>6, <2>7, <2>8 DEF Apart
<1> QED
  BY <1>4, <1>5, <1>6, WorkerMoves

\* The parent reads results in Receive and nowhere else.
LEMMA ParentReads ==
  ASSUME Typing, ParentStep
  PROVE  /\ Receive \/ UNCHANGED <<tasks, reported, testsRun, resultQueue>>
         /\ broken' = broken /\ UNCHANGED <<held, left, ran, err>>
         /\ \A q \in Procs : pc'[q] \in {pc[q], "dead", "get"}
         /\ testQueue' # testQueue => testQueue' = Append(testQueue, STOP) /\ TellStop
<1>1. Receive \/ UNCHANGED <<tasks, reported, testsRun, resultQueue>>
  BY
    DEF ParentStep, Parent, StartWorker, EnterLoop, Rejoin, AllDone, GetTimesOut,
        ScanWorker, TimeOutWorker, KillDone, ScanDone, TeardownShared, Summarize, TellStop,
        Join, SendSigill, Terminate, InterruptLoop, InterruptShutdown, Terminated, vars
<1>2. broken' = broken
  BY
    DEF ParentStep, Parent, StartWorker, EnterLoop, Receive, Rejoin, AllDone, GetTimesOut,
        ScanWorker, TimeOutWorker, KillDone, ScanDone, TeardownShared, Summarize, TellStop,
        Join, SendSigill, Terminate, InterruptLoop, InterruptShutdown, Terminated, vars
<1> QED
  BY <1>1, <1>2, ParentSteps, ParentQueues

LEMMA ParentApart ==
  ASSUME Typing, Apart, ParentStep
  PROVE  Apart'
<1>1. /\ testQueue \in Seq(Tasks \cup {STOP}) /\ resultQueue \in Seq(Result)
      /\ STOP \notin Tasks
  BY TasksAssumption DEF Typing, WorkerTyping, TypeOfQueues
<1>2. /\ \A i, j \in 1 .. Len(testQueue') :
           testQueue'[i] = testQueue'[j] /\ testQueue'[i] # STOP => i = j
      /\ \A t \in Tasks : Queued(t)' => Queued(t)
  <2>1. CASE testQueue' = testQueue
    BY <2>1 DEF Apart, Queued
  <2>2. CASE testQueue' = Append(testQueue, STOP)
    <3>1. /\ Len(testQueue) \in Nat /\ testQueue'[Len(testQueue) + 1] = STOP
          /\ \A k \in 1 .. Len(testQueue) : testQueue'[k] = testQueue[k]
          /\ \A k \in 1 .. Len(testQueue') :
               k = Len(testQueue) + 1 \/ k \in 1 .. Len(testQueue)
      BY <1>1, <2>2, AppendElements
    <3> QED
      BY <1>1, <3>1 DEF Apart, Queued
  <2> QED
    BY <2>1, <2>2, ParentReads
<1>3. held' = held /\ \A q \in Procs : pc'[q] \in AtWork => pc[q] \in AtWork
  BY ParentReads DEF AtWork
<1>4. CASE Receive
  <2>1. resultQueue # <<>> /\ resultQueue' = Tail(resultQueue)
        /\ tasks' = tasks \ {Head(resultQueue).task}
    BY <1>4 DEF Receive
  <2>8. Head(resultQueue).task \in Tasks
    <3>1. Head(resultQueue) \in Result
      BY <1>1, <2>1, HeadTailProperties
    <3> QED
      BY <3>1 DEF Result
  <2> PICK u \in Tasks : u = Head(resultQueue).task
    BY <2>8
  <2>2. Posted(u)
    BY <1>1, <2>1, TailElements DEF Posted
  <2>3. \A t : Posted(t)' <=> Posted(t) /\ t # u
    BY <2>1, PostedTail
  <2>4. \A i, j \in 1 .. Len(resultQueue') :
          resultQueue'[i].task = resultQueue'[j].task => i = j
    BY <1>1, <2>1, TailElements DEF Apart
  <2>5. \A q \in Procs : pc'[q] \in AtWork => held'[q] \in tasks' /\ ~Posted(held[q])
    BY <1>3, <2>1, <2>2 DEF Apart
  <2>6. \A q \in Procs : pc'[q] \in AtWork => (held[q] \in tasks /\ ~Posted(held[q]))'
    <3> SUFFICES ASSUME NEW q \in Procs, pc'[q] \in AtWork
                 PROVE  (held[q] \in tasks /\ ~Posted(held[q]))'
      OBVIOUS
    <3> PICK t : t = held[q]
      OBVIOUS
    <3>1. ~Posted(t)'
      BY <2>3, <2>5
    <3> QED
      BY <1>3, <2>5, <3>1 DEF Posted
  <2>7. \A t \in Tasks : Queued(t) => t # u
    BY <2>2 DEF Apart
  <2> QED
    BY <1>2, <1>3, <2>1, <2>3, <2>4, <2>6, <2>7 DEF Apart
<1>5. CASE UNCHANGED <<tasks, resultQueue>>
  <2>1. \A t : Posted(t)' <=> Posted(t)
    BY <1>5 DEF Posted
  <2>2. \A q \in Procs : Posted(held[q])' <=> Posted(held[q])
    BY <1>3, <1>5 DEF Posted
  <2> QED
    BY <1>2, <1>3, <1>5, <2>1, <2>2 DEF Apart
<1> QED
  BY <1>4, <1>5, ParentReads

\* A sequence of n elements that has every element of a set of n has each once.
LEMMA OrdersInjective ==
  ASSUME NEW q \in Orders, NEW i \in DOMAIN q, NEW j \in DOMAIN q, q[i] = q[j]
  PROVE  i = j
<1> DEFINE n == Cardinality(Tasks)
<1>1. n \in Nat /\ q \in [1 .. n -> Tasks] /\ \A t \in Tasks : \E k \in 1 .. n : q[k] = t
  BY TasksAssumption, FS_CardinalityType DEF Orders
<1>2. IsFiniteSet(1 .. n) /\ Cardinality(1 .. n) = n
  BY <1>1, FS_Interval
<1>3. q \in Surjection(1 .. n, Tasks)
  BY <1>1 DEF Surjection
<1>4. q \in Injection(1 .. n, Tasks)
  BY <1>2, <1>3, TasksAssumption, FS_SurjSameCardinalityImpliesInj
<1> QED
  BY <1>1, <1>4 DEF Injection, IsInjective

LEMMA InitApart == Init => Apart
<1> SUFFICES ASSUME Init PROVE Apart
  OBVIOUS
<1> DEFINE n == Cardinality(Tasks)
<1>1. /\ n \in Nat /\ testQueue \in [1 .. n -> Tasks] /\ testQueue \in Orders
      /\ resultQueue = <<>> /\ tasks = Tasks
      /\ held = [p \in Procs |-> NoTask] /\ pc = [p \in Procs |-> "unborn"]
  BY TasksAssumption, FS_CardinalityType DEF Init, Orders
<1> HIDE DEF n, Init
<1>2. DOMAIN testQueue = 1 .. Len(testQueue)
  BY <1>1
<1>3. \A i, j \in 1 .. Len(testQueue) : testQueue[i] = testQueue[j] => i = j
  BY <1>1, <1>2, OrdersInjective
<1> QED
  BY <1>1, <1>3, TasksAssumption DEF Apart, Posted, AtWork

-----------------------------------------------------------------------------
(***************************************************************************)
(* What a result says of its address: the tests it counts, and whether it  *)
(* is a failure.                                                           *)
(***************************************************************************)
SoundMessages ==
  \A i \in 1 .. Len(resultQueue) :
    LET m == resultQueue[i] IN
    /\ m.ran <= Size[m.task] /\ (m.task \notin broken => m.ran = Size[m.task])
    /\ m.err <=> m.task \in broken
SoundWorker(p) ==
  /\ pc[p] \in {"check", "load"} => held[p] \notin broken
  /\ pc[p] \in {"mark", "run", "report"} =>
       /\ ran[p] + left[p] <= Size[held[p]]
       /\ held[p] \notin broken => ran[p] + left[p] = Size[held[p]]
       /\ err[p] <=> held[p] \in broken
  /\ pc[p] = "report" => left[p] = 0
  /\ pc[p] = "fail" => held[p] \in broken
Sound == /\ SoundMessages /\ \A p \in Procs : SoundWorker(p)
         /\ \A t \in broken : ~Queued(t)

\* What p counts is right after a step of its own.
LEMMA SelfSound ==
  ASSUME Typing, Apart, Sound, NEW p \in Procs, CalmWork(p)
  PROVE  SoundWorker(p)'
<1>1. /\ pc \in [Procs -> ProcStates] /\ held \in [Procs -> Tasks \cup {NoTask}]
      /\ ran \in [Procs -> Nat] /\ left \in [Procs -> Nat] /\ err \in [Procs -> BOOLEAN]
      /\ HoldsTask(p) => held[p] \in Tasks
  BY DEF Typing, WorkerTyping, TypeOfProcess, HeldOK
<1>2. SoundWorker(p) /\ \A t \in Tasks : Size[t] \in Nat
  BY TasksAssumption DEF Sound
<1>3. CASE Get(p)
  <2>1. /\ pc'[p] = "check" /\ held'[p] = testQueue[1] /\ testQueue[1] \in Tasks
        /\ broken' = broken /\ testQueue # <<>> /\ testQueue \in Seq(Tasks \cup {STOP})
    <3>1. /\ pc[p] = "get" /\ pc'[p] = "check" /\ broken' = broken /\ testQueue # <<>>
          /\ testQueue \in Seq(Tasks \cup {STOP})
      BY <1>1, <1>3 DEF Get, At, Go, Typing, WorkerTyping, TypeOfQueues
    <3>2. ~PostsResult(p) /\ ~Continues(p)
      BY <3>1 DEF PostsResult, Continues, AtWork
    <3> QED
      BY <3>1, <3>2, WorkerMoves
  <2>2. Queued(testQueue[1])
    BY <2>1, TailElements DEF Queued
  <2> QED
    BY <2>1, <2>2 DEF Sound, SoundWorker
<1>4. CASE Check(p)
  BY <1>1, <1>2, <1>4 DEF Check, At, Go, Die, SoundWorker
<1>5. CASE Load(p)
  BY <1>1, <1>2, <1>5 DEF Load, MakeResult, At, Go, SoundWorker, HoldsTask
<1>6. CASE MarkStart(p) \/ SuiteDone(p)
  BY <1>1, <1>2, <1>6 DEF MarkStart, SuiteDone, At, Go, SoundWorker
<1>7. CASE RunTest(p)
  <2>1. /\ pc' = pc /\ pc[p] = "run" /\ held' = held /\ left[p] > 0 /\ held[p] \in Tasks
        /\ ran'[p] = ran[p] + 1
    BY <1>1, <1>7 DEF RunTest, At, HoldsTask, Busy
  <2>2. CASE left' = [left EXCEPT ![p] = @ - 1] /\ UNCHANGED <<err, broken>>
    BY <1>1, <1>2, <2>1, <2>2 DEF SoundWorker
  <2>3. CASE /\ left'[p] \in {0, left[p] - 1} /\ err'[p] = TRUE
             /\ broken' = broken \cup {held[p]}
    BY <1>1, <1>2, <2>1, <2>3 DEF SoundWorker
  <2> QED
    BY <1>1, <1>7, <2>2, <2>3 DEF RunTest
<1>8. CASE RunRaises(p)
  BY <1>1, <1>8 DEF RunRaises, Go, SoundWorker
<1>9. CASE \/ GetStop(p) \/ Idle(p) \/ LoadFails(p) \/ Report(p) \/ FixtureExits(p)
           \/ PostFailure(p) \/ NextTask(p) \/ Crash(p)
  <2>1. pc'[p] \in {"dead", "posted", "loop", "get"}
    BY <1>1, <1>9
    DEF GetStop, Idle, LoadFails, Report, FixtureExits, PostFailure, NextTask, Crash, Go, Die
  <2> QED
    BY <2>1 DEF SoundWorker
<1>10. CASE Tick(p)
  BY <1>2, <1>10 DEF Tick, SoundWorker
<1> QED
  BY <1>3, <1>4, <1>5, <1>6, <1>7, <1>8, <1>9, <1>10 DEF CalmWork, Fault

LEMMA WorkerSound ==
  ASSUME Typing, Apart, Sound, NEW p \in Procs, CalmWork(p)
  PROVE  Sound'
<1>1. /\ testQueue \in Seq(Tasks \cup {STOP}) /\ resultQueue \in Seq(Result)
      /\ HoldsTask(p) => held[p] \in Tasks
      /\ NoTask \notin Tasks /\ ran[p] \in Nat /\ left[p] \in Nat
      /\ \A t \in Tasks : Size[t] \in Nat
  BY TasksAssumption DEF Typing, WorkerTyping, TypeOfQueues, HeldOK, TypeOfProcess
<1>2. /\ Step(p)
      /\ \A q \in Procs \ {p} :
           /\ pc'[q] = pc[q] /\ held'[q] = held[q]
           /\ left'[q] = left[q] /\ ran'[q] = ran[q] /\ err'[q] = err[q]
  <2>1. Step(p)
    BY DEF CalmWork, Step, Work
  <2> QED
    BY <2>1, OthersKept
<1>3. pc[p] \in AtWork =>
        /\ held[p] \in Tasks /\ ~Posted(held[p]) /\ ~Queued(held[p])
        /\ \A q \in Procs : held[q] = held[p] => q = p
  BY <1>1 DEF Apart, AtWork, HoldsTask, Busy, Handling
<1>4. broken' = broken \/ (broken' = broken \cup {held[p]} /\ pc[p] \in AtWork)
  BY WorkerMoves DEF Get, PostsResult, Continues
<1>5. ASSUME NEW q \in Procs PROVE SoundWorker(q)'
  <2>1. CASE q = p
    BY <2>1, SelfSound
  <2>2. CASE q # p
    <3>1. held[q] \in broken' <=> held[q] \in broken
      BY <1>3, <1>4, <2>2
    <3> QED
      BY <1>2, <2>2, <3>1 DEF Sound, SoundWorker
  <2> QED
    BY <2>1, <2>2
<1>6. \A t \in broken' : ~Queued(t)'
  <2>1. \A t : Queued(t)' => Queued(t)
    BY WorkerMoves, QueuedTail DEF Get, PostsResult, Continues, Queued
  <2> QED
    BY <1>3, <1>4, <2>1 DEF Sound
<1>7. SoundMessages'
  <2>1. \A i \in 1 .. Len(resultQueue) :
          resultQueue[i].task \in broken' <=> resultQueue[i].task \in broken
    BY <1>3, <1>4 DEF Posted
  <2>2. CASE resultQueue' = resultQueue
    BY <2>1, <2>2 DEF Sound, SoundMessages
  <2>3. CASE PostsResult(p)
    <3>1. PICK m \in Result :
            /\ m.task = held[p]
            /\ \/ pc[p] = "report" /\ m.ran = ran[p] /\ m.err = err[p]
               \/ pc[p] = "fail" /\ m.ran = 0 /\ m.err = TRUE
            /\ resultQueue' = Append(resultQueue, m) /\ broken' = broken
      BY <2>3 DEF PostsResult
    <3>2. /\ m.ran <= Size[m.task] /\ (m.task \notin broken => m.ran = Size[m.task])
          /\ m.err <=> m.task \in broken
      <4>1. SoundWorker(p) /\ Size[held[p]] \in Nat
        BY <1>1, <1>3, <3>1 DEF Sound, AtWork
      <4> QED
        BY <1>1, <3>1, <4>1 DEF SoundWorker
    <3>3. /\ Len(resultQueue) \in Nat /\ resultQueue'[Len(resultQueue) + 1] = m
          /\ \A k \in 1 .. Len(resultQueue) : resultQueue'[k] = resultQueue[k]
          /\ \A k \in 1 .. Len(resultQueue') :
               k = Len(resultQueue) + 1 \/ k \in 1 .. Len(resultQueue)
      BY <1>1, <3>1, AppendElements
    <3> QED
      BY <3>1, <3>2, <3>3 DEF Sound, SoundMessages
  <2> QED
    BY <2>2, <2>3, WorkerMoves DEF Get, Continues
<1> QED
  BY <1>5, <1>6, <1>7 DEF Sound

LEMMA ParentSound ==
  ASSUME Typing, Apart, Sound, ParentStep
  PROVE  Sound'
<1>1. /\ broken' = broken /\ UNCHANGED <<held, left, ran, err>>
      /\ \A q \in Procs : pc'[q] \in {pc[q], "dead", "get"}
  BY ParentReads
<1>2. \A p \in Procs : SoundWorker(p)'
  BY <1>1 DEF Sound, SoundWorker
<1>3. /\ testQueue \in Seq(Tasks \cup {STOP}) /\ resultQueue \in Seq(Result)
      /\ broken \subseteq Tasks /\ STOP \notin Tasks
  BY TasksAssumption DEF Typing, WorkerTyping, TypeOfQueues, TypeOfHistory
<1>4. \A t \in Tasks : Queued(t)' => Queued(t)
  <2>1. CASE testQueue' = testQueue
    BY <2>1 DEF Queued
  <2>2. CASE testQueue' = Append(testQueue, STOP)
    BY <1>3, <2>2, AppendElements DEF Queued
  <2> QED
    BY <2>1, <2>2, ParentReads
<1>5. SoundMessages'
  <2>1. CASE Receive
    <3>1. resultQueue # <<>> /\ resultQueue' = Tail(resultQueue)
      BY <2>1 DEF Receive
    <3>2. \A k \in 1 .. Len(resultQueue') :
            k + 1 \in 1 .. Len(resultQueue) /\ resultQueue'[k] = resultQueue[k + 1]
      BY <1>3, <3>1, TailElements
    <3> QED
      BY <1>1, <3>2 DEF Sound, SoundMessages
  <2>2. CASE resultQueue' = resultQueue
    BY <1>1, <2>2 DEF Sound, SoundMessages
  <2> QED
    BY <2>1, <2>2, ParentReads
<1> QED
  BY <1>1, <1>2, <1>3, <1>4, <1>5 DEF Sound

LEMMA InitSound == Init => Sound
BY DEF Init, Sound, SoundMessages, SoundWorker

-----------------------------------------------------------------------------
(***************************************************************************)
(* The summary: failed and testsRun against the tasks that were reported.  *)
(***************************************************************************)
ReportedOnce == \A t \in Tasks : reported[t] = IF t \in tasks THEN 0 ELSE 1

Verdict ==
  /\ Calm /\ broken \cap Reported # {} => failed
  /\ thrown => failed
  /\ failed => broken # {} \/ thrown \/ Faults \cap {"collect", "teardown"} # {}

\* How many tests a set of tasks has.
LEMMA TestsOfFinite ==
  ASSUME NEW T \in SUBSET Tasks
  PROVE  IsFiniteSet(TestsOf(T)) /\ Cardinality(TestsOf(T)) \in Nat
<1> DEFINE Of(t) == {t} \X (1 .. Size[t])
<1>1. \A t \in T : IsFiniteSet(Of(t))
  <2> SUFFICES ASSUME NEW t \in T PROVE IsFiniteSet({t} \X (1 .. Size[t]))
    OBVIOUS
  <2>1. Size[t] \in Nat
    BY TasksAssumption
  <2>2. IsFiniteSet({t})
    BY FS_Singleton
  <2>3. IsFiniteSet(1 .. Size[t])
    BY <2>1, FS_Interval
  <2> QED
    BY <2>2, <2>3, FS_Product
<1>2. IsFiniteSet(T)
  BY TasksAssumption, FS_Subset
<1>3. IsFiniteSet({Of(t) : t \in T})
  <2> DEFINE f == [t \in T |-> Of(t)]
             U == {Of(t) : t \in T}
  <2>1. f \in Surjection(T, U)
    BY DEF Surjection
  <2> HIDE DEF f, U
  <2>2. IsFiniteSet(U)
    BY <1>2, <2>1, FS_Surjection
  <2> QED
    BY <2>2 DEF U
<1>4. IsFiniteSet(TestsOf(T))
  BY <1>1, <1>3, FS_UNION DEF TestsOf
<1> QED
  BY <1>4, FS_CardinalityType

LEMMA TestsOfSubset ==
  ASSUME NEW T \in SUBSET Tasks, NEW U \in SUBSET T
  PROVE  Cardinality(TestsOf(U)) <= Cardinality(TestsOf(T))
<1>1. TestsOf(U) \subseteq TestsOf(T)
  BY DEF TestsOf
<1> QED
  BY <1>1, TestsOfFinite, FS_Subset

LEMMA TestsOfOneMore ==
  ASSUME NEW T \in SUBSET Tasks, NEW t \in Tasks \ T
  PROVE  Cardinality(TestsOf(T \cup {t})) = Cardinality(TestsOf(T)) + Size[t]
<1> DEFINE New == {t} \X (1 .. Size[t])
<1>1. Size[t] \in Nat
  BY TasksAssumption
<1>2. IsFiniteSet(New) /\ Cardinality(New) = Size[t]
  <2>1. IsFiniteSet({t}) /\ Cardinality({t}) = 1
    BY FS_Singleton
  <2>2. IsFiniteSet(1 .. Size[t]) /\ Cardinality(1 .. Size[t]) = Size[t]
    <3>1. PICK n \in Nat : n = Size[t]
      BY <1>1
    <3>2. IsFiniteSet(1 .. n) /\ Cardinality(1 .. n) = IF 1 > n THEN 0 ELSE n - 1 + 1
      BY FS_Interval
    <3> QED BY <3>1, <3>2
  <2>3. IsFiniteSet(New) /\ Cardinality(New) = 1 * Size[t]
    <3>1. /\ IsFiniteSet({t} \X (1 .. Size[t]))
          /\ Cardinality({t} \X (1 .. Size[t])) = Cardinality({t}) * Cardinality(1 .. Size[t])
      BY <2>1, <2>2, FS_Product, Zenon
    <3> QED BY <2>1, <2>2, <3>1
  <2> QED
    BY <1>1, <2>3
<1>3. TestsOf(T \cup {t}) = TestsOf(T) \cup New
  BY DEF TestsOf
<1>4. TestsOf(T) \cap New = {}
  BY DEF TestsOf
<1>5. Cardinality(TestsOf(T) \cup New) =
        Cardinality(TestsOf(T)) + Cardinality(New) - Cardinality(TestsOf(T) \cap New)
  BY <1>2, TestsOfFinite, FS_Union
<1>6. Cardinality(TestsOf(T)) \in Nat
  BY TestsOfFinite
<1>7. Cardinality(TestsOf(T) \cap New) = 0
  BY <1>4, FS_EmptySet
<1> HIDE DEF New
<1>8. Cardinality(TestsOf(T) \cup New) = Cardinality(TestsOf(T)) + Size[t] - 0
  BY <1>2, <1>5, <1>7
<1>9. Cardinality(TestsOf(T)) + Size[t] - 0 = Cardinality(TestsOf(T)) + Size[t]
  BY <1>1, <1>6
<1> QED
  BY <1>3, <1>8, <1>9


\* The tasks that were reported after one step.
LEMMA ReportedWorker ==
  ASSUME Typing, NEW p \in Procs, Step(p)
  PROVE  Reported' = Reported
BY ParentKept DEF Reported

LEMMA ReportedReceive ==
  ASSUME Typing, Apart, ReportedOnce, Receive
  PROVE  \E i \in 1 .. Len(resultQueue) :
           LET m == resultQueue[i] IN
           /\ m \in Result /\ m.task \notin Reported
           /\ Reported' = Reported \cup {m.task} /\ reported'[m.task] = 1
           /\ \A t \in Tasks \ {m.task} : reported'[t] = reported[t]
           /\ tasks' = tasks \ {m.task} /\ testsRun' = testsRun + m.ran
           /\ failed' = Unsuccessful(m)
<1> PICK m : m = Head(resultQueue)
  OBVIOUS
<1>1. resultQueue \in Seq(Result) /\ resultQueue # <<>> /\ reported \in [Tasks -> Nat]
  BY DEF Receive, Typing, WorkerTyping, ParentTyping, TypeOfQueues, TypeOfParent
<1>2. m \in Result /\ m = resultQueue[1] /\ 1 \in 1 .. Len(resultQueue)
  BY <1>1, TailElements
<1>3. m.task \in Tasks
  BY <1>2 DEF Result
<1>4. /\ tasks' = tasks \ {m.task} /\ testsRun' = testsRun + m.ran /\ failed' = Unsuccessful(m)
      /\ reported' = [reported EXCEPT ![m.task] = @ + 1]
  BY DEF Receive
<1>5. reported[m.task] = 0
  BY <1>2, <1>3 DEF Apart, Posted, ReportedOnce
<1>6. reported'[m.task] = 1 /\ \A t \in Tasks \ {m.task} : reported'[t] = reported[t]
  BY <1>1, <1>3, <1>4, <1>5
<1>7. Reported' = Reported \cup {m.task} /\ m.task \notin Reported
  BY <1>3, <1>5, <1>6 DEF Reported
<1> QED
  BY <1>2, <1>4, <1>6, <1>7

LEMMA NextReports ==
  ASSUME Typing, ReportedOnce, Calm => Apart, WindingUp, [Next]_vars
  PROVE  ReportedOnce'
<1>1. CASE \E p \in Procs : Step(p)
  BY <1>1, ParentKept DEF ReportedOnce
<1>2. CASE Receive
  <2>1. Calm
    BY <1>2 DEF Receive, Waiting, WindingUp, Calm
  <2> QED
    BY <1>2, <2>1, ReportedReceive DEF ReportedOnce, Result
<1>3. CASE ParentStep /\ ~Receive
  BY <1>3, ParentReads DEF ReportedOnce
<1>4. CASE UNCHANGED vars
  BY <1>4 DEF vars, ReportedOnce
<1> QED
  BY <1>1, <1>2, <1>3, <1>4 DEF Next, Step, ParentStep

LEMMA NextCounts ==
  ASSUME Typing, ReportedOnce, Calm => Apart /\ Sound, WindingUp, TestsCounted, [Next]_vars
  PROVE  TestsCounted'
<1>1. Reported \subseteq Tasks /\ testsRun \in Nat
  BY DEF Reported, Typing, ParentTyping, TypeOfParent
<1>2. /\ Cardinality(TestsOf(Reported \ broken)) <= testsRun
      /\ testsRun <= Cardinality(TestsOf(Reported))
  <2>1. /\ Cardinality(TestsOf(Reported)) \in Nat
        /\ Cardinality(TestsOf(Reported \ broken)) \in Nat
    BY <1>1, TestsOfFinite
  <2> QED
    BY <2>1 DEF TestsCounted
<1>3. ASSUME testsRun' = testsRun, Reported' = Reported, broken \subseteq broken'
      PROVE  TestsCounted'
  <2>1. /\ Cardinality(TestsOf(Reported \ broken')) <= Cardinality(TestsOf(Reported \ broken))
        /\ Cardinality(TestsOf(Reported)) \in Nat
        /\ Cardinality(TestsOf(Reported \ broken)) \in Nat
        /\ Cardinality(TestsOf(Reported \ broken')) \in Nat
    BY <1>1, <1>3, TestsOfSubset, TestsOfFinite
  <2>2. testsRun' \in Cardinality(TestsOf(Reported' \ broken')) .. Cardinality(TestsOf(Reported'))
    BY <1>1, <1>2, <1>3, <2>1
  <2> QED
    BY <2>2 DEF TestsCounted, TestsOf
<1>4. CASE \E p \in Procs : Step(p)
  <2>1. PICK p \in Procs : Step(p)
    BY <1>4
  <2>2. broken \subseteq broken'
    BY <2>1
      DEF Step, Work, Fault, Deliver, Get, GetStop, Idle, Check, Load, LoadFails, MarkStart,
          RunTest, SuiteDone, Report, RunRaises, FixtureExits, HandleTimeout, PostFailure,
          PostInterrupt, NextTask, Crash, Tick, DeliverOutside, DeliverInRunner,
          DeliverInTest
  <2> QED
    BY <1>3, <2>1, <2>2, ReportedWorker, ParentKept
<1>5. CASE Receive
  <2>1. Apart /\ Sound
    BY <1>5 DEF Receive, Waiting, WindingUp, Calm
  <2>2. PICK i \in 1 .. Len(resultQueue) :
          LET m == resultQueue[i] IN
          /\ m \in Result /\ m.task \notin Reported
          /\ Reported' = Reported \cup {m.task} /\ testsRun' = testsRun + m.ran
    BY <1>5, <2>1, ReportedReceive
  <2> PICK m : m = resultQueue[i]
    OBVIOUS
  <2>3. /\ m.task \in Tasks \ Reported /\ m.ran \in Nat /\ Size[m.task] \in Nat
        /\ m.ran <= Size[m.task] /\ (m.task \notin broken => m.ran = Size[m.task])
    <3>1. m.task \in Tasks /\ m.ran \in Nat
      BY <2>2 DEF Result
    <3> QED
      BY <2>1, <2>2, <3>1, TasksAssumption DEF Sound, SoundMessages
  <2> DEFINE R == Reported \cup {m.task}
             a == Cardinality(TestsOf(Reported))
             b == Cardinality(TestsOf(Reported \ broken))
             c == Cardinality(TestsOf(R))
             d == Cardinality(TestsOf(R \ broken))
  <2>4. a \in Nat /\ b \in Nat /\ c \in Nat /\ d \in Nat
    BY <1>1, <2>3, TestsOfFinite
  <2>5. c = a + Size[m.task]
    BY <1>1, <2>3, TestsOfOneMore
  <2>6. IF m.task \in broken THEN d = b ELSE d = b + Size[m.task]
    <3>1. CASE m.task \in broken
      <4>1. R \ broken = Reported \ broken
        BY <3>1
      <4> QED
        BY <3>1, <4>1
    <3>2. CASE m.task \notin broken
      <4>1. R \ broken = (Reported \ broken) \cup {m.task}
        BY <3>2
      <4>2. m.task \in Tasks \ (Reported \ broken)
        BY <2>3
      <4> HIDE DEF R
      <4> QED
        BY <1>1, <3>2, <4>1, <4>2, TestsOfOneMore
    <3> QED
      BY <3>1, <3>2
  <2>7. b <= testsRun /\ testsRun <= a
    BY <1>2
  <2>8. Reported' = R /\ testsRun' = testsRun + m.ran /\ broken' = broken
    <3>1. ParentStep
      BY <1>5 DEF ParentStep, Parent
    <3> QED
      BY <2>2, <3>1, ParentReads
  <2> HIDE DEF a, b, c, d
  <2>9. /\ d <= testsRun + m.ran /\ testsRun + m.ran <= c /\ testsRun + m.ran \in Nat
        /\ c \in Nat /\ d \in Nat
    <3> DEFINE total == testsRun
               add == m.ran
               size == Size[m.task]
    <3>1. /\ a \in Nat /\ b \in Nat /\ c \in Nat /\ d \in Nat
          /\ total \in Nat /\ add \in Nat /\ size \in Nat
      BY <1>1, <2>3, <2>4
    <3>2. c = a + size /\ b <= total /\ total <= a /\ add <= size
      BY <2>3, <2>5, <2>7
    <3>3. d = b \/ (d = b + size /\ add = size)
      BY <2>3, <2>6
    <3> HIDE DEF total, add, size
    <3>4. d <= total + add
      <4>1. CASE d = b
        BY <3>1, <3>2, <4>1
      <4>2. CASE d = b + size /\ add = size
        BY <3>1, <3>2, <4>2
      <4> QED
        BY <3>3, <4>1, <4>2
    <3>5. total + add <= c /\ total + add \in Nat
      BY <3>1, <3>2
    <3> QED
      BY <3>1, <3>4, <3>5 DEF total, add, size
  <2>10. testsRun' \in d .. c
    BY <2>4, <2>8, <2>9
  <2>11. testsRun' \in Cardinality(TestsOf(Reported' \ broken')) .. Cardinality(TestsOf(Reported'))
    BY <2>8, <2>10 DEF c, d
  <2> QED
    BY <2>11 DEF TestsCounted, TestsOf
<1>6. CASE ParentStep /\ ~Receive
  BY <1>3, <1>6, ParentReads DEF Reported
<1>7. CASE UNCHANGED vars
  BY <1>3, <1>7 DEF vars, Reported
<1> QED
  BY <1>4, <1>5, <1>6, <1>7 DEF Next, Step, ParentStep

LEMMA NextVerdict ==
  ASSUME Peace, ReportedOnce, Calm => Apart /\ Sound, Verdict, [Next]_vars
  PROVE  Verdict'
<1>0. Typing /\ NoTimeouts /\ WindingUp /\ failed \in BOOLEAN /\ broken \subseteq Tasks
  BY DEF Peace, Typing, ParentTyping, WorkerTyping, TypeOfParent, TypeOfHistory
<1>1. CASE \E p \in Procs : Step(p)
  <2>1. PICK p \in Procs : Step(p)
    BY <1>1
  <2>2. UNCHANGED <<failed, thrown, ppc, reported>> /\ Reported' = Reported
    BY <1>0, <2>1, ParentKept, ReportedWorker
  <2>3. broken \subseteq broken'
    BY <2>1
      DEF Step, Work, Fault, Deliver, Get, GetStop, Idle, Check, Load, LoadFails, MarkStart,
          RunTest, SuiteDone, Report, RunRaises, FixtureExits, HandleTimeout, PostFailure,
          PostInterrupt, NextTask, Crash, Tick, DeliverOutside, DeliverInRunner,
          DeliverInTest
  <2>4. Calm => broken' \cap Reported \subseteq broken
    <3> SUFFICES ASSUME Calm PROVE broken' \cap Reported \subseteq broken
      OBVIOUS
    <3>1. CalmWork(p)
      BY <1>0, <2>1, WorkIsCalm DEF Peace
    <3>2. broken' = broken \/ (broken' = broken \cup {held[p]} /\ pc[p] \in AtWork)
      BY <1>0, <3>1, WorkerMoves DEF Get, PostsResult, Continues
    <3>3. pc[p] \in AtWork => held[p] \notin Reported
      BY <1>0 DEF Apart, ReportedOnce, Reported
    <3> QED
      BY <3>2, <3>3
  <2> QED
    BY <2>2, <2>3, <2>4 DEF Verdict, Calm
<1>2. CASE Receive
  <2>1. Calm /\ ParentStep
    BY <1>0, <1>2 DEF Receive, Waiting, WindingUp, Calm, ParentStep, Parent
  <2>2. PICK i \in 1 .. Len(resultQueue) :
          LET m == resultQueue[i] IN
          /\ m \in Result /\ Reported' = Reported \cup {m.task} /\ failed' = Unsuccessful(m)
    BY <1>0, <1>2, <2>1, ReportedReceive
  <2>3. resultQueue[i].err \in BOOLEAN /\ (resultQueue[i].err <=> resultQueue[i].task \in broken)
    BY <2>1, <2>2 DEF Sound, SoundMessages, Result
  <2>4. broken' = broken /\ thrown' = thrown
    BY <1>0, <1>2, <2>1, ParentReads DEF Receive
  <2>5. failed' <=> failed \/ resultQueue[i].task \in broken
    BY <1>0, <2>2, <2>3 DEF Unsuccessful
  <2> QED
    BY <2>1, <2>2, <2>4, <2>5 DEF Verdict, Calm
<1>3. CASE ParentStep /\ ~Receive
  <2>1. Reported' = Reported /\ broken' = broken
    BY <1>0, <1>3, ParentReads DEF Reported
  <2>2. Calm' => Calm
    BY <1>0, <1>3, CalmBefore
  <2>3. \/ UNCHANGED <<failed, thrown>>
        \/ failed' = TRUE /\ thrown' = thrown /\ "teardown" \in Faults
        \/ failed' = TRUE /\ thrown' = TRUE
    BY <1>3
      DEF ParentStep, Parent, StartWorker, EnterLoop, Rejoin, AllDone, GetTimesOut,
          ScanWorker, TimeOutWorker, KillDone, ScanDone, TeardownShared, Summarize,
          TellStop, Join, SendSigill, Terminate, InterruptLoop, InterruptShutdown,
          Terminated, vars
  <2> QED
    BY <2>1, <2>2, <2>3 DEF Verdict
<1>4. CASE UNCHANGED vars
  BY <1>4 DEF vars, Verdict, Calm, Reported
<1> QED
  BY <1>1, <1>2, <1>3, <1>4 DEF Next, Step, ParentStep

\* The invariant of a run without timeouts.
Timeless ==
  /\ Peace /\ ReportedOnce /\ Verdict /\ TestsCounted
  /\ Calm => Apart /\ Sound

LEMMA InitTimeless == Init => Timeless
<1> SUFFICES ASSUME Init PROVE Timeless
  OBVIOUS
<1>1. ReportedOnce /\ Reported = {} /\ testsRun = 0 /\ broken = {} /\ thrown = FALSE
  BY DEF Init, ReportedOnce, Reported
<1>2. failed => "collect" \in Faults
  BY DEF Init
<1>3. Verdict
  BY <1>1, <1>2 DEF Verdict
<1>4. TestsCounted
  <2>1. TestsOf({}) = {} /\ Reported \ broken = {}
    BY <1>1 DEF TestsOf
  <2>2. Cardinality(TestsOf({})) = 0
    BY <2>1, FS_EmptySet
  <2> QED
    BY <1>1, <2>1, <2>2 DEF TestsCounted
<1> QED
  BY <1>1, <1>3, <1>4, InitPeace, InitApart, InitSound DEF Timeless

LEMMA NextTimeless ==
  ASSUME Timely, Timeless, [Next]_vars
  PROVE  Timeless'
<1>1. /\ Peace /\ Typing /\ NoTimeouts /\ Quiet /\ WindingUp
      /\ ReportedOnce /\ Verdict /\ TestsCounted /\ (Calm => Apart /\ Sound)
  BY DEF Timeless, Peace
<1>2. Peace'
  BY <1>1, NextPeace
<1>3. ReportedOnce' /\ TestsCounted' /\ Verdict'
  BY <1>1, NextReports, NextCounts, NextVerdict
<1>4. Calm' => Apart' /\ Sound'
  <2> SUFFICES ASSUME Calm' PROVE Apart' /\ Sound'
    OBVIOUS
  <2>1. CASE \E p \in Procs : Step(p)
    <3>1. PICK p \in Procs : Step(p)
      BY <2>1
    <3>2. Calm
      BY <1>1, <3>1, ParentKept DEF Calm
    <3> QED
      BY <1>1, <3>1, <3>2, WorkIsCalm, WorkerApart, WorkerSound
  <2>2. CASE ParentStep
    <3>1. Calm
      BY <1>1, <2>2, CalmBefore
    <3> QED
      BY <1>1, <2>2, <3>1, ParentApart, ParentSound
  <2>3. CASE UNCHANGED vars
    BY <1>1, <2>3
    DEF vars, Calm, Apart, Sound, SoundMessages, SoundWorker, Posted, Queued
  <2> QED
    BY <2>1, <2>2, <2>3 DEF Next, Step, ParentStep
<1> QED
  BY <1>2, <1>3, <1>4 DEF Timeless

\* Whatever fails and however it is interrupted, the summary of a run in which
\* no task exceeds the timeout counts each test of each reported task once, and
\* calls the run a failure when a reported task failed: no order of results, no
\* restart of workers and no exception in one hides it.
THEOREM SummaryRight == ASSUME Timely PROVE Spec => []SummarySound
<1>1. Timeless /\ [Next]_vars => Timeless'
  BY NextTimeless
<1>2. Timeless => SummarySound
  <2> SUFFICES ASSUME Timeless, Summarized PROVE TestsCounted /\ VerdictSound
    BY DEF SummarySound
  <2>1. ppc # "raised"
    BY DEF Summarized
  <2> QED
    BY <2>1 DEF Timeless, Verdict, VerdictSound, Calm
<1> QED
  BY InitTimeless, <1>1, <1>2, PTL DEF Spec

-----------------------------------------------------------------------------
(* The workers are where the parent looks for them, so that it neither     *)
(* ends the run early nor leaves addresses in the queue.                   *)

\* A worker that may still take an address or post a result, and one that may not.
Early == {"get"} \cup AtWork
Spent == {"posted", "loop", "dead"}
Serving(p) == pc[p] \in Early \/ (~RestartWorker /\ pc[p] \in {"posted", "loop"})

\* Each serving worker is in the slot it was started for.
Slotted ==
  /\ \A p \in Procs : Serving(p) => worker[slotOf[p]] = p
  /\ \A i \in Slots : ppc # "start" \/ i < cursor =>
       slotOf[worker[i]] = i /\ worker[i] < nextProc
  /\ ppc = "start" => \A p \in Procs : pc[p] # "unborn" => slotOf[p] < cursor
  /\ ppc = "rejoin" => RestartWorker

\* With --process-restartworker a slot has one result in the queue at most, and
\* the worker that posted it does no more.
Posters ==
  /\ \A k \in 1 .. Len(resultQueue) :
       /\ pc[worker[resultQueue[k].slot]] \in Spent
       /\ ppc = "start" => resultQueue[k].slot < cursor
       /\ ppc = "rejoin" => resultQueue[k].slot # cursor
  /\ \A k, m \in 1 .. Len(resultQueue) : resultQueue[k].slot = resultQueue[m].slot => k = m
  /\ ppc = "rejoin" => pc[worker[cursor]] \in Spent

\* Of the workers that the parent has passed in its round without finding one
\* active, none has anything to do.
Idling(w) == pc[w] \in {"unborn", "dead"} \/ (pc[w] = "get" /\ NoAddress)
Scanned == ppc = "scan" /\ ~anyAlive => \A i \in Slots : i < cursor => Idling(worker[i])

\* The parent winds up a run that was not stopped when no address is left to run.
Over == ppc \in Winding /\ ~shouldStop => NoAddress /\ \A p \in Procs : pc[p] \notin AtWork

USE DEF parent, queues, process, suite, shared, history, loop, outcome, flags, pool

\* A worker that does not serve does not begin to.
LEMMA ServingBefore ==
  ASSUME Typing, NoTimeouts, NEW p \in Procs, Step(p), Serving(p)'
  PROVE  Serving(p)
<1>1. pc \in [Procs -> ProcStates] /\ pc[p] # "caught"
  BY DEF Typing, WorkerTyping, TypeOfProcess, NoTimeouts
<1> USE DEF Serving, Early, AtWork
<1>2. CASE NextTask(p)
  BY <1>1, <1>2 DEF NextTask, Go, Die, EndsAfterTask
<1>3. CASE Work(p) /\ ~NextTask(p)
  BY <1>1, <1>3
  DEF Work, Get, GetStop, Idle, Check, Load, MarkStart, RunTest, SuiteDone, Report,
      HandleTimeout, PostFailure, PostInterrupt, At, Go, Die
<1>4. CASE Fault(p) \/ Tick(p)
  BY <1>1, <1>4 DEF Fault, LoadFails, RunRaises, FixtureExits, Crash, Tick, At, Go, Die
<1>5. CASE Deliver(p)
  <2>1. PICK s \in {"ILL", "INT"} :
          DeliverOutside(p, s) \/ DeliverInRunner(p, s) \/ DeliverInTest(p, s)
    BY <1>5 DEF Deliver
  <2>2. pc' = pc \/ pc'[p] \in {"dead", "caught", "abort"}
    BY <1>1, <2>1
    DEF DeliverOutside, DeliverInRunner, DeliverInTest, Go, Die, HandlerOf
  <2> QED
    BY <2>2
<1> QED
  BY <1>2, <1>3, <1>4, <1>5 DEF Step

LEMMA WorkerSlotted ==
  ASSUME Typing, NoTimeouts, Slotted, NEW p \in Procs, Step(p)
  PROVE  Slotted'
<1>1. UNCHANGED <<ppc, cursor, worker, slotOf, nextProc>>
  BY ParentKept
<1>2. ASSUME NEW q \in Procs, Serving(q)' PROVE worker'[slotOf'[q]] = q
  <2>1. CASE q = p
    BY <1>1, <1>2, <2>1, ServingBefore DEF Slotted
  <2>2. CASE q # p
    BY <1>1, <1>2, <2>2, OthersKept DEF Slotted, Serving
  <2> QED
    BY <2>1, <2>2
<1>3. ASSUME NEW q \in Procs, pc'[q] # "unborn" PROVE pc[q] # "unborn"
  <2>1. pc[p] = "unborn" => pc' = pc
    BY
      DEF At, Alive, Busy, Step, Work, Fault, Deliver, Get, GetStop, Idle, Check, Load,
          LoadFails, MarkStart, RunTest, SuiteDone, Report, RunRaises, FixtureExits,
          HandleTimeout, PostFailure, PostInterrupt, NextTask, Crash, Tick, DeliverOutside,
          DeliverInRunner, DeliverInTest
  <2> QED
    BY <1>3, <2>1, OthersKept
<1> QED
  BY <1>1, <1>2, <1>3 DEF Slotted

\* The parent starts a worker in the slot at the cursor, or no worker at all.
Starts ==
  /\ StartWorker \/ Rejoin
  /\ cursor \in Slots /\ nextProc \in Procs /\ pc[nextProc] = "unborn"
  /\ nextProc' = nextProc + 1
  /\ worker' = [worker EXCEPT ![cursor] = nextProc]
  /\ slotOf' = [slotOf EXCEPT ![nextProc] = cursor]
  /\ pc' = [pc EXCEPT ![nextProc] = "get"]
StartsNone ==
  /\ ~StartWorker /\ UNCHANGED <<worker, slotOf, nextProc>>
  /\ \A q \in Procs : pc'[q] \in {pc[q], "dead"}
  /\ pc' = pc \/ InterruptShutdown

LEMMA ParentStarts ==
  ASSUME Typing, NoTimeouts, ParentStep
  PROVE  Starts \/ StartsNone
<1>1. /\ pc \in [Procs -> ProcStates] /\ cursor \in 1 .. NumWorkers + 1 /\ CursorInSlots
      /\ nextProc \in 1 .. MaxProcs + 1
      /\ \A p \in Procs : p >= nextProc => pc[p] = "unborn"
  BY DEF Typing, WorkerTyping, ParentTyping, TypeOfProcess, TypeOfParent, TypeOfPool, UnbornOK
<1>2. nextProc <= MaxProcs => nextProc \in Procs /\ pc[nextProc] = "unborn"
  BY <1>1, OptionsAssumption DEF Procs
<1>3. CASE StartWorker
  <2>1. cursor \in Slots
    BY <1>1, <1>3, OptionsAssumption DEF StartWorker, Slots
  <2> QED
    BY <1>2, <1>3, <2>1 DEF StartWorker, StartProcess, Go, Starts
<1>4. CASE Rejoin
  <2>1. ~StartWorker
    BY <1>4 DEF Rejoin, StartWorker
  <2>2. CASE MoreWork
    BY <1>1, <1>2, <1>4, <2>2 DEF Rejoin, StartProcess, Go, Starts, CursorInSlots
  <2>3. CASE ~MoreWork
    BY <1>4, <2>1, <2>3 DEF Rejoin, StartsNone
  <2> QED
    BY <2>2, <2>3
<1>5. CASE ~StartWorker /\ ~Rejoin
  <2>1. ~Terminate
    BY DEF NoTimeouts, Terminate
  <2>2. UNCHANGED <<worker, slotOf, nextProc>> /\ (pc' = pc \/ InterruptShutdown)
    BY <1>5, <2>1
      DEF ParentStep, Parent, EnterLoop, Receive, AllDone, GetTimesOut, ScanWorker,
          TimeOutWorker, KillDone, ScanDone, TeardownShared, Summarize, TellStop, Join,
          SendSigill, Terminate, InterruptLoop, InterruptShutdown, Terminated, vars
  <2>3. \A q \in Procs : pc'[q] \in {pc[q], "dead"}
    <3>1. nextProc' # nextProc + 1
      BY <1>1, <2>2
    <3> QED
      BY <3>1, ParentSteps
  <2> QED
    BY <1>5, <2>2, <2>3 DEF StartsNone
<1> QED
  BY <1>3, <1>4, <1>5

LEMMA ParentSlotted ==
  ASSUME Typing, NoTimeouts, Slotted, RestartWorker /\ ppc = "rejoin" => Posters, ParentStep
  PROVE  Slotted'
<1>1. /\ worker \in [Slots -> Procs] /\ slotOf \in [Procs -> Slots] /\ nextProc \in Nat
      /\ pc \in [Procs -> ProcStates] /\ cursor \in 1 .. NumWorkers + 1
  BY OptionsAssumption
  DEF Typing, WorkerTyping, ParentTyping, TypeOfProcess, TypeOfParent, TypeOfPool
<1>2. \A i \in Slots : i \in Int /\ (cursor > NumWorkers => i < cursor)
  BY <1>1, OptionsAssumption DEF Slots
<1>3. ppc' = "rejoin" => RestartWorker
  BY
    DEF Slotted, Waiting, ParentStep, Parent, StartWorker, EnterLoop, Receive, Rejoin,
        AllDone, GetTimesOut, ScanWorker, TimeOutWorker, KillDone, ScanDone, TeardownShared,
        Summarize, TellStop, Join, SendSigill, Terminate, InterruptLoop, InterruptShutdown,
        Terminated, vars
<1>4. /\ ppc' = "start" => ppc = "start"
      /\ ppc = "start" /\ ppc' # "start" => cursor > NumWorkers
  BY
    DEF Waiting, ParentStep, Parent, StartWorker, EnterLoop, Receive, Rejoin, AllDone,
        GetTimesOut, ScanWorker, TimeOutWorker, KillDone, ScanDone, TeardownShared,
        Summarize, TellStop, Join, SendSigill, Terminate, InterruptLoop, InterruptShutdown,
        Terminated, vars
<1>5. CASE Starts
  <2>1. /\ StartWorker => ppc = "start" /\ ppc' = "start" /\ cursor' = cursor + 1
        /\ Rejoin => ppc = "rejoin" /\ ppc' = "wait" /\ cursor' = cursor
    BY DEF StartWorker, Rejoin
  <2>2. /\ cursor \in Slots /\ nextProc \in Procs /\ pc[nextProc] = "unborn"
        /\ nextProc' = nextProc + 1
        /\ worker'[cursor] = nextProc /\ slotOf'[nextProc] = cursor
        /\ \A i \in Slots \ {cursor} : worker'[i] = worker[i]
        /\ \A p \in Procs \ {nextProc} : slotOf'[p] = slotOf[p] /\ pc'[p] = pc[p]
    BY <1>1, <1>5 DEF Starts
  <2>3. ASSUME NEW p \in Procs \ {nextProc}, Serving(p) PROVE slotOf[p] # cursor
    <3>1. worker[slotOf[p]] = p
      BY <2>3 DEF Slotted
    <3>2. CASE StartWorker
      <4>1. slotOf[p] < cursor
        BY <2>1, <2>3, <3>2 DEF Slotted, Serving, Early, AtWork
      <4> QED
        BY <1>1, <4>1 DEF Slots
    <3>3. CASE Rejoin
      <4>1. pc[worker[cursor]] \in Spent /\ RestartWorker
        BY <2>1, <3>3 DEF Posters, Slotted
      <4> QED
        BY <2>3, <3>1, <4>1 DEF Serving, Early, AtWork, Spent
    <3> QED
      BY <1>5, <3>2, <3>3 DEF Starts
  <2>4. ASSUME NEW p \in Procs, Serving(p)' PROVE worker'[slotOf'[p]] = p
    <3>1. CASE p = nextProc
      BY <2>2, <3>1
    <3>2. CASE p # nextProc
      <4>1. Serving(p)
        BY <2>2, <2>4, <3>2 DEF Serving
      <4>2. slotOf'[p] = slotOf[p] /\ slotOf[p] \in Slots \ {cursor}
        BY <1>1, <2>2, <2>3, <3>2, <4>1
      <4>3. worker'[slotOf[p]] = worker[slotOf[p]] /\ worker[slotOf[p]] = p
        BY <2>2, <4>1, <4>2 DEF Slotted
      <4> QED
        BY <4>2, <4>3
    <3> QED
      BY <3>1, <3>2
  <2>5. ASSUME NEW i \in Slots, ppc' # "start" \/ i < cursor'
        PROVE  slotOf'[worker'[i]] = i /\ worker'[i] < nextProc'
    <3>1. CASE i = cursor
      BY <1>1, <2>2, <3>1
    <3>2. CASE i # cursor
      <4>1. ppc # "start" \/ i < cursor
        BY <1>1, <1>2, <1>5, <2>1, <2>5, <3>2 DEF Starts
      <4>2. slotOf[worker[i]] = i /\ worker[i] < nextProc /\ worker[i] \in Procs
        BY <1>1, <4>1 DEF Slotted
      <4> QED
        BY <1>1, <2>2, <3>2, <4>2 DEF Procs
    <3> QED
      BY <3>1, <3>2
  <2>6. ASSUME ppc' = "start", NEW p \in Procs, pc'[p] # "unborn" PROVE slotOf'[p] < cursor'
    <3>1. ppc = "start" /\ cursor' = cursor + 1
      BY <1>5, <2>1, <2>6 DEF Starts
    <3>2. CASE p = nextProc
      BY <1>1, <2>2, <3>1, <3>2
    <3>3. CASE p # nextProc
      <4>1. slotOf'[p] = slotOf[p] /\ slotOf[p] < cursor /\ slotOf[p] \in Int
        BY <1>1, <1>2, <2>2, <2>6, <3>1, <3>3 DEF Slotted
      <4> QED
        BY <1>1, <3>1, <4>1
    <3> QED
      BY <3>2, <3>3
  <2> QED
    BY <1>3, <2>4, <2>5, <2>6 DEF Slotted
<1>6. CASE StartsNone
  <2>1. /\ UNCHANGED <<worker, slotOf, nextProc>>
        /\ \A p \in Procs : pc'[p] \in {pc[p], "dead"}
    BY <1>6 DEF StartsNone
  <2>2. \A p \in Procs : Serving(p)' => Serving(p)
    BY <2>1 DEF Serving, Early, AtWork
  <2>3. ppc' = "start" => cursor' = cursor /\ UNCHANGED pc
    BY <1>6
      DEF StartsNone, Waiting, ParentStep, Parent, StartWorker, EnterLoop, Receive, Rejoin,
          AllDone, GetTimesOut, ScanWorker, TimeOutWorker, KillDone, ScanDone,
          TeardownShared, Summarize, TellStop, Join, SendSigill, Terminate, InterruptLoop,
          InterruptShutdown, Terminated, vars
  <2> QED
    BY <1>2, <1>3, <1>4, <2>1, <2>2, <2>3 DEF Slotted
<1> QED
  BY <1>5, <1>6, ParentStarts

LEMMA InitSlotted == Init => Slotted
BY OptionsAssumption DEF Init, Slotted, Serving, Early, AtWork, Slots

-----------------------------------------------------------------------------
LEMMA ResultsTyped ==
  ASSUME Typing, NEW k \in 1 .. Len(resultQueue)
  PROVE  /\ resultQueue[k].slot \in Slots /\ worker[resultQueue[k].slot] \in Procs
         /\ resultQueue[k].task \in Tasks
<1>1. resultQueue \in Seq(Result) /\ worker \in [Slots -> Procs]
  BY DEF Typing, WorkerTyping, ParentTyping, TypeOfQueues, TypeOfPool
<1>2. resultQueue[k] \in Result
  BY <1>1, ElementOfSeq
<1> QED
  BY <1>1, <1>2 DEF Result

LEMMA WorkerPosters ==
  ASSUME Typing, NoTimeouts, Slotted, Posters, RestartWorker, NEW p \in Procs, CalmWork(p)
  PROVE  Posters'
<1>1. /\ resultQueue \in Seq(Result) /\ pc \in [Procs -> ProcStates]
      /\ worker \in [Slots -> Procs] /\ slotOf[p] \in Slots
      /\ ppc = "rejoin" => cursor \in Slots
  BY DEF Typing, WorkerTyping, ParentTyping, TypeOfQueues, TypeOfProcess, TypeOfPool, CursorInSlots
<1>2. /\ UNCHANGED <<ppc, cursor, worker>>
      /\ \A q \in Procs \ {p} : pc'[q] = pc[q]
  <2>1. Step(p)
    BY DEF CalmWork, Step, Work
  <2> QED
    BY <2>1, ParentKept, OthersKept
<1>3. pc[p] \in Spent => pc'[p] \in Spent
  BY <1>1
    DEF Spent, EndsAfterTask, At, Go, Die, Busy, Handling, CalmWork, Fault, Get, GetStop,
        Idle, Check, Load, LoadFails, MarkStart, RunTest, SuiteDone, Report, RunRaises,
        FixtureExits, PostFailure, NextTask, Crash, Tick
<1>4. \A q \in Procs : pc[q] \in Spent => pc'[q] \in Spent
  BY <1>2, <1>3
<1>5. \A k \in 1 .. Len(resultQueue) : worker[resultQueue[k].slot] \in Procs
  BY ResultsTyped
<1>6. CASE resultQueue' = resultQueue
  BY <1>1, <1>2, <1>4, <1>5, <1>6 DEF Posters
<1>7. CASE PostsResult(p)
  <2> PICK m \in Result :
        /\ m.slot = slotOf[p] /\ pc[p] \in {"report", "fail"} /\ pc'[p] \in {"posted", "loop"}
        /\ resultQueue' = Append(resultQueue, m)
    BY <1>7 DEF PostsResult
  <2>1. worker[m.slot] = p
    BY DEF Slotted, Serving, Early, AtWork
  <2>2. \A k \in 1 .. Len(resultQueue) : resultQueue[k].slot # m.slot
    BY <2>1 DEF Posters, Spent
  <2>3. ppc = "start" => m.slot < cursor
    BY DEF Slotted
  <2>4. ppc = "rejoin" => m.slot # cursor
    BY <2>1 DEF Posters, Spent
  <2>5. /\ Len(resultQueue) \in Nat /\ resultQueue'[Len(resultQueue) + 1] = m
        /\ \A k \in 1 .. Len(resultQueue) : resultQueue'[k] = resultQueue[k]
        /\ \A k \in 1 .. Len(resultQueue') :
             k = Len(resultQueue) + 1 \/ k \in 1 .. Len(resultQueue)
    BY <1>1, AppendElements
  <2>6. pc'[worker[m.slot]] \in Spent
    BY <2>1 DEF Spent
  <2>7. \A k \in 1 .. Len(resultQueue') :
          /\ pc'[worker'[resultQueue'[k].slot]] \in Spent
          /\ ppc' = "start" => resultQueue'[k].slot < cursor'
          /\ ppc' = "rejoin" => resultQueue'[k].slot # cursor'
    BY <1>2, <1>4, <1>5, <2>3, <2>4, <2>5, <2>6 DEF Posters
  <2>8. \A k, j \in 1 .. Len(resultQueue') :
          resultQueue'[k].slot = resultQueue'[j].slot => k = j
    BY <2>2, <2>5 DEF Posters
  <2>9. ppc' = "rejoin" => pc'[worker'[cursor']] \in Spent
    BY <1>1, <1>2, <1>4 DEF Posters
  <2> QED
    BY <2>7, <2>8, <2>9 DEF Posters
<1> QED
  BY <1>6, <1>7, WorkerMoves DEF Get, Continues

LEMMA ParentPosters ==
  ASSUME Typing, NoTimeouts, Slotted, Posters, RestartWorker, ParentStep
  PROVE  Posters'
<1>1. /\ resultQueue \in Seq(Result) /\ pc \in [Procs -> ProcStates]
      /\ worker \in [Slots -> Procs] /\ nextProc \in Nat /\ cursor \in Int
      /\ ppc = "rejoin" => cursor \in Slots
      /\ \A s \in Slots : s \in Int
  BY OptionsAssumption
  DEF Typing, WorkerTyping, ParentTyping, TypeOfQueues, TypeOfProcess, TypeOfPool,
      TypeOfParent, CursorInSlots, Slots
<1>2. \A k \in 1 .. Len(resultQueue) :
        resultQueue[k].slot \in Slots /\ worker[resultQueue[k].slot] \in Procs
  BY ResultsTyped
<1>3. CASE Starts
  <2>1. /\ StartWorker => ppc = "start" /\ ppc' = "start" /\ cursor' = cursor + 1
        /\ Rejoin => ppc = "rejoin" /\ ppc' = "wait"
        /\ resultQueue' = resultQueue
    BY <1>3 DEF Starts, StartWorker, Rejoin
  <2>2. /\ pc[nextProc] = "unborn"
        /\ \A i \in Slots \ {cursor} : worker'[i] = worker[i]
        /\ \A q \in Procs \ {nextProc} : pc'[q] = pc[q]
    BY <1>1, <1>3 DEF Starts
  <2>3. \A k \in 1 .. Len(resultQueue) : resultQueue[k].slot # cursor
    BY <1>1, <1>2, <1>3, <2>1 DEF Posters, Starts
  <2>4. \A k \in 1 .. Len(resultQueue) : pc'[worker'[resultQueue[k].slot]] \in Spent
    BY <1>2, <2>2, <2>3 DEF Posters, Spent
  <2>5. \A k \in 1 .. Len(resultQueue) : ppc' = "start" => resultQueue[k].slot < cursor'
    BY <1>1, <1>2, <1>3, <2>1 DEF Posters, Starts
  <2>6. ppc' # "rejoin"
    BY <1>3, <2>1 DEF Starts
  <2> QED
    BY <2>1, <2>4, <2>5, <2>6 DEF Posters
<1>4. CASE StartsNone
  <2>1. /\ worker' = worker /\ \A q \in Procs : pc[q] \in Spent => pc'[q] \in Spent
    BY <1>4 DEF StartsNone, Spent
  <2>2. CASE Receive
    <3>1. /\ resultQueue # <<>> /\ resultQueue' = Tail(resultQueue)
          /\ ppc' # "start" /\ (ppc' = "rejoin" => cursor' = resultQueue[1].slot)
      <4>1. Head(resultQueue) = resultQueue[1]
        BY <1>1, <2>2, TailElements DEF Receive
      <4> QED
        BY <2>2, <4>1 DEF Receive, Waiting
    <3>2. /\ 1 \in 1 .. Len(resultQueue)
          /\ \A k \in 1 .. Len(resultQueue') :
               k + 1 \in 1 .. Len(resultQueue) /\ k + 1 # 1 /\ resultQueue'[k] = resultQueue[k + 1]
      BY <1>1, <3>1, TailElements
    <3>3. \A k, j \in 1 .. Len(resultQueue') :
            resultQueue'[k].slot = resultQueue'[j].slot => k = j
      BY <3>2 DEF Posters
    <3> QED
      BY <1>2, <2>1, <3>1, <3>2, <3>3 DEF Posters
  <2>3. CASE ~Receive
    <3>1. resultQueue' = resultQueue
      BY <2>3, ParentReads
    <3>2. ppc' \in {"start", "rejoin"} => ppc' = ppc /\ cursor' = cursor
      BY <1>4, <2>3
        DEF StartsNone, Waiting, ParentStep, Parent, StartWorker, EnterLoop, Rejoin,
            AllDone, GetTimesOut, ScanWorker, TimeOutWorker, KillDone, ScanDone,
            TeardownShared, Summarize, TellStop, Join, SendSigill, Terminate, InterruptLoop,
            InterruptShutdown, Terminated, vars
    <3> QED
      BY <1>1, <1>2, <2>1, <3>1, <3>2 DEF Posters
  <2> QED
    BY <2>2, <2>3
<1> QED
  BY <1>3, <1>4, ParentStarts

-----------------------------------------------------------------------------
LEMMA InWinding ==
  ASSUME Typing, NoTimeouts, ParentStep, ppc' \in Winding
  PROVE  \/ ppc \in Winding /\ ~Receive /\ ~ScanDone /\ ~AllDone
         \/ AllDone \/ ScanDone \/ InterruptLoop
         \/ Receive /\ shouldStop'
BY
  DEF Winding, Waiting, NoTimeouts, ParentStep, Parent, StartWorker, EnterLoop, Receive,
      Rejoin, AllDone, GetTimesOut, ScanWorker, TimeOutWorker, KillDone, ScanDone,
      TeardownShared, Summarize, TellStop, Join, SendSigill, Terminate, InterruptLoop,
      InterruptShutdown, Terminated, vars

LEMMA WorkerScans ==
  ASSUME Timely, Typing, NoTimeouts, Scanned, Over, NEW p \in Procs, CalmWork(p)
  PROVE  Scanned' /\ Over'
<1>1. /\ worker \in [Slots -> Procs] /\ pc \in [Procs -> ProcStates]
      /\ testQueue \in Seq(Tasks \cup {STOP})
  BY DEF Typing, WorkerTyping, ParentTyping, TypeOfQueues, TypeOfProcess, TypeOfPool
<1>2. Step(p) /\ UNCHANGED <<ppc, cursor, anyAlive, worker, shouldStop>>
      /\ \A q \in Procs \ {p} : pc'[q] = pc[q]
  <2>1. Step(p)
    BY DEF CalmWork, Step, Work
  <2> QED
    BY <2>1, ParentKept, OthersKept
<1>3. NoAddress => NoAddress' /\ ~Get(p)
  BY <1>2, NoAddressKept
<1>4. pc[p] \in {"unborn", "dead"} => pc' = pc
  BY
    DEF At, Busy, Handling, CalmWork, Fault, Get, GetStop, Idle, Check, Load, LoadFails,
        MarkStart, RunTest, SuiteDone, Report, RunRaises, FixtureExits, PostFailure,
        NextTask, Crash, Tick
<1>5. pc[p] = "get" /\ ~Get(p) => pc'[p] \in {"get", "dead"}
  BY <1>1
    DEF At, Die, CalmWork, Fault, GetStop, Idle, Check, Load, LoadFails, MarkStart, RunTest,
        SuiteDone, Report, RunRaises, FixtureExits, PostFailure, NextTask, Crash, Tick
<1>6. \A q \in Procs : Idling(q) => Idling(q)'
  BY <1>2, <1>3, <1>4, <1>5 DEF Idling
<1>7. Scanned'
  BY <1>1, <1>2, <1>6 DEF Scanned
<1>8. pc'[p] \in AtWork => pc[p] \in AtWork \/ Get(p)
  BY <1>1
    DEF AtWork, At, Go, Die, CalmWork, Fault, GetStop, Idle, Check, Load, LoadFails,
        MarkStart, RunTest, SuiteDone, Report, RunRaises, FixtureExits, PostFailure,
        NextTask, Crash, Tick
<1>9. Over'
  BY <1>2, <1>3, <1>8 DEF Over
<1> QED
  BY <1>7, <1>9

\* A process that runs or is about to is in a slot, and no idling one.
LEMMA RunnersSeated ==
  ASSUME Typing, Slotted, NEW p \in Procs, pc[p] \in Early
  PROVE  \E i \in Slots : worker[i] = p
BY DEF Slotted, Serving, Typing, ParentTyping, TypeOfPool

LEMMA ParentScans ==
  ASSUME Timely, Typing, NoTimeouts, Apart, Slotted, Scanned, Over, ParentStep, Calm'
  PROVE  Scanned' /\ Over'
<1>0. CalmParent /\ ~InterruptLoop
  BY CalmBefore
<1>1. /\ worker \in [Slots -> Procs] /\ cursor \in Int /\ cursor \in 1 .. NumWorkers + 1
      /\ anyAlive \in BOOLEAN /\ late \in [Procs -> BOOLEAN] /\ currentaddr \in [Procs -> BOOLEAN]
      /\ testQueue \in Seq(Tasks \cup {STOP}) /\ pc \in [Procs -> ProcStates]
  BY OptionsAssumption
  DEF Typing, WorkerTyping, ParentTyping, TypeOfQueues, TypeOfProcess, TypeOfPool,
      TypeOfParent, TypeOfShared
<1>2. \A q \in Procs : pc'[q] \in AtWork => pc[q] \in AtWork
  BY ParentReads DEF AtWork
<1>3. NoAddress => NoAddress'
  <2>1. CASE testQueue' = testQueue
    BY <2>1 DEF NoAddress
  <2>2. CASE testQueue' = Append(testQueue, STOP)
    BY <1>1, <2>2, AppendElements DEF NoAddress
  <2> QED
    BY <2>1, <2>2, ParentReads
<1>4. CASE ScanWorker
  <2>1. cursor \in Slots /\ ppc = "scan" /\ UNCHANGED <<worker, pc, testQueue, shouldStop>>
    BY <1>1, <1>4, OptionsAssumption DEF ScanWorker, Slots
  <2> PICK w \in Procs : w = worker[cursor]
    BY <1>1, <2>1
  <2>2. /\ anyAlive' = (anyAlive \/ (Alive(w) /\ (currentaddr[w] \/ ~late[w])))
        /\ (ppc' = "hit" /\ cursor' = cursor) \/ (cursor' = cursor + 1 /\ ppc' = ppc)
    BY <1>4 DEF ScanWorker
  <2>3. ~anyAlive' => ~anyAlive /\ Idling(w)
    BY <1>1, <2>2 DEF NoTimeouts, Alive, Idling
  <2>4. Scanned'
    <3> SUFFICES ASSUME ppc' = "scan", ~anyAlive', NEW i \in Slots, i < cursor'
                 PROVE  Idling(worker[i])
      BY <2>1 DEF Scanned, Idling, NoAddress
    <3>1. i < cursor \/ i = cursor
      BY <1>1, <2>2 DEF Slots
    <3> QED
      BY <2>1, <2>3, <3>1 DEF Scanned
  <2>5. ppc' \notin Winding
    BY <2>1, <2>2 DEF Winding
  <2> QED
    BY <2>4, <2>5 DEF Over
<1>5. CASE ~ScanWorker
  <2>1. ppc' = "scan" => cursor' = 1 \/ UNCHANGED vars
    BY <1>0, <1>5
      DEF NoTimeouts, Waiting, CalmParent, StartWorker, EnterLoop, Receive, Rejoin, AllDone,
          GetTimesOut, ScanDone, TeardownShared, Summarize, TellStop, Join, Terminated, vars
  <2>2. \A i \in Slots : ~(i < 1)
    BY DEF Slots
  <2>3. UNCHANGED vars => Scanned'
    BY DEF vars, Scanned, Idling, NoAddress
  <2>4. Scanned'
    BY <2>1, <2>2, <2>3 DEF Scanned
  <2>5. shouldStop => shouldStop'
    BY <1>0, <1>5
      DEF vars, CalmParent, StartWorker, EnterLoop, Receive, Rejoin, AllDone, GetTimesOut,
          ScanDone, TeardownShared, Summarize, TellStop, Join, Terminated, vars
  <2>6. ASSUME ppc' \in Winding, ~shouldStop', NEW q \in Procs
        PROVE  NoAddress /\ pc[q] \notin AtWork
    <3>1. CASE ppc \in Winding
      BY <2>5, <2>6, <3>1 DEF Over
    <3>2. CASE AllDone
      <4>1. tasks = {}
        BY <3>2 DEF AllDone, Waiting
      <4>2. pc[q] \notin AtWork
        BY <4>1 DEF Apart
      <4>3. NoAddress
        <5> SUFFICES ASSUME NEW i \in 1 .. Len(testQueue), testQueue[i] # STOP PROVE FALSE
          BY DEF NoAddress
        <5>1. testQueue[i] \in Tasks
          BY <1>1, ElementOfSeq
        <5> QED
          BY <4>1, <5>1 DEF Apart, Queued
      <4> QED
        BY <4>2, <4>3
    <3>3. CASE ScanDone
      <4>1. /\ ppc = "scan" /\ cursor > NumWorkers /\ ~anyAlive /\ testQueue = <<>>
        BY <2>6, <3>3 DEF ScanDone, AllGone, Winding
      <4>2. NoAddress
        BY <4>1 DEF NoAddress
      <4>3. \A i \in Slots : Idling(worker[i])
        BY <1>1, <4>1, OptionsAssumption DEF Scanned, Slots
      <4>4. pc[q] \in AtWork => \E i \in Slots : worker[i] = q
        BY RunnersSeated DEF Early, AtWork
      <4> QED
        BY <4>2, <4>3, <4>4 DEF Idling, AtWork
    <3> QED
      BY <2>6, <3>1, <3>2, <3>3, <1>0, InWinding
  <2>7. 1 \in Procs
    BY OptionsAssumption DEF Procs
  <2> QED
    BY <1>2, <1>3, <2>4, <2>6, <2>7 DEF Over
<1> QED
  BY <1>4, <1>5

-----------------------------------------------------------------------------
(***************************************************************************)
(* Shared fixtures are up while tests run, and how much runs after --stop. *)
(***************************************************************************)
\* Where the workers are, in a run without timeouts.
Placed ==
  /\ Timeless /\ Slotted
  /\ Calm => Scanned /\ Over /\ (RestartWorker => Posters)

LEMMA InitPlaced == Init => Placed
<1> SUFFICES ASSUME Init PROVE Placed
  OBVIOUS
<1>1. Scanned /\ Over /\ Posters
  BY DEF Init, Scanned, Over, Posters, Winding
<1> QED
  BY <1>1, InitTimeless, InitSlotted DEF Placed

LEMMA NextPlaced ==
  ASSUME Timely, Placed, [Next]_vars
  PROVE  Placed'
<1>1. /\ Timeless /\ Typing /\ NoTimeouts /\ Quiet /\ WindingUp /\ Slotted
      /\ Calm => Apart /\ Scanned /\ Over /\ (RestartWorker => Posters)
  BY DEF Placed, Timeless, Peace
<1>2. Timeless'
  BY <1>1, NextTimeless
<1>3. CASE \E p \in Procs : Step(p)
  <2>1. PICK p \in Procs : Step(p)
    BY <1>3
  <2>2. Slotted'
    BY <1>1, <2>1, WorkerSlotted
  <2>3. Calm' => Calm
    BY <1>1, <2>1, ParentKept DEF Calm
  <2>4. Calm => CalmWork(p)
    BY <1>1, <2>1, WorkIsCalm
  <2> QED
    BY <1>1, <1>2, <2>2, <2>3, <2>4, WorkerScans, WorkerPosters DEF Placed
<1>4. CASE ParentStep
  <2>1. ppc = "rejoin" => Calm
    BY <1>1 DEF WindingUp, Calm
  <2>2. Slotted'
    BY <1>1, <1>4, <2>1, ParentSlotted
  <2>3. Calm' => Calm
    BY <1>1, <1>4, CalmBefore
  <2> QED
    BY <1>1, <1>2, <1>4, <2>2, <2>3, ParentScans, ParentPosters DEF Placed
<1>5. CASE UNCHANGED vars
  <2>1. /\ UNCHANGED <<ppc, cursor, anyAlive, worker, slotOf, nextProc, pc, shouldStop, thrown>>
        /\ UNCHANGED <<testQueue, resultQueue>>
    BY <1>5 DEF vars
  <2>2. Slotted'
    BY <1>1, <2>1 DEF Slotted, Serving
  <2>3. Calm' => Calm /\ Scanned' /\ Over' /\ (RestartWorker => Posters')
    BY <1>1, <2>1 DEF Calm, Scanned, Over, Posters, Idling, NoAddress
  <2> QED
    BY <1>2, <2>2, <2>3 DEF Placed
<1> QED
  BY <1>3, <1>4, <1>5 DEF Next, Step, ParentStep

\* Neither --stop nor ctrl-c ends the run, and the fixtures outlast its loop.
Uninterrupted ==
  /\ Calm /\ ~shouldStop
  /\ ~sharedUp => ppc \in Winding

LEMMA NextUninterrupted ==
  ASSUME Typing, NoTimeouts, Uninterrupted, ~StopOnError, MaxInterrupts = 0, [Next]_vars
  PROVE  Uninterrupted'
<1>1. CASE \E p \in Procs : Step(p)
  BY <1>1, ParentKept DEF Uninterrupted, Calm
<1>2. CASE ParentStep
  <2>1. ~InterruptLoop /\ ~InterruptShutdown
    BY DEF InterruptLoop, InterruptShutdown, Typing, ParentTyping, TypeOfParent
  <2>2. CalmParent /\ thrown' = thrown /\ ppc' # "raised"
    BY <1>2, <2>1, ParentLeaves DEF Uninterrupted, Calm, vars
  <2>3. shouldStop' = shouldStop
    BY <1>2, <2>1
      DEF ParentStep, Parent, StartWorker, EnterLoop, Receive, Rejoin, AllDone, GetTimesOut,
          ScanWorker, TimeOutWorker, KillDone, ScanDone, TeardownShared, Summarize,
          TellStop, Join, SendSigill, Terminate, Terminated, vars
  <2>4. ~sharedUp' => ppc' \in Winding
    BY <2>2
      DEF Uninterrupted, Calm, Winding, Waiting, CalmParent, StartWorker, EnterLoop,
          Receive, Rejoin, AllDone, GetTimesOut, ScanWorker, ScanDone, TeardownShared,
          Summarize, TellStop, Join, Terminated, vars
  <2> QED
    BY <2>2, <2>3, <2>4 DEF Uninterrupted, Calm
<1>3. CASE UNCHANGED vars
  BY <1>3 DEF vars, Uninterrupted, Calm
<1> QED
  BY <1>1, <1>2, <1>3 DEF Next, Step, ParentStep

\* The parent tears the shared fixtures down only when no test is left to run,
\* whichever workers fail or crash: a run that is neither stopped nor
\* interrupted, and in which no task exceeds the timeout, runs no test without
\* them.
THEOREM FixturesOutlastTests ==
  ASSUME Timely, ~StopOnError, MaxInterrupts = 0
  PROVE  Spec => []SharedFixturesUp
<1> DEFINE IInv == Placed /\ Uninterrupted
<1>1. Init => IInv
  BY InitPlaced DEF Init, Uninterrupted, Calm
<1>2. IInv /\ [Next]_vars => IInv'
  BY NextPlaced, NextUninterrupted DEF Placed, Timeless, Peace
<1>3. IInv => SharedFixturesUp
  BY DEF Placed, Uninterrupted, Over, AtWork, SharedFixturesUp, At
<1> QED
  BY <1>1, <1>2, <1>3, PTL DEF Spec

\* The slots whose worker is about to load the address it has checked the event for.
LoadingSlots == {i \in Slots : pc[worker[i]] = "load"}

\* Once the parent has set shouldStop it starts no worker, and each of those at
\* Load has one task left to load.
StopInv ==
  IF shouldStop
    THEN ppc \in Winding \cup {"raised"} /\ afterStop + Cardinality(LoadingSlots) <= NumWorkers
    ELSE afterStop = 0

\* A worker that loads a task is in a slot.
LoadersSeated == \A p \in Procs : pc[p] = "load" => \E i \in Slots : worker[i] = p

LEMMA SlotsCounted ==
  ASSUME NEW S \in SUBSET Slots
  PROVE  IsFiniteSet(S) /\ Cardinality(S) \in Nat /\ Cardinality(S) <= NumWorkers
<1>1. IsFiniteSet(Slots) /\ Cardinality(Slots) = NumWorkers
  BY OptionsAssumption, FS_Interval DEF Slots
<1> QED
  BY <1>1, FS_Subset, FS_CardinalityType

LEMMA WorkerStops ==
  ASSUME Typing, LoadersSeated, StopInv, NEW p \in Procs, Step(p)
  PROVE  StopInv'
<1>1. /\ worker \in [Slots -> Procs] /\ pc \in [Procs -> ProcStates] /\ afterStop \in Nat
      /\ NumWorkers \in Nat /\ shouldStop \in BOOLEAN
  BY OptionsAssumption
  DEF Typing, WorkerTyping, ParentTyping, TypeOfProcess, TypeOfPool, TypeOfHistory, TypeOfParent
<1>2. /\ UNCHANGED <<ppc, worker, shouldStop>> /\ \A q \in Procs \ {p} : pc'[q] = pc[q]
  BY ParentKept, OthersKept
<1>3. afterStop' = IF Load(p) /\ shouldStop THEN afterStop + 1 ELSE afterStop
  BY
    DEF Load, Step, Work, Fault, Deliver, Get, GetStop, Idle, Check, LoadFails, MarkStart,
        RunTest, SuiteDone, Report, RunRaises, FixtureExits, HandleTimeout, PostFailure,
        PostInterrupt, NextTask, Crash, Tick, DeliverOutside, DeliverInRunner, DeliverInTest
<1>4. CASE ~shouldStop
  BY <1>2, <1>3, <1>4 DEF StopInv
<1>5. CASE shouldStop
  <2> DEFINE S == LoadingSlots
             T == {i \in Slots : pc'[worker[i]] = "load"}
  <2>1. LoadingSlots' = T
    BY <1>2 DEF LoadingSlots
  <2>2. afterStop + Cardinality(S) <= NumWorkers /\ ppc \in Winding \cup {"raised"}
    BY <1>5 DEF StopInv
  <2>3. /\ S \in SUBSET Slots /\ T \in SUBSET Slots /\ IsFiniteSet(S)
        /\ Cardinality(S) \in Nat /\ Cardinality(T) \in Nat
    BY SlotsCounted DEF LoadingSlots
  <2>4. pc'[p] = "load" => pc[p] = "load" /\ ~Load(p)
    BY <1>1, <1>5
      DEF MustStop, At, Go, Die, HandlerOf, Alive, Busy, Step, Work, Fault, Deliver, Get,
          GetStop, Idle, Check, Load, LoadFails, MarkStart, RunTest, SuiteDone, Report,
          RunRaises, FixtureExits, HandleTimeout, PostFailure, PostInterrupt, NextTask,
          Crash, Tick, DeliverOutside, DeliverInRunner, DeliverInTest
  <2>5. T \subseteq S
    BY <1>1, <1>2, <2>4 DEF LoadingSlots
  <2>6. CASE Load(p)
    <3>1. pc[p] = "load"
      BY <2>6 DEF Load, At
    <3>2. PICK i \in Slots : worker[i] = p
      BY <3>1 DEF LoadersSeated
    <3>3. i \in S /\ T \subseteq S \ {i}
      BY <1>1, <2>4, <2>5, <2>6, <3>1, <3>2 DEF LoadingSlots
    <3> HIDE DEF S, T
    <3>4. Cardinality(S \ {i}) = Cardinality(S) - 1 /\ IsFiniteSet(S \ {i})
      BY <2>3, <3>3, FS_RemoveElement
    <3>5. Cardinality(T) <= Cardinality(S \ {i})
      BY <3>3, <3>4, FS_Subset
    <3>6. afterStop' = afterStop + 1
      BY <1>3, <1>5, <2>6
    <3>7. afterStop' + Cardinality(T) <= NumWorkers
      BY <1>1, <2>2, <2>3, <3>4, <3>5, <3>6
    <3> QED
      BY <1>2, <1>5, <2>1, <2>2, <3>7 DEF StopInv
  <2>7. CASE ~Load(p)
    <3> HIDE DEF S, T
    <3>1. Cardinality(T) <= Cardinality(S)
      BY <2>3, <2>5, FS_Subset
    <3>2. afterStop' + Cardinality(T) <= NumWorkers
      BY <1>1, <1>3, <2>2, <2>3, <2>7, <3>1
    <3> QED
      BY <1>2, <1>5, <2>1, <2>2, <3>2 DEF StopInv
  <2> QED
    BY <2>6, <2>7
<1> QED
  BY <1>1, <1>4, <1>5

LEMMA ParentStops ==
  ASSUME Typing, StopInv, ParentStep
  PROVE  StopInv'
<1>1. afterStop \in Nat /\ NumWorkers \in Nat /\ shouldStop \in BOOLEAN
  BY OptionsAssumption DEF Typing, WorkerTyping, ParentTyping, TypeOfHistory, TypeOfParent
<1>2. afterStop' = afterStop
  BY
    DEF ParentStep, Parent, StartWorker, EnterLoop, Receive, Rejoin, AllDone, GetTimesOut,
        ScanWorker, TimeOutWorker, KillDone, ScanDone, TeardownShared, Summarize, TellStop,
        Join, SendSigill, Terminate, InterruptLoop, InterruptShutdown, Terminated, vars
<1>3. shouldStop' = shouldStop \/ (Receive /\ shouldStop' = TRUE /\ ppc' = "teardown")
  BY
    DEF ParentStep, Parent, StartWorker, EnterLoop, Receive, Rejoin, AllDone, GetTimesOut,
        ScanWorker, TimeOutWorker, KillDone, ScanDone, TeardownShared, Summarize, TellStop,
        Join, SendSigill, Terminate, InterruptLoop, InterruptShutdown, Terminated, vars
<1>4. CASE ~shouldStop /\ shouldStop' = TRUE
  <2>1. LoadingSlots' \in SUBSET Slots
    BY DEF LoadingSlots, Slots
  <2>2. Cardinality(LoadingSlots') \in Nat /\ Cardinality(LoadingSlots') <= NumWorkers
    BY <2>1, SlotsCounted
  <2>3. afterStop = 0 /\ ppc' = "teardown"
    BY <1>3, <1>4 DEF StopInv
  <2>4. afterStop' + Cardinality(LoadingSlots') <= NumWorkers
    BY <1>1, <1>2, <2>2, <2>3
  <2>5. Cardinality(LoadingSlots)' = Cardinality(LoadingSlots')
    OBVIOUS
  <2> QED
    BY <1>4, <2>3, <2>4, <2>5 DEF StopInv, Winding
<1>5. CASE shouldStop
  <2>1. ppc \in Winding \cup {"raised"} /\ afterStop + Cardinality(LoadingSlots) <= NumWorkers
    BY <1>5 DEF StopInv
  <2>2. ppc' \in Winding \cup {"raised"} /\ UNCHANGED <<worker, shouldStop>>
    BY <1>5, <2>1
      DEF Winding, Waiting, ParentStep, Parent, StartWorker, EnterLoop, Receive, Rejoin,
          AllDone, GetTimesOut, ScanWorker, TimeOutWorker, KillDone, ScanDone,
          TeardownShared, Summarize, TellStop, Join, SendSigill, Terminate, InterruptLoop,
          InterruptShutdown, Terminated, vars
  <2>3. \A q \in Procs : pc'[q] \in {pc[q], "dead", "get"}
    BY ParentReads
  <2>4. LoadingSlots' \subseteq LoadingSlots
    <3>1. worker \in [Slots -> Procs]
      BY DEF Typing, ParentTyping, TypeOfPool
    <3> QED
      BY <2>2, <2>3, <3>1 DEF LoadingSlots
  <2>5. /\ IsFiniteSet(LoadingSlots) /\ Cardinality(LoadingSlots) \in Nat
        /\ Cardinality(LoadingSlots') \in Nat
    <3>1. LoadingSlots \in SUBSET Slots
      BY DEF LoadingSlots
    <3>2. LoadingSlots' \in SUBSET Slots
      BY <2>4, <3>1
    <3> QED
      BY <3>1, <3>2, SlotsCounted
  <2>6. Cardinality(LoadingSlots') <= Cardinality(LoadingSlots)
    BY <2>4, <2>5, FS_Subset
  <2>7. afterStop' + Cardinality(LoadingSlots') <= NumWorkers
    BY <1>1, <1>2, <2>1, <2>5, <2>6
  <2> QED
    BY <1>5, <2>2, <2>7 DEF StopInv
<1>6. CASE ~shouldStop /\ ~shouldStop'
  BY <1>2, <1>6 DEF StopInv
<1> QED
  BY <1>1, <1>3, <1>4, <1>5, <1>6

LEMMA NextStopped ==
  ASSUME Typing, LoadersSeated, StopInv, [Next]_vars
  PROVE  StopInv'
<1>1. CASE \E p \in Procs : Step(p)
  BY <1>1, WorkerStops
<1>2. CASE ParentStep
  BY <1>2, ParentStops
<1>3. CASE UNCHANGED vars
  BY <1>3 DEF vars, StopInv, LoadingSlots
<1> QED
  BY <1>1, <1>2, <1>3 DEF Next, Step, ParentStep

LEMMA StopInvBounds ==
  ASSUME Typing, StopInv
  PROVE  StopBound
<1>1. afterStop \in Nat /\ NumWorkers \in Nat
  BY OptionsAssumption DEF Typing, WorkerTyping, TypeOfHistory
<1>2. LoadingSlots \in SUBSET Slots
  BY DEF LoadingSlots
<1>3. Cardinality(LoadingSlots) \in Nat
  BY <1>2, SlotsCounted
<1> QED
  BY <1>1, <1>3 DEF StopInv, StopBound

\* After --stop each worker slot starts at most one more task, whatever fails
\* or is interrupted meanwhile, and whatever is timed out and killed too unless
\* workers are restarted: one that a signal makes post twice is then replaced
\* while it runs.
THEOREM StopIsPrompt ==
  ASSUME ~RestartWorker \/ Timely
  PROVE  Spec => []StopBound
<1>0. Init => StopInv
  BY DEF Init, StopInv
<1>1. CASE ~RestartWorker
  <2> DEFINE IInv == Typing /\ Tracking /\ StopInv
  <2>1. Init => IInv
    BY <1>0, InitTyping, InitTracks
  <2>2. IInv /\ [Next]_vars => IInv'
    <3> SUFFICES ASSUME IInv, [Next]_vars PROVE IInv'
      OBVIOUS
    <3>1. LoadersSeated
      BY DEF LoadersSeated, Tracking, WorkersTracked, WorkersInSlots, Alive
    <3> QED
      BY <1>1, <3>1, NextTyping, NextTracks, NextStopped
  <2>3. IInv => StopBound
    BY StopInvBounds
  <2> QED
    BY <2>1, <2>2, <2>3, PTL DEF Spec
<1>2. CASE Timely
  <2> DEFINE IInv == Placed /\ StopInv
  <2>1. Init => IInv
    BY <1>0, InitPlaced
  <2>2. IInv /\ [Next]_vars => IInv'
    <3> SUFFICES ASSUME IInv, [Next]_vars PROVE IInv'
      OBVIOUS
    <3>1. Typing /\ Slotted
      BY DEF Placed, Timeless, Peace
    <3>2. LoadersSeated
      BY <3>1, RunnersSeated DEF LoadersSeated, Early, AtWork
    <3> QED
      BY <1>2, <3>1, <3>2, NextPlaced, NextStopped
  <2>3. IInv => StopBound
    BY StopInvBounds DEF Placed, Timeless, Peace
  <2> QED
    BY <2>1, <2>2, <2>3, PTL DEF Spec
<1> QED
  BY <1>1, <1>2

-----------------------------------------------------------------------------
(***************************************************************************)
(* While addresses are queued each slot has a worker to take them, or a    *)
(* result in the queue that makes the parent start one.                    *)
(***************************************************************************)
\* No task ends its worker before it has a result.
Gentle == Faults \cap {"load", "exit", "crash"} = {}

Messaged(s) == \E k \in 1 .. Len(resultQueue) : resultQueue[k].slot = s
Awaited(i) == Messaged(i) \/ (ppc = "rejoin" /\ cursor = i)
Served(i) == Serving(worker[i]) \/ (RestartWorker /\ Awaited(i))
SlotsServed ==
  Calm /\ ~NoAddress =>
    \A i \in Slots : ppc \in Looping \/ (ppc = "start" /\ i < cursor) => Served(i)

\* A serving worker ends only when there is nothing left to take.
LEMMA ServingAfter ==
  ASSUME Gentle, Typing, Slotted, ~NoAddress, ~shouldStop, NEW p \in Procs, CalmWork(p),
         \A i \in 1 .. Len(testQueue) : testQueue[i] # STOP, Serving(p)
  PROVE  Serving(p)' \/ (RestartWorker /\ PostsResult(p))
<1>1. pc \in [Procs -> ProcStates] /\ testQueue \in Seq(Tasks \cup {STOP})
  BY DEF Typing, WorkerTyping, TypeOfProcess, TypeOfQueues
<1>2. testQueue # <<>>
  BY DEF NoAddress
<1>3. ~GetStop(p) /\ ~Idle(p) /\ ~LoadFails(p) /\ ~FixtureExits(p) /\ ~Crash(p)
  BY <1>1, <1>2, TailElements DEF GetStop, Idle, Gentle, LoadFails, FixtureExits, Crash
<1>4. CASE PostsResult(p)
  BY <1>4 DEF PostsResult, Serving
<1>5. CASE NextTask(p)
  BY <1>1, <1>5 DEF NextTask, Serving, Early, AtWork, EndsAfterTask, Go
<1>6. CASE ~PostsResult(p) /\ ~NextTask(p)
  <2>1. ~Report(p) /\ ~PostFailure(p)
    BY <1>1, <1>6, WorkerMoves DEF Report, PostFailure, At, Go, Get, Continues
  <2>2. pc' = pc \/ pc'[p] \in Early
    BY <1>1, <1>3, <1>6, <2>1
    DEF Early, AtWork, MustStop, At, Go, CalmWork, Get, Check, Load, MarkStart, RunTest,
        SuiteDone, Fault, RunRaises, Tick
  <2> QED
    BY <2>2 DEF Serving
<1> QED
  BY <1>4, <1>5, <1>6

LEMMA WorkerServes ==
  ASSUME Gentle, Typing, NoTimeouts, StopOrder, Slotted, SlotsServed,
         NEW p \in Procs, CalmWork(p), Calm
  PROVE  SlotsServed'
<1>1. Step(p) /\ UNCHANGED <<ppc, cursor, worker, slotOf, shouldStop, thrown>>
      /\ \A q \in Procs \ {p} : pc'[q] = pc[q]
  <2>1. Step(p)
    BY DEF CalmWork, Step, Work
  <2> QED
    BY <2>1, ParentKept, OthersKept
<1> SUFFICES ASSUME ~NoAddress', NEW i \in Slots,
                    ppc \in Looping \/ (ppc = "start" /\ i < cursor)
             PROVE  Served(i)'
  BY <1>1 DEF SlotsServed
<1>2. /\ ~NoAddress /\ ~shouldStop
      /\ \A k \in 1 .. Len(testQueue) : testQueue[k] # STOP
  BY <1>1, NoAddressKept DEF StopOrder, Looping, Winding
<1>3. Served(i)
  BY <1>2 DEF SlotsServed
<1>4. resultQueue \in Seq(Result) /\ worker[i] \in Procs
  BY DEF Typing, WorkerTyping, ParentTyping, TypeOfQueues, TypeOfPool
<1>5. ASSUME Awaited(i) PROVE Awaited(i)'
  <2>1. CASE resultQueue' = resultQueue
    BY <1>1, <1>5, <2>1 DEF Awaited, Messaged
  <2>2. CASE \E m \in Result : resultQueue' = Append(resultQueue, m)
    BY <1>1, <1>4, <1>5, <2>2, AppendElements DEF Awaited, Messaged
  <2> QED
    BY <2>1, <2>2, WorkerMoves DEF Get, PostsResult, Continues
<1>6. CASE Serving(worker[i]) /\ worker[i] = p
  <2>1. CASE Serving(p)'
    BY <1>1, <1>6, <2>1 DEF Served, Serving
  <2>2. CASE RestartWorker /\ PostsResult(p)
    <3>1. slotOf[p] = i
      BY <1>6 DEF Slotted, Looping
    <3>2. PICK m \in Result : m.slot = i /\ resultQueue' = Append(resultQueue, m)
      BY <2>2, <3>1 DEF PostsResult
    <3>3. Len(resultQueue) + 1 \in 1 .. Len(resultQueue') /\ resultQueue'[Len(resultQueue) + 1] = m
      BY <1>4, <3>2, AppendElements
    <3> QED
      BY <2>2, <3>2, <3>3 DEF Served, Awaited, Messaged
  <2> QED
    BY <1>2, <1>6, <2>1, <2>2, ServingAfter
<1>7. CASE Serving(worker[i]) /\ worker[i] # p
  BY <1>1, <1>4, <1>7 DEF Served, Serving
<1> QED
  BY <1>3, <1>5, <1>6, <1>7 DEF Served

LEMMA ParentServes ==
  ASSUME Typing, NoTimeouts, StopOrder, Slotted, SlotsServed, ParentStep, Calm', Calm
  PROVE  SlotsServed'
<1>0. CalmParent /\ ~InterruptLoop /\ ~InterruptShutdown
  BY CalmBefore
<1>1. /\ worker \in [Slots -> Procs] /\ cursor \in 1 .. NumWorkers + 1 /\ nextProc \in Nat
      /\ testQueue \in Seq(Tasks \cup {STOP}) /\ resultQueue \in Seq(Result)
      /\ pc \in [Procs -> ProcStates]
      /\ \A s \in Slots : s \in Int /\ (cursor > NumWorkers => s < cursor)
  BY OptionsAssumption
  DEF Typing, WorkerTyping, ParentTyping, TypeOfQueues, TypeOfPool, TypeOfParent,
      TypeOfProcess, Slots
<1> SUFFICES ASSUME ~NoAddress', NEW i \in Slots,
                    ppc' \in Looping \/ (ppc' = "start" /\ i < cursor')
             PROVE  Served(i)'
  BY DEF SlotsServed
<1>2. testQueue' = testQueue /\ ~NoAddress
  <2>1. ~TellStop
    BY DEF TellStop, Looping
  <2> QED
    BY <2>1, ParentReads DEF NoAddress
<1>3. ASSUME Served(i), worker'[i] = worker[i], pc'[worker[i]] = pc[worker[i]],
             resultQueue' = resultQueue, ppc = "rejoin" => ppc' = "rejoin" /\ cursor' = cursor
      PROVE  Served(i)'
  BY <1>3 DEF Served, Serving, Awaited, Messaged
<1>4. CASE Starts
  <2>1. /\ StartWorker => ppc = "start" /\ ppc' = "start" /\ cursor' = cursor + 1
        /\ Rejoin => ppc = "rejoin" /\ ppc' = "wait"
        /\ resultQueue' = resultQueue
    BY <1>4 DEF Starts, StartWorker, Rejoin
  <2>2. CASE i = cursor
    <3>1. worker'[i] = nextProc /\ pc'[nextProc] = "get"
      BY <1>1, <1>4, <2>2 DEF Starts
    <3> QED
      BY <3>1 DEF Served, Serving, Early
  <2>3. CASE i # cursor
    <3>1. ppc \in Looping \/ (ppc = "start" /\ i < cursor)
      BY <1>1, <1>4, <2>1, <2>3 DEF Starts, Looping
    <3>2. Served(i) /\ worker[i] < nextProc
      BY <1>2, <3>1 DEF SlotsServed, Slotted, Looping
    <3>3. worker'[i] = worker[i] /\ pc'[worker[i]] = pc[worker[i]]
      BY <1>1, <1>4, <2>3, <3>2 DEF Starts, Procs
    <3> QED
      BY <2>1, <2>3, <3>2, <3>3 DEF Served, Serving, Awaited, Messaged
  <2> QED
    BY <2>2, <2>3
<1>5. CASE StartsNone
  <2>1. worker' = worker /\ pc' = pc
    BY <1>0, <1>5 DEF StartsNone
  <2>2. CASE Receive
    <3>1. /\ ppc = "wait" /\ ppc' # "start" /\ resultQueue # <<>> /\ resultQueue' = Tail(resultQueue)
          /\ RestartWorker /\ ppc' \in Looping => ppc' = "rejoin" /\ cursor' = Head(resultQueue).slot
      BY <2>2 DEF Receive, Waiting, Looping
    <3>2. Served(i)
      BY <1>2, <3>1 DEF SlotsServed, Looping
    <3>3. CASE Serving(worker[i])
      BY <2>1, <3>3 DEF Served, Serving
    <3>4. CASE RestartWorker /\ ~Serving(worker[i])
      <4>1. PICK k \in 1 .. Len(resultQueue) : resultQueue[k].slot = i
        BY <3>1, <3>2, <3>4 DEF Served, Awaited, Messaged
      <4>2. CASE k = 1
        <5>1. Head(resultQueue).slot = i
          BY <1>1, <3>1, <4>1, <4>2, TailElements
        <5> QED
          BY <3>1, <3>4, <5>1 DEF Served, Awaited, Messaged, Looping
      <4>3. CASE k # 1
        <5>1. k - 1 \in 1 .. Len(resultQueue') /\ resultQueue'[k - 1].slot = i
          BY <1>1, <3>1, <4>1, <4>3, TailElements
        <5> QED
          BY <3>4, <5>1 DEF Served, Awaited, Messaged
      <4> QED
        BY <4>2, <4>3
    <3> QED
      BY <3>2, <3>3, <3>4 DEF Served
  <2>3. CASE Rejoin
    <3>1. ppc = "rejoin" /\ ~shouldStop /\ testQueue # <<>>
      BY <1>2, <2>3 DEF Rejoin, NoAddress, StopOrder, Winding
    <3>2. nextProc' = nextProc + 1
      BY <2>3, <3>1 DEF Rejoin, MoreWork, StartProcess
    <3> QED
      BY <1>1, <1>5, <3>2 DEF StartsNone
  <2>4. CASE ~Receive /\ ~Rejoin
    <3>1. resultQueue' = resultQueue
      BY <2>4, ParentReads
    <3>2. /\ ppc \in Looping \/ ppc = "start"
          /\ ppc = "start" /\ ppc' # "start" => cursor > NumWorkers
          /\ ppc = "start" /\ ppc' = "start" => cursor' = cursor
          /\ ppc = "rejoin" => ppc' = "rejoin" /\ cursor' = cursor
      BY <1>0, <1>5, <2>4
        DEF StartsNone, Looping, Waiting, CalmParent, StartWorker, EnterLoop, AllDone,
            GetTimesOut, ScanWorker, ScanDone, TeardownShared, Summarize, TellStop, Join,
            Terminated, vars
    <3>3. Served(i)
      BY <1>1, <1>2, <3>2 DEF SlotsServed
    <3> QED
      BY <1>3, <2>1, <3>1, <3>2, <3>3
  <2> QED
    BY <2>2, <2>3, <2>4
<1> QED
  BY <1>4, <1>5, ParentStarts

LEMMA NextServes ==
  ASSUME Timely, Gentle, Placed, SlotsServed, [Next]_vars
  PROVE  SlotsServed'
<1>1. Typing /\ NoTimeouts /\ Quiet /\ StopOrder /\ Slotted
  BY DEF Placed, Timeless, Peace
<1>2. CASE \E p \in Procs : Step(p)
  <2>1. PICK p \in Procs : Step(p)
    BY <1>2
  <2>2. Calm' => Calm
    BY <1>1, <2>1, ParentKept DEF Calm
  <2>3. Calm => SlotsServed'
    BY <1>1, <2>1, WorkIsCalm, WorkerServes
  <2> QED
    BY <2>2, <2>3 DEF SlotsServed
<1>3. CASE ParentStep
  <2>1. Calm' => Calm
    BY <1>1, <1>3, CalmBefore
  <2>2. Calm' => SlotsServed'
    BY <1>1, <1>3, <2>1, ParentServes
  <2> QED
    BY <2>2 DEF SlotsServed
<1>4. CASE UNCHANGED vars
  BY <1>4 DEF vars, SlotsServed, Calm, NoAddress, Served, Serving, Awaited, Messaged
<1> QED
  BY <1>2, <1>3, <1>4 DEF Next, Step, ParentStep

\* Queued addresses are never left without a worker: when no task exceeds the
\* timeout or takes its process down, and the parent waits for results, some
\* worker is alive to take the next address, or a result is there that makes
\* the parent start one.
THEOREM AddressesServed ==
  ASSUME Timely, Gentle
  PROVE  Spec => []QueueServed
<1> DEFINE IInv == Placed /\ SlotsServed
<1>1. Init => IInv
  <2> SUFFICES ASSUME Init PROVE SlotsServed
    BY InitPlaced
  <2>1. ppc = "start" /\ cursor = 1
    BY DEF Init
  <2> QED
    BY <2>1 DEF SlotsServed, Looping, Slots
<1>2. IInv /\ [Next]_vars => IInv'
  BY NextPlaced, NextServes
<1>3. IInv => QueueServed
  <2> SUFFICES ASSUME IInv, ppc = "wait", testQueue # <<>>, resultQueue = <<>>
               PROVE  \E p \in Procs : Alive(p)
    BY DEF QueueServed
  <2>1. Typing /\ WindingUp /\ StopOrder
    BY DEF Placed, Timeless, Peace
  <2>2. testQueue \in Seq(Tasks \cup {STOP}) /\ worker \in [Slots -> Procs] /\ 1 \in Slots
    BY <2>1, OptionsAssumption
    DEF Typing, WorkerTyping, ParentTyping, TypeOfQueues, TypeOfPool, Slots
  <2>3. ~NoAddress
    <3>1. 1 \in 1 .. Len(testQueue)
      BY <2>2, TailElements
    <3> QED
      BY <2>1, <3>1 DEF NoAddress, StopOrder, Looping
  <2>4. Served(1)
    BY <2>1, <2>2, <2>3 DEF SlotsServed, Looping, WindingUp, Calm
  <2>5. ~Awaited(1)
    BY DEF Awaited, Messaged
  <2>6. Serving(worker[1])
    BY <2>4, <2>5 DEF Served
  <2> QED
    BY <2>2, <2>6 DEF Serving, Early, AtWork, Alive
<1> QED
  BY <1>1, <1>2, <1>3, PTL DEF Spec

-----------------------------------------------------------------------------
(***************************************************************************)
(* What is left without a result when the parent winds up.                 *)
(***************************************************************************)
\* An address without a result then is posted and unread, or was lost with a worker.
Settled == ppc \in Winding /\ ~shouldStop => \A t \in tasks : Posted(t) \/ LostWithWorker(t)

\* What stays so whatever a worker does: results are posted, processes stay dead.
LEMMA WorkerSettles ==
  ASSUME Typing, Settled, NEW p \in Procs, CalmWork(p)
  PROVE  Settled'
<1>1. /\ resultQueue \in Seq(Result) /\ pc \in [Procs -> ProcStates]
      /\ held \in [Procs -> Tasks \cup {NoTask}] /\ cause \in [Procs -> Causes]
  BY DEF Typing, WorkerTyping, TypeOfQueues, TypeOfProcess
<1>2. Step(p) /\ UNCHANGED <<ppc, tasks, shouldStop>>
      /\ \A q \in Procs \ {p} : pc'[q] = pc[q] /\ held'[q] = held[q] /\ cause'[q] = cause[q]
  <2>1. Step(p)
    BY DEF CalmWork, Step, Work
  <2> QED
    BY <2>1, ParentKept, OthersKept
<1>3. ~Alive(p) => pc' = pc /\ held' = held /\ cause' = cause
  BY
    DEF Alive, At, Busy, Handling, CalmWork, Fault, Get, GetStop, Idle, Check, Load,
        LoadFails, MarkStart, RunTest, SuiteDone, Report, RunRaises, FixtureExits,
        PostFailure, NextTask, Crash, Tick
<1>4. \A t : LostWithWorker(t) => LostWithWorker(t)'
  BY <1>2, <1>3 DEF LostWithWorker, Alive
<1>5. \A t : Posted(t) => Posted(t)'
  <2>1. resultQueue' = resultQueue \/ \E m \in Result : resultQueue' = Append(resultQueue, m)
    BY WorkerMoves DEF Get, PostsResult, Continues
  <2> QED
    BY <1>1, <2>1, PostedAppend DEF Posted
<1> QED
  BY <1>2, <1>4, <1>5 DEF Settled

\* The parent leaves its loop for want of workers only with nothing queued or in
\* work: what has no result then is unread or lost.
LEMMA ScansAll ==
  ASSUME Typing, NoTimeouts, Quiet, PostedOK, NoTaskForgotten, Slotted, Scanned,
         Calm, ppc = "scan", ~anyAlive, testQueue = <<>>, cursor > NumWorkers,
         NEW t \in tasks
  PROVE  Posted(t) \/ LostWithWorker(t)
<1>1. /\ cursor \in Int /\ \A s \in Slots : s < cursor
      /\ tasks \subseteq Tasks /\ pc \in [Procs -> ProcStates]
  BY OptionsAssumption DEF Typing, ParentTyping, WorkerTyping, TypeOfParent, TypeOfProcess, Slots
<1>2. ~Queued(t)
  BY DEF Queued
<1> SUFFICES ASSUME ~Posted(t), ~LostWithWorker(t) PROVE FALSE
  OBVIOUS
<1>3. PICK p \in Procs : held[p] = t /\ Alive(p)
  BY <1>2 DEF NoTaskForgotten, WithWorker, LostWithWorker
<1>4. pc[p] \notin {"posted", "loop"}
  BY <1>3 DEF PostedOK
<1>5. pc[p] # "get"
  BY <1>1, <1>3, TasksAssumption DEF Typing, WorkerTyping, HeldOK
<1>6. pc[p] \in AtWork
  BY <1>1, <1>3, <1>4, <1>5
  DEF Quiet, NoTimeouts, Alive, AtWork, ProcStates, Busy, Handling
<1>7. PICK i \in Slots : worker[i] = p
  BY <1>6, RunnersSeated DEF Early
<1> QED
  BY <1>1, <1>6, <1>7 DEF Scanned, Idling, AtWork

LEMMA ParentSettles ==
  ASSUME Typing, NoTimeouts, Quiet, StopOrder, PostedOK, NoTaskForgotten, Slotted,
         Scanned, Settled, ParentStep, Calm'
  PROVE  Settled'
<1>0. CalmParent /\ Calm /\ ~InterruptLoop
  BY CalmBefore
<1> SUFFICES ASSUME ~shouldStop', ppc' \in Winding, NEW t \in tasks'
             PROVE  Posted(t)' \/ LostWithWorker(t)'
  BY DEF Settled
<1>1. ~shouldStop
  BY <1>0
    DEF vars, CalmParent, StartWorker, EnterLoop, Receive, Rejoin, AllDone, GetTimesOut,
        ScanWorker, ScanDone, TeardownShared, Summarize, TellStop, Join, Terminated
<1>2. ~Receive /\ tasks' = tasks /\ resultQueue' = resultQueue
      /\ UNCHANGED <<pc, held, cause>>
  <2>1. ~Receive
    BY DEF Receive, Waiting, Winding
  <2>2. ~StartWorker /\ ~Rejoin
    BY DEF StartWorker, Rejoin, Winding
  <2> QED
    BY <1>0, <2>1, <2>2
      DEF vars, CalmParent, EnterLoop, AllDone, GetTimesOut, ScanWorker, ScanDone,
          TeardownShared, Summarize, TellStop, Join, Terminated
<1>3. Posted(t) \/ LostWithWorker(t)
  <2>1. CASE ppc \in Winding
    BY <1>1, <1>2, <2>1 DEF Settled
  <2>2. CASE AllDone
    BY <1>2, <2>2 DEF AllDone, Waiting
  <2>3. CASE ScanDone
    <3>1. ppc = "scan" /\ cursor > NumWorkers /\ ~anyAlive /\ testQueue = <<>>
      BY <2>3 DEF ScanDone, AllGone, Winding
    <3> QED
      BY <1>0, <1>2, <3>1, ScansAll
  <2> QED
    BY <1>0, <1>2, <2>1, <2>2, <2>3, InWinding
<1> QED
  BY <1>2, <1>3 DEF Posted, LostWithWorker, Alive

\* The invariant of a run in which no task is forgotten.
Complete == /\ Placed /\ PostedOK /\ NoTaskForgotten
            /\ Calm => Settled

LEMMA InitComplete == Init => Complete
<1> SUFFICES ASSUME Init PROVE Complete
  OBVIOUS
<1>1. Settled
  BY DEF Init, Settled, Winding
<1> QED
  BY <1>1, InitPlaced, InitForgetsNone DEF Complete

LEMMA NextComplete ==
  ASSUME Timely, Complete, [Next]_vars
  PROVE  Complete'
<1>1. /\ Placed /\ Typing /\ NoTimeouts /\ Quiet /\ StopOrder /\ Slotted
      /\ PostedOK /\ NoTaskForgotten
      /\ Calm => Scanned /\ Settled
  BY DEF Complete, Placed, Timeless, Peace
<1>2. Placed'
  BY <1>1, NextPlaced
<1>3. CASE \E p \in Procs : Step(p)
  <2>1. PICK p \in Procs : Step(p)
    BY <1>3
  <2>2. PostedOK' /\ NoTaskForgotten'
    BY <1>1, <2>1, WorkerForgetsNone
  <2>3. Calm' => Calm
    BY <1>1, <2>1, ParentKept DEF Calm
  <2>4. Calm => CalmWork(p)
    BY <1>1, <2>1, WorkIsCalm
  <2>5. Calm => Settled'
    BY <1>1, <2>4, WorkerSettles
  <2> QED
    BY <1>2, <2>2, <2>3, <2>5 DEF Complete
<1>4. CASE ParentStep
  <2>1. PostedOK' /\ NoTaskForgotten'
    BY <1>1, <1>4, ParentForgetsNone
  <2>2. Calm' => Calm
    BY <1>1, <1>4, CalmBefore
  <2>3. Calm' => Settled'
    BY <1>1, <1>4, <2>2, ParentSettles
  <2> QED
    BY <1>2, <2>1, <2>3 DEF Complete
<1>5. CASE UNCHANGED vars
  <2>1. PostedOK' /\ NoTaskForgotten'
    BY <1>1, <1>5 DEF vars, PostedOK, NoTaskForgotten, Queued, Posted, WithWorker, Alive
  <2>2. Calm' => Settled'
    BY <1>1, <1>5 DEF vars, Calm, Settled, Posted, LostWithWorker, Alive
  <2> QED
    BY <1>2, <2>1, <2>2 DEF Complete
<1> QED
  BY <1>3, <1>4, <1>5 DEF Next, Step, ParentStep

\* Every address is accounted for when no task exceeds the timeout, with workers
\* restarted or not, and whatever fails, raises or takes its process down: none
\* is counted twice, none is left in a queue of addresses or in work, and one
\* without a result is in the hands of a worker that ended abruptly, or in
\* resultQueue, posted while the parent was looking for workers alive.
THEOREM AddressesAccounted == ASSUME Timely PROVE Spec => []EveryTaskAccounted
<1>1. Complete /\ [Next]_vars => Complete'
  BY NextComplete
<1>2. Complete => EveryTaskAccounted
  <2> SUFFICES ASSUME Complete, Summarized, ~thrown, ~shouldStop
               PROVE  /\ \A t \in Tasks : ~Queued(t) /\ Accounted(t)
                      /\ \A p \in Procs : Retired(p)
    BY DEF EveryTaskAccounted
  <2>1. Calm /\ ppc \in Winding
    BY DEF Summarized, Calm, Winding
  <2>2. /\ Apart /\ ReportedOnce /\ Over /\ Settled /\ Typing /\ NoTimeouts /\ Quiet
    BY <2>1 DEF Complete, Placed, Timeless, Peace
  <2>3. ASSUME NEW t \in Tasks PROVE ~Queued(t) /\ Accounted(t)
    <3>1. ~Queued(t)
      BY <2>1, <2>2, <2>3, TasksAssumption DEF Over, NoAddress, Queued
    <3>2. CASE t \in tasks
      BY <2>1, <2>2, <2>3, <3>1, <3>2 DEF Settled, ReportedOnce, Accounted
    <3>3. CASE t \notin tasks
      BY <2>2, <2>3, <3>3 DEF Apart, ReportedOnce, Accounted
    <3> QED
      BY <3>1, <3>2, <3>3
  <2>4. ASSUME NEW p \in Procs PROVE Retired(p)
    <3>1. pc[p] \in ProcStates
      BY <2>2, <2>4 DEF Typing, WorkerTyping, TypeOfProcess
    <3>2. pc[p] \notin AtWork \cup {"caught", "abort"}
      BY <2>1, <2>2, <2>4 DEF Over, NoTimeouts, Quiet
    <3> QED
      BY <3>1, <3>2 DEF Retired, Alive, ProcStates, Busy, Handling, AtWork
  <2> QED
    BY <2>3, <2>4
<1> QED
  BY InitComplete, <1>1, <1>2, PTL DEF Spec

=============================================================================
