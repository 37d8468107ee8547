------------------------- MODULE MultiProcessProofs -------------------------
(***************************************************************************)
(* Theorems about MultiProcess for every number of tasks, workers and      *)
(* processes, and every combination of options and faults.                 *)
(***************************************************************************)
EXTENDS MultiProcess, FiniteSetTheorems, SequenceTheorems, TLAPS

\* Where the parent indexes its list of workers, the index is a slot.
CursorInSlots == ppc \in {"hit", "kill", "rejoin"} => cursor \in Slots

\* A process holds a task from the moment it takes one to its next turn.
HoldsTask(p) == pc[p] \in {"check", "load"} \cup Busy \cup Handling
HeldOK == \A p \in Procs :
            /\ HoldsTask(p) => held[p] \in Tasks
            /\ pc[p] \in {"unborn", "get"} => held[p] = NoTask

\* Processes are started in the order of their numbers.
UnbornOK == \A p \in Procs : p >= nextProc => pc[p] = "unborn"

\* What only the parent writes, and what the workers write too.
ParentTyping == TypeOfParent /\ TypeOfPool /\ CursorInSlots
WorkerTyping == /\ TypeOfQueues /\ TypeOfProcess /\ TypeOfShared
                /\ TypeOfHistory /\ HeldOK /\ UnbornOK
Typing == ParentTyping /\ WorkerTyping

\* A step of process p itself.
Step(p) == Work(p) \/ Fault(p) \/ Deliver(p) \/ Tick(p)

USE DEF parent, queues, process, suite, shared, history, loop, outcome, flags,
        pool

LEMMA InitTyping == Init => Typing
<1> SUFFICES ASSUME Init PROVE Typing
  OBVIOUS
<1>1. testQueue \in Seq(Tasks \cup {STOP})
  <2>1. Cardinality(Tasks) \in Nat
    BY TasksAssumption, FS_CardinalityType
  <2>2. testQueue \in [1 .. Cardinality(Tasks) -> Tasks \cup {STOP}]
    BY DEF Init, Orders
  <2> HIDE DEF Init
  <2> DEFINE n == Cardinality(Tasks)
             S == Tasks \cup {STOP}
  <2>3. n \in Nat /\ testQueue \in [1 .. n -> S]
    BY <2>1, <2>2
  <2> HIDE DEF n, S
  <2>4. testQueue \in Seq(S)
    BY <2>3
  <2> QED
    BY <2>4 DEF S
<1>2. TypeOfParent
  <2>1. /\ ppc \in ParentStates /\ anyAlive \in BOOLEAN
        /\ tasks \subseteq Tasks /\ reported \in [Tasks -> Nat]
    BY DEF Init, ParentStates
  <2>2. failed \in BOOLEAN /\ testsRun \in Nat
    BY DEF Init
  <2>3. shouldStop \in BOOLEAN /\ thrown \in BOOLEAN /\ sharedUp \in BOOLEAN
    BY DEF Init
  <2>4. cursor \in 1 .. NumWorkers + 1 /\ interrupts \in 0 .. MaxInterrupts
    BY OptionsAssumption DEF Init
  <2> QED
    BY <2>1, <2>2, <2>3, <2>4 DEF TypeOfParent
<1>3. TypeOfQueues
  BY <1>1 DEF Init, TypeOfQueues
<1>4. TypeOfPool
  BY OptionsAssumption DEF Init, TypeOfPool, Slots, Procs
<1>5. TypeOfProcess
  BY DEF Init, TypeOfProcess, ProcStates, Causes
<1>6. TypeOfShared
  BY DEF Init, TypeOfShared
<1>7. TypeOfHistory
  BY DEF Init, TypeOfHistory
<1>8. CursorInSlots /\ HeldOK /\ UnbornOK
  BY DEF Init, CursorInSlots, HeldOK, UnbornOK, HoldsTask, Busy, Handling
<1> QED
  BY <1>2, <1>3, <1>4, <1>5, <1>6, <1>7, <1>8
  DEF Typing, ParentTyping, WorkerTyping

\* What a worker posts is a result.
LEMMA PostType ==
  ASSUME TypeOfQueues, NEW p \in Procs, slotOf[p] \in Slots, held[p] \in Tasks,
         NEW n \in Nat, NEW e \in BOOLEAN,
         Post(p, n, e), UNCHANGED testQueue
  PROVE  TypeOfQueues'
<1>1. Message(p, n, e) \in Result
  BY DEF Message, Result
<1> QED
  BY <1>1 DEF TypeOfQueues, Post

\* The steps of a process leave the variables of the parent alone.
LEMMA ParentKept ==
  ASSUME Typing, NEW p \in Procs, Step(p)
  PROVE  UNCHANGED parent /\ ParentTyping'
<1>1. UNCHANGED parent
  BY
  DEF Step, Work, Fault, Deliver, Get, GetStop, Idle, Check, Load, LoadFails,
      MarkStart, RunTest, SuiteDone, Report, RunRaises, FixtureExits,
      HandleTimeout, PostFailure, PostInterrupt, NextTask, Crash, Tick,
      DeliverOutside, DeliverInRunner, DeliverInTest
<1> QED
  BY <1>1 DEF Typing, ParentTyping, TypeOfParent, TypeOfPool, CursorInSlots

LEMMA QueuesTyped ==
  ASSUME Typing, NEW p \in Procs, Step(p)
  PROVE  TypeOfQueues'
<1> TypeOfQueues /\ TypeOfProcess /\ TypeOfPool /\ HeldOK
  BY DEF Typing, WorkerTyping, ParentTyping
<1>1. CASE Report(p)
  <2>1. slotOf[p] \in Slots /\ held[p] \in Tasks /\ ran[p] \in Nat
    BY <1>1 DEF Report, At, HoldsTask, Busy, HeldOK, TypeOfPool, TypeOfProcess
  <2>2. err[p] \in BOOLEAN
    BY DEF TypeOfProcess
  <2> QED
    BY <1>1, <2>1, <2>2, PostType DEF Report
<1>2. CASE PostFailure(p) \/ PostInterrupt(p)
  <2>1. slotOf[p] \in Slots /\ held[p] \in Tasks
    BY <1>2
    DEF PostFailure, PostInterrupt, At, HoldsTask, Handling, HeldOK, TypeOfPool
  <2> QED
    BY <1>2, <2>1, PostType DEF PostFailure, PostInterrupt
<1>3. CASE Get(p) \/ GetStop(p)
  <2>1. testQueue \in Seq(Tasks \cup {STOP}) /\ testQueue # <<>>
    BY <1>3 DEF Get, GetStop, TypeOfQueues
  <2>2. Tail(testQueue) \in Seq(Tasks \cup {STOP})
    BY <2>1, HeadTailProperties
  <2> QED
    BY <1>3, <2>2 DEF Get, GetStop, TypeOfQueues
<1>4. CASE UNCHANGED queues
  BY <1>4 DEF TypeOfQueues
<1> QED
  BY <1>1, <1>2, <1>3, <1>4
  DEF Step, Work, Fault, Deliver, Get, GetStop, Idle, Check, Load, LoadFails,
      MarkStart, RunTest, SuiteDone, Report, RunRaises, FixtureExits,
      HandleTimeout, PostFailure, PostInterrupt, NextTask, Crash, Tick,
      DeliverOutside, DeliverInRunner, DeliverInTest

LEMMA HistoryTyped ==
  ASSUME Typing, NEW p \in Procs, Step(p)
  PROVE  TypeOfHistory'
<1>1. TypeOfHistory /\ (HoldsTask(p) => held[p] \in Tasks)
  BY DEF Typing, WorkerTyping, HeldOK
<1>2. broken' = broken \/ (broken' = broken \cup {held[p]} /\ HoldsTask(p))
  BY
  DEF HoldsTask, Busy, Handling, At,
      Step, Work, Fault, Deliver, Get, GetStop, Idle, Check, Load, LoadFails,
      MarkStart, RunTest, SuiteDone, Report, RunRaises, FixtureExits,
      HandleTimeout, PostFailure, PostInterrupt, NextTask, Crash, Tick,
      DeliverOutside, DeliverInRunner, DeliverInTest
<1>3. afterStop' \in {afterStop, afterStop + 1}
  BY
  DEF Step, Work, Fault, Deliver, Get, GetStop, Idle, Check, Load, LoadFails,
      MarkStart, RunTest, SuiteDone, Report, RunRaises, FixtureExits,
      HandleTimeout, PostFailure, PostInterrupt, NextTask, Crash, Tick,
      DeliverOutside, DeliverInRunner, DeliverInTest
<1> QED
  BY <1>1, <1>2, <1>3 DEF TypeOfHistory

\* The program counter, the cause and the locals of a process.
LEMMA ProcessTyped ==
  ASSUME Typing, NEW p \in Procs, Step(p)
  PROVE  TypeOfProcess'
<1> USE TasksAssumption
    DEF Typing, WorkerTyping, TypeOfProcess, TypeOfQueues, HeldOK, HoldsTask,
        ProcStates, Causes, Busy, Handling, process, At, Go, Die
<1>1. CASE Get(p)
  BY <1>1 DEF Get
<1>2. CASE GetStop(p)
  BY <1>2 DEF GetStop
<1>3. CASE Idle(p)
  BY <1>3 DEF Idle
<1>4. CASE Check(p)
  BY <1>4 DEF Check
<1>5. CASE Load(p)
  BY <1>5 DEF Load, MakeResult
<1>6. CASE LoadFails(p)
  BY <1>6 DEF LoadFails
<1>7. CASE MarkStart(p)
  BY <1>7 DEF MarkStart
<1>8. CASE RunTest(p)
  <2>1. left[p] - 1 \in Nat /\ ran[p] + 1 \in Nat
    BY <1>8 DEF RunTest
  <2>2. left' \in [Procs -> Nat]
    <3>1. \/ left' = [left EXCEPT ![p] = 0]
          \/ left' = [left EXCEPT ![p] = left[p] - 1]
      BY <1>8 DEF RunTest
    <3>2. left \in [Procs -> Nat]
      OBVIOUS
    <3> HIDE DEF Typing
    <3> QED
      BY <2>1, <3>1, <3>2
  <2>3. ran' \in [Procs -> Nat]
    BY <1>8, <2>1 DEF RunTest
  <2>4. err' = err \/ err' = [err EXCEPT ![p] = TRUE]
    BY <1>8 DEF RunTest
  <2>5. err' \in [Procs -> BOOLEAN]
    BY <2>4
  <2>6. UNCHANGED <<pc, cause, held>>
    BY <1>8 DEF RunTest
  <2> QED
    BY <2>2, <2>3, <2>5, <2>6
<1>9. CASE SuiteDone(p)
  BY <1>9 DEF SuiteDone
<1>10. CASE Report(p)
  BY <1>10 DEF Report
<1>11. CASE RunRaises(p)
  BY <1>11 DEF RunRaises
<1>12. CASE FixtureExits(p)
  BY <1>12 DEF FixtureExits
<1>13. CASE HandleTimeout(p)
  BY <1>13 DEF HandleTimeout
<1>14. CASE PostFailure(p)
  BY <1>14 DEF PostFailure
<1>15. CASE PostInterrupt(p)
  BY <1>15 DEF PostInterrupt
<1>16. CASE NextTask(p)
  BY <1>16 DEF NextTask
<1>17. CASE Crash(p)
  BY <1>17 DEF Crash
<1>18. CASE Tick(p)
  BY <1>18 DEF Tick
<1>19. ASSUME NEW z \in {"ILL", "INT"}, DeliverOutside(p, z)
      PROVE  TypeOfProcess'
  BY <1>19 DEF DeliverOutside, Consume
<1>20. ASSUME NEW z \in {"ILL", "INT"}, DeliverInRunner(p, z)
      PROVE  TypeOfProcess'
  BY <1>20 DEF DeliverInRunner, Consume, HandlerOf
<1>21. ASSUME NEW z \in {"ILL", "INT"}, DeliverInTest(p, z)
      PROVE  TypeOfProcess'
  <2>1. left[p] - 1 \in Nat /\ ran[p] + 1 \in Nat
    BY <1>21 DEF DeliverInTest
  <2>2. left' \in [Procs -> Nat] /\ ran' \in [Procs -> Nat]
    BY <1>21, <2>1 DEF DeliverInTest
  <2>3. err' \in [Procs -> BOOLEAN]
    BY <1>21 DEF DeliverInTest
  <2> QED
    BY <1>21, <2>2, <2>3 DEF DeliverInTest
<1> QED
  BY <1>1, <1>2, <1>3, <1>4, <1>5, <1>6, <1>7, <1>8, <1>9, <1>10, <1>11,
     <1>12, <1>13, <1>14, <1>15, <1>16, <1>17, <1>18, <1>19, <1>20, <1>21
  DEF Step, Work, Fault, Deliver

\* The memory shared with the parent.
LEMMA SharedTyped ==
  ASSUME Typing, NEW p \in Procs, Step(p)
  PROVE  TypeOfShared'
<1> USE TasksAssumption
    DEF Typing, WorkerTyping, TypeOfShared, Clear
<1>1. CASE Get(p)
  BY <1>1 DEF Get
<1>2. CASE GetStop(p)
  BY <1>2 DEF GetStop
<1>3. CASE Idle(p)
  BY <1>3 DEF Idle
<1>4. CASE Check(p)
  BY <1>4 DEF Check
<1>5. CASE Load(p)
  BY <1>5 DEF Load, MakeResult
<1>6. CASE LoadFails(p)
  BY <1>6 DEF LoadFails
<1>7. CASE MarkStart(p)
  BY <1>7 DEF MarkStart
<1>8. CASE RunTest(p)
  BY <1>8 DEF RunTest
<1>9. CASE SuiteDone(p)
  BY <1>9 DEF SuiteDone
<1>10. CASE Report(p)
  BY <1>10 DEF Report
<1>11. CASE RunRaises(p)
  BY <1>11 DEF RunRaises
<1>12. CASE FixtureExits(p)
  BY <1>12 DEF FixtureExits
<1>13. CASE HandleTimeout(p)
  BY <1>13 DEF HandleTimeout
<1>14. CASE PostFailure(p)
  BY <1>14 DEF PostFailure
<1>15. CASE PostInterrupt(p)
  BY <1>15 DEF PostInterrupt
<1>16. CASE NextTask(p)
  BY <1>16 DEF NextTask
<1>17. CASE Crash(p)
  BY <1>17 DEF Crash
<1>18. CASE Tick(p)
  BY <1>18 DEF Tick
<1>19. ASSUME NEW z \in {"ILL", "INT"}, DeliverOutside(p, z)
      PROVE  TypeOfShared'
  BY <1>19 DEF DeliverOutside, Consume
<1>20. ASSUME NEW z \in {"ILL", "INT"}, DeliverInRunner(p, z)
      PROVE  TypeOfShared'
  BY <1>20 DEF DeliverInRunner, Consume, HandlerOf
<1>21. ASSUME NEW z \in {"ILL", "INT"}, DeliverInTest(p, z)
      PROVE  TypeOfShared'
  BY <1>21 DEF DeliverInTest, Consume
<1> QED
  BY <1>1, <1>2, <1>3, <1>4, <1>5, <1>6, <1>7, <1>8, <1>9, <1>10, <1>11,
     <1>12, <1>13, <1>14, <1>15, <1>16, <1>17, <1>18, <1>19, <1>20, <1>21
  DEF Step, Work, Fault, Deliver

\* Which processes hold a task, and which have not started.
LEMMA HeldTyped ==
  ASSUME Typing, NEW p \in Procs, Step(p)
  PROVE  HeldOK' /\ UnbornOK'
<1> USE TasksAssumption
    DEF Typing, WorkerTyping, ParentTyping, TypeOfPool, HeldOK, UnbornOK,
        HoldsTask, TypeOfQueues, TypeOfProcess, ProcStates, Busy, Handling,
        Alive, At, Go, Die
<1>1. CASE Get(p)
  <2>1. Head(testQueue) \in Tasks
    <3>1. testQueue \in Seq(Tasks \cup {STOP}) /\ testQueue # <<>>
      BY <1>1 DEF Get
    <3>2. Head(testQueue) \in Tasks \cup {STOP} /\ Head(testQueue) # STOP
      BY <1>1, <3>1, HeadTailProperties DEF Get
    <3> QED
      BY <3>2
  <2>2. pc' = [pc EXCEPT ![p] = "check"]
        /\ held' = [held EXCEPT ![p] = Head(testQueue)] /\ nextProc' = nextProc
    BY <1>1 DEF Get
  <2> QED
    BY <1>1, <2>1, <2>2 DEF Get
<1>2. CASE GetStop(p)
  BY <1>2 DEF GetStop
<1>3. CASE Idle(p)
  BY <1>3 DEF Idle
<1>4. CASE Check(p)
  BY <1>4 DEF Check
<1>5. CASE Load(p)
  BY <1>5 DEF Load, MakeResult
<1>6. CASE LoadFails(p)
  BY <1>6 DEF LoadFails
<1>7. CASE MarkStart(p)
  BY <1>7 DEF MarkStart
<1>8. CASE RunTest(p)
  BY <1>8 DEF RunTest
<1>9. CASE SuiteDone(p)
  BY <1>9 DEF SuiteDone
<1>10. CASE Report(p)
  BY <1>10 DEF Report
<1>11. CASE RunRaises(p)
  BY <1>11 DEF RunRaises
<1>12. CASE FixtureExits(p)
  BY <1>12 DEF FixtureExits
<1>13. CASE HandleTimeout(p)
  BY <1>13 DEF HandleTimeout
<1>14. CASE PostFailure(p)
  BY <1>14 DEF PostFailure
<1>15. CASE PostInterrupt(p)
  BY <1>15 DEF PostInterrupt
<1>16. CASE NextTask(p)
  <2>1. held' = [held EXCEPT ![p] = NoTask] /\ nextProc' = nextProc
    BY <1>16 DEF NextTask
  <2>2. \E l \in {"dead", "get"} : pc' = [pc EXCEPT ![p] = l]
    BY <1>16 DEF NextTask
  <2>3. pc[p] # "unborn"
    BY <1>16 DEF NextTask
  <2> QED
    BY <2>1, <2>2, <2>3
<1>17. CASE Crash(p)
  BY <1>17 DEF Crash
<1>18. CASE Tick(p)
  BY <1>18 DEF Tick
<1>19. ASSUME NEW z \in {"ILL", "INT"}, DeliverOutside(p, z)
      PROVE  HeldOK' /\ UnbornOK'
  BY <1>19 DEF DeliverOutside, Consume
<1>20. ASSUME NEW z \in {"ILL", "INT"}, DeliverInRunner(p, z)
      PROVE  HeldOK' /\ UnbornOK'
  BY <1>20 DEF DeliverInRunner, Consume, HandlerOf
<1>21. ASSUME NEW z \in {"ILL", "INT"}, DeliverInTest(p, z)
      PROVE  HeldOK' /\ UnbornOK'
  BY <1>21 DEF DeliverInTest, Consume
<1> QED
  BY <1>1, <1>2, <1>3, <1>4, <1>5, <1>6, <1>7, <1>8, <1>9, <1>10, <1>11,
     <1>12, <1>13, <1>14, <1>15, <1>16, <1>17, <1>18, <1>19, <1>20, <1>21
  DEF Step, Work, Fault, Deliver

LEMMA StepTyping ==
  ASSUME Typing, NEW p \in Procs, Step(p)
  PROVE  Typing'
  BY ParentKept, QueuesTyped, HistoryTyped, ProcessTyped, SharedTyped, HeldTyped
  DEF Typing, WorkerTyping

-----------------------------------------------------------------------------
\* A step of the parent, the interrupts of the user included.
ParentStep == \/ Parent \/ SendSigill \/ Terminate
              \/ InterruptLoop \/ InterruptShutdown \/ Terminated

\* A process is started in a slot, and only while one is left to start.
LEMMA StartTyping ==
  ASSUME TypeOfPool, NEW i \in Slots, StartProcess(i)
  PROVE  TypeOfPool' /\ nextProc \in Procs /\ nextProc' = nextProc + 1
<1>1. nextProc \in Procs
  BY OptionsAssumption DEF StartProcess, TypeOfPool, Procs
<1>2. nextProc' = nextProc + 1 /\ nextProc' \in 1 .. MaxProcs + 1
  BY OptionsAssumption DEF StartProcess, TypeOfPool
<1>3. worker' \in [Slots -> Procs] /\ slotOf' \in [Procs -> Slots]
  BY <1>1 DEF StartProcess, TypeOfPool
<1> QED
  BY <1>1, <1>2, <1>3 DEF TypeOfPool

\* The only steps that start a process.
LEMMA PoolTyped ==
  ASSUME Typing, ParentStep
  PROVE  \/ UNCHANGED <<pool, pc>>
         \/ UNCHANGED pool /\ InterruptShutdown
         \/ /\ TypeOfPool' /\ nextProc \in Procs /\ nextProc' = nextProc + 1
            /\ (StartWorker \/ Rejoin \/ Terminate)
            /\ \E i \in Slots : StartProcess(i)
<1> USE DEF Typing, ParentTyping
<1>1. ASSUME NEW i \in Slots, StartProcess(i)
      PROVE  TypeOfPool' /\ nextProc \in Procs /\ nextProc' = nextProc + 1
  BY <1>1, StartTyping
<1>2. CASE StartWorker
  <2>1. cursor \in Slots /\ StartProcess(cursor)
    BY <1>2, OptionsAssumption DEF StartWorker, Slots, TypeOfParent
  <2> QED
    BY <1>1, <1>2, <2>1
<1>3. CASE Rejoin
  <2>1. cursor \in Slots
    BY <1>3 DEF Rejoin, CursorInSlots
  <2> QED
    BY <1>1, <1>3, <2>1 DEF Rejoin
<1>4. CASE Terminate
  <2>1. cursor \in Slots /\ StartProcess(cursor)
    BY <1>4 DEF Terminate, CursorInSlots
  <2> QED
    BY <1>1, <1>4, <2>1
<1>5. CASE InterruptShutdown
  BY <1>5 DEF InterruptShutdown
<1> QED
  BY <1>2, <1>3, <1>4, <1>5
  DEF ParentStep, Parent, EnterLoop, Receive, AllDone, GetTimesOut,
      ScanWorker, TimeOutWorker, KillDone, ScanDone, TeardownShared, Summarize,
      TellStop, Join, SendSigill, InterruptLoop, Terminated, vars

\* A message the parent reads is a result.
LEMMA ReceivedType ==
  ASSUME TypeOfQueues, resultQueue # <<>>
  PROVE  /\ Head(resultQueue) \in Result
         /\ Tail(resultQueue) \in Seq(Result)
BY HeadTailProperties DEF TypeOfQueues

LEMMA ControlTyped ==
  ASSUME Typing, ParentStep
  PROVE  /\ ppc' \in ParentStates /\ cursor' \in 1 .. NumWorkers + 1
         /\ CursorInSlots'
<1>1. /\ TypeOfQueues /\ ppc \in ParentStates /\ cursor \in 1 .. NumWorkers + 1
      /\ CursorInSlots
  BY DEF Typing, ParentTyping, WorkerTyping, TypeOfParent
<1>2. CASE Receive
  <2>1. Head(resultQueue).slot \in Slots
    BY <1>1, <1>2, ReceivedType DEF Receive, Result
  <2> QED
    BY <1>1, <1>2, <2>1, OptionsAssumption
    DEF Receive, Waiting, CursorInSlots, ParentStates, Slots
<1>3. CASE ~Receive
  BY <1>1, <1>3, OptionsAssumption
  DEF CursorInSlots, ParentStates, Slots, Waiting,
      ParentStep, Parent, StartWorker, EnterLoop, Rejoin, AllDone, GetTimesOut,
      ScanWorker, TimeOutWorker, KillDone, ScanDone, TeardownShared, Summarize,
      TellStop, Join, SendSigill, Terminate, InterruptLoop, InterruptShutdown,
      Terminated, vars
<1> QED
  BY <1>2, <1>3

LEMMA OutcomeTyped ==
  ASSUME Typing, ParentStep
  PROVE  TypeOfParent'
<1>1. TypeOfParent /\ TypeOfQueues
  BY DEF Typing, ParentTyping, WorkerTyping
<1>2. ppc' \in ParentStates /\ cursor' \in 1 .. NumWorkers + 1
  BY ControlTyped
<1>3. anyAlive' \in BOOLEAN
  <2>1. \/ anyAlive' = anyAlive \/ anyAlive' = FALSE
        \/ \E w : anyAlive' = (anyAlive \/ (Alive(w) /\ (currentaddr[w] \/ ~late[w])))
    BY
    DEF ParentStep, Parent, StartWorker, EnterLoop, Receive, Rejoin, AllDone,
        GetTimesOut, ScanWorker, TimeOutWorker, KillDone, ScanDone,
        TeardownShared, Summarize, TellStop, Join, SendSigill, Terminate,
        InterruptLoop, InterruptShutdown, Terminated, vars
  <2> QED
    BY <1>1, <2>1 DEF TypeOfParent
<1>4. tasks' \subseteq Tasks /\ reported' \in [Tasks -> Nat] /\ testsRun' \in Nat
  <2>1. CASE Receive
    <3> DEFINE m == Head(resultQueue)
    <3>1. m.task \in Tasks /\ m.ran \in Nat
      BY <1>1, <2>1, ReceivedType DEF Receive, Result
    <3>2. /\ tasks' = tasks \ {m.task} /\ testsRun' = testsRun + m.ran
          /\ reported' = [reported EXCEPT ![m.task] = @ + 1]
      BY <2>1 DEF Receive
    <3> HIDE DEF m
    <3>3. reported[m.task] + 1 \in Nat
      BY <1>1, <3>1 DEF TypeOfParent
    <3> QED
      BY <1>1, <3>1, <3>2, <3>3 DEF TypeOfParent
  <2>2. CASE ~Receive
    BY <1>1, <2>2
    DEF TypeOfParent, ParentStep, Parent, StartWorker, EnterLoop, Rejoin,
        AllDone, GetTimesOut, ScanWorker, TimeOutWorker, KillDone, ScanDone,
        TeardownShared, Summarize, TellStop, Join, SendSigill, Terminate,
        InterruptLoop, InterruptShutdown, Terminated, vars
  <2> QED
    BY <2>1, <2>2
<1>5. failed' \in BOOLEAN
  <2>1. \/ failed' = failed \/ failed' = TRUE
        \/ \E m : failed' = (failed \/ m.err)
    BY
    DEF Unsuccessful, ParentStep, Parent, StartWorker, EnterLoop, Receive,
        Rejoin, AllDone, GetTimesOut, ScanWorker, TimeOutWorker, KillDone,
        ScanDone, TeardownShared, Summarize, TellStop, Join, SendSigill,
        Terminate, InterruptLoop, InterruptShutdown, Terminated, vars
  <2> QED
    BY <1>1, <2>1 DEF TypeOfParent
<1>6. shouldStop' \in BOOLEAN /\ thrown' \in BOOLEAN /\ sharedUp' \in BOOLEAN
  <2>1. /\ shouldStop' = shouldStop \/ shouldStop' = TRUE
        /\ thrown' = thrown \/ thrown' = TRUE
        /\ sharedUp' = sharedUp \/ sharedUp' = FALSE
    BY
    DEF ParentStep, Parent, StartWorker, EnterLoop, Receive, Rejoin, AllDone,
        GetTimesOut, ScanWorker, TimeOutWorker, KillDone, ScanDone,
        TeardownShared, Summarize, TellStop, Join, SendSigill, Terminate,
        InterruptLoop, InterruptShutdown, Terminated, vars
  <2> QED
    BY <1>1, <2>1 DEF TypeOfParent
<1>7. interrupts' \in 0 .. MaxInterrupts
  <2>1. \/ interrupts' = interrupts
        \/ interrupts < MaxInterrupts /\ interrupts' = interrupts + 1
    BY
    DEF ParentStep, Parent, StartWorker, EnterLoop, Receive, Rejoin, AllDone,
        GetTimesOut, ScanWorker, TimeOutWorker, KillDone, ScanDone,
        TeardownShared, Summarize, TellStop, Join, SendSigill, Terminate,
        InterruptLoop, InterruptShutdown, Terminated, vars
  <2> QED
    BY <1>1, <2>1, OptionsAssumption DEF TypeOfParent
<1> QED
  BY <1>2, <1>3, <1>4, <1>5, <1>6, <1>7 DEF TypeOfParent

LEMMA ParentQueuesTyped ==
  ASSUME Typing, ParentStep
  PROVE  TypeOfQueues'
<1>1. TypeOfQueues
  BY DEF Typing, WorkerTyping
<1>2. CASE Receive
  BY <1>1, <1>2, ReceivedType DEF Receive, TypeOfQueues
<1>3. CASE TellStop
  <2>1. Append(testQueue, STOP) \in Seq(Tasks \cup {STOP})
    BY <1>1, AppendProperties DEF TypeOfQueues
  <2> QED
    BY <1>1, <1>3, <2>1 DEF TellStop, TypeOfQueues
<1>4. CASE UNCHANGED queues
  BY <1>1, <1>4 DEF TypeOfQueues
<1> QED
  BY <1>2, <1>3, <1>4
  DEF ParentStep, Parent, StartWorker, EnterLoop, Rejoin, AllDone, GetTimesOut,
      ScanWorker, TimeOutWorker, KillDone, ScanDone, TeardownShared, Summarize,
      Join, SendSigill, Terminate, InterruptLoop, InterruptShutdown,
      Terminated, vars

\* The parent starts processes and ends them; it does nothing else to them.
LEMMA ParentSteps ==
  ASSUME Typing, ParentStep
  PROVE  /\ UNCHANGED suite
         /\ \A q \in Procs : \/ pc'[q] = pc[q] /\ cause'[q] = cause[q]
                             \/ pc'[q] = "dead" /\ cause'[q] = "terminated"
                                  /\ pc[q] # "unborn"
                             \/ q = nextProc /\ pc'[q] = "get"
                                  /\ nextProc' = nextProc + 1
                                  /\ cause'[q] = cause[q]
         /\ pc' \in [Procs -> ProcStates] /\ cause' \in [Procs -> Causes]
<1>1. /\ pc \in [Procs -> ProcStates] /\ cause \in [Procs -> Causes]
      /\ TypeOfPool /\ CursorInSlots
  BY DEF Typing, ParentTyping, WorkerTyping, TypeOfProcess
<1>2. UNCHANGED suite
  BY
  DEF ParentStep, Parent, StartWorker, EnterLoop, Receive, Rejoin, AllDone,
      GetTimesOut, ScanWorker, TimeOutWorker, KillDone, ScanDone,
      TeardownShared, Summarize, TellStop, Join, SendSigill, Terminate,
      InterruptLoop, InterruptShutdown, Terminated, vars
<1>3. CASE UNCHANGED process
  BY <1>1, <1>2, <1>3
<1>4. CASE InterruptShutdown
  <2>1. /\ pc' \in [Procs -> ProcStates] /\ cause' \in [Procs -> Causes]
    BY <1>1, <1>4 DEF InterruptShutdown, ProcStates, Causes
  <2>2. ASSUME NEW q \in Procs
        PROVE  \/ pc'[q] = pc[q] /\ cause'[q] = cause[q]
               \/ pc'[q] = "dead" /\ cause'[q] = "terminated" /\ pc[q] # "unborn"
    BY <1>1, <1>4 DEF InterruptShutdown, Alive
  <2> QED
    BY <1>2, <2>1, <2>2
<1>5. CASE StartWorker \/ (Rejoin /\ ~UNCHANGED process)
  <2>1. nextProc \in Procs /\ nextProc' = nextProc + 1
    BY <1>5, PoolTyped, OptionsAssumption, <1>1
    DEF StartWorker, Rejoin, StartProcess, TypeOfPool, Procs
  <2>2. pc' = [pc EXCEPT ![nextProc] = "get"] /\ cause' = cause
    BY <1>5 DEF StartWorker, Rejoin, Go
  <2> QED
    BY <1>1, <1>2, <2>1, <2>2 DEF ProcStates
<1>6. CASE Terminate
  <2> DEFINE w == worker[cursor]
  <2>1. nextProc \in Procs /\ nextProc' = nextProc + 1
    BY <1>6, <1>1, OptionsAssumption
    DEF Terminate, StartProcess, TypeOfPool, Procs
  <2>2. w \in Procs /\ pc[w] # "unborn"
    BY <1>6, <1>1 DEF Terminate, CursorInSlots, TypeOfPool, Resisting, Alive
  <2>3. /\ pc' = [pc EXCEPT ![w] = "dead", ![nextProc] = "get"]
        /\ cause' = [cause EXCEPT ![w] = "terminated"]
    BY <1>6 DEF Terminate
  <2>4. w # nextProc
    BY <2>1, <2>2 DEF Typing, WorkerTyping, UnbornOK, TypeOfPool, Procs
  <2> HIDE DEF w
  <2> QED
    BY <1>1, <1>2, <2>1, <2>2, <2>3, <2>4 DEF ProcStates, Causes
<1> QED
  BY <1>3, <1>4, <1>5, <1>6
  DEF ParentStep, Parent, EnterLoop, Receive, AllDone,
      GetTimesOut, ScanWorker, TimeOutWorker, KillDone, ScanDone,
      TeardownShared, Summarize, TellStop, Join, SendSigill,
      InterruptLoop, Terminated, vars

LEMMA ParentWorkersTyped ==
  ASSUME Typing, ParentStep
  PROVE  TypeOfPool' /\ TypeOfProcess' /\ HeldOK' /\ UnbornOK'
<1>1. TypeOfPool /\ TypeOfProcess /\ HeldOK /\ UnbornOK
  BY DEF Typing, ParentTyping, WorkerTyping
<1>2. TypeOfPool' /\ nextProc' \in {nextProc, nextProc + 1}
  BY <1>1, PoolTyped DEF TypeOfPool
<1>3. TypeOfProcess'
  BY <1>1, ParentSteps DEF TypeOfProcess
<1>4. HeldOK'
  BY <1>1, ParentSteps, OptionsAssumption
  DEF HeldOK, UnbornOK, TypeOfPool, HoldsTask, Busy, Handling, Procs
<1>5. UnbornOK'
  <2> SUFFICES ASSUME NEW q \in Procs, q >= nextProc' PROVE pc'[q] = "unborn"
    BY DEF UnbornOK
  <2>1. q >= nextProc /\ (nextProc' = nextProc + 1 => q # nextProc)
    BY <1>1, <1>2, OptionsAssumption DEF TypeOfPool, Procs
  <2>2. pc[q] = "unborn"
    BY <1>1, <2>1 DEF UnbornOK
  <2> QED
    BY <2>1, <2>2, ParentSteps
<1> QED
  BY <1>2, <1>3, <1>4, <1>5

LEMMA ParentSharedTyped ==
  ASSUME Typing, ParentStep
  PROVE  TypeOfShared' /\ TypeOfHistory'
<1>1. TypeOfShared /\ TypeOfHistory /\ TypeOfPool
  BY DEF Typing, ParentTyping, WorkerTyping
<1>2. ppc \in {"hit", "kill"} => worker[cursor] \in Procs
  BY <1>1 DEF Typing, ParentTyping, CursorInSlots, TypeOfPool
<1>3. CASE TimeOutWorker
  BY <1>1, <1>2, <1>3 DEF TimeOutWorker, TypeOfShared, TypeOfHistory, Clear
<1>4. CASE SendSigill
  BY <1>1, <1>2, <1>4 DEF SendSigill, TypeOfShared, TypeOfHistory
<1>5. CASE InterruptLoop \/ InterruptShutdown
  <2>1. Interrupted \in [Procs -> SUBSET {"ILL", "INT"}]
    BY <1>1 DEF Interrupted, TypeOfShared
  <2> QED
    BY <1>1, <1>5, <2>1
    DEF InterruptLoop, InterruptShutdown, TypeOfShared, TypeOfHistory
<1>6. CASE UNCHANGED <<shared, history>>
  BY <1>1, <1>6 DEF TypeOfShared, TypeOfHistory
<1> QED
  BY <1>3, <1>4, <1>5, <1>6
  DEF ParentStep, Parent, StartWorker, EnterLoop, Receive, Rejoin, AllDone,
      GetTimesOut, ScanWorker, KillDone, ScanDone, TeardownShared, Summarize,
      TellStop, Join, Terminate, Terminated, vars

LEMMA ParentStepTyping ==
  ASSUME Typing, ParentStep
  PROVE  Typing'
BY ControlTyped, OutcomeTyped, ParentQueuesTyped, ParentWorkersTyped,
   ParentSharedTyped
DEF Typing, ParentTyping, WorkerTyping

LEMMA NextTyping == Typing /\ [Next]_vars => Typing'
<1> SUFFICES ASSUME Typing, [Next]_vars PROVE Typing'
  OBVIOUS
<1>1. CASE \E p \in Procs : Step(p)
  BY <1>1, StepTyping
<1>2. CASE ParentStep
  BY <1>2, ParentStepTyping
<1>3. CASE UNCHANGED vars
  <2>1. ParentStep \/ Typing'
    BY <1>3
    DEF vars, Typing, ParentTyping, WorkerTyping, TypeOfParent, TypeOfQueues,
        TypeOfPool, TypeOfProcess, TypeOfShared, TypeOfHistory, HeldOK,
        UnbornOK, HoldsTask, CursorInSlots
  <2> QED
    BY <2>1, ParentStepTyping
<1> QED
  BY <1>1, <1>2, <1>3 DEF Next, Step, ParentStep

\* Every variable keeps its type, whatever the tests and the user do.
THEOREM TypeCorrect == Spec => []TypeOK
<1>1. Typing => TypeOK
  BY DEF Typing, ParentTyping, WorkerTyping, TypeOK
<1> QED
  BY InitTyping, NextTyping, <1>1, PTL DEF Spec

-----------------------------------------------------------------------------
(***************************************************************************)
(* No task is forgotten.  The invariant is inductive together with what a  *)
(* worker that has posted a result promises: its task is out of tasks, or  *)
(* the result is still in resultQueue.                                     *)
(***************************************************************************)
PostedOK == \A p \in Procs :
              pc[p] \in {"posted", "loop"} =>
                held[p] \notin tasks \/ Posted(held[p])

LEMMA InTail ==
  ASSUME NEW S, NEW s \in Seq(S), s # <<>>, NEW i \in 1 .. Len(s),
         s[i] # Head(s)
  PROVE  \E j \in 1 .. Len(Tail(s)) : Tail(s)[j] = s[i]
<1>1. /\ Len(Tail(s)) = Len(s) - 1
      /\ \A k \in 1 .. Len(Tail(s)) : Tail(s)[k] = s[k+1]
      /\ Head(s) = s[1]
  BY HeadTailProperties
<1>2. i - 1 \in 1 .. Len(Tail(s))
  BY <1>1
<1> QED
  BY <1>1, <1>2

LEMMA InAppend ==
  ASSUME NEW S, NEW s \in Seq(S), NEW e \in S
  PROVE  /\ \A i \in 1 .. Len(s) :
              \E j \in 1 .. Len(Append(s, e)) : Append(s, e)[j] = s[i]
         /\ \E j \in 1 .. Len(Append(s, e)) : Append(s, e)[j] = e
<1>1. /\ Len(Append(s, e)) = Len(s) + 1 /\ Len(s) \in Nat
      /\ \A k \in 1 .. Len(s) : Append(s, e)[k] = s[k]
      /\ Append(s, e)[Len(s) + 1] = e
  BY AppendProperties
<1>2. Len(s) + 1 \in 1 .. Len(Append(s, e))
  BY <1>1
<1>3. \A i \in 1 .. Len(s) : i \in 1 .. Len(Append(s, e))
  BY <1>1
<1> QED
  BY <1>1, <1>2, <1>3

\* A worker posts the result of the task it holds.
LEMMA PostPosts ==
  ASSUME Typing, NEW p \in Procs, HoldsTask(p), NEW n \in Nat,
         NEW e \in BOOLEAN, Post(p, n, e), held' = held
  PROVE  Posted(held[p])' /\ (\A t : Posted(t) => Posted(t)')
<1>1. Message(p, n, e) \in Result /\ Message(p, n, e).task = held[p]
  <2>1. slotOf[p] \in Slots /\ held[p] \in Tasks
    BY DEF Typing, ParentTyping, WorkerTyping, TypeOfPool, HeldOK
  <2> QED
    BY <2>1 DEF Message, Result
<1>2. resultQueue \in Seq(Result)
  BY DEF Typing, WorkerTyping, TypeOfQueues
<1>3. resultQueue' = Append(resultQueue, Message(p, n, e))
  BY DEF Post
<1> QED
  BY <1>1, <1>2, <1>3, InAppend DEF Posted

\* What one step of a worker does to the queues and to the task it holds.
LEMMA PostedKept ==
  ASSUME Typing, NEW p \in Procs, Step(p)
  PROVE  /\ \A t : Posted(t) => Posted(t)'
         /\ Report(p) \/ PostFailure(p) \/ PostInterrupt(p) => Posted(held[p])'
<1>1. /\ ran[p] \in Nat /\ err[p] \in BOOLEAN
  BY DEF Typing, WorkerTyping, TypeOfProcess
<1>2. CASE Report(p)
  <2>1. HoldsTask(p) /\ Post(p, ran[p], err[p])
    BY <1>2 DEF Report, HoldsTask, At, Busy
  <2>2. held' = held
    BY <1>2 DEF Report
  <2> QED
    BY <1>1, <2>1, <2>2, PostPosts
<1>3. CASE PostFailure(p) \/ PostInterrupt(p)
  <2>1. HoldsTask(p) /\ Post(p, 0, TRUE)
    BY <1>3 DEF PostFailure, PostInterrupt, HoldsTask, At, Handling
  <2>2. held' = held
    BY <1>3 DEF PostFailure, PostInterrupt
  <2> QED
    BY <2>1, <2>2, PostPosts
<1>4. CASE ~(Report(p) \/ PostFailure(p) \/ PostInterrupt(p))
  <2>1. resultQueue' = resultQueue
    BY <1>4
    DEF Step, Work, Fault, Deliver, Get, GetStop, Idle, Check, Load, LoadFails,
        MarkStart, RunTest, SuiteDone, RunRaises, FixtureExits, HandleTimeout,
        NextTask, Crash, Tick, DeliverOutside, DeliverInRunner, DeliverInTest
  <2> QED
    BY <1>4, <2>1 DEF Posted
<1> QED
  BY <1>2, <1>3, <1>4

LEMMA QueuedKept ==
  ASSUME Typing, NEW p \in Procs, Step(p), NEW t \in Tasks, Queued(t)
  PROVE  Queued(t)' \/ WithWorker(t)'
<1>1. testQueue \in Seq(Tasks \cup {STOP}) /\ t # STOP
  BY TasksAssumption DEF Typing, WorkerTyping, TypeOfQueues
<1>2. CASE Get(p)
  <2>1. CASE t = Head(testQueue)
    <3>1. held'[p] = t /\ pc'[p] = "check"
      BY <1>2, <2>1 DEF Get, Go, Typing, WorkerTyping, TypeOfProcess
    <3> QED
      BY <3>1 DEF WithWorker, Alive
  <2>2. CASE t # Head(testQueue)
    BY <1>1, <1>2, <2>2, InTail DEF Get, Queued
  <2> QED
    BY <2>1, <2>2
<1>3. CASE GetStop(p)
  BY <1>1, <1>3, InTail DEF GetStop, Queued
<1>4. CASE ~(Get(p) \/ GetStop(p))
  <2>1. testQueue' = testQueue
    BY <1>4
    DEF Step, Work, Fault, Deliver, Idle, Check, Load, LoadFails, MarkStart,
        RunTest, SuiteDone, Report, RunRaises, FixtureExits, HandleTimeout,
        PostFailure, PostInterrupt, NextTask, Crash, Tick, DeliverOutside,
        DeliverInRunner, DeliverInTest
  <2> QED
    BY <2>1 DEF Queued
<1> QED
  BY <1>2, <1>3, <1>4

\* A step of p moves no other process, and p gives its task up in NextTask only.
LEMMA StepMoves ==
  ASSUME Typing, NEW p \in Procs, Step(p)
  PROVE  /\ \A q \in Procs \ {p} :
              pc'[q] = pc[q] /\ held'[q] = held[q] /\ cause'[q] = cause[q]
         /\ \/ held[p] = NoTask
            \/ NextTask(p)
            \/ UNCHANGED <<pc, held, cause>>
            \/ held'[p] = held[p] /\ (pc'[p] # "dead" \/ cause'[p] \in Abrupt)
                 /\ pc'[p] # "unborn"
         /\ pc'[p] \in {"posted", "loop"} =>
              Report(p) \/ PostFailure(p) \/ UNCHANGED <<pc, held>>
<1>1. /\ pc \in [Procs -> ProcStates] /\ cause \in [Procs -> Causes]
      /\ held \in [Procs -> Tasks \cup {NoTask}] /\ HeldOK
  BY DEF Typing, WorkerTyping, TypeOfProcess
<1>2. /\ \/ held' = held \/ \E t : held' = [held EXCEPT ![p] = t]
      /\ \/ pc' = pc \/ \E l : pc' = [pc EXCEPT ![p] = l]
      /\ \/ cause' = cause \/ \E w : cause' = [cause EXCEPT ![p] = w]
  BY
  DEF Go, Die, Step, Work, Fault, Deliver, Get, GetStop, Idle, Check, Load,
      LoadFails, MarkStart, RunTest, SuiteDone, Report, RunRaises,
      FixtureExits, HandleTimeout, PostFailure, PostInterrupt, NextTask, Crash,
      Tick, DeliverOutside, DeliverInRunner, DeliverInTest
<1>3. \/ At(p, "get") \/ NextTask(p) \/ UNCHANGED <<pc, held, cause>>
      \/ /\ held' = held
         /\ \/ \E l \in ProcStates \ {"dead", "unborn"} : Go(p, l)
            \/ \E w \in Abrupt : Die(p, w)
  BY
  DEF Step, Work, Fault, Deliver, Get, GetStop, Idle, Check, Load,
      LoadFails, MarkStart, RunTest, SuiteDone, Report, RunRaises,
      FixtureExits, HandleTimeout, PostFailure, PostInterrupt, Crash,
      Tick, DeliverOutside, DeliverInRunner, DeliverInTest, HandlerOf,
      ProcStates, Busy, Handling, Abrupt
<1>4. \/ Report(p) \/ PostFailure(p) \/ UNCHANGED <<pc, held>>
      \/ \E l \in ProcStates \ {"posted", "loop"} : Go(p, l)
      \/ \E w : Die(p, w)
  BY
  DEF Step, Work, Fault, Deliver, Get, GetStop, Idle, Check, Load,
      LoadFails, MarkStart, RunTest, SuiteDone, RunRaises,
      FixtureExits, HandleTimeout, PostInterrupt, NextTask, Crash,
      Tick, DeliverOutside, DeliverInRunner, DeliverInTest, HandlerOf,
      ProcStates, Busy, Handling
<1>5. held[p] = NoTask \/ ~At(p, "get")
  BY <1>1 DEF HeldOK, At
<1> QED
  BY <1>1, <1>2, <1>3, <1>4, <1>5 DEF Go, Die

LEMMA WorkerForgetsNone ==
  ASSUME Typing, PostedOK, NoTaskForgotten, NEW p \in Procs, Step(p)
  PROVE  PostedOK' /\ NoTaskForgotten'
<1>1. tasks' = tasks /\ tasks \subseteq Tasks
  BY ParentKept DEF Typing, ParentTyping, TypeOfParent
<1>2. PostedOK'
  <2> SUFFICES ASSUME NEW q \in Procs, pc'[q] \in {"posted", "loop"}
               PROVE  (held[q] \notin tasks \/ Posted(held[q]))'
    BY DEF PostedOK
  <2>1. CASE q = p /\ (Report(p) \/ PostFailure(p))
    BY <2>1, PostedKept
  <2>2. CASE pc'[q] = pc[q] /\ held'[q] = held[q]
    <3> DEFINE t == held[q]
    <3>1. t \notin tasks \/ Posted(t)
      BY <2>2 DEF PostedOK
    <3>2. held'[q] = t /\ tasks' = tasks
      BY <1>1, <2>2
    <3>3. (\E i \in 1 .. Len(resultQueue) : resultQueue[i].task = t) =>
            \E i \in 1 .. Len(resultQueue') : resultQueue'[i].task = t
      BY PostedKept DEF Posted
    <3> HIDE DEF t
    <3> QED
      BY <3>1, <3>2, <3>3 DEF Posted
  <2> QED
    BY <2>1, <2>2, StepMoves
<1>3. NoTaskForgotten'
  <2> SUFFICES ASSUME NEW t \in tasks
               PROVE  Queued(t)' \/ Posted(t)' \/ WithWorker(t)'
    BY <1>1 DEF NoTaskForgotten
  <2>1. CASE Queued(t)
    BY <1>1, <2>1, QueuedKept
  <2>2. CASE Posted(t)
    BY <2>2, PostedKept
  <2>3. CASE WithWorker(t)
    <3> PICK q \in Procs : held[q] = t /\ (Alive(q) \/ cause[q] \in Abrupt)
      BY <2>3 DEF WithWorker
    <3>1. CASE q = p /\ NextTask(p)
      <4>1. Posted(t)
        BY <3>1 DEF NextTask, PostedOK
      <4> QED
        BY <4>1, PostedKept
    <3>2. CASE ~(q = p /\ NextTask(p))
      <4>1. held[q] # NoTask
        BY <1>1, TasksAssumption
      <4>2. \/ pc'[q] = pc[q] /\ held'[q] = held[q] /\ cause'[q] = cause[q]
            \/ held'[q] = held[q] /\ pc'[q] # "unborn"
                 /\ (pc'[q] # "dead" \/ cause'[q] \in Abrupt)
        BY <3>2, <4>1, StepMoves
      <4> QED
        BY <4>2 DEF WithWorker, Alive
    <3> QED
      BY <3>1, <3>2
  <2> QED
    BY <2>1, <2>2, <2>3 DEF NoTaskForgotten
<1> QED
  BY <1>2, <1>3

\* The parent drops a task from tasks only with a result of it in hand.
LEMMA ParentForgetsNone ==
  ASSUME Typing, PostedOK, NoTaskForgotten, ParentStep
  PROVE  PostedOK' /\ NoTaskForgotten'
<1>1. tasks \subseteq Tasks /\ TypeOfQueues
  BY DEF Typing, ParentTyping, WorkerTyping, TypeOfParent
<1>2. tasks' \subseteq tasks /\ \A t \in tasks' : Posted(t) => Posted(t)'
  <2>1. CASE Receive
    <3>1. /\ tasks' = tasks \ {Head(resultQueue).task}
          /\ resultQueue' = Tail(resultQueue) /\ resultQueue # <<>>
      BY <2>1 DEF Receive
    <3>2. ASSUME NEW t \in tasks', Posted(t)
          PROVE  Posted(t)'
      <4>1. PICK i \in 1 .. Len(resultQueue) : resultQueue[i].task = t
        BY <3>2 DEF Posted
      <4>2. resultQueue[i] # Head(resultQueue)
        BY <3>1, <4>1
      <4>3. PICK j \in 1 .. Len(Tail(resultQueue)) :
              Tail(resultQueue)[j] = resultQueue[i]
        BY <1>1, <4>2, InTail DEF TypeOfQueues
      <4> QED
        BY <3>1, <4>1, <4>3 DEF Posted
    <3> QED
      BY <3>1, <3>2
  <2>2. CASE ~Receive
    <3>1. tasks' = tasks /\ resultQueue' = resultQueue
      BY <2>2
      DEF ParentStep, Parent, StartWorker, EnterLoop, Rejoin, AllDone,
          GetTimesOut, ScanWorker, TimeOutWorker, KillDone, ScanDone,
          TeardownShared, Summarize, TellStop, Join, SendSigill, Terminate,
          InterruptLoop, InterruptShutdown, Terminated, vars
    <3> QED
      BY <3>1 DEF Posted
  <2> QED
    BY <2>1, <2>2
<1>3. \A t : Queued(t) => Queued(t)'
  <2>1. CASE TellStop
    <3>1. testQueue' = testQueue \/ testQueue' = Append(testQueue, STOP)
      BY <2>1 DEF TellStop
    <3>2. ASSUME NEW t, NEW i \in 1 .. Len(testQueue), testQueue[i] = t
          PROVE  \E j \in 1 .. Len(Append(testQueue, STOP)) :
                   Append(testQueue, STOP)[j] = t
      BY <1>1, <3>2, InAppend DEF TypeOfQueues
    <3> QED
      BY <3>1, <3>2 DEF Queued
  <2>2. CASE ~TellStop
    <3>1. testQueue' = testQueue
      BY <2>2
      DEF ParentStep, Parent, StartWorker, EnterLoop, Receive, Rejoin, AllDone,
          GetTimesOut, ScanWorker, TimeOutWorker, KillDone, ScanDone,
          TeardownShared, Summarize, Join, SendSigill, Terminate,
          InterruptLoop, InterruptShutdown, Terminated, vars
    <3> QED
      BY <3>1 DEF Queued
  <2> QED
    BY <2>1, <2>2
<1>4. \A t : WithWorker(t) => WithWorker(t)'
  <2> SUFFICES ASSUME NEW t, NEW q \in Procs, held[q] = t,
                      Alive(q) \/ cause[q] \in Abrupt
               PROVE  WithWorker(t)'
    BY DEF WithWorker
  <2>1. held'[q] = t
    BY ParentSteps
  <2>2. (pc'[q] # "dead" /\ pc'[q] # "unborn") \/ cause'[q] \in Abrupt
    BY ParentSteps DEF Alive, Abrupt
  <2> QED
    BY <2>1, <2>2 DEF WithWorker, Alive
<1>5. PostedOK'
  <2> SUFFICES ASSUME NEW q \in Procs, pc'[q] \in {"posted", "loop"}
               PROVE  (held[q] \notin tasks \/ Posted(held[q]))'
    BY DEF PostedOK
  <2> DEFINE t == held[q]
  <2>1. pc'[q] = pc[q] /\ held'[q] = t
    BY ParentSteps
  <2>2. t \notin tasks \/ Posted(t)
    BY <2>1 DEF PostedOK
  <2>3. t \notin tasks' \/ \E i \in 1 .. Len(resultQueue') :
                             resultQueue'[i].task = t
    BY <1>2, <2>2 DEF Posted
  <2> HIDE DEF t
  <2> QED
    BY <2>1, <2>3 DEF Posted
<1> QED
  BY <1>2, <1>3, <1>4, <1>5 DEF NoTaskForgotten

LEMMA InitForgetsNone == Init => PostedOK /\ NoTaskForgotten
<1> SUFFICES ASSUME Init PROVE PostedOK /\ NoTaskForgotten
  OBVIOUS
<1>1. PostedOK
  BY DEF Init, PostedOK
<1>2. NoTaskForgotten
  <2> SUFFICES ASSUME NEW t \in Tasks PROVE Queued(t)
    BY DEF Init, NoTaskForgotten
  <2> DEFINE n == Cardinality(Tasks)
  <2>1. /\ n \in Nat /\ testQueue \in [1 .. n -> Tasks]
        /\ \E i \in 1 .. n : testQueue[i] = t
    BY TasksAssumption, FS_CardinalityType DEF Init, Orders
  <2> HIDE DEF n, Init
  <2>2. Len(testQueue) = n
    BY <2>1
  <2> QED
    BY <2>1, <2>2 DEF Queued
<1> QED
  BY <1>1, <1>2

\* No interleaving of workers, timeouts, restarts and interrupts loses an
\* address: one without a result is in a queue, with a live worker, or was with
\* a worker that ended abruptly.
THEOREM TasksKept == Spec => []NoTaskForgotten
<1> DEFINE IInv == Typing /\ PostedOK /\ NoTaskForgotten
<1>1. Init => IInv
  BY InitTyping, InitForgetsNone
<1>2. IInv /\ [Next]_vars => IInv'
  <2> SUFFICES ASSUME IInv, [Next]_vars PROVE IInv'
    OBVIOUS
  <2>1. Typing'
    BY NextTyping
  <2>2. CASE \E p \in Procs : Step(p)
    BY <2>1, <2>2, WorkerForgetsNone
  <2>3. CASE ParentStep
    BY <2>1, <2>3, ParentForgetsNone
  <2>4. CASE UNCHANGED vars
    BY <2>1, <2>4
    DEF vars, PostedOK, NoTaskForgotten, Queued, Posted, WithWorker, Alive
  <2> QED
    BY <2>2, <2>3, <2>4 DEF Next, Step, ParentStep
<1> QED
  BY <1>1, <1>2, PTL DEF Spec

-----------------------------------------------------------------------------
(***************************************************************************)
(* Interrupts.  Once one is caught in the loop, the parent is on its way   *)
(* out and starts no process.                                              *)
(***************************************************************************)
WindingUp == thrown => ppc \in {"teardown", "summary", "join", "done", "raised"}

LEMMA ParentObeys ==
  ASSUME Typing, WindingUp, InterruptObeyed, ParentStep
  PROVE  WindingUp' /\ InterruptObeyed'
<1>1. TypeOfShared /\ TypeOfParent
  BY DEF Typing, ParentTyping, WorkerTyping
<1>2. WindingUp'
  BY
  DEF WindingUp, Waiting, ParentStep, Parent, StartWorker, EnterLoop, Receive,
      Rejoin, AllDone, GetTimesOut, ScanWorker, TimeOutWorker, KillDone,
      ScanDone, TeardownShared, Summarize, TellStop, Join, SendSigill,
      Terminate, InterruptLoop, InterruptShutdown, Terminated, vars
<1>3. InterruptObeyed'
  <2> SUFFICES ASSUME thrown', NEW p \in Procs, Alive(p)'
               PROVE  "INT" \in pending'[p] \/ pc'[p] = "abort"
    BY DEF InterruptObeyed, At
  <2>1. CASE InterruptLoop
    BY <1>1, <2>1 DEF InterruptLoop, Interrupted, Alive, TypeOfShared
  <2>2. CASE InterruptShutdown
    <3>1. Alive(p) /\ pc'[p] = pc[p]
      BY <2>2, ParentSteps DEF InterruptShutdown, Alive
    <3> QED
      BY <2>2, <3>1 DEF InterruptShutdown, Interrupted
  <2>3. CASE ~(InterruptLoop \/ InterruptShutdown)
    <3>1. thrown
      BY <2>3
      DEF ParentStep, Parent, StartWorker, EnterLoop, Receive, Rejoin, AllDone,
          GetTimesOut, ScanWorker, TimeOutWorker, KillDone, ScanDone,
          TeardownShared, Summarize, TellStop, Join, SendSigill, Terminate,
          Terminated, vars
    <3>2. pc' = pc /\ pending' = pending
      BY <2>3, <3>1
      DEF WindingUp, Waiting, ParentStep, Parent, StartWorker, EnterLoop,
          Receive, Rejoin, AllDone, GetTimesOut, ScanWorker, TimeOutWorker,
          KillDone, ScanDone, TeardownShared, Summarize, TellStop, Join,
          SendSigill, Terminate, Terminated, vars
    <3> QED
      BY <3>1, <3>2 DEF InterruptObeyed, Alive, At
  <2> QED
    BY <2>1, <2>2, <2>3
<1> QED
  BY <1>2, <1>3

LEMMA WorkerObeys ==
  ASSUME Typing, WindingUp, InterruptObeyed, NEW p \in Procs, Step(p)
  PROVE  WindingUp' /\ InterruptObeyed'
<1>1. TypeOfShared /\ pc \in [Procs -> ProcStates]
  BY DEF Typing, WorkerTyping, TypeOfProcess
<1>2. thrown' = thrown /\ ppc' = ppc
  BY ParentKept
<1>3. \A q \in Procs : Alive(q)' => Alive(q)
  <2>1. Alive(p) \/ pc' = pc
    BY
    DEF Alive, At, Busy, Handling, Step, Work, Fault, Deliver, Get, GetStop,
        Idle, Check, Load, LoadFails, MarkStart, RunTest, SuiteDone, Report,
        RunRaises, FixtureExits, HandleTimeout, PostFailure, PostInterrupt,
        NextTask, Crash, Tick, DeliverOutside, DeliverInRunner, DeliverInTest
  <2> QED
    BY <2>1, StepMoves DEF Alive
<1>4. \/ pending' = pending
      \/ Consume(p, "ILL")
      \/ Consume(p, "INT") /\ (Go(p, "abort") \/ \E w : Die(p, w))
  BY
  DEF RaisesAgain, HandlerOf, Step, Work, Fault, Deliver, Get, GetStop, Idle,
      Check, Load, LoadFails, MarkStart, RunTest, SuiteDone, Report, RunRaises,
      FixtureExits, HandleTimeout, PostFailure, PostInterrupt, NextTask, Crash,
      Tick, DeliverOutside, DeliverInRunner, DeliverInTest
<1>5. \/ ~At(p, "abort") \/ \E w : Die(p, w)
      \/ UNCHANGED <<pc, pending>>
  BY
  DEF At, Busy, Handling, Step, Work, Fault, Deliver, Get, GetStop, Idle,
      Check, Load, LoadFails, MarkStart, RunTest, SuiteDone, Report, RunRaises,
      FixtureExits, HandleTimeout, PostFailure, PostInterrupt, NextTask, Crash,
      Tick, DeliverOutside, DeliverInRunner, DeliverInTest
<1>6. InterruptObeyed'
  <2> SUFFICES ASSUME thrown, NEW q \in Procs, Alive(q)'
               PROVE  "INT" \in pending'[q] \/ pc'[q] = "abort"
    BY <1>2 DEF InterruptObeyed, At
  <2>1. "INT" \in pending[q] \/ pc[q] = "abort"
    BY <1>3 DEF InterruptObeyed, At
  <2>2. CASE q # p
    <3>1. pc'[q] = pc[q] /\ pending'[q] = pending[q]
      BY <2>2, <1>1, <1>4, StepMoves DEF Consume, TypeOfShared
    <3> QED
      BY <2>1, <3>1
  <2>3. CASE q = p
    <3>1. ~\E w : Die(p, w)
      BY <1>1, <2>3 DEF Die, Alive
    <3>2. CASE pc[p] = "abort"
      BY <1>5, <2>3, <3>1, <3>2 DEF At
    <3>3. CASE "INT" \in pending[p]
      BY <1>1, <1>4, <2>3, <3>1, <3>3 DEF Consume, Go, TypeOfShared
    <3> QED
      BY <2>1, <2>3, <3>2, <3>3
  <2> QED
    BY <2>2, <2>3
<1> QED
  BY <1>2, <1>6 DEF WindingUp

\* After ctrl-c no process starts, and each live worker is about to end.
THEOREM InterruptWindsUp == Spec => []InterruptObeyed
<1> DEFINE IInv == Typing /\ WindingUp /\ InterruptObeyed
<1>1. Init => IInv
  BY InitTyping DEF Init, WindingUp, InterruptObeyed
<1>2. IInv /\ [Next]_vars => IInv'
  <2> SUFFICES ASSUME IInv, [Next]_vars PROVE IInv'
    OBVIOUS
  <2>1. Typing'
    BY NextTyping
  <2>2. CASE \E p \in Procs : Step(p)
    BY <2>1, <2>2, WorkerObeys
  <2>3. CASE ParentStep
    BY <2>1, <2>3, ParentObeys
  <2>4. CASE UNCHANGED vars
    BY <2>1, <2>4 DEF vars, WindingUp, InterruptObeyed, Alive, At
  <2> QED
    BY <2>2, <2>3, <2>4 DEF Next, Step, ParentStep
<1> QED
  BY <1>1, <1>2, PTL DEF Spec

-----------------------------------------------------------------------------
(***************************************************************************)
(* Without --process-restartworker the parent keeps track of its workers.  *)
(***************************************************************************)
\* While it starts them, slot i holds process i; while it joins them, those
\* before the cursor have ended.
StartOrder == ppc = "start" =>
                /\ nextProc = cursor
                /\ \A i \in Slots : i < cursor => worker[i] = i
JoinOrder == ppc = "join" => \A i \in Slots : i < cursor => ~Alive(worker[i])
Tracking == StartOrder /\ JoinOrder /\ WorkersTracked /\ ppc # "rejoin"

LEMMA WorkerStaysTracked ==
  ASSUME Typing, Tracking, NEW p \in Procs, Step(p)
  PROVE  Tracking'
<1>1. UNCHANGED parent
  BY ParentKept
<1>2. \A q \in Procs : Alive(q)' => Alive(q)
  <2>1. Alive(p) \/ pc' = pc
    BY
    DEF Alive, At, Busy, Handling, Step, Work, Fault, Deliver, Get, GetStop,
        Idle, Check, Load, LoadFails, MarkStart, RunTest, SuiteDone, Report,
        RunRaises, FixtureExits, HandleTimeout, PostFailure, PostInterrupt,
        NextTask, Crash, Tick, DeliverOutside, DeliverInRunner, DeliverInTest
  <2> QED
    BY <2>1, StepMoves DEF Alive
<1>3. worker \in [Slots -> Procs]
  BY DEF Typing, ParentTyping, TypeOfPool
<1>4. StartOrder' /\ ppc' # "rejoin"
  BY <1>1 DEF Tracking, StartOrder
<1>5. JoinOrder'
  <2> SUFFICES ASSUME ppc = "join", NEW i \in Slots, i < cursor
               PROVE  ~Alive(worker[i])'
    BY <1>1 DEF JoinOrder
  <2>1. worker'[i] = worker[i] /\ worker[i] \in Procs /\ ~Alive(worker[i])
    BY <1>1, <1>3 DEF Tracking, JoinOrder
  <2> QED
    BY <1>2, <2>1 DEF Alive
<1>6. WorkersTracked'
  BY <1>1, <1>2 DEF Tracking, WorkersTracked, WorkersInSlots
<1> QED
  BY <1>4, <1>5, <1>6 DEF Tracking

LEMMA ParentTracks ==
  ASSUME Typing, Tracking, ~RestartWorker, ParentStep
  PROVE  Tracking'
<1>1. /\ worker \in [Slots -> Procs] /\ cursor \in 1 .. NumWorkers + 1
      /\ ppc \in ParentStates /\ pc \in [Procs -> ProcStates]
  BY DEF Typing, ParentTyping, WorkerTyping, TypeOfPool, TypeOfParent,
         TypeOfProcess
<1>2. /\ StartOrder /\ JoinOrder /\ WorkersInSlots /\ ppc # "rejoin"
      /\ ppc \in {"done", "raised"} => \A p \in Procs : ~Alive(p)
  BY DEF Tracking, WorkersTracked
<1>3. CASE StartWorker
  <2>1. /\ ppc = "start" /\ cursor \in Slots /\ nextProc = cursor
        /\ \A i \in Slots : i < cursor => worker[i] = i
    BY <1>1, <1>2, <1>3, OptionsAssumption DEF StartWorker, StartOrder, Slots
  <2>2. /\ worker' = [worker EXCEPT ![cursor] = cursor]
        /\ pc' = [pc EXCEPT ![cursor] = "get"]
        /\ cursor' = cursor + 1 /\ nextProc' = cursor + 1 /\ ppc' = "start"
    BY <1>3, <2>1 DEF StartWorker, StartProcess, Go
  <2>3. cursor \in Procs
    BY <2>1, OptionsAssumption DEF Slots, Procs
  <2>4. StartOrder'
    <3> SUFFICES ASSUME NEW i \in Slots, i < cursor + 1
                 PROVE  worker'[i] = i
      BY <2>2 DEF StartOrder
    <3> QED
      BY <1>1, <2>1, <2>2 DEF Slots
  <2>5. WorkersInSlots'
    <3> SUFFICES ASSUME NEW p \in Procs, Alive(p)'
                 PROVE  \E i \in Slots : worker'[i] = p
      BY DEF WorkersInSlots
    <3>1. CASE p = cursor
      BY <1>1, <2>1, <2>2, <3>1
    <3>2. CASE p # cursor
      <4>1. p < nextProc
        BY <1>1, <2>1, <2>2, <3>2
        DEF Alive, Typing, WorkerTyping, UnbornOK, Procs, Slots
      <4>2. p \in Slots /\ p < cursor
        BY <2>1, <4>1, OptionsAssumption DEF Slots, Procs
      <4> QED
        BY <1>1, <2>1, <2>2, <4>2 DEF Slots
    <3> QED
      BY <3>1, <3>2
  <2> QED
    BY <2>2, <2>4, <2>5 DEF Tracking, WorkersTracked, JoinOrder
<1>4. CASE Terminate
  <2> DEFINE w == worker[cursor]
  <2>1. /\ cursor \in Slots /\ nextProc \in Procs /\ ppc = "kill"
    BY <1>4, OptionsAssumption
    DEF Terminate, StartProcess, Typing, ParentTyping, CursorInSlots,
        TypeOfPool, Procs
  <2>2. /\ worker' = [worker EXCEPT ![cursor] = nextProc]
        /\ pc' = [pc EXCEPT ![w] = "dead", ![nextProc] = "get"]
        /\ ppc' = "scan"
    BY <1>4 DEF Terminate, StartProcess
  <2>3. WorkersInSlots'
    <3> SUFFICES ASSUME NEW p \in Procs, Alive(p)'
                 PROVE  \E i \in Slots : worker'[i] = p
      BY DEF WorkersInSlots
    <3>1. CASE p = nextProc
      BY <1>1, <2>1, <2>2, <3>1
    <3>2. CASE p # nextProc
      <4>1. Alive(p) /\ p # w
        BY <1>1, <2>1, <2>2, <3>2 DEF Alive
      <4>2. PICK i \in Slots : worker[i] = p
        BY <1>2, <4>1 DEF WorkersInSlots
      <4>3. i # cursor
        BY <4>1, <4>2
      <4> QED
        BY <1>1, <2>1, <2>2, <4>2, <4>3
    <3> QED
      BY <3>1, <3>2
  <2> QED
    BY <2>2, <2>3 DEF Tracking, WorkersTracked, StartOrder, JoinOrder
<1>5. CASE InterruptShutdown
  <2>1. /\ ppc' = "raised" /\ worker' = worker
        /\ \A p \in Procs :
             Alive(p) /\ (\E i \in Slots : worker[i] = p) => pc'[p] = "dead"
        /\ \A p \in Procs : pc'[p] = pc[p] \/ pc'[p] = "dead"
    BY <1>5 DEF InterruptShutdown
  <2>2. \A p \in Procs : ~Alive(p)'
    BY <1>2, <2>1 DEF WorkersInSlots, Alive
  <2> QED
    BY <2>1, <2>2
    DEF Tracking, WorkersTracked, WorkersInSlots, StartOrder, JoinOrder
<1>6. CASE Join
  <2>1. UNCHANGED <<worker, pc, nextProc>> /\ ppc = "join"
    BY <1>6 DEF Join
  <2>2. CASE cursor > NumWorkers
    <3>1. ppc' = "done"
      BY <1>6, <2>2 DEF Join
    <3>2. \A i \in Slots : ~Alive(worker[i])
      BY <1>1, <1>2, <2>1, <2>2, OptionsAssumption DEF JoinOrder, Slots
    <3>3. \A p \in Procs : ~Alive(p)
      BY <1>2, <3>2 DEF WorkersInSlots
    <3> QED
      BY <2>1, <3>1, <3>3
      DEF Tracking, WorkersTracked, WorkersInSlots, StartOrder, JoinOrder, Alive
  <2>3. CASE ~(cursor > NumWorkers)
    <3>1. ppc' = "join" /\ cursor' = cursor + 1 /\ ~Alive(worker[cursor])
      BY <1>6, <2>1, <2>3 DEF Join, MustJoin
    <3>2. JoinOrder'
      <4> SUFFICES ASSUME NEW i \in Slots, i < cursor + 1
                   PROVE  ~Alive(worker[i])
        BY <2>1, <3>1 DEF JoinOrder, Alive
      <4>1. i < cursor \/ i = cursor
        BY <1>1 DEF Slots
      <4> QED
        BY <1>2, <2>1, <3>1, <4>1 DEF JoinOrder
    <3> QED
      BY <1>2, <2>1, <3>1, <3>2
      DEF Tracking, WorkersTracked, WorkersInSlots, StartOrder, Alive
  <2> QED
    BY <2>2, <2>3
<1>7. CASE ~(StartWorker \/ Terminate \/ InterruptShutdown \/ Join)
  <2>1. UNCHANGED <<worker, pc, nextProc>>
    BY <1>2, <1>7
    DEF ParentStep, Parent, EnterLoop, Receive, Rejoin, AllDone, GetTimesOut,
        ScanWorker, TimeOutWorker, KillDone, ScanDone, TeardownShared,
        Summarize, TellStop, SendSigill, InterruptLoop, Terminated, vars
  <2>2. CASE Terminated
    BY <1>2, <2>2
    DEF Terminated, vars, Tracking, WorkersTracked, WorkersInSlots, StartOrder,
        JoinOrder, Alive
  <2> SUFFICES ASSUME ~Terminated PROVE Tracking'
    BY <2>2
  <2>7. /\ ppc' \notin {"start", "rejoin", "done", "raised"}
        /\ ppc' = "join" => cursor' = 1
    BY <1>2, <1>7
    DEF Waiting, ParentStep, Parent, EnterLoop, Receive, Rejoin, AllDone,
        GetTimesOut, ScanWorker, TimeOutWorker, KillDone, ScanDone,
        TeardownShared, Summarize, TellStop, SendSigill, InterruptLoop
  <2>3. WorkersInSlots'
    BY <1>2, <2>1 DEF WorkersInSlots, Alive
  <2>4. StartOrder'
    BY <2>7 DEF StartOrder
  <2>5. JoinOrder'
    <3>1. \A i \in Slots : ~(i < 1)
      BY DEF Slots
    <3> QED
      BY <2>7, <3>1 DEF JoinOrder
  <2>6. WorkersTracked'
    BY <2>3, <2>7 DEF WorkersTracked
  <2> QED
    BY <2>4, <2>5, <2>6, <2>7 DEF Tracking
<1> QED
  BY <1>3, <1>4, <1>5, <1>6, <1>7

LEMMA InitTracks == Init => Tracking
<1> SUFFICES ASSUME Init PROVE Tracking
  OBVIOUS
<1>1. StartOrder
  BY DEF Init, StartOrder, Slots
<1> QED
  BY <1>1
  DEF Init, Tracking, JoinOrder, WorkersTracked, WorkersInSlots, Alive

LEMMA NextTracks ==
  ASSUME Typing, Tracking, ~RestartWorker, [Next]_vars
  PROVE  Tracking'
<1>1. CASE \E p \in Procs : Step(p)
  BY <1>1, WorkerStaysTracked
<1>2. CASE ParentStep
  BY <1>2, ParentTracks
<1>3. CASE UNCHANGED vars
  BY <1>3
  DEF vars, Tracking, StartOrder, JoinOrder, WorkersTracked, WorkersInSlots, Alive
<1> QED
  BY <1>1, <1>2, <1>3 DEF Next, Step, ParentStep

\* Every live process is in a slot, and run() returns with none left, when no
\* worker is restarted after a result.
THEOREM NoOrphans == ASSUME ~RestartWorker PROVE Spec => []WorkersTracked
<1> DEFINE IInv == Typing /\ Tracking
<1>1. Init => IInv
  BY InitTyping, InitTracks
<1>2. IInv /\ [Next]_vars => IInv'
  BY NextTyping, NextTracks
<1>3. IInv => WorkersTracked
  BY DEF Tracking
<1> QED
  BY <1>1, <1>2, <1>3, PTL DEF Spec

=============================================================================
