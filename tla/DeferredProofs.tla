--------------------------- MODULE DeferredProofs ---------------------------
(***************************************************************************)
(* Theorems of Deferred, for any number of tests under any stacks of       *)
(* decorators: nothing of a test without a timeout runs on after it, and a *)
(* reactor which was stopped does nothing more; fixtures nest; and where   *)
(* no stack has raises twice, every test gets its own answer.              *)
(***************************************************************************)
EXTENDS Deferred, DataInduction

\* Where the code of test i may still be: with the reactor, or called back later.
Queued(i) == \E k \in 1..Len(calls) : calls[k] = i
MayRun(i) == Queued(i) \/ busy = i \/ i \in pending
Started(i) == cur > i \/ (cur = i /\ pc \in {"wait", "teardown"})

Typing ==
  /\ calls \in Seq(0..N) /\ busy \in 0..N /\ pending \in SUBSET Tests
  /\ DOMAIN q = Tests
  /\ cur \in Nat \ {0} /\ stops \in Nat
  /\ pc \in {"load", "call", "wait", "teardown", "join", "done"}
  /\ pc \in {"call", "wait", "teardown"} => cur \in Tests
  /\ reactor \in {"running", "stopped"}

\* A test is in one place at a time, and only once it was handed over; then it
\* has not answered yet.
OnePlace ==
  /\ \A i \in Tests :
       /\ MayRun(i) => Started(i) /\ q[i] = <<>>
       /\ ~Started(i) => q[i] = <<>>
       /\ Queued(i) => busy # i /\ i \notin pending
       /\ busy = i => i \notin pending
  /\ \A k, l \in 1..Len(calls) : calls[k] = calls[l] /\ calls[k] # 0 => k = l

\* The main thread goes on without a timeout only with an answer.
Answered == \A i \in Tests : Over(i) /\ ~HasTimeout(i) => ~MayRun(i)

\* A stopped reactor runs nothing, and stop_reactor waits for it to stop.
AtRest ==
  /\ reactor = "stopped" => busy = 0
  /\ stops > 0 /\ pc # "join" => reactor = "stopped" /\ pending = {}

IInv == Typing /\ OnePlace /\ Answered /\ AtRest

-----------------------------------------------------------------------------
\* What is left of a sequence of which no element but 0 occurs twice.
LEMMA TailElements ==
  ASSUME NEW s \in Seq(0..N), s # <<>>,
         \A k, l \in 1..Len(s) : s[k] = s[l] /\ s[k] # 0 => k = l
  PROVE  /\ Head(s) \in 0..N /\ Tail(s) \in Seq(0..N)
         /\ \E k \in 1..Len(s) : s[k] = Head(s)
         /\ \A i \in 1..N : (\E k \in 1..Len(Tail(s)) : Tail(s)[k] = i) =>
              i # Head(s) /\ \E k \in 1..Len(s) : s[k] = i
         /\ \A k, l \in 1..Len(Tail(s)) : Tail(s)[k] = Tail(s)[l] /\ Tail(s)[k] # 0 => k = l
<1>1. /\ Len(s) \in Nat /\ Len(s) > 0 /\ Head(s) = s[1] /\ s[1] \in 0..N
      /\ Tail(s) \in Seq(0..N) /\ Len(Tail(s)) = Len(s) - 1
      /\ \A k \in 1..Len(Tail(s)) : Tail(s)[k] = s[k + 1]
  <2>1. Len(s) \in Nat /\ Len(s) > 0 /\ Head(s) = s[1]
    <3>1. Len(s) \in Nat /\ Len(s) # 0
      BY EmptySeq
    <3>2. Head(s) = s[1]
      OBVIOUS
    <3> QED  BY <3>1, <3>2
  <2>2. s[1] \in 0..N
    BY <2>1, HeadTailProperties
  <2>3. Tail(s) \in Seq(0..N) /\ Len(Tail(s)) = Len(s) - 1
    BY HeadTailProperties
  <2>4. \A k \in 1..Len(Tail(s)) : Tail(s)[k] = s[k + 1]
    BY <2>3, HeadTailProperties
  <2> QED  BY <2>1, <2>2, <2>3, <2>4
<1>2. ASSUME NEW i \in 1..N, NEW k \in 1..Len(Tail(s)), Tail(s)[k] = i
      PROVE  i # Head(s) /\ \E l \in 1..Len(s) : s[l] = i
  <2>1. k + 1 \in 1..Len(s) /\ s[k + 1] = i /\ i # 0
    BY <1>1, <1>2
  <2>2. i # s[1]
    BY <2>1, <1>1
  <2> QED  BY <2>1, <2>2, <1>1
<1>3. ASSUME NEW k \in 1..Len(Tail(s)), NEW l \in 1..Len(Tail(s)),
             Tail(s)[k] = Tail(s)[l], Tail(s)[k] # 0
      PROVE  k = l
  <2>1. k + 1 \in 1..Len(s) /\ l + 1 \in 1..Len(s) /\ s[k + 1] = s[l + 1] /\ s[k + 1] # 0
    BY <1>1, <1>3
  <2>2. k + 1 = l + 1
    BY <2>1
  <2> QED  BY <2>2
<1>4. \E k \in 1..Len(s) : s[k] = Head(s)
  BY <1>1
<1> QED  BY <1>1, <1>2, <1>3, <1>4

\* A call that is handed over for the first time.
LEMMA AppendElements ==
  ASSUME NEW s \in Seq(0..N), NEW x \in 0..N,
         x # 0 => \A k \in 1..Len(s) : s[k] # x,
         \A k, l \in 1..Len(s) : s[k] = s[l] /\ s[k] # 0 => k = l
  PROVE  /\ Append(s, x) \in Seq(0..N)
         /\ \A i \in 1..N : (\E k \in 1..Len(Append(s, x)) : Append(s, x)[k] = i) =>
              i = x \/ \E k \in 1..Len(s) : s[k] = i
         /\ \A k, l \in 1..Len(Append(s, x)) :
              Append(s, x)[k] = Append(s, x)[l] /\ Append(s, x)[k] # 0 => k = l
<1>1. /\ Len(s) \in Nat /\ Append(s, x) \in Seq(0..N) /\ Len(Append(s, x)) = Len(s) + 1
      /\ Append(s, x)[Len(s) + 1] = x
      /\ \A k \in 1..Len(s) : Append(s, x)[k] = s[k]
  OBVIOUS
<1>2. \A k \in 1..Len(Append(s, x)) : k \in 1..Len(s) \/ k = Len(s) + 1
  BY <1>1
<1> QED  BY <1>1, <1>2

-----------------------------------------------------------------------------
LEMMA InitIInv == Init => IInv
<1> SUFFICES ASSUME Init PROVE IInv
  OBVIOUS
<1>1. calls = <<>> /\ Len(calls) = 0 /\ busy = 0 /\ pending = {} /\ cur = 1 /\ pc = "load"
  BY DEF Init
<1>2. \A i \in Tests : ~MayRun(i) /\ ~Over(i)
  BY <1>1, BoundsAssumption DEF MayRun, Queued, Over, Tests
<1>3. Typing
  BY <1>1, BoundsAssumption DEF Init, Typing, Tests
<1>4. OnePlace
  BY <1>1, <1>2 DEF Init, OnePlace, MayRun
<1>5. Answered /\ AtRest
  BY <1>2 DEF Init, Answered, AtRest
<1> QED  BY <1>3, <1>4, <1>5 DEF IInv

\* Layers belong to the stack of a test, which no step changes.
LEMMA SameLayers ==
  ASSUME stack' = stack, NEW i \in Tests
  PROVE  HasTimeout(i)' = HasTimeout(i)
BY DEF HasTimeout, At, Layers

\* The steps of the main thread.
LEMMA MainKeeps ==
  ASSUME IInv, Main \/ StopReactor
  PROVE  IInv'
<1> USE BoundsAssumption DEF Tests
<1>0. Typing /\ OnePlace /\ Answered /\ AtRest
  BY DEF IInv
<1>1. stack' = stack
  BY DEF Main, Load, Call, Receive, Ended, Timeout, TearDown, Join, Stopped, StopReactor
<1>2. \A i \in Tests : HasTimeout(i)' = HasTimeout(i)
  BY <1>1, SameLayers
<1>3. CASE Load
  <2>1. /\ pc = "load" /\ pc' = "call" /\ cur <= N
        /\ UNCHANGED <<reactor, calls, busy, pending, q, cur, stops>>
    BY <1>3 DEF Load, threaded_reactor
  <2>2. Typing' /\ AtRest'
    BY <2>1, <1>0 DEF Typing, AtRest
  <2>3. \A i \in Tests : MayRun(i)' = MayRun(i) /\ Queued(i)' = Queued(i)
                         /\ Started(i)' = Started(i) /\ Over(i)' = Over(i)
    BY <2>1, <1>0 DEF MayRun, Queued, Started, Over, Typing
  <2>4. OnePlace'
    BY <2>1, <2>3, <1>0 DEF OnePlace
  <2>5. Answered'
    BY <1>2, <2>3, <1>0 DEF Answered
  <2> QED  BY <2>2, <2>4, <2>5 DEF IInv
<1>4. CASE Call
  <2>1. /\ pc = "call" /\ pc' = "wait" /\ calls' = Append(calls, cur)
        /\ UNCHANGED <<reactor, busy, pending, q, cur, stops>>
    BY <1>4 DEF Call
  <2>2. cur \in Tests /\ calls \in Seq(0..N) /\ ~Started(cur) /\ ~MayRun(cur) /\ q[cur] = <<>>
    BY <2>1, <1>0 DEF Typing, OnePlace, Started
  <2>3. \A k \in 1..Len(calls) : calls[k] # cur
    BY <2>2 DEF MayRun, Queued
  <2>4. /\ calls' \in Seq(0..N)
        /\ \A i \in Tests : Queued(i)' => i = cur \/ Queued(i)
        /\ \A k, l \in 1..Len(calls') : calls'[k] = calls'[l] /\ calls'[k] # 0 => k = l
    BY <2>1, <2>2, <2>3, <1>0, AppendElements DEF OnePlace, Queued
  <2>5. Typing' /\ AtRest'
    BY <2>1, <2>4, <1>0 DEF Typing, AtRest
  <2>6. \A i \in Tests : /\ MayRun(i)' => i = cur \/ MayRun(i)
                         /\ Started(i) => Started(i)'
                         /\ Started(i)' => i = cur \/ Started(i)
                         /\ Over(i)' = Over(i)
    BY <2>1, <2>4, <1>0 DEF MayRun, Started, Over, Typing
  <2>7. Started(cur)' /\ ~Over(cur)'
    BY <2>1, <2>2 DEF Started, Over
  <2>8. busy # cur /\ cur \notin pending
    BY <2>2 DEF MayRun
  <2>9. OnePlace'
    BY <2>1, <2>2, <2>4, <2>6, <2>7, <2>8, <1>0 DEF OnePlace
  <2>10. Answered'
    BY <1>2, <2>1, <2>6, <2>7, <1>0 DEF Answered
  <2> QED  BY <2>5, <2>9, <2>10 DEF IInv
<1>5. ASSUME NEW late \in BOOLEAN, Receive(late)
      PROVE  IInv'
  <2>1. /\ pc = "wait" /\ pc' = "teardown" /\ q[cur] # <<>>
        /\ q' = [q EXCEPT ![cur] = Tail(@)]
        /\ UNCHANGED <<reactor, calls, busy, pending, cur, stops>>
    BY <1>5 DEF Receive, Ended, QueueOf, reactorVars
  <2>2. cur \in Tests /\ ~MayRun(cur)
    BY <2>1, <1>0 DEF Typing, OnePlace
  <2>3. Typing' /\ AtRest'
    BY <2>1, <1>0 DEF Typing, AtRest
  <2>4. \A i \in Tests : /\ MayRun(i)' = MayRun(i) /\ Queued(i)' = Queued(i)
                         /\ Started(i)' = Started(i)
                         /\ Over(i)' => i = cur \/ Over(i)
                         /\ i # cur => q'[i] = q[i]
    BY <2>1, <1>0 DEF MayRun, Queued, Started, Over, Typing
  <2>5. Started(cur)
    BY <2>1 DEF Started
  <2>6. OnePlace'
    BY <2>1, <2>2, <2>4, <2>5, <1>0 DEF OnePlace
  <2>7. Answered'
    BY <1>2, <2>2, <2>4, <1>0 DEF Answered
  <2> QED  BY <2>3, <2>6, <2>7 DEF IInv
<1>6. CASE Timeout
  <2>1. /\ pc = "wait" /\ pc' = "teardown" /\ HasTimeout(cur)
        /\ UNCHANGED <<reactor, calls, busy, pending, q, cur, stops>>
    BY <1>6 DEF Timeout, Ended, reactorVars
  <2>2. Typing' /\ AtRest'
    BY <2>1, <1>0 DEF Typing, AtRest
  <2>3. \A i \in Tests : /\ MayRun(i)' = MayRun(i) /\ Queued(i)' = Queued(i)
                         /\ Started(i)' = Started(i)
                         /\ Over(i)' => i = cur \/ Over(i)
    BY <2>1, <1>0 DEF MayRun, Queued, Started, Over, Typing
  <2>4. OnePlace'
    BY <2>1, <2>3, <1>0 DEF OnePlace
  <2>5. Answered'
    BY <1>2, <2>1, <2>3, <1>0 DEF Answered
  <2> QED  BY <2>2, <2>4, <2>5 DEF IInv
<1>7. CASE TearDown
  <2>1. /\ pc = "teardown" /\ pc' \in {"done", "load"} /\ cur' = cur + 1
        /\ UNCHANGED <<reactor, calls, busy, pending, q, stops>>
    BY <1>7 DEF TearDown, reactorVars
  <2>2. Typing' /\ AtRest'
    BY <2>1, <1>0 DEF Typing, AtRest
  <2>3. \A i \in Tests : /\ MayRun(i)' = MayRun(i) /\ Queued(i)' = Queued(i)
                         /\ Started(i)' = Started(i) /\ Over(i)' = Over(i)
    BY <2>1, <1>0 DEF MayRun, Queued, Started, Over, Typing
  <2>4. OnePlace'
    BY <2>1, <2>3, <1>0 DEF OnePlace
  <2>5. Answered'
    BY <1>2, <2>3, <1>0 DEF Answered
  <2> QED  BY <2>2, <2>4, <2>5 DEF IInv
<1>8. CASE StopReactor
  <2>1. /\ pc = "load" /\ pc' = "join" /\ stops' = stops + 1 /\ calls' = Append(calls, 0)
        /\ UNCHANGED <<reactor, busy, pending, q, cur>>
    BY <1>8 DEF StopReactor
  <2>2. /\ calls' \in Seq(0..N)
        /\ \A i \in Tests : Queued(i)' => Queued(i)
        /\ \A k, l \in 1..Len(calls') : calls'[k] = calls'[l] /\ calls'[k] # 0 => k = l
    BY <2>1, <1>0, AppendElements DEF Typing, OnePlace, Queued
  <2>3. Typing' /\ AtRest'
    BY <2>1, <2>2, <1>0 DEF Typing, AtRest
  <2>4. \A i \in Tests : /\ MayRun(i)' => MayRun(i)
                         /\ Started(i)' = Started(i) /\ Over(i)' = Over(i)
    BY <2>1, <2>2, <1>0 DEF MayRun, Started, Over, Typing
  <2>5. OnePlace'
    BY <2>1, <2>2, <2>4, <1>0 DEF OnePlace
  <2>6. Answered'
    BY <1>2, <2>4, <1>0 DEF Answered
  <2> QED  BY <2>3, <2>5, <2>6 DEF IInv
<1>9. CASE Join
  <2>1. /\ pc = "join" /\ pc' = "load" /\ reactor # "running" /\ pending' = {}
        /\ UNCHANGED <<reactor, calls, busy, q, cur, stops>>
    BY <1>9 DEF Join, Stopped
  <2>2. Typing' /\ AtRest'
    BY <2>1, <1>0 DEF Typing, AtRest
  <2>3. \A i \in Tests : /\ MayRun(i)' => MayRun(i)
                         /\ Queued(i)' = Queued(i)
                         /\ Started(i)' = Started(i) /\ Over(i)' = Over(i)
    BY <2>1, <1>0 DEF MayRun, Queued, Started, Over, Typing
  <2>4. OnePlace'
    BY <2>1, <2>3, <1>0 DEF OnePlace
  <2>5. Answered'
    BY <1>2, <2>3, <1>0 DEF Answered
  <2> QED  BY <2>2, <2>4, <2>5 DEF IInv
<1> QED  BY <1>3, <1>4, <1>5, <1>6, <1>7, <1>8, <1>9 DEF Main

\* The steps of the reactor thread.
LEMMA ReactorKeeps ==
  ASSUME IInv, Reactor
  PROVE  IInv'
<1> USE BoundsAssumption DEF Tests
<1>0. Typing /\ OnePlace /\ Answered /\ AtRest
  BY DEF IInv
<1>1. stack' = stack /\ cur' = cur /\ pc' = pc /\ stops' = stops
  BY DEF Reactor, Begin, Finish, CallBack
<1>2. \A i \in Tests : /\ HasTimeout(i)' = HasTimeout(i)
                       /\ Started(i)' = Started(i) /\ Over(i)' = Over(i)
  BY <1>1, SameLayers DEF Started, Over
<1>3. CASE Begin
  <2>1. /\ reactor = "running" /\ busy = 0 /\ calls # <<>>
        /\ calls' = Tail(calls) /\ busy' = Head(calls)
        /\ reactor' = IF Head(calls) = 0 THEN "stopped" ELSE reactor
        /\ pending' = pending /\ q' = q
    BY <1>3 DEF Begin
  <2>2. /\ busy' \in 0..N /\ calls' \in Seq(0..N)
        /\ \A i \in Tests : busy' = i => Queued(i)
        /\ \A i \in Tests : Queued(i)' => i # busy' /\ Queued(i)
        /\ \A k, l \in 1..Len(calls') : calls'[k] = calls'[l] /\ calls'[k] # 0 => k = l
    <3>1. calls \in Seq(0..N) /\ \A k, l \in 1..Len(calls) : calls[k] = calls[l] /\ calls[k] # 0 => k = l
      BY <1>0 DEF Typing, OnePlace
    <3>2. /\ Head(calls) \in 0..N /\ Tail(calls) \in Seq(0..N)
          /\ \E k \in 1..Len(calls) : calls[k] = Head(calls)
          /\ \A i \in 1..N : (\E k \in 1..Len(Tail(calls)) : Tail(calls)[k] = i) =>
               i # Head(calls) /\ \E k \in 1..Len(calls) : calls[k] = i
          /\ \A k, l \in 1..Len(Tail(calls)) :
               Tail(calls)[k] = Tail(calls)[l] /\ Tail(calls)[k] # 0 => k = l
      BY <2>1, <3>1, TailElements
    <3> QED BY <2>1, <3>2 DEF Queued
  <2>3. Typing' /\ AtRest'
    BY <1>1, <2>1, <2>2, <1>0 DEF Typing, AtRest
  <2>4. \A i \in Tests : MayRun(i)' => MayRun(i)
    BY <2>1, <2>2 DEF MayRun
  <2>5. OnePlace'
    BY <1>2, <2>1, <2>2, <2>4, <1>0 DEF OnePlace
  <2>6. Answered'
    BY <1>2, <2>4, <1>0 DEF Answered
  <2> QED  BY <2>3, <2>5, <2>6 DEF IInv
<1>4. ASSUME NEW late \in BOOLEAN, Finish(late)
      PROVE  IInv'
  <2>1. busy \in Tests /\ busy' = 0 /\ calls' = calls /\ reactor' = reactor
    BY <1>4, <1>0 DEF Finish, Typing
  <2>2. PICK j \in Tests : busy = j
    BY <2>1
  <2>3. /\ MayRun(j) /\ ~Queued(j) /\ Started(j) /\ q[j] = <<>> /\ j \notin pending
        /\ stops > 0 => pc = "join"
    BY <2>2, <1>0 DEF MayRun, OnePlace, AtRest
  <2>4. PICK r : /\ IF Answers(r) THEN Put(j, r) ELSE UNCHANGED q
                 /\ pending' = IF r = "deferred" THEN pending \cup {j} ELSE pending
    BY <1>4, <2>2 DEF Finish
  <2>5. /\ DOMAIN q' = Tests
        /\ \A i \in Tests : i # j => q'[i] = q[i]
        /\ j \in pending' => q'[j] = <<>>
        /\ pending' \subseteq pending \cup {j}
    <3>1. CASE r = "deferred"
      BY <2>3, <2>4, <3>1, <1>0 DEF Answers, Typing
    <3>2. CASE r # "deferred"
      <4>1. pending' = pending
        BY <2>4, <3>2
      <4>2. q' = q \/ q' = [q EXCEPT ![j] = Append(@, r)]
        BY <2>4 DEF Put, QueueOf
      <4> QED  BY <2>3, <4>1, <4>2, <1>0 DEF Typing
    <3> QED  BY <3>1, <3>2
  <2>6. Typing'
    BY <1>1, <2>1, <2>5, <1>0 DEF Typing
  <2>7. AtRest'
    BY <1>1, <2>1, <2>3 DEF AtRest
  <2>8. \A i \in Tests : Queued(i)' = Queued(i) /\ (MayRun(i)' => MayRun(i))
    BY <2>1, <2>3, <2>5 DEF MayRun, Queued
  <2>9. MayRun(j)' => j \in pending'
    BY <2>1, <2>3, <2>8 DEF MayRun
  <2>10. OnePlace'
    <3>1. ASSUME NEW i \in Tests
          PROVE  /\ MayRun(i)' => Started(i)' /\ q'[i] = <<>>
                 /\ ~Started(i)' => q'[i] = <<>>
                 /\ Queued(i)' => busy' # i /\ i \notin pending'
                 /\ busy' = i => i \notin pending'
      <4>1. CASE i = j
        BY <1>2, <2>1, <2>3, <2>5, <2>8, <2>9, <4>1
      <4>2. CASE i # j
        BY <1>2, <2>1, <2>5, <2>8, <1>0, <4>2 DEF OnePlace
      <4> QED  BY <4>1, <4>2
    <3> QED  BY <3>1, <2>1, <1>0 DEF OnePlace
  <2>11. Answered'
    BY <1>2, <2>8, <1>0 DEF Answered
  <2> QED  BY <2>6, <2>7, <2>10, <2>11 DEF IInv
<1>5. ASSUME NEW j \in Tests, CallBack(j)
      PROVE  IInv'
  <2>1. /\ j \in pending /\ pending' = pending \ {j} /\ busy = 0 /\ busy' = 0
        /\ calls' = calls /\ reactor' = reactor
    BY <1>5 DEF CallBack
  <2>2. DOMAIN q' = Tests /\ \A i \in Tests : i # j => q'[i] = q[i]
    <3>1. q' = q \/ \E r \in {"value", "error"} : q' = [q EXCEPT ![j] = Append(@, r)]
      BY <1>5 DEF CallBack, Put, QueueOf, Bodies, Asynchronous
    <3> QED  BY <3>1, <1>0 DEF Typing
  <2>3. Started(j) /\ ~Queued(j)
    BY <2>1, <1>0 DEF MayRun, OnePlace
  <2>4. Typing' /\ AtRest'
    BY <1>1, <2>1, <2>2, <1>0 DEF Typing, AtRest
  <2>5. \A i \in Tests : /\ MayRun(i)' => MayRun(i) /\ i # j
                         /\ Queued(i)' = Queued(i)
    BY <2>1, <2>3 DEF MayRun, Queued
  <2>6. OnePlace'
    BY <1>2, <2>1, <2>2, <2>3, <2>5, <1>0 DEF OnePlace
  <2>7. Answered'
    BY <1>2, <2>5, <1>0 DEF Answered
  <2> QED  BY <2>4, <2>6, <2>7 DEF IInv
<1> QED  BY <1>3, <1>4, <1>5 DEF Reactor

LEMMA StutterKeeps == IInv /\ UNCHANGED vars => IInv'
<1> SUFFICES ASSUME IInv, UNCHANGED vars PROVE IInv'
  OBVIOUS
<1>1. /\ stack' = stack /\ reactor' = reactor /\ calls' = calls /\ busy' = busy
      /\ pending' = pending /\ q' = q /\ cur' = cur /\ pc' = pc /\ stops' = stops
  BY DEF vars, reactorVars
<1>2. \A i \in Tests : HasTimeout(i)' = HasTimeout(i)
  BY <1>1, SameLayers
<1>3. \A i \in Tests : /\ MayRun(i)' = MayRun(i) /\ Queued(i)' = Queued(i)
                       /\ Started(i)' = Started(i) /\ Over(i)' = Over(i)
  BY <1>1 DEF MayRun, Queued, Started, Over
<1>4. Typing' /\ AtRest'
  BY <1>1 DEF IInv, Typing, AtRest
<1>5. OnePlace' /\ Answered'
  BY <1>1, <1>2, <1>3 DEF IInv, OnePlace, Answered
<1> QED  BY <1>4, <1>5 DEF IInv

LEMMA Implied == IInv => NothingOutlives
BY DEF IInv, Typing, Answered, AtRest, MayRun, NothingOutlives, BodyInTest, StoppedIdle

\* The code of a test, its callbacks included, is over when its teardown begins,
\* unless its time has expired; and once stop_reactor has returned, nothing runs
\* and nothing is delayed (twistedtools.py:72): for any number of tests, any
\* decorators around each, and stop_reactor called between any of them.
THEOREM NothingRunsOn == Spec => []NothingOutlives
<1>1. IInv /\ [Next]_vars => IInv'
  BY MainKeeps, ReactorKeeps, StutterKeeps DEF Next
<1> QED  BY InitIInv, <1>1, Implied, PTL DEF Spec

-----------------------------------------------------------------------------
(* What the layers of decorators make of a result.                         *)

Results == {"value", "deferred", "error", "failed", "expired", "exit"}
Once(layers, kind) ==
  \A j, k \in 1 .. Len(layers) : layers[j].kind = kind /\ layers[k].kind = kind => j = k

\* f[n] is the result after the first n layers.
Passes(f, layers, r, late) ==
  /\ f[0] = r
  /\ \A n \in 1 .. Len(layers) : f[n] = Past(layers[n], f[n - 1], late)

LEMMA ThroughPasses ==
  ASSUME NEW D, NEW layers \in Seq(D), NEW r \in Results, NEW late \in BOOLEAN
  PROVE  \E f : Passes(f, layers, r, late) /\ Through(layers, r, late) = f[Len(layers)]
<1> PICK l \in Nat : l = Len(layers)
  OBVIOUS
<1> DEFINE Is(f) == f = [n \in 0 .. l |-> IF n = 0 THEN r ELSE Past(layers[n], f[n - 1], late)]
           step == [kx \in (1 .. l) \X Results |-> Past(layers[kx[1]], kx[2], late)]
<1>1. step \in [(1 .. l) \X Results -> Results]
  <2>1. ASSUME NEW x \in Results, NEW d PROVE Past(d, x, late) \in Results
    BY DEF Past, raises, timed, Results
  <2> QED BY <2>1
<1>2. PICK g : /\ g \in [0 .. l -> Results] /\ g[0] = r
               /\ \A k \in 1 .. l : g[k] = step[<<k, g[k - 1]>>]
  <2> HIDE DEF step
  <2>1. StepsOn(Results, r, l, step)
    BY <1>1 DEF StepsOn
  <2> QED BY <2>1, RecursionExists DEF Recurs
<1>3. \A k \in 1 .. l : g[k] = Past(layers[k], g[k - 1], late)
  <2> SUFFICES ASSUME NEW k \in 1 .. l PROVE g[k] = Past(layers[k], g[k - 1], late)
    OBVIOUS
  <2>1. <<k, g[k - 1]>> \in (1 .. l) \X Results
    BY <1>2
  <2>2. step[<<k, g[k - 1]>>] = Past(layers[k], g[k - 1], late)
    BY <2>1
  <2> QED BY <1>2, <2>2
<1>4. Is(g)
  <2>1. \A n \in 0 .. l : g[n] = IF n = 0 THEN r ELSE Past(layers[n], g[n - 1], late)
    BY <1>2, <1>3
  <2> QED BY <1>2, <2>1
<1> DEFINE c == CHOOSE f : Is(f)
<1>5. Is(c)
  <2> HIDE DEF Is
  <2> QED BY <1>4
<1>6. Through(layers, r, late) = c[Len(layers)]
  BY DEF Through
<1> HIDE DEF c
<1>7. Passes(c, layers, r, late)
  BY <1>5 DEF Passes
<1> QED BY <1>6, <1>7

\* Result r has become t, behind a raises or not, behind a timed or not.
Turned(raised, timedOut, r, t) ==
  /\ t \in Results
  /\ \/ t = "expired" /\ timedOut
     \/ ~raised /\ t = r
     \/ raised /\ \/ r = "error" /\ t = "value"
                  \/ r \in {"value", "deferred"} /\ t = "failed"
                  \/ r \in {"failed", "expired", "exit"} /\ t = r

LEMMA ThroughTurns ==
  ASSUME NEW D, NEW layers \in Seq(D), NEW r \in Results, NEW late \in BOOLEAN,
         \A k \in 1 .. Len(layers) : layers[k].kind \in {"raises", "timed"},
         Once(layers, "raises")
  PROVE  Turned(Has(layers, "raises"), Has(layers, "timed"), r, Through(layers, r, late))
<1> PICK l \in Nat : l = Len(layers)
  OBVIOUS
<1> PICK f : Passes(f, layers, r, late) /\ Through(layers, r, late) = f[l]
  BY ThroughPasses
<1> DEFINE In(n, kind) == \E k \in 1 .. n : layers[k].kind = kind
           Good(n) == Turned(In(n, "raises"), In(n, "timed"), r, f[n])
           I == {n \in Nat : n <= l => Good(n)}
<1>1. 0 \in I
  <2>1. f[0] = r /\ ~In(0, "raises")
    BY DEF Passes
  <2> QED BY <2>1 DEF Turned
<1>2. ASSUME NEW n \in Nat, n \in I PROVE n + 1 \in I
  <2> HIDE DEF Good
  <2> SUFFICES ASSUME n + 1 <= l PROVE Good(n + 1)
    OBVIOUS
  <2>0. n + 1 \in 1 .. l /\ (n + 1) - 1 = n /\ Good(n)
    BY <1>2
  <2> HIDE DEF I
  <2> USE DEF Good
  <2>1. Good(n) /\ f[n + 1] = Past(layers[n + 1], f[n], late)
    BY <2>0 DEF Passes
  <2>2. \A kind : In(n + 1, kind) <=> In(n, kind) \/ layers[n + 1].kind = kind
    <3>1. 1 .. n + 1 = (1 .. n) \cup {n + 1}
      OBVIOUS
    <3> QED BY <3>1
  <2>3. layers[n + 1].kind \in {"raises", "timed"}
    BY <2>0
  <2>4. layers[n + 1].kind = "raises" => ~In(n, "raises")
    <3> SUFFICES ASSUME layers[n + 1].kind = "raises", NEW k \in 1 .. n, layers[k].kind = "raises"
                 PROVE  FALSE
      OBVIOUS
    <3>1. k \in 1 .. l /\ k # n + 1
      OBVIOUS
    <3> QED BY <2>0, <3>1 DEF Once
  <2> HIDE DEF In
  <2>5. CASE layers[n + 1].kind = "raises"
    BY <2>1, <2>2, <2>4, <2>5 DEF Turned, Past, raises, Results
  <2>6. CASE layers[n + 1].kind = "timed"
    BY <2>1, <2>2, <2>6 DEF Turned, Past, timed, Results
  <2> QED BY <2>3, <2>5, <2>6
<1> HIDE DEF Good
<1>3. l \in I
  <2> HIDE DEF I
  <2> QED BY <1>1, <1>2, SetInduction
<1>4. Good(l)
  BY <1>3
<1>5. /\ Has(layers, "raises") <=> In(l, "raises")
      /\ Has(layers, "timed") <=> In(l, "timed")
  BY DEF Has
<1> QED BY <1>4, <1>5 DEF Good, Turned

-----------------------------------------------------------------------------
(* What a stack of decorators makes of a function.                         *)

Builds(f, s) ==
  f[0] = Plain /\ \A n \in 1 .. Len(s) : f[n] = Decorate(f[n - 1], s[n])
Names(g, s) ==
  g[0] = <<>> /\ \A n \in 1 .. Len(s) : g[n] = Named(g[n - 1], s[n])

NameSet(s) == {d.name : d \in ToSet(s)}
Functions(s) ==
  [setup : Seq(NameSet(s)), teardown : Seq(NameSet(s)), layers : Seq(ToSet(s))]

LEMMA DecorateTypes ==
  ASSUME NEW s \in Stacks, NEW d \in ToSet(s), NEW f \in Functions(s)
  PROVE  /\ Decorate(f, d) \in Functions(s)
         /\ d.kind = "with_setup" =>
              /\ Decorate(f, d).setup = <<d.name>> \o f.setup
              /\ Decorate(f, d).teardown = Append(f.teardown, d.name)
              /\ Decorate(f, d).layers = f.layers
         /\ d.kind # "with_setup" =>
              /\ Decorate(f, d).setup = f.setup /\ Decorate(f, d).teardown = f.teardown
              /\ Decorate(f, d).layers = Append(f.layers, d)
<1>a. PICK S, T : S = Seq(NameSet(s)) /\ T = Seq(ToSet(s))
  OBVIOUS
<1>1. f \in [setup : S, teardown : S, layers : T] /\ Functions(s) = [setup : S, teardown : S, layers : T]
  BY <1>a DEF Functions
<1>b. PICK a, b, c : a = <<d.name>> \o f.setup /\ b = Append(f.teardown, d.name) /\ c = Append(f.layers, d)
  OBVIOUS
<1>2. a \in S /\ b \in S /\ c \in T
  <2>1. d.name \in NameSet(s)
    BY DEF NameSet
  <2>2. f.setup \in S /\ f.teardown \in S /\ f.layers \in T
    BY <1>1
  <2>3. <<d.name>> \in Seq(NameSet(s))
    BY <2>1
  <2>4. a \in S
    BY <1>a, <1>b, <2>2, <2>3, ConcatProperties
  <2> QED BY <1>a, <1>b, <2>1, <2>2, <2>4
<1>3. CASE d.kind = "with_setup"
  <2>1. Decorate(f, d) = [f EXCEPT !.setup = a, !.teardown = b]
    BY <1>b, <1>3 DEF Decorate, with_setup
  <2> PICK g : g = Decorate(f, d)
    OBVIOUS
  <2>2. g \in [setup : S, teardown : S, layers : T] /\ g.setup = a /\ g.teardown = b /\ g.layers = f.layers
    BY <1>1, <1>2, <2>1
  <2> QED BY <1>1, <1>b, <1>3, <2>2
<1>4. CASE d.kind # "with_setup"
  <2>1. Decorate(f, d) = [f EXCEPT !.layers = c]
    BY <1>b, <1>4 DEF Decorate, make_decorator
  <2> PICK g : g = Decorate(f, d)
    OBVIOUS
  <2>2. /\ g \in [setup : S, teardown : S, layers : T]
        /\ g.setup = f.setup /\ g.teardown = f.teardown /\ g.layers = c
    BY <1>1, <1>2, <2>1
  <2> QED BY <1>1, <1>b, <1>4, <2>2
<1> QED BY <1>3, <1>4

LEMMA DecoratedBuilds ==
  ASSUME NEW s \in Stacks
  PROVE  \E f : Builds(f, s) /\ Decorated(s) = f[Len(s)]
<1>0. s \in Seq(ToSet(s))
  BY StacksAssumption
<1> PICK l \in Nat : l = Len(s)
  BY <1>0
<1> DEFINE X == Functions(s)
           Is(f) == f = [n \in 0 .. l |-> IF n = 0 THEN Plain ELSE Decorate(f[n - 1], s[n])]
           step == [kx \in (1 .. l) \X X |-> Decorate(kx[2], s[kx[1]])]
<1>1. \A k \in 1 .. l : s[k] \in ToSet(s)
  BY <1>0 DEF ToSet
<1>2. step \in [(1 .. l) \X X -> X]
  <2>1. ASSUME NEW k \in 1 .. l, NEW x \in X PROVE Decorate(x, s[k]) \in X
    BY <1>1, DecorateTypes
  <2> HIDE DEF X
  <2> QED BY <2>1
<1>3. Plain \in X
  BY DEF Plain, Functions
<1> HIDE DEF X
<1>4. PICK g : /\ g \in [0 .. l -> X] /\ g[0] = Plain
               /\ \A k \in 1 .. l : g[k] = step[<<k, g[k - 1]>>]
  <2> HIDE DEF step
  <2>1. StepsOn(X, Plain, l, step)
    BY <1>2, <1>3 DEF StepsOn
  <2> QED BY <2>1, RecursionExists DEF Recurs
<1>5. \A k \in 1 .. l : g[k] = Decorate(g[k - 1], s[k])
  <2> SUFFICES ASSUME NEW k \in 1 .. l PROVE g[k] = Decorate(g[k - 1], s[k])
    OBVIOUS
  <2>1. <<k, g[k - 1]>> \in (1 .. l) \X X
    BY <1>4
  <2>2. step[<<k, g[k - 1]>>] = Decorate(g[k - 1], s[k])
    BY <2>1
  <2> QED BY <1>4, <2>2
<1>6. Is(g)
  <2>1. \A n \in 0 .. l : g[n] = IF n = 0 THEN Plain ELSE Decorate(g[n - 1], s[n])
    BY <1>4, <1>5
  <2> QED BY <1>4, <2>1
<1> DEFINE c == CHOOSE f : Is(f)
<1>7. Is(c)
  <2> HIDE DEF Is
  <2> QED BY <1>6
<1>8. Decorated(s) = c[Len(s)]
  BY DEF Decorated
<1> HIDE DEF c
<1>9. Builds(c, s)
  BY <1>7 DEF Builds
<1> QED BY <1>8, <1>9

LEMMA NamesInNames ==
  ASSUME NEW s \in Stacks
  PROVE  \E g : Names(g, s) /\ NamesIn(s) = g[Len(s)]
<1>0. s \in Seq(ToSet(s))
  BY StacksAssumption
<1> PICK l \in Nat : l = Len(s)
  BY <1>0
<1> DEFINE X == Seq(NameSet(s))
           Is(f) == f = [n \in 0 .. l |-> IF n = 0 THEN <<>> ELSE Named(f[n - 1], s[n])]
           step == [kx \in (1 .. l) \X X |-> Named(kx[2], s[kx[1]])]
<1>1. \A k \in 1 .. l : s[k].name \in NameSet(s)
  BY <1>0 DEF ToSet, NameSet
<1>2. step \in [(1 .. l) \X X -> X]
  <2>1. ASSUME NEW k \in 1 .. l, NEW x \in X PROVE Named(x, s[k]) \in X
    BY <1>1 DEF Named
  <2> HIDE DEF X
  <2> QED BY <2>1
<1>3. <<>> \in X
  OBVIOUS
<1> HIDE DEF X
<1>4. PICK g : /\ g \in [0 .. l -> X] /\ g[0] = <<>>
               /\ \A k \in 1 .. l : g[k] = step[<<k, g[k - 1]>>]
  <2> HIDE DEF step
  <2>1. StepsOn(X, <<>>, l, step)
    BY <1>2, <1>3 DEF StepsOn
  <2> QED BY <2>1, RecursionExists DEF Recurs
<1>5. \A k \in 1 .. l : g[k] = Named(g[k - 1], s[k])
  <2> SUFFICES ASSUME NEW k \in 1 .. l PROVE g[k] = Named(g[k - 1], s[k])
    OBVIOUS
  <2>1. <<k, g[k - 1]>> \in (1 .. l) \X X
    BY <1>4
  <2>2. step[<<k, g[k - 1]>>] = Named(g[k - 1], s[k])
    BY <2>1
  <2> QED BY <1>4, <2>2
<1>6. Is(g)
  <2>1. \A n \in 0 .. l : g[n] = IF n = 0 THEN <<>> ELSE Named(g[n - 1], s[n])
    BY <1>4, <1>5
  <2> QED BY <1>4, <2>1
<1> DEFINE c == CHOOSE f : Is(f)
<1>7. Is(c)
  <2> HIDE DEF Is
  <2> QED BY <1>6
<1>8. NamesIn(s) = c[Len(s)]
  BY DEF NamesIn
<1> HIDE DEF c
<1>9. Names(c, s)
  BY <1>7 DEF Names
<1> QED BY <1>8, <1>9

LEMMA ReverseAppend ==
  ASSUME NEW S, NEW s \in Seq(S), NEW x \in S
  PROVE  Reverse(Append(s, x)) = <<x>> \o Reverse(s)
<1> PICK l \in Nat : l = Len(s)
  OBVIOUS
<1> DEFINE t == Append(s, x)  u == Reverse(s)  v == <<x>> \o u
<1>1. t \in Seq(S) /\ Len(t) = l + 1 /\ t[l + 1] = x /\ \A k \in 1 .. l : t[k] = s[k]
  OBVIOUS
<1>2. u \in Seq(S) /\ Len(u) = l /\ \A k \in 1 .. l : u[k] = s[(l - k) + 1]
  BY DEF Reverse
<1>3. v \in Seq(S) /\ Len(v) = l + 1 /\ v[1] = x /\ \A k \in 2 .. l + 1 : v[k] = u[k - 1]
  <2> HIDE DEF u
  <2>1. <<x>> \in Seq(S) /\ Len(<<x>>) = 1 /\ <<x>>[1] = x
    OBVIOUS
  <2>2. /\ v \in Seq(S) /\ Len(v) = 1 + l
        /\ \A k \in 1 .. 1 + l : v[k] = IF k <= 1 THEN <<x>>[k] ELSE u[k - 1]
    BY <1>2, <2>1, ConcatProperties
  <2> QED BY <2>1, <2>2
<1> HIDE DEF t, u, v
<1>4. Reverse(t) \in Seq(S) /\ Len(Reverse(t)) = l + 1
      /\ \A k \in 1 .. l + 1 : Reverse(t)[k] = t[((l + 1) - k) + 1]
  BY <1>1 DEF Reverse
<1>5. \A k \in 1 .. l + 1 : Reverse(t)[k] = v[k]
  <2> SUFFICES ASSUME NEW k \in 1 .. l + 1 PROVE Reverse(t)[k] = v[k]
    OBVIOUS
  <2>1. CASE k = 1
    BY <1>1, <1>3, <1>4, <2>1
  <2>2. CASE k # 1
    <3>1. k \in 2 .. l + 1 /\ k - 1 \in 1 .. l /\ ((l + 1) - k) + 1 \in 1 .. l
          /\ (l - (k - 1)) + 1 = ((l + 1) - k) + 1
      BY <2>2
    <3> QED BY <1>1, <1>2, <1>3, <1>4, <3>1
  <2> QED BY <2>1, <2>2
<1>6. Reverse(t) = v
  BY <1>3, <1>4, <1>5, SeqEqual
<1> QED BY <1>6 DEF t, u, v

\* The layers are the decorators but with_setup, in order, those with names the fixtures.
Layered(s, n, layers) ==
  /\ layers \in Seq(ToSet(s))
  /\ \A k \in 1 .. Len(layers) :
       \E j \in 1 .. n : layers[k] = s[j] /\ s[j].kind # "with_setup"
  /\ (\E j \in 1 .. n : s[j].kind = "deferred") =>
       \E k \in 1 .. Len(layers) : layers[k].kind = "deferred"
  /\ \A kind : Once(s, kind) => Once(layers, kind)

LEMMA LayeredNext ==
  ASSUME NEW s \in Stacks, NEW n \in Nat, n + 1 <= Len(s), NEW layers, Layered(s, n, layers)
  PROVE  /\ s[n + 1].kind = "with_setup" => Layered(s, n + 1, layers)
         /\ s[n + 1].kind # "with_setup" => Layered(s, n + 1, Append(layers, s[n + 1]))
<1>0. s \in Seq(ToSet(s)) /\ Len(s) \in Nat /\ layers \in Seq(ToSet(s)) /\ n + 1 \in 1 .. Len(s)
  BY StacksAssumption DEF Layered
<1> PICK l \in Nat : l = Len(layers)
  BY <1>0
<1>1. 1 .. n + 1 = (1 .. n) \cup {n + 1}
  OBVIOUS
<1>2. ASSUME s[n + 1].kind = "with_setup" PROVE Layered(s, n + 1, layers)
  BY <1>1, <1>2 DEF Layered
<1>3. ASSUME s[n + 1].kind # "with_setup" PROVE Layered(s, n + 1, Append(layers, s[n + 1]))
  <2> PICK d \in ToSet(s) : d = s[n + 1]
    BY <1>0 DEF ToSet
  <2> PICK t \in Seq(ToSet(s)) : t = Append(layers, d)
    <3>1. Append(layers, d) \in Seq(ToSet(s))
      BY <1>0
    <3> QED BY <3>1, Zenon
  <2>1. Len(t) = l + 1 /\ t[l + 1] = d /\ \A k \in 1 .. l : t[k] = layers[k]
    BY <1>0
  <2>2. ASSUME NEW k \in 1 .. l + 1
        PROVE  \E j \in 1 .. n + 1 : t[k] = s[j] /\ s[j].kind # "with_setup"
    <3>1. CASE k = l + 1
      BY <1>1, <1>3, <2>1, <3>1
    <3>2. CASE k # l + 1
      <4>1. k \in 1 .. l
        BY <3>2
      <4> QED BY <1>1, <2>1, <4>1 DEF Layered
    <3> QED BY <3>1, <3>2
  <2>3. ASSUME NEW j \in 1 .. n + 1, s[j].kind = "deferred"
        PROVE  \E k \in 1 .. l + 1 : t[k].kind = "deferred"
    <3>1. CASE j = n + 1
      BY <2>1, <2>3, <3>1
    <3>2. CASE j # n + 1
      <4>1. j \in 1 .. n
        BY <3>2
      <4>2. PICK k \in 1 .. l : layers[k].kind = "deferred"
        BY <2>3, <4>1 DEF Layered
      <4> QED BY <2>1, <4>2
    <3> QED BY <3>1, <3>2
  <2>4. ASSUME NEW kind, Once(s, kind) PROVE Once(t, kind)
    <3> SUFFICES ASSUME NEW j \in 1 .. l + 1, NEW k \in 1 .. l + 1,
                        t[j].kind = kind, t[k].kind = kind
                 PROVE  j = k
      BY <2>1 DEF Once
    <3>1. ASSUME NEW m \in 1 .. l, t[m].kind = kind, d.kind = kind PROVE FALSE
      <4>1. PICK i \in 1 .. n : layers[m] = s[i]
        BY DEF Layered
      <4>2. s[i].kind = kind /\ s[n + 1].kind = kind
        BY <2>1, <3>1, <4>1
      <4>3. i \in 1 .. Len(s) /\ i # n + 1
        BY <1>0
      <4> QED BY <1>0, <2>4, <4>2, <4>3 DEF Once
    <3>2. CASE j \in 1 .. l /\ k \in 1 .. l
      <4>1. layers[j].kind = kind /\ layers[k].kind = kind
        BY <2>1, <3>2
      <4>2. Once(layers, kind)
        BY <2>4 DEF Layered
      <4> QED BY <3>2, <4>1, <4>2 DEF Once
    <3>3. CASE j = l + 1 /\ k \in 1 .. l
      BY <2>1, <3>1, <3>3
    <3>4. CASE k = l + 1 /\ j \in 1 .. l
      BY <2>1, <3>1, <3>4
    <3> QED BY <3>2, <3>3, <3>4
  <2> QED BY <2>1, <2>2, <2>3, <2>4 DEF Layered
<1> QED BY <1>2, <1>3

LEMMA StackFacts ==
  ASSUME NEW s \in Stacks
  PROVE  /\ Decorated(s).setup = Reverse(NamesIn(s)) /\ Decorated(s).teardown = NamesIn(s)
         /\ Layered(s, Len(s), Decorated(s).layers)
<1>0. s \in Seq(ToSet(s))
  BY StacksAssumption
<1> PICK l \in Nat : l = Len(s)
  BY <1>0
<1> PICK f : Builds(f, s) /\ Decorated(s) = f[l]
  BY DecoratedBuilds
<1> PICK g : Names(g, s) /\ NamesIn(s) = g[l]
  BY NamesInNames
<1> DEFINE Good(n) ==
             /\ f[n] \in Functions(s) /\ g[n] \in Seq(NameSet(s))
             /\ f[n].setup = Reverse(g[n]) /\ f[n].teardown = g[n]
             /\ Layered(s, n, f[n].layers)
           I == {n \in Nat : n <= l => Good(n)}
<1>1. 0 \in I
  <2>1. f[0] = Plain /\ g[0] = <<>>
    BY DEF Builds, Names
  <2>2. Plain \in Functions(s) /\ Plain.setup = <<>> /\ Plain.teardown = <<>> /\ Plain.layers = <<>>
    BY DEF Plain, Functions
  <2>3. Reverse(<<>>) = <<>>
    BY DEF Reverse
  <2>4. Layered(s, 0, <<>>)
    BY DEF Layered, Once
  <2>5. <<>> \in Seq(NameSet(s))
    OBVIOUS
  <2>6. Good(0)
    BY <2>1, <2>2, <2>3, <2>4, <2>5
  <2> HIDE DEF Good
  <2> QED BY <2>6
<1>2. ASSUME NEW n \in Nat, n \in I PROVE n + 1 \in I
  <2> SUFFICES ASSUME n + 1 <= l PROVE Good(n + 1)
    OBVIOUS
  <2>1. n + 1 \in 1 .. l /\ (n + 1) - 1 = n /\ Good(n)
    BY <1>2
  <2> PICK d \in ToSet(s) : d = s[n + 1]
    BY <1>0, <2>1 DEF ToSet
  <2>a. PICK h \in Functions(s) : h = f[n]
    BY <2>1
  <2>2. f[n + 1] = Decorate(h, d) /\ g[n + 1] = Named(g[n], d)
    BY <2>1, <2>a DEF Builds, Names
  <2>b. PICK y : y = Decorate(h, d)
    OBVIOUS
  <2>3. /\ y \in Functions(s)
        /\ d.kind = "with_setup" =>
             y.setup = <<d.name>> \o h.setup /\ y.teardown = Append(h.teardown, d.name) /\ y.layers = h.layers
        /\ d.kind # "with_setup" =>
             y.setup = h.setup /\ y.teardown = h.teardown /\ y.layers = Append(h.layers, d)
    BY <2>b, DecorateTypes
  <2>4. CASE d.kind = "with_setup"
    <3>1. d.name \in NameSet(s) /\ g[n + 1] = Append(g[n], d.name)
      BY <2>2, <2>4 DEF Named, NameSet
    <3>2. g[n + 1] \in Seq(NameSet(s))
      BY <2>1, <3>1
    <3>3. Reverse(g[n + 1]) = <<d.name>> \o Reverse(g[n])
      BY <2>1, <3>1, ReverseAppend
    <3>4. /\ f[n + 1].setup = <<d.name>> \o f[n].setup
          /\ f[n + 1].teardown = Append(f[n].teardown, d.name)
          /\ f[n + 1].layers = f[n].layers
      BY <2>2, <2>3, <2>4, <2>a, <2>b
    <3>5. Layered(s, n + 1, f[n + 1].layers)
      BY <2>1, <2>4, <3>4, LayeredNext
    <3> QED BY <2>1, <2>2, <2>3, <2>b, <3>1, <3>2, <3>3, <3>4, <3>5
  <2>5. CASE d.kind # "with_setup"
    <3>1. g[n + 1] = g[n]
      BY <2>2, <2>5 DEF Named
    <3>2. /\ f[n + 1].setup = f[n].setup /\ f[n + 1].teardown = f[n].teardown
          /\ f[n + 1].layers = Append(f[n].layers, d)
      BY <2>2, <2>3, <2>5, <2>a, <2>b
    <3>3. Layered(s, n + 1, f[n + 1].layers)
      BY <2>1, <2>5, <3>2, LayeredNext
    <3> QED BY <2>1, <2>2, <2>3, <2>b, <3>1, <3>2, <3>3
  <2> QED BY <2>4, <2>5
<1> HIDE DEF Good
<1>3. l \in I
  <2> HIDE DEF I
  <2> QED BY <1>1, <1>2, SetInduction
<1>4. Good(l)
  BY <1>3
<1> QED BY <1>4 DEF Good

-----------------------------------------------------------------------------
(* The answer that a test gets.                                            *)

\* No test is decorated with raises twice.
OneRaises == \A s \in Stacks : Once(s, "raises")

\* What lies inside or outside of deferred.
Part(i, p) ==
  /\ p \in Seq(ToSet(stack[i]))
  /\ \A k \in 1 .. Len(p) : p[k].kind \in {"raises", "timed"}
  /\ OneRaises => Once(p, "raises")
  /\ \A kind : Has(p, kind) => Has(Layers(i), kind)

LEMMA PartsOfLayers ==
  ASSUME stack \in [Tests -> Stacks], NEW i \in Tests
  PROVE  Part(i, Inner(i)) /\ Part(i, Outer(i))
<1> PICK s \in Stacks : s = stack[i]
  OBVIOUS
<1>0. s \in Seq(ToSet(s)) /\ Len(s) \in Nat /\ DOMAIN s = 1 .. Len(s)
  BY StacksAssumption
<1>1. Layered(s, Len(s), Layers(i))
  BY StackFacts DEF Layers, Function
<1> PICK ly \in Seq(ToSet(s)) : ly = Layers(i)
  BY <1>1 DEF Layered
<1> PICK l \in Nat : l = Len(ly)
  OBVIOUS
<1>2. DOMAIN ly = 1 .. l
  OBVIOUS
<1>3. PICK k \in 1 .. Len(s) : \A j \in 1 .. Len(s) : s[j].kind = "deferred" <=> j = k
  <2>1. PICK k \in DOMAIN s : \A j \in DOMAIN s : s[j].kind = "deferred" <=> j = k
    BY StacksAssumption, Zenon
  <2>2. k \in 1 .. Len(s) /\ \A j \in 1 .. Len(s) : s[j].kind = "deferred" <=> j = k
    BY <1>0, <2>1
  <2> QED BY <2>2
<1>4. Once(ly, "deferred") /\ \E j \in 1 .. l : ly[j].kind = "deferred"
  <2>1. Once(s, "deferred")
    BY <1>3 DEF Once
  <2> QED BY <1>1, <1>3, <2>1 DEF Layered
<1> PICK a : a = At(i)
  OBVIOUS
<1>5. a \in 1 .. l /\ ly[a].kind = "deferred"
  <2>1. \E j \in DOMAIN ly : ly[j].kind = "deferred"
    BY <1>2, <1>4
  <2> QED BY <1>2, <2>1 DEF At
<1>6. ASSUME NEW j \in 1 .. l, j # a PROVE ly[j].kind \in {"raises", "timed"}
  <2>1. ly[j].kind # "deferred"
    BY <1>4, <1>5, <1>6 DEF Once
  <2>2. PICK m \in 1 .. Len(s) : ly[j] = s[m] /\ s[m].kind # "with_setup"
    BY <1>1 DEF Layered
  <2>3. s[m].kind \in {"deferred", "raises", "timed", "with_setup"}
    BY <1>0, StacksAssumption
  <2> QED BY <2>1, <2>2, <2>3
<1>7. OneRaises => Once(ly, "raises")
  BY <1>1 DEF Layered, OneRaises
<1>8. ASSUME NEW p \in Seq(ToSet(s)), NEW x \in Nat,
             \A j \in 1 .. Len(p) : x + j \in 1 .. l /\ x + j # a /\ p[j] = ly[x + j]
      PROVE  Part(i, p)
  <2>1. \A j \in 1 .. Len(p) : p[j].kind \in {"raises", "timed"}
    BY <1>6, <1>8
  <2>2. ASSUME Once(ly, "raises") PROVE Once(p, "raises")
    <3> SUFFICES ASSUME NEW j \in 1 .. Len(p), NEW m \in 1 .. Len(p),
                        p[j].kind = "raises", p[m].kind = "raises"
                 PROVE  j = m
      BY DEF Once
    <3>1. x + j = x + m
      BY <1>8, <2>2 DEF Once
    <3> QED BY <3>1
  <2>3. ASSUME NEW kind, Has(p, kind) PROVE Has(Layers(i), kind)
    <3>1. PICK j \in 1 .. Len(p) : p[j].kind = kind
      BY <2>3 DEF Has
    <3>2. x + j \in DOMAIN ly /\ ly[x + j].kind = kind
      BY <1>2, <1>8, <3>1
    <3> QED BY <3>2 DEF Has
  <2> QED BY <1>7, <2>1, <2>2, <2>3 DEF Part
<1>9. Part(i, Inner(i))
  <2> PICK p \in Seq(ToSet(s)) : p = SubSeq(ly, 1, a - 1)
    <3>1. SubSeq(ly, 1, a - 1) \in Seq(ToSet(s))
      BY <1>5
    <3> QED BY <3>1, Zenon
  <2>1. Len(p) = a - 1 /\ \A j \in 1 .. a - 1 : p[j] = ly[j]
    BY <1>5
  <2>2. \A j \in 1 .. Len(p) : 0 + j \in 1 .. l /\ 0 + j # a /\ p[j] = ly[0 + j]
    BY <1>5, <2>1
  <2>3. 0 \in Nat
    OBVIOUS
  <2>4. Part(i, p)
    BY <1>8, <2>2, <2>3, Zenon
  <2> QED BY <2>4 DEF Inner
<1>10. Part(i, Outer(i))
  <2> PICK p \in Seq(ToSet(s)) : p = SubSeq(ly, a + 1, l)
    <3>1. SubSeq(ly, a + 1, l) \in Seq(ToSet(s))
      BY <1>5
    <3> QED BY <3>1, Zenon
  <2>1. Len(p) = l - a /\ \A j \in 1 .. l - a : p[j] = ly[a + j]
    BY <1>5, SMTT(30)
  <2>2. \A j \in 1 .. Len(p) : a + j \in 1 .. l /\ a + j # a /\ p[j] = ly[a + j]
    <3> SUFFICES ASSUME NEW j \in 1 .. Len(p)
                 PROVE  a + j \in 1 .. l /\ a + j # a /\ p[j] = ly[a + j]
      OBVIOUS
    <3>1. j \in 1 .. l - a
      BY <2>1
    <3>2. a \in Nat /\ l \in Nat /\ a <= l /\ 1 <= a
      BY <1>5
    <3>3. a + j \in 1 .. l /\ a + j # a
      BY <3>1, <3>2
    <3> QED BY <2>1, <3>1, <3>3
  <2>3. a \in Nat
    BY <1>5
  <2>4. Part(i, p)
    BY <1>8, <2>2, <2>3, Zenon
  <2> QED BY <2>4 DEF Outer
<1> QED BY <1>9, <1>10

LEMMA PartTurns ==
  ASSUME OneRaises, NEW i \in Tests, NEW p, Part(i, p), NEW r \in Results, NEW late \in BOOLEAN
  PROVE  Turned(Has(p, "raises"), Has(p, "timed"), r, Through(p, r, late))
BY ThroughTurns DEF Part

\* The reactor has put r into the queue of test i for good reason.
Given(i, r) ==
  /\ r \in {"value", "error", "failed", "expired"}
  /\ r = "value" => body[i] = "fires"
  /\ r = "error" => body[i] \in {"fails", "error"}
  /\ r = "failed" => Has(Inner(i), "raises") /\ body[i] \in Asynchronous \cup {"value"}
  /\ r = "expired" => Has(Inner(i), "timed")

Awaits(i) == q[i] = <<>> \/ \E r : q[i] = <<r>> /\ Given(i, r)

Right(i, o) ==
  /\ o \in Outcomes
  /\ o = "value" =>
       IF Has(Outer(i), "raises") THEN body[i] \in {"fails", "error"} ELSE body[i] = "fires"
  /\ o = "error" => ~Has(Outer(i), "raises") /\ body[i] \in {"fails", "error"}
  /\ o = "failed" => Has(Layers(i), "raises") /\ body[i] \in Asynchronous \cup {"value"}
  /\ o = "expired" => HasTimeout(i) \/ Has(Layers(i), "timed")

Own ==
  /\ stack \in [Tests -> Stacks] /\ body \in [Tests -> Bodies]
  /\ thread \in BOOLEAN /\ cur \in 1 .. N + 1 /\ DOMAIN outcome = Tests
  /\ \A i \in Tests : Awaits(i) /\ Right(i, outcome[i])

\* What the function of a test returns or raises, through the layers inside deferred.
LEMMA FinishGives ==
  ASSUME OneRaises, Own, NEW j \in Tests, NEW late \in BOOLEAN, body[j] # "hang", NEW r, Answers(r),
         r = Through(Inner(j), IF body[j] \in Asynchronous THEN "deferred" ELSE body[j], late)
  PROVE  Given(j, r)
<1>1. PICK b \in Results : b = IF body[j] \in Asynchronous THEN "deferred" ELSE body[j]
  BY DEF Own, Bodies, Results
<1>2. Turned(Has(Inner(j), "raises"), Has(Inner(j), "timed"), b, r)
  BY <1>1, PartsOfLayers, PartTurns DEF Own
<1> QED BY <1>1, <1>2 DEF Turned, Given, Answers, Results, Own, Bodies, Asynchronous

\* What the main thread makes of an answer, through the layers outside.
LEMMA ReceiveRight ==
  ASSUME OneRaises, Own, NEW i \in Tests, NEW late \in BOOLEAN, NEW r,
         Given(i, r) \/ (r = "expired" /\ HasTimeout(i))
  PROVE  Right(i, Through(Outer(i), r, late))
<1>0. r \in Results /\ r \in {"value", "error", "failed", "expired"}
  BY DEF Given, Results
<1> PICK t : t = Through(Outer(i), r, late)
  OBVIOUS
<1>1. Turned(Has(Outer(i), "raises"), Has(Outer(i), "timed"), r, t)
  BY <1>0, PartsOfLayers, PartTurns DEF Own
<1>2. \A kind : Has(Inner(i), kind) \/ Has(Outer(i), kind) => Has(Layers(i), kind)
  BY PartsOfLayers DEF Own, Part
<1>3. t \in Outcomes
  BY <1>0, <1>1 DEF Turned, Outcomes
<1>4. t = "expired" => HasTimeout(i) \/ Has(Layers(i), "timed")
  BY <1>0, <1>1, <1>2 DEF Turned, Given
<1>5. t = "failed" => Has(Layers(i), "raises") /\ body[i] \in Asynchronous \cup {"value"}
  BY <1>0, <1>1, <1>2 DEF Turned, Given, Asynchronous
<1>6. t = "error" => ~Has(Outer(i), "raises") /\ body[i] \in {"fails", "error"}
  BY <1>0, <1>1 DEF Turned, Given
<1>7. t = "value" =>
        IF Has(Outer(i), "raises") THEN body[i] \in {"fails", "error"} ELSE body[i] = "fires"
  BY <1>0, <1>1 DEF Turned, Given
<1> QED BY <1>3, <1>4, <1>5, <1>6, <1>7 DEF Right

LEMMA InitOwn == ASSUME Init PROVE Own
BY BoundsAssumption DEF Init, Own, Awaits, Right, Outcomes, Tests

LEMMA SameParts ==
  ASSUME stack' = stack, body' = body, NEW i \in Tests, NEW r
  PROVE  Given(i, r)' = Given(i, r) /\ Right(i, r)' = Right(i, r)
BY DEF Given, Right, Inner, Outer, Layers, At, HasTimeout

LEMMA NextOwn ==
  ASSUME OneRaises, IInv, Own, [Next]_vars
  PROVE  Own'
<1>0. /\ DOMAIN q = Tests /\ Tests \subseteq Nat /\ N \in Nat /\ cur \in Nat
      /\ \A i \in Tests : Awaits(i) /\ Right(i, outcome[i])
  BY BoundsAssumption DEF IInv, Typing, Own, Tests
<1>1. stack' = stack /\ body' = body
  BY DEF Next, Main, Reactor, vars, Load, Call, Receive, Ended, Timeout, TearDown, Join, Stopped,
     StopReactor, Begin, Finish, CallBack
<1>2. thread' \in BOOLEAN /\ cur' \in 1 .. N + 1
  <2>1. thread' \in {thread, TRUE, FALSE}
    BY DEF Next, Main, Reactor, vars, reactorVars, Load, threaded_reactor, Call, Receive, Ended,
       Timeout, TearDown, Join, Stopped, StopReactor, Begin, Finish, CallBack
  <2>2. cur' = cur \/ (cur' = cur + 1 /\ cur \in Tests)
    <3>1. TearDown => cur' = cur + 1 /\ cur \in Tests
      BY DEF TearDown, IInv, Typing
    <3> QED
      BY <3>1 DEF Next, Main, Reactor, vars, Load, Call, Receive, Ended, Timeout, Join, Stopped,
         StopReactor, Begin, Finish, CallBack
  <2>3. thread' \in BOOLEAN
    BY <2>1 DEF Own
  <2>4. cur' \in 1 .. N + 1
    BY <1>0, <2>2 DEF Own, Tests
  <2> QED BY <2>3, <2>4
<1>3. DOMAIN outcome' = Tests
  BY DEF Own, Next, Main, Reactor, vars, Load, Call, Receive, Ended, Timeout, TearDown, Join,
     Stopped, StopReactor, Begin, Finish, CallBack
<1>4. ASSUME NEW i \in Tests PROVE Right(i, outcome[i])'
  <2>1. ASSUME outcome'[i] = outcome[i] PROVE Right(i, outcome[i])'
    BY <1>0, <1>1, <2>1, SameParts DEF Right, Outer, Layers, At, HasTimeout
  <2>2. ASSUME NEW late \in BOOLEAN, NEW r, outcome' = [outcome EXCEPT ![cur] = Through(Outer(cur), r, late)],
               cur = i, Given(i, r) \/ (r = "expired" /\ HasTimeout(i))
        PROVE  Right(i, outcome[i])'
    <3> PICK t : t = Through(Outer(i), r, late)
      OBVIOUS
    <3>1. outcome'[i] = t /\ Right(i, t)
      BY <2>2, ReceiveRight DEF Own
    <3> QED BY <1>1, <3>1 DEF Right, Outer, Layers, At, HasTimeout
  <2>3. ASSUME NEW late \in BOOLEAN, Receive(late) PROVE Right(i, outcome[i])'
    <3>1. CASE cur # i
      BY <2>1, <2>3, <3>1 DEF Receive, Ended, Own
    <3>2. CASE cur = i
      <4>1. PICK r : q[i] = <<r>> /\ Given(i, r)
        BY <1>0, <2>3, <3>2 DEF Receive, QueueOf, Awaits
      <4>2. Head(q[QueueOf(cur)]) = r
        BY <3>2, <4>1 DEF QueueOf
      <4> QED BY <2>2, <2>3, <3>2, <4>1, <4>2 DEF Receive, Ended
    <3> QED BY <3>1, <3>2
  <2>4. CASE Timeout
    <3>1. CASE cur # i
      BY <2>1, <2>4, <3>1 DEF Timeout, Ended, Own
    <3>2. CASE cur = i
      BY <2>2, <2>4, <3>2 DEF Timeout, Ended
    <3> QED BY <3>1, <3>2
  <2>5. CASE outcome' = outcome
    BY <2>1, <2>5
  <2> QED
    BY <2>3, <2>4, <2>5 DEF Next, Main, Reactor, vars, Load, Call, TearDown, Join, Stopped,
       StopReactor, Begin, Finish, CallBack
<1>5. ASSUME NEW i \in Tests PROVE Awaits(i)'
  <2>1. CASE q'[i] = q[i]
    BY <1>0, <1>1, <2>1, SameParts DEF Awaits
  <2>2. ASSUME NEW r, q[i] = <<>>, q'[i] = <<r>>, Given(i, r) PROVE Awaits(i)'
    BY <1>1, <2>2, SameParts DEF Awaits
  <2>3. ASSUME NEW late \in BOOLEAN, Receive(late) PROVE Awaits(i)'
    <3>1. CASE cur # i
      BY <1>0, <2>1, <2>3, <3>1 DEF Receive, QueueOf
    <3>2. CASE cur = i
      <4>1. PICK r : q[i] = <<r>>
        BY <1>0, <2>3, <3>2 DEF Receive, QueueOf, Awaits
      <4>2. q'[i] = <<>>
        BY <1>0, <2>3, <3>2, <4>1 DEF Receive, QueueOf
      <4> QED BY <4>2 DEF Awaits
    <3> QED BY <3>1, <3>2
  <2>4. ASSUME NEW late \in BOOLEAN, Finish(late) PROVE Awaits(i)'
    <3>1. PICK j \in Tests : j = busy /\ q[j] = <<>> /\ body[j] # "hang"
      BY <2>4 DEF Finish, IInv, Typing, OnePlace, MayRun, Tests
    <3>2. PICK r : /\ r = Through(Inner(j), IF body[j] \in Asynchronous THEN "deferred"
                                                                     ELSE body[j], late)
                   /\ IF Answers(r) THEN Put(j, r) ELSE UNCHANGED q
      BY <2>4, <3>1 DEF Finish
    <3>3. CASE Answers(r) /\ i = j
      <4>1. q'[i] = <<r>>
        BY <1>0, <3>1, <3>2, <3>3 DEF Put, QueueOf
      <4> QED BY <2>2, <3>1, <3>2, <3>3, <4>1, FinishGives
    <3>4. CASE ~(Answers(r) /\ i = j)
      BY <1>0, <2>1, <3>2, <3>4 DEF Put, QueueOf
    <3> QED BY <3>3, <3>4
  <2>5. ASSUME NEW j \in Tests, CallBack(j) PROVE Awaits(i)'
    <3>1. q[j] = <<>>
      BY <2>5 DEF CallBack, IInv, OnePlace, MayRun
    <3>2. CASE i = j /\ body[j] \in {"fires", "fails"}
      <4>1. PICK r \in {"value", "error"} : Put(j, r) /\ Given(j, r)
        BY <2>5, <3>2 DEF CallBack, Given
      <4>2. q'[i] = <<r>>
        BY <1>0, <3>1, <3>2, <4>1 DEF Put, QueueOf
      <4> QED BY <2>2, <3>1, <3>2, <4>1, <4>2
    <3>3. CASE ~(i = j /\ body[j] \in {"fires", "fails"})
      BY <1>0, <2>1, <2>5, <3>3 DEF CallBack, Put, QueueOf
    <3> QED BY <3>2, <3>3
  <2>6. CASE q' = q
    BY <2>1, <2>6
  <2> QED
    BY <2>3, <2>4, <2>5, <2>6 DEF Next, Main, Reactor, vars, Load, Call, Timeout, TearDown, Join,
       Stopped, StopReactor, Begin
<1> QED BY <1>1, <1>2, <1>3, <1>4, <1>5 DEF Own

\* A test passes, fails or expires for what its own body has done and its decorators
\* make of it: not for a late answer of another test (twistedtools.py:105), for any
\* number of tests, whichever expire, and wherever each is decorated.
THEOREM AnswersAreOwn == ASSUME OneRaises PROVE Spec => []OwnAnswer
<1>1. Init => IInv /\ Own
  BY InitIInv, InitOwn
<1>2. IInv /\ Own /\ [Next]_vars => (IInv /\ Own)'
  <2>1. IInv /\ [Next]_vars => IInv'
    BY MainKeeps, ReactorKeeps, StutterKeeps DEF Next
  <2> QED BY <2>1, NextOwn
<1>3. IInv /\ Own => OwnAnswer
  <2> SUFFICES ASSUME IInv, Own PROVE OwnAnswer
    OBVIOUS
  <2>1. \A i \in Tests : Right(i, outcome[i])
    BY DEF Own
  <2>2. \A i \in Tests : Len(q[i]) <= 1
    <3>1. ASSUME NEW i \in Tests PROVE Len(q[i]) <= 1
      <4>1. CASE q[i] = <<>>
        BY <4>1
      <4>2. ASSUME NEW r, q[i] = <<r>> PROVE Len(q[i]) <= 1
        BY <4>2
      <4> QED BY <4>1, <4>2 DEF Own, Awaits
    <3> QED BY <3>1
  <2>3. TypeOK
    BY <2>1, <2>2, BoundsAssumption DEF TypeOK, Own, IInv, Typing, Right, Tests
  <2> QED BY <2>1, <2>3 DEF OwnAnswer, Right
<1> QED BY <1>1, <1>2, <1>3, PTL DEF Spec

-----------------------------------------------------------------------------
(* The fixtures of a test.                                                 *)

Logged ==
  /\ stack \in [Tests -> Stacks] /\ DOMAIN log = Tests
  /\ \A i \in Tests :
       /\ cur > i => log[i] = Function[stack[i]].setup \o Function[stack[i]].teardown
       /\ cur = i /\ pc \in {"call", "wait", "teardown"} => log[i] = Function[stack[i]].setup

LEMMA NextLogged ==
  ASSUME IInv, Logged, [Next]_vars
  PROVE  Logged'
<1>0. cur \in Nat /\ Tests \subseteq Nat /\ (pc \in {"call", "wait", "teardown"} => cur \in Tests)
  BY DEF IInv, Typing, Tests
<1>1. stack' = stack
  BY DEF Next, Main, Reactor, vars, Load, Call, Receive, Ended, Timeout, TearDown, Join, Stopped,
     StopReactor, Begin, Finish, CallBack
<1>2. CASE Load
  <2>1. /\ log' = [log EXCEPT ![cur] = Function[stack[cur]].setup] /\ cur' = cur /\ pc' = "call"
    BY <1>2 DEF Load
  <2>2. ASSUME NEW i \in Tests, cur > i PROVE i # cur /\ log'[i] = log[i]
    BY <1>0, <2>1, <2>2 DEF Logged
  <2>3. cur \in Tests => log'[cur] = Function[stack[cur]].setup
    BY <2>1 DEF Logged
  <2> QED BY <1>0, <1>1, <2>1, <2>2, <2>3 DEF Logged
<1>3. CASE TearDown
  <2>1. /\ log' = [log EXCEPT ![cur] = @ \o Function[stack[cur]].teardown]
        /\ pc = "teardown" /\ pc' \in {"done", "load"} /\ cur' = cur + 1
    BY <1>3 DEF TearDown
  <2>2. log'[cur] = Function[stack[cur]].setup \o Function[stack[cur]].teardown
    BY <1>0, <2>1 DEF Logged
  <2>3. ASSUME NEW i \in Tests, cur' > i PROVE i = cur \/ (cur > i /\ log'[i] = log[i])
    <3>1. i = cur \/ cur > i
      BY <1>0, <2>1, <2>3
    <3> QED BY <1>0, <2>1, <3>1 DEF Logged
  <2> QED BY <1>0, <1>1, <2>1, <2>2, <2>3 DEF Logged
<1>4. CASE log' = log /\ cur' = cur
           /\ (pc' \in {"call", "wait", "teardown"} => pc \in {"call", "wait", "teardown"})
  BY <1>1, <1>4 DEF Logged
<1> QED
  BY <1>2, <1>3, <1>4 DEF Next, Main, Reactor, vars, Call, Receive, Ended, Timeout, Join, Stopped,
     StopReactor, Begin, Finish, CallBack

\* Every fixture given by with_setup is called, wherever in the stack and however the
\* test ends, setups from the outside in and teardowns in the opposite order.
THEOREM FixturesInOrder == Spec => []FixturesNested
<1>1. Init => IInv /\ Logged
  <2> SUFFICES ASSUME Init PROVE Logged
    BY InitIInv
  <2>1. cur = 1 /\ pc = "load" /\ \A i \in Tests : ~(cur > i)
    BY BoundsAssumption DEF Init, Tests
  <2> QED BY <2>1 DEF Init, Logged
<1>2. IInv /\ Logged /\ [Next]_vars => (IInv /\ Logged)'
  <2>1. IInv /\ [Next]_vars => IInv'
    BY MainKeeps, ReactorKeeps, StutterKeeps DEF Next
  <2> QED BY <2>1, NextLogged
<1>3. Logged => FixturesNested
  <2> SUFFICES ASSUME Logged, NEW i \in Tests, cur > i
               PROVE  log[i] = Reverse(NamesIn(stack[i])) \o NamesIn(stack[i])
    BY DEF FixturesNested
  <2>1. /\ stack[i] \in Stacks
        /\ log[i] = Decorated(stack[i]).setup \o Decorated(stack[i]).teardown
    BY DEF Logged, Function
  <2> QED BY <2>1, StackFacts
<1> QED BY <1>1, <1>2, <1>3, PTL DEF Spec
=============================================================================
