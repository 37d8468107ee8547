------------------------------ MODULE Deferred ------------------------------
(***************************************************************************)
(* Tests that run in the thread of the Twisted reactor (twistedtools.py)   *)
(* and the decorators around them (tools/nontrivial.py).  The main thread  *)
(* hands the test to the reactor and waits for a queue of its own, perhaps *)
(* with a timeout; the reactor thread goes on with what it was given.      *)
(* Twisted: calls from other threads are run in order, one at a time, an   *)
(* exception of one is logged, and a stopped reactor cannot be run again.  *)
(***************************************************************************)
EXTENDS Integers, SequencesExt

CONSTANTS
  N,         \* number of tests, run one after the other
  Stacks,    \* stacks of decorators, innermost first, each with one deferred
  MaxStops   \* bound on the calls of stop_reactor

ASSUME BoundsAssumption == N \in Nat /\ MaxStops \in Nat

ASSUME StacksAssumption ==
  \A s \in Stacks :
    /\ s \in Seq(ToSet(s))
    /\ \A k \in DOMAIN s : s[k].kind \in {"deferred", "raises", "timed", "with_setup"}
    /\ \E k \in DOMAIN s : \A l \in DOMAIN s : s[l].kind = "deferred" <=> l = k

Tests == 1..N
\* What a test does: it returns a Deferred that fires, fails, fails with an
\* exception that is no Exception, or never answers; it returns something else,
\* raises, raises SystemExit or does not come back.
Asynchronous == {"fires", "fails", "failsExit", "never"}
Bodies == Asynchronous \cup {"value", "error", "exit", "hang"}

VARIABLES
  stack, body,      \* of each test
  reactor,          \* "running" or "stopped"
  thread,           \* whether _twisted_thread is set
  calls,            \* given to the reactor by callFromThread: tests, or 0 to stop
  busy,             \* the test whose code the reactor runs, or 0
  pending,          \* tests whose Deferred has not been called back
  q,                \* q[i]: the queue of test i
  cur, pc, stops,   \* main thread
  outcome,          \* of each test
  log               \* log[i]: the fixtures of test i, in the order they were called

reactorVars == <<reactor, thread, calls, busy, pending>>
vars == <<stack, body, reactorVars, q, cur, pc, stops, outcome, log>>

-----------------------------------------------------------------------------
(* Decorators.                                                             *)

\* A function: its attributes and the layers of code around the test.
Plain == [setup |-> <<>>, teardown |-> <<>>, layers |-> <<>>]

make_decorator(func, layer) == [func EXCEPT !.layers = Append(@, layer)]

\* Mutant of with_setup: the teardown comes before the older one too.
with_setup_first(func, name) == [func EXCEPT !.setup = <<name>> \o @, !.teardown = <<name>> \o @]
with_setup(func, name) == [func EXCEPT !.setup = <<name>> \o @, !.teardown = Append(@, name)]

Decorate(func, d) ==
  IF d.kind = "with_setup" THEN with_setup(func, d.name) ELSE make_decorator(func, d)
Decorated(decorators) ==
  LET first[n \in 0 .. Len(decorators)] ==
        IF n = 0 THEN Plain ELSE Decorate(first[n - 1], decorators[n])
  IN  first[Len(decorators)]

Function == [s \in Stacks |-> Decorated(s)]
Layers(i) == Function[stack[i]].layers
At(i) == CHOOSE k \in DOMAIN Layers(i) : Layers(i)[k].kind = "deferred"
Inner(i) == SubSeq(Layers(i), 1, At(i) - 1)
Outer(i) == SubSeq(Layers(i), At(i) + 1, Len(Layers(i)))
HasTimeout(i) == Layers(i)[At(i)].timeout

\* What a layer makes of how the code inside it ended.
raises(r) == CASE r = "error" -> "value"
               [] r \in {"value", "deferred"} -> "failed"
               [] OTHER -> r
timed(r, late) == IF late /\ r \in {"value", "deferred"} THEN "expired" ELSE r
Past(layer, r, late) == IF layer.kind = "raises" THEN raises(r) ELSE timed(r, late)
Through(layers, result, late) ==
  LET past[n \in 0 .. Len(layers)] ==
        IF n = 0 THEN result ELSE Past(layers[n], past[n - 1], late)
  IN  past[Len(layers)]

-----------------------------------------------------------------------------
(* The main thread.                                                        *)

\* Mutant of QueueOf: all tests share one queue.
OneQueue(i) == 1
QueueOf(i) == i
Put(i, r) == q' = [q EXCEPT ![QueueOf(i)] = Append(@, r)]

\* threaded_reactor: a thread is started unless there is one.  The reactor has
\* run before, so that such a thread ends at once with ReactorNotRestartable.
threaded_reactor ==
  /\ thread' = TRUE
  /\ UNCHANGED <<reactor, calls, busy, pending>>

\* A test is loaded, which applies its decorators, and its setups are called.
Load ==
  /\ pc = "load"
  /\ cur <= N
  /\ threaded_reactor
  /\ log' = [log EXCEPT ![cur] = Function[stack[cur]].setup]
  /\ pc' = "call"
  /\ UNCHANGED <<stack, body, q, cur, stops, outcome>>

Call ==
  /\ pc = "call"
  /\ calls' = Append(calls, cur)
  /\ pc' = "wait"
  /\ UNCHANGED <<stack, body, reactor, thread, busy, pending, q, cur, stops, outcome, log>>

Ended(result, late) ==
  /\ outcome' = [outcome EXCEPT ![cur] = Through(Outer(cur), result, late)]
  /\ pc' = "teardown"
  /\ UNCHANGED <<stack, body, reactorVars, cur, stops, log>>

\* q.get returns: None, or the exception to raise.
Receive(late) ==
  /\ pc = "wait"
  /\ q[QueueOf(cur)] # <<>>
  /\ q' = [q EXCEPT ![QueueOf(cur)] = Tail(@)]
  /\ Ended(Head(q[QueueOf(cur)]), late)

\* Mutant of Timeout: the reactor counts the time.
TimeoutByReactor ==
  /\ pc = "wait" /\ HasTimeout(cur) /\ q[QueueOf(cur)] = <<>>
  /\ reactor = "running" /\ busy = 0
  /\ Ended("expired", TRUE)
  /\ UNCHANGED q
\* q.get raises Empty.
Timeout ==
  /\ pc = "wait"
  /\ HasTimeout(cur)
  /\ q[QueueOf(cur)] = <<>>
  /\ Ended("expired", TRUE)
  /\ UNCHANGED q

TearDown ==
  /\ pc = "teardown"
  /\ log' = [log EXCEPT ![cur] = @ \o Function[stack[cur]].teardown]
  /\ cur' = cur + 1
  /\ pc' = IF cur = N THEN "done" ELSE "load"
  /\ UNCHANGED <<stack, body, reactorVars, q, stops, outcome>>

\* stop_reactor, called between two tests by a fixture of their module.
StopReactor ==
  /\ pc = "load"
  /\ stops < MaxStops
  /\ stops' = stops + 1
  /\ calls' = Append(calls, 0)
  /\ pc' = "join"
  /\ UNCHANGED <<stack, body, reactor, thread, busy, pending, q, cur, outcome, log>>

Stopped ==
  /\ pending' = {}
  /\ thread' = FALSE
  /\ pc' = "load"
  /\ UNCHANGED <<stack, body, reactor, calls, busy, q, cur, stops, outcome, log>>

\* Mutant of Join: stop_reactor does not wait for the thread.
JoinAtOnce == pc = "join" /\ Stopped
\* The first thread has ended; then the delayed calls are cancelled.
Join == pc = "join" /\ reactor # "running" /\ Stopped

-----------------------------------------------------------------------------
(* The reactor thread.                                                     *)

\* The next call is g of a test, or stop.
Begin ==
  /\ reactor = "running"
  /\ busy = 0
  /\ calls # <<>>
  /\ calls' = Tail(calls)
  /\ busy' = Head(calls)
  /\ reactor' = IF Head(calls) = 0 THEN "stopped" ELSE reactor
  /\ UNCHANGED <<stack, body, thread, pending, q, cur, pc, stops, outcome, log>>

\* What g puts into the queue at once; SystemExit and a test that returns no
\* Deferred raise in the reactor thread.
Answers(r) == r \notin {"deferred", "value", "exit"}

\* g has called the function.
Finish(late) ==
  /\ busy # 0
  /\ body[busy] # "hang"
  /\ LET r == Through(Inner(busy), IF body[busy] \in Asynchronous THEN "deferred" ELSE body[busy], late)
     IN /\ IF Answers(r) THEN Put(busy, r) ELSE UNCHANGED q
        /\ pending' = IF r = "deferred" THEN pending \cup {busy} ELSE pending
  /\ busy' = 0
  /\ UNCHANGED <<stack, body, reactor, thread, calls, cur, pc, stops, outcome, log>>

\* The Deferred is called back, maybe long after its test has expired.
CallBack(i) ==
  /\ reactor = "running"
  /\ busy = 0
  /\ i \in pending
  /\ body[i] # "never"
  /\ pending' = pending \ {i}
  /\ \/ body[i] = "fires" /\ Put(i, "value")
     \/ body[i] = "fails" /\ Put(i, "error")
     \/ body[i] = "failsExit" /\ UNCHANGED q
  /\ UNCHANGED <<stack, body, reactor, thread, calls, busy, cur, pc, stops, outcome, log>>

-----------------------------------------------------------------------------
\* Importing twistedtools has started the reactor.
Init ==
  /\ stack \in [Tests -> Stacks] /\ body \in [Tests -> Bodies]
  /\ reactor = "running" /\ thread = TRUE /\ calls = <<>> /\ busy = 0 /\ pending = {}
  /\ q = [i \in Tests |-> <<>>]
  /\ cur = 1 /\ pc = "load" /\ stops = 0
  /\ outcome = [i \in Tests |-> "none"] /\ log = [i \in Tests |-> <<>>]

Main == Load \/ Call \/ (\E late \in BOOLEAN : Receive(late)) \/ Timeout \/ TearDown \/ Join
Reactor == Begin \/ (\E late \in BOOLEAN : Finish(late)) \/ \E i \in Tests : CallBack(i)
Next == Main \/ StopReactor \/ Reactor

\* Both threads are scheduled, the clock runs, and a Deferred that is going to
\* be called back is called back in the end.
Spec == Init /\ [][Next]_vars /\ WF_vars(Main) /\ WF_vars(Begin)
             /\ WF_vars(\E late \in BOOLEAN : Finish(late))
             /\ \A i \in Tests : WF_vars(CallBack(i))

-----------------------------------------------------------------------------
(* Properties.                                                             *)

Outcomes == {"none", "value", "error", "failed", "expired"}

\* Type invariant; at most one answer is ever left in a queue.
TypeOK ==
  /\ reactor \in {"running", "stopped"} /\ thread \in BOOLEAN
  /\ busy \in Tests \cup {0} /\ pending \subseteq Tests
  /\ \A i \in Tests : Len(q[i]) <= 1 /\ outcome[i] \in Outcomes
  /\ pc \in {"load", "call", "wait", "teardown", "join", "done"} /\ cur \in 1..N + 1

Has(layers, kind) == \E k \in DOMAIN layers : layers[k].kind = kind

\* A test ends with what its own body has done, whatever earlier tests that
\* expired still do in the reactor thread (twistedtools.py:105, "If the callback
\* is triggered, the test has passed.  If the errback is triggered or the timeout
\* expires, the test has failed"), turned round by raises if that is outside.
OwnAnswer ==
  /\ TypeOK
  /\ \A i \in Tests :
       /\ outcome[i] = "value" =>
            IF Has(Outer(i), "raises") THEN body[i] \in {"fails", "error"} ELSE body[i] = "fires"
       /\ outcome[i] = "error" => ~Has(Outer(i), "raises") /\ body[i] \in {"fails", "error"}
       /\ outcome[i] = "failed" => Has(Layers(i), "raises") /\ body[i] \in Asynchronous \cup {"value"}
       /\ outcome[i] = "expired" => HasTimeout(i) \/ Has(Layers(i), "timed")

\* When nothing of the test may run any more.
Over(i) == cur > i \/ (cur = i /\ pc = "teardown")
BodyInTest == \A i \in Tests : Over(i) /\ ~HasTimeout(i) => busy # i /\ i \notin pending
StoppedIdle == stops > 0 /\ pc # "join" => reactor = "stopped" /\ busy = 0 /\ pending = {}

\* The code of a test, and callbacks still to come, do not outlive it unless its
\* time has expired: nothing of it runs beside its teardown or another test.  When
\* stop_reactor has returned, the reactor does nothing more, and no call is delayed
\* (twistedtools.py:72, "Stop the reactor and join the reactor thread until it stops").
NothingOutlives == BodyInTest /\ StoppedIdle

\* The names that with_setup is given in a stack, from the inside out.
Named(names, d) == IF d.kind = "with_setup" THEN Append(names, d.name) ELSE names
NamesIn(s) ==
  LET first[n \in 0 .. Len(s)] == IF n = 0 THEN <<>> ELSE Named(first[n - 1], s[n])
  IN  first[Len(s)]

\* Every fixture given by with_setup is called, at any place in the stack, the
\* setups from the outside in and the teardowns in the opposite order.
FixturesNested == \A i \in Tests : cur > i => log[i] = Reverse(NamesIn(stack[i])) \o NamesIn(stack[i])

\* A test with a timeout ends, even when the reactor is stopped, busy for ever
\* with an earlier test, or gets no Deferred.
TimedTestsEnd == \A i \in Tests : (pc = "wait" /\ cur = i /\ HasTimeout(i)) ~> outcome[i] # "none"

=============================================================================
