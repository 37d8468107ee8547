# A TLA+ model of nose

nose collects tests (functions, classes, `unittest.TestCase`s, generators,
doctests) from directories and modules, wraps each in a `nose.case.Test`, groups
them into suites that run the fixtures of packages, modules and classes around
them, and runs the suites: in the process itself, or with `--processes=N` in worker
processes that are fed addresses through a queue. Plugins are called at every
step.

This directory models the program by parts. It holds TLA+ modules, configurations
for TLC, and modules of theorems that the TLA+ proof system checks. `PROJECT.json`
says which lines of the source each definition stands for (`map`), what each run
checks (`runs`), which change of which definition breaks each property
(`mutants`), and where the code can go wrong in ways a test hardly reaches
(`hazards`).

    tlc -workers 2 -config CS_fixtures.cfg MCContextSuite    # model-check
    tlapm ContextSuiteProofs.tla                             # check the proofs


## 1. The system

All paths are below `nose/`.

| component | state it keeps | operations | what is hard in it |
|---|---|---|---|
| **Multiprocess runner** `plugins/multiprocess.py` | `testQueue`, `resultQueue`, `tasks`, `workers`, `shouldStop`, `thrownError`; per worker, in shared memory, `currentaddr`, `currentstart`, `keyboardCaught` | `run`, `startProcess`, `consolidate`, `__runner`, signal handlers | N + 1 processes; SIGILL and ctrl-c at any statement; timeouts, terminations and restarts that race results; processes that die |
| **Suites and fixtures** `suite.py` `ContextSuite`; `NoSharedFixtureContextSuite` | `was_setup`, `was_torndown` of a suite; `was_setup`, `was_torndown`, `context` of the factory; `result.shouldStop` | `run`, `setUp`, `setupContext`, `tearDown`, `teardownContext` | recursion over a tree in which one context occurs in several places; fixtures and tests that fail, are stopped, interrupted or timed out in any of them |
| **Suite factory** `suite.py` `ContextSuiteFactory` | none of its own (fills `context`, `suites`) | `__call__`, `ancestry`, `findContext`, `makeSuite`, `mixedSuites` | recursion; the result depends on the order of the command line |
| **Multiprocess dispatch** `plugins/multiprocess.py` | `to_teardown`, `can_split` of contexts, `shared_fixtures` | `collect`, `nextBatch`, `addtask`, `address`, `checkCanSplit`, `sharedFixtures` | what is a task decides which fixtures run in the parent and which in every worker |
| **Loader** `loader.py`, `case.py` | visited paths; `sys.path` | `loadTestsFromName(s)`, `...Dir`, `...Module`, `...Generator`, `...TestClass`, `makeTest` | lazy generators with side effects; the same thing reached by several names |
| **Isolation, importer** `plugins/isolate.py`, `importer.py` | stack of `sys.modules` copies; `sys.modules` | `beforeContext`, `afterContext`, `loadTestsFromNames`; `importFromDir` | generators pulled ahead; failing imports |
| **Selector, attributes** `selector.py`, `plugins/attrib.py`, `allmodules.py` | none | `wantFile`, `wantDirectory`, ... | precedence of patterns, plugins and exclusions |
| **Names** `util.py`, `selector.py` `TestAddress` | none | `split_test_name`, `test_address`, `getpackage`, ... | a name goes from the command line to the loader, and from the parent to a worker |
| **Doctests, collect-only** `plugins/doctests.py`, `collect.py` | the suites collected | `loadTestsFromModule`, `loadTestsFromFile`, `prepareTestLoader` | they compete with the loader for the same modules |
| **Test wrapper, result proxy** `case.py`, `proxy.py` | `passed`, `capturedOutput`; the wrapped result | `Test.run`, `beforeTest`, `afterTest`, `addError`, ... | exceptions of plugins; `--stop` |
| **Results, error classes** `result.py`, `plugins/errorclass.py`, `skip.py`, `deprecated.py` | `errors`, `failures`, `errorClasses` | `addError`, `wasSuccessful`, `printSummary` | which list an exception ends in |
| **Captures** `plugins/capture.py`, `logcapture.py`, `xunit.py` | stacks of `sys.stdout`, handlers, counters | `begin`, `beforeTest`, `afterTest`, `finalize` | two stacks of one global, failing fixtures in between |
| **Test ids** `plugins/testid.py` | ids, tests, failed; a file | `configure`, `loadTestsFromNames`, `finalize` | a file that survives runs, also interrupted ones |
| **Deferred tests** `twistedtools.py`, `tools/nontrivial.py` | the reactor thread, a queue per test | `threaded_reactor`, `stop_reactor`, `deferred`; `with_setup`, `timed`, `raises` | a test thread, a reactor thread and a timeout |
| **Program, plugin manager** `core.py`, `plugins/manager.py`, `base.py`, `builtin.py` | plugins, cached proxies, the step of the program | `TestProgram`, `collector`, `loadPlugins`, `addPlugin`, `PluginProxy.call` | call kinds; conflicts, replaced plugins; a second process that builds the list anew |
| **Configuration** `config.py`, `commands.py` | options and their places | `configure`, `configureLogging`, option parsing in two passes | five places that set one option |
| Debugging, failure detail, coverage, profiler; `plugintest`, Sphinx directive, `ext/dtcompat.py`, build scripts | | | calls into other packages, text processing, vendored code |

How they interact. `core.py` builds a configuration, a plugin manager, a loader and a
runner. The **loader** imports modules (**importer**), asks the **selector** what is a
test, and passes lists of tests to the **factory**, which wraps each in a
**test wrapper** and returns **suites**. The runner calls the one suite at the
top; suites call the suites and tests below them, set up and tear down contexts
around them, and report to a **result proxy**, which passes each outcome to the
**plugins** and then to the result. The **multiprocess runner** takes the place
of that call: it walks the suite (**dispatch**), sets up shared fixtures, queues
the addresses of the rest, and starts workers, which load each address with a
loader, a factory and a result of their own, run the suite that results, and post
what happened to it. The other plugins keep state around the same calls.

What makes each correct:

* multiprocess runner: each address is reported once, or it can be said where its result
  was lost; the counts and the verdict are those of the tests reported; the run ends and
  leaves no process behind; shared fixtures outlive the tests; `--stop` and
  ctrl-c are obeyed;
* suites and factory: fixtures are set up before the tests in them and torn
  down after them, once; each test named runs once;
* dispatch, loader, selector, names: what is selected runs once with its fixtures
  up, in workers as in one process; a name leads back to what it was made from;
* wrapper, results, captures: output is shown with the test that made it, the
  verdict follows from the tests, `sys.stdout` is what it was at the end;
* ids: an id names the same test from run to run, no failure is forgotten before
  it has been run again;
* isolation and importer: a module runs from its own file, and does not see what
  another has imported; a failing import leaves no half of itself;
* deferred: each test ends with the outcome of its own Deferred or with the timeout,
  and nothing of it runs on;
* program, plugins, configuration: the most specific place sets an option, one
  plugin has a name, hooks come in order, workers agree with their parent, nothing
  is left behind.


## 2. The modules

| module | models | checked by |
|---|---|---|
| `MultiProcess` | the multiprocess runner | `MCMultiProcess`; theorems in `MultiProcessProofs` and `MultiProcessTimelyProofs`, which extends it |
| `Fixtures` | abstract specification: what nose promises of fixtures | implemented by `ContextSuite` |
| `ContextSuite` | the run of a tree of suites | `MCContextSuite`; theorems in `ContextSuiteProofs` |
| `SuiteFactory` | the factory, as recursive operators | `MCContextSuite`, which composes it with `ContextSuite` |
| `Loading` | the loader below a module, doctests, collect-only, and the dispatch; extends `Names` (names and paths) and `Selection` (selector and attributes) | `MCLoading` |
| `Discovery` | the loader above modules: directories, packages, imports, isolation | `MCDiscovery` |
| `Reporting` | a test between its wrapper and the summary: captures, proxy, results, xunit | `MCReporting`; theorems in `ReportingProofs` |
| `TestId` | the id plugin over a sequence of runs | `MCTestId`; theorems in `TestIdProofs` |
| `DataInduction` | nothing of nose: lemmas by induction about sets, folds, recursive functions and sequences of sequences | used by `TestIdProofs`, `DeferredProofs` and `ProgramProofs` |
| `Deferred` | tests in the reactor thread, and decorators | `MCDeferred`; theorems in `DeferredProofs` |
| `Program` | one start of nose with its plugins and options; extends `Options` (places of an option) and `Logging` (loggers and handlers), which extends `Lists` (what a list comprehension keeps) | `MCProgram`; theorems in `ProgramProofs` |

The state machines that theorems are about (`MultiProcess`, `ContextSuite`,
`Deferred`, `Reporting`, `TestId`, `Program`) use no recursive operator and are parameterised by what is recursive:
`ContextSuite` by the trees it runs, which the factory makes in `MCContextSuite` only.
`Loading`, `Discovery`, `Names` and `SuiteFactory` are recursive as the code is, and are
checked by TLC only.

### MultiProcess

One action per statement, or per group of statements between which no other
process can tell the difference, of the parent (`NoseMultiProcessTestRunner.run`)
and of a worker (`__runner`). `ppc` is the place of the parent, `pc[p]` of a
process.

| code | model |
|---|---|
| `startProcess` | `StartProcess`: the next process enters slot `i` with fresh shared memory |
| loop over `resultQueue.get(timeout)` | `Receive`, `AllDone`, `GetTimesOut` |
| `--process-restartworker`: `join(1)`, start another | `Rejoin` |
| loop over the workers after `Empty` | `ScanWorker`, `TimeOutWorker`, `ScanDone` |
| `while not keyboardCaught: os.kill(SIGILL)`; `terminate` | `SendSigill`, `KillDone`, `Terminate` |
| teardown of shared suites, summary, STOP sentinels, join | `TeardownShared`, `Summarize`, `TellStop`, `Join` |
| KeyboardInterrupt in the loop, in the shutdown | `InterruptLoop`, `InterruptShutdown` |
| `testQueue.get` in a worker: address, STOP, `Empty` | `Get`, `GetStop`, `Idle` |
| `shouldStop.is_set`, load, write `currentaddr`, `currentstart` | `Check`, `Load`, `MarkStart` |
| `test(result)`, then `resultQueue.put(batch(result))` | `RunTest`, `SuiteDone`, `Report` |
| the `except` clauses of `__runner` | `HandleTimeout`, `PostFailure`, `PostInterrupt` |
| a signal arrives | `DeliverOutside`, `DeliverInRunner`, `DeliverInTest` |
| what tests do to the process | `LoadFails`, `RunRaises`, `FixtureExits`, `Crash` |

A signal is pending from the moment it is sent and is delivered at *any* later
place of the worker; where decides what catches it. An address is a model value
with a number of tests; a result is the slot, the address, the number of tests and
whether one failed. Time is one bit per worker: `late[p]` says that the timeout
has passed since `currentstart`. The constant `Faults` lists what tests may do;
a run enables those its question needs.

Nothing holds two processes together that the code does not: a `get` of the parent may
time out while its workers are between any two statements, a worker that has posted its result may go on to
the next address, or end, at any moment, also between `Empty` and `is_alive` in the parent
(multiprocess.py:422-428), and `join(1)` may return before the worker has ended.
The bit is set (`Tick`) for a worker with a task of `Slow`, and for one that
waits at an empty queue; so a worker whose task is not slow is never found late, however
slowly it is scheduled.

### ContextSuite

`ContextSuite.run` calls itself for the suites inside it, so the state of the
interpreter is a path: `at` is the suite or test the run is in, `phase` where in
`run` of that suite, `next` the number of its next test, `todo` the contexts the
loop of `setUp` or `tearDown` has still to look at. Returning, or leaving by an
exception, is `Leave`: back to the suite above. The other variables are those of
the code, `setupBy[c]` being `factory.was_setup[c]`, the suite that set `c` up.

| code | model |
|---|---|
| `setUp`: nothing to do, or start the loop over `ancestors` | `Enter`, `SkipSetup`, `SetupDone` |
| `setupContext`, and what becomes of its exception in `run` | `SetupContext` |
| `for test in self._tests` with `shouldStop` | `NextTest` |
| a test, through `Test.run` and the result proxy | `RunTest` |
| `NoSharedFixtureContextSuite.run` catches a timeout | `CatchTimeout` |
| `finally: self.tearDown()` | `EndTests`, `SkipTeardown`, `TeardownDone` |
| `teardownContext` | `TeardownContext` |

A fixture or a test ends well, raises an Exception, or raises what passes the
`except Exception` clauses of `run`: ctrl-c, `SystemExit` (fixtures only, as
`unittest.TestCase.run` records it for a test), or, in a worker, the
TimedOutException of a signal. `up`, `ran` and `fixtureFailed` are history.

`Fixtures` knows nothing of suites: a fixture is down, up, failed or torn; it goes
from down to up or failed, once, and from up to torn, once; a test runs, once,
while everything around it is up. `ContextSuite` refines it under the mapping
`Fate`, of every context whose suites lie below one of that context (`Grouped`). That is what the factory is for; `FactoryGroups`
says of which contexts it achieves that, which are not all (`Split`): of the others `Fixtures` promises nothing.

### SuiteFactory and MCContextSuite

`SuiteFactory!Suite` is `ContextSuiteFactory.__call__` on a list of suites. What
the loader hands it for a name is an assumption of `MCContextSuite`: a package is
a suite of its modules, a module a suite of its classes and functions, a class on
its own lies in a suite of its module, a directory that is no package has no
context.

### Loading, with Names and Selection

One module `M` with a namespace `ns` of functions, generators, plain classes and
`TestCase`s, some of them imported from `L`, at one place of a file system, asked for by
one name.

| code | model |
|---|---|
| `loadTestsFromName`, `...Module`, `...TestClass`, `...TestCase`, `...Generator(Method)`, `makeTest`; `transplant_class`, `transplant_func` | `Load` and the operators below it |
| `FunctionTestCase`, `MethodTestCase`, `DocTestCase`, `Failure`; the factory without fixtures | `FunctionTestCase`, ..., `Grouped` |
| `Doctest.loadTestsFromModule`, `loadTestsFromFile`; `CollectOnly` | `Doctests` and the `"collect"` mode |
| `collect`, `nextBatch`, `checkCanSplit`, `sharedFixtures`, `addtask`, `address` | `LeaveOut`, `Open`, `RunFailure`, `ShareFixtures`, `SetUpFails`, `addtask` over `agenda` |
| a worker loads each task and runs it | `StartWorkers`, `Work` |
| one process runs the suite | `Run` |

`Names` has `split_test_name`, `resolve_name`, `getpackage`, `TestAddress` and the
names the dispatch writes, over sequences of tokens; `/` is the separator and there are
no drive letters. `Selection` has every `want` method of the selector with the plugins
that answer before it (attributes, all modules, doctests, coverage, one of the user's);
a pattern is the set of names it matches.

### Discovery

| code | model |
|---|---|
| `loadTestsFromNames`, and the isolation plugin's own | `loadTestsFromNames` |
| `loadTestsFromDir`, a generator resumed when its suite is done | `EnterDirectory`, `Yield`, `Exhausted` over `frames` |
| `importFromDir`, `sameModule`, the parts of a dotted name | `load_module` and the fold around it |
| `add_path`, `remove_path` | `path` |
| `beforeContext`, `afterContext` of isolation | `mod_stack` |
| a module's tests run, and may import a helper | `RunTests` |

### Reporting

| code | model |
|---|---|
| `setUp`/`tearDown` of a context, with `startContext`, `stopContext` | `setupContext`, `teardownContext` |
| `Test.run`: `beforeTest`, the test, `afterTest` | `beforeTest`, `beforeTestRaises`, `RunTest`, `Cleanup`, `addSuccess`, `afterTest` |
| `ResultProxy.addError` ... with `handleError`, `formatError`, `addError` of the plugins, then the result's | the report in `RunTest`, `Cleanup`, `setupContext`, `teardownContext` |
| `capture.start`, `end`; `xunit._startCapture`, `_endCapture` | `Begin`, `End`, `finalize` |
| `printSummary`, `Xunit.report` | `Summarize` |

A stream is the set of places a write to it ends up in, so that one may be written
through another. `watch` stands for any other plugin: it has a score before capture,
between capture and xunit, or after both, and may handle an error. `configure` sorts the enabled
plugins by score (`Sorted`), as `PluginManager.configure` does; those with equal scores come in any order.

### TestId

`configure`, then the hook `loadTestsFromNames` (which reads the file, or fails to),
`RunTest` per test, `finalize` in two steps (the file is opened, which empties it;
the data are dumped), and `Kill` and `RemoveFile` between any two of them. The file is missing,
foreign (reading it ends in a ValueError, which is caught), damaged (empty, or any other error, which is not), of the old kind, or holds ids, failures and source names. What the hook does
to the names (ids to tests, names it knows, names it does not) is `NamesToLoad`, in the steps of the code:
`translated`, `new_source`, `really_new`.

### Deferred

| code | model |
|---|---|
| loading a decorated test; its setups | `Load` |
| `wrapper`: `callFromThread`, `q.get(timeout)` | `Call`, `Receive`, `Timeout` |
| `stop_reactor`: stop, join, cancel delayed calls | `StopReactor`, `Join` |
| `g` in the reactor thread; `callback`, `errback` | `Begin`, `Finish`, `CallBack` |
| `make_decorator`, `with_setup`, `raises`, `timed` | `Decorated`, recursive functions over the stack; `Through`: what layers make of a result |

The reactor is external: it runs calls from other threads in order, one at a time, and
cannot be run again once stopped.

### Program, with Options and Logging

One action per step: `MakeConfig`, `LoadPlugins`, `Parse`, `Reparse`, `Settle`, `Configure`, `Begin`,
`PrepareTestLoader`, `PrepareTestRunner`, `PrepareTest`, `SetOutputStream`, `BeforeTest`,
`BeforeTestUnbegun`, `RunTests`, `Report`, `Finalize`. With `plugins` set in a file the collector of a foreign runner goes
from `Settle` to its tests (`Listed`), with plugins that were never configured (what the tests then
meet in hooks other than logcapture's and `finalize` is not followed). A start (`cmd`) is one of `main`, the `collector` of a
foreign runner, or `setup.py nosetests`. The value of an option is the sequence of the
places it came from. Every built-in plugin is a record of its score, its options and the
hooks of a program it implements; `cmd.on` says which switches are set, `extra`, `entries` and
`plugins` which other plugins there are. `Logging` has the tree of loggers, with
`propagate` and handlers, as `configureLogging` and logcapture change it, and tests in between
(`TestChangesLoggers`).

Plugins that are not built in may implement and answer any hook, and register any options. The
`configure()` of the attribute selector, pdb, the id and the multiprocess plugin does not ask whether their
options could be registered (`Unasking`): `OwnOptions` says that no other plugin has an option of
theirs, which holds in `MCProgram`. Where it does not hold they may also raise, for the option
they look for is not there; that is not modelled.


## 3. The runs

Every passing run is exhaustive for its instance. Where a module has more than one
invariant worth stating, its types are the first conjunct of one of them
(`IdsKept`, `OutputKept`, `Isolated`, `OwnAnswer`, `CallOrder`, `FixturesUp`).

| run | instance | checks |
|---|---|---|
| `MP_restart` | three addresses (one of two tests), two workers with `--process-restartworker`, five processes; exceptions come out of suites; a worker may end at any moment after it has posted | `TypeOK`, `EveryTaskAccounted` (reported once, or left unread in the queue in one way only), `QueueServed`, `SummarySound` (counts and verdict), `SharedFixturesUp`; no deadlock |
| `MP_windup` | three addresses, one worker, `--stop`, up to two ctrl-c, failing collection, exits, failing shared teardown | `StopBound`, `InterruptObeyed`; no deadlock (`SummarySound` is proved for it, section 4) |
| `MP_timeout` | two addresses, one slow and hanging, two workers, four processes, exceptions in loading, exits, crashes; fair | `NoTaskForgotten`, `WorkersTracked`, `Termination` |
| `CS_fixtures` | a package of two modules, a class, a module outside the package with two `TestCase`s, a directory: every command line of one to three names that names no test twice, also those with the directory, which has no context, in front or between; every outcome of every fixture and test; each name also with `--stop` and in a worker, with and without a shared package | `TypeOK`, `TestsLeaveNothingUp`, `AllTestsRun`, `FactoryGroups` (a tree of the factory holds the tests named, and a context is grouped unless suite.py:505 has split it), `Nested`, and `FixturesKept`, that is `ContextSuite` implements `Fixtures`; no deadlock |
| `LD_load` | ten namespaces in five places of a file system, every spelling and callable, each selection option, doctests, every combination of fixture flags, shared fixtures that raise; one process, collect-only, and workers | `RunsSelected`, `SameTests` (workers run what one process runs, unless a function or a method of a plain class would be a task of its own or a callable is missing; then, and only then, the program ends before it has started a worker), `FixturesUp`, `NamesLead`, `DoctestsOnce` |
| `DI_run` | two directories with a module and a package of the same names, a test directory below the first and a broken module in the second; one or two overlapping names; with and without isolation and `--first-package-wins` | `DiscoveredOnce`, `OwnFile`, `RootOnPath`, `Isolated` (with the one exception below: what a package's tests import is seen under the same name) |
| `RP_run` | two tests, two contexts, any set of plugins with one that may handle errors at each of three scores, tests that fail, fail twice, skip or are deprecated, failing fixtures, a `beforeTest` that raises, `--stop` | `OutputKept`, `ResultsAgree` |
| `TI_runs` | two methods and a function in two modules, eight command lines of names and ids; any sequence of runs, each with or without `--failed`, interrupted or killed anywhere | `IdsKept`, `FailuresNoted`, `RerunsNoted`; no deadlock |
| `DF_run` | two tests, every pair of five stacks of decorators and eight kinds of test, up to two calls of `stop_reactor`; fair | `OwnAnswer`, `NothingOutlives`, `FixturesNested`, `TimedTestsEnd` |
| `PG_program` | every option in every combination of its places; eight sets of switches with five other plugins, given, loaded, in conflict, failing to load, or answering `report` and `finalize` before others hear of them; three ways to start, and a foreign runner of a project that sets `plugins` in `setup.cfg`; loggers that tests change | `OnePerName`, `Precedence`, `CallOrder`, `WorkerAgrees`, `CleanedUp`, `RecordsCaptured` |
| `RP_unheard` | as `RP_run` | `ErrorsHeard` is violated |
| `TI_no_id` | as `TI_runs` | `EveryTestHasId` is violated |

Why the bounds are enough.

* `MultiProcess` treats every address and every worker alike. Two workers are needed
  for one to go on while the other is killed, restarted or told to stop; three
  addresses for two workers to leave one in the queue; two tests in a suite for a signal to hit the
  first and a later one the second; four processes for each of two slots to be replaced.
  `MP_windup` has one worker because its questions are about the order of the
  parent's and one worker's steps. `MaxProcs` bounds the processes ever started (no more
  than slots plus restarts or terminations); `MaxInterrupts` is two, as the second
  ctrl-c is handled in a different place and a third is like the second.
* Grouping needs at least two suites of a package with something between them, which
  command lines of three names over two modules, a class and a module outside the
  package have (`MaxNames`).
* `Reporting`: a test can be disturbed by the one before it and by fixtures at most; two
  contexts nest or follow each other (`MaxDepth` is 2). Tests and contexts are each
  interchangeable (`SYMMETRY Alike`).
* `TestId`: sequences of runs are unbounded, ids are bounded by the tests; three tests
  give a known, a new and an unnamed one.
* `Deferred`: what is left of one test can disturb only later ones; two tests
  and two calls of `stop_reactor` (before and between them, or twice in a place).
* `Loading`, `Discovery` and `Program` (but for the loggers) are close to functions of their input: what counts is the
  inputs, in `MCLoading`, `MCDiscovery` and `MCProgram`. They vary one aspect against
  the usual values of the others, and combine those that meet in the code (fixture flags with
  names, attributes with patterns and plugins, all places of an option). `Discovery`'s state does
  interleave tests with a suspended generator: two directories suffice, as a third
  is resumed like the second.

`CHECK_DEADLOCK FALSE`: in `LD_load`, `DI_run`, `RP_run`, `PG_program` and `DF_run` the program
ends; in `DF_run` the main thread may also wait for ever for a test without
a timeout; in `MP_timeout` the parent may wait for ever when every worker is dead
and addresses are queued, which `Termination` allows for (`Starved`).

**Fairness.** `FairSpec` of `MultiProcess`: each process is scheduled (weak fairness of
`Work(p)` and of `Parent`); a pending signal is delivered; a task that runs for too
long is found late (`Tick`); the loop of the parent that kills a worker signals it
in each turn and gives up at `waitkilltime` (`SendSigill`, `Terminate`). The
operating system and the timers of the code provide exactly these. No fault and no
ctrl-c ever has to happen, and a test that hangs is not assumed to end. `Spec` of
`Deferred`: both threads are scheduled (`Main`, `Begin`, `Finish`), the clock of `q.get` runs
(`Timeout` is a step of `Main`), and a Deferred that is to be called back is. `Finish` is
disabled for a test that hangs; `stop_reactor` never has to be called.

### What the violated runs show

* `RP_unheard`: base.py:161 asks plugins not to return a value unless they want to
  stop others from seeing an error. `ErrorClassPlugin.addError` does return one for every error:
  errorclass.py:66 tests the result of `filter()`, which is a list in Python 2 and an
  iterator, always true, in Python 3. With the skip plugin, on by default, no plugin of a
  lower score hears of any error.
* `TI_no_id`: functional_tests/test_withid_failures.rst:12 shows an id before each
  test. `Test.address` calls `self.test` where it looks for `address` (case.py:93), so a function has no
  address, and gets no id; it is never among the failures `--failed` repeats.

### What else was seen in the code

Modelled, and so part of the behaviours the properties allow for:

* multiprocess.py:465: with every worker dead and addresses queued the parent polls for ever,
  although :56 says the summary comes when "all workers have died". :432: a worker that is still
  importing counts as idle, so the summary may come without its task. :463: a hanging task
  ends its worker, though :83 says it does not.
* multiprocess.py:422-467: a result may be lost with every worker well. With `--process-restartworker` two workers are between
  their last statements when the parent's `get` times out (`GetTimesOut`); both post, and end; the parent's loop over the workers finds
  both dead and `testQueue` empty, and leaves (`ScanWorker`, `ScanDone`). Both results stay in `resultQueue`, also failures, and the
  run may be a success, although :54-57 says that "the results from the test run are combined into a consolidated
  result set". `EveryTaskAccounted` states it as its exception.
* suite.py:505-507: the grouping ends at an item without a context. With `nosetests dir pkg/a.py pkg/b.py`, where `dir` is no package, the
  fixtures of the package are set up and torn down with the first module, and the tests of the second run with them
  torn down. `FactoryGroups` states it as its exception (`Split`). suite.py:209: when the setup of a module raises
  after that of its package, the package is never torn down. case.py:100: the only
  test of a `TestCase` class has its instance as a context, so `setUp` runs twice.
* multiprocess.py:546, case.py:93: a function or a method of a plain class that is not inside a
  fixture or a generator, or a missing callable, ends the dispatch with a TypeError, before a worker is started and with the shared fixtures set up so far
  left up, although :48 says that tests are "individually dispatched to run in parallel"; so workers run test cases,
  and modules and classes with fixtures. `SameTests` states it as its exception (`Undispatchable`). A context that is both shared and splittable, or a shared class in a module that goes
  to a worker as a whole, is set up by nobody (`SharedUnseen`).
* testid.py:171, :215: a run killed while it writes leaves a file that no later run can read, as does any file that is no pickle.
  :227: a `--failed` run that is killed leaves the old failures, one that is interrupted forgets
  those it has not run again. :253: with ids and new names mixed, the tests of names the file knows are left out.
* capture.py:73: only the first of two errors of a test shows its output. A setup that
  fails leaves xunit's stream pushed; `finalize` restores `sys.stdout` unless that happened.
* loader.py:189-191, isolate.py:48-49: changes are to be isolated "to a single test module or package", but the loader calls `beforeContext` for
  no package, and loads the modules of one all at once. What the tests of a package import is seen by all that
  follow below the same name of the command line, in plain directories too; several names are isolated from each other.
* config.py:495-501, README.txt:207-213: the help of `--py3where` promises the environment variable `NOSE_PY3WHERE`. Nothing reads it
  (config.py:297-304): set, it has no effect. `Precedence` states it as its exception (`Unread`).
* config.py:348, core.py:327-337: with `plugins` set in a file the collector of a foreign runner lists nothing and does not end. It runs the tests with
  plugins that are neither configured nor sorted, and whose `begin` was not called; logcapture, without a handler, makes the first test an error and then
  raises out of the run; `finalize` reaches every plugin loaded. `CallOrder` states it as its exception (`Listed`).
* config.py:288, cover.py:41: an option that appends to a default extends it in place; where
  the default is a text from the environment, it raises. Beside `setup.cfg`, `~/.noserc` and
  `~/nose.cfg` do not add up. A flag in a file is on whatever its value.
* config.py:236: plugins added by `addplugins` are lost in workers, and one in conflict with an option
  of the core is enabled there only, and may take options from others there. cover.py:256 exits in `report`, before any `finalize`.
  prof.py:123 always raises in `report`. base.py:75 warns that a plugin with an option of another "will be
  disabled"; attrib.py:198, debug.py:40, testid.py:132 and multiprocess.py:209 do not look, so these
  plugins are enabled or fail. base.py:316: a plugin that answers `report` or `finalize` keeps those
  behind it from reporting and from tidying up.
* logcapture.py:188: `--logging-clear-handlers` leaves every second handler. A logger that
  stopped propagating and resumes has its records captured twice.
* twistedtools.py:169: a test that returns no Deferred is never answered, and without a timeout
  waits for ever.


## 4. What is proved

For every value of the constants that satisfies the modules' assumptions: any
number of addresses, workers, processes and interrupts, any set of faults; any
tree of suites, whether a factory could have made it or not, of any size; any
number of deferred tests under any stacks of decorators; any tests, contexts and sets of
plugins, in any order of their scores; any tests, command lines and contents of modules over
any number of runs with ids; any plugins, entry points, options and switches a start of
nose may have, and any loggers of the process and of its tests.

| theorem | says | inductive invariant |
|---|---|---|
| `MultiProcessProofs!TypeCorrect` | `Spec => []TypeOK` | `Typing`: the types, with `cursor` a slot wherever the parent indexes `workers` by it, and an address in `held[p]` wherever a worker uses one. The types alone are not inductive: the next message would have no task |
| `MultiProcessProofs!TasksKept` | `Spec => []NoTaskForgotten` | with `PostedOK`: a worker that has gone past its report has its result in the queue or consolidated. Without it, dropping the address in `NextTask` could lose it |
| `MultiProcessProofs!InterruptWindsUp` | `Spec => []InterruptObeyed` | with `WindingUp`: after a caught ctrl-c the parent is past every place that starts a process |
| `MultiProcessProofs!NoOrphans` | without restarts, `Spec => []WorkersTracked` | `Tracking`: every process started is in its slot until it is dead, the slots before `cursor` are joined while the parent joins, and none is left after |
| `MultiProcessTimelyProofs!SummaryRight` | when no task is slow, `Spec => []SummarySound` | `Timeless`: nobody is timed out (`NoTimeouts`), so an address is in one place at a time, a queue, a worker or a result, and a result is of an address still expected (`Apart`); each result says how its tests ended (`Sound`); the counts are those of the addresses no longer expected. `Receive` adds without looking whether a task was counted before: only `Apart` says that it was not |
| `MultiProcessTimelyProofs!FixturesOutlastTests` | when no task is slow, without `--stop` and ctrl-c, `Spec => []SharedFixturesUp` | `Placed`: a worker that can still take an address is in its slot (`Slotted`), a slot has one result in the queue at most (`Posters`), the workers passed in a round that has found none active have nothing to do (`Scanned`); so the parent winds up only when no address is queued or held (`Over`) |
| `MultiProcessTimelyProofs!StopIsPrompt` | without restarts, or when no task is slow, `Spec => []StopBound` | `StopInv`: the tasks started after `--stop` are at most the slots whose worker had checked the flag before and does so no more; with `Slotted` or `Tracking`, as a worker outside its slot would not be counted |
| `MultiProcessTimelyProofs!AddressesServed` | when no task is slow and none takes its process down, `Spec => []QueueServed` | `Placed` and `SlotsServed`: while addresses are queued, each slot has a worker that will take one, or a result for which the parent will start another |
| `MultiProcessTimelyProofs!AddressesAccounted` | when no task is slow, whatever else goes wrong, `Spec => []EveryTaskAccounted`: the parent may leave with a result unread (multiprocess.py:422-428), but with nothing else | `Complete`: with `Settled`, once the parent winds up an address without a result has one in the queue or was lost with a worker that ended abruptly. That none is queued or in work then is `Over`; that a queued result is of a worker that has nothing more to do takes `Slotted` and `Scanned` |
| `ContextSuiteProofs!TypeCorrect` | `Spec => []TypeOK` | with `Placed`: what kind of node the run is at in each phase, so that `Leave`, which goes to the suite above, has one to go to |
| `ContextSuiteProofs!NothingLeftUp` | `Spec => []TestsLeaveNothingUp` | `Lifecycle`: while no fixture has raised, every fixture that is up belongs to a suite that set it up, and that suite is the one the run is in, with the context still before it in the loop of `tearDown` if it has got there, or one above it that has its `tearDown` ahead |
| `ContextSuiteProofs!RunsKeepFixtures` | `Spec => FixturesKept`, the refinement of `Fixtures`, in which a test needs the fixtures of the contexts that are grouped in its tree | `Kept`: the run never comes back to a path (`Fresh`, by the order of paths in `AheadOf`), the suites around the place of the run have been set up and not torn down (`Entered`), what a suite that was set up needs has been tried (`Examined`), by a suite around all that need it (`Tops`), and stays up until that suite tears it down (`Standing`). That each fixture is set up once is a matter of `Lifecycle`; that what a test needs is up takes all five |
| `ContextSuiteProofs!FixturesNest` | `Spec => []Nested`, of the contexts that are grouped | with `Ordered`: how far the loops of `setUp` and `tearDown` have got in the list of contexts. What is around a fixture is owned by the same suite, and then the order of the list decides, or by one further out, which stands |
| `ContextSuiteProofs!EveryTestRuns` | in trees that hold as many tests as were named, `Spec => []AllTestsRun` | with `AllBehind`: while nothing cuts the run short each test has run, runs, or is ahead of the place of the run, and a suite is torn down after its last test only |
| `ReportingProofs!ResultsRight` | `Spec => []ResultsAgree` | `Begun`: only what has begun is reported, a running test not yet, and one that is cleaned up has been; `Counted`: while no plugin handles reports, reports and passes are the tests that were started, but for the one that runs, and the reports beside them; `Printed`: what was printed is still so. The summary alone is not inductive: it is right only because each test ends in one report or in success |
| `ReportingProofs!OutputInPlace` | `Spec => []OutputKept` | `SInv`, with `Depth` and `Bottom`: the two stacks hold one stream for each thing that is up, or something was left on them for good, and below them lies the stream the run began with, whichever plugin came first; `Held`: the buffers hold output of the test that runs only, until its first report |
| `TestIdProofs!IdsForGood` | `Spec => []IdsKept` | `Inv`: ids of a run and of the file are numberings, each the inverse of the other (`FileTyping`, `PluginTyping`), a run over translated ids meets no test that has none (`Complete`: otherwise what it saves would lack one it has shown), and what was shown is in the file, and in a run that has loaded it (`ShownKept`) |
| `TestIdProofs!FailuresOnFile` | `Spec => []FailuresNoted` | the same `Inv`, with `FailuresKept`: what has failed in the run is noted, and while failures are run again nothing else is |
| `TestIdProofs!FailuresRunAgain` | if every module or class has a test, `Spec => RerunsNoted`, an action property | the same `Inv`: what is noted has an id, and an id is translated to its test |
| `DeferredProofs!NothingRunsOn` | `Spec => []NothingOutlives` | `OnePlace`: a test is in one place at a time of the reactor's queue, its hands and the pending callbacks, once, and then has not answered; so an answer means it is in none (`Answered`). `AtRest`: a stopped reactor holds no test. `BodyInTest` alone is not inductive: the main thread takes an answer without looking at the reactor |
| `DeferredProofs!AnswersAreOwn` | when no stack has `raises` twice, `Spec => []OwnAnswer` | with `Own`: what waits in a queue is what the test of that queue deserves, seen through the layers inside its `deferred` (`Given`), and each outcome what it deserves through all of them (`Right`). `OnePlace` is needed, or a queue could hold two answers. What layers make of a result is `ThroughTurns`, by induction over them |
| `DeferredProofs!FixturesInOrder` | `Spec => []FixturesNested` | `Logged`: the log of a test is its setups, then its teardowns. The rest is `StackFacts`: whatever stands between them, `with_setup` builds the names of a stack, reversed for the setups |
| `ProgramProofs!ProgramOnePerName` | `Spec => []OnePerName` | `Typing` (the types, with sequences as such) and `Chosen`: what is there before loading is the extra plugins, each name once, and after it each name offered once, from the first place that offers it. The rest is what adding lists of plugins to each other makes of them (`Supplants`) |
| `ProgramProofs!ProgramCallOrder` | under `OwnOptions`, `Spec => []CallOrder` | `Ordered`: before any hook is called the plugins are without repetition and, unless the collector was to list them, configured and sorted (`Ready`), no hook was called that is of a later step, nor has it a proxy, and of any two calls the later one follows. Without the proxies, which are kept, a call could reach plugins of an older list. That the sorting, defined by places, gives a permutation is a matter of induction (`RanksAll`) |
| `ProgramProofs!ProgramWorkerAgrees` | under `OptionsApart`, `Spec => []WorkerAgrees` | with `Paired`: once loaded, the parent's plugins and what a worker will load agree on those that no extra plugin replaces, in membership and order (`Agree`), and once configured the parent has those of them that the options enable, by score and then as a worker would load them (`Mirrors`). A worker makes its list from nothing, so nothing of the parent's but its options and its class reaches it |
| `ProgramProofs!ProgramPrecedence` | `Spec => []Precedence`, but for NOSE_PY3WHERE | `Valued`: what value and default are after each parse, and that, once all is parsed and the default still is that of the program, the value is `Right`: from the place of the highest `Level` of all that were given, and with no place lost that may not be. Each part of what a parse reads (`Takes`), a file, both of the user's, the command line of either way to start, takes its places in rising order, so what is put together does. A default that a first parse has extended cannot become itself again in the second (`DefaultStays`) |
| `ProgramProofs!ProgramCleanedUp` | `Spec => []CleanedUp` | with `Held`: while coverage measures or the profiler's file is there, its plugin is enabled; and once the reports are over coverage measures only if a plugin has stopped them. The collector leaves coverage out |
| `ProgramProofs!ProgramRecordsCaptured` | `Spec => []RecordsCaptured` | `Grown`: the loggers are a tree, and when a test begins with logcapture every one of them at which records stop has its handler, once (`Patched`) |

The hypotheses of a theorem are about what the tests and the user do, and each is needed:
TLC finds a counterexample of two or three addresses, or names, without it.

* `NoOrphans` assumes `~RestartWorker`: with restarts and a worker that takes more than a second to end, `Rejoin` replaces a process that is still alive.
* `SummaryRight` and those after it assume `Timely`, that no task is slow: a worker that is
  timed out while it posts its result has its address reported twice, or its result is counted for an address
  that another was told to run.
* `FixturesOutlastTests` assumes that the run is neither stopped nor interrupted: then the
  parent tears down at once, while workers finish their tests.
* `AddressesServed` assumes `Gentle`, that no task takes its worker
  down: nobody starts another (multiprocess.py:465).
* `StopIsPrompt` assumes that workers are not restarted, or no task slow. With both, a worker that is
  signalled between its result and the next address posts twice and may be replaced while it
  runs; whether that breaks the bound is open.
* `FailuresRunAgain` assumes that no name loads nothing; otherwise a run over no failures may
  have nothing to run.
* `AnswersAreOwn` assumes that no test is decorated with `raises` twice: outside of another, `raises`
  finds that the test has not raised, and an error comes out as a failure.
* `ProgramCallOrder` assumes `OwnOptions`, which TLC evaluates for the instance. A plugin of one's own that
  takes `--failed` leaves the id plugin enabled although it cannot be configured.
* `ProgramWorkerAgrees` assumes `OptionsApart`: a plugin in conflict with an option of the core can be
  configured in a worker only, and there takes the options it shares with others from them.
* `EveryTestRuns` assumes that the factory lost and repeated no test, which `FactoryGroups` checks for the command lines
  of `CS_fixtures`. `RunsKeepFixtures` and `FixturesNest` have no hypothesis, but what they say is about the
  contexts of `Grouped`, and `FactoryGroups` says which those are: all but the ones that suite.py:505 has split.

`NothingLeftUp` does not need the factory: it holds for ungrouped suites and repeated
contexts too, so grouping is only needed to run tests while their fixtures are up, and nested.

The proofs have one step per action and, below it, one per conjunct the action can
disturb; steps of a worker and of the parent, of the main thread and of the reactor, are
separate lemmas. Every inductive invariant was checked by TLC before it was proved, on the instance of the
run or, for `Program`, on the part of it where what it is about varies. The assumptions on the constants are

* `MultiProcess`: `TasksAssumption`, `OptionsAssumption`;
* `ContextSuite`: `ContextsAssumption`, `NestingAssumption` (what is around a context, in order and
  each once, goes on as it does around the next), `OutcomesAssumption`, `ProgramsAssumption`
  (paths are sequences, each has its suite above it and the tests with smaller numbers beside it);
* `Deferred`: `BoundsAssumption`, `StacksAssumption` (a stack is a sequence of the four decorators, with
  `deferred` among them once);
* `Reporting`: `NamesAssumption` (no test is a context), `ContextsAssumption` (they are finitely many),
  `PluginsAssumption` (a set of plugins is one of those the module knows);
* `TestId`: `MethodsAssumption` (finitely many tests have an address), `ContentsAssumption`,
  `NamesAssumption` (command lines are not empty);
* `Program`: `OthersAssumption` (plugins that are not built in are objects of their own and have a
  score), `CommandsAssumption` (lists are of known plugins, loggers a tree with a root),
  `SettingsAssumption` (an option is read from the environment in one of five ways, it is on the command line
  at most twice, and one that no file may set is not an option of setup.py), `StatusAssumption`.

TLC evaluates them in every run.

`TestId` folds over names, failures and the contents of modules, `Deferred` recurs over stacks, `Program` over lists of
plugins. The facts about the first two are proved in `DataInduction`, as is what `ProgramProofs` needs to prove
the others (`Keep`, `addPlugins`, `Registered`, and `sort`, which counts): the induction theorems of the library take an operator as a parameter, which
the provers cannot instantiate, but induction over a set can be stated without one (a set of numbers that
holds 0 and every successor), and a function defined by recursion in a fold is one that CHOOSE
picks, once one is shown to exist.

Only model-checked:

* `Termination` and `TimedTestsEnd`: liveness under fairness is out of the prover's reach;
* `FactoryGroups`, and everything in `Loading`, `Discovery`, `Names`, `Selection` and `SuiteFactory`: they are
  recursive as the code is, over trees of names and suites, and the prover reads no RECURSIVE operator.

## 5. What is not modelled

In the modules above:

* `MultiProcess`: the pipe below each queue (unbounded here), its feeder thread and the
  pickling of results. With `-v` every task of a worker ends in an error
  (multiprocess.py:677, result.py:101), so default verbosity is assumed.
* `ContextSuite`: the tests of generators and of lazily loaded directories are fixed
  lists. A package or module named twice on one command line is left out of `CS_fixtures`: its
  second suite finds the context in `was_setup`, torn down or failed, and runs its tests
  without it. `setUpClass` of `unittest.TestCase` is called by `unittest.TestSuite` only, which
  nose's suites are not.
* `Reporting`: `sys.stderr`, which xunit treats as `sys.stdout`; the text of reports and of
  the XML; chained calls in which a plugin returns None (manager.py:131), which breaks the next plugin.
* `Loading`: one module at a time; shared fixtures above a module; ctrl-c in a shared fixture; patterns
  character by character.
* `Discovery`: entries of `srcDirs`, `.pyc` files, namespace packages.
* `TestId`: `loadTestsFromTestCase`, which finds no `_testMethodNames`, and `loadTestsFromGenerator`,
  which nobody calls.
* `Program`: what a step prints; the adapter for plugins of nose 0.9; logging levels;
  the build steps of `setup.py nosetests`.

Partly modelled: the **debugging, failure detail, coverage and profiler** plugins, of which options,
start, stop and what they leave behind are in `Program`, and pdb, coverage.py and hotshot
are other programs; **doctests**, of which `Loading` has what is searched and found, and
the `doctest` module runs the examples; **utilities**, of which `inspector.py` (the values shown with
`--failure-detail`) and the listing helpers are text handling.

Not modelled: **plugintest and the Sphinx directive**, text in and text out, for tests of
plugins and for the documentation; **`ext/dtcompat.py`**, a vendored copy of an old
`doctest`; **build and installation scripts** (`patch.py`, `distribute_setup.py`, `setup.py`), which
are third-party or no part of the program.


## 6. Plan

1. Theorems: whether `StopIsPrompt` needs its hypothesis; the trees of `SuiteFactory` as recursive
   functions, to prove `FactoryGroups`.
2. Chained plugin calls with a plugin that returns None, as a fault of `Reporting`.
3. The report of the coverage plugin and its merge of files from worker processes.
4. Two modules at a time in `Loading`, under a package with shared fixtures.
