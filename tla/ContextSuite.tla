---------------------------- MODULE ContextSuite ----------------------------
(***************************************************************************)
(* The run of a tree of suites (nose/suite.py), with the fixtures of the   *)
(* packages, modules and classes around the tests.  ContextSuite.run calls *)
(* itself for the suites below, so the place of the run is the path of the *)
(* suite or test it is in.  In a worker of the multiprocess plugin the     *)
(* suites are NoSharedFixtureContextSuites.                                *)
(***************************************************************************)
EXTENDS Integers, FiniteSets, Sequences, SequencesExt

CONSTANTS
  Contexts,   \* packages, modules and classes
  NoContext,  \* context of a suite that has none
  Around,     \* factory.context: Around[c] is c and what contains it, in order
  Programs,   \* what may be run, and how
  Outcomes    \* how a fixture or a test may end

ASSUME ContextsAssumption ==
  /\ NoContext \notin Contexts
  /\ Around \in [Contexts -> Seq(Contexts)]

\* ancestry(c) goes on as ancestry of the next context does.
ASSUME NestingAssumption ==
  \A c \in Contexts : \A i, j \in DOMAIN Around[c] :
    /\ Around[c][i] = Around[c][j] => i = j
    /\ ToSet(Around[Around[c][i]]) \subseteq {Around[c][k] : k \in i .. Len(Around[c])}

\* A fixture or a test ends well, raises an Exception, or raises what only the
\* runner catches: ctrl-c, SystemExit, or the TimedOutException of a worker.
Escapes == {"interrupt", "exit", "timeout"}
ASSUME OutcomesAssumption == Outcomes \subseteq {"ok", "error"} \cup Escapes

\* A program is a tree of suites and tests, as a function from paths, and how it
\* is run: with --stop, in a worker, with fixtures that the parent runs.  The
\* tests of a suite are numbered from 1.  The command line named size tests.
ASSUME ProgramsAssumption ==
  \A g \in Programs :
    /\ DOMAIN g.tree \subseteq Seq(Nat \ {0})
    /\ <<>> \in DOMAIN g.tree /\ g.tree[<<>>].suite
    /\ \A p \in DOMAIN g.tree :
         /\ g.tree[p].suite \in BOOLEAN
         /\ g.tree[p].suite => g.tree[p].context \in Contexts \cup {NoContext}
         /\ p # <<>> => /\ Front(p) \in DOMAIN g.tree /\ g.tree[Front(p)].suite
                       /\ \A i \in 1 .. Last(p) : Append(Front(p), i) \in DOMAIN g.tree
    /\ g.stopOnError \in BOOLEAN /\ g.worker \in BOOLEAN
    /\ g.shared \subseteq Contexts
    /\ g.size \in Nat

VARIABLES
  program,       \* what is run; it never changes
  at,            \* the path of the suite or test the run is in
  phase,         \* where in ContextSuite.run, or in the test
  next,          \* the number of the next test of that suite
  todo,          \* contexts the loop of setUp or tearDown has still to look at
  wasSetup,      \* suites with was_setup
  wasTorndown,   \* suites with was_torndown
  setupBy,       \* factory.was_setup: the suite that set up each context
  torndownBy,    \* factory.was_torndown
  raising,       \* the exception on its way out of nested suites
  shouldStop,    \* result.shouldStop
  up,            \* history: fixtures set up with success, not torn down
  ran,           \* history: tests that have been run
  fixtureFailed  \* history: a fixture has raised

vars == <<program, at, phase, next, todo, wasSetup, wasTorndown, setupBy,
          torndownBy, raising, shouldStop, up, ran, fixtureFailed>>
place   == <<at, phase, next, todo>>
suites  == <<wasSetup, wasTorndown>>
factory == <<setupBy, torndownBy>>
result  == <<raising, shouldStop>>

tree == program.tree
Paths == DOMAIN tree
Nobody == <<0>>  \* the path of no suite

IsSuite(p) == tree[p].suite
Context(p) == tree[p].context
Shared(c) == c \in program.shared

Init ==
  /\ program \in Programs
  /\ at = <<>> /\ phase = "enter" /\ next = 1 /\ todo = <<>>
  /\ wasSetup = {} /\ wasTorndown = {}
  /\ setupBy = [c \in Contexts |-> Nobody]
  /\ torndownBy = [c \in Contexts |-> Nobody]
  /\ raising = "no" /\ shouldStop = FALSE
  /\ up = {} /\ ran = {} /\ fixtureFailed = FALSE

-----------------------------------------------------------------------------
\* run() of the suite or test at the current path returns, or is left by an
\* exception: its suite goes on with the next test.
Leave ==
  IF at = <<>>
    THEN phase' = "done" /\ UNCHANGED <<at, next>>
    ELSE phase' = "tests" /\ at' = Front(at) /\ next' = Last(at) + 1

\* addError of the result proxy: with --stop the first one ends the run.
AddError == shouldStop' = (shouldStop \/ program.stopOnError)

\* Mutant of Escaping: without the clauses for an Exception.
Raised(outcome) == outcome # "ok"
Escaping(outcome) == outcome \in Escapes

\* An escaping exception takes over from the one on its way out.
Raise(outcome) ==
  /\ raising' = IF Escaping(outcome) THEN outcome ELSE raising
  /\ IF outcome = "error" THEN AddError ELSE UNCHANGED shouldStop

HasTests(p) == Append(p, 1) \in Paths

\* Mutant of SetupOrder: the module before its package.
InnermostFirst(c) == Around[c]
\* setUp pops the contexts around the suite off the end of the list.
SetupOrder(c) == Reverse(Around[c])

\* run() calls setUp: there is nothing to set up for a suite without tests, one
\* without a context, or one set up before.
Enter ==
  /\ phase = "enter"
  /\ IF HasTests(at) /\ Context(at) # NoContext /\ at \notin wasSetup
       THEN phase' = "setup" /\ todo' = SetupOrder(Context(at))
       ELSE phase' = "tests" /\ UNCHANGED todo
  /\ next' = 1
  /\ UNCHANGED <<program, at, suites, factory, result, up, ran, fixtureFailed>>

\* Mutant of IsSetUp: every suite sets up the contexts around it.
NeverSetUp(c) == FALSE
IsSetUp(c) == setupBy[c] # Nobody

\* A context that some suite has set up, or tried to, is passed over; so is one
\* that the parent of a worker sets up.
SkipSetup ==
  /\ phase = "setup" /\ todo # <<>>
  /\ IsSetUp(Head(todo)) \/ Shared(Head(todo))
  /\ todo' = Tail(todo)
  /\ UNCHANGED <<program, at, phase, next, suites, factory, result, up, ran,
                 fixtureFailed>>

\* setupContext.  The suite owns the context before its setup runs; when that
\* raises, run() is left without tearDown.
SetupContext(outcome) ==
  /\ phase = "setup" /\ todo # <<>>
  /\ LET c == Head(todo) IN
       /\ ~IsSetUp(c) /\ ~Shared(c)
       /\ setupBy' = [setupBy EXCEPT ![c] = at]
       /\ IF outcome = "ok"
            THEN /\ up' = up \cup {c}
                 /\ todo' = Tail(todo)
                 /\ UNCHANGED <<at, phase, next, fixtureFailed>>
            ELSE /\ todo' = <<>>
                 /\ Leave
                 /\ fixtureFailed' = TRUE
                 /\ UNCHANGED up
  /\ Raise(outcome)
  /\ UNCHANGED <<program, suites, torndownBy, ran>>

SetupDone ==
  /\ phase = "setup" /\ todo = <<>>
  /\ wasSetup' = wasSetup \cup {at}
  /\ phase' = "tests"
  /\ UNCHANGED <<program, at, next, todo, wasTorndown, factory, result, up,
                 ran, fixtureFailed>>

Continues == raising = "no" /\ ~shouldStop /\ Append(at, next) \in Paths

NextTest ==
  /\ phase = "tests" /\ Continues
  /\ at' = Append(at, next)
  /\ phase' = IF IsSuite(at') THEN "enter" ELSE "test"
  /\ UNCHANGED <<program, next, todo, suites, factory, result, up, ran,
                 fixtureFailed>>

RunTest(outcome) ==
  /\ phase = "test"
  /\ ran' = ran \cup {at}
  /\ Raise(outcome)
  /\ Leave
  /\ UNCHANGED <<program, todo, suites, factory, up, fixtureFailed>>

\* NoSharedFixtureContextSuite.run: a timeout in a test, or in a suite below, is
\* added to the result itself, past the proxy, and the loop goes on.  (Ctrl-c is
\* added too, but raised again.)
CatchTimeout ==
  /\ phase = "tests" /\ raising = "timeout"
  /\ raising' = "no"
  /\ UNCHANGED <<program, place, suites, factory, shouldStop, up, ran,
                 fixtureFailed>>

\* Mutant of TeardownOrder: the suite's own context only.
OwnContext(c) == <<c>>
\* The context and those around it, then the context again.
TeardownOrder(c) == Append(Around[c], c)

\* The finally clause: tearDown.
EndTests ==
  /\ phase = "tests" /\ ~Continues /\ raising # "timeout"
  /\ IF at \in wasSetup \ wasTorndown
       THEN /\ wasTorndown' = wasTorndown \cup {at}
            /\ phase' = "teardown" /\ todo' = TeardownOrder(Context(at))
            /\ UNCHANGED <<at, next>>
       ELSE Leave /\ UNCHANGED <<wasTorndown, todo>>
  /\ UNCHANGED <<program, wasSetup, factory, result, up, ran, fixtureFailed>>

\* Mutant of MustTearDown: whoever set it up.
AnySetUp(c) == setupBy[c] # Nobody /\ torndownBy[c] = Nobody
\* The suite that set a context up is the one that tears it down.
MustTearDown(c) == setupBy[c] = at /\ torndownBy[c] = Nobody

SkipTeardown ==
  /\ phase = "teardown" /\ todo # <<>>
  /\ ~MustTearDown(Head(todo)) \/ Shared(Head(todo))
  /\ todo' = Tail(todo)
  /\ UNCHANGED <<program, at, phase, next, suites, factory, result, up, ran,
                 fixtureFailed>>

\* teardownContext.  When it raises, the contexts after it are left as they are.
TeardownContext(outcome) ==
  /\ phase = "teardown" /\ todo # <<>>
  /\ LET c == Head(todo) IN
       /\ MustTearDown(c) /\ ~Shared(c)
       /\ torndownBy' = [torndownBy EXCEPT ![c] = at]
       /\ up' = up \ {c}
  /\ IF outcome = "ok"
       THEN todo' = Tail(todo) /\ UNCHANGED <<at, phase, next, fixtureFailed>>
       ELSE todo' = <<>> /\ Leave /\ fixtureFailed' = TRUE
  /\ Raise(outcome)
  /\ UNCHANGED <<program, suites, setupBy, ran>>

TeardownDone ==
  /\ phase = "teardown" /\ todo = <<>>
  /\ Leave
  /\ UNCHANGED <<program, todo, suites, factory, result, up, ran,
                 fixtureFailed>>

Terminated == phase = "done" /\ UNCHANGED vars

\* Only a worker is sent signals that time a test out, and TestCase.run takes
\* SystemExit for an error.
FixtureEnds == Outcomes \ (IF program.worker THEN {} ELSE {"timeout"})
TestEnds == FixtureEnds \ {"exit"}

Next ==
  \/ Enter \/ SkipSetup \/ SetupDone \/ NextTest \/ EndTests \/ SkipTeardown
  \/ TeardownDone \/ CatchTimeout
  \/ \E o \in FixtureEnds : SetupContext(o) \/ TeardownContext(o)
  \/ \E o \in TestEnds : RunTest(o)
  \/ Terminated

Spec == Init /\ [][Next]_vars

-----------------------------------------------------------------------------
(***************************************************************************)
(* Properties.                                                             *)
(***************************************************************************)
Phases == {"enter", "setup", "tests", "test", "teardown", "done"}

\* Each variable has its type (the program, which never changes, that of Init).
TypeOK ==
  /\ at \in Paths /\ phase \in Phases
  /\ next \in Nat \ {0} /\ todo \in Seq(Contexts)
  /\ wasSetup \subseteq Paths /\ wasTorndown \subseteq wasSetup
  /\ setupBy \in [Contexts -> Paths \cup {Nobody}]
  /\ torndownBy \in [Contexts -> Paths \cup {Nobody}]
  /\ raising \in {"no"} \cup Escapes /\ shouldStop \in BOOLEAN
  /\ up \subseteq Contexts /\ ran \subseteq Paths
  /\ fixtureFailed \in BOOLEAN

\* The suite at path q of program g has tests, and c around them.
Needing(g, q, c) ==
  /\ g.tree[q].suite /\ g.tree[q].context \in Contexts
  /\ Append(q, 1) \in DOMAIN g.tree
  /\ c \in ToSet(Around[g.tree[q].context])

\* The contexts that the factory has grouped: the suites that have one in common
\* lie below a suite that has it too.
Grouped ==
  [g \in Programs |->
     {c \in Contexts : \A q, r \in DOMAIN g.tree :
        Needing(g, q, c) /\ Needing(g, r, c) =>
          \E top \in DOMAIN g.tree :
            Needing(g, top, c) /\ IsPrefix(top, q) /\ IsPrefix(top, r)}]

\* The contexts around the suite or test at path p whose fixtures the run keeps:
\* not those of the parent of a worker, nor those the factory failed to group,
\* where the first suite that has one sets it up and tears it down, and the tests
\* of the others run without it (suite.py:283-287).
Keeps == Grouped[program] \ program.shared
Above(p) == {q \in Paths : IsPrefix(q, p) /\ IsSuite(q) /\ Context(q) # NoContext}
Needs(p) == (UNION {ToSet(Around[Context(q)]) : q \in Above(p)}) \cap Keeps

\* "teardown runs if setup has completed successfully, regardless of the status
\* of the test run": failing tests, --stop, ctrl-c and timeouts in tests leave
\* no fixture up, as long as no fixture raises (writing_tests.rst:25).
TestsLeaveNothingUp == phase = "done" /\ ~fixtureFailed => up = {}

\* A run that nothing cuts short runs every test the command line named, once.
AllTestsRun ==
  phase = "done" /\ raising = "no" /\ ~shouldStop /\ ~fixtureFailed =>
    Cardinality(ran) = program.size

\* As long as no fixture raises, a fixture is up only between the setup and the
\* teardown of those around it, but for those the factory failed to group.
Nested ==
  ~fixtureFailed => \A c \in up : ToSet(Around[c]) \cap Keeps \subseteq up

TestsIn(g) == {q \in DOMAIN g.tree : ~g.tree[q].suite}

\* The run implements what nose promises of fixtures, for those the factory has
\* grouped: at most one setup and one teardown of every fixture in any case.
Fate(c) == IF c \in up THEN "up"
           ELSE IF torndownBy[c] # Nobody THEN "torn"
           ELSE IF setupBy[c] # Nobody THEN "failed" ELSE "down"
AllPaths == UNION {DOMAIN g.tree : g \in Programs}
F == INSTANCE Fixtures WITH
       Tests   <- AllPaths,
       fixture <- [c \in Contexts |-> Fate(c)],
       needs   <- [p \in AllPaths |-> IF p \in Paths THEN Needs(p) ELSE {}]
FixturesKept == F!Spec
=============================================================================
