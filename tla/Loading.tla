------------------------------ MODULE Loading ------------------------------
(***************************************************************************)
(* What is loaded from inside a module and how it reaches the processes    *)
(* that run it: loader.py below a module, the test cases of case.py, the   *)
(* doctest and collect-only plugins, and collect, nextBatch and addtask of *)
(* plugins/multiprocess.py.  Everything is loaded by one process; with     *)
(* worker processes the parent cuts the suite into tasks, each a name,     *)
(* which a worker loads again.                                             *)
(***************************************************************************)
EXTENDS Names, Selection

CONSTANTS
  M, L,          \* the module that is loaded, and one it imports from
  Obj,           \* Obj[o]: functions, classes and methods (see MCLoading)
  Order,         \* the attribute names in alphabetical order
  WorkingDir,
  Inputs         \* what Init chooses from: a record of the input variables

VARIABLES
  mode,          \* "serial", "collect" or "processes"
  conf,          \* the options, see Selection
  mod, ns,       \* M: its flags, and the object each of its attributes is
  classes,       \* flags of the classes
  command,       \* what is asked for: [name, call]
  cwd,           \* the current directory
  tree,          \* what has been loaded
  agenda,        \* suites and tests the parent has still to look at
  marked,        \* contexts collect has made splittable
  up,            \* contexts the parent has set up
  tasks, given,  \* names in the queue; history: what each stands for
  reported,      \* history: tests run, with the contexts up around each
  crashed,       \* an exception has ended the dispatch
  phase

input == <<mode, conf, mod, ns, classes, command, cwd>>
dispatch == <<agenda, marked, up, crashed>>
vars == <<input, tree, dispatch, tasks, given, reported, phase>>

\* Op of the value of e, which is computed once.
With(e, Op(_)) == CHOOSE r \in {Op(x) : x \in {e}} : TRUE

-----------------------------------------------------------------------------
(* Tests and suites.  A context is <<module>>, <<module, object>> or       *)
(* <<module, class, member>>; one of a test object that is itself a test   *)
(* of nose begins with "nose".  <<>> is no context.                        *)

Test(kind, of, arg) == [kind |-> kind, of |-> of, arg |-> arg]
Suite(ctx, kids) == [suite |-> TRUE, ctx |-> ctx, kids |-> kids, split |-> TRUE, test |-> Test("none", <<>>, 0)]
Whole(ctx, kids) == [Suite(ctx, kids) EXCEPT !.split = FALSE]
\* nose.case.Test: its context is the test case it wraps.
Leaf(test, ctx) == [suite |-> FALSE, ctx |-> ctx, kids |-> <<>>, split |-> TRUE, test |-> test]

FunctionTestCase(of, arg) == Leaf(Test("nose", of, arg), <<"nose", "function">>)
MethodTestCase(of, arg) == Leaf(Test("nose", of, arg), <<"nose", "method">>)
DocTestCase(of) == Leaf(Test("doctest", of, 0), <<"nose", "doctest">>)
\* What could not be loaded; only some of them have an address.
Failure(of) == Leaf(Test("failure", of, 0), <<"nose", "failure">>)
AddressedFailure(a) == Leaf(Test("failure", <<>>, 0), <<"nose", "failure", a>>)

\* ancestry of a context: the modules it is in; not the class of a method.
ancestry(ctx) == IF Len(ctx) > 1 THEN <<<<ctx[1]>>>> ELSE <<>>

\* The suite factory for tests without a common context.  It starts with the
\* first test; the others, grouped already, share the module with it.
RECURSIVE Grouped(_)
Grouped(tests) ==
  IF tests = <<>> THEN Suite(<<>>, <<>>)
  ELSE IF Len(tests) = 1 THEN Suite(tests[1].ctx, tests)
  ELSE LET rest == IF Len(tests) = 2 THEN tests[2] ELSE Grouped(Tail(tests))
       IN Suite(ancestry(tests[1].ctx)[1], <<tests[1], rest>>)
\* What is given as one test and one suite is a suite without context around it.
Mixed(tests) == IF Len(tests) > 1 THEN Suite(<<>>, <<Grouped(tests)>>) ELSE Grouped(tests)

dir(attributes) == SelectSeq(Order, LAMBDA n : n \in DOMAIN attributes)
\* What a class holds; a function there is taken for an unbound method of it.
Members(cls) == Obj[cls].members
MapSeq(s, Op(_)) == [i \in DOMAIN s |-> Op(s[i])]

-----------------------------------------------------------------------------
(* Doctests.                                                               *)

\* Mutant of doctestMatches: test modules are searched without being asked.
doctestMatchesAll(m) == ~(conf.exclude /\ m.name \in Excluded)
doctestMatches(m) ==
  /\ conf.doctest_tests \/ m.name \notin Matching \/ (conf.include /\ m.name \in Included)
  /\ ~(conf.exclude /\ m.name \in Excluded)

\* The doctests of an object: its own, and those of its methods.
Doctests(o) ==
  MapSeq(SelectSeq(<<o>> \o MapSeq(dir(Members(o)), LAMBDA n : Members(o)[n]), LAMBDA x : Obj[x].doc), LAMBDA x : DocTestCase(<<x>>))

\* A module that declares __test__ is skipped with an AttributeError; what it
\* imports is not searched.
DoctestLoadTestsFromModule ==
  LET own == SelectSeq(dir(ns), LAMBDA n : Obj[ns[n]].home = M)
      cases == FlattenSeq(MapSeq(own, LAMBDA n : Doctests(ns[n])))
  IN IF conf.doctests /\ doctestMatches(mod) /\ mod.declared = "none" /\ cases # <<>>
       THEN <<Whole(<<M>>, cases)>> ELSE <<>>

-----------------------------------------------------------------------------
(* The loader below a module.  home is the module a class appears to be in.*)

\* The test of what is yielded: f of a generator in a module or in a class.
FromGenerator(f, cls, i) ==
  IF cls = "" THEN FunctionTestCase(<<f>>, i) ELSE MethodTestCase(<<cls, f>>, i)

\* What a generator yields, up to the first thing that is no test.
RECURSIVE Yields(_, _, _, _)
Yields(g, attributes, cls, i) ==
  IF i > Len(Obj[g].yields) THEN <<>>
  ELSE LET y == Obj[g].yields[i]
           Rest == Yields(g, attributes, cls, i + 1)
       IN CASE y.what = "callable" -> <<FromGenerator(y.to, cls, i)>> \o Rest
            [] y.what = "name" /\ y.to \in DOMAIN attributes ->
                 <<FromGenerator(attributes[y.to], cls, i)>> \o Rest
            [] OTHER -> <<Failure(<<g>>)>>

loadTestsFromGenerator(g) == Whole(<<M, g>>, Yields(g, ns, "", 1))
loadTestsFromGeneratorMethod(g, cls, home) ==
  Whole(<<home, cls, g>>, Yields(g, Members(cls), cls, 1))

\* makeTest of a method; it is looked up again in the instance by its name.
makeTestOfMethod(m, cls, home) ==
  LET found == Members(cls)[Obj[m].name]
  IN IF conf.doctests /\ Obj[m].doc THEN Mixed(<<DocTestCase(<<m>>)>>)
     ELSE IF Obj[m].name \notin DOMAIN Members(cls) THEN Failure(<<cls, m>>)
     ELSE IF Obj[cls].kind = "case" THEN Leaf(Test("case", <<cls, found>>, 0), <<home, cls, found>>)
     ELSE IF Obj[m].kind = "generator" THEN loadTestsFromGeneratorMethod(found, cls, home)
     ELSE MethodTestCase(<<cls, found>>, 0)

WantedMethods(cls) ==
  SelectSeq(dir(Members(cls)),
    LAMBDA n : /\ Obj[Members(cls)[n]].kind \in {"function", "generator"}
               /\ wantMethod(conf, Obj[cls], Obj[Members(cls)[n]]))

getTestCaseNames(cls) ==
  IF WantedMethods(cls) = <<>> /\ "runTest" \in DOMAIN Members(cls) THEN <<"runTest">> ELSE WantedMethods(cls)
loadTestsFromTestCase(cls, home) ==
  Mixed(MapSeq(getTestCaseNames(cls),
    LAMBDA n : Leaf(Test("case", <<cls, Members(cls)[n]>>, 0), <<home, cls, Members(cls)[n]>>)))
loadTestsFromTestClass(cls, home) ==
  Suite(<<home, cls>>, MapSeq(WantedMethods(cls), LAMBDA n : makeTestOfMethod(Members(cls)[n], cls, home)))

\* makeTest of what a module holds; what is imported is transplanted into M.
makeTest(o) ==
  IF conf.doctests /\ Doctests(o) # <<>> THEN Mixed(Doctests(o))
  ELSE CASE Obj[o].kind = "case" -> loadTestsFromTestCase(o, M)
         [] Obj[o].kind = "class" -> loadTestsFromTestClass(o, M)
         [] Obj[o].kind = "generator" -> loadTestsFromGenerator(o)
         [] Obj[o].kind = "function" -> FunctionTestCase(<<o>>, 0)
         [] OTHER -> Failure(<<o>>)

Position(n) == CHOOSE i \in DOMAIN Order : Order[i] = n

loadTestsFromModule(discovered) ==
  LET objects == MapSeq(dir(ns), LAMBDA n : ns[n])
      test_classes == SelectSeq(objects, LAMBDA o : Obj[o].kind \in {"case", "class"} /\ wantClass(conf, Obj[o]))
      test_funcs == SelectSeq(objects, LAMBDA o : Obj[o].kind \in {"function", "generator"} /\ wantFunction(conf, Obj[o]))
      tests == SortSeq(test_classes, LAMBDA a, b : Position(Obj[a].name) < Position(Obj[b].name))
               \o SortSeq(test_funcs, LAMBDA a, b : Obj[a].line < Obj[b].line)
  IN Suite(<<M>>, (IF ~discovered \/ wantModule(conf, mod) THEN MapSeq(tests, makeTest) ELSE <<>>)
                  \o DoctestLoadTestsFromModule)

Lost == Grouped(<<Failure(<<>>)>>)
Unloadable(a) == Grouped(<<AddressedFailure(a)>>)

\* Mutant of HomeOf: a class stays in the module it was imported from.
HomeOfOrigin(cls) == Obj[cls].home
\* A class named on the command line is transplanted like one that is found.
HomeOf(cls) == M

\* loadTestsFromName within M: call is the sequence of names resolve follows.
loadTestsFromCall(call) ==
  LET cls == ns[call[1]]
  IN CASE call = <<>> -> loadTestsFromModule(FALSE)
       [] call[1] \notin DOMAIN ns -> Lost
       [] Len(call) = 1 -> Suite(<<M>>, <<makeTest(cls)>>)
       [] Len(call) = 2 /\ call[2] \in DOMAIN Members(cls) ->
            Suite(<<HomeOf(cls), cls>>, <<makeTestOfMethod(Members(cls)[call[2]], cls, HomeOf(cls))>>)
       [] OTHER -> Lost

\* The names of a callable, out of a test name.
Names(call) == IF call = <<>> THEN <<>> ELSE MapSeq(Split(call, "."), LAMBDA part : part[1])

\* A file that is no module: doctests, if its extension is one of theirs.
loadTestsFromFile ==
  IF ~(conf.doctests /\ conf.doctestExtension /\ mod.extension) THEN Unloadable(Address(mod.file, <<>>, <<>>))
  ELSE IF mod.examples THEN Mixed(<<DocTestCase(<<>>)>>)
  ELSE Suite(<<>>, <<>>)
loadTestsFromPath(discovered) == IF mod.py THEN loadTestsFromModule(discovered) ELSE loadTestsFromFile

\* A directory is searched; a name is resolved to the module and what is in it.
Loaded(addr) ==
  IF addr.file = mod.dir /\ addr.module = <<>> /\ addr.call = <<>>
    THEN Suite(<<>>, IF wantDirectory(conf, mod.inner) /\ wantFile(conf, mod) THEN <<loadTestsFromPath(TRUE)>> ELSE <<>>)
  ELSE IF addr = Address(mod.file, <<>>, <<>>) THEN loadTestsFromFile
  ELSE IF addr.module # mod.module THEN Unloadable(addr)
  ELSE loadTestsFromCall(Names(addr.call))

\* loadTestsFromNames: one more suite around it.
Top(s) == Suite(s.ctx, <<s>>)
loadTestsFromName(name, wd) == With(Loaded(TestAddress(name, WorkingDir, wd)), Top)

\* The tests of a tree in order, with the contexts set up around each.
RECURSIVE Leaves(_, _)
Leaves(node, around) ==
  IF ~node.suite THEN <<[test |-> node.test, up |-> around]>>
  ELSE LET inner == IF node.ctx = <<>> THEN around ELSE around \cup {node.ctx} \cup ToSet(ancestry(node.ctx))
       IN FlattenSeq([i \in DOMAIN node.kids |-> Leaves(node.kids[i], inner)])

-----------------------------------------------------------------------------
(* Cutting the suite into tasks.                                           *)

\* Does a context have a fixture of its own?  A test case has a setUp always.
implementsAnyFixture(ctx) ==
  CASE ctx = <<M>> -> mod.fixtures
    [] ctx = <<L>> -> TRUE
    [] ctx[1] = "nose" -> Len(ctx) > 1 /\ ctx[2] \in {"doctest", "failure"}
    [] Len(ctx) = 2 /\ ctx[1] # "nose" -> Obj[ctx[2]].kind \in {"case", "class"} /\ classes.fixtures
    [] Len(ctx) = 3 /\ ctx[1] # "nose" -> Obj[ctx[2]].kind = "case"
    [] OTHER -> FALSE

\* The flags of a context; a test case has those of its class.
OfClass(ctx) ==
  /\ Len(ctx) > 1 /\ ctx[1] # "nose"
  /\ Obj[ctx[2]].kind = "case" \/ (Obj[ctx[2]].kind = "class" /\ Len(ctx) = 2)
Shared(ctx) == (ctx = <<M>> /\ mod.shared) \/ (OfClass(ctx) /\ classes.shared)
CanSplit(ctx) == ctx \in marked \/ (ctx = <<M>> /\ mod.canSplit) \/ (OfClass(ctx) /\ classes.canSplit)

checkCanSplit(ctx) == implementsAnyFixture(ctx) /\ ~CanSplit(ctx)
hasFixtures(ctx) == ctx # <<>> /\ \E a \in {ctx} \cup ToSet(ancestry(ctx)) : checkCanSplit(a)

\* What goes to a worker as one: a test, or a suite with fixtures around it.
Batch(node) == ~node.suite \/ ~node.split \/ hasFixtures(node.ctx)
\* A suite around one thing of the same context stands for that.
Unwrapped(node) ==
  IF node.suite /\ Len(node.kids) = 1 /\ node.kids[1].ctx = node.ctx THEN node.kids[1] ELSE node

\* The name of a batch: a test case of unittest has one, a suite that of its
\* context, a text file of doctests or a failure perhaps its own.  A test of
\* nose or doctest is run when it is asked for its name.
Nameless(node) ==
  IF node.suite THEN node.ctx = <<"nose", "failure">> ELSE node.test.kind \in {"nose", "doctest"}
AddressOf(ctx) ==
  IF ctx[1] = "nose" THEN IF Len(ctx) = 3 THEN ctx[3] ELSE test_address(mod.file, <<>>, <<>>)
  ELSE IF ctx[1] = L THEN test_address(<<>>, <<L>>, <<>>)
  ELSE test_address(mod.file, mod.module, Joined([i \in 1..Len(ctx) - 1 |-> <<Obj[ctx[i + 1]].name>>], "."))

Marked(ctx) == marked \cup {a \in {ctx} \cup ToSet(ancestry(ctx)) : Shared(a)}

Load ==
  /\ phase = "begin"
  /\ tree' = loadTestsFromName(command.name, cwd)
  /\ phase' = IF mode = "processes" THEN "collect" ELSE "run"
  /\ agenda' = IF mode = "processes" THEN <<[node |-> tree', again |-> FALSE]>> ELSE <<>>
  /\ UNCHANGED <<input, marked, up, crashed, tasks, given, reported>>

\* One process runs the suite; with --collect-only every test passes unrun, and
\* nothing is set up.
Run ==
  /\ phase = "run"
  /\ reported' = IF mode = "serial" THEN Leaves(tree, {})
                 ELSE MapSeq(Leaves(tree, {}), LAMBDA r : [r EXCEPT !.up = {}])
  /\ phase' = "done"
  /\ UNCHANGED <<input, tree, dispatch, tasks, given>>

\* collect and nextBatch, for what comes next.
Todo == Head(agenda).node
Collecting == phase = "collect" /\ agenda # <<>> /\ ~crashed
Unsafe == Todo.ctx = <<M>> /\ mod.notSafe
YieldsBatch == Collecting /\ ~Unsafe /\ Batch(Todo)
Batched == Unwrapped(Todo)

\* A context that is not safe for this is left out, with everything in it.
LeaveOut ==
  /\ Collecting
  /\ Unsafe
  /\ agenda' = Tail(agenda)
  /\ UNCHANGED <<input, tree, marked, up, crashed, tasks, given, reported, phase>>

Open ==
  /\ Collecting
  /\ ~Unsafe
  /\ ~Batch(Todo)
  /\ agenda' = MapSeq(Todo.kids, LAMBDA k : [node |-> k, again |-> FALSE]) \o Tail(agenda)
  /\ UNCHANGED <<input, tree, marked, up, crashed, tasks, given, reported, phase>>

RunFailure ==
  /\ YieldsBatch
  /\ Batched.test.kind = "failure"
  /\ reported' = Append(reported, [test |-> Batched.test, up |-> up])
  /\ agenda' = Tail(agenda)
  /\ UNCHANGED <<input, tree, marked, up, crashed, tasks, given, phase>>

\* The parent sets up what is shared, with the module around it, and goes on
\* below it.  A suite that is its own batch once more would be collected without
\* end.
sharedFixtures(case) == case.suite /\ case.ctx # <<>> /\ Shared(case.ctx)
SetUps == IF Batched.kids = <<>> THEN {} ELSE {Batched.ctx} \cup ToSet(ancestry(Batched.ctx))
ShareFixtures ==
  /\ YieldsBatch
  /\ sharedFixtures(Batched)
  /\ up' = up \cup SetUps
  /\ marked' = Marked(Batched.ctx)
  /\ agenda' = <<[node |-> Batched, again |-> TRUE]>> \o Tail(agenda)
  /\ crashed' = (Batched = Todo /\ Head(agenda).again)
  /\ UNCHANGED <<input, tree, tasks, given, reported, phase>>

\* One of these fixtures raises: an error of the suite, and nothing in it is
\* dispatched.
SetUpFails ==
  /\ YieldsBatch
  /\ sharedFixtures(Batched)
  /\ \E ctx \in SetUps \ up :
       /\ implementsAnyFixture(ctx)
       /\ up' = up \cup (ToSet(ancestry(Batched.ctx)) \ {ctx})
  /\ reported' = Append(reported, [test |-> Test("error", Batched.ctx, 0), up |-> up])
  /\ agenda' = Tail(agenda)
  /\ UNCHANGED <<input, tree, marked, crashed, tasks, given, phase>>

addtask ==
  /\ YieldsBatch
  /\ Batched.test.kind # "failure"
  /\ ~sharedFixtures(Batched)
  /\ IF Nameless(Batched) THEN crashed' = TRUE /\ UNCHANGED <<tasks, given>>
     ELSE \E a \in {AddressOf(Batched.ctx)} :
            /\ tasks' = Append(tasks, address(a))
            /\ given' = Append(given, a)
            /\ UNCHANGED crashed
  /\ agenda' = Tail(agenda)
  /\ UNCHANGED <<input, tree, marked, up, reported, phase>>

StartWorkers ==
  /\ phase = "collect"
  /\ agenda = <<>> /\ ~crashed
  /\ phase' = "work"
  /\ UNCHANGED <<input, tree, dispatch, tasks, given, reported>>

\* A worker loads a task and runs it; what is shared it does not set up.
InWorker(leaf) == [leaf EXCEPT !.up = {ctx \in @ : ~Shared(ctx)}]
Work ==
  /\ phase = "work"
  /\ tasks # <<>>
  /\ \E loaded \in {loadTestsFromName(Head(tasks), cwd)} :
       reported' = reported \o MapSeq(Leaves(loaded, {}), InWorker)
  /\ tasks' = Tail(tasks)
  /\ given' = Tail(given)
  /\ UNCHANGED <<input, tree, dispatch, phase>>

Finish ==
  /\ phase = "work" /\ tasks = <<>>
  /\ phase' = "done"
  /\ UNCHANGED <<input, tree, dispatch, tasks, given, reported>>

Init ==
  /\ \E i \in Inputs :
       /\ mode = i.mode /\ conf = i.conf /\ mod = i.mod /\ ns = i.ns
       /\ classes = i.classes /\ command = i.command /\ cwd = i.cwd
  /\ tree = Suite(<<>>, <<>>) /\ agenda = <<>> /\ marked = {} /\ up = {}
  /\ tasks = <<>> /\ given = <<>> /\ reported = <<>> /\ crashed = FALSE /\ phase = "begin"

Next == \/ Load \/ Run
        \/ LeaveOut \/ Open \/ RunFailure \/ ShareFixtures \/ SetUpFails \/ addtask
        \/ StartWorkers \/ Work \/ Finish

Spec == Init /\ [][Next]_vars

-----------------------------------------------------------------------------
(* Properties.                                                             *)

Reported == [i \in DOMAIN reported |-> reported[i].test]
Times(test, tests) == Cardinality({i \in DOMAIN tests : tests[i] = test})
Done == phase = "done"

TypeOK ==
  /\ Len(tasks) = Len(given)
  /\ \A ctx \in marked : Shared(ctx)
  /\ crashed => phase = "collect"

\* What documentation and options call a test: by name or __test__, a method
\* only of a test class, and only what fulfils the attributes (-a).
Fits(own, cls) == conf.attribs = <<>> \/ \E g \in ToSet(conf.attribs) : \A r \in ToSet(g) : Fulfils(r, own, cls)
Named(x) ==
  \/ x.declared = "yes"
  \/ x.declared = "none" /\ x.name \notin Private /\ (x.kind = "case" \/ matches(conf, x.name))
Chosen(x) == IF OtherPlugin(conf, x.name) = "none" THEN Named(x) ELSE conf.other = "yes"
InNamespace == {ns[n] : n \in DOMAIN ns}
SelectedFunctions(kind) == {f \in InNamespace : Obj[f].kind = kind /\ Fits(Obj[f].tags, <<>>) /\ Chosen(Obj[f])}
SelectedMethods(c, kinds) ==
  {m \in {Members(c)[n] : n \in DOMAIN Members(c)} :
     /\ Obj[m].kind \in kinds /\ Obj[m].name \notin Private
     /\ Fits(Obj[m].tags, Obj[c].tags) /\ Chosen(Obj[m])}
TestClasses(kind) == {c \in InNamespace : Obj[c].kind = kind /\ Chosen(Obj[c])}

\* Serially, or only collected, a module runs the functions and the methods that
\* are selected, each once, in the module that was asked for; generators run as
\* often as they yield, test cases without another test their runTest.
RunsSelected ==
  Done /\ mode # "processes" /\ command.call = <<>> /\ mod.py /\ ~command.discover /\ ~conf.doctests =>
    LET plain == {r \in ToSet(Reported) : r.arg = 0 /\ r.kind # "failure"}
        both == {"function", "generator"}
    IN /\ {r.of : r \in plain} =
            {<<f>> : f \in SelectedFunctions("function")}
            \cup UNION {{<<c, m>> : m \in SelectedMethods(c, {"function"})} : c \in TestClasses("class")}
            \cup UNION {{<<c, m>> : m \in SelectedMethods(c, both)} : c \in TestClasses("case")}
            \cup {<<c, Members(c)["runTest"]>> : c \in {t \in TestClasses("case") :
                     "runTest" \in DOMAIN Members(t) /\ SelectedMethods(t, both) = {}}}
       /\ \A r \in plain : Times(r, Reported) = 1

\* What keeps the parent from dispatching anything: a function or a method of a
\* plain class that no fixture or generator around it makes part of a larger task,
\* for to ask it for its name runs it (case.py:93); and a callable that is not
\* found, whose suite has no name.
Indivisible(ctx) ==
  \/ checkCanSplit(ctx) /\ ~Shared(ctx)
  \/ Last(ctx) \in DOMAIN Obj /\ Obj[Last(ctx)].kind = "generator"
Undispatchable(leaf) ==
  \/ leaf.test.kind = "nose" /\ \A ctx \in leaf.up : ~Indivisible(ctx)
  \/ <<"nose", "failure">> \in leaf.up

\* Worker processes run the same tests as one process, each as often
\* (multiprocess.py:48, "dispatched to run in parallel"); of a single name only
\* when nothing around it has fixtures, else all around it is run; and nothing
\* within shared fixtures that raised.  That is so of the dispatches that come
\* to an end, mostly those of test cases and of modules and classes with
\* fixtures: where there is a test that is undispatchable, and only there, the
\* program ends before a worker is started, with nothing but failures reported.
Alone == command.call = <<>> \/ (Len(command.call) = 1 /\ (~mod.fixtures \/ mod.shared \/ mod.canSplit))
SetUpFailed == {r.test.of : r \in {x \in ToSet(reported) : x.test.kind = "error"}}
SameTests ==
  mode = "processes" /\ Alone /\ ~conf.doctests /\ ~mod.notSafe =>
    \E all \in {SelectSeq(Leaves(tree, {}), LAMBDA r : r.up \cap SetUpFailed = {})} :
      /\ Done =>
           /\ \A leaf \in ToSet(all) : ~Undispatchable(leaf)
           /\ \E ran \in {SelectSeq(Reported, LAMBDA t : t.kind # "error")}, tests \in {MapSeq(all, LAMBDA r : r.test)} :
                \A t \in ToSet(tests) \cup ToSet(ran) : Times(t, tests) = Times(t, ran)
      /\ crashed =>
           /\ \E leaf \in ToSet(all) : Undispatchable(leaf)
           /\ \A t \in ToSet(Reported) : t.kind \in {"failure", "error"}

\* Nobody sets up what is marked shared and splittable at once, nor what is shared
\* where the parent does not come to it: a class in a module that goes to a worker
\* as a whole, the module of a single method.
SharedUnseen ==
  /\ mode = "processes"
  /\ \/ mod.shared /\ (mod.canSplit \/ Len(command.call) = 2)
     \/ classes.shared /\ (classes.canSplit \/ (mod.fixtures /\ ~mod.shared /\ ~mod.canSplit))

\* Every test runs while the fixtures of its module are up, and of its class,
\* also when the class was imported; shared ones are up in the parent only
\* (multiprocess.py:47, "will then execute in the primary nose process").
FixturesUp ==
  /\ TypeOK
  /\ Done /\ mode # "collect" /\ ~SharedUnseen =>
       \A i \in DOMAIN reported :
         LET r == reported[i]
             class == {<<M, c>> : c \in {r.test.of[j] : j \in 1..(Len(r.test.of) - 1)}}
         IN r.test.kind \in {"nose", "case"} =>
              /\ <<M>> \in r.up \cup up
              /\ r.test.kind = "nose" => class \subseteq r.up \cup up
              /\ mode = "processes" => \A ctx \in r.up : ~Shared(ctx)

\* A name in the queue of tasks leads a worker to what it was made for.
TasksRoundTrip ==
  \A i \in DOMAIN tasks :
    LET back == TestAddress(tasks[i], WorkingDir, cwd)
    IN back.module = given[i].module /\ back.call = given[i].call

\* However a module is named - by file, by directory, or dotted - it is found, when
\* the program runs in its working directory; only a missing callable is not.
SpellingsAgree ==
  phase # "begin" /\ ~command.discover /\ mod.py /\ cwd = WorkingDir =>
    LET addr == TestAddress(command.name, WorkingDir, cwd)
    IN addr.module = mod.module /\ Names(addr.call) = command.call

\* Names, wherever they are made or written, say what is meant: both of these
\* (util.py:327 split_test_name, multiprocess.py:546 address).
NamesLead == TasksRoundTrip /\ SpellingsAgree

\* With the doctest plugin the examples of a module's own objects are run once,
\* those of a test module only when asked for (doctests.py:138, --doctest-tests),
\* if no test has examples (:139, "either doctests or non-doctest tests, not both").
Wanted(o) == IF Obj[o].kind \in {"function", "generator"} THEN wantFunction(conf, Obj[o]) ELSE wantClass(conf, Obj[o])
DoctestsOnce ==
  Done /\ mode = "serial" /\ mod.py /\ command.call = <<>> /\ conf.doctests /\ mod.declared = "none"
       /\ (\A o \in InNamespace : Wanted(o) => Doctests(o) = <<>>)
       /\ ~(command.discover /\ (mod.ignored \/ mod.executable \/ ~wantDirectory(conf, mod.inner))) =>
    LET examples == {d.test : d \in UNION {ToSet(Doctests(o)) : o \in {x \in InNamespace : Obj[x].home = M}}}
        ran == {r \in ToSet(Reported) : r.kind = "doctest"}
        asked == conf.doctest_tests \/ (conf.include /\ mod.name \in Included) \/ mod.name \notin Matching
    IN /\ ran = IF asked /\ ~(conf.exclude /\ mod.name \in Excluded) THEN examples ELSE {}
       /\ \A t \in ran : Times(t, Reported) = 1
=============================================================================
