--------------------------- MODULE MCContextSuite ---------------------------
(***************************************************************************)
(* Command lines of up to MaxNames names over a package p of two modules a *)
(* and b, a class A of module a, a module m outside the package, and a     *)
(* directory that is no package.  Module m holds two subclasses of         *)
(* unittest.TestCase, one of the single test s, one of the tests t and u.  *)
(* No command line names a test twice.                                     *)
(***************************************************************************)
EXTENDS ContextSuite

CONSTANTS p, a, b, A, m, s, t, u,
          MaxNames   \* bound on the length of a command line

Cases == {s, t, u}
MyContexts == {p, a, b, A, m} \cup Cases
ParentOf(c) ==
  CASE c = A -> a [] c \in {a, b} -> p [] c \in Cases -> m [] OTHER -> NoContext
Factory == INSTANCE SuiteFactory WITH Contexts <- MyContexts,
                                      Parent <- [c \in MyContexts |-> ParentOf(c)]
MyAround == [c \in MyContexts |-> <<c>> \o Factory!ancestry(c)]

\* What loadTestsFromName returns for each name.  The suite of a class or module
\* has its context given; that of a TestCase has to find it.
Test(n) == [context |-> NoContext, name |-> n]
Case(c) == [context |-> c, name |-> c]
Class   == Factory!makeSuite(<<Test("A.t")>>, A)
ModuleA == Factory!makeSuite(<<Class, Test("a.t")>>, a)
ModuleB == Factory!makeSuite(<<Test("b.t")>>, b)
ModuleM == Factory!makeSuite(<<Factory!Suite(<<Case(s)>>),
                               Factory!Suite(<<Case(t), Case(u)>>), Test("m.t")>>, m)
Loaded == [package   |-> Factory!makeSuite(<<ModuleA, ModuleB>>, p),
           moduleA   |-> ModuleA, moduleB |-> ModuleB, moduleM |-> ModuleM,
           classA    |-> Factory!makeSuite(<<Class>>, a),
           directory |-> Factory!makeSuite(<<ModuleM>>, NoContext)]

TestNames(l) == FlattenSeq([i \in DOMAIN l |-> Factory!Names(Loaded[l[i]])])
Lines == UNION {[1 .. n -> DOMAIN Loaded] : n \in 1 .. MaxNames}
CommandLines == {l \in Lines : IsInjective(TestNames(l))}

Program(l, stop, worker, shared) ==
  [line |-> l,
   tree |-> Factory!Flat(Factory!Suite([i \in DOMAIN l |-> Loaded[l[i]]])),
   size |-> Len(TestNames(l)),
   stopOnError |-> stop, worker |-> worker, shared |-> shared]

\* A worker loads one name at a time.
MyPrograms ==
  {Program(l, FALSE, FALSE, {}) : l \in CommandLines} \cup
  {Program(<<n>>, TRUE, FALSE, {}) : n \in DOMAIN Loaded} \cup
  {Program(<<n>>, stop, TRUE, c) :
     n \in DOMAIN Loaded, stop \in BOOLEAN, c \in {{}, {p}}}

\* A directory that is no package ends the grouping (suite.py:505): two names after
\* it that have c in common are not grouped, unless one before it has c too.
Split(l, c) ==
  \E i, j, k \in DOMAIN l :
    /\ i < j /\ j < k
    /\ Loaded[l[i]].context = NoContext
    /\ Factory!Within(Loaded[l[j]], c) /\ Factory!Within(Loaded[l[k]], c)
    /\ \A h \in 1 .. i - 1 : ~Factory!Within(Loaded[l[h]], c)

\* What mixedSuites is for: in the tree of every command line the suites that have
\* a context in common lie below one of that context, but for those a directory
\* splits, and no test is lost or repeated on the way.
FactoryGroups ==
  phase = "enter" /\ at = <<>> =>
    /\ \A c \in Contexts : c \in Grouped[program] <=> ~Split(program.line, c)
    /\ program.size = Cardinality(TestsIn(program))
=============================================================================
