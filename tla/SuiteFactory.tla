---------------------------- MODULE SuiteFactory ----------------------------
(***************************************************************************)
(* ContextSuiteFactory of nose/suite.py: how the suites loaded for the     *)
(* names on the command line become one tree, in which the suites that     *)
(* share a package or a module lie below a suite of that context.          *)
(*                                                                         *)
(* A test is [context, name]; a suite is [context, tests].  The context of *)
(* a test is the test case it wraps.  A directory that is no package loads *)
(* as a LazySuite, whose context is NoContext.                             *)
(***************************************************************************)
EXTENDS Integers, FiniteSets, Sequences, SequencesExt

CONSTANTS
  Contexts,   \* packages, modules, classes and test cases
  NoContext,  \* context of a suite that has none
  Parent      \* the module of a class or of a test case, the package of a module,
              \* or NoContext

IsSuite(item) == "tests" \in DOMAIN item

\* The contexts around c, the outermost last.
RECURSIVE ancestry(_)
ancestry(c) ==
  IF Parent[c] = NoContext THEN <<>>
                           ELSE <<Parent[c]>> \o ancestry(Parent[c])

makeSuite(tests, c) == [context |-> c, tests |-> tests]

\* Mutant of Within: only a suite of that very context.
ExactlyWithin(item, c) == item.context = c
\* c is the context of item or one around it.
Within(item, c) ==
  /\ item.context # NoContext
  /\ item.context = c \/ c \in ToSet(ancestry(item.context))

\* Mutant of Remains: only what has no context stays behind.
Alone(item, c) == item.context = NoContext
Remains(item, c) == ~Within(item, c)

\* For each context of the first test, innermost first, a suite of what has that
\* context in common with it; the same for what remains.
RECURSIVE mixedSuites(_)
Gather(acc, c) ==
  LET common == <<acc.suite>> \o SelectSeq(acc.tail, LAMBDA i : Within(i, c))
      remain == SelectSeq(acc.tail, LAMBDA i : Remains(i, c))
  IN  [suite |-> IF Len(common) > 1 THEN makeSuite(common, c) ELSE acc.suite,
       tail  |-> mixedSuites(remain)]
mixedSuites(tests) ==
  IF Len(tests) < 2
    THEN tests
    ELSE LET head == Head(tests)
             around == IF head.context = NoContext THEN <<>>
                       ELSE <<head.context>> \o ancestry(head.context)
             grouped == FoldLeft(Gather, [suite |-> head, tail |-> Tail(tests)],
                                 around)
         IN  <<grouped.suite>> \o grouped.tail

\* The contexts findContext sees: tests and suites without one are passed over.
Found(tests) == {tests[i].context : i \in DOMAIN tests} \ {NoContext}

\* __call__ on a list of suites: one context is that of the whole, two or more
\* are mixed.
Suite(tests) ==
  CASE Found(tests) = {} -> makeSuite(tests, NoContext)
    [] Cardinality(Found(tests)) = 1 ->
         makeSuite(tests, CHOOSE c \in Found(tests) : TRUE)
    [] OTHER -> makeSuite(mixedSuites(tests), NoContext)

\* A tree as a function from paths: <<>> is the root and <<2, 1>> the first test
\* of the second test of the root.
RECURSIVE Paths(_)
Paths(item) ==
  {<<>>} \cup
    IF IsSuite(item)
      THEN UNION {{<<i>> \o p : p \in Paths(item.tests[i])} :
                    i \in DOMAIN item.tests}
      ELSE {}
ItemAt(item, path) == FoldLeft(LAMBDA x, i : x.tests[i], item, path)
Flat(item) ==
  [p \in Paths(item) |->
     LET x == ItemAt(item, p)
     IN  [context |-> x.context, suite |-> IsSuite(x)]]

RECURSIVE Names(_)
Names(item) ==
  IF IsSuite(item)
    THEN FlattenSeq([i \in DOMAIN item.tests |-> Names(item.tests[i])])
    ELSE <<item.name>>
=============================================================================
