------------------------- MODULE ContextSuiteProofs -------------------------
(***************************************************************************)
(* Theorems of ContextSuite.  For every tree of suites: its types, and     *)
(* that a run in which no fixture raises leaves none up.  For every tree   *)
(* whose suites are grouped: the run implements Fixtures, and fixtures     *)
(* nest.  For every tree that holds what the command line named: a run     *)
(* that nothing cuts short runs every test.                                *)
(***************************************************************************)
EXTENDS ContextSuite, DataInduction

HasContext(q) == IsSuite(q) /\ Context(q) \in Contexts

\* The place of the run: a suite with a context wherever fixtures are looked at.
Placed ==
  /\ program \in Programs
  /\ phase \in {"enter", "setup", "tests", "teardown"} => IsSuite(at)
  /\ phase \in {"setup", "teardown"} => HasContext(at)
  /\ phase = "done" => at = <<>>
  /\ \A q \in wasSetup : HasContext(q)

Typing == TypeOK /\ Placed

-----------------------------------------------------------------------------
(***************************************************************************)
(* Paths.                                                                  *)
(***************************************************************************)
Path == Seq(Nat \ {0})

LEMMA PathFacts ==
  ASSUME program \in Programs
  PROVE  /\ Paths \subseteq Path /\ <<>> \in Paths /\ IsSuite(<<>>)
         /\ Nobody \notin Paths
         /\ \A q \in Paths : IsSuite(q) \in BOOLEAN
         /\ \A q \in Paths : IsSuite(q) => Context(q) \in Contexts \cup {NoContext}
         /\ \A q \in Paths : q # <<>> =>
              /\ Front(q) \in Paths /\ IsSuite(Front(q))
              /\ Last(q) + 1 \in Nat \ {0}
<1>1. /\ Paths \subseteq Path /\ <<>> \in Paths /\ IsSuite(<<>>)
      /\ \A q \in Paths : IsSuite(q) \in BOOLEAN
      /\ \A q \in Paths : IsSuite(q) => Context(q) \in Contexts \cup {NoContext}
      /\ \A q \in Paths : q # <<>> => Front(q) \in Paths /\ IsSuite(Front(q))
  BY ProgramsAssumption DEF Paths, Path, tree, IsSuite, Context
<1>2. Nobody \notin Path
  BY DEF Nobody, Path
<1>3. \A q \in Path : q # <<>> => Last(q) + 1 \in Nat \ {0}
  BY DEF Path, Last
<1> QED BY <1>1, <1>2, <1>3

LEMMA OrderTypes ==
  ASSUME NEW c \in Contexts
  PROVE  /\ Around[c] \in Seq(Contexts)
         /\ SetupOrder(c) \in Seq(Contexts)
         /\ TeardownOrder(c) \in Seq(Contexts)
BY ContextsAssumption DEF SetupOrder, TeardownOrder, Reverse

LEMMA TailType ==
  ASSUME NEW S, NEW s \in Seq(S), s # <<>>
  PROVE  Head(s) \in S /\ Tail(s) \in Seq(S)
OBVIOUS

\* Leaving a suite or test leads to the suite around it, or ends the run.
LEMMA LeaveTypes ==
  ASSUME Typing, Leave
  PROVE  /\ at' \in Paths /\ next' \in Nat \ {0}
         /\ phase' \in {"tests", "done"}
         /\ phase' = "tests" => IsSuite(at')
         /\ phase' = "done" => at' = <<>>
BY PathFacts DEF Typing, TypeOK, Placed, Leave

LEMMA RaiseTypes ==
  ASSUME Typing, NEW o \in Outcomes, Raise(o)
  PROVE  raising' \in {"no"} \cup Escapes /\ shouldStop' \in BOOLEAN
<1>1. program.stopOnError \in BOOLEAN
  BY ProgramsAssumption DEF Typing, Placed
<1> QED BY <1>1 DEF Typing, TypeOK, Raise, Escaping, AddError

-----------------------------------------------------------------------------
(***************************************************************************)
(* The types.                                                              *)
(***************************************************************************)
LEMMA InitTyping == ASSUME Init PROVE Typing
<1>1. program \in Programs BY DEF Init
<1> USE <1>1
<1>2. TypeOK
  <2>1. at \in Paths BY PathFacts DEF Init
  <2>2. /\ next \in Nat \ {0} /\ todo \in Seq(Contexts)
        /\ wasSetup \subseteq Paths /\ wasTorndown \subseteq wasSetup
        /\ up \subseteq Contexts /\ ran \subseteq Paths
    BY DEF Init
  <2>3. /\ setupBy \in [Contexts -> Paths \cup {Nobody}]
        /\ torndownBy \in [Contexts -> Paths \cup {Nobody}]
    BY DEF Init
  <2> QED BY <2>1, <2>2, <2>3 DEF Init, TypeOK, Phases
<1>3. Placed
  <2>1. IsSuite(at) BY PathFacts DEF Init
  <2> QED BY <2>1 DEF Init, Placed
<1> QED BY <1>2, <1>3 DEF Typing

LEMMA NextTyping == ASSUME Typing, [Next]_vars PROVE Typing'
<1> USE DEF Typing
<1>1. CASE UNCHANGED vars
  BY <1>1 DEF vars, TypeOK, Placed, HasContext, IsSuite, Context, Paths, tree
<1>2. CASE Enter
  <2>1. Context(at) \in Contexts \cup {NoContext} /\ IsSuite(at)
    BY <1>2, PathFacts DEF Enter, TypeOK, Placed
  <2>2. CASE Context(at) # NoContext
    <3>1. SetupOrder(Context(at)) \in Seq(Contexts)
      BY <2>1, <2>2, OrderTypes
    <3> QED BY <1>2, <2>1, <2>2, <3>1 DEF Enter, TypeOK, Placed, HasContext,
         IsSuite, Context, Paths, tree, suites, factory, result, Phases
  <2>3. CASE Context(at) = NoContext
    BY <1>2, <2>1, <2>3 DEF Enter, TypeOK, Placed, HasContext, IsSuite, Context,
       Paths, tree, suites, factory, result, Phases
  <2> QED BY <2>2, <2>3
<1>3. CASE SkipSetup \/ SkipTeardown
  <2>1. todo' \in Seq(Contexts)
    BY <1>3, TailType DEF SkipSetup, SkipTeardown, TypeOK
  <2> QED BY <1>3, <2>1 DEF SkipSetup, SkipTeardown, TypeOK, Placed, HasContext,
       IsSuite, Context, Paths, tree, suites, factory, result
<1>4. CASE SetupDone
  BY <1>4 DEF SetupDone, TypeOK, Placed, HasContext, IsSuite, Context, Paths,
     tree, factory, result, Phases
<1>5. CASE NextTest
  <2>1. at' \in Paths BY <1>5 DEF NextTest, Continues
  <2>2. IsSuite(at') \in BOOLEAN BY <2>1, PathFacts DEF Placed
  <2>3. phase' \in {"enter", "test"} /\ (phase' = "enter" => IsSuite(at'))
    BY <1>5, <2>2 DEF NextTest, IsSuite, tree
  <2> QED BY <1>5, <2>1, <2>3 DEF NextTest, TypeOK, Placed, HasContext, IsSuite,
       Context, Paths, tree, suites, factory, result, Phases
<1>6. CASE EndTests
  <2>1. CASE at \in wasSetup \ wasTorndown
    <3>1. HasContext(at) BY <2>1 DEF Placed
    <3>2. TeardownOrder(Context(at)) \in Seq(Contexts)
      BY <3>1, OrderTypes DEF HasContext
    <3> QED BY <1>6, <2>1, <3>1, <3>2 DEF EndTests, TypeOK, Placed, HasContext,
         IsSuite, Context, Paths, tree, factory, result, Phases
  <2>2. CASE at \notin wasSetup \ wasTorndown
    <3>1. Leave BY <1>6, <2>2 DEF EndTests
    <3> QED BY <1>6, <2>2, <3>1, LeaveTypes DEF EndTests, TypeOK, Placed,
         HasContext, IsSuite, Context, Paths, tree, factory, result, Phases
  <2> QED BY <2>1, <2>2
<1>7. CASE TeardownDone
  <2>1. Leave BY <1>7 DEF TeardownDone
  <2> QED BY <1>7, <2>1, LeaveTypes DEF TeardownDone, TypeOK, Placed,
       HasContext, IsSuite, Context, Paths, tree, suites, factory, result, Phases
<1>8. CASE CatchTimeout
  BY <1>8 DEF CatchTimeout, TypeOK, Placed, HasContext, IsSuite, Context, Paths,
     tree, place, suites, factory
<1>9. ASSUME NEW o \in Outcomes, SetupContext(o) PROVE Typing'
  <2>1. Head(todo) \in Contexts /\ Tail(todo) \in Seq(Contexts) /\ <<>> \in Seq(Contexts)
    BY <1>9, TailType DEF SetupContext, TypeOK
  <2>2. raising' \in {"no"} \cup Escapes /\ shouldStop' \in BOOLEAN
    BY <1>9, RaiseTypes DEF SetupContext
  <2>3. /\ setupBy' \in [Contexts -> Paths \cup {Nobody}]
        /\ up' \subseteq Contexts
    BY <1>9, <2>1 DEF SetupContext, TypeOK
  <2>4. CASE o = "ok"
    BY <1>9, <2>1, <2>2, <2>3, <2>4 DEF SetupContext, TypeOK, Placed, HasContext,
       IsSuite, Context, Paths, tree, suites
  <2>5. CASE o # "ok"
    <3>1. Leave BY <1>9, <2>5 DEF SetupContext
    <3> QED BY <1>9, <2>1, <2>2, <2>3, <2>5, <3>1, LeaveTypes DEF SetupContext,
         TypeOK, Placed, HasContext, IsSuite, Context, Paths, tree, suites, Phases
  <2> QED BY <2>4, <2>5
<1>10. ASSUME NEW o \in Outcomes, TeardownContext(o) PROVE Typing'
  <2>1. Head(todo) \in Contexts /\ Tail(todo) \in Seq(Contexts) /\ <<>> \in Seq(Contexts)
    BY <1>10, TailType DEF TeardownContext, TypeOK
  <2>2. raising' \in {"no"} \cup Escapes /\ shouldStop' \in BOOLEAN
    BY <1>10, RaiseTypes DEF TeardownContext
  <2>3. /\ torndownBy' \in [Contexts -> Paths \cup {Nobody}]
        /\ up' \subseteq Contexts
    BY <1>10, <2>1 DEF TeardownContext, TypeOK
  <2>4. CASE o = "ok"
    BY <1>10, <2>1, <2>2, <2>3, <2>4 DEF TeardownContext, TypeOK, Placed,
       HasContext, IsSuite, Context, Paths, tree, suites
  <2>5. CASE o # "ok"
    <3>1. Leave BY <1>10, <2>5 DEF TeardownContext
    <3> QED BY <1>10, <2>1, <2>2, <2>3, <2>5, <3>1, LeaveTypes
         DEF TeardownContext, TypeOK, Placed, HasContext, IsSuite, Context, Paths,
             tree, suites, Phases
  <2> QED BY <2>4, <2>5
<1>11. ASSUME NEW o \in Outcomes, RunTest(o) PROVE Typing'
  <2>1. Leave BY <1>11 DEF RunTest
  <2>2. raising' \in {"no"} \cup Escapes /\ shouldStop' \in BOOLEAN
    BY <1>11, RaiseTypes DEF RunTest
  <2> QED BY <1>11, <2>1, <2>2, LeaveTypes DEF RunTest, TypeOK, Placed,
       HasContext, IsSuite, Context, Paths, tree, suites, factory, Phases
<1>12. CASE Terminated
  BY <1>1, <1>12 DEF Terminated
<1> QED
  BY <1>1, <1>2, <1>3, <1>4, <1>5, <1>6, <1>7, <1>8, <1>9, <1>10, <1>11, <1>12
     DEF Next, FixtureEnds, TestEnds

\* Every variable keeps its type, for every tree, every way to run it and
\* whatever the fixtures and tests raise.
THEOREM TypeCorrect == Spec => []TypeOK
<1>1. Init => Typing BY InitTyping
<1>2. Typing /\ [Next]_vars => Typing' BY NextTyping
<1>3. Typing => TypeOK BY DEF Typing
<1> QED BY <1>1, <1>2, <1>3, PTL DEF Spec

-----------------------------------------------------------------------------
(***************************************************************************)
(* No fixture stays up.  A fixture that is up belongs to the suite that    *)
(* set it up, and that suite is still running: it is one of those around   *)
(* the place of the run and has its tearDown before it, or it is the suite *)
(* the run is in, which has yet to reach its tearDown or to get to the     *)
(* fixture there.                                                          *)
(***************************************************************************)
Ancestor(q, r) == \E n \in 0 .. Len(r) - 1 : q = SubSeq(r, 1, n)

HeldAbove(q) == Ancestor(q, at) /\ q \in wasSetup \ wasTorndown
HeldHere(c) ==
  /\ setupBy[c] = at
  /\ \/ phase = "setup"
     \/ phase = "tests" /\ at \in wasSetup \ wasTorndown
     \/ phase = "teardown" /\ c \in ToSet(todo)
Owned(c) ==
  /\ torndownBy[c] = Nobody /\ ~Shared(c)
  /\ setupBy[c] \in Paths
  /\ c \in ToSet(Around[Context(setupBy[c])])
Held(c) == Owned(c) /\ (HeldAbove(setupBy[c]) \/ HeldHere(c))
AllHeld == ~fixtureFailed => \A c \in up : Held(c)

SettingUp ==
  phase = "setup" =>
    at \notin wasSetup /\ ToSet(todo) \subseteq ToSet(Around[Context(at)])
SetUpBefore == \A c \in Contexts : torndownBy[c] # Nobody => setupBy[c] # Nobody

Lifecycle == SettingUp /\ SetUpBefore /\ AllHeld

LEMMA AncestorFacts ==
  ASSUME NEW r \in Path, NEW q, Ancestor(q, r)
  PROVE  /\ q # r /\ r # <<>>
         /\ q = Front(r) \/ Ancestor(q, Front(r))
<1>1. PICK n \in 0 .. Len(r) - 1 : q = SubSeq(r, 1, n)
  BY DEF Ancestor
<1>2. q # r /\ r # <<>>
  BY <1>1 DEF Path
<1>3. Front(r) \in Seq(Nat \ {0}) /\ Len(Front(r)) = Len(r) - 1
  <2>1. r \in Seq(Nat \ {0}) BY DEF Path
  <2>2. Len(r) \in Nat /\ Len(r) # 0 BY <1>2, <2>1
  <2>3. \A i \in 1 .. Len(r) - 1 : r[i] \in Nat \ {0} BY <2>1, <2>2
  <2>4. Front(r) = [i \in 1 .. Len(r) - 1 |-> r[i]] BY <2>1, <2>2 DEF Front
  <2> QED BY <2>2, <2>3, <2>4
<1>4. CASE n = Len(r) - 1
  BY <1>1, <1>2, <1>4 DEF Front
<1>5. CASE n # Len(r) - 1
  <2>1. n \in 0 .. Len(Front(r)) - 1
    BY <1>3, <1>5 DEF Path
  <2>2. q = SubSeq(Front(r), 1, n)
    BY <1>1, <1>3, <2>1 DEF Path, Front
  <2> QED BY <1>2, <2>1, <2>2 DEF Ancestor
<1> QED BY <1>2, <1>4, <1>5

LEMMA AncestorBelow ==
  ASSUME NEW r \in Path, NEW x \in Nat \ {0}, NEW q,
         q = r \/ Ancestor(q, r)
  PROVE  Ancestor(q, Append(r, x))
<1>1. Len(Append(r, x)) = Len(r) + 1
  BY DEF Path
<1>2. CASE q = r
  <2>1. q = SubSeq(Append(r, x), 1, Len(r))
    BY <1>2 DEF Path
  <2> QED BY <1>1, <2>1 DEF Ancestor, Path
<1>3. CASE Ancestor(q, r)
  <2>1. PICK n \in 0 .. Len(r) - 1 : q = SubSeq(r, 1, n)
    BY <1>3 DEF Ancestor
  <2>2. q = SubSeq(Append(r, x), 1, n)
    BY <2>1 DEF Path
  <2> QED BY <1>1, <2>1, <2>2 DEF Ancestor, Path
<1> QED BY <1>2, <1>3

LEMMA OrderElements ==
  ASSUME NEW c \in Contexts
  PROVE  /\ ToSet(SetupOrder(c)) \subseteq ToSet(Around[c])
         /\ ToSet(Around[c]) \subseteq ToSet(TeardownOrder(c))
<1>1. Around[c] \in Seq(Contexts)
  BY ContextsAssumption
<1>2. ASSUME NEW d \in ToSet(SetupOrder(c)) PROVE d \in ToSet(Around[c])
  <2>1. PICK i \in DOMAIN SetupOrder(c) : d = SetupOrder(c)[i]
    BY <1>2 DEF ToSet
  <2>2. i \in 1 .. Len(Around[c]) /\ d = Around[c][(Len(Around[c]) - i) + 1]
    BY <1>1, <2>1 DEF SetupOrder, Reverse
  <2>3. (Len(Around[c]) - i) + 1 \in DOMAIN Around[c]
    BY <1>1, <2>2
  <2> QED BY <2>2, <2>3 DEF ToSet
<1>3. ASSUME NEW d \in ToSet(Around[c]) PROVE d \in ToSet(TeardownOrder(c))
  <2>1. PICK i \in DOMAIN Around[c] : d = Around[c][i]
    BY <1>3 DEF ToSet
  <2>2. i \in DOMAIN TeardownOrder(c) /\ TeardownOrder(c)[i] = d
    BY <1>1, <2>1 DEF TeardownOrder
  <2> QED BY <2>2 DEF ToSet
<1> QED BY <1>2, <1>3

LEMMA TailElements ==
  ASSUME NEW S, NEW s \in Seq(S), s # <<>>
  PROVE  /\ Head(s) \in ToSet(s) /\ ToSet(Tail(s)) \subseteq ToSet(s)
         /\ \A c \in ToSet(s) : c # Head(s) => c \in ToSet(Tail(s))
<1>1. Head(s) \in ToSet(s) /\ ToSet(Tail(s)) \subseteq ToSet(s)
  BY DEF ToSet
<1>2. ASSUME NEW c \in ToSet(s), c # Head(s) PROVE c \in ToSet(Tail(s))
  <2>1. PICK i \in 1 .. Len(s) : c = s[i]
    BY <1>2 DEF ToSet
  <2>2. i # 1 /\ Len(s) \in Nat BY <1>2, <2>1
  <2>3. Tail(s) \in Seq(S) /\ Len(Tail(s)) = Len(s) - 1 BY <2>2
  <2>4. i - 1 \in DOMAIN Tail(s) BY <2>1, <2>2, <2>3
  <2>5. Tail(s)[i - 1] = c BY <2>1, <2>2, <2>3
  <2> QED BY <2>4, <2>5 DEF ToSet
<1> QED BY <1>1, <1>2

\* What a suite around the place of the run holds, it still holds when the run
\* leaves that place.
LEMMA HeldOnLeaving ==
  ASSUME Typing, NEW c \in Contexts, Owned(c), HeldAbove(setupBy[c]), Leave,
         UNCHANGED <<program, suites, setupBy, torndownBy>>
  PROVE  Held(c)'
<1>1. at \in Path BY PathFacts DEF Typing, TypeOK, Placed
<1>2. at # <<>> /\ (setupBy[c] = Front(at) \/ Ancestor(setupBy[c], Front(at)))
  BY <1>1, AncestorFacts DEF HeldAbove
<1>3. at' = Front(at) /\ phase' = "tests"
  BY <1>2 DEF Leave
<1>4. Owned(c)'
  BY DEF Owned, Shared, Paths, tree, Context
<1>5. (HeldAbove(setupBy[c]) \/ HeldHere(c))'
  BY <1>2, <1>3 DEF HeldAbove, HeldHere, suites
<1> QED BY <1>4, <1>5 DEF Held

LEMMA InitLifecycle == ASSUME Init PROVE Lifecycle
BY DEF Init, Lifecycle, SettingUp, SetUpBefore, AllHeld

\* The steps that neither set up nor tear down a context.
LEMMA QuietLifecycle ==
  ASSUME Typing, Lifecycle,
         \/ UNCHANGED vars \/ Enter \/ SkipSetup \/ SetupDone \/ NextTest
         \/ EndTests \/ SkipTeardown \/ TeardownDone \/ CatchTimeout
         \/ \E o \in Outcomes : RunTest(o)
  PROVE  Lifecycle'
<1> USE DEF Lifecycle
<1>1. program' = program /\ up' = up /\ fixtureFailed' = fixtureFailed
      /\ setupBy' = setupBy /\ torndownBy' = torndownBy
  BY DEF vars, Enter, SkipSetup, SetupDone, NextTest, EndTests, SkipTeardown,
     TeardownDone, CatchTimeout, RunTest, factory
<1>2. SetUpBefore'
  BY <1>1 DEF SetUpBefore
<1>3. at \in Path /\ up \subseteq Contexts /\ todo \in Seq(Contexts)
      /\ wasTorndown \subseteq wasSetup
  BY PathFacts DEF Typing, TypeOK, Placed
<1>4. ASSUME NEW c \in Contexts, Owned(c) PROVE Owned(c)'
  BY <1>1, <1>4 DEF Owned, Shared, Paths, tree, Context
<1>5. ASSUME Leave, suites' = suites,
             \A c \in up : ~fixtureFailed => HeldAbove(setupBy[c])
      PROVE  Lifecycle'
  <2>1. SettingUp'
    BY <1>5, LeaveTypes DEF SettingUp
  <2>2. AllHeld'
    BY <1>1, <1>3, <1>5, HeldOnLeaving DEF AllHeld, Held
  <2> QED BY <1>2, <2>1, <2>2
<1>6. CASE UNCHANGED vars \/ CatchTimeout
  <2>1. UNCHANGED <<at, phase, todo, wasSetup, wasTorndown>>
    BY <1>6 DEF vars, CatchTimeout, place, suites
  <2>2. SettingUp'
    BY <1>1, <2>1 DEF SettingUp, Context, tree
  <2>3. AllHeld'
    BY <1>1, <1>3, <1>4, <2>1 DEF AllHeld, Held, HeldAbove, HeldHere
  <2> QED BY <1>2, <2>2, <2>3
<1>7. CASE Enter
  <2>1. /\ at' = at /\ suites' = suites /\ phase = "enter"
        /\ phase' = "setup" =>
             /\ at \notin wasSetup /\ todo' = SetupOrder(Context(at))
             /\ Context(at) \in Contexts
    BY <1>7, PathFacts DEF Enter, Typing, TypeOK, Placed
  <2>2. SettingUp'
    BY <1>1, <2>1, OrderElements DEF SettingUp, Context, tree, suites
  <2>3. AllHeld'
    BY <1>1, <1>3, <1>4, <2>1 DEF AllHeld, Held, HeldAbove, HeldHere, suites
  <2> QED BY <1>2, <2>2, <2>3
<1>8. CASE SkipSetup
  <2>1. /\ at' = at /\ phase = "setup" /\ phase' = "setup" /\ suites' = suites
        /\ ToSet(todo') \subseteq ToSet(todo)
    BY <1>3, <1>8, TailElements DEF SkipSetup
  <2>2. SettingUp'
    BY <1>1, <2>1 DEF SettingUp, Context, tree, suites
  <2>3. AllHeld'
    BY <1>1, <1>3, <1>4, <2>1 DEF AllHeld, Held, HeldAbove, HeldHere, suites
  <2> QED BY <1>2, <2>2, <2>3
<1>9. CASE SetupDone
  <2>1. /\ at' = at /\ phase = "setup" /\ phase' = "tests"
        /\ wasSetup' = wasSetup \cup {at} /\ wasTorndown' = wasTorndown
        /\ at \notin wasSetup
    BY <1>9 DEF SetupDone, SettingUp
  <2>2. SettingUp' BY <2>1 DEF SettingUp
  <2>3. AllHeld'
    BY <1>1, <1>3, <1>4, <2>1 DEF AllHeld, Held, HeldAbove, HeldHere
  <2> QED BY <1>2, <2>2, <2>3
<1>10. CASE NextTest
  <2>1. /\ phase = "tests" /\ at' = Append(at, next) /\ next \in Nat \ {0}
        /\ phase' \in {"enter", "test"} /\ suites' = suites
    BY <1>10 DEF NextTest, Typing, TypeOK
  <2>2. SettingUp' BY <2>1 DEF SettingUp
  <2>3. ASSUME NEW c \in Contexts, Held(c) PROVE Held(c)'
    <3>1. setupBy[c] \in wasSetup \ wasTorndown
          /\ (setupBy[c] = at \/ Ancestor(setupBy[c], at))
      BY <2>1, <2>3 DEF Held, HeldAbove, HeldHere
    <3>2. Ancestor(setupBy[c], at')
      BY <1>3, <2>1, <3>1, AncestorBelow
    <3> QED BY <1>1, <1>4, <2>1, <2>3, <3>1, <3>2 DEF Held, HeldAbove, suites
  <2> QED BY <1>1, <1>2, <1>3, <2>2, <2>3 DEF AllHeld
<1>11. CASE EndTests
  <2>1. CASE at \in wasSetup \ wasTorndown
    <3>1. /\ at' = at /\ phase = "tests" /\ phase' = "teardown"
          /\ todo' = TeardownOrder(Context(at)) /\ wasSetup' = wasSetup
          /\ wasTorndown' = wasTorndown \cup {at} /\ Context(at) \in Contexts
      BY <1>11, <2>1 DEF EndTests, Typing, Placed, HasContext
    <3>2. SettingUp' BY <3>1 DEF SettingUp
    <3>3. ASSUME NEW c \in Contexts, Held(c) PROVE Held(c)'
      <4>1. CASE HeldAbove(setupBy[c])
        <5>1. setupBy[c] # at
          BY <1>3, <4>1, AncestorFacts DEF HeldAbove
        <5> QED BY <1>1, <1>4, <3>1, <3>3, <4>1, <5>1 DEF Held, HeldAbove
      <4>2. CASE HeldHere(c)
        <5>1. c \in ToSet(todo')
          BY <3>1, <3>3, <4>2, OrderElements DEF Held, Owned, HeldHere
        <5> QED BY <1>1, <1>4, <3>1, <3>3, <4>2, <5>1 DEF Held, HeldHere
      <4> QED BY <3>3, <4>1, <4>2 DEF Held
    <3> QED BY <1>1, <1>2, <1>3, <3>2, <3>3 DEF AllHeld
  <2>2. CASE at \notin wasSetup \ wasTorndown
    <3>1. Leave /\ suites' = suites /\ phase = "tests"
      BY <1>11, <2>2 DEF EndTests, suites
    <3>2. \A c \in up : ~fixtureFailed => HeldAbove(setupBy[c])
      BY <2>2, <3>1 DEF AllHeld, Held, HeldHere
    <3> QED BY <1>5, <3>1, <3>2
  <2> QED BY <2>1, <2>2
<1>12. CASE SkipTeardown
  <2>1. /\ at' = at /\ phase = "teardown" /\ phase' = "teardown"
        /\ suites' = suites /\ todo # <<>> /\ todo' = Tail(todo)
        /\ ~MustTearDown(Head(todo)) \/ Shared(Head(todo))
    BY <1>12 DEF SkipTeardown
  <2>2. SettingUp' BY <2>1 DEF SettingUp
  <2>3. ASSUME NEW c \in Contexts, Held(c) PROVE Held(c)'
    <3>1. CASE HeldAbove(setupBy[c])
      BY <1>1, <1>4, <2>1, <2>3, <3>1 DEF Held, HeldAbove, suites
    <3>2. CASE HeldHere(c)
      <4>1. c # Head(todo)
        BY <2>1, <2>3, <3>2 DEF Held, Owned, HeldHere, MustTearDown
      <4>2. c \in ToSet(todo')
        BY <1>3, <2>1, <3>2, <4>1, TailElements DEF HeldHere
      <4> QED BY <1>1, <1>4, <2>1, <2>3, <3>2, <4>2 DEF Held, HeldHere
    <3> QED BY <2>3, <3>1, <3>2 DEF Held
  <2> QED BY <1>1, <1>2, <1>3, <2>2, <2>3 DEF AllHeld
<1>13. CASE TeardownDone
  <2>1. Leave /\ suites' = suites /\ phase = "teardown" /\ ToSet(todo) = {}
    BY <1>13 DEF TeardownDone, ToSet
  <2>2. \A c \in up : ~fixtureFailed => HeldAbove(setupBy[c])
    BY <2>1 DEF AllHeld, Held, HeldHere
  <2> QED BY <1>5, <2>1, <2>2
<1>14. CASE \E o \in Outcomes : RunTest(o)
  <2>1. Leave /\ suites' = suites /\ phase = "test"
    BY <1>14 DEF RunTest
  <2>2. \A c \in up : ~fixtureFailed => HeldAbove(setupBy[c])
    BY <2>1 DEF AllHeld, Held, HeldHere
  <2> QED BY <1>5, <2>1, <2>2
<1> QED BY <1>6, <1>7, <1>8, <1>9, <1>10, <1>11, <1>12, <1>13, <1>14

\* A context that is set up is held by the suite the run is in.
LEMMA SetupLifecycle ==
  ASSUME Typing, Lifecycle, NEW o \in Outcomes, SetupContext(o)
  PROVE  Lifecycle'
<1> USE DEF Lifecycle
<1>0. PICK d \in Contexts : d = Head(todo)
  BY TailType DEF SetupContext, TeardownContext, Typing, TypeOK
<1>1. /\ program' = program /\ suites' = suites /\ torndownBy' = torndownBy
      /\ phase = "setup" /\ todo # <<>>
      /\ setupBy[d] = Nobody /\ ~Shared(d)
      /\ setupBy' = [setupBy EXCEPT ![d] = at]
  BY <1>0 DEF SetupContext, IsSetUp
<1>2. /\ at \in Paths /\ at # Nobody /\ todo \in Seq(Contexts)
      /\ up \subseteq Contexts /\ setupBy \in [Contexts -> Paths \cup {Nobody}]
  BY <1>1, PathFacts, TailType DEF Typing, TypeOK, Placed
<1>3. /\ setupBy'[d] = at
      /\ \A c \in Contexts : c # d => setupBy'[c] = setupBy[c]
  BY <1>1, <1>2
<1>4. SetUpBefore'
  BY <1>1, <1>2, <1>3 DEF SetUpBefore
<1>5. CASE o = "ok"
  <2>1. /\ at' = at /\ phase' = "setup" /\ todo' = Tail(todo)
        /\ up' = up \cup {d} /\ fixtureFailed' = fixtureFailed
    BY <1>0, <1>5 DEF SetupContext
  <2>2. SettingUp'
    BY <1>1, <1>2, <2>1, TailElements DEF SettingUp, Context, tree, suites
  <2>3. Held(d)'
    <3>1. torndownBy[d] = Nobody
      BY <1>1, <1>2 DEF SetUpBefore
    <3>2. d \in ToSet(Around[Context(at)])
      BY <1>0, <1>1, <1>2, TailElements DEF SettingUp
    <3>3. Owned(d)'
      BY <1>1, <1>2, <1>3, <3>1, <3>2 DEF Owned, Shared, Paths, tree, Context
    <3>4. HeldHere(d)'
      BY <1>3, <2>1 DEF HeldHere
    <3> QED BY <3>3, <3>4 DEF Held
  <2>4. ASSUME NEW c \in Contexts, c # d, Held(c) PROVE Held(c)'
    <3>1. Owned(c)'
      BY <1>1, <1>3, <2>4 DEF Held, Owned, Shared, Paths, tree, Context
    <3>2. CASE HeldAbove(setupBy[c])
      BY <1>1, <1>3, <2>1, <2>4, <3>1, <3>2 DEF Held, HeldAbove, suites
    <3>3. CASE HeldHere(c)
      BY <1>1, <1>3, <2>1, <2>4, <3>1, <3>3 DEF Held, HeldHere
    <3> QED BY <2>4, <3>2, <3>3 DEF Held
  <2> QED BY <1>2, <1>4, <2>1, <2>2, <2>3, <2>4 DEF AllHeld
<1>6. CASE o # "ok"
  <2>1. Leave /\ fixtureFailed' = TRUE
    BY <1>6 DEF SetupContext
  <2> QED BY <1>4, <2>1, LeaveTypes DEF SettingUp, AllHeld
<1> QED BY <1>5, <1>6

\* A context that is torn down is not up any more, and the suite goes on to
\* those it has left.
LEMMA TeardownLifecycle ==
  ASSUME Typing, Lifecycle, NEW o \in Outcomes, TeardownContext(o)
  PROVE  Lifecycle'
<1> USE DEF Lifecycle
<1>0. PICK d \in Contexts : d = Head(todo)
  BY TailType DEF SetupContext, TeardownContext, Typing, TypeOK
<1>1. /\ program' = program /\ suites' = suites /\ setupBy' = setupBy
      /\ phase = "teardown" /\ todo # <<>>
      /\ setupBy[d] = at
      /\ torndownBy' = [torndownBy EXCEPT ![d] = at] /\ up' = up \ {d}
  BY <1>0 DEF TeardownContext, MustTearDown
<1>2. /\ at # Nobody /\ todo \in Seq(Contexts)
      /\ up \subseteq Contexts
      /\ torndownBy \in [Contexts -> Paths \cup {Nobody}]
  BY <1>1, PathFacts, TailType DEF Typing, TypeOK, Placed
<1>3. \A c \in Contexts : c # d => torndownBy'[c] = torndownBy[c]
  BY <1>1, <1>2
<1>4. SetUpBefore'
  BY <1>1, <1>2, <1>3 DEF SetUpBefore
<1>5. CASE o = "ok"
  <2>1. /\ at' = at /\ phase' = "teardown" /\ todo' = Tail(todo)
        /\ fixtureFailed' = fixtureFailed
    BY <1>1, <1>5 DEF TeardownContext
  <2>2. SettingUp' BY <2>1 DEF SettingUp
  <2>3. ASSUME NEW c \in Contexts, c # d, Held(c) PROVE Held(c)'
    <3>1. Owned(c)'
      BY <1>1, <1>3, <2>3 DEF Held, Owned, Shared, Paths, tree, Context
    <3>2. CASE HeldAbove(setupBy[c])
      BY <1>1, <2>1, <2>3, <3>1, <3>2 DEF Held, HeldAbove, suites
    <3>3. CASE HeldHere(c)
      <4>1. c \in ToSet(todo')
        BY <1>0, <1>1, <1>2, <2>1, <2>3, <3>3, TailElements
           DEF HeldHere
      <4> QED BY <1>1, <2>1, <2>3, <3>1, <3>3, <4>1 DEF Held, HeldHere
    <3> QED BY <2>3, <3>2, <3>3 DEF Held
  <2> QED BY <1>1, <1>2, <1>4, <2>1, <2>2, <2>3 DEF AllHeld
<1>6. CASE o # "ok"
  <2>1. Leave /\ fixtureFailed' = TRUE
    BY <1>6 DEF TeardownContext
  <2> QED BY <1>4, <2>1, LeaveTypes DEF SettingUp, AllHeld
<1> QED BY <1>5, <1>6

LEMMA NextLifecycle ==
  ASSUME Typing, Lifecycle, [Next]_vars PROVE Lifecycle'
<1>1. CASE Terminated
  BY <1>1, QuietLifecycle DEF Terminated
<1> QED
  BY <1>1, QuietLifecycle, SetupLifecycle, TeardownLifecycle
     DEF Next, FixtureEnds, TestEnds

\* Whatever the tree and however the tests end, a run in which no fixture raises
\* tears down every fixture it has set up: the suite that sets up a context is
\* the one that tears it down, and no way out of a suite passes its tearDown by.
THEOREM NothingLeftUp == Spec => []TestsLeaveNothingUp
<1>1. Init => Typing /\ Lifecycle
  BY InitTyping, InitLifecycle
<1>2. Typing /\ Lifecycle /\ [Next]_vars => (Typing /\ Lifecycle)'
  BY NextTyping, NextLifecycle
<1>3. Typing /\ Lifecycle => TestsLeaveNothingUp
  <2> SUFFICES ASSUME Typing, Lifecycle, phase = "done", ~fixtureFailed,
                      NEW c \in up
               PROVE  FALSE
    BY DEF TestsLeaveNothingUp
  <2>1. at = <<>> /\ Held(c)
    BY DEF Typing, Placed, Lifecycle, AllHeld
  <2>2. Ancestor(setupBy[c], <<>>) /\ <<>> \in Path
    BY <2>1 DEF Held, HeldAbove, HeldHere, Path
  <2> QED BY <2>2, AncestorFacts
<1> QED BY <1>1, <1>2, <1>3, PTL DEF Spec

-----------------------------------------------------------------------------
(***************************************************************************)
(* The order of the run.  A path is ahead of the place <<p, n>>, the suite *)
(* at p with the test n to run next, if the run gets to it later.          *)
(***************************************************************************)
AheadOf(q, p, n) ==
  \E i \in 1 .. Len(q) :
    /\ i <= Len(p) + 1
    /\ \A j \in 1 .. i - 1 : q[j] = p[j]
    /\ IF i <= Len(p) THEN q[i] > p[i] ELSE q[i] >= n

\* What is ahead after leaving a suite or test was ahead before, and the rest was
\* a later test of that suite.
LEMMA AheadOnLeaving ==
  ASSUME NEW p \in Path, p # <<>>, NEW q \in Path, NEW n \in Nat
  PROVE  /\ AheadOf(q, Front(p), Last(p) + 1) => AheadOf(q, p, n)
         /\ AheadOf(q, p, n) =>
              \/ AheadOf(q, Front(p), Last(p) + 1)
              \/ \E i \in 1 .. Len(q) :
                   i = Len(p) + 1 /\ q[i] >= n /\ \A j \in 1 .. i - 1 : q[j] = p[j]
<1> PICK m \in Nat : m = Len(p)
  BY DEF Path
<1> PICK k \in Nat : k = Len(q)
  BY DEF Path
<1>1. /\ m # 0 /\ Len(Front(p)) = m - 1 /\ Last(p) = p[m]
      /\ \A j \in 1 .. m - 1 : Front(p)[j] = p[j]
  <2>1. p \in Seq(Nat \ {0}) BY DEF Path
  <2>2. m # 0 BY <2>1
  <2>3. Front(p) = [i \in 1 .. m - 1 |-> p[i]] BY <2>1, <2>2 DEF Front
  <2> QED BY <2>1, <2>2, <2>3 DEF Last
<1>2. /\ \A j \in 1 .. m : p[j] \in Nat
      /\ \A j \in 1 .. k : q[j] \in Nat
  BY DEF Path
<1> HIDE DEF Path
<1>3. ASSUME NEW i \in 1 .. k, i <= (m - 1) + 1, \A j \in 1 .. i - 1 : q[j] = Front(p)[j],
             IF i <= m - 1 THEN q[i] > Front(p)[i] ELSE q[i] >= p[m] + 1
      PROVE  AheadOf(q, p, n)
  <2>1. i <= m /\ \A j \in 1 .. i - 1 : q[j] = p[j]
    BY <1>1, <1>3
  <2>2. q[i] > p[i]
    <3>1. CASE i <= m - 1  BY <1>1, <1>2, <1>3, <3>1
    <3>2. CASE i = m  BY <1>1, <1>2, <1>3, <3>2
    <3> QED BY <2>1, <3>1, <3>2
  <2> QED BY <2>1, <2>2 DEF AheadOf
<1>4. ASSUME NEW i \in 1 .. k, i <= m, \A j \in 1 .. i - 1 : q[j] = p[j], q[i] > p[i]
      PROVE  AheadOf(q, Front(p), Last(p) + 1)
  <2>1. i <= (m - 1) + 1 /\ \A j \in 1 .. i - 1 : q[j] = Front(p)[j]
    BY <1>1, <1>4
  <2>2. IF i <= m - 1 THEN q[i] > Front(p)[i] ELSE q[i] >= p[m] + 1
    <3>1. CASE i <= m - 1  BY <1>1, <1>2, <1>4, <3>1
    <3>2. CASE i = m  BY <1>1, <1>2, <1>4, <3>2
    <3> QED BY <1>4, <3>1, <3>2
  <2> QED BY <1>1, <2>1, <2>2 DEF AheadOf
<1>5. AheadOf(q, Front(p), Last(p) + 1) => AheadOf(q, p, n)
  BY <1>1, <1>3 DEF AheadOf
<1>6. ASSUME AheadOf(q, p, n), ~AheadOf(q, Front(p), Last(p) + 1)
      PROVE  \E i \in 1 .. Len(q) :
               i = Len(p) + 1 /\ q[i] >= n /\ \A j \in 1 .. i - 1 : q[j] = p[j]
  <2>1. PICK i \in 1 .. k : /\ i <= m + 1 /\ \A j \in 1 .. i - 1 : q[j] = p[j]
                            /\ IF i <= m THEN q[i] > p[i] ELSE q[i] >= n
    BY <1>6 DEF AheadOf
  <2>2. ~(i <= m)
    BY <1>4, <1>6, <2>1
  <2>3. i = m + 1
    BY <2>1, <2>2
  <2> QED BY <2>1, <2>2, <2>3
<1> QED BY <1>5, <1>6

\* Going on with the next test leaves ahead what was ahead, but for that test.
LEMMA AheadOnGoing ==
  ASSUME NEW p \in Path, NEW n \in Nat \ {0}, NEW q \in Path, NEW m \in Nat
  PROVE  /\ AheadOf(q, Append(p, n), m) => AheadOf(q, p, n)
         /\ AheadOf(q, p, n) =>
              \/ AheadOf(q, Append(p, n), 1) \/ q = Append(p, n)
         /\ AheadOf(Append(p, n), p, n)
<1> DEFINE r == Append(p, n)
<1> PICK l \in Nat : l = Len(p)
  BY DEF Path
<1> PICK k \in Nat : k = Len(q)
  BY DEF Path
<1>1. /\ r \in Path /\ Len(r) = l + 1 /\ r[l + 1] = n
      /\ \A j \in 1 .. l : r[j] = p[j]
  BY DEF Path
<1>2. /\ \A j \in 1 .. l : p[j] \in Nat
      /\ \A j \in 1 .. k : q[j] \in Nat \ {0}
      /\ q \in Seq(Nat \ {0})
  BY DEF Path
<1> HIDE DEF r, Path
<1>3. ASSUME NEW i \in 1 .. k, i <= (l + 1) + 1, \A j \in 1 .. i - 1 : q[j] = r[j],
             IF i <= l + 1 THEN q[i] > r[i] ELSE q[i] >= m
      PROVE  AheadOf(q, p, n)
  <2>1. CASE i <= l
    <3>1. i <= l + 1 /\ (\A j \in 1 .. i - 1 : q[j] = p[j]) /\ q[i] > p[i]
      BY <1>1, <1>3, <2>1
    <3> QED BY <2>1, <3>1 DEF AheadOf
  <2>2. CASE i = l + 1
    <3>1. (\A j \in 1 .. i - 1 : q[j] = p[j]) /\ q[i] > n
      BY <1>1, <1>3, <2>2
    <3>2. ~(i <= l) /\ i <= l + 1 /\ q[i] >= n
      BY <1>2, <2>2, <3>1
    <3> QED BY <3>1, <3>2 DEF AheadOf
  <2>3. CASE i = l + 2
    <3>1. l + 1 \in 1 .. k /\ q[l + 1] = n /\ ~(l + 1 <= l)
      BY <1>1, <1>3, <2>3
    <3>2. \A j \in 1 .. (l + 1) - 1 : q[j] = p[j]
      BY <1>1, <1>3, <2>3
    <3> QED BY <3>1, <3>2 DEF AheadOf
  <2> QED BY <1>3, <2>1, <2>2, <2>3
<1>4. ASSUME NEW i \in 1 .. k, i <= l + 1, \A j \in 1 .. i - 1 : q[j] = p[j],
             IF i <= l THEN q[i] > p[i] ELSE q[i] >= n
      PROVE  AheadOf(q, r, 1) \/ q = r
  <2>1. CASE i <= l
    <3>1. i <= (l + 1) + 1 /\ i <= l + 1 /\ (\A j \in 1 .. i - 1 : q[j] = r[j]) /\ q[i] > r[i]
      BY <1>1, <1>4, <2>1
    <3> QED BY <1>1, <3>1 DEF AheadOf
  <2>2. CASE i = l + 1 /\ q[i] # n
    <3>1. i <= (l + 1) + 1 /\ i <= l + 1 /\ (\A j \in 1 .. i - 1 : q[j] = r[j])
      BY <1>1, <1>4, <2>2
    <3>2. q[i] > r[i]
      BY <1>1, <1>2, <1>4, <2>2
    <3> QED BY <1>1, <3>1, <3>2 DEF AheadOf
  <2>3. CASE i = l + 1 /\ q[i] = n
    <3>1. \A j \in 1 .. l + 1 : q[j] = r[j]
      BY <1>1, <1>4, <2>3
    <3>2. CASE k = l + 1
      <4>1. q \in Seq(Nat \ {0}) /\ r \in Seq(Nat \ {0}) /\ Len(q) = Len(r)
        BY <1>1, <1>2, <3>2 DEF Path
      <4>2. \A j \in 1 .. Len(q) : q[j] = r[j]
        BY <3>1, <3>2
      <4> QED BY <4>1, <4>2, SeqEqual
    <3>3. CASE k # l + 1
      <4>1. l + 2 \in 1 .. k /\ l + 2 <= (l + 1) + 1 /\ ~(l + 2 <= l + 1)
        BY <2>3, <3>3
      <4>2. q[l + 2] >= 1 /\ \A j \in 1 .. (l + 2) - 1 : q[j] = r[j]
        BY <1>2, <3>1, <4>1
      <4> QED BY <1>1, <4>1, <4>2 DEF AheadOf
    <3> QED BY <3>2, <3>3
  <2> QED BY <1>4, <2>1, <2>2, <2>3
<1>5. AheadOf(r, p, n)
  <2>1. /\ l + 1 \in 1 .. l + 1 /\ l + 1 <= l + 1 /\ ~(l + 1 <= l) /\ r[l + 1] >= n
        /\ \A j \in 1 .. (l + 1) - 1 : r[j] = p[j]
    BY <1>1
  <2> QED BY <1>1, <2>1 DEF AheadOf
<1>6. AheadOf(q, r, m) => AheadOf(q, p, n)
  BY <1>1, <1>3 DEF AheadOf
<1>7. AheadOf(q, p, n) => AheadOf(q, r, 1) \/ q = r
  BY <1>4 DEF AheadOf
<1> QED BY <1>5, <1>6, <1>7 DEF r

\* The place itself is not ahead of it.
LEMMA NotAhead ==
  ASSUME NEW p \in Path, NEW n \in Nat
  PROVE  ~AheadOf(p, p, n)
<1> PICK l \in Nat : l = Len(p)
  BY DEF Path
<1>1. \A j \in 1 .. l : p[j] \in Nat
  BY DEF Path
<1> QED BY <1>1 DEF AheadOf

-----------------------------------------------------------------------------
(* Suites around one another.                                              *)

LEMMA AncestorLength ==
  ASSUME NEW r \in Path, NEW q
  PROVE  /\ Ancestor(q, r) => q \in Path /\ Len(q) < Len(r) /\ \A j \in 1 .. Len(q) : q[j] = r[j]
         /\ q \in Path /\ Len(q) < Len(r) /\ (\A j \in 1 .. Len(q) : q[j] = r[j]) => Ancestor(q, r)
<1> PICK l \in Nat : l = Len(r)
  BY DEF Path
<1>0. \A n \in 0 .. l - 1 : SubSeq(r, 1, n) \in Path /\ Len(SubSeq(r, 1, n)) = n
                            /\ \A j \in 1 .. n : SubSeq(r, 1, n)[j] = r[j]
  <2> SUFFICES ASSUME NEW n \in 0 .. l - 1
               PROVE  SubSeq(r, 1, n) \in Path /\ Len(SubSeq(r, 1, n)) = n
                      /\ \A j \in 1 .. n : SubSeq(r, 1, n)[j] = r[j]
    OBVIOUS
  <2>1. r \in Seq(Nat \ {0}) BY DEF Path
  <2>2. \A j \in 1 .. n : r[j] \in Nat \ {0} BY <2>1
  <2>3. SubSeq(r, 1, n) = [j \in 1 .. n |-> r[j]] BY <2>1
  <2> QED BY <2>2, <2>3 DEF Path
<1>1. ASSUME Ancestor(q, r)
      PROVE  q \in Path /\ Len(q) < l /\ \A j \in 1 .. Len(q) : q[j] = r[j]
  <2>1. PICK n \in 0 .. l - 1 : q = SubSeq(r, 1, n)
    BY <1>1 DEF Ancestor
  <2> QED BY <1>0, <2>1
<1>2. ASSUME q \in Path, Len(q) < l, \A j \in 1 .. Len(q) : q[j] = r[j]
      PROVE  Ancestor(q, r)
  <2> PICK n \in Nat : n = Len(q)
    BY <1>2 DEF Path
  <2>1. n \in 0 .. l - 1
    BY <1>2
  <2>2. q \in Seq(Nat \ {0}) /\ SubSeq(r, 1, n) \in Seq(Nat \ {0}) /\ Len(SubSeq(r, 1, n)) = Len(q)
    BY <1>0, <1>2, <2>1 DEF Path
  <2>3. \A j \in 1 .. Len(q) : SubSeq(r, 1, n)[j] = q[j]
    BY <1>0, <1>2, <2>1
  <2>4. q = SubSeq(r, 1, n)
    BY <2>2, <2>3
  <2> QED BY <2>1, <2>4 DEF Ancestor
<1> QED BY <1>1, <1>2

LEMMA AncestorTransitive ==
  ASSUME NEW r \in Path, NEW q, NEW s, Ancestor(q, r), Ancestor(s, q)
  PROVE  Ancestor(s, r)
<1>1. q \in Path /\ Len(q) < Len(r) /\ \A j \in 1 .. Len(q) : q[j] = r[j]
  BY AncestorLength
<1>2. s \in Path /\ Len(s) < Len(q) /\ \A j \in 1 .. Len(s) : s[j] = q[j]
  BY <1>1, AncestorLength
<1>3. Len(s) \in Nat /\ Len(q) \in Nat /\ Len(r) \in Nat
  BY <1>1, <1>2 DEF Path
<1>4. Len(s) < Len(r) /\ \A j \in 1 .. Len(s) : s[j] = r[j]
  BY <1>1, <1>2, <1>3
<1> QED BY <1>2, <1>4, AncestorLength

LEMMA PrefixAncestor ==
  ASSUME NEW q \in Path, NEW r \in Path, IsPrefix(q, r)
  PROVE  q = r \/ Ancestor(q, r)
<1> PICK l \in Nat : l = Len(q)
  BY DEF Path
<1> PICK k \in Nat : k = Len(r)
  BY DEF Path
<1>1. l <= k /\ SubSeq(q, 1, l) = SubSeq(r, 1, l)
  BY DEF IsPrefix
<1>2. \A j \in 1 .. l : q[j] = r[j]
  <2>1. /\ q \in Seq(Nat \ {0}) /\ r \in Seq(Nat \ {0})
    BY DEF Path
  <2>2. SubSeq(q, 1, l) = [j \in 1 .. l |-> q[j]] /\ SubSeq(r, 1, l) = [j \in 1 .. l |-> r[j]]
    BY <1>1, <2>1
  <2> QED BY <1>1, <2>2
<1>3. CASE l = k
  <2>1. q \in Seq(Nat \ {0}) /\ r \in Seq(Nat \ {0}) /\ Len(q) = Len(r) /\ \A j \in 1 .. Len(q) : q[j] = r[j]
    BY <1>2, <1>3 DEF Path
  <2> QED BY <2>1, SeqEqual
<1>4. CASE l # k
  BY <1>1, <1>2, <1>4, AncestorLength
<1> QED BY <1>3, <1>4

\* What is around the suite of a test is around the test, and what is around a test
\* is that suite or around it.
LEMMA AncestorOfFront ==
  ASSUME NEW p \in Path, p # <<>>
  PROVE  /\ Front(p) \in Path /\ Last(p) \in Nat \ {0} /\ p = Append(Front(p), Last(p))
         /\ Ancestor(Front(p), p)
         /\ \A q : Ancestor(q, Front(p)) => Ancestor(q, p)
<1>1. Front(p) \in Path /\ Last(p) \in Nat \ {0} /\ p = Append(Front(p), Last(p))
  <2>1. p \in Seq(Nat \ {0}) BY DEF Path
  <2>2. Len(p) \in Nat /\ Len(p) # 0 BY <2>1
  <2>3. \A i \in 1 .. Len(p) - 1 : p[i] \in Nat \ {0} BY <2>1, <2>2
  <2>4. Front(p) = [i \in 1 .. Len(p) - 1 |-> p[i]] BY <2>1, <2>2 DEF Front
  <2>5. Last(p) = p[Len(p)] /\ Last(p) \in Nat \ {0} BY <2>1, <2>2 DEF Last
  <2>6. Front(p) \in Seq(Nat \ {0}) /\ Len(Front(p)) = Len(p) - 1
    BY <2>2, <2>3, <2>4
  <2>7. Append(Front(p), Last(p)) \in Seq(Nat \ {0}) /\ Len(Append(Front(p), Last(p))) = Len(p)
        /\ \A i \in 1 .. Len(p) : Append(Front(p), Last(p))[i] = p[i]
    BY <2>2, <2>4, <2>5, <2>6
  <2>8. p = Append(Front(p), Last(p))
    BY <2>1, <2>7
  <2> QED BY <2>5, <2>6, <2>8 DEF Path
<1>2. PICK r \in Path, x \in Nat \ {0} : r = Front(p) /\ x = Last(p)
  BY <1>1
<1>3. Ancestor(r, Append(r, x)) /\ \A q : Ancestor(q, r) => Ancestor(q, Append(r, x))
  BY AncestorBelow
<1> QED BY <1>1, <1>2, <1>3

LEMMA FrontOfNext ==
  ASSUME NEW p \in Path, NEW n \in Nat \ {0}
  PROVE  /\ Append(p, n) \in Path /\ Append(p, n) # <<>>
         /\ Front(Append(p, n)) = p /\ Last(Append(p, n)) = n
<1>0. Append(p, n) \in Path
  BY DEF Path
<1>1. PICK r \in Path : r = Append(p, n)
  BY <1>0
<1>2. p \in Seq(Nat \ {0}) /\ Len(p) \in Nat /\ Len(r) = Len(p) + 1 /\ r[Len(p) + 1] = n
      /\ \A i \in 1 .. Len(p) : r[i] = p[i]
  BY <1>1 DEF Path
<1>3. Front(r) = [i \in 1 .. Len(p) |-> r[i]]
  BY <1>2 DEF Front
<1>4. Front(r) = p /\ Last(r) = n /\ r # <<>>
  BY <1>2, <1>3 DEF Last
<1> QED BY <1>0, <1>1, <1>4

LEMMA AncestorOfNext ==
  ASSUME NEW p \in Path, NEW n \in Nat \ {0}, NEW q, Ancestor(q, Append(p, n))
  PROVE  q = p \/ Ancestor(q, p)
<1>1. PICK r \in Path : r = Append(p, n)
  BY FrontOfNext
<1> QED BY <1>1, FrontOfNext, AncestorFacts

-----------------------------------------------------------------------------
(***************************************************************************)
(* Fixtures are kept by a tree that is grouped.  The suite that sets up a  *)
(* context is around all that need it (Tops), the suites around the place  *)
(* of the run have been set up and not torn down (Entered), so what they   *)
(* need is up (Examined, Standing); and since the run never returns to a   *)
(* path (Fresh), no context is torn down by a suite that failed to set it  *)
(* up.                                                                     *)
(***************************************************************************)
From == IF phase \in {"enter", "test"} THEN 1 ELSE next
Ahead(q) == AheadOf(q, at, From)

Untouched(q) == q \notin wasSetup /\ q \notin ran /\ \A c \in Contexts : setupBy[c] # q

Fresh ==
  /\ \A q \in Paths : Ahead(q) => Untouched(q)
  /\ phase \in {"enter", "test"} => Untouched(at)
  /\ phase = "test" => ~IsSuite(at)
  /\ phase = "setup" => HasTests(at)
  /\ phase = "teardown" => at \in wasTorndown

Opened(q) ==
  HasContext(q) => (HasTests(q) => q \in wasSetup) /\ q \notin wasTorndown
Entered ==
  /\ \A q \in Paths : Ancestor(q, at) => HasTests(q) /\ Opened(q)
  /\ phase = "tests" => Opened(at)

Examined ==
  /\ \A q \in wasSetup : \A c \in ToSet(Around[Context(q)]) : Shared(c) \/ IsSetUp(c)
  /\ phase = "setup" =>
       \A c \in ToSet(Around[Context(at)]) : c \in ToSet(todo) \/ Shared(c) \/ IsSetUp(c)

IsTop(r, c) ==
  /\ r \in Paths /\ ~Shared(c) /\ Needing(program, r, c)
  /\ c \in Grouped[program] =>
       \A q \in Paths : Needing(program, q, c) => r = q \/ Ancestor(r, q)
Tops == \A c \in Contexts : IsSetUp(c) => IsTop(setupBy[c], c)

Stands(c) ==
  /\ setupBy[c] \in wasSetup \ wasTorndown => c \in up
  /\ setupBy[c] = at /\ phase = "setup" => c \in up
  /\ setupBy[c] = at /\ phase = "teardown" /\ torndownBy[c] = Nobody => c \in up
Standing ==
  /\ \A c \in up : IsSetUp(c)
  /\ \A c \in Contexts : IsSetUp(c) => Stands(c)

Running == Typing /\ Lifecycle /\ Fresh
Kept == Running /\ Entered /\ Examined /\ Tops /\ Standing

\* A step sets up, runs and enters at the place of the run only, and gets on.
LEMMA Progress ==
  ASSUME Typing, [Next]_vars
  PROVE  /\ program' = program /\ Paths' = Paths
         /\ \A q \in Paths : Ahead(q)' => Ahead(q)
<1>0. /\ at \in Path /\ Paths \subseteq Path /\ next \in Nat \ {0} /\ From \in Nat
      /\ phase \in Phases
  BY PathFacts DEF Typing, TypeOK, Placed, From
<1>1. program' = program
  BY DEF Next, vars, Enter, SkipSetup, SetupContext, SetupDone, NextTest, RunTest, EndTests,
     CatchTimeout, SkipTeardown, TeardownContext, TeardownDone, Terminated
<1>9. Paths' = Paths
  BY <1>1 DEF Paths, tree
<1> SUFFICES \A q \in Paths : Ahead(q)' => Ahead(q)
  BY <1>1, <1>9
<1>2. CASE Leave /\ phase \in {"setup", "tests", "test", "teardown"}
  <2>1. CASE at = <<>>
    <3>1. at' = at /\ From' \in Nat /\ From' >= From
      BY <1>0, <1>2, <2>1 DEF Leave, From
    <3>2. ASSUME NEW q \in Path, NEW i \in 1 .. Len(q), q[i] >= From' PROVE q[i] >= From
      BY <1>0, <3>1, <3>2 DEF Path
    <3> QED BY <1>0, <3>1, <3>2 DEF Ahead, AheadOf
  <2>2. CASE at # <<>>
    <3>1. at' = Front(at) /\ From' = Last(at) + 1
      BY <1>2, <2>2 DEF Leave, From
    <3>2. \A q \in Paths : AheadOf(q, Front(at), Last(at) + 1) => AheadOf(q, at, From)
      BY <1>0, <2>2, AheadOnLeaving
    <3> QED BY <3>1, <3>2 DEF Ahead
  <2> QED BY <2>1, <2>2
<1>3. CASE at' = at /\ From' = From
  BY <1>3 DEF Ahead
<1>4. CASE NextTest
  <2>1. at' = Append(at, next) /\ From = next /\ From' \in Nat
    BY <1>0, <1>4 DEF NextTest, From
  <2> QED BY <1>0, <1>1, <2>1, AheadOnGoing DEF Ahead
<1>5. CASE UNCHANGED vars
  BY <1>3, <1>5 DEF vars, From
<1>6. CASE Enter \/ SkipSetup \/ SetupDone \/ CatchTimeout \/ SkipTeardown \/ Terminated
  BY <1>3, <1>6 DEF Enter, SkipSetup, SetupDone, CatchTimeout, SkipTeardown, Terminated,
     vars, place, From
<1>7. CASE EndTests \/ TeardownDone
  BY <1>2, <1>3, <1>7 DEF EndTests, TeardownDone, From
<1>8. ASSUME NEW o \in Outcomes, SetupContext(o) \/ TeardownContext(o) \/ RunTest(o)
      PROVE  (Leave /\ phase \in {"setup", "tests", "test", "teardown"}) \/ (at' = at /\ From' = From)
  BY <1>8 DEF SetupContext, TeardownContext, RunTest, From
<1> QED
  BY <1>2, <1>3, <1>4, <1>5, <1>6, <1>7, <1>8 DEF Next, FixtureEnds, TestEnds

\* A step touches the place of the run only.
LEMMA Touches ==
  ASSUME Typing, [Next]_vars
  PROVE  /\ wasSetup' \subseteq wasSetup \cup {at} /\ ran' \subseteq ran \cup {at}
         /\ \A c \in Contexts : setupBy'[c] \in {setupBy[c], at}
<1>0. setupBy \in [Contexts -> Paths \cup {Nobody}]
  BY DEF Typing, TypeOK
<1>1. ASSUME NEW o \in Outcomes, SetupContext(o)
      PROVE  /\ wasSetup' \subseteq wasSetup \cup {at} /\ ran' \subseteq ran \cup {at}
             /\ \A c \in Contexts : setupBy'[c] \in {setupBy[c], at}
  BY <1>0, <1>1 DEF SetupContext, suites
<1>2. ASSUME NEW o \in Outcomes, TeardownContext(o) \/ RunTest(o)
      PROVE  /\ wasSetup' \subseteq wasSetup \cup {at} /\ ran' \subseteq ran \cup {at}
             /\ setupBy' = setupBy
  BY <1>2 DEF TeardownContext, RunTest, suites, factory
<1>3. CASE \/ UNCHANGED vars \/ Enter \/ SkipSetup \/ SetupDone \/ NextTest \/ EndTests
           \/ SkipTeardown \/ TeardownDone \/ CatchTimeout \/ Terminated
  <2>1. wasSetup' \subseteq wasSetup \cup {at} /\ ran' = ran /\ setupBy' = setupBy
    BY <1>3 DEF vars, Enter, SkipSetup, SetupDone, NextTest, EndTests, CatchTimeout,
       SkipTeardown, TeardownDone, Terminated, suites, factory
  <2> QED BY <2>1
<1> QED BY <1>1, <1>2, <1>3 DEF Next, FixtureEnds, TestEnds

\* Where a step leads to each phase from.
LEMMA Moves ==
  ASSUME Typing, [Next]_vars
  PROVE  /\ phase' \in {"enter", "test"} => UNCHANGED vars \/ NextTest
         /\ phase' = "setup" => (Enter \/ phase = "setup") /\ at' = at
         /\ phase' = "teardown" =>
              (EndTests \/ (phase = "teardown" /\ wasTorndown' = wasTorndown)) /\ at' = at
<1>1. ASSUME Leave PROVE phase' \in {"tests", "done"}
  BY <1>1, LeaveTypes
<1>2. ASSUME NEW o \in Outcomes, SetupContext(o) \/ TeardownContext(o) \/ RunTest(o)
      PROVE  /\ phase' \notin {"enter", "test"}
             /\ phase' = "setup" => phase = "setup" /\ at' = at
             /\ phase' = "teardown" => phase = "teardown" /\ at' = at /\ wasTorndown' = wasTorndown
  BY <1>1, <1>2 DEF SetupContext, TeardownContext, RunTest, suites
<1>3. CASE \/ UNCHANGED vars \/ Enter \/ SkipSetup \/ SetupDone \/ NextTest \/ EndTests
           \/ SkipTeardown \/ TeardownDone \/ CatchTimeout \/ Terminated
  BY <1>1, <1>3 DEF vars, Enter, SkipSetup, SetupDone, NextTest, EndTests, CatchTimeout,
     SkipTeardown, TeardownDone, Terminated, suites, place
<1> QED BY <1>2, <1>3 DEF Next, FixtureEnds, TestEnds

LEMMA InitFresh == ASSUME Init PROVE Fresh
<1>1. program \in Programs BY DEF Init
<1>2. /\ wasSetup = {} /\ ran = {} /\ \A c \in Contexts : setupBy[c] = Nobody
      /\ phase = "enter" /\ at = <<>>
  BY DEF Init
<1>3. \A q \in Paths : Untouched(q)
  BY <1>1, <1>2, PathFacts DEF Untouched
<1> QED BY <1>1, <1>2, <1>3, PathFacts DEF Fresh

LEMMA NextFresh ==
  ASSUME Typing, Fresh, [Next]_vars
  PROVE  Fresh'
<1>1. /\ Paths' = Paths /\ program' = program /\ at \in Paths /\ at \in Path /\ From \in Nat
      /\ next \in Nat \ {0}
      /\ \A q \in Paths : IsSuite(q) \in BOOLEAN
  BY Progress, PathFacts DEF Typing, TypeOK, Placed, From
<1>2. ~Ahead(at)
  BY <1>1, NotAhead DEF Ahead
<1>3. ASSUME NEW q \in Paths, Ahead(q)' PROVE Untouched(q)'
  <2>1. Ahead(q) /\ q # at
    BY <1>2, <1>3, Progress
  <2> QED BY <2>1, Touches DEF Fresh, Untouched
<1>4. ASSUME phase' \in {"enter", "test"}
      PROVE  Untouched(at)' /\ (phase' = "test" => ~IsSuite(at)')
  <2>1. CASE UNCHANGED vars
    BY <1>4, <2>1 DEF vars, Fresh, Untouched, IsSuite, tree
  <2>2. CASE NextTest
    <3>1. /\ at' = Append(at, next) /\ at' \in Paths /\ From = next
          /\ wasSetup' = wasSetup /\ ran' = ran /\ setupBy' = setupBy
          /\ phase' = "test" => ~IsSuite(at')
      BY <2>2 DEF NextTest, Continues, From, suites, factory
    <3>2. Ahead(Append(at, next))
      BY <1>1, <3>1, AheadOnGoing DEF Ahead
    <3>3. Untouched(Append(at, next))
      BY <3>1, <3>2 DEF Fresh
    <3> QED BY <1>1, <3>1, <3>3 DEF Untouched, IsSuite, tree
  <2> QED BY <1>4, <2>1, <2>2, Moves
<1>5. phase' = "setup" => HasTests(at)'
  <2> SUFFICES ASSUME phase' = "setup" PROVE HasTests(at)'
    OBVIOUS
  <2>1. at' = at /\ HasTests(at)
    BY Moves DEF Enter, Fresh
  <2> QED BY <1>1, <2>1 DEF HasTests
<1>6. phase' = "teardown" => at' \in wasTorndown'
  BY Moves, LeaveTypes DEF EndTests, Fresh
<1> QED BY <1>1, <1>3, <1>4, <1>5, <1>6 DEF Fresh

LEMMA NextRunning == Running /\ [Next]_vars => Running'
BY NextTyping, NextLifecycle, NextFresh DEF Running

LEMMA InitEntered == ASSUME Init PROVE Entered
<1>1. at = <<>> /\ phase = "enter" /\ ~\E q : Ancestor(q, <<>>)
  BY DEF Init, Ancestor
<1> QED BY <1>1 DEF Entered

LEMMA NextEntered ==
  ASSUME Running, Entered, [Next]_vars
  PROVE  Entered'
<1>0. /\ Paths' = Paths /\ program' = program /\ at \in Paths /\ at \in Path
      /\ next \in Nat \ {0} /\ Paths \subseteq Path /\ wasTorndown \subseteq wasSetup
      /\ wasSetup \subseteq Paths /\ NoContext \notin Contexts
  BY Progress, PathFacts, ContextsAssumption DEF Running, Typing, TypeOK, Placed
<1>1. \A q \in Paths : HasContext(q)' = HasContext(q) /\ HasTests(q)' = HasTests(q)
  BY <1>0 DEF HasContext, HasTests, IsSuite, Context, tree
\* The suites keep what they have been through.
<1>2. ASSUME NEW q \in Paths, Opened(q), wasSetup \subseteq wasSetup',
             q \in wasTorndown' => q \in wasTorndown
      PROVE  Opened(q)'
  BY <1>1, <1>2 DEF Opened
<1>3. ASSUME at' = at, wasSetup \subseteq wasSetup', wasTorndown' \subseteq wasTorndown \cup {at},
             phase' = "tests" => Opened(at)'
      PROVE  Entered'
  <2>1. ASSUME NEW q \in Paths, Ancestor(q, at) PROVE HasTests(q)' /\ Opened(q)'
    <3>1. q # at
      BY <1>0, <2>1, AncestorFacts
    <3> QED BY <1>1, <1>2, <1>3, <2>1, <3>1 DEF Entered
  <2> QED BY <1>0, <1>3, <2>1 DEF Entered
<1>4. ASSUME Leave, wasSetup' = wasSetup, wasTorndown' = wasTorndown
      PROVE  Entered'
  <2>1. CASE at = <<>>
    <3>1. at' = at /\ phase' = "done"
      BY <1>4, <2>1 DEF Leave
    <3> QED BY <1>3, <1>4, <3>1
  <2>2. CASE at # <<>>
    <3>1. at' = Front(at) /\ Front(at) \in Paths
      BY <1>4, <2>2, PathFacts DEF Leave, Running, Typing, TypeOK, Placed
    <3>2. ASSUME NEW q \in Paths, q = Front(at) \/ Ancestor(q, Front(at))
          PROVE  HasTests(q)' /\ Opened(q)'
      <4>1. Ancestor(q, at)
        BY <1>0, <2>2, <3>2, AncestorOfFront
      <4> QED BY <1>1, <1>2, <1>4, <4>1 DEF Entered
    <3> QED BY <1>0, <3>1, <3>2 DEF Entered
  <2> QED BY <2>1, <2>2
<1>5. CASE Enter
  <2>1. at' = at /\ wasSetup' = wasSetup /\ wasTorndown' = wasTorndown
    BY <1>5 DEF Enter, suites
  <2>2. at \notin wasSetup /\ at \notin wasTorndown
    BY <1>0, <1>5 DEF Enter, Running, Fresh, Untouched
  <2>3. phase' = "tests" => Opened(at)'
    <3>1. phase' = "tests" => ~(HasTests(at) /\ Context(at) # NoContext)
      BY <1>5, <2>2 DEF Enter
    <3>2. phase' = "tests" => Opened(at)
      BY <1>0, <2>2, <3>1 DEF Opened, HasContext
    <3> QED BY <1>0, <1>2, <2>1, <3>2
  <2> QED BY <1>3, <2>1, <2>3
<1>6. CASE SetupDone
  <2>1. /\ at' = at /\ wasSetup' = wasSetup \cup {at} /\ wasTorndown' = wasTorndown
        /\ phase = "setup"
    BY <1>6 DEF SetupDone
  <2>2. at \notin wasTorndown
    BY <1>0, <2>1 DEF Running, Lifecycle, SettingUp
  <2>3. Opened(at)'
    BY <2>1, <2>2 DEF Opened
  <2> QED BY <1>3, <2>1, <2>3
<1>7. CASE NextTest
  <2>1. /\ at' = Append(at, next) /\ wasSetup' = wasSetup /\ wasTorndown' = wasTorndown
        /\ phase' # "tests" /\ phase = "tests" /\ at' \in Paths
    BY <1>7 DEF NextTest, Continues, suites
  <2>2. HasTests(at)
    <3>1. at' \in Path /\ at' # <<>> /\ Front(at') = at /\ Last(at') = next
      BY <1>0, <2>1, FrontOfNext
    <3>2. \A i \in 1 .. next : Append(at, i) \in Paths
      BY <2>1, <3>1, ProgramsAssumption DEF Running, Typing, Placed, Paths, tree
    <3> QED BY <1>0, <3>2 DEF HasTests
  <2>3. ASSUME NEW q \in Paths, Ancestor(q, Append(at, next)) PROVE HasTests(q)' /\ Opened(q)'
    <3>1. q = at \/ Ancestor(q, at)
      BY <1>0, <2>3, AncestorOfNext
    <3>2. HasTests(q) /\ Opened(q)
      BY <2>1, <2>2, <2>3, <3>1 DEF Entered
    <3> QED BY <1>1, <1>2, <2>1, <3>2
  <2> QED BY <1>0, <2>1, <2>3 DEF Entered
<1>8. CASE EndTests
  <2>1. CASE at \in wasSetup \ wasTorndown
    BY <1>3, <1>8, <2>1 DEF EndTests
  <2>2. CASE at \notin wasSetup \ wasTorndown
    BY <1>4, <1>8, <2>2 DEF EndTests
  <2> QED BY <2>1, <2>2
<1>9. CASE TeardownDone
  BY <1>4, <1>9 DEF TeardownDone, suites
<1>10. CASE UNCHANGED vars \/ SkipSetup \/ SkipTeardown \/ CatchTimeout \/ Terminated
  <2>1. /\ at' = at /\ wasSetup' = wasSetup /\ wasTorndown' = wasTorndown /\ phase' = phase
    BY <1>10 DEF vars, SkipSetup, SkipTeardown, CatchTimeout, Terminated, suites, place
  <2>2. phase' = "tests" => Opened(at)'
    BY <1>0, <1>2, <2>1 DEF Entered
  <2> QED BY <1>3, <2>1, <2>2
<1>11. ASSUME NEW o \in Outcomes, SetupContext(o) \/ TeardownContext(o) \/ RunTest(o)
       PROVE  Entered'
  <2>1. wasSetup' = wasSetup /\ wasTorndown' = wasTorndown
    BY <1>11 DEF SetupContext, TeardownContext, RunTest, suites
  <2>2. CASE Leave
    BY <1>4, <2>1, <2>2
  <2>3. CASE ~Leave
    <3>1. at' = at /\ phase' = phase /\ phase # "tests"
      BY <1>11, <2>3 DEF SetupContext, TeardownContext, RunTest
    <3> QED BY <1>3, <2>1, <3>1
  <2> QED BY <2>2, <2>3
<1> QED
  BY <1>5, <1>6, <1>7, <1>8, <1>9, <1>10, <1>11 DEF Next, FixtureEnds, TestEnds

LEMMA SetupOrderAll ==
  ASSUME NEW c \in Contexts
  PROVE  ToSet(Around[c]) \subseteq ToSet(SetupOrder(c))
<1>1. PICK l \in Nat : l = Len(Around[c])
  BY ContextsAssumption
<1>2. Around[c] \in Seq(Contexts)
  BY ContextsAssumption
<1> SUFFICES ASSUME NEW d \in ToSet(Around[c]) PROVE d \in ToSet(SetupOrder(c))
  OBVIOUS
<1>3. PICK i \in 1 .. l : d = Around[c][i]
  BY <1>1, <1>2 DEF ToSet
<1>4. SetupOrder(c) = [j \in 1 .. l |-> Around[c][(l - j) + 1]]
  BY <1>1 DEF SetupOrder, Reverse
<1>5. (l - i) + 1 \in 1 .. l /\ (l - ((l - i) + 1)) + 1 = i
  BY <1>3
<1>6. (l - i) + 1 \in DOMAIN SetupOrder(c) /\ SetupOrder(c)[(l - i) + 1] = d
  BY <1>3, <1>4, <1>5
<1> QED BY <1>6 DEF ToSet

LEMMA InitExamined == ASSUME Init PROVE Examined
BY DEF Init, Examined

LEMMA NextExamined ==
  ASSUME Typing, Examined, [Next]_vars
  PROVE  Examined'
<1>0. /\ Paths' = Paths /\ program' = program /\ at \in Paths /\ at # Nobody
      /\ todo \in Seq(Contexts) /\ wasSetup \subseteq Paths /\ setupBy \in [Contexts -> Paths \cup {Nobody}]
      /\ \A q \in wasSetup : Context(q) \in Contexts
  BY Progress, PathFacts DEF Typing, TypeOK, Placed, HasContext
<1>1. \A c \in Contexts : IsSetUp(c) => IsSetUp(c)'
  <2>1. ASSUME NEW o \in Outcomes, SetupContext(o) PROVE \A c \in Contexts : IsSetUp(c) => IsSetUp(c)'
    BY <1>0, <2>1 DEF SetupContext, IsSetUp
  <2>2. setupBy' = setupBy \/ \E o \in Outcomes : SetupContext(o)
    BY DEF Next, FixtureEnds, TestEnds, vars, Enter, SkipSetup, SetupDone, NextTest, EndTests,
       CatchTimeout, SkipTeardown, TeardownDone, TeardownContext, RunTest, Terminated, factory
  <2> QED BY <2>1, <2>2 DEF IsSetUp
<1>2. /\ \A c : Shared(c)' = Shared(c)
      /\ \A q \in Paths : Context(q)' = Context(q)
  BY <1>0 DEF Shared, Context, tree
<1>3. \A d \in Contexts : \A c \in ToSet(Around[d]) : c \in Contexts
  BY ContextsAssumption DEF ToSet
\* The suites set up before.
<1>4. ASSUME NEW q \in wasSetup
      PROVE  \A c \in ToSet(Around[Context(q)]) : Shared(c)' \/ IsSetUp(c)'
  BY <1>0, <1>1, <1>2, <1>3 DEF Examined
<1>5. CASE SetupDone
  <2>1. wasSetup' = wasSetup \cup {at} /\ phase' # "setup" /\ phase = "setup" /\ ToSet(todo) = {}
    BY <1>5 DEF SetupDone, ToSet
  <2>2. Context(at) \in Contexts
    BY <2>1 DEF Typing, Placed, HasContext
  <2>3. \A c \in ToSet(Around[Context(at)]) : Shared(c)' \/ IsSetUp(c)'
    BY <1>1, <1>2, <1>3, <2>1, <2>2 DEF Examined
  <2> QED BY <1>0, <1>2, <1>4, <2>1, <2>3 DEF Examined
<1>6. CASE ~SetupDone
  <2>1. wasSetup' = wasSetup
    BY <1>6 DEF Next, vars, Enter, SkipSetup, NextTest, EndTests, SetupContext,
       CatchTimeout, SkipTeardown, TeardownDone, TeardownContext, RunTest, Terminated, suites
  <2>2. ASSUME phase' = "setup", NEW c \in ToSet(Around[Context(at)])
        PROVE  c \in ToSet(todo') \/ Shared(c)' \/ IsSetUp(c)'
    <3>1. CASE Enter
      <4>1. Context(at) \in Contexts /\ todo' = SetupOrder(Context(at))
        BY <2>2, <3>1, PathFacts DEF Enter, Typing, TypeOK, Placed
      <4> QED BY <2>2, <4>1, SetupOrderAll
    <3>2. CASE phase = "setup" /\ ~Enter
      <4>1. Context(at) \in Contexts
        BY <3>2 DEF Typing, Placed, HasContext
      <4>2. c \in Contexts /\ (c \in ToSet(todo) \/ Shared(c) \/ IsSetUp(c))
        BY <1>3, <2>2, <3>2, <4>1 DEF Examined
      <4>3. CASE SkipSetup
        <5>1. c = Head(todo) => IsSetUp(c) \/ Shared(c)
          BY <4>3 DEF SkipSetup
        <5>2. c \in ToSet(todo) => c = Head(todo) \/ c \in ToSet(todo')
          BY <1>0, <4>3, TailElements DEF SkipSetup
        <5> QED BY <1>1, <1>2, <4>2, <5>1, <5>2
      <4>4. ASSUME NEW o \in Outcomes, SetupContext(o)
            PROVE  c \in ToSet(todo') \/ Shared(c)' \/ IsSetUp(c)'
        <5>1. c = Head(todo) => IsSetUp(c)'
          BY <1>0, <4>2, <4>4 DEF SetupContext, IsSetUp
        <5>2. todo' = Tail(todo) /\ todo # <<>>
          BY <2>2, <4>4, LeaveTypes DEF SetupContext
        <5>3. c \in ToSet(todo) => c = Head(todo) \/ c \in ToSet(todo')
          BY <1>0, <5>2, TailElements
        <5> QED BY <1>1, <1>2, <4>2, <5>1, <5>3
      <4>5. CASE UNCHANGED vars
        BY <1>1, <1>2, <4>2, <4>5 DEF vars
      <4> QED
        BY <1>6, <2>2, <3>2, <4>3, <4>4, <4>5
           DEF Next, FixtureEnds, TestEnds, NextTest, EndTests, CatchTimeout, SkipTeardown,
               TeardownDone, TeardownContext, RunTest, Terminated
    <3> QED BY <2>2, <3>1, <3>2, Moves
  <2>3. phase' = "setup" => at' = at
    BY Moves
  <2> QED BY <1>0, <1>2, <1>4, <2>1, <2>2, <2>3 DEF Examined
<1> QED BY <1>5, <1>6

LEMMA NextTops ==
  ASSUME Kept, [Next]_vars
  PROVE  Tops'
<1>0. /\ Paths' = Paths /\ program' = program /\ at \in Paths /\ at \in Path /\ Paths \subseteq Path
      /\ setupBy \in [Contexts -> Paths \cup {Nobody}] /\ todo \in Seq(Contexts)
  BY Progress, PathFacts DEF Kept, Running, Typing, TypeOK, Placed
<1>1. ASSUME NEW r, NEW c, IsTop(r, c) PROVE IsTop(r, c)'
  BY <1>0, <1>1 DEF IsTop, Shared, Needing, Paths, tree
<1>2. ASSUME NEW o \in Outcomes, SetupContext(o) PROVE Tops'
  <2>1. PICK d \in Contexts : d = Head(todo)
    BY <1>0, <1>2, TailType DEF SetupContext
  <2>2. /\ phase = "setup" /\ todo # <<>> /\ ~IsSetUp(d) /\ ~Shared(d)
        /\ setupBy' = [setupBy EXCEPT ![d] = at]
    BY <1>2, <2>1 DEF SetupContext
  <2>3. HasContext(at) /\ d \in ToSet(Around[Context(at)]) /\ HasTests(at)
    BY <1>0, <2>1, <2>2, TailElements
       DEF Kept, Running, Typing, Placed, Lifecycle, SettingUp, Fresh
  <2>4. Needing(program, at, d)
    BY <2>3 DEF Needing, HasContext, HasTests, IsSuite, Context, Paths, tree
  <2>5. ASSUME d \in Grouped[program], NEW q \in Paths, Needing(program, q, d)
        PROVE  at = q \/ Ancestor(at, q)
    <3>1. PICK top \in Paths :
            Needing(program, top, d) /\ IsPrefix(top, q) /\ IsPrefix(top, at)
      <4>1. program \in Programs
        BY DEF Kept, Running, Typing, Placed
      <4>2. \A r \in DOMAIN program.tree :
              Needing(program, q, d) /\ Needing(program, r, d) =>
                \E top \in DOMAIN program.tree :
                  Needing(program, top, d) /\ IsPrefix(top, q) /\ IsPrefix(top, r)
        BY <2>5, <4>1 DEF Grouped, Paths, tree
      <4> QED BY <1>0, <2>4, <2>5, <4>2 DEF Paths, tree
    <3>2. ~Ancestor(top, at)
      <4> SUFFICES ASSUME Ancestor(top, at) PROVE FALSE
        OBVIOUS
      <4>1. HasContext(top) /\ HasTests(top) /\ d \in ToSet(Around[Context(top)])
        BY <3>1 DEF Needing, HasContext, HasTests, IsSuite, Context, Paths, tree
      <4>2. top \in wasSetup
        BY <4>1 DEF Kept, Entered, Opened
      <4> QED BY <2>2, <4>1, <4>2 DEF Kept, Examined
    <3> QED BY <1>0, <3>1, <3>2, PrefixAncestor
  <2>6. IsTop(at, d)
    BY <1>0, <2>2, <2>4, <2>5 DEF IsTop
  <2>7. ASSUME NEW c \in Contexts, IsSetUp(c)' PROVE IsTop(setupBy'[c], c)
    BY <1>0, <2>2, <2>6, <2>7 DEF Kept, Tops, IsSetUp
  <2> QED BY <1>1, <2>7 DEF Tops
<1>3. CASE setupBy' = setupBy
  BY <1>1, <1>3 DEF Kept, Tops, IsSetUp
<1> QED
  BY <1>2, <1>3 DEF Next, FixtureEnds, TestEnds, vars, Enter, SkipSetup, SetupDone, NextTest,
     EndTests, CatchTimeout, SkipTeardown, TeardownDone, TeardownContext, RunTest, Terminated,
     factory

LEMMA NextStanding ==
  ASSUME Kept, [Next]_vars
  PROVE  Standing'
<1>0. /\ at \in Paths /\ at # Nobody /\ todo \in Seq(Contexts) /\ up \subseteq Contexts
      /\ setupBy \in [Contexts -> Paths \cup {Nobody}]
      /\ torndownBy \in [Contexts -> Paths \cup {Nobody}]
      /\ wasTorndown \subseteq wasSetup
  BY PathFacts DEF Kept, Running, Typing, TypeOK, Placed
<1> USE DEF Standing
<1>1. ASSUME setupBy' = setupBy, up' = up, torndownBy' = torndownBy,
             \A c \in Contexts : IsSetUp(c) => Stands(c)'
      PROVE  Standing'
  BY <1>1 DEF Kept, IsSetUp
<1>2. ASSUME setupBy' = setupBy, up' = up, torndownBy' = torndownBy, suites' = suites,
             (at' = at /\ phase' = phase) \/ phase' \notin {"setup", "teardown"}
      PROVE  Standing'
  <2>1. ASSUME NEW c \in Contexts, IsSetUp(c) PROVE Stands(c)'
    <3>1. Stands(c)
      BY <2>1 DEF Kept
    <3> QED BY <1>2, <3>1 DEF Stands, suites
  <2> QED BY <1>1, <1>2, <2>1
<1>3. CASE Enter
  <2>1. /\ setupBy' = setupBy /\ up' = up /\ torndownBy' = torndownBy /\ suites' = suites
        /\ phase = "enter" /\ phase' \in {"setup", "tests"} /\ at' = at
    BY <1>3 DEF Enter, factory
  <2>2. ASSUME NEW c \in Contexts, IsSetUp(c) PROVE Stands(c)'
    <3>1. Stands(c) /\ setupBy[c] # at
      BY <2>1, <2>2 DEF Kept, Running, Fresh, Untouched
    <3> QED BY <2>1, <3>1 DEF Stands, suites
  <2> QED BY <1>1, <2>1, <2>2
<1>4. CASE SetupDone
  <2>1. /\ setupBy' = setupBy /\ up' = up /\ torndownBy' = torndownBy
        /\ phase = "setup" /\ phase' = "tests" /\ at' = at
        /\ wasSetup' = wasSetup \cup {at} /\ wasTorndown' = wasTorndown
    BY <1>4 DEF SetupDone, factory
  <2>2. ASSUME NEW c \in Contexts, IsSetUp(c) PROVE Stands(c)'
    <3>1. Stands(c)
      BY <2>2 DEF Kept
    <3> QED BY <2>1, <3>1 DEF Stands
  <2> QED BY <1>1, <2>1, <2>2
<1>5. CASE EndTests
  <2>1. CASE at \in wasSetup \ wasTorndown
    <3>1. /\ setupBy' = setupBy /\ up' = up /\ torndownBy' = torndownBy
          /\ phase' = "teardown" /\ at' = at
          /\ wasSetup' = wasSetup /\ wasTorndown' = wasTorndown \cup {at}
      BY <1>5, <2>1 DEF EndTests, factory
    <3>2. ASSUME NEW c \in Contexts, IsSetUp(c) PROVE Stands(c)'
      <4>1. Stands(c)
        BY <3>2 DEF Kept
      <4> QED BY <2>1, <3>1, <4>1 DEF Stands
    <3> QED BY <1>1, <3>1, <3>2
  <2>2. CASE at \notin wasSetup \ wasTorndown
    <3>1. Leave /\ setupBy' = setupBy /\ up' = up /\ torndownBy' = torndownBy /\ suites' = suites
      BY <1>5, <2>2 DEF EndTests, factory, suites
    <3> QED BY <1>2, <3>1, LeaveTypes DEF Kept, Running
  <2> QED BY <2>1, <2>2
<1>6. CASE NextTest
  BY <1>2, <1>6 DEF NextTest, factory
<1>7. CASE TeardownDone
  BY <1>2, <1>7, LeaveTypes DEF TeardownDone, factory, Kept, Running
<1>8. CASE UNCHANGED vars \/ SkipSetup \/ SkipTeardown \/ CatchTimeout \/ Terminated
  BY <1>2, <1>8 DEF vars, SkipSetup, SkipTeardown, CatchTimeout, Terminated, suites, place, factory
<1>9. ASSUME NEW o \in Outcomes, RunTest(o) PROVE Standing'
  BY <1>2, <1>9, LeaveTypes DEF RunTest, factory, Kept, Running
<1>10. ASSUME NEW o \in Outcomes, SetupContext(o) PROVE Standing'
  <2>1. PICK d \in Contexts : d = Head(todo)
    BY <1>0, <1>10, TailType DEF SetupContext
  <2>2. /\ phase = "setup" /\ todo # <<>> /\ ~IsSetUp(d)
        /\ setupBy'[d] = at /\ \A c \in Contexts \ {d} : setupBy'[c] = setupBy[c]
        /\ suites' = suites /\ torndownBy' = torndownBy
    BY <1>0, <1>10, <2>1 DEF SetupContext
  <2>3. up' = up \/ (up' = up \cup {d} /\ at' = at /\ phase' = "setup")
    BY <1>10, <2>1, <2>2 DEF SetupContext
  <2>4. (d \in up' /\ at' = at /\ phase' = "setup") \/ phase' \in {"tests", "done"}
    BY <1>10, <2>1, <2>2, LeaveTypes DEF SetupContext, Kept, Running
  <2>5. at \notin wasSetup
    BY <2>2 DEF Kept, Running, Lifecycle, SettingUp
  <2>6. ASSUME NEW c \in up' PROVE IsSetUp(c)'
    BY <1>0, <2>2, <2>3, <2>6 DEF IsSetUp, Kept
  <2>7. Stands(d)'
    BY <2>2, <2>4, <2>5 DEF Stands, suites
  <2>8. ASSUME NEW c \in Contexts \ {d}, IsSetUp(c)' PROVE Stands(c)'
    <3>1. Stands(c)
      BY <2>2, <2>8 DEF Kept, IsSetUp
    <3> QED BY <2>2, <2>3, <2>4, <3>1 DEF Stands, suites
  <2> QED BY <2>6, <2>7, <2>8
<1>11. ASSUME NEW o \in Outcomes, TeardownContext(o) PROVE Standing'
  <2>1. PICK d \in Contexts : d = Head(todo)
    BY <1>0, <1>11, TailType DEF TeardownContext
  <2>2. /\ phase = "teardown" /\ setupBy[d] = at /\ up' = up \ {d}
        /\ torndownBy'[d] = at /\ \A c \in Contexts \ {d} : torndownBy'[c] = torndownBy[c]
        /\ suites' = suites /\ setupBy' = setupBy
    BY <1>0, <1>11, <2>1 DEF TeardownContext, MustTearDown
  <2>3. (at' = at /\ phase' = "teardown") \/ phase' \in {"tests", "done"}
    BY <1>11, <2>2, LeaveTypes DEF TeardownContext, Kept, Running
  <2>4. at \in wasTorndown
    BY <2>2 DEF Kept, Running, Fresh
  <2>5. Stands(d)'
    BY <1>0, <2>2, <2>3, <2>4 DEF Stands, suites
  <2>6. ASSUME NEW c \in Contexts \ {d}, IsSetUp(c) PROVE Stands(c)'
    <3>1. Stands(c)
      BY <2>6 DEF Kept
    <3> QED BY <2>2, <2>3, <3>1 DEF Stands, suites
  <2> QED BY <2>2, <2>5, <2>6 DEF IsSetUp, Kept
<1> QED
  BY <1>3, <1>4, <1>5, <1>6, <1>7, <1>8, <1>9, <1>10, <1>11 DEF Next, FixtureEnds, TestEnds

LEMMA InitKept == ASSUME Init PROVE Kept
<1>1. Tops /\ Standing
  BY DEF Init, Tops, Standing, IsSetUp
<1> QED
  BY <1>1, InitTyping, InitLifecycle, InitFresh, InitEntered, InitExamined DEF Kept, Running

LEMMA NextKept == Kept /\ [Next]_vars => Kept'
<1> SUFFICES ASSUME Kept, [Next]_vars PROVE Kept'
  OBVIOUS
<1>1. Running' /\ Entered' /\ Examined'
  BY NextRunning, NextEntered, NextExamined DEF Kept, Running
<1> QED
  BY <1>1, NextTops, NextStanding DEF Kept

\* What a test needs is up when it runs.
LEMMA TestServed ==
  ASSUME Kept, phase = "test"
  PROVE  Needs(at) \subseteq up
<1>0. at \in Paths /\ at \in Path /\ Paths \subseteq Path
  BY PathFacts DEF Kept, Running, Typing, TypeOK, Placed
<1> SUFFICES ASSUME NEW c \in Needs(at) PROVE c \in up
  OBVIOUS
<1>1. PICK q \in Above(at) : c \in ToSet(Around[Context(q)]) /\ c \in Grouped[program] /\ ~Shared(c)
  <2>1. c \in UNION {ToSet(Around[Context(q)]) : q \in Above(at)} /\ c \in Keeps
    BY DEF Needs
  <2> QED BY <2>1 DEF Keeps, Shared
<1>2. q \in Paths /\ IsPrefix(q, at) /\ IsSuite(q) /\ Context(q) # NoContext
  BY <1>1 DEF Above
<1>3. HasContext(q)
  BY <1>2, PathFacts DEF HasContext, Kept, Running, Typing, Placed
<1>4. q # at
  BY <1>2 DEF Kept, Running, Fresh
<1>5. Ancestor(q, at)
  BY <1>0, <1>2, <1>4, PrefixAncestor
<1>6. HasTests(q) /\ q \in wasSetup
  BY <1>2, <1>3, <1>5 DEF Kept, Entered, Opened
<1>7. c \in Contexts
  BY <1>1, <1>3, ContextsAssumption DEF HasContext, ToSet
<1>8. IsSetUp(c)
  BY <1>1, <1>6 DEF Kept, Examined
<1>9. Needing(program, q, c)
  BY <1>1, <1>3, <1>6 DEF Needing, HasContext, HasTests, IsSuite, Context, Paths, tree
<1> PICK r \in Paths : r = setupBy[c]
  BY <1>7, <1>8 DEF Kept, Tops, IsTop
<1>10. Needing(program, r, c) /\ (r = q \/ Ancestor(r, q))
  BY <1>1, <1>2, <1>7, <1>8, <1>9 DEF Kept, Tops, IsTop
<1>11. Ancestor(r, at)
  BY <1>0, <1>5, <1>10, AncestorTransitive
<1>12. HasContext(r)
  BY <1>10 DEF Needing, HasContext, IsSuite, Context, tree
<1>13. r \in wasSetup \ wasTorndown
  BY <1>11, <1>12 DEF Kept, Entered, Opened
<1> QED
  BY <1>7, <1>8, <1>13 DEF Kept, Standing, Stands

-----------------------------------------------------------------------------
(* The steps of the run as steps of Fixtures.                              *)

fates == [c \in Contexts |-> Fate(c)]
demands == [p \in AllPaths |-> IF p \in Paths THEN Needs(p) ELSE {}]

LEMMA InitFixtures == ASSUME Init PROVE F!Init
<1>1. program \in Programs
  BY DEF Init
<1>2. fates = [c \in Contexts |-> "down"]
  BY DEF Init, Fate, fates
<1>3. demands \in [AllPaths -> SUBSET Contexts]
  <2>1. ASSUME NEW p \in Paths PROVE Needs(p) \subseteq Contexts
    <3>1. \A q \in Above(p) : Context(q) \in Contexts
      BY <1>1, PathFacts DEF Above
    <3>2. \A c \in Contexts : ToSet(Around[c]) \subseteq Contexts
      BY ContextsAssumption DEF ToSet
    <3> QED BY <3>1, <3>2 DEF Needs
  <2> QED BY <2>1 DEF demands
<1>4. ran = {}
  BY DEF Init
<1> QED BY <1>2, <1>3, <1>4 DEF F!Init, fates, demands

LEMMA NextFixtures ==
  ASSUME Kept, [Next]_vars
  PROVE  F!Next \/ UNCHANGED F!fixtureVars
<1>0. /\ at \in Paths /\ at # Nobody /\ program \in Programs /\ up \subseteq Contexts
      /\ setupBy \in [Contexts -> Paths \cup {Nobody}]
      /\ torndownBy \in [Contexts -> Paths \cup {Nobody}] /\ todo \in Seq(Contexts)
      /\ program' = program
  BY Progress, PathFacts DEF Kept, Running, Typing, TypeOK, Placed
<1>1. demands' = demands
  BY <1>0 DEF demands, Needs, Keeps, Above, Paths, tree, IsSuite, Context
<1>2. CASE ran' = ran /\ up' = up /\ setupBy' = setupBy /\ torndownBy' = torndownBy
  <2>1. fates' = fates
    BY <1>2 DEF fates, Fate
  <2> QED BY <1>1, <1>2, <2>1 DEF F!fixtureVars, fates, demands
<1>3. ASSUME NEW o \in Outcomes, SetupContext(o)
      PROVE  \E c \in Contexts : F!SetUp(c)
  <2>1. PICK d \in Contexts : d = Head(todo)
    BY <1>0, <1>3, TailType DEF SetupContext
  <2>2. /\ ~IsSetUp(d) /\ setupBy' = [setupBy EXCEPT ![d] = at]
        /\ up' = up \/ up' = up \cup {d}
        /\ torndownBy' = torndownBy /\ ran' = ran
    BY <1>3, <2>1 DEF SetupContext
  <2>3. d \notin up /\ torndownBy[d] = Nobody
    BY <1>0, <2>2 DEF Kept, Running, Standing, Lifecycle, SetUpBefore, IsSetUp
  <2>4. Fate(d) = "down"
    BY <2>2, <2>3 DEF Fate, IsSetUp
  <2>5. \A c \in Contexts \ {d} : Fate(c)' = Fate(c)
    BY <1>0, <2>2 DEF Fate
  <2>6. setupBy'[d] = at /\ torndownBy'[d] = Nobody
    BY <1>0, <2>2, <2>3
  <2>7. Fate(d)' \in {"up", "failed"}
    BY <1>0, <2>6 DEF Fate
  <2>8. fates[d] = "down" /\ \E s \in {"up", "failed"} : fates' = [fates EXCEPT ![d] = s]
    <3>1. fates' = [fates EXCEPT ![d] = Fate(d)']
      BY <2>5 DEF fates
    <3> QED BY <2>4, <2>7, <3>1 DEF fates
  <2> QED BY <1>1, <2>2, <2>8 DEF F!SetUp, fates, demands
<1>4. ASSUME NEW o \in Outcomes, TeardownContext(o)
      PROVE  \E c \in Contexts : F!TearDown(c)
  <2>1. PICK d \in Contexts : d = Head(todo)
    BY <1>0, <1>4, TailType DEF TeardownContext
  <2>2. /\ setupBy[d] = at /\ torndownBy[d] = Nobody /\ setupBy' = setupBy
        /\ up' = up \ {d} /\ phase = "teardown"
        /\ torndownBy' = [torndownBy EXCEPT ![d] = at] /\ ran' = ran
    BY <1>4, <2>1 DEF TeardownContext, MustTearDown
  <2>3. d \in up
    BY <1>0, <2>2 DEF Kept, Standing, Stands, IsSetUp
  <2>4. Fate(d) = "up" /\ Fate(d)' = "torn"
    BY <1>0, <2>2, <2>3 DEF Fate
  <2>5. \A c \in Contexts \ {d} : Fate(c)' = Fate(c)
    BY <1>0, <2>2 DEF Fate
  <2>6. fates[d] = "up" /\ fates' = [fates EXCEPT ![d] = "torn"]
    BY <2>4, <2>5 DEF fates
  <2> QED BY <1>1, <2>2, <2>6 DEF F!TearDown, fates, demands
<1>5. ASSUME NEW o \in Outcomes, RunTest(o)
      PROVE  \E t \in AllPaths : F!Run(t)
  <2>1. /\ phase = "test" /\ ran' = ran \cup {at} /\ up' = up
        /\ setupBy' = setupBy /\ torndownBy' = torndownBy
    BY <1>5 DEF RunTest, factory
  <2>2. fates' = fates
    BY <2>1 DEF fates, Fate
  <2>3. at \notin ran
    BY <2>1 DEF Kept, Running, Fresh, Untouched
  <2>4. at \in AllPaths /\ demands[at] = Needs(at)
    BY <1>0 DEF AllPaths, demands, Paths, tree
  <2>5. \A c \in demands[at] : c \in Contexts /\ fates[c] = "up"
    <3>1. \A c \in up : fates[c] = "up"
      BY <1>0 DEF fates, Fate
    <3> QED BY <1>0, <2>1, <2>4, <3>1, TestServed
  <2> QED BY <1>1, <2>1, <2>2, <2>3, <2>4, <2>5 DEF F!Run, fates, demands
<1>6. CASE \/ UNCHANGED vars \/ Enter \/ SkipSetup \/ SetupDone \/ NextTest \/ EndTests
           \/ SkipTeardown \/ TeardownDone \/ CatchTimeout \/ Terminated
  BY <1>2, <1>6 DEF vars, Enter, SkipSetup, SetupDone, NextTest, EndTests, CatchTimeout,
     SkipTeardown, TeardownDone, Terminated, factory
<1> QED
  BY <1>3, <1>4, <1>5, <1>6 DEF Next, FixtureEnds, TestEnds, F!Next

\* Every run is one of Fixtures: a fixture is set up once and torn down once, if it
\* has been set up, and a test runs once, while all the fixtures around it are up
\* that the factory has grouped, however tests and fixtures end.
THEOREM RunsKeepFixtures == Spec => FixturesKept
<1>1. Init => Kept /\ F!Init
  BY InitKept, InitFixtures
<1>2. Kept /\ [Next]_vars => Kept'
  BY NextKept
<1>3. Kept /\ [Next]_vars => [F!Next]_(F!fixtureVars)
  BY NextFixtures
<1> QED BY <1>1, <1>2, <1>3, PTL DEF Spec, FixturesKept, F!Spec

-----------------------------------------------------------------------------
(***************************************************************************)
(* Fixtures nest.  The loops of setUp and tearDown go through the contexts *)
(* around a suite from one end to the other: those with a smaller number   *)
(* are further in.                                                         *)
(***************************************************************************)
\* setUp has still to look at the first k contexts around the suite, which it has
\* not set up.
SettingIn(a, k) ==
  /\ Len(todo) = k /\ \A i \in 1 .. k : todo[i] = a[(k - i) + 1]
  /\ \A i \in 1 .. k : setupBy[a[i]] # at
  /\ \A i \in k + 1 .. Len(a) : Shared(a[i]) \/ IsSetUp(a[i])

\* tearDown has still to look at all from the kth on, and then at the first again.
TearingOut(a, k) ==
  /\ todo = SubSeq(Append(a, Context(at)), k, Len(a) + 1)
  /\ \A i \in 1 .. Len(a) : setupBy[a[i]] = at =>
       IF i >= k THEN torndownBy[a[i]] = Nobody
                 ELSE Shared(a[i]) \/ torndownBy[a[i]] # Nobody

SetsInOrder ==
  phase = "setup" =>
    \E k \in 0 .. Len(Around[Context(at)]) : SettingIn(Around[Context(at)], k)
TearsInOrder ==
  phase = "teardown" =>
    \E k \in 1 .. Len(Around[Context(at)]) + 2 : TearingOut(Around[Context(at)], k)
TornByOwner == \A c \in Contexts : torndownBy[c] # Nobody => setupBy[c] \in wasTorndown

Ordered == SetsInOrder /\ TearsInOrder /\ TornByOwner

LEMMA InitOrdered == ASSUME Init PROVE Ordered
BY DEF Init, Ordered, SetsInOrder, TearsInOrder, TornByOwner

LEMMA AroundDistinct ==
  ASSUME NEW c \in Contexts
  PROVE  /\ Around[c] \in Seq(Contexts) /\ Len(Around[c]) \in Nat
         /\ \A i, j \in 1 .. Len(Around[c]) : Around[c][i] = Around[c][j] => i = j
         /\ \A i \in 1 .. Len(Around[c]) : Around[c][i] \in Contexts
<1>1. Around[c] \in Seq(Contexts)
  BY ContextsAssumption
<1>2. DOMAIN Around[c] = 1 .. Len(Around[c]) /\ Len(Around[c]) \in Nat
  BY <1>1
<1>3. \A i, j \in 1 .. Len(Around[c]) : Around[c][i] = Around[c][j] => i = j
  BY <1>2, NestingAssumption
<1>4. \A i \in 1 .. Len(Around[c]) : Around[c][i] \in Contexts
  BY <1>1
<1> QED BY <1>1, <1>2, <1>3, <1>4

LEMMA RestOfList ==
  ASSUME NEW S, NEW s \in Seq(S), NEW k \in 1 .. Len(s) + 1, SubSeq(s, k, Len(s)) # <<>>
  PROVE  /\ k <= Len(s) /\ Head(SubSeq(s, k, Len(s))) = s[k]
         /\ Tail(SubSeq(s, k, Len(s))) = SubSeq(s, k + 1, Len(s))
<1>1. k \in Int /\ Len(s) \in Nat
  OBVIOUS
<1>2. k <= Len(s)
  <2>1. SUFFICES ASSUME Len(s) < k PROVE FALSE
    BY <1>1
  <2> QED
    BY <1>1, <2>1, SubSeqEmpty
<1>3. k \in 1 .. Len(s) /\ Len(s) \in k .. Len(s)
  BY <1>1, <1>2
<1> QED
  BY <1>2, <1>3, HeadTailOfSubSeq

\* The loop of setUp.
LEMMA NextSettingIn ==
  ASSUME Running, SetsInOrder, [Next]_vars
  PROVE  SetsInOrder'
<1> SUFFICES ASSUME phase' = "setup" PROVE SetsInOrder'
  BY DEF SetsInOrder
<1>0. /\ program' = program /\ at' = at /\ Context(at)' = Context(at) /\ at # Nobody
      /\ todo \in Seq(Contexts) /\ setupBy \in [Contexts -> Paths \cup {Nobody}]
      /\ \A c : Shared(c)' = Shared(c)
  <2>1. program' = program /\ at' = at
    BY Progress, Moves DEF Running
  <2> QED
    BY <2>1, PathFacts DEF Running, Typing, TypeOK, Placed, Context, tree, Shared
<1>1. CASE Enter
  <2>1. Context(at) \in Contexts /\ todo' = SetupOrder(Context(at)) /\ setupBy' = setupBy
        /\ phase = "enter"
    BY <1>1, PathFacts DEF Enter, Running, Typing, TypeOK, Placed, factory
  <2> PICK a \in Seq(Contexts) : a = Around[Context(at)]
    BY <2>1, AroundDistinct
  <2> PICK l \in Nat : l = Len(a)
    OBVIOUS
  <2>2. Len(todo') = l /\ \A i \in 1 .. l : todo'[i] = a[(l - i) + 1]
    BY <2>1 DEF SetupOrder, Reverse
  <2>3. \A i \in 1 .. l : setupBy'[a[i]] # at
    BY <2>1 DEF Running, Fresh, Untouched
  <2>5. \A i \in l + 1 .. Len(a) : FALSE
    OBVIOUS
  <2>4. SettingIn(a, l)'
    BY <1>0, <2>2, <2>3, <2>5 DEF SettingIn
  <2> QED BY <1>0, <2>4 DEF SetsInOrder
<1>2. CASE phase = "setup" /\ ~Enter
  <2>1. Context(at) \in Contexts
    BY <1>2 DEF Running, Typing, Placed, HasContext
  <2> PICK a \in Seq(Contexts) : a = Around[Context(at)]
    BY <2>1, AroundDistinct
  <2>2. /\ Len(a) \in Nat
        /\ \A i, j \in 1 .. Len(a) : a[i] = a[j] => i = j
        /\ \A i \in 1 .. Len(a) : a[i] \in Contexts
    BY <2>1, AroundDistinct
  <2>3. PICK k \in 0 .. Len(a) : SettingIn(a, k)
    BY <1>2 DEF SetsInOrder
  <2> SUFFICES \E m \in 0 .. Len(a) : SettingIn(a, m)'
    BY <1>0 DEF SetsInOrder
  <2>4. ASSUME todo # <<>>, todo' = Tail(todo), setupBy' = [setupBy EXCEPT ![Head(todo)] = at]
                 \/ (setupBy' = setupBy /\ (IsSetUp(Head(todo)) \/ Shared(Head(todo))))
        PROVE  \E m \in 0 .. Len(a) : SettingIn(a, m)'
    <3>1. k # 0 /\ k - 1 \in 0 .. Len(a) /\ k \in 1 .. Len(a)
      BY <1>0, <2>2, <2>3, <2>4 DEF SettingIn
    <3>2. Head(todo) = a[k]
      BY <1>0, <2>3, <2>4, <3>1 DEF SettingIn
    <3>3. Len(todo') = k - 1 /\ \A i \in 1 .. k - 1 : todo'[i] = a[((k - 1) - i) + 1]
      <4>1. Len(todo) = k /\ \A i \in 1 .. k : todo[i] = a[(k - i) + 1]
        BY <2>3 DEF SettingIn
      <4>2. Len(todo') = k - 1 /\ \A i \in 1 .. k - 1 : todo'[i] = todo[i + 1]
        BY <1>0, <2>4, <3>1, <4>1
      <4>3. \A i \in 1 .. k - 1 : i + 1 \in 1 .. k /\ (k - (i + 1)) + 1 = ((k - 1) - i) + 1
        BY <3>1
      <4> QED BY <4>1, <4>2, <4>3
    <3>4. \A i \in 1 .. k - 1 : setupBy'[a[i]] # at
      <4>1. \A i \in 1 .. k - 1 : i \in 1 .. k /\ i \in 1 .. Len(a) /\ a[i] # a[k]
        BY <2>2, <3>1
      <4> QED BY <1>0, <2>2, <2>3, <2>4, <3>1, <3>2, <4>1 DEF SettingIn
    <3>5. \A i \in (k - 1) + 1 .. Len(a) : Shared(a[i])' \/ IsSetUp(a[i])'
      <4>1. \A i \in (k - 1) + 1 .. Len(a) : i = k \/ i \in k + 1 .. Len(a)
        BY <2>2, <3>1
      <4>2. Shared(a[k])' \/ IsSetUp(a[k])'
        BY <1>0, <2>2, <2>4, <3>1, <3>2 DEF IsSetUp
      <4>3. \A i \in k + 1 .. Len(a) : a[i] \in Contexts
        BY <2>2, <3>1
      <4>4. \A i \in k + 1 .. Len(a) : Shared(a[i])' \/ IsSetUp(a[i])'
        BY <1>0, <2>2, <2>3, <2>4, <4>3 DEF IsSetUp, SettingIn
      <4> QED BY <4>1, <4>2, <4>4
    <3>6. SettingIn(a, k - 1)'
      BY <1>0, <3>3, <3>4, <3>5 DEF SettingIn
    <3> QED BY <3>1, <3>6
  <2>5. CASE SkipSetup
    BY <2>4, <2>5 DEF SkipSetup, factory
  <2>6. ASSUME NEW o \in Outcomes, SetupContext(o)
        PROVE  \E m \in 0 .. Len(a) : SettingIn(a, m)'
    <3>1. todo' = Tail(todo) /\ todo # <<>>
      BY <2>6, LeaveTypes DEF SetupContext, Running
    <3> QED BY <2>4, <2>6, <3>1 DEF SetupContext
  <2>7. CASE UNCHANGED vars
    BY <1>0, <2>3, <2>7 DEF vars, SettingIn, IsSetUp
  <2> QED
    BY <1>2, <2>5, <2>6, <2>7
       DEF Next, FixtureEnds, TestEnds, SetupDone, NextTest, EndTests, CatchTimeout, SkipTeardown,
           TeardownDone, TeardownContext, RunTest, Terminated
<1> QED BY <1>1, <1>2, Moves DEF Running

\* The loop of tearDown.
LEMMA NextTearingOut ==
  ASSUME Running, Ordered, [Next]_vars
  PROVE  TearsInOrder'
<1> SUFFICES ASSUME phase' = "teardown" PROVE TearsInOrder'
  BY DEF TearsInOrder
<1>0. /\ program' = program /\ at' = at /\ Context(at)' = Context(at) /\ at # Nobody
      /\ todo \in Seq(Contexts) /\ setupBy \in [Contexts -> Paths \cup {Nobody}]
      /\ torndownBy \in [Contexts -> Paths \cup {Nobody}]
      /\ \A c : Shared(c)' = Shared(c)
      /\ setupBy' = setupBy /\ Context(at) \in Contexts
  <2>1. program' = program /\ at' = at
    BY Progress, Moves DEF Running
  <2>2. setupBy' = setupBy
    <3>1. ASSUME NEW o \in Outcomes, SetupContext(o) PROVE FALSE
      BY <3>1, LeaveTypes DEF SetupContext, Running
    <3> QED
      BY <3>1 DEF Next, FixtureEnds, TestEnds, vars, Enter, SkipSetup, SetupDone, NextTest,
         EndTests, CatchTimeout, SkipTeardown, TeardownDone, TeardownContext, RunTest,
         Terminated, factory
  <2>3. Context(at) \in Contexts
    BY Moves, LeaveTypes DEF Running, Typing, Placed, HasContext, EndTests
  <2> QED
    BY <2>1, <2>2, <2>3, PathFacts
    DEF Running, Typing, TypeOK, Placed, Context, tree, Shared
<1> PICK a \in Seq(Contexts) : a = Around[Context(at)]
  BY <1>0, AroundDistinct
<1> PICK l \in Nat : l = Len(a)
  OBVIOUS
<1> PICK own \in Contexts : own = Context(at)
  BY <1>0
<1> PICK t \in Seq(Contexts) : t = Append(a, own)
  <2>1. Append(a, own) \in Seq(Contexts)
    OBVIOUS
  <2> QED BY <2>1, Zenon
<1>1. /\ Len(t) = l + 1 /\ \A i \in 1 .. l : t[i] = a[i]
      /\ \A i, j \in 1 .. l : a[i] = a[j] => i = j
      /\ \A i \in 1 .. l : a[i] \in Contexts
  <2>1. Len(t) = l + 1 /\ \A i \in 1 .. l : t[i] = a[i]
    OBVIOUS
  <2>2. \A i, j \in 1 .. l : a[i] = a[j] => i = j
    BY <1>0, AroundDistinct
  <2> QED BY <2>1, <2>2
<1> DEFINE Torn(k) ==
      \A i \in 1 .. l : setupBy[a[i]] = at =>
        IF i >= k THEN torndownBy[a[i]] = Nobody
                  ELSE Shared(a[i]) \/ torndownBy[a[i]] # Nobody
<1>2. ASSUME NEW k \in 1 .. l + 2, todo' = SubSeq(t, k, l + 1), Torn(k)'
      PROVE  TearsInOrder'
  <2>1. TearingOut(a, k)'
    BY <1>0, <1>2 DEF TearingOut
  <2>2. Around[Context(at)]' = a
    BY <1>0
  <2> QED BY <2>1, <2>2 DEF TearsInOrder
<1>3. CASE EndTests
  <2>1. /\ at \in wasSetup \ wasTorndown /\ todo' = t /\ torndownBy' = torndownBy
    BY <1>3, LeaveTypes DEF EndTests, Running, TeardownOrder, factory
  <2>2. todo' = SubSeq(t, 1, l + 1)
    BY <1>1, <2>1
  <2>3. Torn(1)'
    BY <1>0, <1>1, <2>1 DEF Ordered, TornByOwner
  <2> QED BY <1>2, <2>2, <2>3
<1>4. CASE phase = "teardown" /\ ~EndTests
  <2>1. PICK k \in 1 .. l + 2 : TearingOut(a, k)
    BY <1>4 DEF Ordered, TearsInOrder
  <2>2. todo = SubSeq(t, k, l + 1) /\ Torn(k)
    BY <2>1 DEF TearingOut
  <2> HIDE DEF Torn
  <2>3. ASSUME todo # <<>>, todo' = Tail(todo),
               \/ torndownBy' = [torndownBy EXCEPT ![Head(todo)] = at]
               \/ torndownBy' = torndownBy /\ (~MustTearDown(Head(todo)) \/ Shared(Head(todo)))
        PROVE  TearsInOrder'
    <3>1. k \in 1 .. l + 1 /\ Head(todo) = t[k] /\ todo' = SubSeq(t, k + 1, l + 1)
          /\ k + 1 \in 1 .. l + 2
      <4>1. Len(t) = l + 1
        BY <1>1
      <4>2. SubSeq(t, k, Len(t)) # <<>>
        BY <2>2, <2>3, <4>1
      <4>3. k # l + 2
        <5>1. SubSeq(t, l + 2, l + 1) = <<>>
          BY <4>1
        <5> QED BY <2>2, <2>3, <5>1
      <4>4. k \in 1 .. Len(t) + 1
        BY <4>1, <4>3
      <4>5. /\ Head(SubSeq(t, k, Len(t))) = t[k]
            /\ Tail(SubSeq(t, k, Len(t))) = SubSeq(t, k + 1, Len(t))
        BY <4>2, <4>4, RestOfList
      <4>6. Head(todo) = t[k] /\ todo' = SubSeq(t, k + 1, l + 1)
        BY <2>2, <2>3, <4>1, <4>5
      <4> QED BY <4>3, <4>6
    <3>2. t[k] \in Contexts
      BY <1>1, <3>1
    <3>3. ASSUME NEW i \in 1 .. l, setupBy[a[i]] = at, i >= k + 1
          PROVE  torndownBy'[a[i]] = Nobody
      <4>1. i >= k /\ k \in 1 .. l /\ a[i] # t[k]
        BY <1>1, <3>1, <3>3
      <4>2. torndownBy[a[i]] = Nobody
        BY <2>2, <3>3, <4>1 DEF Torn
      <4> QED BY <1>0, <1>1, <2>3, <3>1, <4>1, <4>2
    <3>4. ASSUME NEW i \in 1 .. l, setupBy[a[i]] = at, ~(i >= k + 1)
          PROVE  Shared(a[i]) \/ torndownBy'[a[i]] # Nobody
      <4>1. CASE i = k
        <5>1. a[i] = Head(todo)
          BY <1>1, <3>1, <4>1
        <5> QED BY <1>0, <1>1, <2>3, <3>4, <5>1 DEF MustTearDown
      <4>2. CASE i # k
        <5>1. ~(i >= k)
          BY <3>1, <3>4, <4>2
        <5>2. Shared(a[i]) \/ torndownBy[a[i]] # Nobody
          BY <2>2, <3>4, <5>1 DEF Torn
        <5> QED BY <1>0, <1>1, <2>3, <3>1, <3>2, <5>2
      <4> QED BY <4>1, <4>2
    <3>5. Torn(k + 1)'
      BY <1>0, <3>3, <3>4 DEF Torn
    <3> QED BY <1>2, <3>1, <3>5
  <2>4. CASE SkipTeardown
    BY <2>3, <2>4 DEF SkipTeardown, factory
  <2>5. ASSUME NEW o \in Outcomes, TeardownContext(o) PROVE TearsInOrder'
    <3>1. todo' = Tail(todo) /\ todo # <<>>
      BY <2>5, LeaveTypes DEF TeardownContext, Running
    <3> QED BY <2>3, <2>5, <3>1 DEF TeardownContext
  <2>6. CASE UNCHANGED vars
    <3>1. todo' = todo /\ torndownBy' = torndownBy
      BY <2>6 DEF vars, factory
    <3>2. Torn(k)'
      BY <1>0, <2>2, <3>1 DEF Torn
    <3> QED BY <1>2, <2>2, <3>1, <3>2
  <2>7. ~TeardownDone
    BY LeaveTypes DEF TeardownDone, Running
  <2> QED
    BY <1>4, <2>4, <2>5, <2>6, <2>7
       DEF Next, FixtureEnds, TestEnds, Enter, SkipSetup, SetupContext, SetupDone, NextTest,
           CatchTimeout, RunTest, Terminated
<1> QED BY <1>3, <1>4, Moves DEF Running

LEMMA NextTornByOwner ==
  ASSUME Running, TornByOwner, [Next]_vars
  PROVE  TornByOwner'
<1>0. /\ todo \in Seq(Contexts) /\ at # Nobody
      /\ setupBy \in [Contexts -> Paths \cup {Nobody}]
      /\ torndownBy \in [Contexts -> Paths \cup {Nobody}]
  BY PathFacts DEF Running, Typing, TypeOK, Placed
<1>1. wasTorndown \subseteq wasTorndown'
  BY DEF Next, FixtureEnds, TestEnds, vars, Enter, SkipSetup, SetupContext, SetupDone, NextTest,
     EndTests, CatchTimeout, SkipTeardown, TeardownDone, TeardownContext, RunTest, Terminated,
     suites, place
<1>2. CASE setupBy' = setupBy /\ torndownBy' = torndownBy
  BY <1>1, <1>2 DEF TornByOwner
<1>3. ASSUME NEW o \in Outcomes, SetupContext(o) PROVE TornByOwner'
  <2>1. PICK d \in Contexts : d = Head(todo)
    BY <1>0, <1>3, TailType DEF SetupContext
  <2>2. /\ setupBy[d] = Nobody /\ setupBy' = [setupBy EXCEPT ![d] = at]
        /\ torndownBy' = torndownBy
    BY <1>3, <2>1 DEF SetupContext, IsSetUp
  <2>3. torndownBy[d] = Nobody
    BY <2>2 DEF Running, Lifecycle, SetUpBefore
  <2> QED BY <1>0, <1>1, <2>2, <2>3 DEF TornByOwner
<1>4. ASSUME NEW o \in Outcomes, TeardownContext(o) PROVE TornByOwner'
  <2>1. PICK d \in Contexts : d = Head(todo)
    BY <1>0, <1>4, TailType DEF TeardownContext
  <2>2. /\ setupBy[d] = at /\ setupBy' = setupBy /\ phase = "teardown"
        /\ torndownBy' = [torndownBy EXCEPT ![d] = at]
    BY <1>4, <2>1 DEF TeardownContext, MustTearDown
  <2>3. at \in wasTorndown
    BY <2>2 DEF Running, Fresh
  <2> QED BY <1>0, <1>1, <2>2, <2>3 DEF TornByOwner
<1> QED
  BY <1>2, <1>3, <1>4 DEF Next, FixtureEnds, TestEnds, vars, Enter, SkipSetup, SetupDone,
     NextTest, EndTests, CatchTimeout, SkipTeardown, TeardownDone, RunTest, Terminated, factory

LEMMA NextOrdered == Running /\ Ordered /\ [Next]_vars => Ordered'
BY NextSettingIn, NextTearingOut, NextTornByOwner DEF Ordered

\* What is around a context goes on as it does around one inside.
LEMMA AroundFurther ==
  ASSUME NEW c \in Contexts, NEW i \in 1 .. Len(Around[c]),
         NEW d \in ToSet(Around[Around[c][i]])
  PROVE  \E j \in i .. Len(Around[c]) : d = Around[c][j]
<1>1. Around[c] \in Seq(Contexts)
  BY ContextsAssumption
<1>2. i \in DOMAIN Around[c]
  BY <1>1
<1>3. ToSet(Around[Around[c][i]]) \subseteq {Around[c][k] : k \in i .. Len(Around[c])}
  BY <1>2, NestingAssumption
<1>4. d \in {Around[c][k] : k \in i .. Len(Around[c])}
  BY <1>3
<1> QED BY <1>4

\* What is around a fixture that is up is up.
LEMMA UpTogether ==
  ASSUME Kept, Ordered, ~fixtureFailed, NEW c \in up, NEW d \in ToSet(Around[c]),
         ~Shared(d), d \in Grouped[program]
  PROVE  d \in up
<1>0. /\ at \in Paths /\ at \in Path /\ Paths \subseteq Path /\ at # Nobody
      /\ c \in Contexts /\ wasTorndown \subseteq wasSetup /\ phase \in Phases
  BY PathFacts DEF Kept, Running, Typing, TypeOK, Placed
<1>1. Held(c)
  BY DEF Kept, Running, Lifecycle, AllHeld
<1> PICK r \in Paths : r = setupBy[c]
  BY <1>1 DEF Held, Owned
<1>2. torndownBy[c] = Nobody /\ ~Shared(c) /\ IsSetUp(c) /\ Needing(program, r, c)
  BY <1>0, <1>1 DEF Held, Owned, Kept, Standing, Tops, IsTop
<1>3. HasContext(r) /\ HasTests(r) /\ c \in ToSet(Around[Context(r)])
  BY <1>2 DEF Needing, HasContext, HasTests, IsSuite, Context, Paths, tree
<1> PICK a \in Seq(Contexts) : a = Around[Context(r)]
  BY <1>3, AroundDistinct DEF HasContext
<1> PICK i \in 1 .. Len(a) : c = a[i]
  BY <1>3 DEF ToSet
<1> PICK j \in i .. Len(a) : d = a[j]
  <2> PICK own \in Contexts : own = Context(r)
    BY <1>3 DEF HasContext
  <2>1. a = Around[own]
    OBVIOUS
  <2>2. i \in 1 .. Len(Around[own]) /\ d \in ToSet(Around[Around[own][i]])
    BY <2>1
  <2>3. \E m \in i .. Len(Around[own]) : d = Around[own][m]
    BY <2>2, AroundFurther
  <2> QED BY <2>1, <2>3
<1>4. j \in 1 .. Len(a) /\ d \in Contexts /\ d \in ToSet(a) /\ j >= i /\ i \in Nat /\ j \in Nat
  <2>1. j \in 1 .. Len(a) /\ j >= i /\ j \in Nat /\ i \in Nat
    OBVIOUS
  <2>2. a[j] \in Contexts /\ j \in DOMAIN a
    BY <2>1
  <2> QED BY <2>1, <2>2 DEF ToSet
<1>5. Needing(program, r, d)
  BY <1>2, <1>4 DEF Needing, Context, tree
<1>6. ASSUME r \in wasSetup PROVE IsSetUp(d)
  BY <1>4, <1>6 DEF Kept, Examined
\* The suite that has set it up.
<1>7. ASSUME IsSetUp(d), r = at \/ Ancestor(r, at), setupBy[d] # r
      PROVE  d \in up
  <2> PICK s \in Paths : s = setupBy[d]
    BY <1>4, <1>7 DEF Kept, Tops, IsTop
  <2>1. Needing(program, s, d) /\ Ancestor(s, r)
    BY <1>4, <1>5, <1>7 DEF Kept, Tops, IsTop
  <2>2. Ancestor(s, at)
    BY <1>0, <1>7, <2>1, AncestorTransitive
  <2>3. HasContext(s)
    BY <2>1 DEF Needing, HasContext, IsSuite, Context, tree
  <2>4. s \in wasSetup \ wasTorndown
    BY <2>2, <2>3 DEF Kept, Entered, Opened
  <2> QED BY <1>4, <1>7, <2>4 DEF Kept, Standing, Stands
<1>8. ASSUME IsSetUp(d), setupBy[d] = r, r \in wasSetup \ wasTorndown
      PROVE  d \in up
  BY <1>4, <1>8 DEF Kept, Standing, Stands
<1>9. CASE HeldAbove(r)
  BY <1>6, <1>7, <1>8, <1>9 DEF HeldAbove
<1>10. CASE r = at /\ phase = "setup"
  <2>1. PICK k \in 0 .. Len(a) : SettingIn(a, k)
    BY <1>10 DEF Ordered, SetsInOrder
  <2>2. i > k
    <3>1. setupBy[a[i]] = at => ~(i \in 1 .. k)
      BY <2>1 DEF SettingIn
    <3>2. setupBy[a[i]] = at
      BY <1>10
    <3>3. i \in Nat \ {0} /\ k \in Nat
      BY <1>4
    <3> QED BY <3>1, <3>2, <3>3
  <2>3. j \in k + 1 .. Len(a)
    BY <1>4, <2>2
  <2>4. IsSetUp(d)
    BY <2>1, <2>3 DEF SettingIn
  <2>5. setupBy[d] = at => d \in up
    BY <1>4, <1>10, <2>4 DEF Kept, Standing, Stands
  <2> QED BY <1>7, <1>10, <2>4, <2>5
<1>11. CASE r = at /\ phase = "tests" /\ at \in wasSetup \ wasTorndown
  BY <1>6, <1>7, <1>8, <1>11
<1>12. CASE r = at /\ phase = "teardown"
  <2>1. PICK k \in 1 .. Len(a) + 2 : TearingOut(a, k)
    BY <1>12 DEF Ordered, TearsInOrder
  <2>2. i >= k
    BY <1>2, <1>12, <2>1 DEF TearingOut
  <2>3. j >= k
    BY <1>4, <2>2
  <2>4. IsSetUp(d)
    BY <1>0, <1>6, <1>12 DEF Kept, Running, Fresh
  <2>5. setupBy[d] = at => torndownBy[d] = Nobody
    BY <1>4, <2>1, <2>3 DEF TearingOut
  <2>6. setupBy[d] = at => d \in up
    BY <1>4, <1>12, <2>4, <2>5 DEF Kept, Standing, Stands
  <2> QED BY <1>7, <1>12, <2>4, <2>6
<1> QED
  BY <1>1, <1>9, <1>10, <1>11, <1>12 DEF Held, HeldHere

\* As long as no fixture raises, a fixture is up only while those around it are that
\* the factory has grouped: the setups go from the outside in, and the teardowns
\* back, over all the suites of a package or module.
THEOREM FixturesNest == Spec => []Nested
<1>1. Init => Kept /\ Ordered
  BY InitKept, InitOrdered
<1>2. Kept /\ Ordered /\ [Next]_vars => (Kept /\ Ordered)'
  BY NextKept, NextOrdered DEF Kept
<1>3. Kept /\ Ordered => Nested
  BY UpTogether DEF Nested, Keeps, Shared
<1> QED BY <1>1, <1>2, <1>3, PTL DEF Spec

-----------------------------------------------------------------------------
(***************************************************************************)
(* Every test runs.  While nothing cuts the run short, it has run every    *)
(* test, is in it or gets to it later (AllBehind).                         *)
(***************************************************************************)
\* A path leads through suites only.
LEMMA AncestorSuite ==
  ASSUME NEW g \in Programs, NEW q \in DOMAIN g.tree, NEW r, Ancestor(r, q)
  PROVE  r \in DOMAIN g.tree /\ g.tree[r].suite
<1> DEFINE Good(s) == \A t : Ancestor(t, s) => t \in DOMAIN g.tree /\ g.tree[t].suite
           I == {n \in Nat : \A s \in DOMAIN g.tree : Len(s) = n => Good(s)}
<1>0. /\ DOMAIN g.tree \subseteq Path
      /\ \A s \in DOMAIN g.tree : s # <<>> =>
           Front(s) \in DOMAIN g.tree /\ g.tree[Front(s)].suite
  BY ProgramsAssumption DEF Path
<1>1. 0 \in I
  <2> SUFFICES ASSUME NEW s \in DOMAIN g.tree, Len(s) = 0, NEW t, Ancestor(t, s) PROVE FALSE
    OBVIOUS
  <2>1. t \in Path /\ Len(t) < 0
    BY <1>0, AncestorLength
  <2> QED BY <2>1 DEF Path
<1>2. ASSUME NEW n \in Nat, n \in I PROVE n + 1 \in I
  <2> SUFFICES ASSUME NEW s \in DOMAIN g.tree, Len(s) = n + 1, NEW t, Ancestor(t, s)
               PROVE  t \in DOMAIN g.tree /\ g.tree[t].suite
    OBVIOUS
  <2>1. s # <<>> /\ (t = Front(s) \/ Ancestor(t, Front(s)))
    BY <1>0, AncestorFacts
  <2>2. Front(s) \in DOMAIN g.tree /\ g.tree[Front(s)].suite
    BY <1>0, <2>1
  <2>3. Len(Front(s)) = n
    <3>1. s \in Seq(Nat \ {0})
      BY <1>0 DEF Path
    <3>2. Front(s) = [i \in 1 .. n |-> s[i]]
      BY <3>1 DEF Front
    <3> QED BY <3>1, <3>2
  <2>4. Good(Front(s))
    BY <1>2, <2>2, <2>3
  <2> QED BY <2>1, <2>2, <2>4
<1> HIDE DEF Good
<1>3. Nat \subseteq I
  <2> HIDE DEF I
  <2> QED BY <1>1, <1>2, SetInduction
<1>4. Len(q) \in Nat
  BY <1>0 DEF Path
<1>5. Good(q)
  BY <1>3, <1>4
<1> QED BY <1>5 DEF Good

\* Where there is a test with a number, or a path through it, there is one with each
\* number before.
LEMMA TestsBefore ==
  ASSUME NEW g \in Programs, NEW p \in Path, NEW n \in Nat \ {0},
         NEW q \in DOMAIN g.tree, NEW i \in 1 .. Len(q), i = Len(p) + 1,
         q[i] >= n, \A j \in 1 .. i - 1 : q[j] = p[j]
  PROVE  Append(p, n) \in DOMAIN g.tree /\ g.tree[p].suite
<1>0. DOMAIN g.tree \subseteq Path
  BY ProgramsAssumption DEF Path
<1> PICK l \in Nat : l = Len(p)
  BY DEF Path
<1> PICK k \in Nat : k = Len(q)
  BY <1>0 DEF Path
<1> PICK x \in Nat \ {0} : x = q[l + 1]
  BY <1>0 DEF Path
<1>1. PICK r \in Path : r = Append(p, x)
  BY FrontOfNext
<1>2. Len(r) = l + 1 /\ r[l + 1] = x /\ \A j \in 1 .. l : r[j] = p[j]
  BY <1>1 DEF Path
<1>3. \A j \in 1 .. l + 1 : r[j] = q[j]
  BY <1>2
<1>4. r \in DOMAIN g.tree
  <2>1. CASE k = l + 1
    <3>1. r \in Seq(Nat \ {0}) /\ q \in Seq(Nat \ {0}) /\ Len(q) = Len(r)
          /\ \A j \in 1 .. Len(q) : q[j] = r[j]
      BY <1>0, <1>2, <1>3, <2>1 DEF Path
    <3>2. r = q
      BY <3>1, SeqEqual
    <3> QED BY <3>2
  <2>2. CASE k # l + 1
    <3>1. Len(r) < Len(q) /\ \A j \in 1 .. Len(r) : r[j] = q[j]
      BY <1>2, <1>3, <2>2
    <3>2. Ancestor(r, q)
      BY <1>0, <3>1, AncestorLength
    <3> QED BY <3>2, AncestorSuite
  <2> QED BY <2>1, <2>2
<1>5. r # <<>> /\ Front(r) = p /\ Last(r) = x
  BY <1>1, FrontOfNext
<1>6. /\ g.tree[p].suite
      /\ \A j \in 1 .. x : Append(p, j) \in DOMAIN g.tree
  BY <1>4, <1>5, ProgramsAssumption
<1>7. n \in 1 .. x
  OBVIOUS
<1> QED BY <1>6, <1>7

Undisturbed == raising \in {"no", "timeout"} /\ ~shouldStop /\ ~fixtureFailed

Behind(q) == q \in ran \/ Ahead(q) \/ (q = at /\ phase = "test")

AllBehind ==
  /\ ran \subseteq TestsIn(program)
  /\ phase \in {"enter", "setup", "test"} => raising = "no"
  /\ Undisturbed => \A q \in TestsIn(program) : Behind(q)
  /\ Undisturbed /\ phase \in {"teardown", "done"} => Append(at, next) \notin Paths

LEMMA InitAllBehind == ASSUME Init PROVE AllBehind
<1>1. program \in Programs /\ at = <<>> /\ phase = "enter" /\ raising = "no" /\ ran = {}
  BY DEF Init
<1>2. ASSUME NEW q \in TestsIn(program) PROVE Ahead(q)
  <2>1. q \in Path /\ q # <<>>
    BY <1>1, PathFacts DEF TestsIn, Paths, IsSuite, tree
  <2>2. Len(q) \in Nat /\ 1 \in 1 .. Len(q) /\ q[1] >= 1 /\ Len(at) = 0
    BY <1>1, <2>1 DEF Path
  <2>3. 1 <= Len(at) + 1 /\ ~(1 <= Len(at)) /\ \A j \in 1 .. 1 - 1 : q[j] = at[j]
    BY <2>2
  <2>4. From = 1
    BY <1>1 DEF From
  <2> QED BY <2>2, <2>3, <2>4 DEF Ahead, AheadOf
<1> QED BY <1>1, <1>2 DEF AllBehind, Behind

\* Leaving a suite or test that has no further test.
LEMMA BehindOnLeaving ==
  ASSUME Running, Leave, UNCHANGED program, phase \in {"tests", "test", "teardown"},
         Append(at, From) \notin Paths \/ phase = "test", NEW q \in Paths, Ahead(q)
  PROVE  Ahead(q)'
<1>0. /\ program \in Programs /\ at \in Paths /\ at \in Path /\ q \in Path /\ From \in Nat \ {0}
      /\ next \in Nat \ {0}
  BY PathFacts DEF Running, Typing, TypeOK, Placed, From
<1>1. CASE at = <<>>
  <2>1. phase # "test"
    BY <1>0, <1>1, PathFacts DEF Running, Fresh
  <2>2. at' = at /\ From' = From
    BY <1>1, <2>1 DEF Leave, From
  <2> QED BY <2>2 DEF Ahead
<1>2. CASE at # <<>>
  <2>1. at' = Front(at) /\ From' = Last(at) + 1
    BY <1>2 DEF Leave, From
  <2>2. \/ AheadOf(q, Front(at), Last(at) + 1)
        \/ \E i \in 1 .. Len(q) :
             i = Len(at) + 1 /\ q[i] >= From /\ \A j \in 1 .. i - 1 : q[j] = at[j]
    BY <1>0, <1>2, AheadOnLeaving DEF Ahead
  <2>3. ASSUME NEW i \in 1 .. Len(q), i = Len(at) + 1, q[i] >= From,
               \A j \in 1 .. i - 1 : q[j] = at[j]
        PROVE  FALSE
    <3>1. Append(at, From) \in Paths /\ IsSuite(at)
      BY <1>0, <2>3, TestsBefore DEF Paths, IsSuite, tree
    <3> QED BY <3>1 DEF Running, Fresh
  <2> QED BY <2>1, <2>2, <2>3 DEF Ahead
<1> QED BY <1>1, <1>2

\* What goes on undisturbed was undisturbed, and is where it was or goes on.
LEMMA NextUndisturbed ==
  ASSUME Running, AllBehind, [Next]_vars, Undisturbed'
  PROVE  Undisturbed
<1>1. CASE CatchTimeout
  BY <1>1 DEF CatchTimeout, Undisturbed
<1>2. ASSUME NEW o \in Outcomes, SetupContext(o) \/ RunTest(o) PROVE Undisturbed
  <2>1. raising = "no" /\ (fixtureFailed => fixtureFailed')
    BY <1>2 DEF SetupContext, RunTest, AllBehind
  <2>2. shouldStop => shouldStop'
    BY <1>2 DEF SetupContext, RunTest, Raise, AddError
  <2> QED BY <2>1, <2>2 DEF Undisturbed
<1>3. ASSUME NEW o \in Outcomes, TeardownContext(o) PROVE Undisturbed
  <2>1. CASE o = "ok"
    BY <1>3, <2>1 DEF TeardownContext, Undisturbed, Raise, Escaping, Escapes
  <2>2. CASE o # "ok"
    BY <1>3, <2>2 DEF TeardownContext, Undisturbed
  <2> QED BY <2>1, <2>2
<1>4. CASE UNCHANGED <<result, fixtureFailed>>
  BY <1>4 DEF result, Undisturbed
<1> QED
  BY <1>1, <1>2, <1>3, <1>4 DEF Next, FixtureEnds, TestEnds, vars, Enter, SkipSetup, SetupDone,
     NextTest, EndTests, SkipTeardown, TeardownDone, Terminated, result

LEMMA NextAllBehind ==
  ASSUME Running, AllBehind, [Next]_vars
  PROVE  AllBehind'
<1>0. /\ program' = program /\ Paths' = Paths /\ TestsIn(program)' = TestsIn(program)
      /\ at \in Paths /\ at \in Path /\ next \in Nat \ {0} /\ phase \in Phases
      /\ program \in Programs /\ TestsIn(program) \subseteq Paths
  BY Progress, PathFacts DEF Running, Typing, TypeOK, Placed, TestsIn, Paths, tree
<1>1. ran' \subseteq TestsIn(program)
  <2>1. ASSUME NEW o \in Outcomes, RunTest(o) PROVE ran' = ran \cup {at} /\ at \in TestsIn(program)
    BY <1>0, <2>1 DEF RunTest, Running, Fresh, TestsIn, IsSuite, Paths, tree
  <2>2. ran' = ran \/ \E o \in Outcomes : RunTest(o)
    BY DEF Next, FixtureEnds, TestEnds, vars, Enter, SkipSetup, SetupContext, SetupDone,
       NextTest, EndTests, CatchTimeout, SkipTeardown, TeardownDone, TeardownContext, Terminated
  <2> QED BY <2>1, <2>2 DEF AllBehind
<1>2. phase' \in {"enter", "setup", "test"} => raising' = "no"
  <2> SUFFICES ASSUME phase' \in {"enter", "setup", "test"} PROVE raising' = "no"
    OBVIOUS
  <2>1. CASE UNCHANGED vars
    BY <2>1 DEF vars, AllBehind
  <2>2. CASE NextTest
    BY <2>2 DEF NextTest, Continues, result
  <2>3. CASE Enter
    BY <2>3 DEF Enter, result, AllBehind
  <2>4. ASSUME phase = "setup", phase' = "setup", ~UNCHANGED vars, ~Enter PROVE raising' = "no"
    <3>1. ASSUME NEW o \in Outcomes, SetupContext(o) PROVE raising' = "no"
      <4>1. o = "ok"
        BY <2>4, <3>1, LeaveTypes DEF SetupContext, Running
      <4> QED BY <2>4, <3>1, <4>1 DEF SetupContext, Raise, Escaping, Escapes, AllBehind
    <3> QED
      BY <2>4, <3>1 DEF Next, FixtureEnds, TestEnds, SkipSetup, SetupDone, NextTest, EndTests,
         CatchTimeout, SkipTeardown, TeardownDone, TeardownContext, RunTest, Terminated,
         result, AllBehind
  <2> QED BY <2>1, <2>2, <2>3, <2>4, Moves DEF Running
<1>3. ASSUME Undisturbed', NEW q \in TestsIn(program) PROVE Behind(q)'
  <2>0. Undisturbed /\ Behind(q) /\ q \in Paths /\ q \in Path
    BY <1>0, <1>3, NextUndisturbed, PathFacts DEF AllBehind
  <2>1. q \in ran => q \in ran'
    BY DEF Next, FixtureEnds, TestEnds, vars, Enter, SkipSetup, SetupContext, SetupDone,
       NextTest, EndTests, CatchTimeout, SkipTeardown, TeardownDone, TeardownContext, RunTest,
       Terminated
  <2>2. CASE at' = at /\ From' = From /\ (phase = "test" => phase' = "test")
    BY <2>0, <2>1, <2>2 DEF Behind, Ahead
  <2>3. CASE NextTest
    <3>1. /\ at' = Append(at, next) /\ From = next /\ From' = 1 /\ phase # "test"
          /\ phase' = IF IsSuite(at') THEN "enter" ELSE "test"
      BY <2>3 DEF NextTest, From
    <3>2. Ahead(q) => AheadOf(q, at', 1) \/ q = at'
      BY <1>0, <2>0, <3>1, AheadOnGoing DEF Ahead
    <3>3. q = at' => phase' = "test"
      BY <3>1 DEF TestsIn, IsSuite, tree
    <3> QED BY <2>0, <2>1, <3>1, <3>2, <3>3 DEF Behind, Ahead
  <2>4. ASSUME NEW o \in Outcomes, RunTest(o) PROVE Behind(q)'
    <3>1. phase = "test" /\ ran' = ran \cup {at} /\ Leave
      BY <2>4 DEF RunTest
    <3>2. Ahead(q) => Ahead(q)'
      BY <1>0, <2>0, <3>1, BehindOnLeaving
    <3> QED BY <2>0, <3>1, <3>2 DEF Behind
  <2>5. CASE Leave /\ (TeardownDone \/ EndTests)
    <3>1. phase \in {"tests", "teardown"} /\ From = next
      BY <2>5 DEF TeardownDone, EndTests, From
    <3>2. Append(at, next) \notin Paths
      <4>1. CASE TeardownDone
        BY <2>0, <4>1 DEF TeardownDone, AllBehind
      <4>2. CASE EndTests
        BY <2>0, <4>2 DEF EndTests, Continues, Undisturbed
      <4> QED BY <2>5, <4>1, <4>2
    <3>3. Ahead(q) => Ahead(q)'
      BY <1>0, <2>0, <2>5, <3>1, <3>2, BehindOnLeaving
    <3> QED BY <2>0, <2>1, <3>1, <3>3 DEF Behind
  <2>6. CASE \/ UNCHANGED vars \/ Enter \/ SkipSetup \/ SetupDone \/ SkipTeardown
             \/ CatchTimeout \/ Terminated \/ (EndTests /\ ~Leave)
    BY <2>2, <2>6 DEF vars, Enter, SkipSetup, SetupDone, SkipTeardown, CatchTimeout, Terminated,
       EndTests, place, From
  <2>7. ASSUME NEW o \in Outcomes, SetupContext(o) \/ TeardownContext(o) PROVE Behind(q)'
    <3>1. o = "ok"
      BY <1>3, <2>7 DEF SetupContext, TeardownContext, Undisturbed
    <3>2. at' = at /\ phase' = phase /\ next' = next
      BY <2>7, <3>1 DEF SetupContext, TeardownContext
    <3> QED BY <2>2, <3>2 DEF From
  <2>8. TeardownDone => Leave
    BY DEF TeardownDone
  <2> QED
    BY <2>3, <2>4, <2>5, <2>6, <2>7, <2>8 DEF Next, FixtureEnds, TestEnds
<1>4. ASSUME Undisturbed', phase' \in {"teardown", "done"} PROVE Append(at, next)' \notin Paths
  <2>0. Undisturbed
    BY <1>4, NextUndisturbed
  <2>1. CASE at' = at /\ next' = next /\ phase \in {"teardown", "done"}
    BY <2>0, <2>1 DEF AllBehind
  <2>2. CASE EndTests
    <3>1. Append(at, next) \notin Paths
      BY <2>0, <2>2 DEF EndTests, Continues, Undisturbed
    <3>2. at' = at /\ next' = next
      BY <1>4, <2>2 DEF EndTests, Leave
    <3> QED BY <3>1, <3>2
  <2>3. CASE TeardownDone
    <3>1. at' = at /\ next' = next /\ phase = "teardown"
      BY <1>4, <2>3 DEF TeardownDone, Leave
    <3> QED BY <2>1, <3>1
  <2>4. ASSUME NEW o \in Outcomes, RunTest(o) PROVE FALSE
    <3>1. at # <<>>
      BY <1>0, <2>4, PathFacts DEF RunTest, Running, Fresh
    <3> QED BY <1>4, <2>4, <3>1 DEF RunTest, Leave
  <2>5. ASSUME NEW o \in Outcomes, SetupContext(o) \/ TeardownContext(o)
        PROVE  Append(at, next)' \notin Paths
    <3>1. o = "ok"
      BY <1>4, <2>5 DEF SetupContext, TeardownContext, Undisturbed
    <3>2. at' = at /\ next' = next /\ phase' = phase
      BY <2>5, <3>1 DEF SetupContext, TeardownContext
    <3> QED BY <1>4, <2>1, <3>2
  <2>6. CASE SkipTeardown \/ Terminated \/ UNCHANGED vars
    BY <1>4, <2>1, <2>6 DEF SkipTeardown, Terminated, vars
  <2>7. ~Enter /\ ~SkipSetup /\ ~SetupDone /\ ~NextTest /\ ~CatchTimeout
    BY <1>4 DEF Enter, SkipSetup, SetupDone, NextTest, CatchTimeout, place
  <2> QED
    BY <2>2, <2>3, <2>4, <2>5, <2>6, <2>7 DEF Next, FixtureEnds, TestEnds
<1> QED BY <1>0, <1>1, <1>2, <1>3, <1>4 DEF AllBehind

\* A run that nothing cuts short (ctrl-c, --stop or a fixture that raises) runs as
\* many tests as the command line named, when the tree holds as many.
THEOREM EveryTestRuns ==
  ASSUME \A g \in Programs : g.size = Cardinality(TestsIn(g))
  PROVE  Spec => []AllTestsRun
<1>1. Init => Running /\ AllBehind
  BY InitTyping, InitLifecycle, InitFresh, InitAllBehind DEF Running
<1>2. Running /\ AllBehind /\ [Next]_vars => (Running /\ AllBehind)'
  BY NextRunning, NextAllBehind
<1>3. Running /\ AllBehind => AllTestsRun
  <2> SUFFICES ASSUME Running, AllBehind, phase = "done", raising = "no", ~shouldStop,
                      ~fixtureFailed
               PROVE  ran = TestsIn(program)
    BY DEF AllTestsRun, Running, Typing, Placed
  <2>0. program \in Programs /\ at = <<>> /\ next \in Nat \ {0} /\ at \in Path /\ Len(at) = 0
    BY DEF Running, Typing, TypeOK, Placed, Path
  <2>1. Undisturbed /\ Append(at, next) \notin Paths
    BY DEF Undisturbed, AllBehind
  <2>2. ASSUME NEW q \in TestsIn(program), Ahead(q) PROVE FALSE
    <3>1. PICK i \in 1 .. Len(q) :
            /\ i <= Len(at) + 1 /\ \A j \in 1 .. i - 1 : q[j] = at[j]
            /\ IF i <= Len(at) THEN q[i] > at[i] ELSE q[i] >= next
      BY <2>2 DEF Ahead, AheadOf, From
    <3>2. i = Len(at) + 1 /\ q[i] >= next
      BY <2>0, <3>1
    <3>3. q \in DOMAIN program.tree
      BY DEF TestsIn
    <3>4. Append(at, next) \in DOMAIN program.tree
      BY <2>0, <3>1, <3>2, <3>3, TestsBefore
    <3> QED BY <2>1, <3>4 DEF Paths, tree
  <2> QED BY <2>1, <2>2 DEF AllBehind, Behind
<1> QED BY <1>1, <1>2, <1>3, PTL DEF Spec
=============================================================================
