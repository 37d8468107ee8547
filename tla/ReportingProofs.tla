-------------------------- MODULE ReportingProofs --------------------------
(***************************************************************************)
(* Proofs, for any number of tests and contexts and any plugins in any     *)
(* order: the verdict, the stop flag, the counts of xunit and the summary  *)
(* agree with what happened, and output goes where it belongs, is shown    *)
(* where it belongs and in the end where it went at first.                 *)
(***************************************************************************)
EXTENDS Reporting, FiniteSetTheorems, SequenceTheorems, TLAPS

Everything == Tests \cup Contexts
IsSequence(s) == \E S : s \in Seq(S)

TypeOfResult ==
  /\ passed \in [Everything -> BOOLEAN]
  /\ shouldStop \in BOOLEAN /\ stopOnError \in BOOLEAN
  /\ errors \in Seq(Everything) /\ failures \in Seq(Everything) /\ skipped \in Seq(Everything)
  /\ IsSequence(raised)
  /\ stats \in [errors : Nat, failures : Nat, skipped : Nat, passes : Nat]

Typing ==
  /\ TypeOfResult
  /\ test \in Tests /\ up \in Seq(Contexts) /\ testsRun \in Nat
  /\ pc \in {"configure", "between", "running", "cleanup", "after", "reported", "done"}

\* Before the plugins are configured nothing is reported.
Nothing ==
  /\ errors = <<>> /\ failures = <<>> /\ skipped = <<>> /\ raised = <<>>
  /\ stats.errors = 0 /\ stats.failures = 0 /\ stats.skipped = 0 /\ stats.passes = 0
  /\ testsRun = 0 /\ leaked = {}

HasReport(s, x) == \E i \in 1..Len(s) : s[i].of = x

\* Only what has begun is reported, and a test not before it runs; without a
\* plugin that handles reports, a test that is cleaned up has been.
Begun ==
  /\ pc = "configure" => Nothing
  /\ \A x \in left : ~HasReport(raised, x)
  /\ \A i \in 1..Len(up) : up[i] \notin left
  /\ pc \in {"running", "cleanup", "after"} => test \notin left
  /\ pc = "running" => ~HasReport(raised, test)
  /\ pc = "cleanup" /\ ~Enabled("watch") => HasReport(raised, test)
  /\ ~Enabled("watch") => leaked \cap Tests = {}

\* What xunit has counted: the tests that were started but the one that runs,
\* and the reports beside them.
InFlight == IF pc = "running" THEN 1 ELSE 0
Counted ==
  Enabled("xunit") /\ ~Enabled("watch") =>
    Len(raised) + stats.passes + InFlight = testsRun + Cardinality(Beside)

Printed ==
  pc \in {"reported", "done"} =>
    /\ summary.ok <=> Successful
    /\ summary.run = testsRun
    /\ Enabled("xunit") => total = stats.errors + stats.failures + stats.passes + stats.skipped

IInv == Typing /\ Begun /\ Verdict /\ XunitAgrees /\ Counted /\ Printed

\* A test has begun and its streams are not yet put back.
Busy == pc \in {"running", "cleanup", "after"}
InUse == IF Busy THEN 1 ELSE 0

\* How deep the stacks are: never deeper than the contexts begun and a test.
Depth ==
  /\ IsSequence(plugins) /\ IsSequence(captured) /\ IsSequence(capture_stack)
  /\ Len(captured) <= 1 + InUse
  /\ Len(capture_stack) <= Cardinality(Contexts \ left) + InUse

\* As long as nothing is left on a stack, what lies at the bottom is the stream
\* the run began with, and xunit has put aside one for everything that is up.
Bottom ==
  /\ pc = "configure" => plugins = <<>> /\ up = <<>>
  /\ pc = "reported" => up = <<>>
  /\ pc = "done" /\ leaked = {} => stdout = {Real}
  /\ pc # "done" /\ leaked = {} =>
       /\ Len(capture_stack) = IF Enabled("xunit") THEN Len(up) + InUse ELSE 0
       /\ Enabled("capture") => Len(captured) = 1 + InUse /\ captured[1] = {Real}
       /\ ~Enabled("capture") =>
            captured = <<>> /\ {Real} = IF capture_stack = <<>> THEN stdout ELSE capture_stack[1]

\* The buffers hold what the test that runs has written, and nothing between
\* tests; capture gives its buffer away with the first report.
Held ==
  /\ {buf, systemout} \subseteq {NoOne} \cup {x \in {test} : Busy}
  /\ logged \cap Tests \subseteq {x \in {test} : Busy}
  /\ pc \in {"running", "cleanup"} =>
       /\ Enabled("xunit") => systemout = test
       /\ Enabled("capture") /\ ~HasReport(raised, test) => buf = test

SInv == IInv /\ Depth /\ Bottom /\ Held /\ OwnOutput /\ ReportsOwnOutput

-----------------------------------------------------------------------------
LEMMA AppendToSequence ==
  ASSUME NEW s, IsSequence(s), NEW x
  PROVE  /\ IsSequence(Append(s, x))
         /\ Len(s) \in Nat /\ Len(Append(s, x)) = Len(s) + 1
         /\ DOMAIN s = 1..Len(s)
         /\ Append(s, x)[Len(s) + 1] = x
         /\ \A i \in 1..Len(s) : Append(s, x)[i] = s[i]
<1>1. PICK S : s \in Seq(S)
  BY DEF IsSequence
<1>2. s \in Seq(S \cup {x})
  BY <1>1
<1>3. Append(s, x) \in Seq(S \cup {x})
  BY <1>2
<1> QED  BY <1>2, <1>3 DEF IsSequence

LEMMA AppendToList ==
  ASSUME NEW S, NEW s \in Seq(S), NEW x \in S
  PROVE  /\ Append(s, x) \in Seq(S) /\ Append(s, x) # <<>>
         /\ Len(s) \in Nat /\ Len(Append(s, x)) = Len(s) + 1
<1>1. Append(s, x) \in Seq(S) /\ Len(s) \in Nat /\ Len(Append(s, x)) = Len(s) + 1
  OBVIOUS
<1>2. Append(s, x) # <<>>
  BY <1>1
<1> QED  BY <1>1, <1>2

LEMMA SetFalse ==
  ASSUME NEW S, NEW f \in [S -> BOOLEAN], NEW x \in S
  PROVE  /\ [f EXCEPT ![x] = FALSE] \in [S -> BOOLEAN]
         /\ ~[f EXCEPT ![x] = FALSE][x]
OBVIOUS

\* Every report is one more in the lists, in what has been raised and in the
\* counts of xunit, and none of a test that has passed.
LEMMA ReportCounts ==
  ASSUME TypeOfResult, Verdict, XunitAgrees, NEW of \in Everything, NEW kind, NEW b,
         addError(of, kind, b) \/ addFailure(of) \/ addSkip(of),
         plugins' = plugins, stopOnError' = stopOnError
  PROVE  /\ TypeOfResult' /\ Verdict' /\ XunitAgrees'
         /\ stats'.passes = stats.passes
         /\ \E r : r.of = of /\ raised' = Append(raised, r)
<1> USE DEF Everything
<1>1. PICK r : r.of = of /\ raised' = Append(raised, r)
  BY DEF addError, formatError, addFailure, addSkip, Note
<1>2. IsSequence(raised') /\ Len(raised') = Len(raised) + 1 /\ Len(raised) \in Nat
  BY <1>1, AppendToSequence DEF TypeOfResult
<1>3. \A p : Enabled(p)' = Enabled(p)
  BY DEF Enabled
<1>4. PICK f \in {"errors", "failures", "skipped"} : Count(f)
  BY DEF addError, TellPlugins, addFailure, addSkip
<1>5. /\ stats' \in [errors : Nat, failures : Nat, skipped : Nat, passes : Nat]
      /\ stats'.passes = stats.passes
      /\ Enabled("xunit") =>
           stats'.errors + stats'.failures + stats'.skipped = stats.errors + stats.failures + stats.skipped + 1
  <2>1. stats \in [errors : Nat, failures : Nat, skipped : Nat, passes : Nat]
    BY DEF TypeOfResult
  <2>2. stats' = IF Enabled("xunit") THEN [stats EXCEPT ![f] = @ + 1] ELSE stats
    BY <1>4 DEF Count
  <2>3. CASE f = "errors"
    BY <2>1, <2>2, <2>3
  <2>4. CASE f = "failures"
    BY <2>1, <2>2, <2>4
  <2>5. CASE f = "skipped"
    BY <2>1, <2>2, <2>5
  <2> QED  BY <1>4, <2>3, <2>4, <2>5
<1>6. /\ errors' \in Seq(Everything) /\ failures' \in Seq(Everything) /\ skipped' \in Seq(Everything)
      /\ passed' \in [Everything -> BOOLEAN]
      /\ Enabled("errorclass") =>
           Len(errors') + Len(failures') + Len(skipped') = Len(errors) + Len(failures) + Len(skipped) + 1
  <2>1. CASE addError(of, kind, b)
    <3>1. CASE HasList(kind)
      <4>1. skipped' = Append(skipped, of) /\ errors' = errors /\ failures' = failures /\ passed' = passed
        BY <2>1, <3>1 DEF addError, Store
      <4> QED  BY <4>1, AppendToList DEF TypeOfResult
    <3>2. CASE ~HasList(kind)
      <4>1. /\ skipped' = skipped /\ errors' = Append(errors, of) /\ failures' = failures
            /\ passed' = [passed EXCEPT ![of] = FALSE]
        BY <2>1, <3>2 DEF addError, Store
      <4> QED  BY <4>1, AppendToList, SetFalse DEF TypeOfResult
    <3> QED  BY <3>1, <3>2
  <2>2. CASE addFailure(of)
    <3>1. /\ skipped' = skipped /\ errors' = errors /\ failures' = Append(failures, of)
          /\ passed' = [passed EXCEPT ![of] = FALSE]
      BY <2>2 DEF addFailure
    <3> QED  BY <3>1, AppendToList, SetFalse DEF TypeOfResult
  <2>3. CASE addSkip(of)
    <3>1. errors' = errors /\ failures' = failures /\ passed' = passed
      BY <2>3 DEF addSkip
    <3>2. CASE HasList("skip")
      <4>1. skipped' = Append(skipped, of)
        BY <2>3, <3>2 DEF addSkip
      <4> QED  BY <3>1, <4>1, AppendToList DEF TypeOfResult
    <3>3. CASE ~HasList("skip")
      <4>1. skipped' = skipped /\ ~Enabled("errorclass")
        BY <2>3, <3>3 DEF addSkip, HasList
      <4> QED  BY <3>1, <4>1 DEF TypeOfResult
    <3> QED  BY <3>2, <3>3
  <2> QED  BY <2>1, <2>2, <2>3
<1>7. Verdict' /\ shouldStop' \in BOOLEAN
  <2>1. CASE addError(of, kind, b) /\ HasList(kind)
    BY <2>1 DEF addError, Store, Verdict, Successful, TypeOfResult
  <2>2. CASE addError(of, kind, b) /\ ~HasList(kind)
    <3>1. errors' = Append(errors, of) /\ passed' = [passed EXCEPT ![of] = FALSE] /\ failures' = failures
          /\ shouldStop' = (shouldStop \/ (stopOnError /\ (errors' # <<>> \/ failures # <<>>)))
      BY <2>2 DEF addError, Store
    <3>2. errors' # <<>> /\ ~passed'[of]
      BY <3>1, AppendToList, SetFalse DEF TypeOfResult
    <3> QED  BY <3>1, <3>2 DEF Verdict, Successful, TypeOfResult
  <2>3. CASE addFailure(of)
    <3>1. failures' = Append(failures, of) /\ passed' = [passed EXCEPT ![of] = FALSE] /\ errors' = errors
          /\ shouldStop' = (shouldStop \/ stopOnError)
      BY <2>3 DEF addFailure
    <3>2. failures' # <<>>
      BY <3>1, AppendToList DEF TypeOfResult
    <3>3. ~passed'[of]
      BY <3>1, SetFalse DEF TypeOfResult
    <3> QED  BY <3>1, <3>2, <3>3 DEF Verdict, Successful, TypeOfResult
  <2>4. CASE addSkip(of)
    BY <2>4 DEF addSkip, Verdict, Successful, TypeOfResult
  <2> QED  BY <2>1, <2>2, <2>3, <2>4
<1>8. TypeOfResult'
  BY <1>2, <1>5, <1>6, <1>7 DEF TypeOfResult
<1>9. XunitAgrees'
  BY <1>2, <1>3, <1>5, <1>6 DEF XunitAgrees, TypeOfResult
<1> QED  BY <1>1, <1>5, <1>7, <1>8, <1>9

\* The reports beside the tests, when one more is raised.
LEMMA BesideGrows ==
  ASSUME IsSequence(raised), leaked \cap Tests = {}, leaked' \cap Tests = {},
         NEW r, raised' = Append(raised, r)
  PROVE  /\ IsFiniteSet(Beside)
         /\ r.of \in Tests /\ ~HasReport(raised, r.of) => Beside' = Beside
         /\ r.of \notin Tests \/ HasReport(raised, r.of) => Cardinality(Beside') = Cardinality(Beside) + 1
<1>1. /\ Len(raised) \in Nat /\ Len(raised') = Len(raised) + 1
      /\ DOMAIN raised = 1..Len(raised) /\ DOMAIN raised' = 1..Len(raised)+1
      /\ raised'[Len(raised) + 1] = r
      /\ \A i \in 1..Len(raised) : raised'[i] = raised[i]
  <2>1. IsSequence(raised')
    BY AppendToSequence
  <2>2. DOMAIN raised' = 1..Len(raised')
    BY <2>1, AppendToSequence
  <2> QED  BY <2>2, AppendToSequence
<1>3. Beside \subseteq 1..Len(raised) /\ IsFiniteSet(Beside)
  <2>1. Beside \subseteq 1..Len(raised)
    BY <1>1 DEF Beside
  <2>2. IsFiniteSet(1..Len(raised))
    BY <1>1, FS_Interval
  <2> QED  BY <2>1, <2>2, FS_Subset
<1>4. Beside' = Beside \cup {i \in {Len(raised) + 1} : r.of \notin Tests \/ HasReport(raised, r.of)}
  <2>1. \A i \in 1..Len(raised) : i \in Beside' <=> i \in Beside
    BY <1>1 DEF Beside
  <2>2. Len(raised) + 1 \in Beside' <=> r.of \notin Tests \/ HasReport(raised, r.of)
    BY <1>1 DEF Beside, HasReport
  <2>3. Beside' \subseteq 1..Len(raised) + 1
    BY <1>1 DEF Beside
  <2>4. ASSUME NEW i
        PROVE  i \in Beside' <=>
                 i \in Beside \cup {j \in {Len(raised) + 1} : r.of \notin Tests \/ HasReport(raised, r.of)}
    <3>1. CASE i \in 1..Len(raised)
      BY <1>1, <2>1, <3>1
    <3>2. CASE i = Len(raised) + 1
      <4>1. i \notin Beside
        BY <1>1, <1>3, <3>2
      <4> QED  BY <4>1, <2>2, <3>2
    <3>3. CASE i \notin 1..Len(raised) + 1
      <4>1. i \notin Beside /\ i \notin Beside' /\ i # Len(raised) + 1
        <5>1. 1..Len(raised) \subseteq 1..Len(raised) + 1 /\ Len(raised) + 1 \in 1..Len(raised) + 1
          BY <1>1
        <5> QED  BY <5>1, <1>3, <2>3, <3>3
      <4> QED  BY <4>1
    <3> QED  BY <1>1, <3>1, <3>2, <3>3
  <2> QED  BY <2>4
<1>5. Len(raised) + 1 \notin Beside
  BY <1>1, <1>3
<1>6. ASSUME r.of \notin Tests \/ HasReport(raised, r.of)
      PROVE  Cardinality(Beside') = Cardinality(Beside) + 1
  <2>1. Beside' = Beside \cup {Len(raised) + 1}
    BY <1>4, <1>6
  <2> QED  BY <2>1, <1>3, <1>5, FS_AddElement
<1>7. ASSUME r.of \in Tests, ~HasReport(raised, r.of)
      PROVE  Beside' = Beside
  BY <1>4, <1>7
<1> QED  BY <1>3, <1>6, <1>7

LEMMA BesideFinite ==
  ASSUME IsSequence(raised)
  PROVE  Len(raised) \in Nat /\ Cardinality(Beside) \in Nat
<1>1. Len(raised) \in Nat /\ DOMAIN raised = 1..Len(raised)
  BY AppendToSequence
<1>2. Beside \subseteq 1..Len(raised)
  BY <1>1 DEF Beside
<1>3. IsFiniteSet(1..Len(raised))
  BY <1>1, FS_Interval
<1> QED  BY <1>1, <1>2, <1>3, FS_Subset, FS_CardinalityType

LEMMA BesideSame ==
  ASSUME IsSequence(raised), leaked \cap Tests = {}, leaked' \cap Tests = {}, raised' = raised
  PROVE  Beside' = Beside
BY DEF Beside

\* A step that reports nothing.
LEMMA Quiet ==
  ASSUME IInv, stats' = stats \/ Count("passes"),
         UNCHANGED <<errors, failures, skipped, raised, passed, shouldStop, plugins, stopOnError>>
  PROVE  /\ TypeOfResult' /\ Verdict' /\ XunitAgrees'
         /\ Successful' = Successful
         /\ ~Enabled("watch") /\ leaked' \cap Tests = {} => Beside' = Beside
<1> USE DEF IInv, Typing
<1>1. \A p : Enabled(p)' = Enabled(p)
  BY DEF Enabled
<1>2. /\ stats' \in [errors : Nat, failures : Nat, skipped : Nat, passes : Nat]
      /\ stats'.errors = stats.errors /\ stats'.failures = stats.failures /\ stats'.skipped = stats.skipped
  BY DEF Count, TypeOfResult
<1>3. TypeOfResult'
  BY <1>2 DEF TypeOfResult
<1>4. Verdict' /\ Successful' = Successful
  BY DEF Verdict, Successful
<1>5. XunitAgrees'
  BY <1>1, <1>2 DEF XunitAgrees
<1>6. ~Enabled("watch") /\ leaked' \cap Tests = {} => Beside' = Beside
  BY BesideSame DEF Begun, TypeOfResult
<1> QED  BY <1>3, <1>4, <1>5, <1>6

\* A step that reports something of x.
LEMMA Loud ==
  ASSUME IInv, NEW x \in Everything, NEW kind, NEW b,
         addError(x, kind, b) \/ addFailure(x) \/ addSkip(x),
         plugins' = plugins, stopOnError' = stopOnError
  PROVE  /\ TypeOfResult' /\ Verdict' /\ XunitAgrees'
         /\ stats'.passes = stats.passes
         /\ Len(raised) \in Nat /\ Len(raised') = Len(raised) + 1
         /\ \A y : HasReport(raised', y) <=> HasReport(raised, y) \/ y = x
         /\ ~Enabled("watch") /\ leaked' \cap Tests = {} =>
              /\ Cardinality(Beside) \in Nat
              /\ x \in Tests /\ ~HasReport(raised, x) => Beside' = Beside
              /\ x \notin Tests \/ HasReport(raised, x) => Cardinality(Beside') = Cardinality(Beside) + 1
<1>1. /\ TypeOfResult' /\ Verdict' /\ XunitAgrees'
      /\ stats'.passes = stats.passes
      /\ \E r : r.of = x /\ raised' = Append(raised, r)
  BY ReportCounts DEF IInv, Typing
<1>2. PICK r : r.of = x /\ raised' = Append(raised, r)
  BY <1>1
<1>3. IsSequence(raised)
  BY DEF IInv, Typing, TypeOfResult
<1>4. Len(raised) \in Nat /\ Len(raised') = Len(raised) + 1
  BY <1>2, <1>3, AppendToSequence
<1>5. \A y : HasReport(raised', y) <=> HasReport(raised, y) \/ y = x
  BY <1>2, <1>3, AppendToSequence DEF HasReport
<1>6. ASSUME ~Enabled("watch"), leaked' \cap Tests = {}
      PROVE  /\ Cardinality(Beside) \in Nat
             /\ x \in Tests /\ ~HasReport(raised, x) => Beside' = Beside
             /\ x \notin Tests \/ HasReport(raised, x) => Cardinality(Beside') = Cardinality(Beside) + 1
  <2>1. leaked \cap Tests = {}
    BY <1>6 DEF IInv, Begun
  <2>2. /\ IsFiniteSet(Beside)
        /\ x \in Tests /\ ~HasReport(raised, x) => Beside' = Beside
        /\ x \notin Tests \/ HasReport(raised, x) => Cardinality(Beside') = Cardinality(Beside) + 1
    BY <1>2, <1>3, <1>6, <2>1, BesideGrows
  <2> QED  BY <2>2, FS_CardinalityType
<1> QED  BY <1>1, <1>4, <1>5, <1>6

-----------------------------------------------------------------------------
LEMMA InitIInv == Init => IInv
<1> SUFFICES ASSUME Init PROVE IInv
  OBVIOUS
<1>1. /\ errors = <<>> /\ failures = <<>> /\ skipped = <<>> /\ raised = <<>>
      /\ Len(raised) = 0 /\ stopOnError = FALSE /\ shouldStop = FALSE /\ up = <<>> /\ leaked = {}
      /\ pc = "configure" /\ testsRun = 0 /\ test \in Tests
      /\ stats = [errors |-> 0, failures |-> 0, skipped |-> 0, passes |-> 0]
      /\ passed = [t \in Everything |-> TRUE]
  BY DEF Init, Everything
<1>2. Typing
  <2>1. IsSequence(raised)
    BY <1>1 DEF IsSequence
  <2>2. passed \in [Everything -> BOOLEAN]
    BY <1>1
  <2>3. stats \in [errors : Nat, failures : Nat, skipped : Nat, passes : Nat]
    BY <1>1
  <2>4. errors \in Seq(Everything) /\ failures \in Seq(Everything) /\ skipped \in Seq(Everything)
    BY <1>1
  <2>5. TypeOfResult
    BY <1>1, <2>1, <2>2, <2>3, <2>4 DEF TypeOfResult
  <2>6. up \in Seq(Contexts) /\ testsRun \in Nat
    BY <1>1
  <2> QED  BY <1>1, <2>5, <2>6 DEF Typing
<1>3. Begun
  BY <1>1 DEF Begun, Nothing, HasReport
<1>4. Verdict
  BY <1>1 DEF Verdict, Successful, Everything
<1>5. XunitAgrees
  BY <1>1 DEF XunitAgrees
<1>6. Counted
  <2>1. Beside = {}
    BY <1>1 DEF Beside
  <2> QED  BY <1>1, <2>1, FS_EmptySet DEF Counted, InFlight
<1>7. Printed
  BY <1>1 DEF Printed
<1> QED  BY <1>2, <1>3, <1>4, <1>5, <1>6, <1>7 DEF IInv

\* The plugins are configured before anything is reported.
LEMMA ConfigureKeeps ==
  ASSUME IInv, configure
  PROVE  IInv'
<1>1. /\ pc = "configure" /\ pc' = "between" /\ stopOnError' \in BOOLEAN
      /\ UNCHANGED <<test, left, up, errors, failures, skipped, passed, shouldStop, stats, raised,
                     testsRun, leaked>>
  BY DEF configure, result, printed
<1>2. Nothing /\ Typing /\ Verdict
  BY <1>1 DEF IInv, Begun
<1>3. Len(raised) = 0 /\ Len(errors) = 0 /\ Len(failures) = 0 /\ Len(skipped) = 0
  BY <1>2 DEF Nothing
<1>4. Typing'
  BY <1>1, <1>2 DEF Typing, TypeOfResult
<1>5. Begun'
  BY <1>1, <1>2, <1>3 DEF Begun, Nothing, HasReport, IInv
<1>6. Verdict'
  BY <1>1, <1>2 DEF Verdict, Successful, Nothing, Typing, TypeOfResult
<1>7. XunitAgrees'
  BY <1>1, <1>2, <1>3 DEF XunitAgrees, Nothing
<1>8. Counted'
  <2>1. Beside' = {}
    BY <1>1, <1>2 DEF Beside, Nothing
  <2> QED  BY <1>1, <1>2, <1>3, <2>1, FS_EmptySet DEF Counted, InFlight, Nothing
<1>9. Printed'
  BY <1>1 DEF Printed
<1> QED  BY <1>4, <1>5, <1>6, <1>7, <1>8, <1>9 DEF IInv

\* A report beside the tests counts once on each side.
LEMMA BesideCounted ==
  ASSUME Len(raised) + stats.passes = testsRun + Cardinality(Beside), InFlight' = 0,
         Len(raised) \in Nat, stats.passes \in Nat, testsRun \in Nat, Cardinality(Beside) \in Nat,
         Len(raised') = Len(raised) + 1, Cardinality(Beside') = Cardinality(Beside) + 1,
         stats'.passes = stats.passes, testsRun' = testsRun
  PROVE  Len(raised') + stats'.passes + InFlight' = testsRun' + Cardinality(Beside')
  OBVIOUS

\* A fixture of x, or the beginning of a test for some plugins only, ends in a
\* report that a plugin handles, in one of x beside the tests, or in none.
LEMMA FixtureKeeps ==
  ASSUME IInv, NEW x \in Everything, NEW b, NEW kind,
         pc = "between", pc' \in {"between", "after"}, pc' = "after" => test' \notin left',
         x \in Tests => Enabled("watch"),
         \/ UNCHANGED result
         \/ addError(x, kind, b),
         leaked' = leaked \/ leaked' = leaked \cup {x},
         plugins' = plugins, stopOnError' = stopOnError, testsRun' = testsRun,
         test' \in Tests, left' \subseteq left, x \notin left',
         up' \in Seq(Contexts), \A i \in 1..Len(up') : up'[i] \notin left'
  PROVE  IInv'
<1>1. \A p : Enabled(p)' = Enabled(p)
  BY DEF Enabled
<1>2. ~Enabled("watch") => x \notin Tests /\ leaked' \cap Tests = {}
  BY DEF IInv, Begun
<1>3. Printed'
  BY DEF Printed
<1>4. /\ Begun /\ Typing /\ Counted
      /\ InFlight = 0 /\ InFlight' = 0
  BY DEF IInv, InFlight
<1>5. CASE UNCHANGED result
  <2>1. UNCHANGED <<errors, failures, skipped, raised, passed, shouldStop, stats>>
    BY <1>5 DEF result
  <2>2. /\ TypeOfResult' /\ Verdict' /\ XunitAgrees'
        /\ ~Enabled("watch") /\ leaked' \cap Tests = {} => Beside' = Beside
    BY <2>1, Quiet
  <2>3. Typing'
    BY <1>4, <2>2 DEF Typing
  <2>4. Begun'
    BY <1>1, <1>2, <1>4, <2>1 DEF Begun
  <2>5. Counted'
    BY <1>1, <1>2, <1>4, <2>1, <2>2 DEF Counted
  <2> QED  BY <1>3, <2>2, <2>3, <2>4, <2>5 DEF IInv
<1>6. CASE addError(x, kind, b)
  <2>1. /\ TypeOfResult' /\ Verdict' /\ XunitAgrees'
        /\ stats'.passes = stats.passes
        /\ Len(raised) \in Nat /\ Len(raised') = Len(raised) + 1
        /\ \A y : HasReport(raised', y) <=> HasReport(raised, y) \/ y = x
        /\ ~Enabled("watch") /\ leaked' \cap Tests = {} =>
             /\ Cardinality(Beside) \in Nat
             /\ x \notin Tests \/ HasReport(raised, x) => Cardinality(Beside') = Cardinality(Beside) + 1
    BY <1>6, Loud
  <2>2. Typing'
    BY <1>4, <2>1 DEF Typing
  <2>3. Begun'
    BY <1>1, <1>2, <1>4, <2>1 DEF Begun
  <2>4. Counted'
    <3> SUFFICES ASSUME Enabled("xunit"), ~Enabled("watch")
                 PROVE  Len(raised') + stats'.passes + InFlight' = testsRun' + Cardinality(Beside')
      BY <1>1 DEF Counted
    <3>1. Cardinality(Beside) \in Nat /\ Cardinality(Beside') = Cardinality(Beside) + 1
      BY <1>2, <2>1
    <3>2. Len(raised) + stats.passes = testsRun + Cardinality(Beside)
      <4>1. Len(raised) + stats.passes + 0 = testsRun + Cardinality(Beside)
        BY <1>4 DEF Counted
      <4>2. stats.passes \in Nat
        BY <1>4 DEF Typing, TypeOfResult
      <4> QED  BY <2>1, <4>1, <4>2
    <3>3. stats.passes \in Nat /\ testsRun \in Nat
      BY <1>4 DEF Typing, TypeOfResult
    <3>4. /\ Len(raised) \in Nat /\ Len(raised') = Len(raised) + 1
          /\ stats'.passes = stats.passes /\ InFlight' = 0 /\ testsRun' = testsRun
      BY <1>4, <2>1
    <3> QED  BY <3>1, <3>2, <3>3, <3>4, BesideCounted
  <2> QED  BY <1>3, <2>1, <2>2, <2>3, <2>4 DEF IInv
<1> QED  BY <1>5, <1>6

LEMMA SetupKeeps ==
  ASSUME IInv, NEW c \in Contexts, NEW o, setupContext(c, o)
  PROVE  IInv'
<1>1. /\ pc = "between" /\ pc' = pc /\ c \in Everything /\ c \notin Tests
      /\ plugins' = plugins /\ stopOnError' = stopOnError /\ testsRun' = testsRun /\ test' = test
      /\ left' = left \ {c}
  BY NamesAssumption DEF setupContext, printed, Everything
<1>2. /\ leaked' = leaked \/ leaked' = leaked \cup {c}
      /\ UNCHANGED result \/ \E b : addError(c, o, b)
      /\ up' = up \/ up' = Append(up, c)
  BY DEF setupContext, Handled
<1>3. test \in Tests /\ up \in Seq(Contexts) /\ \A i \in 1..Len(up) : up[i] \notin left
  BY DEF IInv, Typing, Begun
<1>4. up' \in Seq(Contexts) /\ \A i \in 1..Len(up') : up'[i] \notin left'
  <2>1. CASE up' = up
    BY <1>1, <1>3, <2>1
  <2>2. CASE up' = Append(up, c)
    BY <1>1, <1>3, <2>2
  <2> QED  BY <1>2, <2>1, <2>2
<1>5. c \notin left' /\ left' \subseteq left
  BY <1>1
<1>6. PICK b : UNCHANGED result \/ addError(c, o, b)
  BY <1>2
<1> QED  BY <1>1, <1>2, <1>3, <1>4, <1>5, <1>6, FixtureKeeps

LEMMA TeardownKeeps ==
  ASSUME IInv, NEW o, teardownContext(o)
  PROVE  IInv'
<1>1. /\ pc = "between" /\ pc' = pc /\ up # <<>> /\ up' = Front(up)
      /\ plugins' = plugins /\ stopOnError' = stopOnError /\ testsRun' = testsRun /\ test' = test
      /\ left' = left
  BY DEF teardownContext, printed
<1>2. test \in Tests /\ up \in Seq(Contexts) /\ \A i \in 1..Len(up) : up[i] \notin left
  BY DEF IInv, Typing, Begun
<1>3. PICK c : c = Last(up)
  OBVIOUS
<1>4. Len(up) \in 1..Len(up) /\ c = up[Len(up)]
  BY <1>1, <1>2, <1>3, EmptySeq DEF Last
<1>5. c \in Contexts /\ c \notin left'
  BY <1>1, <1>2, <1>4
<1>6. /\ leaked' = leaked \/ leaked' = leaked \cup {c}
      /\ UNCHANGED result \/ addError(c, o, Now)
  BY <1>3 DEF teardownContext, Handled, result
<1>7. up' \in Seq(Contexts) /\ \A i \in 1..Len(up') : up'[i] \notin left'
  <2>1. Len(up) \in Nat /\ Len(up) - 1 \in Nat /\ up' = SubSeq(up, 1, Len(up) - 1)
    BY <1>1, <1>2, <1>4 DEF Front
  <2>2. up' \in Seq(Contexts) /\ Len(up') = Len(up) - 1 /\ \A i \in 1..Len(up') : up'[i] = up[i]
    <3>1. \A i \in 1..Len(up) - 1 : up[i] \in Contexts
      BY <1>2, <2>1
    <3>2. PICK n \in Nat : n = Len(up) - 1
      BY <2>1
    <3>3. /\ SubSeq(up, 1, n) \in Seq(Contexts)
          /\ Len(SubSeq(up, 1, n)) = IF 1 <= n THEN n - 1 + 1 ELSE 0
          /\ \A i \in 1..n - 1 + 1 : SubSeq(up, 1, n)[i] = up[1 + i - 1]
      BY <3>1, <3>2, SubSeqProperties
    <3>4. up' \in Seq(Contexts) /\ Len(up') = n
      BY <2>1, <3>2, <3>3
    <3>5. \A i \in 1..n : up'[i] = up[i]
      BY <2>1, <3>2, <3>3
    <3> QED  BY <3>2, <3>4, <3>5
  <2> QED  BY <1>1, <1>2, <2>1, <2>2
<1>8. c \in Everything /\ c \notin Tests
  BY <1>5, NamesAssumption DEF Everything
<1>9. PICK b : b = Now
  OBVIOUS
<1> QED  BY <1>1, <1>2, <1>5, <1>6, <1>7, <1>8, <1>9, FixtureKeeps

LEMMA BeforeTestRaisesKeeps ==
  ASSUME IInv, NEW t \in Tests, beforeTestRaises(t)
  PROVE  IInv'
<1>1. /\ pc = "between" /\ pc' = "after" /\ Enabled("watch")
      /\ plugins' = plugins /\ stopOnError' = stopOnError /\ testsRun' = testsRun /\ test' = t
      /\ left' = left \ {t} /\ up' = up /\ leaked' = leaked \cup {t} /\ t \in Everything
  BY DEF beforeTestRaises, printed, Everything
<1>2. up \in Seq(Contexts) /\ \A i \in 1..Len(up) : up[i] \notin left
  BY DEF IInv, Typing, Begun
<1>3. PICK b : UNCHANGED result \/ addError(t, "error", b)
  BY DEF beforeTestRaises, Handled
<1>4. /\ up' \in Seq(Contexts) /\ \A i \in 1..Len(up') : up'[i] \notin left'
      /\ t \notin left' /\ left' \subseteq left
  BY <1>1, <1>2
<1> QED  BY <1>1, <1>3, <1>4, FixtureKeeps

\* A test begins.
LEMMA BeforeTestKeeps ==
  ASSUME IInv, NEW t \in Tests, beforeTest(t)
  PROVE  IInv'
<1>1. /\ pc = "between" /\ pc' = "running" /\ t \in left /\ left' = left \ {t} /\ test' = t
      /\ testsRun' = testsRun + 1
      /\ UNCHANGED <<plugins, stopOnError, up, errors, failures, skipped, passed, shouldStop, stats,
                     raised, leaked>>
  BY DEF beforeTest, result
<1>2. Typing /\ Begun /\ Counted /\ \A p : Enabled(p)' = Enabled(p)
  BY <1>1 DEF IInv, Enabled
<1>3. /\ TypeOfResult' /\ Verdict' /\ XunitAgrees'
      /\ ~Enabled("watch") /\ leaked' \cap Tests = {} => Beside' = Beside
  BY <1>1, Quiet
<1>4. Typing'
  BY <1>1, <1>2, <1>3 DEF Typing
<1>5. Begun'
  BY <1>1, <1>2 DEF Begun
<1>6. Counted'
  <2> SUFFICES ASSUME Enabled("xunit"), ~Enabled("watch")
               PROVE  Len(raised') + stats'.passes + InFlight' = testsRun' + Cardinality(Beside')
    BY <1>2 DEF Counted
  <2>1. Beside' = Beside
    BY <1>1, <1>2, <1>3 DEF Begun
  <2>2. InFlight = 0 /\ InFlight' = 1
    BY <1>1 DEF InFlight
  <2>3. Len(raised) + stats.passes + 0 = testsRun + Cardinality(Beside)
    BY <1>2, <2>2 DEF Counted
  <2>4. Len(raised) \in Nat /\ stats.passes \in Nat /\ testsRun \in Nat /\ Cardinality(Beside) \in Nat
    BY <1>2, BesideFinite DEF Typing, TypeOfResult
  <2> QED  BY <1>1, <2>1, <2>2, <2>3, <2>4
<1>7. Printed'
  BY <1>1 DEF Printed
<1> QED  BY <1>3, <1>4, <1>5, <1>6, <1>7 DEF IInv

\* The test, and after it its teardown, raises.
LEMMA RunTestKeeps ==
  ASSUME IInv, NEW kind, RunTest(kind)
  PROVE  IInv'
<1>1. /\ \/ pc = "running" /\ pc' = "cleanup"
         \/ pc = "cleanup" /\ pc' = "after"
      /\ UNCHANGED <<plugins, stopOnError, test, left, up, testsRun, leaked>>
      /\ \/ UNCHANGED result /\ Enabled("watch")
         \/ \E b : addError(test, kind, b) \/ addFailure(test) \/ addSkip(test)
  BY DEF RunTest, Report, Handled, printed
<1>2. Typing /\ Begun /\ Counted /\ \A p : Enabled(p)' = Enabled(p)
  BY <1>1 DEF IInv, Enabled
<1>3. PICK t \in Tests : t = test
  BY <1>2 DEF Typing
<1>4. Printed'
  BY <1>1 DEF Printed
<1>5. CASE UNCHANGED result /\ Enabled("watch")
  <2>1. UNCHANGED <<errors, failures, skipped, raised, passed, shouldStop, stats>>
    BY <1>5 DEF result
  <2>2. TypeOfResult' /\ Verdict' /\ XunitAgrees'
    BY <1>1, <2>1, Quiet
  <2>3. Typing'
    BY <1>1, <1>2, <2>2 DEF Typing
  <2>4. Begun'
    BY <1>1, <1>2, <1>5, <2>1 DEF Begun
  <2>5. Counted'
    BY <1>2, <1>5 DEF Counted
  <2> QED  BY <1>4, <2>2, <2>3, <2>4, <2>5 DEF IInv
<1>6. ASSUME NEW b, addError(test, kind, b) \/ addFailure(test) \/ addSkip(test)
      PROVE  IInv'
  <2>1. /\ TypeOfResult' /\ Verdict' /\ XunitAgrees'
        /\ stats'.passes = stats.passes
        /\ Len(raised) \in Nat /\ Len(raised') = Len(raised) + 1
        /\ \A y : HasReport(raised', y) <=> HasReport(raised, y) \/ y = t
        /\ ~Enabled("watch") /\ leaked' \cap Tests = {} =>
             /\ Cardinality(Beside) \in Nat
             /\ t \in Tests /\ ~HasReport(raised, t) => Beside' = Beside
             /\ t \notin Tests \/ HasReport(raised, t) => Cardinality(Beside') = Cardinality(Beside) + 1
    <3>1. t \in Everything /\ (addError(t, kind, b) \/ addFailure(t) \/ addSkip(t))
      BY <1>3, <1>6 DEF Everything
    <3> QED  BY <1>1, <3>1, Loud
  <2>2. Typing'
    BY <1>1, <1>2, <2>1 DEF Typing
  <2>3. Begun'
    BY <1>1, <1>2, <1>3, <2>1 DEF Begun
  <2>4. Counted'
    <3> SUFFICES ASSUME Enabled("xunit"), ~Enabled("watch")
                 PROVE  Len(raised') + stats'.passes + InFlight' = testsRun' + Cardinality(Beside')
      BY <1>2 DEF Counted
    <3>1. leaked' \cap Tests = {}
      BY <1>1, <1>2 DEF Begun
    <3>2. Len(raised) + stats.passes + InFlight = testsRun + Cardinality(Beside)
      BY <1>2 DEF Counted
    <3>3. stats.passes \in Nat /\ testsRun \in Nat /\ Cardinality(Beside) \in Nat
      BY <1>2, <2>1, <3>1 DEF Typing, TypeOfResult
    <3>4. CASE pc = "running" /\ pc' = "cleanup"
      <4>1. Beside' = Beside
        BY <1>2, <1>3, <2>1, <3>1, <3>4 DEF Begun
      <4>2. InFlight = 1 /\ InFlight' = 0
        BY <3>4 DEF InFlight
      <4> QED  BY <1>1, <2>1, <3>2, <3>3, <4>1, <4>2
    <3>5. CASE pc = "cleanup" /\ pc' = "after"
      <4>1. Cardinality(Beside') = Cardinality(Beside) + 1
        BY <1>2, <1>3, <2>1, <3>1, <3>5 DEF Begun
      <4>2. InFlight = 0 /\ InFlight' = 0
        BY <3>5 DEF InFlight
      <4> QED  BY <1>1, <2>1, <3>2, <3>3, <4>1, <4>2
    <3> QED  BY <1>1, <3>4, <3>5
  <2> QED  BY <1>4, <2>1, <2>2, <2>3, <2>4 DEF IInv
<1> QED  BY <1>1, <1>5, <1>6

\* The test passes.
LEMMA SuccessKeeps ==
  ASSUME IInv, addSuccess
  PROVE  IInv'
<1>1. /\ pc = "running" /\ pc' = "after" /\ Count("passes")
      /\ UNCHANGED <<plugins, stopOnError, test, left, up, errors, failures, skipped, passed, shouldStop,
                     raised, testsRun, leaked>>
  BY DEF addSuccess, printed
<1>2. Typing /\ Begun /\ Counted /\ \A p : Enabled(p)' = Enabled(p)
  BY <1>1 DEF IInv, Enabled
<1>3. /\ TypeOfResult' /\ Verdict' /\ XunitAgrees'
      /\ ~Enabled("watch") /\ leaked' \cap Tests = {} => Beside' = Beside
  BY <1>1, Quiet
<1>4. Typing'
  BY <1>1, <1>2, <1>3 DEF Typing
<1>5. Begun'
  BY <1>1, <1>2 DEF Begun
<1>6. Counted'
  <2> SUFFICES ASSUME Enabled("xunit"), ~Enabled("watch")
               PROVE  Len(raised') + stats'.passes + InFlight' = testsRun' + Cardinality(Beside')
    BY <1>2 DEF Counted
  <2>1. Beside' = Beside
    BY <1>1, <1>2, <1>3 DEF Begun
  <2>2. InFlight = 1 /\ InFlight' = 0
    BY <1>1 DEF InFlight
  <2>3. Len(raised) + stats.passes + 1 = testsRun + Cardinality(Beside)
    BY <1>2, <2>2 DEF Counted
  <2>4. stats'.passes = stats.passes + 1
    BY <1>1, <1>2 DEF Count, Typing, TypeOfResult
  <2>5. Len(raised) \in Nat /\ stats.passes \in Nat /\ testsRun \in Nat /\ Cardinality(Beside) \in Nat
    BY <1>2, BesideFinite DEF Typing, TypeOfResult
  <2> QED  BY <1>1, <2>1, <2>2, <2>3, <2>4, <2>5
<1>7. Printed'
  BY <1>1 DEF Printed
<1> QED  BY <1>3, <1>4, <1>5, <1>6, <1>7 DEF IInv

\* What changes neither the result nor which tests have begun.
LEMMA SilentKeeps ==
  ASSUME IInv, UNCHANGED <<plugins, stopOnError, test, left, up, errors, failures, skipped, passed,
                           shouldStop, stats, raised, testsRun, leaked>>,
         pc' = pc \/ (pc \notin {"configure", "running"} /\ pc' \in {"between", "after", "reported", "done"}),
         pc' = "after" => pc \in {"cleanup", "after"},
         Printed'
  PROVE  IInv'
<1>1. Typing /\ Begun /\ Counted /\ \A p : Enabled(p)' = Enabled(p)
  BY DEF IInv, Enabled
<1>2. /\ TypeOfResult' /\ Verdict' /\ XunitAgrees'
      /\ ~Enabled("watch") /\ leaked' \cap Tests = {} => Beside' = Beside
  BY Quiet
<1>3. Typing'
  BY <1>1, <1>2 DEF Typing
<1>4. Begun'
  BY <1>1 DEF Begun, Nothing
<1>5. Counted'
  <2>1. InFlight' = InFlight
    BY DEF InFlight
  <2> QED  BY <1>1, <1>2, <2>1 DEF Counted, Begun
<1> QED  BY <1>2, <1>3, <1>4, <1>5 DEF IInv

LEMMA EndKeeps ==
  ASSUME IInv, Cleanup \/ afterTest \/ Summarize \/ finalize \/ UNCHANGED vars
  PROVE  IInv'
<1>1. /\ UNCHANGED <<plugins, stopOnError, test, left, up, errors, failures, skipped, passed,
                     shouldStop, stats, raised, testsRun, leaked>>
      /\ \A p : Enabled(p)' = Enabled(p)
  BY DEF Cleanup, afterTest, Summarize, finalize, vars, result, printed, Enabled
<1>2. Successful' = Successful
  BY <1>1 DEF Successful
<1>3. CASE Cleanup \/ afterTest
  <2>1. (pc = "cleanup" /\ pc' = "after") \/ (pc = "after" /\ pc' = "between")
    BY <1>3 DEF Cleanup, afterTest
  <2>2. Printed'
    BY <2>1 DEF Printed
  <2> QED  BY <1>1, <2>1, <2>2, SilentKeeps
<1>4. CASE Summarize
  <2>1. pc = "between" /\ pc' = "reported" /\ report /\ printSummary
    BY <1>4 DEF Summarize
  <2>2. Printed'
    BY <1>1, <1>2, <2>1 DEF Printed, report, printSummary
  <2> QED  BY <1>1, <2>1, <2>2, SilentKeeps
<1>5. CASE finalize
  <2>1. pc = "reported" /\ pc' = "done" /\ summary' = summary /\ total' = total
    BY <1>5 DEF finalize, printed
  <2>2. Printed'
    BY <1>1, <1>2, <2>1 DEF Printed, IInv
  <2> QED  BY <1>1, <2>1, <2>2, SilentKeeps
<1>6. CASE UNCHANGED vars
  <2>1. pc' = pc /\ summary' = summary /\ total' = total
    BY <1>6 DEF vars, printed
  <2>2. Printed'
    BY <1>1, <1>2, <2>1 DEF Printed, IInv
  <2>3. pc' = "after" => pc = "after"
    BY <2>1
  <2> QED  BY <1>1, <2>1, <2>2, <2>3, SilentKeeps
<1> QED  BY <1>3, <1>4, <1>5, <1>6

LEMMA Implied == IInv => ResultsAgree
<1> SUFFICES ASSUME IInv PROVE SummaryAgrees
  BY DEF IInv, ResultsAgree
<1>1. SUFFICES ASSUME pc \in {"reported", "done"}
      PROVE  /\ summary.ok <=> \A x \in Tests \cup Contexts : passed[x]
             /\ Enabled("xunit") /\ ~Enabled("watch") => total = summary.run + Cardinality(Beside)
  BY DEF SummaryAgrees
<1>2. summary.ok <=> Successful
  BY <1>1 DEF IInv, Printed
<1>3. Successful <=> \A x \in Tests \cup Contexts : passed[x]
  BY DEF IInv, Verdict
<1>4. ASSUME Enabled("xunit"), ~Enabled("watch")
      PROVE  total = summary.run + Cardinality(Beside)
  <2>1. /\ summary.run = testsRun
        /\ total = stats.errors + stats.failures + stats.passes + stats.skipped
    BY <1>1, <1>4 DEF IInv, Printed
  <2>2. InFlight = 0
    BY <1>1 DEF InFlight
  <2>3. Len(raised) + stats.passes + 0 = testsRun + Cardinality(Beside)
    BY <1>4, <2>2 DEF IInv, Counted
  <2>4. stats.errors + stats.failures + stats.skipped = Len(raised)
    BY <1>4 DEF IInv, XunitAgrees
  <2>5. /\ stats.errors \in Nat /\ stats.failures \in Nat /\ stats.skipped \in Nat /\ stats.passes \in Nat
        /\ Len(raised) \in Nat /\ Cardinality(Beside) \in Nat /\ testsRun \in Nat
    BY BesideFinite DEF IInv, Typing, TypeOfResult
  <2>6. PICK e, f, k, p, r, c, t \in Nat :
        /\ e = stats.errors /\ f = stats.failures /\ k = stats.skipped /\ p = stats.passes
        /\ r = Len(raised) /\ c = Cardinality(Beside) /\ t = testsRun
    BY <2>5
  <2>7. r + p + 0 = t + c
    BY <2>3, <2>6
  <2>8. e + f + k = r
    BY <2>4, <2>6
  <2>9. e + f + p + k = t + c
    BY <2>7, <2>8
  <2> QED  BY <2>1, <2>6, <2>9
<1> QED  BY <1>2, <1>3, <1>4

LEMMA NextIInv == IInv /\ [Next]_vars => IInv'
BY ConfigureKeeps, SetupKeeps, TeardownKeeps, BeforeTestKeeps, BeforeTestRaisesKeeps, RunTestKeeps,
   SuccessKeeps, EndKeeps DEF Next

\* A run is a success exactly when no test and no fixture has failed, --stop has
\* stopped it exactly when one has, xunit counts what the result holds, and the
\* summary and the file of xunit agree on how many tests were run (result.py,
\* proxy.py, xunit.py): for any tests, contexts and plugins in any order.
THEOREM ResultsRight == Spec => []ResultsAgree
BY InitIInv, NextIInv, Implied, PTL DEF Spec

-----------------------------------------------------------------------------
(* The streams.                                                            *)

\* What is left of a stack, and what it gives back.
LEMMA RestOfSequence ==
  ASSUME NEW s, IsSequence(s), NEW d
  PROVE  /\ IsSequence(Rest(s)) /\ Len(s) \in Nat
         /\ s = <<>> <=> Len(s) = 0
         /\ Len(s) = 0 => Rest(s) = s /\ Popped(s, d) = d
         /\ Len(s) > 0 => Len(Rest(s)) = Len(s) - 1
         /\ Len(s) > 1 => Rest(s)[1] = s[1]
         /\ Len(s) = 1 => Popped(s, d) = s[1]
<1>1. PICK S : s \in Seq(S)
  BY DEF IsSequence
<1>2. Len(s) \in Nat /\ (s = <<>> <=> Len(s) = 0)
  BY <1>1, EmptySeq
<1>3. CASE s = <<>>
  BY <1>2, <1>3 DEF Rest, Popped
<1>4. CASE s # <<>>
  <2>1. PICK n \in Nat : Len(s) = n + 1
    <3>1. Len(s) - 1 \in Nat
      BY <1>2, <1>4
    <3> QED  BY <1>2, <3>1
  <2>2. Rest(s) = SubSeq(s, 1, n)
    <3>1. Len(s) - 1 = n
      BY <2>1
    <3> QED  BY <1>4, <3>1 DEF Rest, Front
  <2>3. \A i \in 1..n : s[i] \in S
    BY <1>1, <2>1
  <2>4. /\ SubSeq(s, 1, n) \in Seq(S)
        /\ Len(SubSeq(s, 1, n)) = IF 1 <= n THEN n - 1 + 1 ELSE 0
        /\ \A i \in 1..n - 1 + 1 : SubSeq(s, 1, n)[i] = s[1 + i - 1]
    BY <2>3, SubSeqProperties
  <2>5. Len(Rest(s)) = n /\ (n > 0 => Rest(s)[1] = s[1])
    BY <2>2, <2>4
  <2>6. IsSequence(Rest(s))
    BY <2>2, <2>4 DEF IsSequence
  <2>7. Popped(s, d) = s[Len(s)]
    BY <1>4 DEF Popped, Last
  <2> QED  BY <2>1, <2>5, <2>6, <2>7, <1>2, <1>4
<1> QED  BY <1>3, <1>4

LEMMA AppendBottom ==
  ASSUME NEW s, IsSequence(s), NEW x
  PROVE  Append(s, x) # <<>> /\ Append(s, x)[1] = IF s = <<>> THEN x ELSE s[1]
<1>1. /\ Len(s) \in Nat /\ Len(Append(s, x)) = Len(s) + 1 /\ IsSequence(Append(s, x))
      /\ Append(s, x)[Len(s) + 1] = x
      /\ \A i \in 1..Len(s) : Append(s, x)[i] = s[i]
  BY AppendToSequence
<1>2. (s = <<>> <=> Len(s) = 0) /\ (Append(s, x) = <<>> <=> Len(Append(s, x)) = 0)
  BY <1>1, RestOfSequence
<1> QED  BY <1>1, <1>2

LEMMA EnabledPlugins ==
  ASSUME IsSequence(plugins)
  PROVE  \A p : p \in ToSet(plugins) <=> Enabled(p)
<1>1. DOMAIN plugins = 1..Len(plugins)
  BY AppendToSequence
<1> QED  BY <1>1 DEF ToSet, Enabled, Contains

\* The contexts that have begun.
LEMMA ContextsBegun ==
  ASSUME NEW x \in left, left' = left \ {x}
  PROVE  /\ Cardinality(Contexts \ left) \in Nat
         /\ x \in Contexts => Cardinality(Contexts \ left') = Cardinality(Contexts \ left) + 1
         /\ x \notin Contexts => Contexts \ left' = Contexts \ left
<1>1. IsFiniteSet(Contexts \ left)
  BY ContextsAssumption, FS_Difference
<1>2. x \in Contexts => Contexts \ left' = (Contexts \ left) \cup {x} /\ x \notin Contexts \ left
  OBVIOUS
<1>3. Cardinality(Contexts \ left) \in Nat
  BY <1>1, FS_CardinalityType
<1>4. ASSUME x \in Contexts
      PROVE  Cardinality(Contexts \ left') = Cardinality(Contexts \ left) + 1
  BY <1>1, <1>2, <1>4, FS_AddElement
<1>5. x \notin Contexts => Contexts \ left' = Contexts \ left
  OBVIOUS
<1> QED  BY <1>3, <1>4, <1>5

LEMMA SteadyStreams ==
  ASSUME Depth, Bottom, UNCHANGED <<plugins, left, up, stdout, captured, capture_stack, leaked>>,
         InUse' = InUse,
         pc' = "configure" => pc = "configure", pc' = "reported" => pc = "reported" \/ up = <<>>,
         pc' = "done" <=> pc = "done"
  PROVE  Depth' /\ Bottom'
<1>1. \A p : Enabled(p)' = Enabled(p)
  BY DEF Enabled
<1>2. Depth'
  BY DEF Depth
<1>3. Bottom'
  BY <1>1 DEF Bottom
<1> QED  BY <1>2, <1>3

\* capture puts sys.stdout aside before anything else does.
LEMMA ConfigureStreams ==
  ASSUME SInv, configure
  PROVE  Depth' /\ Bottom'
<1>1. /\ pc = "configure" /\ pc' = "between" /\ UNCHANGED <<up, left, capture_stack, leaked>>
      /\ IF Contains(plugins', "capture") THEN captured' = <<stdout>> ELSE UNCHANGED <<captured, stdout>>
  BY DEF configure
<1>2. /\ up = <<>> /\ plugins = <<>> /\ leaked = {}
      /\ IsSequence(captured) /\ IsSequence(capture_stack)
      /\ ~Enabled("capture") /\ ~Enabled("xunit")
  <2>1. up = <<>> /\ plugins = <<>> /\ IsSequence(captured) /\ IsSequence(capture_stack)
    BY <1>1 DEF SInv, Depth, Bottom
  <2>2. leaked = {}
    BY <1>1 DEF SInv, IInv, Begun, Nothing
  <2>3. ~Enabled("capture") /\ ~Enabled("xunit")
    BY <2>1 DEF Enabled, Contains
  <2> QED  BY <2>1, <2>2, <2>3
<1>3. Len(capture_stack) = 0 /\ captured = <<>> /\ ({Real} = IF capture_stack = <<>> THEN stdout ELSE capture_stack[1])
  BY <1>1, <1>2 DEF SInv, Bottom
<1>4. stdout = {Real} /\ InUse = 0 /\ InUse' = 0 /\ Len(up) = 0
  <2>1. capture_stack = <<>>
    BY <1>2, <1>3, RestOfSequence
  <2> QED  BY <1>1, <1>2, <1>3, <2>1 DEF InUse, Busy
<1>5. IsSequence(plugins')
  <2>1. PICK e \in PluginSets, w \in WatchScores : plugins' \in Sorted(e, Score(w))
    BY DEF configure
  <2>2. e \in SUBSET AllPlugins
    BY PluginsAssumption
  <2>3. IsFiniteSet(AllPlugins)
    <3>1. AllPlugins = {"capture"} \cup ({"xunit"} \cup ({"errorclass"} \cup ({"logcapture"} \cup {"watch"})))
      BY DEF AllPlugins
    <3>2. IsFiniteSet({"logcapture"} \cup {"watch"})
      BY FS_Singleton, FS_Union
    <3>3. IsFiniteSet({"errorclass"} \cup ({"logcapture"} \cup {"watch"}))
      BY <3>2, FS_Singleton, FS_Union
    <3>4. IsFiniteSet({"xunit"} \cup ({"errorclass"} \cup ({"logcapture"} \cup {"watch"})))
      BY <3>3, FS_Singleton, FS_Union
    <3> QED  BY <3>1, <3>4, FS_Singleton, FS_Union
  <2>4. Cardinality(e) \in Nat
    BY <2>2, <2>3, FS_Subset, FS_CardinalityType
  <2>5. plugins' \in [1..Cardinality(e) -> e]
    BY <2>1 DEF Sorted, SetToSeqs
  <2> QED  BY <2>4, <2>5 DEF IsSequence
<1>6. /\ IsSequence(captured') /\ Len(captured') <= 1
      /\ IF Enabled("capture")' THEN Len(captured') = 1 /\ captured'[1] = {Real} ELSE captured' = <<>> /\ stdout' = {Real}
  <2>1. CASE Contains(plugins', "capture")
    <3>1. captured' = <<{Real}>>
      BY <1>1, <1>4, <2>1
    <3>2. captured' \in Seq({{Real}}) /\ Len(captured') = 1 /\ captured'[1] = {Real}
      BY <3>1
    <3> QED  BY <2>1, <3>2 DEF Enabled, IsSequence
  <2>2. CASE ~Contains(plugins', "capture")
    <3>1. captured' = <<>> /\ stdout' = {Real} /\ Len(captured') = 0
      BY <1>1, <1>3, <1>4, <2>2
    <3> QED  BY <1>1, <1>2, <2>2, <3>1 DEF Enabled
  <2> QED  BY <2>1, <2>2
<1>7. capture_stack' = <<>> /\ Len(capture_stack') = 0 /\ Len(up') = 0
  BY <1>1, <1>2, <1>3, <1>4, RestOfSequence
<1>8. Depth'
  <2>1. Cardinality(Contexts \ left)' \in Nat
    <3>1. IsFiniteSet(Contexts \ left')
      BY ContextsAssumption, FS_Difference
    <3> QED  BY <3>1, FS_CardinalityType
  <2>2. IsSequence(capture_stack')
    BY <1>1, <1>2
  <2> QED  BY <1>4, <1>5, <1>6, <1>7, <2>1, <2>2 DEF Depth
<1>9. Bottom'
  BY <1>1, <1>4, <1>6, <1>7 DEF Bottom
<1> QED  BY <1>8, <1>9

\* What is pushed on the stacks.
LEMMA Pushes ==
  ASSUME NEW called, NEW x, Begin(called, x), IsSequence(captured), IsSequence(capture_stack)
  PROVE  /\ "capture" \in called => captured' = Append(captured, stdout)
         /\ "capture" \notin called => captured' = captured
         /\ "xunit" \in called => \E tee :
              /\ capture_stack' = Append(capture_stack, tee)
              /\ "capture" \notin called => tee = stdout
         /\ "xunit" \notin called => capture_stack' = capture_stack
         /\ "capture" \notin called /\ "xunit" \notin called => stdout' = stdout
BY DEF Begin, Pushed

\* Something begins: x, for the plugins that are called.  stacked says that it
\* will be taken off again.
LEMMA BeginStreams ==
  ASSUME Depth, Bottom, NEW x \in left, NEW called, Begin(called, x), NEW stacked \in BOOLEAN,
         pc = "between", left' = left \ {x}, plugins' = plugins, up \in Seq(Contexts),
         \/ x \in Contexts /\ pc' = "between" /\ "capture" \notin called
         \/ x \notin Contexts /\ pc' \in {"running", "after"},
         IF stacked
           THEN /\ leaked' = leaked
                /\ "xunit" \in called <=> Enabled("xunit")
                /\ pc' = "between" => up' = Append(up, x)
                /\ pc' # "between" => up' = up /\ ("capture" \in called <=> Enabled("capture"))
           ELSE leaked' # {}
  PROVE  Depth' /\ Bottom'
<1>1. IsSequence(plugins) /\ IsSequence(captured) /\ IsSequence(capture_stack) /\ IsSequence(up)
  BY DEF Depth, IsSequence
<1>2. /\ Len(captured) \in Nat /\ Len(Append(captured, stdout)) = Len(captured) + 1
      /\ IsSequence(Append(captured, stdout))
      /\ Len(capture_stack) \in Nat
      /\ \A d : IsSequence(Append(capture_stack, d)) /\ Len(Append(capture_stack, d)) = Len(capture_stack) + 1
      /\ Len(up) \in Nat /\ Len(Append(up, x)) = Len(up) + 1
  BY <1>1, AppendToSequence
<1>3. /\ "capture" \in called => captured' = Append(captured, stdout)
      /\ "capture" \notin called => captured' = captured
      /\ "xunit" \in called => \E tee :
           /\ capture_stack' = Append(capture_stack, tee)
           /\ "capture" \notin called => tee = stdout
      /\ "xunit" \notin called => capture_stack' = capture_stack
      /\ "capture" \notin called /\ "xunit" \notin called => stdout' = stdout
  BY <1>1, Pushes
<1>4. /\ Cardinality(Contexts \ left) \in Nat
      /\ x \in Contexts => Cardinality(Contexts \ left') = Cardinality(Contexts \ left) + 1
      /\ x \notin Contexts => Cardinality(Contexts \ left') = Cardinality(Contexts \ left)
  BY ContextsBegun
<1>5. InUse = 0 /\ (pc' = "between" => InUse' = 0) /\ (pc' # "between" => InUse' = 1)
  BY DEF InUse, Busy
<1>6. Len(captured) <= 1 /\ Len(capture_stack) <= Cardinality(Contexts \ left)
  <2>1. Len(captured) <= 1 + 0 /\ Len(capture_stack) <= Cardinality(Contexts \ left) + 0
    BY <1>5 DEF Depth
  <2> QED  BY <1>2, <1>4, <2>1
<1>7. /\ IsSequence(captured') /\ IsSequence(capture_stack')
      /\ Len(captured') = IF "capture" \in called THEN Len(captured) + 1 ELSE Len(captured)
      /\ Len(capture_stack') = IF "xunit" \in called THEN Len(capture_stack) + 1 ELSE Len(capture_stack)
  BY <1>1, <1>2, <1>3
<1>8. Depth'
  <2>1. Len(captured') <= 1 + InUse'
    BY <1>2, <1>5, <1>6, <1>7
  <2>2. Len(capture_stack') <= Cardinality(Contexts \ left') + InUse'
    <3>1. Cardinality(Contexts \ left') + InUse' = Cardinality(Contexts \ left) + 1
      BY <1>4, <1>5
    <3>2. Len(capture_stack') <= Len(capture_stack) + 1
      BY <1>2, <1>7
    <3> QED  BY <1>2, <1>4, <1>6, <1>7, <3>1, <3>2
  <2>3. Cardinality(Contexts \ left)' = Cardinality(Contexts \ left')
    OBVIOUS
  <2> QED  BY <1>1, <1>7, <2>1, <2>2, <2>3 DEF Depth
<1>9. \A p : Enabled(p)' = Enabled(p)
  BY DEF Enabled
<1>10. ASSUME leaked' = {}
       PROVE  /\ Len(capture_stack') = IF Enabled("xunit") THEN Len(up') + InUse' ELSE 0
              /\ Enabled("capture") => Len(captured') = 1 + InUse' /\ captured'[1] = {Real}
              /\ ~Enabled("capture") =>
                   captured' = <<>> /\ {Real} = IF capture_stack' = <<>> THEN stdout' ELSE capture_stack'[1]
  <2>1. /\ stacked /\ leaked = {}
        /\ "xunit" \in called <=> Enabled("xunit")
        /\ pc' = "between" => up' = Append(up, x)
        /\ pc' # "between" => up' = up /\ ("capture" \in called <=> Enabled("capture"))
    BY <1>10
  <2>2. /\ Len(capture_stack) = IF Enabled("xunit") THEN Len(up) + 0 ELSE 0
        /\ Enabled("capture") => Len(captured) = 1 + 0 /\ captured[1] = {Real}
        /\ ~Enabled("capture") =>
             captured = <<>> /\ {Real} = IF capture_stack = <<>> THEN stdout ELSE capture_stack[1]
    BY <1>5, <2>1 DEF Bottom
  <2>3. Len(capture_stack') = IF Enabled("xunit") THEN Len(up') + InUse' ELSE 0
    <3>1. Len(up') + InUse' = Len(up) + 1
      BY <1>2, <1>5, <2>1
    <3> QED  BY <1>2, <1>7, <2>1, <2>2, <3>1
  <2>4. ASSUME Enabled("capture") PROVE Len(captured') = 1 + InUse' /\ captured'[1] = {Real}
    <3>1. captured # <<>>
      BY <1>1, <2>2, <2>4, RestOfSequence
    <3>2. captured' = captured \/ captured'[1] = captured[1]
      BY <1>1, <1>3, <3>1, AppendBottom
    <3>3. "capture" \in called <=> pc' # "between"
      BY <2>1, <2>4
    <3>4. captured'[1] = {Real} /\ Len(captured) = 1
      BY <2>2, <2>4, <3>2
    <3>5. CASE pc' = "between"
      <4>1. Len(captured') = 1 /\ InUse' = 0
        BY <1>5, <1>7, <3>3, <3>4, <3>5
      <4> QED  BY <3>4, <4>1
    <3>6. CASE pc' # "between"
      <4>1. Len(captured') = 1 + 1 /\ InUse' = 1
        BY <1>5, <1>7, <3>3, <3>4, <3>6
      <4> QED  BY <3>4, <4>1
    <3> QED  BY <3>5, <3>6
  <2>5. ASSUME ~Enabled("capture")
        PROVE  captured' = <<>> /\ {Real} = IF capture_stack' = <<>> THEN stdout' ELSE capture_stack'[1]
    <3>1. "capture" \notin called
      BY <2>1, <2>5
    <3>2. CASE "xunit" \in called
      <4>1. capture_stack' = Append(capture_stack, stdout)
        BY <1>3, <3>1, <3>2
      <4>2. capture_stack' # <<>> /\ capture_stack'[1] = IF capture_stack = <<>> THEN stdout ELSE capture_stack[1]
        BY <1>1, <4>1, AppendBottom
      <4> QED  BY <1>3, <2>2, <2>5, <3>1, <4>2
    <3>3. CASE "xunit" \notin called
      BY <1>3, <2>2, <2>5, <3>1, <3>3
    <3> QED  BY <3>2, <3>3
  <2> QED  BY <2>3, <2>4, <2>5
<1>11. Bottom'
  <2>1. pc' \notin {"configure", "reported", "done"}
    OBVIOUS
  <2> QED  BY <1>9, <1>10, <2>1 DEF Bottom
<1> QED  BY <1>8, <1>11

LEMMA SetupStreams ==
  ASSUME SInv, NEW c \in Contexts, NEW o, setupContext(c, o)
  PROVE  Depth' /\ Bottom'
<1>1. /\ pc = "between" /\ pc' = pc /\ plugins' = plugins /\ c \in left /\ left' = left \ {c}
      /\ Begin({"xunit"} \cap ToSet(plugins), c)
  BY DEF setupContext
<1>2. PICK stacked \in BOOLEAN :
        IF stacked THEN leaked' = leaked /\ up' = Append(up, c) ELSE leaked' # {}
  <2>1. (leaked' = leaked /\ up' = Append(up, c)) \/ leaked' = leaked \cup {c}
    BY DEF setupContext
  <2> QED  BY <2>1
<1>3. "xunit" \in {"xunit"} \cap ToSet(plugins) <=> Enabled("xunit")
  BY EnabledPlugins DEF SInv, Depth
<1>4. "capture" \notin {"xunit"} \cap ToSet(plugins)
  OBVIOUS
<1>5. Depth /\ Bottom /\ up \in Seq(Contexts)
  BY DEF SInv, IInv, Typing
<1>6. PICK called : called = {"xunit"} \cap ToSet(plugins)
  OBVIOUS
<1> QED  BY <1>1, <1>2, <1>3, <1>4, <1>5, <1>6, BeginStreams

LEMMA TestStreams ==
  ASSUME SInv, NEW t \in Tests, beforeTest(t) \/ beforeTestRaises(t)
  PROVE  Depth' /\ Bottom'
<1>1. /\ pc = "between" /\ plugins' = plugins /\ t \in left /\ left' = left \ {t} /\ up' = up
      /\ t \notin Contexts
  BY NamesAssumption DEF beforeTest, beforeTestRaises
<1>2. Depth /\ Bottom /\ up \in Seq(Contexts)
  BY DEF SInv, IInv, Typing
<1>3. CASE beforeTest(t)
  <2>1. pc' = "running" /\ leaked' = leaked /\ Begin(ToSet(plugins), t)
    BY <1>3 DEF beforeTest
  <2>2. \A p : p \in ToSet(plugins) <=> Enabled(p)
    BY <1>2, EnabledPlugins DEF Depth
  <2>3. PICK called : called = ToSet(plugins)
    OBVIOUS
  <2>4. PICK stacked \in BOOLEAN : stacked
    OBVIOUS
  <2> QED  BY <1>1, <1>2, <2>1, <2>2, <2>3, <2>4, BeginStreams
<1>4. CASE beforeTestRaises(t)
  <2>1. pc' = "after" /\ leaked' # {} /\ Begin(CalledUntil("watch"), t)
    BY <1>4 DEF beforeTestRaises
  <2>2. PICK called : called = CalledUntil("watch")
    OBVIOUS
  <2>3. PICK stacked \in BOOLEAN : ~stacked
    OBVIOUS
  <2> QED  BY <1>1, <1>2, <2>1, <2>2, <2>3, BeginStreams
<1> QED  BY <1>3, <1>4

\* The stack of xunit gives back what lies on it: stdout' is d when it is empty.
LEMMA PopStreams ==
  ASSUME IsSequence(capture_stack), NEW d, stdout' = Popped(capture_stack, d),
         capture_stack' = Rest(capture_stack)
  PROVE  /\ IsSequence(capture_stack') /\ Len(capture_stack) \in Nat
         /\ Len(capture_stack') = IF Len(capture_stack) = 0 THEN 0 ELSE Len(capture_stack) - 1
         /\ {Real} = (IF capture_stack = <<>> THEN d ELSE capture_stack[1]) =>
              {Real} = IF capture_stack' = <<>> THEN stdout' ELSE capture_stack'[1]
<1>1. /\ IsSequence(capture_stack') /\ Len(capture_stack) \in Nat
      /\ capture_stack = <<>> <=> Len(capture_stack) = 0
      /\ capture_stack' = <<>> <=> Len(capture_stack') = 0
      /\ Len(capture_stack) = 0 => capture_stack' = capture_stack /\ stdout' = d
      /\ Len(capture_stack) > 0 => Len(capture_stack') = Len(capture_stack) - 1
      /\ Len(capture_stack) > 1 => capture_stack'[1] = capture_stack[1]
      /\ Len(capture_stack) = 1 => stdout' = capture_stack[1]
  BY RestOfSequence
<1>2. CASE Len(capture_stack) = 0
  BY <1>1, <1>2
<1>3. CASE Len(capture_stack) = 1
  BY <1>1, <1>3
<1>4. CASE Len(capture_stack) > 1
  BY <1>1, <1>4
<1>5. Len(capture_stack) = 0 \/ Len(capture_stack) = 1 \/ Len(capture_stack) > 1
  <2>1. PICK n \in Nat : n = Len(capture_stack)
    BY <1>1
  <2>2. n = 0 \/ n = 1 \/ n > 1
    OBVIOUS
  <2> QED  BY <2>1, <2>2
<1> QED  BY <1>2, <1>3, <1>4, <1>5

LEMMA TeardownStreams ==
  ASSUME SInv, NEW o, teardownContext(o)
  PROVE  Depth' /\ Bottom'
<1>1. /\ pc = "between" /\ pc' = pc /\ up # <<>> /\ up' = Front(up)
      /\ plugins' = plugins /\ left' = left /\ captured' = captured
  BY DEF teardownContext
<1>2. Depth /\ Bottom /\ up \in Seq(Contexts) /\ InUse' = 0 /\ InUse = 0
  BY <1>1 DEF SInv, IInv, Typing, InUse, Busy
<1>3. /\ Len(up) \in Nat /\ Len(up) > 0 /\ Len(up') = Len(up) - 1
  <2>1. IsSequence(up) /\ up' = Rest(up)
    BY <1>1, <1>2 DEF IsSequence, Rest
  <2> QED  BY <1>1, <2>1, RestOfSequence
<1>4. \A p : Enabled(p)' = Enabled(p)
  BY <1>1 DEF Enabled
<1>5. Cardinality(Contexts \ left) \in Nat /\ Cardinality(Contexts \ left)' = Cardinality(Contexts \ left)
  BY <1>1, ContextsAssumption, FS_Difference, FS_CardinalityType
<1>6. CASE stdout' = Popped(capture_stack, stdout) /\ capture_stack' = Rest(capture_stack) /\ leaked' = leaked
  <2>1. PICK d : d = stdout
    OBVIOUS
  <2>2. /\ IsSequence(capture_stack') /\ Len(capture_stack) \in Nat
        /\ Len(capture_stack') = IF Len(capture_stack) = 0 THEN 0 ELSE Len(capture_stack) - 1
        /\ {Real} = (IF capture_stack = <<>> THEN stdout ELSE capture_stack[1]) =>
             {Real} = IF capture_stack' = <<>> THEN stdout' ELSE capture_stack'[1]
    BY <1>2, <1>6, <2>1, PopStreams DEF Depth
  <2>3. Depth'
    <3>1. Len(capture_stack) <= Cardinality(Contexts \ left) + 0
      BY <1>2 DEF Depth
    <3>2. Len(capture_stack') <= Cardinality(Contexts \ left) + 0
      BY <1>5, <2>2, <3>1
    <3> QED  BY <1>1, <1>2, <1>5, <2>2, <3>2 DEF Depth
  <2>4. ASSUME leaked = {}
        PROVE  /\ Len(capture_stack') = IF Enabled("xunit") THEN Len(up') + 0 ELSE 0
               /\ Enabled("capture") => Len(captured') = 1 + 0 /\ captured'[1] = {Real}
               /\ ~Enabled("capture") =>
                    captured' = <<>> /\ {Real} = IF capture_stack' = <<>> THEN stdout' ELSE capture_stack'[1]
    <3>1. /\ Len(capture_stack) = IF Enabled("xunit") THEN Len(up) + 0 ELSE 0
          /\ Enabled("capture") => Len(captured) = 1 + 0 /\ captured[1] = {Real}
          /\ ~Enabled("capture") =>
               captured = <<>> /\ {Real} = IF capture_stack = <<>> THEN stdout ELSE capture_stack[1]
      BY <1>1, <1>2, <2>4 DEF Bottom
    <3>2. Len(capture_stack') = IF Enabled("xunit") THEN Len(up') + 0 ELSE 0
      BY <1>3, <2>2, <3>1
    <3> QED  BY <1>1, <2>2, <3>1, <3>2
  <2>5. Bottom'
    BY <1>1, <1>2, <1>4, <1>6, <2>4 DEF Bottom
  <2> QED  BY <2>3, <2>5
<1>7. CASE UNCHANGED <<stdout, captured, capture_stack>> /\ leaked' # {}
  <2>1. Depth'
    BY <1>1, <1>2, <1>5, <1>7 DEF Depth
  <2>2. Bottom'
    BY <1>1, <1>7 DEF Bottom
  <2> QED  BY <2>1, <2>2
<1>8. leaked' = leaked \/ leaked' # {}
  BY DEF teardownContext
<1>9. \/ stdout' = Popped(capture_stack, stdout) /\ capture_stack' = Rest(capture_stack) /\ leaked' = leaked
      \/ UNCHANGED <<stdout, captured, capture_stack>> /\ leaked' # {}
  BY DEF teardownContext
<1> QED  BY <1>6, <1>7, <1>9

\* A test ends: capture gives its stream back, then xunit.
LEMMA EndStreams ==
  ASSUME SInv, afterTest
  PROVE  Depth' /\ Bottom'
<1>1. /\ pc = "after" /\ pc' = "between" /\ UNCHANGED <<plugins, left, up, leaked>> /\ End
  BY DEF afterTest
<1>2. Depth /\ Bottom /\ up \in Seq(Contexts) /\ InUse' = 0 /\ InUse = 1
  BY <1>1 DEF SInv, IInv, Typing, InUse, Busy
<1>3. Len(up) \in Nat
  BY <1>2
<1>4. \A p : Enabled(p)' = Enabled(p)
  BY <1>1 DEF Enabled
<1>5. Cardinality(Contexts \ left) \in Nat /\ Cardinality(Contexts \ left)' = Cardinality(Contexts \ left)
  BY <1>1, ContextsAssumption, FS_Difference, FS_CardinalityType
<1>6. /\ IsSequence(captured') /\ Len(captured) \in Nat
      /\ captured = <<>> <=> Len(captured) = 0
      /\ Len(captured) = 0 => captured' = captured /\ Popped(captured, stdout) = stdout
      /\ Len(captured) > 0 => Len(captured') = Len(captured) - 1
      /\ Len(captured) > 1 => captured'[1] = captured[1]
  BY <1>1, <1>2, RestOfSequence DEF End, Depth
<1>7. PICK d : d = Popped(captured, stdout)
  OBVIOUS
<1>8. /\ IsSequence(capture_stack') /\ Len(capture_stack) \in Nat
      /\ Len(capture_stack') = IF Len(capture_stack) = 0 THEN 0 ELSE Len(capture_stack) - 1
      /\ {Real} = (IF capture_stack = <<>> THEN d ELSE capture_stack[1]) =>
           {Real} = IF capture_stack' = <<>> THEN stdout' ELSE capture_stack'[1]
  <2>1. stdout' = Popped(capture_stack, d) /\ capture_stack' = Rest(capture_stack)
    BY <1>1, <1>7 DEF End
  <2> QED  BY <1>2, <2>1, PopStreams DEF Depth
<1>9. Depth'
  <2>1. Len(captured) <= 1 + 1 /\ Len(capture_stack) <= Cardinality(Contexts \ left) + 1
    BY <1>2 DEF Depth
  <2>2. Len(captured') <= 1 + 0
    BY <1>6, <2>1
  <2>3. Len(capture_stack') <= Cardinality(Contexts \ left) + 0
    BY <1>5, <1>8, <2>1
  <2> QED  BY <1>1, <1>2, <1>5, <1>6, <1>8, <2>2, <2>3 DEF Depth
<1>10. ASSUME leaked = {}
       PROVE  /\ Len(capture_stack') = IF Enabled("xunit") THEN Len(up') + 0 ELSE 0
              /\ Enabled("capture") => Len(captured') = 1 + 0 /\ captured'[1] = {Real}
              /\ ~Enabled("capture") =>
                   captured' = <<>> /\ {Real} = IF capture_stack' = <<>> THEN stdout' ELSE capture_stack'[1]
  <2>1. /\ Len(capture_stack) = IF Enabled("xunit") THEN Len(up) + 1 ELSE 0
        /\ Enabled("capture") => Len(captured) = 1 + 1 /\ captured[1] = {Real}
        /\ ~Enabled("capture") =>
             captured = <<>> /\ {Real} = IF capture_stack = <<>> THEN stdout ELSE capture_stack[1]
    BY <1>1, <1>2, <1>10 DEF Bottom
  <2>2. Len(capture_stack') = IF Enabled("xunit") THEN Len(up') + 0 ELSE 0
    BY <1>1, <1>3, <1>8, <2>1
  <2>3. ASSUME Enabled("capture") PROVE Len(captured') = 1 + 0 /\ captured'[1] = {Real}
    <3>1. Len(captured) = 2 /\ captured[1] = {Real}
      BY <2>1, <2>3
    <3>2. Len(captured') = Len(captured) - 1 /\ captured'[1] = captured[1]
      BY <1>6, <3>1
    <3> QED  BY <3>1, <3>2
  <2>4. ASSUME ~Enabled("capture")
        PROVE  captured' = <<>> /\ {Real} = IF capture_stack' = <<>> THEN stdout' ELSE capture_stack'[1]
    BY <1>6, <1>7, <1>8, <2>1, <2>4
  <2> QED  BY <2>2, <2>3, <2>4
<1>11. Bottom'
  BY <1>1, <1>2, <1>4, <1>10 DEF Bottom
<1> QED  BY <1>9, <1>11

LEMMA FinalizeStreams ==
  ASSUME SInv, finalize
  PROVE  Depth' /\ Bottom'
<1>1. /\ pc = "reported" /\ pc' = "done" /\ captured' = <<>> /\ capture_stack' = <<>>
      /\ UNCHANGED <<plugins, left, up, leaked>>
      /\ stdout' = IF capture_stack = <<>> THEN IF captured = <<>> THEN stdout ELSE captured[1]
                   ELSE capture_stack[1]
  BY DEF finalize
<1>2. Depth /\ Bottom /\ InUse' = 0 /\ InUse = 0 /\ up = <<>>
  BY <1>1 DEF SInv, InUse, Busy, Bottom
<1>3. IsSequence(<<>>) /\ Len(<<>>) = 0
  BY EmptySeq DEF IsSequence
<1>4. Cardinality(Contexts \ left) \in Nat /\ Cardinality(Contexts \ left)' = Cardinality(Contexts \ left)
  BY <1>1, ContextsAssumption, FS_Difference, FS_CardinalityType
<1>5. Depth'
  BY <1>1, <1>2, <1>3, <1>4 DEF Depth
<1>6. ASSUME leaked = {} PROVE stdout' = {Real}
  <2>1. /\ Len(capture_stack) = IF Enabled("xunit") THEN Len(up) + 0 ELSE 0
        /\ Enabled("capture") => Len(captured) = 1 + 0 /\ captured[1] = {Real}
        /\ ~Enabled("capture") =>
             captured = <<>> /\ {Real} = IF capture_stack = <<>> THEN stdout ELSE capture_stack[1]
    BY <1>1, <1>2, <1>6 DEF Bottom
  <2>2. capture_stack = <<>>
    <3>1. Len(capture_stack) = 0
      BY <1>2, <1>3, <2>1
    <3> QED  BY <1>2, <3>1, RestOfSequence DEF Depth
  <2>3. captured = <<>> <=> Len(captured) = 0
    BY <1>2, RestOfSequence DEF Depth
  <2> QED  BY <1>1, <2>1, <2>2, <2>3
<1>7. Bottom'
  BY <1>1, <1>6 DEF Bottom
<1> QED  BY <1>5, <1>7

\* Reports, ends of a test that give nothing back, and the summary leave the
\* streams alone.
LEMMA QuietStreams ==
  ASSUME SInv,
         (\E k : RunTest(k)) \/ Cleanup \/ addSuccess \/ Summarize \/ UNCHANGED vars
  PROVE  Depth' /\ Bottom'
<1>1. Depth /\ Bottom
  BY DEF SInv
<1>2. UNCHANGED <<plugins, left, up, stdout, captured, capture_stack, leaked>>
  BY DEF RunTest, Cleanup, addSuccess, Summarize, vars, streams
<1>3. /\ InUse' = InUse /\ (pc' = "configure" => pc = "configure")
      /\ pc' = "reported" => pc = "reported" \/ up = <<>>
      /\ pc' = "done" <=> pc = "done"
  BY DEF RunTest, Cleanup, addSuccess, Summarize, vars, InUse, Busy
<1> QED  BY <1>1, <1>2, <1>3, SteadyStreams

-----------------------------------------------------------------------------
(* What is shown with a report.                                            *)

LEMMA AdditionsOf ==
  ASSUME IsSequence(plugins), NEW b
  PROVE  LET output == UNION {Addition(p, b) : p \in ToSet(plugins)} IN
           /\ output \subseteq ({b.buf} \ {NoOne}) \cup (logged \cap Tests)
           /\ Enabled("capture") => {b.buf} \ {NoOne} \subseteq output
           /\ Enabled("logcapture") => logged \cap Tests \subseteq output
<1>1. \A p : p \in ToSet(plugins) <=> Enabled(p)
  BY EnabledPlugins
<1>2. /\ Addition("capture", b) = {b.buf} \ {NoOne}
      /\ Addition("logcapture", b) = logged \cap Tests
      /\ \A p : Addition(p, b) \subseteq ({b.buf} \ {NoOne}) \cup (logged \cap Tests)
  BY DEF Addition
<1> QED  BY <1>1, <1>2

\* What a report of x is shown with, and what it must not lack: p and q are the
\* tests whose output capture and xunit hold.
ShownWith(r, x, p, q) ==
  /\ r.of = x
  /\ r.output \subseteq ({p} \ {NoOne}) \cup (logged \cap Tests)
  /\ r.xml = IF Enabled("xunit") THEN {q} \ {NoOne} ELSE {}
Full(r, p) ==
  /\ Enabled("capture") => {p} \ {NoOne} \subseteq r.output
  /\ Enabled("logcapture") => logged \cap Tests \subseteq r.output

\* The report of x, and what becomes of the buffers it is shown with.
LEMMA Noted ==
  ASSUME IsSequence(plugins), NEW x, NEW kind, NEW p, NEW q, NEW b,
         b = [buf |-> p, systemout |-> q],
         \/ addError(x, kind, b)
         \/ (addFailure(x) \/ addSkip(x)) /\ b = Now
  PROVE  /\ \E r :
              /\ raised' = Append(raised, r) /\ ShownWith(r, x, p, q)
              /\ (r.kind = "skip" /\ ~addError(x, kind, b)) \/ Full(r, p)
         /\ systemout' = q
         /\ buf' \in {p, NoOne} /\ (~Enabled("capture") => buf' = p)
<1>1. b.buf = p /\ b.systemout = q
  OBVIOUS
<1>2. ASSUME NEW k, formatError(x, k, b)
      PROVE  /\ \E r : raised' = Append(raised, r) /\ ShownWith(r, x, p, q) /\ Full(r, p)
             /\ systemout' = q
             /\ buf' \in {p, NoOne} /\ (~Enabled("capture") => buf' = p)
  <2> DEFINE output == UNION {Addition(w, b) : w \in ToSet(plugins)}
             r == [of |-> x, kind |-> k, output |-> output,
                   xml |-> IF Enabled("xunit") THEN {q} \ {NoOne} ELSE {}]
  <2>1. raised' = Append(raised, r)
    BY <1>1, <1>2 DEF formatError, Note
  <2>2. Keep(IF Enabled("capture") THEN [b EXCEPT !.buf = NoOne] ELSE b)
    BY <1>2 DEF formatError
  <2>3. /\ [b EXCEPT !.buf = NoOne].buf = NoOne /\ [b EXCEPT !.buf = NoOne].systemout = q
    OBVIOUS
  <2>4. systemout' = q /\ buf' \in {p, NoOne} /\ (~Enabled("capture") => buf' = p)
    BY <1>1, <2>2, <2>3 DEF Keep
  <2>5. /\ output \subseteq ({p} \ {NoOne}) \cup (logged \cap Tests)
        /\ Enabled("capture") => {p} \ {NoOne} \subseteq output
        /\ Enabled("logcapture") => logged \cap Tests \subseteq output
    BY <1>1, AdditionsOf
  <2>6. r.of = x /\ r.output = output /\ r.xml = IF Enabled("xunit") THEN {q} \ {NoOne} ELSE {}
    OBVIOUS
  <2> HIDE DEF r, output
  <2>7. ShownWith(r, x, p, q) /\ Full(r, p)
    BY <2>5, <2>6 DEF ShownWith, Full
  <2> QED  BY <2>1, <2>4, <2>7
<1>3. CASE addError(x, kind, b) \/ (addFailure(x) /\ b = Now)
  <2>1. PICK k : formatError(x, k, b)
    BY <1>3 DEF addError, addFailure
  <2> QED  BY <1>2, <2>1
<1>4. CASE addSkip(x) /\ b = Now /\ ~addError(x, kind, b)
  <2> DEFINE r == [of |-> x, kind |-> "skip", output |-> {},
                   xml |-> IF Enabled("xunit") THEN {systemout} \ {NoOne} ELSE {}]
  <2>1. p = buf /\ q = systemout
    BY <1>1, <1>4 DEF Now
  <2>2. raised' = Append(raised, r) /\ buf' = buf /\ systemout' = systemout
    BY <1>4 DEF addSkip, Note, Now, buffers
  <2>3. r.of = x /\ r.output = {} /\ r.kind = "skip" /\ r.xml = IF Enabled("xunit") THEN {q} \ {NoOne} ELSE {}
    BY <2>1
  <2> HIDE DEF r
  <2>4. ShownWith(r, x, p, q)
    BY <2>3 DEF ShownWith
  <2> QED  BY <1>4, <2>1, <2>2, <2>3, <2>4
<1> QED  BY <1>3, <1>4

LEMMA ReportedSame ==
  ASSUME ReportsOwnOutput, raised' = raised, leaked \subseteq leaked', plugins' = plugins
  PROVE  ReportsOwnOutput'
<1>1. \A p : Enabled(p)' = Enabled(p)
  BY DEF Enabled
<1> QED  BY <1>1 DEF ReportsOwnOutput

LEMMA ReportedOnce ==
  ASSUME ReportsOwnOutput, IsSequence(raised), NEW r, raised' = Append(raised, r),
         leaked \subseteq leaked', plugins' = plugins,
         (r.output \cup r.xml) \cap Tests \subseteq {r.of},
         r.of \in Tests \ leaked' /\ r.kind # "skip" /\ ~HasReport(raised, r.of)
           /\ (Enabled("capture") \/ Enabled("logcapture")) => r.of \in r.output,
         r.of \in Tests \ leaked' /\ Enabled("xunit") => r.of \in r.xml
  PROVE  ReportsOwnOutput'
<1>1. \A p : Enabled(p)' = Enabled(p)
  BY DEF Enabled
<1>2. /\ Len(raised) \in Nat /\ DOMAIN raised = 1..Len(raised)
      /\ raised'[Len(raised) + 1] = r
      /\ \A i \in 1..Len(raised) : raised'[i] = raised[i]
  BY AppendToSequence
<1>3. DOMAIN raised' = 1..Len(raised) + 1
  <2>1. IsSequence(raised') /\ Len(raised') = Len(raised) + 1
    BY AppendToSequence
  <2> QED  BY <2>1, AppendToSequence
<1> DEFINE Shown(i) ==
      /\ (raised'[i].output \cup raised'[i].xml) \cap Tests \subseteq {raised'[i].of}
      /\ raised'[i].of \in Tests \ leaked' /\ raised'[i].kind # "skip"
           /\ (\A j \in 1..(i - 1) : raised'[j].of # raised'[i].of)
           /\ (Enabled("capture") \/ Enabled("logcapture")) => raised'[i].of \in raised'[i].output
      /\ raised'[i].of \in Tests \ leaked' /\ Enabled("xunit") => raised'[i].of \in raised'[i].xml
<1>4. ASSUME NEW i \in 1..Len(raised) PROVE Shown(i)
  <2>1. \A j \in 1..(i - 1) : raised'[j] = raised[j]
    BY <1>2
  <2>2. raised'[i] = raised[i] /\ i \in DOMAIN raised
    BY <1>2
  <2>3. /\ (raised[i].output \cup raised[i].xml) \cap Tests \subseteq {raised[i].of}
        /\ raised[i].of \in Tests \ leaked /\ raised[i].kind # "skip"
             /\ (\A j \in 1..(i - 1) : raised[j].of # raised[i].of)
             /\ (Enabled("capture") \/ Enabled("logcapture")) => raised[i].of \in raised[i].output
        /\ raised[i].of \in Tests \ leaked /\ Enabled("xunit") => raised[i].of \in raised[i].xml
    BY <2>2 DEF ReportsOwnOutput
  <2> QED  BY <2>1, <2>2, <2>3
<1>5. ASSUME NEW i, i = Len(raised) + 1 PROVE Shown(i)
  <2>1. (\A j \in 1..(i - 1) : raised'[j].of # raised'[i].of) => ~HasReport(raised, r.of)
    BY <1>2, <1>5 DEF HasReport
  <2>2. raised'[i] = r
    BY <1>2, <1>5
  <2> QED  BY <2>1, <2>2
<1>6. \A i \in DOMAIN raised' : Shown(i)
  <2> HIDE DEF Shown
  <2> QED  BY <1>2, <1>3, <1>4, <1>5
<1> QED  BY <1>1, <1>6 DEF ReportsOwnOutput

Shown == Held /\ OwnOutput /\ ReportsOwnOutput

LEMMA BetweenTests ==
  ASSUME SInv, ~Busy
  PROVE  buf = NoOne /\ systemout = NoOne /\ logged \cap Tests = {} /\ Now = [buf |-> NoOne, systemout |-> NoOne]
<1>1. Held
  BY DEF SInv
<1>2. buf = NoOne /\ systemout = NoOne /\ logged \cap Tests = {}
  BY <1>1 DEF Held
<1> QED  BY <1>2 DEF Now

LEMMA ConfigureShown ==
  ASSUME SInv, configure
  PROVE  Shown'
<1>1. /\ pc = "configure" /\ pc' = "between"
      /\ UNCHANGED <<test, logged, buf, systemout, raised>>
  BY DEF configure, buffers, result
<1>2. ~Busy /\ ~Busy'
  BY <1>1 DEF Busy
<1>3. raised = <<>>
  BY <1>1 DEF SInv, IInv, Begun, Nothing
<1>4. Held'
  BY <1>1, <1>2, BetweenTests DEF Held
<1>5. OwnOutput' /\ ReportsOwnOutput'
  BY <1>1, <1>3 DEF OwnOutput, ReportsOwnOutput
<1> QED  BY <1>4, <1>5 DEF Shown

\* The error of a fixture is shown with nothing a test has written.
LEMMA FixtureShown ==
  ASSUME SInv, pc = "between", pc' = "between", NEW x, x \notin Tests, NEW kind, NEW b,
         b = [buf |-> NoOne, systemout |-> NoOne],
         addError(x, kind, b) \/ (Keep(b) /\ raised' = raised),
         logged' = logged \cup {x}, leaked \subseteq leaked', plugins' = plugins, test' = test
  PROVE  Shown'
<1>1. ~Busy /\ ~Busy' /\ logged \cap Tests = {}
  BY BetweenTests DEF Busy
<1>2. ReportsOwnOutput /\ IsSequence(plugins) /\ IsSequence(raised)
  BY DEF SInv, Depth, IInv, Typing, TypeOfResult
<1>3. OwnOutput'
  BY DEF OwnOutput
<1>4. CASE addError(x, kind, b)
  <2>1. PICK none : none = NoOne
    OBVIOUS
  <2>2. /\ \E r : raised' = Append(raised, r) /\ ShownWith(r, x, none, none)
        /\ systemout' = none /\ buf' \in {none, NoOne}
    BY <1>2, <1>4, <2>1, Noted
  <2>3. PICK r : raised' = Append(raised, r) /\ ShownWith(r, x, none, none)
    BY <2>2
  <2>4. r.output = {} /\ r.xml = {} /\ r.of = x
    BY <1>1, <2>1, <2>3 DEF ShownWith
  <2>5. ReportsOwnOutput'
    BY <1>2, <2>3, <2>4, ReportedOnce
  <2>6. Held'
    BY <1>1, <2>1, <2>2 DEF Held
  <2> QED  BY <1>3, <2>5, <2>6 DEF Shown
<1>5. CASE Keep(b) /\ raised' = raised
  <2>1. buf' = NoOne /\ systemout' = NoOne
    BY <1>5 DEF Keep
  <2>2. Held'
    BY <1>1, <2>1 DEF Held
  <2> QED  BY <1>2, <1>3, <1>5, <2>2, ReportedSame DEF Shown
<1> QED  BY <1>4, <1>5

LEMMA SetupShown ==
  ASSUME SInv, NEW c \in Contexts, NEW o, setupContext(c, o)
  PROVE  Shown'
<1>1. /\ pc = "between" /\ pc' = "between" /\ logged' = logged \cup {c} /\ c \notin Tests
      /\ plugins' = plugins /\ test' = test /\ leaked \subseteq leaked'
  BY NamesAssumption DEF setupContext
<1>2. PICK b : b = [buf |-> NoOne, systemout |-> NoOne]
  OBVIOUS
<1>3. Began({"xunit"} \cap ToSet(plugins), c) = b
  <2>1. buf = NoOne /\ systemout = NoOne
    BY <1>1, BetweenTests DEF Busy
  <2> QED  BY <1>1, <1>2, <2>1 DEF Began
<1>4. addError(c, o, b) \/ (Keep(b) /\ raised' = raised)
  BY <1>3 DEF setupContext, Handled, result
<1> QED  BY <1>1, <1>2, <1>4, FixtureShown

LEMMA TeardownShown ==
  ASSUME SInv, NEW o, teardownContext(o)
  PROVE  Shown'
<1>1. PICK c : c = Last(up)
  OBVIOUS
<1>2. /\ pc = "between" /\ pc' = "between" /\ logged' = logged \cup {c} /\ up # <<>>
      /\ plugins' = plugins /\ test' = test /\ leaked \subseteq leaked'
  BY <1>1 DEF teardownContext
<1>3. c \notin Tests
  <2>1. up \in Seq(Contexts)
    BY DEF SInv, IInv, Typing
  <2>2. Len(up) \in 1..Len(up) /\ c = up[Len(up)]
    BY <1>1, <1>2, <2>1, EmptySeq DEF Last
  <2> QED  BY <2>1, <2>2, NamesAssumption
<1>4. PICK b : b = [buf |-> NoOne, systemout |-> NoOne]
  OBVIOUS
<1>5. Now = b /\ buf = NoOne /\ systemout = NoOne
  BY <1>2, <1>4, BetweenTests DEF Busy
<1>6. addError(c, o, b) \/ (Keep(b) /\ raised' = raised)
  <2>1. addError(c, o, Now) \/ Handled(Now) \/ UNCHANGED <<buffers, result>>
    BY <1>1 DEF teardownContext
  <2>2. ASSUME UNCHANGED <<buffers, result>> PROVE Keep(b) /\ raised' = raised
    BY <1>4, <1>5, <2>2 DEF buffers, result, Keep
  <2> QED  BY <1>5, <2>1, <2>2 DEF Handled, result
<1> QED  BY <1>2, <1>3, <1>4, <1>6, FixtureShown

\* What a test writes from now on is its own.
LEMMA TestShown ==
  ASSUME SInv, NEW t \in Tests, beforeTest(t)
  PROVE  Shown'
<1>1. /\ pc = "between" /\ pc' = "running" /\ test' = t /\ logged' = logged \cup {t}
      /\ UNCHANGED <<plugins, raised, leaked>>
      /\ Begin(ToSet(plugins), t) /\ Keep(Began(ToSet(plugins), t))
  BY DEF beforeTest, result
<1>2. buf = NoOne /\ systemout = NoOne /\ logged \cap Tests = {}
  BY <1>1, BetweenTests DEF Busy
<1>3. \A p : (p \in ToSet(plugins) <=> Enabled(p)) /\ Enabled(p)' = Enabled(p)
  BY <1>1, EnabledPlugins DEF SInv, Depth, Enabled
<1>4. /\ buf' = IF Enabled("capture") THEN t ELSE NoOne
      /\ systemout' = IF Enabled("xunit") THEN t ELSE NoOne
  BY <1>1, <1>2, <1>3 DEF Began, Keep
<1>5. logged' \cap Tests = {t} /\ Busy'
  BY <1>1, <1>2 DEF Busy
<1>6. Held'
  BY <1>1, <1>3, <1>4, <1>5 DEF Held
<1>7. OwnOutput'
  <2>1. stdout' = Pushed(stdout, ToSet(plugins), t).stdout
    BY <1>1 DEF Begin
  <2>2. ASSUME Enabled("capture")
        PROVE  stdout' \ ({"xml"} \X {t}) = {<<"buffer", t>>}
    <3>1. <<"buffer", t>> \notin {"xml"} \X {t} /\ <<"xml", t>> \in {"xml"} \X {t}
      OBVIOUS
    <3>2. stdout' = {<<"buffer", t>>} \/ stdout' = {<<"buffer", t>>} \cup {<<"xml", t>>}
      BY <1>3, <2>1, <2>2 DEF Pushed
    <3> QED  BY <3>1, <3>2
  <2>3. ASSUME Enabled("xunit") PROVE <<"xml", t>> \in stdout'
    BY <1>3, <2>1, <2>3 DEF Pushed
  <2> QED  BY <1>1, <1>3, <1>5, <2>2, <2>3 DEF OwnOutput
<1>8. ReportsOwnOutput'
  BY <1>1, ReportedSame DEF SInv
<1> QED  BY <1>6, <1>7, <1>8 DEF Shown

\* A test that begins for some plugins only is shown with its own output or none.
LEMMA RaisesShown ==
  ASSUME SInv, NEW t \in Tests, beforeTestRaises(t)
  PROVE  Shown'
<1>1. /\ pc = "between" /\ pc' = "after" /\ test' = t /\ logged' = logged
      /\ plugins' = plugins /\ leaked' = leaked \cup {t}
  BY DEF beforeTestRaises
<1>2. buf = NoOne /\ systemout = NoOne /\ logged \cap Tests = {}
  BY <1>1, BetweenTests DEF Busy
<1>3. PICK p \in {t, NoOne}, q \in {t, NoOne} :
        Began(CalledUntil("watch"), t) = [buf |-> p, systemout |-> q]
  BY <1>2 DEF Began
<1>4. PICK b : b = [buf |-> p, systemout |-> q]
  OBVIOUS
<1>5. (Keep(b) /\ raised' = raised) \/ addError(t, "error", b)
  BY <1>3, <1>4 DEF beforeTestRaises, Handled, result
<1>6. ReportsOwnOutput /\ IsSequence(plugins) /\ IsSequence(raised)
  BY DEF SInv, Depth, IInv, Typing, TypeOfResult
<1>7. ReportsOwnOutput' /\ systemout' = q /\ buf' \in {p, NoOne}
  <2>1. CASE Keep(b) /\ raised' = raised
    <3>1. buf' = p /\ systemout' = q
      BY <1>4, <2>1 DEF Keep
    <3> QED  BY <1>1, <1>6, <2>1, <3>1, ReportedSame
  <2>2. CASE addError(t, "error", b)
    <3>1. /\ \E r : raised' = Append(raised, r) /\ ShownWith(r, t, p, q)
          /\ systemout' = q /\ buf' \in {p, NoOne}
      BY <1>4, <1>6, <2>2, Noted
    <3>2. PICK r : raised' = Append(raised, r) /\ ShownWith(r, t, p, q)
      BY <3>1
    <3>3. (r.output \cup r.xml) \cap Tests \subseteq {r.of} /\ r.of \notin Tests \ leaked'
      BY <1>1, <1>2, <3>2 DEF ShownWith
    <3>4. ReportsOwnOutput'
      BY <1>1, <1>6, <3>2, <3>3, ReportedOnce
    <3> QED  BY <3>1, <3>4
  <2> QED  BY <1>5, <2>1, <2>2
<1>8. Held'
  <2>1. Busy' /\ pc' \notin {"running", "cleanup"}
    BY <1>1 DEF Busy
  <2> QED  BY <1>1, <1>2, <1>7, <2>1 DEF Held
<1>9. OwnOutput'
  BY <1>1 DEF OwnOutput
<1> QED  BY <1>7, <1>8, <1>9 DEF Shown

\* The first report of a test is shown with all of its output.
LEMMA ReportShown ==
  ASSUME SInv, NEW kind, RunTest(kind)
  PROVE  Shown'
<1>1. /\ \/ pc = "running" /\ pc' = "cleanup"
         \/ pc = "cleanup" /\ pc' = "after"
      /\ UNCHANGED <<plugins, test, stdout, logged, leaked>>
      /\ Report(test, kind)
  BY DEF RunTest
<1>2. PICK t \in Tests : t = test
  BY DEF SInv, IInv, Typing
<1>3. /\ ReportsOwnOutput /\ IsSequence(plugins) /\ IsSequence(raised)
      /\ t # NoOne /\ Busy /\ Busy'
  BY <1>1, NamesAssumption DEF SInv, Depth, IInv, Typing, TypeOfResult, Busy
<1>4. /\ buf \in {NoOne, t} /\ systemout \in {NoOne, t} /\ logged \cap Tests = {t}
      /\ Enabled("xunit") => systemout = t
      /\ Enabled("capture") /\ ~HasReport(raised, t) => buf = t
  <2>1. Held /\ OwnOutput
    BY DEF SInv
  <2>2. logged \cap Tests = {t}
    BY <1>1, <1>2, <2>1 DEF OwnOutput
  <2> QED  BY <1>1, <1>2, <1>3, <2>1, <2>2 DEF Held
<1>5. OwnOutput' /\ \A p : Enabled(p)' = Enabled(p)
  BY <1>1 DEF OwnOutput, SInv, Enabled
<1>6. PICK b, p, q : b = Now /\ p = buf /\ q = systemout /\ b = [buf |-> p, systemout |-> q]
  BY DEF Now
<1>7. CASE Handled(b)
  <2>1. buf' = buf /\ systemout' = systemout /\ raised' = raised
    BY <1>6, <1>7 DEF Handled, Keep, result
  <2>2. Held'
    BY <1>1, <1>2, <1>3, <1>4, <1>5, <2>1 DEF Held
  <2>3. ReportsOwnOutput'
    BY <1>1, <1>3, <2>1, ReportedSame
  <2> QED  BY <1>5, <2>2, <2>3 DEF Shown
<1>8. ASSUME NEW k, addError(t, k, b) \/ addFailure(t) \/ addSkip(t) PROVE Shown'
  <2>1. /\ \E r :
             /\ raised' = Append(raised, r) /\ ShownWith(r, t, p, q)
             /\ (r.kind = "skip" /\ ~addError(t, k, b)) \/ Full(r, p)
        /\ systemout' = q
        /\ buf' \in {p, NoOne} /\ (~Enabled("capture") => buf' = p)
    <3>1. addError(t, k, b) \/ ((addFailure(t) \/ addSkip(t)) /\ b = Now)
      BY <1>6, <1>8
    <3> QED  BY <1>3, <1>6, <3>1, Noted
  <2>2. PICK r :
             /\ raised' = Append(raised, r) /\ ShownWith(r, t, p, q)
             /\ (r.kind = "skip" /\ ~addError(t, k, b)) \/ Full(r, p)
    BY <2>1
  <2>3. r.of = t /\ (r.output \cup r.xml) \cap Tests \subseteq {t}
    BY <1>4, <1>6, <2>2 DEF ShownWith
  <2>4. ASSUME r.kind # "skip", ~HasReport(raised, t), Enabled("capture") \/ Enabled("logcapture")
        PROVE  t \in r.output
    BY <1>3, <1>4, <1>6, <2>2, <2>4 DEF Full
  <2>5. Enabled("xunit") => t \in r.xml
    BY <1>3, <1>4, <1>6, <2>2 DEF ShownWith
  <2>6. ReportsOwnOutput'
    BY <1>1, <1>3, <2>2, <2>3, <2>4, <2>5, ReportedOnce
  <2>7. HasReport(raised', t)
    <3>1. Len(raised) \in Nat /\ Len(raised') = Len(raised) + 1 /\ raised'[Len(raised) + 1] = r
      BY <1>3, <2>2, AppendToSequence
    <3> QED  BY <2>3, <3>1 DEF HasReport
  <2>8. Held'
    BY <1>1, <1>2, <1>3, <1>4, <1>5, <1>6, <2>1, <2>7 DEF Held
  <2> QED  BY <1>5, <2>6, <2>8 DEF Shown
<1>9. Handled(b) \/ \E k : addError(t, k, b) \/ addFailure(t) \/ addSkip(t)
  BY <1>1, <1>2, <1>6 DEF Report
<1> QED  BY <1>7, <1>8, <1>9

\* What neither reports nor writes.
LEMMA QuietShown ==
  ASSUME SInv, Cleanup \/ addSuccess \/ Summarize \/ finalize \/ UNCHANGED vars
  PROVE  Shown'
<1>1. UNCHANGED <<plugins, test, logged, buf, systemout, raised, leaked>>
  BY DEF Cleanup, addSuccess, Summarize, finalize, vars, streams, buffers, result
<1>2. \/ pc' = pc /\ stdout' = stdout
      \/ pc' \notin {"running", "cleanup"} /\ Busy' = Busy
  BY DEF Cleanup, addSuccess, Summarize, finalize, vars, streams, Busy
<1>3. Held /\ OwnOutput /\ ReportsOwnOutput /\ \A p : Enabled(p)' = Enabled(p)
  BY <1>1 DEF SInv, Enabled
<1>4. Held'
  <2>1. Busy' = Busy
    BY <1>2 DEF Busy
  <2> QED  BY <1>1, <1>2, <1>3, <2>1 DEF Held
<1>5. OwnOutput'
  BY <1>1, <1>2, <1>3 DEF OwnOutput
<1>6. ReportsOwnOutput'
  BY <1>1, <1>3, ReportedSame
<1> QED  BY <1>4, <1>5, <1>6 DEF Shown

\* The buffers are emptied between tests.
LEMMA EndShown ==
  ASSUME SInv, afterTest
  PROVE  Shown'
<1>1. /\ pc' = "between" /\ buf' = NoOne /\ systemout' = NoOne /\ logged' = {}
      /\ UNCHANGED <<plugins, raised, leaked>>
  BY DEF afterTest, End, result
<1>2. Held' /\ OwnOutput'
  BY <1>1 DEF Held, OwnOutput, Busy
<1>3. ReportsOwnOutput'
  BY <1>1, ReportedSame DEF SInv
<1> QED  BY <1>2, <1>3 DEF Shown

-----------------------------------------------------------------------------
LEMMA InitSInv == Init => SInv
<1> SUFFICES ASSUME Init PROVE SInv
  OBVIOUS
<1>1. /\ pc = "configure" /\ plugins = <<>> /\ up = <<>> /\ stdout = {Real} /\ captured = <<>>
      /\ capture_stack = <<>> /\ logged = {} /\ buf = NoOne /\ systemout = NoOne /\ raised = <<>>
  BY DEF Init
<1>2. IsSequence(<<>>) /\ Len(<<>>) = 0
  BY EmptySeq DEF IsSequence
<1>3. InUse = 0 /\ ~Busy
  BY <1>1 DEF InUse, Busy
<1>4. Cardinality(Contexts \ left) \in Nat
  BY ContextsAssumption, FS_Difference, FS_CardinalityType
<1>5. Depth
  BY <1>1, <1>2, <1>3, <1>4 DEF Depth
<1>6. Bottom
  <2>1. ~Enabled("capture") /\ ~Enabled("xunit")
    BY <1>1, <1>2 DEF Enabled, Contains
  <2> QED  BY <1>1, <1>2, <2>1 DEF Bottom
<1>7. Held /\ OwnOutput /\ ReportsOwnOutput
  BY <1>1, <1>3 DEF Held, OwnOutput, ReportsOwnOutput
<1> QED  BY <1>5, <1>6, <1>7, InitIInv DEF SInv

LEMMA NextSInv == SInv /\ [Next]_vars => SInv'
<1> SUFFICES ASSUME SInv, [Next]_vars PROVE SInv'
  OBVIOUS
<1>1. IInv'
  BY NextIInv DEF SInv
<1>2. Depth' /\ Bottom'
  BY ConfigureStreams, SetupStreams, TeardownStreams, TestStreams, EndStreams, FinalizeStreams,
     QuietStreams DEF Next
<1>3. Shown'
  BY ConfigureShown, SetupShown, TeardownShown, TestShown, RaisesShown, ReportShown, QuietShown,
     EndShown DEF Next
<1> QED  BY <1>1, <1>2, <1>3 DEF SInv, Shown

LEMMA OutputImplied == SInv => OutputKept
<1> SUFFICES ASSUME SInv PROVE OutputKept
  OBVIOUS
<1>1. TypeOK
  <2>1. TypeOfResult
    BY DEF SInv, IInv, Typing
  <2>2. Len(captured) \in 0..2 /\ Len(capture_stack) \in 0..Cardinality(Contexts) + 1
    <3>1. Len(captured) \in Nat /\ Len(capture_stack) \in Nat /\ InUse \in {0, 1}
      BY RestOfSequence DEF SInv, Depth, InUse
    <3>2. /\ Cardinality(Contexts \ left) \in Nat /\ Cardinality(Contexts) \in Nat
          /\ Cardinality(Contexts \ left) <= Cardinality(Contexts)
      BY ContextsAssumption, FS_Subset, FS_CardinalityType
    <3>3. Len(captured) <= 1 + InUse /\ Len(capture_stack) <= Cardinality(Contexts \ left) + InUse
      BY DEF SInv, Depth
    <3>4. PICK n \in Nat, m \in Nat, b \in {0, 1} :
            n = Cardinality(Contexts \ left) /\ m = Cardinality(Contexts) /\ b = InUse
      BY <3>1, <3>2
    <3>5. PICK k \in Nat, l \in Nat : k = Len(captured) /\ l = Len(capture_stack)
      BY <3>1
    <3>6. k <= 1 + b /\ l <= n + b /\ n <= m
      BY <3>2, <3>3, <3>4, <3>5
    <3>7. k \in 0..2 /\ l \in 0..m + 1
      BY <3>6
    <3> QED  BY <3>4, <3>5, <3>7
  <2>3. ToSet(errors) \cup ToSet(failures) \cup ToSet(skipped) \subseteq Tests \cup Contexts
    BY <2>1 DEF TypeOfResult, Everything, ToSet
  <2>4. stats \in [{"errors", "failures", "skipped", "passes"} -> Nat]
    BY <2>1 DEF TypeOfResult
  <2> QED  BY <2>1, <2>2, <2>3, <2>4 DEF TypeOK, TypeOfResult, Everything
<1>2. StdoutRestored
  BY DEF StdoutRestored, SInv, Bottom
<1> QED  BY <1>1, <1>2 DEF SInv, OutputKept

\* While a test runs its output goes to its own buffers, what is shown with an
\* error is its own and with the first all of it, the stacks stay bounded, and in
\* the end sys.stdout is what it was (capture.py, xunit.py, logcapture.py): for any
\* tests, contexts and plugins in any order, however fixtures and plugins fail.
THEOREM OutputInPlace == Spec => []OutputKept
BY InitSInv, NextSInv, OutputImplied, PTL DEF Spec
=============================================================================
