----------------------------- MODULE Reporting -----------------------------
(***************************************************************************)
(* What becomes of a test on its way from case.Test.run through the result *)
(* proxy, the plugins and the text result to the summary: which plugins    *)
(* hear of it, in which list it ends, where its output goes and whether    *)
(* the run goes on.  Fixtures of contexts are set up and torn down between *)
(* tests (see ContextSuite for when).  The plugins are capture, logcapture,*)
(* xunit, the error class plugins (skip and deprecated, as one) and        *)
(* "watch", any other plugin, which may come before, between or after them.*)
(***************************************************************************)
EXTENDS Integers, SequencesExt

CONSTANTS
  Tests, Contexts,
  PluginSets,   \* sets of plugins that may be enabled
  WatchScores,  \* scores the plugin "watch" may have
  MaxDepth,     \* bound: contexts set up at a time
  NoOne

AllPlugins == {"capture", "xunit", "errorclass", "logcapture", "watch"}

ASSUME NamesAssumption == Tests \cap Contexts = {} /\ NoOne \notin Tests
ASSUME ContextsAssumption == IsFiniteSet(Contexts)
ASSUME PluginsAssumption == PluginSets \subseteq SUBSET AllPlugins

VARIABLES
  pc,        \* "configure", "between", "running", "cleanup", "after", "reported", "done"
  plugins,   \* enabled plugins in the order they are called
  stopOnError,
  test,      \* the test that runs, or the last one
  left,      \* tests and contexts that have not begun
  up,        \* contexts set up, innermost last
  \* streams: where sys.stdout writes to, and what the plugins have put aside
  stdout, captured, capture_stack,
  logged,    \* whose records are in the buffer of logcapture
  buf,       \* the test whose output capture may add to an error, or NoOne
  systemout, \* the test whose output xunit adds to its element, or NoOne
  \* the result
  errors, failures, skipped, passed, shouldStop,
  testsRun,
  stats,     \* of xunit
  summary,   \* what is printed at the end, or NoOne
  total,     \* the number of tests in the file of xunit
  \* what has happened
  raised,    \* reports no plugin has handled, in order
  heard,     \* those of addError that "watch" has heard of
  leaked     \* contexts begun and never ended, tests begun for some plugins only

buffers == <<buf, systemout>>
streams == <<stdout, captured, capture_stack, logged, buffers>>
result == <<errors, failures, skipped, passed, shouldStop, stats, raised, heard>>
printed == <<testsRun, summary, total>>
vars == <<pc, plugins, stopOnError, test, left, up, streams, result, printed, leaked>>

Enabled(p) == Contains(plugins, p)

-----------------------------------------------------------------------------
(* Plugin calls (PluginProxy).                                             *)

\* The plugins a simple call reaches: none after the first that answers.
Reached(answering) ==
  LET first == SelectInSeq(plugins, LAMBDA p : p \in answering)
  IN ToSet(IF first = 0 THEN plugins ELSE SubSeq(plugins, 1, first))

\* The plugins called before one raises, and that one.
CalledUntil(p) == Reached({p})

\* Python 3: filter() is an iterator and always true (errorclass.py:66).
AnswerToError == {"errorclass"}

-----------------------------------------------------------------------------
(* Streams.  A stream is the set of places a write ends up in.             *)

Real == <<"sys", "stdout">>

Pushed(s, called, name) ==  \* capture.start, then xunit._startCapture
  LET one == IF "capture" \in called THEN {<<"buffer", name>>} ELSE s
  IN [stdout |-> IF "xunit" \in called THEN one \cup {<<"xml", name>>} ELSE one, tee |-> one]

\* beforeTest of capture and xunit, as far as they are called; also startContext.
Begin(called, name) ==
  LET p == Pushed(stdout, called, name)
  IN /\ stdout' = p.stdout
     /\ captured' = IF "capture" \in called THEN Append(captured, stdout) ELSE captured
     /\ capture_stack' = IF "xunit" \in called THEN Append(capture_stack, p.tee) ELSE capture_stack

\* The buffers then, and as they are.
Began(called, name) ==
  LET one == IF name \in Tests THEN name ELSE NoOne
  IN [buf |-> IF "capture" \in called THEN one ELSE buf,
      systemout |-> IF "xunit" \in called THEN one ELSE systemout]
Now == [buf |-> buf, systemout |-> systemout]
Keep(b) == buf' = b.buf /\ systemout' = b.systemout

\* What a stack gives back and what remains of it; an empty one gives nothing.
Popped(stack, s) == IF stack = <<>> THEN s ELSE Last(stack)
Rest(stack) == IF stack = <<>> THEN stack ELSE Front(stack)

\* Mutant of End: capture keeps the buffer it has replaced.
EndOpen ==
  LET one == Popped(captured, stdout)
  IN /\ stdout' = Popped(capture_stack, one)
     /\ captured' = Rest(captured)
     /\ capture_stack' = Rest(capture_stack)
     /\ systemout' = NoOne
     /\ UNCHANGED buf
\* afterTest: capture.end, then xunit._endCapture.
End ==
  LET one == Popped(captured, stdout)
  IN /\ stdout' = Popped(capture_stack, one)
     /\ captured' = Rest(captured)
     /\ capture_stack' = Rest(capture_stack)
     /\ buf' = NoOne /\ systemout' = NoOne

-----------------------------------------------------------------------------
(* Reports (ResultProxy and NoseTextTestResult).  A kind is the class of   *)
(* the exception: "error", "failure", "skip" or "deprecated".              *)

Count(field) == stats' = IF Enabled("xunit") THEN [stats EXCEPT ![field] = @ + 1] ELSE stats
Successful == errors = <<>> /\ failures = <<>>

\* formatError and formatFailure are chained: every plugin adds to the error
\* what it has got, capture once for a test, and xunit prints all of it.  What
\* fixtures print and log is left out.  b: the buffers when the report comes.
Addition(p, b) ==
  CASE p = "capture" -> {b.buf} \ {NoOne}
    [] p = "logcapture" -> logged \cap Tests
    [] OTHER -> {}

Note(of, kind, output, b) ==
  raised' = Append(raised,
    [of |-> of, kind |-> kind, output |-> output,
     xml |-> IF Enabled("xunit") THEN {b.systemout} \ {NoOne} ELSE {}])

formatError(of, kind, b) ==
  /\ Note(of, kind, UNION {Addition(p, b) : p \in ToSet(plugins)}, b)
  /\ Keep(IF Enabled("capture") THEN [b EXCEPT !.buf = NoOne] ELSE b)

\* addError of the plugins: xunit counts, "watch" hears of it.
TellPlugins(of, kind) ==
  /\ Count(IF kind = "skip" THEN "skipped" ELSE "errors")
  /\ heard' = IF "watch" \in Reached(AnswerToError) THEN Append(heard, <<of, kind>>) ELSE heard

\* The error class plugins give the result lists for their exceptions.
HasList(kind) == Enabled("errorclass") /\ kind \in {"skip", "deprecated"}

\* The list the text result puts an error in.
Store(of, kind) ==
  IF HasList(kind)
    THEN skipped' = Append(skipped, of) /\ UNCHANGED <<errors, passed>>
    ELSE /\ errors' = Append(errors, of)
         /\ passed' = [passed EXCEPT ![of] = FALSE]
         /\ UNCHANGED skipped

addError(of, kind, b) ==
  /\ formatError(of, kind, b)
  /\ TellPlugins(of, kind)
  /\ Store(of, kind)
  /\ shouldStop' = (shouldStop \/ (stopOnError /\ (errors' # <<>> \/ failures # <<>>)))
  /\ UNCHANGED failures

\* Mutant of addFailure: --stop is left to addError.
addFailureOnly(of) ==
  /\ formatError(of, "failure", Now)
  /\ Count("failures")
  /\ failures' = Append(failures, of)
  /\ passed' = [passed EXCEPT ![of] = FALSE]
  /\ UNCHANGED <<errors, skipped, heard, shouldStop>>
addFailure(of) ==
  /\ formatError(of, "failure", Now)
  /\ Count("failures")
  /\ failures' = Append(failures, of)
  /\ passed' = [passed EXCEPT ![of] = FALSE]
  /\ shouldStop' = (shouldStop \/ stopOnError)
  /\ UNCHANGED <<errors, skipped, heard>>

\* A SkipTest unittest has caught: no plugin may handle or format it, and
\* without the skip plugin the result has no list for it.
addSkip(of) ==
  /\ Note(of, "skip", {}, Now)
  /\ TellPlugins(of, "skip")
  /\ skipped' = IF HasList("skip") THEN Append(skipped, of) ELSE skipped
  /\ UNCHANGED <<errors, failures, passed, shouldStop, buffers>>

\* handleError or handleFailure of a plugin: the report ends here.
Handled(b) == Enabled("watch") /\ Keep(b) /\ UNCHANGED result

Report(of, kind) ==
  \/ kind # "skip" /\ Handled(Now)
  \/ kind = "failure" /\ addFailure(of)
  \/ kind = "skip" /\ addSkip(of)
  \/ kind \in {"error", "deprecated"} /\ addError(of, kind, Now)

-----------------------------------------------------------------------------
(* The run.                                                                *)

Score(watch) == [capture |-> 1600, xunit |-> 1500, errorclass |-> 1000, logcapture |-> 500, watch |-> watch]

\* The highest score first; those with the same one stay as they were found.
Sorted(enabled, score) ==
  {s \in SetToSeqs(enabled) : \A i, j \in DOMAIN s : i < j => score[s[i]] >= score[s[j]]}

\* The plugins are configured, sorted and told to begin.
configure ==
  /\ pc = "configure"
  /\ pc' = "between"
  /\ \E enabled \in PluginSets, w \in WatchScores :
       plugins' \in Sorted(enabled, Score(w))
  /\ stopOnError' \in BOOLEAN
  /\ IF Contains(plugins', "capture")
       THEN captured' = <<stdout>> /\ stdout' = {<<"buffer", "begin">>}
       ELSE UNCHANGED <<captured, stdout>>
  /\ UNCHANGED <<test, left, up, capture_stack, logged, buffers, result, printed, leaked>>

\* A context is begun; when its setup raises, the suite reports an error and
\* nobody ends it.
setupContext(c, outcome) ==
  /\ pc = "between"
  /\ ~shouldStop
  /\ c \in left \cap Contexts
  /\ Len(up) < MaxDepth
  /\ left' = left \ {c}
  /\ Begin({"xunit"} \cap ToSet(plugins), c)
  /\ logged' = logged \cup {c}
  /\ IF outcome = "ok"
       THEN up' = Append(up, c) /\ Keep(Began({"xunit"} \cap ToSet(plugins), c)) /\ UNCHANGED <<result, leaked>>
       ELSE /\ \E b \in {Began({"xunit"} \cap ToSet(plugins), c)} : Handled(b) \/ addError(c, outcome, b)
            /\ leaked' = leaked \cup {c}
            /\ UNCHANGED up
  /\ UNCHANGED <<pc, plugins, stopOnError, test, printed>>

teardownContext(outcome) ==
  /\ pc = "between"
  /\ up # <<>>
  /\ up' = Front(up)
  /\ logged' = logged \cup {Last(up)}
  /\ IF outcome = "ok"
       THEN /\ stdout' = Popped(capture_stack, stdout)
            /\ capture_stack' = Rest(capture_stack)
            /\ UNCHANGED <<captured, buffers, result, leaked>>
       ELSE /\ Handled(Now) \/ addError(Last(up), outcome, Now)
            /\ leaked' = leaked \cup {Last(up)}
            /\ UNCHANGED <<stdout, captured, capture_stack>>
  /\ UNCHANGED <<pc, plugins, stopOnError, test, left, printed>>

\* Test.run: beforeTest of the plugins, and the test starts ...
beforeTest(t) ==
  /\ pc = "between"
  /\ ~shouldStop
  /\ t \in left \cap Tests
  /\ left' = left \ {t}
  /\ test' = t
  /\ Begin(ToSet(plugins), t)
  /\ Keep(Began(ToSet(plugins), t))
  /\ logged' = logged \cup {t}
  /\ testsRun' = testsRun + 1
  /\ pc' = "running"
  /\ UNCHANGED <<plugins, stopOnError, up, result, summary, total, leaked>>

\* ... unless one of them raises: those after it are not called.
beforeTestRaises(t) ==
  /\ pc = "between"
  /\ ~shouldStop
  /\ t \in left \cap Tests
  /\ Enabled("watch")
  /\ left' = left \ {t}
  /\ test' = t
  /\ Begin(CalledUntil("watch"), t)
  /\ \E b \in {Began(CalledUntil("watch"), t)} : Handled(b) \/ addError(t, "error", b)
  /\ leaked' = leaked \cup {t}
  /\ pc' = "after"
  /\ UNCHANGED <<plugins, stopOnError, up, logged, printed>>

\* The test raises, and after that its teardown may do so too.
RunTest(kind) ==
  /\ \/ pc = "running" /\ pc' = "cleanup"
     \/ pc = "cleanup" /\ kind = "error" /\ pc' = "after"
  /\ Report(test, kind)
  /\ UNCHANGED <<plugins, stopOnError, test, left, up, stdout, captured, capture_stack, logged, printed, leaked>>

Cleanup == pc = "cleanup" /\ pc' = "after" /\ UNCHANGED <<plugins, stopOnError, test, left, up, streams, result, printed, leaked>>

addSuccess ==
  /\ pc = "running"
  /\ pc' = "after"
  /\ Count("passes")
  /\ UNCHANGED <<plugins, stopOnError, test, left, up, streams, errors, failures, skipped,
                 passed, shouldStop, raised, heard, printed, leaked>>

afterTest ==
  /\ pc = "after"
  /\ pc' = "between"
  /\ End
  /\ logged' = {}
  /\ UNCHANGED <<plugins, stopOnError, test, left, up, result, printed, leaked>>

\* The plugins report, xunit to its file; then the summary is printed.
report == total' = IF Enabled("xunit") THEN stats.errors + stats.failures + stats.passes + stats.skipped ELSE 0
printSummary ==
  summary' = [ok |-> Successful, run |-> testsRun,
              errors |-> Len(errors), failures |-> Len(failures), skipped |-> Len(skipped)]
Summarize ==
  /\ pc = "between"
  /\ up = <<>>
  /\ pc' = "reported"
  /\ report
  /\ printSummary
  /\ UNCHANGED <<plugins, stopOnError, test, left, up, streams, result, testsRun, leaked>>

\* finalize: every plugin empties its stack, in the order they are called.
finalize ==
  /\ pc = "reported"
  /\ pc' = "done"
  /\ LET one == IF captured = <<>> THEN stdout ELSE captured[1]
     IN stdout' = IF capture_stack = <<>> THEN one ELSE capture_stack[1]
  /\ captured' = <<>>
  /\ capture_stack' = <<>>
  /\ UNCHANGED <<plugins, stopOnError, test, left, up, logged, buffers, result, printed, leaked>>

Init ==
  /\ pc = "configure"
  /\ plugins = <<>>
  /\ stopOnError = FALSE
  /\ test \in Tests
  /\ left = Tests \cup Contexts
  /\ up = <<>>
  /\ stdout = {Real} /\ captured = <<>> /\ capture_stack = <<>>
  /\ logged = {} /\ buf = NoOne /\ systemout = NoOne
  /\ errors = <<>> /\ failures = <<>> /\ skipped = <<>>
  /\ passed = [t \in Tests \cup Contexts |-> TRUE]
  /\ shouldStop = FALSE
  /\ stats = [errors |-> 0, failures |-> 0, skipped |-> 0, passes |-> 0]
  /\ testsRun = 0 /\ summary = NoOne /\ total = 0
  /\ raised = <<>> /\ heard = <<>> /\ leaked = {}

Next ==
  \/ configure
  \/ \E c \in Contexts, o \in {"ok", "error"} : setupContext(c, o)
  \/ \E o \in {"ok", "error"} : teardownContext(o)
  \/ \E t \in Tests : beforeTest(t) \/ beforeTestRaises(t)
  \/ \E k \in {"error", "failure", "skip", "deprecated"} : RunTest(k)
  \/ Cleanup \/ addSuccess \/ afterTest \/ Summarize \/ finalize

Spec == Init /\ [][Next]_vars

-----------------------------------------------------------------------------
(* Properties.                                                             *)

TypeOK ==
  /\ Len(captured) \in 0 .. 2
  /\ Len(capture_stack) \in 0 .. Cardinality(Contexts) + 1
  /\ ToSet(errors) \cup ToSet(failures) \cup ToSet(skipped) \subseteq Tests \cup Contexts
  /\ passed \in [Tests \cup Contexts -> BOOLEAN]
  /\ shouldStop \in BOOLEAN /\ stopOnError \in BOOLEAN
  /\ stats \in [{"errors", "failures", "skipped", "passes"} -> Nat]

\* While a test runs, what it prints goes into the buffer capture reports for
\* it and into the system-out of xunit for it, and nothing of another test is
\* in either, however fixtures and plugins failed before (capture.py, xunit.py).
OwnOutput ==
  pc \in {"running", "cleanup"} =>
    /\ Enabled("capture") => stdout \ ({"xml"} \X {test}) = {<<"buffer", test>>}
    /\ Enabled("xunit") => <<"xml", test>> \in stdout
    /\ logged \cap Tests = {test}

\* What is shown with the error of a test, and with a fixture's, is not the
\* output or the log of another test.  The first report of a test that has begun
\* shows its own output and log; xunit shows its output with every report
\* (capture.py:27, logcapture.py:103).
ReportsOwnOutput ==
  \A i \in DOMAIN raised :
    LET r == raised[i]
        First == \A j \in 1..(i - 1) : raised[j].of # r.of
        begun == r.of \in Tests \ leaked /\ r.kind # "skip"
    IN /\ (r.output \cup r.xml) \cap Tests \subseteq {r.of}
       /\ begun /\ First /\ (Enabled("capture") \/ Enabled("logcapture")) => r.of \in r.output
       /\ r.of \in Tests \ leaked /\ Enabled("xunit") => r.of \in r.xml

\* At the end sys.stdout is the stream the run began with (capture.py:117,
\* "Restore stdout"), unless a fixture or a plugin kept a stack from being emptied.
StdoutRestored == pc = "done" /\ leaked = {} => stdout = {Real}

\* Output goes where it belongs, is shown where it belongs, and in the end to
\* where it went at first: the three above.
OutputKept == TypeOK /\ OwnOutput /\ ReportsOwnOutput /\ StdoutRestored

\* The run is a success exactly when no test and no fixture has failed, and with
\* --stop no test begins after the first that has failed, nor does a handled
\* report, a skip or a deprecated test stop anything.
Verdict ==
  /\ Successful <=> \A x \in Tests \cup Contexts : passed[x]
  /\ shouldStop <=> stopOnError /\ ~Successful

\* What xunit counts is what the result holds: every report once, skips apart.
XunitAgrees ==
  Enabled("xunit") =>
    /\ stats.errors + stats.failures + stats.skipped = Len(raised)
    /\ Enabled("errorclass") =>
         stats.errors + stats.failures + stats.skipped = Len(errors) + Len(failures) + Len(skipped)

\* The summary says OK exactly when nothing has failed.  Unless a plugin handles
\* reports, every test it counts as run has an outcome in the file of xunit; what
\* is there beside them are fixtures, tests that never began, and second reports
\* (result.py, printSummary; xunit.py, report).
Beside ==
  {i \in DOMAIN raised :
     raised[i].of \notin Tests \ leaked \/ \E j \in 1..(i - 1) : raised[j].of = raised[i].of}
SummaryAgrees ==
  pc \in {"reported", "done"} =>
    /\ summary.ok <=> \A x \in Tests \cup Contexts : passed[x]
    /\ Enabled("xunit") /\ ~Enabled("watch") => total = summary.run + Cardinality(Beside)

\* Verdict, counts and summary agree with what happened, whatever else did.
ResultsAgree == Verdict /\ XunitAgrees /\ SummaryAgrees

\* A plugin that does not handle errors hears of each of them (base.py:161:
\* "do not return a value unless you want to stop other plugins from seeing it").
ErrorsHeard ==
  Enabled("watch") => Len(heard) = Len(SelectSeq(raised, LAMBDA r : r.kind # "failure"))
=============================================================================
