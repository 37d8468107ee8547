------------------------------- MODULE TestId -------------------------------
(***************************************************************************)
(* The test id plugin (plugins/testid.py): numbers for tests, kept in a    *)
(* file over a sequence of runs.  A run loads the file when nose asks for  *)
(* the tests of the names it was given, numbers every test it starts,      *)
(* notes those that fail, and writes the file at the end; with --failed it *)
(* runs the noted tests instead of the names.  A run may be interrupted by *)
(* ctrl-c, which ends it in good order, or killed at any point.            *)
(***************************************************************************)
EXTENDS Integers, SequencesExt

CONSTANTS
  Tests,      \* all tests
  Methods,    \* those of a unittest.TestCase, the others are functions and test class methods
  Contents,   \* Contents[s]: the tests a name s of the command line loads
  CmdLines,   \* the sequences of names a run may be given
  NoTest      \* what a name that cannot be loaded yields: a Failure

ASSUME MethodsAssumption ==
  Methods \subseteq Tests /\ IsFiniteSet(Methods) /\ NoTest \notin Tests
ASSUME ContentsAssumption == \A s \in DOMAIN Contents : Contents[s] \in Seq(Tests)

VARIABLES
  file,        \* the id file
  pc,          \* where the run is: "off", "load", "run", "save"
  \* the plugin, new in every run
  names,       \* names of the command line
  loopOnFailed,
  ids,         \* as loaded: ids[i] is the test of id i
  tests,       \* tests[t] is the id of t
  nextId,      \* self.id
  failed,      \* ids of failed tests
  source_names,
  collecting,
  problematic, \* _problematic_tests
  \* the rest of the run
  plan,        \* tests still to run
  passed,      \* result.wasSuccessful()
  executed,    \* executed[t]: how often the code of t has been run
  rerun,       \* the run is over noted failures
  fell,        \* tests with an address that have failed
  \* what the user knows of the runs that wrote the file
  shown,       \* the ids they printed
  broken,      \* the tests with an address that failed in the last of them
  looped       \* that one was a run with --failed over noted failures

memory == <<names, loopOnFailed, ids, tests, nextId, failed, source_names, collecting, problematic>>
seen == <<shown, broken, looped>>
progress == <<plan, passed, executed, rerun, fell>>
vars == <<file, pc, memory, progress, seen>>

IdName(i) == <<"id", i>>         \* "3" or "#3"
TestName(t) == <<"test", t>>     \* file:call
SourceName(s) == <<"source", s>>

\* Without a name, nose runs in the current directory.
Name == ({"id"} \X Nat) \cup ({"test"} \X Tests) \cup ({"source"} \X DOMAIN Contents)
ASSUME NamesAssumption == CmdLines \subseteq Seq(Name) \ {<<>>}

None == [t \in {} |-> 0]
\* f, and g where f has no value.
Joined(f, g) == [x \in DOMAIN f \cup DOMAIN g |-> IF x \in DOMAIN f THEN f[x] ELSE g[x]]
IdsOf(f) == [i \in {f[t] : t \in DOMAIN f} |-> CHOOSE t \in DOMAIN f : f[t] = i]

\* The file may be missing, foreign - on reading it a ValueError says so -, damaged
\* - empty or such that another error does -, hold the ids only, as older releases
\* wrote it, or all three parts.
Unreadable(kind) == [kind |-> kind]
Old(known) == [kind |-> "old", ids |-> known]
Data(known, noted, sources) ==
  [kind |-> "data", ids |-> known, failed |-> noted, source_names |-> sources]

-----------------------------------------------------------------------------
(* A run starts: configure.                                                *)
configure ==
  /\ pc = "off"
  /\ pc' = "load"
  /\ names' \in CmdLines
  /\ loopOnFailed' \in BOOLEAN
  /\ nextId' = 1
  /\ ids' = None
  /\ tests' = None
  /\ failed' = <<>>
  /\ source_names' = {}
  /\ collecting' = TRUE
  /\ problematic' = {}
  /\ plan' = <<>>
  /\ passed' = TRUE
  /\ executed' = [t \in Tests |-> 0]
  /\ rerun' = FALSE
  /\ fell' = {}
  /\ UNCHANGED <<file, seen>>

\* What the loader makes of a name the plugin hands on.
Loads(n) == CASE n[1] = "source" -> Contents[n[2]]
              [] n[1] = "test" -> <<n[2]>>
              [] n[1] = "id" -> <<NoTest>>

\* The name of the test an id stands for, any other name as it is.
tr(n, known) == IF n[1] = "id" /\ n[2] \in DOMAIN known THEN TestName(known[n[2]]) ELSE n

\* What is read from the file: nothing when it is missing or foreign.
Read ==
  CASE file.kind = "data" -> file
    [] file.kind = "old" -> Data(file.ids, <<>>, ToSet(names))
    [] OTHER -> Data(None, <<>>, {})

\* Mutant of NewId: the first free id is the number of ids, as if they began at 0.
CountIds(known) == Cardinality(DOMAIN known)
NewId(known) == IF known = None THEN 1 ELSE Max(DOMAIN known) + 1

\* Mutant of Looping: --failed also replaces the names when nothing has failed.
AlwaysLoops(noted) == loopOnFailed
Looping(noted) == loopOnFailed /\ noted # <<>>

\* Mutant of FailedBefore: the noted failures are kept while they are run again.
KeepFailed(noted) == noted
\* The failures a run starts with: those noted, unless it runs them again.
FailedBefore(noted) == IF Looping(noted) THEN <<>> ELSE noted

\* The elements of s that are in T, in their order.
Among(s, T) == FlattenSeq([k \in DOMAIN s |-> IF s[k] \in T THEN <<s[k]>> ELSE <<>>])

\* The names asked for: the noted failures or those of the command line.
Asked(data) ==
  IF Looping(data.failed) THEN [k \in DOMAIN data.failed |-> IdName(data.failed[k])] ELSE names

translated(data) ==
  LET numbers == Among(Asked(data), {n \in ToSet(Asked(data)) : tr(n, data.ids) # n})
  IN [k \in DOMAIN numbers |-> tr(numbers[k], data.ids)]
new_source(data) == {n \in ToSet(Asked(data)) : tr(n, data.ids) = n}
really_new(data) == Among(Asked(data), new_source(data) \ data.source_names)

\* The names to load, ids translated.  Known names are left out as soon as there
\* is an id or a new name.
NamesToLoad(data) ==
  LET wanted == translated(data) \o really_new(data)
  IN IF wanted = <<>> THEN Asked(data) ELSE wanted

\* A damaged file raises EOFError, UnpicklingError or whatever its first bytes
\* lead to, which nobody catches: the run ends.
loadFails ==
  /\ pc = "load"
  /\ file.kind = "damaged"
  /\ pc' = "off"
  /\ UNCHANGED <<file, memory, progress, seen>>

loadTestsFromNames ==
  /\ pc = "load"
  /\ file.kind # "damaged"
  /\ LET data == Read
         load == NamesToLoad(data)
     IN /\ ids' = data.ids
        /\ tests' = AntiFunction(data.ids)
        /\ nextId' = NewId(data.ids)
        /\ failed' = FailedBefore(data.failed)
        /\ source_names' = data.source_names \cup new_source(data)
        /\ collecting' = (~Looping(data.failed) /\ new_source(data) # {})
        /\ rerun' = Looping(data.failed)
        /\ plan' = FlattenSeq([k \in DOMAIN load |-> Loads(load[k])])
  /\ pc' = "run"
  /\ UNCHANGED <<file, names, loopOnFailed, problematic, passed, executed, fell, seen>>

-----------------------------------------------------------------------------
(* A test: startTest, the test itself, afterTest.  Test.address names only *)
(* the methods of a unittest.TestCase; any other test it runs (case.py:93) *)
(* and returns the result, which _safe_address takes for no address.       *)
HasAddress(t) == t \in Methods

startTest(t) ==
  IF HasAddress(t) /\ t \notin DOMAIN tests
    THEN /\ tests' = Joined(tests, [u \in {t} |-> nextId])
         /\ nextId' = nextId + 1
         /\ UNCHANGED problematic
    ELSE /\ problematic' = IF HasAddress(t) THEN problematic ELSE problematic \cup {t}
         /\ UNCHANGED <<tests, nextId>>

\* How often the code of t runs: in startTest and afterTest for its address, and as a test.
Executions(t, outcome) ==
  IF HasAddress(t) THEN 1
  ELSE 1 + (IF t \in problematic THEN 0 ELSE 1) + (IF outcome = "fail" THEN 1 ELSE 0)

afterTest(t, outcome) ==
  failed' = IF /\ outcome = "fail"
               /\ HasAddress(t)
               /\ tests'[t] \notin ToSet(failed)
            THEN Append(failed, tests'[t]) ELSE failed

\* With ctrl-c the test is over but has not failed, and no other is run.
RunTest(outcome) ==
  /\ pc = "run"
  /\ plan # <<>>
  /\ LET t == Head(plan)
     IN /\ t = NoTest => outcome = "fail"
        /\ startTest(t)
        /\ afterTest(t, outcome)
        /\ executed' = IF t = NoTest THEN executed
                       ELSE [executed EXCEPT ![t] = @ + Executions(t, outcome)]
  /\ plan' = IF outcome = "interrupt" THEN <<>> ELSE Tail(plan)
  /\ passed' = (passed /\ outcome # "fail")
  /\ fell' = IF outcome = "fail" /\ HasAddress(Head(plan)) THEN fell \cup {Head(plan)} ELSE fell
  /\ UNCHANGED <<file, pc, names, loopOnFailed, ids, source_names, collecting, rerun, seen>>

-----------------------------------------------------------------------------
\* finalize: opening the file for writing truncates it ...
finalizeOpen ==
  /\ pc = "run"
  /\ plan = <<>>
  /\ pc' = "save"
  /\ file' = Unreadable("damaged")
  /\ failed' = IF passed THEN <<>> ELSE failed
  /\ UNCHANGED <<names, loopOnFailed, ids, tests, nextId, source_names, collecting, problematic,
                 progress, seen>>

\* The ids of a run over translated ids only are those it has loaded.
SavedIds == IF collecting THEN IdsOf(tests) ELSE ids

\* ... and the dump fills it.
finalizeDump ==
  /\ pc = "save"
  /\ pc' = "off"
  /\ file' = Data(SavedIds, failed, source_names)
  /\ shown' = Joined(shown, IdsOf(tests))
  /\ broken' = fell
  /\ looped' = rerun
  /\ UNCHANGED <<memory, progress>>

Kill ==
  /\ pc # "off"
  /\ pc' = "off"
  /\ UNCHANGED <<file, memory, progress, seen>>

\* The user removes the file between two runs.
RemoveFile ==
  /\ pc = "off"
  /\ file.kind # "absent"
  /\ file' = Unreadable("absent")
  /\ shown' = None
  /\ broken' = {}
  /\ looped' = FALSE
  /\ UNCHANGED <<pc, memory, progress>>

Init ==
  /\ file \in {Unreadable(kind) : kind \in {"absent", "foreign", "damaged"}} \cup {Old(<<t>>) : t \in Methods}
  /\ pc = "off"
  /\ names = <<>> /\ loopOnFailed = FALSE
  /\ ids = None /\ tests = None /\ nextId = 1 /\ failed = <<>>
  /\ source_names = {} /\ collecting = TRUE /\ problematic = {}
  /\ plan = <<>> /\ passed = TRUE
  /\ executed = [t \in Tests |-> 0]
  /\ rerun = FALSE /\ fell = {}
  /\ shown = (IF file.kind = "old" THEN file.ids ELSE None)
  /\ broken = {} /\ looped = FALSE

Next ==
  \/ configure
  \/ loadFails
  \/ loadTestsFromNames
  \/ \E outcome \in {"pass", "fail", "interrupt"} : RunTest(outcome)
  \/ finalizeOpen
  \/ finalizeDump
  \/ Kill
  \/ RemoveFile

Spec == Init /\ [][Next]_vars

-----------------------------------------------------------------------------
(* Properties.                                                             *)

Names == UNION {ToSet(c) : c \in CmdLines}

\* Type correctness of the file and of the plugin.
TypeOK ==
  /\ file.kind = "data" =>
       /\ Range(file.ids) \subseteq Methods
       /\ ToSet(file.failed) \subseteq DOMAIN file.ids
       /\ file.source_names \subseteq Names
  /\ pc \in {"off", "load", "run", "save"}
  /\ Range(ids) \subseteq Methods
  /\ DOMAIN tests \subseteq Methods
  /\ nextId \in 1 .. Cardinality(Methods) + 1
  /\ ToSet(plan) \subseteq Tests \cup {NoTest}
  /\ problematic \subseteq Tests \cup {NoTest}
  /\ collecting \in BOOLEAN /\ loopOnFailed \in BOOLEAN /\ passed \in BOOLEAN

\* An id that was printed by a run that came to its end names the same test
\* in the file for good, and no test has two (testid.py, finalize: "save new ids").
IdsKept ==
  /\ TypeOK
  /\ file.kind = "data" =>
       /\ \A i \in DOMAIN shown : i \in DOMAIN file.ids /\ file.ids[i] = shown[i]
       /\ IsInjective(file.ids)

\* The tests whose failure the file notes.
Noted == IF file.kind = "data" THEN {file.ids[i] : i \in ToSet(file.failed)} ELSE {}

\* The file notes every test with an address that failed in the last run that
\* wrote it; after a run with --failed over noted failures it notes no other
\* ("as you correct errors and tests pass, they'll drop out of subsequent runs").
FailuresNoted ==
  file.kind = "data" =>
    broken \subseteq Noted /\ (looped => Noted = broken)

\* A run with --failed runs the noted failures and nothing else, whatever is
\* on the command line ("subsequent test runs will then run only the tests
\* that failed last time"); when there are none it runs something all the same
\* ("when all tests pass, the full set will run on the next invocation").
RerunsNoted ==
  [][pc = "load" /\ pc' = "run" /\ loopOnFailed =>
       IF Noted # {} THEN ToSet(plan') = Noted ELSE plan' # <<>>]_vars

\* What functional_tests/test_withid_failures.rst shows: every test that a
\* run starts has an id, functions and modules that do not load among them.
EveryTestHasId == \A t \in Tests : executed[t] > 0 => t \in DOMAIN tests
=============================================================================
