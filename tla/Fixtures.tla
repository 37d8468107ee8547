------------------------------ MODULE Fixtures ------------------------------
(***************************************************************************)
(* What nose promises of the fixtures of packages, modules and classes:    *)
(* each is set up at most once in a run and torn down at most once after   *)
(* that, and a test runs while all the fixtures around it are up.          *)
(***************************************************************************)
CONSTANTS Contexts, Tests

VARIABLES
  fixture,  \* what has become of the fixture of each context
  ran,      \* tests that have been run
  needs     \* needs[t]: the contexts around test t

fixtureVars == <<fixture, ran, needs>>

States == {"down", "up", "failed", "torn"}

Init ==
  /\ fixture = [c \in Contexts |-> "down"]
  /\ ran = {}
  /\ needs \in [Tests -> SUBSET Contexts]

SetUp(c) ==
  /\ fixture[c] = "down"
  /\ \E s \in {"up", "failed"} : fixture' = [fixture EXCEPT ![c] = s]
  /\ UNCHANGED <<ran, needs>>

TearDown(c) ==
  /\ fixture[c] = "up"
  /\ fixture' = [fixture EXCEPT ![c] = "torn"]
  /\ UNCHANGED <<ran, needs>>

Run(t) ==
  /\ t \notin ran
  /\ \A c \in needs[t] : fixture[c] = "up"
  /\ ran' = ran \cup {t}
  /\ UNCHANGED <<fixture, needs>>

Next == \/ \E c \in Contexts : SetUp(c) \/ TearDown(c)
        \/ \E t \in Tests : Run(t)

Spec == Init /\ [][Next]_fixtureVars
=============================================================================
