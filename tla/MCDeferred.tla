----------------------------- MODULE MCDeferred -----------------------------
(***************************************************************************)
(* Small instance of Deferred: two tests, with and without a timeout, with *)
(* raises on either side of deferred, timed, and fixtures in all places.   *)
(***************************************************************************)
EXTENDS Deferred

D(timeout) == [kind |-> "deferred", timeout |-> timeout]
Fixture(name) == [kind |-> "with_setup", name |-> name]
Raises == [kind |-> "raises"]
Timed == [kind |-> "timed"]

MyStacks == {
  <<D(FALSE)>>,
  <<D(TRUE)>>,
  <<Fixture("a"), D(TRUE), Fixture("b"), Raises>>,
  <<Raises, D(TRUE)>>,
  <<Timed, D(FALSE), Fixture("a"), Raises, Timed, Fixture("b")>>}
=============================================================================
