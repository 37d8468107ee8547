------------------------------ MODULE MCTestId ------------------------------
(***************************************************************************)
(* Small instances of TestId: two methods and a function in two modules,   *)
(* and command lines that name modules, tests and ids, two at a time.      *)
(***************************************************************************)
EXTENDS TestId

CONSTANTS m1, m2, f

MyContents == [a |-> <<m1, f>>, b |-> <<m2>>]

MyNames == {SourceName("a"), SourceName("b"), TestName(m2), IdName(1), IdName(2)}
MyCmdLines == {<<n>> : n \in MyNames} \cup {<<SourceName("b"), SourceName("a")>>,
                <<IdName(2), SourceName("a")>>, <<IdName(1), IdName(2)>>}
=============================================================================
