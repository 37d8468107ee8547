--------------------------- MODULE MCMultiProcess ---------------------------
(***************************************************************************)
(* Small instances of MultiProcess: two or three addresses, one of them a  *)
(* suite of two tests, and one or two worker slots.                        *)
(***************************************************************************)
EXTENDS MultiProcess, TLC

CONSTANTS a, b, c

\* The suite at address a has two tests, every other address one.
SizeOf == [t \in Tasks |-> IF t = a THEN 2 ELSE 1]

\* The addresses of one test can be exchanged where none of them is slow.
Alike == Permutations({b, c})
=============================================================================
