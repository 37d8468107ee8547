------------------------------- MODULE Lists -------------------------------
(***************************************************************************)
(* Lists as the program makes them from others.                            *)
(***************************************************************************)
EXTENDS Integers, SequencesExt

\* [x for x in list if x in some]
Keep(list, some) ==
  LET upTo[i \in 0..Len(list)] ==
        IF i = 0 THEN <<>>
        ELSE IF list[i] \in some THEN Append(upTo[i - 1], list[i]) ELSE upTo[i - 1]
  IN upTo[Len(list)]

=============================================================================
