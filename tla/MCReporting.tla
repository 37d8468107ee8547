---------------------------- MODULE MCReporting ----------------------------
(***************************************************************************)
(* Small instance of Reporting: two tests and two contexts, any of which   *)
(* may be around the tests or between them, and any set of plugins, with   *)
(* "watch" before capture, between capture and xunit, or last.             *)
(***************************************************************************)
EXTENDS Reporting

MyPluginSets ==
  {{"logcapture"} \cup s : s \in SUBSET {"capture", "xunit", "errorclass", "watch"}}
MyScores == {2000, 1550, 100}
Alike == Permutations(Tests) \cup Permutations(Contexts)
=============================================================================
