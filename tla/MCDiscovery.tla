---------------------------- MODULE MCDiscovery ----------------------------
(***************************************************************************)
(* A small file system: two directories, in each a test module t and a     *)
(* package q of one name, the first with a test directory below, and       *)
(* command lines of one or two overlapping names.                          *)
(***************************************************************************)
EXTENDS Discovery

MyNodes == {"/", "A", "A/t", "A/q", "A/q/t", "A/q/u", "A/test", "A/test/t", "A/n", "B", "B/t", "B/q", "B/q/t", "B/q/z"}
MyKind == [n \in MyNodes |->
  CASE n \in {"/", "A", "B", "A/test"} -> "dir"
    [] n \in {"A/q", "B/q"} -> "package"
    [] n = "A/n" -> "file"
    [] OTHER -> "module"]
MyNameOf == [n \in MyNodes |->
  CASE n \in {"A/t", "A/q/t", "A/test/t", "B/t", "B/q/t"} -> "t"
    [] n \in {"A/q", "B/q"} -> "q"
    [] n \in {"A/q/u", "A/test"} -> "test"
    [] OTHER -> n]
MyEntries == [n \in MyNodes |->
  CASE n = "/" -> <<"A", "B">>
    [] n = "A" -> <<"A/n", "A/q", "A/t", "A/test">>
    [] n = "A/q" -> <<"A/q/t", "A/q/u">>
    [] n = "A/test" -> <<"A/test/t">>
    [] n = "B" -> <<"B/q", "B/t">>
    [] n = "B/q" -> <<"B/q/t", "B/q/z">>
    [] OTHER -> <<>>]
MyTestLike == {n \in MyNodes : MyNameOf[n] \in {"t", "test"}}

Named == {"A", "B", "A/test", "A/t", "B/t", "A/q", "A/q/u", "B/q/t", "A/n"}
MyCommand == {<<m>> : m \in Named} \cup {<<m, n>> : m \in Named \ {"A/n", "A/q/u"}, n \in Named \ {"B/t", "A/q"}}
=============================================================================
