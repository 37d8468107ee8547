----------------------------- MODULE MCLoading -----------------------------
(***************************************************************************)
(* A module with a few functions, generators, plain classes and test cases *)
(* of its own and some imported from another module, in five places of a   *)
(* small file system.  One aspect of the options, the fixtures, the place  *)
(* and the spelling of the name is varied at a time.                       *)
(***************************************************************************)
EXTENDS Loading

Slow == [true |-> TRUE, texts |-> {"true"}]
Fast == [true |-> TRUE, texts |-> {"fast", "smoke"}]
No == [true |-> FALSE, texts |-> {"false"}]
None == <<>>

Thing(kind, name) ==
  [kind |-> kind, name |-> name, home |-> "M", declared |-> "none", tags |-> None,
   doc |-> FALSE, line |-> 0, members |-> None, yields |-> <<>>]
Class(kind, name, members) == [Thing(kind, name) EXCEPT !.members = [m \in members |-> m]]
Yield(what, to) == [what |-> what, to |-> to]

MyObj ==
  [o \in {"test_f", "test_h", "test_m", "test_x"} |-> Thing("function", o)]
  @@ ("helper" :> [Thing("function", "helper") EXCEPT !.tags = [k \in {"slow"} |-> Slow], !.doc = TRUE, !.line = 1])
  @@ ("check" :> [Thing("function", "check") EXCEPT !.declared = "yes", !.tags = [k \in {"speed"} |-> Fast], !.line = 3])
  @@ ("test_no" :> [Thing("function", "test_no") EXCEPT !.declared = "no"])
  @@ ("_test" :> Thing("function", "_test"))
  @@ ("test_d" :> [Thing("function", "test_d") EXCEPT !.doc = TRUE])
  @@ ("test_g" :> [Thing("generator", "test_g") EXCEPT !.line = 2, !.yields =
                    <<Yield("callable", "helper"), Yield("name", "test_f"), Yield("raise", ""), Yield("callable", "check")>>])
  @@ ("test_y" :> [Thing("generator", "test_y") EXCEPT !.tags = [k \in {"slow"} |-> Slow], !.yields =
                    <<Yield("name", "test_m"), Yield("callable", "helper")>>])
  @@ ("TestC" :> [Class("class", "TestC", {"test_m", "test_y", "_test", "value"}) EXCEPT !.tags = [k \in {"speed", "slow"} |-> IF k = "slow" THEN No ELSE Fast]])
  @@ ("Case" :> Class("case", "Case", {"test_x", "test_h", "runTest"}))
  @@ ("One" :> Class("case", "One", {"test_slow", "runTest"}))
  @@ ("TestI" :> [Class("class", "TestI", {"test_m", "test_h"}) EXCEPT !.home = "L"])
  @@ ("CaseI" :> [Class("case", "CaseI", {"test_x"}) EXCEPT !.home = "L", !.doc = TRUE])
  @@ ("runTest" :> Thing("function", "runTest"))
  @@ ("test_slow" :> [Thing("function", "test_slow") EXCEPT !.tags = [k \in {"slow"} |-> Slow]])
  @@ ("value" :> Thing("other", "value"))
MyOrder == <<"Case", "CaseI", "One", "TestC", "TestI", "_test", "check", "helper", "runTest", "test_d", "test_f",
             "test_g", "test_h", "test_m", "test_no", "test_slow", "test_x", "test_y", "value">>
MyMatching == {n \in DOMAIN MyObj : n \notin {"Case", "CaseI", "One", "check", "helper", "runTest", "value"}} \cup {"test", "tests"}
MyIncluded == {"helper", "plain"}
MyExcluded == {"test_f", "TestC", "test_x"}
MyKnown == {"helper", "test_h", "Case", "test"}

Contents == {{"test_f", "helper", "check", "test_no", "_test", "value"}, {"test_g", "test_f"}, {"test_g"},
             {"TestC"}, {"TestC", "Case"}, {"Case", "One"}, {"TestI", "CaseI"}, {"TestC", "helper"},
             {"test_d", "helper", "One"}, {"TestI", "test_slow"}}
MyNamespaces == {[n \in c |-> n] : c \in Contents}

-----------------------------------------------------------------------------

W == <<"/", "w">>
In(d, file) == d \o <<"/", file, ".", "py">>
Q == W \o <<"/", "q">>
X == <<"/", "a", ":", "b">>
MyFiles == {In(W, "test"), In(W, "plain"), InitOf(Q), In(Q, "test"), In(X, "test"), W \o <<"/", "test", ".", "txt">>}
MyDirs == {W, Q, X}

At(file, module, name) ==
  [file |-> file, module |-> module, name |-> name, dir |-> W, inner |-> [name |-> "tests", package |-> FALSE],
   declared |-> "none", py |-> TRUE, ignored |-> FALSE, executable |-> FALSE, extension |-> FALSE, examples |-> FALSE,
   fixtures |-> FALSE, shared |-> FALSE, canSplit |-> FALSE, notSafe |-> FALSE]
Usual == At(In(W, "test"), <<"test">>, "test")
Fixtured == {[Usual EXCEPT !.fixtures = TRUE, !.shared = s, !.canSplit = c] : s \in BOOLEAN, c \in BOOLEAN}
Places == {At(In(W, "plain"), <<"plain">>, "plain"), At(InitOf(Q), <<"q">>, "q"), At(In(Q, "test"), <<"q", ".", "test">>, "test"),
           At(In(X, "test"), <<"test">>, "test")}
Text == [At(W \o <<"/", "test", ".", "txt">>, <<>>, "test") EXCEPT !.py = FALSE]
Odd == {[Usual EXCEPT !.declared = "no"], [Usual EXCEPT !.ignored = TRUE], [Usual EXCEPT !.executable = TRUE],
        [Usual EXCEPT !.inner.name = "lib"], [Usual EXCEPT !.inner.name = "docs"],
        [Usual EXCEPT !.inner = [name |-> "docs", package |-> TRUE]],
        Text, [Text EXCEPT !.extension = TRUE, !.examples = TRUE], [Text EXCEPT !.extension = TRUE]}

Default == [include |-> FALSE, exclude |-> FALSE, attribs |-> <<>>, other |-> "none", allModules |-> FALSE,
            coverInclusive |-> FALSE, doctests |-> FALSE, doctestExtension |-> FALSE, doctest_tests |-> FALSE, includeExe |-> FALSE]
Is(kind, key) == [kind |-> kind, key |-> key]
Attribs == {<<<<Is("true", "slow")>>>>, <<<<Is("false", "slow")>>>>,
            <<<<Is("true", "slow")>>, <<[kind |-> "text", key |-> "speed", text |-> "fast"], Is("false", "slow")>>>>,
            <<<<[kind |-> "text", key |-> "slow", text |-> "false"]>>>>,
            <<<<[kind |-> "eval", key |-> "", keys |-> {"slow", "speed"}]>>>>}
Choosing == {[Default EXCEPT !.attribs = a] : a \in Attribs}
            \cup {[Default EXCEPT !.include = i, !.exclude = e] : i \in BOOLEAN, e \in BOOLEAN}
            \cup {[Default EXCEPT !.other = o, !.attribs = a] : o \in {"yes", "no"}, a \in {<<>>, <<<<Is("true", "slow")>>>>}}
Searching == {Default, [Default EXCEPT !.allModules = TRUE], [Default EXCEPT !.coverInclusive = TRUE], [Default EXCEPT !.includeExe = TRUE],
              [Default EXCEPT !.exclude = TRUE], [Default EXCEPT !.other = "yes"]}
             \cup {[Default EXCEPT !.doctests = TRUE, !.doctestExtension = x, !.doctest_tests = t, !.include = i] :
                     x \in BOOLEAN, t \in BOOLEAN, i \in BOOLEAN}

Bare == [fixtures |-> FALSE, shared |-> FALSE, canSplit |-> FALSE]
Flagged == {Bare} \cup [fixtures : {TRUE}, shared : BOOLEAN, canSplit : BOOLEAN]

-----------------------------------------------------------------------------

\* The spellings of a module on the command line.
Spellings(m) == {m.file} \cup (IF m.module = <<>> \/ m.file = In(X, "test") THEN {} ELSE {m.module})
                \cup (IF IsPrefix(W, m.file) THEN {SubSeq(m.file, Len(W) + 2, Len(m.file))} ELSE {})
                \cup (IF m.module = <<"q">> THEN {Q} ELSE {})
Command(name, call, discover) == [name |-> name, call |-> call, discover |-> discover]
Spelt(n, call) == Command(IF call = <<>> THEN n ELSE n \o <<":">> \o Joined([i \in DOMAIN call |-> <<call[i]>>], "."), call, FALSE)
Calls(names) == {<<>>, <<"missing">>} \cup {<<n>> : n \in DOMAIN names}
                \cup UNION {{<<n, m>> : m \in DOMAIN MyObj[n].members} : n \in DOMAIN names}

Input(modes, confs, mods, namespaces, flags, cwds, Asked(_, _)) ==
  UNION {[mode : modes, conf : confs, mod : {m}, ns : {n}, classes : flags, command : Asked(m, n), cwd : cwds] :
           m \in mods, n \in namespaces}

ByFile(m, n) == {Spelt(m.file, <<>>)}
Everything(m, n) == {Spelt(m.file, c) : c \in Calls(n)}
Spelled(m, n) == {Spelt(s, c) : s \in Spellings(m), c \in {<<>>, <<"TestC">>, <<"TestC", "test_m">>}}
Searched(m, n) == {Spelt(m.file, <<>>), Command(W, <<>>, TRUE)}

MyInputs ==
  Input({"serial", "collect"}, Choosing, {Usual}, MyNamespaces, {Bare}, {W}, ByFile)
  \cup Input({"processes"}, Choosing, {Usual}, MyNamespaces, {Bare, [Bare EXCEPT !.fixtures = TRUE]}, {W}, ByFile)
  \cup Input({"serial", "collect"}, Searching, {Usual} \cup Places \cup Odd, MyNamespaces, {Bare}, {W}, Searched)
  \cup Input({"serial", "processes"}, {Default}, {Usual} \cup Fixtured \cup {[Usual EXCEPT !.notSafe = TRUE]}, MyNamespaces, Flagged, {W}, Everything)
  \cup Input({"processes"}, {Default}, Places, MyNamespaces, {Bare, [Bare EXCEPT !.fixtures = TRUE]}, {W, Q}, Spelled)
  \cup Input({"processes"}, {Default, [Default EXCEPT !.doctests = TRUE, !.doctestExtension = TRUE]},
             Places \cup {Usual, Text, [Text EXCEPT !.extension = TRUE, !.examples = TRUE]}, MyNamespaces, {Bare}, {W}, ByFile)
=============================================================================
