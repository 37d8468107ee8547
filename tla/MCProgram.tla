----------------------------- MODULE MCProgram -----------------------------
(***************************************************************************)
(* Instances of Program: every option with every way of setting it, and    *)
(* a choice of plugin lists and switches.                                  *)
(***************************************************************************)
EXTENDS Program

Other(name, score, opts, hooks, answers) ==
  [name |-> name, score |-> score, opts |-> opts, hooks |-> hooks, answers |-> answers]

MCOthers ==
  "mine" :> Other("mine", 150, {"with-mine"}, {"begin", "report", "finalize"}, {}) @@
  "yours" :> Other("mine", 90, {"with-mine"}, {"begin", "prepareTest"}, {"prepareTest"}) @@
  "skip2" :> Other("skip", 1000, {"with-skip"}, {"begin", "finalize"}, {}) @@
  "clash" :> Other("clash", 300, {"with-clash", "stop"}, {"begin", "finalize"}, {}) @@
  "silent" :> Other("silent", 1700, {"with-silent", "nocapture"}, {"report", "finalize"},
                    {"report", "finalize"})

AllOptions == CoreOptions \cup UNION {Builtins[p].opts : p \in DOMAIN Builtins}

Command(opt, sets, exists, argv) ==
  [opt |-> opt, sets |-> sets, exists |-> exists, argv |-> argv, way |-> "main",
   ignore |-> FALSE, off |-> FALSE, loggers |-> Root :> Logger(TRUE, <<>>), debug |-> {},
   making |-> {}, filters |-> {}, tests |-> 0, names |-> <<"named">>, on |-> {},
   plugins |-> <<>>, extra |-> <<>>, entries |-> <<>>, instantiate |-> <<>>]

\* Every option in every combination of places.
Places1 == {p \in (SUBSET {"env", "noserc", "nosecfg", "setup", "cfile"}) \X (SUBSET {"setup", "cfile"}) :
             p[1] \cap {"setup", "cfile"} \subseteq p[2]}
ByPlace ==
  {Command(o, p[1], p[2], n) : o \in AllOptions, p \in Places1, n \in 0..1}
  \cup {Command(o, p[1], p[2], 2) : o \in {a \in AllOptions : Accumulates(a)}, p \in Places1}

\* The collector and NOSE_IGNORE_CONFIG_FILES, for all options in few places,
\* and setup.py nosetests.
Elsewhere ==
  {[Command(o, s, {"setup"}, 0) EXCEPT !.way = w, !.ignore = i] :
     o \in AllOptions, s \in {{"env"}, {"setup"}, {"env", "noserc"}}, w \in {"main", "collector"},
     i \in BOOLEAN}
  \cup {[Command(o, p[1], p[2], n) EXCEPT !.way = "command", !.names = <<>>, !.off = b] :
     o \in {a \in AllOptions : a.name \notin option_blacklist}, n \in {0, 2}, b \in BOOLEAN,
     p \in {q \in Places1 : /\ "setup" \in q[2]
                            /\ "env" \in q[1] <=> "noserc" \in q[1] /\ "nosecfg" \notin q[1]}}

\* Switches together, with other plugins.
Entry(ep, plugin, loads) == [ep |-> ep, plugin |-> plugin, loads |-> loads]
Verbosity == CHOOSE o \in CoreOptions : o.name = "verbosity"
Combined ==
  {[Command(Verbosity, {}, {}, 0) EXCEPT !.on = on, !.extra = x, !.entries = e, !.instantiate = t,
                                        !.plugins = l] :
     on \in {{"enable_coverage", "cover_min_percentage", "enable_id", "enable_mine",
              "enable_silent"},
             {"enable_profile", "enable_id", "enable_coverage", "enable_mine"},
             {"enable_xunit", "failed", "collect_only", "enable_skip", "enable_silent"},
             {"multiprocess_workers", "enable_xunit", "enable_clash", "enable_mine", "enable_skip"},
             {"multiprocess_workers", "enable_mine", "attr", "capture", "enable_coverage"},
             {"multiprocess_workers", "detailedErrors", "debugBoth", "loggingConfig", "noSkip"},
             {"version", "enable_profile"}, {"showPlugins"}},
     x \in {<<>>, <<"mine">>, <<"yours", "clash">>, <<"skip2">>, <<"mine", "yours">>, <<"silent">>},
     e \in {<<>>, <<Entry("a", "mine", TRUE), Entry("a", "yours", TRUE)>>,
            <<Entry("a", "mine", FALSE), Entry("a", "yours", TRUE)>>,
            <<Entry("b", "clash", TRUE), Entry("a", "yours", TRUE)>>,
            <<Entry("a", "skip2", TRUE)>>},
     t \in {<<>>, <<"mine">>},
     l \in {<<>>, <<"skip", "multiprocess", "capture", "mine">>, <<"silent", "xunit", "capture">>}}

\* Two tests that change the loggers they find.
Lib == <<"lib">>
Trees ==
  {Root :> Logger(TRUE, root) @@ Lib :> Logger(p, lib) @@ <<"lib", "sub">> :> Logger(TRUE, <<>>) :
     root \in {<<>>, <<"other", "other", "other">>}, p \in BOOLEAN, lib \in {<<>>, <<"other">>}}
  \* What an earlier run has left.
  \cup {Root :> Logger(TRUE, <<"other", "old">>) @@ Lib :> Logger(p, <<"old">>)
         @@ Nose :> Logger(FALSE, <<"stream", "old">>) : p \in BOOLEAN}
Loggings ==
  {[Command(Verbosity, {}, {}, 0) EXCEPT !.loggers = t, !.debug = d, !.filters = f, !.on = on,
                                        !.making = {<<"lib", "new">>}, !.tests = 2] :
     t \in Trees, d \in {{}, {Lib, <<"nose", "core">>}},
     f \in {{Filter(TRUE, Nose)}, {Filter(FALSE, Lib), Filter(TRUE, <<"lib", "sub">>)}},
     on \in {{}, {"logcapture_clear"}, {"logcapture", "debugLog"}}}

\* A project whose setup.cfg sets "plugins", under a foreign runner.
PluginsOption == CHOOSE o \in CoreOptions : o.name = "plugins"
Unlisted ==
  {[Command(PluginsOption, {"setup"}, {"setup"}, 0) EXCEPT !.way = "collector", !.loggers = t,
                                        !.entries = e, !.tests = 1] :
     t \in Trees, e \in {<<>>, <<Entry("b", "clash", TRUE), Entry("a", "skip2", TRUE)>>}}

ASSUME MCOwnOptions == OwnOptions
ASSUME MCOptionsApart == OptionsApart

MCCommands == ByPlace \cup Elsewhere \cup Combined \cup Loggings \cup Unlisted

=============================================================================
