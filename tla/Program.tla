------------------------------ MODULE Program ------------------------------
(***************************************************************************)
(* One start of nose, from the command line to the exit status: plugins    *)
(* are loaded, register their options, are configured with the values      *)
(* found and sorted; from then on every step of the program is a call to   *)
(* the enabled plugins that implement it.  TestProgram runs the tests      *)
(* itself, the collector hands a suite to a foreign runner.  Workers of    *)
(* the multiprocess plugin build their list of plugins anew.  What happens *)
(* in the loader, the suites and the workers is in other modules.          *)
(***************************************************************************)
EXTENDS Options, Logging

CONSTANTS
  Commands,  \* what the program may be started with, see Init
  Others,    \* the plugins that are not built in: a function to their records
  NoValue

VARIABLES
  cmd,
  pc,            \* the step the program is at
  \* the manager
  plugins,       \* _plugins, in order
  extraplugins,  \* _extraplugins
  excluded,      \* plugins a RestrictedPluginManager has left out
  registered,    \* names of the options the parser knows
  canConfigure,  \* plugins all of whose options are registered
  proxies,       \* hook -> the plugins its proxy calls
  \* the options
  default,       \* the parser's default for cmd.opt
  value,         \* its value, NoValue before the first parse
  names,         \* the tests to run
  \* the outside
  loggers,       \* the tree of loggers, see Logging
  tested,        \* tests that have run and changed it
  tracing,       \* coverage is being measured
  tempFile,      \* the profiler has a temporary file
  workers,       \* the enabled plugins of a worker process
  passed,        \* have all tests passed?
  status,        \* exit status, NoValue while running
  calls          \* calls of hooks made, in order

manager == <<plugins, extraplugins, excluded, registered, canConfigure>>
options == <<default, value, names>>
logging == <<loggers, tested>>
resources == <<tracing, tempFile>>
vars == <<cmd, pc, manager, proxies, options, logging, resources, workers, passed, status, calls>>

-----------------------------------------------------------------------------
(* Plugins: name, score, the options they register, and the hooks of a      *)
(* program they implement.                                                 *)

Plugin(name, score, opts, hooks) ==
  [name |-> name, score |-> score, opts |-> opts, hooks |-> hooks]

BuiltinOrder ==
  <<"attributeselector", "capture", "logcapture", "coverage", "pdb", "deprecated",
    "doctest", "isolation", "failuredetail", "profile", "skip", "id", "multiprocess",
    "xunit", "allmodules", "collect-only">>

Builtins ==
  [name \in ToSet(BuiltinOrder) |->
     CASE name = "attributeselector" -> Plugin(name, 100, AttributeSelector_options, {})
       [] name = "capture" -> Plugin(name, 1600, Capture_options, {"begin", "finalize"})
       [] name = "logcapture" -> Plugin(name, 500, LogCapture_options, {"begin"})
       [] name = "coverage" -> Plugin(name, 200, Coverage_options, {"report"})
       [] name = "pdb" -> Plugin(name, 5, Pdb_options, {})
       [] name = "deprecated" -> Plugin(name, 1000, Deprecated_options, {})
       [] name = "doctest" -> Plugin(name, 100, Doctest_options, {"prepareTestLoader"})
       [] name = "isolation" -> Plugin(name, 10, Plugin_options("isolation"),
                                       {"prepareTestLoader"})
       [] name = "failuredetail" -> Plugin(name, 1600, FailureDetail_options, {})
       [] name = "profile" -> Plugin(name, 100, Profile_options,
                                     {"begin", "prepareTest", "report", "finalize"})
       [] name = "skip" -> Plugin(name, 1000, Skip_options, {})
       [] name = "id" -> Plugin(name, 100, TestId_options, {"setOutputStream", "finalize"})
       [] name = "multiprocess" -> Plugin(name, 1000, MultiProcess_options,
                                          {"prepareTestLoader", "prepareTestRunner"})
       [] name = "xunit" -> Plugin(name, 1500, Xunit_options, {"report", "finalize"})
       [] name = "allmodules" -> Plugin(name, 100, AllModules_options, {})
       [] name = "collect-only" -> Plugin(name, 100, CollectOnly_options, {"prepareTestLoader"})]

Known == DOMAIN Builtins \cup DOMAIN Others

Record(p) == IF p \in DOMAIN Others THEN Others[p] ELSE Builtins[p]

OptionNames(p) ==
  IF p \in DOMAIN Others THEN Others[p].opts ELSE {o.name : o \in Builtins[p].opts}

\* Plugins that are not built in are objects of their own.  Which hooks they
\* answer is up to them.
ASSUME OthersAssumption ==
  /\ DOMAIN Others \cap DOMAIN Builtins = {}
  /\ \A p \in DOMAIN Others : Others[p].score \in Int

Ways == {"main", "collector", "command"}

\* What the program may be started with: lists of plugins, entry points, and the
\* loggers of the process, a tree with a root.
ASSUME CommandsAssumption ==
  \A c \in Commands :
    /\ c.way \in Ways
    /\ {c.plugins, c.extra, c.instantiate} \subseteq Seq(Known)
    /\ c.entries \in Seq([ep : STRING, plugin : Known, loads : BOOLEAN])
    /\ IsTree(c.loggers) /\ \A n \in c.debug \cup c.making : IsName(n)
    /\ \A f \in c.filters : f.out \in BOOLEAN

\* How the option is set.  setup.py has no option that nose would not take from a
\* file, so such a one cannot be on its command line.
ASSUME SettingsAssumption ==
  \A c \in Commands :
    /\ c.opt.env \in {"never", "named", "text", "list", "late"} /\ c.argv \in 0..2
    /\ c.way = "command" /\ c.opt.name \in option_blacklist => c.argv = 0

ASSUME StatusAssumption == NoValue \notin {0, 1, 2}

-----------------------------------------------------------------------------
(* The manager.                                                            *)

\* Mutant of addPlugin: the plugin that is there stays.
addPlugin_kept(list, p) ==
  IF \E i \in DOMAIN list : Record(list[i]).name = Record(p).name THEN list ELSE Append(list, p)

\* A plugin replaces the one of its name.
addPlugin(list, p) ==
  Append(Keep(list, {q \in Known : Record(q).name # Record(p).name}), p)

addPlugins(list, more) ==
  LET after[i \in 0..Len(more)] ==
        IF i = 0 THEN list ELSE addPlugin(after[i - 1], more[i])
  IN after[Len(more)]

\* The plugins of entry points that can be loaded: the first of a name counts,
\* also when loading it fails.
EntryPoints(entries) ==
  LET first(i) == \A j \in 1..(i - 1) : entries[j].ep # entries[i].ep
  IN FlattenSeq([i \in DOMAIN entries |->
       IF first(i) /\ entries[i].loads THEN <<entries[i].plugin>> ELSE <<>>])

\* A manager made for a list of plugins loads no others.
Loaded ==
  IF cmd.plugins # <<>>
  THEN addPlugins(plugins, extraplugins)
  ELSE addPlugins(addPlugins(addPlugins(plugins, BuiltinOrder),
                             EntryPoints(cmd.entries)),
                  extraplugins)

\* Mutant of setuptools_incompat: plugins that only report are not left out.
setuptools_incompat_but_report ==
  {"prepareTest", "prepareTestLoader", "prepareTestRunner", "setOutputStream"}

setuptools_incompat ==
  {"report", "prepareTest", "prepareTestLoader", "prepareTestRunner", "setOutputStream"}

Allowed ==
  {p \in Known : cmd.way = "collector" => Record(p).hooks \cap setuptools_incompat = {}}

\* Options are registered in the order of the plugins.  A plugin one of whose
\* options is taken cannot be configured; --with-<name> comes before the others
\* and stays registered.
Registered(list, taken) ==
  LET Register(acc, p) ==
        IF OptionNames(p) \cap acc.taken = {}
        THEN [taken |-> acc.taken \cup OptionNames(p), can |-> acc.can \cup {p}]
        ELSE [taken |-> acc.taken \cup (OptionNames(p) \cap {"with-" \o Record(p).name}),
              can |-> acc.can]
      after[i \in 0..Len(list)] ==
        IF i = 0 THEN [taken |-> taken, can |-> {}] ELSE Register(after[i - 1], list[i])
  IN after[Len(list)]

CoreNames == {o.name : o \in CoreOptions}

\* Mutant of sort: lowest score first.
sort_ascending(list) == SortSeq(list, LAMBDA p, q : Record(p).score < Record(q).score)

\* Highest score first, otherwise in the order they are in.
sort(list) ==
  LET Before(i, j) == \/ Record(list[i]).score > Record(list[j]).score
                      \/ Record(list[i]).score = Record(list[j]).score /\ i < j
      place(i) == Cardinality({j \in DOMAIN list : Before(j, i)}) + 1
  IN [k \in DOMAIN list |-> list[CHOOSE i \in DOMAIN list : place(i) = k]]

\* The plugins a call reaches.  A proxy is made at the first call and kept.
Proxy(hook) ==
  IF hook \in DOMAIN proxies THEN proxies[hook]
  ELSE Keep(plugins, {p \in Known : hook \in Record(p).hooks})

\* Does plugin p answer a call with something other than None?  The profiler
\* wraps the tests, the multiprocess plugin has a runner of its own.
Profile_prepareTest(p, hook) == p = "profile" /\ hook = "prepareTest"
MultiProcess_prepareTestRunner(p, hook) == p = "multiprocess" /\ hook = "prepareTestRunner"
Answers(p, hook) ==
  \/ Profile_prepareTest(p, hook)
  \/ MultiProcess_prepareTestRunner(p, hook)
  \/ p \in DOMAIN Others /\ hook \in Others[p].answers

\* A simple call goes on until a plugin answers.
Called(hook) ==
  LET list == Proxy(hook)
      first == SelectInSeq(list, LAMBDA p : Answers(p, hook))
  IN IF first = 0 THEN list ELSE SubSeq(list, 1, first)

\* The call of a hook that reaches the given plugins.
Call(hook, reached) ==
  /\ calls' = calls \o [i \in DOMAIN reached |-> <<hook, reached[i]>>]
  /\ proxies' = [h \in DOMAIN proxies \cup {hook} |-> Proxy(h)]

\* The dests of the options that are set: cmd.opt, and those of cmd.on.
SetOptions == cmd.on \cup (IF value = <<>> THEN {} ELSE {cmd.opt.dest})
IsSet(dest) == dest \in SetOptions

\* With --plugins the plugins are to be listed, not run.  The collector lists
\* nothing and runs the tests all the same.
Listed == cmd.way = "collector" /\ IsSet("showPlugins")

-----------------------------------------------------------------------------
(* configure() of the plugins: who is enabled by the options of which on   *)
(* has the dests.  can: the plugin can be configured.                      *)

Plugin_configure(p, on, can) == can /\ ("enable_" \o Record(p).name) \in on
AttributeSelector_configure(on) == {"attr", "eval_attr"} \cap on # {}
Capture_configure(on, can) == can /\ "capture" \notin on
LogCapture_configure(on, can) == can /\ {"logcapture", "loggingConfig"} \cap on = {}
Pdb_configure(on) == {"debugBoth", "debugFailures", "debugErrors"} \cap on # {}
Deprecated_configure(on, can) == can /\ "noDeprecated" \notin on
FailureDetail_configure(on, can) == can /\ "detailedErrors" \in on
Skip_configure(on, can) == can /\ "noSkip" \notin on
TestId_configure(on, can) == Plugin_configure("id", on, can) \/ "failed" \in on
MultiProcess_configure(on, worker) == ~worker /\ "multiprocess_workers" \in on
CollectOnly_configure(on, can) == can /\ "collect_only" \in on

\* Coverage is measured from the configuration on.
Coverage_configure(list) == Contains(list, "coverage")

\* The doctest plugin raises when its options are malformed, enabled or not.
Doctest_configure(malformed) == ~(malformed /\ Contains(plugins, "doctest"))

\* The profiler makes a temporary file unless it is given one, and removes it.
Profile_configure == ~IsSet("profile_stats_file")
Profile_begin == Contains(plugins, "profile") /\ Profile_configure
Profile_finalize == tempFile /\ ~Contains(Called("finalize"), "profile")

\* Does report() of p raise?  That of coverage exits when low, less than the
\* minimum was covered; that of the profiler always does.
Coverage_report(p, low) == p = "coverage" /\ low
Profile_report(p) == p = "profile"

\* Is p enabled after configure(), in the program or in a worker?
Enabled(p, on, can, worker) ==
  CASE p = "attributeselector" -> AttributeSelector_configure(on)
    [] p = "capture" -> Capture_configure(on, can)
    [] p = "logcapture" -> LogCapture_configure(on, can)
    [] p = "pdb" -> Pdb_configure(on)
    [] p = "deprecated" -> Deprecated_configure(on, can)
    [] p = "failuredetail" -> FailureDetail_configure(on, can)
    [] p = "skip" -> Skip_configure(on, can)
    [] p = "id" -> TestId_configure(on, can)
    [] p = "multiprocess" -> MultiProcess_configure(on, worker)
    [] p = "collect-only" -> CollectOnly_configure(on, can)
    [] OTHER -> Plugin_configure(p, on, can)

\* Configures the plugins of list and keeps the enabled ones, sorted.
Configured(list, can, worker) ==
  sort(Keep(list, {p \in Known : Enabled(p, SetOptions, p \in can, worker)}))

IsEnabled(p) == Contains(plugins, p)

-----------------------------------------------------------------------------
(* The steps.                                                              *)

Exit(code) == pc' = "exited" /\ status' = code

\* TestProgram.__init__ and makeConfig
MakeConfig ==
  /\ pc = "make"
  /\ plugins' = addPlugins(addPlugins(<<>>, cmd.plugins), cmd.extra)
  /\ extraplugins' = cmd.extra
  /\ pc' = "load"
  /\ UNCHANGED <<cmd, excluded, registered, canConfigure, proxies, options, logging, resources,
                 workers, passed, status, calls>>

\* The first getParser(): loads the plugins and registers their options.  The
\* list of allowed plugins replaces that of a restricted manager.
LoadPlugins ==
  /\ pc = "load"
  /\ \E list \in {Loaded} :
       /\ plugins' = Keep(list, Allowed)
       /\ excluded' = ToSet(list) \ Allowed
       /\ extraplugins' = IF cmd.way = "collector" THEN <<>> ELSE extraplugins
       /\ \E r \in {Registered(Keep(list, Allowed), CoreNames)} :
            /\ registered' = r.taken
            /\ canConfigure' = r.can
            /\ default' = IF cmd.opt.name \in r.taken THEN Default(cmd) ELSE <<>>
  /\ pc' = "parse"
  /\ UNCHANGED <<cmd, proxies, value, names, logging, resources, workers, passed, status, calls>>

\* Options of plugins that are left out may be in a file all the same.
ExcludedOption == \E p \in excluded : cmd.opt.name \in OptionNames(p)

\* One parse of the command line and the given files.
ParseFiles(files, next) ==
  IF cmd.opt.name \notin registered
  THEN IF Processed(cmd, files) = <<>> \/ ExcludedOption
       THEN value' = <<>> /\ pc' = next /\ UNCHANGED <<default, status>>
       ELSE Exit(2) /\ UNCHANGED <<default, value>>
  ELSE IF AppendsToText(cmd, default, files)
       THEN Exit(1) /\ UNCHANGED <<default, value>>
       ELSE /\ value' = Parsed(cmd, default, files)
            /\ default' = DefaultAfter(cmd, default, files)
            /\ pc' = next
            /\ UNCHANGED status

Parse ==
  /\ pc = "parse"
  /\ ParseFiles(getAllConfigFiles(cmd), "reparse")
  /\ UNCHANGED <<cmd, manager, proxies, names, logging, resources, workers, passed, calls>>

\* With -c, everything is parsed again, with the named files only.
Reparse ==
  /\ pc = "reparse"
  /\ IF NamesFiles(cmd, value)
     THEN ParseFiles(Given(cmd, "cfile"), "settle")
     ELSE pc' = "settle" /\ UNCHANGED <<default, value, status>>
  /\ UNCHANGED <<cmd, manager, proxies, names, logging, resources, workers, passed, calls>>

\* The rest of Config.configure before the plugins are.  What a logging
\* configuration of one's own sets up is not followed.  With --plugins they are not,
\* and no begin() is called.
Settle ==
  /\ pc = "settle"
  /\ value' = Late(cmd, value)
  /\ names' = testNames(cmd, value')
  /\ loggers' = IF IsSet("loggingConfig") THEN loggers
                ELSE configureLogging(loggers, IF IsSet("debugLog") THEN "file" ELSE "stream", cmd.debug)
  /\ pc' = IF ~IsSet("showPlugins") THEN "configure"
           ELSE IF Listed THEN "run" ELSE "loader"
  /\ UNCHANGED <<cmd, manager, proxies, default, tested, resources, workers, passed,
                 status, calls>>

\* PluginManager.configure; coverage starts here.  The assignment to plugins
\* forgets the extra plugins.
Configure ==
  /\ pc = "configure"
  /\ \E list \in {Configured(plugins, canConfigure, FALSE)},
        malformed \in {b \in BOOLEAN : b => IsSet("doctestOptions")} :
       /\ tracing' = Coverage_configure(list)
       /\ IF Doctest_configure(malformed)
          THEN plugins' = list /\ extraplugins' = <<>> /\ pc' = "begin" /\ UNCHANGED status
          ELSE Exit(1) /\ UNCHANGED <<plugins, extraplugins>>
  /\ UNCHANGED <<cmd, excluded, registered, canConfigure, proxies, options, logging, tempFile,
                 workers, passed, calls>>

LogHandlersSet == setupLoghandler(loggers, IsSet("logcapture_clear"))

Begin ==
  /\ pc = "begin"
  /\ Call("begin", Called("begin"))
  /\ tempFile' = Profile_begin
  /\ loggers' = IF Contains(Called("begin"), "logcapture") THEN LogHandlersSet ELSE loggers
  /\ pc' = IF cmd.way = "collector" THEN "run" ELSE "loader"
  /\ UNCHANGED <<cmd, manager, options, tested, tracing, workers, passed, status>>

\* --version and --plugins leave here, but not the collector, which does neither.
PrepareTestLoader ==
  /\ pc = "loader"
  /\ IF IsSet("version") \/ IsSet("showPlugins")
     THEN Exit(0) /\ UNCHANGED <<proxies, calls>>
     ELSE /\ Call("prepareTestLoader", Called("prepareTestLoader"))
          /\ pc' = "runner"
          /\ UNCHANGED status
  /\ UNCHANGED <<cmd, manager, options, logging, resources, workers, passed>>

\* Mutant of WorkerPlugins: Config.__setstate__ does not call addOptions.
WorkerPluginsUnregistered ==
  LET list == IF cmd.plugins # <<>> THEN <<>>
              ELSE addPlugins(BuiltinOrder, EntryPoints(cmd.entries))
      some == Configured(list, {}, TRUE)
  IN Configured(addPlugins(some, cmd.instantiate), {}, TRUE)

\* The plugins of a worker: a manager of the same class loads its own, with a
\* parser that has no other options; then those of _instantiate_plugins come.
WorkerPlugins ==
  LET list == IF cmd.plugins # <<>> THEN <<>>
              ELSE addPlugins(BuiltinOrder, EntryPoints(cmd.entries))
      can == Registered(list, {}).can
      some == Configured(list, can, TRUE)
  IN Configured(addPlugins(some, cmd.instantiate),
                can \cup Registered(cmd.instantiate, {}).can, TRUE)

\* The multiprocess plugin answers with its runner, which starts workers.
PrepareTestRunner ==
  /\ pc = "runner"
  /\ Call("prepareTestRunner", Called("prepareTestRunner"))
  /\ workers' = IF Contains(Called("prepareTestRunner"), "multiprocess")
                THEN WorkerPlugins ELSE <<>>
  /\ pc' = "prepare"
  /\ UNCHANGED <<cmd, manager, options, logging, resources, passed, status>>

PrepareTest ==
  /\ pc = "prepare"
  /\ Call("prepareTest", Called("prepareTest"))
  /\ pc' = "stream"
  /\ UNCHANGED <<cmd, manager, options, logging, resources, workers, passed, status>>

SetOutputStream ==
  /\ pc = "stream"
  /\ Call("setOutputStream", Called("setOutputStream"))
  /\ pc' = "run"
  /\ UNCHANGED <<cmd, manager, options, logging, resources, workers, passed, status>>

\* logcapture looks at the loggers again before every test ...
BeforeTest ==
  /\ pc = "run" /\ tested < cmd.tests
  /\ ~(Listed /\ IsEnabled("logcapture"))
  /\ loggers' = IF IsEnabled("logcapture") THEN LogHandlersSet ELSE loggers
  /\ pc' = "test"
  /\ UNCHANGED <<cmd, manager, proxies, options, tested, resources, workers, passed, status, calls>>

\* ... for a test, or what it imports, may make a logger, stop or resume its
\* propagation and give it handlers.  cmd.tests bounds how many are followed.
TestChangesLoggers ==
  /\ pc = "test"
  /\ tested' = tested + 1
  /\ \E n \in (DOMAIN loggers \cup cmd.making) \ {Root}, tree \in {getLogger(loggers, cmd.making)} :
       \/ loggers' = [tree EXCEPT ![n].propagate = ~@]
       \/ loggers' = [tree EXCEPT ![n] = addHandler(@, "other")]
  /\ pc' = "run"
  /\ UNCHANGED <<cmd, manager, proxies, options, resources, workers, passed, status, calls>>

\* Without begin() it has no handler: the first test is an error, after it has
\* taken old handlers off the root, and afterTest() raises out of the run.
BeforeTestUnbegun ==
  /\ pc = "run" /\ tested < cmd.tests
  /\ Listed /\ IsEnabled("logcapture")
  /\ loggers' = [loggers EXCEPT ![Root].handlers = WithoutMemory(@)]
  /\ passed' = FALSE
  /\ pc' = "finalize"
  /\ UNCHANGED <<cmd, manager, proxies, options, tested, resources, workers, status, calls>>

\* The tests run, to the end or to an interrupt, which changes nothing here.
RunTests ==
  /\ pc = "run"
  /\ passed' \in BOOLEAN
  /\ pc' = IF cmd.way = "collector" THEN "finalize" ELSE "report"
  /\ UNCHANGED <<cmd, manager, proxies, options, logging, resources, workers, status, calls>>

\* Whoever comes after a plugin whose report() raises is not called.
Report ==
  /\ pc = "report"
  /\ \E low \in {l \in BOOLEAN : l => IsSet("cover_min_percentage") /\ IsEnabled("coverage")},
        list \in {Called("report")} :
       LET fatal == SelectInSeq(list, LAMBDA p : Coverage_report(p, low) \/ Profile_report(p))
           reached == IF fatal = 0 THEN list ELSE SubSeq(list, 1, fatal)
       IN /\ Call("report", reached)
          /\ tracing' = (tracing /\ ~Contains(reached, "coverage"))
          /\ IF fatal # 0 THEN Exit(1) ELSE pc' = "finalize" /\ UNCHANGED status
  /\ UNCHANGED <<cmd, manager, options, logging, tempFile, workers, passed>>

\* Also the finally of FinalizingSuiteWrapper.
Finalize ==
  /\ pc = "finalize"
  /\ Call("finalize", Called("finalize"))
  /\ tempFile' = Profile_finalize
  /\ Exit(IF passed THEN 0 ELSE 1)
  /\ UNCHANGED <<cmd, manager, options, logging, tracing, workers, passed>>

Init ==
  /\ cmd \in Commands
  /\ pc = "make"
  /\ plugins = <<>> /\ extraplugins = <<>> /\ excluded = {}
  /\ registered = {} /\ canConfigure = {}
  /\ proxies = <<>>
  /\ default = <<>> /\ value = NoValue /\ names = <<>>
  /\ tracing = FALSE /\ tempFile = FALSE
  /\ loggers = cmd.loggers /\ tested = 0
  /\ workers = <<>> /\ passed = FALSE /\ status = NoValue /\ calls = <<>>

Next ==
  \/ MakeConfig \/ LoadPlugins \/ Parse \/ Reparse \/ Settle \/ Configure \/ Begin
  \/ PrepareTestLoader \/ PrepareTestRunner \/ PrepareTest \/ SetOutputStream
  \/ BeforeTest \/ BeforeTestUnbegun \/ TestChangesLoggers \/ RunTests \/ Report \/ Finalize

Spec == Init /\ [][Next]_vars

-----------------------------------------------------------------------------
(* Properties.                                                             *)

\* Every variable is of its type; a proxy is kept for every hook called.
TypeOK ==
  /\ pc \in {"make", "load", "parse", "reparse", "settle", "configure", "begin", "loader",
             "runner", "prepare", "stream", "run", "test", "report", "finalize", "exited"}
  /\ ToSet(plugins) \cup ToSet(extraplugins) \cup ToSet(workers) \cup excluded \cup canConfigure
       \subseteq Known
  /\ status \in {NoValue, 0, 1, 2} /\ (status = NoValue <=> pc # "exited")
  /\ {tracing, tempFile, passed} \subseteq BOOLEAN
  /\ {calls[i][1] : i \in DOMAIN calls} \subseteq DOMAIN proxies

\* After loading there is one plugin of a name, and it is the one from the most
\* specific place: given to the program, an entry point, built in
\* (manager.py:224, 230-238 and the order of the loadPlugins).
OnePerName ==
  pc = "parse" =>
    LET offers == <<ToSet(cmd.extra), ToSet(EntryPoints(cmd.entries)), DOMAIN Builtins>>
        Offering(n) == {i \in 1..3 : \E p \in offers[i] : Record(p).name = n}
    IN \A n \in {Record(p).name : p \in UNION ToSet(offers)} :
         LET mine == {i \in DOMAIN plugins : Record(plugins[i]).name = n}
             best == CHOOSE i \in Offering(n) : \A j \in Offering(n) : i <= j
         IN cmd.plugins = <<>> /\ cmd.way # "collector" =>
              /\ Cardinality(mine) = 1
              /\ \A i \in mine : plugins[i] \in offers[best]

\* The places that count for the option, most specific last: -c replaces all
\* other files; setup.py nosetests counts setup.cfg with its command line.
Places ==
  LET ByCommand == cmd.way = "command"
      Rank == IF ByCommand
              THEN <<"noserc", "nosecfg", "cfile", "egg", "setup", "argv", "again">>
              ELSE <<"env", "noserc", "nosecfg", "setup", "cfile", "argv", "again">>
      files == IF cmd.opt.name \in option_blacklist THEN {}
               ELSE IF "cfile" \in cmd.exists THEN {"cfile"}
               ELSE IF cmd.ignore /\ cmd.way = "main" THEN {}
               ELSE {"noserc", "nosecfg", "setup"}
      line == IF cmd.way = "collector" \/ cmd.argv = 0 THEN {}
              ELSE IF cmd.argv = 1 THEN {"argv"}
              ELSE IF ByCommand THEN {"again"} ELSE {"argv", "again"}
      off == cmd.off /\ cmd.opt.action \in {"flag", "count"}
      own == IF ByCommand /\ cmd.opt.name \notin option_blacklist /\ cmd.argv = 0 /\ ~off
             THEN {"setup"} ELSE {}
      env == IF cmd.way = "main" /\ cmd.opt.env # "never" THEN {"env"} ELSE {}
      given == (cmd.sets \cap ((IF ByCommand THEN (files \ {"setup"}) \cup own ELSE files) \cup env))
               \cup line \cup (IF ByCommand /\ cmd.opt.name = "where" THEN {"egg"} ELSE {})
  IN Keep(Rank, given)

\* Nothing but an environment variable that only the help of the option knows
\* (NOSE_PY3WHERE, config.py:495-501; Config.configure reads that of --where alone).
Unread == cmd.opt.env = "named" /\ ToSet(Places) = {"env"}

\* The command line beats files, files beat the environment, a file given with
\* -c replaces the others, setup.cfg beats the user's files; where values are
\* appended none of the command line, of setup.cfg or of the file given with -c
\* is lost, and nothing is invented, unless the values of a first parse have got
\* into the default of the second (README.txt "Configuration").  So a place that
\* sets an option is never ignored: that is so but for NOSE_PY3WHERE, which the
\* help of --py3where promises and which sets nothing when it is all there is.
Precedence ==
  pc \notin {"make", "load", "parse", "reparse", "settle", "exited"}
    /\ cmd.opt.name \in registered /\ cmd.opt.dest # "files" /\ default = Default(cmd) /\ ~Unread =>
    IF Places = <<>> THEN value = <<>>
    ELSE /\ value # <<>> /\ Last(value) = Last(Places)
         /\ ToSet(value) \subseteq ToSet(Places)
         /\ IF Accumulates(cmd.opt)
            THEN ToSet(Places) \ ToSet(value) \subseteq {"env", "noserc"}
            ELSE Len(value) = 1

\* The configure() of these does not ask whether their options are theirs
\* (attrib.py:198, debug.py:40, testid.py:132, multiprocess.py:209), so they are
\* enabled, or fail, where the warning says they are disabled (base.py:75).
Unasking == {"attributeselector", "pdb", "id", "multiprocess"}

\* No plugin of another name has an option of theirs.
OwnOptions ==
  \A q \in Unasking :
    /\ OptionNames(q) \cap CoreNames = {}
    /\ \A p \in Known : Record(p).name # q => OptionNames(p) \cap OptionNames(q) = {}

Hooks == <<"begin", "prepareTestLoader", "prepareTestRunner", "prepareTest",
           "setOutputStream", "report", "finalize">>

\* The hooks of a program are called in the order of its steps, each reaches
\* plugins by falling score and each of them once, and no plugin is called that
\* is not enabled or could not register its options: finalize comes last, after
\* every report (base.py:316).  But for a foreign runner with "plugins" set in a
\* file (Listed) they are neither configured nor sorted, config.py:348: all those
\* loaded get finalize, in the order they were loaded.
CallOrder ==
  LET At(i) == SelectInSeq(Hooks, LAMBDA h : h = calls[i][1])
      Score(i) == Record(calls[i][2]).score
  IN /\ TypeOK
     /\ \A i \in DOMAIN calls :
          IsEnabled(calls[i][2]) /\ (~Listed => calls[i][2] \in canConfigure)
     /\ \A i, j \in DOMAIN calls : i < j =>
          /\ At(i) <= At(j)
          /\ At(i) = At(j) => calls[i] # calls[j] /\ (~Listed => Score(i) >= Score(j))

\* No two of the plugins that a worker loads, built in or of entry points, have an
\* option in common, but for those of one name.
OptionsApart ==
  \A entries \in {c.entries : c \in Commands} :
    LET loads == DOMAIN Builtins \cup ToSet(EntryPoints(entries))
    IN \A p, q \in loads :
         Record(p).name # Record(q).name => OptionNames(p) \cap OptionNames(q) = {}

\* A worker has the plugins of its parent, in their order, but for the
\* multiprocess plugin itself, those given to the program as objects and those
\* whose options were in conflict with others (config.py:236, multiprocess.py:661).
WorkerAgrees ==
  pc = "prepare" /\ Contains(calls, <<"prepareTestRunner", "multiprocess">>) /\ cmd.plugins = <<>> =>
    LET own == {Record(p).name : p \in ToSet(cmd.extra) \cup ToSet(cmd.instantiate)}
        common == {p \in canConfigure \ {"multiprocess"} : Record(p).name \notin own}
    IN Keep(workers, common) = Keep(plugins, common)

\* Has a plugin stopped the call, as it may (base.py:316, 635)?
Stopped(hook) == \E p \in Known : Contains(calls, <<hook, p>>) /\ Answers(p, hook)

\* A run that has not died in a report leaves nothing behind, unless a plugin has
\* stopped the calls: every enabled plugin with a finalize was called, coverage
\* has been stopped and the profiler's file removed, also under a foreign runner
\* that never reports.
CleanedUp ==
  pc = "exited" /\ calls # <<>> /\ Last(calls)[1] \notin {"begin", "report"} =>
    /\ tracing => Stopped("report")
    /\ ~Stopped("finalize") =>
         /\ ~tempFile
         /\ \A p \in ToSet(plugins) :
              "finalize" \in Record(p).hooks => Contains(calls, <<"finalize", p>>)

\* When a test begins, a record of any logger gets into the buffer that is shown
\* with its failure if its name passes the filters, and never otherwise; once,
\* unless a logger that had stopped propagating has resumed, whatever loggers,
\* handlers and earlier runs in the process have left (logcapture.py:199, 205).
RecordsCaptured ==
  pc = "test" /\ IsEnabled("logcapture") =>
    \A n \in DOMAIN loggers :
      LET times == Captures(loggers, cmd.filters, n)
          passes == /\ \A f \in cmd.filters : f.out => ~IsPrefix(f.name, RecordName(n))
                    /\ (\E f \in cmd.filters : ~f.out) =>
                         \E f \in cmd.filters : ~f.out /\ IsPrefix(f.name, RecordName(n))
          resumed == \E p \in DOMAIN loggers \ {Root} :
                       loggers[p].propagate /\ Contains(loggers[p].handlers, "memory")
      IN /\ (times > 0) = passes
         /\ times > 1 => resumed

=============================================================================
