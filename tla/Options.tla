------------------------------ MODULE Options ------------------------------
(***************************************************************************)
(* The options of nose and its plugins, and how the value of one is found  *)
(* from the places it can be set in: the environment, ~/.noserc and        *)
(* ~/nose.cfg, setup.cfg, a file named with -c, and the command line.      *)
(*                                                                         *)
(* A value is the sequence of the places it was taken from: a single one   *)
(* where the last one wins, all of them where values are appended, none    *)
(* for the default.  What was written there does not matter here; but a    *)
(* flag named in a file is switched on whatever follows the name, and one  *)
(* in the environment by every text that is not empty.                     *)
(***************************************************************************)
EXTENDS Integers, SequencesExt

-----------------------------------------------------------------------------
(* The options.  "env" says whether an environment variable gives the      *)
(* default: never, as the text it holds, as a list, or only when the       *)
(* option is still empty after parsing.  One is named in the help of its   *)
(* option, but nothing reads it.                                           *)

Option(name, dest, action, env) ==
  [name |-> name, dest |-> dest, action |-> action, env |-> env]

CoreOptions == {
  Option("version", "version", "flag", "never"),
  Option("plugins", "showPlugins", "flag", "never"),
  Option("verbose", "verbosity", "count", "text"),
  Option("verbosity", "verbosity", "store", "text"),
  Option("quiet", "verbosity", "store", "text"),
  Option("config", "files", "append", "never"),
  Option("where", "where", "append", "late"),
  Option("py3where", "py3where", "append", "named"),
  Option("testmatch", "testMatch", "store", "text"),
  Option("tests", "testNames", "store", "never"),
  Option("debug", "debug", "store", "text"),
  Option("debug-log", "debugLog", "store", "text"),
  Option("logging-config", "loggingConfig", "store", "never"),
  Option("ignore-files", "ignoreFiles", "append", "late"),
  Option("exclude", "exclude", "append", "late"),
  Option("include", "include", "append", "late"),
  Option("stop", "stopOnError", "flag", "text"),
  Option("no-path-adjustment", "addPaths", "flag", "text"),
  Option("exe", "includeExe", "flag", "text"),
  Option("noexe", "includeExe", "flag", "text"),
  Option("traverse-namespace", "traverseNamespace", "flag", "never"),
  Option("first-package-wins", "firstPackageWins", "flag", "never"),
  Option("no-byte-compile", "byteCompile", "flag", "never") }

\* --with-<name>, the option every plugin has that does not say otherwise.
Plugin_options(name) == {Option("with-" \o name, "enable_" \o name, "flag", "text")}

AttributeSelector_options == {
  Option("attr", "attr", "append", "text"),
  Option("eval-attr", "eval_attr", "append", "text") }

Capture_options == {Option("nocapture", "capture", "flag", "text")}

LogCapture_options == {
  Option("nologcapture", "logcapture", "flag", "text"),
  Option("logging-format", "logcapture_format", "store", "text"),
  Option("logging-datefmt", "logcapture_datefmt", "store", "text"),
  Option("logging-filter", "logcapture_filters", "store", "text"),
  Option("logging-clear-handlers", "logcapture_clear", "flag", "never"),
  Option("logging-level", "logcapture_level", "store", "never") }

Coverage_options == Plugin_options("coverage") \cup {
  Option("cover-package", "cover_packages", "append", "text"),
  Option("cover-erase", "cover_erase", "flag", "text"),
  Option("cover-tests", "cover_tests", "flag", "text"),
  Option("cover-min-percentage", "cover_min_percentage", "store", "text"),
  Option("cover-inclusive", "cover_inclusive", "flag", "text"),
  Option("cover-html", "cover_html", "flag", "text"),
  Option("cover-html-dir", "cover_html_dir", "store", "text"),
  Option("cover-branches", "cover_branches", "flag", "text"),
  Option("cover-xml", "cover_xml", "flag", "text"),
  Option("cover-xml-file", "cover_xml_file", "store", "text"),
  Option("cover-config-file", "cover_config_file", "store", "text"),
  Option("cover-no-print", "cover_no_print", "flag", "text") }

Pdb_options == {
  Option("pdb", "debugBoth", "flag", "text"),
  Option("pdb-failures", "debugFailures", "flag", "text"),
  Option("pdb-errors", "debugErrors", "flag", "text") }

Deprecated_options == {Option("no-deprecated", "noDeprecated", "flag", "text")}

Doctest_options == Plugin_options("doctest") \cup {
  Option("doctest-tests", "doctest_tests", "flag", "text"),
  Option("doctest-extension", "doctestExtension", "append", "list"),
  Option("doctest-result-variable", "doctest_result_var", "store", "text"),
  Option("doctest-fixtures", "doctestFixtures", "store", "never"),
  Option("doctest-options", "doctestOptions", "append", "never") }

FailureDetail_options == {Option("detailed-errors", "detailedErrors", "flag", "text")}

Profile_options == Plugin_options("profile") \cup {
  Option("profile-sort", "profile_sort", "store", "text"),
  Option("profile-stats-file", "profile_stats_file", "store", "text"),
  Option("profile-restrict", "profile_restrict", "append", "text") }

Skip_options == {Option("no-skip", "noSkip", "flag", "text")}

TestId_options == Plugin_options("id") \cup {
  Option("id-file", "testIdFile", "store", "never"),
  Option("failed", "failed", "flag", "never") }

MultiProcess_options == {
  Option("processes", "multiprocess_workers", "store", "text"),
  Option("process-timeout", "multiprocess_timeout", "store", "text"),
  Option("process-restartworker", "multiprocess_restartworker", "flag", "text") }

Xunit_options == Plugin_options("xunit") \cup {
  Option("xunit-file", "xunit_file", "store", "text"),
  Option("xunit-testsuite-name", "xunit_testsuite_name", "store", "text"),
  Option("xunit-prefix-with-testsuite-name", "xunit_prefix_class", "flag", "text") }

AllModules_options == {Option("all-modules", "enable_allmodules", "flag", "text")}

CollectOnly_options == {Option("collect-only", "collect_only", "flag", "text")}

-----------------------------------------------------------------------------
(* Reading them.  A command c is what one start of the program is given:   *)
(*   opt     the option it is about                                        *)
(*   sets    the places that set it: "env" and the files                   *)
(*   exists  which of "setup" and "cfile" (named with -c) there are        *)
(*   argv    how often it is on the command line                           *)
(*   way     "main", "collector" for a foreign runner, or "command" for    *)
(*           setup.py nosetests                                            *)
(*   ignore  NOSE_IGNORE_CONFIG_FILES                                      *)
(*   off     flags are set to a text that means off                        *)
(* The collector has neither a command line nor an environment.  The       *)
(* command has no environment; setup.cfg is read by setuptools, which      *)
(* keeps one value of an option and prefers the command line's.            *)

option_blacklist == {"help", "verbose"}

Given(c, place) == IF place \in c.sets THEN <<place>> ELSE <<>>

user_options(c) == IF c.opt.name \in option_blacklist THEN {} ELSE {c.opt.name}

\* What setuptools has stored in the command object.
Stored(c) ==
  IF c.opt.name \notin user_options(c) THEN <<>>
  ELSE IF c.argv = 0 THEN Given(c, "setup") ELSE <<(<<"argv", "again">>)[c.argv]>>

flag_off(c) == c.opt.action \in {"flag", "count"} /\ c.off /\ Stored(c) = <<"setup">>

\* The command line that nosetests.run makes: the place built in comes first.
cfgToArg(c) ==
  (IF c.opt.name = "where" THEN <<"egg">> ELSE <<>>)
  \o (IF flag_off(c) THEN <<>> ELSE Stored(c))

OnCommandLine(c) ==
  CASE c.way = "main" -> SubSeq(<<"argv", "again">>, 1, c.argv)
    [] c.way = "collector" -> <<>>
    [] c.way = "command" -> cfgToArg(c)

InEnvironment(c) == IF c.way = "main" THEN Given(c, "env") ELSE <<>>

\* Mutant of all_config_files: setup.cfg is read before the user's files.
all_config_files_setup_first(c) ==
  Given(c, "setup") \o Given(c, "noserc") \o Given(c, "nosecfg")

\* The values found in the user's files and setup.cfg.  Beside a setup.cfg the
\* user's files are given as one list, which one parser reads: the value in the
\* second replaces the value in the first.
all_config_files(c) ==
  (IF "setup" \in c.exists /\ "nosecfg" \in c.sets
   THEN <<"nosecfg">>
   ELSE Given(c, "noserc") \o Given(c, "nosecfg"))
  \o Given(c, "setup")

getAllConfigFiles(c) ==
  CASE c.way = "command" -> Given(c, "noserc") \o Given(c, "nosecfg")
    [] c.way = "main" /\ c.ignore -> <<>>
    [] OTHER -> all_config_files(c)

\* The default of the parser.
Default(c) == IF c.opt.env \in {"text", "list"} THEN InEnvironment(c) ELSE <<>>

Accumulates(opt) == opt.action \in {"append", "count"}

\* The values processed after the default: those of the files, then the
\* command line's.
Processed(c, files) ==
  (IF c.opt.name \in option_blacklist THEN <<>> ELSE files) \o OnCommandLine(c)

\* parseArgsAndConfigFiles
Parsed(c, default, files) ==
  LET more == Processed(c, files)
  IN IF Accumulates(c.opt) THEN default \o more
     ELSE IF more = <<>> THEN default ELSE <<Last(more)>>

\* Appending to a default that is a text, not a list, is an AttributeError.
AppendsToText(c, default, files) ==
  /\ c.opt.action = "append" /\ c.opt.env = "text"
  /\ default # <<>> /\ Processed(c, files) # <<>>

\* The default is a list that the parser hands out itself: what the first parse
\* appends to it, the second finds there.
DefaultAfter(c, default, files) ==
  IF c.opt.env = "list" /\ default # <<>> THEN Parsed(c, default, files) ELSE default

\* Options whose environment variable counts only when nothing else is given.
Late(c, value) ==
  IF c.opt.env = "late" /\ value = <<>> THEN InEnvironment(c) ELSE value

\* Is there a second parse, of the files named with -c or "config" alone?
NamesFiles(c, value) ==
  IF c.opt.dest = "files" THEN value # <<>> ELSE "cfile" \in c.exists

\* The first directory is the working directory, the others are tests to run.
\* py3where replaces where.
configureWhere(c, value) ==
  IF c.opt.dest \in {"where", "py3where"} /\ value # <<>> THEN Tail(value) ELSE <<>>

\* The names of the tests to run: those on the command line, those of --tests
\* and the directories left by -w.
testNames(c, value) ==
  c.names \o (IF c.opt.dest = "testNames" THEN value ELSE <<>>)
          \o configureWhere(c, value)

=============================================================================
