----------------------------- MODULE Selection -----------------------------
(***************************************************************************)
(* What is a test: the selector (selector.py), the attribute plugin        *)
(* (attrib.py) and the plugins that answer for whole files and modules     *)
(* (allmodules.py, doctests.py, cover.py).  The answer of a plugin and a   *)
(* declared __test__ are "yes", "no" or "none".                            *)
(***************************************************************************)
EXTENDS Integers, SequencesExt

CONSTANTS
  Matching, Private,    \* names testMatch finds, and names that begin with "_"
  Included, Excluded,   \* names found by the patterns of --include and --exclude
  KnownToPlugin,        \* names a plugin of the user answers for
  SrcDirs               \* directories that hold sources, not packages

\* A configuration c: c.include and c.exclude say whether the patterns are
\* given, c.attribs are the groups of -a and -A, c.other is what the user's
\* plugin answers; the other fields are options of that name.

Answer(b) == IF b THEN "yes" ELSE "no"
OrElse(first, second) == IF first # "none" THEN first ELSE second

matches(c, name) ==
  /\ name \in Matching \/ (c.include /\ name \in Included)
  /\ ~(c.exclude /\ name \in Excluded)

-----------------------------------------------------------------------------
(* Attributes: a function from names to values.  A value is true or not,   *)
(* and has the texts it is equal to, in lower case: its own, or those of   *)
(* its elements.                                                           *)

Missing == [true |-> FALSE, texts |-> {"false"}]

get_method_attr(own, ofClass, key) ==
  IF key \in DOMAIN own THEN own[key] ELSE IF key \in DOMAIN ofClass THEN ofClass[key] ELSE Missing

\* One requirement: of -a name, !name or name=value, or the expression of -A
\* "one of these names is true".
Fulfils(requirement, own, ofClass) ==
  LET value == get_method_attr(own, ofClass, requirement.key)
  IN CASE requirement.kind = "eval" -> \E k \in requirement.keys : get_method_attr(own, ofClass, k).true
       [] requirement.kind = "true" -> value.true
       [] requirement.kind = "false" -> ~value.true
       [] requirement.kind = "text" -> requirement.text \in value.texts

\* Mutant of validateAttrib: what matches is a test, whatever its name.
validateAttribForces(c, own, ofClass) ==
  IF c.attribs = <<>> THEN "none"
  ELSE Answer(\E group \in ToSet(c.attribs) : \A r \in ToSet(group) : Fulfils(r, own, ofClass))
\* An item that matches any group is acceptable, but not forced in.
validateAttrib(c, own, ofClass) ==
  IF c.attribs = <<>> \/ \E group \in ToSet(c.attribs) : \A r \in ToSet(group) : Fulfils(r, own, ofClass)
    THEN "none" ELSE "no"

-----------------------------------------------------------------------------
(* The plugins: the first that has an answer is asked no further.          *)

OtherPlugin(c, name) == IF name \in KnownToPlugin THEN c.other ELSE "none"

DoctestWantsFile(c, f) ==
  IF f.py \/ (c.doctestExtension /\ f.extension /\ ~(c.exclude /\ f.name \in Excluded)) THEN "yes" ELSE "none"
CoverWantsFile(c, f) ==
  IF c.coverInclusive /\ f.py THEN "yes" ELSE "none"

PluginsWantFile(c, f) ==
  IF (c.allModules /\ f.py) \/ CoverWantsFile(c, f) = "yes" THEN "yes"
  ELSE OrElse(IF c.doctests THEN DoctestWantsFile(c, f) ELSE "none", OtherPlugin(c, f.name))
PluginsWantModule(c, m) == IF c.allModules THEN "yes" ELSE OtherPlugin(c, m.name)

-----------------------------------------------------------------------------
(* The selector.                                                           *)

wantFile(c, f) ==
  /\ ~f.ignored
  /\ c.includeExe \/ ~f.executable
  /\ OrElse(PluginsWantFile(c, f), Answer(f.py /\ matches(c, f.name))) = "yes"

wantDirectory(c, d) ==
  OrElse(OtherPlugin(c, d.name),
         Answer(IF d.package THEN ~(c.exclude /\ d.name \in Excluded)
                ELSE matches(c, d.name) \/ d.name \in SrcDirs)) = "yes"

wantModule(c, m) ==
  OrElse(PluginsWantModule(c, m), OrElse(m.declared, Answer(matches(c, m.name)))) = "yes"

wantClass(c, cls) ==
  OrElse(OtherPlugin(c, cls.name),
         OrElse(cls.declared, Answer(cls.name \notin Private /\ (cls.kind = "case" \/ matches(c, cls.name))))) = "yes"

wantFunction(c, f) ==
  LET plugins == OrElse(validateAttrib(c, f.tags, <<>>), OtherPlugin(c, f.name))
  IN OrElse(plugins, OrElse(f.declared, Answer(f.name \notin Private /\ matches(c, f.name)))) = "yes"

wantMethod(c, cls, m) ==
  LET plugins == OrElse(validateAttrib(c, m.tags, cls.tags), OtherPlugin(c, m.name))
  IN /\ m.name \notin Private
     /\ OrElse(plugins, OrElse(m.declared, Answer(matches(c, m.name)))) = "yes"
=============================================================================
