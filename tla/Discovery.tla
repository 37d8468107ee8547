----------------------------- MODULE Discovery -----------------------------
(***************************************************************************)
(* From names to tests that run: the loader with its lazy suites           *)
(* (loader.py), the importer (importer.py) and the isolation plugin        *)
(* (plugins/isolate.py).  A directory is a generator that is resumed when  *)
(* the suite it has yielded is done; a module named on the command line    *)
(* and everything below a package is loaded at once.  sys.modules, sys.path*)
(* and the visited paths change while tests run between two resumptions.   *)
(***************************************************************************)
EXTENDS Integers, SequencesExt

CONSTANTS
  Nodes,      \* files and directories
  Kind,       \* Kind[n]: "dir", "package", "module" or "file"
  NameOf,     \* NameOf[n]: its name, without .py
  Entries,    \* Entries[n]: what a directory lists, in the order of the loader
  TestLike,   \* nodes whose name matches testMatch
  Broken,     \* modules that raise when imported
  Command,    \* the sequences of nodes that may be named on the command line
  Helper      \* a module any test may import while it runs

VARIABLES
  isolation, firstPackageWins,  \* options
  modules,    \* sys.modules: the node of each dotted name
  path,       \* sys.path, as far as nose changes it
  visited,    \* _visitedPaths
  frames,     \* suspended generators and suites, innermost last
  mod_stack,  \* of the isolation plugin
  given,      \* names of the command line
  found,      \* history: entries that discovery has loaded
  ran,        \* history: <<asked for, run>> for every module whose tests were run
  failures,   \* history: nodes for which a Failure was run
  foreign,    \* history: whose helper a test module found when it began
  done

loading == <<modules, path, visited>>
history == <<found, ran, failures, foreign>>
vars == <<isolation, firstPackageWins, loading, frames, mod_stack, given, history, done>>

-----------------------------------------------------------------------------
(* Files.                                                                  *)

IsDir(n) == Kind[n] \in {"dir", "package"}
Parents(n) == {d \in Nodes : IsDir(d) /\ Contains(Entries[d], n)}
Parent(n) == CHOOSE d \in Parents(n) : TRUE

\* n and the directories it is in.
Around[n \in Nodes] == {n} \cup (IF Parents(n) = {} THEN {} ELSE Around[Parent(n)])

\* The nodes of the dotted name of n, outermost package first.
Chain[n \in Nodes] == IF Parents(n) # {} /\ Kind[Parent(n)] = "package" THEN Append(Chain[Parent(n)], n) ELSE <<n>>
Dotted[n \in Nodes] == IF Len(Chain[n]) > 1 THEN Append(Dotted[Parent(n)], NameOf[n]) ELSE <<NameOf[n]>>
Root == [n \in {m \in Nodes : Parents(m) # {}} |-> Parent(Chain[n][1])]

\* The directory that is put on sys.path for d: the one above its packages.
PathOf[d \in Nodes] == IF Kind[d] = "package" THEN PathOf[Parent(d)] ELSE d

add_path(p, d) == IF Contains(p, PathOf[d]) THEN p ELSE <<PathOf[d]>> \o p
\* Mutant of Added: the entry is counted as added when it was there before.
AddedAlways(p, d) == <<PathOf[d]>>
Added(p, d) == IF Contains(p, PathOf[d]) THEN <<>> ELSE <<PathOf[d]>>
remove_path(p, added) == IF added = <<>> THEN p ELSE RemoveFirst(p, added[1])

-----------------------------------------------------------------------------
(* Imports.                                                                *)

\* The module of that name in a directory, if there is one.
find_module(d, name) == {n \in ToSet(Entries[d]) : NameOf[n] = name /\ Kind[n] \in {"package", "module"}}

\* Mutant of sameModule: two modules of one name are the same.
sameName(old, new) == TRUE
sameModule(old, new) == old = new

\* The module that was there is dropped; when the new one raises, neither is.
load_module(mods, fqname, n) ==
  IF n \in Broken THEN Restrict(mods, DOMAIN mods \ {fqname}) ELSE (fqname :> n) @@ mods

\* The parts of a dotted name, outermost first.  Either the module that is
\* there already is taken, or it is dropped and the one in the directory loaded.
RECURSIVE ImportParts(_, _, _, _)
ImportParts(mods, dir, dotted, names) ==
  IF names = <<>> THEN [modules |-> mods, node |-> dir, ok |-> TRUE]
  ELSE LET fqname == Append(dotted, Head(names))
           here == IF IsDir(dir) THEN find_module(dir, Head(names)) ELSE {}
           new == CHOOSE n \in here : TRUE
           old == mods[fqname]
           kept == /\ fqname \in DOMAIN mods
                   /\ sameModule(old, new) \/ (firstPackageWins /\ Kind[old] = "package")
       IN IF here = {} THEN [modules |-> mods, node |-> dir, ok |-> FALSE]
          ELSE IF kept THEN ImportParts(mods, old, fqname, Tail(names))
          ELSE IF new \in Broken THEN [modules |-> load_module(mods, fqname, new), node |-> dir, ok |-> FALSE]
          ELSE ImportParts(load_module(mods, fqname, new), new, fqname, Tail(names))

importFromPath(mods, n) == ImportParts(mods, Root[n], <<>>, Dotted[n])

-----------------------------------------------------------------------------
(* Loading.  A state of the loader is a record of loading and found; what  *)
(* is loaded is a list of items: tests of a module to run, failures, and   *)
(* directories still to be read.                                           *)

\* Op of the value of e, which is computed once.
With(e, Op(_)) == CHOOSE r \in {Op(x) : x \in {e}} : TRUE

Item(what, n, as) == [what |-> what, node |-> n, as |-> as]

\* beforeContext and afterContext of isolation, around what is done at once.
Restored(before, after) == IF isolation THEN [after EXCEPT !.modules = before.modules] ELSE after

\* wantFile and wantDirectory.
Wants(n) == \/ Kind[n] = "module" /\ n \in TestLike
            \/ Kind[n] = "package"
            \/ Kind[n] = "dir" /\ n \in TestLike

\* Mutant of Skips: visited paths are not remembered.
SkipsNothing(st, n) == ~Wants(n)
Skips(st, n) == ~Wants(n) \/ n \in st.visited
Visit(st, n) == [st EXCEPT !.visited = @ \cup {n}, !.found = Append(@, n)]

\* The path of m starts with that of n.
Holds(n, m) == n \in Around[m]

\* loadTestsFromName; for a package with everything below it, but for plain
\* directories, and for nothing below it when the first package of its name has
\* won and lies elsewhere.  The result is [st, items].
RECURSIVE loadTestsFromName(_, _, _), LoadEntries(_, _, _)
loadTestsFromName(st, n, discovered) ==
  CASE Kind[n] = "dir" -> [st |-> st, items |-> <<Item("dir", n, n)>>]
    [] Kind[n] = "file" -> [st |-> st, items |-> <<Item("failure", n, n)>>]
    [] OTHER ->
       LET own(import) == IF discovered /\ n \notin TestLike THEN <<>> ELSE <<Item("run", n, import.node)>>
           entries(import) == IF Kind[import.node] = "package" /\ Holds(n, import.node) THEN Entries[import.node] ELSE <<>>
           Loaded(import) ==
             LET after == [st EXCEPT !.modules = import.modules, !.path = add_path(@, Root[n])]
             IN IF ~import.ok THEN [st |-> after, items |-> <<Item("failure", n, n)>>]
                ELSE LoadEntries(after, own(import), entries(import))
       IN With(importFromPath(st.modules, n), Loaded)

LoadEntries(st, items, entries) ==
  IF entries = <<>> THEN [st |-> st, items |-> items]
  ELSE IF Skips(st, Head(entries)) THEN LoadEntries(st, items, Tail(entries))
  ELSE LET n == Head(entries)
           Rest(l) == LoadEntries(IF Kind[n] = "module" THEN Restored(st, l.st) ELSE l.st,
                                  items \o l.items, Tail(entries))
       IN With(loadTestsFromName(Visit(st, n), n, TRUE), Rest)

RECURSIVE LoadAll(_, _, _)
LoadAll(st, items, names) ==
  IF names = <<>> THEN [st |-> st, items |-> items]
  ELSE LET Rest(l) == LoadAll(l.st, items \o l.items, Tail(names))
       IN With(loadTestsFromName(st, Head(names), FALSE), Rest)

Now == [modules |-> modules, path |-> path, visited |-> visited, found |-> found]
Become(st) ==
  /\ modules' = st.modules
  /\ path' = st.path
  /\ visited' = st.visited
  /\ found' = st.found

-----------------------------------------------------------------------------
(* Frames: a suite of items, a directory or the names under isolation.     *)

Suite(items) == [kind |-> "suite", todo |-> items, pending |-> FALSE, added |-> <<>>]
Directory(d, p) == [kind |-> "dir", todo |-> Entries[d], pending |-> FALSE, added |-> Added(p, d)]
Lazy(names) == [kind |-> "names", todo |-> names, pending |-> FALSE, added |-> <<>>]

Top == Last(frames)

\* The frame goes on to its next item, which may be above it until it is done.
Advance(pending) == [frames EXCEPT ![Len(frames)].todo = Tail(@), ![Len(frames)].pending = pending]

\* loadTestsFromNames: one name, or no isolation, and all names are loaded now.
loadTestsFromNames(names) ==
  /\ frames = <<>>
  /\ ~done
  /\ given = <<>>
  /\ given' = names
  /\ \E all \in {LoadAll(Now, <<>>, names)} :
       IF isolation /\ Len(names) > 1
         THEN frames' = <<Lazy(names)>> /\ UNCHANGED <<loading, found>>
         ELSE frames' = <<Suite(all.items)>> /\ Become(all.st)
  /\ UNCHANGED <<isolation, firstPackageWins, mod_stack, ran, failures, foreign, done>>

\* The tests of a module run, and import what they need.
RunTests(helped) ==
  /\ frames # <<>>
  /\ Top.kind = "suite" /\ Top.todo # <<>> /\ Head(Top.todo).what # "dir"
  /\ LET item == Head(Top.todo)
     IN IF item.what = "failure"
          THEN failures' = failures \cup {item.node} /\ UNCHANGED <<modules, ran, foreign>>
          ELSE /\ ran' = Append(ran, <<item.node, item.as>>)
               /\ foreign' = IF <<Helper>> \in DOMAIN modules
                             THEN foreign \cup {<<modules[<<Helper>>], item.node>>} ELSE foreign
               /\ modules' = IF helped /\ <<Helper>> \notin DOMAIN modules
                             THEN (<<Helper>> :> item.node) @@ modules ELSE modules
               /\ UNCHANGED failures
  /\ frames' = Advance(FALSE)
  /\ UNCHANGED <<isolation, firstPackageWins, path, visited, mod_stack, given, found, done>>

\* A suite comes to a directory: its generator begins.
EnterDirectory ==
  /\ frames # <<>>
  /\ Top.kind = "suite" /\ Top.todo # <<>> /\ Head(Top.todo).what = "dir"
  /\ LET d == Head(Top.todo).node
     IN /\ frames' = Append(Advance(FALSE), Directory(d, path))
        /\ path' = add_path(path, d)
  /\ UNCHANGED <<isolation, firstPackageWins, modules, visited, mod_stack, given, history, done>>

\* Mutant of After: the copy is put back, but what is new stays.
AfterOnlyUpdates ==
  IF Top.pending /\ isolation
    THEN [st |-> [Now EXCEPT !.modules = Last(mod_stack) @@ @], stack |-> Front(mod_stack)]
    ELSE [st |-> Now, stack |-> mod_stack]
\* What a generator does first when it is resumed: afterContext, if it owes one.
After ==
  IF Top.pending /\ isolation
    THEN [st |-> [Now EXCEPT !.modules = Last(mod_stack)], stack |-> Front(mod_stack)]
    ELSE [st |-> Now, stack |-> mod_stack]

\* Then it loads its next element and yields a suite.
Yield ==
  /\ frames # <<>>
  /\ Top.kind # "suite" /\ Top.todo # <<>>
  /\ LET n == Head(Top.todo)
         before == Top.kind = "names" \/ Kind[n] \notin {"dir", "package"}
     IN \E after \in {After} :
          IF Top.kind = "dir" /\ Skips(after.st, n)
            THEN frames' = Advance(FALSE) /\ mod_stack' = after.stack /\ Become(after.st)
            ELSE \E l \in {IF Top.kind = "names" THEN loadTestsFromName(after.st, n, FALSE)
                            ELSE loadTestsFromName(Visit(after.st, n), n, TRUE)} :
                   /\ frames' = Append(Advance(before), Suite(l.items))
                   /\ mod_stack' = IF before /\ isolation THEN Append(after.stack, after.st.modules) ELSE after.stack
                   /\ Become(l.st)
  /\ UNCHANGED <<isolation, firstPackageWins, given, ran, failures, foreign, done>>

\* A frame with nothing left: a directory takes its entry off sys.path.
Exhausted ==
  /\ frames # <<>>
  /\ Top.todo = <<>>
  /\ LET st == After.st
     IN Become([st EXCEPT !.path = remove_path(@, Top.added)])
  /\ mod_stack' = After.stack
  /\ frames' = Front(frames)
  /\ done' = (Len(frames) = 1)
  /\ UNCHANGED <<isolation, firstPackageWins, given, ran, failures, foreign>>

Init ==
  /\ isolation \in BOOLEAN /\ firstPackageWins \in BOOLEAN
  /\ modules = [x \in {} |-> x] /\ path = <<>> /\ visited = {}
  /\ frames = <<>> /\ mod_stack = <<>> /\ given = <<>>
  /\ found = <<>> /\ ran = <<>> /\ failures = {} /\ foreign = {}
  /\ done = FALSE

Next == \/ \E names \in Command : loadTestsFromNames(names)
        \/ \E helped \in BOOLEAN : RunTests(helped)
        \/ EnterDirectory
        \/ Yield
        \/ Exhausted

Spec == Init /\ [][Next]_vars

-----------------------------------------------------------------------------
(* Properties.                                                             *)

TypeOK ==
  /\ \A x \in DOMAIN modules : x = <<Helper>> \/ NameOf[modules[x]] = Last(x)
  /\ ToSet(path) \subseteq {n \in Nodes : Kind[n] = "dir"} /\ IsInjective(path)
  /\ Len(mod_stack) = Cardinality({i \in DOMAIN frames : isolation /\ frames[i].pending})
  /\ visited = ToSet(found)

\* Discovery loads no file or directory twice, however directories on the
\* command line overlap, and what it has loaded is all there is to find below
\* them, once the run is over: run, failed or without tests of its own.
RECURSIVE Below(_)
Below(n) == IF ~IsDir(n) THEN {n}
            ELSE {n} \cup UNION {Below(e) : e \in {x \in ToSet(Entries[n]) : Wants(x)}}
ModulesBelow == {n \in UNION {Below(g) : g \in ToSet(given)} : Kind[n] = "module"}
DiscoveredOnce ==
  /\ IsInjective(found)
  /\ done /\ ~firstPackageWins =>
       \A n \in ModulesBelow : \/ n \in failures \/ n \in {r[1] : r \in ToSet(ran)}
                               \/ \E p \in ToSet(Chain[n]) : p \in failures

\* A test module is the file it was found as, also when modules of other
\* directories have its name, unless the first package is to win
\* (importer.py:98, "reloading if the version in sys.modules is not the one we want").
OwnFile == ~firstPackageWins => \A r \in ToSet(ran) : r[1] = r[2]

\* While the tests of a module run, the directory its name starts from is on
\* sys.path, although directories take theirs off when they are exhausted.
RootOnPath ==
  frames # <<>> /\ Top.kind = "suite" /\ Top.todo # <<>> /\ Head(Top.todo).what = "run" =>
    Contains(path, Root[Head(Top.todo).node])

InPackage(n) == Len(Chain[n]) > 1 \/ Kind[n] = "package"

\* The plugin "resets the contents of sys.modules after each test module or package
\* runs to its state before the test" (isolate.py:48).  The code keeps this for the
\* modules of plain directories and for each of several names on the command line:
\* no test sees a module imported by the tests of one in a plain directory, nor by
\* those of another name, and several names leave nothing behind.  It does not keep
\* it for packages: loader.py:189-191 has no beforeContext, so what the tests in a
\* package import is seen by all that follow below the same name, the modules of
\* plain directories included.
Isolated ==
  /\ TypeOK
  /\ isolation =>
       /\ \A f \in foreign :
            InPackage(f[1]) /\ \E g \in ToSet(given) : {f[1], f[2]} \subseteq Below(g)
       /\ done /\ Len(given) > 1 => modules = [x \in {} |-> x]
=============================================================================
