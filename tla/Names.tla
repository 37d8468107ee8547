------------------------------- MODULE Names -------------------------------
(***************************************************************************)
(* The names of tests: how a name is split into file, module and callable  *)
(* (util.py, TestAddress of selector.py), and the name the parent of the   *)
(* multiprocess plugin gives to what it wants loaded (multiprocess.py).    *)
(* A name, a path and a dotted name are sequences of tokens, "/", ":" and  *)
(* "." among them; <<>> stands for None.                                   *)
(***************************************************************************)
EXTENDS Integers, SequencesExt

CONSTANTS
  Files,   \* the absolute paths of the files there are
  Dirs     \* and of the directories

RECURSIVE Split(_, _)
Split(s, at) ==
  IF ~Contains(s, at) THEN <<s>>
  ELSE LET i == SelectInSeq(s, LAMBDA t : t = at)
       IN <<SubSeq(s, 1, i - 1)>> \o Split(SubSeq(s, i + 1, Len(s)), at)

Joined(parts, with) == FlattenSeq([i \in DOMAIN parts |-> IF i = 1 THEN parts[i] ELSE <<with>> \o parts[i]])

\* os.path.split: what is before the last "/" and what is after it.  No file
\* here lies directly in the root.
basename(path) == Last(Split(path, "/"))
dirname(path) == Joined(Front(Split(path, "/")), "/")

IsAbs(path) == path # <<>> /\ Head(path) = "/"
Abs(path, dir) == IF IsAbs(path) THEN path ELSE dir \o <<"/">> \o path
Exists(path) == path \in Files \cup Dirs

HasExtension(path, ext) == IsSuffix(<<".", ext>>, path)
SplitExt(path) == IF Contains(basename(path), ".") THEN SubSeq(path, 1, SelectLastInSeq(path, LAMBDA t : t = ".") - 1) ELSE path
src(path) == IF HasExtension(path, "pyc") THEN SplitExt(path) \o <<".", "py">> ELSE path

Identifier(name) == name # <<>> /\ Head(name) # "." /\ ~Contains(name, "-") /\ ~Contains(name, ":")

\* A path that exists below the current directory, or that looks like one.
file_like(name, cwd) ==
  \/ name # <<>> /\ Exists(Abs(name, cwd))
  \/ Contains(name, "/")
  \/ HasExtension(name, "py")
  \/ ~Identifier(SplitExt(name))

Address(file, module, call) == [file |-> file, module |-> module, call |-> call]
Unparsable == Address(<<"ValueError">>, <<>>, <<>>)

FileOrModule(first, call, cwd) ==
  IF first = <<>> THEN Address(<<>>, <<>>, call)
  ELSE IF file_like(first, cwd) THEN Address(first, <<>>, call)
  ELSE Address(<<>>, first, call)

\* A ":" ends the file or module, unless it is a part of the path; with one
\* more there is no telling.
Cut(name, cwd) ==
  LET parts == Split(name, ":")
      last == Split(basename(name), ":")
  IN IF dirname(name) = <<>> THEN
       IF Len(parts) > 2 THEN <<>>
       ELSE IF Len(parts) = 1 \/ file_like(parts[2], cwd) THEN <<name, <<>>>> ELSE parts
     ELSE IF Len(last) > 2 THEN <<>>
     ELSE IF Len(last) = 1 THEN <<name, <<>>>>
     ELSE <<dirname(name) \o <<"/">> \o last[1], last[2]>>

split_test_name(name, cwd) ==
  LET cut == Cut(name, cwd)
  IN IF cut = <<>> THEN Unparsable ELSE FileOrModule(cut[1], cut[2], cwd)

InitOf(dir) == dir \o <<"/", "__init__", ".", "py">>
ispackage(dir) == dir \in Dirs /\ Identifier(basename(dir)) /\ InitOf(dir) \in Files

\* The file or package directory of a dotted module name, if there is one.
getfilename(module, dir) ==
  LET path == dir \o <<"/">> \o Joined(Split(module, "."), "/")
  IN IF InitOf(path) \in Files THEN path
     ELSE IF path \o <<".", "py">> \in Files THEN path \o <<".", "py">>
     ELSE <<>>

\* The dotted name of the packages a file or directory is in.
RECURSIVE PackageParts(_)
PackageParts(dir) ==
  IF dir # <<>> /\ ispackage(dir) THEN PackageParts(dirname(dir)) \o <<basename(dir)>> ELSE <<>>
\* Mutant of getpackage: the packages are left out.
getpackage_of_file(file) == Joined(Split(basename(SplitExt(src(file))), "."), ".")
getpackage(file) ==
  LET path == src(file)
      base == basename(SplitExt(path))
  IN IF (path \in Dirs \/ ~HasExtension(path, "py")) /\ ~ispackage(path) THEN <<>>
     ELSE Joined(PackageParts(dirname(path)) \o (IF base = <<"__init__">> THEN <<>> ELSE <<base>>), ".")

\* What the loader makes of a name: where there is no module in a file that is
\* named, the file of the module that is named, and the module of the file.
FileOf(split, workingDir) ==
  IF split.file = <<>> /\ split.module # <<>> THEN getfilename(split.module, workingDir) ELSE split.file
ModuleOf(split, file) == IF split.module = <<>> THEN getpackage(file) ELSE split.module
Located(split, file) ==
  IF split = Unparsable \/ file = <<>> THEN split ELSE Address(file, ModuleOf(split, file), split.call)
Found(split, workingDir) ==
  LET file == FileOf(split, workingDir)
  IN Located(split, IF file = <<>> THEN file ELSE Abs(src(file), workingDir))
TestAddress(name, workingDir, cwd) == Found(split_test_name(name, cwd), workingDir)

-----------------------------------------------------------------------------
(* The names the program gives itself.                                     *)

\* test_address of a module and of what is in it, by its names.
test_address(file, module, call) == Address(src(file), module, call)

\* Mutant of address: the callable is left out.
address_of_module(a) == IF a.file = <<>> THEN a.module ELSE a.file
\* A package is named by its directory: its __init__ would confuse the loader.
address(a) ==
  LET file == IF basename(a.file) # <<>> /\ Head(basename(a.file)) = "__init__" THEN dirname(a.file) ELSE a.file
      first == IF a.file = <<>> THEN a.module ELSE file
  IN IF a.call = <<>> THEN first ELSE first \o <<":">> \o a.call
=============================================================================
