---------------------------- MODULE TestIdProofs ----------------------------
(***************************************************************************)
(* Proofs about TestId: over any sequence of runs, ended, interrupted or   *)
(* killed, an id keeps its test, failures are noted until they are run     *)
(* again, and --failed runs exactly those.                                 *)
(***************************************************************************)
EXTENDS TestId, DataInduction

\* Ids number tests from 1 up, no test twice.
Numbering(known) == known \in Seq(Methods) /\ IsInjective(known)

\* The tests of number have the numbers 1 to n, one each.
Numbers(number, n) ==
  /\ number \in [DOMAIN number -> 1 .. n] /\ DOMAIN number \subseteq Methods
  /\ IsInjective(number)
  /\ \A i \in 1 .. n : \E t \in DOMAIN number : number[t] = i

Includes(known, old) == \A i \in DOMAIN old : i \in DOMAIN known /\ known[i] = old[i]

FileTyping ==
  /\ file.kind \in {"absent", "foreign", "damaged", "old", "data"}
  /\ file.kind \in {"old", "data"} => Numbering(file.ids)
  /\ file.kind = "data" =>
       /\ file.failed \in Seq(1 .. Len(file.ids))
       /\ file.source_names \subseteq Names

PluginTyping ==
  /\ pc \in {"off", "load", "run", "save"}
  /\ pc # "off" => names \in CmdLines
  /\ Numbering(ids)
  /\ nextId \in Nat \ {0} /\ Numbers(tests, nextId - 1)
  /\ failed \in Seq(1 .. nextId - 1)
  /\ source_names \subseteq Names
  /\ plan \in Seq(Tests \cup {NoTest})
  /\ problematic \subseteq Tests \cup {NoTest}
  /\ collecting \in BOOLEAN /\ loopOnFailed \in BOOLEAN /\ passed \in BOOLEAN

\* A run over translated ids only starts no test that is new to it, so that the
\* ids it saves, those it has loaded, are all it knows.
Complete == ~collecting => ids = IdsOf(tests) /\ ToSet(plan) \subseteq DOMAIN tests

\* What the user was shown is in the file, and in what a run has loaded from it.
ShownKept ==
  /\ file.kind \in {"old", "data"} => Includes(file.ids, shown)
  /\ file.kind \in {"absent", "foreign"} => DOMAIN shown = {}
  /\ pc \in {"run", "save"} => Includes(IdsOf(tests), shown)

\* The tests whose failure the run has noted.
NotedNow == {t \in DOMAIN tests : tests[t] \in ToSet(failed)}

FailuresKept ==
  /\ pc = "load" \/ passed => fell = {}
  /\ fell \subseteq NotedNow
  /\ rerun => NotedNow = fell

Inv == FileTyping /\ PluginTyping /\ Complete /\ ShownKept /\ FailuresKept /\ FailuresNoted

-----------------------------------------------------------------------------
(* Numberings of tests and their inverses.                                 *)

\* The ids of a numbering of tests, and back.
LEMMA IdsOfNumbers ==
  ASSUME NEW number, NEW n \in Nat, Numbers(number, n)
  PROVE  /\ Numbering(IdsOf(number)) /\ Len(IdsOf(number)) = n
         /\ \A t \in DOMAIN number : IdsOf(number)[number[t]] = t
         /\ \A i \in 1 .. n : IdsOf(number)[i] \in DOMAIN number /\ number[IdsOf(number)[i]] = i
<1> DEFINE D == {number[t] : t \in DOMAIN number}
           known == [i \in D |-> CHOOSE t \in DOMAIN number : number[t] = i]
<1>1. D = 1 .. n
  BY DEF Numbers
<1>2. IdsOf(number) = known
  BY DEF IdsOf
<1>3. ASSUME NEW i \in 1 .. n
      PROVE  known[i] \in DOMAIN number /\ number[known[i]] = i
  <2>1. \E t \in DOMAIN number : number[t] = i
    BY DEF Numbers
  <2>2. known[i] = CHOOSE t \in DOMAIN number : number[t] = i
    BY <1>1
  <2> HIDE DEF known
  <2> QED
    BY <2>1, <2>2
<1>4. DOMAIN known = 1 .. n /\ known = [i \in 1 .. n |-> known[i]]
  BY <1>1
<1> HIDE DEF known
<1>5. known \in [1 .. n -> Methods]
  BY <1>3, <1>4 DEF Numbers
<1>6. known \in Seq(Methods) /\ Len(known) = n
  BY <1>5
<1>7. IsInjective(known)
  BY <1>3, <1>4 DEF IsInjective
<1>8. ASSUME NEW t \in DOMAIN number PROVE known[number[t]] = t
  <2>1. number[t] \in 1 .. n
    BY DEF Numbers
  <2> QED
    BY <1>3, <2>1 DEF Numbers, IsInjective
<1> QED
  BY <1>2, <1>3, <1>6, <1>7, <1>8 DEF Numbering

LEMMA NumbersOfIds ==
  ASSUME NEW known, Numbering(known)
  PROVE  /\ Numbers(AntiFunction(known), Len(known))
         /\ DOMAIN AntiFunction(known) = ToSet(known)
         /\ IdsOf(AntiFunction(known)) = known
<1> DEFINE number == AntiFunction(known)
           n == Len(known)
<1>1. /\ n \in Nat /\ DOMAIN known = 1 .. n
      /\ \A i \in 1 .. n : known[i] \in Methods
      /\ \A i, j \in 1 .. n : known[i] = known[j] => i = j
  BY DEF Numbering, IsInjective
<1>2. /\ number = [t \in Range(known) |->
                     CHOOSE i \in DOMAIN known : t \in Range(known) => known[i] = t]
      /\ Range(known) = {known[i] : i \in 1 .. n}
  BY <1>1 DEF AntiFunction, Inverse, Range
<1>3. ASSUME NEW t \in Range(known)
      PROVE  number[t] \in 1 .. n /\ known[number[t]] = t
  <2>1. \E i \in DOMAIN known : t \in Range(known) => known[i] = t
    BY <1>1, <1>2
  <2>2. number[t] = CHOOSE i \in DOMAIN known : t \in Range(known) => known[i] = t
    BY <1>2
  <2> HIDE DEF number
  <2> QED
    BY <1>1, <2>1, <2>2
<1>4. DOMAIN number = Range(known) /\ number = [t \in Range(known) |-> number[t]]
  BY <1>2
<1> HIDE DEF number, n
<1>5. ASSUME NEW i \in 1 .. n PROVE known[i] \in DOMAIN number /\ number[known[i]] = i
  <2>1. known[i] \in Range(known)
    BY <1>2
  <2> QED
    BY <1>1, <1>3, <1>4, <2>1
<1>6. Numbers(number, n)
  <2>1. number \in [DOMAIN number -> 1 .. n]
    BY <1>3, <1>4
  <2>2. DOMAIN number \subseteq Methods
    BY <1>1, <1>2, <1>4
  <2>3. IsInjective(number)
    BY <1>3, <1>4 DEF IsInjective
  <2>4. \A i \in 1 .. n : \E t \in DOMAIN number : number[t] = i
    BY <1>5
  <2> QED
    BY <2>1, <2>2, <2>3, <2>4 DEF Numbers
<1>7. IdsOf(number) = known
  <2>1. /\ IdsOf(number) \in Seq(Methods) /\ Len(IdsOf(number)) = n
        /\ \A i \in 1 .. n : IdsOf(number)[i] \in DOMAIN number /\ number[IdsOf(number)[i]] = i
    BY <1>1, <1>6, IdsOfNumbers DEF Numbering
  <2>2. \A i \in 1 .. n : IdsOf(number)[i] = known[i]
    BY <1>3, <1>4, <2>1
  <2>3. known \in Seq(Methods) /\ Len(known) = n
    BY DEF Numbering, n
  <2> QED
    BY <2>1, <2>2, <2>3, SeqEqual
<1>8. DOMAIN number = ToSet(known)
  BY <1>1, <1>2, <1>4 DEF ToSet
<1> QED
  BY <1>6, <1>7, <1>8 DEF number, n

\* The next free id.
LEMMA NewIdNext ==
  ASSUME NEW known, Numbering(known)
  PROVE  NewId(known) = Len(known) + 1
<1>1. Len(known) \in Nat /\ DOMAIN known = 1 .. Len(known)
  BY DEF Numbering
<1>2. CASE Len(known) = 0
  <2>1. known = None
    BY <1>1, <1>2 DEF None, Numbering
  <2> QED
    BY <1>2, <2>1 DEF NewId
<1>3. CASE Len(known) # 0
  <2>1. known # None
    <3>1. DOMAIN None = {} /\ 1 \in DOMAIN known
      BY <1>1, <1>3 DEF None
    <3> QED
      BY <3>1
  <2>2. Max(DOMAIN known) = Len(known)
    <3>1. Len(known) \in DOMAIN known /\ \A j \in DOMAIN known : Len(known) >= j
      BY <1>1, <1>3
    <3>2. \A i \in DOMAIN known : (\A j \in DOMAIN known : i >= j) => i = Len(known)
      BY <1>1, <1>3, <3>1
    <3> QED
      BY <3>1, <3>2 DEF Max
  <2> QED
    BY <2>1, <2>2 DEF NewId
<1> QED
  BY <1>2, <1>3

OneMore(more, number, n, t) ==
  /\ Numbers(more, n + 1) /\ DOMAIN more = DOMAIN number \cup {t}
  /\ more[t] = n + 1 /\ \A u \in DOMAIN number : more[u] = number[u]

LEMMA NumbersOneMore ==
  ASSUME NEW number, NEW n \in Nat, Numbers(number, n),
         NEW t \in Methods, t \notin DOMAIN number,
         NEW more, more = Joined(number, [u \in {t} |-> n + 1])
  PROVE  OneMore(more, number, n, t)
<1>1. /\ more = [u \in DOMAIN number \cup {t} |-> IF u \in DOMAIN number THEN number[u] ELSE n + 1]
      /\ number \in [DOMAIN number -> 1 .. n]
  BY DEF Numbers, Joined
<1>2. /\ DOMAIN more = DOMAIN number \cup {t}
      /\ more[t] = n + 1 /\ \A u \in DOMAIN number : more[u] = number[u]
  BY <1>1
<1>3. \A u \in DOMAIN number : number[u] \in 1 .. n /\ number[u] \in 1 .. n + 1 /\ number[u] # n + 1
  BY <1>1
<1>4. more \in [DOMAIN more -> 1 .. n + 1]
  BY <1>1, <1>2, <1>3
<1>5. IsInjective(more)
  BY <1>2, <1>3 DEF IsInjective, Numbers
<1>6. \A i \in 1 .. n + 1 : \E u \in DOMAIN more : more[u] = i
  BY <1>2 DEF Numbers
<1> QED
  BY <1>2, <1>4, <1>5, <1>6 DEF OneMore, Numbers

\* There are no more ids than methods.
LEMMA NumbersBound ==
  ASSUME NEW number, NEW n \in Nat, Numbers(number, n)
  PROVE  n <= Cardinality(Methods) /\ Cardinality(Methods) \in Nat
<1> DEFINE known == IdsOf(number)
<1>1. known \in Seq(Methods) /\ IsInjective(known) /\ Len(known) = n
  BY IdsOfNumbers DEF Numbering
<1> HIDE DEF known
<1>2. known \in [1 .. n -> Methods]
  BY <1>1
<1>3. known \in Injection(1 .. n, Methods)
  BY <1>1, <1>2 DEF Injection, IsInjective
<1>4. Cardinality(1 .. n) = n
  BY FS_Interval
<1> QED
  BY <1>3, <1>4, FS_Injection, FS_CardinalityType, MethodsAssumption

-----------------------------------------------------------------------------
(* What a run loads.                                                       *)

LEMMA OneElement == \A x : ToSet(<<x>>) = {x}
BY DEF ToSet

LEMMA NoElement == ToSet(<<>>) = {}
BY DEF ToSet

LEMMA AmongElements ==
  ASSUME NEW S, NEW s \in Seq(S), NEW T
  PROVE  Among(s, T) \in Seq(S) /\ ToSet(Among(s, T)) = ToSet(s) \cap T
<1> DEFINE parts == [k \in DOMAIN s |-> IF s[k] \in T THEN <<s[k]>> ELSE <<>>]
<1>1. DOMAIN s = 1 .. Len(s) /\ Len(s) \in Nat /\ \A k \in DOMAIN s : s[k] \in S
  OBVIOUS
<1>2. \A k \in DOMAIN s : parts[k] \in Seq(S)
  BY <1>1
<1>3. DOMAIN parts = DOMAIN s /\ \A k \in DOMAIN s : ToSet(parts[k]) = {s[k]} \cap T
  BY OneElement, NoElement
<1>4. Among(s, T) = FlattenSeq(parts)
  BY DEF Among
<1>5. parts \in Seq(Seq(S))
  <2>1. parts = [k \in 1 .. Len(s) |-> parts[k]]
    BY <1>1
  <2> HIDE DEF parts
  <2> QED
    BY <1>1, <1>2, <2>1
<1> HIDE DEF parts
<1>6. /\ FlattenSeq(parts) \in Seq(S)
      /\ ToSet(FlattenSeq(parts)) = UNION {ToSet(parts[k]) : k \in DOMAIN parts}
  BY <1>5, FlattenElements
<1>7. UNION {ToSet(parts[k]) : k \in DOMAIN parts} = ToSet(s) \cap T
  BY <1>3 DEF ToSet
<1> QED
  BY <1>4, <1>6, <1>7

LEMMA LoadsTests ==
  ASSUME NEW n \in Name
  PROVE  Loads(n) \in Seq(Tests \cup {NoTest})
<1>1. CASE n \in {"id"} \X Nat
  BY <1>1 DEF Loads
<1>2. CASE n \in {"test"} \X Tests
  BY <1>2 DEF Loads
<1>3. CASE n \in {"source"} \X DOMAIN Contents
  <2>1. Loads(n) = Contents[n[2]] /\ n[2] \in DOMAIN Contents
    BY <1>3 DEF Loads
  <2>2. Contents[n[2]] \in Seq(Tests)
    BY <2>1, ContentsAssumption
  <2>3. \A i \in 1 .. Len(Contents[n[2]]) : Contents[n[2]][i] \in Tests \cup {NoTest}
    BY <2>2
  <2> QED
    BY <2>1, <2>2, <2>3
<1> QED
  BY <1>1, <1>2, <1>3 DEF Name

\* The tests of the names to load.
Planned(data) == FlattenSeq([k \in DOMAIN NamesToLoad(data) |-> Loads(NamesToLoad(data)[k])])

LEMMA PlanElements ==
  ASSUME NEW data, NamesToLoad(data) \in Seq(Name)
  PROVE  /\ Planned(data) \in Seq(Tests \cup {NoTest})
         /\ ToSet(Planned(data)) = UNION {ToSet(Loads(n)) : n \in ToSet(NamesToLoad(data))}
<1> DEFINE load == NamesToLoad(data)
           parts == [k \in DOMAIN load |-> Loads(load[k])]
<1>1. DOMAIN load = 1 .. Len(load) /\ Len(load) \in Nat /\ \A k \in DOMAIN load : load[k] \in Name
  OBVIOUS
<1>2. Planned(data) = FlattenSeq(parts)
  BY DEF Planned
<1> HIDE DEF load
<1>3. DOMAIN parts = DOMAIN load /\ \A k \in DOMAIN load : parts[k] = Loads(load[k])
  OBVIOUS
<1>4. \A k \in DOMAIN load : parts[k] \in Seq(Tests \cup {NoTest})
  BY <1>1, <1>3, LoadsTests
<1>5. parts \in Seq(Seq(Tests \cup {NoTest}))
  <2>1. parts = [k \in 1 .. Len(load) |-> parts[k]]
    BY <1>1
  <2> HIDE DEF parts
  <2> QED
    BY <1>1, <1>4, <2>1
<1> HIDE DEF parts
<1>6. /\ FlattenSeq(parts) \in Seq(Tests \cup {NoTest})
      /\ ToSet(FlattenSeq(parts)) = UNION {ToSet(parts[k]) : k \in DOMAIN parts}
  BY <1>5, FlattenElements
<1>7. UNION {ToSet(parts[k]) : k \in DOMAIN parts} = UNION {ToSet(Loads(n)) : n \in ToSet(load)}
  BY <1>3 DEF ToSet
<1> QED
  BY <1>2, <1>6, <1>7 DEF load

\* What the plugin knows after it has read the file.
DataTyping(data) ==
  /\ Numbering(data.ids)
  /\ data.failed \in Seq(1 .. Len(data.ids))
  /\ data.source_names \subseteq Names

LEMMA ReadTyping ==
  ASSUME FileTyping, file.kind # "damaged", names \in CmdLines
  PROVE  DataTyping(Read)
<1>1. CASE file.kind = "data"
  BY <1>1 DEF FileTyping, DataTyping, Read
<1>2. CASE file.kind = "old"
  <2>1. ToSet(names) \subseteq Names
    BY DEF Names
  <2>2. Read = Data(file.ids, <<>>, ToSet(names))
    BY <1>2 DEF Read
  <2> QED
    BY <1>2, <2>1, <2>2 DEF FileTyping, DataTyping, Data
<1>3. CASE file.kind \in {"absent", "foreign"}
  <2>1. Read = Data(None, <<>>, {})
    BY <1>3 DEF Read
  <2>2. None \in Seq(Methods) /\ IsInjective(None)
    BY DEF None, IsInjective
  <2> QED
    BY <2>1, <2>2 DEF DataTyping, Data, Numbering
<1> QED
  BY <1>1, <1>2, <1>3 DEF FileTyping

LEMMA AskedNames ==
  ASSUME NEW data, DataTyping(data), names \in CmdLines
  PROVE  /\ Asked(data) \in Seq(Name) /\ Asked(data) # <<>>
         /\ Looping(data.failed) => ToSet(Asked(data)) = {IdName(i) : i \in ToSet(data.failed)}
<1>1. CASE Looping(data.failed)
  <2> DEFINE failures == [k \in DOMAIN data.failed |-> IdName(data.failed[k])]
  <2>1. /\ DOMAIN data.failed = 1 .. Len(data.failed) /\ Len(data.failed) \in Nat
        /\ Len(data.ids) \in Nat /\ data.failed # <<>>
        /\ \A k \in DOMAIN data.failed : data.failed[k] \in 1 .. Len(data.ids)
    BY <1>1 DEF DataTyping, Looping, Numbering
  <2>2. Asked(data) = failures
    BY <1>1 DEF Asked
  <2>3. \A k \in DOMAIN data.failed : failures[k] \in Name
    BY <2>1 DEF IdName, Name
  <2>4. failures \in Seq(Name) /\ failures # <<>>
    <3>1. failures = [k \in 1 .. Len(data.failed) |-> failures[k]] /\ DOMAIN failures = DOMAIN data.failed
      BY <2>1
    <3>2. Len(data.failed) \in Nat \ {0}
      BY <2>1, EmptySeq DEF DataTyping
    <3> HIDE DEF failures
    <3>3. failures \in Seq(Name)
      <4>1. \A k \in 1 .. Len(data.failed) : failures[k] \in Name
        BY <2>1, <2>3
      <4>2. failures \in [1 .. Len(data.failed) -> Name]
        BY <3>1, <4>1
      <4> QED
        BY <3>2, <4>2
    <3>4. Len(failures) = Len(data.failed)
      BY <2>1, <3>1, <3>3
    <3> QED
      BY <3>2, <3>3, <3>4, EmptySeq
  <2>5. ToSet(failures) = {IdName(i) : i \in ToSet(data.failed)}
    BY DEF ToSet
  <2> QED
    BY <2>2, <2>4, <2>5
<1>2. CASE ~Looping(data.failed)
  BY <1>2, NamesAssumption DEF Asked
<1> QED
  BY <1>1, <1>2

LEMMA Translates ==
  ASSUME NEW known, Numbering(known), NEW n \in Name
  PROVE  /\ tr(n, known) \in Name
         /\ tr(n, known) # n => /\ n[2] \in DOMAIN known
                                /\ tr(n, known) = TestName(known[n[2]])
                                /\ ToSet(Loads(tr(n, known))) = {known[n[2]]}
         /\ \A i \in DOMAIN known : n = IdName(i) => tr(n, known) # n
<1>1. CASE n[1] = "id" /\ n[2] \in DOMAIN known
  <2>1. known[n[2]] \in Tests
    BY <1>1, MethodsAssumption DEF Numbering
  <2>2. tr(n, known) = TestName(known[n[2]])
    BY <1>1 DEF tr
  <2>3. TestName(known[n[2]]) \in Name /\ TestName(known[n[2]])[1] = "test"
    BY <2>1 DEF TestName, Name
  <2>4. Loads(TestName(known[n[2]])) = <<known[n[2]]>>
    BY DEF Loads, TestName
  <2> QED
    BY <1>1, <2>2, <2>3, <2>4, OneElement
<1>2. CASE ~(n[1] = "id" /\ n[2] \in DOMAIN known)
  BY <1>2 DEF tr, IdName
<1> QED
  BY <1>1, <1>2

LEMMA TranslatedNames ==
  ASSUME NEW data, DataTyping(data), names \in CmdLines
  PROVE  /\ translated(data) \in Seq(Name)
         /\ ToSet(translated(data)) =
              {tr(n, data.ids) : n \in ToSet(Asked(data)) \ new_source(data)}
<1> DEFINE known == {n \in ToSet(Asked(data)) : tr(n, data.ids) # n}
           numbers == Among(Asked(data), known)
           result == [k \in DOMAIN numbers |-> tr(numbers[k], data.ids)]
<1>1. numbers \in Seq(Name) /\ ToSet(numbers) = ToSet(Asked(data)) \ new_source(data)
  <2>1. ToSet(Asked(data)) \cap known = ToSet(Asked(data)) \ new_source(data)
    BY DEF new_source
  <2> HIDE DEF known
  <2> QED
    BY <2>1, AskedNames, AmongElements
<1>2. translated(data) = result
  BY DEF translated
<1> HIDE DEF numbers, known
<1>3. /\ DOMAIN numbers = 1 .. Len(numbers) /\ Len(numbers) \in Nat
      /\ \A k \in DOMAIN numbers : numbers[k] \in Name
  BY <1>1
<1>4. \A k \in DOMAIN numbers : tr(numbers[k], data.ids) \in Name
  BY <1>3, Translates DEF DataTyping
<1>5. result \in Seq(Name)
  BY <1>3, <1>4
<1>6. ToSet(result) = {tr(n, data.ids) : n \in ToSet(numbers)}
  BY DEF ToSet
<1> QED
  BY <1>1, <1>2, <1>5, <1>6

LEMMA LoadNames ==
  ASSUME NEW data, DataTyping(data), names \in CmdLines
  PROVE  /\ NamesToLoad(data) \in Seq(Name) /\ NamesToLoad(data) # <<>>
         /\ new_source(data) = {} =>
              ToSet(NamesToLoad(data)) = {tr(n, data.ids) : n \in ToSet(Asked(data))}
<1> DEFINE wanted == translated(data) \o really_new(data)
<1>1. /\ really_new(data) \in Seq(Name)
      /\ ToSet(really_new(data)) \subseteq new_source(data)
  BY AskedNames, AmongElements DEF really_new
<1>2. wanted \in Seq(Name) /\ ToSet(wanted) = ToSet(translated(data)) \cup ToSet(really_new(data))
  BY <1>1, TranslatedNames, ConcatElements
<1>3. NamesToLoad(data) = IF wanted = <<>> THEN Asked(data) ELSE wanted
  BY DEF NamesToLoad
<1> HIDE DEF wanted
<1>4. CASE wanted = <<>>
  <2>1. ToSet(wanted) = {}
    BY <1>4, NoElement
  <2>2. ToSet(Asked(data)) \ new_source(data) = {}
    <3>1. ToSet(translated(data)) = {}
      BY <1>2, <2>1
    <3>2. {tr(n, data.ids) : n \in ToSet(Asked(data)) \ new_source(data)} = {}
      BY <3>1, TranslatedNames
    <3> QED
      BY <3>2
  <2> QED
    BY <1>3, <1>4, <2>2, AskedNames
<1>5. CASE wanted # <<>>
  <2>1. new_source(data) = {} => ToSet(wanted) = {tr(n, data.ids) : n \in ToSet(Asked(data))}
    <3> SUFFICES ASSUME new_source(data) = {}
                 PROVE  ToSet(wanted) = {tr(n, data.ids) : n \in ToSet(Asked(data))}
      OBVIOUS
    <3>1. ToSet(really_new(data)) = {} /\ ToSet(Asked(data)) \ new_source(data) = ToSet(Asked(data))
      BY <1>1
    <3> QED
      BY <1>2, <3>1, TranslatedNames
  <2> QED
    BY <1>2, <1>3, <1>5, <2>1
<1> QED
  BY <1>4, <1>5

\* A run over translated ids alone runs their tests; one over noted failures is such a run.
LEMMA PlanKnown ==
  ASSUME NEW data, DataTyping(data), names \in CmdLines
  PROVE  /\ Planned(data) \in Seq(Tests \cup {NoTest})
         /\ new_source(data) = {} => ToSet(Planned(data)) \subseteq ToSet(data.ids)
         /\ Looping(data.failed) =>
              /\ new_source(data) = {}
              /\ ToSet(Planned(data)) = {data.ids[i] : i \in ToSet(data.failed)}
<1> DEFINE asked == ToSet(Asked(data))
<1>1. \A n \in asked : n \in Name
  BY AskedNames DEF ToSet
<1>2. /\ Planned(data) \in Seq(Tests \cup {NoTest})
      /\ ToSet(Planned(data)) = UNION {ToSet(Loads(n)) : n \in ToSet(NamesToLoad(data))}
  BY LoadNames, PlanElements
<1>3. Numbering(data.ids)
  BY DEF DataTyping
<1>4. ASSUME new_source(data) = {}
      PROVE  /\ \A n \in asked : n[2] \in DOMAIN data.ids
             /\ ToSet(Planned(data)) = {data.ids[n[2]] : n \in asked}
  <2>1. \A n \in asked : tr(n, data.ids) # n
    BY <1>4 DEF new_source
  <2>2. \A n \in asked : n[2] \in DOMAIN data.ids /\ ToSet(Loads(tr(n, data.ids))) = {data.ids[n[2]]}
    BY <1>1, <1>3, <2>1, Translates
  <2>3. ToSet(NamesToLoad(data)) = {tr(n, data.ids) : n \in asked}
    BY <1>4, LoadNames
  <2> HIDE DEF asked
  <2>4. UNION {ToSet(Loads(n)) : n \in ToSet(NamesToLoad(data))} = {data.ids[n[2]] : n \in asked}
    BY <2>2, <2>3
  <2> QED
    BY <1>2, <2>2, <2>4
<1>5. CASE Looping(data.failed)
  <2>1. asked = {IdName(i) : i \in ToSet(data.failed)}
    BY <1>5, AskedNames
  <2>2. ToSet(data.failed) \subseteq DOMAIN data.ids
    BY DEF DataTyping, Numbering, ToSet
  <2>3. new_source(data) = {}
    <3>1. \A n \in asked : tr(n, data.ids) # n
      BY <1>1, <1>3, <2>1, <2>2, Translates
    <3> QED
      BY <3>1 DEF new_source
  <2>4. {data.ids[n[2]] : n \in asked} = {data.ids[i] : i \in ToSet(data.failed)}
    <3>1. \A i : IdName(i)[2] = i
      BY DEF IdName
    <3> HIDE DEF asked
    <3> QED
      BY <2>1, <3>1
  <2> HIDE DEF asked
  <2> QED
    BY <1>2, <1>4, <2>3, <2>4 DEF ToSet
<1>6. CASE ~Looping(data.failed)
  BY <1>2, <1>4, <1>6 DEF ToSet
<1> QED
  BY <1>5, <1>6

-----------------------------------------------------------------------------
(* The invariant.                                                          *)

LEMMA NoneIsEmpty == None = <<>> /\ Numbering(None) /\ Numbers(None, 0) /\ IdsOf(None) = None
<1>1. None = <<>> /\ DOMAIN None = {}
  BY DEF None
<1>2. Numbering(None)
  BY <1>1 DEF Numbering, IsInjective
<1>3. Numbers(None, 0)
  BY <1>1 DEF Numbers, IsInjective, None
<1>4. IdsOf(None) = None
  BY DEF IdsOf, None
<1> QED
  BY <1>1, <1>2, <1>3, <1>4

LEMMA InitInv == Init => Inv
<1> SUFFICES ASSUME Init PROVE Inv
  OBVIOUS
<1>1. FileTyping
  <2>1. ASSUME NEW t \in Methods PROVE Numbering(<<t>>)
    BY DEF Numbering, IsInjective
  <2> QED
    BY <2>1 DEF Init, FileTyping, Unreadable, Old
<1>2. PluginTyping
  <2>1. nextId - 1 = 0 /\ nextId \in Nat \ {0}
    BY DEF Init
  <2>2. Numbering(ids) /\ Numbers(tests, nextId - 1) /\ failed \in Seq(1 .. nextId - 1)
    BY <2>1, NoneIsEmpty DEF Init
  <2>3. collecting \in BOOLEAN /\ loopOnFailed \in BOOLEAN /\ passed \in BOOLEAN
    BY DEF Init
  <2>4. plan \in Seq(Tests \cup {NoTest}) /\ source_names = {} /\ problematic = {} /\ pc = "off"
    BY DEF Init
  <2> QED
    BY <2>1, <2>2, <2>3, <2>4 DEF PluginTyping
<1>3. Complete
  BY DEF Init, Complete
<1>4. ShownKept
  <2>1. CASE file.kind = "old"
    BY <2>1 DEF Init, ShownKept, Includes
  <2>2. CASE file.kind # "old"
    BY <2>2, NoneIsEmpty DEF Init, ShownKept, Unreadable, Old, Includes
  <2> QED
    BY <2>1, <2>2
<1>5. FailuresKept
  BY NoneIsEmpty DEF Init, FailuresKept, NotedNow
<1>6. FailuresNoted
  BY DEF Init, FailuresNoted
<1> QED
  BY <1>1, <1>2, <1>3, <1>4, <1>5, <1>6 DEF Inv

LEMMA ConfigureKeeps == ASSUME Inv, configure PROVE Inv'
<1>1. FileTyping' /\ ShownKept' /\ FailuresNoted'
  BY DEF Inv, configure, FileTyping, ShownKept, FailuresNoted, Noted, seen, Names, Includes,
         Numbering
<1>2. PluginTyping'
  BY NoneIsEmpty DEF configure, PluginTyping, Numbering, Numbers
<1>3. Complete' /\ FailuresKept'
  BY NoneIsEmpty DEF configure, Complete, FailuresKept, NotedNow
<1> QED
  BY <1>1, <1>2, <1>3 DEF Inv

LEMMA LoadKeeps == ASSUME Inv, loadTestsFromNames PROVE Inv'
<1> DEFINE data == Read
           n == Len(data.ids)
<1>1. /\ pc = "load" /\ pc' = "run" /\ file.kind # "damaged" /\ names \in CmdLines /\ fell = {}
      /\ FileTyping /\ ShownKept /\ FailuresNoted
      /\ UNCHANGED <<file, names, loopOnFailed, problematic, passed, executed, fell, seen>>
  BY DEF loadTestsFromNames, Inv, PluginTyping, FailuresKept
<1>2. /\ ids' = data.ids
      /\ tests' = AntiFunction(data.ids)
      /\ nextId' = NewId(data.ids)
      /\ failed' = FailedBefore(data.failed)
      /\ source_names' = data.source_names \cup new_source(data)
      /\ collecting' = (~Looping(data.failed) /\ new_source(data) # {})
      /\ rerun' = Looping(data.failed)
      /\ plan' = Planned(data)
  BY DEF loadTestsFromNames, Planned
<1>3. DataTyping(data)
  BY <1>1, ReadTyping
<1>4. /\ file.kind \in {"old", "data"} => data.ids = file.ids
      /\ file.kind \in {"absent", "foreign", "old", "data"}
  <2>1. file.kind = "data" => data = file
    BY DEF Read
  <2>2. file.kind = "old" => data = Data(file.ids, <<>>, ToSet(names))
    BY DEF Read
  <2> QED
    BY <1>1, <2>1, <2>2 DEF FileTyping, Data
<1> HIDE DEF data
<1>5. /\ Numbering(data.ids) /\ n \in Nat /\ NewId(data.ids) = n + 1
      /\ Numbers(AntiFunction(data.ids), n)
      /\ DOMAIN AntiFunction(data.ids) = ToSet(data.ids)
      /\ IdsOf(AntiFunction(data.ids)) = data.ids
  BY <1>3, NumbersOfIds, NewIdNext DEF DataTyping, Numbering
<1>6. /\ FailedBefore(data.failed) \in Seq(1 .. n)
      /\ Looping(data.failed) => FailedBefore(data.failed) = <<>>
  <2>1. <<>> \in Seq(1 .. n) /\ data.failed \in Seq(1 .. n)
    BY <1>3 DEF DataTyping
  <2> QED
    BY <2>1 DEF FailedBefore
<1>7. /\ Planned(data) \in Seq(Tests \cup {NoTest})
      /\ new_source(data) = {} => ToSet(Planned(data)) \subseteq ToSet(data.ids)
      /\ Looping(data.failed) => new_source(data) = {}
  BY <1>1, <1>3, PlanKnown
<1>8. new_source(data) \subseteq Names
  <2>1. Looping(data.failed) \/ Asked(data) = names
    BY DEF Asked
  <2>2. ToSet(names) \subseteq Names
    BY <1>1 DEF Names
  <2> QED
    BY <1>7, <2>1, <2>2 DEF new_source
<1>9. FileTyping' /\ FailuresNoted'
  BY <1>1 DEF FileTyping, FailuresNoted, Noted, Names, seen, Numbering
<1>10. PluginTyping'
  <2>1. nextId' \in Nat \ {0} /\ nextId' - 1 = n
    BY <1>2, <1>5
  <2>2. Numbering(ids)' /\ Numbers(tests', nextId' - 1)
    BY <1>2, <1>5, <2>1 DEF Numbering
  <2>3. failed' \in Seq(1 .. nextId' - 1) /\ source_names' \subseteq Names
    BY <1>2, <1>3, <1>6, <1>8, <2>1 DEF DataTyping
  <2>4. Inv
    OBVIOUS
  <2> QED
    BY <1>1, <1>2, <1>7, <2>1, <2>2, <2>3, <2>4 DEF PluginTyping, Inv, Numbers, Names
<1>11. Complete'
  <2>1. IdsOf(tests') = data.ids /\ DOMAIN tests' = ToSet(data.ids) /\ ids' = data.ids
    BY <1>2, <1>5
  <2>2. ~collecting' => ToSet(plan') \subseteq ToSet(data.ids)
    <3>1. ~collecting' => new_source(data) = {}
      BY <1>2, <1>7
    <3> QED
      BY <1>2, <1>7, <3>1
  <2>3. ~collecting' => ids' = IdsOf(tests') /\ ToSet(plan') \subseteq DOMAIN tests'
    BY <2>1, <2>2
  <2> QED
    BY <2>3 DEF Complete, IdsOf, ToSet
<1>12. ShownKept'
  <2>1. Includes(data.ids, shown)
    BY <1>1, <1>4 DEF ShownKept, Includes
  <2> QED
    BY <1>1, <1>2, <1>5, <2>1 DEF ShownKept, Includes, seen, IdsOf
<1>13. FailuresKept'
  <2>1. rerun' => NotedNow' = {}
    BY <1>2, <1>6, NoElement DEF NotedNow
  <2> QED
    BY <1>1, <2>1 DEF FailuresKept
<1> QED
  BY <1>9, <1>10, <1>11, <1>12, <1>13 DEF Inv

\* A test that is started has a number if it has an address, and keeps those of the others.
LEMMA StartsNumbered ==
  ASSUME Inv, NEW t \in Tests \cup {NoTest}, startTest(t)
  PROVE  /\ nextId' \in Nat \ {0} /\ nextId' >= nextId /\ Numbers(tests', nextId' - 1)
         /\ \A u \in DOMAIN tests : u \in DOMAIN tests' /\ tests'[u] = tests[u]
         /\ \A u \in DOMAIN tests' \ DOMAIN tests : u = t /\ tests'[u] = nextId
         /\ t \in Methods => t \in DOMAIN tests'
         /\ problematic' \subseteq Tests \cup {NoTest}
         /\ t \in DOMAIN tests \/ t \notin Methods => tests' = tests /\ nextId' = nextId
<1>1. nextId \in Nat \ {0} /\ Numbers(tests, nextId - 1) /\ problematic \subseteq Tests \cup {NoTest}
  BY DEF Inv, PluginTyping
<1>2. CASE t \in Methods /\ t \notin DOMAIN tests
  <2>1. /\ tests' = Joined(tests, [u \in {t} |-> nextId]) /\ nextId' = nextId + 1
        /\ UNCHANGED problematic
    BY <1>2 DEF startTest, HasAddress
  <2>2. nextId - 1 \in Nat /\ (nextId - 1) + 1 = nextId /\ nextId' - 1 = nextId
    BY <1>1, <2>1
  <2>3. /\ Numbers(tests', nextId) /\ DOMAIN tests' = DOMAIN tests \cup {t}
        /\ tests'[t] = nextId /\ \A u \in DOMAIN tests : tests'[u] = tests[u]
    <3>1. PICK n \in Nat : n = nextId - 1 /\ n + 1 = nextId
      BY <2>2
    <3>2. PICK more : more = Joined(tests, [u \in {t} |-> n + 1]) /\ more = tests'
      BY <2>1, <3>1
    <3>3. OneMore(more, tests, n, t)
      <4>1. Numbers(tests, n) /\ t \in Methods /\ t \notin DOMAIN tests
        BY <1>1, <1>2, <3>1
      <4>2. more = Joined(tests, [u \in {t} |-> n + 1])
        BY <3>2
      <4> QED
        BY <4>1, <4>2, NumbersOneMore
    <3> QED
      BY <3>1, <3>2, <3>3 DEF OneMore
  <2> QED
    BY <1>1, <1>2, <2>1, <2>2, <2>3
<1>3. CASE ~(t \in Methods /\ t \notin DOMAIN tests)
  <2>1. tests' = tests /\ nextId' = nextId /\ problematic' \subseteq problematic \cup {t}
    BY <1>3 DEF startTest, HasAddress
  <2> QED
    BY <1>1, <1>3, <2>1
<1> QED
  BY <1>2, <1>3

LEMMA OneLess == ASSUME NEW m \in Nat \ {0} PROVE m - 1 \in Nat
OBVIOUS

LEMMA IntervalWidens ==
  ASSUME NEW m \in Nat \ {0}, NEW n \in Nat \ {0}, n >= m
  PROVE  1 .. m - 1 \subseteq 1 .. n - 1
OBVIOUS

LEMMA SeqWidens ==
  ASSUME NEW S, NEW T, S \subseteq T, NEW s \in Seq(S)
  PROVE  s \in Seq(T)
<1>1. Len(s) \in Nat /\ s \in [1 .. Len(s) -> T]
  OBVIOUS
<1> QED
  BY <1>1

\* A step that leaves the plugin alone but for failures it forgets.
LEMMA PluginKept ==
  ASSUME Inv,
         UNCHANGED <<names, loopOnFailed, ids, tests, nextId, source_names, collecting, problematic>>,
         UNCHANGED <<plan, passed>>,
         failed' \in Seq(1 .. nextId - 1),
         pc' \in {"off", "load", "run", "save"}, pc' # "off" => pc # "off"
  PROVE  PluginTyping' /\ Complete'
<1>1. Numbering(ids') /\ Numbers(tests', nextId' - 1) /\ nextId' \in Nat \ {0}
  BY DEF Inv, PluginTyping
<1>2. collecting' \in BOOLEAN /\ loopOnFailed' \in BOOLEAN /\ passed' \in BOOLEAN
  BY DEF Inv, PluginTyping
<1>3. failed' \in Seq(1 .. nextId' - 1)
  OBVIOUS
<1>4. /\ source_names' \subseteq Names /\ plan' \in Seq(Tests \cup {NoTest})
      /\ problematic' \subseteq Tests \cup {NoTest} /\ (pc' # "off" => names' \in CmdLines)
  BY DEF Inv, PluginTyping
<1>5. PluginTyping'
  BY <1>1, <1>2, <1>3, <1>4 DEF PluginTyping, Numbering, Numbers, Names
<1>6. ~collecting' => ids' = IdsOf(tests') /\ ToSet(plan') \subseteq DOMAIN tests'
  BY DEF Inv, Complete
<1>7. Complete'
  BY <1>6 DEF Complete, IdsOf, ToSet
<1> QED
  BY <1>5, <1>7

LEMMA RunTestKeeps ==
  ASSUME Inv, NEW outcome \in {"pass", "fail", "interrupt"}, RunTest(outcome)
  PROVE  Inv'
<1>0. PICK t : t = Head(plan)
  OBVIOUS
<1>1. /\ pc = "run" /\ plan # <<>> /\ plan \in Seq(Tests \cup {NoTest})
      /\ t \in Tests \cup {NoTest} /\ t \in ToSet(plan)
      /\ startTest(t) /\ afterTest(t, outcome)
      /\ plan' = IF outcome = "interrupt" THEN <<>> ELSE Tail(plan)
      /\ passed' = (passed /\ outcome # "fail")
      /\ fell' = IF outcome = "fail" /\ t \in Methods THEN fell \cup {t} ELSE fell
      /\ UNCHANGED <<file, pc, names, loopOnFailed, ids, source_names, collecting, rerun, seen>>
  <2>1. plan # <<>> /\ plan \in Seq(Tests \cup {NoTest})
    BY DEF Inv, PluginTyping, RunTest
  <2>2. 1 \in DOMAIN plan /\ plan[1] = t /\ plan[1] \in Tests \cup {NoTest}
    BY <1>0, <2>1
  <2> QED
    BY <1>0, <2>1, <2>2 DEF RunTest, HasAddress, ToSet
<1>2. /\ nextId \in Nat \ {0} /\ Numbers(tests, nextId - 1) /\ failed \in Seq(1 .. nextId - 1)
      /\ nextId' \in Nat \ {0} /\ nextId' >= nextId /\ Numbers(tests', nextId' - 1)
  BY <1>1, StartsNumbered DEF Inv, PluginTyping
<1>12. nextId \in Nat \ {0} /\ nextId' \in Nat \ {0} /\ nextId' >= nextId
  BY <1>2
<1>3. /\ \A u \in DOMAIN tests : u \in DOMAIN tests' /\ tests'[u] = tests[u]
      /\ \A u \in DOMAIN tests' \ DOMAIN tests : u = t /\ tests'[u] = nextId
      /\ t \in Methods => t \in DOMAIN tests'
      /\ problematic' \subseteq Tests \cup {NoTest}
      /\ t \in DOMAIN tests \/ t \notin Methods => tests' = tests /\ nextId' = nextId
  BY <1>1, StartsNumbered
<1>4. \A u \in DOMAIN tests' : tests'[u] \in 1 .. nextId' - 1
  BY <1>2 DEF Numbers
<1>5. /\ failed' \in Seq(1 .. nextId' - 1)
      /\ ToSet(failed') = IF outcome = "fail" /\ t \in Methods
                            THEN ToSet(failed) \cup {tests'[t]} ELSE ToSet(failed)
  <2>1. failed \in Seq(1 .. nextId' - 1)
    <3>1. 1 .. nextId - 1 \subseteq 1 .. nextId' - 1
      BY <1>12, IntervalWidens
    <3> QED
      BY <1>2, <3>1, SeqWidens
  <2>2. CASE outcome = "fail" /\ t \in Methods /\ tests'[t] \notin ToSet(failed)
    <3>1. failed' = Append(failed, tests'[t]) /\ tests'[t] \in 1 .. nextId' - 1
      BY <1>1, <1>3, <1>4, <2>2 DEF afterTest, HasAddress
    <3>2. /\ failed' \in Seq(1 .. nextId' - 1) /\ Len(failed') = Len(failed) + 1
          /\ \A i \in 1 .. Len(failed) : failed'[i] = failed[i]
          /\ failed'[Len(failed) + 1] = tests'[t]
      BY <2>1, <3>1, AppendProperties
    <3>3. DOMAIN failed' = DOMAIN failed \cup {Len(failed) + 1} /\ DOMAIN failed = 1 .. Len(failed)
      BY <2>1, <3>2
    <3>4. ToSet(failed') = ToSet(failed) \cup {tests'[t]}
      BY <3>2, <3>3 DEF ToSet
    <3> QED
      BY <2>2, <3>2, <3>4
  <2>3. CASE ~(outcome = "fail" /\ t \in Methods /\ tests'[t] \notin ToSet(failed))
    <3>1. failed' = failed
      BY <1>1, <2>3 DEF afterTest, HasAddress
    <3> QED
      BY <2>1, <2>3, <3>1
  <2> QED
    BY <2>2, <2>3
<1>6. FileTyping' /\ FailuresNoted'
  BY <1>1 DEF Inv, FileTyping, FailuresNoted, Noted, seen, Names, Numbering
<1>7. plan' \in Seq(Tests \cup {NoTest}) /\ ToSet(plan') \subseteq ToSet(plan)
  <2>1. CASE outcome = "interrupt"
    BY <1>1, <2>1, NoElement
  <2>2. CASE outcome # "interrupt"
    <3>1. plan' = Tail(plan)
      BY <1>1, <2>2
    <3>2. /\ Tail(plan) \in Seq(Tests \cup {NoTest}) /\ Len(Tail(plan)) = Len(plan) - 1
          /\ \A i \in 1 .. Len(Tail(plan)) : Tail(plan)[i] = plan[i + 1]
      BY <1>1, HeadTailProperties
    <3>3. \A i \in DOMAIN Tail(plan) : i + 1 \in DOMAIN plan /\ Tail(plan)[i] = plan[i + 1]
      BY <1>1, <3>2
    <3> QED
      BY <3>1, <3>2, <3>3 DEF ToSet
  <2> QED
    BY <2>1, <2>2
<1>8. PluginTyping'
  <2>1. passed' \in BOOLEAN
    BY <1>1 DEF Inv, PluginTyping
  <2>2. Numbers(tests', nextId' - 1) /\ Numbering(ids')
    BY <1>1, <1>2 DEF Inv, PluginTyping
  <2> QED
    BY <1>1, <1>2, <1>3, <1>5, <1>7, <2>1, <2>2 DEF Inv, PluginTyping, Numbers, Numbering, Names
<1>9. Complete'
  <2> SUFFICES ASSUME ~collecting' PROVE ids' = IdsOf(tests') /\ ToSet(plan') \subseteq DOMAIN tests'
    BY DEF Complete, IdsOf, ToSet
  <2>1. ids = IdsOf(tests) /\ ToSet(plan) \subseteq DOMAIN tests
    BY <1>1 DEF Inv, Complete
  <2>2. tests' = tests
    BY <1>1, <1>3, <2>1
  <2> QED
    BY <1>1, <1>7, <2>1, <2>2
<1>10. ShownKept'
  <2>1. Includes(IdsOf(tests), shown)
    BY <1>1 DEF Inv, ShownKept
  <2>2. /\ DOMAIN IdsOf(tests) = 1 .. nextId - 1 /\ DOMAIN IdsOf(tests') = 1 .. nextId' - 1
        /\ \A i \in 1 .. nextId - 1 : IdsOf(tests)[i] \in DOMAIN tests /\ tests[IdsOf(tests)[i]] = i
        /\ \A u \in DOMAIN tests' : IdsOf(tests')[tests'[u]] = u
    <3>1. nextId - 1 \in Nat /\ nextId' - 1 \in Nat
      BY <1>12, OneLess
    <3>2. /\ Numbering(IdsOf(tests)) /\ Len(IdsOf(tests)) = nextId - 1
          /\ \A i \in 1 .. nextId - 1 : IdsOf(tests)[i] \in DOMAIN tests /\ tests[IdsOf(tests)[i]] = i
      BY <1>2, <3>1, IdsOfNumbers
    <3>3. /\ Numbering(IdsOf(tests')) /\ Len(IdsOf(tests')) = nextId' - 1
          /\ \A u \in DOMAIN tests' : IdsOf(tests')[tests'[u]] = u
      BY <1>2, <3>1, IdsOfNumbers
    <3> QED
      BY <3>2, <3>3 DEF Numbering
  <2>3. \A i \in 1 .. nextId - 1 : i \in 1 .. nextId' - 1 /\ IdsOf(tests')[i] = IdsOf(tests)[i]
    <3>1. 1 .. nextId - 1 \subseteq 1 .. nextId' - 1
      BY <1>12, IntervalWidens
    <3> QED
      BY <1>3, <2>2, <3>1
  <2>4. Includes(IdsOf(tests'), shown)
    BY <2>1, <2>2, <2>3 DEF Includes
  <2> QED
    BY <1>1, <2>4 DEF Inv, ShownKept, Includes, seen, IdsOf
<1>11. FailuresKept'
  <2>1. \A u \in DOMAIN tests : tests[u] \in 1 .. nextId - 1 /\ tests[u] # nextId
    BY <1>2 DEF Numbers
  <2>2. ToSet(failed) \subseteq 1 .. nextId - 1 /\ nextId \notin ToSet(failed)
    BY <1>2 DEF ToSet
  <2>3. NotedNow' = IF outcome = "fail" /\ t \in Methods THEN NotedNow \cup {t} ELSE NotedNow
    <3>1. \A u \in DOMAIN tests' : tests'[u] \in ToSet(failed) <=> u \in NotedNow
      BY <1>3, <2>1, <2>2 DEF NotedNow
    <3>2. NotedNow \subseteq DOMAIN tests'
      BY <1>3 DEF NotedNow
    <3>3. NotedNow' = {u \in DOMAIN tests' : tests'[u] \in ToSet(failed')}
      BY DEF NotedNow, ToSet
    <3>4. CASE outcome = "fail" /\ t \in Methods
      <4>1. t \in DOMAIN tests' /\ \A u \in DOMAIN tests' : tests'[u] = tests'[t] => u = t
        BY <1>2, <1>3, <3>4 DEF Numbers, IsInjective
      <4>2. ToSet(failed') = ToSet(failed) \cup {tests'[t]}
        BY <1>5, <3>4
      <4> QED
        BY <3>1, <3>2, <3>3, <3>4, <4>1, <4>2
    <3>5. CASE ~(outcome = "fail" /\ t \in Methods)
      BY <1>5, <3>1, <3>2, <3>3, <3>5
    <3> QED
      BY <3>4, <3>5
  <2> QED
    BY <1>1, <2>3 DEF Inv, FailuresKept
<1> QED
  BY <1>6, <1>8, <1>9, <1>10, <1>11 DEF Inv

LEMMA OpenKeeps == ASSUME Inv, finalizeOpen PROVE Inv'
<1>1. failed' \in Seq(1 .. nextId - 1)
  <2>1. failed \in Seq(1 .. nextId - 1) /\ <<>> \in Seq(1 .. nextId - 1)
    BY DEF Inv, PluginTyping
  <2> QED
    BY <2>1 DEF finalizeOpen
<1>2. FileTyping' /\ FailuresNoted'
  BY DEF finalizeOpen, FileTyping, FailuresNoted, Unreadable
<1>3. PluginTyping' /\ Complete'
  BY <1>1, PluginKept DEF finalizeOpen, progress
<1>4. ShownKept'
  <2>1. file'.kind = "damaged" /\ Includes(IdsOf(tests'), shown')
    BY DEF Inv, ShownKept, finalizeOpen, Unreadable, seen
  <2> QED
    BY <2>1 DEF ShownKept, Includes, IdsOf
<1>5. FailuresKept'
  <2>1. CASE passed
    BY <2>1, NoElement DEF Inv, FailuresKept, finalizeOpen, progress, NotedNow
  <2>2. CASE ~passed
    BY <2>2 DEF Inv, FailuresKept, finalizeOpen, progress, NotedNow, ToSet
  <2> QED
    BY <2>1, <2>2
<1> QED
  BY <1>2, <1>3, <1>4, <1>5 DEF Inv

LEMMA DumpKeeps == ASSUME Inv, finalizeDump PROVE Inv'
<1> DEFINE known == IdsOf(tests)
           n == nextId - 1
<1>1. /\ nextId \in Nat \ {0} /\ n \in Nat /\ Numbers(tests, n) /\ failed \in Seq(1 .. n)
      /\ source_names \subseteq Names
  BY DEF Inv, PluginTyping
<1>2. /\ Numbering(known) /\ Len(known) = n
      /\ \A t \in DOMAIN tests : known[tests[t]] = t
      /\ \A i \in 1 .. n : known[i] \in DOMAIN tests /\ tests[known[i]] = i
  BY <1>1, IdsOfNumbers
<1>3. SavedIds = known
  BY DEF SavedIds, Inv, Complete
<1>4. /\ file' = Data(known, failed, source_names) /\ shown' = Joined(shown, known)
      /\ broken' = fell /\ looped' = rerun /\ pc = "save" /\ pc' = "off" /\ UNCHANGED <<memory, progress>>
  BY <1>3 DEF finalizeDump
<1>5. /\ file'.kind = "data" /\ file'.ids = known /\ file'.failed = failed
      /\ file'.source_names = source_names
  BY <1>4 DEF Data
<1>6. FileTyping'
  BY <1>1, <1>2, <1>5 DEF FileTyping, Numbering, Names
<1>7. PluginTyping' /\ Complete'
  BY <1>1, <1>4, PluginKept DEF memory, progress
<1>8. FailuresKept'
  BY <1>4 DEF Inv, FailuresKept, memory, progress, NotedNow, ToSet
<1>9. ShownKept'
  <2>1. Includes(known, shown)
    BY <1>4 DEF Inv, ShownKept
  <2>2. Includes(known, shown')
    BY <1>4, <2>1 DEF Includes, Joined
  <2> QED
    BY <1>4, <1>5, <2>2 DEF ShownKept, Includes, IdsOf
<1>10. FailuresNoted'
  <2>1. ToSet(failed) \subseteq 1 .. n
    BY <1>1 DEF ToSet
  <2>2. {known[i] : i \in ToSet(failed)} = NotedNow
    <3>1. \A i \in ToSet(failed) : known[i] \in NotedNow
      BY <1>2, <2>1 DEF NotedNow
    <3>2. \A t \in NotedNow : tests[t] \in ToSet(failed) /\ known[tests[t]] = t
      BY <1>2 DEF NotedNow
    <3> QED
      BY <3>1, <3>2
  <2>3. Noted' = NotedNow
    BY <1>5, <2>2 DEF Noted, ToSet
  <2> QED
    BY <1>4, <2>3 DEF Inv, FailuresKept, FailuresNoted, Noted, ToSet
<1> QED
  BY <1>6, <1>7, <1>8, <1>9, <1>10 DEF Inv

LEMMA NextKeeps == ASSUME Inv, [Next]_vars PROVE Inv'
<1>1. CASE loadFails \/ Kill \/ UNCHANGED vars
  <2>1. UNCHANGED <<file, memory, progress, seen>> /\ (pc' = pc \/ pc' = "off")
    BY <1>1 DEF loadFails, Kill, vars
  <2>2. FileTyping' /\ FailuresNoted'
    BY <2>1 DEF Inv, FileTyping, FailuresNoted, Noted, seen, Names, Numbering
  <2>3. PluginTyping' /\ Complete'
    <3>1. failed' \in Seq(1 .. nextId - 1) /\ pc' \in {"off", "load", "run", "save"}
      BY <2>1 DEF Inv, PluginTyping, memory
    <3> QED
      BY <2>1, <3>1, PluginKept DEF memory, progress
  <2>4. ShownKept' /\ FailuresKept'
    BY <2>1 DEF Inv, ShownKept, FailuresKept, memory, progress, seen, NotedNow, Includes, IdsOf,
                ToSet
  <2> QED
    BY <2>2, <2>3, <2>4 DEF Inv
<1>2. CASE RemoveFile
  <2>1. UNCHANGED <<pc, memory, progress>> /\ pc = "off" /\ file' = Unreadable("absent")
        /\ shown' = None
    BY <1>2 DEF RemoveFile
  <2>2. FileTyping' /\ FailuresNoted'
    BY <2>1 DEF FileTyping, FailuresNoted, Unreadable
  <2>3. PluginTyping' /\ Complete'
    <3>1. failed' \in Seq(1 .. nextId - 1) /\ pc' \in {"off", "load", "run", "save"}
      BY <2>1 DEF Inv, PluginTyping, memory
    <3> QED
      BY <2>1, <3>1, PluginKept DEF memory, progress
  <2>4. FailuresKept'
    BY <2>1 DEF Inv, FailuresKept, memory, progress, NotedNow, ToSet
  <2>5. ShownKept'
    BY <2>1, NoneIsEmpty DEF ShownKept, Unreadable, Includes
  <2> QED
    BY <2>2, <2>3, <2>4, <2>5 DEF Inv
<1> QED
  BY <1>1, <1>2, ConfigureKeeps, LoadKeeps, RunTestKeeps, OpenKeeps, DumpKeeps DEF Next

-----------------------------------------------------------------------------
(* Theorems.                                                               *)

LEMMA InvKept == Spec => []Inv
<1>1. Init => Inv
  BY InitInv
<1>2. Inv /\ [Next]_vars => Inv'
  BY NextKeeps
<1> QED
  BY <1>1, <1>2, PTL DEF Spec

LEMMA RangeOfNumbering ==
  ASSUME NEW known, Numbering(known)
  PROVE  Range(known) \subseteq Methods /\ DOMAIN known = 1 .. Len(known) /\ IsInjective(known)
BY DEF Numbering, Range

LEMMA InvTypes == Inv => TypeOK
<1> SUFFICES ASSUME Inv PROVE TypeOK
  OBVIOUS
<1>1. file.kind = "data" =>
        /\ Range(file.ids) \subseteq Methods
        /\ ToSet(file.failed) \subseteq DOMAIN file.ids
        /\ file.source_names \subseteq Names
  BY RangeOfNumbering DEF Inv, FileTyping, ToSet
<1>2. Range(ids) \subseteq Methods /\ DOMAIN tests \subseteq Methods
  BY RangeOfNumbering DEF Inv, PluginTyping, Numbers
<1>3. nextId \in 1 .. Cardinality(Methods) + 1
  <2>1. nextId \in Nat \ {0} /\ nextId - 1 \in Nat /\ Numbers(tests, nextId - 1)
    BY DEF Inv, PluginTyping
  <2>2. nextId - 1 <= Cardinality(Methods) /\ Cardinality(Methods) \in Nat
    BY <2>1, NumbersBound
  <2> QED
    BY <2>1, <2>2
<1>4. ToSet(plan) \subseteq Tests \cup {NoTest}
  BY DEF Inv, PluginTyping, ToSet
<1>5. collecting \in BOOLEAN /\ loopOnFailed \in BOOLEAN /\ passed \in BOOLEAN
  BY DEF Inv, PluginTyping
<1> QED
  BY <1>1, <1>2, <1>3, <1>4, <1>5 DEF TypeOK, Inv, PluginTyping

\* An id that a run which came to its end has printed is in the file and names
\* the same test, and no test has two ids: whatever runs followed, on names or on
\* ids, with --failed or without, interrupted or killed.
THEOREM IdsForGood == Spec => []IdsKept
<1>1. Inv => IdsKept
  <2> SUFFICES ASSUME Inv PROVE IdsKept
    OBVIOUS
  <2>1. file.kind = "data" => Includes(file.ids, shown) /\ IsInjective(file.ids)
    BY RangeOfNumbering DEF Inv, FileTyping, ShownKept
  <2> QED
    BY <2>1, InvTypes DEF IdsKept, Includes
<1> QED
  BY <1>1, InvKept, PTL

\* The file notes each test with an address that failed in the last run that wrote
\* it, and after a run over noted failures no other.
THEOREM FailuresOnFile == Spec => []FailuresNoted
<1>1. Inv => FailuresNoted
  BY DEF Inv
<1> QED
  BY <1>1, InvKept, PTL

LEMMA PlansSomething ==
  ASSUME \A s \in DOMAIN Contents : Contents[s] # <<>>,
         NEW data, DataTyping(data), names \in CmdLines
  PROVE  Planned(data) # <<>>
<1>1. NamesToLoad(data) \in Seq(Name) /\ NamesToLoad(data) # <<>>
  BY LoadNames
<1>2. PICK n \in ToSet(NamesToLoad(data)) : n \in Name
  <2>1. 1 \in DOMAIN NamesToLoad(data) /\ NamesToLoad(data)[1] \in Name
    BY <1>1
  <2> QED
    BY <2>1 DEF ToSet
<1>3. ToSet(Loads(n)) # {}
  <2>1. Loads(n) # <<>>
    BY <1>2 DEF Loads, Name
  <2>2. Loads(n) \in Seq(Tests \cup {NoTest})
    BY <1>2, LoadsTests
  <2>3. 1 \in DOMAIN Loads(n)
    BY <2>1, <2>2
  <2> QED
    BY <2>3 DEF ToSet
<1>4. ToSet(Planned(data)) # {}
  <2>1. ToSet(Planned(data)) = UNION {ToSet(Loads(m)) : m \in ToSet(NamesToLoad(data))}
    BY <1>1, PlanElements
  <2>2. ToSet(Loads(n)) \in {ToSet(Loads(m)) : m \in ToSet(NamesToLoad(data))}
    OBVIOUS
  <2> QED
    BY <1>3, <2>1, <2>2
<1> QED
  BY <1>4, NoElement

\* A run with --failed runs exactly the tests whose failure is noted, whatever the
\* command line names, and when none is noted it runs something all the same, provided
\* that no name loads nothing.
THEOREM FailuresRunAgain ==
  ASSUME \A s \in DOMAIN Contents : Contents[s] # <<>>
  PROVE  Spec => RerunsNoted
<1> DEFINE Reruns == pc = "load" /\ pc' = "run" /\ loopOnFailed =>
                       IF Noted # {} THEN ToSet(plan') = Noted ELSE plan' # <<>>
<1>1. Inv /\ [Next]_vars => Reruns
  <2> SUFFICES ASSUME Inv, [Next]_vars, pc = "load", pc' = "run", loopOnFailed
               PROVE  IF Noted # {} THEN ToSet(plan') = Noted ELSE plan' # <<>>
    OBVIOUS
  <2>1. loadTestsFromNames
    BY DEF Next, configure, loadFails, RunTest, finalizeOpen, finalizeDump, Kill, RemoveFile, vars
  <2>2. plan' = Planned(Read) /\ file.kind # "damaged" /\ names \in CmdLines /\ FileTyping
    BY <2>1 DEF loadTestsFromNames, Planned, Inv, PluginTyping
  <2>3. DataTyping(Read)
    BY <2>2, ReadTyping
  <2>4. Looping(Read.failed) <=> Read.failed # <<>>
    BY DEF Looping
  <2>5. Noted = {Read.ids[i] : i \in ToSet(Read.failed)}
    <3>1. CASE file.kind = "data"
      BY <3>1 DEF Noted, Read
    <3>2. CASE file.kind # "data"
      <4>1. Read.failed = <<>>
        BY <3>2 DEF Read, Data
      <4> QED
        BY <3>2, <4>1, NoElement DEF Noted
    <3> QED
      BY <3>1, <3>2
  <2>6. CASE Noted # {}
    <3>1. Read.failed # <<>>
      BY <2>5, <2>6, NoElement
    <3> QED
      BY <2>2, <2>3, <2>4, <2>5, <2>6, <3>1, PlanKnown
  <2>7. CASE Noted = {}
    BY <2>2, <2>3, <2>7, PlansSomething
  <2> QED
    BY <2>6, <2>7
<1>2. Inv /\ [Next]_vars => [Reruns]_vars
  BY <1>1
<1> QED
  BY <1>2, InvKept, PTL DEF Spec, RerunsNoted

=============================================================================
