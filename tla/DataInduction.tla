--------------------------- MODULE DataInduction ---------------------------
(***************************************************************************)
(* Induction over naturals for properties given as sets, which the provers *)
(* can instantiate, and what it shows of the operators on sequences that   *)
(* the models use.                                                         *)
(***************************************************************************)
EXTENDS Integers, SequencesExt, SequenceTheorems, FiniteSetTheorems, TLAPS

\* A set of naturals that is not empty has a least element.
LEMMA LeastNatural ==
  ASSUME NEW T \in SUBSET Nat, T # {}
  PROVE  \E n \in T : \A m \in T : ~(m < n)
<1> DEFINE Downs == {0 .. n : n \in T}
<1>1. IsWellFoundedOn(StrictSubsetOrdering(Nat), FiniteSubsetsOf(Nat))
  BY FS_StrictSubsetOrderingWellFounded
<1>2. Downs \subseteq FiniteSubsetsOf(Nat) /\ Downs # {}
  <2>1. ASSUME NEW n \in T PROVE 0 .. n \in SUBSET Nat /\ IsFiniteSet(0 .. n)
    BY FS_Interval
  <2> QED
    BY <2>1 DEF FiniteSubsetsOf
<1> HIDE DEF Downs
<1>3. PICK x \in Downs : \A y \in Downs : ~(<<y, x>> \in StrictSubsetOrdering(Nat))
  BY <1>1, <1>2, WFMin
<1>4. PICK n \in T : x = 0 .. n
  BY DEF Downs
<1>5. ASSUME NEW m \in T, m < n PROVE FALSE
  <2>1. 0 .. m \in Downs
    BY DEF Downs
  <2>2. 0 .. m \subseteq 0 .. n /\ 0 .. m # 0 .. n
    <3>1. n \in 0 .. n /\ n \notin 0 .. m /\ n \in Nat /\ m \in Nat
      BY <1>5
    <3> QED
      BY <1>5, <3>1
  <2>3. <<0 .. m, 0 .. n>> \in StrictSubsetOrdering(Nat)
    BY <2>2 DEF StrictSubsetOrdering
  <2> QED
    BY <1>3, <1>4, <2>1, <2>3
<1> QED
  BY <1>5

\* A set that holds 0 and with each natural the next holds them all.
LEMMA SetInduction ==
  ASSUME NEW S, 0 \in S, \A n \in Nat : n \in S => n + 1 \in S
  PROVE  Nat \subseteq S
<1> SUFFICES ASSUME Nat \ S # {} PROVE FALSE
  OBVIOUS
<1>1. PICK n \in Nat \ S : \A m \in Nat \ S : ~(m < n)
  BY LeastNatural
<1>2. n # 0 /\ n - 1 \in Nat
  BY <1>1
<1>3. n - 1 \in S
  BY <1>1, <1>2
<1> QED
  BY <1>1, <1>2, <1>3

\* A function on 0 .. n given by its value at 0 and the step to the next exists.
StepsOn(X, base, n, step) == base \in X /\ n \in Nat /\ step \in [(1 .. n) \X X -> X]
Recurs(f, X, base, n, step) ==
  /\ f \in [0 .. n -> X] /\ f[0] = base
  /\ \A k \in 1 .. n : f[k] = step[<<k, f[k - 1]>>]

LEMMA RecursionExists ==
  ASSUME NEW X, NEW base, NEW n, NEW step, StepsOn(X, base, n, step)
  PROVE  \E f : Recurs(f, X, base, n, step)
<1>0. base \in X /\ n \in Nat /\ step \in [(1 .. n) \X X -> X]
  BY DEF StepsOn
<1> DEFINE Is(f, m) == Recurs(f, X, base, m, step)
           I == {m \in Nat : m <= n => \E f : Is(f, m)}
<1>1. 0 \in I
  <2>1. Is([k \in 0 .. 0 |-> base], 0)
    BY <1>0 DEF Recurs
  <2> QED BY <2>1
<1>2. ASSUME NEW m \in Nat, m \in I PROVE m + 1 \in I
  <2> SUFFICES ASSUME m + 1 <= n PROVE \E f : Is(f, m + 1)
    OBVIOUS
  <2>0. m \in 0 .. n /\ m + 1 \in 1 .. n
    BY <1>0
  <2>1. PICK g : Is(g, m)
    BY <1>0, <1>2, <2>0
  <2> PICK x : x = step[<<m + 1, g[m]>>]
    OBVIOUS
  <2> DEFINE h == [k \in 0 .. m + 1 |-> IF k = m + 1 THEN x ELSE g[k]]
  <2>2. g \in [0 .. m -> X] /\ g[0] = base /\ \A k \in 1 .. m : g[k] = step[<<k, g[k - 1]>>]
    BY <2>1 DEF Recurs
  <2>3. x \in X
    <3>1. <<m + 1, g[m]>> \in (1 .. n) \X X
      BY <2>0, <2>2
    <3> QED BY <1>0, <3>1
  <2>4. h \in [0 .. m + 1 -> X] /\ h[0] = base
    BY <2>2, <2>3
  <2>5. ASSUME NEW k \in 1 .. m + 1 PROVE h[k] = step[<<k, h[k - 1]>>]
    <3>1. CASE k = m + 1
      <4>1. k - 1 = m /\ h[m] = g[m] /\ h[k] = x
        BY <3>1
      <4> QED BY <3>1, <4>1
    <3>2. CASE k # m + 1
      <4>1. k \in 1 .. m /\ h[k] = g[k] /\ h[k - 1] = g[k - 1]
        BY <3>2
      <4> QED BY <2>2, <4>1
    <3> QED BY <3>1, <3>2
  <2> HIDE DEF h
  <2>6. Is(h, m + 1)
    BY <2>4, <2>5 DEF Recurs
  <2> QED BY <2>6
<1> HIDE DEF Is
<1>3. n \in I
  <2> HIDE DEF I
  <2> QED BY <1>0, <1>1, <1>2, SetInduction
<1>4. PICK f : Is(f, n)
  BY <1>0, <1>3
<1> QED BY <1>4 DEF Is

-----------------------------------------------------------------------------
(* FlattenSeq.                                                             *)

\* g[k] is the first k of the sequences, one after the other.
Joins(seqs, g) ==
  /\ g[1] = seqs[1]
  /\ \A k \in 2 .. Len(seqs) : g[k] = g[k - 1] \o seqs[k]

\* The elements of g[k] are those of the first k sequences.
Gathers(S, seqs, g) ==
  \A k \in 1 .. Len(seqs) :
    /\ g[k] \in Seq(S)
    /\ ToSet(g[k]) = UNION {ToSet(seqs[j]) : j \in 1 .. k}

LEMMA ConcatElements ==
  ASSUME NEW S, NEW s \in Seq(S), NEW t \in Seq(S)
  PROVE  s \o t \in Seq(S) /\ ToSet(s \o t) = ToSet(s) \cup ToSet(t)
<1> DEFINE u == s \o t
<1>1. /\ u \in Seq(S) /\ Len(u) = Len(s) + Len(t)
      /\ \A i \in 1 .. Len(s) + Len(t) : u[i] = IF i <= Len(s) THEN s[i] ELSE t[i - Len(s)]
  BY ConcatProperties
<1>2. DOMAIN u = 1 .. Len(u) /\ DOMAIN s = 1 .. Len(s) /\ DOMAIN t = 1 .. Len(t)
  BY <1>1
<1>3. ASSUME NEW i \in DOMAIN u PROVE u[i] \in ToSet(s) \cup ToSet(t)
  BY <1>1, <1>2 DEF ToSet
<1>4. ASSUME NEW i \in DOMAIN s PROVE s[i] \in ToSet(u)
  <2>1. i \in DOMAIN u /\ u[i] = s[i]
    BY <1>1, <1>2
  <2> QED
    BY <2>1 DEF ToSet
<1>5. ASSUME NEW i \in DOMAIN t PROVE t[i] \in ToSet(u)
  <2>1. i + Len(s) \in DOMAIN u /\ u[i + Len(s)] = t[i]
    BY <1>1, <1>2
  <2> QED
    BY <2>1 DEF ToSet
<1> HIDE DEF u
<1>6. ToSet(u) = ToSet(s) \cup ToSet(t)
  BY <1>3, <1>4, <1>5 DEF ToSet
<1> QED
  BY <1>1, <1>6 DEF u

LEMMA GathersAll ==
  ASSUME NEW S, NEW seqs \in Seq(Seq(S)), NEW g, Joins(seqs, g)
  PROVE  Gathers(S, seqs, g)
<1> DEFINE Good(k) == /\ g[k] \in Seq(S)
                      /\ ToSet(g[k]) = UNION {ToSet(seqs[j]) : j \in 1 .. k}
           I == {n \in Nat : n \in 1 .. Len(seqs) => Good(n)}
<1>0. Len(seqs) \in Nat /\ \A k \in 1 .. Len(seqs) : seqs[k] \in Seq(S)
  OBVIOUS
<1>1. 0 \in I
  OBVIOUS
<1>2. ASSUME NEW n \in Nat, n \in I PROVE n + 1 \in I
  <2> SUFFICES ASSUME n + 1 \in 1 .. Len(seqs) PROVE Good(n + 1)
    OBVIOUS
  <2>1. CASE n = 0
    <3>1. g[1] = seqs[1] /\ seqs[1] \in Seq(S) /\ 1 .. 1 = {1}
      BY <1>0, <2>1 DEF Joins
    <3> QED
      BY <2>1, <3>1
  <2>2. CASE n # 0
    <3>1. n \in 1 .. Len(seqs) /\ n + 1 \in 2 .. Len(seqs) /\ (n + 1) - 1 = n
      BY <1>0, <2>2
    <3>2. g[n + 1] = g[n] \o seqs[n + 1]
      BY <3>1 DEF Joins
    <3>3. Good(n)
      BY <1>2, <3>1
    <3>4. seqs[n + 1] \in Seq(S)
      BY <1>0
    <3>5. g[n + 1] \in Seq(S) /\ ToSet(g[n + 1]) = ToSet(g[n]) \cup ToSet(seqs[n + 1])
      BY <3>2, <3>3, <3>4, ConcatElements
    <3>6. 1 .. n + 1 = (1 .. n) \cup {n + 1}
      OBVIOUS
    <3> QED
      BY <3>3, <3>5, <3>6
  <2> QED
    BY <2>1, <2>2
<1> HIDE DEF Good
<1>3. Nat \subseteq I
  <2> HIDE DEF I
  <2> QED
    BY <1>1, <1>2, SetInduction
<1>4. ASSUME NEW k \in 1 .. Len(seqs) PROVE Good(k)
  BY <1>0, <1>3
<1> QED
  BY <1>4 DEF Gathers, Good

LEMMA JoinsExists ==
  ASSUME NEW S, NEW seqs \in Seq(Seq(S)), Len(seqs) > 0
  PROVE  \E g : g = [i \in 1 .. Len(seqs) |-> IF i = 1 THEN seqs[i] ELSE g[i - 1] \o seqs[i]]
<1> DEFINE Is(g, n) == g = [i \in 1 .. n |-> IF i = 1 THEN seqs[i] ELSE g[i - 1] \o seqs[i]]
           I == {n \in Nat : \E g : Is(g, n)}
<1>1. 0 \in I
  <2>1. Is([i \in 1 .. 0 |-> seqs], 0)
    OBVIOUS
  <2> QED
    BY <2>1
<1>2. ASSUME NEW n \in Nat, n \in I PROVE n + 1 \in I
  <2>1. PICK g : Is(g, n)
    BY <1>2
  <2> DEFINE x == IF n = 0 THEN seqs[1] ELSE g[n] \o seqs[n + 1]
             h == [i \in 1 .. n + 1 |-> IF i = n + 1 THEN x ELSE g[i]]
  <2>2. ASSUME NEW i \in 1 .. n + 1
        PROVE  h[i] = IF i = 1 THEN seqs[i] ELSE h[i - 1] \o seqs[i]
    <3>1. CASE i = n + 1
      <4>1. CASE n = 0
        BY <3>1, <4>1
      <4>2. CASE n # 0
        <5>1. i - 1 = n /\ n \in 1 .. n + 1 /\ n # n + 1 /\ i # 1
          BY <3>1, <4>2
        <5>2. h[n] = g[n] /\ h[i] = g[n] \o seqs[n + 1]
          BY <3>1, <4>2, <5>1
        <5> HIDE DEF h
        <5> QED
          BY <3>1, <5>1, <5>2
      <4> QED
        BY <4>1, <4>2
    <3>2. CASE i # n + 1
      <4>1. i \in 1 .. n
        BY <3>2
      <4>2. g[i] = IF i = 1 THEN seqs[i] ELSE g[i - 1] \o seqs[i]
        BY <2>1, <4>1
      <4>3. i # 1 => i - 1 \in 1 .. n + 1 /\ i - 1 # n + 1
        BY <4>1
      <4>4. h[i] = g[i] /\ (i # 1 => h[i - 1] = g[i - 1])
        BY <3>2, <4>3
      <4> HIDE DEF h
      <4> QED
        BY <4>2, <4>4
    <3> QED
      BY <3>1, <3>2
  <2>3. Is(h, n + 1)
    <3>1. DOMAIN h = 1 .. n + 1 /\ h = [i \in DOMAIN h |-> h[i]]
      OBVIOUS
    <3> HIDE DEF h
    <3> QED
      BY <2>2, <3>1
  <2> HIDE DEF Is, h
  <2> QED
    BY <2>3
<1> HIDE DEF Is
<1>3. Nat \subseteq I
  <2> HIDE DEF I
  <2> QED
    BY <1>1, <1>2, SetInduction
<1>4. \E g : Is(g, Len(seqs))
  BY <1>3
<1> QED
  BY <1>4 DEF Is

\* FlattenSeq keeps the elements of all sequences, and no other.
LEMMA FlattenElements ==
  ASSUME NEW S, NEW seqs \in Seq(Seq(S))
  PROVE  /\ FlattenSeq(seqs) \in Seq(S)
         /\ ToSet(FlattenSeq(seqs)) = UNION {ToSet(seqs[j]) : j \in DOMAIN seqs}
<1>0. Len(seqs) \in Nat /\ DOMAIN seqs = 1 .. Len(seqs)
  OBVIOUS
<1>1. CASE Len(seqs) = 0
  <2>1. FlattenSeq(seqs) = seqs /\ DOMAIN seqs = {} /\ seqs = <<>>
    BY <1>0, <1>1, EmptySeq DEF FlattenSeq
  <2> QED
    BY <2>1 DEF ToSet
<1>2. CASE Len(seqs) # 0
  <2> DEFINE Is(g) ==
        g = [i \in 1 .. Len(seqs) |-> IF i = 1 THEN seqs[i] ELSE g[i - 1] \o seqs[i]]
             f == CHOOSE g : Is(g)
  <2>1. \E g : Is(g)
    <3>1. Len(seqs) > 0
      BY <1>0, <1>2
    <3>2. \E g : g = [i \in 1 .. Len(seqs) |-> IF i = 1 THEN seqs[i] ELSE g[i - 1] \o seqs[i]]
      BY <3>1, JoinsExists
    <3> QED
      BY <3>2
  <2>2. FlattenSeq(seqs) = f[Len(seqs)]
    BY <1>2 DEF FlattenSeq
  <2>3. Is(f)
    <3> HIDE DEF Is
    <3> QED
      BY <2>1
  <2> HIDE DEF f
  <2>4. Joins(seqs, f)
    <3>1. 1 \in 1 .. Len(seqs) /\ \A k \in 2 .. Len(seqs) : k \in 1 .. Len(seqs) /\ k # 1
      BY <1>0, <1>2
    <3>2. \A k \in 1 .. Len(seqs) : f[k] = IF k = 1 THEN seqs[k] ELSE f[k - 1] \o seqs[k]
      BY <2>3
    <3> QED
      BY <3>1, <3>2 DEF Joins
  <2>5. Len(seqs) \in 1 .. Len(seqs)
    BY <1>0, <1>2
  <2>6. /\ f[Len(seqs)] \in Seq(S)
        /\ ToSet(f[Len(seqs)]) = UNION {ToSet(seqs[j]) : j \in 1 .. Len(seqs)}
    <3>1. Gathers(S, seqs, f)
      BY <2>4, GathersAll
    <3> QED
      BY <2>5, <3>1 DEF Gathers
  <2> QED
    BY <1>0, <2>2, <2>6
<1> QED
  BY <1>1, <1>2
=============================================================================
