--------------------------- MODULE ProgramProofs ---------------------------
(***************************************************************************)
(* Theorems about Program, for all plugins, options and loggers.  The      *)
(* first part is about the lists of plugins: which elements filtering,     *)
(* adding and sorting keep, and in which order; that the operators are     *)
(* defined by recursion or by choice makes each a matter of induction.     *)
(* The last part is about the places the value of an option comes from.    *)
(***************************************************************************)
EXTENDS Program, DataInduction

-----------------------------------------------------------------------------
(* Lists.                                                                  *)

\* g[k] is what is kept of the first k elements.
Filters(list, T, g) ==
  /\ g[0] = <<>>
  /\ \A k \in 1 .. Len(list) :
       g[k] = IF list[k] \in T THEN Append(g[k - 1], list[k]) ELSE g[k - 1]

LEMMA KeepFilters ==
  ASSUME NEW S, NEW list \in Seq(S), NEW T
  PROVE  \E g : Filters(list, T, g) /\ Keep(list, T) = g[Len(list)]
<1> PICK l \in Nat : l = Len(list)
  OBVIOUS
<1> DEFINE X == Seq(S)
           Is(f) == f = [n \in 0 .. l |->
                          IF n = 0 THEN <<>>
                          ELSE IF list[n] \in T THEN Append(f[n - 1], list[n]) ELSE f[n - 1]]
           step == [kx \in (1 .. l) \X X |->
                      IF list[kx[1]] \in T THEN Append(kx[2], list[kx[1]]) ELSE kx[2]]
<1>1. step \in [(1 .. l) \X X -> X]
  <2>1. ASSUME NEW k \in 1 .. l, NEW x \in X
        PROVE  (IF list[k] \in T THEN Append(x, list[k]) ELSE x) \in X
    OBVIOUS
  <2> HIDE DEF X
  <2> QED BY <2>1
<1>2. <<>> \in X
  OBVIOUS
<1> HIDE DEF X
<1>3. PICK g : /\ g \in [0 .. l -> X] /\ g[0] = <<>>
               /\ \A k \in 1 .. l : g[k] = step[<<k, g[k - 1]>>]
  <2> HIDE DEF step
  <2>1. StepsOn(X, <<>>, l, step)
    BY <1>1, <1>2 DEF StepsOn
  <2> QED BY <2>1, RecursionExists DEF Recurs
<1>4. \A k \in 1 .. l : g[k] = IF list[k] \in T THEN Append(g[k - 1], list[k]) ELSE g[k - 1]
  <2> SUFFICES ASSUME NEW k \in 1 .. l
               PROVE  g[k] = IF list[k] \in T THEN Append(g[k - 1], list[k]) ELSE g[k - 1]
    OBVIOUS
  <2>1. <<k, g[k - 1]>> \in (1 .. l) \X X
    BY <1>3
  <2>2. step[<<k, g[k - 1]>>] = IF list[k] \in T THEN Append(g[k - 1], list[k]) ELSE g[k - 1]
    BY <2>1
  <2> QED BY <1>3, <2>2
<1>5. Is(g)
  <2>1. \A n \in 0 .. l :
          g[n] = IF n = 0 THEN <<>>
                 ELSE IF list[n] \in T THEN Append(g[n - 1], list[n]) ELSE g[n - 1]
    <3> SUFFICES ASSUME NEW n \in 0 .. l, n # 0
                 PROVE  g[n] = IF list[n] \in T THEN Append(g[n - 1], list[n]) ELSE g[n - 1]
      BY <1>3
    <3>1. n \in 1 .. l
      OBVIOUS
    <3> QED BY <1>4, <3>1
  <2> QED BY <1>3, <2>1
<1> DEFINE c == CHOOSE f : Is(f)
<1>6. Is(c)
  <2> HIDE DEF Is
  <2> QED BY <1>5
<1>7. Keep(list, T) = c[Len(list)]
  BY DEF Keep
<1> HIDE DEF c
<1>8. Filters(list, T, c)
  <2>1. \A n \in 0 .. l :
          c[n] = IF n = 0 THEN <<>>
                 ELSE IF list[n] \in T THEN Append(c[n - 1], list[n]) ELSE c[n - 1]
    BY <1>6
  <2>2. c[0] = <<>>
    <3>1. 0 \in 0 .. l
      OBVIOUS
    <3> QED BY <2>1, <3>1
  <2>3. \A k \in 1 .. l :
          c[k] = IF list[k] \in T THEN Append(c[k - 1], list[k]) ELSE c[k - 1]
    <3>1. \A k \in 1 .. l : k \in 0 .. l /\ k # 0
      OBVIOUS
    <3> QED BY <2>1, <3>1
  <2> QED BY <2>2, <2>3 DEF Filters
<1> QED BY <1>7, <1>8

\* r is the part in T of the first m elements of list, e tells where they are.
Embeds(r, list, T, e, m) ==
  /\ e \in [1 .. Len(r) -> 1 .. m]
  /\ \A i, j \in 1 .. Len(r) : i < j => e[i] < e[j]
  /\ \A i \in 1 .. Len(r) : r[i] = list[e[i]] /\ r[i] \in T
  /\ \A i \in 1 .. m : list[i] \in T => \E j \in 1 .. Len(r) : e[j] = i

IsPart(r, list, T, m) == \E e : Embeds(r, list, T, e, m)

LEMMA PartGrows ==
  ASSUME NEW S, NEW list \in Seq(S), NEW T, NEW m \in Nat, m + 1 <= Len(list),
         NEW r \in Seq(S), IsPart(r, list, T, m)
  PROVE  IsPart(IF list[m + 1] \in T THEN Append(r, list[m + 1]) ELSE r, list, T, m + 1)
<1>1. PICK e : Embeds(r, list, T, e, m)
  BY DEF IsPart
<1> PICK n \in Nat : n = Len(r)
  OBVIOUS
<1>2. /\ e \in [1 .. n -> 1 .. m]
      /\ \A i, j \in 1 .. n : i < j => e[i] < e[j]
      /\ \A i \in 1 .. n : r[i] = list[e[i]] /\ r[i] \in T
      /\ \A i \in 1 .. m : list[i] \in T => \E j \in 1 .. n : e[j] = i
  BY <1>1 DEF Embeds
<1>3. CASE list[m + 1] \notin T
  <2>1. Embeds(r, list, T, e, m + 1)
    BY <1>2, <1>3 DEF Embeds
  <2> QED BY <1>3, <2>1 DEF IsPart
<1>4. CASE list[m + 1] \in T
  <2> DEFINE q == Append(r, list[m + 1])
             d == [i \in 1 .. n + 1 |-> IF i = n + 1 THEN m + 1 ELSE e[i]]
  <2>1. q \in Seq(S) /\ Len(q) = n + 1 /\ q[n + 1] = list[m + 1] /\ \A i \in 1 .. n : q[i] = r[i]
    OBVIOUS
  <2>2. d \in [1 .. n + 1 -> 1 .. m + 1]
    BY <1>2
  <2>3. d[n + 1] = m + 1 /\ \A i \in 1 .. n : d[i] = e[i] /\ e[i] \in 1 .. m
    <3>1. n + 1 \in 1 .. n + 1 /\ \A i \in 1 .. n : i \in 1 .. n + 1 /\ i # n + 1
      OBVIOUS
    <3>2. \A i \in 1 .. n : e[i] \in 1 .. m
      BY <1>2
    <3> QED BY <3>1, <3>2
  <2> HIDE DEF q, d
  <2>4. ASSUME NEW i \in 1 .. n + 1, NEW j \in 1 .. n + 1, i < j PROVE d[i] < d[j]
    <3>1. i \in 1 .. n
      BY <2>4
    <3>2. CASE j = n + 1
      BY <2>3, <3>1, <3>2
    <3>3. CASE j # n + 1
      <4>1. j \in 1 .. n
        BY <3>3
      <4> QED BY <1>2, <2>3, <2>4, <3>1, <4>1
    <3> QED BY <3>2, <3>3
  <2>5. \A i \in 1 .. n + 1 : q[i] = list[d[i]] /\ q[i] \in T
    <3>1. \A i \in 1 .. n : q[i] = list[d[i]] /\ q[i] \in T
      BY <1>2, <2>1, <2>3
    <3>2. q[n + 1] = list[d[n + 1]] /\ q[n + 1] \in T
      BY <1>4, <2>1, <2>3
    <3> QED BY <3>1, <3>2
  <2>6. ASSUME NEW i \in 1 .. m + 1, list[i] \in T PROVE \E j \in 1 .. n + 1 : d[j] = i
    <3>1. CASE i = m + 1
      BY <2>3, <3>1
    <3>2. CASE i # m + 1
      <4>1. i \in 1 .. m
        BY <3>2
      <4>2. PICK j \in 1 .. n : e[j] = i
        BY <1>2, <2>6, <4>1
      <4> QED BY <2>3, <4>2
    <3> QED BY <3>1, <3>2
  <2>7. Embeds(q, list, T, d, m + 1)
    BY <2>1, <2>2, <2>4, <2>5, <2>6 DEF Embeds
  <2> QED BY <1>4, <2>7 DEF IsPart, q
<1> QED BY <1>3, <1>4

\* Keep keeps the elements in T, in their order.
LEMMA KeepIsPart ==
  ASSUME NEW S, NEW list \in Seq(S), NEW T
  PROVE  Keep(list, T) \in Seq(S) /\ IsPart(Keep(list, T), list, T, Len(list))
<1> PICK l \in Nat : l = Len(list)
  OBVIOUS
<1>1. PICK g : Filters(list, T, g) /\ Keep(list, T) = g[l]
  BY KeepFilters
<1> DEFINE Good(k) == g[k] \in Seq(S) /\ IsPart(g[k], list, T, k)
           I == {k \in Nat : k <= l => Good(k)}
<1>2. 0 \in I
  <2> DEFINE e == [i \in 1 .. 0 |-> i]
  <2>1. g[0] = <<>> /\ Len(<<>>) = 0 /\ <<>> \in Seq(S)
    BY <1>1 DEF Filters
  <2>2. Embeds(<<>>, list, T, e, 0)
    BY DEF Embeds
  <2> HIDE DEF e
  <2>3. IsPart(<<>>, list, T, 0)
    BY <2>2 DEF IsPart
  <2>4. Good(0)
    BY <2>1, <2>3
  <2> HIDE DEF Good
  <2> QED BY <2>4
<1>3. ASSUME NEW k \in Nat, k \in I PROVE k + 1 \in I
  <2> SUFFICES ASSUME k + 1 <= l PROVE Good(k + 1)
    OBVIOUS
  <2>1. Good(k)
    BY <1>3
  <2>2. k + 1 \in 1 .. l /\ (k + 1) - 1 = k
    OBVIOUS
  <2>3. g[k + 1] = IF list[k + 1] \in T THEN Append(g[k], list[k + 1]) ELSE g[k]
    BY <1>1, <2>2 DEF Filters
  <2>4. IsPart(g[k + 1], list, T, k + 1)
    BY <2>1, <2>3, PartGrows
  <2>5. g[k + 1] \in Seq(S)
    BY <2>1, <2>2, <2>3
  <2> QED BY <2>4, <2>5
<1> HIDE DEF Good
<1>4. l \in I
  <2> HIDE DEF I
  <2> QED BY <1>2, <1>3, SetInduction
<1> QED BY <1>1, <1>4 DEF Good

Distinct(list) == \A i, j \in 1 .. Len(list) : list[i] = list[j] => i = j

\* p is somewhere before q.
Precedes(list, p, q) == \E i, j \in 1 .. Len(list) : i < j /\ list[i] = p /\ list[j] = q

\* r has those elements of list that are in T, in their order.
KeepsOrder(r, list, T) ==
  /\ ToSet(r) = ToSet(list) \cap T
  /\ Distinct(list) => Distinct(r)
  /\ \A p, q : Precedes(r, p, q) <=> p \in T /\ q \in T /\ Precedes(list, p, q)

LEMMA PartKeepsOrder ==
  ASSUME NEW S, NEW list \in Seq(S), NEW T, NEW r \in Seq(S), IsPart(r, list, T, Len(list))
  PROVE  KeepsOrder(r, list, T)
<1>1. PICK e : Embeds(r, list, T, e, Len(list))
  BY DEF IsPart
<1> PICK n \in Nat : n = Len(r)
  OBVIOUS
<1> PICK m \in Nat : m = Len(list)
  OBVIOUS
<1>2. /\ e \in [1 .. n -> 1 .. m]
      /\ \A i, j \in 1 .. n : i < j => e[i] < e[j]
      /\ \A i \in 1 .. n : r[i] = list[e[i]] /\ r[i] \in T
      /\ \A i \in 1 .. m : list[i] \in T => \E j \in 1 .. n : e[j] = i
  BY <1>1 DEF Embeds
<1>3. ASSUME NEW i \in 1 .. n, NEW j \in 1 .. n, e[i] < e[j] PROVE i < j
  <2> SUFFICES ASSUME ~(i < j) PROVE FALSE
    OBVIOUS
  <2>1. e[i] \in 1 .. m /\ e[j] \in 1 .. m
    BY <1>2
  <2>2. CASE i = j
    BY <1>3, <2>1, <2>2
  <2>3. CASE i # j
    <3>1. j < i
      BY <2>3
    <3>2. e[j] < e[i]
      BY <1>2, <3>1
    <3> QED BY <1>3, <2>1, <3>2
  <2> QED BY <2>2, <2>3
<1>4. ToSet(r) = ToSet(list) \cap T
  <2>1. ToSet(r) = {r[i] : i \in 1 .. n} /\ ToSet(list) = {list[i] : i \in 1 .. m}
    BY DEF ToSet
  <2>2. \A i \in 1 .. n : r[i] \in ToSet(list) \cap T
    BY <1>2, <2>1
  <2>3. \A i \in 1 .. m : list[i] \in T => list[i] \in ToSet(r)
    BY <1>2, <2>1
  <2> QED BY <2>1, <2>2, <2>3
<1>5. ASSUME Distinct(list) PROVE Distinct(r)
  <2> SUFFICES ASSUME NEW i \in 1 .. n, NEW j \in 1 .. n, r[i] = r[j] PROVE i = j
    BY DEF Distinct
  <2>1. e[i] = e[j]
    <3>1. e[i] \in 1 .. m /\ e[j] \in 1 .. m /\ list[e[i]] = list[e[j]]
      BY <1>2
    <3>2. \A a, b \in 1 .. m : list[a] = list[b] => a = b
      BY <1>5 DEF Distinct
    <3> QED BY <3>1, <3>2
  <2>2. e[i] \in 1 .. m /\ ~(i < j) /\ ~(j < i)
    BY <1>2, <2>1
  <2> QED BY <2>2
<1>6. ASSUME NEW p, NEW q, Precedes(r, p, q) PROVE p \in T /\ q \in T /\ Precedes(list, p, q)
  <2>1. PICK i \in 1 .. n, j \in 1 .. n : i < j /\ r[i] = p /\ r[j] = q
    BY <1>6 DEF Precedes
  <2>2. e[i] \in 1 .. m /\ e[j] \in 1 .. m /\ e[i] < e[j] /\ list[e[i]] = p /\ list[e[j]] = q
    BY <1>2, <2>1
  <2>3. Precedes(list, p, q)
    BY <2>2 DEF Precedes
  <2> QED BY <1>2, <2>1, <2>3
<1>7. ASSUME NEW p \in T, NEW q \in T, Precedes(list, p, q) PROVE Precedes(r, p, q)
  <2>1. PICK i \in 1 .. m, j \in 1 .. m : i < j /\ list[i] = p /\ list[j] = q
    BY <1>7 DEF Precedes
  <2>2. PICK a \in 1 .. n : e[a] = i
    BY <1>2, <2>1
  <2>3. PICK b \in 1 .. n : e[b] = j
    BY <1>2, <2>1
  <2>4. a < b /\ r[a] = p /\ r[b] = q
    BY <1>2, <1>3, <2>1, <2>2, <2>3
  <2> QED BY <2>4 DEF Precedes
<1> QED BY <1>4, <1>5, <1>6, <1>7 DEF KeepsOrder

LEMMA KeepOrder ==
  ASSUME NEW S, NEW list \in Seq(S), NEW T
  PROVE  Keep(list, T) \in Seq(S) /\ KeepsOrder(Keep(list, T), list, T)
BY KeepIsPart, PartKeepsOrder

\* A list without duplicates is given by its elements and their order.
SameOrder(s, t) ==
  /\ Distinct(s) /\ Distinct(t)
  /\ ToSet(s) = ToSet(t)
  /\ \A p, q : Precedes(s, p, q) => Precedes(t, p, q)

LEMMA SameUpTo ==
  ASSUME NEW S, NEW s \in Seq(S), NEW t \in Seq(S), SameOrder(s, t),
         NEW k \in 1 .. Len(s), \A j \in 1 .. Len(s) : j < k => j <= Len(t) /\ s[j] = t[j]
  PROVE  k <= Len(t) /\ s[k] = t[k]
<1> PICK n \in Nat : n = Len(s)
  OBVIOUS
<1> PICK m \in Nat : m = Len(t)
  OBVIOUS
<1>1. ToSet(s) = {s[i] : i \in 1 .. n} /\ ToSet(t) = {t[i] : i \in 1 .. m} /\ ToSet(s) = ToSet(t)
  BY DEF ToSet, SameOrder
<1>2. \A i, j \in 1 .. n : s[i] = s[j] => i = j
  BY DEF SameOrder, Distinct
<1>3. \A i, j \in 1 .. m : t[i] = t[j] => i = j
  BY DEF SameOrder, Distinct
<1>4. PICK a \in 1 .. m : t[a] = s[k]
  <2>1. s[k] \in ToSet(t)
    BY <1>1
  <2> QED BY <1>1, <2>1
<1>5. ~(a < k)
  <2> SUFFICES ASSUME a < k PROVE FALSE
    OBVIOUS
  <2>1. a \in 1 .. n /\ s[a] = t[a]
    OBVIOUS
  <2> QED BY <1>2, <1>4, <2>1
<1>6. k \in 1 .. m
  BY <1>5
<1>7. PICK b \in 1 .. n : s[b] = t[k]
  <2>1. t[k] \in ToSet(s)
    BY <1>1, <1>6
  <2> QED BY <1>1, <2>1
<1>8. ~(b < k)
  <2> SUFFICES ASSUME b < k PROVE FALSE
    OBVIOUS
  <2>1. b \in 1 .. m /\ s[b] = t[b]
    BY <1>6
  <2>2. t[b] = t[k]
    BY <1>7, <2>1
  <2>3. b = k
    BY <1>3, <1>6, <2>1, <2>2
  <2> QED BY <2>3
<1>9. CASE b = k
  BY <1>6, <1>7, <1>9
<1>10. CASE b # k
  <2>1. k < b
    BY <1>8, <1>10
  <2>2. Precedes(s, s[k], s[b])
    BY <2>1 DEF Precedes
  <2>3. Precedes(t, s[k], s[b])
    BY <2>2 DEF SameOrder
  <2>4. PICK c \in 1 .. m, d \in 1 .. m : c < d /\ t[c] = s[k] /\ t[d] = s[b]
    BY <2>3 DEF Precedes
  <2>5. c = a /\ d = k
    BY <1>3, <1>4, <1>6, <1>7, <2>4
  <2> QED BY <1>5, <2>4, <2>5
<1> QED BY <1>9, <1>10

LEMMA SameOrderPrefix ==
  ASSUME NEW S, NEW s \in Seq(S), NEW t \in Seq(S), SameOrder(s, t)
  PROVE  Len(s) <= Len(t) /\ \A k \in 1 .. Len(s) : s[k] = t[k]
<1> PICK n \in Nat : n = Len(s)
  OBVIOUS
<1> PICK m \in Nat : m = Len(t)
  OBVIOUS
<1> DEFINE Bad == {k \in 1 .. n : ~(k <= m /\ s[k] = t[k])}
<1>1. Bad = {}
  <2> SUFFICES ASSUME Bad # {} PROVE FALSE
    OBVIOUS
  <2>1. PICK k \in Bad : \A j \in Bad : ~(j < k)
    <3>1. Bad \in SUBSET Nat
      OBVIOUS
    <3> HIDE DEF Bad
    <3> QED BY <3>1, LeastNatural
  <2>2. k \in 1 .. n /\ \A j \in 1 .. n : j < k => j <= m /\ s[j] = t[j]
    BY <2>1
  <2>3. k <= m /\ s[k] = t[k]
    BY <2>2, SameUpTo
  <2> QED BY <2>3
<1>2. \A k \in 1 .. n : k <= m /\ s[k] = t[k]
  BY <1>1
<1>3. n <= m
  BY <1>2
<1> QED BY <1>2, <1>3

LEMMA OrderDetermines ==
  ASSUME NEW S, NEW s \in Seq(S), NEW t \in Seq(S), SameOrder(s, t)
  PROVE  s = t
<1> PICK n \in Nat : n = Len(s)
  OBVIOUS
<1> PICK m \in Nat : m = Len(t)
  OBVIOUS
<1>1. n <= m /\ \A k \in 1 .. n : s[k] = t[k]
  BY SameOrderPrefix
<1>2. n = m
  <2> SUFFICES ASSUME n < m PROVE FALSE
    BY <1>1
  <2>1. m \in 1 .. m /\ t[m] \in ToSet(t)
    BY DEF ToSet
  <2>2. PICK i \in 1 .. n : s[i] = t[m]
    <3>1. t[m] \in ToSet(s)
      BY <2>1 DEF SameOrder
    <3> QED BY <3>1 DEF ToSet
  <2>3. i \in 1 .. m /\ t[i] = t[m] /\ i # m
    BY <1>1, <2>2
  <2> QED BY <2>1, <2>3 DEF SameOrder, Distinct
<1> QED BY <1>1, <1>2, SeqEqual

-----------------------------------------------------------------------------
(* Sorting.                                                                *)

\* B is an order of 1 .. n.
Orders(B, n) ==
  /\ B \in SUBSET ((1 .. n) \X (1 .. n))
  /\ \A i \in 1 .. n : <<i, i>> \notin B
  /\ \A i, j, k \in 1 .. n : <<i, j>> \in B /\ <<j, k>> \in B => <<i, k>> \in B
  /\ \A i, j \in 1 .. n : i # j => <<i, j>> \in B \/ <<j, i>> \in B

Below(B, n, i) == {j \in 1 .. n : <<j, i>> \in B}
Rank(B, n, i) == Cardinality(Below(B, n, i)) + 1

LEMMA RanksRise ==
  ASSUME NEW n \in Nat, NEW B, Orders(B, n), NEW i \in 1 .. n, NEW j \in 1 .. n, <<i, j>> \in B
  PROVE  Rank(B, n, i) \in 1 .. n /\ Rank(B, n, j) \in 1 .. n /\ Rank(B, n, i) < Rank(B, n, j)
<1>1. IsFiniteSet(1 .. n) /\ Cardinality(1 .. n) = n
  BY FS_Interval
<1>2. ASSUME NEW k \in 1 .. n
      PROVE  IsFiniteSet(Below(B, n, k)) /\ Rank(B, n, k) \in 1 .. n
  <2> DEFINE D == Below(B, n, k)
  <2>1. D \in SUBSET (1 .. n) /\ k \notin D
    BY DEF Below, Orders
  <2> HIDE DEF D
  <2>2. IsFiniteSet(D)
    BY <1>1, <2>1, FS_Subset
  <2>3. IsFiniteSet(D \cup {k}) /\ Cardinality(D \cup {k}) = Cardinality(D) + 1
    BY <2>1, <2>2, FS_AddElement
  <2>4. D \cup {k} \in SUBSET (1 .. n)
    BY <2>1
  <2>5. Cardinality(D \cup {k}) <= n /\ Cardinality(D) \in Nat
    BY <1>1, <2>2, <2>4, FS_Subset, FS_CardinalityType
  <2>6. Cardinality(D) + 1 \in 1 .. n
    BY <2>3, <2>5
  <2> QED BY <2>2, <2>6 DEF D, Rank
<1>3. Rank(B, n, i) < Rank(B, n, j)
  <2> DEFINE D == Below(B, n, i)  E == Below(B, n, j)
  <2>1. i \notin D /\ D \cup {i} \in SUBSET E
    BY DEF Below, Orders
  <2>2. IsFiniteSet(D) /\ IsFiniteSet(E)
    BY <1>2
  <2> HIDE DEF D, E
  <2>3. Cardinality(D \cup {i}) = Cardinality(D) + 1
    BY <2>1, <2>2, FS_AddElement
  <2>4. Cardinality(D \cup {i}) <= Cardinality(E)
    BY <2>1, <2>2, FS_Subset
  <2>5. Cardinality(D) \in Nat /\ Cardinality(E) \in Nat
    BY <2>2, FS_CardinalityType
  <2>6. Cardinality(D) + 1 < Cardinality(E) + 1
    BY <2>3, <2>4, <2>5
  <2> QED BY <2>6 DEF D, E, Rank
<1> QED BY <1>2, <1>3

\* In an order of 1 .. n each has a rank of its own.
LEMMA RanksAll ==
  ASSUME NEW n \in Nat, NEW B, Orders(B, n), NEW k \in 1 .. n
  PROVE  \E i \in 1 .. n : Rank(B, n, i) = k
<1>1. IsFiniteSet(1 .. n)
  BY FS_Interval
<1> DEFINE f == [i \in 1 .. n |-> Rank(B, n, i)]
<1>2. ASSUME NEW i \in 1 .. n PROVE Rank(B, n, i) \in 1 .. n
  <2>1. CASE n = 1
    <3>1. 1 .. n = {1} /\ i = 1
      BY <2>1
    <3>2. Below(B, n, i) = {}
      BY <3>1 DEF Below, Orders
    <3> QED BY <3>1, <3>2, FS_EmptySet DEF Rank
  <2>2. CASE n # 1
    <3>1. PICK j \in 1 .. n : j # i
      <4>1. 1 \in 1 .. n /\ n \in 1 .. n
        OBVIOUS
      <4> QED BY <2>2, <4>1
    <3>2. <<i, j>> \in B \/ <<j, i>> \in B
      BY <3>1 DEF Orders
    <3> QED BY <3>2, RanksRise
  <2> QED BY <2>1, <2>2
<1>3. ASSUME NEW i \in 1 .. n, NEW j \in 1 .. n, Rank(B, n, i) = Rank(B, n, j) PROVE i = j
  <2> SUFFICES ASSUME i # j PROVE FALSE
    OBVIOUS
  <2>1. <<i, j>> \in B \/ <<j, i>> \in B
    BY DEF Orders
  <2>2. Rank(B, n, i) \in 1 .. n /\ Rank(B, n, j) \in 1 .. n
    BY <1>2
  <2>3. Rank(B, n, i) < Rank(B, n, j) \/ Rank(B, n, j) < Rank(B, n, i)
    BY <2>1, RanksRise
  <2> QED BY <1>3, <2>2, <2>3
<1>4. f \in Injection(1 .. n, 1 .. n)
  <2>1. f \in [1 .. n -> 1 .. n] /\ \A i \in 1 .. n : f[i] = Rank(B, n, i)
    BY <1>2
  <2> HIDE DEF f
  <2>2. \A i, j \in 1 .. n : f[i] = f[j] => i = j
    BY <1>3, <2>1
  <2> QED BY <2>1, <2>2, Zenon DEF Injection, IsInjective
<1>5. f \in Surjection(1 .. n, 1 .. n)
  <2> HIDE DEF f
  <2> QED BY <1>1, <1>4, FS_Injection
<1>6. \E i \in 1 .. n : f[i] = k
  <2> HIDE DEF f
  <2> QED BY <1>5 DEF Surjection
<1> QED BY <1>6

Scored(p) == Record(p).score

\* r is list, highest score first, otherwise in the same order.
SortedFrom(r, list) ==
  /\ ToSet(r) = ToSet(list)
  /\ Distinct(list) => Distinct(r)
  /\ \A i, j \in 1 .. Len(r) : i < j => Scored(r[i]) >= Scored(r[j])
  /\ Distinct(list) =>
       \A p, q \in ToSet(list) :
         Precedes(r, p, q) <=> \/ Scored(p) > Scored(q)
                               \/ Scored(p) = Scored(q) /\ Precedes(list, p, q)

SortOrder(list) ==
  {x \in (1 .. Len(list)) \X (1 .. Len(list)) :
     \/ Record(list[x[1]]).score > Record(list[x[2]]).score
     \/ Record(list[x[1]]).score = Record(list[x[2]]).score /\ x[1] < x[2]}

LEMMA ScoresAreInts ==
  ASSUME NEW p \in Known
  PROVE  Scored(p) \in Int
<1>1. CASE p \in DOMAIN Others
  BY <1>1, OthersAssumption DEF Record, Scored
<1>2. CASE p \notin DOMAIN Others
  <2>1. p \in ToSet(BuiltinOrder) /\ Record(p) = Builtins[p]
    BY <1>2 DEF Known, Builtins, Record
  <2>2. Builtins[p].score \in Int
    BY <2>1 DEF Builtins, BuiltinOrder, ToSet, Plugin
  <2> QED BY <2>1, <2>2 DEF Scored
<1> QED BY <1>1, <1>2

LEMMA SortOrders ==
  ASSUME NEW list \in Seq(Known)
  PROVE  Orders(SortOrder(list), Len(list))
<1> PICK n \in Nat : n = Len(list)
  OBVIOUS
<1> DEFINE s(i) == Scored(list[i])
           B == SortOrder(list)
<1>1. \A i, j \in 1 .. n : <<i, j>> \in B <=> s(i) > s(j) \/ (s(i) = s(j) /\ i < j)
  BY DEF SortOrder, Scored
<1>2. \A i \in 1 .. n : s(i) \in Int
  BY ScoresAreInts
<1>3. B \in SUBSET ((1 .. n) \X (1 .. n))
  BY DEF SortOrder
<1> HIDE DEF B, s
<1>4. \A i \in 1 .. n : <<i, i>> \notin B
  BY <1>1, <1>2
<1>5. ASSUME NEW i \in 1 .. n, NEW j \in 1 .. n, NEW k \in 1 .. n, <<i, j>> \in B, <<j, k>> \in B
      PROVE  <<i, k>> \in B
  <2>1. s(i) \in Int /\ s(j) \in Int /\ s(k) \in Int
    BY <1>2
  <2>2. s(i) > s(j) \/ (s(i) = s(j) /\ i < j)
    BY <1>1, <1>5
  <2>3. s(j) > s(k) \/ (s(j) = s(k) /\ j < k)
    BY <1>1, <1>5
  <2>4. s(i) > s(k) \/ (s(i) = s(k) /\ i < k)
    BY <2>1, <2>2, <2>3
  <2> QED BY <1>1, <2>4
<1>6. ASSUME NEW i \in 1 .. n, NEW j \in 1 .. n, i # j PROVE <<i, j>> \in B \/ <<j, i>> \in B
  <2>1. s(i) \in Int /\ s(j) \in Int
    BY <1>2
  <2>2. \/ s(i) > s(j) \/ (s(i) = s(j) /\ i < j)
        \/ s(j) > s(i) \/ (s(j) = s(i) /\ j < i)
    BY <1>6, <2>1
  <2> QED BY <1>1, <2>2
<1> QED BY <1>3, <1>4, <1>5, <1>6 DEF Orders, B

\* sort(list) is a permutation of list along its order.
Permutes(r, list, o) ==
  /\ o \in [1 .. Len(list) -> 1 .. Len(list)]
  /\ \A i \in 1 .. Len(list) : \E k \in 1 .. Len(list) : o[k] = i
  /\ \A k, m \in 1 .. Len(list) : k < m <=> <<o[k], o[m]>> \in SortOrder(list)
  /\ r \in Seq(Known) /\ Len(r) = Len(list)
  /\ \A k \in 1 .. Len(list) : r[k] = list[o[k]]

LEMMA SortPermutes ==
  ASSUME NEW list \in Seq(Known)
  PROVE  \E o : Permutes(sort(list), list, o)
<1> PICK n \in Nat : n = Len(list)
  OBVIOUS
<1> DEFINE B == SortOrder(list)
           o == [k \in 1 .. n |-> CHOOSE i \in 1 .. n : Rank(B, n, i) = k]
<1>1. Orders(B, n)
  BY SortOrders
<1>2. ASSUME NEW k \in 1 .. n PROVE o[k] \in 1 .. n /\ Rank(B, n, o[k]) = k
  <2>1. \E i \in 1 .. n : Rank(B, n, i) = k
    BY <1>1, RanksAll
  <2>2. o[k] = CHOOSE i \in 1 .. n : Rank(B, n, i) = k
    OBVIOUS
  <2> HIDE DEF o, B
  <2> QED BY <2>1, <2>2
<1>3. o \in [1 .. n -> 1 .. n]
  BY <1>2
<1>4. sort(list) = [k \in 1 .. n |-> list[o[k]]]
  <2>1. DOMAIN list = 1 .. n
    OBVIOUS
  <2>2. ASSUME NEW i \in 1 .. n
        PROVE  {j \in DOMAIN list :
                  \/ Record(list[j]).score > Record(list[i]).score
                  \/ Record(list[j]).score = Record(list[i]).score /\ j < i} = Below(B, n, i)
    BY <2>1 DEF Below, SortOrder
  <2>3. \A i \in 1 .. n :
          Cardinality({j \in DOMAIN list :
            \/ Record(list[j]).score > Record(list[i]).score
            \/ Record(list[j]).score = Record(list[i]).score /\ j < i}) + 1 = Rank(B, n, i)
    BY <2>2 DEF Rank
  <2> DEFINE place(i) ==
        Cardinality({j \in DOMAIN list :
            \/ Record(list[j]).score > Record(list[i]).score
            \/ Record(list[j]).score = Record(list[i]).score /\ j < i}) + 1
  <2>5. sort(list) = [k \in 1 .. n |-> list[CHOOSE i \in 1 .. n : place(i) = k]]
    BY <2>1 DEF sort
  <2>6. \A i \in 1 .. n : place(i) = Rank(B, n, i)
    BY <2>3
  <2> HIDE DEF place, B
  <2>7. \A k \in 1 .. n : (CHOOSE i \in 1 .. n : place(i) = k) = (CHOOSE i \in 1 .. n : Rank(B, n, i) = k)
    BY <2>6
  <2>8. \A k \in 1 .. n : (CHOOSE i \in 1 .. n : place(i) = k) = o[k]
    <3>1. \A k \in 1 .. n : o[k] = CHOOSE i \in 1 .. n : Rank(B, n, i) = k
      OBVIOUS
    <3> HIDE DEF o
    <3> QED BY <2>7, <3>1
  <2> HIDE DEF o
  <2> QED BY <2>5, <2>8
<1> HIDE DEF o
<1>5. ASSUME NEW k \in 1 .. n, NEW m \in 1 .. n, <<o[k], o[m]>> \in B PROVE k < m
  <2>1. o[k] \in 1 .. n /\ o[m] \in 1 .. n /\ Rank(B, n, o[k]) = k /\ Rank(B, n, o[m]) = m
    BY <1>2
  <2> HIDE DEF B
  <2> QED BY <1>1, <1>5, <2>1, RanksRise
<1>6. ASSUME NEW k \in 1 .. n, NEW m \in 1 .. n, k < m PROVE <<o[k], o[m]>> \in B
  <2>1. o[k] \in 1 .. n /\ o[m] \in 1 .. n /\ Rank(B, n, o[k]) = k /\ Rank(B, n, o[m]) = m
    BY <1>2
  <2> HIDE DEF B
  <2>2. o[k] # o[m]
    BY <1>6, <2>1
  <2>3. <<o[k], o[m]>> \in B \/ <<o[m], o[k]>> \in B
    BY <1>1, <2>1, <2>2 DEF Orders
  <2>4. <<o[m], o[k]>> \notin B
    <3> SUFFICES ASSUME <<o[m], o[k]>> \in B PROVE FALSE
      OBVIOUS
    <3>1. m < k
      BY <1>1, <2>1, RanksRise
    <3> QED BY <1>6, <3>1
  <2> QED BY <2>3, <2>4
<1>7. ASSUME NEW i \in 1 .. n PROVE \E k \in 1 .. n : o[k] = i
  <2>0. IsFiniteSet(1 .. n)
    BY FS_Interval
  <2>1. o \in Injection(1 .. n, 1 .. n)
    <3>1. ASSUME NEW k \in 1 .. n, NEW m \in 1 .. n, o[k] = o[m] PROVE k = m
      <4>1. Rank(B, n, o[k]) = k /\ Rank(B, n, o[m]) = m
        BY <1>2
      <4> QED BY <3>1, <4>1
    <3>2. \A a, b \in 1 .. n : o[a] = o[b] => a = b
      BY <3>1
    <3> HIDE DEF o
    <3> QED BY <1>3, <3>2, Zenon DEF Injection, IsInjective
  <2>2. o \in Surjection(1 .. n, 1 .. n)
    BY <2>0, <2>1, FS_Injection
  <2> QED BY <2>2 DEF Surjection
<1>8. sort(list) \in Seq(Known) /\ Len(sort(list)) = n /\ \A k \in 1 .. n : sort(list)[k] = list[o[k]]
  <2>1. \A k \in 1 .. n : list[o[k]] \in Known
    BY <1>2
  <2>2. sort(list) \in [1 .. n -> Known]
    BY <1>4, <2>1
  <2>3. sort(list) \in Seq(Known) /\ Len(sort(list)) = n
    BY <2>2
  <2> QED BY <1>4, <2>3
<1>9. Permutes(sort(list), list, o)
  BY <1>3, <1>5, <1>6, <1>7, <1>8 DEF Permutes
<1> QED BY <1>9

LEMMA PermutationSorts ==
  ASSUME NEW list \in Seq(Known), NEW r, NEW o, Permutes(r, list, o)
  PROVE  SortedFrom(r, list)
<1> PICK n \in Nat : n = Len(list)
  OBVIOUS
<1>0. /\ o \in [1 .. n -> 1 .. n]
      /\ \A i \in 1 .. n : \E k \in 1 .. n : o[k] = i
      /\ \A k, m \in 1 .. n : k < m <=> <<o[k], o[m]>> \in SortOrder(list)
      /\ r \in Seq(Known) /\ Len(r) = n /\ \A k \in 1 .. n : r[k] = list[o[k]]
  BY DEF Permutes
<1>1. \A i, j \in 1 .. n : <<i, j>> \in SortOrder(list) <=>
        Scored(list[i]) > Scored(list[j]) \/ (Scored(list[i]) = Scored(list[j]) /\ i < j)
  BY DEF SortOrder, Scored
<1>2. \A i \in 1 .. n : Scored(list[i]) \in Int
  BY ScoresAreInts
<1>3. ToSet(r) = {r[k] : k \in 1 .. n} /\ ToSet(list) = {list[i] : i \in 1 .. n}
  <2>1. DOMAIN r = 1 .. n /\ DOMAIN list = 1 .. n
    BY <1>0
  <2> QED BY <2>1 DEF ToSet
<1>4. ToSet(r) = ToSet(list)
  <2>1. \A k \in 1 .. n : r[k] \in ToSet(list)
    BY <1>0, <1>3
  <2>2. \A i \in 1 .. n : list[i] \in ToSet(r)
    <3>1. \A i \in 1 .. n : \E k \in 1 .. n : list[i] = r[k]
      BY <1>0
    <3> QED BY <1>3, <3>1
  <2>3. ToSet(r) \subseteq ToSet(list)
    BY <1>3, <2>1
  <2>4. ToSet(list) \subseteq ToSet(r)
    BY <1>3, <2>2
  <2> QED BY <2>3, <2>4
<1>5. ASSUME Distinct(list) PROVE Distinct(r)
  <2> SUFFICES ASSUME NEW k \in 1 .. n, NEW m \in 1 .. n, r[k] = r[m] PROVE k = m
    BY <1>0 DEF Distinct
  <2>1. o[k] = o[m] /\ o[k] \in 1 .. n
    <3>1. o[k] \in 1 .. n /\ o[m] \in 1 .. n /\ list[o[k]] = list[o[m]]
      BY <1>0
    <3>2. \A a, b \in 1 .. n : list[a] = list[b] => a = b
      BY <1>5 DEF Distinct
    <3> QED BY <3>1, <3>2
  <2>2. ~(k < m) /\ ~(m < k)
    <3>1. <<o[k], o[m]>> \in SortOrder(list) <=> <<o[m], o[k]>> \in SortOrder(list)
      BY <2>1
    <3>2. (k < m <=> m < k)
      BY <1>0, <3>1
    <3> QED BY <3>2
  <2> QED BY <2>2
<1>6. ASSUME NEW k \in 1 .. n, NEW m \in 1 .. n, k < m
      PROVE  Scored(r[k]) >= Scored(r[m])
  <2>1. o[k] \in 1 .. n /\ o[m] \in 1 .. n /\ r[k] = list[o[k]] /\ r[m] = list[o[m]]
    BY <1>0
  <2>2. <<o[k], o[m]>> \in SortOrder(list)
    BY <1>0, <1>6
  <2>3. Scored(list[o[k]]) \in Int /\ Scored(list[o[m]]) \in Int
    BY <1>2, <2>1
  <2>4. Scored(list[o[k]]) > Scored(list[o[m]]) \/ Scored(list[o[k]]) = Scored(list[o[m]])
    BY <1>1, <2>1, <2>2
  <2> QED BY <2>1, <2>3, <2>4
<1>7. ASSUME Distinct(list), NEW p \in ToSet(list), NEW q \in ToSet(list)
      PROVE  Precedes(r, p, q) <=> \/ Scored(p) > Scored(q)
                                   \/ Scored(p) = Scored(q) /\ Precedes(list, p, q)
  <2>1. PICK i \in 1 .. n : list[i] = p
    BY <1>3
  <2>2. PICK j \in 1 .. n : list[j] = q
    BY <1>3
  <2>3. PICK k \in 1 .. n : o[k] = i
    BY <1>0
  <2>4. PICK m \in 1 .. n : o[m] = j
    BY <1>0
  <2>5. r[k] = p /\ r[m] = q
    BY <1>0, <2>1, <2>2, <2>3, <2>4
  <2>6. Precedes(list, p, q) <=> i < j
    <3>1. \A a, b \in 1 .. n : list[a] = list[b] => a = b
      BY <1>7 DEF Distinct
    <3>2. ASSUME Precedes(list, p, q) PROVE i < j
      <4>1. PICK a \in 1 .. n, b \in 1 .. n : a < b /\ list[a] = p /\ list[b] = q
        BY <3>2 DEF Precedes
      <4>2. a = i /\ b = j
        BY <2>1, <2>2, <3>1, <4>1
      <4> QED BY <4>1, <4>2
    <3>3. ASSUME i < j PROVE Precedes(list, p, q)
      BY <2>1, <2>2, <3>3 DEF Precedes
    <3> QED BY <3>2, <3>3
  <2>7. Precedes(r, p, q) <=> k < m
    <3>1. \A a, b \in 1 .. n : r[a] = r[b] => a = b
      BY <1>0, <1>5, <1>7 DEF Distinct
    <3>2. ASSUME Precedes(r, p, q) PROVE k < m
      <4>1. PICK a \in 1 .. n, b \in 1 .. n : a < b /\ r[a] = p /\ r[b] = q
        BY <1>0, <3>2 DEF Precedes
      <4>2. a = k /\ b = m
        BY <2>5, <3>1, <4>1
      <4> QED BY <4>1, <4>2
    <3>3. ASSUME k < m PROVE Precedes(r, p, q)
      BY <1>0, <2>5, <3>3 DEF Precedes
    <3> QED BY <3>2, <3>3
  <2>8. k < m <=> <<i, j>> \in SortOrder(list)
    BY <1>0, <2>3, <2>4
  <2>9. <<i, j>> \in SortOrder(list) <=> Scored(p) > Scored(q) \/ (Scored(p) = Scored(q) /\ i < j)
    BY <1>1, <2>1, <2>2
  <2> QED BY <2>6, <2>7, <2>8, <2>9
<1> QED BY <1>0, <1>4, <1>5, <1>6, <1>7 DEF SortedFrom

LEMMA SortSorts ==
  ASSUME NEW list \in Seq(Known)
  PROVE  sort(list) \in Seq(Known) /\ SortedFrom(sort(list), list)
<1>1. PICK o : Permutes(sort(list), list, o)
  BY SortPermutes
<1>2. sort(list) \in Seq(Known)
  BY <1>1 DEF Permutes
<1>3. SortedFrom(sort(list), list)
  BY <1>1, PermutationSorts
<1> QED BY <1>2, <1>3

-----------------------------------------------------------------------------
(* Adding plugins.                                                         *)

Name(p) == Record(p).name
NamesOf(list) == {Name(p) : p \in ToSet(list)}
Unique(list) == \A i, j \in 1 .. Len(list) : Name(list[i]) = Name(list[j]) => i = j

\* r is list with p added: at the end, in place of the one of its name.
Replaces(r, list, p) ==
  /\ ToSet(r) = {q \in ToSet(list) : Name(q) # Name(p)} \cup {p}
  /\ Unique(list) => Unique(r)
  /\ \A q, s : Precedes(r, q, s) <=>
       \/ Precedes(list, q, s) /\ Name(q) # Name(p) /\ Name(s) # Name(p)
       \/ q \in ToSet(list) /\ Name(q) # Name(p) /\ s = p

LEMMA AddReplaces ==
  ASSUME NEW list \in Seq(Known), NEW p \in Known
  PROVE  addPlugin(list, p) \in Seq(Known) /\ Replaces(addPlugin(list, p), list, p)
<1> DEFINE T == {q \in Known : Record(q).name # Record(p).name}
           k == Keep(list, T)
           r == Append(k, p)
<1>1. k \in Seq(Known) /\ KeepsOrder(k, list, T)
  <2> HIDE DEF T
  <2> QED BY KeepOrder
<1>2. addPlugin(list, p) = r
  BY DEF addPlugin
<1> HIDE DEF k
<1> PICK n \in Nat : n = Len(k)
  BY <1>1
<1>3. r \in Seq(Known) /\ Len(r) = n + 1 /\ r[n + 1] = p /\ \A i \in 1 .. n : r[i] = k[i]
  BY <1>1
<1> HIDE DEF r
<1>4. ToSet(r) = {r[i] : i \in 1 .. n + 1} /\ ToSet(k) = {k[i] : i \in 1 .. n}
  <2>1. DOMAIN r = 1 .. n + 1
    BY <1>3
  <2>2. DOMAIN k = 1 .. n
    BY <1>1
  <2> QED BY <2>1, <2>2 DEF ToSet
<1>5. ToSet(list) \subseteq Known
  BY DEF ToSet
<1>6. ToSet(k) = {q \in ToSet(list) : Name(q) # Name(p)}
  BY <1>1, <1>5 DEF KeepsOrder, Name
<1>7. ToSet(r) = ToSet(k) \cup {p}
  <2>1. \A i \in 1 .. n + 1 : i = n + 1 \/ i \in 1 .. n
    OBVIOUS
  <2>2. \A i \in 1 .. n + 1 : r[i] \in ToSet(k) \cup {p}
    BY <1>3, <1>4, <2>1
  <2>3. \A i \in 1 .. n : k[i] \in ToSet(r)
    <3>1. \A i \in 1 .. n : i \in 1 .. n + 1
      OBVIOUS
    <3> QED BY <1>3, <1>4, <3>1
  <2>4. p \in ToSet(r)
    <3>1. n + 1 \in 1 .. n + 1
      OBVIOUS
    <3> QED BY <1>3, <1>4, <3>1
  <2> QED BY <1>4, <2>2, <2>3, <2>4
<1>8. \A i \in 1 .. n : Name(k[i]) # Name(p)
  BY <1>4, <1>6
<1>9. ASSUME Unique(list) PROVE Unique(r)
  <2>1. Distinct(list) /\ \A q, s \in ToSet(list) : Name(q) = Name(s) => q = s
    BY <1>9 DEF Unique, Distinct, ToSet
  <2>2. \A i, j \in 1 .. n : k[i] = k[j] => i = j
    BY <1>1, <2>1 DEF KeepsOrder, Distinct
  <2>3. \A i, j \in 1 .. n : Name(k[i]) = Name(k[j]) => i = j
    BY <1>4, <1>6, <2>1, <2>2
  <2> SUFFICES ASSUME NEW i \in 1 .. n + 1, NEW j \in 1 .. n + 1, Name(r[i]) = Name(r[j])
               PROVE  i = j
    BY <1>3 DEF Unique
  <2>4. CASE i \in 1 .. n /\ j \in 1 .. n
    BY <1>3, <2>3, <2>4
  <2>5. CASE i \in 1 .. n /\ j = n + 1
    BY <1>3, <1>8, <2>5
  <2>6. CASE i = n + 1 /\ j \in 1 .. n
    BY <1>3, <1>8, <2>6
  <2>7. CASE i = n + 1 /\ j = n + 1
    BY <2>7
  <2> QED BY <2>4, <2>5, <2>6, <2>7
<1>10. ASSUME NEW q, NEW s
       PROVE  Precedes(r, q, s) <=> Precedes(k, q, s) \/ (q \in ToSet(k) /\ s = p)
  <2>1. ASSUME Precedes(r, q, s) PROVE Precedes(k, q, s) \/ (q \in ToSet(k) /\ s = p)
    <3>1. PICK i \in 1 .. n + 1, j \in 1 .. n + 1 : i < j /\ r[i] = q /\ r[j] = s
      BY <1>3, <2>1 DEF Precedes
    <3>2. i \in 1 .. n /\ k[i] = q
      <4>1. i \in 1 .. n
        BY <3>1
      <4> QED BY <1>3, <3>1, <4>1
    <3>3. CASE j = n + 1
      BY <1>3, <1>4, <3>1, <3>2, <3>3
    <3>4. CASE j \in 1 .. n
      <4>1. k[j] = s
        BY <1>3, <3>1, <3>4
      <4> QED BY <3>1, <3>2, <3>4, <4>1 DEF Precedes
    <3> QED BY <3>3, <3>4
  <2>2. ASSUME Precedes(k, q, s) PROVE Precedes(r, q, s)
    <3>1. PICK i \in 1 .. n, j \in 1 .. n : i < j /\ k[i] = q /\ k[j] = s
      BY <2>2 DEF Precedes
    <3>2. i \in 1 .. n + 1 /\ j \in 1 .. n + 1 /\ r[i] = q /\ r[j] = s
      BY <1>3, <3>1
    <3> QED BY <1>3, <3>1, <3>2 DEF Precedes
  <2>3. ASSUME q \in ToSet(k), s = p PROVE Precedes(r, q, s)
    <3>1. PICK i \in 1 .. n : k[i] = q
      BY <1>4, <2>3
    <3>2. i \in 1 .. n + 1 /\ n + 1 \in 1 .. n + 1 /\ i < n + 1 /\ r[i] = q /\ r[n + 1] = s
      BY <1>3, <2>3, <3>1
    <3> QED BY <1>3, <3>2 DEF Precedes
  <2> QED BY <2>1, <2>2, <2>3
<1>11. ASSUME NEW q, NEW s
       PROVE  Precedes(k, q, s) <=> Precedes(list, q, s) /\ Name(q) # Name(p) /\ Name(s) # Name(p)
  <2>1. Precedes(k, q, s) <=> q \in T /\ s \in T /\ Precedes(list, q, s)
    BY <1>1 DEF KeepsOrder
  <2>2. Precedes(list, q, s) => q \in Known /\ s \in Known
    BY DEF Precedes
  <2> QED BY <2>1, <2>2 DEF Name
<1>12. Replaces(r, list, p)
  BY <1>6, <1>7, <1>9, <1>10, <1>11 DEF Replaces
<1> QED BY <1>2, <1>3, <1>12

\* g[k] is list with the first k of more added.
Adds(g, list, more) ==
  /\ g[0] = list
  /\ \A k \in 1 .. Len(more) : g[k] = addPlugin(g[k - 1], more[k])

LEMMA AddPluginsAdds ==
  ASSUME NEW list \in Seq(Known), NEW more \in Seq(Known)
  PROVE  \E g : Adds(g, list, more) /\ addPlugins(list, more) = g[Len(more)]
<1> PICK l \in Nat : l = Len(more)
  OBVIOUS
<1> DEFINE X == Seq(Known)
           Is(f) == f = [n \in 0 .. l |-> IF n = 0 THEN list ELSE addPlugin(f[n - 1], more[n])]
           step == [kx \in (1 .. l) \X X |-> addPlugin(kx[2], more[kx[1]])]
<1>1. step \in [(1 .. l) \X X -> X]
  <2>1. ASSUME NEW k \in 1 .. l, NEW x \in X PROVE addPlugin(x, more[k]) \in X
    BY AddReplaces
  <2> HIDE DEF X
  <2> QED BY <2>1
<1>2. list \in X
  OBVIOUS
<1> HIDE DEF X
<1>3. PICK g : /\ g \in [0 .. l -> X] /\ g[0] = list
               /\ \A k \in 1 .. l : g[k] = step[<<k, g[k - 1]>>]
  <2> HIDE DEF step
  <2>1. StepsOn(X, list, l, step)
    BY <1>1, <1>2 DEF StepsOn
  <2> QED BY <2>1, RecursionExists DEF Recurs
<1>4. \A k \in 1 .. l : g[k] = addPlugin(g[k - 1], more[k])
  <2> SUFFICES ASSUME NEW k \in 1 .. l PROVE g[k] = addPlugin(g[k - 1], more[k])
    OBVIOUS
  <2>1. <<k, g[k - 1]>> \in (1 .. l) \X X
    <3>1. k - 1 \in 0 .. l
      OBVIOUS
    <3>2. g[k - 1] \in X
      BY <1>3, <3>1
    <3> QED BY <3>2
  <2>2. step[<<k, g[k - 1]>>] = addPlugin(g[k - 1], more[k])
    BY <2>1
  <2> QED BY <1>3, <2>2
<1>5. Is(g)
  <2>1. \A n \in 0 .. l : g[n] = IF n = 0 THEN list ELSE addPlugin(g[n - 1], more[n])
    <3> SUFFICES ASSUME NEW n \in 0 .. l, n # 0 PROVE g[n] = addPlugin(g[n - 1], more[n])
      BY <1>3
    <3>1. n \in 1 .. l
      OBVIOUS
    <3> QED BY <1>4, <3>1
  <2> QED BY <1>3, <2>1
<1> DEFINE c == CHOOSE f : Is(f)
<1>6. Is(c)
  <2> HIDE DEF Is
  <2> QED BY <1>5
<1>7. addPlugins(list, more) = c[Len(more)]
  BY DEF addPlugins
<1> HIDE DEF c
<1>8. Adds(c, list, more)
  BY <1>6, SMTT(30) DEF Adds
<1> QED BY <1>7, <1>8

\* r is list with the plugins of more added: they take the place of those of
\* their names, and each other's.
Supplants(r, list, more) ==
  /\ r \in Seq(Known)
  /\ Unique(list) => Unique(r)
  /\ \A q \in ToSet(r) : q \in ToSet(more) \/ (q \in ToSet(list) /\ Name(q) \notin NamesOf(more))
  /\ \A q \in ToSet(list) : Name(q) \notin NamesOf(more) => q \in ToSet(r)
  /\ NamesOf(more) \subseteq NamesOf(r)

LEMMA AppendToSet ==
  ASSUME NEW S, NEW more \in Seq(S), NEW p \in S
  PROVE  ToSet(Append(more, p)) = ToSet(more) \cup {p}
<1> PICK n \in Nat : n = Len(more)
  OBVIOUS
<1> PICK r : r = Append(more, p)
  OBVIOUS
<1>1. r \in Seq(S) /\ Len(r) = n + 1 /\ r[n + 1] = p /\ \A i \in 1 .. n : r[i] = more[i]
  OBVIOUS
<1>2. ToSet(r) = {r[i] : i \in 1 .. n + 1} /\ ToSet(more) = {more[i] : i \in 1 .. n}
  <2>1. DOMAIN r = 1 .. n + 1 /\ DOMAIN more = 1 .. n
    BY <1>1
  <2> QED BY <2>1 DEF ToSet
<1>3. \A i \in 1 .. n + 1 : i = n + 1 \/ i \in 1 .. n
  OBVIOUS
<1>4. n + 1 \in 1 .. n + 1 /\ \A i \in 1 .. n : i \in 1 .. n + 1
  OBVIOUS
<1>5. \A i \in 1 .. n + 1 : r[i] \in ToSet(more) \cup {p}
  BY <1>1, <1>2, <1>3
<1>6. p \in ToSet(r) /\ \A i \in 1 .. n : more[i] \in ToSet(r)
  BY <1>1, <1>2, <1>4
<1>7. ToSet(r) = ToSet(more) \cup {p}
  BY <1>2, <1>5, <1>6
<1> QED BY <1>7

LEMMA SupplantsNone ==
  ASSUME NEW list \in Seq(Known)
  PROVE  Supplants(list, list, <<>>)
<1>1. ToSet(<<>>) = {}
  BY DEF ToSet
<1>2. NamesOf(<<>>) = {}
  BY <1>1 DEF NamesOf
<1> QED BY <1>2 DEF Supplants

LEMMA SupplantsMore ==
  ASSUME NEW list \in Seq(Known), NEW more \in Seq(Known), NEW p \in Known,
         NEW r, Supplants(r, list, more), NEW t \in Seq(Known), Replaces(t, r, p)
  PROVE  Supplants(t, list, Append(more, p))
<1> PICK m : m = Append(more, p)
  OBVIOUS
<1>1. ToSet(m) = ToSet(more) \cup {p}
  BY AppendToSet
<1>2. NamesOf(m) = NamesOf(more) \cup {Name(p)}
  BY <1>1 DEF NamesOf
<1>3. ToSet(t) = {q \in ToSet(r) : Name(q) # Name(p)} \cup {p}
  BY DEF Replaces
<1>4. Unique(list) => Unique(t)
  BY DEF Replaces, Supplants
<1>5. ASSUME NEW q \in ToSet(t)
      PROVE  q \in ToSet(m) \/ (q \in ToSet(list) /\ Name(q) \notin NamesOf(m))
  BY <1>1, <1>2, <1>3 DEF Supplants
<1>6. ASSUME NEW q \in ToSet(list), Name(q) \notin NamesOf(m) PROVE q \in ToSet(t)
  BY <1>2, <1>3, <1>6 DEF Supplants
<1>7. NamesOf(m) \subseteq NamesOf(t)
  <2> SUFFICES ASSUME NEW x \in NamesOf(m) PROVE x \in NamesOf(t)
    OBVIOUS
  <2>1. CASE x = Name(p)
    BY <1>3, <2>1 DEF NamesOf
  <2>2. CASE x # Name(p)
    <3>1. x \in NamesOf(r)
      BY <1>2, <2>2 DEF Supplants
    <3>2. PICK q \in ToSet(r) : x = Name(q)
      BY <3>1 DEF NamesOf
    <3> QED BY <1>3, <2>2, <3>2 DEF NamesOf
  <2> QED BY <2>1, <2>2
<1> QED BY <1>4, <1>5, <1>6, <1>7 DEF Supplants

LEMMA AddPluginsSupplants ==
  ASSUME NEW list \in Seq(Known), NEW more \in Seq(Known)
  PROVE  Supplants(addPlugins(list, more), list, more)
<1> PICK l \in Nat : l = Len(more)
  OBVIOUS
<1>1. PICK g : Adds(g, list, more) /\ addPlugins(list, more) = g[l]
  BY AddPluginsAdds
<1> DEFINE Good(k) == Supplants(g[k], list, SubSeq(more, 1, k))
           I == {k \in Nat : k <= l => Good(k)}
<1>2. 0 \in I
  <2>1. g[0] = list /\ SubSeq(more, 1, 0) = <<>>
    BY <1>1 DEF Adds
  <2>2. Good(0)
    BY <2>1, SupplantsNone
  <2> HIDE DEF Good
  <2> QED BY <2>2
<1>3. ASSUME NEW k \in Nat, k \in I PROVE k + 1 \in I
  <2> SUFFICES ASSUME k + 1 <= l PROVE Good(k + 1)
    OBVIOUS
  <2>1. Good(k)
    BY <1>3
  <2>2. k + 1 \in 1 .. l /\ (k + 1) - 1 = k
    OBVIOUS
  <2>3. g[k + 1] = addPlugin(g[k], more[k + 1])
    BY <1>1, <2>2 DEF Adds
  <2>4. g[k] \in Seq(Known) /\ more[k + 1] \in Known
    BY <2>1, <2>2 DEF Supplants
  <2>5. g[k + 1] \in Seq(Known) /\ Replaces(g[k + 1], g[k], more[k + 1])
    BY <2>3, <2>4, AddReplaces
  <2>6. SubSeq(more, 1, k + 1) = Append(SubSeq(more, 1, k), more[k + 1])
    <3> DEFINE u == SubSeq(more, 1, k)  w == SubSeq(more, 1, k + 1)  a == Append(u, more[k + 1])
    <3>1. u \in Seq(Known) /\ Len(u) = k /\ \A i \in 1 .. k : u[i] = more[i]
      BY SubSeqProperties
    <3>2. w \in Seq(Known) /\ Len(w) = k + 1 /\ \A i \in 1 .. k + 1 : w[i] = more[i]
      BY SubSeqProperties
    <3> HIDE DEF u, w
    <3>3. a \in Seq(Known) /\ Len(a) = k + 1 /\ \A i \in 1 .. k + 1 : a[i] = IF i = k + 1 THEN more[k + 1] ELSE u[i]
      BY <2>4, <3>1
    <3> HIDE DEF a
    <3>4. \A i \in 1 .. k + 1 : a[i] = w[i]
      BY <3>1, <3>2, <3>3
    <3>5. a = w
      BY <3>2, <3>3, <3>4, SeqEqual
    <3> QED BY <3>5 DEF a, u, w
  <2>7. SubSeq(more, 1, k) \in Seq(Known)
    BY SubSeqProperties
  <2> QED BY <2>1, <2>4, <2>5, <2>6, <2>7, SupplantsMore
<1> HIDE DEF Good
<1>4. l \in I
  <2> HIDE DEF I
  <2> QED BY <1>2, <1>3, SetInduction
<1>5. SubSeq(more, 1, l) = more
  <2>1. /\ SubSeq(more, 1, l) \in Seq(Known) /\ Len(SubSeq(more, 1, l)) = l
        /\ \A i \in 1 .. l : SubSeq(more, 1, l)[i] = more[i]
    BY SubSeqProperties
  <2> QED BY <2>1, SeqEqual
<1>6. Good(l)
  <2> HIDE DEF Good
  <2> QED BY <1>4
<1>7. Supplants(g[l], list, SubSeq(more, 1, l))
  BY <1>6 DEF Good
<1> QED BY <1>1, <1>5, <1>7

-----------------------------------------------------------------------------
(* Registering options.                                                    *)

Registering(acc, p) ==
  IF OptionNames(p) \cap acc.taken = {}
  THEN [taken |-> acc.taken \cup OptionNames(p), can |-> acc.can \cup {p}]
  ELSE [taken |-> acc.taken \cup (OptionNames(p) \cap {"with-" \o Record(p).name}),
        can |-> acc.can]

\* g[k] is what is registered after the first k plugins.
Registers(g, list, taken) ==
  /\ g[0] = [taken |-> taken, can |-> {}]
  /\ \A k \in 1 .. Len(list) : g[k] = Registering(g[k - 1], list[k])

\* p is the only plugin of list with its options, and none of them is taken.
Alone(p, list, taken) ==
  /\ OptionNames(p) \cap taken = {}
  /\ \A q \in ToSet(list) : q # p => OptionNames(p) \cap OptionNames(q) = {}

\* After the first k plugins.
RegistersWell(r, list, taken, k) ==
  /\ r.taken \subseteq taken \cup UNION {OptionNames(list[j]) : j \in 1 .. k}
  /\ r.can \subseteq {list[j] : j \in 1 .. k}
  /\ Distinct(list) => \A j \in 1 .. k : Alone(list[j], list, taken) => list[j] \in r.can

LEMMA RegisteredRegisters ==
  ASSUME NEW list \in Seq(Known), NEW taken
  PROVE  \E g : Registers(g, list, taken) /\ Registered(list, taken) = g[Len(list)]
<1> PICK l \in Nat : l = Len(list)
  OBVIOUS
<1> DEFINE U == taken \cup UNION {OptionNames(p) : p \in Known}
           X == [taken : SUBSET U, can : SUBSET Known]
           base == [taken |-> taken, can |-> {}]
           Reg(acc, p) ==
             IF OptionNames(p) \cap acc.taken = {}
             THEN [taken |-> acc.taken \cup OptionNames(p), can |-> acc.can \cup {p}]
             ELSE [taken |-> acc.taken \cup (OptionNames(p) \cap {"with-" \o Record(p).name}),
                   can |-> acc.can]
           Is(f) == f = [n \in 0 .. l |-> IF n = 0 THEN base ELSE Reg(f[n - 1], list[n])]
           step == [kx \in (1 .. l) \X X |-> Reg(kx[2], list[kx[1]])]
<1>1. step \in [(1 .. l) \X X -> X]
  <2>1. ASSUME NEW k \in 1 .. l, NEW x \in X PROVE Reg(x, list[k]) \in X
    <3>1. PICK p \in Known : p = list[k]
      OBVIOUS
    <3>2. OptionNames(p) \subseteq U
      OBVIOUS
    <3>3. x.taken \subseteq U /\ x.can \subseteq Known
      <4> HIDE DEF U
      <4> QED OBVIOUS
    <3> HIDE DEF U
    <3>4. Reg(x, p) \in X
      BY <3>2, <3>3
    <3> QED BY <3>1, <3>4
  <2> HIDE DEF X, Reg
  <2> QED BY <2>1
<1>2. base \in X
  OBVIOUS
<1> HIDE DEF X, base, Reg
<1>3. PICK g : /\ g \in [0 .. l -> X] /\ g[0] = base
               /\ \A k \in 1 .. l : g[k] = step[<<k, g[k - 1]>>]
  <2> HIDE DEF step
  <2>1. StepsOn(X, base, l, step)
    BY <1>1, <1>2 DEF StepsOn
  <2> QED BY <2>1, RecursionExists DEF Recurs
<1>4. \A k \in 1 .. l : g[k] = Reg(g[k - 1], list[k])
  <2> SUFFICES ASSUME NEW k \in 1 .. l PROVE g[k] = Reg(g[k - 1], list[k])
    OBVIOUS
  <2>1. <<k, g[k - 1]>> \in (1 .. l) \X X
    <3>1. k - 1 \in 0 .. l
      OBVIOUS
    <3>2. g[k - 1] \in X
      BY <1>3, <3>1
    <3> QED BY <3>2
  <2>2. step[<<k, g[k - 1]>>] = Reg(g[k - 1], list[k])
    BY <2>1
  <2> QED BY <1>3, <2>2
<1>5. Is(g)
  <2>1. \A n \in 0 .. l : g[n] = IF n = 0 THEN base ELSE Reg(g[n - 1], list[n])
    <3> SUFFICES ASSUME NEW n \in 0 .. l, n # 0 PROVE g[n] = Reg(g[n - 1], list[n])
      BY <1>3
    <3>1. n \in 1 .. l
      OBVIOUS
    <3> QED BY <1>4, <3>1
  <2> QED BY <1>3, <2>1
<1> DEFINE c == CHOOSE f : Is(f)
<1>6. Is(c)
  <2> HIDE DEF Is
  <2> QED BY <1>5
<1>7. Registered(list, taken) = c[Len(list)]
  BY DEF Registered, Reg, base
<1> HIDE DEF c
<1>8. Registers(c, list, taken)
  <2>1. c[0] = base /\ \A k \in 1 .. l : c[k] = Reg(c[k - 1], list[k])
    BY <1>6
  <2> QED BY <2>1 DEF Registers, Registering, Reg, base
<1> QED BY <1>7, <1>8

LEMMA RegisteringWell ==
  ASSUME NEW list \in Seq(Known), NEW taken, NEW k \in Nat, k + 1 <= Len(list),
         NEW r, RegistersWell(r, list, taken, k)
  PROVE  RegistersWell(Registering(r, list[k + 1]), list, taken, k + 1)
<1> PICK t : t = Registering(r, list[k + 1])
  OBVIOUS
<1> DEFINE p == list[k + 1]
<1>1. k + 1 \in 1 .. k + 1 /\ \A j \in 1 .. k : j \in 1 .. k + 1
  OBVIOUS
<1>2. t.taken \subseteq r.taken \cup OptionNames(p) /\ t.can \subseteq r.can \cup {p} /\ r.can \subseteq t.can
  BY DEF Registering
<1>3. t.taken \subseteq taken \cup UNION {OptionNames(list[j]) : j \in 1 .. k + 1}
  <2>1. r.taken \subseteq taken \cup UNION {OptionNames(list[j]) : j \in 1 .. k}
    BY DEF RegistersWell
  <2> QED BY <1>1, <1>2, <2>1
<1>4. t.can \subseteq {list[j] : j \in 1 .. k + 1}
  <2>1. r.can \subseteq {list[j] : j \in 1 .. k}
    BY DEF RegistersWell
  <2> QED BY <1>1, <1>2, <2>1
<1>5. ASSUME Distinct(list), NEW j \in 1 .. k + 1, Alone(list[j], list, taken)
      PROVE  list[j] \in t.can
  <2>1. CASE j \in 1 .. k
    BY <1>2, <1>5, <2>1 DEF RegistersWell
  <2>2. CASE j = k + 1
    <3>1. ASSUME NEW o \in OptionNames(p) PROVE o \notin r.taken
      <4>1. o \notin taken
        BY <1>5, <2>2, <3>1 DEF Alone
      <4>2. ASSUME NEW i \in 1 .. k, o \in OptionNames(list[i]) PROVE FALSE
        <5>1. i \in 1 .. Len(list) /\ k + 1 \in 1 .. Len(list) /\ i # k + 1
          OBVIOUS
        <5>2. list[i] # p
          BY <1>5, <5>1 DEF Distinct
        <5>3. list[i] \in ToSet(list)
          BY <5>1 DEF ToSet
        <5> QED BY <1>5, <2>2, <3>1, <4>2, <5>2, <5>3 DEF Alone
      <4> QED BY <4>1, <4>2 DEF RegistersWell
    <3>2. OptionNames(p) \cap r.taken = {}
      BY <3>1
    <3>3. t.can = r.can \cup {p}
      BY <3>2 DEF Registering
    <3> QED BY <2>2, <3>3
  <2>3. j \in 1 .. k \/ j = k + 1
    OBVIOUS
  <2> QED BY <2>1, <2>2, <2>3
<1>6. RegistersWell(t, list, taken, k + 1)
  BY <1>3, <1>4, <1>5 DEF RegistersWell
<1> QED BY <1>6

\* Only plugins of the list can be configured, and all of those whose options no
\* other has.
LEMMA RegisteredCan ==
  ASSUME NEW list \in Seq(Known), NEW taken
  PROVE  /\ Registered(list, taken).can \subseteq ToSet(list)
         /\ Distinct(list) => \A p \in ToSet(list) : Alone(p, list, taken) =>
              p \in Registered(list, taken).can
<1> PICK l \in Nat : l = Len(list)
  OBVIOUS
<1>1. PICK g : Registers(g, list, taken) /\ Registered(list, taken) = g[l]
  BY RegisteredRegisters
<1> DEFINE Good(k) == RegistersWell(g[k], list, taken, k)
           I == {k \in Nat : k <= l => Good(k)}
<1>2. 0 \in I
  <2>1. g[0] = [taken |-> taken, can |-> {}]
    BY <1>1 DEF Registers
  <2>2. Good(0)
    BY <2>1 DEF RegistersWell
  <2> HIDE DEF Good
  <2> QED BY <2>2
<1>3. ASSUME NEW k \in Nat, k \in I PROVE k + 1 \in I
  <2> SUFFICES ASSUME k + 1 <= l PROVE Good(k + 1)
    OBVIOUS
  <2>1. Good(k)
    BY <1>3
  <2>2. k + 1 \in 1 .. l /\ (k + 1) - 1 = k
    OBVIOUS
  <2>3. g[k + 1] = Registering(g[k], list[k + 1])
    BY <1>1, <2>2 DEF Registers
  <2> QED BY <2>1, <2>3, RegisteringWell
<1> HIDE DEF Good
<1>4. l \in I
  <2> HIDE DEF I
  <2> QED BY <1>2, <1>3, SetInduction
<1>5. Good(l)
  BY <1>4
<1>6. RegistersWell(Registered(list, taken), list, taken, l)
  BY <1>1, <1>5 DEF Good
<1>7. ToSet(list) = {list[j] : j \in 1 .. l}
  <2>1. DOMAIN list = 1 .. l
    OBVIOUS
  <2> QED BY <2>1 DEF ToSet
<1> QED BY <1>6, <1>7 DEF RegistersWell

-----------------------------------------------------------------------------
(* The lists of plugins.                                                   *)

LEMMA CommandTypes ==
  ASSUME NEW c \in Commands
  PROVE  /\ c.way \in Ways
         /\ c.plugins \in Seq(Known) /\ c.extra \in Seq(Known) /\ c.instantiate \in Seq(Known)
         /\ EntryPoints(c.entries) \in Seq(Known)
         /\ ToSet(EntryPoints(c.entries)) \subseteq {c.entries[i].plugin : i \in DOMAIN c.entries}
<1> DEFINE E == [ep : STRING, plugin : Known, loads : BOOLEAN]
<1>1. c.way \in Ways /\ {c.plugins, c.extra, c.instantiate} \subseteq Seq(Known) /\ c.entries \in Seq(E)
  BY CommandsAssumption
<1> PICK e : e = c.entries
  OBVIOUS
<1> PICK n \in Nat : n = Len(e)
  BY <1>1
<1> DEFINE first(i) == \A j \in 1 .. (i - 1) : e[j].ep # e[i].ep
           s == [i \in DOMAIN e |-> IF first(i) /\ e[i].loads THEN <<e[i].plugin>> ELSE <<>>]
<1>2. DOMAIN e = 1 .. n /\ \A i \in 1 .. n : e[i].plugin \in Known
  <2>1. DOMAIN e = 1 .. n /\ \A i \in 1 .. n : e[i] \in E
    <3> HIDE DEF E
    <3> QED BY <1>1
  <2> QED BY <2>1
<1>3. s \in Seq(Seq(Known)) /\ DOMAIN s = 1 .. n
      /\ \A i \in 1 .. n : s[i] = <<e[i].plugin>> \/ s[i] = <<>>
  <2> HIDE DEF first
  <2>1. ASSUME NEW i \in 1 .. n PROVE <<e[i].plugin>> \in Seq(Known)
    BY <1>2
  <2> QED BY <1>2, <2>1
<1>4. EntryPoints(e) = FlattenSeq(s)
  BY DEF EntryPoints
<1> HIDE DEF s
<1>5. FlattenSeq(s) \in Seq(Known) /\ ToSet(FlattenSeq(s)) = UNION {ToSet(s[j]) : j \in DOMAIN s}
  BY <1>3, FlattenElements
<1>6. ASSUME NEW i \in 1 .. n PROVE ToSet(s[i]) \subseteq {e[i].plugin}
  <2>1. ToSet(<<e[i].plugin>>) = {e[i].plugin} /\ ToSet(<<>>) = {}
    BY DEF ToSet
  <2> QED BY <1>3, <2>1
<1>7. ASSUME NEW p \in ToSet(FlattenSeq(s)) PROVE p \in {e[i].plugin : i \in DOMAIN e}
  <2>1. p \in UNION {ToSet(s[j]) : j \in DOMAIN s}
    BY <1>5
  <2>2. PICK j \in 1 .. n : p \in ToSet(s[j])
    BY <1>3, <2>1
  <2> QED BY <1>2, <1>6, <2>2
<1> QED BY <1>1, <1>4, <1>5, <1>7

LEMMA BuiltinOrderTypes == BuiltinOrder \in Seq(Known)
<1>1. DOMAIN Builtins = ToSet(BuiltinOrder)
  BY DEF Builtins
<1>2. BuiltinOrder \in Seq(ToSet(BuiltinOrder))
  BY DEF BuiltinOrder, ToSet
<1> HIDE DEF BuiltinOrder
<1>4. ToSet(BuiltinOrder) \subseteq Known
  BY <1>1 DEF Known
<1> QED BY <1>2, <1>4

LEMMA ConfiguredTypes ==
  ASSUME NEW list \in Seq(Known), NEW can, NEW worker
  PROVE  Configured(list, can, worker) \in Seq(Known)
<1> DEFINE T == {p \in Known : Enabled(p, SetOptions, p \in can, worker)}
<1>1. Configured(list, can, worker) = sort(Keep(list, T))
  BY DEF Configured
<1> HIDE DEF T
<1>2. Keep(list, T) \in Seq(Known)
  BY KeepOrder
<1> QED BY <1>1, <1>2, SortSorts

LEMMA AddPluginsTypes ==
  ASSUME NEW list \in Seq(Known), NEW more \in Seq(Known)
  PROVE  addPlugins(list, more) \in Seq(Known)
BY AddPluginsSupplants DEF Supplants

LEMMA LoadedTypes ==
  ASSUME cmd \in Commands, plugins \in Seq(Known), extraplugins \in Seq(Known)
  PROVE  Loaded \in Seq(Known)
<1>1. EntryPoints(cmd.entries) \in Seq(Known)
  BY CommandTypes
<1>2. addPlugins(plugins, extraplugins) \in Seq(Known)
  BY AddPluginsTypes
<1>3. addPlugins(plugins, BuiltinOrder) \in Seq(Known)
  BY AddPluginsTypes, BuiltinOrderTypes
<1>4. addPlugins(addPlugins(plugins, BuiltinOrder), EntryPoints(cmd.entries)) \in Seq(Known)
  BY <1>1, <1>3, AddPluginsTypes
<1>5. addPlugins(addPlugins(addPlugins(plugins, BuiltinOrder), EntryPoints(cmd.entries)),
                 extraplugins) \in Seq(Known)
  BY <1>4, AddPluginsTypes
<1> QED BY <1>2, <1>5 DEF Loaded

LEMMA WorkerPluginsTypes ==
  ASSUME cmd \in Commands
  PROVE  WorkerPlugins \in Seq(Known)
<1> DEFINE list == IF cmd.plugins # <<>> THEN <<>>
                   ELSE addPlugins(BuiltinOrder, EntryPoints(cmd.entries))
           can == Registered(list, {}).can
           some == Configured(list, can, TRUE)
           more == addPlugins(some, cmd.instantiate)
           all == can \cup Registered(cmd.instantiate, {}).can
<1>1. list \in Seq(Known)
  BY CommandTypes, BuiltinOrderTypes, AddPluginsTypes
<1>2. WorkerPlugins = Configured(more, all, TRUE)
  BY DEF WorkerPlugins
<1> HIDE DEF list
<1>3. some \in Seq(Known)
  <2> HIDE DEF can
  <2> QED BY <1>1, ConfiguredTypes
<1> HIDE DEF some
<1>4. more \in Seq(Known)
  BY <1>3, CommandTypes, AddPluginsTypes
<1> HIDE DEF more, all
<1> QED BY <1>2, <1>4, ConfiguredTypes

-----------------------------------------------------------------------------
(* Calls.                                                                  *)

LEMMA ContainsElement ==
  ASSUME NEW S, NEW list \in Seq(S), NEW p
  PROVE  Contains(list, p) <=> p \in ToSet(list)
<1>1. DOMAIN list = 1 .. Len(list)
  OBVIOUS
<1> QED BY <1>1 DEF Contains, ToSet

\* s is where t begins.
Begins(s, t) ==
  /\ s \in Seq(Known) /\ Len(s) <= Len(t)
  /\ \A i \in 1 .. Len(s) : s[i] = t[i]

LEMMA BeginsTransitive ==
  ASSUME NEW t \in Seq(Known), NEW s, Begins(s, t), NEW r, Begins(r, s)
  PROVE  Begins(r, t)
<1> PICK l \in Nat, m \in Nat, n \in Nat : l = Len(r) /\ m = Len(s) /\ n = Len(t)
  BY DEF Begins
<1>1. l <= m /\ m <= n /\ \A i \in 1 .. l : i \in 1 .. m
  BY DEF Begins
<1>2. \A i \in 1 .. l : r[i] = t[i]
  BY <1>1 DEF Begins
<1> QED BY <1>1, <1>2 DEF Begins

LEMMA BeginsSub ==
  ASSUME NEW t \in Seq(Known), NEW k \in 0 .. Len(t)
  PROVE  Begins(SubSeq(t, 1, k), t) /\ Len(SubSeq(t, 1, k)) = k
BY SubSeqProperties DEF Begins

\* The first in a set of places.
LEMMA FirstPlace ==
  ASSUME NEW I \in SUBSET Nat, I # {}
  PROVE  Min(I) \in I /\ \A i \in I : Min(I) <= i
<1>1. \E x \in I : \A y \in I : x <= y
  BY LeastNatural
<1> QED BY <1>1 DEF Min

ProxyTyped == \A h \in DOMAIN proxies : proxies[h] \in Seq(Known)

LEMMA ProxyTypes ==
  ASSUME plugins \in Seq(Known), ProxyTyped, NEW hook
  PROVE  Proxy(hook) \in Seq(Known)
<1>1. Keep(plugins, {p \in Known : hook \in Record(p).hooks}) \in Seq(Known)
  BY KeepOrder
<1> QED BY <1>1 DEF Proxy, ProxyTyped

LEMMA CalledBegins ==
  ASSUME NEW hook, Proxy(hook) \in Seq(Known)
  PROVE  /\ Begins(Called(hook), Proxy(hook))
         /\ Called(hook) # Proxy(hook) =>
              Len(Called(hook)) >= 1 /\ Answers(Called(hook)[Len(Called(hook))], hook)
<1> PICK list \in Seq(Known) : list = Proxy(hook)
  OBVIOUS
<1> DEFINE I == {i \in 1 .. Len(list) : Answers(list[i], hook)}
<1>1. Called(hook) = IF (IF I # {} THEN Min(I) ELSE 0) = 0 THEN list
                     ELSE SubSeq(list, 1, IF I # {} THEN Min(I) ELSE 0)
  BY DEF Called, SelectInSeq
<1>2. CASE I = {}
  <2>1. Called(hook) = list
    BY <1>1, <1>2
  <2> QED BY <2>1 DEF Begins
<1>3. CASE I # {}
  <2>1. Min(I) \in I
    <3>1. I \in SUBSET Nat
      OBVIOUS
    <3> HIDE DEF I
    <3> QED BY <1>3, <3>1, FirstPlace
  <2>2. PICK m : m = Min(I)
    OBVIOUS
  <2>3. m \in 1 .. Len(list) /\ Answers(list[m], hook)
    BY <2>1, <2>2
  <2>4. Called(hook) = SubSeq(list, 1, m)
    <3>1. m # 0
      BY <2>3
    <3> HIDE DEF I
    <3> QED BY <1>1, <1>3, <2>2, <3>1
  <2>5. Begins(Called(hook), list) /\ Len(Called(hook)) = m
    BY <2>3, <2>4, BeginsSub
  <2>6. Called(hook)[m] = list[m]
    BY <2>3, <2>5 DEF Begins
  <2> QED BY <2>3, <2>5, <2>6
<1> QED BY <1>2, <1>3

Calling == {"begin", "prepareTestLoader", "prepareTestRunner", "prepareTest",
            "setOutputStream", "report", "finalize"}

\* s goes on with calls of hook that reach the given plugins.
GoesOn(t, s, hook, reached) ==
  /\ t \in Seq(Calling \X Known) /\ Len(t) = Len(s) + Len(reached)
  /\ \A i \in 1 .. Len(s) : t[i] = s[i]
  /\ \A i \in 1 .. Len(reached) : t[Len(s) + i] = <<hook, reached[i]>>

\* What Call makes of the calls and the proxies.
Made(hook, reached) == calls \o [i \in DOMAIN reached |-> <<hook, reached[i]>>]
Kept(hook) == [h \in DOMAIN proxies \cup {hook} |-> Proxy(h)]

LEMMA CallGoesOn ==
  ASSUME NEW hook \in Calling, NEW reached \in Seq(Known), calls \in Seq(Calling \X Known)
  PROVE  GoesOn(Made(hook, reached), calls, hook, reached)
<1>u. PICK u : u = [i \in DOMAIN reached |-> <<hook, reached[i]>>]
  OBVIOUS
<1>t. PICK t : t = Made(hook, reached)
  OBVIOUS
<1>s. PICK s \in Seq(Calling \X Known) : s = calls
  OBVIOUS
<1>1. u \in Seq(Calling \X Known) /\ Len(u) = Len(reached)
      /\ \A i \in 1 .. Len(reached) : u[i] = <<hook, reached[i]>>
  <2> PICK n \in Nat : n = Len(reached)
    OBVIOUS
  <2>1. DOMAIN reached = 1 .. n
    OBVIOUS
  <2>2. \A i \in 1 .. n : reached[i] \in Known
    OBVIOUS
  <2>3. DOMAIN u = 1 .. n /\ \A i \in 1 .. n : u[i] = <<hook, reached[i]>>
    BY <1>u, <2>1
  <2>4. u = [i \in 1 .. n |-> u[i]] /\ \A i \in 1 .. n : u[i] \in Calling \X Known
    BY <1>u, <2>1, <2>2, <2>3
  <2>5. u \in Seq(Calling \X Known) /\ Len(u) = n
    <3> PICK S : S = Calling \X Known
      OBVIOUS
    <3>1. u \in [1 .. n -> S]
      BY <2>3, <2>4
    <3>2. u \in Seq(S) /\ Len(u) = n
      BY <3>1
    <3> QED BY <3>2
  <2> QED BY <2>3, <2>5
<1>2. t = s \o u
  BY <1>u, <1>t, <1>s DEF Made
<1>3. /\ t \in Seq(Calling \X Known) /\ Len(t) = Len(s) + Len(u)
      /\ \A i \in 1 .. Len(s) : t[i] = s[i]
      /\ \A i \in 1 .. Len(u) : t[Len(s) + i] = u[i]
  <2>1. t \in Seq(Calling \X Known) /\ Len(t) = Len(s) + Len(u)
    BY <1>1, <1>2, ConcatProperties
  <2>2. \A i \in 1 .. Len(s) : t[i] = s[i]
    BY <1>1, <1>2
  <2>3. \A i \in 1 .. Len(u) : t[Len(s) + i] = u[i]
    BY <1>1, <1>2
  <2> QED BY <1>u, <2>1, <2>2, <2>3
<1>4. GoesOn(t, s, hook, reached)
  <2>1. Len(u) = Len(reached) /\ \A i \in 1 .. Len(reached) : u[i] = <<hook, reached[i]>>
    BY <1>1
  <2>2. \A i \in 1 .. Len(reached) : t[Len(s) + i] = <<hook, reached[i]>>
    BY <1>3, <2>1
  <2> QED BY <1>3, <2>1, <2>2 DEF GoesOn
<1> QED BY <1>s, <1>t, <1>4

-----------------------------------------------------------------------------
(* Types.                                                                  *)

Steps == {"make", "load", "parse", "reparse", "settle", "configure", "begin", "loader",
          "runner", "prepare", "stream", "run", "test", "report", "finalize", "exited"}

CallsTyped ==
  /\ calls \in Seq(Calling \X Known)
  /\ \A i \in 1 .. Len(calls) : calls[i][1] \in DOMAIN proxies

Typing ==
  /\ cmd \in Commands /\ pc \in Steps
  /\ plugins \in Seq(Known) /\ extraplugins \in Seq(Known) /\ workers \in Seq(Known)
  /\ excluded \subseteq Known /\ canConfigure \subseteq Known
  /\ status \in {NoValue, 0, 1, 2} /\ (status = NoValue <=> pc # "exited")
  /\ tracing \in BOOLEAN /\ tempFile \in BOOLEAN /\ passed \in BOOLEAN
  /\ ProxyTyped
  /\ CallsTyped

LEMMA TypingTypeOK ==
  ASSUME Typing
  PROVE  TypeOK
<1>1. \A s \in Seq(Known) : ToSet(s) \subseteq Known
  BY DEF ToSet
<1>2. DOMAIN calls = 1 .. Len(calls)
  BY DEF Typing, CallsTyped
<1> QED BY <1>1, <1>2 DEF Typing, TypeOK, CallsTyped, Steps

\* A call that reaches no more than the plugins of its proxy.
LEMMA CallTyping ==
  ASSUME Typing, NEW hook \in Calling, NEW reached, Begins(reached, Proxy(hook)),
         calls' = Made(hook, reached), proxies' = Kept(hook)
  PROVE  ProxyTyped' /\ CallsTyped'
<1>1. calls \in Seq(Calling \X Known) /\ plugins \in Seq(Known) /\ ProxyTyped
  BY DEF Typing, CallsTyped
<1>2. reached \in Seq(Known)
  BY DEF Begins
<1>3. GoesOn(calls', calls, hook, reached) /\ proxies' = [h \in DOMAIN proxies \cup {hook} |-> Proxy(h)]
  BY <1>1, <1>2, CallGoesOn DEF Kept
<1>4. \A h : Proxy(h) \in Seq(Known)
  BY <1>1, ProxyTypes
<1>5. ProxyTyped'
  BY <1>3, <1>4 DEF ProxyTyped
<1>6. PICK t : t = calls'
  OBVIOUS
<1>7. PICK D : D = DOMAIN proxies'
  OBVIOUS
<1>8. ASSUME NEW i \in 1 .. Len(t) PROVE t[i][1] \in D
  <2> PICK m \in Nat, n \in Nat : m = Len(calls) /\ n = Len(reached)
    BY <1>1, <1>2
  <2>1. GoesOn(t, calls, hook, reached) /\ D = DOMAIN proxies \cup {hook}
    BY <1>3, <1>6, <1>7
  <2>2. Len(t) = m + n
    BY <2>1 DEF GoesOn
  <2>3. CASE i \in 1 .. m
    BY <2>1, <2>3 DEF GoesOn, Typing, CallsTyped
  <2>4. CASE i \notin 1 .. m
    <3>1. PICK j \in 1 .. n : i = m + j
      <4>1. i - m \in 1 .. n /\ i = m + (i - m)
        BY <2>2, <2>4
      <4> QED BY <4>1
    <3>2. t[i] = <<hook, reached[j]>>
      BY <2>1, <3>1 DEF GoesOn
    <3> QED BY <2>1, <3>2
  <2> QED BY <2>3, <2>4
<1>9. t \in Seq(Calling \X Known)
  BY <1>3, <1>6 DEF GoesOn
<1>10. CallsTyped'
  BY <1>6, <1>7, <1>8, <1>9 DEF CallsTyped
<1> QED BY <1>5, <1>10

LEMMA AllCallsTyping ==
  ASSUME Typing, NEW hook \in Calling, calls' = Made(hook, Called(hook)), proxies' = Kept(hook)
  PROVE  ProxyTyped' /\ CallsTyped'
<1>1. Proxy(hook) \in Seq(Known)
  BY ProxyTypes DEF Typing
<1> QED BY <1>1, CalledBegins, CallTyping

LEMMA InitTyping == Init => Typing
<1> SUFFICES ASSUME Init PROVE Typing
  OBVIOUS
<1>1. ProxyTyped /\ CallsTyped
  BY DEF Init, ProxyTyped, CallsTyped
<1>2. plugins \in Seq(Known) /\ extraplugins \in Seq(Known) /\ workers \in Seq(Known)
  BY DEF Init
<1>3. pc \in Steps /\ pc # "exited" /\ status = NoValue
  BY DEF Init, Steps
<1> QED BY <1>1, <1>2, <1>3 DEF Init, Typing

\* What report does when it reaches the plugins of r: that of coverage stops the
\* measuring; one that raises ends the program.
Reports(r) ==
  /\ Begins(r, Proxy("report"))
  /\ calls' = Made("report", r) /\ proxies' = Kept("report")
  /\ tracing' = (tracing /\ ~Contains(r, "coverage"))
  /\ \/ pc' = "finalize" /\ status' = status /\ r = Called("report")
     \/ pc' = "exited" /\ status' = 1 /\ Len(r) >= 1

LEMMA ReportReports ==
  ASSUME plugins \in Seq(Known), ProxyTyped, Report
  PROVE  \E r : Reports(r)
<1> PICK list : list = Called("report")
  OBVIOUS
<1>1. Proxy("report") \in Seq(Known)
  BY ProxyTypes
<1>2. Begins(list, Proxy("report"))
  BY <1>1, CalledBegins
<1>3. list \in Seq(Known)
  BY <1>2 DEF Begins
<1>4. PICK low \in BOOLEAN :
        LET fatal == SelectInSeq(list, LAMBDA p : Coverage_report(p, low) \/ Profile_report(p))
            reached == IF fatal = 0 THEN list ELSE SubSeq(list, 1, fatal)
        IN /\ Call("report", reached)
           /\ tracing' = (tracing /\ ~Contains(reached, "coverage"))
           /\ IF fatal # 0 THEN Exit(1) ELSE pc' = "finalize" /\ UNCHANGED status
  BY DEF Report
<1> DEFINE I == {i \in 1 .. Len(list) : Coverage_report(list[i], low) \/ Profile_report(list[i])}
<1>5. PICK fatal, r :
        /\ fatal = IF I # {} THEN Min(I) ELSE 0
        /\ r = IF fatal = 0 THEN list ELSE SubSeq(list, 1, fatal)
        /\ calls' = Made("report", r) /\ proxies' = Kept("report")
        /\ tracing' = (tracing /\ ~Contains(r, "coverage"))
        /\ IF fatal # 0 THEN Exit(1) ELSE pc' = "finalize" /\ UNCHANGED status
  BY <1>4 DEF SelectInSeq, Call, Made, Kept
<1>6. CASE fatal = 0
  BY <1>2, <1>5, <1>6 DEF Reports
<1>7. CASE fatal # 0
  <2>1. I \in SUBSET Nat /\ I # {}
    BY <1>5, <1>7
  <2>2. fatal \in I
    <3> HIDE DEF I
    <3> QED BY <1>5, <2>1, FirstPlace
  <2>3. fatal \in 1 .. Len(list)
    BY <2>2
  <2> HIDE DEF I
  <2>4. r = SubSeq(list, 1, fatal)
    BY <1>5, <1>7
  <2>5. Begins(r, list) /\ Len(r) = fatal
    BY <1>3, <2>3, <2>4, BeginsSub
  <2>6. Begins(r, Proxy("report"))
    BY <1>1, <1>2, <2>5, BeginsTransitive
  <2>7. Len(r) >= 1
    BY <2>3, <2>5
  <2> QED BY <1>5, <1>7, <2>6, <2>7 DEF Reports, Exit
<1> QED BY <1>6, <1>7

\* Parsing goes on or ends the program.
Goes(next) ==
  \/ pc' = next /\ status' = status
  \/ pc' = "exited" /\ status' \in {1, 2}

LEMMA ParseFilesGoes ==
  ASSUME NEW files, NEW next, ParseFiles(files, next)
  PROVE  Goes(next)
BY DEF ParseFiles, Exit, Goes

LEMMA TypingStep ==
  ASSUME Typing, [Next]_vars
  PROVE  Typing'
<1> USE DEF manager, options, logging, resources
<1>0. 1 # NoValue /\ 2 # NoValue /\ 0 # NoValue
  BY StatusAssumption
<1>1. CASE MakeConfig
  <2>1. cmd.plugins \in Seq(Known) /\ cmd.extra \in Seq(Known)
    BY CommandTypes DEF Typing
  <2>2. addPlugins(<<>>, cmd.plugins) \in Seq(Known)
    <3>1. <<>> \in Seq(Known)
      OBVIOUS
    <3> QED BY <2>1, <3>1, AddPluginsTypes
  <2>3. plugins' \in Seq(Known) /\ extraplugins' \in Seq(Known)
    BY <1>1, <2>1, <2>2, AddPluginsTypes DEF MakeConfig
  <2>4. pc' \in Steps /\ pc' # "exited" /\ pc # "exited"
    BY <1>1 DEF MakeConfig, Steps
  <2>5. ProxyTyped' /\ CallsTyped'
    BY <1>1 DEF MakeConfig, Typing, ProxyTyped, CallsTyped
  <2> QED BY <1>1, <2>3, <2>4, <2>5 DEF MakeConfig, Typing
<1>2. CASE LoadPlugins
  <2>1. Loaded \in Seq(Known)
    BY LoadedTypes DEF Typing
  <2>2. Keep(Loaded, Allowed) \in Seq(Known)
    BY <2>1, KeepOrder
  <2>3. plugins' \in Seq(Known)
    BY <1>2, <2>2 DEF LoadPlugins
  <2>4. extraplugins' \in Seq(Known)
    BY <1>2 DEF LoadPlugins, Typing
  <2>5. excluded' \subseteq Known
    <3>1. \A s \in Seq(Known) : ToSet(s) \subseteq Known
      BY DEF ToSet
    <3>2. excluded' = ToSet(Loaded) \ Allowed
      BY <1>2 DEF LoadPlugins
    <3> QED BY <2>1, <3>1, <3>2
  <2>6. canConfigure' \subseteq Known
    <3>1. \A s \in Seq(Known) : ToSet(s) \subseteq Known
      BY DEF ToSet
    <3>2. canConfigure' = Registered(Keep(Loaded, Allowed), CoreNames).can
      BY <1>2 DEF LoadPlugins
    <3> QED BY <2>2, <3>1, <3>2, RegisteredCan
  <2>7. pc' \in Steps /\ pc' # "exited" /\ pc # "exited"
    BY <1>2 DEF LoadPlugins, Steps
  <2>8. ProxyTyped' /\ CallsTyped'
    BY <1>2 DEF LoadPlugins, Typing, ProxyTyped, CallsTyped
  <2> QED BY <1>2, <2>3, <2>4, <2>5, <2>6, <2>7, <2>8 DEF LoadPlugins, Typing
<1>3. CASE Parse
  <2>1. Goes("reparse") /\ pc # "exited"
    BY <1>3, ParseFilesGoes DEF Parse
  <2>2. ProxyTyped' /\ CallsTyped'
    BY <1>3 DEF Parse, Typing, ProxyTyped, CallsTyped
  <2>3. pc' \in Steps /\ status' \in {NoValue, 0, 1, 2} /\ (status' = NoValue <=> pc' # "exited")
    BY <1>0, <2>1 DEF Goes, Typing, Steps
  <2> QED BY <1>3, <2>2, <2>3 DEF Parse, Typing
<1>4. CASE Reparse
  <2>1. Goes("settle") /\ pc # "exited"
    BY <1>4, ParseFilesGoes DEF Reparse, Goes
  <2>2. ProxyTyped' /\ CallsTyped'
    BY <1>4 DEF Reparse, Typing, ProxyTyped, CallsTyped
  <2>3. pc' \in Steps /\ status' \in {NoValue, 0, 1, 2} /\ (status' = NoValue <=> pc' # "exited")
    BY <1>0, <2>1 DEF Goes, Typing, Steps
  <2> QED BY <1>4, <2>2, <2>3 DEF Reparse, Typing
<1>5. CASE Settle
  <2>1. ProxyTyped' /\ CallsTyped'
    BY <1>5 DEF Settle, Typing, ProxyTyped, CallsTyped
  <2>2. pc' \in Steps /\ pc' # "exited" /\ pc # "exited"
    BY <1>5 DEF Settle, Steps
  <2> QED BY <1>5, <2>1, <2>2 DEF Settle, Typing
<1>6. CASE Configure
  <2>1. Configured(plugins, canConfigure, FALSE) \in Seq(Known)
    BY ConfiguredTypes DEF Typing
  <2>2. plugins' \in Seq(Known) /\ extraplugins' \in Seq(Known)
    <3>1. <<>> \in Seq(Known)
      OBVIOUS
    <3>2. plugins' \in {plugins, Configured(plugins, canConfigure, FALSE)}
      BY <1>6 DEF Configure
    <3>3. extraplugins' \in {extraplugins, <<>>}
      BY <1>6 DEF Configure
    <3> QED BY <2>1, <3>1, <3>2, <3>3 DEF Typing
  <2>3. tracing' \in BOOLEAN
    BY <1>6 DEF Configure, Coverage_configure, Contains
  <2>4. \/ pc' = "begin" /\ status' = status
        \/ pc' = "exited" /\ status' = 1
    BY <1>6 DEF Configure, Exit
  <2>5. pc' \in Steps /\ status' \in {NoValue, 0, 1, 2} /\ (status' = NoValue <=> pc' # "exited")
    BY <1>0, <1>6, <2>4 DEF Configure, Typing, Steps
  <2>6. ProxyTyped' /\ CallsTyped'
    BY <1>6 DEF Configure, Typing, ProxyTyped, CallsTyped
  <2> QED BY <1>6, <2>2, <2>3, <2>5, <2>6 DEF Configure, Typing
<1>7. CASE Begin
  <2>1. ProxyTyped' /\ CallsTyped'
    <3>1. calls' = Made("begin", Called("begin")) /\ proxies' = Kept("begin")
      BY <1>7 DEF Begin, Call, Made, Kept
    <3> QED BY <3>1, AllCallsTyping DEF Calling
  <2>2. tempFile' \in BOOLEAN
    BY <1>7 DEF Begin, Profile_begin, Profile_configure, IsSet, Contains
  <2>3. pc' \in Steps /\ pc' # "exited" /\ pc # "exited"
    BY <1>7 DEF Begin, Steps
  <2> QED BY <1>7, <2>1, <2>2, <2>3 DEF Begin, Typing
<1>8. CASE PrepareTestLoader
  <2>1. CASE IsSet("version") \/ IsSet("showPlugins")
    <3>1. ProxyTyped' /\ CallsTyped'
      BY <1>8, <2>1 DEF PrepareTestLoader, Typing, ProxyTyped, CallsTyped
    <3>2. pc' = "exited" /\ status' = 0
      BY <1>8, <2>1 DEF PrepareTestLoader, Exit
    <3>3. pc' \in Steps /\ status' \in {NoValue, 0, 1, 2} /\ (status' = NoValue <=> pc' # "exited")
      BY <1>0, <3>2 DEF Steps
    <3> QED BY <1>8, <3>1, <3>3 DEF PrepareTestLoader, Typing
  <2>2. CASE ~(IsSet("version") \/ IsSet("showPlugins"))
    <3>1. ProxyTyped' /\ CallsTyped'
      <4>1. calls' = Made("prepareTestLoader", Called("prepareTestLoader")) /\ proxies' = Kept("prepareTestLoader")
        BY <1>8, <2>2 DEF PrepareTestLoader, Call, Made, Kept
      <4> QED BY <4>1, AllCallsTyping DEF Calling
    <3>2. pc' \in Steps /\ pc' # "exited" /\ pc # "exited" /\ status' = status
      BY <1>8, <2>2 DEF PrepareTestLoader, Steps
    <3> QED BY <1>8, <3>1, <3>2 DEF PrepareTestLoader, Typing
  <2> QED BY <2>1, <2>2
<1>9. CASE PrepareTestRunner
  <2>1. ProxyTyped' /\ CallsTyped'
    <3>1. calls' = Made("prepareTestRunner", Called("prepareTestRunner")) /\ proxies' = Kept("prepareTestRunner")
      BY <1>9 DEF PrepareTestRunner, Call, Made, Kept
    <3> QED BY <3>1, AllCallsTyping DEF Calling
  <2>2. workers' \in Seq(Known)
    <3>1. WorkerPlugins \in Seq(Known)
      BY WorkerPluginsTypes DEF Typing
    <3> QED BY <1>9, <3>1 DEF PrepareTestRunner
  <2>3. pc' \in Steps /\ pc' # "exited" /\ pc # "exited"
    BY <1>9 DEF PrepareTestRunner, Steps
  <2> QED BY <1>9, <2>1, <2>2, <2>3 DEF PrepareTestRunner, Typing
<1>10. CASE PrepareTest
  <2>1. ProxyTyped' /\ CallsTyped'
    <3>1. calls' = Made("prepareTest", Called("prepareTest")) /\ proxies' = Kept("prepareTest")
      BY <1>10 DEF PrepareTest, Call, Made, Kept
    <3> QED BY <3>1, AllCallsTyping DEF Calling
  <2>2. pc' \in Steps /\ pc' # "exited" /\ pc # "exited"
    BY <1>10 DEF PrepareTest, Steps
  <2> QED BY <1>10, <2>1, <2>2 DEF PrepareTest, Typing
<1>11. CASE SetOutputStream
  <2>1. ProxyTyped' /\ CallsTyped'
    <3>1. calls' = Made("setOutputStream", Called("setOutputStream")) /\ proxies' = Kept("setOutputStream")
      BY <1>11 DEF SetOutputStream, Call, Made, Kept
    <3> QED BY <3>1, AllCallsTyping DEF Calling
  <2>2. pc' \in Steps /\ pc' # "exited" /\ pc # "exited"
    BY <1>11 DEF SetOutputStream, Steps
  <2> QED BY <1>11, <2>1, <2>2 DEF SetOutputStream, Typing
<1>12. CASE BeforeTest
  <2>1. ProxyTyped' /\ CallsTyped'
    BY <1>12 DEF BeforeTest, Typing, ProxyTyped, CallsTyped
  <2>2. pc' \in Steps /\ pc' # "exited" /\ pc # "exited"
    BY <1>12 DEF BeforeTest, Steps
  <2> QED BY <1>12, <2>1, <2>2 DEF BeforeTest, Typing
<1>18. CASE BeforeTestUnbegun
  <2>1. ProxyTyped' /\ CallsTyped'
    BY <1>18 DEF BeforeTestUnbegun, Typing, ProxyTyped, CallsTyped
  <2>2. pc' \in Steps /\ pc' # "exited" /\ pc # "exited"
    BY <1>18 DEF BeforeTestUnbegun, Steps
  <2> QED BY <1>18, <2>1, <2>2 DEF BeforeTestUnbegun, Typing
<1>13. CASE TestChangesLoggers
  <2>1. ProxyTyped' /\ CallsTyped'
    BY <1>13 DEF TestChangesLoggers, Typing, ProxyTyped, CallsTyped
  <2>2. pc' \in Steps /\ pc' # "exited" /\ pc # "exited"
    BY <1>13 DEF TestChangesLoggers, Steps
  <2> QED BY <1>13, <2>1, <2>2 DEF TestChangesLoggers, Typing
<1>14. CASE RunTests
  <2>1. ProxyTyped' /\ CallsTyped'
    BY <1>14 DEF RunTests, Typing, ProxyTyped, CallsTyped
  <2>2. pc' \in Steps /\ pc' # "exited" /\ pc # "exited"
    BY <1>14 DEF RunTests, Steps
  <2> QED BY <1>14, <2>1, <2>2 DEF RunTests, Typing
<1>15. CASE Report
  <2>1. PICK r : Reports(r)
    BY <1>15, ReportReports DEF Typing
  <2>2. ProxyTyped' /\ CallsTyped'
    BY <2>1, CallTyping DEF Reports, Calling
  <2>3. tracing' \in BOOLEAN
    BY <2>1 DEF Reports, Typing, Contains
  <2>4. pc' \in Steps /\ status' \in {NoValue, 0, 1, 2} /\ (status' = NoValue <=> pc' # "exited")
    BY <1>0, <1>15, <2>1 DEF Report, Reports, Typing, Steps
  <2> QED BY <1>15, <2>2, <2>3, <2>4 DEF Report, Typing
<1>16. CASE Finalize
  <2>1. ProxyTyped' /\ CallsTyped'
    <3>1. calls' = Made("finalize", Called("finalize")) /\ proxies' = Kept("finalize")
      BY <1>16 DEF Finalize, Call, Made, Kept
    <3> QED BY <3>1, AllCallsTyping DEF Calling
  <2>2. tempFile' \in BOOLEAN
    BY <1>16 DEF Finalize, Profile_finalize, Contains, Typing
  <2>3. pc' = "exited" /\ status' \in {0, 1}
    BY <1>16 DEF Finalize, Exit
  <2>4. pc' \in Steps /\ status' \in {NoValue, 0, 1, 2} /\ (status' = NoValue <=> pc' # "exited")
    BY <1>0, <2>3 DEF Steps
  <2> QED BY <1>16, <2>1, <2>2, <2>4 DEF Finalize, Typing
<1>17. CASE UNCHANGED vars
  <2>1. ProxyTyped' /\ CallsTyped'
    BY <1>17 DEF vars, Typing, ProxyTyped, CallsTyped
  <2> QED BY <1>17, <2>1 DEF vars, Typing
<1> QED BY <1>1, <1>2, <1>3, <1>4, <1>5, <1>6, <1>7, <1>8, <1>9, <1>10, <1>11, <1>12,
           <1>13, <1>14, <1>15, <1>16, <1>17, <1>18 DEF Next

-----------------------------------------------------------------------------
(* One plugin of a name.                                                   *)

\* The steps that leave the manager as it is, and where they go.
Onward == {<<"parse", "reparse">>, <<"reparse", "settle">>, <<"settle", "configure">>,
           <<"settle", "loader">>, <<"settle", "run">>, <<"begin", "run">>,
           <<"begin", "loader">>,
           <<"loader", "runner">>, <<"runner", "prepare">>, <<"prepare", "stream">>,
           <<"stream", "run">>, <<"run", "test">>, <<"test", "run">>, <<"run", "report">>,
           <<"run", "finalize">>, <<"report", "finalize">>}

LEMMA Passes ==
  ASSUME [Next]_vars
  PROVE  \/ MakeConfig \/ LoadPlugins \/ Configure
         \/ /\ UNCHANGED <<cmd, plugins, extraplugins, excluded, registered, canConfigure>>
            /\ pc' = pc \/ pc' = "exited" \/ <<pc, pc'>> \in Onward
<1> USE DEF manager
<1>1. CASE Parse
  <2>1. Goes("reparse") /\ pc = "parse"
    BY <1>1, ParseFilesGoes DEF Parse
  <2> QED BY <1>1, <2>1 DEF Parse, Goes, Onward
<1>2. CASE Reparse
  <2>1. Goes("settle") /\ pc = "reparse"
    BY <1>2, ParseFilesGoes DEF Reparse, Goes
  <2> QED BY <1>2, <2>1 DEF Reparse, Goes, Onward
<1>3. CASE Settle
  BY <1>3 DEF Settle, Onward
<1>4. CASE Begin
  BY <1>4 DEF Begin, Onward
<1>5. CASE PrepareTestLoader
  BY <1>5 DEF PrepareTestLoader, Exit, Onward
<1>6. CASE PrepareTestRunner
  BY <1>6 DEF PrepareTestRunner, Onward
<1>7. CASE PrepareTest
  BY <1>7 DEF PrepareTest, Onward
<1>8. CASE SetOutputStream
  BY <1>8 DEF SetOutputStream, Onward
<1>9. CASE BeforeTest
  BY <1>9 DEF BeforeTest, Onward
<1>15. CASE BeforeTestUnbegun
  BY <1>15 DEF BeforeTestUnbegun, Onward
<1>10. CASE TestChangesLoggers
  BY <1>10 DEF TestChangesLoggers, Onward
<1>11. CASE RunTests
  BY <1>11 DEF RunTests, Onward
<1>12. CASE Report
  BY <1>12 DEF Report, Exit, Onward
<1>13. CASE Finalize
  BY <1>13 DEF Finalize, Exit, Onward
<1>14. CASE UNCHANGED vars
  BY <1>14 DEF vars
<1> QED BY <1>1, <1>2, <1>3, <1>4, <1>5, <1>6, <1>7, <1>8, <1>9, <1>10, <1>11, <1>12, <1>13,
           <1>14, <1>15 DEF Next

NamesIn(S) == {Name(p) : p \in S}

\* Every name offered is there once, from the first of the three that has it.
MostSpecific(list, given, found, inside) ==
  /\ Unique(list)
  /\ \A n \in NamesIn(given \cup found \cup inside) : \E q \in ToSet(list) : Name(q) = n
  /\ \A q \in ToSet(list) :
       /\ Name(q) \in NamesIn(given) => q \in given
       /\ Name(q) \in NamesIn(found) \ NamesIn(given) => q \in found
       /\ Name(q) \in NamesIn(inside) \ NamesIn(given \cup found) => q \in inside

LEMMA SupplantsThrice ==
  ASSUME NEW base \in Seq(Known), NEW a \in Seq(Known), NEW b \in Seq(Known), NEW c \in Seq(Known),
         Unique(base), ToSet(base) \subseteq ToSet(c),
         NEW s, Supplants(s, base, a), NEW t, Supplants(t, s, b), NEW u, Supplants(u, t, c)
  PROVE  MostSpecific(u, ToSet(c), ToSet(b), ToSet(a))
<1> DEFINE A == ToSet(a)  B == ToSet(b)  C == ToSet(c)
<1>1. NamesOf(a) = NamesIn(A) /\ NamesOf(b) = NamesIn(B) /\ NamesOf(c) = NamesIn(C)
  BY DEF NamesOf, NamesIn
<1>2. /\ \A n \in NamesIn(C) : \E q \in ToSet(u) : Name(q) = n
      /\ \A n \in NamesIn(B) : \E q \in ToSet(t) : Name(q) = n
      /\ \A n \in NamesIn(A) : \E q \in ToSet(s) : Name(q) = n
  BY <1>1 DEF Supplants, NamesOf
<1>3. /\ \A q \in ToSet(u) : q \in C \/ (q \in ToSet(t) /\ Name(q) \notin NamesIn(C))
      /\ \A q \in ToSet(t) : q \in B \/ (q \in ToSet(s) /\ Name(q) \notin NamesIn(B))
      /\ \A q \in ToSet(s) : q \in A \/ (q \in ToSet(base) /\ Name(q) \notin NamesIn(A))
      /\ \A q \in ToSet(t) : Name(q) \notin NamesIn(C) => q \in ToSet(u)
      /\ \A q \in ToSet(s) : Name(q) \notin NamesIn(B) => q \in ToSet(t)
  BY <1>1 DEF Supplants
<1>4. Unique(u)
  BY DEF Supplants
<1>5. \A q : /\ q \in A => Name(q) \in NamesIn(A)
             /\ q \in B => Name(q) \in NamesIn(B)
             /\ q \in C => Name(q) \in NamesIn(C)
  BY DEF NamesIn
<1>6. NamesIn(C \cup B \cup A) = NamesIn(A) \cup NamesIn(B) \cup NamesIn(C)
      /\ NamesIn(C \cup B) = NamesIn(B) \cup NamesIn(C)
  BY DEF NamesIn
<1>7. ToSet(base) \subseteq C
  OBVIOUS
<1> HIDE DEF A, B, C
<1>8. ASSUME NEW n \in NamesIn(C \cup B \cup A) PROVE \E q \in ToSet(u) : Name(q) = n
  <2>1. CASE n \in NamesIn(C)
    BY <1>2, <2>1
  <2>2. CASE n \in NamesIn(B) \ NamesIn(C)
    BY <1>2, <1>3, <2>2
  <2>3. CASE n \in NamesIn(A) \ (NamesIn(B) \cup NamesIn(C))
    BY <1>2, <1>3, <2>3
  <2> QED BY <1>6, <2>1, <2>2, <2>3
<1>9. ASSUME NEW q \in ToSet(u)
      PROVE  /\ Name(q) \in NamesIn(C) => q \in C
             /\ Name(q) \in NamesIn(B) \ NamesIn(C) => q \in B
             /\ Name(q) \in NamesIn(A) \ NamesIn(C \cup B) => q \in A
  BY <1>3, <1>5, <1>6, <1>7
<1>10. MostSpecific(u, C, B, A)
  BY <1>4, <1>8, <1>9 DEF MostSpecific
<1> QED BY <1>10 DEF A, B, C

LEMMA KeepUnique ==
  ASSUME NEW list \in Seq(Known), NEW T, Unique(list)
  PROVE  Unique(Keep(list, T)) /\ ToSet(Keep(list, T)) = ToSet(list) \cap T
<1> PICK r : r = Keep(list, T)
  OBVIOUS
<1>1. r \in Seq(Known) /\ KeepsOrder(r, list, T)
  BY KeepOrder
<1>2. ToSet(r) = ToSet(list) \cap T
  BY <1>1 DEF KeepsOrder
<1>3. Distinct(list) /\ \A q, s \in ToSet(list) : Name(q) = Name(s) => q = s
  BY DEF Unique, Distinct, ToSet
<1>4. Distinct(r)
  BY <1>1, <1>3 DEF KeepsOrder
<1>5. \A i \in 1 .. Len(r) : r[i] \in ToSet(list)
  <2>1. \A i \in 1 .. Len(r) : r[i] \in ToSet(r)
    BY <1>1 DEF ToSet
  <2> QED BY <1>2, <2>1
<1>6. Unique(r)
  BY <1>3, <1>4, <1>5 DEF Unique, Distinct
<1> QED BY <1>2, <1>6

\* What loading leaves.
Chosen ==
  /\ pc = "load" =>
       /\ extraplugins = cmd.extra /\ Unique(plugins)
       /\ cmd.plugins = <<>> => ToSet(plugins) \subseteq ToSet(cmd.extra)
  /\ pc \in {"parse", "reparse", "settle", "configure"} =>
       /\ Unique(plugins) /\ ToSet(plugins) \subseteq Allowed
       /\ \A p \in ToSet(plugins) : Alone(p, plugins, CoreNames) => p \in canConfigure
  /\ pc = "parse" /\ cmd.plugins = <<>> /\ cmd.way # "collector" =>
       MostSpecific(plugins, ToSet(cmd.extra), ToSet(EntryPoints(cmd.entries)), DOMAIN Builtins)

LEMMA UniqueNone == Unique(<<>>) /\ <<>> \in Seq(Known) /\ ToSet(<<>>) = {}
BY DEF Unique, ToSet

LEMMA LoadedChosen ==
  ASSUME Typing, Chosen, pc = "load"
  PROVE  /\ Loaded \in Seq(Known) /\ Unique(Loaded)
         /\ cmd.plugins = <<>> =>
              MostSpecific(Loaded, ToSet(cmd.extra), ToSet(EntryPoints(cmd.entries)), DOMAIN Builtins)
<1>1. /\ plugins \in Seq(Known) /\ extraplugins \in Seq(Known) /\ cmd \in Commands
      /\ extraplugins = cmd.extra /\ Unique(plugins)
      /\ cmd.plugins = <<>> => ToSet(plugins) \subseteq ToSet(cmd.extra)
  BY DEF Typing, Chosen
<1>2. EntryPoints(cmd.entries) \in Seq(Known)
  BY <1>1, CommandTypes
<1> PICK b \in Seq(Known) : b = EntryPoints(cmd.entries)
  BY <1>2
<1>3. CASE cmd.plugins # <<>>
  <2>1. Supplants(addPlugins(plugins, extraplugins), plugins, extraplugins)
    BY <1>1, AddPluginsSupplants
  <2> QED BY <1>1, <1>3, <2>1 DEF Loaded, Supplants
<1>4. CASE cmd.plugins = <<>>
  <2>1. PICK s : s = addPlugins(plugins, BuiltinOrder) /\ Supplants(s, plugins, BuiltinOrder)
    BY <1>1, BuiltinOrderTypes, AddPluginsSupplants
  <2>2. s \in Seq(Known)
    BY <2>1 DEF Supplants
  <2>3. PICK t : t = addPlugins(s, b) /\ Supplants(t, s, b)
    BY <2>2, AddPluginsSupplants
  <2>4. t \in Seq(Known)
    BY <2>3 DEF Supplants
  <2>5. PICK u : u = addPlugins(t, extraplugins) /\ Supplants(u, t, extraplugins)
    BY <1>1, <2>4, AddPluginsSupplants
  <2>6. Loaded = u
    BY <1>4, <2>1, <2>3, <2>5 DEF Loaded
  <2>7. MostSpecific(u, ToSet(extraplugins), ToSet(b), ToSet(BuiltinOrder))
    BY <1>1, <1>4, <2>1, <2>3, <2>5, BuiltinOrderTypes, SupplantsThrice
  <2>8. DOMAIN Builtins = ToSet(BuiltinOrder)
    BY DEF Builtins
  <2>9. u \in Seq(Known) /\ Unique(u)
    BY <2>5, <2>7 DEF Supplants, MostSpecific
  <2> QED BY <1>1, <2>6, <2>7, <2>8, <2>9
<1> QED BY <1>3, <1>4

LEMMA ChosenStep ==
  ASSUME Typing, Chosen, [Next]_vars
  PROVE  Chosen'
<1>1. CASE MakeConfig
  <2>1. cmd.plugins \in Seq(Known) /\ cmd.extra \in Seq(Known)
    BY CommandTypes DEF Typing
  <2>2. PICK s : s = addPlugins(<<>>, cmd.plugins) /\ Supplants(s, <<>>, cmd.plugins)
    BY <2>1, UniqueNone, AddPluginsSupplants
  <2>3. s \in Seq(Known) /\ Unique(s)
    BY <2>2, UniqueNone DEF Supplants
  <2>4. PICK t : t = addPlugins(s, cmd.extra) /\ Supplants(t, s, cmd.extra)
    BY <2>1, <2>3, AddPluginsSupplants
  <2>5. Unique(t)
    BY <2>3, <2>4 DEF Supplants
  <2>6. ASSUME cmd.plugins = <<>> PROVE ToSet(t) \subseteq ToSet(cmd.extra)
    <3>1. ToSet(s) = {}
      BY <2>2, <2>6, UniqueNone DEF Supplants
    <3> QED BY <2>4, <3>1 DEF Supplants
  <2>7. plugins' = t /\ extraplugins' = cmd.extra /\ cmd' = cmd /\ pc' = "load"
    BY <1>1, <2>2, <2>4 DEF MakeConfig
  <2> QED BY <2>5, <2>6, <2>7 DEF Chosen
<1>2. CASE LoadPlugins
  <2>0. pc = "load"
    BY <1>2 DEF LoadPlugins
  <2>1. PICK list \in Seq(Known) :
          /\ list = Loaded /\ Unique(list)
          /\ cmd.plugins = <<>> =>
               MostSpecific(list, ToSet(cmd.extra), ToSet(EntryPoints(cmd.entries)), DOMAIN Builtins)
    BY <2>0, LoadedChosen
  <2>2. PICK r : r = Keep(list, Allowed)
    OBVIOUS
  <2>3. r \in Seq(Known) /\ Unique(r) /\ ToSet(r) = ToSet(list) \cap Allowed
    BY <2>1, <2>2, KeepOrder, KeepUnique
  <2>4. /\ cmd' = cmd /\ plugins' = r /\ canConfigure' = Registered(r, CoreNames).can
        /\ pc' = "parse"
    BY <1>2, <2>1, <2>2 DEF LoadPlugins
  <2>5. \A p \in ToSet(r) : Alone(p, r, CoreNames) => p \in canConfigure'
    <3>1. Distinct(r)
      BY <2>3 DEF Unique, Distinct
    <3> QED BY <2>3, <2>4, <3>1, RegisteredCan
  <2>6. Allowed' = Allowed
    BY <2>4 DEF Allowed
  <2>7. ASSUME cmd.plugins = <<>>, cmd.way # "collector"
        PROVE  MostSpecific(r, ToSet(cmd.extra), ToSet(EntryPoints(cmd.entries)), DOMAIN Builtins)
    <3>1. ToSet(list) \subseteq Allowed
      BY <2>1, <2>7 DEF Allowed, ToSet
    <3> QED BY <2>1, <2>3, <2>7, <3>1 DEF MostSpecific
  <2> QED BY <2>3, <2>4, <2>5, <2>6, <2>7 DEF Chosen
<1>3. CASE Configure
  BY <1>3 DEF Configure, Exit, Chosen
<1>4. CASE /\ UNCHANGED <<cmd, plugins, extraplugins, excluded, registered, canConfigure>>
           /\ pc' = pc \/ pc' = "exited" \/ <<pc, pc'>> \in Onward
  <2>1. Allowed' = Allowed
    BY <1>4 DEF Allowed
  <2>2. /\ pc' \in {"load", "parse"} => pc = pc'
        /\ pc' \in {"parse", "reparse", "settle", "configure"} =>
             pc \in {"parse", "reparse", "settle", "configure"}
    BY <1>4 DEF Onward
  <2>3. ASSUME pc' = "load"
        PROVE  /\ extraplugins' = cmd'.extra /\ Unique(plugins')
               /\ cmd'.plugins = <<>> => ToSet(plugins') \subseteq ToSet(cmd'.extra)
    BY <1>4, <2>2, <2>3 DEF Chosen
  <2>4. ASSUME pc' \in {"parse", "reparse", "settle", "configure"}
        PROVE  /\ Unique(plugins') /\ ToSet(plugins') \subseteq Allowed'
               /\ \A p \in ToSet(plugins') : Alone(p, plugins', CoreNames) => p \in canConfigure'
    BY <1>4, <2>1, <2>2, <2>4 DEF Chosen
  <2>5. ASSUME pc' = "parse", cmd'.plugins = <<>>, cmd'.way # "collector"
        PROVE  MostSpecific(plugins', ToSet(cmd'.extra), ToSet(EntryPoints(cmd'.entries)), DOMAIN Builtins)
    BY <1>4, <2>2, <2>5 DEF Chosen
  <2> QED BY <2>3, <2>4, <2>5 DEF Chosen
<1> QED BY <1>1, <1>2, <1>3, <1>4, Passes

LEMMA ChosenOnePerName ==
  ASSUME Typing, Chosen
  PROVE  OnePerName
<1> DEFINE offers == <<ToSet(cmd.extra), ToSet(EntryPoints(cmd.entries)), DOMAIN Builtins>>
           Offering(n) == {i \in 1..3 : \E p \in offers[i] : Record(p).name = n}
           mine(n) == {i \in DOMAIN plugins : Record(plugins[i]).name = n}
           best(n) == CHOOSE i \in Offering(n) : \A j \in Offering(n) : i <= j
<1>1. SUFFICES ASSUME pc = "parse", NEW n \in {Record(p).name : p \in UNION ToSet(offers)},
                      cmd.plugins = <<>>, cmd.way # "collector"
               PROVE  Cardinality(mine(n)) = 1 /\ \A i \in mine(n) : plugins[i] \in offers[best(n)]
  BY DEF OnePerName
<1>2. PICK a, b, c : a = ToSet(cmd.extra) /\ b = ToSet(EntryPoints(cmd.entries)) /\ c = DOMAIN Builtins
  OBVIOUS
<1>3. MostSpecific(plugins, a, b, c)
  BY <1>1, <1>2 DEF Chosen
<1>4. offers = <<a, b, c>> /\ offers[1] = a /\ offers[2] = b /\ offers[3] = c
  BY <1>2
<1>5. PICK p : p \in a \cup b \cup c /\ Name(p) = n
  <2>1. PICK p \in UNION ToSet(offers) : n = Record(p).name
    BY <1>1
  <2>2. PICK o \in ToSet(offers) : p \in o
    BY <2>1
  <2>3. o \in {a, b, c}
    <3>1. DOMAIN <<a, b, c>> = 1 .. 3
      OBVIOUS
    <3>2. \A i \in 1 .. 3 : i = 1 \/ i = 2 \/ i = 3
      OBVIOUS
    <3> HIDE DEF offers
    <3>3. PICK i \in DOMAIN offers : o = offers[i]
      BY <2>2 DEF ToSet
    <3>4. i \in 1 .. 3
      BY <1>4, <3>1, <3>3
    <3> QED BY <1>4, <3>2, <3>3, <3>4
  <2> QED BY <2>1, <2>2, <2>3 DEF Name
<1>6. /\ 1 \in Offering(n) <=> n \in NamesIn(a)
      /\ 2 \in Offering(n) <=> n \in NamesIn(b)
      /\ 3 \in Offering(n) <=> n \in NamesIn(c)
  BY <1>4 DEF NamesIn, Name
<1>7. Offering(n) \subseteq 1 .. 3
  OBVIOUS
<1>8. NamesIn(a \cup b \cup c) = NamesIn(a) \cup NamesIn(b) \cup NamesIn(c)
      /\ NamesIn(a \cup b) = NamesIn(a) \cup NamesIn(b)
  BY DEF NamesIn
<1>9. n \in NamesIn(a \cup b \cup c)
  BY <1>5 DEF NamesIn
<1> HIDE DEF offers, Offering
<1>10. best(n) = IF n \in NamesIn(a) THEN 1 ELSE IF n \in NamesIn(b) THEN 2 ELSE 3
  <2>1. \E m \in Offering(n) : \A j \in Offering(n) : m <= j
    <3>1. Offering(n) # {} /\ Offering(n) \in SUBSET Nat
      BY <1>6, <1>7, <1>8, <1>9
    <3> QED BY <3>1, LeastNatural
  <2>2. best(n) \in Offering(n) /\ \A j \in Offering(n) : best(n) <= j
    BY <2>1
  <2> HIDE DEF best
  <2>3. best(n) \in {1, 2, 3}
    BY <1>7, <2>2
  <2> QED BY <1>6, <1>8, <1>9, <2>2, <2>3
<1> HIDE DEF best
<1>11. DOMAIN plugins = 1 .. Len(plugins) /\ ToSet(plugins) = {plugins[i] : i \in 1 .. Len(plugins)}
  <2>1. DOMAIN plugins = 1 .. Len(plugins)
    BY DEF Typing
  <2> QED BY <2>1 DEF ToSet
<1>12. PICK i \in 1 .. Len(plugins) : Name(plugins[i]) = n
  BY <1>3, <1>9, <1>11 DEF MostSpecific
<1>13. mine(n) = {i}
  BY <1>3, <1>11, <1>12 DEF MostSpecific, Unique, Name
<1>14. Cardinality(mine(n)) = 1
  BY <1>13, FS_Singleton
<1>15. plugins[i] \in offers[best(n)]
  <2>1. plugins[i] \in ToSet(plugins) /\ Name(plugins[i]) = n
    BY <1>11, <1>12
  <2>2. CASE n \in NamesIn(a)
    BY <1>3, <1>4, <1>10, <2>1, <2>2 DEF MostSpecific
  <2>3. CASE n \in NamesIn(b) \ NamesIn(a)
    BY <1>3, <1>4, <1>10, <2>1, <2>3 DEF MostSpecific
  <2>4. CASE n \in NamesIn(c) \ (NamesIn(a) \cup NamesIn(b))
    BY <1>3, <1>4, <1>8, <1>10, <2>1, <2>4 DEF MostSpecific
  <2> QED BY <1>8, <1>9, <2>2, <2>3, <2>4
<1> QED BY <1>13, <1>14, <1>15

\* Whatever lists of plugins the program is given, every variable stays of its type,
\* the plugins once loaded are those of the manager's choice, and each whose options
\* no other has can be configured (base.py:69): the invariant of the theorems below.
THEOREM ProgramChosen == Spec => [](Typing /\ Chosen)
<1>1. Init => Typing /\ Chosen
  BY InitTyping DEF Init, Chosen
<1>2. Typing /\ Chosen /\ [Next]_vars => Typing' /\ Chosen'
  BY TypingStep, ChosenStep
<1> QED BY <1>1, <1>2, PTL DEF Spec

\* Of all plugins of a name, those built in, of entry points and given to the
\* program, just one is loaded, that from the most specific place (manager.py:253).
THEOREM ProgramOnePerName == Spec => []OnePerName
<1>1. Typing /\ Chosen => OnePerName
  BY ChosenOnePerName
<1> QED BY <1>1, ProgramChosen, PTL

-----------------------------------------------------------------------------
(* Calls in their order.                                                   *)

LEMMA BuiltinNames ==
  ASSUME NEW q \in ToSet(BuiltinOrder)
  PROVE  q \in Known /\ Record(q) = Builtins[q] /\ Name(q) = q
<1>1. DOMAIN Builtins = ToSet(BuiltinOrder)
  BY DEF Builtins
<1>2. Record(q) = Builtins[q]
  BY <1>1, OthersAssumption DEF Record
<1>3. Builtins[q].name = q
  BY DEF Builtins, BuiltinOrder, ToSet, Plugin
<1> QED BY <1>1, <1>2, <1>3 DEF Known, Name

LEMMA EnabledCan ==
  ASSUME OwnOptions, NEW list \in Seq(Known), Unique(list), NEW can,
         \A p \in ToSet(list) : Alone(p, list, CoreNames) => p \in can,
         NEW p \in ToSet(list), NEW on, NEW worker, Enabled(p, on, p \in can, worker)
  PROVE  p \in can
<1>1. CASE p \in Unasking
  <2>1. p \in ToSet(BuiltinOrder)
    BY <1>1 DEF Unasking, BuiltinOrder, ToSet
  <2>2. Name(p) = p
    BY <2>1, BuiltinNames
  <2>3. ASSUME NEW q \in ToSet(list), q # p PROVE OptionNames(p) \cap OptionNames(q) = {}
    <3>1. Name(q) # p /\ q \in Known
      BY <2>2, <2>3 DEF Unique, ToSet
    <3> QED BY <1>1, <3>1 DEF OwnOptions, Name
  <2>4. Alone(p, list, CoreNames)
    BY <1>1, <2>3 DEF Alone, OwnOptions
  <2> QED BY <2>4
<1>2. CASE p \notin Unasking
  BY <1>2 DEF Enabled, Unasking, Plugin_configure, Capture_configure, LogCapture_configure,
              Deprecated_configure, FailureDetail_configure, Skip_configure, CollectOnly_configure
<1> QED BY <1>1, <1>2

\* Each plugin once, and by falling score unless they are only listed.
Arranged(list, listed) ==
  \A i, j \in 1 .. Len(list) :
    i < j => list[i] # list[j] /\ (~listed => Scored(list[i]) >= Scored(list[j]))

LEMMA ConfiguredArranged ==
  ASSUME NEW list \in Seq(Known), Distinct(list), NEW can, NEW worker
  PROVE  /\ Configured(list, can, worker) \in Seq(Known)
         /\ Arranged(Configured(list, can, worker), FALSE)
         /\ \A p : p \in ToSet(Configured(list, can, worker)) <=>
              p \in ToSet(list) /\ Enabled(p, SetOptions, p \in can, worker)
<1> DEFINE T == {p \in Known : Enabled(p, SetOptions, p \in can, worker)}
<1>1. PICK k : k = Keep(list, T)
  OBVIOUS
<1>2. k \in Seq(Known) /\ KeepsOrder(k, list, T)
  BY <1>1, KeepOrder
<1>3. PICK r : r = sort(k)
  OBVIOUS
<1>4. Configured(list, can, worker) = r
  BY <1>1, <1>3 DEF Configured
<1>5. r \in Seq(Known) /\ SortedFrom(r, k)
  BY <1>2, <1>3, SortSorts
<1>6. Arranged(r, FALSE)
  <2>1. Distinct(r)
    BY <1>2, <1>5 DEF SortedFrom, KeepsOrder
  <2>2. \A i, j \in 1 .. Len(r) : i < j => Scored(r[i]) >= Scored(r[j])
    BY <1>5 DEF SortedFrom
  <2> QED BY <2>1, <2>2 DEF Arranged, Distinct
<1>7. ToSet(r) = ToSet(list) \cap T
  BY <1>2, <1>5 DEF SortedFrom, KeepsOrder
<1>8. ToSet(list) \subseteq Known
  BY DEF ToSet
<1> QED BY <1>4, <1>5, <1>6, <1>7, <1>8

LEMMA KeepArranged ==
  ASSUME NEW list \in Seq(Known), NEW listed, Arranged(list, listed), NEW T,
         NEW r, Begins(r, Keep(list, T))
  PROVE  Arranged(r, listed) /\ \A i \in 1 .. Len(r) : r[i] \in ToSet(list) \cap T
<1>1. PICK k \in Seq(Known) : k = Keep(list, T) /\ KeepsOrder(k, list, T)
  BY KeepOrder
<1>2. /\ r \in Seq(Known) /\ \A i \in 1 .. Len(r) : i \in 1 .. Len(k) /\ r[i] = k[i]
  BY <1>1 DEF Begins
<1>3. ASSUME NEW i \in 1 .. Len(r), NEW j \in 1 .. Len(r), i < j
      PROVE  r[i] # r[j] /\ (~listed => Scored(r[i]) >= Scored(r[j]))
  <2>1. Precedes(k, r[i], r[j])
    BY <1>2, <1>3 DEF Precedes
  <2>2. Precedes(list, r[i], r[j])
    BY <1>1, <2>1 DEF KeepsOrder
  <2> QED BY <2>2 DEF Precedes, Arranged
<1>4. \A i \in 1 .. Len(k) : k[i] \in ToSet(k)
  BY DEF ToSet
<1> QED BY <1>1, <1>2, <1>3, <1>4 DEF Arranged, KeepsOrder

Ready ==
  /\ Arranged(plugins, Listed)
  /\ ToSet(plugins) \subseteq Allowed
  /\ OwnOptions /\ ~Listed => ToSet(plugins) \subseteq canConfigure

LEMMA ConfigureReady ==
  ASSUME Typing, Chosen, Configure, pc' = "begin"
  PROVE  Ready'
<1>0. pc = "configure" /\ canConfigure' = canConfigure /\ cmd' = cmd
  BY DEF Configure, manager
<1>1. Unique(plugins) /\ ToSet(plugins) \subseteq Allowed
      /\ \A p \in ToSet(plugins) : Alone(p, plugins, CoreNames) => p \in canConfigure
  BY <1>0 DEF Chosen
<1>2. plugins \in Seq(Known) /\ Distinct(plugins)
  BY <1>1 DEF Typing, Unique, Distinct
<1>3. PICK r : r = Configured(plugins, canConfigure, FALSE)
  OBVIOUS
<1>4. plugins' = r
  BY <1>3 DEF Configure, Exit
<1>5. /\ Arranged(r, FALSE)
      /\ \A p : p \in ToSet(r) => p \in ToSet(plugins) /\ Enabled(p, SetOptions, p \in canConfigure, FALSE)
  BY <1>2, <1>3, ConfiguredArranged
<1>6. ASSUME OwnOptions PROVE ToSet(r) \subseteq canConfigure
  BY <1>1, <1>2, <1>5, <1>6, EnabledCan
<1>7. Allowed' = Allowed
  BY <1>0 DEF Allowed
<1>8. Arranged(r, Listed')
  BY <1>5 DEF Arranged
<1> QED BY <1>0, <1>1, <1>4, <1>5, <1>6, <1>7, <1>8 DEF Ready

\* What is only listed, was loaded.
LEMMA ListedReady ==
  ASSUME Typing, Chosen, pc = "settle", UNCHANGED <<cmd, plugins>>, Listed'
  PROVE  Ready'
<1>1. Unique(plugins) /\ ToSet(plugins) \subseteq Allowed
  BY DEF Chosen
<1>2. Allowed' = Allowed
  BY DEF Allowed
<1>3. Arranged(plugins, TRUE)
  BY <1>1 DEF Unique, Arranged
<1>4. (Arranged(plugins, Listed))'
  BY <1>3 DEF Arranged
<1> QED BY <1>1, <1>2, <1>4 DEF Ready

Place(h) ==
  CASE h = "begin" -> 1 [] h = "prepareTestLoader" -> 2 [] h = "prepareTestRunner" -> 3
    [] h = "prepareTest" -> 4 [] h = "setOutputStream" -> 5 [] h = "report" -> 6
    [] h = "finalize" -> 7

\* The places of the hooks that may have been called at a step.
Stage(s) ==
  CASE s = "loader" -> 1 [] s = "runner" -> 2 [] s = "prepare" -> 3 [] s = "stream" -> 4
    [] s \in {"run", "test", "report"} -> 5 [] s = "finalize" -> 6 [] s = "exited" -> 7
    [] OTHER -> 0

\* One call and a later one.
Follows(x, y, listed) ==
  \/ Place(x[1]) < Place(y[1])
  \/ x[1] = y[1] /\ x[2] # y[2] /\ (~listed => Scored(x[2]) >= Scored(y[2]))

Ordered ==
  /\ \A h \in DOMAIN proxies : h \in Calling /\ Place(h) <= Stage(pc)
  /\ \A i, j \in 1 .. Len(calls) : i < j => Follows(calls[i], calls[j], Listed)
  /\ \A i \in 1 .. Len(calls) : calls[i][2] \in ToSet(plugins)
  /\ pc \in {"begin", "runner", "prepare", "stream", "run", "test", "report", "finalize"} => Ready
  /\ pc = "loader" => IsSet("showPlugins") \/ Ready
  /\ calls # <<>> => Ready

LEMMA PlaceRange == \A h \in Calling : Place(h) \in 1 .. 7
BY DEF Calling, Place

LEMMA StageRange == \A s \in Steps : Stage(s) \in 0 .. 7
BY DEF Steps, Stage

\* A call of a hook that is new.
LEMMA NewCall ==
  ASSUME Typing, Ordered, Ready, NEW hook \in Calling, Place(hook) > Stage(pc),
         NEW reached, Begins(reached, Proxy(hook))
  PROVE  /\ hook \notin DOMAIN proxies
         /\ Proxy(hook) = Keep(plugins, {p \in Known : hook \in Record(p).hooks})
         /\ \A i, j \in 1 .. Len(Made(hook, reached)) :
              i < j => Follows(Made(hook, reached)[i], Made(hook, reached)[j], Listed)
         /\ \A i \in 1 .. Len(Made(hook, reached)) : Made(hook, reached)[i][2] \in ToSet(plugins)
<1> DEFINE T == {p \in Known : hook \in Record(p).hooks}
<1>1. hook \notin DOMAIN proxies
  <2>1. Stage(pc) \in 0 .. 7 /\ Place(hook) \in 1 .. 7
    BY PlaceRange, StageRange DEF Typing
  <2> QED BY <2>1 DEF Ordered
<1>2. Proxy(hook) = Keep(plugins, T)
  BY <1>1 DEF Proxy
<1> HIDE DEF T
<1>3. plugins \in Seq(Known) /\ calls \in Seq(Calling \X Known)
  BY DEF Typing, CallsTyped
<1>4. reached \in Seq(Known)
  BY DEF Begins
<1>5. Arranged(reached, Listed) /\ \A i \in 1 .. Len(reached) : reached[i] \in ToSet(plugins)
  BY <1>2, <1>3, KeepArranged DEF Ready
<1>6. PICK t : t = Made(hook, reached)
  OBVIOUS
<1>7. GoesOn(t, calls, hook, reached)
  BY <1>3, <1>4, <1>6, CallGoesOn
<1>8. PICK m \in Nat, n \in Nat : m = Len(calls) /\ n = Len(reached)
  BY <1>3, <1>4
<1>9. Len(t) = m + n
  BY <1>7, <1>8 DEF GoesOn
<1>10. ASSUME NEW i \in 1 .. m + n
       PROVE  \/ i \in 1 .. m /\ t[i] = calls[i]
              \/ \E k \in 1 .. n : i = m + k /\ t[i] = <<hook, reached[k]>>
  <2>1. CASE i \in 1 .. m
    BY <1>7, <1>8, <2>1 DEF GoesOn
  <2>2. CASE i \notin 1 .. m
    <3>1. i - m \in 1 .. n /\ i = m + (i - m)
      BY <2>2
    <3>2. PICK k \in 1 .. n : i = m + k
      BY <3>1
    <3> QED BY <1>7, <1>8, <3>2 DEF GoesOn
  <2> QED BY <2>1, <2>2
<1>11. \A i \in 1 .. m : calls[i][1] \in Calling /\ Place(calls[i][1]) < Place(hook)
  <2>1. \A i \in 1 .. m : calls[i][1] \in DOMAIN proxies
    BY <1>8 DEF Typing, CallsTyped
  <2>2. \A i \in 1 .. m : calls[i][1] \in Calling /\ Place(calls[i][1]) <= Stage(pc)
    BY <2>1 DEF Ordered
  <2>3. Stage(pc) \in 0 .. 7 /\ Place(hook) \in 1 .. 7 /\ \A h \in Calling : Place(h) \in 1 .. 7
    BY PlaceRange, StageRange DEF Typing
  <2> QED BY <2>2, <2>3
<1>12. ASSUME NEW i \in 1 .. m + n, NEW j \in 1 .. m + n, i < j PROVE Follows(t[i], t[j], Listed)
  <2>1. CASE i \in 1 .. m /\ j \in 1 .. m
    BY <1>7, <1>8, <1>12, <2>1 DEF Ordered, GoesOn
  <2>2. CASE i \in 1 .. m /\ j \notin 1 .. m
    <3>1. t[i] = calls[i]
      BY <1>7, <1>8, <2>2 DEF GoesOn
    <3>2. PICK k \in 1 .. n : t[j] = <<hook, reached[k]>>
      BY <1>10, <2>2
    <3> QED BY <1>11, <2>2, <3>1, <3>2 DEF Follows
  <2>3. CASE i \notin 1 .. m
    <3>1. j \notin 1 .. m
      BY <1>12, <2>3
    <3>2. PICK k \in 1 .. n : i = m + k /\ t[i] = <<hook, reached[k]>>
      BY <1>10, <2>3
    <3>3. PICK l \in 1 .. n : j = m + l /\ t[j] = <<hook, reached[l]>>
      BY <1>10, <3>1
    <3>4. k < l
      BY <1>12, <3>2, <3>3
    <3>5. /\ reached[k] # reached[l]
          /\ ~Listed => Scored(reached[k]) >= Scored(reached[l])
      BY <1>5, <1>8, <3>4 DEF Arranged
    <3> QED BY <3>2, <3>3, <3>5 DEF Follows
  <2> QED BY <2>1, <2>2, <2>3
<1>13. ASSUME NEW i \in 1 .. m + n PROVE t[i][2] \in ToSet(plugins)
  <2>1. CASE i \in 1 .. m
    BY <1>7, <1>8, <2>1 DEF Ordered, GoesOn
  <2>2. CASE i \notin 1 .. m
    <3>1. PICK k \in 1 .. n : t[i] = <<hook, reached[k]>>
      BY <1>10, <2>2
    <3> QED BY <1>5, <1>8, <3>1
  <2> QED BY <2>1, <2>2
<1> QED BY <1>1, <1>2, <1>6, <1>9, <1>12, <1>13 DEF T

LEMMA NothingCalled ==
  ASSUME Typing, Ordered, Stage(pc) = 0
  PROVE  DOMAIN proxies = {} /\ calls = <<>>
<1>1. ASSUME NEW h \in DOMAIN proxies PROVE FALSE
  <2>1. Place(h) \in 1 .. 7 /\ Place(h) <= 0
    BY PlaceRange DEF Ordered
  <2> QED BY <2>1
<1>2. calls \in Seq(Calling \X Known) /\ \A i \in 1 .. Len(calls) : FALSE
  BY <1>1 DEF Typing, CallsTyped
<1>3. Len(calls) = 0
  <2> PICK m \in Nat : m = Len(calls)
    BY <1>2
  <2>1. \A i \in 1 .. m : FALSE
    BY <1>2
  <2>2. m = 0 \/ m \in 1 .. m
    OBVIOUS
  <2> QED BY <2>1, <2>2
<1>4. calls = <<>>
  BY <1>2, <1>3, EmptySeq
<1>5. DOMAIN proxies = {}
  BY <1>1
<1> QED BY <1>4, <1>5

LEMMA CallOrdered ==
  ASSUME Typing, Ordered, Ready, NEW hook \in Calling, Place(hook) > Stage(pc),
         NEW reached, Begins(reached, Proxy(hook)),
         calls' = Made(hook, reached), proxies' = Kept(hook),
         plugins' = plugins, canConfigure' = canConfigure, cmd' = cmd, value' = value,
         Place(hook) <= Stage(pc'), pc' \in Steps
  PROVE  Ordered' /\ Ready'
<1>0. Listed' = Listed
  BY DEF Listed, IsSet, SetOptions
<1>1. Ready'
  BY <1>0 DEF Ready, Allowed
<1>2. PICK t, s, P, l : t = calls' /\ s = pc' /\ P = plugins /\ l = Listed
  OBVIOUS
<1>3. /\ \A i, j \in 1 .. Len(t) : i < j => Follows(t[i], t[j], l)
      /\ \A i \in 1 .. Len(t) : t[i][2] \in ToSet(P)
  BY <1>2, NewCall
<1>4. PICK D : D = DOMAIN proxies' /\ D = DOMAIN proxies \cup {hook}
  BY DEF Kept
<1>5. ASSUME NEW h \in D PROVE h \in Calling /\ Place(h) <= Stage(s)
  <2>1. Stage(pc) \in 0 .. 7 /\ Place(hook) \in 1 .. 7 /\ Stage(s) \in 0 .. 7
    BY <1>2, PlaceRange, StageRange DEF Typing
  <2>2. CASE h = hook
    BY <1>2, <2>2
  <2>3. CASE h # hook
    <3>1. h \in Calling /\ Place(h) <= Stage(pc)
      BY <1>4, <2>3 DEF Ordered
    <3>2. Place(h) \in 1 .. 7
      BY <3>1, PlaceRange
    <3>3. Place(hook) <= Stage(s) /\ Place(hook) > Stage(pc)
      BY <1>2
    <3> QED BY <2>1, <3>1, <3>2, <3>3
  <2> QED BY <2>2, <2>3
<1>6. \A h \in DOMAIN proxies' : h \in Calling /\ Place(h) <= Stage(pc')
  BY <1>2, <1>4, <1>5
<1>7. \A i, j \in 1 .. Len(calls') : i < j => Follows(calls'[i], calls'[j], Listed')
  BY <1>0, <1>2, <1>3
<1>8. \A i \in 1 .. Len(calls') : calls'[i][2] \in ToSet(plugins')
  BY <1>2, <1>3
<1> QED BY <1>1, <1>6, <1>7, <1>8 DEF Ordered

LEMMA AllCallsOrdered ==
  ASSUME Typing, Ordered, Ready, NEW hook \in Calling, Place(hook) > Stage(pc),
         calls' = Made(hook, Called(hook)), proxies' = Kept(hook),
         plugins' = plugins, canConfigure' = canConfigure, cmd' = cmd, value' = value,
         Place(hook) <= Stage(pc'), pc' \in Steps
  PROVE  Ordered' /\ Ready'
<1>1. Begins(Called(hook), Proxy(hook))
  BY ProxyTypes, CalledBegins DEF Typing
<1> QED BY <1>1, CallOrdered

\* Before anything is called.
LEMMA EarlyOrdered ==
  ASSUME Typing, Ordered, Stage(pc) = 0, UNCHANGED <<proxies, calls>>,
         pc' = "begin" => Ready', pc' = "loader" => (IsSet("showPlugins") \/ Ready)',
         pc' = "run" => Ready',
         pc' \in {"load", "parse", "reparse", "settle", "configure", "begin", "loader", "run",
                 "exited"}
  PROVE  Ordered'
<1>1. DOMAIN proxies = {} /\ calls = <<>>
  BY NothingCalled
<1>2. DOMAIN proxies' = {} /\ calls' = <<>> /\ Len(<<>>) = 0
  BY <1>1
<1> QED BY <1>2 DEF Ordered

LEMMA OrderedStep ==
  ASSUME Typing, Chosen, Ordered, [Next]_vars
  PROVE  Ordered'
<1> USE DEF manager, options, logging, resources
<1>1. CASE MakeConfig
  BY <1>1, EarlyOrdered DEF MakeConfig, Stage
<1>2. CASE LoadPlugins
  BY <1>2, EarlyOrdered DEF LoadPlugins, Stage
<1>3. CASE Parse
  <2>1. Goes("reparse") /\ pc = "parse"
    BY <1>3, ParseFilesGoes DEF Parse
  <2> QED BY <1>3, <2>1, EarlyOrdered DEF Parse, Goes, Stage
<1>4. CASE Reparse
  <2>1. Goes("settle") /\ pc = "reparse"
    BY <1>4, ParseFilesGoes DEF Reparse, Goes
  <2> QED BY <1>4, <2>1, EarlyOrdered DEF Reparse, Goes, Stage
<1>5. CASE Settle
  <2>1. pc = "settle" /\ pc' \in {"loader", "configure", "run"} /\ UNCHANGED <<proxies, calls>>
    BY <1>5 DEF Settle
  <2>2. ASSUME pc' = "loader" PROVE IsSet("showPlugins")'
    <3>1. IsSet("showPlugins")
      BY <1>5, <2>2 DEF Settle
    <3>2. cmd' = cmd /\ (value # <<>> => value' # <<>>)
      BY <1>5 DEF Settle, Late
    <3> QED BY <3>1, <3>2 DEF IsSet, SetOptions
  <2>3. Stage(pc) = 0
    BY <2>1 DEF Stage
  <2>4. ASSUME pc' = "run" PROVE Ready'
    <3>1. Listed /\ UNCHANGED <<cmd, plugins>>
      BY <1>5, <2>4 DEF Settle
    <3>2. value # <<>> => value' # <<>>
      BY <1>5 DEF Settle, Late
    <3>3. Listed'
      BY <3>1, <3>2 DEF Listed, IsSet, SetOptions
    <3> QED BY <2>1, <3>1, <3>3, ListedReady
  <2> QED BY <2>1, <2>2, <2>3, <2>4, EarlyOrdered
<1>6. CASE Configure
  <2>1. pc = "configure" /\ pc' \in {"begin", "exited"} /\ UNCHANGED <<proxies, calls>>
    BY <1>6 DEF Configure, Exit
  <2>2. pc' = "begin" => Ready'
    BY <1>6, ConfigureReady
  <2>3. Stage(pc) = 0
    BY <2>1 DEF Stage
  <2> QED BY <2>1, <2>2, <2>3, EarlyOrdered
<1>7. CASE Begin
  <2>1. /\ calls' = Made("begin", Called("begin")) /\ proxies' = Kept("begin")
        /\ pc = "begin" /\ pc' \in {"run", "loader"}
        /\ plugins' = plugins /\ canConfigure' = canConfigure /\ cmd' = cmd /\ value' = value
    BY <1>7 DEF Begin, Call, Made, Kept
  <2>2. Ready
    BY <2>1 DEF Ordered
  <2>3. "begin" \in Calling /\ Place("begin") > Stage(pc) /\ Place("begin") <= Stage(pc') /\ pc' \in Steps
    BY <2>1 DEF Calling, Place, Stage, Steps
  <2> QED BY <2>1, <2>2, <2>3, AllCallsOrdered
<1>8. CASE PrepareTestLoader
  <2>1. CASE IsSet("version") \/ IsSet("showPlugins")
    <3>1. /\ UNCHANGED <<cmd, value, plugins, canConfigure, proxies, calls>>
          /\ pc = "loader" /\ pc' = "exited"
      BY <1>8, <2>1 DEF PrepareTestLoader, Exit
    <3>2. \A h \in DOMAIN proxies : h \in Calling /\ Place(h) <= 7
      <4>1. \A h \in DOMAIN proxies : h \in Calling
        BY DEF Ordered
      <4> QED BY <4>1, PlaceRange
    <3>3. Stage(pc') = 7
      BY <3>1 DEF Stage
    <3>5. Listed' = Listed
      BY <3>1 DEF Listed, IsSet, SetOptions
    <3>4. Ready => Ready'
      BY <3>1, <3>5 DEF Ready, Allowed
    <3> QED BY <3>1, <3>2, <3>3, <3>4, <3>5 DEF Ordered
  <2>2. CASE ~(IsSet("version") \/ IsSet("showPlugins"))
    <3>1. /\ calls' = Made("prepareTestLoader", Called("prepareTestLoader"))
          /\ proxies' = Kept("prepareTestLoader")
          /\ pc = "loader" /\ pc' = "runner"
          /\ plugins' = plugins /\ canConfigure' = canConfigure /\ cmd' = cmd /\ value' = value
      BY <1>8, <2>2 DEF PrepareTestLoader, Call, Made, Kept
    <3>2. Ready
      BY <2>2, <3>1 DEF Ordered
    <3>3. /\ "prepareTestLoader" \in Calling /\ Place("prepareTestLoader") > Stage(pc)
          /\ Place("prepareTestLoader") <= Stage(pc') /\ pc' \in Steps
      BY <3>1 DEF Calling, Place, Stage, Steps
    <3> QED BY <3>1, <3>2, <3>3, AllCallsOrdered
  <2> QED BY <2>1, <2>2
<1>9. CASE PrepareTestRunner
  <2>1. /\ calls' = Made("prepareTestRunner", Called("prepareTestRunner"))
        /\ proxies' = Kept("prepareTestRunner")
        /\ pc = "runner" /\ pc' = "prepare"
        /\ plugins' = plugins /\ canConfigure' = canConfigure /\ cmd' = cmd /\ value' = value
    BY <1>9 DEF PrepareTestRunner, Call, Made, Kept
  <2>2. Ready
    BY <2>1 DEF Ordered
  <2>3. /\ "prepareTestRunner" \in Calling /\ Place("prepareTestRunner") > Stage(pc)
        /\ Place("prepareTestRunner") <= Stage(pc') /\ pc' \in Steps
    BY <2>1 DEF Calling, Place, Stage, Steps
  <2> QED BY <2>1, <2>2, <2>3, AllCallsOrdered
<1>10. CASE PrepareTest
  <2>1. /\ calls' = Made("prepareTest", Called("prepareTest"))
        /\ proxies' = Kept("prepareTest")
        /\ pc = "prepare" /\ pc' = "stream"
        /\ plugins' = plugins /\ canConfigure' = canConfigure /\ cmd' = cmd /\ value' = value
    BY <1>10 DEF PrepareTest, Call, Made, Kept
  <2>2. Ready
    BY <2>1 DEF Ordered
  <2>3. /\ "prepareTest" \in Calling /\ Place("prepareTest") > Stage(pc)
        /\ Place("prepareTest") <= Stage(pc') /\ pc' \in Steps
    BY <2>1 DEF Calling, Place, Stage, Steps
  <2> QED BY <2>1, <2>2, <2>3, AllCallsOrdered
<1>11. CASE SetOutputStream
  <2>1. /\ calls' = Made("setOutputStream", Called("setOutputStream"))
        /\ proxies' = Kept("setOutputStream")
        /\ pc = "stream" /\ pc' = "run"
        /\ plugins' = plugins /\ canConfigure' = canConfigure /\ cmd' = cmd /\ value' = value
    BY <1>11 DEF SetOutputStream, Call, Made, Kept
  <2>2. Ready
    BY <2>1 DEF Ordered
  <2>3. /\ "setOutputStream" \in Calling /\ Place("setOutputStream") > Stage(pc)
        /\ Place("setOutputStream") <= Stage(pc') /\ pc' \in Steps
    BY <2>1 DEF Calling, Place, Stage, Steps
  <2> QED BY <2>1, <2>2, <2>3, AllCallsOrdered
<1>12. CASE Report
  <2>1. PICK r : Reports(r)
    BY <1>12, ReportReports DEF Typing
  <2>2. /\ calls' = Made("report", r) /\ proxies' = Kept("report") /\ Begins(r, Proxy("report"))
        /\ pc = "report" /\ pc' \in {"finalize", "exited"}
        /\ plugins' = plugins /\ canConfigure' = canConfigure /\ cmd' = cmd /\ value' = value
    BY <1>12, <2>1 DEF Report, Reports
  <2>3. Ready
    BY <2>2 DEF Ordered
  <2>4. /\ "report" \in Calling /\ Place("report") > Stage(pc)
        /\ Place("report") <= Stage(pc') /\ pc' \in Steps
    BY <2>2 DEF Calling, Place, Stage, Steps
  <2> QED BY <2>2, <2>3, <2>4, CallOrdered
<1>13. CASE Finalize
  <2>1. /\ calls' = Made("finalize", Called("finalize")) /\ proxies' = Kept("finalize")
        /\ pc = "finalize" /\ pc' = "exited"
        /\ plugins' = plugins /\ canConfigure' = canConfigure /\ cmd' = cmd /\ value' = value
    BY <1>13 DEF Finalize, Call, Made, Kept, Exit
  <2>2. Ready
    BY <2>1 DEF Ordered
  <2>3. /\ "finalize" \in Calling /\ Place("finalize") > Stage(pc)
        /\ Place("finalize") <= Stage(pc') /\ pc' \in Steps
    BY <2>1 DEF Calling, Place, Stage, Steps
  <2> QED BY <2>1, <2>2, <2>3, AllCallsOrdered
<1>14. CASE BeforeTest \/ BeforeTestUnbegun \/ TestChangesLoggers \/ RunTests
  <2>1. /\ UNCHANGED <<cmd, value, plugins, canConfigure, proxies, calls>>
        /\ pc \in {"run", "test"} /\ pc' \in {"run", "test", "report", "finalize"}
    BY <1>14 DEF BeforeTest, BeforeTestUnbegun, TestChangesLoggers, RunTests
  <2>6. Listed' = Listed
    BY <2>1 DEF Listed, IsSet, SetOptions
  <2>2. Ready => Ready'
    BY <2>1, <2>6 DEF Ready, Allowed
  <2>3. Ready
    <3>1. CASE pc = "run"
      BY <3>1 DEF Ordered
    <3>2. CASE pc = "test"
      BY <3>2 DEF Ordered
    <3> QED BY <2>1, <3>1, <3>2
  <2>4. Stage(pc) = 5 /\ Stage(pc') \in {5, 6}
    BY <2>1 DEF Stage
  <2>5. \A h \in DOMAIN proxies : h \in Calling /\ Place(h) <= Stage(pc')
    <3>1. \A h \in DOMAIN proxies : h \in Calling /\ Place(h) <= 5
      BY <2>4 DEF Ordered
    <3> QED BY <2>4, <3>1, PlaceRange
  <2> QED BY <2>1, <2>2, <2>3, <2>5, <2>6 DEF Ordered
<1>15. CASE UNCHANGED vars
  BY <1>15 DEF vars, Ordered, Ready, Allowed, Listed, IsSet, SetOptions
<1> QED BY <1>1, <1>2, <1>3, <1>4, <1>5, <1>6, <1>7, <1>8, <1>9, <1>10, <1>11, <1>12, <1>13,
           <1>14, <1>15 DEF Next

LEMMA HookPlaces ==
  ASSUME NEW h \in Calling
  PROVE  SelectInSeq(Hooks, LAMBDA g : g = h) = Place(h)
<1> DEFINE I == {i \in 1 .. Len(Hooks) : Hooks[i] = h}
<1>1. /\ Len(Hooks) = 7 /\ Hooks[1] = "begin" /\ Hooks[2] = "prepareTestLoader"
      /\ Hooks[3] = "prepareTestRunner" /\ Hooks[4] = "prepareTest"
      /\ Hooks[5] = "setOutputStream" /\ Hooks[6] = "report" /\ Hooks[7] = "finalize"
  BY DEF Hooks
<1>2. \A i \in 1 .. 7 : i = 1 \/ i = 2 \/ i = 3 \/ i = 4 \/ i = 5 \/ i = 6 \/ i = 7
  OBVIOUS
<1>3. Place(h) \in I
  BY <1>1 DEF Place, Calling
<1>4. \A i \in I : i = Place(h)
  BY <1>1, <1>2 DEF Place, Calling
<1>5. I = {Place(h)} /\ I # {}
  BY <1>3, <1>4
<1>6. I \in SUBSET Nat
  OBVIOUS
<1>7. SelectInSeq(Hooks, LAMBDA g : g = h) = IF I # {} THEN Min(I) ELSE 0
  BY DEF SelectInSeq
<1> HIDE DEF I
<1>8. Min(I) \in I
  BY <1>5, <1>6, FirstPlace
<1> QED BY <1>5, <1>7, <1>8

LEMMA OrderedCallOrder ==
  ASSUME Typing, Ordered, OwnOptions
  PROVE  CallOrder
<1> DEFINE At(i) == SelectInSeq(Hooks, LAMBDA h : h = calls[i][1])
           Score(i) == Record(calls[i][2]).score
<1>1. PICK m \in Nat : m = Len(calls) /\ DOMAIN calls = 1 .. m
  BY DEF Typing, CallsTyped
<1>2. ASSUME NEW i \in 1 .. m
      PROVE  /\ At(i) = Place(calls[i][1]) /\ Place(calls[i][1]) \in 1 .. 7
             /\ calls[i][2] \in Known
  <2>1. calls[i][1] \in Calling /\ calls[i][2] \in Known
    BY <1>1 DEF Typing, CallsTyped
  <2> QED BY <2>1, HookPlaces, PlaceRange
<1>3. ASSUME NEW i \in 1 .. m PROVE IsEnabled(calls[i][2]) /\ (~Listed => calls[i][2] \in canConfigure)
  <2>1. calls[i][2] \in ToSet(plugins)
    BY <1>1 DEF Ordered
  <2>2. calls # <<>>
    BY <1>1
  <2>3. Ready
    BY <2>2 DEF Ordered
  <2>4. ~Listed => calls[i][2] \in canConfigure
    BY <2>1, <2>3 DEF Ready
  <2>5. Contains(plugins, calls[i][2])
    BY <2>1, ContainsElement DEF Typing
  <2> QED BY <2>4, <2>5 DEF IsEnabled
<1> HIDE DEF At
<1>4. ASSUME NEW i \in 1 .. m, NEW j \in 1 .. m, i < j
      PROVE  /\ At(i) <= At(j)
             /\ At(i) = At(j) => calls[i] # calls[j] /\ (~Listed => Score(i) >= Score(j))
  <2>1. Follows(calls[i], calls[j], Listed)
    BY <1>1, <1>4 DEF Ordered
  <2>2. CASE Place(calls[i][1]) < Place(calls[j][1])
    BY <1>2, <2>2
  <2>3. CASE calls[i][1] = calls[j][1] /\ calls[i][2] # calls[j][2]
             /\ (~Listed => Scored(calls[i][2]) >= Scored(calls[j][2]))
    BY <1>2, <2>3 DEF Scored
  <2> QED BY <2>1, <2>2, <2>3 DEF Follows
<1>5. TypeOK
  BY TypingTypeOK
<1> QED BY <1>1, <1>3, <1>4, <1>5 DEF CallOrder, At

\* Before any call the plugins are configured and sorted (or only listed), and no hook was called, nor
\* its proxy made, whose step the program has yet to come to; so each proxy is made
\* from the sorted list, and each call follows those before (manager.py:154, 244, 286).
THEOREM ProgramOrdered == Spec => [](Typing /\ Chosen /\ Ordered)
<1>1. Init => Typing /\ Chosen /\ Ordered
  <2>1. Init => Typing /\ Chosen
    BY InitTyping DEF Init, Chosen
  <2>2. Init => Ordered
    BY DEF Init, Ordered
  <2> QED BY <2>1, <2>2
<1>2. Typing /\ Chosen /\ Ordered /\ [Next]_vars => Typing' /\ Chosen' /\ Ordered'
  BY TypingStep, ChosenStep, OrderedStep
<1> QED BY <1>1, <1>2, PTL DEF Spec

\* Unless a plugin takes an option of one that does not ask whether it could
\* register them, the hooks are called in the order of the steps, by falling score,
\* each plugin once, and none that is not enabled or in conflict (manager.py:286); but
\* for a foreign runner of a project whose setup.cfg sets "plugins", where they are in
\* the order of the steps and each once, the plugins neither sorted nor configured.
THEOREM ProgramCallOrder == OwnOptions => (Spec => []CallOrder)
<1>1. OwnOptions /\ Typing /\ Ordered => CallOrder
  BY OrderedCallOrder
<1>2. ASSUME OwnOptions PROVE Spec => []CallOrder
  <2>1. Typing /\ Chosen /\ Ordered => CallOrder
    BY <1>1, <1>2
  <2> QED BY <2>1, ProgramOrdered, PTL
<1> QED BY <1>2

-----------------------------------------------------------------------------
(* What a run leaves behind.                                               *)

LEMMA Implements ==
  /\ "report" \in Record("coverage").hooks /\ "finalize" \in Record("profile").hooks
  /\ "coverage" \in Known /\ "profile" \in Known
<1>1. "coverage" \in ToSet(BuiltinOrder) /\ "profile" \in ToSet(BuiltinOrder)
  BY DEF BuiltinOrder, ToSet
<1>2. "report" \in Builtins["coverage"].hooks /\ "finalize" \in Builtins["profile"].hooks
  BY <1>1 DEF Builtins, Plugin
<1> QED BY <1>1, <1>2, BuiltinNames

\* What is in use belongs to an enabled plugin that is still to end it.
Held ==
  /\ Stage(pc) = 0 /\ pc # "begin" => ~tracing
  /\ Stage(pc) = 0 => ~tempFile
  /\ pc # "exited" /\ tracing => "coverage" \in ToSet(plugins)
  /\ pc # "exited" /\ tempFile => "profile" \in ToSet(plugins)
  /\ pc = "finalize" /\ tracing => Stopped("report")

\* Calls of hook to all that its proxy calls, unless one has stopped them.
LEMMA CallsReach ==
  ASSUME Typing, Ordered, Ready, NEW hook \in Calling, Place(hook) > Stage(pc),
         calls' = Made(hook, Called(hook)), plugins' = plugins, ~Stopped(hook)',
         NEW p \in ToSet(plugins), hook \in Record(p).hooks
  PROVE  Contains(Called(hook), p) /\ Contains(calls', <<hook, p>>)
<1>1. PICK P \in Seq(Known) : P = Proxy(hook)
  BY ProxyTypes DEF Typing
<1>2. PICK r \in Seq(Known) : r = Called(hook)
  BY <1>1, CalledBegins DEF Begins
<1>3. PICK t \in Seq(Calling \X Known) : t = calls' /\ GoesOn(t, calls, hook, r)
  BY <1>2, CallGoesOn DEF GoesOn, Typing, CallsTyped
<1>4. ASSUME NEW i \in 1 .. Len(r) PROVE Contains(t, <<hook, r[i]>>)
  <2> PICK m \in Nat, n \in Nat : m = Len(calls) /\ n = Len(r)
    BY DEF Typing, CallsTyped
  <2>1. Len(t) = m + n /\ t[m + i] = <<hook, r[i]>>
    BY <1>3 DEF GoesOn
  <2>2. m + i \in 1 .. m + n
    OBVIOUS
  <2> QED BY <2>1, <2>2 DEF Contains
<1>5. r = P
  <2> SUFFICES ASSUME r # P PROVE FALSE
    OBVIOUS
  <2>1. Len(r) >= 1 /\ Answers(r[Len(r)], hook)
    BY <1>1, <1>2, CalledBegins
  <2>2. Len(r) \in 1 .. Len(r) /\ r[Len(r)] \in Known
    BY <2>1
  <2>3. Contains(t, <<hook, r[Len(r)]>>)
    BY <1>4, <2>2
  <2> QED BY <1>3, <2>1, <2>2, <2>3 DEF Stopped
<1> DEFINE T == {q \in Known : hook \in Record(q).hooks}
<1>6. P = Keep(plugins, T)
  <2>1. Begins(<<>>, Proxy(hook))
    BY <1>1 DEF Begins
  <2> QED BY <1>1, <2>1, NewCall
<1>7. p \in T
  BY DEF Typing, ToSet
<1> HIDE DEF T
<1>8. ToSet(P) = ToSet(plugins) \cap T
  <2>1. plugins \in Seq(Known)
    BY DEF Typing
  <2> QED BY <1>6, <2>1, KeepOrder DEF KeepsOrder
<1>9. Contains(r, p)
  BY <1>1, <1>5, <1>7, <1>8, ContainsElement
<1>10. PICK i \in 1 .. Len(r) : r[i] = p
  BY <1>9 DEF Contains
<1> QED BY <1>2, <1>3, <1>4, <1>9, <1>10

LEMMA StaysStopped ==
  ASSUME Typing, NEW hook, NEW other \in Calling, NEW reached \in Seq(Known),
         calls' = Made(other, reached), Stopped(hook)
  PROVE  Stopped(hook)'
<1>1. PICK p \in Known : Contains(calls, <<hook, p>>) /\ Answers(p, hook)
  BY DEF Stopped
<1>2. PICK i \in 1 .. Len(calls) : calls[i] = <<hook, p>>
  BY <1>1 DEF Contains
<1>3. PICK t : t = calls' /\ GoesOn(t, calls, other, reached)
  BY CallGoesOn DEF Typing, CallsTyped
<1>4. i \in 1 .. Len(t) /\ t[i] = <<hook, p>>
  <2> PICK m \in Nat, n \in Nat : m = Len(calls) /\ n = Len(reached)
    BY DEF Typing, CallsTyped
  <2>1. Len(t) = m + n /\ t[i] = calls[i]
    BY <1>3 DEF GoesOn
  <2>2. i \in 1 .. m + n
    OBVIOUS
  <2> QED BY <1>2, <2>1, <2>2
<1>5. Contains(t, <<hook, p>>)
  BY <1>4 DEF Contains
<1> QED BY <1>1, <1>3, <1>5 DEF Stopped

\* Where the program may exit with calls made.
LEMMA ExitsClean ==
  ASSUME Typing, Ordered, Held, Finalize
  PROVE  CleanedUp'
<1> USE DEF logging, resources, manager, options
<1>1. /\ calls' = Made("finalize", Called("finalize")) /\ pc = "finalize"
      /\ plugins' = plugins /\ tracing' = tracing
      /\ tempFile' = (tempFile /\ ~Contains(Called("finalize"), "profile"))
  BY DEF Finalize, Call, Made, Profile_finalize
<1>2. /\ "finalize" \in Calling /\ Place("finalize") > Stage(pc) /\ Ready
  BY <1>1 DEF Calling, Place, Stage, Ordered
<1>3. ASSUME tracing' PROVE Stopped("report")'
  <2>1. Stopped("report")
    BY <1>1, <1>3 DEF Held
  <2>2. Called("finalize") \in Seq(Known)
    BY ProxyTypes, CalledBegins DEF Typing, Begins
  <2> QED BY <1>1, <1>2, <2>1, <2>2, StaysStopped
<1>4. ASSUME ~Stopped("finalize")', NEW p \in ToSet(plugins), "finalize" \in Record(p).hooks
      PROVE  Contains(Called("finalize"), p) /\ Contains(calls', <<"finalize", p>>)
  BY <1>1, <1>2, <1>4, CallsReach
<1>5. ASSUME ~Stopped("finalize")' PROVE ~tempFile'
  <2> SUFFICES ASSUME tempFile PROVE Contains(Called("finalize"), "profile")
    BY <1>1
  <2>1. "profile" \in ToSet(plugins)
    BY <1>1 DEF Held
  <2> QED BY <1>4, <1>5, <2>1, Implements
<1> QED BY <1>1, <1>3, <1>4, <1>5 DEF CleanedUp

\* No coverage under a foreign runner.
LEMMA CollectorUntraced ==
  ASSUME Typing, Ready, cmd.way = "collector"
  PROVE  "coverage" \notin ToSet(plugins)
BY Implements DEF Ready, Allowed, setuptools_incompat

\* A report that has not died has ended the measuring or was stopped.
LEMMA ReportEnds ==
  ASSUME Typing, Ordered, Held, Ready, pc = "report", plugins' = plugins,
         NEW r, Reports(r), r = Called("report"), tracing'
  PROVE  Stopped("report")'
<1> SUFFICES ASSUME ~Stopped("report")' PROVE FALSE
  OBVIOUS
<1>1. /\ calls' = Made("report", Called("report"))
      /\ tracing /\ ~Contains(Called("report"), "coverage")
  BY DEF Reports, Typing
<1>2. "report" \in Calling /\ Place("report") > Stage(pc)
  BY DEF Calling, Place, Stage
<1>3. "coverage" \in ToSet(plugins)
  BY <1>1 DEF Held
<1> QED BY <1>1, <1>2, <1>3, Implements, CallsReach

LEMMA HeldStep ==
  ASSUME Typing, Chosen, Ordered, Held, CleanedUp, [Next]_vars
  PROVE  Held' /\ CleanedUp'
<1> USE DEF manager, options, logging, resources
<1>1. CASE MakeConfig \/ LoadPlugins \/ Parse \/ Reparse \/ Settle
  <2>1. /\ pc \in {"make", "load", "parse", "reparse", "settle"}
        /\ UNCHANGED <<tracing, tempFile, calls>>
    BY <1>1 DEF MakeConfig, LoadPlugins, Parse, Reparse, Settle
  <2>2. Stage(pc) = 0 /\ pc # "begin"
    BY <2>1 DEF Stage
  <2>3. calls' = <<>>
    BY <2>1, <2>2, NothingCalled
  <2>4. ~tracing' /\ ~tempFile'
    BY <2>1, <2>2 DEF Held
  <2> QED BY <2>3, <2>4 DEF Held, CleanedUp
<1>2. CASE Configure
  <2>1. Stage(pc) = 0 /\ UNCHANGED <<tempFile, calls>> /\ pc' \in {"begin", "exited"}
    BY <1>2 DEF Configure, Exit, Stage
  <2>2. calls' = <<>> /\ ~tempFile'
    BY <2>1, NothingCalled DEF Held
  <2>3. ASSUME pc' = "begin", tracing' PROVE "coverage" \in ToSet(plugins')
    <3>1. Configured(plugins, canConfigure, FALSE) \in Seq(Known)
      BY ConfiguredTypes DEF Typing
    <3>2. plugins' = Configured(plugins, canConfigure, FALSE) /\ Contains(plugins', "coverage")
      BY <1>2, <2>3 DEF Configure, Exit, Coverage_configure
    <3>3. PICK P \in Seq(Known) : P = plugins'
      BY <3>1, <3>2
    <3> QED BY <3>2, <3>3, ContainsElement
  <2>4. pc' # "finalize" /\ (pc' # "begin" => pc' = "exited" /\ Stage(pc') # 0)
    BY <2>1 DEF Stage
  <2>5. Held'
    BY <2>2, <2>3, <2>4 DEF Held
  <2>6. CleanedUp'
    BY <2>2 DEF CleanedUp
  <2> QED BY <2>5, <2>6
<1>3. CASE Begin
  <2>1. /\ pc = "begin" /\ pc' \in {"run", "loader"} /\ plugins' = plugins /\ tracing' = tracing
        /\ tempFile' => Contains(plugins, "profile")
    BY <1>3 DEF Begin, Profile_begin
  <2>2. Stage(pc') # 0 /\ pc' # "exited" /\ pc' # "finalize"
    BY <2>1 DEF Stage
  <2>3. tempFile' => "profile" \in ToSet(plugins)
    BY <2>1, ContainsElement DEF Typing
  <2>4. tracing => "coverage" \in ToSet(plugins)
    BY <2>1 DEF Held
  <2> QED BY <2>1, <2>2, <2>3, <2>4 DEF Held, CleanedUp
<1>4. CASE PrepareTestLoader
  <2>1. pc = "loader" /\ UNCHANGED <<plugins, tracing, tempFile>> /\ pc' \in {"runner", "exited"}
    BY <1>4 DEF PrepareTestLoader, Exit
  <2>2. Stage(pc') # 0
    BY <2>1 DEF Stage
  <2>3. Held'
    BY <2>1, <2>2 DEF Held
  <2>4. ASSUME pc' = "exited" PROVE calls' = <<>> \/ Last(calls')[1] = "begin"
    <3>1. calls' = calls
      BY <1>4, <2>4 DEF PrepareTestLoader, Exit
    <3>2. ASSUME calls # <<>> PROVE Last(calls)[1] = "begin"
      <4>1. PICK m \in Nat : m = Len(calls) /\ m \in 1 .. m
        <5>1. PICK m \in Nat : m = Len(calls)
          BY DEF Typing, CallsTyped
        <5>2. m # 0
          BY <3>2, <5>1, EmptySeq DEF Typing, CallsTyped
        <5> QED BY <5>1, <5>2
      <4>2. calls[m][1] \in DOMAIN proxies
        BY <4>1 DEF Typing, CallsTyped
      <4>3. calls[m][1] \in Calling /\ Place(calls[m][1]) <= 1
        BY <2>1, <4>2 DEF Ordered, Stage
      <4>4. calls[m][1] = "begin"
        BY <4>3 DEF Calling, Place
      <4> QED BY <4>1, <4>4 DEF Last
    <3> QED BY <3>1, <3>2
  <2> QED BY <2>3, <2>4 DEF CleanedUp
<1>5. CASE PrepareTestRunner \/ PrepareTest \/ SetOutputStream \/ BeforeTest \/ TestChangesLoggers
  <2>1. /\ UNCHANGED <<plugins, tracing, tempFile>> /\ pc # "exited" /\ pc # "begin"
        /\ pc' \in {"prepare", "stream", "run", "test"}
    BY <1>5 DEF PrepareTestRunner, PrepareTest, SetOutputStream, BeforeTest, TestChangesLoggers
  <2>2. Stage(pc') # 0 /\ pc' # "finalize" /\ pc' # "exited"
    BY <2>1 DEF Stage
  <2> QED BY <2>1, <2>2 DEF Held, CleanedUp
<1>6. CASE RunTests \/ BeforeTestUnbegun
  <2>1. /\ UNCHANGED <<plugins, tracing, tempFile>> /\ pc = "run" /\ pc' \in {"report", "finalize"}
        /\ pc' = "finalize" => cmd.way = "collector"
    BY <1>6 DEF RunTests, BeforeTestUnbegun, Listed
  <2>2. Stage(pc') # 0 /\ pc' # "exited"
    BY <2>1 DEF Stage
  <2>3. Ready
    BY <2>1 DEF Ordered
  <2>4. pc' = "finalize" => ~tracing
    BY <2>1, <2>3, CollectorUntraced DEF Held
  <2> QED BY <2>1, <2>2, <2>4 DEF Held, CleanedUp
<1>7. CASE Report
  <2>1. PICK r : Reports(r)
    BY <1>7, ReportReports DEF Typing
  <2>2. pc = "report" /\ UNCHANGED <<plugins, tempFile>>
    BY <1>7 DEF Report
  <2>3. tracing' => tracing
    BY <2>1 DEF Reports, Typing
  <2>4. Ready
    BY <2>2 DEF Ordered
  <2>5. CASE pc' = "finalize" /\ status' = status /\ r = Called("report")
    <3>1. Stage(pc') # 0
      BY <2>5 DEF Stage
    <3>2. tracing' => Stopped("report")'
      BY <2>1, <2>2, <2>4, <2>5, ReportEnds
    <3> QED BY <2>2, <2>3, <2>5, <3>1, <3>2 DEF Held, CleanedUp
  <2>6. CASE pc' = "exited" /\ status' = 1 /\ Len(r) >= 1
    <3>1. Stage(pc') # 0
      BY <2>6 DEF Stage
    <3>2. Last(calls')[1] = "report"
      <4>1. r \in Seq(Known) /\ calls' = Made("report", r)
        BY <2>1 DEF Reports, Begins
      <4>2. PICK t : t = calls' /\ GoesOn(t, calls, "report", r)
        BY <4>1, CallGoesOn DEF Typing, CallsTyped, Calling
      <4>3. PICK m \in Nat, n \in Nat : m = Len(calls) /\ n = Len(r)
        BY <4>1 DEF Typing, CallsTyped
      <4>4. n \in 1 .. n
        BY <2>6, <4>3
      <4>5. Len(t) = m + n /\ t[m + n] = <<"report", r[n]>>
        BY <4>2, <4>3, <4>4 DEF GoesOn
      <4> QED BY <4>2, <4>5 DEF Last
    <3> QED BY <2>6, <3>1, <3>2 DEF Held, CleanedUp
  <2> QED BY <2>1, <2>5, <2>6 DEF Reports
<1>8. CASE Finalize
  <2>1. pc' = "exited" /\ Stage(pc') # 0
    BY <1>8 DEF Finalize, Exit, Stage
  <2> QED BY <1>8, <2>1, ExitsClean DEF Held
<1>9. CASE UNCHANGED vars
  BY <1>9 DEF vars, Held, CleanedUp, Stopped
<1> QED BY <1>1, <1>2, <1>3, <1>4, <1>5, <1>6, <1>7, <1>8, <1>9 DEF Next

\* A run that has not died in a report leaves nothing behind, unless a plugin has
\* stopped the calls: every plugin with a finalize was called, coverage measures no
\* more and the file of the profiler is gone (suite.py:580).
THEOREM ProgramCleanedUp == Spec => []CleanedUp
<1>1. Init => Typing /\ Chosen /\ Ordered /\ Held /\ CleanedUp
  <2>1. Init => Typing /\ Chosen
    BY InitTyping DEF Init, Chosen
  <2>2. Init => Ordered
    BY DEF Init, Ordered
  <2>3. Init => Held /\ CleanedUp
    BY DEF Init, Held, CleanedUp
  <2> QED BY <2>1, <2>2, <2>3
<1>2. Typing /\ Chosen /\ Ordered /\ Held /\ CleanedUp /\ [Next]_vars =>
        Typing' /\ Chosen' /\ Ordered' /\ Held' /\ CleanedUp'
  BY TypingStep, ChosenStep, OrderedStep, HeldStep
<1> QED BY <1>1, <1>2, PTL DEF Spec

-----------------------------------------------------------------------------
(* Log records.                                                            *)

Memories(logger) == {i \in 1 .. Len(logger.handlers) : logger.handlers[i] = "memory"}

\* A record that gets there goes no further.
Stops(tree, n) == n = Root \/ ~tree[n].propagate

\* Every logger that stops records has the handler, once.
Patched(tree) == \A n \in DOMAIN tree : Stops(tree, n) => \E i : Memories(tree[n]) = {i}

Reached(tree, n) == UNION {{p} \X Memories(tree[p]) : p \in ReachedBy(tree, n)}

LEMMA PrefixOf ==
  ASSUME NEW p, IsName(p), NEW n, IsPrefix(p, n)
  PROVE  Len(p) \in Nat /\ Len(p) <= Len(n) /\ p = SubSeq(n, 1, Len(p))
<1>1. p \in Seq(ToSet(p))
  BY DEF IsName
<1>2. SubSeq(p, 1, Len(p)) = p
  <2> PICK l \in Nat : l = Len(p)
    BY <1>1
  <2>1. /\ SubSeq(p, 1, l) \in Seq(ToSet(p)) /\ Len(SubSeq(p, 1, l)) = l
        /\ \A i \in 1 .. l : SubSeq(p, 1, l)[i] = p[i]
    BY <1>1, SubSeqProperties
  <2> QED BY <1>1, <2>1, SeqEqual
<1> QED BY <1>1, <1>2 DEF IsPrefix

\* Only as many loggers are reached as the name has parts, and the root.
LEMMA ReachedFinite ==
  ASSUME NEW tree, IsTree(tree), NEW n \in DOMAIN tree
  PROVE  IsFiniteSet(Reached(tree, n))
<1>0. n \in Seq(ToSet(n))
  BY DEF IsTree, IsName
<1> PICK m \in Nat : m = Len(n)
  BY <1>0
<1> DEFINE at(k) == SubSeq(n, 1, k)
           f == [k \in 0 .. m |-> IF at(k) \in DOMAIN tree THEN {at(k)} \X Memories(tree[at(k)]) ELSE {}]
           F == {f[k] : k \in 0 .. m}
<1>1. ASSUME NEW p \in DOMAIN tree PROVE IsFiniteSet({p} \X Memories(tree[p]))
  <2>0. tree[p].handlers \in Seq(Handlers)
    BY DEF IsTree
  <2>1. PICK l \in Nat : l = Len(tree[p].handlers)
    BY <2>0
  <2>2. IsFiniteSet(1 .. l)
    BY FS_Interval
  <2>3. Memories(tree[p]) \in SUBSET (1 .. l)
    BY <2>1 DEF Memories
  <2>4. IsFiniteSet(Memories(tree[p])) /\ IsFiniteSet({p})
    BY <2>2, <2>3, FS_Subset, FS_Singleton
  <2> QED BY <2>4, FS_Product
<1>2. IsFiniteSet(F)
  <2>1. IsFiniteSet(0 .. m)
    BY FS_Interval
  <2>2. f \in [0 .. m -> F] /\ \A x \in F : \E k \in 0 .. m : f[k] = x
    OBVIOUS
  <2>3. f \in Surjection(0 .. m, F)
    <3> HIDE DEF f, F
    <3> QED BY <2>2 DEF Surjection
  <2> HIDE DEF f, F
  <2> QED BY <2>1, <2>3, FS_Surjection
<1>3. \A T \in F : IsFiniteSet(T)
  <2>1. ASSUME NEW k \in 0 .. m PROVE IsFiniteSet(f[k])
    <3>1. CASE at(k) \in DOMAIN tree
      BY <1>1, <3>1
    <3>2. CASE at(k) \notin DOMAIN tree
      BY <3>2, FS_EmptySet
    <3> QED BY <3>1, <3>2
  <2> HIDE DEF f
  <2> QED BY <2>1
<1>4. IsFiniteSet(UNION F)
  <2> HIDE DEF F
  <2> QED BY <1>2, <1>3, FS_UNION
<1>5. ASSUME NEW x \in Reached(tree, n) PROVE x \in UNION F
  <2>1. PICK p \in ReachedBy(tree, n) : x \in {p} \X Memories(tree[p])
    BY <1>5 DEF Reached
  <2>2. p \in DOMAIN tree /\ IsPrefix(p, n) /\ IsName(p)
    BY <2>1 DEF ReachedBy, IsTree
  <2>3. Len(p) \in 0 .. m /\ p = at(Len(p))
    BY <2>2, PrefixOf
  <2>4. x \in f[Len(p)]
    BY <2>1, <2>2, <2>3
  <2> HIDE DEF f, at
  <2> QED BY <2>3, <2>4
<1>6. Reached(tree, n) \in SUBSET (UNION F)
  <2> HIDE DEF F
  <2> QED BY <1>5
<1> HIDE DEF F
<1> QED BY <1>4, <1>6, FS_Subset

\* The nearest logger at which records stop.
LEMMA Nearest ==
  ASSUME NEW tree, IsTree(tree), NEW n \in DOMAIN tree
  PROVE  \E p \in ReachedBy(tree, n) :
           /\ Stops(tree, p)
           /\ \A q \in ReachedBy(tree, n) : Stops(tree, q) => q = p
<1> DEFINE P == {p \in DOMAIN tree : IsPrefix(p, n) /\ Stops(tree, p)}
           K == {Len(n) - Len(p) : p \in P}
<1>1. Len(n) \in Nat
  BY DEF IsTree, IsName
<1>2. Root \in P
  <2>1. IsPrefix(<<>>, n)
    <3>1. SubSeq(<<>>, 1, 0) = <<>> /\ SubSeq(n, 1, 0) = <<>>
      BY SubSeqEmpty
    <3> QED BY <1>1, <3>1 DEF IsPrefix
  <2> QED BY <2>1 DEF IsTree, Root, Stops
<1>3. \A p \in P : IsName(p) /\ Len(p) \in Nat /\ Len(p) <= Len(n) /\ p = SubSeq(n, 1, Len(p))
  BY PrefixOf DEF IsTree
<1>4. K \in SUBSET Nat /\ K # {}
  <2>1. \A p \in P : Len(n) - Len(p) \in Nat
    BY <1>1, <1>3
  <2> HIDE DEF P
  <2> QED BY <1>2, <2>1
<1>5. PICK k \in K : \A j \in K : k <= j
  <2> HIDE DEF K
  <2> QED BY <1>4, LeastNatural
<1>6. PICK p \in P : k = Len(n) - Len(p)
  BY <1>5
<1>7. \A q \in P : Len(q) <= Len(p)
  <2>1. \A q \in P : k <= Len(n) - Len(q)
    BY <1>5
  <2> HIDE DEF P, K
  <2> QED BY <1>1, <1>3, <1>6, <2>1
<1>8. p \in DOMAIN tree /\ IsPrefix(p, n) /\ Stops(tree, p)
  BY <1>6
<1>9. p \in ReachedBy(tree, n)
  <2> SUFFICES ASSUME NEW q \in DOMAIN tree, IsPrefix(q, n), Len(q) > Len(p) PROVE tree[q].propagate
    BY <1>8 DEF ReachedBy
  <2>1. Len(q) \in Nat /\ Len(p) \in Nat
    BY <1>3, <1>6, PrefixOf DEF IsTree
  <2>2. q \notin P
    <3> HIDE DEF P
    <3> QED BY <1>7, <2>1
  <2> QED BY <2>2 DEF Stops
<1>10. ASSUME NEW q \in ReachedBy(tree, n), Stops(tree, q) PROVE q = p
  <2>1. q \in P
    BY <1>10 DEF ReachedBy
  <2>2. Len(q) \in Nat /\ Len(p) \in Nat /\ Len(q) <= Len(p)
    <3> HIDE DEF P
    <3> QED BY <1>3, <1>6, <1>7, <2>1
  <2>3. ~(Len(p) > Len(q))
    <3> SUFFICES ASSUME Len(p) > Len(q) PROVE FALSE
      OBVIOUS
    <3>1. tree[p].propagate
      BY <1>8, <1>10 DEF ReachedBy
    <3>2. p # Root
      BY <2>2 DEF Root
    <3> QED BY <1>8, <3>1, <3>2 DEF Stops
  <2>4. Len(q) = Len(p)
    BY <2>2, <2>3
  <2> HIDE DEF P
  <2> QED BY <1>3, <1>6, <2>1, <2>4
<1> QED BY <1>8, <1>9, <1>10

LEMMA PatchedReached ==
  ASSUME NEW tree, IsTree(tree), Patched(tree), NEW n \in DOMAIN tree
  PROVE  /\ Cardinality(Reached(tree, n)) \in Nat /\ Cardinality(Reached(tree, n)) # 0
         /\ Cardinality(Reached(tree, n)) > 1 =>
              \E p \in DOMAIN tree \ {Root} :
                tree[p].propagate /\ Contains(tree[p].handlers, "memory")
<1>1. PICK p \in ReachedBy(tree, n) :
        Stops(tree, p) /\ \A q \in ReachedBy(tree, n) : Stops(tree, q) => q = p
  BY Nearest
<1>2. PICK i : Memories(tree[p]) = {i}
  BY <1>1 DEF Patched, ReachedBy
<1> PICK M : M = Reached(tree, n)
  OBVIOUS
<1>3. IsFiniteSet(M)
  BY ReachedFinite
<1>4. <<p, i>> \in M
  <2>1. <<p, i>> \in {p} \X Memories(tree[p])
    BY <1>2
  <2> QED BY <2>1 DEF Reached
<1>5. Cardinality(M) \in Nat /\ Cardinality(M) # 0
  BY <1>3, <1>4, FS_CardinalityType, FS_EmptySet
<1>6. ASSUME ~ \E q \in DOMAIN tree \ {Root} :
                tree[q].propagate /\ Contains(tree[q].handlers, "memory")
      PROVE  Cardinality(M) = 1
  <2>1. ASSUME NEW x \in M PROVE x = <<p, i>>
    <3>1. PICK q \in ReachedBy(tree, n) : x \in {q} \X Memories(tree[q])
      BY <2>1 DEF Reached
    <3>2. PICK j : x = <<q, j>> /\ j \in Memories(tree[q])
      BY <3>1
    <3>3. q \in DOMAIN tree
      BY DEF ReachedBy
    <3>4. Contains(tree[q].handlers, "memory")
      BY <3>2 DEF Memories, Contains
    <3>5. Stops(tree, q)
      BY <1>6, <3>3, <3>4 DEF Stops
    <3>6. q = p
      BY <1>1, <3>5
    <3> QED BY <1>2, <3>2, <3>6
  <2>2. M = {<<p, i>>}
    BY <1>4, <2>1
  <2> QED BY <2>2, FS_Singleton
<1> QED BY <1>5, <1>6

LEMMA NotZero == \A k \in Nat : k # 0 => k > 0
OBVIOUS

LEMMA PatchedCaptured ==
  ASSUME Typing, IsTree(loggers), pc = "test" /\ IsEnabled("logcapture") => Patched(loggers)
  PROVE  RecordsCaptured
<1> SUFFICES ASSUME pc = "test", IsEnabled("logcapture"), NEW n \in DOMAIN loggers
             PROVE  LET times == Captures(loggers, cmd.filters, n)
                        passes == /\ \A f \in cmd.filters : f.out => ~IsPrefix(f.name, RecordName(n))
                                  /\ (\E f \in cmd.filters : ~f.out) =>
                                       \E f \in cmd.filters : ~f.out /\ IsPrefix(f.name, RecordName(n))
                        resumed == \E p \in DOMAIN loggers \ {Root} :
                                     loggers[p].propagate /\ Contains(loggers[p].handlers, "memory")
                    IN /\ (times > 0) = passes
                       /\ times > 1 => resumed
  BY DEF RecordsCaptured
<1> DEFINE passes == /\ \A f \in cmd.filters : f.out => ~IsPrefix(f.name, RecordName(n))
                     /\ (\E f \in cmd.filters : ~f.out) =>
                          \E f \in cmd.filters : ~f.out /\ IsPrefix(f.name, RecordName(n))
<1>1. allow(cmd.filters, n) <=> passes
  <2>1. \A f \in cmd.filters : f.out \in BOOLEAN
    BY CommandsAssumption DEF Typing
  <2> PICK F, r : F = cmd.filters /\ r = RecordName(n)
    OBVIOUS
  <2>2. any_match(partition(F, TRUE), r) <=> \E f \in F : f.out /\ IsPrefix(f.name, r)
    BY <2>1 DEF any_match, partition
  <2>3. any_match(partition(F, FALSE), r) <=> \E f \in F : ~f.out /\ IsPrefix(f.name, r)
    BY <2>1 DEF any_match, partition
  <2>4. partition(F, FALSE) = {} <=> ~ \E f \in F : ~f.out
    BY <2>1 DEF partition
  <2> QED BY <2>2, <2>3, <2>4 DEF allow
<1>2. Captures(loggers, cmd.filters, n) =
        IF allow(cmd.filters, n) THEN Cardinality(Reached(loggers, n)) ELSE 0
  <2>1. \A p \in DOMAIN loggers :
          {i \in DOMAIN loggers[p].handlers : loggers[p].handlers[i] = "memory"} = Memories(loggers[p])
    BY DEF IsTree, Memories
  <2>2. UNION {{p} \X {i \in DOMAIN loggers[p].handlers : loggers[p].handlers[i] = "memory"} :
               p \in ReachedBy(loggers, n)} = Reached(loggers, n)
    BY <2>1 DEF Reached, ReachedBy
  <2> QED BY <2>2 DEF Captures
<1>3. /\ Cardinality(Reached(loggers, n)) \in Nat /\ Cardinality(Reached(loggers, n)) # 0
      /\ Cardinality(Reached(loggers, n)) > 1 =>
           \E p \in DOMAIN loggers \ {Root} :
             loggers[p].propagate /\ Contains(loggers[p].handlers, "memory")
  BY PatchedReached
<1> HIDE DEF passes
<1>4. (Captures(loggers, cmd.filters, n) > 0) = passes
  <2>1. passes \in BOOLEAN
    BY DEF passes
  <2>2. \A k \in Nat : k # 0 => k > 0
    BY NotZero
  <2>3. (Captures(loggers, cmd.filters, n) > 0) \in BOOLEAN /\ ~(0 > 0)
    OBVIOUS
  <2>4. allow(cmd.filters, n) => Captures(loggers, cmd.filters, n) > 0
    BY <1>2, <1>3, <2>2, Zenon
  <2>5. ~allow(cmd.filters, n) => ~(Captures(loggers, cmd.filters, n) > 0)
    BY <1>2, <2>3, Zenon
  <2>6. Captures(loggers, cmd.filters, n) > 0 <=> passes
    BY <1>1, <2>4, <2>5, Zenon
  <2> QED BY <2>1, <2>3, <2>6
<1>5. Captures(loggers, cmd.filters, n) > 1 =>
        \E p \in DOMAIN loggers \ {Root} :
          loggers[p].propagate /\ Contains(loggers[p].handlers, "memory")
  BY <1>2, <1>3
<1> QED BY <1>4, <1>5 DEF passes

Loggers == [propagate : BOOLEAN, handlers : Seq(Handlers)]

LEMMA Trees ==
  ASSUME NEW tree
  PROVE  IsTree(tree) <=>
           /\ Root \in DOMAIN tree /\ \A n \in DOMAIN tree : IsName(n)
           /\ tree \in [DOMAIN tree -> Loggers]
BY DEF IsTree, Loggers

LEMMA LoggerTypes ==
  ASSUME NEW logger \in Loggers, NEW handler \in Handlers
  PROVE  /\ addHandler(logger, handler) \in Loggers
         /\ addHandler(logger, handler).propagate = logger.propagate
         /\ addHandler(logger, handler).handlers = Append(logger.handlers, handler)
BY DEF Loggers, addHandler

LEMMA GetLogger ==
  ASSUME NEW tree, IsTree(tree), NEW more, \A n \in more : IsName(n)
  PROVE  IsTree(getLogger(tree, more)) /\ DOMAIN getLogger(tree, more) = DOMAIN tree \cup more
<1>1. Logger(TRUE, <<>>) \in Loggers
  BY DEF Logger, Loggers
<1> QED BY <1>1, Trees DEF getLogger

LEMMA NoseIsName == IsName(Nose) /\ Nose # Root
<1>1. ToSet(Nose) = {"nose"}
  BY DEF Nose, ToSet
<1> QED BY <1>1 DEF IsName, Nose, Root

LEMMA ConfigureLogging ==
  ASSUME NEW tree, IsTree(tree), NEW kind \in Handlers, NEW debug, \A n \in debug : IsName(n)
  PROVE  IsTree(configureLogging(tree, kind, debug))
<1> DEFINE known == getLogger(tree, {Nose} \cup debug)
           own == [known[Nose] EXCEPT !.propagate = FALSE]
           nose == IF Contains(own.handlers, kind) THEN own ELSE addHandler(own, kind)
<1>1. IsTree(known) /\ Nose \in DOMAIN known
  <2>1. \A n \in {Nose} \cup debug : IsName(n)
    BY NoseIsName
  <2>2. IsTree(getLogger(tree, {Nose} \cup debug))
    BY <2>1, GetLogger
  <2>3. DOMAIN getLogger(tree, {Nose} \cup debug) = DOMAIN tree \cup ({Nose} \cup debug)
    BY <2>1, GetLogger
  <2> QED BY <2>2, <2>3
<1>2. \A n \in DOMAIN known : known[n] \in Loggers
  BY <1>1, Trees
<1>3. own \in Loggers
  BY <1>1, <1>2 DEF Loggers
<1>4. nose \in Loggers
  BY <1>3, LoggerTypes
<1>5. \A n \in DOMAIN known : addHandler(known[n], kind) \in Loggers
  BY <1>2, LoggerTypes
<1>6. configureLogging(tree, kind, debug) =
        [n \in DOMAIN known |->
          CASE n = Nose -> nose
            [] n \in debug /\ ~IsPrefix(Nose, n) /\ known[n].handlers = <<>> ->
                 addHandler(known[n], kind)
            [] OTHER -> known[n]]
  BY DEF configureLogging
<1> HIDE DEF known, own, nose
<1> PICK t : t = configureLogging(tree, kind, debug)
  OBVIOUS
<1>7. DOMAIN t = DOMAIN known
  BY <1>6
<1>8. ASSUME NEW n \in DOMAIN known PROVE t[n] \in Loggers
  <2>1. t[n] = nose \/ t[n] = addHandler(known[n], kind) \/ t[n] = known[n]
    BY <1>6
  <2> QED BY <1>2, <1>4, <1>5, <2>1
<1>9. t \in [DOMAIN known -> Loggers]
  BY <1>6, <1>7, <1>8
<1> QED BY <1>1, <1>7, <1>9, Trees

LEMMA ClearedTree ==
  ASSUME NEW tree, IsTree(tree)
  PROVE  IsTree(Cleared(tree)) /\ DOMAIN Cleared(tree) = DOMAIN tree
<1>1. ASSUME NEW handlers \in Seq(Handlers) PROVE clear(handlers) \in Seq(Handlers)
  <2> PICK seqs : seqs = [i \in DOMAIN handlers |-> IF i % 2 = 0 THEN <<handlers[i]>> ELSE <<>>]
    OBVIOUS
  <2> PICK m \in Nat : m = Len(handlers)
    OBVIOUS
  <2>1. seqs \in Seq(Seq(Handlers))
    <3>1. DOMAIN handlers = 1 .. m /\ \A i \in 1 .. m : handlers[i] \in Handlers
      OBVIOUS
    <3>2. <<>> \in Seq(Handlers) /\ \A h \in Handlers : <<h>> \in Seq(Handlers)
      OBVIOUS
    <3>3. seqs \in [1 .. m -> Seq(Handlers)]
      BY <3>1, <3>2
    <3> QED BY <3>3
  <2> QED BY <2>1, FlattenElements DEF clear
<1>2. ASSUME NEW logger \in Loggers PROVE [logger EXCEPT !.handlers = clear(@)] \in Loggers
  BY <1>1 DEF Loggers
<1> QED BY <1>2, Trees DEF Cleared

LEMMA NoMemory ==
  ASSUME NEW handlers \in Seq(Handlers)
  PROVE  /\ WithoutMemory(handlers) \in Seq(Handlers)
         /\ \A h \in ToSet(WithoutMemory(handlers)) : h # "memory"
<1> PICK others : others = {h \in ToSet(handlers) : ~IsMemory(h)}
  OBVIOUS
<1> PICK kept : kept = Keep(handlers, others)
  OBVIOUS
<1>1. kept = WithoutMemory(handlers)
  BY DEF WithoutMemory
<1>2. kept \in Seq(Handlers) /\ ToSet(kept) = ToSet(handlers) \cap others
  BY KeepOrder DEF KeepsOrder
<1> QED BY <1>1, <1>2 DEF IsMemory

\* The handler of this run comes last, and there is no other.
LEMMA ReplacedOnce ==
  ASSUME NEW logger \in Loggers
  PROVE  /\ Replaced(logger) \in Loggers
         /\ Replaced(logger).propagate = logger.propagate
         /\ \E i : Memories(Replaced(logger)) = {i}
<1>k. PICK kept : kept = WithoutMemory(logger.handlers)
  OBVIOUS
<1>1. logger.handlers \in Seq(Handlers) /\ logger.propagate \in BOOLEAN
  BY DEF Loggers
<1>2. kept \in Seq(Handlers)
  BY <1>1, <1>k, NoMemory
<1>3. \A h \in ToSet(kept) : h # "memory"
  BY <1>1, <1>k, NoMemory
<1>4. Logger(logger.propagate, kept) \in Loggers
  BY <1>1, <1>2 DEF Logger, Loggers
<1>5. Replaced(logger) = addHandler(Logger(logger.propagate, kept), "memory")
  BY <1>k DEF Replaced
<1>6. "memory" \in Handlers
  BY DEF Handlers
<1>7. /\ Replaced(logger) \in Loggers /\ Replaced(logger).propagate = logger.propagate
      /\ Replaced(logger).handlers = Append(kept, "memory")
  <2> PICK l : l = Logger(logger.propagate, kept)
    OBVIOUS
  <2>1. l \in Loggers /\ l.propagate = logger.propagate /\ l.handlers = kept
    BY <1>4 DEF Logger
  <2>2. Replaced(logger) = addHandler(l, "memory")
    BY <1>5
  <2> QED BY <1>6, <2>1, <2>2, LoggerTypes
<1> PICK m \in Nat : m = Len(kept)
  BY <1>2
<1>8. \A i \in 1 .. m : Append(kept, "memory")[i] # "memory"
  <2>1. \A i \in 1 .. m : kept[i] \in ToSet(kept)
    <3>1. DOMAIN kept = 1 .. m
      BY <1>2
    <3> QED BY <3>1 DEF ToSet
  <2> QED BY <1>2, <1>3, <2>1
<1>9. Len(Append(kept, "memory")) = m + 1 /\ Append(kept, "memory")[m + 1] = "memory"
  BY <1>2
<1>10. Memories(Replaced(logger)) = {m + 1}
  <2>1. \A i \in 1 .. (m + 1) : i = m + 1 \/ i \in 1 .. m
    OBVIOUS
  <2> QED BY <1>7, <1>8, <1>9, <2>1 DEF Memories
<1> QED BY <1>7, <1>10

LEMMA SetupPatches ==
  ASSUME NEW tree, IsTree(tree), NEW clearing
  PROVE  IsTree(setupLoghandler(tree, clearing)) /\ Patched(setupLoghandler(tree, clearing))
<1> PICK some : some = IF clearing THEN Cleared(tree) ELSE tree
  OBVIOUS
<1>1. IsTree(some)
  BY ClearedTree
<1> PICK t : t = setupLoghandler(tree, clearing)
  OBVIOUS
<1>2. t = [n \in DOMAIN some |->
             IF n = Root \/ ~some[n].propagate THEN Replaced(some[n]) ELSE some[n]]
  BY DEF setupLoghandler
<1>3. \A n \in DOMAIN some : some[n] \in Loggers
  BY <1>1, Trees
<1>4. \A n \in DOMAIN some : t[n] \in Loggers /\ t[n].propagate = some[n].propagate
  BY <1>2, <1>3, ReplacedOnce
<1>5. IsTree(t)
  BY <1>1, <1>2, <1>4, Trees
<1>6. ASSUME NEW n \in DOMAIN t, Stops(t, n) PROVE \E i : Memories(t[n]) = {i}
  <2>1. n \in DOMAIN some /\ (n = Root \/ ~some[n].propagate)
    BY <1>2, <1>4, <1>6 DEF Stops
  <2>2. t[n] = Replaced(some[n])
    BY <1>2, <2>1
  <2> QED BY <1>3, <2>1, <2>2, ReplacedOnce
<1> QED BY <1>5, <1>6 DEF Patched

\* Before a test, with logcapture, the loggers are patched.
Grown == IsTree(loggers) /\ (pc = "test" /\ IsEnabled("logcapture") => Patched(loggers))

LEMMA GrownStep ==
  ASSUME Typing, Grown, [Next]_vars
  PROVE  Grown'
<1> USE DEF manager, options, logging, resources
<1>0. \A n \in cmd.debug \cup cmd.making : IsName(n)
  BY CommandsAssumption DEF Typing
<1>1. CASE Settle
  <2>1. {"file", "stream"} \subseteq Handlers
    BY DEF Handlers
  <2>2. \A kind \in {"file", "stream"} : IsTree(configureLogging(loggers, kind, cmd.debug))
    BY <1>0, <2>1, ConfigureLogging DEF Grown
  <2>3. IsTree(loggers')
    BY <1>1, <2>2 DEF Settle, Grown
  <2>4. pc' # "test"
    BY <1>1 DEF Settle
  <2> QED BY <2>3, <2>4 DEF Grown
<1>2. CASE Begin
  <2>1. IsTree(LogHandlersSet)
    BY SetupPatches DEF LogHandlersSet, Grown
  <2>2. IsTree(loggers') /\ pc' # "test"
    BY <1>2, <2>1 DEF Begin, Grown
  <2> QED BY <2>2 DEF Grown
<1>3. CASE BeforeTest
  <2>1. IsTree(LogHandlersSet) /\ Patched(LogHandlersSet)
    BY SetupPatches DEF LogHandlersSet, Grown
  <2>2. plugins' = plugins /\ loggers' = IF IsEnabled("logcapture") THEN LogHandlersSet ELSE loggers
    BY <1>3 DEF BeforeTest
  <2> QED BY <2>1, <2>2 DEF Grown, IsEnabled
<1>10. CASE BeforeTestUnbegun
  <2>1. loggers[Root] \in Loggers
    BY Trees DEF Grown
  <2>2. PICK kept \in Seq(Handlers) : kept = WithoutMemory(loggers[Root].handlers)
    BY <2>1, NoMemory DEF Loggers
  <2>3. PICK l \in Loggers : l = [loggers[Root] EXCEPT !.handlers = kept]
    BY <2>1 DEF Loggers
  <2>4. loggers' = [loggers EXCEPT ![Root] = l]
    BY <1>10, <2>2, <2>3 DEF BeforeTestUnbegun
  <2>5. IsTree(loggers')
    BY <2>4, Trees DEF Grown
  <2> QED BY <1>10, <2>5 DEF BeforeTestUnbegun, Grown
<1>4. CASE TestChangesLoggers
  <2> PICK tree : tree = getLogger(loggers, cmd.making)
    OBVIOUS
  <2>1. IsTree(tree) /\ DOMAIN tree = DOMAIN loggers \cup cmd.making
    BY <1>0, GetLogger DEF Grown
  <2>2. \A n \in DOMAIN tree : tree[n] \in Loggers
    BY <2>1, Trees
  <2>3. PICK n \in DOMAIN tree :
          \/ loggers' = [tree EXCEPT ![n].propagate = ~@]
          \/ loggers' = [tree EXCEPT ![n] = addHandler(@, "other")]
    BY <1>4, <2>1 DEF TestChangesLoggers
  <2>4. "other" \in Handlers
    BY DEF Handlers
  <2>5. addHandler(tree[n], "other") \in Loggers
    BY <2>2, <2>4, LoggerTypes
  <2>6. [tree[n] EXCEPT !.propagate = ~@] \in Loggers
    BY <2>2 DEF Loggers
  <2>7. PICK l \in Loggers : loggers' = [tree EXCEPT ![n] = l]
    BY <2>2, <2>3, <2>5, <2>6
  <2>8. IsTree(loggers')
    BY <2>1, <2>7, Trees
  <2>9. pc' # "test"
    BY <1>4 DEF TestChangesLoggers
  <2> QED BY <2>8, <2>9 DEF Grown
<1>5. CASE /\ loggers' = loggers
           /\ pc' # "test" \/ (pc' = pc /\ plugins' = plugins)
  BY <1>5 DEF Grown, IsEnabled
<1>6. CASE MakeConfig \/ LoadPlugins \/ Configure \/ PrepareTestLoader \/ PrepareTestRunner
  BY <1>5, <1>6 DEF MakeConfig, LoadPlugins, Configure, PrepareTestLoader, PrepareTestRunner, Exit
<1>7. CASE Parse \/ Reparse
  BY <1>5, <1>7 DEF Parse, Reparse, ParseFiles, Exit
<1>8. CASE PrepareTest \/ SetOutputStream \/ RunTests \/ Report \/ Finalize
  BY <1>5, <1>8 DEF PrepareTest, SetOutputStream, RunTests, Report, Finalize, Exit
<1>9. CASE UNCHANGED vars
  BY <1>5, <1>9 DEF vars
<1> QED BY <1>1, <1>2, <1>3, <1>4, <1>6, <1>7, <1>8, <1>9, <1>10 DEF Next

\* Whatever the loggers the process has and the tests make, stop, resume and give
\* handlers, setupLoghandler before each test sees to it that a record that passes
\* the filters is captured, and once unless a logger has resumed propagating.
THEOREM ProgramRecordsCaptured == Spec => []RecordsCaptured
<1>1. Init => Typing /\ Grown
  <2>1. Init => Typing
    BY InitTyping
  <2>2. Init => Grown
    BY CommandsAssumption DEF Init, Grown
  <2> QED BY <2>1, <2>2
<1>2. Typing /\ Grown /\ [Next]_vars => Typing' /\ Grown'
  BY TypingStep, GrownStep
<1>3. Typing /\ Grown => RecordsCaptured
  BY PatchedCaptured DEF Grown
<1> QED BY <1>1, <1>2, <1>3, PTL DEF Spec
-----------------------------------------------------------------------------
(* The plugins of a worker.                                                *)

\* s and t have the same elements of N, in the same order.
Agree(s, t, N) ==
  /\ \A p \in N : p \in ToSet(s) <=> p \in ToSet(t)
  /\ \A p, q \in N : Precedes(s, p, q) <=> Precedes(t, p, q)

LEMMA AgreeTransitive ==
  ASSUME NEW s, NEW t, NEW u, NEW N, Agree(s, t, N), Agree(t, u, N)
  PROVE  Agree(s, u, N)
BY DEF Agree

LEMMA AddAgrees ==
  ASSUME NEW s \in Seq(Known), NEW t \in Seq(Known), NEW N, Agree(s, t, N), NEW p \in Known
  PROVE  Agree(addPlugin(s, p), addPlugin(t, p), N)
<1> PICK a : a = addPlugin(s, p)
  OBVIOUS
<1> PICK b : b = addPlugin(t, p)
  OBVIOUS
<1>1. Replaces(a, s, p) /\ Replaces(b, t, p)
  BY AddReplaces
<1>2. ASSUME NEW q \in N PROVE q \in ToSet(a) <=> q \in ToSet(b)
  <2>1. /\ q \in ToSet(a) <=> (q \in ToSet(s) /\ Name(q) # Name(p)) \/ q = p
        /\ q \in ToSet(b) <=> (q \in ToSet(t) /\ Name(q) # Name(p)) \/ q = p
    BY <1>1 DEF Replaces
  <2>2. q \in ToSet(s) <=> q \in ToSet(t)
    BY DEF Agree
  <2> QED BY <2>1, <2>2
<1>3. ASSUME NEW q \in N, NEW x \in N PROVE Precedes(a, q, x) <=> Precedes(b, q, x)
  <2>1. /\ Precedes(a, q, x) <=> \/ Precedes(s, q, x) /\ Name(q) # Name(p) /\ Name(x) # Name(p)
                                 \/ q \in ToSet(s) /\ Name(q) # Name(p) /\ x = p
        /\ Precedes(b, q, x) <=> \/ Precedes(t, q, x) /\ Name(q) # Name(p) /\ Name(x) # Name(p)
                                 \/ q \in ToSet(t) /\ Name(q) # Name(p) /\ x = p
    BY <1>1 DEF Replaces
  <2>2. /\ q \in ToSet(s) <=> q \in ToSet(t)
        /\ Precedes(s, q, x) <=> Precedes(t, q, x)
    BY DEF Agree
  <2> QED BY <2>1, <2>2
<1> QED BY <1>2, <1>3 DEF Agree

LEMMA AddElsewhere ==
  ASSUME NEW s \in Seq(Known), NEW N, NEW p \in Known, \A q \in N : Name(q) # Name(p)
  PROVE  Agree(addPlugin(s, p), s, N)
<1> PICK a : a = addPlugin(s, p)
  OBVIOUS
<1>1. Replaces(a, s, p)
  BY AddReplaces
<1>2. p \notin N
  OBVIOUS
<1>3. ASSUME NEW q \in N PROVE q \in ToSet(a) <=> q \in ToSet(s)
  BY <1>1, <1>2 DEF Replaces
<1>4. ASSUME NEW q \in N, NEW x \in N PROVE Precedes(a, q, x) <=> Precedes(s, q, x)
  <2>1. Precedes(a, q, x) <=> \/ Precedes(s, q, x) /\ Name(q) # Name(p) /\ Name(x) # Name(p)
                              \/ q \in ToSet(s) /\ Name(q) # Name(p) /\ x = p
    BY <1>1 DEF Replaces
  <2>2. Name(q) # Name(p) /\ Name(x) # Name(p) /\ x # p
    BY <1>2
  <2> QED BY <2>1, <2>2
<1> QED BY <1>3, <1>4 DEF Agree

\* The same plugins added to lists that agree.
LEMMA AddPluginsAgrees ==
  ASSUME NEW s \in Seq(Known), NEW t \in Seq(Known), NEW N, Agree(s, t, N), NEW more \in Seq(Known)
  PROVE  Agree(addPlugins(s, more), addPlugins(t, more), N)
<1> PICK l \in Nat : l = Len(more)
  OBVIOUS
<1>1. PICK g : Adds(g, s, more) /\ addPlugins(s, more) = g[l]
  BY AddPluginsAdds
<1>2. PICK h : Adds(h, t, more) /\ addPlugins(t, more) = h[l]
  BY AddPluginsAdds
<1> DEFINE Good(k) == g[k] \in Seq(Known) /\ h[k] \in Seq(Known) /\ Agree(g[k], h[k], N)
           I == {k \in Nat : k <= l => Good(k)}
<1>3. 0 \in I
  <2>1. Good(0)
    BY <1>1, <1>2 DEF Adds
  <2> HIDE DEF Good
  <2> QED BY <2>1
<1>4. ASSUME NEW k \in Nat, k \in I PROVE k + 1 \in I
  <2> SUFFICES ASSUME k + 1 <= l PROVE Good(k + 1)
    OBVIOUS
  <2>1. Good(k)
    BY <1>4
  <2>2. k + 1 \in 1 .. l /\ (k + 1) - 1 = k
    OBVIOUS
  <2>3. more[k + 1] \in Known
    BY <2>2
  <2>4. g[k + 1] = addPlugin(g[k], more[k + 1]) /\ h[k + 1] = addPlugin(h[k], more[k + 1])
    BY <1>1, <1>2, <2>2 DEF Adds
  <2>5. g[k + 1] \in Seq(Known) /\ h[k + 1] \in Seq(Known)
    BY <2>1, <2>3, <2>4, AddReplaces
  <2>6. Agree(g[k + 1], h[k + 1], N)
    BY <2>1, <2>3, <2>4, AddAgrees
  <2> QED BY <2>5, <2>6
<1> HIDE DEF Good
<1>5. l \in I
  <2> HIDE DEF I
  <2> QED BY <1>3, <1>4, SetInduction
<1> QED BY <1>1, <1>2, <1>5 DEF Good

\* Plugins of other names added.
LEMMA AddPluginsElsewhere ==
  ASSUME NEW s \in Seq(Known), NEW N, NEW more \in Seq(Known),
         \A q \in N : Name(q) \notin NamesOf(more)
  PROVE  Agree(addPlugins(s, more), s, N)
<1> PICK l \in Nat : l = Len(more)
  OBVIOUS
<1>1. PICK g : Adds(g, s, more) /\ addPlugins(s, more) = g[l]
  BY AddPluginsAdds
<1> DEFINE Good(k) == g[k] \in Seq(Known) /\ Agree(g[k], s, N)
           I == {k \in Nat : k <= l => Good(k)}
<1>2. 0 \in I
  <2>1. Good(0)
    BY <1>1 DEF Adds, Agree
  <2> HIDE DEF Good
  <2> QED BY <2>1
<1>3. ASSUME NEW k \in Nat, k \in I PROVE k + 1 \in I
  <2> SUFFICES ASSUME k + 1 <= l PROVE Good(k + 1)
    OBVIOUS
  <2>1. Good(k)
    BY <1>3
  <2>2. k + 1 \in 1 .. l /\ (k + 1) - 1 = k
    OBVIOUS
  <2>3. more[k + 1] \in Known /\ more[k + 1] \in ToSet(more)
    BY <2>2 DEF ToSet
  <2>4. g[k + 1] = addPlugin(g[k], more[k + 1])
    BY <1>1, <2>2 DEF Adds
  <2>5. g[k + 1] \in Seq(Known)
    BY <2>1, <2>3, <2>4, AddReplaces
  <2>6. \A q \in N : Name(q) # Name(more[k + 1])
    BY <2>3 DEF NamesOf
  <2>7. Agree(g[k + 1], g[k], N)
    BY <2>1, <2>3, <2>4, <2>6, AddElsewhere
  <2> QED BY <2>1, <2>5, <2>7, AgreeTransitive
<1> HIDE DEF Good
<1>4. l \in I
  <2> HIDE DEF I
  <2> QED BY <1>2, <1>3, SetInduction
<1> QED BY <1>1, <1>4 DEF Good

\* Plugins of different names added to none.
LEMMA AddPluginsToNone ==
  ASSUME NEW more \in Seq(Known), Unique(more)
  PROVE  Agree(addPlugins(<<>>, more), more, Known)
<1> PICK l \in Nat : l = Len(more)
  OBVIOUS
<1>1. PICK g : Adds(g, <<>>, more) /\ addPlugins(<<>>, more) = g[l]
  BY AddPluginsAdds, UniqueNone
<1> DEFINE Good(k) ==
             /\ g[k] \in Seq(Known)
             /\ ToSet(g[k]) = {more[j] : j \in 1 .. k}
             /\ \A p, q : Precedes(g[k], p, q) <=>
                  \E i, j \in 1 .. k : i < j /\ more[i] = p /\ more[j] = q
           I == {k \in Nat : k <= l => Good(k)}
<1>2. 0 \in I
  <2>1. g[0] = <<>> /\ Len(<<>>) = 0
    BY <1>1 DEF Adds
  <2>2. Good(0)
    BY <2>1, UniqueNone DEF Precedes
  <2> HIDE DEF Good
  <2> QED BY <2>2
<1>3. ASSUME NEW k \in Nat, k \in I PROVE k + 1 \in I
  <2> SUFFICES ASSUME k + 1 <= l PROVE Good(k + 1)
    OBVIOUS
  <2>1. Good(k)
    BY <1>3
  <2>2. k + 1 \in 1 .. l /\ (k + 1) - 1 = k /\ \A i \in 1 .. k : i \in 1 .. l /\ i \in 1 .. k + 1 /\ i < k + 1
    OBVIOUS
  <2> PICK x \in Known : x = more[k + 1]
    BY <2>2
  <2>3. \A i \in 1 .. k : Name(more[i]) # Name(x)
    BY <2>2 DEF Unique
  <2>4. g[k + 1] = addPlugin(g[k], x)
    BY <1>1, <2>2 DEF Adds
  <2>5. g[k + 1] \in Seq(Known) /\ Replaces(g[k + 1], g[k], x)
    <3>1. g[k] \in Seq(Known)
      BY <2>1
    <3> HIDE DEF Good
    <3> QED BY <2>4, <3>1, AddReplaces
  <2>6. ToSet(g[k + 1]) = {more[j] : j \in 1 .. k + 1}
    <3>1. \A p : p \in ToSet(g[k + 1]) <=> (p \in ToSet(g[k]) /\ Name(p) # Name(x)) \/ p = x
      BY <2>5 DEF Replaces
    <3>2. \A p : p \in ToSet(g[k]) <=> \E j \in 1 .. k : p = more[j]
      BY <2>1
    <3>3. \A j \in 1 .. k + 1 : j \in 1 .. k \/ j = k + 1
      OBVIOUS
    <3>4. \A p : p \in ToSet(g[k + 1]) <=> \E j \in 1 .. k + 1 : p = more[j]
      BY <2>2, <2>3, <3>1, <3>2, <3>3
    <3> QED BY <3>4
  <2>7. ASSUME NEW p, NEW q
        PROVE  Precedes(g[k + 1], p, q) <=>
                 \E i, j \in 1 .. k + 1 : i < j /\ more[i] = p /\ more[j] = q
    <3>1. Precedes(g[k + 1], p, q) <=>
            \/ Precedes(g[k], p, q) /\ Name(p) # Name(x) /\ Name(q) # Name(x)
            \/ p \in ToSet(g[k]) /\ Name(p) # Name(x) /\ q = x
      BY <2>5 DEF Replaces
    <3>2. Precedes(g[k], p, q) <=> \E i, j \in 1 .. k : i < j /\ more[i] = p /\ more[j] = q
      BY <2>1
    <3>3. p \in ToSet(g[k]) <=> \E i \in 1 .. k : p = more[i]
      BY <2>1
    <3>4. ASSUME Precedes(g[k + 1], p, q)
          PROVE  \E i, j \in 1 .. k + 1 : i < j /\ more[i] = p /\ more[j] = q
      BY <2>2, <3>1, <3>2, <3>3, <3>4
    <3>5. ASSUME NEW i \in 1 .. k + 1, NEW j \in 1 .. k + 1, i < j, more[i] = p, more[j] = q
          PROVE  Precedes(g[k + 1], p, q)
      <4>1. i \in 1 .. k
        BY <3>5
      <4>2. CASE j = k + 1
        BY <2>3, <3>1, <3>3, <3>5, <4>1, <4>2
      <4>3. CASE j # k + 1
        <5>1. j \in 1 .. k
          BY <4>3
        <5> QED BY <2>3, <3>1, <3>2, <3>5, <4>1, <5>1
      <4> QED BY <4>2, <4>3
    <3> QED BY <3>4, <3>5
  <2> QED BY <2>5, <2>6, <2>7
<1> HIDE DEF Good
<1>4. l \in I
  <2> HIDE DEF I
  <2> QED BY <1>2, <1>3, SetInduction
<1>5. Good(l)
  BY <1>4
<1>6. ToSet(more) = {more[j] : j \in 1 .. l}
  <2>1. DOMAIN more = 1 .. l
    OBVIOUS
  <2> QED BY <2>1 DEF ToSet
<1>7. PICK r : r = addPlugins(<<>>, more)
  OBVIOUS
<1>8. ToSet(r) = ToSet(more)
  BY <1>1, <1>5, <1>6, <1>7 DEF Good
<1>9. \A p, q : Precedes(r, p, q) <=> \E i, j \in 1 .. l : i < j /\ more[i] = p /\ more[j] = q
  BY <1>1, <1>5, <1>7 DEF Good
<1>10. \A p, q : Precedes(more, p, q) <=> \E i, j \in 1 .. l : i < j /\ more[i] = p /\ more[j] = q
  BY DEF Precedes
<1>11. Agree(r, more, Known)
  BY <1>8, <1>9, <1>10 DEF Agree
<1> QED BY <1>7, <1>11
\* What a worker loads, and the plugins none of those given to the program replaces.
WorkerList == addPlugins(BuiltinOrder, EntryPoints(cmd.entries))
Shared == {p \in Known : Name(p) \notin NamesOf(cmd.extra)}

LEMMA BuiltinsUnique == Unique(BuiltinOrder)
<1>1. Len(BuiltinOrder) = 16
  BY DEF BuiltinOrder
<1>2. ASSUME NEW i \in 1 .. 16, NEW j \in 1 .. 16, BuiltinOrder[i] = BuiltinOrder[j]
      PROVE  i = j
  BY <1>2 DEF BuiltinOrder
<1>3. \A i \in 1 .. 16 : Name(BuiltinOrder[i]) = BuiltinOrder[i]
  <2>1. DOMAIN BuiltinOrder = 1 .. 16
    BY BuiltinOrderTypes, <1>1
  <2>2. \A i \in 1 .. 16 : BuiltinOrder[i] \in ToSet(BuiltinOrder)
    BY <2>1 DEF ToSet
  <2> QED BY <2>2, BuiltinNames
<1> QED BY <1>1, <1>2, <1>3 DEF Unique

LEMMA WorkerListTypes ==
  ASSUME cmd \in Commands
  PROVE  /\ WorkerList \in Seq(Known) /\ Unique(WorkerList)
         /\ ToSet(WorkerList) \subseteq DOMAIN Builtins \cup ToSet(EntryPoints(cmd.entries))
<1>1. PICK b \in Seq(Known) : b = EntryPoints(cmd.entries)
  BY CommandTypes
<1>2. Supplants(WorkerList, BuiltinOrder, b)
  BY <1>1, BuiltinOrderTypes, AddPluginsSupplants DEF WorkerList
<1>3. DOMAIN Builtins = ToSet(BuiltinOrder)
  BY DEF Builtins
<1> QED BY <1>1, <1>2, <1>3, BuiltinsUnique DEF Supplants

\* What the parent loads agrees with it.
LEMMA LoadedAgrees ==
  ASSUME Typing, Chosen, pc = "load", cmd.plugins = <<>>
  PROVE  Agree(Loaded, WorkerList, Shared)
<1>1. /\ cmd \in Commands /\ plugins \in Seq(Known) /\ extraplugins = cmd.extra
      /\ ToSet(plugins) \subseteq ToSet(cmd.extra)
  BY DEF Typing, Chosen
<1>2. PICK b \in Seq(Known) : b = EntryPoints(cmd.entries)
  BY <1>1, CommandTypes
<1>3. PICK x \in Seq(Known) : x = cmd.extra
  BY <1>1, CommandTypes
<1>4. Agree(plugins, <<>>, Shared)
  <2>1. \A p \in Shared : p \notin ToSet(plugins)
    BY <1>1 DEF Shared, NamesOf
  <2>2. \A p, q : Precedes(plugins, p, q) => p \in ToSet(plugins)
    BY <1>1 DEF Precedes, ToSet
  <2>3. ToSet(<<>>) = {} /\ \A p, q : ~Precedes(<<>>, p, q)
    BY UniqueNone DEF Precedes
  <2> QED BY <2>1, <2>2, <2>3 DEF Agree
<1>5. PICK s : s = addPlugins(plugins, BuiltinOrder)
  OBVIOUS
<1>6. s \in Seq(Known)
  BY <1>1, <1>5, BuiltinOrderTypes, AddPluginsTypes
<1>7. Agree(s, BuiltinOrder, Shared)
  <2>1. Agree(s, addPlugins(<<>>, BuiltinOrder), Shared)
    BY <1>1, <1>4, <1>5, BuiltinOrderTypes, UniqueNone, AddPluginsAgrees
  <2>2. Agree(addPlugins(<<>>, BuiltinOrder), BuiltinOrder, Known)
    BY BuiltinOrderTypes, BuiltinsUnique, AddPluginsToNone
  <2>3. Agree(addPlugins(<<>>, BuiltinOrder), BuiltinOrder, Shared)
    BY <2>2 DEF Agree, Shared
  <2> QED BY <2>1, <2>3, AgreeTransitive
<1>8. PICK t : t = addPlugins(s, b)
  OBVIOUS
<1>9. t \in Seq(Known) /\ Agree(t, WorkerList, Shared)
  BY <1>2, <1>6, <1>7, <1>8, BuiltinOrderTypes, AddPluginsTypes, AddPluginsAgrees DEF WorkerList
<1>10. Agree(addPlugins(t, x), t, Shared)
  <2>1. \A q \in Shared : Name(q) \notin NamesOf(x)
    BY <1>3 DEF Shared
  <2> QED BY <1>9, <2>1, AddPluginsElsewhere
<1>11. Loaded = addPlugins(t, x)
  BY <1>1, <1>2, <1>3, <1>5, <1>8 DEF Loaded
<1> QED BY <1>9, <1>10, <1>11, AgreeTransitive

\* p goes before q when the list is sorted.
Ranked(list, p, q) ==
  \/ Scored(p) > Scored(q)
  \/ Scored(p) = Scored(q) /\ Precedes(list, p, q)

LEMMA ConfiguredOrder ==
  ASSUME NEW list \in Seq(Known), Unique(list), NEW can, NEW worker,
         NEW r, r = Configured(list, can, worker)
  PROVE  /\ r \in Seq(Known) /\ Unique(r) /\ Distinct(r)
         /\ \A p : p \in ToSet(r) <=> p \in ToSet(list) /\ Enabled(p, SetOptions, p \in can, worker)
         /\ \A p, q \in ToSet(r) : Precedes(r, p, q) <=> Ranked(list, p, q)
<1> DEFINE T == {p \in Known : Enabled(p, SetOptions, p \in can, worker)}
<1>0. Distinct(list)
  BY DEF Unique, Distinct
<1>1. PICK k : k = Keep(list, T)
  OBVIOUS
<1>2. k \in Seq(Known) /\ KeepsOrder(k, list, T) /\ Unique(k)
  BY <1>1, KeepOrder, KeepUnique
<1>3. r = sort(k)
  BY <1>1 DEF Configured
<1>4. r \in Seq(Known) /\ SortedFrom(r, k)
  BY <1>2, <1>3, SortSorts
<1>5. Distinct(k) /\ ToSet(r) = ToSet(k) /\ Distinct(r)
  BY <1>0, <1>2, <1>4 DEF SortedFrom, KeepsOrder
<1>6. Unique(r)
  <2>1. \A q, s \in ToSet(k) : Name(q) = Name(s) => q = s
    BY <1>2 DEF Unique, ToSet
  <2>2. \A i \in 1 .. Len(r) : r[i] \in ToSet(k)
    <3>1. \A i \in 1 .. Len(r) : r[i] \in ToSet(r)
      BY <1>4 DEF ToSet
    <3> QED BY <1>5, <3>1
  <2> QED BY <1>5, <2>1, <2>2 DEF Unique, Distinct
<1>7. ASSUME NEW p, NEW q, p \in ToSet(r), q \in ToSet(r)
      PROVE  Precedes(r, p, q) <=> Ranked(list, p, q)
  <2>1. p \in ToSet(k) /\ q \in ToSet(k) /\ p \in T /\ q \in T
    BY <1>2, <1>5, <1>7 DEF KeepsOrder
  <2>2. Precedes(r, p, q) <=> \/ Scored(p) > Scored(q)
                              \/ Scored(p) = Scored(q) /\ Precedes(k, p, q)
    BY <1>4, <1>5, <2>1 DEF SortedFrom
  <2>3. Precedes(k, p, q) <=> Precedes(list, p, q)
    BY <1>2, <2>1 DEF KeepsOrder
  <2> QED BY <2>2, <2>3 DEF Ranked
<1>8. ToSet(r) = ToSet(list) \cap T /\ ToSet(list) \subseteq Known
  <2>1. ToSet(k) = ToSet(list) \cap T
    BY <1>2 DEF KeepsOrder
  <2>2. ToSet(list) \subseteq Known
    BY DEF ToSet
  <2> QED BY <1>5, <2>1, <2>2
<1>9. \A p : p \in ToSet(r) <=> p \in ToSet(list) /\ Enabled(p, SetOptions, p \in can, worker)
  BY <1>8
<1> HIDE DEF T
<1> QED BY <1>4, <1>5, <1>6, <1>7, <1>9
\* With its options registered, does p get enabled?
Wanted(p, worker) == Enabled(p, SetOptions, TRUE, worker)

LEMMA EnabledWanted ==
  ASSUME NEW p, NEW can, p \in can, NEW worker
  PROVE  Enabled(p, SetOptions, p \in can, worker) <=> Wanted(p, worker)
BY DEF Wanted, Enabled, Plugin_configure, Capture_configure, LogCapture_configure,
       Deprecated_configure, FailureDetail_configure, Skip_configure, TestId_configure,
       CollectOnly_configure

\* Only the multiprocess plugin looks whether it is in a worker.
LEMMA WantedAnywhere ==
  ASSUME NEW p, p # "multiprocess"
  PROVE  Wanted(p, TRUE) <=> Wanted(p, FALSE)
BY DEF Wanted, Enabled

LEMMA WorkerListRegistered ==
  ASSUME OptionsApart, cmd \in Commands, NEW p \in ToSet(WorkerList)
  PROVE  p \in Registered(WorkerList, {}).can
<1>1. PICK list \in Seq(Known) : list = WorkerList /\ Unique(list)
  BY WorkerListTypes
<1>2. ToSet(list) \subseteq DOMAIN Builtins \cup ToSet(EntryPoints(cmd.entries))
  BY <1>1, WorkerListTypes
<1>3. ASSUME NEW q \in ToSet(list), q # p PROVE OptionNames(p) \cap OptionNames(q) = {}
  <2>1. Name(p) # Name(q)
    BY <1>1, <1>3 DEF Unique, ToSet
  <2>2. cmd.entries \in {c.entries : c \in Commands}
    OBVIOUS
  <2> QED BY <1>1, <1>2, <2>1, <2>2 DEF OptionsApart, Name
<1>4. Alone(p, list, {})
  BY <1>3 DEF Alone
<1>5. Distinct(list)
  BY <1>1 DEF Unique, Distinct
<1> QED BY <1>1, <1>4, <1>5, RegisteredCan

\* Of plugins that no object given to workers replaces, a worker has those of its
\* list that the options enable.
LEMMA WorkerPluginsOrder ==
  ASSUME OptionsApart, cmd \in Commands, cmd.plugins = <<>>,
         NEW N \in SUBSET Known, \A p \in N : Name(p) \notin NamesOf(cmd.instantiate),
         NEW r, r = WorkerPlugins
  PROVE  /\ r \in Seq(Known) /\ Distinct(r)
         /\ \A p \in N : p \in ToSet(r) <=> p \in ToSet(WorkerList) /\ Wanted(p, TRUE)
         /\ \A p, q \in N \cap ToSet(r) : Precedes(r, p, q) <=> Ranked(WorkerList, p, q)
<1>1. PICK list \in Seq(Known) : list = WorkerList /\ Unique(list)
  BY WorkerListTypes
<1>2. PICK more \in Seq(Known) : more = cmd.instantiate
  BY CommandTypes
<1>3. PICK can : can = Registered(list, {}).can
  OBVIOUS
<1>4. PICK all : all = can \cup Registered(more, {}).can
  OBVIOUS
<1>5. PICK some : some = Configured(list, can, TRUE)
  OBVIOUS
<1>6. PICK both : both = addPlugins(some, more)
  OBVIOUS
<1>7. r = Configured(both, all, TRUE)
  BY <1>1, <1>2, <1>3, <1>4, <1>5, <1>6 DEF WorkerPlugins, WorkerList
<1>8. /\ some \in Seq(Known) /\ Unique(some)
      /\ \A p : p \in ToSet(some) <=> p \in ToSet(list) /\ Enabled(p, SetOptions, p \in can, TRUE)
      /\ \A p, q \in ToSet(some) : Precedes(some, p, q) <=> Ranked(list, p, q)
  BY <1>1, <1>5, ConfiguredOrder
<1>9. both \in Seq(Known) /\ Unique(both)
  BY <1>2, <1>6, <1>8, AddPluginsSupplants DEF Supplants
<1>10. Agree(both, some, N)
  BY <1>2, <1>6, <1>8, AddPluginsElsewhere
<1>11. /\ r \in Seq(Known) /\ Distinct(r)
       /\ \A p : p \in ToSet(r) <=> p \in ToSet(both) /\ Enabled(p, SetOptions, p \in all, TRUE)
       /\ \A p, q \in ToSet(r) : Precedes(r, p, q) <=> Ranked(both, p, q)
  BY <1>7, <1>9, ConfiguredOrder
<1>12. ASSUME NEW p \in N
       PROVE  /\ p \in ToSet(r) <=> p \in ToSet(list) /\ Wanted(p, TRUE)
              /\ p \in ToSet(r) => p \in ToSet(some)
  <2>1. p \in ToSet(both) <=> p \in ToSet(some)
    BY <1>10 DEF Agree
  <2>2. CASE p \in ToSet(list)
    <3>1. p \in can /\ p \in all
      BY <1>1, <1>3, <1>4, <2>2, WorkerListRegistered
    <3>2. Enabled(p, SetOptions, p \in can, TRUE) <=> Wanted(p, TRUE)
      BY <3>1, EnabledWanted
    <3>3. Enabled(p, SetOptions, p \in all, TRUE) <=> Wanted(p, TRUE)
      BY <3>1, EnabledWanted
    <3>4. p \in ToSet(some) <=> Enabled(p, SetOptions, p \in can, TRUE)
      BY <1>8, <2>2
    <3>5. p \in ToSet(r) <=> p \in ToSet(both) /\ Enabled(p, SetOptions, p \in all, TRUE)
      BY <1>11
    <3> QED BY <2>1, <2>2, <3>2, <3>3, <3>4, <3>5
  <2>3. CASE p \notin ToSet(list)
    BY <1>8, <1>11, <2>1, <2>3
  <2> QED BY <2>2, <2>3
<1>13. ASSUME NEW p \in N, NEW q \in N, p \in ToSet(r), q \in ToSet(r)
       PROVE  Precedes(r, p, q) <=> Ranked(list, p, q)
  <2>1. Precedes(r, p, q) <=> Ranked(both, p, q)
    BY <1>11, <1>13
  <2>2. Precedes(both, p, q) <=> Precedes(some, p, q)
    BY <1>10 DEF Agree
  <2>3. Precedes(some, p, q) <=> Ranked(list, p, q)
    BY <1>8, <1>12, <1>13
  <2>4. Scored(p) \in Int /\ Scored(q) \in Int
    BY ScoresAreInts
  <2> QED BY <2>1, <2>2, <2>3, <2>4 DEF Ranked
<1>14. \A p \in N : p \in ToSet(r) <=> p \in ToSet(list) /\ Wanted(p, TRUE)
  BY <1>12
<1>15. \A p, q \in N \cap ToSet(r) : Precedes(r, p, q) <=> Ranked(list, p, q)
  BY <1>13
<1> QED BY <1>1, <1>11, <1>14, <1>15

\* Once configured, list has of the plugins that are shared those of a worker that
\* the options enable, in the order in which it would sort them.
Mirrors(list) ==
  /\ \A p \in Shared :
       p \in ToSet(list) <=>
         p \in ToSet(WorkerList) /\ Enabled(p, SetOptions, p \in canConfigure, FALSE)
  /\ \A p, q \in Shared \cap ToSet(list) : Precedes(list, p, q) <=> Ranked(WorkerList, p, q)

\* Parent and worker are to have the same plugins.
Paired ==
  /\ cmd.way = "collector" => pc # "runner" /\ (pc = "loader" => IsSet("showPlugins"))
  /\ cmd.way # "collector" /\ cmd.plugins = <<>> =>
       /\ pc \in {"parse", "reparse", "settle", "configure"} => Agree(plugins, WorkerList, Shared)
       /\ pc \in {"begin", "runner"} => Mirrors(plugins)
       /\ pc = "loader" => IsSet("showPlugins") \/ Mirrors(plugins)

\* What is in the lists of both.
LEMMA MirrorsAgree ==
  ASSUME OptionsApart, Typing, Ready, cmd.plugins = <<>>, Mirrors(plugins),
         NEW r, r = WorkerPlugins,
         NEW N, N = {p \in canConfigure \ {"multiprocess"} :
                       Record(p).name \notin {Record(p2).name : p2 \in ToSet(cmd.extra)
                                                                       \cup ToSet(cmd.instantiate)}}
  PROVE  Keep(r, N) = Keep(plugins, N)
<1>1. /\ cmd \in Commands /\ plugins \in Seq(Known) /\ canConfigure \subseteq Known
  BY DEF Typing
<1>2. N \in SUBSET Shared /\ Shared \in SUBSET Known /\ N \subseteq canConfigure
      /\ "multiprocess" \notin N /\ \A p \in N : Name(p) \notin NamesOf(cmd.instantiate)
  BY <1>1 DEF Shared, NamesOf, Name
<1>3. /\ r \in Seq(Known) /\ Distinct(r)
      /\ \A p \in N : p \in ToSet(r) <=> p \in ToSet(WorkerList) /\ Wanted(p, TRUE)
      /\ \A p, q \in N \cap ToSet(r) : Precedes(r, p, q) <=> Ranked(WorkerList, p, q)
  BY <1>1, <1>2, WorkerPluginsOrder
<1>4. Distinct(plugins)
  <2>1. \A i, j \in 1 .. Len(plugins) : i < j => plugins[i] # plugins[j]
    BY DEF Ready, Arranged
  <2> QED BY <1>1, <2>1 DEF Distinct
<1>5. ASSUME NEW p \in N PROVE p \in ToSet(r) <=> p \in ToSet(plugins)
  <2>1. p \in ToSet(plugins) <=>
          p \in ToSet(WorkerList) /\ Enabled(p, SetOptions, p \in canConfigure, FALSE)
    BY <1>2 DEF Mirrors
  <2>2. Enabled(p, SetOptions, p \in canConfigure, FALSE) <=> Wanted(p, FALSE)
    BY <1>2, EnabledWanted
  <2>3. Wanted(p, TRUE) <=> Wanted(p, FALSE)
    BY <1>2, WantedAnywhere
  <2> QED BY <1>3, <2>1, <2>2, <2>3
<1>6. PICK s : s = Keep(r, N)
  OBVIOUS
<1>7. PICK t : t = Keep(plugins, N)
  OBVIOUS
<1>8. s \in Seq(Known) /\ KeepsOrder(s, r, N) /\ t \in Seq(Known) /\ KeepsOrder(t, plugins, N)
  BY <1>1, <1>3, <1>6, <1>7, KeepOrder
<1>9. ToSet(s) = ToSet(t)
  BY <1>5, <1>8 DEF KeepsOrder
<1>10. ASSUME NEW p, NEW q, Precedes(s, p, q) PROVE Precedes(t, p, q)
  <2>1. p \in N /\ q \in N /\ Precedes(r, p, q)
    BY <1>8, <1>10 DEF KeepsOrder
  <2>2. p \in ToSet(r) /\ q \in ToSet(r)
    BY <1>3, <2>1 DEF Precedes, ToSet
  <2>3. Ranked(WorkerList, p, q)
    BY <1>3, <2>1, <2>2
  <2>4. p \in Shared \cap ToSet(plugins) /\ q \in Shared \cap ToSet(plugins)
    BY <1>2, <1>5, <2>1, <2>2
  <2>5. Precedes(plugins, p, q)
    BY <2>3, <2>4 DEF Mirrors
  <2> QED BY <1>8, <2>1, <2>5 DEF KeepsOrder
<1>11. SameOrder(s, t)
  BY <1>3, <1>4, <1>8, <1>9, <1>10 DEF KeepsOrder, SameOrder
<1> QED BY <1>6, <1>7, <1>8, <1>11, OrderDetermines
LEMMA PairedStep ==
  ASSUME Typing, Chosen, Paired, [Next]_vars
  PROVE  Paired'
<1> USE DEF manager, options, logging, resources
<1>1. CASE MakeConfig
  BY <1>1 DEF MakeConfig, Paired
<1>2. CASE LoadPlugins
  <2>1. pc = "load" /\ pc' = "parse" /\ cmd' = cmd
    BY <1>2 DEF LoadPlugins
  <2>2. ASSUME cmd.way # "collector", cmd.plugins = <<>>
        PROVE  Agree(plugins', WorkerList, Shared)
    <3>1. PICK list \in Seq(Known) : list = Loaded /\ Agree(list, WorkerList, Shared)
      BY <2>1, <2>2, LoadedAgrees, LoadedTypes DEF Typing
    <3>2. PICK r : r = Keep(list, Allowed)
      OBVIOUS
    <3>3. plugins' = r
      BY <1>2, <3>1, <3>2 DEF LoadPlugins
    <3>4. Allowed = Known
      BY <2>2 DEF Allowed
    <3>5. KeepsOrder(r, list, Known)
      BY <3>2, <3>4, KeepOrder
    <3>6. ToSet(list) \subseteq Known
      BY DEF ToSet
    <3>7. Agree(r, list, Shared)
      BY <3>5, <3>6 DEF KeepsOrder, Agree, Shared
    <3> QED BY <3>1, <3>3, <3>7, AgreeTransitive
  <2>3. WorkerList' = WorkerList /\ Shared' = Shared
    BY <2>1 DEF WorkerList, Shared
  <2> QED BY <2>1, <2>2, <2>3 DEF Paired
<1>3. CASE Parse
  <2>1. Goes("reparse") /\ pc = "parse" /\ UNCHANGED <<cmd, plugins>>
    BY <1>3, ParseFilesGoes DEF Parse
  <2> QED BY <2>1 DEF Goes, Paired, WorkerList, Shared
<1>4. CASE Reparse
  <2>1. Goes("settle") /\ pc = "reparse" /\ UNCHANGED <<cmd, plugins>>
    BY <1>4, ParseFilesGoes DEF Reparse, Goes
  <2> QED BY <2>1 DEF Goes, Paired, WorkerList, Shared
<1>5. CASE Settle
  <2>1. pc = "settle" /\ pc' \in {"loader", "configure", "run"} /\ UNCHANGED <<cmd, plugins>>
    BY <1>5 DEF Settle
  <2>2. ASSUME pc' = "loader" PROVE IsSet("showPlugins")'
    <3>1. IsSet("showPlugins")
      BY <1>5, <2>2 DEF Settle
    <3>2. cmd' = cmd /\ (value # <<>> => value' # <<>>)
      BY <1>5 DEF Settle, Late
    <3> QED BY <3>1, <3>2 DEF IsSet, SetOptions
  <2> QED BY <2>1, <2>2 DEF Paired, WorkerList, Shared
<1>6. CASE Configure
  <2>1. /\ pc = "configure" /\ pc' \in {"begin", "exited"}
        /\ UNCHANGED <<cmd, value, canConfigure>>
        /\ pc' = "begin" => plugins' = Configured(plugins, canConfigure, FALSE)
    BY <1>6 DEF Configure, Exit
  <2>2. ASSUME pc' = "begin", cmd.way # "collector", cmd.plugins = <<>>
        PROVE  Mirrors(plugins')
    <3>1. plugins \in Seq(Known) /\ Unique(plugins) /\ Agree(plugins, WorkerList, Shared)
      BY <2>1, <2>2 DEF Typing, Chosen, Paired
    <3>2. PICK r : r = Configured(plugins, canConfigure, FALSE)
      OBVIOUS
    <3>3. /\ r \in Seq(Known)
          /\ \A p : p \in ToSet(r) <=>
               p \in ToSet(plugins) /\ Enabled(p, SetOptions, p \in canConfigure, FALSE)
          /\ \A p, q \in ToSet(r) : Precedes(r, p, q) <=> Ranked(plugins, p, q)
      BY <3>1, <3>2, ConfiguredOrder
    <3>4. ASSUME NEW p \in Shared
          PROVE  p \in ToSet(r) <=>
                   p \in ToSet(WorkerList) /\ Enabled(p, SetOptions, p \in canConfigure, FALSE)
      <4>1. p \in ToSet(plugins) <=> p \in ToSet(WorkerList)
        BY <3>1 DEF Agree
      <4> QED BY <3>3, <4>1
    <3>5. ASSUME NEW p \in Shared, NEW q \in Shared, p \in ToSet(r), q \in ToSet(r)
          PROVE  Precedes(r, p, q) <=> Ranked(WorkerList, p, q)
      <4>1. Precedes(plugins, p, q) <=> Precedes(WorkerList, p, q)
        BY <3>1 DEF Agree
      <4>2. Precedes(r, p, q) <=> Ranked(plugins, p, q)
        BY <3>3, <3>5
      <4> QED BY <4>1, <4>2 DEF Ranked
    <3>6. \A p, q \in Shared \cap ToSet(r) : Precedes(r, p, q) <=> Ranked(WorkerList, p, q)
      BY <3>5
    <3>7. Mirrors(r)
      BY <3>4, <3>6 DEF Mirrors
    <3> QED BY <2>1, <2>2, <3>2, <3>7
  <2>3. WorkerList' = WorkerList /\ Shared' = Shared /\ SetOptions' = SetOptions
    BY <2>1 DEF WorkerList, Shared, SetOptions
  <2>4. (Mirrors(plugins))' <=> Mirrors(plugins')
    BY <2>1, <2>3 DEF Mirrors
  <2> QED BY <2>1, <2>2, <2>4 DEF Paired
<1>7. CASE Begin
  <2>1. /\ pc = "begin" /\ pc' = IF cmd.way = "collector" THEN "run" ELSE "loader"
        /\ UNCHANGED <<cmd, value, plugins, canConfigure>>
    BY <1>7 DEF Begin
  <2>2. Mirrors(plugins) => (Mirrors(plugins))'
    BY <2>1 DEF Mirrors, WorkerList, Shared, SetOptions
  <2> QED BY <2>1, <2>2 DEF Paired
<1>8. CASE PrepareTestLoader
  <2>1. /\ pc = "loader" /\ UNCHANGED <<cmd, value, plugins, canConfigure>>
        /\ pc' = "exited" \/ (pc' = "runner" /\ ~IsSet("showPlugins"))
    BY <1>8 DEF PrepareTestLoader, Exit
  <2>2. Mirrors(plugins) => (Mirrors(plugins))'
    BY <2>1 DEF Mirrors, WorkerList, Shared, SetOptions
  <2> QED BY <2>1, <2>2 DEF Paired
<1>9. CASE PrepareTestRunner \/ PrepareTest \/ SetOutputStream \/ BeforeTest \/ BeforeTestUnbegun
             \/ TestChangesLoggers \/ RunTests \/ Finalize
  <2>1. /\ UNCHANGED cmd
        /\ pc' \in {"prepare", "stream", "run", "test", "report", "finalize", "exited"}
    BY <1>9 DEF PrepareTestRunner, PrepareTest, SetOutputStream, BeforeTest,
                BeforeTestUnbegun, TestChangesLoggers, RunTests, Finalize, Exit
  <2> QED BY <2>1 DEF Paired
<1>10. CASE Report
  <2>1. pc' \in {"finalize", "exited"} /\ cmd' = cmd
    BY <1>10 DEF Report, Exit
  <2> QED BY <2>1 DEF Paired
<1>11. CASE UNCHANGED vars
  BY <1>11 DEF vars, Paired, Mirrors, WorkerList, Shared, IsSet, SetOptions
<1> QED BY <1>1, <1>2, <1>3, <1>4, <1>5, <1>6, <1>7, <1>8, <1>9, <1>10, <1>11 DEF Next

\* The multiprocess plugin was called if its call is there.
LEMMA RunnerCalled ==
  ASSUME Typing, Ordered, PrepareTestRunner,
         Contains(calls', <<"prepareTestRunner", "multiprocess">>)
  PROVE  Contains(Called("prepareTestRunner"), "multiprocess")
<1> DEFINE hook == "prepareTestRunner"
<1>1. PICK P \in Seq(Known) : P = Proxy(hook)
  BY ProxyTypes DEF Typing
<1>2. PICK r \in Seq(Known) : r = Called(hook)
  BY <1>1, CalledBegins DEF Begins
<1>3. hook \in Calling /\ calls \in Seq(Calling \X Known)
  BY DEF Calling, Typing, CallsTyped
<1>4. calls' = Made(hook, r)
  BY <1>2 DEF PrepareTestRunner, Call, Made
<1>5. GoesOn(calls', calls, hook, r)
  BY <1>2, <1>3, <1>4, CallGoesOn
<1> PICK m \in Nat, n \in Nat : m = Len(calls) /\ n = Len(r)
  BY <1>3
<1>6. PICK t \in Seq(Calling \X Known) : t = calls' /\ Len(t) = m + n
  BY <1>5 DEF GoesOn
<1>7. PICK i \in 1 .. m + n : t[i] = <<hook, "multiprocess">>
  BY <1>6 DEF Contains
<1>8. CASE i \in 1 .. m
  <2>1. calls[i] = <<hook, "multiprocess">>
    BY <1>5, <1>6, <1>7, <1>8 DEF GoesOn
  <2>2. hook \in DOMAIN proxies
    BY <1>8, <2>1 DEF Typing, CallsTyped
  <2>3. Place(hook) <= Stage(pc) /\ pc = "runner"
    BY <2>2 DEF Ordered, PrepareTestRunner
  <2> QED BY <2>3 DEF Place, Stage
<1>9. CASE i \notin 1 .. m
  <2>1. PICK j \in 1 .. n : i = m + j
    <3>1. i - m \in 1 .. n /\ i = m + (i - m)
      BY <1>9
    <3> QED BY <3>1
  <2>2. t[m + j] = <<hook, r[j]>>
    BY <1>5, <1>6 DEF GoesOn
  <2>3. r[j] = "multiprocess"
    BY <1>7, <2>1, <2>2
  <2> QED BY <1>2, <2>3 DEF Contains
<1> QED BY <1>8, <1>9

LEMMA WorkerAgreesStep ==
  ASSUME OptionsApart, Typing, Ordered, Paired, WorkerAgrees, [Next]_vars
  PROVE  WorkerAgrees'
<1> USE DEF manager, options, logging, resources
<1>1. CASE PrepareTestRunner
  <2>1. SUFFICES ASSUME Contains(calls', <<"prepareTestRunner", "multiprocess">>),
                        cmd'.plugins = <<>>,
                        NEW N, N = {p \in canConfigure' \ {"multiprocess"} :
                          Record(p).name \notin {Record(p2).name : p2 \in ToSet(cmd'.extra)
                                                                   \cup ToSet(cmd'.instantiate)}}
                 PROVE  Keep(workers', N) = Keep(plugins', N)
    BY DEF WorkerAgrees
  <2>2. pc = "runner" /\ UNCHANGED <<cmd, plugins, canConfigure>>
    BY <1>1 DEF PrepareTestRunner
  <2>3. Contains(Called("prepareTestRunner"), "multiprocess")
    BY <1>1, <2>1, RunnerCalled
  <2>4. workers' = WorkerPlugins
    BY <1>1, <2>3 DEF PrepareTestRunner
  <2>5. Ready /\ Mirrors(plugins)
    BY <2>1, <2>2 DEF Ordered, Paired
  <2>6. N = {p \in canConfigure \ {"multiprocess"} :
               Record(p).name \notin {Record(p2).name : p2 \in ToSet(cmd.extra)
                                                               \cup ToSet(cmd.instantiate)}}
    BY <2>1, <2>2
  <2>7. PICK r : r = WorkerPlugins
    OBVIOUS
  <2>8. Keep(r, N) = Keep(plugins, N)
    BY <2>1, <2>2, <2>5, <2>6, <2>7, MirrorsAgree
  <2> QED BY <2>2, <2>4, <2>7, <2>8
<1>2. CASE MakeConfig \/ LoadPlugins \/ Settle \/ Configure \/ Begin \/ PrepareTestLoader
             \/ PrepareTest \/ SetOutputStream \/ BeforeTest \/ BeforeTestUnbegun
             \/ TestChangesLoggers \/ RunTests \/ Finalize
  BY <1>2 DEF MakeConfig, LoadPlugins, Settle, Configure, Begin, PrepareTestLoader, PrepareTest,
              SetOutputStream, BeforeTest, BeforeTestUnbegun, TestChangesLoggers, RunTests,
              Finalize, Exit, WorkerAgrees
<1>3. CASE Parse
  <2>1. Goes("reparse")
    BY <1>3, ParseFilesGoes DEF Parse
  <2> QED BY <2>1 DEF Goes, WorkerAgrees
<1>4. CASE Reparse
  <2>1. Goes("settle")
    BY <1>4, ParseFilesGoes DEF Reparse, Goes
  <2> QED BY <2>1 DEF Goes, WorkerAgrees
<1>5. CASE Report
  BY <1>5 DEF Report, Exit, WorkerAgrees
<1>6. CASE UNCHANGED vars
  BY <1>6 DEF vars, WorkerAgrees
<1> QED BY <1>1, <1>2, <1>3, <1>4, <1>5, <1>6 DEF Next

\* Unless two plugins that a worker loads have an option in common, a worker has the
\* plugins of its parent in their order, but for the multiprocess plugin, those given
\* as objects and those in conflict (multiprocess.py:661).
THEOREM ProgramWorkerAgrees == OptionsApart => (Spec => []WorkerAgrees)
<1>1. Init => Paired /\ WorkerAgrees
  BY DEF Init, Paired, WorkerAgrees
<1>2. ASSUME OptionsApart PROVE Spec => []WorkerAgrees
  <2>1. Typing /\ Chosen /\ Ordered /\ Paired /\ WorkerAgrees /\ [Next]_vars =>
          Paired' /\ WorkerAgrees'
    BY <1>2, PairedStep, WorkerAgreesStep
  <2> QED BY <1>1, <2>1, ProgramOrdered, PTL DEF Spec
<1> QED BY <1>2
-----------------------------------------------------------------------------
(* The places of an option.                                                *)

AllPlaces == {"env", "noserc", "nosecfg", "setup", "cfile", "egg", "argv", "again"}

\* How much a place counts.
Level(c, p) ==
  IF c.way = "command"
  THEN CASE p = "noserc" -> 1 [] p = "nosecfg" -> 2 [] p = "cfile" -> 3 [] p = "egg" -> 4
         [] p = "setup" -> 5 [] p = "argv" -> 6 [] p = "again" -> 7 [] OTHER -> 0
  ELSE CASE p = "env" -> 1 [] p = "noserc" -> 2 [] p = "nosecfg" -> 3 [] p = "setup" -> 4
         [] p = "cfile" -> 5 [] p = "argv" -> 6 [] p = "again" -> 7 [] OTHER -> 0

LEMMA LevelRange == \A c, p : Level(c, p) \in 0 .. 7
BY DEF Level

\* m takes a value from the places of S, all but some of lost, the one that counts
\* most last.
Takes(c, m, S, lost) ==
  /\ m \in Seq(AllPlaces)
  /\ ToSet(m) \subseteq S /\ S \ ToSet(m) \subseteq lost
  /\ S # {} => m # <<>> /\ \A p \in S : Level(c, p) <= Level(c, Last(m))

LEMMA TakesNothing ==
  ASSUME NEW c, NEW m, NEW lost, Takes(c, m, {}, lost)
  PROVE  m = <<>>
<1>1. m \in Seq(AllPlaces) /\ ToSet(m) = {}
  BY DEF Takes
<1>2. ASSUME NEW i \in 1 .. Len(m) PROVE FALSE
  <2>1. DOMAIN m = 1 .. Len(m)
    BY <1>1
  <2>2. m[i] \in ToSet(m)
    BY <2>1 DEF ToSet
  <2> QED BY <1>1, <2>2
<1> QED BY <1>1, <1>2

LEMMA LastElement ==
  ASSUME NEW S, NEW m \in Seq(S), m # <<>>
  PROVE  Last(m) \in ToSet(m) /\ Last(m) \in S
<1>1. Len(m) \in 1 .. Len(m)
  OBVIOUS
<1> QED BY <1>1 DEF Last, ToSet

LEMMA TakesNone == \A c : Takes(c, <<>>, {}, {})
BY UniqueNone DEF Takes

LEMMA TakesOne ==
  ASSUME NEW c, NEW p \in AllPlaces
  PROVE  Takes(c, <<p>>, {p}, {})
<1> PICK m : m = <<p>>
  OBVIOUS
<1>1. m \in Seq(AllPlaces) /\ Len(m) = 1 /\ m[1] = p /\ m # <<>>
  OBVIOUS
<1>2. ToSet(m) = {p}
  <2>1. DOMAIN m = 1 .. 1
    BY <1>1
  <2> QED BY <1>1, <2>1 DEF ToSet
<1>3. Level(c, p) <= Level(c, Last(m))
  BY <1>1, LevelRange DEF Last
<1> QED BY <1>1, <1>2, <1>3 DEF Takes

LEMMA TakesGiven ==
  ASSUME NEW c, NEW p \in AllPlaces
  PROVE  Takes(c, Given(c, p), {p} \cap c.sets, {})
<1>1. CASE p \in c.sets
  <2>1. Given(c, p) = <<p>> /\ {p} \cap c.sets = {p}
    BY <1>1 DEF Given
  <2> QED BY <2>1, TakesOne
<1>2. CASE p \notin c.sets
  <2>1. Given(c, p) = <<>> /\ {p} \cap c.sets = {}
    BY <1>2 DEF Given
  <2> QED BY <2>1, TakesNone
<1> QED BY <1>1, <1>2

LEMMA TakesBoth ==
  ASSUME NEW c, NEW m, NEW S, NEW lost, Takes(c, m, S, lost),
         NEW n, NEW U, NEW gone, Takes(c, n, U, gone),
         \A p \in S, q \in U : Level(c, p) <= Level(c, q)
  PROVE  Takes(c, m \o n, S \cup U, lost \cup gone)
<1> PICK t : t = m \o n
  OBVIOUS
<1>1. m \in Seq(AllPlaces) /\ n \in Seq(AllPlaces)
  BY DEF Takes
<1>2. t \in Seq(AllPlaces) /\ ToSet(t) = ToSet(m) \cup ToSet(n)
  BY <1>1, ConcatElements
<1>3. ToSet(t) \subseteq S \cup U /\ (S \cup U) \ ToSet(t) \subseteq lost \cup gone
  BY <1>2 DEF Takes
<1>4. CASE U = {}
  <2>1. n = <<>>
    BY <1>4, TakesNothing
  <2>2. t = m
    BY <1>1, <2>1
  <2> QED BY <1>2, <1>3, <1>4, <2>2 DEF Takes
<1>5. CASE U # {}
  <2>1. n # <<>>
    BY <1>5 DEF Takes
  <2>2. Last(t) = Last(n) /\ t # <<>>
    <3>1. Len(t) = Len(m) + Len(n) /\ Len(n) >= 1 /\ t[Len(m) + Len(n)] = n[Len(n)]
      BY <1>1, <2>1
    <3> QED BY <3>1 DEF Last
  <2>3. Last(n) \in U
    BY <1>1, <2>1, LastElement DEF Takes
  <2>4. \A p \in S : Level(c, p) <= Level(c, Last(n))
    BY <2>3
  <2>5. \A p \in U : Level(c, p) <= Level(c, Last(n))
    BY <1>5 DEF Takes
  <2> QED BY <1>2, <1>3, <2>2, <2>4, <2>5 DEF Takes
<1> QED BY <1>4, <1>5

LEMMA TakesMore ==
  ASSUME NEW c, NEW m, NEW S, NEW lost, NEW more, Takes(c, m, S, lost), lost \subseteq more
  PROVE  Takes(c, m, S, more)
BY DEF Takes
-----------------------------------------------------------------------------
(* What one parse finds.                                                   *)

\* The files that count in the end, the places that they, the command line and
\* the environment can add to those that set the option.
Read(c) == IF "cfile" \in c.exists THEN Given(c, "cfile") ELSE getAllConfigFiles(c)

FilePlaces(c) ==
  c.sets \cap (IF c.opt.name \in option_blacklist THEN {}
                ELSE IF "cfile" \in c.exists THEN {"cfile"}
                ELSE IF c.way = "command" THEN {"noserc", "nosecfg"}
                ELSE IF c.ignore /\ c.way = "main" THEN {}
                ELSE {"noserc", "nosecfg", "setup"})

LinePlaces(c) ==
  CASE c.way = "main" -> IF c.argv = 0 THEN {} ELSE IF c.argv = 1 THEN {"argv"} ELSE {"argv", "again"}
    [] c.way = "collector" -> {}
    [] c.way = "command" ->
         (IF c.opt.name = "where" THEN {"egg"} ELSE {})
         \cup (CASE c.argv = 0 -> IF c.opt.name \in option_blacklist
                                   \/ (c.off /\ c.opt.action \in {"flag", "count"})
                                THEN {} ELSE {"setup"} \cap c.sets
                 [] c.argv = 1 -> {"argv"}
                 [] c.argv = 2 -> {"again"})

EnvPlaces(c) == IF c.way = "main" /\ c.opt.env # "never" THEN {"env"} \cap c.sets ELSE {}

LEMMA BothFilesTaken ==
  ASSUME NEW c
  PROVE  Takes(c, Given(c, "noserc") \o Given(c, "nosecfg"), c.sets \cap {"noserc", "nosecfg"}, {})
<1>1. \A p \in {"noserc"} \cap c.sets, q \in {"nosecfg"} \cap c.sets : Level(c, p) <= Level(c, q)
  BY DEF Level
<1>2. Takes(c, Given(c, "noserc"), {"noserc"} \cap c.sets, {}) /\ Takes(c, Given(c, "nosecfg"), {"nosecfg"} \cap c.sets, {})
  BY TakesGiven DEF AllPlaces
<1>3. Takes(c, Given(c, "noserc") \o Given(c, "nosecfg"), ({"noserc"} \cap c.sets) \cup ({"nosecfg"} \cap c.sets), {} \cup {})
  BY <1>1, <1>2, TakesBoth
<1>4. ({"noserc"} \cap c.sets) \cup ({"nosecfg"} \cap c.sets) = c.sets \cap {"noserc", "nosecfg"} /\ {} \cup {} = {}
  OBVIOUS
<1> QED BY <1>3, <1>4

LEMMA AllFilesTaken ==
  ASSUME NEW c, c.way # "command"
  PROVE  Takes(c, all_config_files(c), c.sets \cap {"noserc", "nosecfg", "setup"}, {"noserc"})
<1> PICK u : u = IF "setup" \in c.exists /\ "nosecfg" \in c.sets
                 THEN <<"nosecfg">> ELSE Given(c, "noserc") \o Given(c, "nosecfg")
  OBVIOUS
<1> PICK S : S = c.sets \cap {"noserc", "nosecfg"}
  OBVIOUS
<1>1. Takes(c, u, S, {"noserc"})
  <2>1. CASE "setup" \in c.exists /\ "nosecfg" \in c.sets
    <3>1. Takes(c, <<"nosecfg">>, {"nosecfg"}, {}) /\ u = <<"nosecfg">>
      BY <2>1, TakesOne DEF AllPlaces
    <3>2. Last(<<"nosecfg">>) = "nosecfg"
      BY DEF Last
    <3>3. ASSUME NEW p \in S PROVE Level(c, p) <= Level(c, "nosecfg")
      <4>1. p = "noserc" \/ p = "nosecfg"
        OBVIOUS
      <4>2. Level(c, "noserc") <= Level(c, "nosecfg") /\ Level(c, "nosecfg") <= Level(c, "nosecfg")
        BY DEF Level
      <4> QED BY <4>1, <4>2
    <3>4. S \ {"nosecfg"} \subseteq {"noserc"} /\ {"nosecfg"} \subseteq S
      BY <2>1
    <3>5. {"nosecfg"} \subseteq ToSet(u)
      BY <3>1 DEF Takes
    <3> QED BY <3>1, <3>2, <3>3, <3>4, <3>5 DEF Takes
  <2>2. CASE ~("setup" \in c.exists /\ "nosecfg" \in c.sets)
    <3>1. Takes(c, u, S, {})
      BY <2>2, BothFilesTaken
    <3> QED BY <3>1, TakesMore
  <2> QED BY <2>1, <2>2
<1>2. Takes(c, Given(c, "setup"), {"setup"} \cap c.sets, {})
  BY TakesGiven DEF AllPlaces
<1>3. \A p \in S, q \in {"setup"} \cap c.sets : Level(c, p) <= Level(c, q)
  BY DEF Level
<1>4. Takes(c, u \o Given(c, "setup"), S \cup ({"setup"} \cap c.sets), {"noserc"} \cup {})
  BY <1>1, <1>2, <1>3, TakesBoth
<1>5. S \cup ({"setup"} \cap c.sets) = c.sets \cap {"noserc", "nosecfg", "setup"} /\ {"noserc"} \cup {} = {"noserc"}
  OBVIOUS
<1>6. all_config_files(c) = u \o Given(c, "setup")
  BY DEF all_config_files
<1> QED BY <1>4, <1>5, <1>6

LEMMA ConfigFilesTaken ==
  ASSUME NEW c
  PROVE  Takes(c, getAllConfigFiles(c),
               c.sets \cap (IF c.way = "command" THEN {"noserc", "nosecfg"}
                            ELSE IF c.ignore /\ c.way = "main" THEN {}
                            ELSE {"noserc", "nosecfg", "setup"}), {"noserc"})
<1>1. CASE c.way = "command"
  <2>1. getAllConfigFiles(c) = Given(c, "noserc") \o Given(c, "nosecfg")
    BY <1>1 DEF getAllConfigFiles
  <2>2. Takes(c, getAllConfigFiles(c), c.sets \cap {"noserc", "nosecfg"}, {})
    BY <2>1, BothFilesTaken
  <2>3. Takes(c, getAllConfigFiles(c), c.sets \cap {"noserc", "nosecfg"}, {"noserc"})
    BY <2>2, TakesMore
  <2> QED BY <1>1, <2>3
<1>2. CASE c.way = "main" /\ c.ignore
  <2>1. getAllConfigFiles(c) = <<>> /\ c.sets \cap {} = {}
    BY <1>2 DEF getAllConfigFiles
  <2>2. Takes(c, <<>>, {}, {"noserc"})
    BY TakesNone, TakesMore
  <2> QED BY <1>2, <2>1, <2>2
<1>3. CASE c.way # "command" /\ ~(c.way = "main" /\ c.ignore)
  <2>1. getAllConfigFiles(c) = all_config_files(c)
    BY <1>3 DEF getAllConfigFiles
  <2> QED BY <1>3, <2>1, AllFilesTaken
<1> QED BY <1>1, <1>2, <1>3

LEMMA FilesTaken ==
  ASSUME NEW c \in Commands
  PROVE  Takes(c, IF c.opt.name \in option_blacklist THEN <<>> ELSE Read(c), FilePlaces(c), {"noserc"})
<1>1. CASE c.opt.name \in option_blacklist
  <2>1. FilePlaces(c) = {}
    BY <1>1 DEF FilePlaces
  <2> QED BY <1>1, <2>1, TakesNone, TakesMore
<1>2. CASE c.opt.name \notin option_blacklist /\ "cfile" \in c.exists
  <2>1. FilePlaces(c) = {"cfile"} \cap c.sets /\ Read(c) = Given(c, "cfile")
    BY <1>2 DEF FilePlaces, Read
  <2>2. Takes(c, Given(c, "cfile"), {"cfile"} \cap c.sets, {})
    BY TakesGiven DEF AllPlaces
  <2> QED BY <1>2, <2>1, <2>2, TakesMore
<1>3. CASE c.opt.name \notin option_blacklist /\ "cfile" \notin c.exists
  <2>1. FilePlaces(c) = c.sets \cap (IF c.way = "command" THEN {"noserc", "nosecfg"}
                                     ELSE IF c.ignore /\ c.way = "main" THEN {}
                                     ELSE {"noserc", "nosecfg", "setup"})
        /\ Read(c) = getAllConfigFiles(c)
    BY <1>3 DEF FilePlaces, Read
  <2> QED BY <1>3, <2>1, ConfigFilesTaken
<1> QED BY <1>1, <1>2, <1>3

LEMMA LineTaken ==
  ASSUME NEW c \in Commands
  PROVE  Takes(c, OnCommandLine(c), LinePlaces(c), {})
<1>0. c.argv \in 0 .. 2 /\ c.way \in {"main", "collector", "command"}
  BY CommandsAssumption, SettingsAssumption DEF Ways
<1>1. CASE c.way = "main"
  <2>1. CASE c.argv = 0
    <3>1. OnCommandLine(c) = <<>> /\ LinePlaces(c) = {}
      BY <1>1, <2>1 DEF OnCommandLine, LinePlaces
    <3> QED BY <3>1, TakesNone
  <2>2. CASE c.argv = 1
    <3>1. OnCommandLine(c) = SubSeq(<<"argv", "again">>, 1, 1)
      BY <1>1, <2>2 DEF OnCommandLine
    <3>2. SubSeq(<<"argv", "again">>, 1, 1) = <<"argv">>
      <4> PICK t : t = <<"argv", "again">>
        OBVIOUS
      <4> PICK s : s = SubSeq(t, 1, 1)
        OBVIOUS
      <4>1. t \in Seq(AllPlaces) /\ Len(t) = 2 /\ t[1] = "argv"
        BY DEF AllPlaces
      <4>2. s \in Seq(AllPlaces) /\ Len(s) = 1 /\ s[1] = "argv"
        BY <4>1
      <4> PICK r : r = <<"argv">>
        OBVIOUS
      <4>3. r \in Seq(AllPlaces) /\ Len(r) = 1 /\ r[1] = "argv"
        BY DEF AllPlaces
      <4>4. \A i \in 1 .. 1 : s[i] = r[i]
        BY <4>2, <4>3
      <4>5. s = r
        BY <4>2, <4>3, <4>4, SeqEqual
      <4> QED BY <4>5
    <3>3. LinePlaces(c) = {"argv"}
      BY <1>1, <2>2 DEF LinePlaces
    <3> QED BY <3>1, <3>2, <3>3, TakesOne DEF AllPlaces
  <2>3. CASE c.argv = 2
    <3>1. OnCommandLine(c) = <<"argv">> \o <<"again">> /\ LinePlaces(c) = {"argv"} \cup {"again"}
      BY <1>1, <2>3 DEF OnCommandLine, LinePlaces
    <3>2. Takes(c, <<"argv">>, {"argv"}, {}) /\ Takes(c, <<"again">>, {"again"}, {})
      BY TakesOne DEF AllPlaces
    <3>3. \A p \in {"argv"}, q \in {"again"} : Level(c, p) <= Level(c, q)
      BY DEF Level
    <3>4. Takes(c, <<"argv">> \o <<"again">>, {"argv"} \cup {"again"}, {} \cup {})
      BY <3>2, <3>3, TakesBoth
    <3>5. {} \cup {} = {}
      OBVIOUS
    <3> QED BY <3>1, <3>4, <3>5
  <2> QED BY <1>0, <2>1, <2>2, <2>3
<1>2. CASE c.way = "collector"
  <2>1. OnCommandLine(c) = <<>> /\ LinePlaces(c) = {}
    BY <1>2 DEF OnCommandLine, LinePlaces
  <2> QED BY <2>1, TakesNone
<1>3. CASE c.way = "command"
  <2> PICK e, S : e = (IF c.opt.name = "where" THEN <<"egg">> ELSE <<>>)
                  /\ S = (IF c.opt.name = "where" THEN {"egg"} ELSE {})
    OBVIOUS
  <2> PICK o, T : o = (IF flag_off(c) THEN <<>> ELSE Stored(c))
                  /\ T = (CASE c.argv = 0 -> IF c.opt.name \in option_blacklist
                                              \/ (c.off /\ c.opt.action \in {"flag", "count"})
                                           THEN {} ELSE {"setup"} \cap c.sets
                            [] c.argv = 1 -> {"argv"}
                            [] c.argv = 2 -> {"again"})
    OBVIOUS
  <2>1. OnCommandLine(c) = e \o o /\ LinePlaces(c) = S \cup T
    BY <1>3 DEF OnCommandLine, LinePlaces, cfgToArg
  <2>2. Takes(c, e, S, {})
    BY TakesNone, TakesOne DEF AllPlaces
  <2>3. Takes(c, o, T, {})
    <3>1. CASE c.argv = 0 /\ c.opt.name \in option_blacklist
      <4>1. Stored(c) = <<>>
        BY <3>1 DEF Stored, user_options
      <4>r. T = IF c.opt.name \in option_blacklist \/ (c.off /\ c.opt.action \in {"flag", "count"})
                THEN {} ELSE {"setup"} \cap c.sets
        BY <3>1
      <4>2. T = {}
        BY <3>1, <4>r
      <4>3. o = <<>>
        BY <4>1
      <4> QED BY <4>2, <4>3, TakesNone
    <3>2. CASE c.argv = 0 /\ c.opt.name \notin option_blacklist
      <4>1. Stored(c) = Given(c, "setup")
        BY <3>2 DEF Stored, user_options
      <4>2. CASE c.off /\ c.opt.action \in {"flag", "count"}
        <5>1. T = {}
          BY <3>2, <4>2
        <5>2. o = <<>>
          <6>1. CASE "setup" \in c.sets
            BY <4>1, <4>2, <6>1 DEF flag_off, Given
          <6>2. CASE "setup" \notin c.sets
            BY <4>1, <6>2 DEF Given
          <6> QED BY <6>1, <6>2
        <5> QED BY <5>1, <5>2, TakesNone
      <4>3. CASE ~(c.off /\ c.opt.action \in {"flag", "count"})
        <5>1. T = {"setup"} \cap c.sets
          BY <3>2, <4>3
        <5>2. o = Given(c, "setup")
          BY <4>1, <4>3 DEF flag_off
        <5> QED BY <5>1, <5>2, TakesGiven DEF AllPlaces
      <4> QED BY <4>2, <4>3
    <3>3. CASE c.argv \in {1, 2}
      <4>1. c.opt.name \notin option_blacklist
        BY <1>3, <3>3, SettingsAssumption
      <4>2. \E p \in {"argv", "again"} : Stored(c) = <<p>> /\ T = {p}
        BY <3>3, <4>1 DEF Stored, user_options
      <4>3. PICK p \in {"argv", "again"} : Stored(c) = <<p>> /\ T = {p}
        BY <4>2
      <4>4. <<p>> # <<"setup">>
        <5>1. <<p>>[1] = p /\ <<"setup">>[1] = "setup" /\ p # "setup"
          OBVIOUS
        <5> QED BY <5>1
      <4>5. o = <<p>>
        BY <4>3, <4>4 DEF flag_off
      <4> QED BY <4>3, <4>5, TakesOne DEF AllPlaces
    <3> QED BY <1>0, <3>1, <3>2, <3>3
  <2>4. \A p \in S, q \in T : Level(c, p) <= Level(c, q)
    <3>1. S \subseteq {"egg"} /\ T \subseteq {"setup", "argv", "again"}
      BY <1>0
    <3>2. \A q \in {"setup", "argv", "again"} : Level(c, "egg") <= Level(c, q)
      BY <1>3 DEF Level
    <3> QED BY <3>1, <3>2
  <2>5. Takes(c, e \o o, S \cup T, {} \cup {}) /\ {} \cup {} = {}
    BY <2>2, <2>3, <2>4, TakesBoth
  <2> QED BY <2>1, <2>5
<1> QED BY <1>0, <1>1, <1>2, <1>3

\* The places of a parse and of the environment, which counts less than all others.
FoundPlaces(c) == FilePlaces(c) \cup LinePlaces(c)

LEMMA FoundTaken ==
  ASSUME NEW c \in Commands
  PROVE  Takes(c, Processed(c, Read(c)), FoundPlaces(c), {"noserc"})
<1> PICK f : f = IF c.opt.name \in option_blacklist THEN <<>> ELSE Read(c)
  OBVIOUS
<1>1. Processed(c, Read(c)) = f \o OnCommandLine(c)
  BY DEF Processed
<1>2. Takes(c, f, FilePlaces(c), {"noserc"}) /\ Takes(c, OnCommandLine(c), LinePlaces(c), {})
  BY FilesTaken, LineTaken
<1>3. \A p \in FilePlaces(c), q \in LinePlaces(c) : Level(c, p) <= Level(c, q)
  <2>0. c.argv \in 0 .. 2 /\ c.way \in {"main", "collector", "command"}
    BY CommandsAssumption, SettingsAssumption DEF Ways
  <2>1. CASE c.way = "main"
    <3>1. FilePlaces(c) \subseteq {"noserc", "nosecfg", "setup", "cfile"} /\ LinePlaces(c) \subseteq {"argv", "again"}
      BY <2>1 DEF FilePlaces, LinePlaces
    <3>2. \A p \in {"noserc", "nosecfg", "setup", "cfile"}, q \in {"argv", "again"} : Level(c, p) <= Level(c, q)
      BY <2>1 DEF Level
    <3> QED BY <3>1, <3>2
  <2>2. CASE c.way = "collector"
    BY <2>2 DEF LinePlaces
  <2>3. CASE c.way = "command"
    <3>1. FilePlaces(c) \subseteq {"noserc", "nosecfg", "cfile"} /\ LinePlaces(c) \subseteq {"egg", "setup", "argv", "again"}
      BY <2>0, <2>3 DEF FilePlaces, LinePlaces
    <3>2. \A p \in {"noserc", "nosecfg", "cfile"}, q \in {"egg", "setup", "argv", "again"} : Level(c, p) <= Level(c, q)
      BY <2>3 DEF Level
    <3> QED BY <3>1, <3>2
  <2> QED BY <2>0, <2>1, <2>2, <2>3
<1>4. Takes(c, f \o OnCommandLine(c), FilePlaces(c) \cup LinePlaces(c), {"noserc"} \cup {})
  BY <1>2, <1>3, TakesBoth
<1>5. {"noserc"} \cup {} = {"noserc"}
  OBVIOUS
<1> QED BY <1>1, <1>4, <1>5 DEF FoundPlaces

LEMMA NotEnvironment ==
  ASSUME NEW c \in Commands
  PROVE  "env" \notin FoundPlaces(c)
<1>1. "env" \notin FilePlaces(c)
  BY DEF FilePlaces
<1>2. "env" \notin LinePlaces(c)
  <2>1. c.argv \in 0 .. 2 /\ c.way \in {"main", "collector", "command"}
    BY CommandsAssumption, SettingsAssumption DEF Ways
  <2> QED BY <2>1 DEF LinePlaces
<1> QED BY <1>1, <1>2 DEF FoundPlaces

\* What the environment gives, of an option that looks there.
FromEnvironment(c) == IF c.opt.env = "never" THEN <<>> ELSE InEnvironment(c)
AllGiven(c) == EnvPlaces(c) \cup FoundPlaces(c)
AllFound(c) == FromEnvironment(c) \o Processed(c, Read(c))

LEMMA EnvTaken ==
  ASSUME NEW c \in Commands
  PROVE  Takes(c, FromEnvironment(c), EnvPlaces(c), {})
<1>1. CASE c.way = "main" /\ c.opt.env # "never"
  <2>1. FromEnvironment(c) = Given(c, "env") /\ EnvPlaces(c) = {"env"} \cap c.sets
    BY <1>1 DEF FromEnvironment, InEnvironment, EnvPlaces
  <2> QED BY <2>1, TakesGiven DEF AllPlaces
<1>2. CASE ~(c.way = "main" /\ c.opt.env # "never")
  <2>1. FromEnvironment(c) = <<>> /\ EnvPlaces(c) = {}
    BY <1>2 DEF FromEnvironment, InEnvironment, EnvPlaces
  <2> QED BY <2>1, TakesNone
<1> QED BY <1>1, <1>2

LEMMA AllTaken ==
  ASSUME NEW c \in Commands
  PROVE  Takes(c, AllFound(c), AllGiven(c), {"noserc"})
<1>1. Takes(c, FromEnvironment(c), EnvPlaces(c), {}) /\ Takes(c, Processed(c, Read(c)), FoundPlaces(c), {"noserc"})
  BY EnvTaken, FoundTaken
<1>2. \A p \in EnvPlaces(c), q \in FoundPlaces(c) : Level(c, p) <= Level(c, q)
  <2> TAKE p \in EnvPlaces(c), q \in FoundPlaces(c)
  <2>1. p = "env" /\ c.way = "main"
    BY DEF EnvPlaces
  <2>2. q \in {"noserc", "nosecfg", "setup", "cfile", "argv", "again"}
    BY <2>1 DEF FoundPlaces, FilePlaces, LinePlaces
  <2>3. \A r \in {"noserc", "nosecfg", "setup", "cfile", "argv", "again"} : Level(c, "env") <= Level(c, r)
    BY <2>1 DEF Level
  <2> QED BY <2>1, <2>2, <2>3
<1>3. Takes(c, FromEnvironment(c) \o Processed(c, Read(c)), EnvPlaces(c) \cup FoundPlaces(c), {} \cup {"noserc"})
  BY <1>1, <1>2, TakesBoth
<1>4. {} \cup {"noserc"} = {"noserc"}
  OBVIOUS
<1> QED BY <1>3, <1>4 DEF AllFound, AllGiven
-----------------------------------------------------------------------------
(* The value: what one parse makes of it, and whether it is right.         *)

Right(c, v) ==
  IF AllGiven(c) = {} THEN v = <<>>
  ELSE /\ v # <<>> /\ Last(v) \in AllGiven(c)
       /\ \A p \in AllGiven(c) : Level(c, p) <= Level(c, Last(v))
       /\ ToSet(v) \subseteq AllGiven(c)
       /\ IF Accumulates(c.opt) THEN AllGiven(c) \ ToSet(v) \subseteq {"env", "noserc"}
          ELSE Len(v) = 1

LEMMA RightNothing ==
  ASSUME NEW c \in Commands, AllFound(c) = <<>>
  PROVE  Right(c, <<>>)
<1>1. Takes(c, AllFound(c), AllGiven(c), {"noserc"})
  BY AllTaken
<1>2. AllGiven(c) = {}
  BY <1>1 DEF Takes
<1> QED BY <1>2 DEF Right

LEMMA RightAll ==
  ASSUME NEW c \in Commands, Accumulates(c.opt)
  PROVE  Right(c, AllFound(c))
<1> PICK a : a = AllFound(c)
  OBVIOUS
<1>1. Takes(c, a, AllGiven(c), {"noserc"})
  BY AllTaken
<1>2. CASE AllGiven(c) = {}
  <2>1. a = <<>>
    BY <1>1, <1>2, TakesNothing
  <2> QED BY <1>2, <2>1 DEF Right
<1>3. CASE AllGiven(c) # {}
  <2>1. a # <<>> /\ a \in Seq(AllPlaces)
    BY <1>1, <1>3 DEF Takes
  <2>2. Last(a) \in AllGiven(c)
    BY <1>1, <2>1, LastElement DEF Takes
  <2> QED BY <1>1, <1>3, <2>1, <2>2 DEF Right, Takes
<1> QED BY <1>2, <1>3

LEMMA RightLast ==
  ASSUME NEW c \in Commands, ~Accumulates(c.opt), AllFound(c) # <<>>
  PROVE  Right(c, <<Last(AllFound(c))>>)
<1> PICK a : a = AllFound(c)
  OBVIOUS
<1>1. Takes(c, a, AllGiven(c), {"noserc"})
  BY AllTaken
<1>2. AllGiven(c) # {}
  BY <1>1, TakesNothing
<1>3. a # <<>> /\ a \in Seq(AllPlaces)
  BY <1>1, <1>2 DEF Takes
<1>4. Last(a) \in AllGiven(c)
  BY <1>1, <1>3, LastElement DEF Takes
<1> PICK l : l = Last(a)
  OBVIOUS
<1> PICK v : v = <<l>>
  OBVIOUS
<1>5. v # <<>> /\ Len(v) = 1 /\ Last(v) = l
  BY DEF Last
<1>6. ToSet(v) = {l}
  <2>1. DOMAIN v = 1 .. 1
    OBVIOUS
  <2> QED BY <2>1 DEF ToSet
<1> QED BY <1>1, <1>2, <1>4, <1>5, <1>6 DEF Right, Takes

LEMMA RightFound ==
  ASSUME NEW c \in Commands, Accumulates(c.opt), Processed(c, Read(c)) # <<>>
  PROVE  Right(c, Processed(c, Read(c)))
<1> PICK p : p = Processed(c, Read(c))
  OBVIOUS
<1>1. Takes(c, p, FoundPlaces(c), {"noserc"}) /\ p \in Seq(AllPlaces)
  BY FoundTaken DEF Takes
<1>2. Last(p) \in FoundPlaces(c)
  BY <1>1, LastElement DEF Takes
<1>3. \A q \in EnvPlaces(c) : Level(c, q) <= Level(c, Last(p))
  <2> TAKE q \in EnvPlaces(c)
  <2>1. q = "env" /\ c.way = "main"
    BY DEF EnvPlaces
  <2>2. Last(p) \in {"noserc", "nosecfg", "setup", "cfile", "argv", "again"}
    BY <1>2, <2>1 DEF FoundPlaces, FilePlaces, LinePlaces
  <2>3. \A r \in {"noserc", "nosecfg", "setup", "cfile", "argv", "again"} : Level(c, "env") <= Level(c, r)
    BY <2>1 DEF Level
  <2> QED BY <2>1, <2>2, <2>3
<1>4. EnvPlaces(c) \subseteq {"env"}
  BY DEF EnvPlaces
<1>5. AllGiven(c) # {} /\ Last(p) \in AllGiven(c)
  BY <1>2 DEF AllGiven
<1>6. \A q \in AllGiven(c) : Level(c, q) <= Level(c, Last(p))
  BY <1>1, <1>3 DEF AllGiven, Takes
<1>7. ToSet(p) \subseteq AllGiven(c) /\ AllGiven(c) \ ToSet(p) \subseteq {"env", "noserc"}
  BY <1>1, <1>4 DEF AllGiven, Takes
<1> QED BY <1>5, <1>6, <1>7 DEF Right

\* Nothing sets the option but a variable that nothing reads.
OnlyNamed(c) == c.opt.env = "named" /\ AllGiven(c) = {"env"}

\* With the default of the environment, the parse of the files that count and what
\* looks there late leave the right value.
LEMMA RightParsed ==
  ASSUME NEW c \in Commands, ~OnlyNamed(c)
  PROVE  Right(c, Late(c, Parsed(c, Default(c), Read(c))))
<1> PICK p : p = Processed(c, Read(c))
  OBVIOUS
<1> PICK e : e = InEnvironment(c)
  OBVIOUS
<1> PICK d : d = Default(c)
  OBVIOUS
<1> PICK v : v = Parsed(c, d, Read(c))
  OBVIOUS
<1>t. p \in Seq(AllPlaces) /\ FromEnvironment(c) \in Seq(AllPlaces)
  BY FoundTaken, EnvTaken DEF Takes
<1>v. v = IF Accumulates(c.opt) THEN d \o p ELSE IF p = <<>> THEN d ELSE <<Last(p)>>
  BY DEF Parsed
<1>o. AllFound(c) = FromEnvironment(c) \o p
  BY DEF AllFound
<1>l. p # <<>> => AllFound(c) # <<>> /\ Last(AllFound(c)) = Last(p)
  <2> PICK f : f = FromEnvironment(c)
    OBVIOUS
  <2> HAVE p # <<>>
  <2>1. Len(f \o p) = Len(f) + Len(p) /\ Len(p) >= 1 /\ (f \o p)[Len(f) + Len(p)] = p[Len(p)]
    BY <1>t
  <2> QED BY <1>o, <2>1 DEF Last
<1>n. p = <<>> => AllFound(c) = FromEnvironment(c)
  BY <1>t, <1>o
<1>1. CASE c.opt.env \in {"never", "text", "list"}
  <2>1. d = FromEnvironment(c)
    BY <1>1 DEF Default, FromEnvironment
  <2>2. Late(c, v) = v
    BY <1>1 DEF Late
  <2>3. CASE Accumulates(c.opt)
    BY <1>v, <1>o, <2>1, <2>2, <2>3, RightAll
  <2>4. CASE ~Accumulates(c.opt) /\ p # <<>>
    BY <1>v, <1>l, <2>2, <2>4, RightLast
  <2>5. CASE ~Accumulates(c.opt) /\ p = <<>>
    <3>1. v = FromEnvironment(c) /\ AllFound(c) = v
      BY <1>v, <1>n, <2>1, <2>5
    <3>2. CASE v = <<>>
      BY <2>2, <3>1, <3>2, RightNothing
    <3>3. CASE v # <<>>
      <4>1. v = <<"env">>
        BY <3>1, <3>3 DEF FromEnvironment, InEnvironment, Given
      <4>2. Last(<<"env">>) = "env"
        BY DEF Last
      <4> QED BY <2>2, <2>5, <3>1, <3>3, <4>1, <4>2, RightLast
    <3> QED BY <3>2, <3>3
  <2> QED BY <2>3, <2>4, <2>5
<1>2. CASE c.opt.env = "late"
  <2>1. d = <<>> /\ FromEnvironment(c) = e
    BY <1>2 DEF Default, FromEnvironment
  <2>2. CASE p = <<>>
    <3>1. v = <<>>
      BY <1>v, <2>1, <2>2
    <3>2. Late(c, v) = e /\ AllFound(c) = e
      BY <1>2, <1>n, <2>1, <2>2, <3>1 DEF Late
    <3>3. CASE e = <<>>
      BY <3>2, <3>3, RightNothing
    <3>4. CASE e # <<>> /\ Accumulates(c.opt)
      BY <3>2, <3>4, RightAll
    <3>5. CASE e # <<>> /\ ~Accumulates(c.opt)
      <4>1. e = <<"env">>
        BY <3>5 DEF InEnvironment, Given
      <4>2. Last(<<"env">>) = "env"
        BY DEF Last
      <4> QED BY <3>2, <3>5, <4>1, <4>2, RightLast
    <3> QED BY <3>3, <3>4, <3>5
  <2>3. CASE p # <<>> /\ Accumulates(c.opt)
    <3>1. v = p
      BY <1>t, <1>v, <2>1, <2>3
    <3>2. Late(c, v) = p
      BY <2>3, <3>1 DEF Late
    <3> QED BY <2>3, <3>2, RightFound
  <2>4. CASE p # <<>> /\ ~Accumulates(c.opt)
    <3>1. v = <<Last(p)>>
      BY <1>v, <2>4
    <3>2. Late(c, v) = v
      BY <3>1 DEF Late
    <3> QED BY <1>l, <2>4, <3>1, <3>2, RightLast
  <2> QED BY <2>2, <2>3, <2>4
<1>3. CASE c.opt.env = "named"
  <2>1. d = <<>> /\ Late(c, v) = v
    BY <1>3 DEF Default, Late
  <2>2. CASE p # <<>> /\ Accumulates(c.opt)
    <3>1. v = p
      BY <1>t, <1>v, <2>1, <2>2
    <3> QED BY <2>1, <2>2, <3>1, RightFound
  <2>3. CASE p # <<>> /\ ~Accumulates(c.opt)
    BY <1>v, <1>l, <2>1, <2>3, RightLast
  <2>4. CASE p = <<>>
    <3>1. FoundPlaces(c) = {}
      BY <2>4, FoundTaken DEF Takes
    <3>2. EnvPlaces(c) = {}
      BY <1>3, <3>1 DEF OnlyNamed, AllGiven, EnvPlaces
    <3>3. FromEnvironment(c) = <<>>
      BY <3>2, EnvTaken, TakesNothing
    <3>4. AllFound(c) = <<>> /\ v = <<>>
      BY <1>n, <1>v, <2>1, <2>4, <3>3
    <3> QED BY <2>1, <3>4, RightNothing
  <2> QED BY <2>2, <2>3, <2>4
<1> QED BY <1>1, <1>2, <1>3, SettingsAssumption

\* No file and no command line has the environment's place.
LEMMA ProcessedElsewhere ==
  ASSUME NEW c \in Commands,
         NEW f, NEW S, Takes(c, f, S, {"noserc"}), "env" \notin S
  PROVE  /\ Processed(c, f) \in Seq(AllPlaces)
         /\ Processed(c, f) # <<>> => Last(Processed(c, f)) # "env"
<1>b. PICK b : b = IF c.opt.name \in option_blacklist THEN <<>> ELSE f
  OBVIOUS
<1>l. PICK l : l = OnCommandLine(c)
  OBVIOUS
<1>p. PICK p : p = b \o l
  OBVIOUS
<1>1. b \in Seq(AllPlaces) /\ ToSet(b) \subseteq S
  BY <1>b, UniqueNone DEF Takes
<1>2. l \in Seq(AllPlaces) /\ ToSet(l) \subseteq LinePlaces(c)
  BY <1>l, LineTaken DEF Takes
<1>c. ToSet(b \o l) = ToSet(b) \cup ToSet(l)
  BY <1>1, <1>2, ConcatElements
<1>3. p \in Seq(AllPlaces) /\ ToSet(p) = ToSet(b) \cup ToSet(l)
  BY <1>1, <1>2, <1>c, <1>p
<1>4. "env" \notin ToSet(p)
  BY <1>1, <1>2, <1>3, NotEnvironment DEF FoundPlaces
<1>5. p # <<>> => Last(p) # "env"
  BY <1>3, <1>4, LastElement
<1> QED BY <1>b, <1>l, <1>p, <1>3, <1>5 DEF Processed

\* When the list that is the default is the same after both parses, the first has
\* appended nothing to it.
LEMMA DefaultStays ==
  ASSUME NEW c \in Commands,
         DefaultAfter(c, DefaultAfter(c, Default(c), getAllConfigFiles(c)), Given(c, "cfile")) = Default(c)
  PROVE  DefaultAfter(c, Default(c), getAllConfigFiles(c)) = Default(c)
<1> PICK d : d = Default(c)
  OBVIOUS
<1> PICK f : f = getAllConfigFiles(c)
  OBVIOUS
<1> PICK g : g = Given(c, "cfile")
  OBVIOUS
<1>1. CASE c.opt.env # "list" \/ d = <<>>
  BY <1>1 DEF DefaultAfter
<1>2. CASE c.opt.env = "list" /\ d # <<>>
  <2>0. d = <<"env">>
    BY <1>2 DEF Default, InEnvironment, Given
  <2>1. d = <<"env">> /\ d \in Seq(AllPlaces)
    BY <2>0 DEF AllPlaces
  <2> PICK e : e = Parsed(c, d, f)
    OBVIOUS
  <2> PICK p : p = Processed(c, f)
    OBVIOUS
  <2> PICK q : q = Processed(c, g)
    OBVIOUS
  <2>2. e = DefaultAfter(c, d, f)
    BY <1>2 DEF DefaultAfter
  <2>3. e = IF Accumulates(c.opt) THEN d \o p ELSE IF p = <<>> THEN d ELSE <<Last(p)>>
    BY DEF Parsed
  <2>4. p \in Seq(AllPlaces) /\ (p # <<>> => Last(p) # "env")
    BY ConfigFilesTaken, ProcessedElsewhere
  <2>5. q \in Seq(AllPlaces) /\ (q # <<>> => Last(q) # "env")
    <3>1. Takes(c, g, {"cfile"} \cap c.sets, {})
      BY TakesGiven DEF AllPlaces
    <3>2. Takes(c, g, {"cfile"} \cap c.sets, {"noserc"})
      BY <3>1, TakesMore
    <3> QED BY <3>2, ProcessedElsewhere
  <2>6. e # <<>>
    BY <2>1, <2>3, <2>4
  <2>7. d = IF Accumulates(c.opt) THEN e \o q ELSE IF q = <<>> THEN e ELSE <<Last(q)>>
    BY <1>2, <2>2, <2>6 DEF DefaultAfter, Parsed
  <2>8. CASE Accumulates(c.opt)
    <3>1. e = d \o p /\ d = e \o q
      BY <2>3, <2>7, <2>8
    <3>2. Len(e) = Len(d) + Len(p) /\ Len(d) = Len(e) + Len(q)
      BY <2>1, <2>4, <2>5, <3>1
    <3>3. Len(p) = 0
      BY <2>1, <2>4, <2>5, <3>2
    <3>4. p = <<>>
      BY <2>4, <3>3
    <3> QED BY <2>1, <2>2, <3>1, <3>4
  <2>9. CASE ~Accumulates(c.opt)
    <3>1. ASSUME NEW x, <<x>> = <<"env">> PROVE x = "env"
      BY <3>1
    <3>2. q = <<>>
      BY <2>1, <2>5, <2>7, <2>9, <3>1
    <3>3. p = <<>>
      BY <2>1, <2>3, <2>4, <2>7, <2>9, <3>1, <3>2
    <3> QED BY <2>2, <2>3, <2>9, <3>3
  <2> QED BY <2>8, <2>9
<1> QED BY <1>1, <1>2
-----------------------------------------------------------------------------
(* The places that count, least first.                                     *)

Ranking(c) ==
  IF c.way = "command"
  THEN <<"noserc", "nosecfg", "cfile", "egg", "setup", "argv", "again">>
  ELSE <<"env", "noserc", "nosecfg", "setup", "cfile", "argv", "again">>

LEMMA PlacesKeep ==
  ASSUME cmd \in Commands
  PROVE  Places = Keep(Ranking(cmd), AllGiven(cmd))
<1>0. cmd.argv \in 0 .. 2 /\ cmd.way \in {"main", "collector", "command"}
      /\ (cmd.way = "command" /\ cmd.opt.name \in option_blacklist => cmd.argv = 0)
  BY CommandsAssumption, SettingsAssumption DEF Ways
<1>f. PICK files : files = IF cmd.opt.name \in option_blacklist THEN {}
                           ELSE IF "cfile" \in cmd.exists THEN {"cfile"}
                           ELSE IF cmd.ignore /\ cmd.way = "main" THEN {}
                           ELSE {"noserc", "nosecfg", "setup"}
  OBVIOUS
<1>l. PICK line : line = IF cmd.way = "collector" \/ cmd.argv = 0 THEN {}
                         ELSE IF cmd.argv = 1 THEN {"argv"}
                         ELSE IF cmd.way = "command" THEN {"again"} ELSE {"argv", "again"}
  OBVIOUS
<1>o. PICK own : own = IF /\ cmd.way = "command" /\ cmd.opt.name \notin option_blacklist /\ cmd.argv = 0
                          /\ ~(cmd.off /\ cmd.opt.action \in {"flag", "count"})
                       THEN {"setup"} ELSE {}
  OBVIOUS
<1>e. PICK env : env = IF cmd.way = "main" /\ cmd.opt.env # "never" THEN {"env"} ELSE {}
  OBVIOUS
<1>g. PICK given : given =
        (cmd.sets \cap ((IF cmd.way = "command" THEN (files \ {"setup"}) \cup own ELSE files) \cup env))
        \cup line \cup (IF cmd.way = "command" /\ cmd.opt.name = "where" THEN {"egg"} ELSE {})
  OBVIOUS
<1>1. Places = Keep(Ranking(cmd), given)
  BY <1>f, <1>l, <1>o, <1>e, <1>g DEF Places, Ranking
<1>2. env \cap cmd.sets = EnvPlaces(cmd)
  BY <1>e DEF EnvPlaces
<1>3. CASE cmd.way = "command"
  <2>1. FilePlaces(cmd) = cmd.sets \cap (files \ {"setup"})
    BY <1>3, <1>f DEF FilePlaces
  <2>2. given = (cmd.sets \cap (files \ {"setup"})) \cup (cmd.sets \cap own) \cup (cmd.sets \cap env) \cup line
                \cup (IF cmd.opt.name = "where" THEN {"egg"} ELSE {})
    BY <1>3, <1>g
  <2>3. LinePlaces(cmd) = (cmd.sets \cap own) \cup line \cup (IF cmd.opt.name = "where" THEN {"egg"} ELSE {})
    <3>1. CASE cmd.argv = 0
      <4>1. line = {}
        BY <1>l, <3>1
      <4>2. CASE cmd.opt.name \in option_blacklist \/ (cmd.off /\ cmd.opt.action \in {"flag", "count"})
        <5>1. own = {}
          BY <1>o, <4>2
        <5>2. LinePlaces(cmd) = (IF cmd.opt.name = "where" THEN {"egg"} ELSE {}) \cup {}
          BY <1>3, <3>1, <4>2 DEF LinePlaces
        <5> QED BY <4>1, <5>1, <5>2
      <4>3. CASE ~(cmd.opt.name \in option_blacklist \/ (cmd.off /\ cmd.opt.action \in {"flag", "count"}))
        <5>1. own = {"setup"}
          BY <1>3, <1>o, <3>1, <4>3
        <5>2. LinePlaces(cmd) = (IF cmd.opt.name = "where" THEN {"egg"} ELSE {}) \cup ({"setup"} \cap cmd.sets)
          BY <1>3, <3>1, <4>3 DEF LinePlaces
        <5> QED BY <4>1, <5>1, <5>2
      <4> QED BY <4>2, <4>3
    <3>2. CASE cmd.argv = 1
      <4>1. line = {"argv"} /\ own = {}
        BY <1>3, <1>l, <1>o, <3>2
      <4>2. LinePlaces(cmd) = (IF cmd.opt.name = "where" THEN {"egg"} ELSE {}) \cup {"argv"}
        BY <1>3, <3>2 DEF LinePlaces
      <4> QED BY <4>1, <4>2
    <3>3. CASE cmd.argv = 2
      <4>1. line = {"again"} /\ own = {}
        BY <1>3, <1>l, <1>o, <3>3
      <4>2. LinePlaces(cmd) = (IF cmd.opt.name = "where" THEN {"egg"} ELSE {}) \cup {"again"}
        BY <1>3, <3>3 DEF LinePlaces
      <4> QED BY <4>1, <4>2
    <3> QED BY <1>0, <3>1, <3>2, <3>3
  <2>4. given = AllGiven(cmd)
    BY <1>2, <2>1, <2>2, <2>3 DEF AllGiven, FoundPlaces
  <2> QED BY <1>1, <2>4
<1>4. CASE cmd.way # "command"
  <2>1. FilePlaces(cmd) = cmd.sets \cap files
    BY <1>4, <1>f DEF FilePlaces
  <2>2. LinePlaces(cmd) = line
    <3>1. CASE cmd.way = "collector"
      BY <1>l, <3>1 DEF LinePlaces
    <3>2. CASE cmd.way = "main"
      BY <1>0, <1>l, <3>2 DEF LinePlaces
    <3> QED BY <1>0, <1>4, <3>1, <3>2
  <2>3. given = (cmd.sets \cap files) \cup (cmd.sets \cap env) \cup line
    BY <1>4, <1>g
  <2>4. given = AllGiven(cmd)
    BY <1>2, <2>1, <2>2, <2>3 DEF AllGiven, FoundPlaces
  <2> QED BY <1>1, <2>4
<1> QED BY <1>3, <1>4

LEMMA RankingRises ==
  ASSUME NEW c
  PROVE  /\ Ranking(c) \in Seq(AllPlaces) /\ Len(Ranking(c)) = 7
         /\ \A i, j \in 1 .. 7 : i < j => Level(c, Ranking(c)[i]) < Level(c, Ranking(c)[j])
<1> PICK r : r = Ranking(c)
  OBVIOUS
<1>1. CASE c.way = "command"
  <2>1. r = <<"noserc", "nosecfg", "cfile", "egg", "setup", "argv", "again">>
    BY <1>1 DEF Ranking
  <2>2. r \in Seq(AllPlaces) /\ Len(r) = 7
    BY <2>1 DEF AllPlaces
  <2>3. \A i \in 1 .. 7 : Level(c, r[i]) = i
    BY <1>1, <2>1 DEF Level
  <2> QED BY <2>2, <2>3
<1>2. CASE c.way # "command"
  <2>1. r = <<"env", "noserc", "nosecfg", "setup", "cfile", "argv", "again">>
    BY <1>2 DEF Ranking
  <2>2. r \in Seq(AllPlaces) /\ Len(r) = 7
    BY <2>1 DEF AllPlaces
  <2>3. \A i \in 1 .. 7 : Level(c, r[i]) = i
    BY <1>2, <2>1 DEF Level
  <2> QED BY <2>2, <2>3
<1> QED BY <1>1, <1>2

LEMMA GivenRanked ==
  ASSUME NEW c \in Commands
  PROVE  AllGiven(c) \subseteq ToSet(Ranking(c))
<1>0. c.argv \in 0 .. 2 /\ c.way \in {"main", "collector", "command"}
  BY CommandsAssumption, SettingsAssumption DEF Ways
<1> PICK r : r = Ranking(c)
  OBVIOUS
<1>1. CASE c.way = "command"
  <2>1. AllGiven(c) \subseteq {"noserc", "nosecfg", "cfile", "egg", "setup", "argv", "again"}
    <3>1. EnvPlaces(c) = {} /\ FilePlaces(c) \subseteq {"noserc", "nosecfg", "cfile"}
      BY <1>1 DEF EnvPlaces, FilePlaces
    <3>2. LinePlaces(c) \subseteq {"egg", "setup", "argv", "again"}
      BY <1>0, <1>1 DEF LinePlaces
    <3> QED BY <3>1, <3>2 DEF AllGiven, FoundPlaces
  <2>2. r = <<"noserc", "nosecfg", "cfile", "egg", "setup", "argv", "again">>
    BY <1>1 DEF Ranking
  <2>3. DOMAIN r = 1 .. 7
    BY <2>2
  <2>4. \A i \in 1 .. 7 : r[i] \in ToSet(r)
    BY <2>3 DEF ToSet
  <2>5. {r[1], r[2], r[3], r[4], r[5], r[6], r[7]} \subseteq ToSet(r)
    BY <2>4
  <2>6. {"noserc", "nosecfg", "cfile", "egg", "setup", "argv", "again"} \subseteq ToSet(r)
    BY <2>2, <2>5
  <2> QED BY <2>1, <2>6
<1>2. CASE c.way # "command"
  <2>1. AllGiven(c) \subseteq {"env", "noserc", "nosecfg", "setup", "cfile", "argv", "again"}
    <3>1. EnvPlaces(c) \subseteq {"env"} /\ FilePlaces(c) \subseteq {"noserc", "nosecfg", "setup", "cfile"}
      BY DEF EnvPlaces, FilePlaces
    <3>2. LinePlaces(c) \subseteq {"argv", "again"}
      BY <1>0, <1>2 DEF LinePlaces
    <3> QED BY <3>1, <3>2 DEF AllGiven, FoundPlaces
  <2>2. r = <<"env", "noserc", "nosecfg", "setup", "cfile", "argv", "again">>
    BY <1>2 DEF Ranking
  <2>3. DOMAIN r = 1 .. 7
    BY <2>2
  <2>4. \A i \in 1 .. 7 : r[i] \in ToSet(r)
    BY <2>3 DEF ToSet
  <2>5. {r[1], r[2], r[3], r[4], r[5], r[6], r[7]} \subseteq ToSet(r)
    BY <2>4
  <2>6. {"env", "noserc", "nosecfg", "setup", "cfile", "argv", "again"} \subseteq ToSet(r)
    BY <2>2, <2>5
  <2> QED BY <2>1, <2>6
<1> QED BY <1>1, <1>2

LEMMA PlacesAll ==
  ASSUME NEW c \in Commands, NEW k, k = Keep(Ranking(c), AllGiven(c))
  PROVE  ToSet(k) = AllGiven(c)
<1>1. Ranking(c) \in Seq(AllPlaces)
  BY RankingRises
<1>2. KeepsOrder(k, Ranking(c), AllGiven(c))
  BY <1>1, KeepOrder
<1> QED BY <1>2, GivenRanked DEF KeepsOrder

\* The places kept are those given, the last of them the one that counts most.
LEMMA PlacesRight ==
  ASSUME NEW c \in Commands, NEW k, k = Keep(Ranking(c), AllGiven(c)), NEW v, Right(c, v)
  PROVE  IF k = <<>> THEN v = <<>>
         ELSE /\ v # <<>> /\ Last(v) = Last(k)
              /\ ToSet(v) \subseteq ToSet(k)
              /\ IF Accumulates(c.opt) THEN ToSet(k) \ ToSet(v) \subseteq {"env", "noserc"}
                 ELSE Len(v) = 1
<1> PICK r : r = Ranking(c)
  OBVIOUS
<1>1. r \in Seq(AllPlaces) /\ Len(r) = 7
      /\ \A i, j \in 1 .. 7 : i < j => Level(c, r[i]) < Level(c, r[j])
  BY RankingRises
<1>2. k \in Seq(AllPlaces) /\ KeepsOrder(k, r, AllGiven(c))
  BY <1>1, KeepOrder
<1>3. ToSet(k) = AllGiven(c)
  BY <1>2, GivenRanked DEF KeepsOrder
<1>4. CASE k = <<>>
  <2>1. AllGiven(c) = {}
    BY <1>3, <1>4, UniqueNone
  <2> QED BY <1>4, <2>1 DEF Right
<1>5. CASE k # <<>>
  <2> PICK l : l = Last(k)
    OBVIOUS
  <2>1. l \in AllGiven(c)
    BY <1>2, <1>3, <1>5, LastElement
  <2>2. v # <<>> /\ Last(v) \in AllGiven(c) /\ Level(c, l) <= Level(c, Last(v))
        /\ ToSet(v) \subseteq AllGiven(c)
        /\ (IF Accumulates(c.opt) THEN AllGiven(c) \ ToSet(v) \subseteq {"env", "noserc"} ELSE Len(v) = 1)
    BY <2>1 DEF Right
  <2>3. \A p, q : Precedes(k, p, q) => Level(c, p) < Level(c, q)
    <3> TAKE p, q
    <3> HAVE Precedes(k, p, q)
    <3>1. Precedes(r, p, q)
      BY <1>2 DEF KeepsOrder
    <3>2. PICK i, j \in 1 .. 7 : i < j /\ r[i] = p /\ r[j] = q
      BY <1>1, <3>1 DEF Precedes
    <3> QED BY <1>1, <3>2
  <2>4. Last(v) = l
    <3>1. PICK i \in 1 .. Len(k) : k[i] = Last(v)
      <4>1. DOMAIN k = 1 .. Len(k)
        BY <1>2
      <4> QED BY <1>3, <2>2, <4>1 DEF ToSet
    <3>2. PICK n \in Nat : n = Len(k)
      BY <1>2
    <3>3. l = k[n]
      BY <3>2 DEF Last
    <3>4. CASE i < n
      <4>1. Precedes(k, Last(v), l)
        BY <3>1, <3>2, <3>3, <3>4 DEF Precedes
      <4>2. Level(c, Last(v)) < Level(c, l)
        BY <2>3, <4>1
      <4>3. Level(c, Last(v)) \in Int /\ Level(c, l) \in Int
        BY LevelRange
      <4> QED BY <2>2, <4>2, <4>3
    <3>5. CASE ~(i < n)
      BY <3>1, <3>2, <3>3, <3>5
    <3> QED BY <3>4, <3>5
  <2> QED BY <1>3, <1>5, <2>2, <2>4
<1> QED BY <1>4, <1>5
-----------------------------------------------------------------------------
(* The value of the option, step by step.                                  *)

Early == {"make", "load", "parse", "reparse", "settle"}

\* The default is that of the program until a parse appends to it; if it still is
\* in the end, the value is right.
Valued ==
  cmd.opt.name \in registered /\ cmd.opt.dest # "files" =>
    /\ pc = "parse" => default = Default(cmd)
    /\ pc = "reparse" =>
         /\ value = Parsed(cmd, Default(cmd), getAllConfigFiles(cmd))
         /\ default = DefaultAfter(cmd, Default(cmd), getAllConfigFiles(cmd))
    /\ pc = "settle" /\ default = Default(cmd) => value = Parsed(cmd, Default(cmd), Read(cmd))
    /\ pc \notin Early \cup {"exited"} /\ default = Default(cmd) /\ ~OnlyNamed(cmd) => Right(cmd, value)

LEMMA ParseFilesFinds ==
  ASSUME NEW files, NEW next, ParseFiles(files, next), cmd.opt.name \in registered
  PROVE  \/ pc' = "exited"
         \/ /\ pc' = next
            /\ value' = Parsed(cmd, default, files) /\ default' = DefaultAfter(cmd, default, files)
BY DEF ParseFiles, Exit

LEMMA ValuedStep ==
  ASSUME Typing, Valued, [Next]_vars
  PROVE  Valued'
<1> USE DEF manager, options, logging, resources
<1>c. cmd \in Commands
  BY DEF Typing
<1>1. CASE MakeConfig
  BY <1>1 DEF MakeConfig, Valued, Early
<1>2. CASE LoadPlugins
  <2>1. pc' = "parse" /\ cmd' = cmd
    BY <1>2 DEF LoadPlugins
  <2>2. default' = IF cmd.opt.name \in registered' THEN Default(cmd) ELSE <<>>
    BY <1>2 DEF LoadPlugins
  <2> QED BY <2>1, <2>2 DEF Valued, Early
<1>3. CASE Parse
  <2>1. pc = "parse" /\ cmd' = cmd /\ registered' = registered
        /\ ParseFiles(getAllConfigFiles(cmd), "reparse")
    BY <1>3 DEF Parse
  <2>2. CASE cmd.opt.name \in registered /\ cmd.opt.dest # "files"
    <3>1. \/ pc' = "exited"
          \/ /\ pc' = "reparse"
             /\ value' = Parsed(cmd, default, getAllConfigFiles(cmd))
             /\ default' = DefaultAfter(cmd, default, getAllConfigFiles(cmd))
      BY <2>1, <2>2, ParseFilesFinds
    <3>2. default = Default(cmd)
      BY <2>1, <2>2 DEF Valued
    <3> QED BY <2>1, <3>1, <3>2 DEF Valued, Early
  <2>3. CASE ~(cmd.opt.name \in registered /\ cmd.opt.dest # "files")
    BY <2>1, <2>3 DEF Valued
  <2> QED BY <2>2, <2>3
<1>4. CASE Reparse
  <2>1. pc = "reparse" /\ cmd' = cmd /\ registered' = registered
    BY <1>4 DEF Reparse
  <2>2. CASE cmd.opt.name \in registered /\ cmd.opt.dest # "files"
    <3>1. value = Parsed(cmd, Default(cmd), getAllConfigFiles(cmd))
          /\ default = DefaultAfter(cmd, Default(cmd), getAllConfigFiles(cmd))
      BY <2>1, <2>2 DEF Valued
    <3>2. CASE "cfile" \in cmd.exists
      <4>1. ParseFiles(Given(cmd, "cfile"), "settle")
        BY <1>4, <2>2, <3>2 DEF Reparse, NamesFiles
      <4>2. \/ pc' = "exited"
            \/ /\ pc' = "settle"
               /\ value' = Parsed(cmd, default, Given(cmd, "cfile"))
               /\ default' = DefaultAfter(cmd, default, Given(cmd, "cfile"))
        BY <2>2, <4>1, ParseFilesFinds
      <4>3. CASE pc' = "settle" /\ default' = Default(cmd)
        <5>1. DefaultAfter(cmd, default, Given(cmd, "cfile")) = Default(cmd)
          BY <4>2, <4>3
        <5>2. default = Default(cmd)
          BY <1>c, <3>1, <5>1, DefaultStays
        <5>3. value' = Parsed(cmd, Default(cmd), Read(cmd))
          BY <3>2, <4>2, <4>3, <5>2 DEF Read
        <5> QED BY <2>1, <4>3, <5>3 DEF Valued, Early
      <4>4. CASE ~(pc' = "settle" /\ default' = Default(cmd))
        BY <2>1, <4>2, <4>4 DEF Valued, Early
      <4> QED BY <4>3, <4>4
    <3>3. CASE "cfile" \notin cmd.exists
      <4>1. pc' = "settle" /\ value' = value /\ default' = default
        BY <1>4, <2>2, <3>3 DEF Reparse, NamesFiles
      <4> QED BY <2>1, <3>1, <3>3, <4>1 DEF Valued, Early, Read
    <3> QED BY <3>2, <3>3
  <2>3. CASE ~(cmd.opt.name \in registered /\ cmd.opt.dest # "files")
    BY <2>1, <2>3 DEF Valued
  <2> QED BY <2>2, <2>3
<1>5. CASE Settle
  <2>1. pc = "settle" /\ cmd' = cmd /\ registered' = registered /\ default' = default
        /\ value' = Late(cmd, value) /\ pc' \in {"loader", "configure", "run"}
    BY <1>5 DEF Settle
  <2>2. CASE cmd.opt.name \in registered /\ cmd.opt.dest # "files" /\ default = Default(cmd)
             /\ ~OnlyNamed(cmd)
    <3>1. value = Parsed(cmd, Default(cmd), Read(cmd))
      BY <2>1, <2>2 DEF Valued
    <3>2. Right(cmd, value')
      BY <1>c, <2>1, <2>2, <3>1, RightParsed
    <3> QED BY <2>1, <3>2 DEF Valued, Early
  <2>3. CASE ~(cmd.opt.name \in registered /\ cmd.opt.dest # "files" /\ default = Default(cmd)
               /\ ~OnlyNamed(cmd))
    BY <2>1, <2>3 DEF Valued, Early
  <2> QED BY <2>2, <2>3
<1>6. CASE UNCHANGED <<cmd, registered, default, value>>
           /\ pc \notin Early \cup {"exited"} /\ pc' \notin Early
  BY <1>6 DEF Valued, Early
<1>7. CASE Configure
  BY <1>6, <1>7 DEF Configure, Exit, Early
<1>8. CASE Begin
  BY <1>6, <1>8 DEF Begin, Early
<1>9. CASE PrepareTestLoader
  BY <1>6, <1>9 DEF PrepareTestLoader, Exit, Early
<1>10. CASE PrepareTestRunner
  BY <1>6, <1>10 DEF PrepareTestRunner, Early
<1>11. CASE PrepareTest
  BY <1>6, <1>11 DEF PrepareTest, Early
<1>12. CASE SetOutputStream
  BY <1>6, <1>12 DEF SetOutputStream, Early
<1>13. CASE BeforeTest
  BY <1>6, <1>13 DEF BeforeTest, Early
<1>19. CASE BeforeTestUnbegun
  BY <1>6, <1>19 DEF BeforeTestUnbegun, Early
<1>14. CASE TestChangesLoggers
  BY <1>6, <1>14 DEF TestChangesLoggers, Early
<1>15. CASE RunTests
  BY <1>6, <1>15 DEF RunTests, Early
<1>16. CASE Report
  BY <1>6, <1>16 DEF Report, Exit, Early
<1>17. CASE Finalize
  BY <1>6, <1>17 DEF Finalize, Exit, Early
<1>18. CASE UNCHANGED vars
  BY <1>18 DEF vars, Valued
<1> QED BY <1>1, <1>2, <1>3, <1>4, <1>5, <1>7, <1>8, <1>9, <1>10, <1>11, <1>12, <1>13,
           <1>14, <1>15, <1>16, <1>17, <1>18, <1>19 DEF Next

LEMMA ValuedPrecedence ==
  ASSUME Typing, Valued
  PROVE  Precedence
<1> SUFFICES ASSUME pc \notin {"make", "load", "parse", "reparse", "settle", "exited"},
                    cmd.opt.name \in registered, cmd.opt.dest # "files", default = Default(cmd),
                    ~Unread
             PROVE  IF Places = <<>> THEN value = <<>>
                    ELSE /\ value # <<>> /\ Last(value) = Last(Places)
                         /\ ToSet(value) \subseteq ToSet(Places)
                         /\ IF Accumulates(cmd.opt)
                            THEN ToSet(Places) \ ToSet(value) \subseteq {"env", "noserc"}
                            ELSE Len(value) = 1
  BY DEF Precedence
<1>1. cmd \in Commands
  BY DEF Typing
<1>2. Places = Keep(Ranking(cmd), AllGiven(cmd))
  BY <1>1, PlacesKeep
<1>3. ~OnlyNamed(cmd)
  BY <1>1, <1>2, PlacesAll DEF Unread, OnlyNamed
<1>4. Right(cmd, value)
  BY <1>3 DEF Valued, Early
<1> QED BY <1>1, <1>2, <1>4, PlacesRight

\* The value of an option, once all is parsed, comes from the place that counts
\* most of those that set it, whatever they are; where values are appended, it has
\* those of all places but at most the environment and ~/.noserc; except that
\* NOSE_PY3WHERE, which only the help knows, sets nothing
\* (config.py parseArgsAndConfigFiles, configure; README.txt "Configuration").
THEOREM ProgramPrecedence == Spec => []Precedence
<1>1. Init => Typing /\ Valued
  <2>1. Init => Typing
    BY InitTyping
  <2>2. Init => Valued
    BY DEF Init, Valued, Early
  <2> QED BY <2>1, <2>2
<1>2. Typing /\ Valued /\ [Next]_vars => Typing' /\ Valued'
  BY TypingStep, ValuedStep
<1>3. Typing /\ Valued => Precedence
  BY ValuedPrecedence
<1> QED BY <1>1, <1>2, <1>3, PTL DEF Spec

=============================================================================
