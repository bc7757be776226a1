----------------------------- MODULE ListProofs -----------------------------
(***************************************************************************)
(* What Keep returns, for every list: the entries that are kept, each at    *)
(* the place its order gives it.  The library states induction over the     *)
(* natural numbers for a predicate; here it is stated for a set, from the   *)
(* well-foundedness of <.                                                  *)
(***************************************************************************)
EXTENDS Lists, FiniteSetTheorems, WellFoundedInduction, TLAPS

\* A set of natural numbers that is not empty has a least element
LEMMA LeastOfNat ==
    ASSUME NEW S \in SUBSET Nat, S # {}
    PROVE  \E n \in S : \A m \in S : n <= m
<1>. DEFINE Less == {p \in Nat \X Nat : p[1] < p[2]}
<1>1. IsWellFoundedOn(Less, Nat)
  BY NatLessThanWellFounded DEF OpToRel
<1>2. \A m, n \in Nat : m < n => <<m, n>> \in Less
  OBVIOUS
<1>. HIDE DEF Less
<1>3. PICK n \in S : \A m \in S : ~(<<m, n>> \in Less)
  BY <1>1, WFMin
<1>4. \A m \in S : ~(m < n)
  BY <1>2, <1>3
<1>. QED  BY <1>4

\* Induction over the natural numbers
LEMMA SetOfNat ==
    ASSUME NEW S \in SUBSET Nat, 0 \in S, \A n \in S : n + 1 \in S
    PROVE  S = Nat
<1>1. SUFFICES ASSUME S # Nat PROVE FALSE
  OBVIOUS
<1>2. PICK n \in Nat \ S : \A m \in Nat \ S : n <= m
  BY <1>1, LeastOfNat
<1>. QED  BY <1>2

-----------------------------------------------------------------------------
\* One more entry, and what the first n entries leave, one after the other
More(s, kept, n, before) == IF s[n] \in kept THEN Append(before, s[n]) ELSE before
Leaves(s, kept, n, f) ==
    /\ DOMAIN f = 0 .. n /\ f[0] = <<>>
    /\ \A i \in 1 .. n : f[i] = More(s, kept, i, f[i - 1])

LEMMA LeavesExist ==
    ASSUME NEW T, NEW s \in Seq(T), NEW kept
    PROVE  \A n \in Nat : n <= Len(s) => \E f : Leaves(s, kept, n, f)
<1>. DEFINE S == {n \in Nat : n <= Len(s) => \E f : Leaves(s, kept, n, f)}
<1>1. 0 \in S
  <2>. DEFINE f == [i \in 0 .. 0 |-> <<>>]
  <2>1. Leaves(s, kept, 0, f)
    BY DEF Leaves
  <2>. QED  BY <2>1
<1>2. ASSUME NEW n \in S PROVE n + 1 \in S
  <2>. SUFFICES ASSUME n + 1 <= Len(s) PROVE \E g : Leaves(s, kept, n + 1, g)
    BY <1>2
  <2>0. n \in Nat /\ n <= Len(s)
    BY <1>2
  <2>1. PICK f : Leaves(s, kept, n, f)
    BY <1>2, <2>0
  <2>. DEFINE g == [i \in 0 .. n + 1 |-> IF i = n + 1 THEN More(s, kept, n + 1, f[n]) ELSE f[i]]
  <2>2. ASSUME NEW i \in 1 .. n + 1 PROVE g[i] = More(s, kept, i, g[i - 1])
    <3>1. i - 1 \in 0 .. n /\ g[i - 1] = f[i - 1]
      BY <2>0
    <3>2. CASE i = n + 1
      <4>1. i - 1 = n /\ g[i] = More(s, kept, n + 1, f[n])
        BY <2>0, <3>2
      <4>. QED  BY <3>1, <3>2, <4>1
    <3>3. CASE i # n + 1
      <4>1. i \in 1 .. n /\ g[i] = f[i]
        BY <2>0, <3>3
      <4>. QED  BY <2>1, <3>1, <4>1 DEF Leaves
    <3>. QED  BY <3>2, <3>3
  <2>3. Leaves(s, kept, n + 1, g)
    BY <2>0, <2>1, <2>2 DEF Leaves
  <2>. QED  BY <2>3
<1>. HIDE DEF S
<1>3. S = Nat
  BY <1>1, <1>2, SetOfNat DEF S
<1>. QED  BY <1>3 DEF S

LEMMA KeepLeaves ==
    ASSUME NEW T, NEW s \in Seq(T), NEW kept
    PROVE  \E f : Leaves(s, kept, Len(s), f) /\ Keep(s, kept) = f[Len(s)]
<1>. DEFINE Build(f) == [n \in 0 .. Len(s) |->
                IF n = 0 THEN <<>>
                ELSE IF s[n] \in kept THEN Append(f[n - 1], s[n]) ELSE f[n - 1]]
            first == CHOOSE f : f = Build(f)
<1>1. PICK f : Leaves(s, kept, Len(s), f)
  BY LeavesExist, Len(s) \in Nat
<1>2. PICK g : g = [i \in DOMAIN f |-> f[i]]
  OBVIOUS
<1>3. g = Build(g)
  <2>1. DOMAIN f = 0 .. Len(s) /\ \A n \in 0 .. Len(s) : g[n] = f[n]
    BY <1>1, <1>2 DEF Leaves
  <2>2. \A n \in 0 .. Len(s) : n = 0 \/ (n \in 1 .. Len(s) /\ n - 1 \in 0 .. Len(s))
    BY Len(s) \in Nat
  <2>3. \A n \in 0 .. Len(s) :
            g[n] = IF n = 0 THEN <<>>
                   ELSE IF s[n] \in kept THEN Append(g[n - 1], s[n]) ELSE g[n - 1]
    BY <1>1, <2>1, <2>2 DEF Leaves, More
  <2>. QED  BY <1>2, <2>1, <2>3
<1>4. first = Build(first)
  BY <1>3
<1>5. Keep(s, kept) = first[Len(s)]
  BY DEF Keep
<1>. HIDE DEF first
<1>6. DOMAIN first = 0 .. Len(s)
  BY <1>4
<1>7. \A n \in 0 .. Len(s) : first[n] = Build(first)[n]
  BY <1>4
<1>8. first[0] = <<>> /\ \A n \in 1 .. Len(s) : first[n] = More(s, kept, n, first[n - 1])
  BY <1>7 DEF More
<1>9. Leaves(s, kept, Len(s), first)
  BY <1>6, <1>8 DEF Leaves
<1>. QED  BY <1>5, <1>9

\* Where the entries that stay come from: g is strictly increasing and leaves none out
Places(s, kept, n, q, g) ==
    /\ g \in [1 .. Len(q) -> 1 .. n]
    /\ \A i \in 1 .. Len(q) : q[i] = s[g[i]] /\ q[i] \in kept
    /\ \A i, j \in 1 .. Len(q) : i < j => g[i] < g[j]
    /\ \A m \in 1 .. n : s[m] \in kept => \E i \in 1 .. Len(q) : g[i] = m

LEMMA KeepPlaces ==
    ASSUME NEW T, NEW s \in Seq(T), NEW kept
    PROVE  /\ Keep(s, kept) \in Seq(T) /\ Len(Keep(s, kept)) <= Len(s)
           /\ \E g : Places(s, kept, Len(s), Keep(s, kept), g)
<1>1. PICK f : Leaves(s, kept, Len(s), f) /\ Keep(s, kept) = f[Len(s)]
  BY KeepLeaves
<1>. DEFINE Good(n) == /\ f[n] \in Seq(T) /\ Len(f[n]) <= n
                       /\ \E g : Places(s, kept, n, f[n], g)
            S == {n \in Nat : n <= Len(s) => Good(n)}
<1>2. 0 \in S
  <2>1. f[0] = <<>>
    BY <1>1 DEF Leaves
  <2>2. Places(s, kept, 0, f[0], [i \in 1 .. 0 |-> 0])
    BY <2>1 DEF Places
  <2>3. <<>> \in Seq(T) /\ Len(<<>>) <= 0
    OBVIOUS
  <2>4. Good(0)
    BY <2>1, <2>2, <2>3
  <2>. QED  BY <2>4
<1>3. ASSUME NEW n \in S PROVE n + 1 \in S
  <2>. SUFFICES ASSUME n + 1 <= Len(s) PROVE Good(n + 1)
    BY <1>3
  <2>0. n \in Nat /\ n <= Len(s) /\ n + 1 \in 1 .. Len(s) /\ s[n + 1] \in T
    BY <1>3
  <2>1. Good(n)
    BY <1>3, <2>0
  <2>. DEFINE q == f[n]
  <2>2. q \in Seq(T) /\ Len(q) \in Nat /\ Len(q) <= n
    BY <2>1
  <2>3. PICK g : Places(s, kept, n, q, g)
    BY <2>1
  <2>4. f[n + 1] = More(s, kept, n + 1, q)
    BY <1>1, <2>0 DEF Leaves
  <2>. HIDE DEF q
  <2>5. CASE s[n + 1] \in kept
    <3>1. f[n + 1] = Append(q, s[n + 1])
      BY <2>4, <2>5 DEF More
    <3>. DEFINE g1 == [i \in 1 .. Len(q) + 1 |-> IF i = Len(q) + 1 THEN n + 1 ELSE g[i]]
    <3>2. /\ f[n + 1] \in Seq(T) /\ Len(f[n + 1]) = Len(q) + 1
          /\ \A i \in 1 .. Len(q) : f[n + 1][i] = q[i]
          /\ f[n + 1][Len(q) + 1] = s[n + 1]
      BY <2>0, <2>2, <3>1
    <3>3. Places(s, kept, n + 1, f[n + 1], g1)
      <4>1. g1 \in [1 .. Len(f[n + 1]) -> 1 .. n + 1]
        BY <2>0, <2>2, <2>3, <3>2 DEF Places
      <4>2. \A i \in 1 .. Len(f[n + 1]) : f[n + 1][i] = s[g1[i]] /\ f[n + 1][i] \in kept
        BY <2>0, <2>2, <2>3, <2>5, <3>2 DEF Places
      <4>3. ASSUME NEW i \in 1 .. Len(f[n + 1]), NEW j \in 1 .. Len(f[n + 1]), i < j
            PROVE  g1[i] < g1[j]
        <5>0. i \in 1 .. Len(q) /\ i # Len(q) + 1
          BY <2>2, <3>2, <4>3
        <5>1. g1[i] = g[i] /\ g[i] \in 1 .. n
          <6>1. g \in [1 .. Len(q) -> 1 .. n]
            BY <2>3 DEF Places
          <6>2. g[i] \in 1 .. n
            BY <5>0, <6>1
          <6>3. i \in 1 .. Len(q) + 1
            BY <2>2, <5>0
          <6>4. g1[i] = g[i]
            BY <5>0, <6>3
          <6>. QED  BY <6>2, <6>4
        <5>2. CASE j = Len(q) + 1
          BY <2>0, <2>2, <5>0, <5>1, <5>2
        <5>3. CASE j # Len(q) + 1
          BY <2>2, <2>3, <3>2, <4>3, <5>0, <5>1, <5>3 DEF Places
        <5>. QED  BY <5>2, <5>3
      <4>4. ASSUME NEW m \in 1 .. n + 1, s[m] \in kept
            PROVE  \E i \in 1 .. Len(f[n + 1]) : g1[i] = m
        <5>1. CASE m = n + 1
          BY <2>2, <3>2, <5>1
        <5>2. CASE m # n + 1
          <6>1. PICK i \in 1 .. Len(q) : g[i] = m
            BY <2>0, <2>3, <4>4, <5>2 DEF Places
          <6>2. i \in 1 .. Len(f[n + 1]) /\ g1[i] = m
            BY <2>2, <3>2, <6>1
          <6>. QED  BY <6>2
        <5>. QED  BY <5>1, <5>2
      <4>. QED  BY <4>1, <4>2, <4>3, <4>4 DEF Places
    <3>. QED  BY <2>0, <2>2, <3>2, <3>3
  <2>6. CASE s[n + 1] \notin kept
    <3>1. f[n + 1] = q
      BY <2>4, <2>6 DEF More
    <3>2. Places(s, kept, n + 1, q, g)
      BY <2>0, <2>2, <2>3, <2>6 DEF Places
    <3>. QED  BY <2>0, <2>2, <3>1, <3>2
  <2>. QED  BY <2>5, <2>6
<1>. HIDE DEF S
<1>4. S = Nat
  BY <1>2, <1>3, SetOfNat DEF S
<1>. QED  BY <1>1, <1>4, Len(s) \in Nat DEF S

-----------------------------------------------------------------------------
\* A strictly increasing function leaves no room for more than its range has
LEMMA Climbs ==
    ASSUME NEW a \in Nat, NEW b \in Nat, NEW m \in Nat, NEW g \in [1 .. m -> Nat],
           \A i \in 1 .. m : a < g[i] /\ g[i] <= b,
           \A i, j \in 1 .. m : i < j => g[i] < g[j]
    PROVE  m = 0 \/ a + m <= b
<1>. DEFINE S == {i \in Nat : i \in 1 .. m => a + i <= g[i]}
<1>1. 0 \in S
  OBVIOUS
<1>2. ASSUME NEW i \in S PROVE i + 1 \in S
  <2>1. SUFFICES ASSUME i + 1 \in 1 .. m PROVE a + (i + 1) <= g[i + 1]
    OBVIOUS
  <2>2. g[i + 1] \in Nat /\ i \in Nat
    BY <2>1
  <2>3. CASE i = 0
    BY <2>1, <2>2, <2>3
  <2>4. CASE i # 0
    <3>1. i \in 1 .. m /\ g[i] \in Nat /\ g[i] < g[i + 1] /\ a + i <= g[i]
      BY <1>2, <2>1, <2>2, <2>4
    <3>. QED  BY <2>2, <3>1
  <2>. QED  BY <2>3, <2>4
<1>. HIDE DEF S
<1>2a. S \in SUBSET Nat
  BY DEF S
<1>2b. \A n \in S : n + 1 \in S
  BY <1>2
<1>3. S = Nat
  BY <1>1, <1>2a, <1>2b, SetOfNat
<1>4. \A i \in 1 .. m : a + i <= g[i]
  BY <1>3 DEF S
<1>5. SUFFICES ASSUME m # 0 PROVE a + m <= b
  OBVIOUS
<1>6. m \in 1 .. m /\ g[m] \in Nat
  BY <1>5
<1>. QED  BY <1>4, <1>6

\* What a list loses at its head it loses in length
LEMMA KeepShortens ==
    ASSUME NEW T, NEW s \in Seq(T), NEW kept, NEW a \in 0 .. Len(s),
           \A i \in 1 .. a : s[i] \notin kept
    PROVE  Len(Keep(s, kept)) <= Len(s) - a
<1>. DEFINE q == Keep(s, kept)
<1>1. q \in Seq(T) /\ \E g : Places(s, kept, Len(s), q, g)
  BY KeepPlaces
<1>2. PICK g : Places(s, kept, Len(s), q, g)
  BY <1>1
<1>. HIDE DEF q
<1>3. Len(q) \in Nat /\ Len(s) \in Nat /\ a \in Nat /\ a <= Len(s)
  BY <1>1
<1>4. g \in [1 .. Len(q) -> 1 .. Len(s)]
  BY <1>2 DEF Places
<1>5. ASSUME NEW i \in 1 .. Len(q) PROVE a < g[i] /\ g[i] <= Len(s)
  <2>1. g[i] \in 1 .. Len(s) /\ s[g[i]] \in kept
    BY <1>2, <1>4 DEF Places
  <2>. QED  BY <1>3, <2>1
<1>6. \A i, j \in 1 .. Len(q) : i < j => g[i] < g[j]
  BY <1>2 DEF Places
<1>7. g \in [1 .. Len(q) -> Nat]
  BY <1>3, <1>4
<1>8. Len(q) = 0 \/ a + Len(q) <= Len(s)
  BY <1>3, <1>5, <1>6, <1>7, Climbs
<1>. QED  BY <1>3, <1>8 DEF q

\* Its entries
LEMMA KeepEntries ==
    ASSUME NEW T, NEW s \in Seq(T), NEW kept
    PROVE  {Keep(s, kept)[i] : i \in DOMAIN Keep(s, kept)} = {s[i] : i \in DOMAIN s} \cap kept
<1>. DEFINE q == Keep(s, kept)
<1>1. q \in Seq(T) /\ \E g : Places(s, kept, Len(s), q, g)
  BY KeepPlaces
<1>2. PICK g : Places(s, kept, Len(s), q, g)
  BY <1>1
<1>. HIDE DEF q
<1>3. DOMAIN q = 1 .. Len(q) /\ DOMAIN s = 1 .. Len(s)
  BY <1>1
<1>4. ASSUME NEW i \in DOMAIN q PROVE q[i] \in {s[j] : j \in DOMAIN s} \cap kept
  BY <1>2, <1>3 DEF Places
<1>5. ASSUME NEW j \in DOMAIN s, s[j] \in kept PROVE s[j] \in {q[i] : i \in DOMAIN q}
  <2>1. PICK i \in 1 .. Len(q) : g[i] = j
    BY <1>2, <1>3, <1>5 DEF Places
  <2>2. q[i] = s[j]
    BY <1>2, <2>1 DEF Places
  <2>. QED  BY <1>3, <2>2
<1>6. {q[i] : i \in DOMAIN q} = {s[i] : i \in DOMAIN s} \cap kept
  BY <1>4, <1>5
<1>. QED  BY <1>6 DEF q

\* A list without repetitions stays one
LEMMA KeepApart ==
    ASSUME NEW T, NEW s \in Seq(T), NEW kept,
           \A i, j \in DOMAIN s : s[i] = s[j] => i = j
    PROVE  \A i, j \in DOMAIN Keep(s, kept) : Keep(s, kept)[i] = Keep(s, kept)[j] => i = j
<1>. DEFINE q == Keep(s, kept)
<1>1. q \in Seq(T) /\ \E g : Places(s, kept, Len(s), q, g)
  BY KeepPlaces
<1>2. PICK g : Places(s, kept, Len(s), q, g)
  BY <1>1
<1>. HIDE DEF q
<1>3. DOMAIN q = 1 .. Len(q) /\ DOMAIN s = 1 .. Len(s) /\ Len(q) \in Nat
  BY <1>1
<1>4. ASSUME NEW i \in DOMAIN q, NEW j \in DOMAIN q, q[i] = q[j] PROVE i = j
  <2>1. g[i] \in DOMAIN s /\ g[j] \in DOMAIN s /\ s[g[i]] = q[i] /\ s[g[j]] = q[j]
    BY <1>2, <1>3 DEF Places
  <2>2. g[i] = g[j] /\ g[i] \in Nat
    BY <1>3, <1>4, <2>1
  <2>3. (i < j => g[i] < g[j]) /\ (j < i => g[j] < g[i])
    BY <1>2, <1>3 DEF Places
  <2>. QED  BY <1>3, <2>2, <2>3
<1>. QED  BY <1>4 DEF q

-----------------------------------------------------------------------------
\* The entries that stand before y
Before(s, y) == {s[a] : a \in {c \in DOMAIN s : \E b \in DOMAIN s : c < b /\ s[b] = y}}

LEMMA KeepBefore ==
    ASSUME NEW T, NEW s \in Seq(T), NEW kept, NEW y \in kept
    PROVE  Before(Keep(s, kept), y) = Before(s, y) \cap kept
<1>. DEFINE q == Keep(s, kept)
<1>1. q \in Seq(T) /\ \E g : Places(s, kept, Len(s), q, g)
  BY KeepPlaces
<1>2. PICK g : Places(s, kept, Len(s), q, g)
  BY <1>1
<1>. HIDE DEF q
<1>3. DOMAIN q = 1 .. Len(q) /\ DOMAIN s = 1 .. Len(s) /\ Len(q) \in Nat /\ Len(s) \in Nat
  BY <1>1
<1>4. \A i \in DOMAIN q : g[i] \in DOMAIN s /\ g[i] \in Nat /\ q[i] = s[g[i]] /\ q[i] \in kept
  BY <1>2, <1>3 DEF Places
<1>5. ASSUME NEW a \in DOMAIN q, NEW b \in DOMAIN q, a < b, q[b] = y
      PROVE  q[a] \in Before(s, y) \cap kept
  <2>1. g[a] < g[b]
    BY <1>2, <1>3, <1>5 DEF Places
  <2>. QED  BY <1>4, <1>5, <2>1 DEF Before
<1>6. ASSUME NEW a \in DOMAIN s, NEW b \in DOMAIN s, a < b, s[b] = y, s[a] \in kept
      PROVE  s[a] \in Before(q, y)
  <2>1. PICK i \in DOMAIN q : g[i] = a
    BY <1>2, <1>3, <1>6 DEF Places
  <2>2. PICK k \in DOMAIN q : g[k] = b
    BY <1>2, <1>3, <1>6 DEF Places
  <2>3. k < i => g[k] < g[i]
    BY <1>2, <1>3 DEF Places
  <2>4. i < k
    BY <1>3, <1>4, <1>6, <2>1, <2>2, <2>3
  <2>. QED  BY <1>4, <1>6, <2>1, <2>2, <2>4 DEF Before
<1>7. Before(q, y) \subseteq Before(s, y) \cap kept
  BY <1>5 DEF Before
<1>8. Before(s, y) \cap kept \subseteq Before(q, y)
  <2>. SUFFICES ASSUME NEW x \in Before(s, y), x \in kept PROVE x \in Before(q, y)
    OBVIOUS
  <2>1. PICK a \in DOMAIN s : x = s[a] /\ \E b \in DOMAIN s : a < b /\ s[b] = y
    BY DEF Before
  <2>. QED  BY <1>6, <2>1
<1>. QED  BY <1>7, <1>8 DEF q

\* In a list without repetitions they tell the place of an entry
LEMMA Rank ==
    ASSUME NEW T, NEW s \in Seq(T), NEW a \in DOMAIN s,
           \A i, j \in DOMAIN s : s[i] = s[j] => i = j
    PROVE  IsFiniteSet(Before(s, s[a])) /\ Cardinality(Before(s, s[a])) = a - 1
<1>. DEFINE B == Before(s, s[a])
            f == [c \in 1 .. a - 1 |-> s[c]]
<1>1. DOMAIN s = 1 .. Len(s) /\ Len(s) \in Nat /\ a \in Nat /\ a >= 1
  OBVIOUS
<1>2. B = {s[c] : c \in 1 .. a - 1}
  <2>1. {c \in DOMAIN s : \E b \in DOMAIN s : c < b /\ s[b] = s[a]} = 1 .. a - 1
    BY <1>1
  <2>. QED  BY <2>1 DEF Before
<1>3. \A i, j \in 1 .. a - 1 : f[i] = f[j] => i = j
  BY <1>1
<1>4. f \in [1 .. a - 1 -> B] /\ \A x \in B : \E c \in 1 .. a - 1 : f[c] = x
  BY <1>2
<1>5. f \in Bijection(1 .. a - 1, B)
  BY <1>3, <1>4 DEF Bijection, Injection, Surjection, IsInjective
<1>6. IsFiniteSet(1 .. a - 1) /\ Cardinality(1 .. a - 1) = a - 1
  <2>1. a - 1 \in Int /\ 1 \in Int /\ (1 > a - 1 => a - 1 = 0) /\ (a - 1) - 1 + 1 = a - 1
    BY <1>1
  <2>2. /\ IsFiniteSet(1 .. a - 1)
        /\ Cardinality(1 .. a - 1) = IF 1 > a - 1 THEN 0 ELSE (a - 1) - 1 + 1
    BY <2>1, FS_Interval
  <2>. QED  BY <2>1, <2>2
<1>7. ExistsBijection(1 .. a - 1, B)
  BY <1>5 DEF ExistsBijection
<1>. QED  BY <1>6, <1>7, FS_Bijection

\* An entry that others only overtake does not move towards the head
LEMMA Overtaken ==
    ASSUME NEW T, NEW s \in Seq(T), NEW t \in Seq(T),
           \A i, j \in DOMAIN s : s[i] = s[j] => i = j,
           \A i, j \in DOMAIN t : t[i] = t[j] => i = j,
           NEW a \in DOMAIN s, NEW b \in DOMAIN t, s[a] = t[b],
           Before(s, s[a]) \subseteq Before(t, s[a])
    PROVE  a <= b
<1>1. /\ IsFiniteSet(Before(t, t[b])) /\ Cardinality(Before(t, t[b])) = b - 1
      /\ Cardinality(Before(s, s[a])) = a - 1
  BY Rank
<1>2. Cardinality(Before(s, s[a])) <= Cardinality(Before(t, t[b]))
  BY <1>1, FS_Subset
<1>3. a \in Int /\ b \in Int
  OBVIOUS
<1>. QED  BY <1>1, <1>2, <1>3

=============================================================================
