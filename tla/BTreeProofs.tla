----------------------------- MODULE BTreeProofs -----------------------------
(***************************************************************************)
(* Machine-checked theorems about BTree, for any number of keys, entries,  *)
(* deletions and crashes, and nodes of any size.                           *)
(***************************************************************************)
EXTENDS BTree, TLAPS, FiniteSetTheorems, WellFoundedInduction

(***************************************************************************)
(* Recursion over the numbers up to N.                                     *)
(***************************************************************************)

\* A nonempty set of numbers has a least one.
LEMMA LeastNumber ==
  ASSUME NEW S \in SUBSET Nat, S # {}
  PROVE  \E n \in S : \A m \in S : n <= m
<1>1. PICK n \in S : \A m \in S : ~(<<m, n>> \in OpToRel(<, Nat))
  BY NatLessThanWellFounded, WFMin, Zenon
<1>2. ASSUME NEW m \in S PROVE n <= m
  <2>1. ~(m < n)
    BY <1>1 DEF OpToRel
  <2>2. m \in Nat /\ n \in Nat
    OBVIOUS
  <2> QED BY <2>1, <2>2
<1> QED BY <1>2

\* What holds of 0, and of each number whose predecessor has it, holds up to N.
LEMMA UpTo ==
  ASSUME NEW N \in Nat, NEW T, 0 \in T, \A n \in 1..N : n - 1 \in T => n \in T
  PROVE  0..N \subseteq T
<1> SUFFICES ASSUME (0..N) \ T # {} PROVE FALSE
  OBVIOUS
<1>1. (0..N) \ T \in SUBSET Nat
  OBVIOUS
<1>2. PICK n \in (0..N) \ T : \A m \in (0..N) \ T : n <= m
  BY <1>1, LeastNumber
<1>3. n # 0 /\ n - 1 \in 0..N /\ ~(n <= n - 1)
  BY <1>2
<1> QED BY <1>2, <1>3

\* A function can be defined by recursion.
Iterates(f, N, S, base, step) ==
  f \in [0..N -> S] /\ f[0] = base /\ \A n \in 1..N : f[n] = step[n][f[n - 1]]
LEMMA Recursion ==
  ASSUME NEW N \in Nat, NEW S, NEW base \in S, NEW step \in [1..N -> [S -> S]]
  PROVE  \E f : Iterates(f, N, S, base, step)
<1> DEFINE Starts(f, m) == f[0] = base /\ \A n \in 1..m : f[n] = step[n][f[n - 1]]
           T == {m \in 0..N : \E f \in [0..m -> S] : Starts(f, m)}
<1>1. 0 \in T
  <2> DEFINE g == [n \in 0..0 |-> base]
  <2>1. g \in [0..0 -> S] /\ g[0] = base /\ 0 \in 0..N /\ 1..0 = {}
    OBVIOUS
  <2> HIDE DEF g
  <2> QED BY <2>1
<1>2. ASSUME NEW m \in 1..N, m - 1 \in T PROVE m \in T
  <2>1. PICK f \in [0..(m - 1) -> S] : Starts(f, m - 1)
    BY <1>2
  <2> DEFINE g == [n \in 0..m |-> IF n = m THEN step[m][f[m - 1]] ELSE f[n]]
  <2>2. f[m - 1] \in S /\ step[m] \in [S -> S]
    OBVIOUS
  <2>3. g \in [0..m -> S]
    BY <2>2
  <2>4. g[0] = base /\ g[m] = step[m][f[m - 1]] /\ \A n \in 0..(m - 1) : g[n] = f[n]
    BY <2>1
  <2> HIDE DEF g
  <2>5. ASSUME NEW n \in 1..m PROVE g[n] = step[n][g[n - 1]]
    <3>1. CASE n = m
      BY <2>4, <3>1
    <3>2. CASE n # m
      <4>1. n \in 1..(m - 1) /\ n \in 0..(m - 1) /\ n - 1 \in 0..(m - 1)
        BY <3>2
      <4> QED BY <2>1, <2>4, <4>1
    <3> QED BY <3>1, <3>2
  <2>6. m \in 0..N
    OBVIOUS
  <2> QED BY <2>3, <2>4, <2>5, <2>6
<1>3. N \in T
  <2> HIDE DEF T
  <2>1. 0..N \subseteq T
    BY <1>1, <1>2, UpTo
  <2> QED BY <2>1
<1> QED BY <1>3 DEF Iterates

\* What a walk meets.
LEMMA WalkFacts ==
  ASSUME Len(pages) \in Nat, NEW S, NEW p \in S, NEW step, \A x \in S : step[x] \in S
  PROVE  /\ Walk(p, step) \in [0..Len(pages) -> S] /\ Walk(p, step)[0] = p
         /\ \A n \in 1..Len(pages) : Walk(p, step)[n] = step[Walk(p, step)[n - 1]]
<1> DEFINE N == Len(pages)
           Is(f) == f = [n \in 0..N |-> IF n = 0 THEN p ELSE step[f[n - 1]]]
<1>1. N \in Nat
  OBVIOUS
<1>2. PICK f \in [0..N -> S] : f[0] = p /\ \A n \in 1..N : f[n] = step[f[n - 1]]
  <2> DEFINE steps == [n \in 1..N |-> [x \in S |-> step[x]]]
  <2>1. steps \in [1..N -> [S -> S]]
    OBVIOUS
  <2>2. \A n \in 1..N, x \in S : steps[n][x] = step[x]
    OBVIOUS
  <2> HIDE DEF steps
  <2>3. PICK f \in [0..N -> S] : f[0] = p /\ \A n \in 1..N : f[n] = steps[n][f[n - 1]]
    <3> HIDE DEF N
    <3>1. \E f : Iterates(f, N, S, p, steps)
      BY <1>1, <2>1, Recursion
    <3> QED BY <3>1 DEF Iterates
  <2>4. \A n \in 1..N : f[n - 1] \in S
    OBVIOUS
  <2> QED BY <2>2, <2>3, <2>4
<1>3. Is(f)
  BY <1>2
<1>4. Walk(p, step) = CHOOSE g : Is(g)
  BY DEF Walk
<1>5. Is(Walk(p, step))
  BY <1>3, <1>4
<1> DEFINE w == Walk(p, step)
<1>6. w = [n \in 0..N |-> IF n = 0 THEN p ELSE step[w[n - 1]]]
  BY <1>5
<1> HIDE DEF w
<1>7. w[0] = p /\ \A n \in 1..N : w[n] = step[w[n - 1]]
  BY <1>6
<1>8. 0..N \subseteq {n \in 0..N : w[n] \in S}
  <2> DEFINE T == {n \in 0..N : w[n] \in S}
  <2>1. 0 \in T /\ \A n \in 1..N : n - 1 \in T => n \in T
    BY <1>7
  <2> HIDE DEF T
  <2>2. 0..N \subseteq T
    BY <2>1, UpTo
  <2> QED BY <2>2 DEF T
<1> QED BY <1>6, <1>7, <1>8 DEF w

(***************************************************************************)
(* Entries of nodes.                                                       *)
(***************************************************************************)

\* What has a key, as the entries of both kinds of nodes have.
Keyed(K) == \A x \in K : x.key \in Nat

\* Keys and locations are numbers.
LEMMA EntryFields == /\ Keyed(Entry) /\ \A e \in Entry : e.key \in Key /\ e.loc \in Nat
                     /\ \A C : Keyed([key : Key, child : C])
<1>1. Len(Copies) \in Nat /\ \A k \in Key : Copies[k] \in Nat
  BY TreeAssumption DEF Key, MaxKey
<1>2. ASSUME NEW e \in Entry PROVE e.key \in Key /\ e.loc \in Nat
  <2>1. PICK k \in Key : e \in [key : {k}, loc : 1..Copies[k]]
    BY DEF Entry
  <2> QED BY <1>1, <2>1
<1>3. Key \subseteq Nat
  BY <1>1 DEF Key, MaxKey
<1> QED BY <1>2, <1>3 DEF Keyed

\* How many entries stand before the first with a greater key.
LEMMA NotGreaterFacts ==
  ASSUME NEW K, Keyed(K), NEW s \in Seq(K), NEW key \in Nat
  PROVE  /\ NotGreater(s, key) \in 0..Len(s)
         /\ \A i \in 1..NotGreater(s, key) : s[i].key <= key
         /\ NotGreater(s, key) < Len(s) => s[NotGreater(s, key) + 1].key > key
<1> DEFINE Before == {i \in DOMAIN s : \A j \in 1..i : s[j].key <= key}
<1>1. Len(s) \in Nat /\ DOMAIN s = 1..Len(s) /\ \A i \in DOMAIN s : s[i].key \in Nat
  BY DEF Keyed
<1>2. \E n \in 0..Len(s) : Before = 1..n /\ (n < Len(s) => s[n + 1].key > key)
  <2>1. CASE \A i \in DOMAIN s : s[i].key <= key
    <3>1. Before = 1..Len(s)
      BY <1>1, <2>1
    <3> QED BY <1>1, <3>1
  <2>2. CASE ~ \A i \in DOMAIN s : s[i].key <= key
    <3> DEFINE Bad == {i \in DOMAIN s : ~(s[i].key <= key)}
    <3>1. Bad \in SUBSET Nat /\ Bad # {}
      BY <1>1, <2>2
    <3>2. PICK b \in Bad : \A m \in Bad : b <= m
      BY <3>1, LeastNumber
    <3>3. b \in 1..Len(s) /\ ~(s[b].key <= key) /\ \A j \in 1..(b - 1) : s[j].key <= key
      BY <1>1, <3>2
    <3>4. Before = 1..(b - 1)
      BY <1>1, <3>3
    <3>5. s[b].key > key
      BY <1>1, <3>3
    <3> QED BY <3>3, <3>4, <3>5
  <2> QED BY <2>1, <2>2
<1>3. PICK n \in 0..Len(s) : Before = 1..n /\ (n < Len(s) => s[n + 1].key > key)
  BY <1>2
<1>4. Cardinality(1..n) = n
  BY FS_Interval
<1>5. NotGreater(s, key) = n
  BY <1>3, <1>4 DEF NotGreater
<1>6. \A i \in 1..n : s[i].key <= key
  BY <1>3
<1> HIDE DEF Before
<1> QED BY <1>3, <1>5, <1>6

\* r is s with e in its place, behind the first n elements.
InPlace(K, s, e, n, r) ==
  /\ r \in Seq(K) /\ Len(r) = Len(s) + 1 /\ n \in 0..Len(s)
  /\ r[n + 1] = e
  /\ \A i \in 1..n : r[i] = s[i] /\ s[i].key <= e.key
  /\ \A i \in (n + 1)..Len(s) : r[i + 1] = s[i]
  /\ n < Len(s) => s[n + 1].key > e.key

\* An entry in its place.
LEMMA InsertAtFacts ==
  ASSUME NEW K, Keyed(K), NEW s \in Seq(K), NEW e \in K
  PROVE  InPlace(K, s, e, NotGreater(s, e.key), InsertAt(s, e))
<1> DEFINE n == NotGreater(s, e.key)
           r == InsertAt(s, e)
<1>1. /\ n \in 0..Len(s) /\ \A i \in 1..n : s[i].key <= e.key
      /\ n < Len(s) => s[n + 1].key > e.key
  BY NotGreaterFacts DEF Keyed
<1> DEFINE a == SubSeq(s, 1, n)
           b == SubSeq(s, n + 1, Len(s))
<1>2. Len(s) \in Nat /\ DOMAIN s = 1..Len(s)
  OBVIOUS
<1>3. a \in Seq(K) /\ Len(a) = n /\ \A i \in 1..n : a[i] = s[i]
  BY <1>1, <1>2
<1>4. b \in Seq(K) /\ Len(b) = Len(s) - n /\ \A i \in 1..(Len(s) - n) : b[i] = s[n + i]
  BY <1>1, <1>2
<1>5. r = a \o <<e>> \o b
  BY DEF InsertAt
<1> HIDE DEF a, b, n, r
<1> DEFINE c == a \o <<e>>
<1>6. c \in Seq(K) /\ Len(c) = n + 1 /\ c[n + 1] = e /\ \A i \in 1..n : c[i] = s[i]
  BY <1>1, <1>3
<1>7. r = c \o b
  BY <1>5
<1> HIDE DEF c
<1>71. Len(c) = n + 1 /\ Len(c) \in Nat /\ Len(b) = Len(s) - n
  BY <1>1, <1>2, <1>4, <1>6
<1>8. r \in Seq(K) /\ Len(r) = Len(s) + 1 /\ \A i \in 1..(n + 1) : r[i] = c[i]
  <2>1. b \in Seq(K) /\ c \in Seq(K)
    BY <1>4, <1>6
  <2>2. r \in Seq(K) /\ Len(r) = Len(c) + Len(b)
    BY <2>1, <1>7
  <2>3. \A i \in 1..Len(c) : r[i] = c[i]
    BY <2>1, <1>7
  <2>4. (n + 1) + (Len(s) - n) = Len(s) + 1
    BY <1>1, <1>2
  <2>5. Len(r) = Len(s) + 1
    BY <1>71, <2>2, <2>4
  <2> QED BY <1>71, <2>2, <2>3, <2>5
<1>9. ASSUME NEW i \in (n + 1)..Len(s) PROVE r[i + 1] = s[i]
  <2>1. n \in Nat /\ i \in Nat /\ i >= n + 1 /\ i <= Len(s) /\ Len(b) = Len(s) - n /\ Len(c) = n + 1
    BY <1>1, <1>2, <1>4, <1>6
  <2>2. i - n \in 1..Len(b)
    BY <1>2, <2>1
  <2>3. i + 1 = Len(c) + (i - n)
    BY <1>2, <2>1
  <2>4. n + (i - n) = i
    BY <1>2, <2>1
  <2>5. r[Len(c) + (i - n)] = b[i - n]
    BY <1>2, <1>4, <1>6, <1>7, <2>2
  <2> QED BY <1>4, <2>2, <2>5, <2>3, <2>4
<1>10. InPlace(K, s, e, n, r)
  BY <1>1, <1>2, <1>6, <1>8, <1>9 DEF InPlace
<1> QED BY <1>10 DEF n, r

\* What an entry in its place does to the order and the elements of a node.
LEMMA InsertAtKeeps ==
  ASSUME NEW K, Keyed(K), NEW s \in Seq(K), NEW e \in K
  PROVE  /\ InsertAt(s, e) \in Seq(K)
         /\ ElementsOf(InsertAt(s, e)) = ElementsOf(s) \cup {e}
         /\ Ascending(s) => Ascending(InsertAt(s, e))
         /\ Once(s) /\ e \notin ElementsOf(s) => Once(InsertAt(s, e))
<1> DEFINE n == NotGreater(s, e.key)
           r == InsertAt(s, e)
           was(i) == IF i <= n THEN i ELSE i - 1
<1>1. /\ r \in Seq(K) /\ Len(r) = Len(s) + 1 /\ n \in 0..Len(s) /\ Len(s) \in Nat
      /\ r[n + 1] = e
      /\ \A i \in 1..n : r[i] = s[i] /\ s[i].key <= e.key
      /\ \A i \in (n + 1)..Len(s) : r[i + 1] = s[i]
      /\ n < Len(s) => s[n + 1].key > e.key
  <2>1. InPlace(K, s, e, n, r)
    BY InsertAtFacts
  <2> HIDE DEF n, r
  <2> QED BY <2>1 DEF InPlace
<1>2. DOMAIN r = 1..(Len(s) + 1) /\ DOMAIN s = 1..Len(s)
  BY <1>1
<1> HIDE DEF n, r
<1>3. ASSUME NEW i \in DOMAIN r, i # n + 1 PROVE was(i) \in DOMAIN s /\ r[i] = s[was(i)]
  <2>1. CASE i <= n
    BY <1>1, <1>2, <2>1
  <2>2. CASE ~(i <= n)
    <3>1. i - 1 \in (n + 1)..Len(s) /\ (i - 1) + 1 = i
      BY <1>1, <1>2, <1>3, <2>2
    <3> QED BY <1>1, <1>2, <2>2, <3>1
  <2> QED BY <2>1, <2>2
<1>4. ASSUME NEW i \in DOMAIN s PROVE s[i] \in ElementsOf(r)
  <2>1. CASE i <= n
    <3>1. i \in 1..n /\ i \in DOMAIN r
      BY <1>1, <1>2, <2>1
    <3> QED BY <1>1, <3>1 DEF ElementsOf
  <2>2. CASE ~(i <= n)
    <3>1. i \in (n + 1)..Len(s) /\ i + 1 \in DOMAIN r
      BY <1>1, <1>2, <2>2
    <3> QED BY <1>1, <3>1 DEF ElementsOf
  <2> QED BY <2>1, <2>2
<1>5. e \in ElementsOf(r)
  BY <1>1, <1>2 DEF ElementsOf
<1>6. ElementsOf(r) = ElementsOf(s) \cup {e}
  BY <1>1, <1>3, <1>4, <1>5 DEF ElementsOf
<1>7. ASSUME Ascending(s) PROVE Ascending(r)
  <2> SUFFICES ASSUME NEW i \in 1..Len(s) PROVE r[i].key <= r[i + 1].key
    BY <1>1 DEF Ascending
  <2>1. \A j \in DOMAIN s : s[j].key \in Nat
    BY DEF Keyed
  <2>2. e.key \in Nat
    BY DEF Keyed
  <2>3. CASE i < n
    <3>1. i \in 1..(Len(s) - 1) /\ i \in 1..n /\ i + 1 \in 1..n
      BY <1>1, <2>3
    <3> QED BY <1>1, <1>7, <3>1 DEF Ascending
  <2>4. CASE i = n
    BY <1>1, <2>4
  <2>5. CASE i = n + 1
    <3>1. n < Len(s) /\ i \in (n + 1)..Len(s) /\ i \in DOMAIN s
      BY <1>1, <1>2, <2>5
    <3> QED BY <1>1, <2>1, <2>2, <2>5, <3>1
  <2>6. CASE i > n + 1
    <3>1. i - 1 \in (n + 1)..Len(s) /\ i \in (n + 1)..Len(s) /\ i - 1 \in 1..(Len(s) - 1)
          /\ (i - 1) + 1 = i
      BY <1>1, <2>6
    <3>2. r[i] = s[i - 1] /\ r[i + 1] = s[i]
      BY <1>1, <3>1
    <3> QED BY <1>7, <3>1, <3>2 DEF Ascending
  <2> QED BY <1>1, <2>3, <2>4, <2>5, <2>6
<1>8. ASSUME Once(s), e \notin ElementsOf(s) PROVE Once(r)
  <2> SUFFICES ASSUME NEW i \in DOMAIN r, NEW j \in DOMAIN r, r[i] = r[j] PROVE i = j
    BY DEF Once
  <2>1. \A k \in DOMAIN s : s[k] # e
    BY <1>8 DEF ElementsOf
  <2>2. CASE i = n + 1 \/ j = n + 1
    BY <1>1, <1>3, <2>1, <2>2
  <2>3. CASE i # n + 1 /\ j # n + 1
    <3>1. was(i) = was(j)
      BY <1>3, <1>8, <2>3 DEF Once
    <3> QED BY <1>1, <1>2, <2>3, <3>1
  <2> QED BY <2>2, <2>3
<1> QED BY <1>1, <1>6, <1>7, <1>8 DEF r

\* The halves of a node that is split.
Halves(K, s, m) ==
  /\ m \in 1..(Len(s) - 1) /\ 2 * m <= Len(s) /\ Len(s) <= 2 * m + 1
  /\ LeftHalf(s) \in Seq(K) /\ Len(LeftHalf(s)) = m
  /\ \A i \in 1..m : LeftHalf(s)[i] = s[i]
  /\ RightHalf(s) \in Seq(K) /\ Len(RightHalf(s)) = Len(s) - m
  /\ \A i \in 1..(Len(s) - m) : RightHalf(s)[i] = s[m + i]
  /\ Promoted(s) = s[m + 1] /\ s[m + 1] \in K /\ RightHalf(s)[1] = s[m + 1]
LEMMA HalvesFacts ==
  ASSUME NEW K, NEW s \in Seq(K), Len(s) >= 2, NEW m, m = Mid(s)
  PROVE  Halves(K, s, m)
<1>1. Len(s) \in Nat /\ m \in 1..(Len(s) - 1) /\ 2 * m <= Len(s) /\ Len(s) <= 2 * m + 1
  BY DEF Mid
<1>2. LeftHalf(s) = SubSeq(s, 1, m) /\ RightHalf(s) = SubSeq(s, m + 1, Len(s)) /\ Promoted(s) = s[m + 1]
  BY DEF LeftHalf, RightHalf, Promoted
<1>3. LeftHalf(s) \in Seq(K) /\ Len(LeftHalf(s)) = m /\ \A i \in 1..m : LeftHalf(s)[i] = s[i]
  <2> DEFINE a == SubSeq(s, 1, m)
  <2>1. m \in Nat /\ m <= Len(s)
    BY <1>1
  <2>2. a \in Seq(K)
    BY <1>1, <2>1
  <2>3. Len(a) = m
    BY <1>1, <2>1
  <2>4. ASSUME NEW i \in 1..m PROVE a[i] = s[i]
    BY <1>1, <2>1
  <2> HIDE DEF a
  <2>5. LeftHalf(s) = a
    BY <1>2 DEF a
  <2> QED BY <2>2, <2>3, <2>4, <2>5
<1>4. /\ RightHalf(s) \in Seq(K) /\ Len(RightHalf(s)) = Len(s) - m
      /\ \A i \in 1..(Len(s) - m) : RightHalf(s)[i] = s[m + i]
  <2> DEFINE b == SubSeq(s, m + 1, Len(s))
  <2>1. b \in Seq(K) /\ Len(b) = Len(s) - m
    <3>1. m + 1 \in 1..Len(s) /\ Len(s) - (m + 1) + 1 = Len(s) - m
      BY <1>1
    <3>2. b \in Seq(K)
      BY <1>1, <3>1, SMTT(20)
    <3>3. Len(b) = Len(s) - (m + 1) + 1
      BY <1>1, <3>1, SMTT(20)
    <3> QED BY <3>1, <3>2, <3>3
  <2>2. ASSUME NEW i \in 1..(Len(s) - m) PROVE b[i] = s[m + i]
    <3>1. b[i] = s[(m + 1) + i - 1] /\ i \in Nat /\ m \in Nat
      BY <1>1, <2>1, SMTT(20)
    <3>2. (m + 1) + i - 1 = m + i
      BY <3>1
    <3> QED BY <3>1, <3>2
  <2> HIDE DEF b
  <2>3. RightHalf(s) = b
    BY <1>2 DEF b
  <2> QED BY <2>1, <2>2, <2>3
<1>5. s[m + 1] \in K /\ RightHalf(s)[1] = s[m + 1]
  BY <1>1, <1>4
<1> QED BY <1>1, <1>2, <1>3, <1>4, <1>5 DEF Halves

\* In an ascending node earlier entries have keys that are not greater.
LEMMA AscendingFar ==
  ASSUME NEW K, Keyed(K), NEW s \in Seq(K), Ascending(s),
         NEW i \in DOMAIN s, NEW j \in DOMAIN s, i <= j
  PROVE  s[i].key <= s[j].key
<1>1. Len(s) \in Nat /\ DOMAIN s = 1..Len(s) /\ \A n \in DOMAIN s : s[n].key \in Nat
  BY DEF Keyed
<1> DEFINE T == {n \in 0..(Len(s) - i) : s[i].key <= s[i + n].key}
<1>2. 0 \in T
  BY <1>1
<1>3. ASSUME NEW n \in 1..(Len(s) - i), n - 1 \in T PROVE n \in T
  <2>1. /\ i + (n - 1) \in 1..(Len(s) - 1) /\ (i + (n - 1)) + 1 = i + n
        /\ i + (n - 1) \in DOMAIN s /\ i + n \in DOMAIN s
    BY <1>1
  <2>2. s[i + (n - 1)].key <= s[i + n].key
    BY <2>1 DEF Ascending
  <2> QED BY <1>1, <1>3, <2>1, <2>2
<1> HIDE DEF T
<1>4. Len(s) - i \in Nat
  BY <1>1
<1>5. 0..(Len(s) - i) \subseteq T
  BY <1>2, <1>3, <1>4, UpTo
<1>6. j - i \in 0..(Len(s) - i) /\ i + (j - i) = j
  BY <1>1
<1> QED BY <1>5, <1>6 DEF T

(***************************************************************************)
(* What is selected from a sequence.                                       *)
(***************************************************************************)

\* r consists of the first n elements of s, as far as they are in W, and pos says where
\* each has come from.
Picked(K, W, s, n, r, pos) ==
  /\ r \in Seq(K) /\ Len(r) <= n
  /\ pos \in [1..Len(r) -> 1..n]
  /\ \A i, j \in 1..Len(r) : i < j => pos[i] < pos[j]
  /\ \A i \in 1..Len(r) : r[i] = s[pos[i]] /\ r[i] \in W
  /\ \A j \in 1..n : s[j] \in W => \E i \in 1..Len(r) : pos[i] = j

\* One more element is picked, or passed over.
LEMMA PickedStep ==
  ASSUME NEW K, NEW W, NEW s \in Seq(K), NEW n \in 1..Len(s), NEW r, NEW pos,
         Picked(K, W, s, n - 1, r, pos)
  PROVE  \E q : Picked(K, W, s, n, IF s[n] \in W THEN Append(r, s[n]) ELSE r, q)
<1>1. n \in Nat /\ n - 1 \in Nat /\ s[n] \in K /\ Len(r) \in Nat /\ r \in Seq(K)
      /\ 1..(n - 1) \subseteq 1..n /\ \A j \in 1..n : j # n => j \in 1..(n - 1)
  BY DEF Picked
<1>2. CASE s[n] \notin W
  <2>1. pos \in [1..Len(r) -> 1..n] /\ Len(r) <= n
    BY <1>1 DEF Picked
  <2>2. Picked(K, W, s, n, r, pos)
    BY <1>1, <1>2, <2>1 DEF Picked
  <2> QED BY <1>2, <2>2
<1>3. CASE s[n] \in W
  <2> DEFINE l == Len(r) + 1
             t == Append(r, s[n])
             q == [i \in 1..l |-> IF i = l THEN n ELSE pos[i]]
  <2>1. t \in Seq(K) /\ Len(t) = l /\ t[l] = s[n] /\ \A i \in 1..Len(r) : t[i] = r[i]
    BY <1>1
  <2>2. l \in Nat /\ l \in 1..l /\ \A i \in 1..l : i # l => i \in 1..Len(r)
    BY <1>1
  <2>3. \A i \in 1..Len(r) : i \in 1..l /\ i # l /\ pos[i] \in 1..(n - 1)
    BY <1>1 DEF Picked
  <2>4. q \in [1..l -> 1..n] /\ q[l] = n /\ \A i \in 1..Len(r) : q[i] = pos[i]
    BY <1>1, <2>2, <2>3
  <2> HIDE DEF q, t
  <2>5. \A i, j \in 1..l : i < j => q[i] < q[j]
    <3> SUFFICES ASSUME NEW i \in 1..l, NEW j \in 1..l, i < j PROVE q[i] < q[j]
      OBVIOUS
    <3>1. i \in 1..Len(r) /\ q[i] = pos[i] /\ pos[i] \in 1..(n - 1)
      BY <1>1, <2>3, <2>4
    <3>2. CASE j = l
      BY <1>1, <2>4, <3>1, <3>2
    <3>3. CASE j # l
      <4>1. j \in 1..Len(r) /\ q[j] = pos[j]
        BY <2>2, <2>4, <3>3
      <4> QED BY <3>1, <4>1 DEF Picked
    <3> QED BY <3>2, <3>3
  <2>6. \A i \in 1..l : t[i] = s[q[i]] /\ t[i] \in W
    <3> SUFFICES ASSUME NEW i \in 1..l PROVE t[i] = s[q[i]] /\ t[i] \in W
      OBVIOUS
    <3>1. CASE i = l
      BY <1>3, <2>1, <2>4, <3>1
    <3>2. CASE i # l
      BY <2>1, <2>2, <2>4, <3>2 DEF Picked
    <3> QED BY <3>1, <3>2
  <2>7. ASSUME NEW j \in 1..n, s[j] \in W PROVE \E i \in 1..l : q[i] = j
    <3>1. CASE j = n
      BY <2>2, <2>4, <3>1
    <3>2. CASE j # n
      <4>1. PICK i \in 1..Len(r) : pos[i] = j
        BY <1>1, <2>7, <3>2 DEF Picked
      <4> QED BY <2>3, <2>4, <4>1
    <3> QED BY <3>1, <3>2
  <2>8. Len(t) <= n
    BY <1>1, <2>1 DEF Picked
  <2>9. Picked(K, W, s, n, t, q)
    BY <2>1, <2>4, <2>5, <2>6, <2>7, <2>8 DEF Picked
  <2> QED BY <1>3, <2>9 DEF t
<1> QED BY <1>2, <1>3

\* Only keeps just the elements that belong to W, where they stood to one another.
LEMMA OnlyPicked ==
  ASSUME NEW K, NEW W, NEW s \in Seq(K)
  PROVE  \E pos : Picked(K, W, s, Len(s), Only(W, s), pos)
<1> DEFINE N == Len(s)
           Is(f) == f = [n \in 0..N |-> IF n = 0 THEN <<>>
                                        ELSE IF s[n] \in W THEN Append(f[n - 1], s[n]) ELSE f[n - 1]]
           step == [n \in 1..N |-> [r \in Seq(K) |-> IF s[n] \in W THEN Append(r, s[n]) ELSE r]]
<1>1. N \in Nat /\ <<>> \in Seq(K) /\ \A n \in 1..N : s[n] \in K
  OBVIOUS
<1>2. step \in [1..N -> [Seq(K) -> Seq(K)]]
  <2>1. \A n \in 1..N, r \in Seq(K) : Append(r, s[n]) \in Seq(K)
    BY <1>1
  <2> QED BY <2>1
<1>3. \A n \in 1..N, r \in Seq(K) : step[n][r] = IF s[n] \in W THEN Append(r, s[n]) ELSE r
  OBVIOUS
<1> HIDE DEF step, N
<1>4. PICK f : Iterates(f, N, Seq(K), <<>>, step)
  BY <1>1, <1>2, Recursion
<1>5. /\ f \in [0..N -> Seq(K)] /\ f[0] = <<>>
      /\ \A n \in 1..N : f[n] = IF s[n] \in W THEN Append(f[n - 1], s[n]) ELSE f[n - 1]
  <2>1. \A n \in 1..N : f[n - 1] \in Seq(K)
    BY <1>1, <1>4 DEF Iterates
  <2> QED BY <1>3, <1>4, <2>1 DEF Iterates
<1>6. Is(f)
  <2>1. DOMAIN f = 0..N /\ f = [n \in 0..N |-> f[n]]
    BY <1>5
  <2>2. ASSUME NEW n \in 0..N
        PROVE  f[n] = IF n = 0 THEN <<>>
                      ELSE IF s[n] \in W THEN Append(f[n - 1], s[n]) ELSE f[n - 1]
    <3>1. n = 0 \/ n \in 1..N
      BY <1>1
    <3> QED BY <1>5, <3>1
  <2> QED BY <2>1, <2>2, Zenon
<1>7. Only(W, s) = (CHOOSE g : Is(g))[N]
  BY DEF Only, N
<1>8. PICK u : Is(u) /\ Only(W, s) = u[N]
  BY <1>6, <1>7
<1>9. /\ u[0] = <<>>
      /\ \A n \in 1..N : u[n] = IF s[n] \in W THEN Append(u[n - 1], s[n]) ELSE u[n - 1]
  <2>1. \A n \in 0..N : u[n] = IF n = 0 THEN <<>>
                                ELSE IF s[n] \in W THEN Append(u[n - 1], s[n]) ELSE u[n - 1]
    BY <1>8, Zenon
  <2>2. 0 \in 0..N /\ \A n \in 1..N : n \in 0..N /\ n # 0
    BY <1>1
  <2> HIDE DEF Is
  <2> QED BY <2>1, <2>2
<1> DEFINE T == {n \in 0..N : \E pos : Picked(K, W, s, n, u[n], pos)}
<1>10. 0 \in T
  <2>1. Len(<<>>) = 0 /\ 1..0 = {}
    OBVIOUS
  <2> DEFINE none == [i \in 1..0 |-> 1]
  <2>2. none \in [1..0 -> 1..0]
    OBVIOUS
  <2> HIDE DEF none
  <2>3. Picked(K, W, s, 0, <<>>, none)
    BY <1>1, <2>1, <2>2 DEF Picked
  <2> QED BY <1>1, <1>9, <2>3
<1>11. ASSUME NEW n \in 1..N, n - 1 \in T PROVE n \in T
  <2>1. PICK pos : Picked(K, W, s, n - 1, u[n - 1], pos)
    BY <1>11
  <2>2. \E q : Picked(K, W, s, n, IF s[n] \in W THEN Append(u[n - 1], s[n]) ELSE u[n - 1], q)
    BY <2>1, PickedStep DEF N
  <2> QED BY <1>1, <1>9, <2>2
<1> HIDE DEF T, Is
<1>12. 0..N \subseteq T
  BY <1>1, <1>10, <1>11, UpTo
<1>13. N \in T
  BY <1>1, <1>12
<1> QED BY <1>8, <1>13 DEF T, N

\* Selecting keeps the order, and each entry there once.
LEMMA OnlyFacts ==
  ASSUME NEW K, NEW W, NEW s \in Seq(K)
  PROVE  /\ Only(W, s) \in Seq(K) /\ Len(Only(W, s)) <= Len(s)
         /\ ElementsOf(Only(W, s)) = ElementsOf(s) \cap W
         /\ Once(s) => Once(Only(W, s))
         /\ Keyed(K) /\ Ascending(s) => Ascending(Only(W, s))
<1> DEFINE r == Only(W, s)
<1>1. PICK pos : Picked(K, W, s, Len(s), r, pos)
  BY OnlyPicked
<1> HIDE DEF r
<1>2. r \in Seq(K) /\ Len(r) <= Len(s) /\ DOMAIN r = 1..Len(r) /\ Len(r) \in Nat
      /\ DOMAIN s = 1..Len(s) /\ Len(s) \in Nat
  BY <1>1 DEF Picked
<1>3. /\ pos \in [1..Len(r) -> 1..Len(s)]
      /\ \A i, j \in 1..Len(r) : i < j => pos[i] < pos[j]
      /\ \A i \in 1..Len(r) : r[i] = s[pos[i]] /\ r[i] \in W
      /\ \A j \in 1..Len(s) : s[j] \in W => \E i \in 1..Len(r) : pos[i] = j
  BY <1>1 DEF Picked
<1>4. ElementsOf(r) = ElementsOf(s) \cap W
  <2>1. ASSUME NEW i \in 1..Len(r) PROVE r[i] \in ElementsOf(s) \cap W
    <3>1. pos[i] \in DOMAIN s /\ r[i] = s[pos[i]] /\ r[i] \in W
      BY <1>2, <1>3
    <3> QED BY <3>1 DEF ElementsOf
  <2>2. ASSUME NEW j \in 1..Len(s), s[j] \in W PROVE s[j] \in ElementsOf(r)
    <3>1. PICK i \in 1..Len(r) : pos[i] = j
      BY <1>3, <2>2
    <3> QED BY <1>2, <1>3, <3>1 DEF ElementsOf
  <2> QED BY <1>2, <2>1, <2>2 DEF ElementsOf
<1>5. ASSUME Once(s) PROVE Once(r)
  <2> SUFFICES ASSUME NEW i \in 1..Len(r), NEW j \in 1..Len(r), r[i] = r[j], i < j PROVE FALSE
    BY <1>2 DEF Once
  <2>1. pos[i] \in 1..Len(s) /\ pos[j] \in 1..Len(s) /\ pos[i] < pos[j] /\ s[pos[i]] = s[pos[j]]
    BY <1>3
  <2> QED BY <1>2, <1>5, <2>1 DEF Once
<1>6. ASSUME Keyed(K), Ascending(s) PROVE Ascending(r)
  <2> SUFFICES ASSUME NEW i \in 1..(Len(r) - 1) PROVE r[i].key <= r[i + 1].key
    BY DEF Ascending
  <2>1. i \in 1..Len(r) /\ i + 1 \in 1..Len(r) /\ i < i + 1
    BY <1>2
  <2>2. pos[i] \in DOMAIN s /\ pos[i + 1] \in DOMAIN s /\ pos[i] < pos[i + 1]
    BY <1>2, <1>3, <2>1
  <2>4. pos[i] <= pos[i + 1]
    BY <1>2, <2>2
  <2>3. s[pos[i]].key <= s[pos[i + 1]].key
    BY <1>6, <2>2, <2>4, AscendingFar
  <2> QED BY <1>3, <2>1, <2>3
<1> QED BY <1>2, <1>4, <1>5, <1>6 DEF r

(***************************************************************************)
(* The entries of several leaves.                                          *)
(***************************************************************************)

\* One sequence behind another.
LEMMA JoinedFacts ==
  ASSUME NEW K, Keyed(K), NEW a \in Seq(K), NEW b \in Seq(K)
  PROVE  /\ a \o b \in Seq(K)
         /\ ElementsOf(a \o b) = ElementsOf(a) \cup ElementsOf(b)
         /\ Once(a) /\ Once(b) /\ ElementsOf(a) \cap ElementsOf(b) = {} => Once(a \o b)
         /\ Ascending(a) /\ Ascending(b)
              /\ (\A x \in ElementsOf(a), y \in ElementsOf(b) : x.key <= y.key)
            => Ascending(a \o b)
<1> DEFINE c == a \o b
           m == Len(a)
           n == Len(b)
<1>1. /\ m \in Nat /\ n \in Nat /\ c \in Seq(K) /\ Len(c) = m + n
      /\ DOMAIN a = 1..m /\ DOMAIN b = 1..n /\ DOMAIN c = 1..(m + n)
      /\ \A i \in 1..m : c[i] = a[i]
  OBVIOUS
<1>2. ASSUME NEW i \in 1..n PROVE m + i \in 1..(m + n) /\ c[m + i] = b[i]
  BY <1>1
<1> HIDE DEF c, m, n
<1>3. ASSUME NEW i \in 1..(m + n), i \notin 1..m PROVE i - m \in 1..n /\ m + (i - m) = i
  BY <1>1, <1>3
<1>4. ASSUME NEW i \in 1..m PROVE c[i] \in ElementsOf(a) /\ c[i] = a[i] /\ i \in DOMAIN c
  <2>1. c[i] = a[i] /\ i \in DOMAIN a /\ i \in 1..(m + n)
    BY <1>1
  <2> QED BY <1>1, <2>1 DEF ElementsOf
<1>5. ASSUME NEW i \in 1..(m + n), i \notin 1..m PROVE c[i] \in ElementsOf(b) /\ c[i] = b[i - m]
  <2>1. i - m \in 1..n /\ m + (i - m) = i
    BY <1>3, <1>5
  <2>2. c[i] = b[i - m]
    BY <1>2, <2>1
  <2> QED BY <1>1, <2>1, <2>2 DEF ElementsOf
<1>6. ElementsOf(c) = ElementsOf(a) \cup ElementsOf(b)
  <2>1. ElementsOf(c) \subseteq ElementsOf(a) \cup ElementsOf(b)
    BY <1>1, <1>4, <1>5 DEF ElementsOf
  <2>2. ElementsOf(a) \subseteq ElementsOf(c)
    BY <1>1, <1>4 DEF ElementsOf
  <2>3. ElementsOf(b) \subseteq ElementsOf(c)
    BY <1>1, <1>2 DEF ElementsOf
  <2> QED BY <2>1, <2>2, <2>3
<1>7. ASSUME Once(a), Once(b), ElementsOf(a) \cap ElementsOf(b) = {} PROVE Once(c)
  <2> SUFFICES ASSUME NEW i \in 1..(m + n), NEW j \in 1..(m + n), c[i] = c[j] PROVE i = j
    BY <1>1 DEF Once
  <2>1. CASE i \in 1..m /\ j \in 1..m
    BY <1>1, <1>7, <2>1 DEF Once
  <2>2. CASE i \in 1..m /\ j \notin 1..m
    BY <1>4, <1>5, <1>7, <2>2
  <2>3. CASE i \notin 1..m /\ j \in 1..m
    BY <1>4, <1>5, <1>7, <2>3
  <2>4. CASE i \notin 1..m /\ j \notin 1..m
    <3>1. /\ i - m \in DOMAIN b /\ j - m \in DOMAIN b /\ m + (i - m) = i /\ m + (j - m) = j
          /\ b[i - m] = b[j - m]
      BY <1>1, <1>3, <1>5, <2>4
    <3>2. i - m = j - m
      BY <1>7, <3>1 DEF Once
    <3> QED BY <3>1, <3>2
  <2> QED BY <2>1, <2>2, <2>3, <2>4
<1>8. ASSUME Ascending(a), Ascending(b), \A x \in ElementsOf(a), y \in ElementsOf(b) : x.key <= y.key
      PROVE  Ascending(c)
  <2> SUFFICES ASSUME NEW i \in 1..(m + n - 1) PROVE c[i].key <= c[i + 1].key
    BY <1>1 DEF Ascending
  <2>1. i \in 1..(m + n) /\ i + 1 \in 1..(m + n)
    BY <1>1
  <2>2. CASE i < m
    <3>1. i \in 1..(m - 1) /\ i \in 1..m /\ i + 1 \in 1..m
      BY <1>1, <2>2
    <3>2. a[i].key <= a[i + 1].key
      BY <1>8, <3>1 DEF Ascending, m
    <3> QED BY <1>4, <3>1, <3>2
  <2>3. CASE i = m
    <3>1. i \in 1..m /\ i + 1 \notin 1..m
      BY <1>1, <2>3
    <3> QED BY <1>4, <1>5, <1>8, <2>1, <3>1
  <2>4. CASE i > m
    <3>1. i \notin 1..m /\ i + 1 \notin 1..m /\ i - m \in 1..(n - 1) /\ (i + 1) - m = (i - m) + 1
      BY <1>1, <2>1, <2>4
    <3>2. b[i - m].key <= b[(i - m) + 1].key
      BY <1>8, <3>1 DEF Ascending, n
    <3> QED BY <1>5, <2>1, <3>1, <3>2
  <2> QED BY <1>1, <2>2, <2>3, <2>4
<1> QED BY <1>1, <1>6, <1>7, <1>8 DEF c

\* f[n] joins the entries of the first n leaves.
Joins(leaves, f) ==
  /\ f[0] = <<>>
  /\ \A n \in 1..Len(leaves) : f[n] = f[n - 1] \o pages[leaves[n]].entries

\* Flat joins what the leaves hold, one after the other.
LEMMA FlatJoins ==
  ASSUME NEW leaves, Len(leaves) \in Nat,
         \A n \in 1..Len(leaves) : pages[leaves[n]].entries \in Seq(Entry)
  PROVE  \E f : Joins(leaves, f) /\ Flat(leaves) = f[Len(leaves)]
<1> DEFINE N == Len(leaves)
           more(n) == pages[leaves[n]].entries
           Is(f) == f = [n \in 0..N |-> IF n = 0 THEN <<>> ELSE f[n - 1] \o more(n)]
           step == [n \in 1..N |-> [r \in Seq(Entry) |-> r \o more(n)]]
<1>1. N \in Nat /\ <<>> \in Seq(Entry) /\ \A n \in 1..N : more(n) \in Seq(Entry)
  OBVIOUS
<1>2. step \in [1..N -> [Seq(Entry) -> Seq(Entry)]]
  <2>1. \A n \in 1..N, r \in Seq(Entry) : r \o more(n) \in Seq(Entry)
    BY <1>1
  <2> HIDE DEF more
  <2> QED BY <2>1
<1>3. \A n \in 1..N, r \in Seq(Entry) : step[n][r] = r \o more(n)
  OBVIOUS
<1> HIDE DEF step, N, more
<1>4. PICK f : Iterates(f, N, Seq(Entry), <<>>, step)
  BY <1>1, <1>2, Recursion
<1>5. /\ f \in [0..N -> Seq(Entry)] /\ f[0] = <<>>
      /\ \A n \in 1..N : f[n] = f[n - 1] \o more(n)
  <2>1. ASSUME NEW n \in 1..N PROVE f[n - 1] \in Seq(Entry)
    <3>1. n - 1 \in 0..N /\ f \in [0..N -> Seq(Entry)]
      BY <1>1, <1>4 DEF Iterates
    <3> QED BY <3>1
  <2> QED BY <1>3, <1>4, <2>1 DEF Iterates
<1>6. Is(f)
  <2>1. DOMAIN f = 0..N /\ f = [n \in 0..N |-> f[n]]
    BY <1>5
  <2>2. ASSUME NEW n \in 0..N
        PROVE  f[n] = IF n = 0 THEN <<>> ELSE f[n - 1] \o more(n)
    <3>1. n = 0 \/ n \in 1..N
      BY <1>1
    <3> QED BY <1>5, <3>1
  <2> QED BY <2>1, <2>2, Zenon
<1>7. Flat(leaves) = (CHOOSE g : Is(g))[N]
  BY DEF Flat, N, more
<1>8. PICK u : Is(u) /\ Flat(leaves) = u[N]
  BY <1>6, <1>7
<1>9. u[0] = <<>> /\ \A n \in 1..N : u[n] = u[n - 1] \o more(n)
  <2>1. \A n \in 0..N : u[n] = IF n = 0 THEN <<>> ELSE u[n - 1] \o more(n)
    BY <1>8, Zenon
  <2>2. 0 \in 0..N /\ \A n \in 1..N : n \in 0..N /\ n # 0
    BY <1>1
  <2> HIDE DEF Is
  <2> QED BY <2>1, <2>2
<1> HIDE DEF Is
<1>10. Joins(leaves, u)
  BY <1>9 DEF Joins, N, more
<1> QED BY <1>8, <1>10 DEF N

\* Of leaves each of which holds each of its entries once: what they hold together.
Held(leaves) == UNION {ElementsOf(pages[leaves[n]].entries) : n \in 1..Len(leaves)}
Distinct(leaves) ==
  /\ \A n \in 1..Len(leaves) : Once(pages[leaves[n]].entries)
  /\ \A m, n \in 1..Len(leaves) : m # n =>
        ElementsOf(pages[leaves[m]].entries) \cap ElementsOf(pages[leaves[n]].entries) = {}
Increasing(leaves) ==
  /\ \A n \in 1..Len(leaves) : Ascending(pages[leaves[n]].entries)
  /\ \A m, n \in 1..Len(leaves) : m < n =>
        \A x \in ElementsOf(pages[leaves[m]].entries), y \in ElementsOf(pages[leaves[n]].entries) :
           x.key <= y.key

\* So it holds what they hold together, once and in order if they do.
LEMMA FlatFacts ==
  ASSUME NEW leaves, Len(leaves) \in Nat,
         \A n \in 1..Len(leaves) : pages[leaves[n]].entries \in Seq(Entry)
  PROVE  /\ Flat(leaves) \in Seq(Entry) /\ ElementsOf(Flat(leaves)) = Held(leaves)
         /\ Distinct(leaves) => Once(Flat(leaves))
         /\ Increasing(leaves) => Ascending(Flat(leaves))
<1> DEFINE N == Len(leaves)
           more(n) == pages[leaves[n]].entries
           upto(n) == UNION {ElementsOf(more(k)) : k \in 1..n}
<1>1. PICK f : Joins(leaves, f) /\ Flat(leaves) = f[N]
  BY FlatJoins
<1>2. f[0] = <<>> /\ \A n \in 1..N : f[n] = f[n - 1] \o more(n)
  BY <1>1 DEF Joins
<1>3. N \in Nat /\ \A n \in 1..N : more(n) \in Seq(Entry)
  OBVIOUS
<1>4. /\ Distinct(leaves) <=>
            /\ \A n \in 1..N : Once(more(n))
            /\ \A m, n \in 1..N : m # n => ElementsOf(more(m)) \cap ElementsOf(more(n)) = {}
      /\ Increasing(leaves) <=>
            /\ \A n \in 1..N : Ascending(more(n))
            /\ \A m, n \in 1..N : m < n =>
                  \A x \in ElementsOf(more(m)), y \in ElementsOf(more(n)) : x.key <= y.key
      /\ Held(leaves) = upto(N)
  BY DEF Distinct, Increasing, Held
<1> HIDE DEF N, more
<1> DEFINE T == {n \in 0..N : /\ f[n] \in Seq(Entry) /\ ElementsOf(f[n]) = upto(n)
                              /\ Distinct(leaves) => Once(f[n])
                              /\ Increasing(leaves) => Ascending(f[n])}
<1>5. 0 \in T
  <2>1. upto(0) = {}
    <3>1. 1..0 = {}
      OBVIOUS
    <3> QED BY <3>1
  <2>2. <<>> \in Seq(Entry) /\ ElementsOf(<<>>) = {} /\ Once(<<>>) /\ Ascending(<<>>)
    BY DEF ElementsOf, Once, Ascending
  <2> HIDE DEF upto
  <2>3. /\ f[0] \in Seq(Entry) /\ ElementsOf(f[0]) = upto(0)
        /\ Once(f[0]) /\ Ascending(f[0])
    BY <1>2, <2>1, <2>2, Zenon
  <2>4. 0 \in 0..N
    BY <1>3
  <2> QED BY <2>3, <2>4
<1>6. ASSUME NEW n \in 1..N, n - 1 \in T PROVE n \in T
  <2>1. /\ f[n - 1] \in Seq(Entry) /\ ElementsOf(f[n - 1]) = upto(n - 1)
        /\ Distinct(leaves) => Once(f[n - 1])
        /\ Increasing(leaves) => Ascending(f[n - 1])
    BY <1>6
  <2>2. f[n] = f[n - 1] \o more(n) /\ more(n) \in Seq(Entry) /\ Keyed(Entry)
    BY <1>3, <1>2, EntryFields
  <2>3. upto(n) = upto(n - 1) \cup ElementsOf(more(n))
    <3>1. 1..n = 1..(n - 1) \cup {n}
      BY <1>3
    <3> QED BY <3>1
  <2>4. \A k \in 1..(n - 1) : k \in 1..N /\ k < n /\ k # n
    BY <1>3
  <2>5. ASSUME NEW x \in upto(n - 1) PROVE \E k \in 1..(n - 1) : x \in ElementsOf(more(k))
    OBVIOUS
  <2> HIDE DEF upto, T
  <2>6. f[n] \in Seq(Entry) /\ ElementsOf(f[n]) = upto(n)
    BY <2>1, <2>2, <2>3, JoinedFacts
  <2>7. ASSUME Distinct(leaves) PROVE Once(f[n])
    <3>1. ElementsOf(f[n - 1]) \cap ElementsOf(more(n)) = {}
      BY <1>4, <2>1, <2>4, <2>5, <2>7
    <3>2. Once(more(n))
      BY <1>4, <2>7
    <3> QED BY <2>1, <2>2, <2>7, <3>1, <3>2, JoinedFacts
  <2>8. ASSUME Increasing(leaves) PROVE Ascending(f[n])
    <3>1. \A x \in ElementsOf(f[n - 1]), y \in ElementsOf(more(n)) : x.key <= y.key
      BY <1>4, <2>1, <2>4, <2>5, <2>8
    <3>2. Ascending(more(n))
      BY <1>4, <2>8
    <3> QED BY <2>1, <2>2, <2>8, <3>1, <3>2, JoinedFacts
  <2>9. n \in 0..N
    BY <1>3
  <2> QED BY <2>6, <2>7, <2>8, <2>9 DEF T
<1> HIDE DEF T, upto
<1>7. N \in T
  <2>1. 0..N \subseteq T
    BY <1>3, <1>5, <1>6, UpTo
  <2> QED BY <1>3, <2>1
<1> QED BY <1>1, <1>4, <1>7 DEF T

(***************************************************************************)
(* The tree, of which V says what is in each page: R are its pages, h[p]   *)
(* is the height of page p.                                                *)
(***************************************************************************)

AnyLeaf == [leaf : {TRUE}, entries : Seq(Entry), next : Nat]
AnyInner == [leaf : {FALSE}, entries : Seq([key : Key, child : Nat]), left : Nat]
Child(node, i) == IF i = 0 THEN node.left ELSE node.entries[i].child
Leaves(V, R) == {p \in R : V[p].leaf}

\* Below a page of the tree are pages of the next height, and never the root.
Fits(node, d, R, h) ==
  /\ node \in IF d = 0 THEN AnyLeaf ELSE AnyInner
  /\ d # 0 => \A i \in 0..Len(node.entries) : Child(node, i) \in R \ {Root} /\ h[Child(node, i)] = d - 1
Tree(V, R, h) ==
  /\ Len(V) \in Nat /\ DOMAIN V = 1..Len(V) /\ R \subseteq DOMAIN V /\ Root \in R
  /\ h \in [R -> Nat] /\ h[Root] < Len(V)
  /\ \A p \in R : Fits(V[p], h[p], R, h)

\* The fields of the two kinds of nodes.
LEMMA Fields ==
  /\ \A n \in AnyLeaf : n.leaf = TRUE /\ n.entries \in Seq(Entry) /\ n.next \in Nat
                        /\ Len(n.entries) \in Nat
  /\ \A n \in AnyInner : n.leaf = FALSE /\ n.entries \in Seq([key : Key, child : Nat])
                         /\ n.left \in Nat /\ Len(n.entries) \in Nat
<1>1. ASSUME NEW n \in AnyLeaf
      PROVE  n.leaf \in {TRUE} /\ n.entries \in Seq(Entry) /\ n.next \in Nat
  BY DEF AnyLeaf
<1>2. ASSUME NEW n \in AnyInner
      PROVE  n.leaf \in {FALSE} /\ n.entries \in Seq([key : Key, child : Nat]) /\ n.left \in Nat
  BY DEF AnyInner
<1>3. \A S : \A s \in Seq(S) : Len(s) \in Nat
  OBVIOUS
<1> QED BY <1>1, <1>2, <1>3, Zenon

\* What a page of the tree looks like.
LEMMA NodeFacts ==
  ASSUME NEW V, NEW R, NEW h, Tree(V, R, h), NEW p \in R
  PROVE  /\ h[p] \in Nat /\ p \in 1..Len(V) /\ Len(V) \in Nat
         /\ V[p].leaf \in BOOLEAN /\ (V[p].leaf <=> h[p] = 0)
         /\ h[p] = 0 => V[p] \in AnyLeaf /\ V[p].entries \in Seq(Entry) /\ V[p].next \in Nat
         /\ h[p] # 0 => /\ V[p] \in AnyInner /\ V[p].left \in Nat
                        /\ V[p].entries \in Seq([key : Key, child : Nat])
         /\ Len(V[p].entries) \in Nat
<1>1. h[p] \in Nat /\ p \in 1..Len(V) /\ Len(V) \in Nat /\ Fits(V[p], h[p], R, h)
  BY DEF Tree
<1>2. CASE h[p] = 0
  <2>1. V[p] \in AnyLeaf
    BY <1>1, <1>2 DEF Fits
  <2> QED BY <1>1, <1>2, <2>1, Fields
<1>3. CASE h[p] # 0
  <2>1. V[p] \in AnyInner
    BY <1>1, <1>3 DEF Fits
  <2> QED BY <1>1, <1>3, <2>1, Fields
<1> QED BY <1>1, <1>2, <1>3

\* The page a search goes to next is a child.
LEMMA ChildForKeyFacts ==
  ASSUME NEW node \in AnyInner, NEW key \in Nat
  PROVE  /\ NotGreater(node.entries, key) \in 0..Len(node.entries)
         /\ ChildForKey(node, key) = Child(node, NotGreater(node.entries, key))
<1>1. node.entries \in Seq([key : Key, child : Nat])
  BY DEF AnyInner
<1> QED BY <1>1, EntryFields, NotGreaterFacts DEF ChildForKey, Child

\* A way down the tree.
Descends(V, R, h, step) ==
  \A p \in R : /\ step[p] \in R
               /\ IF h[p] = 0 THEN step[p] = p ELSE h[step[p]] = h[p] - 1

\* Such a walk is at a page of the tree one lower each time, and stays at a leaf.
LEMMA DescentFacts ==
  ASSUME NEW R, NEW h, Tree(pages, R, h), NEW step, Descends(pages, R, h, step),
         NEW at, at = Walk(Root, step)
  PROVE  /\ at \in [0..Len(pages) -> R] /\ at[0] = Root
         /\ \A d \in 1..Len(pages) : at[d] = step[at[d - 1]]
         /\ \A d \in 0..Len(pages) : h[at[d]] = IF d <= h[Root] THEN h[Root] - d ELSE 0
<1>1. Len(pages) \in Nat /\ Root \in R /\ h \in [R -> Nat] /\ \A p \in R : step[p] \in R
  BY DEF Tree, Descends
<1>2. /\ at \in [0..Len(pages) -> R] /\ at[0] = Root
      /\ \A d \in 1..Len(pages) : at[d] = step[at[d - 1]]
  BY <1>1, WalkFacts
<1> DEFINE T == {d \in 0..Len(pages) : h[at[d]] = IF d <= h[Root] THEN h[Root] - d ELSE 0}
<1>3. 0 \in T
  BY <1>1, <1>2
<1>4. ASSUME NEW d \in 1..Len(pages), d - 1 \in T PROVE d \in T
  <2>1. at[d] = step[at[d - 1]] /\ at[d - 1] \in R /\ d - 1 \in 0..Len(pages)
    BY <1>1, <1>2
  <2>2. h[at[d - 1]] = IF d - 1 <= h[Root] THEN h[Root] - (d - 1) ELSE 0
    BY <1>4
  <2>3. CASE h[at[d - 1]] = 0
    BY <1>1, <2>1, <2>2, <2>3 DEF Descends
  <2>4. CASE h[at[d - 1]] # 0
    BY <1>1, <2>1, <2>2, <2>4 DEF Descends
  <2> QED BY <2>3, <2>4
<1> HIDE DEF T
<1>5. 0..Len(pages) \subseteq T
  BY <1>1, <1>3, <1>4, UpTo
<1> QED BY <1>2, <1>5 DEF T

\* A search descends so ...
LEMMA TowardsKeyDescends ==
  ASSUME NEW R, NEW h, Tree(pages, R, h), NEW key \in Nat
  PROVE  /\ Descends(pages, R, h, TowardsKey(key))
         /\ \A p \in R : h[p] # 0 => TowardsKey(key)[p] = ChildForKey(pages[p], key)
<1> SUFFICES ASSUME NEW p \in R
             PROVE  /\ TowardsKey(key)[p] \in R
                    /\ h[p] = 0 => TowardsKey(key)[p] = p
                    /\ h[p] # 0 => /\ TowardsKey(key)[p] = ChildForKey(pages[p], key)
                                   /\ h[TowardsKey(key)[p]] = h[p] - 1
  BY DEF Descends
<1>1. TowardsKey(key)[p] = IF pages[p].leaf THEN p ELSE ChildForKey(pages[p], key)
  BY NodeFacts DEF TowardsKey, Page
<1>2. CASE h[p] = 0
  BY <1>1, <1>2, NodeFacts
<1>3. CASE h[p] # 0
  <2>1. pages[p] \in AnyInner /\ ~pages[p].leaf
    BY <1>3, NodeFacts
  <2>2. PICK n \in 0..Len(pages[p].entries) : ChildForKey(pages[p], key) = Child(pages[p], n)
    BY <2>1, ChildForKeyFacts
  <2>3. Fits(pages[p], h[p], R, h)
    BY DEF Tree
  <2> QED BY <1>1, <1>3, <2>1, <2>2, <2>3 DEF Fits
<1> QED BY <1>2, <1>3

\* ... and so does the way to the leftmost leaf.
LEMMA LeftwardsDescends ==
  ASSUME NEW R, NEW h, Tree(pages, R, h)
  PROVE  /\ Descends(pages, R, h, Leftwards)
         /\ \A p \in R : h[p] # 0 => Leftwards[p] = pages[p].left
<1> SUFFICES ASSUME NEW p \in R
             PROVE  /\ Leftwards[p] \in R
                    /\ h[p] = 0 => Leftwards[p] = p
                    /\ h[p] # 0 => Leftwards[p] = pages[p].left /\ h[Leftwards[p]] = h[p] - 1
  BY DEF Descends
<1>1. Leftwards[p] = IF pages[p].leaf THEN p ELSE pages[p].left
  BY NodeFacts DEF Leftwards, Page
<1>2. CASE h[p] = 0
  BY <1>1, <1>2, NodeFacts
<1>3. CASE h[p] # 0
  <2>1. 0 \in 0..Len(pages[p].entries) /\ Child(pages[p], 0) = pages[p].left
    BY NodeFacts DEF Child
  <2>2. Fits(pages[p], h[p], R, h)
    BY DEF Tree
  <2>3. Child(pages[p], 0) \in R /\ h[Child(pages[p], 0)] = h[p] - 1
    BY <1>3, <2>1, <2>2 DEF Fits
  <2> QED BY <1>1, <1>3, <2>1, <2>3, NodeFacts
<1> QED BY <1>2, <1>3

\* A path from the root to a leaf, one height at a time.
Searched(R, h, key, path) ==
  /\ path \in Seq(R) /\ Len(path) = h[Root] + 1 /\ path[1] = Root /\ h[Root] \in Nat
  /\ \A i \in 1..Len(path) : h[path[i]] = h[Root] + 1 - i
  /\ \A i \in 1..h[Root] : path[i + 1] = ChildForKey(pages[path[i]], key)
  /\ Last(path) \in Leaves(pages, R)
\* path_to_leaf finds such a path, taking at each node the child for the key.
LEMMA PathFacts ==
  ASSUME NEW R, NEW h, Tree(pages, R, h), NEW key \in Nat, NEW path, path = PathToLeaf(key)
  PROVE  Searched(R, h, key, path)
<1> DEFINE at == Walk(Root, TowardsKey(key))
           Deep(d) == pages[at[d]].leaf /\ \A c \in 0..(d - 1) : ~pages[at[c]].leaf
           H == h[Root]
<1>1. /\ at \in [0..Len(pages) -> R] /\ at[0] = Root
      /\ \A d \in 1..Len(pages) : at[d] = TowardsKey(key)[at[d - 1]]
      /\ \A d \in 0..Len(pages) : h[at[d]] = IF d <= H THEN H - d ELSE 0
  BY TowardsKeyDescends, DescentFacts
<1>2. H \in Nat /\ Len(pages) \in Nat /\ H < Len(pages)
  BY DEF Tree
<1>3. path = [i \in 1..((CHOOSE d \in 0..Len(pages) : Deep(d)) + 1) |-> at[i - 1]]
  BY DEF PathToLeaf
<1> HIDE DEF at, H
<1>4. ASSUME NEW d \in 0..Len(pages) PROVE pages[at[d]].leaf <=> d >= H
  <2>1. at[d] \in R /\ (h[at[d]] = 0 <=> d >= H)
    BY <1>1, <1>2
  <2> QED BY <2>1, NodeFacts
<1>5. H \in 0..Len(pages) /\ Deep(H)
  BY <1>2, <1>4
<1>6. \A d \in 0..Len(pages) : Deep(d) => d = H
  BY <1>2, <1>4
<1>7. (CHOOSE d \in 0..Len(pages) : Deep(d)) = H
  BY <1>5, <1>6
<1> HIDE DEF Deep
<1>8. path = [i \in 1..(H + 1) |-> at[i - 1]]
  BY <1>3, <1>7
<1>9. \A i \in 1..(H + 1) : i - 1 \in 0..Len(pages)
  BY <1>2
<1>10. path \in [1..(H + 1) -> R] /\ \A i \in 1..(H + 1) : path[i] = at[i - 1]
  BY <1>1, <1>8, <1>9
<1>11. path \in Seq(R) /\ Len(path) = H + 1
  BY <1>2, <1>10
<1>12. path[1] = Root
  BY <1>1, <1>2, <1>10
<1>13. ASSUME NEW i \in 1..(H + 1) PROVE h[path[i]] = H + 1 - i
  <2>1. i - 1 \in 0..Len(pages) /\ i - 1 <= H /\ path[i] = at[i - 1] /\ H - (i - 1) = H + 1 - i
    BY <1>2, <1>9, <1>10
  <2> QED BY <1>1, <2>1
<1>14. ASSUME NEW i \in 1..H PROVE path[i + 1] = ChildForKey(pages[path[i]], key)
  <2>1. i \in 1..(H + 1) /\ i + 1 \in 1..(H + 1) /\ (i + 1) - 1 = i /\ i \in 1..Len(pages)
    BY <1>2
  <2>2. path[i + 1] = TowardsKey(key)[path[i]] /\ path[i] \in R /\ h[path[i]] # 0
    BY <1>1, <1>2, <1>10, <1>13, <2>1
  <2> QED BY <2>2, TowardsKeyDescends
<1>15. Last(path) \in Leaves(pages, R)
  <2>1. H + 1 \in 1..(H + 1) /\ (H + 1) - 1 = H
    BY <1>2
  <2>2. Last(path) = at[H] /\ at[H] \in R
    BY <1>1, <1>2, <1>5, <1>10, <1>11, <2>1 DEF Last
  <2> QED BY <1>2, <1>4, <1>5, <2>2 DEF Leaves
<1>16. H = h[Root]
  BY DEF H
<1> QED BY <1>2, <1>11, <1>12, <1>13, <1>14, <1>15, <1>16 DEF Searched

(***************************************************************************)
(* The inductive invariant: types and the shape of the tree.               *)
(***************************************************************************)

\* The nodes whose links go no further than page n.
LeafTo(n) == [leaf : {TRUE}, entries : Seq(Entry), next : {None} \cup 1..n]
InnerTo(n) == [leaf : {FALSE}, entries : Seq([key : Key, child : 1..n]), left : 1..n]
NodeTo(n) == LeafTo(n) \cup InnerTo(n)
Roomy(node) == Len(node.entries) <= IF node.leaf THEN LeafCap ELSE NodeCap

\* A way down from the root.
Way(path, R, h) ==
  /\ path \in Seq(R) /\ path # <<>> /\ path[1] = Root
  /\ \A i \in 1..Len(path) : h[path[i]] = h[Root] + 1 - i

\* A separator on its way up: the path to where it goes, and the page that it leads to.
Owed(debt, R, h) == debt # Nothing =>
  /\ Way(debt.path, R, h)
  /\ debt.child \in R \ {Root} /\ h[debt.child] + 1 = h[Last(debt.path)]

\* The pages as they will be when todo is done.
After(V, w) == IF w.at = Len(V) + 1 THEN Append(V, w.node) ELSE [V EXCEPT ![w.at] = w.node]
Ahead == IF todo = <<>> THEN pages
         ELSE IF Len(todo) = 1 THEN After(pages, todo[1])
         ELSE After(After(pages, todo[1]), todo[2])
Due == IF Idle THEN {} ELSE {pending.entry}

\* Where an operation stands: half a node below the root still to be written, a
\* separator to be taken to the parent, or two halves of the root to be linked.
StepOK ==
  /\ Idle => todo = <<>> /\ climb = Nothing /\ ~torn
  /\ ~Idle => /\ pending.op = "insert" /\ pending.entry \notin stored \cup doubtful
              /\ todo # <<>> \/ climb # Nothing
  /\ climb # Nothing => torn
  /\ Len(todo) <= 2
  /\ Len(todo) = 1 => todo[1].at = IF climb # Nothing THEN Len(pages) + 1 ELSE Root
  /\ Len(todo) = 2 => climb = Nothing /\ todo[1].at = Len(pages) + 1 /\ todo[2].at = Root
  /\ \A i \in 1..Len(todo) : Roomy(todo[i].node)
  /\ \A e \in stored \cup doubtful \cup Due : e.loc <= used[e.key]

Shape(V, debt) == \E R, h : Tree(V, R, h) /\ Owed(debt, R, h)
TypeInv == TypeOK /\ StepOK /\ Shape(Ahead, climb) /\ Shape(pages, Nothing)

\* A sequence over some of the values.
LEMMA SeqMonotonic == ASSUME NEW A, NEW B, A \subseteq B PROVE Seq(A) \subseteq Seq(B)
<1> SUFFICES ASSUME NEW s \in Seq(A) PROVE s \in Seq(B)
  OBVIOUS
<1>1. Len(s) \in Nat /\ s \in [1..Len(s) -> A]
  OBVIOUS
<1> QED BY <1>1

\* Links that go no further than page n go no further than page m.
LEMMA NodesGrow ==
  ASSUME NEW n \in Nat, NEW m \in Nat, n <= m
  PROVE  LeafTo(n) \subseteq LeafTo(m) /\ InnerTo(n) \subseteq InnerTo(m) /\ NodeTo(n) \subseteq NodeTo(m)
<1>1. {None} \cup 1..n \subseteq {None} \cup 1..m /\ 1..n \subseteq 1..m
  OBVIOUS
<1>2. [key : Key, child : 1..n] \subseteq [key : Key, child : 1..m]
  BY <1>1
<1>3. Seq([key : Key, child : 1..n]) \subseteq Seq([key : Key, child : 1..m])
  BY <1>2, SeqMonotonic
<1>4. LeafTo(n) \subseteq LeafTo(m)
  BY <1>1 DEF LeafTo
<1>5. InnerTo(n) \subseteq InnerTo(m)
  BY <1>1, <1>3 DEF InnerTo
<1> QED BY <1>4, <1>5 DEF NodeTo

\* Such nodes are nodes.
LEMMA NodesAny ==
  ASSUME NEW n \in Nat
  PROVE  LeafTo(n) \subseteq AnyLeaf /\ InnerTo(n) \subseteq AnyInner
<1>1. {None} \cup 1..n \subseteq Nat /\ 1..n \subseteq Nat
  BY DEF None
<1> DEFINE A == [key : Key, child : 1..n]
           B == [key : Key, child : Nat]
<1>2. A \subseteq B
  OBVIOUS
<1> HIDE DEF A, B
<1>3. Seq(A) \subseteq Seq(B)
  BY <1>2, SeqMonotonic
<1> USE DEF A, B
<1> QED BY <1>1, <1>3 DEF LeafTo, InnerTo, AnyLeaf, AnyInner

\* TypeOK in these terms: pages, todo and climb, and the other variables.
Form(V, w, c) ==
  LET n == Len(V) + 1 IN
  /\ V \in Seq(NodeTo(n)) /\ \A p \in DOMAIN V : Roomy(V[p])
  /\ w \in Seq([at : 1..n, node : NodeTo(n)])
  /\ c = Nothing \/ c \in [op : {"propagate"}, key : Key, child : 1..n, path : Seq(1..n)]
Operation == [op : {"insert", "delete"}, entry : Entry]
Rest ==
  /\ pending \in Operation \cup {Nothing} /\ torn \in BOOLEAN
  /\ stored \subseteq Entry /\ doubtful \subseteq Entry
  /\ used \in [Key -> Nat] /\ \A k \in Key : used[k] <= Copies[k]
  /\ upsets \in 0..MaxUpsets /\ damage \subseteq {"cut", "equal"}

\* The type invariant in those terms.
LEMMA TypeMeans == /\ TypeOK <=> Form(pages, todo, climb) /\ Rest
                   /\ TypeOK' <=> Form(pages', todo', climb') /\ Rest'
<1>1. /\ Page = 1..(Len(pages) + 1) /\ Page \cup {None} = {None} \cup 1..(Len(pages) + 1)
      /\ LeafNode \cup InnerNode = NodeTo(Len(pages) + 1)
  BY DEF Page, None, LeafNode, InnerNode, LeafTo, InnerTo, NodeTo
<1>2. TypeOK <=> Form(pages, todo, climb) /\ Rest
  BY <1>1 DEF TypeOK, PageWrite, Climb, Form, Rest, Operation, Roomy
<1>3. /\ Page' = 1..(Len(pages') + 1) /\ Page' \cup {None} = {None} \cup 1..(Len(pages') + 1)
      /\ (LeafNode \cup InnerNode)' = NodeTo(Len(pages') + 1)
  BY DEF Page, None, LeafNode, InnerNode, LeafTo, InnerTo, NodeTo
<1>4. TypeOK' <=> Form(pages', todo', climb') /\ Rest'
  BY <1>3 DEF TypeOK, PageWrite, Climb, Form, Rest, Operation, Roomy
<1> QED BY <1>2, <1>4

\* How pages may change without harm to the tree: U is what they become, Q are its
\* pages then, and g their heights.
Grown(V, R, h, U, Q, g) ==
  /\ Len(U) \in Nat /\ DOMAIN U = 1..Len(U) /\ R \subseteq Q /\ Q \subseteq DOMAIN U
  /\ g \in [Q -> Nat] /\ g[Root] < Len(U) /\ \A p \in R \ {Root} : g[p] = h[p]
  /\ \A p \in Q : (p \in R /\ U[p] = V[p] /\ g[p] = h[p]) \/ Fits(U[p], g[p], Q, g)
LEMMA TreeGrows ==
  ASSUME NEW V, NEW R, NEW h, Tree(V, R, h), NEW U, NEW Q, NEW g, Grown(V, R, h, U, Q, g)
  PROVE  Tree(U, Q, g)
<1> SUFFICES ASSUME NEW p \in Q, p \in R, U[p] = V[p], g[p] = h[p] PROVE Fits(U[p], g[p], Q, g)
  BY DEF Tree, Grown
<1>1. Fits(V[p], h[p], R, h)
  BY DEF Tree
<1> QED BY <1>1 DEF Fits, Grown

\* The tree is there in a longer file as well.
LEMMA TreeInLonger ==
  ASSUME NEW V, NEW R, NEW h, Tree(V, R, h),
         NEW U, Len(U) \in Nat, DOMAIN U = 1..Len(U), Len(V) <= Len(U),
         \A p \in R : U[p] = V[p]
  PROVE  Tree(U, R, h)
BY DEF Tree

(***************************************************************************)
(* What the parts of an operation do.                                      *)
(***************************************************************************)

\* One page is written and the operation returns.
LEMMA WriteOne ==
  ASSUME Len(pages) \in Nat, NEW p \in 1..Len(pages), NEW node, NEW operation,
         Perform(operation, Plan(<<WriteTo(p, node)>>, Nothing))
  PROVE  /\ pages' = [pages EXCEPT ![p] = node] /\ todo' = <<>> /\ climb' = Nothing
         /\ pending' = Nothing /\ torn' = FALSE
         /\ stored' = IF operation.op = "insert" THEN stored \cup {operation.entry}
                      ELSE stored \ {operation.entry}
         /\ doubtful' = doubtful \ {operation.entry} /\ Ahead' = pages'
<1> DEFINE w == <<WriteTo(p, node)>>
           plan == Plan(w, Nothing)
<1>1. plan.writes = w /\ plan.then = Nothing
  BY DEF Plan
<1>2. Len(w) = 1 /\ Head(w) = WriteTo(p, node) /\ Tail(w) = <<>>
  OBVIOUS
<1>3. WriteTo(p, node).at = p /\ WriteTo(p, node).node = node /\ p # Fresh
  BY DEF WriteTo, Fresh
<1>4. Put(WriteTo(p, node)) = [pages EXCEPT ![p] = node]
  BY <1>3 DEF Put
<1> HIDE DEF w, plan
<1>5. Perform(operation, plan)
  BY DEF w, plan
<1>6. /\ pages' = Put(Head(plan.writes)) /\ todo' = Tail(plan.writes) /\ climb' = plan.then
      /\ pending' = Nothing /\ torn' = FALSE
      /\ stored' = IF operation.op = "insert" THEN stored \cup {operation.entry}
                   ELSE stored \ {operation.entry}
      /\ doubtful' = doubtful \ {operation.entry}
  BY <1>1, <1>2, <1>5 DEF Perform
<1> QED BY <1>1, <1>2, <1>4, <1>6 DEF Ahead

\* A node is cut in half below the root.
LEMMA WriteHalf ==
  ASSUME Len(pages) \in Nat, NEW p \in 1..Len(pages), NEW l, NEW r, NEW then, then # Nothing,
         NEW operation, Perform(operation, Plan(<<WriteTo(p, l), WriteTo(Fresh, r)>>, then))
  PROVE  /\ pages' = [pages EXCEPT ![p] = l] /\ todo' = <<WriteTo(Fresh, r)>> /\ climb' = then
         /\ pending' = operation /\ torn' = TRUE /\ stored' = stored /\ doubtful' = doubtful
         /\ Ahead' = Append(pages', r)
<1> DEFINE w == <<WriteTo(p, l), WriteTo(Fresh, r)>>
           plan == Plan(w, then)
<1>1. plan.writes = w /\ plan.then = then
  BY DEF Plan
<1>2. Len(w) = 2 /\ Head(w) = WriteTo(p, l) /\ Tail(w) = <<WriteTo(Fresh, r)>>
  OBVIOUS
<1>3. WriteTo(p, l).at = p /\ WriteTo(p, l).node = l /\ p # Fresh
  BY DEF WriteTo, Fresh
<1>4. Put(WriteTo(p, l)) = [pages EXCEPT ![p] = l]
  BY <1>3 DEF Put
<1> HIDE DEF w, plan
<1>5. Perform(operation, plan)
  BY DEF w, plan
<1>6. /\ pages' = Put(Head(plan.writes)) /\ todo' = Tail(plan.writes) /\ climb' = plan.then
      /\ pending' = operation /\ torn' = TRUE /\ stored' = stored /\ doubtful' = doubtful
  BY <1>1, <1>2, <1>5 DEF Perform
<1>7. pages' = [pages EXCEPT ![p] = l] /\ todo' = <<WriteTo(Fresh, r)>>
  BY <1>1, <1>2, <1>4, <1>6
<1>8. Len(pages') + 1 = Fresh
  BY <1>7 DEF Fresh
<1>9. Len(todo') = 1 /\ todo' # <<>> /\ todo'[1].at = Fresh /\ todo'[1].node = r
  BY <1>7 DEF WriteTo
<1>10. Ahead' = Append(pages', r)
  BY <1>8, <1>9 DEF Ahead, After
<1> QED BY <1>1, <1>6, <1>7, <1>10

\* The root is cut in half: its halves go to fresh pages.
LEMMA WriteRoots ==
  ASSUME Len(pages) \in Nat \ {0}, torn \in BOOLEAN, NEW l, NEW r, NEW root, NEW operation,
         Perform(operation, Plan(<<WriteTo(Fresh, l), WriteTo(Fresh + 1, r), WriteTo(Root, root)>>, Nothing))
  PROVE  /\ pages' = Append(pages, l) /\ todo' = <<WriteTo(Fresh + 1, r), WriteTo(Root, root)>>
         /\ climb' = Nothing /\ pending' = operation /\ torn' = torn
         /\ stored' = stored /\ doubtful' = doubtful
         /\ Ahead' = [Append(Append(pages, l), r) EXCEPT ![Root] = root]
<1> DEFINE w == <<WriteTo(Fresh, l), WriteTo(Fresh + 1, r), WriteTo(Root, root)>>
           plan == Plan(w, Nothing)
<1>1. plan.writes = w /\ plan.then = Nothing
  BY DEF Plan
<1>2. /\ Len(w) = 3 /\ Head(w) = WriteTo(Fresh, l)
      /\ Tail(w) = <<WriteTo(Fresh + 1, r), WriteTo(Root, root)>>
  OBVIOUS
<1>3. WriteTo(Fresh, l).at = Fresh /\ WriteTo(Fresh, l).node = l
  BY DEF WriteTo
<1>4. Put(WriteTo(Fresh, l)) = Append(pages, l)
  BY <1>3 DEF Put
<1> HIDE DEF w, plan
<1>5. Perform(operation, plan)
  BY DEF w, plan
<1>6. Len(plan.writes) # 1
  BY <1>1, <1>2
<1>7. /\ pages' = Put(Head(plan.writes)) /\ todo' = Tail(plan.writes) /\ climb' = plan.then
      /\ pending' = operation /\ torn' = torn /\ stored' = stored /\ doubtful' = doubtful
  BY <1>1, <1>5, <1>6, Zenon DEF Perform
<1>8. pages' = Append(pages, l) /\ todo' = <<WriteTo(Fresh + 1, r), WriteTo(Root, root)>>
  BY <1>1, <1>2, <1>4, <1>7
<1>9. /\ Len(todo') = 2 /\ todo' # <<>> /\ todo'[1].at = Fresh + 1 /\ todo'[1].node = r
      /\ todo'[2].at = Root /\ todo'[2].node = root
  BY <1>8 DEF WriteTo
<1>10. Len(pages') + 1 = Fresh + 1 /\ Len(Append(pages', r)) + 1 # Root
  BY <1>8 DEF Fresh, Root
<1>11. Ahead' = [Append(pages', r) EXCEPT ![Root] = root]
  <2>1. Ahead' = After(After(pages', todo'[1]), todo'[2])
    BY <1>9 DEF Ahead
  <2>2. After(pages', todo'[1]) = Append(pages', r)
    BY <1>9, <1>10 DEF After
  <2>3. After(Append(pages', r), todo'[2]) = [Append(pages', r) EXCEPT ![Root] = root]
    BY <1>9, <1>10 DEF After
  <2> QED BY <2>1, <2>2, <2>3
<1> QED BY <1>1, <1>7, <1>8, <1>11

\* What is left of one or two writes.
LEMMA OneLess ==
  ASSUME NEW S, NEW s, s \in Seq(S), s # <<>>
  PROVE  /\ Len(s) \in Nat \ {0} /\ Head(s) = s[1] /\ \A i \in 1..Len(s) : s[i] \in S
         /\ Len(s) = 1 => Tail(s) = <<>>
         /\ Len(s) = 2 => Tail(s) = <<s[2]>>
<1>1. Len(s) \in Nat \ {0} /\ Head(s) = s[1] /\ \A i \in 1..Len(s) : s[i] \in S
  OBVIOUS
<1>2. Tail(s) \in Seq(S) /\ Len(Tail(s)) = Len(s) - 1 /\ \A i \in 1..(Len(s) - 1) : Tail(s)[i] = s[i + 1]
  BY <1>1
<1>3. ASSUME Len(s) = 1 PROVE Tail(s) = <<>>
  <2> DEFINE t == Tail(s)
  <2>1. t \in Seq(S) /\ Len(t) = 0
    BY <1>2, <1>3
  <2> HIDE DEF t
  <2>2. t = <<>>
    BY <2>1
  <2> QED BY <2>2 DEF t
<1>4. ASSUME Len(s) = 2 PROVE Tail(s) = <<s[2]>>
  <2> DEFINE t == Tail(s)
  <2>1. t \in Seq(S) /\ Len(t) = 1 /\ t[1] = s[2]
    BY <1>2, <1>4
  <2> HIDE DEF t
  <2>2. t = <<t[1]>>
    BY <2>1
  <2> QED BY <2>1, <2>2 DEF t
<1> QED BY <1>1, <1>3, <1>4

\* The next write of an operation leads to the same pages as before.
LEMMA WriteNext ==
  ASSUME TypeOK, StepOK, Shape(pages, Nothing), Continue
  PROVE  /\ Ahead' = Ahead /\ climb' = climb
         /\ \/ /\ Len(todo) = 1 /\ todo' = <<>> /\ climb # Nothing /\ pages' = Append(pages, todo[1].node)
            \/ /\ Len(todo) = 1 /\ todo' = <<>> /\ climb = Nothing
               /\ pages' = [pages EXCEPT ![Root] = todo[1].node] /\ pending' = Nothing
            \/ /\ Len(todo) = 2 /\ todo' = <<todo[2]>> /\ pages' = Append(pages, todo[1].node)
         /\ IF Len(todo) = 1 /\ climb = Nothing
              THEN /\ pending' = Nothing /\ torn' = FALSE
                   /\ stored' = stored \cup {pending.entry} /\ doubtful' = doubtful \ {pending.entry}
              ELSE /\ pending' = pending /\ stored' = stored /\ doubtful' = doubtful
                   /\ torn' = (torn \/ climb # Nothing)
         /\ UNCHANGED <<used, upsets, damage>>
<1> DEFINE plan == Plan(todo, climb)
<1>1. plan.writes = todo /\ plan.then = climb
  BY DEF Plan
<1>2. todo \in Seq(PageWrite) /\ todo # <<>> /\ Len(todo) <= 2
  BY DEF TypeOK, StepOK, Continue
<1>3. /\ Len(todo) \in Nat \ {0} /\ Head(todo) = todo[1]
      /\ Len(todo) = 1 => Tail(todo) = <<>>
      /\ Len(todo) = 2 => Tail(todo) = <<todo[2]>>
  BY <1>2, OneLess
<1>4. todo # <<>> /\ Len(todo) \in Nat /\ Len(todo) # 0 /\ Len(todo) <= 2
  BY <1>2, <1>3
<1>5. \A n \in Nat : n # 0 /\ n <= 2 => n = 1 \/ n = 2
  OBVIOUS
<1>6. todo # <<>> /\ (Len(todo) = 1 \/ Len(todo) = 2)
  BY <1>4, <1>5, Zenon
<1>7. /\ ~Idle /\ pending.op = "insert" /\ Len(pages) \in Nat \ {0} /\ Root \in 1..Len(pages) /\ Root # Fresh
  BY <1>6 DEF StepOK, Shape, Tree, Root, Fresh
<1> HIDE DEF plan
<1>8. Perform(pending, plan) /\ UNCHANGED <<used, upsets, damage>>
  BY DEF Continue, plan
<1>9. CASE Len(todo) = 1
  <2>1. Head(todo) = todo[1] /\ Tail(todo) = <<>>
    BY <1>3, <1>9
  <2>2. CASE climb # Nothing
    <3>1. todo[1].at = Fresh /\ Put(todo[1]) = Append(pages, todo[1].node)
      BY <1>9, <2>2 DEF StepOK, Put, Fresh
    <3>2. /\ pages' = Append(pages, todo[1].node) /\ todo' = <<>> /\ climb' = climb /\ pending' = pending
          /\ torn' = (torn \/ climb # Nothing) /\ stored' = stored /\ doubtful' = doubtful
      BY <1>1, <1>8, <1>9, <2>1, <2>2, <3>1, Zenon DEF Perform
    <3>3. Ahead' = Ahead
      BY <1>6, <1>9, <3>1, <3>2 DEF Ahead, After, Fresh
    <3> QED BY <1>8, <1>9, <2>2, <3>2, <3>3
  <2>3. CASE climb = Nothing
    <3>1. todo[1].at = Root /\ Put(todo[1]) = [pages EXCEPT ![Root] = todo[1].node]
      BY <1>7, <1>9, <2>3 DEF StepOK, Put
    <3>2. /\ pages' = [pages EXCEPT ![Root] = todo[1].node] /\ todo' = <<>> /\ climb' = climb
          /\ pending' = Nothing /\ torn' = FALSE
          /\ stored' = stored \cup {pending.entry} /\ doubtful' = doubtful \ {pending.entry}
      BY <1>1, <1>7, <1>8, <1>9, <2>1, <2>3, <3>1 DEF Perform
    <3>3. Ahead' = Ahead
      BY <1>6, <1>7, <1>9, <3>1, <3>2 DEF Ahead, After, Fresh
    <3> QED BY <1>8, <1>9, <2>3, <3>2, <3>3
  <2> QED BY <2>2, <2>3
<1>10. CASE Len(todo) = 2
  <2>1. Len(todo) # 1
    BY <1>10
  <2>2. Head(todo) = todo[1] /\ Tail(todo) = <<todo[2]>>
    BY <1>3, <1>10
  <2>3. climb = Nothing /\ todo[1].at = Fresh /\ Put(todo[1]) = Append(pages, todo[1].node)
    BY <1>10 DEF StepOK, Put, Fresh
  <2>4. /\ pages' = Append(pages, todo[1].node) /\ todo' = <<todo[2]>> /\ climb' = climb
        /\ pending' = pending /\ torn' = (torn \/ climb # Nothing)
        /\ stored' = stored /\ doubtful' = doubtful
    BY <1>1, <1>8, <2>1, <2>2, <2>3, Zenon DEF Perform
  <2>5. Ahead' = Ahead
    BY <1>6, <1>10, <2>3, <2>4 DEF Ahead, After, Fresh
  <2> QED BY <1>8, <2>1, <1>10, <2>4, <2>5, Zenon
<1> QED BY <1>6, <1>9, <1>10, Zenon

(***************************************************************************)
(* What a write does to the tree: a node replaced, a node cut in half      *)
(* below the root, and the root cut in half.                               *)
(***************************************************************************)

\* What is built as a leaf or an internal node is one.
LEMMA Nodes ==
  /\ \A s \in Seq(Entry), n \in Nat : Leaf(s, n) \in AnyLeaf
  /\ \A s \in Seq([key : Key, child : Nat]), n \in Nat : Inner(s, n) \in AnyInner
BY Zenon DEF Leaf, Inner, AnyLeaf, AnyInner

Replaced(V, U, p, node) ==
  /\ Len(U) = Len(V) /\ DOMAIN U = 1..Len(V) /\ U[p] = node
  /\ \A x \in 1..Len(V) : x # p => U[x] = V[x]
Longer(V, U, node) ==
  /\ Len(U) = Len(V) + 1 /\ DOMAIN U = 1..(Len(V) + 1) /\ U[Len(V) + 1] = node
  /\ \A x \in 1..Len(V) : U[x] = V[x]
LEMMA Changed ==
  ASSUME NEW S, NEW V, V \in Seq(S), NEW node
  PROVE  /\ \A p \in 1..Len(V) : Replaced(V, [V EXCEPT ![p] = node], p, node)
         /\ Longer(V, Append(V, node), node)
         /\ \E T : Append(V, node) \in Seq(T)
<1>1. ASSUME NEW p \in 1..Len(V) PROVE Replaced(V, [V EXCEPT ![p] = node], p, node)
  BY DEF Replaced
<1>2. Longer(V, Append(V, node), node)
  BY DEF Longer
<1>3. Append(V, node) \in Seq(S \cup {node})
  <2> DEFINE T == S \cup {node}
  <2>1. V \in Seq(T) /\ node \in T
    BY SeqMonotonic
  <2> HIDE DEF T
  <2>2. Append(V, node) \in Seq(T)
    BY <2>1
  <2> QED BY <2>2 DEF T
<1> QED BY <1>1, <1>2, <1>3

\* A node that fits a tree fits one that has more pages.
LEMMA FitsMore ==
  ASSUME NEW node, NEW d, NEW R, NEW h, Fits(node, d, R, h), NEW Q, R \subseteq Q, NEW g,
         \A p \in R \ {Root} : g[p] = h[p]
  PROVE  Fits(node, d, Q, g)
BY DEF Fits

\* A tree with a page rewritten by a node that fits is a tree.
LEMMA TreeOne ==
  ASSUME NEW V, NEW S, V \in Seq(S), NEW R, NEW h, Tree(V, R, h), NEW p \in R,
         NEW node, Fits(node, h[p], R, h)
  PROVE  Tree([V EXCEPT ![p] = node], R, h)
<1> DEFINE U == [V EXCEPT ![p] = node]
<1>1. Len(V) \in Nat /\ DOMAIN V = 1..Len(V) /\ p \in 1..Len(V)
  BY DEF Tree
<1>2. Len(U) = Len(V) /\ DOMAIN U = 1..Len(U) /\ U[p] = node /\ \A x \in R \ {p} : U[x] = V[x]
  BY <1>1, Changed DEF Tree, Replaced
<1> HIDE DEF U
<1>3. Tree(U, R, h)
  BY <1>1, <1>2 DEF Tree
<1> QED BY <1>3 DEF U

HalfHeights(R, h, n, p) == [x \in R \cup {n} |-> IF x = n THEN h[p] ELSE h[x]]
RootHeights(R, h, n) == [x \in R \cup {n, n + 1} |-> IF x = Root THEN h[Root] + 1
                                                     ELSE IF x = n \/ x = n + 1 THEN h[Root] ELSE h[x]]

Halved(V, R, h, p, l, r, W, n, g) ==
  /\ (\E S : V \in Seq(S)) /\ p \in R \ {Root} /\ Fits(l, h[p], R, h) /\ Fits(r, h[p], R, h)
  /\ W = Append([V EXCEPT ![p] = l], r) /\ n = Len(V) + 1 /\ g = HalfHeights(R, h, n, p)
HalfTree(R, h, p, W, n, g) ==
  n \notin R /\ Tree(W, R \cup {n}, g) /\ g[n] = h[p] /\ \A x \in R : g[x] = h[x]
LEMMA TreeHalf ==
  ASSUME NEW V, NEW R, NEW h, Tree(V, R, h), NEW p, NEW l, NEW r, NEW W, NEW n, NEW g,
         Halved(V, R, h, p, l, r, W, n, g)
  PROVE  HalfTree(R, h, p, W, n, g)
<1> DEFINE U == [V EXCEPT ![p] = l]
           X == Append(U, r)
           Q == R \cup {n}
<1>1. W = X /\ \E S : V \in Seq(S)
  BY DEF Halved
<1>2. /\ p \in R \ {Root} /\ Fits(l, h[p], R, h) /\ Fits(r, h[p], R, h) /\ n = Len(V) + 1
      /\ g = HalfHeights(R, h, n, p)
  BY DEF Halved
<1>3. /\ Len(V) \in Nat /\ DOMAIN V = 1..Len(V) /\ p \in 1..Len(V) /\ R \subseteq 1..Len(V)
      /\ Root \in R /\ h \in [R -> Nat] /\ h[Root] < Len(V) /\ \A x \in R : h[x] \in Nat
  BY <1>2 DEF Tree
<1>4. Len(U) = Len(V) /\ DOMAIN U = 1..Len(V) /\ U[p] = l /\ \A x \in R \ {p} : U[x] = V[x]
  BY <1>1, <1>3
<1>5. /\ Len(X) = n /\ DOMAIN X = 1..n /\ n \in Nat /\ n \notin R
      /\ X[n] = r /\ \A x \in 1..Len(V) : X[x] = U[x]
  BY <1>2, <1>3, <1>4
<1> HIDE DEF U, X
<1>6. g \in [Q -> Nat] /\ g[n] = h[p] /\ \A x \in R : g[x] = h[x]
  BY <1>3, <1>5, <1>2 DEF HalfHeights
<1>7. Fits(l, h[p], Q, g) /\ Fits(r, h[p], Q, g)
  BY <1>2, <1>6, FitsMore
<1>8. Grown(V, R, h, X, Q, g)
  <2>1. Q \subseteq 1..n /\ R \subseteq Q
    BY <1>2, <1>3
  <2>2. Q \subseteq DOMAIN X /\ R \subseteq Q /\ Len(X) \in Nat /\ DOMAIN X = 1..Len(X)
    BY <1>5, <2>1
  <2>3. g[Root] < Len(X)
    BY <1>2, <1>3, <1>5, <1>6
  <2>4. ASSUME NEW x \in Q PROVE (x \in R /\ X[x] = V[x] /\ g[x] = h[x]) \/ Fits(X[x], g[x], Q, g)
    BY <1>3, <1>4, <1>5, <1>6, <1>7
  <2> QED BY <1>6, <2>2, <2>3, <2>4, Zenon DEF Grown
<1>9. Tree(X, Q, g)
  BY <1>8, TreeGrows
<1> QED BY <1>1, <1>5, <1>6, <1>9 DEF HalfTree

Rooted(V, R, h, l, r, key, root, W, n, g) ==
  /\ (\E S : V \in Seq(S)) /\ Fits(l, h[Root], R, h) /\ Fits(r, h[Root], R, h) /\ key \in Key
  /\ root = Inner(<<[key |-> key, child |-> n + 1]>>, n)
  /\ W = [Append(Append(V, l), r) EXCEPT ![Root] = root]
  /\ n = Len(V) + 1 /\ g = RootHeights(R, h, n)
RootTree(R, h, W, n, g) ==
  /\ n \notin R /\ n + 1 \notin R /\ Tree(W, R \cup {n, n + 1}, g)
  /\ g[Root] = h[Root] + 1 /\ g[n] = h[Root] /\ g[n + 1] = h[Root]
  /\ \A x \in R \ {Root} : g[x] = h[x]
LEMMA TreeRoots ==
  ASSUME NEW V, NEW R, NEW h, Tree(V, R, h), NEW l, NEW r, NEW key, NEW root, NEW W, NEW n, NEW g,
         Rooted(V, R, h, l, r, key, root, W, n, g)
  PROVE  RootTree(R, h, W, n, g)
<1> DEFINE Q == R \cup {n, n + 1}
<1> DEFINE A == Append(V, l)
           B == Append(A, r)
           X == [B EXCEPT ![Root] = root]
<1>1. W = X /\ \E S : V \in Seq(S)
  BY DEF Rooted
<1>2. /\ Fits(l, h[Root], R, h) /\ Fits(r, h[Root], R, h) /\ n = Len(V) + 1 /\ key \in Key
      /\ root = Inner(<<[key |-> key, child |-> n + 1]>>, n) /\ g = RootHeights(R, h, n)
  BY DEF Rooted
<1>3. /\ Len(V) \in Nat /\ DOMAIN V = 1..Len(V) /\ R \subseteq 1..Len(V)
      /\ Root \in R /\ h \in [R -> Nat] /\ h[Root] < Len(V) /\ \A x \in R : h[x] \in Nat
      /\ Root \in 1..Len(V)
  BY DEF Tree
<1>4. /\ n \in Nat /\ n \notin R /\ n + 1 \notin R /\ Root # n /\ Root # n + 1
      /\ n \in 1..n /\ n \in 1..(n + 1) /\ n + 1 \in 1..(n + 1) /\ 1..Len(V) \subseteq 1..n
      /\ 1..n \subseteq 1..(n + 1) /\ h[Root] \in Nat /\ h[Root] + 1 \in Nat
  BY <1>3, <1>2
<1>5. Longer(V, A, l) /\ \E T : A \in Seq(T)
  BY <1>1, Changed
<1>6. Longer(A, B, r) /\ \E T : B \in Seq(T)
  <2> HIDE DEF A
  <2> QED BY <1>5, Changed
<1>7. Replaced(B, X, Root, root)
  <2> HIDE DEF A, B
  <2>1. Root \in 1..Len(B)
    BY <1>3, <1>4, <1>5, <1>6, <1>2 DEF Longer
  <2> QED BY <1>6, <2>1, Changed
<1> HIDE DEF A, B, X
<1>8. /\ g \in [Q -> Nat] /\ g[n] = h[Root] /\ g[n + 1] = h[Root] /\ g[Root] = h[Root] + 1
      /\ \A x \in R \ {Root} : g[x] = h[x]
  <2>1. \A x \in Q : x = n \/ x = n + 1 \/ x \in R
    OBVIOUS
  <2>2. \A x \in Q : (IF x = Root THEN h[Root] + 1 ELSE IF x = n \/ x = n + 1 THEN h[Root] ELSE h[x]) \in Nat
    BY <1>3, <1>4, <2>1
  <2>3. g \in [Q -> Nat]
    BY <1>2, <2>2 DEF RootHeights
  <2>4. n \in Q /\ n + 1 \in Q /\ Root \in Q /\ R \subseteq Q
    BY <1>3
  <2> QED BY <1>4, <1>2, <2>3, <2>4 DEF RootHeights
<1>9. Fits(l, h[Root], Q, g) /\ Fits(r, h[Root], Q, g)
  BY <1>8, <1>2, FitsMore
<1>10. Fits(root, g[Root], Q, g)
  <2> DEFINE s == <<[key |-> key, child |-> n + 1]>>
  <2>1. [key |-> key, child |-> n + 1] \in [key : Key, child : Nat]
    BY <1>4, <1>2
  <2>2. s \in Seq([key : Key, child : Nat]) /\ Len(s) = 1 /\ s[1].child = n + 1
    BY <2>1
  <2> HIDE DEF s
  <2>3. root = Inner(s, n)
    BY <1>2 DEF s
  <2>4. root \in AnyInner
    BY <1>4, <2>2, <2>3, Nodes
  <2>5. Child(root, 0) = n /\ Child(root, 1) = n + 1 /\ Len(root.entries) = 1
    BY <2>2, <2>3 DEF Child, Inner
  <2>6. g[Root] # 0 /\ g[Root] - 1 = h[Root] /\ \A i \in 0..1 : i = 0 \/ i = 1
    BY <1>4, <1>8
  <2>7. n \in Q \ {Root} /\ n + 1 \in Q \ {Root}
    BY <1>4
  <2>8. ASSUME NEW i \in 0..1
        PROVE  Child(root, i) \in Q \ {Root} /\ g[Child(root, i)] = g[Root] - 1
    BY <1>8, <2>5, <2>6, <2>7
  <2> QED BY <2>4, <2>5, <2>6, <2>8 DEF Fits
<1>11. Len(X) = n + 1 /\ DOMAIN X = 1..(n + 1) /\ X[n] = l /\ X[n + 1] = r /\ X[Root] = root
  BY <1>3, <1>4, <1>5, <1>6, <1>7, <1>2 DEF Longer, Replaced
<1>12. \A x \in R \ {Root} : X[x] = V[x]
  BY <1>3, <1>4, <1>5, <1>6, <1>7, <1>2 DEF Longer, Replaced
<1>13. Grown(V, R, h, X, Q, g)
  <2>1. Q \subseteq 1..(n + 1) /\ R \subseteq Q
    BY <1>3, <1>4
  <2>2. g[Root] < n + 1
    BY <1>3, <1>8, <1>2
  <2>3. ASSUME NEW x \in Q PROVE (x \in R /\ X[x] = V[x] /\ g[x] = h[x]) \/ Fits(X[x], g[x], Q, g)
    BY <1>8, <1>9, <1>10, <1>11, <1>12
  <2>4. Len(X) \in Nat /\ DOMAIN X = 1..Len(X) /\ Q \subseteq DOMAIN X /\ g[Root] < Len(X)
    BY <1>4, <1>11, <2>1, <2>2
  <2> QED BY <1>8, <2>1, <2>3, <2>4, Zenon DEF Grown
<1>14. Tree(X, Q, g)
  BY <1>13, TreeGrows
<1> QED BY <1>1, <1>4, <1>8, <1>14 DEF RootTree

(***************************************************************************)
(* Every step keeps types and shape.                                       *)
(***************************************************************************)

\* Pages whose links lead to one another or to the next page, and are not too full.
PagesTo(V, n) == V \in Seq(NodeTo(n)) /\ \A p \in DOMAIN V : Roomy(V[p])

\* The pages keep their types when one is rewritten ...
LEMMA PagesReplaced ==
  ASSUME NEW V, NEW n \in Nat, PagesTo(V, n), NEW p \in 1..Len(V), NEW node \in NodeTo(n), Roomy(node)
  PROVE  PagesTo([V EXCEPT ![p] = node], n)
<1> DEFINE T == NodeTo(n)
           U == [V EXCEPT ![p] = node]
<1>1. V \in Seq(T) /\ node \in T
  BY DEF PagesTo
<1> HIDE DEF T
<1>2. U \in Seq(T) /\ DOMAIN U = DOMAIN V /\ \A x \in DOMAIN U : U[x] = IF x = p THEN node ELSE V[x]
  BY <1>1
<1> HIDE DEF U
<1>3. \A x \in DOMAIN U : Roomy(U[x])
  BY <1>2 DEF PagesTo
<1> QED BY <1>2, <1>3 DEF PagesTo, T, U

\* ... and when one is added.
LEMMA PagesLonger ==
  ASSUME NEW V, NEW n \in Nat, PagesTo(V, n), NEW node \in NodeTo(n + 1), Roomy(node)
  PROVE  PagesTo(Append(V, node), n + 1)
<1> DEFINE T == NodeTo(n + 1)
           U == Append(V, node)
<1>1. NodeTo(n) \subseteq T
  BY NodesGrow
<1>2. V \in Seq(T) /\ node \in T
  BY <1>1, SeqMonotonic DEF PagesTo
<1> HIDE DEF T
<1>3. /\ U \in Seq(T) /\ DOMAIN V = 1..Len(V) /\ DOMAIN U = 1..(Len(V) + 1)
      /\ \A x \in DOMAIN U : U[x] = IF x = Len(V) + 1 THEN node ELSE V[x]
  BY <1>2
<1>4. Len(V) \in Nat
  BY <1>2
<1>5. \A x \in DOMAIN U : x = Len(V) + 1 \/ x \in DOMAIN V
  BY <1>3, <1>4
<1> HIDE DEF U
<1>6. \A x \in DOMAIN U : Roomy(U[x])
  BY <1>3, <1>5 DEF PagesTo
<1> QED BY <1>3, <1>6 DEF PagesTo, T, U

\* What a step on behalf of an entry keeps apart from the pages.
Counted(entry) ==
  /\ entry \in Entry /\ used' \in [Key -> Nat] /\ \A k \in Key : used'[k] <= Copies[k]
  /\ \A e \in stored \cup doubtful \cup {entry} : e.loc <= used'[e.key]
  /\ upsets' \in 0..MaxUpsets /\ damage' \subseteq {"cut", "equal"}

\* Nodes fit to be written for a page of height d, and what an operation sets out to write.
Fine(node, n, d, R, h) == node \in NodeTo(n) /\ Roomy(node) /\ Fits(node, d, R, h)
WritesOne(R, h, p, node, operation) ==
  /\ p \in R /\ Fine(node, Len(pages) + 1, h[p], R, h)
  /\ Perform(operation, Plan(<<WriteTo(p, node)>>, Nothing))
WritesHalf(R, h, path, l, r, key, operation) ==
  /\ Way(path, R, h) /\ Last(path) # Root /\ key \in Key
  /\ Fine(l, Len(pages) + 1, h[Last(path)], R, h) /\ Fine(r, Len(pages) + 1, h[Last(path)], R, h)
  /\ Perform(operation, Plan(<<WriteTo(Last(path), l), WriteTo(Fresh, r)>>, ToParent(path, key, Fresh)))
WritesRoots(R, h, l, r, key, operation) ==
  /\ key \in Key /\ Fine(l, Len(pages) + 2, h[Root], R, h) /\ Fine(r, Len(pages) + 2, h[Root], R, h)
  /\ Perform(operation, Plan(<<WriteTo(Fresh, l), WriteTo(Fresh + 1, r), NewRoot(Fresh, Fresh + 1, key)>>,
                             Nothing))

\* One page of the tree written.
OneWritten(R, h, p, node, operation) ==
  /\ pages' = [pages EXCEPT ![p] = node] /\ todo' = <<>> /\ climb' = Nothing /\ pending' = Nothing
  /\ torn' = FALSE
  /\ stored' = IF operation.op = "insert" THEN stored \cup {operation.entry}
               ELSE stored \ {operation.entry}
  /\ doubtful' = doubtful \ {operation.entry} /\ Ahead' = pages'
  /\ Tree(pages', R, h) /\ Replaced(pages, pages', p, node)
LEMMA WriteOneTree ==
  ASSUME TypeOK, NEW R, NEW h, Tree(pages, R, h), NEW p, NEW node, NEW operation,
         WritesOne(R, h, p, node, operation)
  PROVE  OneWritten(R, h, p, node, operation)
<1>1. /\ pages \in Seq(NodeTo(Len(pages) + 1)) /\ Len(pages) \in Nat /\ p \in 1..Len(pages)
      /\ p \in R /\ Fits(node, h[p], R, h)
  BY TypeMeans DEF Form, Tree, WritesOne, Fine
<1>2. Perform(operation, Plan(<<WriteTo(p, node)>>, Nothing))
  BY DEF WritesOne
<1>3. /\ pages' = [pages EXCEPT ![p] = node] /\ todo' = <<>> /\ climb' = Nothing
      /\ pending' = Nothing /\ torn' = FALSE
      /\ stored' = IF operation.op = "insert" THEN stored \cup {operation.entry}
                   ELSE stored \ {operation.entry}
      /\ doubtful' = doubtful \ {operation.entry} /\ Ahead' = pages'
  BY <1>1, <1>2, WriteOne
<1>4. Tree(pages', R, h)
  BY <1>1, <1>3, TreeOne
<1>5. Replaced(pages, pages', p, node)
  BY <1>1, <1>3, Changed
<1> QED BY <1>3, <1>4, <1>5 DEF OneWritten

\* Writing one page keeps the invariant.
LEMMA StepOne ==
  ASSUME TypeInv, NEW R, NEW h, Tree(pages, R, h), NEW p, NEW node,
         NEW operation \in Operation, Counted(operation.entry), WritesOne(R, h, p, node, operation)
  PROVE  TypeInv'
<1>1. Form(pages, todo, climb) /\ Rest /\ Len(pages) \in Nat /\ p \in 1..Len(pages)
  BY TypeMeans DEF TypeInv, Tree, WritesOne
<1>2. /\ pages' = [pages EXCEPT ![p] = node] /\ todo' = <<>> /\ climb' = Nothing
      /\ pending' = Nothing /\ torn' = FALSE
      /\ stored' = IF operation.op = "insert" THEN stored \cup {operation.entry}
                   ELSE stored \ {operation.entry}
      /\ doubtful' = doubtful \ {operation.entry} /\ Ahead' = pages' /\ Tree(pages', R, h)
  <2>1. TypeOK
    BY DEF TypeInv
  <2>2. OneWritten(R, h, p, node, operation)
    BY <2>1, WriteOneTree
  <2> QED BY <2>2 DEF OneWritten
<1>3. node \in NodeTo(Len(pages) + 1) /\ Roomy(node)
  BY DEF WritesOne, Fine
<1>4. Form(pages', todo', climb')
  <2>1. PagesTo(pages', Len(pages) + 1) /\ Len(pages) + 1 \in Nat
    BY <1>1, <1>2, <1>3, PagesReplaced DEF Form, PagesTo
  <2>2. Len(pages') = Len(pages)
    BY <1>1, <1>2 DEF Form
  <2> QED BY <1>2, <2>1, <2>2 DEF Form, PagesTo
<1>5. Rest'
  BY <1>1, <1>2 DEF Rest, Counted, Operation
<1>6. TypeOK'
  BY <1>4, <1>5, TypeMeans
<1>7. StepOK'
  <2>1. Due' = {} /\ Idle' /\ Len(todo') = 0
    BY <1>2 DEF Due, Idle
  <2>2. \A e \in (stored \cup doubtful \cup Due)' : e.loc <= used'[e.key]
    BY <1>2, <2>1 DEF Counted
  <2> QED BY <1>2, <2>1, <2>2 DEF StepOK
<1>8. Shape(Ahead', climb') /\ Shape(pages', Nothing)
  BY <1>2 DEF Shape, Owed
<1> QED BY <1>6, <1>7, <1>8 DEF TypeInv

\* The way to a page that is not the root, without that page, is the way to its parent.
LEMMA FrontWay ==
  ASSUME NEW V, NEW R, NEW h, Tree(V, R, h), NEW path, Way(path, R, h), Last(path) # Root
  PROVE  /\ Way(Front(path), R, h) /\ Last(path) \in R
         /\ h[Last(Front(path))] = h[Last(path)] + 1
<1> DEFINE f == Front(path)
           n == Len(path)
<1>1. Root \in R /\ \A x \in R : h[x] \in Nat
  BY DEF Tree
<1>2. path \in Seq(R) /\ n \in Nat /\ n # 0 /\ n # 1
  BY DEF Way, Last
<1>3. n >= 2
  <2> HIDE DEF n
  <2> QED BY <1>2
<1>4. f \in Seq(R) /\ Len(f) = n - 1 /\ \A i \in 1..(n - 1) : f[i] = path[i]
  BY <1>2, <1>3 DEF Front
<1>5. f # <<>> /\ n - 1 \in 1..(n - 1) /\ n \in 1..n /\ 1 \in 1..(n - 1) /\ 1..(n - 1) \subseteq 1..n
  BY <1>3, <1>4
<1> HIDE DEF n
<1>6. Last(f) = path[n - 1] /\ Last(path) = path[n] /\ path[n] \in R /\ path[n - 1] \in R
  BY <1>2, <1>4, <1>5 DEF Last, n
<1> HIDE DEF f
<1>7. h[path[n]] = h[Root] + 1 - n /\ h[path[n - 1]] = h[Root] + 1 - (n - 1)
  BY <1>5 DEF Way, n
<1>8. h[Root] \in Nat /\ h[Last(f)] = h[Last(path)] + 1
  BY <1>1, <1>2, <1>6, <1>7
<1>9. f[1] = Root /\ \A i \in 1..Len(f) : h[f[i]] = h[Root] + 1 - i
  BY <1>4, <1>5 DEF Way, n
<1> QED BY <1>4, <1>5, <1>6, <1>8, <1>9 DEF Way, f

\* A way down a tree is one down a tree with more pages.
LEMMA WayMore ==
  ASSUME NEW R, NEW h, NEW path, Way(path, R, h), NEW Q, R \subseteq Q, NEW g, Root \in R,
         \A x \in R : g[x] = h[x]
  PROVE  Way(path, Q, g)
<1>1. path \in Seq(R) /\ \A i \in 1..Len(path) : path[i] \in R
  BY DEF Way
<1>2. path \in Seq(Q)
  BY <1>1, SeqMonotonic
<1> QED BY <1>1, <1>2 DEF Way

\* A node below the root cut in half, when both halves are written.
HalfWritten(R, h, p, l, r, path, key, operation, n, g) ==
  /\ n = Len(pages) + 1 /\ g = HalfHeights(R, h, n, p)
  /\ pages' = [pages EXCEPT ![p] = l] /\ todo' = <<WriteTo(n, r)>> /\ climb' = ToParent(path, key, n)
  /\ pending' = operation /\ torn' = TRUE /\ stored' = stored /\ doubtful' = doubtful
  /\ Ahead' = Append(pages', r) /\ Tree(pages', R, h)
  /\ Replaced(pages, pages', p, l) /\ Longer(pages', Ahead', r)
  /\ HalfTree(R, h, p, Ahead', n, g) /\ Owed(climb', R \cup {n}, g)
  /\ p \in R /\ p \in 1..Len(pages) /\ Way(Front(path), R, h) /\ climb' # Nothing
LEMMA WriteHalfTree ==
  ASSUME TypeOK, NEW R, NEW h, Tree(pages, R, h), NEW path, NEW p, p = Last(path), NEW l, NEW r,
         NEW key, NEW operation, WritesHalf(R, h, path, l, r, key, operation),
         NEW n, n = Len(pages) + 1, NEW g, g = HalfHeights(R, h, n, p)
  PROVE  HalfWritten(R, h, p, l, r, path, key, operation, n, g)
<1> DEFINE then == ToParent(path, key, Fresh)
           Q == R \cup {n}
<1>1. Len(pages) \in Nat /\ pages \in Seq(NodeTo(n)) /\ n \in Nat
  BY TypeMeans DEF Tree, Form
<1>2. Root \in R /\ R \subseteq 1..Len(pages) /\ \A x \in R : h[x] \in Nat
  BY DEF Tree
<1>3. Way(Front(path), R, h) /\ p \in R /\ h[Last(Front(path))] = h[p] + 1 /\ p \in 1..Len(pages)
  <2>1. Way(path, R, h) /\ Last(path) # Root
    BY DEF WritesHalf
  <2>2. Way(Front(path), R, h) /\ Last(path) \in R /\ h[Last(Front(path))] = h[Last(path)] + 1
    BY <2>1, FrontWay
  <2> QED BY <1>2, <2>2
<1>4. /\ then.child = n /\ then.path = Front(path) /\ then # Nothing /\ then = ToParent(path, key, n)
      /\ Fresh = n
  BY DEF ToParent, Nothing, Fresh
<1>5. /\ pages' = [pages EXCEPT ![p] = l] /\ todo' = <<WriteTo(Fresh, r)>> /\ climb' = then
      /\ pending' = operation /\ torn' = TRUE /\ stored' = stored /\ doubtful' = doubtful
      /\ Ahead' = Append(pages', r)
  <2>1. Perform(operation, Plan(<<WriteTo(p, l), WriteTo(Fresh, r)>>, then))
    BY DEF WritesHalf
  <2> QED BY <1>1, <1>3, <1>4, <2>1, WriteHalf
<1>6. Fits(l, h[p], R, h) /\ Fits(r, h[p], R, h) /\ p # Root
  BY DEF WritesHalf, Fine
<1> HIDE DEF then, Q
<1>7. HalfTree(R, h, p, Ahead', n, g)
  <2>1. Ahead' = Append([pages EXCEPT ![p] = l], r)
    BY <1>5
  <2>2. Halved(pages, R, h, p, l, r, Ahead', n, g)
    BY <1>1, <1>3, <1>6, <2>1, Zenon DEF Halved
  <2> QED BY <2>2, TreeHalf
<1>8. Owed(then, Q, g)
  <2>1. n \notin R /\ g[n] = h[p] /\ \A x \in R : g[x] = h[x]
    BY <1>7 DEF HalfTree
  <2>2. Q = R \cup {n}
    BY DEF Q
  <2>3. n \in Q /\ n # Root /\ R \subseteq Q
    BY <1>2, <2>1, <2>2
  <2>4. Way(Front(path), Q, g)
    <3>1. Way(Front(path), R, h) /\ R \subseteq Q /\ Root \in R /\ \A x \in R : g[x] = h[x]
      BY <1>2, <1>3, <2>1, <2>3
    <3> QED BY <3>1, WayMore
  <2>5. Last(Front(path)) \in R
    BY <1>3 DEF Way, Last
  <2> QED BY <1>3, <1>4, <2>1, <2>3, <2>4, <2>5 DEF Owed
<1>9. Tree(pages', R, h)
  BY <1>1, <1>3, <1>5, <1>6, TreeOne
<1>10. Replaced(pages, pages', p, l)
  BY <1>1, <1>3, <1>5, Changed
<1>11. Longer(pages', Ahead', r)
  <2> DEFINE S == NodeTo(n) \cup {l}
  <2>1. pages \in Seq(S) /\ l \in S
    BY <1>1, SeqMonotonic
  <2> HIDE DEF S
  <2>2. [pages EXCEPT ![p] = l] \in Seq(S)
    <3>1. pages \in [1..Len(pages) -> S] /\ Len(pages) \in Nat
      BY <2>1
    <3>2. [pages EXCEPT ![p] = l] \in [1..Len(pages) -> S]
      BY <2>1, <3>1
    <3> QED BY <3>1, <3>2
  <2>3. pages' \in Seq(S)
    BY <1>5, <2>2, Zenon
  <2> QED BY <1>5, <2>3, Changed
<1> QED BY <1>3, <1>4, <1>5, <1>7, <1>8, <1>9, <1>10, <1>11 DEF HalfWritten, Q

\* Cutting a node below the root in half keeps the invariant.
LEMMA StepHalf ==
  ASSUME TypeInv, NEW R, NEW h, Tree(pages, R, h), NEW path, NEW l, NEW r, NEW key,
         NEW operation \in Operation, operation.op = "insert",
         Counted(operation.entry), operation.entry \notin stored \cup doubtful,
         WritesHalf(R, h, path, l, r, key, operation)
  PROVE  TypeInv'
<1> DEFINE n == Len(pages) + 1
           p == Last(path)
           then == ToParent(path, key, n)
           g == HalfHeights(R, h, n, p)
<1>1. Form(pages, todo, climb) /\ Rest /\ Len(pages) \in Nat /\ PagesTo(pages, n) /\ n \in Nat
  BY TypeMeans DEF TypeInv, Tree, Form, PagesTo
<1>2. Root \in R /\ R \subseteq 1..Len(pages) /\ \A x \in R : h[x] \in Nat
  BY DEF Tree
<1>3. HalfWritten(R, h, p, l, r, path, key, operation, n, g)
  <2>1. TypeOK
    BY DEF TypeInv
  <2> QED BY <2>1, WriteHalfTree
<1>4. /\ then = [op |-> "propagate", key |-> key, child |-> n, path |-> Front(path)]
      /\ then # Nothing /\ key \in Key /\ Way(Front(path), R, h) /\ p \in 1..Len(pages)
  BY <1>3 DEF ToParent, Nothing, WritesHalf, HalfWritten
<1>5. /\ pages' = [pages EXCEPT ![p] = l] /\ todo' = <<WriteTo(n, r)>> /\ climb' = then
      /\ pending' = operation /\ torn' = TRUE /\ stored' = stored /\ doubtful' = doubtful
      /\ Len(pages') = Len(pages)
  BY <1>3 DEF HalfWritten, Replaced
<1>6. /\ l \in NodeTo(n) /\ Roomy(l) /\ r \in NodeTo(n) /\ Roomy(r) /\ PagesTo(pages', n)
  <2>1. /\ l \in NodeTo(n) /\ Roomy(l) /\ r \in NodeTo(n) /\ Roomy(r)
    BY DEF WritesHalf, Fine
  <2> QED BY <1>1, <1>4, <1>5, <2>1, PagesReplaced
<1> HIDE DEF then, g
<1>7. Form(pages', todo', climb')
  <2>1. todo' \in Seq([at : 1..n, node : NodeTo(n)])
    <3> DEFINE N == NodeTo(n)
               w == WriteTo(n, r)
    <3>1. w = [at |-> n, node |-> r] /\ r \in N /\ n \in 1..n
      BY <1>1, <1>6 DEF WriteTo
    <3> HIDE DEF N, w
    <3>2. w \in [at : 1..n, node : N]
      BY <3>1
    <3> DEFINE T == [at : 1..n, node : N]
    <3> HIDE DEF T
    <3>3. <<w>> \in Seq(T)
      BY <3>2 DEF T
    <3> QED BY <1>5, <3>3 DEF w, T, N
  <2>2. climb' \in [op : {"propagate"}, key : Key, child : 1..n, path : Seq(1..n)]
    <3>1. Front(path) \in Seq(R) /\ R \subseteq 1..n /\ n \in 1..n
      BY <1>1, <1>2, <1>4 DEF Way
    <3> DEFINE S == 1..n
    <3>2. Front(path) \in Seq(S)
      <4> HIDE DEF S
      <4>1. R \subseteq S
        BY <3>1 DEF S
      <4>2. Seq(R) \subseteq Seq(S)
        BY <4>1, SeqMonotonic
      <4> QED BY <3>1, <4>2
    <3> QED BY <1>4, <1>5, <3>1, <3>2
  <2> QED BY <1>5, <1>6, <2>1, <2>2 DEF Form, PagesTo
<1>8. Rest'
  BY <1>1, <1>5 DEF Rest, Counted
<1>9. TypeOK'
  BY <1>7, <1>8, TypeMeans
<1>10. StepOK'
  <2>1. Due' = {operation.entry} /\ ~Idle'
    BY <1>5 DEF Due, Idle, Nothing
  <2>2. \A e \in (stored \cup doubtful \cup Due)' : e.loc <= used'[e.key]
    BY <1>5, <2>1 DEF Counted
  <2>3. /\ Len(todo') = 1 /\ todo'[1].at = Len(pages') + 1 /\ Roomy(todo'[1].node)
        /\ \A i \in 1..1 : i = 1
    BY <1>5, <1>6 DEF WriteTo
  <2> QED BY <1>4, <1>5, <2>1, <2>2, <2>3 DEF StepOK
<1>11. Shape(Ahead', climb') /\ Shape(pages', Nothing)
  BY <1>3 DEF HalfWritten, HalfTree, Shape, Owed
<1> QED BY <1>9, <1>10, <1>11 DEF TypeInv

\* The root cut in half, when its halves and the new root are written.
Sprouted(V, W, n, l, r, root) ==
  /\ n = Len(V) + 1 /\ Len(W) = n + 1 /\ W[n] = l /\ W[n + 1] = r /\ W[Root] = root
  /\ \A x \in 1..Len(V) : x # Root => W[x] = V[x]
RootsWritten(R, h, l, r, key, operation, n, root, g) ==
  /\ n = Len(pages) + 1 /\ root = Inner(<<[key |-> key, child |-> n + 1]>>, n)
  /\ g = RootHeights(R, h, n)
  /\ pages' = Append(pages, l) /\ todo' = <<WriteTo(n + 1, r), WriteTo(Root, root)>>
  /\ climb' = Nothing /\ pending' = operation /\ torn' = torn
  /\ stored' = stored /\ doubtful' = doubtful
  /\ Longer(pages, pages', l) /\ Tree(pages', R, h)
  /\ Sprouted(pages, Ahead', n, l, r, root) /\ RootTree(R, h, Ahead', n, g)
LEMMA WriteRootsTree ==
  ASSUME TypeOK, NEW R, NEW h, Tree(pages, R, h), NEW l, NEW r, NEW key, NEW operation,
         WritesRoots(R, h, l, r, key, operation), NEW n, n = Len(pages) + 1,
         NEW root, root = Inner(<<[key |-> key, child |-> n + 1]>>, n),
         NEW g, g = RootHeights(R, h, n)
  PROVE  RootsWritten(R, h, l, r, key, operation, n, root, g)
<1>1. /\ Len(pages) \in Nat \ {0} /\ pages \in Seq(NodeTo(n)) /\ n \in Nat /\ R \subseteq 1..Len(pages)
      /\ torn \in BOOLEAN /\ Root \in 1..Len(pages)
  BY TypeMeans DEF Tree, Form, Rest, Root
<1>2. NewRoot(Fresh, Fresh + 1, key) = WriteTo(Root, root)
  BY DEF NewRoot, Fresh
<1>3. /\ pages' = Append(pages, l) /\ todo' = <<WriteTo(n + 1, r), WriteTo(Root, root)>>
      /\ climb' = Nothing /\ pending' = operation /\ torn' = torn
      /\ stored' = stored /\ doubtful' = doubtful
      /\ Ahead' = [Append(Append(pages, l), r) EXCEPT ![Root] = root]
  <2>1. Perform(operation, Plan(<<WriteTo(Fresh, l), WriteTo(Fresh + 1, r), WriteTo(Root, root)>>, Nothing))
    BY <1>2 DEF WritesRoots
  <2>2. /\ pages' = Append(pages, l) /\ todo' = <<WriteTo(Fresh + 1, r), WriteTo(Root, root)>>
        /\ climb' = Nothing /\ pending' = operation /\ torn' = torn
        /\ stored' = stored /\ doubtful' = doubtful
        /\ Ahead' = [Append(Append(pages, l), r) EXCEPT ![Root] = root]
    BY <1>1, <2>1, WriteRoots
  <2>3. Fresh = n
    BY DEF Fresh
  <2> QED BY <2>2, <2>3
<1>4. Longer(pages, pages', l)
  BY <1>1, <1>3, Changed
<1>5. Tree(pages', R, h)
  <2>1. /\ Len(pages') = Len(pages) + 1 /\ DOMAIN pages' = 1..(Len(pages) + 1)
        /\ \A x \in 1..Len(pages) : pages'[x] = pages[x]
    BY <1>4 DEF Longer
  <2>2. Len(pages') \in Nat /\ DOMAIN pages' = 1..Len(pages') /\ Len(pages) <= Len(pages')
    BY <1>1, <2>1
  <2>3. \A x \in R : pages'[x] = pages[x]
    BY <1>1, <2>1
  <2> QED BY <2>2, <2>3, TreeInLonger
<1>6. Sprouted(pages, Ahead', n, l, r, root)
  <2> DEFINE S == NodeTo(n) \cup {l} \cup {r}
             V == Append(pages, l)
             W == Append(V, r)
  <2>1. pages \in Seq(S) /\ l \in S /\ r \in S
    BY <1>1, SeqMonotonic
  <2> HIDE DEF S
  <2>2. V \in Seq(S)
    BY <2>1
  <2>3. Longer(pages, V, l)
    BY <2>1, Changed
  <2> HIDE DEF V
  <2>4. W \in Seq(S)
    BY <2>1, <2>2
  <2>5. Longer(V, W, r)
    BY <2>2, Changed
  <2> HIDE DEF W
  <2>6. Root \in 1..Len(W) /\ Ahead' = [W EXCEPT ![Root] = root]
    BY <1>1, <1>3, <2>3, <2>5 DEF Longer, V, W
  <2>7. Replaced(W, Ahead', Root, root)
    BY <2>4, <2>6, Changed
  <2>8. Len(V) = n /\ Len(W) = n + 1 /\ W[n + 1] = r /\ W[n] = l /\ \A x \in 1..Len(pages) : W[x] = pages[x]
    BY <1>1, <2>3, <2>5 DEF Longer
  <2>9. n # Root /\ n + 1 # Root /\ n \in 1..(n + 1) /\ n + 1 \in 1..(n + 1)
        /\ \A x \in 1..Len(pages) : x \in 1..(n + 1)
    BY <1>1
  <2> QED BY <2>7, <2>8, <2>9 DEF Replaced, Sprouted
<1>7. RootTree(R, h, Ahead', n, g)
  <2>1. Fits(l, h[Root], R, h) /\ Fits(r, h[Root], R, h) /\ key \in Key
    BY DEF WritesRoots, Fine
  <2>2. Rooted(pages, R, h, l, r, key, root, Ahead', n, g)
    BY <1>1, <1>3, <2>1, Zenon DEF Rooted
  <2> QED BY <2>2, TreeRoots
<1> QED BY <1>3, <1>4, <1>5, <1>6, <1>7 DEF RootsWritten

\* So does cutting the root.
LEMMA StepRoots ==
  ASSUME TypeInv, NEW R, NEW h, Tree(pages, R, h), NEW l, NEW r, NEW key,
         NEW operation \in Operation, operation.op = "insert",
         Counted(operation.entry), operation.entry \notin stored \cup doubtful,
         WritesRoots(R, h, l, r, key, operation)
  PROVE  TypeInv'
<1> DEFINE n == Len(pages) + 1
           root == Inner(<<[key |-> key, child |-> n + 1]>>, n)
           g == RootHeights(R, h, n)
<1>1. /\ TypeOK /\ Form(pages, todo, climb) /\ Rest /\ Len(pages) \in Nat \ {0} /\ PagesTo(pages, n)
      /\ n \in Nat /\ Len(pages) + 2 = n + 1
  BY TypeMeans DEF TypeInv, Tree, Form, PagesTo, Root
<1>2. RootsWritten(R, h, l, r, key, operation, n, root, g)
  BY <1>1, WriteRootsTree
<1>3. /\ pages' = Append(pages, l) /\ todo' = <<WriteTo(n + 1, r), WriteTo(Root, root)>>
      /\ climb' = Nothing /\ pending' = operation /\ torn' = torn
      /\ stored' = stored /\ doubtful' = doubtful /\ Len(pages') = n
  BY <1>2 DEF RootsWritten, Longer
<1>4. /\ l \in NodeTo(n + 1) /\ Roomy(l) /\ r \in NodeTo(n + 1) /\ Roomy(r) /\ key \in Key
      /\ PagesTo(pages', n + 1)
  <2>1. /\ l \in NodeTo(n + 1) /\ Roomy(l) /\ r \in NodeTo(n + 1) /\ Roomy(r) /\ key \in Key
    BY <1>1 DEF WritesRoots, Fine
  <2> QED BY <1>1, <1>3, <2>1, PagesLonger
<1> HIDE DEF g, root
<1>5. root \in NodeTo(n + 1) /\ Roomy(root)
  <2> DEFINE C == [key : Key, child : 1..(n + 1)]
             s == <<[key |-> key, child |-> n + 1]>>
  <2>1. [key |-> key, child |-> n + 1] \in C /\ n \in 1..(n + 1)
    BY <1>1, <1>4
  <2> HIDE DEF C
  <2>2. s \in Seq(C) /\ Len(s) = 1
    BY <2>1
  <2> HIDE DEF s
  <2>3. root = [leaf |-> FALSE, entries |-> s, left |-> n]
    BY DEF root, Inner, s
  <2>4. root \in InnerTo(n + 1)
    BY <2>1, <2>2, <2>3, Zenon DEF InnerTo, C
  <2>5. Roomy(root)
    <3>1. root.leaf = FALSE /\ root.entries = s
      BY <2>3
    <3>2. 1 <= NodeCap
      BY TreeAssumption
    <3> QED BY <2>2, <3>1, <3>2 DEF Roomy
  <2> QED BY <2>4, <2>5 DEF NodeTo
<1>6. Form(pages', todo', climb')
  <2> DEFINE N == NodeTo(n + 1)
             w1 == WriteTo(n + 1, r)
             w2 == WriteTo(Root, root)
             T == [at : 1..(n + 1), node : N]
  <2>1. w1 = [at |-> n + 1, node |-> r] /\ w2 = [at |-> Root, node |-> root]
    BY DEF WriteTo
  <2>2. r \in N /\ root \in N /\ n + 1 \in 1..(n + 1) /\ Root \in 1..(n + 1)
    BY <1>1, <1>4, <1>5 DEF Root
  <2> HIDE DEF N, w1, w2
  <2>3. w1 \in T /\ w2 \in T
    BY <2>1, <2>2
  <2> HIDE DEF T
  <2>4. <<w1, w2>> \in Seq(T)
    BY <2>3
  <2>5. todo' \in Seq([at : 1..(n + 1), node : NodeTo(n + 1)])
    BY <1>3, <2>4 DEF w1, w2, T, N
  <2> QED BY <1>3, <1>4, <2>5 DEF Form, PagesTo
<1>7. Rest'
  BY <1>1, <1>3 DEF Rest, Counted
<1>8. TypeOK'
  BY <1>6, <1>7, TypeMeans
<1>9. StepOK'
  <2>1. Due' = {operation.entry} /\ ~Idle'
    BY <1>3 DEF Due, Idle, Nothing, Operation
  <2>2. \A e \in (stored \cup doubtful \cup Due)' : e.loc <= used'[e.key]
    BY <1>3, <2>1 DEF Counted
  <2>3. /\ Len(todo') = 2 /\ todo'[1].at = Len(pages') + 1 /\ todo'[2].at = Root /\ todo' # <<>>
        /\ Roomy(todo'[1].node) /\ Roomy(todo'[2].node) /\ \A i \in 1..2 : i = 1 \/ i = 2
    BY <1>3, <1>4, <1>5 DEF WriteTo
  <2> QED BY <1>3, <2>1, <2>2, <2>3 DEF StepOK
<1>10. Shape(Ahead', climb') /\ Shape(pages', Nothing)
  BY <1>2, <1>3 DEF RootsWritten, RootTree, Shape, Owed
<1> QED BY <1>8, <1>9, <1>10 DEF TypeInv

\* A page of the tree, with its types.
LEMMA NodeAt ==
  ASSUME TypeOK, NEW R, NEW h, Tree(pages, R, h), NEW p \in R, NEW n, n = Len(pages) + 1
  PROVE  /\ n \in Nat \ {0, 1} /\ p \in 1..(n - 1) /\ Roomy(pages[p])
         /\ h[p] = 0 => pages[p] \in LeafTo(n)
         /\ h[p] # 0 => pages[p] \in InnerTo(n)
<1>1. Form(pages, todo, climb)
  BY TypeMeans
<1>2. Len(pages) \in Nat /\ DOMAIN pages = 1..Len(pages) /\ p \in 1..Len(pages)
  BY DEF Tree
<1>3. pages[p] \in NodeTo(n) /\ Roomy(pages[p])
  BY <1>1, <1>2 DEF Form
<1>4. /\ \A x \in LeafTo(n) : x.leaf = TRUE
      /\ \A x \in InnerTo(n) : x.leaf = FALSE
  BY DEF LeafTo, InnerTo
<1>5. pages[p].leaf <=> h[p] = 0
  BY NodeFacts
<1>6. /\ h[p] = 0 => pages[p] \in LeafTo(n)
      /\ h[p] # 0 => pages[p] \in InnerTo(n)
  BY <1>3, <1>4, <1>5, Zenon DEF NodeTo
<1>7. n \in Nat \ {0, 1} /\ p \in 1..(n - 1)
  BY <1>2
<1> QED BY <1>3, <1>6, <1>7

\* Nodes fit to be written.
LEMMA LeafMade ==
  ASSUME NEW n \in Nat, NEW s \in Seq(Entry), Len(s) <= LeafCap, NEW m \in {None} \cup 1..n
  PROVE  /\ Leaf(s, m) \in NodeTo(n) /\ Roomy(Leaf(s, m))
         /\ \A R, h : Fits(Leaf(s, m), 0, R, h)
<1>1. Leaf(s, m) \in LeafTo(n)
  BY Zenon DEF Leaf, LeafTo
<1>2. Leaf(s, m).leaf = TRUE /\ Leaf(s, m).entries = s
  BY DEF Leaf
<1>3. Leaf(s, m) \in AnyLeaf
  BY <1>1, NodesAny
<1> QED BY <1>1, <1>2, <1>3 DEF NodeTo, Roomy, Fits

Below(x, d, R, h) == x.child \in R \ {Root} /\ h[x.child] = d
LEMMA InnerMade ==
  ASSUME NEW n \in Nat, NEW s \in Seq([key : Key, child : 1..n]), Len(s) <= NodeCap, NEW m \in 1..n,
         NEW R, NEW h, NEW d \in Nat, m \in R \ {Root}, h[m] = d,
         \A x \in ElementsOf(s) : Below(x, d, R, h)
  PROVE  Inner(s, m) \in NodeTo(n) /\ Roomy(Inner(s, m)) /\ Fits(Inner(s, m), d + 1, R, h)
<1>1. Inner(s, m) \in InnerTo(n)
  BY Zenon DEF Inner, InnerTo
<1>2. Inner(s, m).leaf = FALSE /\ Inner(s, m).entries = s /\ Inner(s, m).left = m
  BY DEF Inner
<1>3. Inner(s, m) \in AnyInner
  BY <1>1, NodesAny
<1>4. ASSUME NEW i \in 0..Len(s)
      PROVE  Child(Inner(s, m), i) \in R \ {Root} /\ h[Child(Inner(s, m), i)] = d
  <2>1. CASE i = 0
    BY <1>2, <2>1 DEF Child
  <2>2. CASE i # 0
    <3> DEFINE C == [key : Key, child : 1..n]
    <3>1. s \in Seq(C)
      OBVIOUS
    <3> HIDE DEF C
    <3>2. i \in DOMAIN s
      BY <2>2, <3>1
    <3>3. Below(s[i], d, R, h)
      BY <3>2 DEF ElementsOf
    <3> QED BY <1>2, <2>2, <3>3 DEF Child, Below
  <2> QED BY <2>1, <2>2
<1>5. d + 1 # 0 /\ (d + 1) - 1 = d
  OBVIOUS
<1> QED BY <1>1, <1>2, <1>3, <1>4, <1>5 DEF NodeTo, Roomy, Fits

\* The invariant holds of an empty index.
LEMMA InitTypes == Init => TypeInv
<1> SUFFICES ASSUME Init PROVE TypeInv
  OBVIOUS
<1> DEFINE node == Leaf(<<>>, None)
           R == {1}
           h == [p \in R |-> 0]
<1>1. node \in NodeTo(2) /\ Roomy(node) /\ Fits(node, 0, R, h)
  <2>1. <<>> \in Seq(Entry) /\ Len(<<>>) = 0 /\ 0 <= LeafCap /\ None \in {None} \cup 1..2 /\ 2 \in Nat
    BY TreeAssumption
  <2> QED BY <2>1, LeafMade, Zenon
<1>2. pages = <<node>> /\ Len(pages) = 1 /\ DOMAIN pages = {1} /\ pages[1] = node /\ 1..1 = {1}
  BY DEF Init
<1> HIDE DEF node
<1>3. Form(pages, todo, climb)
  <2> DEFINE N == NodeTo(2)
  <2>1. <<node>> \in Seq(N)
    <3>1. node \in N
      BY <1>1
    <3> HIDE DEF N
    <3> QED BY <3>1
  <2>2. pages \in Seq(NodeTo(Len(pages) + 1))
    BY <1>2, <2>1
  <2> QED BY <1>1, <1>2, <2>2 DEF Form, Init
<1>4. Rest
  <2>1. \A k \in Key : Copies[k] \in Nat
    BY TreeAssumption DEF Key, MaxKey
  <2>2. used \in [Key -> Nat] /\ \A k \in Key : used[k] = 0 /\ 0 <= Copies[k]
    BY <2>1 DEF Init
  <2>3. upsets \in 0..MaxUpsets
    BY TreeAssumption DEF Init
  <2>4. \A k \in Key : used[k] <= Copies[k]
    BY <2>2
  <2> QED BY <2>2, <2>3, <2>4 DEF Rest, Init
<1>5. TypeOK
  BY <1>3, <1>4, TypeMeans
<1>6. StepOK
  BY DEF StepOK, Idle, Due, Init
<1>7. Tree(pages, R, h)
  BY <1>1, <1>2 DEF Tree, Root
<1>8. Ahead = pages /\ climb = Nothing
  BY DEF Ahead, Init
<1> QED BY <1>5, <1>6, <1>7, <1>8 DEF TypeInv, Shape, Owed

\* Between operations nothing is left to write, and the pages are a tree.
LEMMA IdleTypes ==
  ASSUME TypeInv, Idle
  PROVE  /\ todo = <<>> /\ climb = Nothing /\ Due = {} /\ Ahead = pages
         /\ \E R, h : Tree(pages, R, h)
BY DEF TypeInv, StepOK, Idle, Due, Ahead, Shape

\* The leaf a search for a key ends in.
LEMMA LeafFound ==
  ASSUME TypeOK, NEW R, NEW h, Tree(pages, R, h), NEW key \in Key, NEW path, path = PathToLeaf(key),
         NEW p, p = Last(path), NEW n, n = Len(pages) + 1
  PROVE  /\ Way(path, R, h) /\ p \in R /\ h[p] = 0 /\ p \in 1..(n - 1) /\ n \in Nat \ {0, 1}
         /\ pages[p].entries \in Seq(Entry) /\ Len(pages[p].entries) \in Nat
         /\ Len(pages[p].entries) <= LeafCap /\ pages[p].next \in {None} \cup 1..n
<1>1. key \in Nat
  BY TreeAssumption DEF Key, MaxKey
<1>2. /\ path \in Seq(R) /\ Len(path) = h[Root] + 1 /\ path[1] = Root /\ h[Root] \in Nat
      /\ \A i \in 1..Len(path) : h[path[i]] = h[Root] + 1 - i
      /\ p \in Leaves(pages, R)
  <2>1. Searched(R, h, key, path)
    BY <1>1, PathFacts
  <2> QED BY <2>1 DEF Searched
<1>3. Way(path, R, h)
  <2>1. path # <<>>
    BY <1>2
  <2> QED BY <1>2, <2>1 DEF Way
<1>4. p \in R /\ pages[p].leaf /\ h[p] = 0
  BY <1>2, NodeFacts DEF Leaves
<1>5. n \in Nat \ {0, 1} /\ p \in 1..(n - 1) /\ Roomy(pages[p]) /\ pages[p] \in LeafTo(n)
  BY <1>4, NodeAt
<1>6. pages[p].entries \in Seq(Entry) /\ pages[p].next \in {None} \cup 1..n
  BY <1>5 DEF LeafTo
<1>7. Len(pages[p].entries) \in Nat /\ Len(pages[p].entries) <= LeafCap
  BY <1>4, <1>5, <1>6 DEF Roomy
<1> QED BY <1>3, <1>4, <1>5, <1>6, <1>7

\* insert: the path it searches, the entry, the leaf with the entry in it, and what is
\* written of that.
NewEntry(key) == [key |-> key, loc |-> used[key] + 1]
Inserting(R, h, path, p, e, s, next, operation) ==
  /\ e \in Entry /\ e \notin stored \cup doubtful /\ Counted(e)
  /\ operation = [op |-> "insert", entry |-> e] /\ operation \in Operation
  /\ Searched(R, h, e.key, path) /\ Way(path, R, h) /\ p = Last(path)
  /\ p \in R /\ h[p] = 0 /\ p \in 1..Len(pages)
  /\ pages[p].entries \in Seq(Entry) /\ next = pages[p].next /\ next \in Nat
  /\ s = InsertAt(pages[p].entries, e) /\ s \in Seq(Entry)
  /\ damage' = damage \cup (IF NodeFull(s, LeafCap) /\ Last(LeftHalf(s)).key = Promoted(s).key
                            THEN {"equal"} ELSE {})
  /\ \/ WritesOne(R, h, p, Leaf(s, next), operation)
     \/ /\ NodeFull(s, LeafCap) /\ Len(s) >= 2 /\ p = Root
        /\ WritesRoots(R, h, Leaf(LeftHalf(s), Len(pages) + 2), Leaf(RightHalf(s), next),
                       Promoted(s).key, operation)
     \/ /\ NodeFull(s, LeafCap) /\ Len(s) >= 2 /\ p # Root
        /\ WritesHalf(R, h, path, Leaf(LeftHalf(s), Len(pages) + 1), Leaf(RightHalf(s), next),
                      Promoted(s).key, operation)
LEMMA InsertDoes ==
  ASSUME TypeInv, NEW key \in Key, Insert(key), NEW R, NEW h, Tree(pages, R, h)
  PROVE  \E path, p, s, next, operation : Inserting(R, h, path, p, NewEntry(key), s, next, operation)
<1> DEFINE e == [key |-> key, loc |-> used[key] + 1]
           operation == [op |-> "insert", entry |-> e]
           n == Len(pages) + 1
<1>1. todo = <<>> /\ climb = Nothing /\ Due = {} /\ TypeOK
  BY IdleTypes DEF TypeInv, Insert
<1>2. PICK path : path = PathToLeaf(key)
  OBVIOUS
<1>3. Searched(R, h, key, path)
  <2>1. key \in Nat
    BY TreeAssumption DEF Key, MaxKey
  <2> QED BY <1>2, <2>1, PathFacts
<1>4. PICK p : p = Last(path)
  OBVIOUS
<1>5. PICK old, next : old = pages[p].entries /\ next = pages[p].next
  OBVIOUS
<1>6. PICK entries : entries = InsertAt(old, e)
  OBVIOUS
<1>7. /\ Way(path, R, h) /\ p \in R /\ h[p] = 0 /\ p \in 1..(n - 1) /\ n \in Nat \ {0, 1}
      /\ old \in Seq(Entry) /\ Len(old) \in Nat /\ Len(old) <= LeafCap /\ next \in {None} \cup 1..n
  BY <1>1, <1>2, <1>4, <1>5, LeafFound
<1>8. /\ used[key] \in Nat /\ used[key] < Copies[key] /\ Copies[key] \in Nat
      /\ used \in [Key -> Nat] /\ \A k \in Key : used[k] <= Copies[k]
  BY <1>1, TypeMeans, TreeAssumption DEF Insert, MayInsert, Rest, Key, MaxKey
<1>9. e \in Entry
  BY <1>8 DEF Entry
<1>10. operation \in Operation /\ operation.op = "insert" /\ operation.entry = e
  BY <1>9 DEF Operation
<1>11. e \notin stored \cup doubtful
  <2>1. \A x \in stored \cup doubtful : x.loc <= used[x.key]
    BY DEF TypeInv, StepOK
  <2>2. e.key = key /\ e.loc = used[key] + 1 /\ ~(e.loc <= used[key])
    BY <1>8
  <2> HIDE DEF e
  <2> QED BY <2>1, <2>2
<1>12. used' = [used EXCEPT ![key] = @ + 1] /\ UNCHANGED upsets
       /\ damage' = damage \cup (IF NodeFull(entries, LeafCap) /\ Last(LeftHalf(entries)).key = Promoted(entries).key
                                 THEN {"equal"} ELSE {})
  BY <1>2, <1>4, <1>5, <1>6 DEF Insert
<1>13. Counted(e)
  <2>1. \A x \in stored \cup doubtful : x \in Entry /\ x.key \in Key /\ x.loc \in Nat /\ x.loc <= used[x.key]
    BY <1>1, EntryFields, TypeMeans DEF TypeInv, StepOK, Rest
  <2>2. used' \in [Key -> Nat] /\ \A k \in Key : used'[k] <= Copies[k] /\ used[k] <= used'[k]
    BY <1>8, <1>12
  <2>3. used'[key] = used[key] + 1 /\ e.key = key /\ e.loc = used[key] + 1
    BY <1>8, <1>12
  <2>4. upsets' \in 0..MaxUpsets /\ damage' \subseteq {"cut", "equal"}
    BY <1>1, <1>12, TypeMeans DEF Rest
  <2>5. ASSUME NEW x \in stored \cup doubtful \cup {e} PROVE x.loc <= used'[x.key]
    <3>1. CASE x = e
      BY <1>8, <2>3, <3>1
    <3>2. CASE x # e
      <4>1. x \in stored \cup doubtful
        BY <3>2
      <4>2. used[x.key] \in Nat /\ used'[x.key] \in Nat /\ used[x.key] <= used'[x.key] /\ x.loc \in Nat
        BY <1>8, <2>1, <2>2, <4>1
      <4> QED BY <2>1, <4>1, <4>2
    <3> QED BY <3>1, <3>2
  <2> HIDE DEF e
  <2> QED BY <1>9, <2>2, <2>4, <2>5 DEF Counted
<1>14. Perform(operation, IF NodeFull(entries, LeafCap) THEN SplitLeaf(path, entries, next)
                          ELSE Plan(<<WriteTo(p, Leaf(entries, next))>>, Nothing))
  BY <1>2, <1>4, <1>5, <1>6 DEF Insert
<1>15. operation = [op |-> "insert", entry |-> e] /\ e.key = key /\ e = NewEntry(key)
  BY DEF NewEntry
<1> HIDE DEF operation, e
<1>16. entries \in Seq(Entry) /\ Len(entries) = Len(old) + 1
  BY <1>6, <1>7, <1>9, EntryFields, InsertAtFacts DEF InPlace
<1>17. CASE ~NodeFull(entries, LeafCap)
  <2>1. Perform(operation, Plan(<<WriteTo(p, Leaf(entries, next))>>, Nothing))
    BY <1>14, <1>17
  <2>2. Len(entries) <= LeafCap
    BY <1>7, <1>16, <1>17, TreeAssumption DEF NodeFull
  <2>3. Fine(Leaf(entries, next), n, h[p], R, h)
    BY <1>7, <1>16, <2>2, LeafMade DEF Fine
  <2>4. WritesOne(R, h, p, Leaf(entries, next), operation)
    BY <1>7, <2>1, <2>3 DEF WritesOne
  <2>5. next \in Nat /\ p \in 1..Len(pages)
    BY <1>7 DEF None
  <2>6. Inserting(R, h, path, p, e, entries, next, operation)
    BY <1>3, <1>4, <1>5, <1>6, <1>7, <1>9, <1>10, <1>11, <1>12, <1>13, <1>15, <1>16, <2>4, <2>5 DEF Inserting
  <2> QED BY <1>15, <2>6
<1>18. CASE NodeFull(entries, LeafCap)
  <2>1. Perform(operation, SplitLeaf(path, entries, next))
    BY <1>14, <1>18
  <2>2. PICK left, right, m, sep : /\ left = LeftHalf(entries) /\ right = RightHalf(entries)
                                   /\ m = Mid(entries) /\ sep = Promoted(entries).key
    OBVIOUS
  <2>3. LeafCap \in Nat /\ Len(entries) = LeafCap + 1 /\ Len(entries) >= 2
    BY <1>7, <1>16, <1>18, TreeAssumption DEF NodeFull
  <2>4. /\ left \in Seq(Entry) /\ right \in Seq(Entry) /\ Len(left) = m /\ Len(right) = Len(entries) - m
        /\ m \in 1..(Len(entries) - 1) /\ sep \in Key
    BY <1>16, <2>2, <2>3, HalvesFacts, EntryFields DEF Halves
  <2>5. Len(left) <= LeafCap /\ Len(right) <= LeafCap
    BY <2>3, <2>4
  <2>6. CASE p = Root
    <3>1. Perform(operation, Plan(<<WriteTo(Fresh, Leaf(left, n + 1)), WriteTo(Fresh + 1, Leaf(right, next)),
                                    NewRoot(Fresh, Fresh + 1, sep)>>, Nothing))
      BY <1>4, <2>1, <2>2, <2>6 DEF SplitLeaf, LinkToRight, Fresh
    <3>2. /\ n + 1 \in Nat /\ n + 1 \in {None} \cup 1..(n + 1) /\ next \in {None} \cup 1..(n + 1)
          /\ n + 1 = Len(pages) + 2
      BY <1>7
    <3>3. Fine(Leaf(left, n + 1), n + 1, h[Root], R, h)
      BY <1>7, <2>4, <2>5, <2>6, <3>2, LeafMade DEF Fine
    <3>4. Fine(Leaf(right, next), n + 1, h[Root], R, h)
      BY <1>7, <2>4, <2>5, <2>6, <3>2, LeafMade DEF Fine
    <3>5. WritesRoots(R, h, Leaf(left, Len(pages) + 2), Leaf(right, next), sep, operation)
      BY <2>4, <3>1, <3>2, <3>3, <3>4 DEF WritesRoots
    <3>6. next \in Nat /\ p \in 1..Len(pages)
      BY <1>7 DEF None
    <3>7. Inserting(R, h, path, p, e, entries, next, operation)
      BY <1>3, <1>4, <1>5, <1>6, <1>7, <1>9, <1>10, <1>11, <1>12, <1>13, <1>15, <1>16, <1>18,
         <2>2, <2>3, <2>6, <3>5, <3>6 DEF Inserting
    <3> QED BY <1>15, <3>7
  <2>7. CASE p # Root
    <3>1. Perform(operation, Plan(<<WriteTo(p, Leaf(left, n)), WriteTo(Fresh, Leaf(right, next))>>,
                                  ToParent(path, sep, Fresh)))
      BY <1>4, <2>1, <2>2, <2>7 DEF SplitLeaf, LinkToRight, Fresh
    <3>2. n \in Nat /\ n \in {None} \cup 1..n
      BY <1>7
    <3>3. Fine(Leaf(left, n), n, h[p], R, h)
      BY <1>7, <2>4, <2>5, <3>2, LeafMade DEF Fine
    <3>4. Fine(Leaf(right, next), n, h[p], R, h)
      BY <1>7, <2>4, <2>5, <3>2, LeafMade DEF Fine
    <3>5. WritesHalf(R, h, path, Leaf(left, n), Leaf(right, next), sep, operation)
      BY <1>4, <1>7, <2>4, <2>7, <3>1, <3>3, <3>4 DEF WritesHalf
    <3>6. next \in Nat /\ p \in 1..Len(pages)
      BY <1>7 DEF None
    <3>7. Inserting(R, h, path, p, e, entries, next, operation)
      BY <1>3, <1>4, <1>5, <1>6, <1>7, <1>9, <1>10, <1>11, <1>12, <1>13, <1>15, <1>16, <1>18,
         <2>2, <2>3, <2>7, <3>5, <3>6 DEF Inserting
    <3> QED BY <1>15, <3>7
  <2> QED BY <2>6, <2>7
<1> QED BY <1>17, <1>18

\* An insertion keeps the invariant.
LEMMA InsertTypes ==
  ASSUME TypeInv, NEW key \in Key, Insert(key)
  PROVE  TypeInv'
<1>1. PICK R, h : Tree(pages, R, h)
  BY IdleTypes DEF Insert
<1>2. PICK path, p, s, next, operation : Inserting(R, h, path, p, NewEntry(key), s, next, operation)
  BY <1>1, InsertDoes
<1>3. /\ operation \in Operation /\ operation.op = "insert" /\ Counted(operation.entry)
      /\ operation.entry \notin stored \cup doubtful
  BY <1>2 DEF Inserting
<1> DEFINE right == Leaf(RightHalf(s), next)
           key2 == Promoted(s).key
<1>4. CASE WritesOne(R, h, p, Leaf(s, next), operation)
  BY <1>1, <1>3, <1>4, StepOne
<1>5. CASE WritesRoots(R, h, Leaf(LeftHalf(s), Len(pages) + 2), right, key2, operation)
  BY <1>1, <1>3, <1>5, StepRoots
<1>6. CASE WritesHalf(R, h, path, Leaf(LeftHalf(s), Len(pages) + 1), right, key2, operation)
  BY <1>1, <1>3, <1>6, StepHalf
<1> QED BY <1>2, <1>4, <1>5, <1>6 DEF Inserting

\* delete: the path it searches, and what is left of the entries of the leaf.
Deleting(R, h, path, p, e, kept, next, operation) ==
  /\ e \in Entry /\ Counted(e)
  /\ operation = [op |-> "delete", entry |-> e] /\ operation \in Operation
  /\ p \in R /\ h[p] = 0 /\ p \in 1..Len(pages)
  /\ pages[p].entries \in Seq(Entry) /\ next = pages[p].next /\ next \in Nat
  /\ kept = Only(Entry \ {e}, pages[p].entries) /\ kept \in Seq(Entry) /\ kept # pages[p].entries
  /\ damage' = damage
  /\ WritesOne(R, h, p, Leaf(kept, next), operation)
LEMMA DeleteDoes ==
  ASSUME TypeInv, NEW e \in stored \cup doubtful, Delete(e), NEW R, NEW h, Tree(pages, R, h)
  PROVE  \E path, p, kept, next, operation : Deleting(R, h, path, p, e, kept, next, operation)
<1> DEFINE operation == [op |-> "delete", entry |-> e]
           n == Len(pages) + 1
<1>1. TypeOK
  BY DEF TypeInv
<1>2. Tree(pages, R, h)
  OBVIOUS
<1>3. e \in Entry /\ e.key \in Key
  BY <1>1, EntryFields, TypeMeans DEF Rest
<1>4. PICK path : path = PathToLeaf(e.key)
  OBVIOUS
<1>5. PICK p : p = Last(path)
  OBVIOUS
<1>6. PICK old, next, kept : old = pages[p].entries /\ next = pages[p].next /\ kept = Only(Entry \ {e}, old)
  OBVIOUS
<1>7. /\ Way(path, R, h) /\ p \in R /\ h[p] = 0 /\ p \in 1..(n - 1) /\ n \in Nat \ {0, 1}
      /\ old \in Seq(Entry) /\ Len(old) \in Nat /\ Len(old) <= LeafCap /\ next \in {None} \cup 1..n
  BY <1>1, <1>2, <1>3, <1>4, <1>5, <1>6, LeafFound
<1>8. /\ Perform(operation, Plan(<<WriteTo(p, Leaf(kept, next))>>, Nothing)) /\ kept # old
      /\ damage' = damage
  BY <1>4, <1>5, <1>6 DEF Delete
<1>9. operation \in Operation /\ operation.entry = e
  BY <1>3 DEF Operation
<1>10. Counted(e)
  <2>1. \A x \in stored \cup doubtful : x.loc <= used[x.key]
    BY DEF TypeInv, StepOK
  <2>2. upsets' \in 0..MaxUpsets
    BY <1>1, TypeMeans, TreeAssumption DEF Delete, Rest
  <2> QED BY <1>1, <1>3, <2>1, <2>2, TypeMeans DEF Counted, Delete, Rest
<1>11. operation = [op |-> "delete", entry |-> e]
  OBVIOUS
<1> HIDE DEF operation
<1>12. kept \in Seq(Entry) /\ Len(kept) <= LeafCap
  <2>1. kept \in Seq(Entry) /\ Len(kept) <= Len(old)
    BY <1>6, <1>7, OnlyFacts
  <2> QED BY <1>7, <2>1, TreeAssumption
<1>13. Fine(Leaf(kept, next), n, h[p], R, h)
  BY <1>7, <1>12, LeafMade DEF Fine
<1>14. WritesOne(R, h, p, Leaf(kept, next), operation)
  BY <1>7, <1>8, <1>13 DEF WritesOne
<1>15. next \in Nat /\ p \in 1..Len(pages)
  BY <1>7 DEF None
<1>16. Deleting(R, h, path, p, e, kept, next, operation)
  BY <1>3, <1>6, <1>7, <1>8, <1>9, <1>10, <1>11, <1>12, <1>14, <1>15 DEF Deleting
<1> QED BY <1>16

\* A deletion keeps the invariant.
LEMMA DeleteTypes ==
  ASSUME TypeInv, NEW e \in stored \cup doubtful, Delete(e)
  PROVE  TypeInv'
<1>1. PICK R, h : Tree(pages, R, h)
  BY IdleTypes DEF Delete
<1>2. PICK path, p, kept, next, operation : Deleting(R, h, path, p, e, kept, next, operation)
  BY <1>1, DeleteDoes
<1>3. /\ operation \in Operation /\ Counted(operation.entry)
      /\ WritesOne(R, h, p, Leaf(kept, next), operation)
  BY <1>2 DEF Deleting
<1> QED BY <1>1, <1>3, StepOne

\* The entries of a node with one put in its place, cut in half as an internal node is.
LEMMA ElementsHalved ==
  ASSUME NEW K, NEW s \in Seq(K), Len(s) >= 3
  PROVE  /\ LeftHalf(s) \in Seq(K) /\ Tail(RightHalf(s)) \in Seq(K) /\ Promoted(s) \in ElementsOf(s)
         /\ Len(LeftHalf(s)) <= Len(s) - 1 /\ Len(Tail(RightHalf(s))) <= Len(s) - 1
         /\ ElementsOf(LeftHalf(s)) \subseteq ElementsOf(s)
         /\ ElementsOf(Tail(RightHalf(s))) \subseteq ElementsOf(s)
<1>1. PICK m : m = Mid(s)
  OBVIOUS
<1>2. Len(s) \in Nat /\ Len(s) >= 2 /\ DOMAIN s = 1..Len(s)
  OBVIOUS
<1>3. /\ m \in 1..(Len(s) - 1) /\ LeftHalf(s) \in Seq(K) /\ Len(LeftHalf(s)) = m
      /\ \A i \in 1..m : LeftHalf(s)[i] = s[i]
      /\ RightHalf(s) \in Seq(K) /\ Len(RightHalf(s)) = Len(s) - m
      /\ \A i \in 1..(Len(s) - m) : RightHalf(s)[i] = s[m + i]
      /\ Promoted(s) = s[m + 1]
  <2>1. Halves(K, s, m)
    BY <1>1, <1>2, HalvesFacts
  <2> QED BY <2>1 DEF Halves
<1>4. RightHalf(s) # <<>>
  BY <1>2, <1>3
<1>5. PICK l, r, t : l = LeftHalf(s) /\ r = RightHalf(s) /\ t = Tail(RightHalf(s))
  OBVIOUS
<1>6. /\ t \in Seq(K) /\ Len(t) = Len(r) - 1 /\ \A i \in 1..(Len(r) - 1) : t[i] = r[i + 1]
  BY <1>3, <1>4, <1>5
<1>7. ElementsOf(l) \subseteq ElementsOf(s)
  BY <1>2, <1>3, <1>5 DEF ElementsOf
<1>8. ElementsOf(t) \subseteq ElementsOf(s)
  <2>1. DOMAIN t = 1..(Len(s) - m - 1)
    BY <1>3, <1>5, <1>6
  <2>2. ASSUME NEW i \in DOMAIN t PROVE t[i] = s[m + i + 1] /\ m + i + 1 \in DOMAIN s
    <3>1. i \in 1..(Len(s) - m - 1) /\ Len(s) \in Nat /\ m \in 1..(Len(s) - 1) /\ Len(r) = Len(s) - m
      BY <1>2, <1>3, <1>5, <2>1
    <3>2. i \in 1..(Len(r) - 1) /\ i + 1 \in 1..(Len(s) - m) /\ m + (i + 1) = m + i + 1
      BY <3>1
    <3>3. t[i] = s[m + (i + 1)]
      BY <1>3, <1>5, <1>6, <3>2
    <3>4. m + i + 1 \in 1..Len(s)
      BY <1>2, <1>3, <2>1
    <3> QED BY <1>2, <3>2, <3>3, <3>4
  <2> QED BY <2>2 DEF ElementsOf
<1>9. m + 1 \in DOMAIN s
  BY <1>2, <1>3
<1>10. Len(l) <= Len(s) - 1 /\ Len(t) <= Len(s) - 1
  BY <1>2, <1>3, <1>5, <1>6
<1>11. Promoted(s) \in ElementsOf(s)
  BY <1>3, <1>9 DEF ElementsOf
<1> QED BY <1>3, <1>5, <1>6, <1>7, <1>8, <1>10, <1>11, Zenon

\* propagate: the parent with the separator and the page that it leads to in it, and what
\* is written of that.
Separator == [key |-> climb.key, child |-> climb.child]
Propagating(R, h, path, p, e, s, left) ==
  /\ climb # Nothing /\ torn /\ Ahead = pages /\ Due = {pending.entry}
  /\ pending \in Operation /\ pending.op = "insert" /\ Counted(pending.entry)
  /\ pending.entry \notin stored \cup doubtful
  /\ path = climb.path /\ Way(path, R, h) /\ p = Last(path) /\ p \in R /\ h[p] # 0 /\ p \in 1..Len(pages)
  /\ pages[p].entries \in Seq([key : Key, child : Nat]) /\ left = pages[p].left
  /\ e = Separator /\ e \in [key : Key, child : Nat]
  /\ s = InsertAt(pages[p].entries, e) /\ s \in Seq([key : Key, child : Nat])
  /\ damage' = damage
  /\ \/ WritesOne(R, h, p, Inner(s, left), pending)
     \/ /\ Len(s) >= 3 /\ p = Root
        /\ WritesRoots(R, h, Inner(LeftHalf(s), left), Inner(Tail(RightHalf(s)), Promoted(s).child),
                       Promoted(s).key, pending)
     \/ /\ Len(s) >= 3 /\ p # Root
        /\ WritesHalf(R, h, path, Inner(LeftHalf(s), left),
                      Inner(Tail(RightHalf(s)), Promoted(s).child), Promoted(s).key, pending)
LEMMA PropagateDoes ==
  ASSUME TypeInv, Propagate, NEW R, NEW h, Tree(pages, R, h), Owed(climb, R, h)
  PROVE  \E path, p, s, left : Propagating(R, h, path, p, Separator, s, left)
<1> DEFINE n == Len(pages) + 1
           C == [key : Key, child : 1..n]
<1>1. /\ TypeOK /\ StepOK /\ todo = <<>> /\ climb # Nothing /\ ~Idle /\ Ahead = pages
      /\ pending.op = "insert" /\ pending.entry \notin stored \cup doubtful
  BY DEF TypeInv, StepOK, Propagate, Ahead
<1>2. Tree(pages, R, h) /\ Owed(climb, R, h)
  OBVIOUS
<1>3. PICK path, p, e : /\ path = climb.path /\ p = Last(path) /\ e = Separator
                        /\ e = [key |-> climb.key, child |-> climb.child]
  BY DEF Separator
<1>4. PICK old, left : old = pages[p].entries /\ left = pages[p].left
  OBVIOUS
<1>5. PICK entries : entries = InsertAt(old, e)
  OBVIOUS
<1>6. Perform(pending, IF NodeFull(entries, NodeCap) THEN SplitInternal(path, entries, left)
                       ELSE Plan(<<WriteTo(p, Inner(entries, left))>>, Nothing))
  BY <1>3, <1>4, <1>5 DEF Propagate
<1>7. pending \in Operation
  BY <1>1, TypeMeans DEF Rest, Idle
<1>8. Counted(pending.entry)
  <2>1. \A x \in stored \cup doubtful \cup {pending.entry} : x.loc <= used[x.key]
    BY <1>1 DEF StepOK, Due
  <2>2. pending.entry \in Entry
    BY <1>7 DEF Operation
  <2> QED BY <1>1, <2>1, <2>2, TypeMeans DEF Counted, Rest, Propagate
<1>9. /\ Way(path, R, h) /\ climb.child \in R \ {Root} /\ h[climb.child] + 1 = h[p]
  BY <1>1, <1>2, <1>3 DEF Owed
<1>10. /\ Root \in R /\ h \in [R -> Nat]
  BY <1>2 DEF Tree
<1>11. p \in R
  <2>1. path \in Seq(R) /\ path # <<>>
    BY <1>9 DEF Way
  <2> QED BY <1>3, <2>1 DEF Last
<1>12. /\ n \in Nat \ {0, 1} /\ p \in 1..(n - 1) /\ Roomy(pages[p]) /\ h[p] # 0 /\ h[climb.child] \in Nat
       /\ pages[p] \in InnerTo(n) /\ Fits(pages[p], h[p], R, h)
  <2>1. h[climb.child] \in Nat /\ h[p] # 0
    BY <1>9, <1>10
  <2>2. /\ n \in Nat \ {0, 1} /\ p \in 1..(n - 1) /\ Roomy(pages[p])
        /\ h[p] # 0 => pages[p] \in InnerTo(n)
    BY <1>1, <1>2, <1>11, NodeAt
  <2>3. Fits(pages[p], h[p], R, h)
    BY <1>2, <1>11 DEF Tree
  <2> QED BY <2>1, <2>2, <2>3
<1>13. climb.key \in Key /\ climb.child \in 1..n
  <2>1. climb \in [op : {"propagate"}, key : Key, child : 1..n, path : Seq(1..n)]
    BY <1>1, TypeMeans DEF Form
  <2> QED BY <2>1
<1>14. old \in Seq(C) /\ left \in 1..n /\ pages[p].leaf = FALSE
  BY <1>4, <1>12 DEF InnerTo
<1>15. Len(old) \in Nat /\ Len(old) <= NodeCap
  BY <1>4, <1>12, <1>14 DEF Roomy
<1>16. PICK d \in Nat : d = h[climb.child] /\ h[p] = d + 1 /\ h[p] - 1 = d
  BY <1>9, <1>12
<1>17. left \in R \ {Root} /\ h[left] = d
  <2>1. 0 \in 0..Len(old) /\ Child(pages[p], 0) = left
    BY <1>4, <1>15 DEF Child
  <2> QED BY <1>4, <1>12, <1>16, <2>1 DEF Fits
<1>18. \A x \in ElementsOf(old) : Below(x, d, R, h)
  <2>1. DOMAIN old = 1..Len(old)
    BY <1>14
  <2>2. ASSUME NEW i \in DOMAIN old PROVE Below(old[i], d, R, h)
    <3>1. i # 0 /\ i \in 0..Len(pages[p].entries) /\ Child(pages[p], i) = old[i].child
      BY <1>4, <1>15, <2>1 DEF Child
    <3> QED BY <1>12, <1>16, <3>1 DEF Fits, Below
  <2> QED BY <2>2 DEF ElementsOf
<1>19. e \in C /\ e.key = climb.key /\ Below(e, d, R, h)
  BY <1>3, <1>9, <1>13, <1>16 DEF Below
<1> HIDE DEF C
<1>20. entries \in Seq(C) /\ Len(entries) = Len(old) + 1 /\ ElementsOf(entries) = ElementsOf(old) \cup {e}
  <2>1. Keyed(C)
    BY EntryFields DEF C
  <2>2. entries \in Seq(C) /\ ElementsOf(entries) = ElementsOf(old) \cup {e}
    BY <1>5, <1>14, <1>19, <2>1, InsertAtKeeps
  <2>3. InPlace(C, old, e, NotGreater(old, e.key), entries)
    BY <1>5, <1>14, <1>19, <2>1, InsertAtFacts
  <2> QED BY <2>2, <2>3 DEF InPlace
<1>21. \A x \in ElementsOf(entries) : Below(x, d, R, h)
  BY <1>18, <1>19, <1>20
<1>22. NodeCap \in Nat \ {0, 1}
  BY TreeAssumption
<1>23. /\ old \in Seq([key : Key, child : Nat]) /\ e \in [key : Key, child : Nat]
       /\ entries \in Seq([key : Key, child : Nat])
  <2> DEFINE A == [key : Key, child : Nat]
  <2>1. C \subseteq A
    BY <1>12 DEF C
  <2> HIDE DEF A
  <2>2. Seq(C) \subseteq Seq(A)
    BY <2>1, SeqMonotonic
  <2>3. old \in Seq(A) /\ e \in A /\ entries \in Seq(A)
    BY <1>14, <1>19, <1>20, <2>1, <2>2 DEF C
  <2> QED BY <2>3 DEF A
<1>24. /\ torn /\ Due = {pending.entry} /\ damage' = damage /\ p \in 1..Len(pages)
  BY <1>1, <1>12 DEF StepOK, Due, Propagate, TypeInv
<1>25. CASE ~NodeFull(entries, NodeCap)
  <2>1. Perform(pending, Plan(<<WriteTo(p, Inner(entries, left))>>, Nothing))
    BY <1>6, <1>25
  <2>2. Len(entries) <= NodeCap
    BY <1>15, <1>20, <1>22, <1>25 DEF NodeFull
  <2>3. Fine(Inner(entries, left), n, h[p], R, h)
    <3> HIDE DEF n
    <3> QED BY <1>12, <1>14, <1>16, <1>17, <1>20, <1>21, <2>2, InnerMade DEF C, Fine
  <2>4. WritesOne(R, h, p, Inner(entries, left), pending)
    BY <1>11, <2>1, <2>3 DEF WritesOne
  <2>5. Propagating(R, h, path, p, e, entries, left)
    BY <1>1, <1>3, <1>4, <1>5, <1>7, <1>8, <1>9, <1>11, <1>12, <1>23, <1>24, <2>4 DEF Propagating
  <2> QED BY <1>3, <2>5
<1>26. CASE NodeFull(entries, NodeCap)
  <2>1. Perform(pending, SplitInternal(path, entries, left))
    BY <1>6, <1>26
  <2>2. PICK up, lefts, rights : /\ up = Promoted(entries) /\ lefts = LeftHalf(entries)
                                 /\ rights = Tail(RightHalf(entries))
    OBVIOUS
  <2>3. Len(entries) = NodeCap + 1 /\ Len(entries) >= 3
    BY <1>15, <1>20, <1>22, <1>26 DEF NodeFull
  <2>4. /\ lefts \in Seq(C) /\ rights \in Seq(C) /\ up \in ElementsOf(entries)
        /\ Len(lefts) <= Len(entries) - 1 /\ Len(rights) <= Len(entries) - 1
        /\ ElementsOf(lefts) \subseteq ElementsOf(entries)
        /\ ElementsOf(rights) \subseteq ElementsOf(entries)
    BY <1>20, <2>2, <2>3, ElementsHalved
  <2>5. Len(lefts) <= NodeCap /\ Len(rights) <= NodeCap
    <3>1. Len(lefts) \in Nat /\ Len(rights) \in Nat
      BY <2>4
    <3> QED BY <1>22, <2>3, <2>4, <3>1
  <2>6. up \in C /\ Below(up, d, R, h)
    BY <1>20, <1>21, <2>4 DEF ElementsOf
  <2>7. up.key \in Key /\ up.child \in 1..n /\ up.child \in R \ {Root} /\ h[up.child] = d
    BY <2>6 DEF C, Below
  <2>8. /\ \A x \in ElementsOf(lefts) : Below(x, d, R, h)
        /\ \A x \in ElementsOf(rights) : Below(x, d, R, h)
    BY <1>21, <2>4
  <2>9. PICK l, r : l = Inner(lefts, left) /\ r = Inner(rights, up.child)
    OBVIOUS
  <2> HIDE DEF n
  <2>10. Fine(l, n, h[p], R, h) /\ Fine(r, n, h[p], R, h)
    <3>1. l \in NodeTo(n) /\ Roomy(l) /\ Fits(l, d + 1, R, h)
      BY <1>12, <1>14, <1>17, <2>4, <2>5, <2>8, <2>9, InnerMade DEF C
    <3>2. r \in NodeTo(n) /\ Roomy(r) /\ Fits(r, d + 1, R, h)
      BY <1>12, <2>4, <2>5, <2>7, <2>8, <2>9, InnerMade DEF C
    <3> QED BY <1>16, <3>1, <3>2 DEF Fine
  <2>11. CASE p = Root
    <3>1. Perform(pending, Plan(<<WriteTo(Fresh, l), WriteTo(Fresh + 1, r),
                                  NewRoot(Fresh, Fresh + 1, up.key)>>, Nothing))
      BY <1>3, <2>1, <2>2, <2>9, <2>11 DEF SplitInternal
    <3>2. Len(pages) + 2 = n + 1 /\ n <= n + 1 /\ n + 1 \in Nat
      BY <1>2 DEF n, Tree
    <3>3. NodeTo(n) \subseteq NodeTo(Len(pages) + 2)
      BY <1>12, <3>2, NodesGrow
    <3>4. Fine(l, Len(pages) + 2, h[Root], R, h) /\ Fine(r, Len(pages) + 2, h[Root], R, h)
      BY <2>10, <2>11, <3>3 DEF Fine
    <3>5. WritesRoots(R, h, l, r, up.key, pending)
      BY <2>7, <3>1, <3>4 DEF WritesRoots
    <3>6. Propagating(R, h, path, p, e, entries, left)
      BY <1>1, <1>3, <1>4, <1>5, <1>7, <1>8, <1>9, <1>11, <1>12, <1>23, <1>24,
         <2>2, <2>3, <2>9, <2>11, <3>5 DEF Propagating
    <3> QED BY <1>3, <3>6
  <2>12. CASE p # Root
    <3>1. Perform(pending, Plan(<<WriteTo(p, l), WriteTo(Fresh, r)>>, ToParent(path, up.key, Fresh)))
      BY <1>3, <2>1, <2>2, <2>9, <2>12 DEF SplitInternal
    <3>2. WritesHalf(R, h, path, l, r, up.key, pending)
      BY <1>3, <1>9, <2>7, <2>10, <2>12, <3>1 DEF WritesHalf, n
    <3>3. Propagating(R, h, path, p, e, entries, left)
      BY <1>1, <1>3, <1>4, <1>5, <1>7, <1>8, <1>9, <1>11, <1>12, <1>23, <1>24,
         <2>2, <2>3, <2>9, <2>12, <3>2 DEF Propagating
    <3> QED BY <1>3, <3>3
  <2> QED BY <2>11, <2>12
<1> QED BY <1>25, <1>26

\* Taking a separator to the parent keeps the invariant.
LEMMA PropagateTypes ==
  ASSUME TypeInv, Propagate
  PROVE  TypeInv'
<1>1. PICK R, h : Tree(pages, R, h) /\ Owed(climb, R, h)
  BY DEF TypeInv, Shape, Propagate, Ahead
<1>2. PICK path, p, s, left : Propagating(R, h, path, p, Separator, s, left)
  BY <1>1, PropagateDoes
<1>3. /\ pending \in Operation /\ pending.op = "insert" /\ Counted(pending.entry)
      /\ pending.entry \notin stored \cup doubtful
  BY <1>2 DEF Propagating
<1> DEFINE l == Inner(LeftHalf(s), left)
           r == Inner(Tail(RightHalf(s)), Promoted(s).child)
           key == Promoted(s).key
<1>4. CASE WritesOne(R, h, p, Inner(s, left), pending)
  BY <1>1, <1>3, <1>4, StepOne
<1>5. CASE WritesRoots(R, h, l, r, key, pending)
  BY <1>1, <1>3, <1>5, StepRoots
<1>6. CASE WritesHalf(R, h, path, l, r, key, pending)
  BY <1>1, <1>3, <1>6, StepHalf
<1> QED BY <1>2, <1>4, <1>5, <1>6 DEF Propagating

\* The next page of a split keeps the invariant.
LEMMA ContinueTypes ==
  ASSUME TypeInv, Continue
  PROVE  TypeInv'
<1> DEFINE n == Len(pages) + 1
<1>1. /\ TypeOK /\ StepOK /\ Shape(pages, Nothing) /\ Shape(Ahead, climb)
      /\ Form(pages, todo, climb) /\ Rest /\ todo # <<>>
  BY TypeMeans DEF TypeInv, Continue
<1>2. PICK R, h : Tree(pages, R, h)
  BY <1>1 DEF Shape
<1>3. /\ Len(pages) \in Nat /\ n \in Nat /\ Root \in 1..Len(pages)
      /\ PagesTo(pages, n) /\ Root \in R /\ R \subseteq 1..Len(pages) /\ DOMAIN pages = 1..Len(pages)
  BY <1>1, <1>2 DEF Tree, Form, PagesTo
<1>4. ASSUME NEW i \in 1..Len(todo) PROVE todo[i].at \in 1..n /\ todo[i].node \in NodeTo(n) /\ Roomy(todo[i].node)
  <2> DEFINE T == [at : 1..n, node : NodeTo(n)]
  <2>1. todo \in Seq(T)
    BY <1>1 DEF Form
  <2>2. \A x \in T : x.at \in 1..n /\ x.node \in NodeTo(n)
    OBVIOUS
  <2> HIDE DEF T
  <2>3. todo[i] \in T
    BY <2>1
  <2> QED BY <1>1, <2>2, <2>3 DEF StepOK
<1>5. /\ Ahead' = Ahead /\ climb' = climb
      /\ \/ /\ Len(todo) = 1 /\ todo' = <<>> /\ climb # Nothing /\ pages' = Append(pages, todo[1].node)
         \/ /\ Len(todo) = 1 /\ todo' = <<>> /\ climb = Nothing
            /\ pages' = [pages EXCEPT ![Root] = todo[1].node] /\ pending' = Nothing
         \/ /\ Len(todo) = 2 /\ todo' = <<todo[2]>> /\ pages' = Append(pages, todo[1].node)
      /\ IF Len(todo) = 1 /\ climb = Nothing
           THEN /\ pending' = Nothing /\ torn' = FALSE
                /\ stored' = stored \cup {pending.entry} /\ doubtful' = doubtful \ {pending.entry}
           ELSE /\ pending' = pending /\ stored' = stored /\ doubtful' = doubtful
                /\ torn' = (torn \/ climb # Nothing)
      /\ UNCHANGED <<used, upsets, damage>>
  BY <1>1, WriteNext
<1>6. Shape(Ahead', climb')
  BY <1>1, <1>5
<1>7. /\ ~Idle /\ pending.op = "insert" /\ pending.entry \notin stored \cup doubtful
      /\ pending.entry \in Entry /\ Due = {pending.entry}
  BY <1>1 DEF StepOK, Rest, Idle, Operation, Due
<1>8. Rest'
  BY <1>1, <1>5, <1>7 DEF Rest
<1>9. \A e \in (stored \cup doubtful \cup Due)' : e.loc <= used'[e.key]
  <2>1. (stored \cup doubtful \cup Due)' \subseteq stored \cup doubtful \cup Due
    BY <1>5, <1>7 DEF Due, Idle
  <2> QED BY <1>1, <1>5, <2>1 DEF StepOK
<1>10. CASE Len(todo) = 1 /\ todo' = <<>> /\ climb # Nothing /\ pages' = Append(pages, todo[1].node)
  <2>1. todo[1].node \in NodeTo(n + 1) /\ Roomy(todo[1].node)
    <3>1. NodeTo(n) \subseteq NodeTo(n + 1)
      BY <1>3, NodesGrow
    <3> QED BY <1>4, <1>10, <3>1
  <2>2. PagesTo(pages', n + 1)
    BY <1>3, <1>10, <2>1, PagesLonger
  <2>3. Len(pages') = n
    BY <1>3, <1>10, Changed DEF PagesTo, Longer
  <2>4. Form(pages', todo', climb')
    <3>1. climb \in [op : {"propagate"}, key : Key, child : 1..n, path : Seq(1..n)]
      BY <1>1, <1>10 DEF Form
    <3>2. 1..n \subseteq 1..(n + 1)
      BY <1>3
    <3>3. climb \in [op : {"propagate"}, key : Key, child : 1..(n + 1), path : Seq(1..(n + 1))]
      BY <3>1, <3>2, SeqMonotonic
    <3> QED BY <1>5, <1>10, <2>2, <2>3, <3>3 DEF Form, PagesTo
  <2>5. TypeOK'
    BY <1>8, <2>4, TypeMeans
  <2>6. StepOK'
    <3>1. /\ pending' = pending /\ stored' = stored /\ doubtful' = doubtful /\ climb' = climb
          /\ torn' = (torn \/ climb # Nothing)
      BY <1>5, <1>10
    <3>2. torn' = TRUE
      BY <1>10, <3>1
    <3> QED BY <1>7, <1>9, <1>10, <3>1, <3>2 DEF StepOK, Idle
  <2>7. Shape(pages', Nothing)
    <3>1. Ahead' = pages'
      BY <1>10 DEF Ahead
    <3> QED BY <1>6, <3>1 DEF Shape, Owed
  <2> QED BY <1>6, <2>5, <2>6, <2>7 DEF TypeInv
<1>11. CASE /\ Len(todo) = 1 /\ todo' = <<>> /\ climb = Nothing
            /\ pages' = [pages EXCEPT ![Root] = todo[1].node] /\ pending' = Nothing
  <2>1. todo[1].node \in NodeTo(n) /\ Roomy(todo[1].node)
    BY <1>4, <1>11
  <2>2. PagesTo(pages', n)
    BY <1>3, <1>11, <2>1, PagesReplaced
  <2>3. Len(pages') = Len(pages)
    BY <1>3, <1>11, Changed DEF PagesTo, Replaced
  <2>4. Form(pages', todo', climb')
    BY <1>5, <1>11, <2>2, <2>3 DEF Form, PagesTo
  <2>5. TypeOK'
    BY <1>8, <2>4, TypeMeans
  <2>6. StepOK'
    <3>1. torn' = FALSE /\ climb' = Nothing
      BY <1>5, <1>11
    <3> QED BY <1>9, <1>11, <3>1 DEF StepOK, Idle
  <2>7. Shape(pages', Nothing)
    <3>1. Ahead' = pages'
      BY <1>11 DEF Ahead
    <3> QED BY <1>6, <3>1 DEF Shape, Owed
  <2> QED BY <1>6, <2>5, <2>6, <2>7 DEF TypeInv
<1>12. CASE Len(todo) = 2 /\ todo' = <<todo[2]>> /\ pages' = Append(pages, todo[1].node)
  <2>1. /\ todo[1].node \in NodeTo(n + 1) /\ Roomy(todo[1].node)
        /\ todo[2].node \in NodeTo(n + 1) /\ Roomy(todo[2].node) /\ todo[2].at \in 1..(n + 1)
    <3>1. NodeTo(n) \subseteq NodeTo(n + 1) /\ 1..n \subseteq 1..(n + 1)
      BY <1>3, NodesGrow
    <3> QED BY <1>4, <1>12, <3>1
  <2>2. PagesTo(pages', n + 1)
    BY <1>3, <1>12, <2>1, PagesLonger
  <2>3. Longer(pages, pages', todo[1].node) /\ Len(pages') = n
    BY <1>3, <1>12, Changed DEF PagesTo, Longer
  <2>4. climb = Nothing /\ todo[2].at = Root
    BY <1>1, <1>12 DEF StepOK
  <2>5. Form(pages', todo', climb')
    <3> DEFINE T == [at : 1..(n + 1), node : NodeTo(n + 1)]
               S == [at : 1..n, node : NodeTo(n)]
    <3>1. S \subseteq T
      <4>1. NodeTo(n) \subseteq NodeTo(n + 1) /\ 1..n \subseteq 1..(n + 1)
        BY <1>3, NodesGrow
      <4> QED BY <4>1
    <3>2. todo \in Seq(S)
      BY <1>1 DEF Form
    <3> HIDE DEF S, T
    <3>3. todo[2] \in T
      <4>1. 2 \in 1..Len(todo)
        BY <1>12
      <4>2. todo[2] \in S
        BY <3>2, <4>1
      <4> QED BY <3>1, <4>2
    <3>4. <<todo[2]>> \in Seq(T)
      BY <3>3
    <3> QED BY <1>5, <1>12, <2>2, <2>3, <2>4, <3>4 DEF Form, PagesTo, T
  <2>6. TypeOK'
    BY <1>8, <2>5, TypeMeans
  <2>7. StepOK'
    <3>1. Len(todo') = 1 /\ todo'[1] = todo[2] /\ todo' # <<>> /\ \A i \in 1..1 : i = 1
      BY <1>12
    <3>2. pending' = pending /\ stored' = stored /\ doubtful' = doubtful /\ climb' = Nothing
      BY <1>5, <1>12, <2>4
    <3> QED BY <1>7, <1>9, <2>1, <2>4, <3>1, <3>2 DEF StepOK, Idle
  <2>8. Shape(pages', Nothing)
    <3>1. /\ Len(pages') \in Nat /\ DOMAIN pages' = 1..Len(pages') /\ Len(pages) <= Len(pages')
          /\ \A x \in R : pages'[x] = pages[x]
      BY <1>3, <2>3 DEF Longer
    <3>2. Tree(pages', R, h)
      BY <1>2, <3>1, TreeInLonger
    <3> QED BY <3>2 DEF Shape, Owed
  <2> QED BY <1>6, <2>6, <2>7, <2>8 DEF TypeInv
<1> QED BY <1>5, <1>10, <1>11, <1>12

\* A crash keeps the invariant: the pages alone are a tree too.
LEMMA CrashTypes ==
  ASSUME TypeInv, Crash
  PROVE  TypeInv'
<1>1. /\ Form(pages, todo, climb) /\ Rest /\ StepOK /\ Shape(pages, Nothing)
  BY TypeMeans DEF TypeInv
<1>2. /\ todo' = <<>> /\ climb' = Nothing /\ pending' = Nothing /\ torn' = FALSE /\ pages' = pages
      /\ used' = used /\ stored' = stored \ Due /\ doubtful' = doubtful \cup Due
      /\ upsets < MaxUpsets /\ upsets' = upsets + 1
      /\ damage' \in {damage \cup {"cut"}, damage \cup {}}
  BY DEF Crash, Due
<1>3. Due \subseteq Entry
  BY <1>1 DEF Rest, Due, Idle, Operation
<1>4. Rest'
  <2>1. upsets' \in 0..MaxUpsets
    BY <1>1, <1>2, TreeAssumption DEF Rest
  <2> QED BY <1>1, <1>2, <1>3, <2>1 DEF Rest
<1>5. Form(pages', todo', climb')
  BY <1>1, <1>2 DEF Form
<1>6. StepOK'
  <2>1. Due' = {} /\ Idle'
    BY <1>2 DEF Due, Idle
  <2>2. Len(todo') = 0
    BY <1>2
  <2> QED BY <1>1, <1>2, <2>1, <2>2 DEF StepOK
<1>7. Ahead' = pages'
  BY <1>2 DEF Ahead
<1> QED BY <1>1, <1>2, <1>4, <1>5, <1>6, <1>7, TypeMeans DEF TypeInv

\* Every step keeps the invariant.
LEMMA TypesKept == TypeInv /\ [Next]_vars => TypeInv'
<1> SUFFICES ASSUME TypeInv, [Next]_vars PROVE TypeInv'
  OBVIOUS
<1>1. CASE \E key \in Key : Insert(key)
  BY <1>1, InsertTypes
<1>2. CASE \E e \in stored \cup doubtful : Delete(e)
  BY <1>2, DeleteTypes
<1>3. CASE Continue
  BY <1>3, ContinueTypes
<1>4. CASE Propagate
  BY <1>4, PropagateTypes
<1>5. CASE Crash
  BY <1>5, CrashTypes
<1>6. CASE UNCHANGED vars
  <2>1. /\ TypeOK' <=> TypeOK
        /\ StepOK' <=> StepOK
        /\ Ahead' = Ahead /\ climb' = climb /\ pages' = pages
    BY <1>6, TypeMeans DEF vars, StepOK, Ahead, Due, Idle, Form, Rest
  <2> QED BY <2>1 DEF TypeInv
<1> QED BY <1>1, <1>2, <1>3, <1>4, <1>5, <1>6 DEF Next, Stop

\* Through splits at every level, deletions and crashes between any two page writes, every
\* page of the index is a leaf or an internal node that respects its capacity, and every link
\* leads to a page of the file or to the next one to be written; what is reached from the
\* root is a tree, all its leaves at one depth.
THEOREM TypeCorrect == Spec => [](TypeOK /\ Shape(pages, Nothing))
<1>1. TypeInv => TypeOK /\ Shape(pages, Nothing)
  BY DEF TypeInv
<1> QED BY InitTypes, TypesKept, <1>1, PTL DEF Spec

(***************************************************************************)
(* The chain of the leaves, and what they hold.                            *)
(***************************************************************************)

\* The leaves L are linked in the order of their places.
Follows(x, p, L, place) ==
  x \in L /\ place[p] < place[x] /\ \A q \in L : place[p] < place[q] => place[x] <= place[q]
Linked(V, L, first, place) ==
  /\ L \subseteq 1..Len(V) /\ first \in L /\ place \in [L -> 1..Len(V)]
  /\ \A p, q \in L : place[p] = place[q] => p = q
  /\ \A q \in L : place[first] <= place[q]
  /\ \A p \in L : IF V[p].next = None THEN \A q \in L : place[q] <= place[p]
                  ELSE Follows(V[p].next, p, L, place)

\* Leftmost children lead from the root to the first leaf.
Leftmost(V, R, M, first) ==
  /\ M \subseteq R /\ Root \in M
  /\ \A p \in M : IF V[p].leaf THEN p = first ELSE V[p].left \in M

\* The leaves hold each of their entries once: all of `lower`, and none outside `upper`.
Content(V, p) == ElementsOf(V[p].entries)
Holds(V, L, lower, upper) ==
  /\ \A p \in L : Once(V[p].entries) /\ Content(V, p) \subseteq upper
  /\ \A p, q \in L : p # q => Content(V, p) \cap Content(V, q) = {}
  /\ \A e \in lower : \E p \in L : e \in Content(V, p)

Chained(V, R, lower, upper) == \E first, place, M :
  /\ Linked(V, Leaves(V, R), first, place)
  /\ Leftmost(V, R, M, first)
  /\ Holds(V, Leaves(V, R), lower, upper)

\* Pages of which the leaves are as they were.
SameLeaves(V, R, U, Q) ==
  /\ Len(V) \in Nat /\ Len(U) \in Nat /\ Len(V) <= Len(U)
  /\ Leaves(U, Q) = Leaves(V, R) /\ \A p \in Leaves(V, R) : U[p] = V[p]
LEMMA LinkedSame ==
  ASSUME NEW V, NEW R, NEW U, NEW Q, SameLeaves(V, R, U, Q), NEW lower, NEW upper,
         NEW first, NEW place, Linked(V, Leaves(V, R), first, place),
         Holds(V, Leaves(V, R), lower, upper)
  PROVE  Linked(U, Leaves(U, Q), first, place) /\ Holds(U, Leaves(U, Q), lower, upper)
<1> DEFINE L == Leaves(V, R)
<1>1. Len(V) \in Nat /\ Len(U) \in Nat /\ Len(V) <= Len(U) /\ Leaves(U, Q) = L /\ \A p \in L : U[p] = V[p]
  BY DEF SameLeaves
<1> HIDE DEF L
<1>2. Linked(V, L, first, place) /\ Holds(V, L, lower, upper)
  BY DEF L
<1>3. 1..Len(V) \subseteq 1..Len(U)
  BY <1>1
<1>4. Linked(U, L, first, place)
  <2>1. L \subseteq 1..Len(U) /\ place \in [L -> 1..Len(U)]
    BY <1>2, <1>3 DEF Linked
  <2>2. \A p \in L : IF U[p].next = None THEN \A q \in L : place[q] <= place[p]
                     ELSE Follows(U[p].next, p, L, place)
    BY <1>1, <1>2 DEF Linked
  <2> QED BY <1>2, <2>1, <2>2 DEF Linked
<1>5. \A p \in L : Content(U, p) = Content(V, p) /\ U[p].entries = V[p].entries
  BY <1>1 DEF Content
<1>6. Holds(U, L, lower, upper)
  BY <1>2, <1>5 DEF Holds
<1> QED BY <1>1, <1>4, <1>6

\* A leaf is written with other entries and the same link.
Rewritten(V, U, p, s) ==
  /\ Len(U) = Len(V) /\ U[p].leaf /\ U[p].next = V[p].next /\ U[p].entries = s
  /\ \A x \in 1..Len(V) : x # p => U[x] = V[x]
LEMMA LinkedRewritten ==
  ASSUME NEW V, NEW L, NEW first, NEW place, Linked(V, L, first, place),
         NEW U, NEW p, NEW s, Rewritten(V, U, p, s)
  PROVE  Linked(U, L, first, place)
<1>1. \A x \in L : U[x].next = V[x].next
  BY DEF Linked, Rewritten
<1> QED BY <1>1 DEF Linked, Rewritten

\* Entries come to a leaf or leave it, which has each once.
LEMMA HoldsRewritten ==
  ASSUME NEW V, NEW L, L \subseteq 1..Len(V), NEW lower, NEW upper, Holds(V, L, lower, upper),
         NEW U, NEW p \in L, NEW s, Rewritten(V, U, p, s), Once(s),
         NEW more, more \cap upper = {}, NEW less,
         ElementsOf(s) = (Content(V, p) \cup more) \ less,
         less \cap upper \subseteq Content(V, p)
  PROVE  Holds(U, L, (lower \cup more) \ less, (upper \cup more) \ less)
<1>1. /\ Content(U, p) = (Content(V, p) \cup more) \ less /\ U[p].entries = s
      /\ \A x \in L : x # p => U[x] = V[x] /\ Content(U, x) = Content(V, x)
  BY DEF Rewritten, Content
<1>2. /\ \A x \in L : Once(V[x].entries) /\ Content(V, x) \subseteq upper
      /\ \A x, y \in L : x # y => Content(V, x) \cap Content(V, y) = {}
      /\ \A e \in lower : \E x \in L : e \in Content(V, x)
  BY DEF Holds
<1>3. \A x \in L : Once(U[x].entries)
  BY <1>1, <1>2
<1>4. ASSUME NEW x \in L PROVE Content(U, x) \subseteq (upper \cup more) \ less
  <2>1. CASE x = p
    BY <1>1, <1>2, <2>1
  <2>2. CASE x # p
    <3>1. Content(U, x) = Content(V, x) /\ Content(V, x) \subseteq upper /\ Content(V, x) \cap Content(V, p) = {}
      BY <1>1, <1>2, <2>2
    <3> QED BY <3>1
  <2> QED BY <2>1, <2>2
<1>5. ASSUME NEW x \in L, NEW y \in L, x # y PROVE Content(U, x) \cap Content(U, y) = {}
  <2>1. Content(V, x) \cap Content(V, y) = {} /\ Content(V, x) \subseteq upper /\ Content(V, y) \subseteq upper
    BY <1>2, <1>5
  <2>2. CASE x = p
    <3>1. Content(U, x) \subseteq Content(V, x) \cup more /\ Content(U, y) = Content(V, y)
      BY <1>1, <1>5, <2>2
    <3> QED BY <2>1, <3>1
  <2>3. CASE y = p
    <3>1. Content(U, y) \subseteq Content(V, y) \cup more /\ Content(U, x) = Content(V, x)
      BY <1>1, <1>5, <2>3
    <3> QED BY <2>1, <3>1
  <2>4. CASE x # p /\ y # p
    BY <1>1, <2>1, <2>4
  <2> QED BY <2>2, <2>3, <2>4
<1>6. ASSUME NEW e \in (lower \cup more) \ less PROVE \E x \in L : e \in Content(U, x)
  <2>1. CASE e \in more
    BY <1>1, <2>1
  <2>2. CASE e \in lower
    <3>1. PICK x \in L : e \in Content(V, x)
      BY <1>2, <2>2
    <3>2. e \in Content(U, x)
      BY <1>1, <3>1
    <3> QED BY <3>2
  <2> QED BY <2>1, <2>2
<1> QED BY <1>3, <1>4, <1>5, <1>6 DEF Holds

\* What the leaves are known to hold may be less, what they may hold more.
LEMMA HoldsLoosely ==
  ASSUME NEW V, NEW R, NEW lower, NEW upper, Chained(V, R, lower, upper),
         NEW low, low \subseteq lower, NEW up, upper \subseteq up
  PROVE  Chained(V, R, low, up)
<1>1. PICK first, place, M : /\ Linked(V, Leaves(V, R), first, place)
                             /\ Leftmost(V, R, M, first)
                             /\ Holds(V, Leaves(V, R), lower, upper)
  BY DEF Chained
<1>2. Holds(V, Leaves(V, R), low, up)
  BY <1>1 DEF Holds
<1> QED BY <1>1, <1>2 DEF Chained

\* The leaf p is cut in half: a takes its place, and b comes behind it.
Cut(V, L, W, K, p, a, b) ==
  /\ p \in L /\ K = (L \ {p}) \cup {a, b} /\ a \in (1..Len(W) \ L) \cup {p}
  /\ b \in 1..Len(W) \ L /\ a # b /\ Len(V) \in Nat /\ Len(W) \in Nat /\ Len(V) < Len(W)
  /\ \A x \in L : x # p => W[x] = V[x]
  /\ W[a].next = b /\ W[b].next = V[p].next
  /\ W[a].entries = LeftHalf(V[p].entries) /\ W[b].entries = RightHalf(V[p].entries)
LEMMA LinkedCut ==
  ASSUME NEW V, NEW L, NEW first, NEW place, Linked(V, L, first, place),
         NEW W, NEW K, NEW p, NEW a, NEW b, Cut(V, L, W, K, p, a, b), a = p \/ p = first,
         NEW head, head = IF p = first THEN a ELSE first
  PROVE  \E order : Linked(W, K, head, order)
<1> DEFINE new(x) == IF x = a THEN place[p] ELSE IF x = b THEN place[p] + 1
                     ELSE IF place[x] > place[p] THEN place[x] + 1 ELSE place[x]
<1>1. PICK order : order = [x \in K |-> new(x)]
  OBVIOUS
<1>2. /\ p \in L /\ a # b /\ b \notin L /\ (a = p \/ a \notin L) /\ None \notin {a, b}
      /\ \A x \in K : x = a \/ x = b \/ (x \in L /\ x # p /\ x # a /\ x # b)
      /\ a \in K /\ b \in K /\ (\A x \in L : x # p => x \in K)
      /\ K \subseteq 1..Len(W) /\ Len(V) \in Nat /\ Len(W) \in Nat /\ Len(V) + 1 <= Len(W)
  BY DEF Cut, Linked, None
<1>3. /\ \A x \in L : place[x] \in 1..Len(V)
      /\ \A x, y \in L : place[x] = place[y] => x = y
      /\ \A x \in L : place[first] <= place[x]
      /\ first \in L
  BY DEF Linked
<1>4. /\ order[a] = place[p] /\ order[b] = place[p] + 1
      /\ \A x \in L : x # p => order[x] = IF place[x] > place[p] THEN place[x] + 1 ELSE place[x]
  BY <1>1, <1>2
<1>5. order \in [K -> 1..Len(W)]
  <2>1. \A x \in K : x = a \/ x = b \/ place[x] \in 1..Len(V)
    BY <1>2, <1>3
  <2>2. place[p] \in 1..Len(V)
    BY <1>2, <1>3
  <2>3. ASSUME NEW x \in K PROVE new(x) \in 1..Len(W)
    BY <1>2, <2>1, <2>2
  <2> QED BY <1>1, <2>3
<1>6. \A x \in L : x # p => order[x] \in Nat /\ place[x] # place[p]
  BY <1>2, <1>3, <1>4
<1>7. ASSUME NEW x \in K, NEW y \in K, order[x] = order[y] PROVE x = y
  <2>1. CASE x \in {a, b} /\ y \in {a, b}
    BY <1>2, <1>3, <1>4, <1>7, <2>1
  <2>2. CASE x \in {a, b} /\ y \notin {a, b}
    <3>1. y \in L /\ y # p /\ place[y] \in Nat /\ place[p] \in Nat /\ place[y] # place[p]
      BY <1>2, <1>3, <1>6, <2>2
    <3>2. order[y] = IF place[y] > place[p] THEN place[y] + 1 ELSE place[y]
      BY <1>4, <3>1
    <3>3. order[x] = place[p] \/ order[x] = place[p] + 1
      BY <1>4, <2>2
    <3>4. order[x] # order[y]
      BY <3>1, <3>2, <3>3
    <3> QED BY <1>7, <3>4
  <2>3. CASE x \notin {a, b} /\ y \in {a, b}
    <3>1. x \in L /\ x # p /\ place[x] \in Nat /\ place[p] \in Nat /\ place[x] # place[p]
      BY <1>2, <1>3, <1>6, <2>3
    <3>2. order[x] = IF place[x] > place[p] THEN place[x] + 1 ELSE place[x]
      BY <1>4, <3>1
    <3>3. order[y] = place[p] \/ order[y] = place[p] + 1
      BY <1>4, <2>3
    <3>4. order[x] # order[y]
      BY <3>1, <3>2, <3>3
    <3> QED BY <1>7, <3>4
  <2>4. CASE x \notin {a, b} /\ y \notin {a, b}
    <3>1. x \in L /\ y \in L /\ x # p /\ y # p
      BY <1>2, <2>4
    <3>2. place[x] \in Nat /\ place[y] \in Nat /\ place[p] \in Nat
      BY <1>2, <1>3, <3>1
    <3>3. place[x] = place[y]
      BY <1>4, <1>7, <3>1, <3>2
    <3> QED BY <1>3, <3>1, <3>3
  <2> QED BY <2>1, <2>2, <2>3, <2>4
<1>8. head \in K /\ \A q \in K : order[head] <= order[q]
  <2>1. order[head] = place[first] /\ head \in K
    <3>1. CASE p = first
      BY <1>2, <1>4, <3>1
    <3>2. CASE p # first
      <4>1. first \in K /\ place[first] <= place[p] /\ order[first] = place[first]
        BY <1>2, <1>3, <1>4, <3>2
      <4> QED BY <3>2, <4>1
    <3> QED BY <3>1, <3>2
  <2>2. ASSUME NEW q \in K PROVE place[first] <= order[q]
    BY <1>2, <1>3, <1>4
  <2> QED BY <2>1, <2>2
<1>9. ASSUME NEW x \in L, x # p, V[x].next # None
      PROVE  W[x].next = V[x].next /\ Follows(W[x].next, x, K, order)
  <2>1. W[x].next = V[x].next /\ Follows(V[x].next, x, L, place)
    BY <1>9 DEF Linked, Cut
  <2> DEFINE y == V[x].next
  <2>2. y \in L /\ place[x] < place[y] /\ \A q \in L : place[x] < place[q] => place[y] <= place[q]
    BY <2>1 DEF Follows
  <2> HIDE DEF y
  <2>3. y = p => a = p
    BY <1>2, <1>3, <1>9, <2>2
  <2>4. y \in K /\ order[x] < order[y]
    <3>1. CASE y = p
      BY <1>2, <1>3, <1>4, <1>9, <2>2, <2>3, <3>1
    <3>2. CASE y # p
      <4>1. y \in K /\ place[x] \in Nat /\ place[y] \in Nat /\ place[p] \in Nat
        BY <1>2, <1>3, <1>9, <2>2, <3>2
      <4>2. /\ order[x] = IF place[x] > place[p] THEN place[x] + 1 ELSE place[x]
            /\ order[y] = IF place[y] > place[p] THEN place[y] + 1 ELSE place[y]
        BY <1>4, <1>9, <2>2, <3>2
      <4> QED BY <2>2, <4>1, <4>2
    <3> QED BY <3>1, <3>2
  <2>5. ASSUME NEW q \in K, order[x] < order[q] PROVE order[y] <= order[q]
    <3>1. CASE q = a
      <4>1. place[x] < place[p]
        BY <1>2, <1>3, <1>4, <1>6, <1>9, <2>5, <3>1
      <4>2. place[y] <= place[p]
        BY <1>2, <2>2, <4>1
      <4>3. order[y] <= place[p]
        BY <1>2, <1>3, <1>4, <2>2, <2>3, <4>2
      <4> QED BY <1>4, <3>1, <4>3
    <3>2. CASE q = b
      <4>1. place[x] <= place[p]
        BY <1>2, <1>3, <1>4, <1>6, <1>9, <2>5, <3>2
      <4>2. place[x] < place[p]
        BY <1>2, <1>3, <1>9, <4>1
      <4>3. place[y] <= place[p]
        BY <1>2, <2>2, <4>2
      <4>4. order[y] <= place[p]
        BY <1>2, <1>3, <1>4, <2>2, <2>3, <4>3
      <4>5. order[q] = place[p] + 1 /\ place[p] \in Nat /\ order[y] \in Nat
        BY <1>2, <1>3, <1>4, <1>5, <2>4, <3>2
      <4> QED BY <4>4, <4>5
    <3>3. CASE q # a /\ q # b
      <4>1. q \in L /\ q # p /\ place[q] \in Nat /\ place[x] \in Nat /\ place[p] \in Nat
        BY <1>2, <1>3, <1>9, <3>3
      <4>2. place[x] < place[q]
        BY <1>3, <1>4, <1>6, <1>9, <2>5, <4>1
      <4>3. place[y] <= place[q]
        BY <2>2, <4>1, <4>2
      <4>4. CASE y = p
        BY <1>2, <1>4, <1>6, <2>3, <4>1, <4>3, <4>4
      <4>5. CASE y # p
        BY <1>3, <1>4, <2>2, <4>1, <4>3, <4>5
      <4> QED BY <4>4, <4>5
    <3> QED BY <3>1, <3>2, <3>3
  <2> QED BY <2>1, <2>4, <2>5 DEF Follows, y
<1>10. ASSUME NEW x \in L, x # p, V[x].next = None
       PROVE  W[x].next = None /\ \A q \in K : order[q] <= order[x]
  <2>1. W[x].next = None /\ \A q \in L : place[q] <= place[x]
    BY <1>10 DEF Linked, Cut
  <2>2. place[p] < place[x]
    BY <1>2, <1>3, <1>6, <1>10, <2>1
  <2>3. order[x] = place[x] + 1 /\ place[x] \in Nat /\ place[p] \in Nat
    BY <1>2, <1>3, <1>4, <1>10, <2>2
  <2>4. ASSUME NEW q \in K PROVE order[q] <= place[x] + 1
    <3>1. CASE q \in {a, b}
      BY <1>4, <2>2, <2>3, <3>1
    <3>2. CASE q \notin {a, b}
      <4>1. q \in L /\ q # p /\ place[q] \in Nat /\ place[q] <= place[x]
        BY <1>2, <1>3, <2>1, <3>2
      <4> QED BY <1>4, <2>3, <4>1
    <3> QED BY <3>1, <3>2
  <2> QED BY <2>1, <2>3, <2>4
<1>11. W[a].next # None /\ Follows(W[a].next, a, K, order)
  <2>1. W[a].next = b
    BY DEF Cut
  <2>2. ASSUME NEW q \in K, place[p] < order[q] PROVE place[p] + 1 <= order[q]
    BY <1>2, <1>3, <1>5, <2>2
  <2>3. place[p] < place[p] + 1
    BY <1>2, <1>3
  <2> QED BY <1>2, <1>4, <2>1, <2>2, <2>3 DEF Follows
<1>12. CASE V[p].next = None
  <2>1. W[b].next = None /\ \A q \in L : place[q] <= place[p]
    BY <1>2, <1>12 DEF Linked, Cut
  <2>2. ASSUME NEW q \in K PROVE order[q] <= order[b]
    <3>1. place[p] \in Nat
      BY <1>2, <1>3
    <3>2. CASE q \in {a, b}
      BY <1>4, <3>1, <3>2
    <3>3. CASE q \notin {a, b}
      <4>1. q \in L /\ q # p /\ place[q] \in Nat /\ place[q] <= place[p]
        BY <1>2, <1>3, <2>1, <3>3
      <4> QED BY <1>4, <3>1, <4>1
    <3> QED BY <3>2, <3>3
  <2> QED BY <1>2, <1>5, <1>7, <1>8, <1>9, <1>10, <1>11, <2>1, <2>2 DEF Linked
<1>13. CASE V[p].next # None
  <2> DEFINE y == V[p].next
  <2>1. W[b].next = y /\ y \in L /\ place[p] < place[y] /\ \A q \in L : place[p] < place[q] => place[y] <= place[q]
    BY <1>2, <1>13 DEF Linked, Cut, Follows
  <2> HIDE DEF y
  <2>2. y # p /\ y \in K /\ order[y] = place[y] + 1 /\ place[p] \in Nat /\ place[y] \in Nat
    BY <1>2, <1>3, <1>4, <2>1
  <2>3. ASSUME NEW q \in K, order[b] < order[q] PROVE order[y] <= order[q]
    <3>1. q \in L /\ q # p /\ place[q] \in Nat
      <4>1. order[a] = place[p] /\ order[b] = place[p] + 1
        BY <1>4
      <4>2. q # a /\ q # b
        BY <2>2, <2>3, <4>1
      <4> QED BY <1>2, <1>3, <4>2
    <3>2. place[p] < place[q]
      BY <1>4, <2>2, <2>3, <3>1
    <3>3. order[q] = place[q] + 1 /\ place[y] <= place[q]
      BY <1>4, <2>1, <2>2, <3>1, <3>2
    <3> QED BY <2>2, <3>1, <3>3
  <2>4. order[b] < order[y]
    BY <1>4, <2>1, <2>2
  <2>5. y # None /\ Follows(y, b, K, order)
    BY <1>2, <1>13, <2>2, <2>3, <2>4 DEF Follows, y
  <2> QED BY <1>2, <1>5, <1>7, <1>8, <1>9, <1>10, <1>11, <2>1, <2>5 DEF Linked
<1> QED BY <1>12, <1>13

\* Between them the halves hold what the leaf held.
LEMMA HoldsCut ==
  ASSUME NEW V, NEW L, NEW lower, NEW upper, Holds(V, L, lower, upper),
         NEW W, NEW K, NEW p, NEW a, NEW b, Cut(V, L, W, K, p, a, b),
         V[p].entries \in Seq(Entry), Len(V[p].entries) >= 2
  PROVE  Holds(W, K, lower, upper)
<1> DEFINE s == V[p].entries
           m == Mid(s)
<1>1. Halves(Entry, s, m)
  BY HalvesFacts
<1>2. /\ p \in L /\ a # b /\ b \notin L /\ (a = p \/ a \notin L)
      /\ \A x \in K : x = a \/ x = b \/ (x \in L /\ x # p /\ x # a /\ x # b)
      /\ a \in K /\ b \in K /\ (\A x \in L : x # p => x \in K)
  BY DEF Cut
<1>3. /\ \A x \in L : x # p => W[x].entries = V[x].entries /\ Content(W, x) = Content(V, x)
      /\ W[a].entries = LeftHalf(s) /\ W[b].entries = RightHalf(s)
  BY DEF Cut, Content
<1>4. /\ \A x \in L : Once(V[x].entries) /\ Content(V, x) \subseteq upper
      /\ \A x, y \in L : x # y => Content(V, x) \cap Content(V, y) = {}
      /\ \A e \in lower : \E x \in L : e \in Content(V, x)
  BY DEF Holds
<1>5. Once(s) /\ Content(V, p) = ElementsOf(s)
  BY <1>2, <1>4 DEF Content
<1> HIDE DEF s, m
<1>6. /\ Once(LeftHalf(s)) /\ Once(RightHalf(s))
      /\ ElementsOf(LeftHalf(s)) \cap ElementsOf(RightHalf(s)) = {}
      /\ ElementsOf(LeftHalf(s)) \cup ElementsOf(RightHalf(s)) = ElementsOf(s)
  <2> DEFINE l == LeftHalf(s)
             r == RightHalf(s)
             N == Len(s)
  <2>1. /\ m \in Nat /\ N \in Nat /\ m \in 1..(N - 1) /\ Len(l) = m /\ Len(r) = N - m
        /\ DOMAIN l = 1..m /\ DOMAIN r = 1..(N - m) /\ DOMAIN s = 1..N
        /\ \A i \in 1..m : l[i] = s[i]
        /\ \A i \in 1..(N - m) : r[i] = s[m + i]
    BY <1>1 DEF Halves
  <2>2. \A i, j \in 1..N : s[i] = s[j] => i = j
    BY <1>5, <2>1 DEF Once
  <2> HIDE DEF l, r, N
  <2>3. Once(l)
    <3>1. \A i \in 1..m : i \in 1..N
      BY <2>1
    <3> QED BY <2>1, <2>2, <3>1 DEF Once
  <2>4. \A i \in 1..(N - m) : m + i \in 1..N
    BY <2>1
  <2>5. Once(r)
    <3>1. ASSUME NEW i \in 1..(N - m), NEW j \in 1..(N - m), r[i] = r[j] PROVE i = j
      <4>1. m + i = m + j
        BY <2>1, <2>2, <2>4, <3>1
      <4> QED BY <2>1, <4>1
    <3> QED BY <2>1, <3>1 DEF Once
  <2>6. ASSUME NEW x \in ElementsOf(l), x \in ElementsOf(r) PROVE FALSE
    <3>1. PICK i \in 1..m : x = s[i]
      BY <2>1 DEF ElementsOf
    <3>2. PICK j \in 1..(N - m) : x = r[j]
      BY <2>1, <2>6 DEF ElementsOf
    <3>3. x = s[m + j] /\ m + j \in 1..N /\ i \in 1..N
      BY <2>1, <2>4, <3>2
    <3>4. i = m + j
      BY <2>2, <3>1, <3>3
    <3> QED BY <2>1, <3>4
  <2>7. ASSUME NEW x \in ElementsOf(s) PROVE x \in ElementsOf(l) \/ x \in ElementsOf(r)
    <3>1. PICK i \in 1..N : x = s[i]
      BY <2>1 DEF ElementsOf
    <3>2. CASE i <= m
      <4>1. i \in 1..m
        BY <2>1, <3>2
      <4> QED BY <2>1, <3>1, <4>1 DEF ElementsOf
    <3>3. CASE i > m
      <4>1. i - m \in 1..(N - m) /\ m + (i - m) = i
        BY <2>1, <3>3
      <4> QED BY <2>1, <3>1, <4>1 DEF ElementsOf
    <3> QED BY <2>1, <3>2, <3>3
  <2>8. ElementsOf(l) \subseteq ElementsOf(s)
    <3>1. \A i \in 1..m : i \in 1..N
      BY <2>1
    <3> QED BY <2>1, <3>1 DEF ElementsOf
  <2>9. ElementsOf(r) \subseteq ElementsOf(s)
    <3>1. ASSUME NEW i \in DOMAIN r PROVE r[i] \in ElementsOf(s)
      <4>1. m + i \in DOMAIN s /\ r[i] = s[m + i]
        BY <2>1, <2>4
      <4> QED BY <4>1 DEF ElementsOf
    <3> QED BY <3>1 DEF ElementsOf
  <2>10. ElementsOf(l) \cap ElementsOf(r) = {} /\ ElementsOf(l) \cup ElementsOf(r) = ElementsOf(s)
    BY <2>6, <2>7, <2>8, <2>9
  <2> QED BY <2>3, <2>5, <2>10 DEF l, r
<1>7. Content(W, a) = ElementsOf(LeftHalf(s)) /\ Content(W, b) = ElementsOf(RightHalf(s))
  BY <1>3 DEF Content
<1>8. /\ Content(W, a) \cap Content(W, b) = {} /\ Content(W, a) \cup Content(W, b) = Content(V, p)
      /\ Content(W, a) \subseteq Content(V, p) /\ Content(W, b) \subseteq Content(V, p)
      /\ Once(W[a].entries) /\ Once(W[b].entries)
  BY <1>3, <1>5, <1>6, <1>7
<1>9. ASSUME NEW x \in K PROVE Once(W[x].entries) /\ Content(W, x) \subseteq upper
  <2>1. CASE x \in {a, b}
    <3>1. Content(V, p) \subseteq upper
      BY <1>2, <1>4
    <3> QED BY <1>8, <2>1, <3>1
  <2>2. CASE x \notin {a, b}
    BY <1>2, <1>3, <1>4, <2>2
  <2> QED BY <2>1, <2>2
<1>10. ASSUME NEW x \in K, NEW y \in K, x # y PROVE Content(W, x) \cap Content(W, y) = {}
  <2> DEFINE from(z) == IF z \in {a, b} THEN p ELSE z
  <2>1. \A z \in K : from(z) \in L /\ Content(W, z) \subseteq Content(V, from(z))
    BY <1>2, <1>3, <1>8
  <2>2. CASE {x, y} = {a, b}
    BY <1>8, <1>10, <2>2
  <2>3. CASE {x, y} # {a, b}
    <3>1. from(x) # from(y)
      BY <1>2, <1>10, <2>3
    <3> HIDE DEF from
    <3>2. Content(V, from(x)) \cap Content(V, from(y)) = {}
      BY <1>4, <2>1, <3>1
    <3>3. Content(W, x) \subseteq Content(V, from(x)) /\ Content(W, y) \subseteq Content(V, from(y))
      BY <2>1
    <3> QED BY <3>2, <3>3
  <2> QED BY <2>2, <2>3
<1>11. ASSUME NEW e \in lower PROVE \E x \in K : e \in Content(W, x)
  <2>1. PICK x \in L : e \in Content(V, x)
    BY <1>4
  <2>2. CASE x = p
    BY <1>2, <1>8, <2>1, <2>2
  <2>3. CASE x # p
    BY <1>2, <1>3, <2>1, <2>3
  <2> QED BY <2>2, <2>3
<1> QED BY <1>9, <1>10, <1>11 DEF Holds

\* The chain with a leaf rewritten.
LEMMA ChainedRewritten ==
  ASSUME NEW V, NEW R, NEW h, Tree(V, R, h), NEW lower, NEW upper, Chained(V, R, lower, upper),
         NEW U, NEW p \in R, h[p] = 0, NEW s, Replaced(V, U, p, Leaf(s, V[p].next)), Once(s),
         NEW more, more \cap upper = {}, NEW less,
         ElementsOf(s) = (Content(V, p) \cup more) \ less,
         less \cap upper \subseteq Content(V, p)
  PROVE  Chained(U, R, (lower \cup more) \ less, (upper \cup more) \ less)
<1> DEFINE L == Leaves(V, R)
<1>1. p \in 1..Len(V) /\ V[p].leaf /\ R \subseteq 1..Len(V)
  BY NodeFacts DEF Tree
<1>2. Rewritten(V, U, p, s)
  BY <1>1 DEF Rewritten, Replaced, Leaf
<1>3. p \in L /\ L \subseteq 1..Len(V) /\ Leaves(U, R) = L
  BY <1>1, <1>2 DEF Leaves, Rewritten
<1>4. PICK first, place, M : /\ Linked(V, L, first, place) /\ Leftmost(V, R, M, first)
                             /\ Holds(V, L, lower, upper)
  BY DEF Chained
<1> HIDE DEF L
<1>5. Linked(U, L, first, place)
  BY <1>2, <1>4, LinkedRewritten
<1>6. Holds(U, L, (lower \cup more) \ less, (upper \cup more) \ less)
  BY <1>2, <1>3, <1>4, HoldsRewritten
<1>7. Leftmost(U, R, M, first)
  <2>1. M \subseteq R /\ Root \in M /\ \A x \in M : IF V[x].leaf THEN x = first ELSE V[x].left \in M
    BY <1>4 DEF Leftmost
  <2>2. \A x \in M : IF U[x].leaf THEN x = first ELSE U[x].left \in M
    BY <1>1, <1>2, <2>1 DEF Rewritten
  <2> QED BY <2>1, <2>2 DEF Leftmost
<1> QED BY <1>3, <1>5, <1>6, <1>7 DEF Chained

\* The chain with a leaf below the root cut in half.
LEMMA ChainedHalfLeaf ==
  ASSUME NEW V, NEW R, NEW h, Tree(V, R, h), NEW lower, NEW upper, Chained(V, R, lower, upper),
         NEW p \in R, h[p] = 0, Len(V[p].entries) >= 2, NEW n, n = Len(V) + 1, NEW U, NEW W,
         Replaced(V, U, p, Leaf(LeftHalf(V[p].entries), n)),
         Longer(U, W, Leaf(RightHalf(V[p].entries), V[p].next))
  PROVE  Chained(W, R \cup {n}, lower, upper)
<1> DEFINE L == Leaves(V, R)
           K == Leaves(W, R \cup {n})
<1>1. /\ p \in 1..Len(V) /\ V[p].leaf /\ R \subseteq 1..Len(V) /\ Len(V) \in Nat /\ V[p].entries \in Seq(Entry)
  BY NodeFacts DEF Tree
<1>2. n \in Nat /\ n \notin 1..Len(V) /\ n # p /\ n \notin R
  BY <1>1
<1>3. /\ Len(W) = n /\ W[p] = Leaf(LeftHalf(V[p].entries), n)
      /\ W[n] = Leaf(RightHalf(V[p].entries), V[p].next)
      /\ \A x \in R : x # p => W[x] = V[x]
  BY <1>1, <1>2 DEF Replaced, Longer
<1>4. W[p].leaf /\ W[n].leaf
  BY <1>3 DEF Leaf
<1>5. K = (L \ {p}) \cup {p, n} /\ p \in L /\ L \subseteq R
  BY <1>1, <1>2, <1>3, <1>4 DEF Leaves
<1>6. PICK first, place, M : /\ Linked(V, L, first, place) /\ Leftmost(V, R, M, first)
                             /\ Holds(V, L, lower, upper)
  BY DEF Chained
<1> HIDE DEF L, K
<1>7. Cut(V, L, W, K, p, p, n)
  <2>1. n \in 1..Len(W) \ L /\ p # n /\ Len(V) < Len(W) /\ Len(W) \in Nat
    BY <1>1, <1>2, <1>3, <1>5
  <2>2. p \in (1..Len(W) \ L) \cup {p} /\ \A x \in L : x # p => W[x] = V[x]
    BY <1>3, <1>5
  <2>3. /\ W[p].next = n /\ W[n].next = V[p].next
        /\ W[p].entries = LeftHalf(V[p].entries) /\ W[n].entries = RightHalf(V[p].entries)
    BY <1>3 DEF Leaf
  <2> QED BY <1>1, <1>5, <2>1, <2>2, <2>3 DEF Cut
<1>8. \E order : Linked(W, K, first, order)
  BY <1>6, <1>7, LinkedCut
<1>9. Holds(W, K, lower, upper)
  BY <1>1, <1>6, <1>7, HoldsCut
<1>10. Leftmost(W, R \cup {n}, M, first)
  <2>1. M \subseteq R /\ Root \in M /\ \A x \in M : IF V[x].leaf THEN x = first ELSE V[x].left \in M
    BY <1>6 DEF Leftmost
  <2>2. \A x \in M : IF W[x].leaf THEN x = first ELSE W[x].left \in M
    BY <1>1, <1>3, <1>4, <2>1
  <2> QED BY <2>1, <2>2 DEF Leftmost
<1> QED BY <1>8, <1>9, <1>10 DEF Chained, K

\* The chain with the root cut in half while it is a leaf.
LEMMA ChainedRootLeaf ==
  ASSUME NEW V, NEW R, NEW h, Tree(V, R, h), NEW lower, NEW upper, Chained(V, R, lower, upper),
         h[Root] = 0, Len(V[Root].entries) >= 2, NEW n, NEW root, NEW W, ~root.leaf, root.left = n,
         Sprouted(V, W, n, Leaf(LeftHalf(V[Root].entries), n + 1),
                  Leaf(RightHalf(V[Root].entries), V[Root].next), root)
  PROVE  Chained(W, R \cup {n, n + 1}, lower, upper)
<1> DEFINE L == Leaves(V, R)
           Q == R \cup {n, n + 1}
           K == Leaves(W, Q)
<1>1. /\ Root \in R /\ Root \in 1..Len(V) /\ V[Root].leaf /\ R \subseteq 1..Len(V) /\ Len(V) \in Nat
      /\ V[Root].entries \in Seq(Entry)
  BY NodeFacts DEF Tree
<1>2. /\ n = Len(V) + 1 /\ n \in Nat /\ n \notin 1..Len(V) /\ n + 1 \notin 1..Len(V) /\ n # n + 1
      /\ n # Root /\ n + 1 # Root
  BY <1>1 DEF Sprouted
<1>3. /\ Len(W) = n + 1 /\ W[Root] = root
      /\ W[n] = Leaf(LeftHalf(V[Root].entries), n + 1)
      /\ W[n + 1] = Leaf(RightHalf(V[Root].entries), V[Root].next)
      /\ \A x \in R : x # Root => W[x] = V[x]
  BY <1>1, <1>2 DEF Sprouted
<1>4. W[n].leaf /\ W[n + 1].leaf
  BY <1>3 DEF Leaf
<1>5. K = (L \ {Root}) \cup {n, n + 1} /\ Root \in L /\ L \subseteq R
  BY <1>1, <1>2, <1>3, <1>4 DEF Leaves
<1>6. PICK first, place, M : /\ Linked(V, L, first, place) /\ Leftmost(V, R, M, first)
                             /\ Holds(V, L, lower, upper)
  BY DEF Chained
<1>7. first = Root
  BY <1>1, <1>6 DEF Leftmost
<1> HIDE DEF L, K
<1>8. Cut(V, L, W, K, Root, n, n + 1)
  <2>1. n + 1 \in 1..Len(W) \ L /\ n \in 1..Len(W) \ L /\ Len(V) < Len(W) /\ Len(W) \in Nat
    BY <1>1, <1>2, <1>3, <1>5
  <2>2. \A x \in L : x # Root => W[x] = V[x]
    BY <1>3, <1>5
  <2>3. /\ W[n].next = n + 1 /\ W[n + 1].next = V[Root].next
        /\ W[n].entries = LeftHalf(V[Root].entries) /\ W[n + 1].entries = RightHalf(V[Root].entries)
    BY <1>3 DEF Leaf
  <2> QED BY <1>1, <1>2, <1>5, <2>1, <2>2, <2>3 DEF Cut
<1>9. \E order : Linked(W, K, n, order)
  BY <1>6, <1>7, <1>8, LinkedCut
<1>10. Holds(W, K, lower, upper)
  BY <1>1, <1>6, <1>8, HoldsCut
<1>11. Leftmost(W, Q, {Root, n}, n)
  BY <1>1, <1>3, <1>4 DEF Leftmost
<1> QED BY <1>9, <1>10, <1>11 DEF Chained, K

\* The chain when only internal nodes are written: they are as far left as before.
InnerOnly(V, R, U, Q) ==
  /\ SameLeaves(V, R, U, Q) /\ R \subseteq Q
  /\ \A x \in R \ {Root} : U[x].leaf = V[x].leaf /\ (~V[x].leaf => U[x].left = V[x].left)
  /\ ~V[Root].leaf /\ ~U[Root].leaf
  /\ \/ U[Root].left = V[Root].left
     \/ U[Root].left \in Q /\ ~U[U[Root].left].leaf /\ U[U[Root].left].left = V[Root].left
        /\ U[Root].left \notin R
LEMMA ChainedInner ==
  ASSUME NEW V, NEW R, NEW lower, NEW upper, Chained(V, R, lower, upper),
         NEW U, NEW Q, InnerOnly(V, R, U, Q)
  PROVE  Chained(U, Q, lower, upper)
<1>1. PICK first, place, M : /\ Linked(V, Leaves(V, R), first, place) /\ Leftmost(V, R, M, first)
                             /\ Holds(V, Leaves(V, R), lower, upper)
  BY DEF Chained
<1>2. SameLeaves(V, R, U, Q)
  BY DEF InnerOnly
<1>3. Linked(U, Leaves(U, Q), first, place) /\ Holds(U, Leaves(U, Q), lower, upper)
  BY <1>1, <1>2, LinkedSame
<1>4. M \subseteq R /\ Root \in M /\ \A x \in M : IF V[x].leaf THEN x = first ELSE V[x].left \in M
  BY <1>1 DEF Leftmost
<1>5. \E N : Leftmost(U, Q, N, first)
  <2>1. CASE U[Root].left = V[Root].left
    <3>1. Leftmost(U, Q, M, first)
      <4>1. \A x \in M : IF U[x].leaf THEN x = first ELSE U[x].left \in M
        BY <1>4, <2>1 DEF InnerOnly
      <4> QED BY <1>4, <4>1 DEF Leftmost, InnerOnly
    <3> QED BY <3>1
  <2>2. CASE U[Root].left # V[Root].left
    <3> DEFINE m == U[Root].left
               N == M \cup {m}
    <3>1. m \in Q /\ ~U[m].leaf /\ U[m].left = V[Root].left /\ m \notin R
      BY <2>2 DEF InnerOnly
    <3>2. \A x \in M \ {Root} : IF U[x].leaf THEN x = first ELSE U[x].left \in M
      BY <1>4 DEF InnerOnly
    <3>3. ~U[Root].leaf /\ ~V[Root].leaf /\ V[Root].left \in M /\ R \subseteq Q
      BY <1>4 DEF InnerOnly
    <3>4. \A x \in N : IF U[x].leaf THEN x = first ELSE U[x].left \in N
      BY <3>1, <3>2, <3>3
    <3>5. Leftmost(U, Q, N, first)
      BY <1>4, <3>1, <3>3, <3>4 DEF Leftmost
    <3> QED BY <3>5
  <2> QED BY <2>1, <2>2
<1> QED BY <1>3, <1>5 DEF Chained

\* Selecting leaves out nothing that belongs to the selection.
LEMMA OnlyAll ==
  ASSUME NEW K, NEW W, NEW s \in Seq(K), ElementsOf(s) \subseteq W
  PROVE  Only(W, s) = s
<1> DEFINE N == Len(s)
           r == Only(W, s)
<1>1. PICK pos : Picked(K, W, s, N, r, pos)
  BY OnlyPicked
<1>2. N \in Nat /\ DOMAIN s = 1..N /\ r \in Seq(K) /\ Len(r) \in Nat /\ Len(r) <= N
  BY <1>1 DEF Picked
<1>3. \A j \in 1..N : s[j] \in W
  BY <1>2 DEF ElementsOf
<1> DEFINE M == Len(r)
<1> HIDE DEF r, N, M
<1>4. /\ \A i \in 1..M : pos[i] \in 1..N /\ r[i] = s[pos[i]]
      /\ \A i, j \in 1..M : i < j => pos[i] < pos[j]
      /\ \A j \in 1..N : \E i \in 1..M : pos[i] = j
  BY <1>1, <1>3 DEF Picked, M
<1> DEFINE T == {n \in 0..N : n <= M /\ \A i \in 1..n : pos[i] = i}
<1>5. 0 \in T
  BY <1>2 DEF M
<1>6. ASSUME NEW n \in 1..N, n - 1 \in T PROVE n \in T
  <2>1. n - 1 <= M /\ \A i \in 1..(n - 1) : pos[i] = i
    BY <1>6
  <2>2. PICK i \in 1..M : pos[i] = n
    BY <1>4
  <2>3. i >= n
    <3>1. SUFFICES ASSUME i < n PROVE FALSE
      BY <1>2
    <3>2. i \in 1..(n - 1)
      BY <1>2, <3>1
    <3> QED BY <1>2, <2>1, <2>2, <3>1, <3>2
  <2>4. n \in 1..M
    BY <1>2, <2>3 DEF M
  <2>5. pos[n] = n
    <3>1. pos[n] <= n
      <4>1. n < i \/ n = i
        BY <1>2, <2>3
      <4> QED BY <1>2, <1>4, <2>2, <2>4, <4>1
    <3>2. PICK m : m = pos[n] /\ m \in 1..N
      BY <1>4, <2>4
    <3>3. CASE m < n
      <4>1. m \in 1..(n - 1) /\ m \in 1..M /\ m < n
        <5>1. M \in Nat /\ n \in Nat /\ m \in Nat /\ m >= 1 /\ n <= M
          BY <1>2, <2>4, <3>2 DEF M
        <5> QED BY <3>3, <5>1
      <4>2. pos[m] = m /\ pos[m] < pos[n]
        BY <1>4, <2>1, <2>4, <4>1
      <4> QED BY <1>2, <3>2, <3>3, <4>2
    <3>4. CASE ~(m < n)
      BY <1>2, <3>1, <3>2, <3>4
    <3> QED BY <3>3, <3>4
  <2> QED BY <1>2, <2>1, <2>4, <2>5 DEF M
<1> HIDE DEF T
<1>7. 0..N \subseteq T
  BY <1>2, <1>5, <1>6, UpTo
<1>8. M = N /\ \A i \in 1..N : r[i] = s[i]
  <2>1. N \in T
    BY <1>2, <1>7
  <2>2. N <= M /\ \A i \in 1..N : pos[i] = i
    BY <2>1 DEF T
  <2>3. M = N
    BY <1>2, <2>2 DEF M
  <2> QED BY <1>4, <2>2, <2>3
<1>9. r = s
  <2>1. s \in Seq(K) /\ Len(s) = N /\ Len(r) = N
    BY <1>8 DEF N, M
  <2>2. DOMAIN r = 1..N /\ DOMAIN s = 1..N
    BY <1>2, <2>1
  <2>3. r = [i \in 1..N |-> r[i]] /\ s = [i \in 1..N |-> s[i]]
    BY <1>2, <2>1, <2>2
  <2>4. \A i \in 1..N : r[i] = s[i]
    BY <1>8
  <2> QED BY <2>3, <2>4, Zenon
<1> QED BY <1>9 DEF r

(***************************************************************************)
(* The keys a page may hold: those from lo[p] on, below hi[p].             *)
(***************************************************************************)

\* The part of a node's keys, from a on below b, that are those of its child i.
Start(node, i, a) == IF i = 0 THEN a ELSE node.entries[i].key
End(node, i, b) == IF i = Len(node.entries) THEN b ELSE node.entries[i + 1].key

\* A node of height d has keys from a on below b.  Those of a leaf ascend, and the leaf it
\* leads to has none below b; those of an internal node divide its keys among its children.
InOrder(node, d, a, b, lo, top) ==
  /\ a < b /\ \A e \in ElementsOf(node.entries) : a <= e.key /\ e.key < b
  /\ d = 0 => Ascending(node.entries) /\ (node.next = None \/ b <= lo[node.next])
  /\ d # 0 => /\ \A e \in ElementsOf(node.entries) : a < e.key
              /\ \A i, j \in 1..Len(node.entries) : i < j => node.entries[i].key < node.entries[j].key
              /\ \A i \in 0..Len(node.entries) :
                    lo[Child(node, i)] = Start(node, i, a) /\ top[Child(node, i)] = End(node, i, b)
Ranged(V, R, h, lo, hi, top) ==
  /\ lo \in [R -> Nat] /\ hi \in [R -> Nat] /\ top \in [R -> Nat]
  /\ lo[Root] = 0 /\ hi[Root] = MaxKey + 1
  /\ \A p \in R \ {Root} : h[p] < h[Root]
  /\ \A p, q \in R : p # q /\ h[p] = h[q] => hi[p] <= lo[q] \/ hi[q] <= lo[p]
  /\ \A p \in R : InOrder(V[p], h[p], lo[p], hi[p], lo, top)

\* What a parent takes a child to hold is what it holds, except while a separator is owed:
\* then the page cut in half still counts for both halves.
IsChild(V, c, p) == \E i \in 0..Len(V[p].entries) : Child(V[p], i) = c
Divided(V, debt, lo, hi, top) ==
  /\ debt = Nothing => top = hi
  /\ debt # Nothing =>
       /\ \A i \in 1..(Len(debt.path) - 1) : IsChild(V, debt.path[i + 1], debt.path[i])
       /\ lo[debt.child] = debt.key
       /\ \E from : /\ IsChild(V, from, Last(debt.path)) /\ hi = [top EXCEPT ![from] = debt.key]
                    /\ top[debt.child] = top[from]
Sorted(V, R, h, debt) == \E lo, hi, top :
  Ranged(V, R, h, lo, hi, top) /\ Divided(V, debt, lo, hi, top)

\* The child that has a key is the one a search for it goes to.
LEMMA SlotFound ==
  ASSUME NEW node \in AnyInner, NEW d, d # 0, NEW a, NEW b, NEW lo, NEW top,
         InOrder(node, d, a, b, lo, top), NEW n \in 0..Len(node.entries), NEW key \in Nat,
         Start(node, n, a) <= key, key < End(node, n, b)
  PROVE  NotGreater(node.entries, key) = n
<1> DEFINE s == node.entries
           m == NotGreater(s, key)
           C == [key : Key, child : Nat]
<1>1. s \in Seq(C) /\ Keyed(C)
  BY EntryFields DEF AnyInner
<1> HIDE DEF C
<1>2. /\ m \in 0..Len(s) /\ (\A i \in 1..m : s[i].key <= key) /\ (m < Len(s) => s[m + 1].key > key)
  BY <1>1, NotGreaterFacts
<1>3. Len(s) \in Nat /\ \A i \in 1..Len(s) : s[i].key \in Nat
  BY <1>1 DEF Keyed
<1>4. \A i, j \in 1..Len(s) : i < j => s[i].key < s[j].key
  BY DEF InOrder
<1>5. (n # 0 => s[n].key <= key) /\ (n # Len(s) => key < s[n + 1].key)
  BY DEF Start, End
<1> HIDE DEF s, m
<1>6. ~(m < n)
  <2>1. SUFFICES ASSUME m < n PROVE FALSE
    OBVIOUS
  <2>2. m + 1 \in 1..Len(s) /\ n \in 1..Len(s) /\ (m + 1 = n \/ m + 1 < n) /\ m < Len(s)
    BY <1>2, <1>3, <2>1 DEF s
  <2>3. s[m + 1].key <= s[n].key
    BY <1>3, <1>4, <2>2
  <2> QED BY <1>2, <1>3, <1>5, <2>2, <2>3
<1>7. ~(n < m)
  <2>1. SUFFICES ASSUME n < m PROVE FALSE
    OBVIOUS
  <2>2. n + 1 \in 1..m /\ n # Len(s) /\ n + 1 \in 1..Len(s)
    BY <1>2, <1>3, <2>1 DEF s
  <2> QED BY <1>2, <1>3, <1>5, <2>2
<1> QED BY <1>2, <1>3, <1>6, <1>7 DEF s, m

\* The child a search goes to has the key.
LEMMA SlotHas ==
  ASSUME NEW node \in AnyInner, NEW d, d # 0, NEW a, NEW b, NEW lo, NEW top,
         InOrder(node, d, a, b, lo, top), NEW key \in Nat, a <= key, key < b
  PROVE  lo[ChildForKey(node, key)] <= key /\ key < top[ChildForKey(node, key)]
<1> DEFINE s == node.entries
           C == [key : Key, child : Nat]
<1>1. s \in Seq(C) /\ Keyed(C)
  BY EntryFields DEF AnyInner
<1> HIDE DEF C
<1>2. PICK m \in 0..Len(s) : /\ m = NotGreater(s, key) /\ (\A i \in 1..m : s[i].key <= key)
                             /\ (m < Len(s) => s[m + 1].key > key)
  BY <1>1, NotGreaterFacts
<1>3. Len(s) \in Nat /\ \A i \in 1..Len(s) : s[i].key \in Nat
  BY <1>1 DEF Keyed
<1>4. ChildForKey(node, key) = Child(node, m)
  BY <1>2, ChildForKeyFacts
<1>5. lo[Child(node, m)] = Start(node, m, a) /\ top[Child(node, m)] = End(node, m, b)
  BY <1>2 DEF InOrder
<1>6. Start(node, m, a) <= key
  BY <1>2 DEF Start
<1>7. key < End(node, m, b)
  BY <1>2, <1>3 DEF End
<1> QED BY <1>4, <1>5, <1>6, <1>7

\* The functions lo and top matter only where the node leads to.
LEMMA InOrderElsewhere ==
  ASSUME NEW R, NEW h, NEW node, NEW d, Fits(node, d, R, h), d = 0 => node.next \in R \cup {None},
         NEW a, NEW b, NEW lo, NEW top, InOrder(node, d, a, b, lo, top),
         NEW low, \A x \in R : low[x] = lo[x],
         NEW up, d # 0 => \A i \in 0..Len(node.entries) : up[Child(node, i)] = top[Child(node, i)]
  PROVE  InOrder(node, d, a, b, low, up)
<1>1. CASE d = 0
  BY <1>1 DEF InOrder
<1>2. CASE d # 0
  <2>1. \A i \in 0..Len(node.entries) : Child(node, i) \in R
    BY <1>2 DEF Fits
  <2> QED BY <1>2, <2>1 DEF InOrder
<1> QED BY <1>1, <1>2

\* A leaf cut in half: unless they share one, its halves divide its keys.
LEMMA LeafHalves ==
  ASSUME NEW s \in Seq(Entry), Len(s) >= 2, Last(LeftHalf(s)).key # Promoted(s).key,
         NEW k, k = Promoted(s).key, NEW a \in Nat, NEW b \in Nat, NEW next, NEW lo, NEW top,
         InOrder(Leaf(s, next), 0, a, b, lo, top), NEW n, NEW low, k <= low[n],
         next = None \/ low[next] = lo[next]
  PROVE  /\ k \in Nat /\ a < k /\ k < b
         /\ InOrder(Leaf(LeftHalf(s), n), 0, a, k, low, top)
         /\ InOrder(Leaf(RightHalf(s), next), 0, k, b, low, top)
<1> DEFINE m == Mid(s)
           l == LeftHalf(s)
           r == RightHalf(s)
           N == Len(s)
<1>1. Halves(Entry, s, m) /\ Keyed(Entry)
  BY HalvesFacts, EntryFields
<1>2. /\ N \in Nat /\ m \in 1..(N - 1) /\ l \in Seq(Entry) /\ Len(l) = m /\ \A i \in 1..m : l[i] = s[i]
      /\ r \in Seq(Entry) /\ Len(r) = N - m /\ \A i \in 1..(N - m) : r[i] = s[m + i]
      /\ k = s[m + 1].key
  BY <1>1 DEF Halves
<1>3. /\ a < b /\ Ascending(s) /\ \A e \in ElementsOf(s) : a <= e.key /\ e.key < b
      /\ next = None \/ b <= lo[next]
  BY DEF InOrder, Leaf
<1>4. DOMAIN s = 1..N /\ DOMAIN l = 1..m /\ DOMAIN r = 1..(N - m) /\ \A i \in 1..N : s[i].key \in Nat
  BY <1>1, <1>2 DEF Keyed
<1>5. Last(l) = s[m]
  BY <1>2 DEF Last
<1>6. s[m].key # k
  BY <1>5
<1> HIDE DEF m, l, r, N
<1>7. \A i, j \in 1..N : i <= j => s[i].key <= s[j].key
  BY <1>1, <1>3, <1>4, AscendingFar
<1>8. \A i \in 1..N : a <= s[i].key /\ s[i].key < b
  BY <1>3, <1>4 DEF ElementsOf
<1>9. m \in 1..N /\ m + 1 \in 1..N /\ m <= m + 1 /\ m \in Nat
  BY <1>2
<1>10. k \in Nat /\ a < k /\ k < b /\ s[m].key < k
  BY <1>2, <1>4, <1>6, <1>7, <1>8, <1>9
<1>11. ASSUME NEW e \in ElementsOf(l) PROVE a <= e.key /\ e.key < k
  <2>1. PICK i \in 1..m : e = l[i]
    BY <1>4 DEF ElementsOf
  <2>2. e = s[i] /\ i \in 1..N /\ i <= m
    BY <1>2, <1>9, <2>1
  <2>3. s[i].key <= s[m].key
    BY <1>7, <1>9, <2>2
  <2> QED BY <1>4, <1>8, <1>9, <1>10, <2>2, <2>3
<1>12. ASSUME NEW e \in ElementsOf(r) PROVE k <= e.key /\ e.key < b
  <2>1. PICK i \in 1..(N - m) : e = r[i]
    BY <1>4 DEF ElementsOf
  <2>2. e = s[m + i] /\ m + i \in 1..N /\ m + 1 <= m + i
    BY <1>2, <1>9, <2>1
  <2> QED BY <1>2, <1>7, <1>8, <1>9, <2>2
<1>13. Ascending(l)
  <2>1. \A i \in 1..(m - 1) : i \in 1..m /\ i + 1 \in 1..m /\ i \in 1..N /\ i + 1 \in 1..N /\ i <= i + 1
    BY <1>2
  <2> QED BY <1>2, <1>7, <2>1 DEF Ascending
<1>14. Ascending(r)
  <2>1. ASSUME NEW i \in 1..(N - m - 1) PROVE r[i].key <= r[i + 1].key
    <3>1. /\ i \in 1..(N - m) /\ i + 1 \in 1..(N - m) /\ m + i \in 1..N /\ m + (i + 1) \in 1..N
          /\ m + i <= m + (i + 1)
      BY <1>2, <1>9
    <3> QED BY <1>2, <1>7, <3>1
  <2> QED BY <1>2, <2>1 DEF Ascending
<1>15. InOrder(Leaf(l, n), 0, a, k, low, top)
  BY <1>10, <1>11, <1>13 DEF InOrder, Leaf
<1>16. InOrder(Leaf(r, next), 0, k, b, low, top)
  BY <1>3, <1>10, <1>12, <1>14 DEF InOrder, Leaf
<1> QED BY <1>10, <1>15, <1>16 DEF l, r

\* An internal node cut in half around the entry in the middle.
LEMMA InnerHalves ==
  ASSUME NEW s \in Seq([key : Key, child : Nat]), Len(s) >= 3, NEW k, k = Promoted(s).key,
         NEW a \in Nat, NEW b \in Nat, NEW left, NEW d, d # 0, NEW lo, NEW top,
         InOrder(Inner(s, left), d, a, b, lo, top)
  PROVE  /\ k \in Nat /\ a < k /\ k < b
         /\ InOrder(Inner(LeftHalf(s), left), d, a, k, lo, top)
         /\ InOrder(Inner(Tail(RightHalf(s)), Promoted(s).child), d, k, b, lo, top)
<1> DEFINE m == Mid(s)
           l == LeftHalf(s)
           r == RightHalf(s)
           t == Tail(r)
           N == Len(s)
           C == [key : Key, child : Nat]
           node == Inner(s, left)
           right == Inner(t, Promoted(s).child)
<1>1. N \in Nat /\ N >= 3 /\ N >= 2 /\ s \in Seq(C) /\ Keyed(C)
  <2>1. s \in Seq(C)
    OBVIOUS
  <2>2. Keyed(C)
    BY EntryFields
  <2> HIDE DEF C
  <2> QED BY <2>1, <2>2
<1> HIDE DEF C
<1>2. Halves(C, s, m)
  BY <1>1, HalvesFacts
<1>3. /\ m \in 1..(N - 1) /\ N <= 2 * m + 1 /\ 2 * m <= N /\ l \in Seq(C) /\ Len(l) = m /\ \A i \in 1..m : l[i] = s[i]
      /\ r \in Seq(C) /\ Len(r) = N - m /\ \A i \in 1..(N - m) : r[i] = s[m + i]
      /\ Promoted(s) = s[m + 1]
  BY <1>2 DEF Halves
<1>4. m \in Nat /\ N - m \in Nat /\ N - m >= 1 /\ r # <<>>
  <2> HIDE DEF m, N, r
  <2>1. m \in Nat /\ N - m \in Nat /\ N - m >= 1
    BY <1>1, <1>3
  <2> QED BY <1>3, <2>1
<1>5. t \in Seq(C) /\ Len(t) = N - m - 1 /\ \A i \in 1..(N - m - 1) : t[i] = s[m + 1 + i]
  <2>1. t \in Seq(C) /\ Len(t) = Len(r) - 1 /\ \A i \in 1..(Len(r) - 1) : t[i] = r[i + 1]
    <3>1. r \in Seq(C) /\ r # <<>>
      BY <1>3, <1>4
    <3> HIDE DEF r
    <3> QED BY <3>1
  <2> HIDE DEF m, N, r, t
  <2>2. \A i \in 1..(N - m - 1) : i + 1 \in 1..(N - m) /\ m + (i + 1) = m + 1 + i
    BY <1>1, <1>3
  <2>3. t \in Seq(C) /\ Len(t) = N - m - 1 /\ \A i \in 1..(N - m - 1) : t[i] = r[i + 1]
    <3>1. Len(r) - 1 = N - m - 1
      BY <1>3
    <3> QED BY <2>1, <3>1
  <2>4. ASSUME NEW i \in 1..(N - m - 1) PROVE t[i] = s[m + 1 + i]
    <3>1. t[i] = r[i + 1] /\ i + 1 \in 1..(N - m) /\ m + (i + 1) = m + 1 + i
      BY <2>2, <2>3
    <3>2. r[i + 1] = s[m + (i + 1)]
      BY <1>3, <3>1
    <3> QED BY <3>1, <3>2
  <2> QED BY <2>3, <2>4
<1>6. /\ a < b /\ \A e \in ElementsOf(s) : a < e.key /\ e.key < b
      /\ \A i, j \in 1..N : i < j => s[i].key < s[j].key
      /\ \A i \in 0..N : lo[Child(node, i)] = Start(node, i, a) /\ top[Child(node, i)] = End(node, i, b)
  BY DEF InOrder, Inner
<1>7. DOMAIN s = 1..N /\ DOMAIN l = 1..m /\ DOMAIN t = 1..(N - m - 1) /\ \A i \in 1..N : s[i].key \in Nat
  <2>1. DOMAIN s = 1..N /\ \A i \in 1..N : s[i] \in C
    BY <1>1
  <2> HIDE DEF l, t
  <2>2. DOMAIN l = 1..m /\ DOMAIN t = 1..(N - m - 1)
    BY <1>3, <1>5
  <2> QED BY <1>1, <2>1, <2>2 DEF Keyed
<1> HIDE DEF m, l, t, N
<1>8. \A i \in 1..N : a < s[i].key /\ s[i].key < b
  BY <1>6, <1>7 DEF ElementsOf
<1>9. m + 1 \in 1..N /\ k = s[m + 1].key
  BY <1>1, <1>3
<1>10. k \in Nat /\ a < k /\ k < b
  BY <1>7, <1>8, <1>9
<1>11. ASSUME NEW e \in ElementsOf(l) PROVE a < e.key /\ a <= e.key /\ e.key < k
  <2>2. PICK i \in 1..m : e = l[i]
    BY <1>7 DEF ElementsOf
  <2>3. i \in 1..N /\ i < m + 1
    <3>1. N \in Nat /\ m \in 1..(N - 1)
      BY <1>1, <1>3
    <3> QED BY <3>1
  <2>1. e = s[i] /\ i \in 1..N /\ i < m + 1
    BY <1>3, <2>2, <2>3
  <2> QED BY <1>6, <1>7, <1>8, <1>9, <2>1
<1>12. ASSUME NEW e \in ElementsOf(t) PROVE k < e.key /\ k <= e.key /\ e.key < b
  <2>1. PICK i \in 1..(N - m - 1) : e = s[m + 1 + i]
    BY <1>5, <1>7 DEF ElementsOf
  <2>2. m + 1 + i \in 1..N /\ m + 1 < m + 1 + i
    BY <1>1, <1>3, <2>1
  <2> QED BY <1>6, <1>7, <1>8, <1>9, <2>1, <2>2
<1>13. \A i, j \in 1..m : i < j => l[i].key < l[j].key
  <2>1. \A i \in 1..m : i \in 1..N /\ l[i] = s[i]
    BY <1>1, <1>3
  <2> QED BY <1>6, <2>1
<1>14. ASSUME NEW i \in 1..(N - m - 1), NEW j \in 1..(N - m - 1), i < j PROVE t[i].key < t[j].key
  <2>1. m + 1 + i \in 1..N /\ m + 1 + j \in 1..N /\ m + 1 + i < m + 1 + j
    BY <1>1, <1>3, <1>14
  <2> QED BY <1>5, <1>6, <2>1
<1>15. node.entries = s /\ node.left = left /\ Len(node.entries) = N
  BY DEF Inner, N
<1>16. ASSUME NEW i \in 0..m
       PROVE  /\ lo[Child(Inner(l, left), i)] = Start(Inner(l, left), i, a)
              /\ top[Child(Inner(l, left), i)] = End(Inner(l, left), i, k)
  <2>1. i \in 0..N /\ i # N /\ (i # 0 => i \in 1..m) /\ (i # m => i + 1 \in 1..m)
    <3>1. N \in Nat /\ m \in 1..(N - 1)
      BY <1>1, <1>3
    <3>2. i \in 0..N /\ i # N
      BY <3>1
    <3>3. (i # 0 => i \in 1..m) /\ (i # m => i + 1 \in 1..m)
      BY <3>1
    <3> QED BY <3>2, <3>3
  <2>2. Inner(l, left).entries = l /\ Inner(l, left).left = left
    BY DEF Inner
  <2>3. /\ Child(Inner(l, left), i) = Child(node, i)
        /\ Start(Inner(l, left), i, a) = Start(node, i, a)
    BY <1>3, <1>15, <2>1, <2>2 DEF Child, Start
  <2>4. End(Inner(l, left), i, k) = End(node, i, b)
    BY <1>3, <1>9, <1>15, <2>1, <2>2 DEF End
  <2> QED BY <1>6, <2>1, <2>3, <2>4
<1>17. right.entries = t /\ right.left = s[m + 1].child
  BY <1>3 DEF Inner
<1> HIDE DEF node, right
<1>18. ASSUME NEW i \in 0..(N - m - 1)
       PROVE  lo[Child(right, i)] = Start(right, i, k) /\ top[Child(right, i)] = End(right, i, b)
  <2> DEFINE j == m + 1 + i
  <2>1. j \in 0..N /\ j # 0 /\ (i = N - m - 1 <=> j = N) /\ j + 1 = m + 1 + (i + 1)
        /\ (i # 0 => i \in 1..(N - m - 1)) /\ (i # N - m - 1 => i + 1 \in 1..(N - m - 1))
        /\ (i = 0 => j = m + 1)
    <3>1. m \in Nat /\ N \in Nat /\ i \in Nat /\ i <= N - m - 1 /\ 1 <= m /\ m <= N - 1
      BY <1>1, <1>3
    <3>2. j \in 0..N /\ j # 0
      BY <3>1
    <3>3. (i = N - m - 1 <=> j = N) /\ j + 1 = m + 1 + (i + 1)
      BY <3>1
    <3>4. (i # 0 => i \in 1..(N - m - 1)) /\ (i # N - m - 1 => i + 1 \in 1..(N - m - 1))
      BY <3>1
    <3> QED BY <3>1, <3>2, <3>3, <3>4
  <2> HIDE DEF j
  <2>2. i # 0 => t[i] = s[j]
    BY <1>5, <2>1 DEF j
  <2>3. i # N - m - 1 => t[i + 1] = s[j + 1]
    BY <1>5, <2>1
  <2>4. Child(right, i) = Child(node, j)
    BY <1>15, <1>17, <2>1, <2>2 DEF Child
  <2>5. Start(right, i, k) = Start(node, j, a)
    BY <1>9, <1>15, <1>17, <2>1, <2>2 DEF Start
  <2>6. End(right, i, b) = End(node, j, b)
    <3>1. Len(right.entries) = N - m - 1 /\ right.entries = t /\ node.entries = s
      BY <1>5, <1>15, <1>17
    <3> QED BY <1>15, <2>1, <2>3, <3>1 DEF End
  <2> QED BY <1>6, <2>1, <2>4, <2>5, <2>6
<1>19. InOrder(Inner(l, left), d, a, k, lo, top)
  <2>1. Inner(l, left).entries = l
    BY DEF Inner
  <2> QED BY <1>3, <1>10, <1>11, <1>13, <1>16, <2>1 DEF InOrder
<1>20. InOrder(right, d, k, b, lo, top)
  BY <1>5, <1>10, <1>12, <1>14, <1>17, <1>18 DEF InOrder
<1> QED BY <1>10, <1>19, <1>20 DEF l, t, right

\* The children of a node have their keys one after the other.
LEMMA StartsAscend ==
  ASSUME NEW node \in AnyInner, NEW d, d # 0, NEW a \in Nat, NEW b \in Nat, NEW lo, NEW top,
         InOrder(node, d, a, b, lo, top)
  PROVE  /\ \A i \in 0..Len(node.entries) :
               /\ Start(node, i, a) \in Nat /\ a <= Start(node, i, a)
               /\ End(node, i, b) \in Nat /\ End(node, i, b) <= b
         /\ \A i, j \in 0..Len(node.entries) :
               i < j => Start(node, i, a) < Start(node, j, a) /\ End(node, i, b) <= Start(node, j, a)
<1> DEFINE s == node.entries
           C == [key : Key, child : Nat]
           N == Len(s)
<1>1. s \in Seq(C) /\ Keyed(C)
  BY EntryFields DEF AnyInner
<1> HIDE DEF C
<1>2. N \in Nat /\ DOMAIN s = 1..N /\ \A i \in 1..N : s[i].key \in Nat
  BY <1>1 DEF Keyed
<1>3. /\ \A i, j \in 1..N : i < j => s[i].key < s[j].key
      /\ \A i \in 1..N : a < s[i].key /\ s[i].key < b
  BY <1>2 DEF InOrder, ElementsOf
<1>4. \A i : Start(node, i, a) = (IF i = 0 THEN a ELSE s[i].key) /\ End(node, i, b) = (IF i = N THEN b ELSE s[i + 1].key)
  BY DEF Start, End
<1> HIDE DEF s, N
<1>5. ASSUME NEW i \in 0..N
      PROVE  /\ Start(node, i, a) \in Nat /\ a <= Start(node, i, a)
             /\ End(node, i, b) \in Nat /\ End(node, i, b) <= b
  <2>1. (i # 0 => i \in 1..N) /\ (i # N => i + 1 \in 1..N)
    BY <1>2
  <2>2. Start(node, i, a) \in Nat /\ a <= Start(node, i, a)
    <3>1. CASE i = 0
      BY <1>4, <3>1
    <3>2. CASE i # 0
      <4>1. Start(node, i, a) = s[i].key /\ i \in 1..N
        BY <1>4, <2>1, <3>2
      <4> QED BY <1>2, <1>3, <4>1
    <3> QED BY <3>1, <3>2
  <2>3. End(node, i, b) \in Nat /\ End(node, i, b) <= b
    <3>1. CASE i = N
      BY <1>4, <3>1
    <3>2. CASE i # N
      <4>1. End(node, i, b) = s[i + 1].key /\ i + 1 \in 1..N
        BY <1>4, <2>1, <3>2
      <4> QED BY <1>2, <1>3, <4>1
    <3> QED BY <3>1, <3>2
  <2> QED BY <2>2, <2>3
<1>6. ASSUME NEW i \in 0..N, NEW j \in 0..N, i < j
      PROVE  Start(node, i, a) < Start(node, j, a) /\ End(node, i, b) <= Start(node, j, a)
  <2>1. /\ (i # 0 => i \in 1..N) /\ i # N /\ i + 1 \in 1..N /\ j # 0 /\ j \in 1..N
        /\ (i + 1 = j \/ i + 1 < j)
    BY <1>2, <1>6
  <2>2. Start(node, i, a) < Start(node, j, a)
    BY <1>3, <1>4, <1>6, <2>1
  <2>3. End(node, i, b) = s[i + 1].key /\ Start(node, j, a) = s[j].key
    BY <1>4, <2>1
  <2>4. s[i + 1].key <= s[j].key
    BY <1>2, <1>3, <2>1
  <2> QED BY <2>2, <2>3, <2>4
<1> QED BY <1>5, <1>6 DEF s, N

\* A separator taken to the parent: the child that was cut in half ends where the new one starts.
Pays(node, from, e, lo, top, hi) ==
  /\ e \in [key : Key, child : Nat]
  /\ \E n \in 0..Len(node.entries) : Child(node, n) = from
  /\ lo[from] <= e.key /\ lo[from] # e.key /\ e.key < top[from]
  /\ hi[from] = e.key /\ \A i \in 0..Len(node.entries) : Child(node, i) # from => hi[Child(node, i)] = top[Child(node, i)]
  /\ lo[e.child] = e.key /\ hi[e.child] = top[from]
LEMMA PaidInOrder ==
  ASSUME NEW node \in AnyInner, NEW d, d # 0, NEW a \in Nat, NEW b \in Nat, NEW lo, NEW top, NEW hi,
         InOrder(node, d, a, b, lo, top), NEW from, NEW e, Pays(node, from, e, lo, top, hi),
         NEW r, r = InsertAt(node.entries, e)
  PROVE  InOrder(Inner(r, node.left), d, a, b, lo, hi)
<1> DEFINE s == node.entries
           C == [key : Key, child : Nat]
           N == Len(s)
           new == Inner(r, node.left)
<1>1. s \in Seq(C) /\ Keyed(C) /\ e \in C /\ N \in Nat
  <2>1. s \in Seq(C) /\ e \in C
    BY DEF AnyInner, Pays
  <2>2. Keyed(C)
    BY EntryFields
  <2> HIDE DEF C
  <2> QED BY <2>1, <2>2
<1> HIDE DEF C
<1>2. e.key \in Nat
  BY <1>1 DEF Keyed
<1>3. PICK n \in 0..N : Child(node, n) = from
  BY DEF Pays
<1>4. /\ \A i \in 0..N : lo[Child(node, i)] = Start(node, i, a) /\ top[Child(node, i)] = End(node, i, b)
      /\ a < b
  BY DEF InOrder
<1>5. /\ \A i \in 0..N : /\ Start(node, i, a) \in Nat /\ a <= Start(node, i, a)
                         /\ End(node, i, b) \in Nat /\ End(node, i, b) <= b
      /\ \A i, j \in 0..N : i < j => Start(node, i, a) < Start(node, j, a) /\ End(node, i, b) <= Start(node, j, a)
  BY StartsAscend
<1>6. Start(node, n, a) <= e.key /\ Start(node, n, a) < e.key /\ e.key < End(node, n, b)
  <2>1. lo[from] <= e.key /\ lo[from] # e.key /\ e.key < top[from]
    BY DEF Pays
  <2>2. lo[from] = Start(node, n, a) /\ top[from] = End(node, n, b)
    BY <1>3, <1>4
  <2>3. Start(node, n, a) \in Nat
    BY <1>5
  <2> QED BY <1>2, <2>1, <2>2, <2>3
<1>7. NotGreater(s, e.key) = n
  BY <1>2, <1>6, SlotFound
<1>8. InPlace(C, s, e, n, r)
  BY <1>1, <1>7, InsertAtFacts
<1>9. /\ r \in Seq(C) /\ Len(r) = N + 1 /\ r[n + 1] = e /\ \A i \in 1..n : r[i] = s[i]
      /\ \A i \in (n + 1)..N : r[i + 1] = s[i]
  BY <1>8 DEF InPlace
<1>10. /\ new.entries = r /\ new.left = node.left /\ DOMAIN r = 1..(N + 1) /\ Len(new.entries) = N + 1
  BY <1>1, <1>9 DEF Inner
<1>11. \A i \in 1..N : s[i].key \in Nat /\ s[i].key = Start(node, i, a) /\ a < s[i].key /\ s[i].key < b
  <2>1. DOMAIN s = 1..N /\ \A i \in 1..N : i # 0 /\ s[i].key \in Nat
    BY <1>1 DEF Keyed
  <2> QED BY <2>1 DEF InOrder, ElementsOf, Start
<1>12. \A i, j \in 1..N : i < j => s[i].key < s[j].key
  BY DEF InOrder
<1> HIDE DEF s, N, new
<1>13. a < e.key /\ e.key < b
  <2>1. a <= Start(node, n, a) /\ End(node, n, b) <= b /\ Start(node, n, a) \in Nat /\ End(node, n, b) \in Nat
    BY <1>5
  <2> QED BY <1>2, <1>6, <2>1
<1>14. \A i \in 1..N : IF i <= n THEN s[i].key < e.key ELSE e.key < s[i].key
  <2>1. ASSUME NEW i \in 1..N, i <= n PROVE s[i].key < e.key
    <3>1. i \in 0..N /\ (i = n \/ i < n)
      BY <1>1, <2>1
    <3>2. Start(node, i, a) <= Start(node, n, a)
      BY <1>5, <3>1
    <3> QED BY <1>2, <1>5, <1>6, <1>11, <3>1, <3>2
  <2>2. ASSUME NEW i \in 1..N, ~(i <= n) PROVE e.key < s[i].key
    <3>1. i \in 0..N /\ n < i
      BY <1>1, <2>2
    <3>2. End(node, n, b) <= Start(node, i, a)
      BY <1>5, <3>1
    <3> QED BY <1>2, <1>5, <1>6, <1>11, <3>1, <3>2
  <2> QED BY <2>1, <2>2
<1>15. \A i \in 1..(N + 1) : \/ i \in 1..n /\ i \in 1..N /\ i <= n
                             \/ i = n + 1
                             \/ i > n + 1 /\ i - 1 \in (n + 1)..N /\ i - 1 \in 1..N /\ (i - 1) + 1 = i /\ ~(i - 1 <= n)
  BY <1>1
<1>16. \A i \in 1..(N + 1) : r[i] = IF i <= n THEN s[i] ELSE IF i = n + 1 THEN e ELSE s[i - 1]
  <2>1. ASSUME NEW i \in 1..(N + 1) PROVE r[i] = IF i <= n THEN s[i] ELSE IF i = n + 1 THEN e ELSE s[i - 1]
    <3>1. CASE i \in 1..n /\ i <= n
      BY <1>9, <3>1
    <3>2. CASE i = n + 1
      <4>1. ~(i <= n)
        BY <3>2
      <4> QED BY <1>9, <3>2, <4>1
    <3>3. CASE i > n + 1 /\ i - 1 \in (n + 1)..N /\ (i - 1) + 1 = i
      <4>1. ~(i <= n) /\ i # n + 1
        BY <3>3
      <4>2. r[(i - 1) + 1] = s[i - 1]
        BY <1>9, <3>3
      <4> QED BY <3>3, <4>1, <4>2
    <3> QED BY <1>15, <3>1, <3>2, <3>3
  <2> QED BY <2>1
<1>17. \A i \in 1..(N + 1) : r[i].key \in Nat /\ a < r[i].key /\ r[i].key < b
  BY <1>2, <1>11, <1>13, <1>15, <1>16
<1>18. ASSUME NEW i \in 1..(N + 1), NEW j \in 1..(N + 1), i < j PROVE r[i].key < r[j].key
  <2>1. CASE j <= n
    <3>1. i <= n /\ i \in 1..N /\ j \in 1..N
      BY <1>1, <1>18, <2>1
    <3> QED BY <1>12, <1>16, <1>18, <2>1, <3>1
  <2>2. CASE j = n + 1
    <3>1. i <= n /\ i \in 1..N /\ ~(j <= n)
      BY <1>1, <1>18, <2>2
    <3> QED BY <1>14, <1>16, <2>2, <3>1
  <2>3. CASE j > n + 1
    <3>1. j - 1 \in 1..N /\ ~(j - 1 <= n) /\ ~(j <= n) /\ j # n + 1
      BY <1>1, <2>3
    <3>2. r[j] = s[j - 1] /\ e.key < s[j - 1].key
      BY <1>14, <1>16, <3>1
    <3>3. CASE i <= n
      <4>1. i \in 1..N /\ i < j - 1
        BY <1>1, <2>3, <3>3
      <4> QED BY <1>12, <1>16, <3>1, <3>2, <3>3, <4>1
    <3>4. CASE i = n + 1
      <4>1. ~(i <= n)
        BY <3>4
      <4> QED BY <1>16, <3>2, <3>4, <4>1
    <3>5. CASE i > n + 1
      <4>1. i - 1 \in 1..N /\ ~(i <= n) /\ i # n + 1 /\ i - 1 < j - 1
        BY <1>1, <1>18, <3>5
      <4> QED BY <1>12, <1>16, <3>1, <3>2, <4>1
    <3> QED BY <1>1, <3>3, <3>4, <3>5
  <2> QED BY <1>1, <2>1, <2>2, <2>3
<1>19. /\ hi[from] = e.key /\ lo[e.child] = e.key /\ hi[e.child] = top[from]
       /\ \A i \in 0..N : Child(node, i) # from => hi[Child(node, i)] = top[Child(node, i)]
  BY DEF Pays, N, s
<1>20. \A i \in 0..N : i # n => Child(node, i) # from
  <2>1. SUFFICES ASSUME NEW i \in 0..N, i # n, Child(node, i) = from PROVE FALSE
    OBVIOUS
  <2>2. Start(node, i, a) = Start(node, n, a)
    BY <1>3, <1>4, <2>1
  <2>3. i < n \/ n < i
    BY <1>1, <2>1
  <2> QED BY <1>5, <2>2, <2>3
<1>21. ASSUME NEW i \in 0..(N + 1)
       PROVE  lo[Child(new, i)] = Start(new, i, a) /\ hi[Child(new, i)] = End(new, i, b)
  <2>1. CASE i < n
    <3>1. i \in 0..N /\ i # n /\ i # N + 1 /\ i # N /\ (i # 0 => i \in 1..(N + 1) /\ i <= n)
          /\ i + 1 \in 1..(N + 1) /\ i + 1 <= n
      BY <1>1, <2>1
    <3>2. Child(new, i) = Child(node, i) /\ Start(new, i, a) = Start(node, i, a)
      BY <1>10, <1>16, <3>1 DEF Child, Start, s
    <3>3. End(new, i, b) = End(node, i, b)
      BY <1>10, <1>16, <3>1 DEF End, s, N
    <3> QED BY <1>4, <1>19, <1>20, <3>1, <3>2, <3>3
  <2>2. CASE i = n
    <3>1. i \in 0..N /\ i # N + 1 /\ (i # 0 => i \in 1..(N + 1) /\ i <= n) /\ i + 1 \in 1..(N + 1)
          /\ ~(i + 1 <= n) /\ i + 1 = n + 1
      BY <1>1, <2>2
    <3>2. Child(new, i) = from /\ Start(new, i, a) = Start(node, i, a)
      BY <1>3, <1>10, <1>16, <2>2, <3>1 DEF Child, Start, s
    <3>3. End(new, i, b) = e.key
      BY <1>10, <1>16, <3>1 DEF End
    <3> QED BY <1>3, <1>4, <1>19, <2>2, <3>1, <3>2, <3>3
  <2>3. CASE i = n + 1
    <3>1. i # 0 /\ i \in 1..(N + 1) /\ ~(i <= n) /\ (i = N + 1 <=> n = N)
      BY <1>1, <2>3
    <3>2. Child(new, i) = e.child /\ Start(new, i, a) = e.key
      BY <1>10, <1>16, <2>3, <3>1 DEF Child, Start
    <3>3. End(new, i, b) = End(node, n, b)
      <4>1. CASE n = N
        BY <1>10, <3>1, <4>1 DEF End, N, s
      <4>2. CASE n # N
        <5>1. i + 1 \in 1..(N + 1) /\ ~(i + 1 <= n) /\ i + 1 # n + 1 /\ (i + 1) - 1 = n + 1
          BY <1>1, <2>3, <4>2
        <5>2. r[i + 1] = s[n + 1]
          BY <1>16, <5>1
        <5> QED BY <1>10, <3>1, <4>2, <5>2 DEF End, N, s
      <4> QED BY <4>1, <4>2
    <3>4. hi[e.child] = End(node, n, b)
      BY <1>3, <1>4, <1>19
    <3> QED BY <1>19, <3>2, <3>3, <3>4
  <2>4. CASE i > n + 1
    <3>1. /\ i # 0 /\ i \in 1..(N + 1) /\ ~(i <= n) /\ i # n + 1 /\ i - 1 \in 0..N /\ i - 1 # 0 /\ i - 1 # n
          /\ (i = N + 1 <=> i - 1 = N) /\ (i - 1) + 1 = i
      BY <1>1, <2>4
    <3>2. Child(new, i) = Child(node, i - 1) /\ Start(new, i, a) = Start(node, i - 1, a)
      BY <1>10, <1>16, <3>1 DEF Child, Start, s
    <3>3. End(new, i, b) = End(node, i - 1, b)
      <4>1. CASE i = N + 1
        BY <1>10, <3>1, <4>1 DEF End, N, s
      <4>2. CASE i # N + 1
        <5>1. i + 1 \in 1..(N + 1) /\ ~(i + 1 <= n) /\ i + 1 # n + 1 /\ (i + 1) - 1 = i
          BY <1>1, <2>4, <4>2
        <5>2. r[i + 1] = s[i]
          BY <1>16, <5>1
        <5> QED BY <1>10, <3>1, <4>2, <5>2 DEF End, N, s
      <4> QED BY <4>1, <4>2
    <3> QED BY <1>4, <1>19, <1>20, <3>1, <3>2, <3>3
  <2> QED BY <1>1, <2>1, <2>2, <2>3, <2>4
<1>22. \A x \in ElementsOf(r) : a < x.key /\ a <= x.key /\ x.key < b
  BY <1>10, <1>17 DEF ElementsOf
<1>23. InOrder(new, d, a, b, lo, hi)
  <2>1. \A i, j \in 1..Len(new.entries) : i < j => new.entries[i].key < new.entries[j].key
    BY <1>10, <1>18
  <2>2. \A i \in 0..Len(new.entries) : lo[Child(new, i)] = Start(new, i, a) /\ hi[Child(new, i)] = End(new, i, b)
    BY <1>10, <1>21
  <2>3. \A x \in ElementsOf(new.entries) : a < x.key /\ a <= x.key /\ x.key < b
    BY <1>10, <1>22
  <2> QED BY <1>4, <2>1, <2>2, <2>3 DEF InOrder
<1> QED BY <1>23 DEF new

\* The ranges of pages are of numbers, and a page's children lie in its range.
LEMMA RangedFacts ==
  ASSUME NEW V, NEW R, NEW h, Tree(V, R, h), NEW lo, NEW hi, NEW top, Ranged(V, R, h, lo, hi, top)
  PROVE  /\ \A p \in R : /\ lo[p] \in Nat /\ hi[p] \in Nat /\ top[p] \in Nat /\ lo[p] < hi[p]
                         /\ InOrder(V[p], h[p], lo[p], hi[p], lo, top)
         /\ \A p, q \in R : /\ IsChild(V, q, p) /\ h[p] # 0
                            => lo[p] <= lo[q] /\ lo[q] < hi[p] /\ h[q] + 1 = h[p] /\ q # Root
<1>1. \A p \in R : /\ lo[p] \in Nat /\ hi[p] \in Nat /\ top[p] \in Nat /\ InOrder(V[p], h[p], lo[p], hi[p], lo, top)
  BY DEF Ranged
<1>2. \A p \in R : lo[p] < hi[p]
  BY <1>1 DEF InOrder
<1>3. ASSUME NEW p \in R, NEW q \in R, IsChild(V, q, p), h[p] # 0
      PROVE  lo[p] <= lo[q] /\ lo[q] < hi[p] /\ h[q] + 1 = h[p] /\ q # Root
  <2>1. V[p] \in AnyInner /\ h[p] \in Nat /\ Len(V[p].entries) \in Nat
    BY <1>3, NodeFacts
  <2>2. PICK i \in 0..Len(V[p].entries) : Child(V[p], i) = q
    BY <1>3 DEF IsChild
  <2>3. InOrder(V[p], h[p], lo[p], hi[p], lo, top) /\ lo[p] \in Nat /\ hi[p] \in Nat
    BY <1>1
  <2>4. lo[q] = Start(V[p], i, lo[p])
    BY <1>3, <2>2, <2>3 DEF InOrder
  <2>5. lo[p] <= lo[q] /\ lo[q] < hi[p]
    <3>1. lo[p] <= Start(V[p], i, lo[p])
      BY <1>3, <2>1, <2>3, StartsAscend
    <3>2. Start(V[p], i, lo[p]) < hi[p]
      <4>1. CASE i = 0
        BY <1>2, <4>1 DEF Start
      <4>2. CASE i # 0
        <5>1. V[p].entries \in Seq([key : Key, child : Nat])
          BY <2>1, Fields
        <5>2. DOMAIN V[p].entries = 1..Len(V[p].entries)
          BY <5>1
        <5>3. V[p].entries[i] \in ElementsOf(V[p].entries)
          BY <2>1, <4>2, <5>2 DEF ElementsOf
        <5> QED BY <2>3, <4>2, <5>3 DEF Start, InOrder
      <4> QED BY <4>1, <4>2
    <3> QED BY <2>4, <3>1, <3>2
  <2>6. h[q] = h[p] - 1 /\ q # Root
    <3>1. Fits(V[p], h[p], R, h)
      BY DEF Tree
    <3> QED BY <1>3, <2>2, <3>1 DEF Fits
  <2> QED BY <2>1, <2>5, <2>6
<1> QED BY <1>1, <1>2, <1>3

\* A page has one parent.
LEMMA OneParent ==
  ASSUME NEW V, NEW R, NEW h, Tree(V, R, h), NEW lo, NEW hi, NEW top, Ranged(V, R, h, lo, hi, top),
         NEW p \in R, NEW q \in R, h[p] # 0, h[q] # 0, NEW x \in R, IsChild(V, x, p), IsChild(V, x, q)
  PROVE  p = q
<1>1. /\ lo[p] <= lo[x] /\ lo[x] < hi[p] /\ h[x] + 1 = h[p]
      /\ lo[q] <= lo[x] /\ lo[x] < hi[q] /\ h[x] + 1 = h[q]
  BY RangedFacts
<1>2. \A y \in R : lo[y] \in Nat /\ hi[y] \in Nat
  BY RangedFacts
<1>3. p # q => hi[p] <= lo[q] \/ hi[q] <= lo[p]
  BY <1>1 DEF Ranged
<1> QED BY <1>1, <1>2, <1>3

\* Each page a search goes through has the key in its range, and is a child of the one before.
LEMMA WayInRange ==
  ASSUME NEW R, NEW h, Tree(pages, R, h), NEW lo, NEW hi, Ranged(pages, R, h, lo, hi, hi),
         NEW key \in Nat, key <= MaxKey, NEW path, Searched(R, h, key, path)
  PROVE  /\ \A i \in 1..Len(path) : lo[path[i]] <= key /\ key < hi[path[i]]
         /\ \A i \in 1..(Len(path) - 1) : IsChild(pages, path[i + 1], path[i])
<1>1. /\ path \in Seq(R) /\ Len(path) = h[Root] + 1 /\ path[1] = Root /\ h[Root] \in Nat
      /\ \A i \in 1..Len(path) : h[path[i]] = h[Root] + 1 - i
      /\ \A i \in 1..h[Root] : path[i + 1] = ChildForKey(pages[path[i]], key)
  BY DEF Searched
<1>2. MaxKey \in Nat
  BY TreeAssumption DEF MaxKey
<1> DEFINE H == h[Root]
           T == {n \in 0..H : lo[path[n + 1]] <= key /\ key < hi[path[n + 1]]}
<1>3. 0 \in T
  BY <1>1, <1>2 DEF Ranged
<1>4. ASSUME NEW n \in 1..H PROVE h[path[n]] # 0 /\ path[n] \in R /\ pages[path[n]] \in AnyInner
  <2>1. n \in 1..Len(path) /\ h[path[n]] = H + 1 - n /\ path[n] \in R
    <3>1. H \in Nat /\ Len(path) = H + 1
      BY <1>1
    <3>2. n \in 1..Len(path)
      BY <3>1
    <3> QED BY <1>1, <3>2
  <2>2. h[path[n]] # 0
    <3>1. H \in Nat /\ H + 1 - n # 0
      BY <1>1
    <3> QED BY <2>1, <3>1
  <2> QED BY <2>1, <2>2, NodeFacts
<1>5. ASSUME NEW n \in 1..H, n - 1 \in T PROVE n \in T
  <2>1. lo[path[n]] <= key /\ key < hi[path[n]]
    BY <1>1, <1>5
  <2>2. InOrder(pages[path[n]], h[path[n]], lo[path[n]], hi[path[n]], lo, hi)
    BY <1>4, RangedFacts
  <2>3. PICK c : c = ChildForKey(pages[path[n]], key)
    OBVIOUS
  <2>4. lo[c] <= key /\ key < hi[c]
    BY <1>4, <2>1, <2>2, <2>3, SlotHas
  <2> QED BY <1>1, <2>3, <2>4
<1>6. 0..H \subseteq T
  <2> HIDE DEF T
  <2> QED BY <1>1, <1>3, <1>5, UpTo
<1>7. ASSUME NEW i \in 1..Len(path) PROVE lo[path[i]] <= key /\ key < hi[path[i]]
  <2>1. i - 1 \in 0..H /\ (i - 1) + 1 = i
    BY <1>1
  <2>2. i - 1 \in T
    BY <1>6, <2>1
  <2> QED BY <2>1, <2>2
<1>8. ASSUME NEW i \in 1..(Len(path) - 1) PROVE IsChild(pages, path[i + 1], path[i])
  <2>1. i \in 1..H
    BY <1>1
  <2>2. path[i + 1] = ChildForKey(pages[path[i]], key)
    BY <1>1, <2>1
  <2>3. pages[path[i]] \in AnyInner
    BY <1>4, <2>1
  <2>4. \E j \in 0..Len(pages[path[i]].entries) : ChildForKey(pages[path[i]], key) = Child(pages[path[i]], j)
    BY <2>3, ChildForKeyFacts
  <2> QED BY <2>2, <2>4 DEF IsChild
<1> QED BY <1>7, <1>8

\* The ranges with a page rewritten that stays in its range.
LEMMA RangedOne ==
  ASSUME NEW V, NEW R, NEW h, NEW lo, NEW hi, NEW top, Ranged(V, R, h, lo, hi, top),
         NEW p \in R, NEW U, \A x \in R : x # p => U[x] = V[x],
         InOrder(U[p], h[p], lo[p], hi[p], lo, top)
  PROVE  Ranged(U, R, h, lo, hi, top)
<1>1. \A x \in R : InOrder(U[x], h[x], lo[x], hi[x], lo, top)
  BY DEF Ranged
<1> QED BY <1>1, Zenon DEF Ranged

\* The order is of what is on the pages of the tree.
LEMMA SortedSame ==
  ASSUME NEW V, NEW R, NEW h, Sorted(V, R, h, Nothing), NEW U, \A x \in R : U[x] = V[x]
  PROVE  Sorted(U, R, h, Nothing)
<1>1. PICK lo, hi, top : Ranged(V, R, h, lo, hi, top) /\ Divided(V, Nothing, lo, hi, top)
  BY DEF Sorted
<1>2. \A x \in R : InOrder(U[x], h[x], lo[x], hi[x], lo, top)
  BY <1>1 DEF Ranged
<1>3. Ranged(U, R, h, lo, hi, top)
  BY <1>1, <1>2, Zenon DEF Ranged
<1>4. Divided(U, Nothing, lo, hi, top)
  BY <1>1 DEF Divided
<1> QED BY <1>3, <1>4 DEF Sorted

\* Where the pages but p of a tree lead to.
Leads(V, R, h, p) ==
  /\ h \in [R -> Nat] /\ p \in R /\ Root \in R
  /\ \A x \in R \ {p} : Fits(V[x], h[x], R, h)
  /\ \A x \in R : h[x] = 0 => V[x].next \in R \cup {None}

\* The halves l and r of page p divide its range at k, where page n starts.
Cleaves(R, lo, hi, p, n, k, l, r, d) ==
  /\ k \in Nat /\ lo[p] < k /\ k < hi[p]
  /\ \A low, up : low[n] = k /\ (\A x \in R : low[x] = lo[x]) /\ (\A x \in R \ {Root} : up[x] = hi[x])
        => InOrder(l, d, lo[p], k, low, up) /\ InOrder(r, d, k, hi[p], low, up)
LEMMA LeafCleaves ==
  ASSUME NEW R, NEW lo, NEW hi, NEW p \in R, lo[p] \in Nat, hi[p] \in Nat,
         NEW s \in Seq(Entry), Len(s) >= 2, Last(LeftHalf(s)).key # Promoted(s).key,
         NEW next \in R \cup {None}, InOrder(Leaf(s, next), 0, lo[p], hi[p], lo, hi), NEW n, n \notin R
  PROVE  Cleaves(R, lo, hi, p, n, Promoted(s).key, Leaf(LeftHalf(s), n), Leaf(RightHalf(s), next), 0)
<1> DEFINE k == Promoted(s).key
           a == lo[p]
           b == hi[p]
           l == Leaf(LeftHalf(s), n)
           r == Leaf(RightHalf(s), next)
<1>1. ASSUME NEW low, NEW up, low[n] = k, \A x \in R : low[x] = lo[x], k <= low[n]
      PROVE  k \in Nat /\ a < k /\ k < b /\ InOrder(l, 0, a, k, low, up) /\ InOrder(r, 0, k, b, low, up)
  <2>1. next = None \/ low[next] = lo[next]
    BY <1>1
  <2>2. InOrder(Leaf(s, next), 0, a, b, lo, up)
    BY DEF InOrder
  <2>3. a \in Nat /\ b \in Nat
    OBVIOUS
  <2> HIDE DEF a, b
  <2> QED BY <1>1, <2>1, <2>2, <2>3, LeafHalves
<1>2. k \in Nat
  <2>1. Halves(Entry, s, Mid(s))
    BY HalvesFacts
  <2> QED BY <2>1, EntryFields DEF Halves, Keyed
<1>3. a < k /\ k < b
  <2> DEFINE low == [x \in R \cup {n} |-> IF x = n THEN k ELSE lo[x]]
  <2>1. low[n] = k /\ \A x \in R : low[x] = lo[x]
    OBVIOUS
  <2> HIDE DEF low, l, r, a, b, k
  <2>2. k <= low[n]
    BY <1>2, <2>1
  <2> QED BY <1>1, <2>1, <2>2
<1>4. ASSUME NEW low, NEW up, low[n] = k, \A x \in R : low[x] = lo[x]
      PROVE  InOrder(l, 0, a, k, low, up) /\ InOrder(r, 0, k, b, low, up)
  <2> HIDE DEF k, l, r, a, b
  <2>1. k <= low[n]
    BY <1>2, <1>4
  <2> QED BY <1>1, <1>4, <2>1
<1> HIDE DEF k, l, r
<1>5. Cleaves(R, lo, hi, p, n, k, l, r, 0)
  BY <1>2, <1>3, <1>4 DEF Cleaves
<1> QED BY <1>5 DEF k, l, r

\* The halves of an internal node divide its range at the separator.
LEMMA InnerCleaves ==
  ASSUME NEW R, NEW lo, NEW hi, NEW p \in R, lo[p] \in Nat, hi[p] \in Nat, NEW h, NEW d, d # 0,
         NEW s \in Seq([key : Key, child : Nat]), Len(s) >= 3, NEW left,
         InOrder(Inner(s, left), d, lo[p], hi[p], lo, hi), NEW n,
         Fits(Inner(LeftHalf(s), left), d, R, h),
         Fits(Inner(Tail(RightHalf(s)), Promoted(s).child), d, R, h)
  PROVE  Cleaves(R, lo, hi, p, n, Promoted(s).key, Inner(LeftHalf(s), left),
                 Inner(Tail(RightHalf(s)), Promoted(s).child), d)
<1> DEFINE k == Promoted(s).key
           a == lo[p]
           b == hi[p]
           l == Inner(LeftHalf(s), left)
           r == Inner(Tail(RightHalf(s)), Promoted(s).child)
<1>1. k \in Nat /\ a < k /\ k < b /\ InOrder(l, d, a, k, lo, hi) /\ InOrder(r, d, k, b, lo, hi)
  <2>1. a \in Nat /\ b \in Nat /\ InOrder(Inner(s, left), d, a, b, lo, hi)
    OBVIOUS
  <2> HIDE DEF a, b
  <2> QED BY <2>1, InnerHalves
<1>2. Fits(l, d, R, h) /\ Fits(r, d, R, h)
  OBVIOUS
<1> HIDE DEF k, l, r, a, b
<1>3. ASSUME NEW low, NEW up, \A x \in R : low[x] = lo[x], \A x \in R \ {Root} : up[x] = hi[x]
      PROVE  InOrder(l, d, a, k, low, up) /\ InOrder(r, d, k, b, low, up)
  <2>1. /\ \A i \in 0..Len(l.entries) : up[Child(l, i)] = hi[Child(l, i)]
        /\ \A i \in 0..Len(r.entries) : up[Child(r, i)] = hi[Child(r, i)]
    BY <1>2, <1>3 DEF Fits
  <2> QED BY <1>1, <1>2, <1>3, <2>1, InOrderElsewhere
<1>4. Cleaves(R, lo, hi, p, n, k, l, r, d)
  BY <1>1, <1>3 DEF Cleaves, a, b
<1> QED BY <1>4 DEF k, l, r

\* A page below the root cut in half: a separator is owed to its parent.
CutInOrder(V, R, h, W, g, lo, hi, p, n, k) ==
  /\ Ranged(V, R, h, lo, hi, hi) /\ Leads(V, R, h, p) /\ p # Root /\ n \notin R
  /\ \A x \in R : x # p => W[x] = V[x]
  /\ g[n] = h[p] /\ \A x \in R : g[x] = h[x]
  /\ Cleaves(R, lo, hi, p, n, k, W[p], W[n], h[p])
LEMMA SortedHalf ==
  ASSUME NEW V, NEW R, NEW h, NEW W, NEW g, NEW lo, NEW hi, NEW p, NEW n, NEW k,
         CutInOrder(V, R, h, W, g, lo, hi, p, n, k), NEW path, Way(path, R, h), Last(path) = p,
         \A i \in 1..(Len(path) - 1) : IsChild(V, path[i + 1], path[i])
  PROVE  Sorted(W, R \cup {n}, g, ToParent(path, k, n))
<1> DEFINE Q == R \cup {n}
           low == [x \in Q |-> IF x = n THEN k ELSE lo[x]]
           top == [x \in Q |-> IF x = n THEN hi[p] ELSE hi[x]]
           up == [top EXCEPT ![p] = k]
<1>1. /\ p \in R /\ Root \in R /\ p # Root /\ n \notin R /\ n # p /\ n # Root /\ h \in [R -> Nat]
      /\ \A x \in R \ {p} : Fits(V[x], h[x], R, h)
      /\ \A x \in R : h[x] = 0 => V[x].next \in R \cup {None}
      /\ \A x \in R : x # p => W[x] = V[x]
      /\ g[n] = h[p] /\ \A x \in R : g[x] = h[x]
  BY DEF CutInOrder, Leads
<1>2. /\ lo \in [R -> Nat] /\ hi \in [R -> Nat] /\ lo[Root] = 0 /\ hi[Root] = MaxKey + 1
      /\ \A x \in R \ {Root} : h[x] < h[Root]
      /\ \A x, y \in R : x # y /\ h[x] = h[y] => hi[x] <= lo[y] \/ hi[y] <= lo[x]
      /\ \A x \in R : InOrder(V[x], h[x], lo[x], hi[x], lo, hi)
  BY DEF CutInOrder, Ranged
<1>3. k \in Nat /\ lo[p] < k /\ k < hi[p] /\ lo[p] \in Nat /\ hi[p] \in Nat
  BY <1>1, <1>2 DEF CutInOrder, Cleaves
<1>4. /\ low \in [Q -> Nat] /\ top \in [Q -> Nat] /\ up \in [Q -> Nat]
      /\ low[n] = k /\ top[n] = hi[p] /\ up[n] = hi[p] /\ up[p] = k /\ up = [top EXCEPT ![p] = k]
      /\ (\A x \in R : low[x] = lo[x] /\ top[x] = hi[x]) /\ (\A x \in R : x # p => up[x] = hi[x])
  BY <1>1, <1>2, <1>3
<1> HIDE DEF low, top, up
<1>5. InOrder(W[p], h[p], lo[p], k, low, top) /\ InOrder(W[n], h[p], k, hi[p], low, top)
  <2>1. \A x \in R \ {Root} : top[x] = hi[x]
    BY <1>4
  <2> QED BY <1>4, <2>1 DEF CutInOrder, Cleaves
<1>6. ASSUME NEW x \in Q PROVE InOrder(W[x], g[x], low[x], up[x], low, top)
  <2>1. CASE x = n
    BY <1>1, <1>4, <1>5, <2>1
  <2>2. CASE x = p
    BY <1>1, <1>4, <1>5, <2>2
  <2>3. CASE x # n /\ x # p
    <3>1. x \in R /\ W[x] = V[x] /\ g[x] = h[x] /\ low[x] = lo[x] /\ up[x] = hi[x]
      BY <1>1, <1>4, <2>3
    <3>2. /\ Fits(V[x], h[x], R, h) /\ (h[x] = 0 => V[x].next \in R \cup {None})
          /\ InOrder(V[x], h[x], lo[x], hi[x], lo, hi)
      BY <1>1, <1>2, <2>3, <3>1
    <3>3. h[x] # 0 => \A i \in 0..Len(V[x].entries) : top[Child(V[x], i)] = hi[Child(V[x], i)]
      BY <1>4, <3>2 DEF Fits
    <3>4. InOrder(V[x], h[x], lo[x], hi[x], low, top)
      <4>1. \A z \in R : low[z] = lo[z]
        BY <1>4
      <4>2. InOrder(V[x], h[x], lo[x], hi[x], lo, hi)
        BY <3>2
      <4>3. CASE h[x] = 0
        <5>1. V[x].next = None \/ low[V[x].next] = lo[V[x].next]
          BY <3>2, <4>1, <4>3
        <5> QED BY <4>2, <4>3, <5>1 DEF InOrder
      <4>4. CASE h[x] # 0
        <5>1. \A i \in 0..Len(V[x].entries) : /\ low[Child(V[x], i)] = lo[Child(V[x], i)]
                                             /\ top[Child(V[x], i)] = hi[Child(V[x], i)]
          BY <3>2, <3>3, <4>1, <4>4 DEF Fits
        <5> QED BY <4>2, <4>4, <5>1 DEF InOrder
      <4> QED BY <4>3, <4>4
    <3> QED BY <3>1, <3>4
  <2> QED BY <2>1, <2>2, <2>3
<1>7. ASSUME NEW x \in Q, NEW y \in Q, x # y, g[x] = g[y] PROVE up[x] <= low[y] \/ up[y] <= low[x]
  <2>1. \A z \in R : lo[z] \in Nat /\ hi[z] \in Nat
    BY <1>2
  <2>2. CASE x \in R /\ y \in R
    <3>1. hi[x] <= lo[y] \/ hi[y] <= lo[x]
      BY <1>1, <1>2, <1>7, <2>2
    <3>2. up[x] <= hi[x] /\ up[y] <= hi[y] /\ up[x] \in Nat /\ up[y] \in Nat
      BY <1>3, <1>4, <2>1, <2>2
    <3> QED BY <1>4, <2>1, <2>2, <3>1, <3>2
  <2>3. CASE x = n /\ y \in R
    <3>1. up[x] = hi[p] /\ low[x] = k /\ low[y] = lo[y]
      BY <1>4, <2>3
    <3>2. CASE y = p
      BY <1>3, <1>4, <3>1, <3>2
    <3>3. CASE y # p
      <4>1. hi[y] <= lo[p] \/ hi[p] <= lo[y]
        BY <1>1, <1>2, <1>7, <2>3, <3>3
      <4>2. up[y] = hi[y]
        BY <1>4, <2>3, <3>3
      <4> QED BY <1>3, <2>1, <2>3, <3>1, <4>1, <4>2
    <3> QED BY <3>2, <3>3
  <2>4. CASE y = n /\ x \in R
    <3>1. up[y] = hi[p] /\ low[y] = k /\ low[x] = lo[x]
      BY <1>4, <2>4
    <3>2. CASE x = p
      BY <1>3, <1>4, <3>1, <3>2
    <3>3. CASE x # p
      <4>1. hi[x] <= lo[p] \/ hi[p] <= lo[x]
        BY <1>1, <1>2, <1>7, <2>4, <3>3
      <4>2. up[x] = hi[x]
        BY <1>4, <2>4, <3>3
      <4> QED BY <1>3, <2>1, <2>4, <3>1, <4>1, <4>2
    <3> QED BY <3>2, <3>3
  <2> QED BY <1>7, <2>2, <2>3, <2>4
<1>8. Ranged(W, Q, g, low, up, top)
  <2>1. low[Root] = 0 /\ up[Root] = MaxKey + 1
    BY <1>1, <1>2, <1>4
  <2>2. \A x \in Q \ {Root} : g[x] < g[Root]
    BY <1>1, <1>2
  <2> HIDE DEF Q
  <2> QED BY <1>4, <1>6, <1>7, <2>1, <2>2 DEF Ranged
<1>9. /\ path \in Seq(R) /\ path # <<>> /\ path[1] = Root /\ Len(path) \in Nat /\ path[Len(path)] = p
      /\ \A i \in 1..Len(path) : path[i] \in R /\ h[path[i]] = h[Root] + 1 - i
  BY DEF Way, Last
<1>10. Len(path) >= 2
  <2>1. PICK m \in Nat : m = Len(path)
    BY <1>9
  <2>2. m # 0
    BY <1>9, <2>1
  <2>3. m # 1
    BY <1>1, <1>9, <2>1
  <2>4. m >= 2
    BY <2>2, <2>3
  <2> QED BY <2>1, <2>4
<1> DEFINE debt == ToParent(path, k, n)
           front == Front(path)
<1>11. debt.path = front /\ debt.child = n /\ debt.key = k /\ debt # Nothing
  BY DEF ToParent, Nothing
<1>12. front \in Seq(R) /\ Len(front) = Len(path) - 1 /\ \A i \in 1..Len(front) : front[i] = path[i]
  BY <1>9, <1>10 DEF Front
<1> HIDE DEF debt, front
<1>13. \A i \in 1..(Len(path) - 1) : W[path[i]] = V[path[i]]
  <2>1. ASSUME NEW i \in 1..(Len(path) - 1) PROVE path[i] \in R /\ path[i] # p
    <3>1. i \in 1..Len(path) /\ Len(path) \in 1..Len(path) /\ i # Len(path)
      BY <1>9, <1>10
    <3>2. h[path[i]] = h[Root] + 1 - i /\ h[p] = h[Root] + 1 - Len(path) /\ h[Root] \in Nat
      BY <1>1, <1>9, <3>1
    <3>3. h[path[i]] # h[p]
      BY <1>9, <3>1, <3>2
    <3> QED BY <1>9, <3>1, <3>3
  <2> QED BY <1>1, <2>1
<1>14. \A i \in 1..(Len(path) - 1) : IsChild(W, path[i + 1], path[i])
  BY <1>13 DEF IsChild
<1>15. \A i \in 1..(Len(front) - 1) : IsChild(W, front[i + 1], front[i])
  <2>1. ASSUME NEW i \in 1..(Len(front) - 1) PROVE IsChild(W, front[i + 1], front[i])
    <3>1. i \in 1..Len(front) /\ i + 1 \in 1..Len(front) /\ i \in 1..(Len(path) - 1)
      BY <1>9, <1>12
    <3> QED BY <1>12, <1>14, <3>1
  <2> QED BY <2>1
<1>16. IsChild(W, p, Last(front))
  <2>1. Len(front) = Len(path) - 1 /\ Len(front) \in 1..Len(front) /\ Len(front) \in 1..(Len(path) - 1)
        /\ Len(front) + 1 = Len(path)
    BY <1>9, <1>10, <1>12
  <2> QED BY <1>9, <1>12, <1>14, <2>1 DEF Last
<1>17. Divided(W, debt, low, up, top)
  <2>1. \E from : /\ IsChild(W, from, Last(debt.path)) /\ up = [top EXCEPT ![from] = debt.key]
                  /\ top[debt.child] = top[from]
    BY <1>1, <1>4, <1>11, <1>16
  <2> QED BY <1>4, <1>11, <1>15, <2>1 DEF Divided
<1> QED BY <1>8, <1>17 DEF Sorted, debt

\* The root cut in half: a new root has the halves as its children.
RootInOrder(V, R, h, W, g, lo, hi, n, k) ==
  /\ Ranged(V, R, h, lo, hi, hi) /\ Leads(V, R, h, Root) /\ n \notin R /\ n + 1 \notin R /\ n # n + 1
  /\ \A x \in R : x # Root => W[x] = V[x]
  /\ W[Root] = Inner(<<[key |-> k, child |-> n + 1]>>, n)
  /\ g[Root] = h[Root] + 1 /\ g[n] = h[Root] /\ g[n + 1] = h[Root] /\ \A x \in R \ {Root} : g[x] = h[x]
  /\ Cleaves(R, lo, hi, Root, n + 1, k, W[n], W[n + 1], h[Root])
LEMMA SortedRoot ==
  ASSUME NEW V, NEW R, NEW h, NEW W, NEW g, NEW lo, NEW hi, NEW n, NEW k,
         RootInOrder(V, R, h, W, g, lo, hi, n, k)
  PROVE  Sorted(W, R \cup {n, n + 1}, g, Nothing)
<1> DEFINE m == n + 1
           Q == R \cup {n, m}
           low == [x \in Q |-> IF x = m THEN k ELSE IF x = n THEN 0 ELSE lo[x]]
           up == [x \in Q |-> IF x = m THEN hi[Root] ELSE IF x = n THEN k ELSE hi[x]]
           root == Inner(<<[key |-> k, child |-> m]>>, n)
<1>1. /\ Root \in R /\ n \notin R /\ m \notin R /\ n # m /\ h \in [R -> Nat]
      /\ \A x \in R \ {Root} : Fits(V[x], h[x], R, h)
      /\ \A x \in R : h[x] = 0 => V[x].next \in R \cup {None}
      /\ \A x \in R : x # Root => W[x] = V[x]
      /\ W[Root] = root
      /\ g[Root] = h[Root] + 1 /\ g[n] = h[Root] /\ g[m] = h[Root] /\ \A x \in R \ {Root} : g[x] = h[x]
  BY DEF RootInOrder, Leads
<1>2. /\ lo \in [R -> Nat] /\ hi \in [R -> Nat] /\ lo[Root] = 0 /\ hi[Root] = MaxKey + 1
      /\ \A x \in R \ {Root} : h[x] < h[Root]
      /\ \A x, y \in R : x # y /\ h[x] = h[y] => hi[x] <= lo[y] \/ hi[y] <= lo[x]
      /\ \A x \in R : InOrder(V[x], h[x], lo[x], hi[x], lo, hi)
  BY DEF RootInOrder, Ranged
<1>3. k \in Nat /\ 0 < k /\ k < hi[Root] /\ hi[Root] \in Nat /\ h[Root] \in Nat
  BY <1>1, <1>2 DEF RootInOrder, Cleaves
<1>4. root.entries = <<[key |-> k, child |-> m]>> /\ root.left = n
  BY DEF Inner
<1>5. /\ low \in [Q -> Nat] /\ up \in [Q -> Nat]
      /\ low[m] = k /\ up[m] = hi[Root] /\ low[n] = 0 /\ up[n] = k
      /\ \A x \in R : low[x] = lo[x] /\ up[x] = hi[x]
  BY <1>1, <1>2, <1>3
<1> HIDE DEF low, up, m, root
<1>6. InOrder(W[n], h[Root], 0, k, low, up) /\ InOrder(W[m], h[Root], k, hi[Root], low, up)
  <2>1. \A x \in R \ {Root} : up[x] = hi[x]
    BY <1>5
  <2> QED BY <1>2, <1>5, <2>1 DEF RootInOrder, Cleaves, m
<1>7. InOrder(root, h[Root] + 1, 0, hi[Root], low, up)
  <2>1. Len(root.entries) = 1 /\ DOMAIN root.entries = {1} /\ root.entries[1] = [key |-> k, child |-> m]
    BY <1>4
  <2>2. \A x \in ElementsOf(root.entries) : 0 <= x.key /\ 0 < x.key /\ x.key < hi[Root]
    BY <1>3, <2>1 DEF ElementsOf
  <2>3. \A i \in 0..1 : i = 0 \/ i = 1
    OBVIOUS
  <2>4. /\ Child(root, 0) = n /\ Child(root, 1) = m
        /\ Start(root, 0, 0) = 0 /\ Start(root, 1, 0) = k
        /\ End(root, 0, hi[Root]) = k /\ End(root, 1, hi[Root]) = hi[Root]
    BY <1>4, <2>1 DEF Child, Start, End
  <2>5. \A i \in 0..Len(root.entries) : low[Child(root, i)] = Start(root, i, 0) /\ up[Child(root, i)] = End(root, i, hi[Root])
    BY <1>5, <2>1, <2>3, <2>4
  <2>6. \A i, j \in 1..Len(root.entries) : ~(i < j)
    BY <2>1
  <2>7. h[Root] + 1 # 0 /\ 0 < hi[Root]
    BY <1>3
  <2> QED BY <2>2, <2>5, <2>6, <2>7 DEF InOrder
<1>8. ASSUME NEW x \in Q PROVE InOrder(W[x], g[x], low[x], up[x], low, up)
  <2>1. CASE x = n
    BY <1>1, <1>5, <1>6, <2>1
  <2>2. CASE x = m
    BY <1>1, <1>5, <1>6, <2>2
  <2>3. CASE x = Root
    BY <1>1, <1>2, <1>5, <1>7, <2>3
  <2>4. CASE x # n /\ x # m /\ x # Root
    <3>1. x \in R /\ W[x] = V[x] /\ g[x] = h[x] /\ low[x] = lo[x] /\ up[x] = hi[x]
      BY <1>1, <1>5, <2>4
    <3>2. /\ Fits(V[x], h[x], R, h) /\ (h[x] = 0 => V[x].next \in R \cup {None})
          /\ InOrder(V[x], h[x], lo[x], hi[x], lo, hi)
      BY <1>1, <1>2, <2>4, <3>1
    <3>3. h[x] # 0 => \A i \in 0..Len(V[x].entries) : up[Child(V[x], i)] = hi[Child(V[x], i)]
      BY <1>5, <3>2 DEF Fits
    <3>4. \A y \in R : low[y] = lo[y]
      BY <1>5
    <3>5. InOrder(V[x], h[x], lo[x], hi[x], low, up)
      BY <3>2, <3>3, <3>4, InOrderElsewhere
    <3> QED BY <3>1, <3>5
  <2> QED BY <2>1, <2>2, <2>3, <2>4
<1>9. \A x \in Q \ {Root} : g[x] < g[Root]
  BY <1>1, <1>2, <1>3
<1>10. ASSUME NEW x \in Q, NEW y \in Q, x # y, g[x] = g[y] PROVE up[x] <= low[y] \/ up[y] <= low[x]
  <2>1. \A z \in R : lo[z] \in Nat /\ hi[z] \in Nat /\ h[z] \in Nat
    BY <1>1, <1>2
  <2>2. g[Root] \in Nat /\ \A z \in Q : g[z] \in Nat
    BY <1>1, <1>3, <2>1
  <2>3. x # Root /\ y # Root
    BY <1>9, <1>10, <2>2
  <2>4. CASE x \in R /\ y \in R
    <3>1. hi[x] <= lo[y] \/ hi[y] <= lo[x]
      BY <1>1, <1>2, <1>10, <2>3, <2>4
    <3> QED BY <1>5, <2>4, <3>1
  <2>5. \A z \in R \ {Root} : g[z] # h[Root]
    BY <1>1, <1>2, <1>3, <2>1
  <2>6. CASE x \notin R
    <3>1. g[x] = h[Root] /\ y \notin R
      BY <1>1, <1>10, <2>3, <2>5, <2>6
    <3>2. (x = n /\ y = m) \/ (x = m /\ y = n)
      BY <1>10, <2>6, <3>1
    <3> QED BY <1>3, <1>5, <3>2
  <2>7. CASE y \notin R
    <3>1. g[y] = h[Root] /\ x \notin R
      BY <1>1, <1>10, <2>3, <2>5, <2>7
    <3>2. (x = n /\ y = m) \/ (x = m /\ y = n)
      BY <1>10, <2>7, <3>1
    <3> QED BY <1>3, <1>5, <3>2
  <2> QED BY <2>4, <2>6, <2>7
<1>11. Ranged(W, Q, g, low, up, up)
  <2>1. low[Root] = 0 /\ up[Root] = MaxKey + 1
    BY <1>1, <1>2, <1>5
  <2> HIDE DEF Q
  <2> QED BY <1>5, <1>8, <1>9, <1>10, <2>1 DEF Ranged
<1>12. Divided(W, Nothing, low, up, up)
  BY DEF Divided
<1> QED BY <1>11, <1>12 DEF Sorted, m

\* A separator owed to a page is paid by writing it there.
LEMMA SortedPaid ==
  ASSUME NEW V, NEW R, NEW h, Tree(V, R, h), NEW debt, debt # Nothing, Owed(debt, R, h),
         NEW lo, NEW hi, NEW top, Ranged(V, R, h, lo, hi, top), Divided(V, debt, lo, hi, top),
         NEW p, p = Last(debt.path), p \in R, h[p] # 0,
         NEW e, e = [key |-> debt.key, child |-> debt.child], e \in [key : Key, child : Nat],
         NEW r, r = InsertAt(V[p].entries, e),
         NEW U, U[p] = Inner(r, V[p].left), \A x \in R : x # p => U[x] = V[x]
  PROVE  Ranged(U, R, h, lo, hi, hi)
<1>1. PICK from : /\ IsChild(V, from, p) /\ hi = [top EXCEPT ![from] = debt.key]
                  /\ top[debt.child] = top[from]
  BY DEF Divided
<1>2. lo[debt.child] = debt.key /\ debt.child \in R /\ e.key = debt.key /\ e.child = debt.child
  BY DEF Divided, Owed
<1>3. V[p] \in AnyInner /\ Len(V[p].entries) \in Nat
  BY NodeFacts
<1>4. from \in R /\ h[from] + 1 = h[p]
  <2>1. from \in R
    <3>1. Fits(V[p], h[p], R, h)
      BY DEF Tree
    <3> QED BY <1>1, <3>1 DEF Fits, IsChild
  <2> QED BY <1>1, <2>1, RangedFacts
<1>5. \A x \in R : lo[x] \in Nat /\ hi[x] \in Nat /\ top[x] \in Nat /\ lo[x] < hi[x]
  BY RangedFacts
<1>6. top \in [R -> Nat] /\ hi[from] = debt.key /\ \A x \in R : x # from => hi[x] = top[x]
  <2>1. top \in [R -> Nat]
    BY DEF Ranged
  <2> QED BY <1>1, <1>4, <2>1
<1>7. debt.child # from
  BY <1>2, <1>5, <1>6
<1>8. \A x \in R : Fits(V[x], h[x], R, h) /\ InOrder(V[x], h[x], lo[x], hi[x], lo, top)
  BY DEF Tree, Ranged
<1>9. Pays(V[p], from, e, lo, top, hi)
  <2>1. \E n \in 0..Len(V[p].entries) : Child(V[p], n) = from
    BY <1>1 DEF IsChild
  <2>2. lo[from] <= e.key /\ lo[from] # e.key /\ e.key < top[from]
    <3>1. lo[from] < e.key
      BY <1>2, <1>4, <1>5, <1>6
    <3>2. lo[debt.child] < hi[debt.child]
      BY <1>2, <1>5
    <3>3. hi[debt.child] = top[from]
      BY <1>1, <1>2, <1>6, <1>7
    <3>4. e.key \in Nat /\ lo[from] \in Nat
      BY <1>2, <1>4, <1>5
    <3> QED BY <1>2, <3>1, <3>2, <3>3, <3>4
  <2>3. \A i \in 0..Len(V[p].entries) : Child(V[p], i) # from => hi[Child(V[p], i)] = top[Child(V[p], i)]
    BY <1>6, <1>8 DEF Fits
  <2>4. lo[e.child] = e.key /\ hi[e.child] = top[from]
    BY <1>1, <1>2, <1>6, <1>7
  <2> QED BY <1>2, <1>6, <2>1, <2>2, <2>3, <2>4 DEF Pays
<1>10. InOrder(U[p], h[p], lo[p], hi[p], lo, hi)
  <2>1. lo[p] \in Nat /\ hi[p] \in Nat /\ InOrder(V[p], h[p], lo[p], hi[p], lo, top)
    BY <1>5, <1>8
  <2> QED BY <1>3, <1>9, <2>1, PaidInOrder
<1>11. ASSUME NEW x \in R PROVE InOrder(U[x], h[x], lo[x], hi[x], lo, hi)
  <2>1. CASE x = p
    BY <1>10, <2>1
  <2>2. CASE x # p
    <3>1. U[x] = V[x] /\ InOrder(V[x], h[x], lo[x], hi[x], lo, top) /\ Fits(V[x], h[x], R, h)
      BY <1>8, <2>2
    <3>2. CASE h[x] = 0
      BY <3>1, <3>2 DEF InOrder
    <3>3. CASE h[x] # 0
      <4>1. ASSUME NEW i \in 0..Len(V[x].entries) PROVE hi[Child(V[x], i)] = top[Child(V[x], i)]
        <5>1. Child(V[x], i) \in R
          BY <3>1, <3>3 DEF Fits
        <5>2. Child(V[x], i) # from
          <6>1. SUFFICES ASSUME Child(V[x], i) = from PROVE FALSE
            OBVIOUS
          <6>2. IsChild(V, from, x)
            BY <6>1 DEF IsChild
          <6>3. x = p
            BY <1>1, <1>4, <3>3, <6>2, OneParent
          <6> QED BY <2>2, <6>3
        <5> QED BY <1>6, <5>1, <5>2
      <4> QED BY <3>1, <3>3, <4>1 DEF InOrder
    <3> QED BY <3>1, <3>2, <3>3
  <2> QED BY <2>1, <2>2
<1>12. hi \in [R -> Nat]
  BY DEF Ranged
<1> QED BY <1>11, <1>12, Zenon DEF Ranged

\* The pages of a way down before its last are others than that.
LEMMA WayApart ==
  ASSUME NEW R, NEW h, h \in [R -> Nat], Root \in R, NEW path, Way(path, R, h), NEW p, p = Last(path)
  PROVE  \A i \in 1..(Len(path) - 1) : path[i] \in R /\ path[i] # p
<1>1. /\ path \in Seq(R) /\ path # <<>> /\ Len(path) \in Nat /\ path[Len(path)] = p
      /\ \A i \in 1..Len(path) : path[i] \in R /\ h[path[i]] = h[Root] + 1 - i
  BY DEF Way, Last
<1>2. ASSUME NEW i \in 1..(Len(path) - 1) PROVE path[i] \in R /\ path[i] # p
  <2>1. i \in 1..Len(path) /\ Len(path) \in 1..Len(path) /\ i # Len(path)
    BY <1>1
  <2>2. h[path[i]] = h[Root] + 1 - i /\ h[p] = h[Root] + 1 - Len(path) /\ h[Root] \in Nat
    BY <1>1, <2>1
  <2>3. h[path[i]] # h[p]
    BY <1>1, <2>1, <2>2
  <2> QED BY <1>1, <2>1, <2>3
<1> QED BY <1>2

\* In a tree whose leaves are chained each page leads to others of the tree.
LEMMA TreeLeads ==
  ASSUME NEW V, NEW R, NEW h, Tree(V, R, h), NEW lower, NEW upper, Chained(V, R, lower, upper),
         NEW p \in R, NEW U, \A x \in R : x # p => U[x] = V[x], h[p] = 0 => U[p].next = V[p].next
  PROVE  Leads(U, R, h, p)
<1>1. \A x \in R : h[x] = 0 => V[x].next \in R \cup {None}
  <2>1. PICK first, place : Linked(V, Leaves(V, R), first, place)
    BY DEF Chained
  <2>2. \A x \in Leaves(V, R) : V[x].next = None \/ V[x].next \in Leaves(V, R)
    BY <2>1 DEF Linked, Follows
  <2>3. \A x \in R : h[x] = 0 => x \in Leaves(V, R)
    BY NodeFacts DEF Leaves
  <2> QED BY <2>2, <2>3 DEF Leaves
<1>2. h \in [R -> Nat] /\ Root \in R /\ \A x \in R : Fits(V[x], h[x], R, h)
  BY DEF Tree
<1>3. \A x \in R \ {p} : Fits(U[x], h[x], R, h)
  BY <1>2
<1>4. \A x \in R : h[x] = 0 => U[x].next \in R \cup {None}
  BY <1>1
<1> QED BY <1>2, <1>3, <1>4 DEF Leads

\* A leaf whose entries ascend in its range may take the place of another.
LEMMA LeafInOrder ==
  ASSUME NEW V, NEW R, NEW h, Tree(V, R, h), NEW lo, NEW hi, NEW top, Ranged(V, R, h, lo, hi, top),
         NEW p \in R, h[p] = 0, NEW s, Ascending(s),
         \A x \in ElementsOf(s) : lo[p] <= x.key /\ x.key < hi[p],
         NEW U, U[p] = Leaf(s, V[p].next), \A x \in R : x # p => U[x] = V[x]
  PROVE  Ranged(U, R, h, lo, hi, top)
<1>1. InOrder(V[p], h[p], lo[p], hi[p], lo, top)
  BY DEF Ranged
<1>2. U[p].entries = s /\ U[p].next = V[p].next
  BY DEF Leaf
<1>3. InOrder(U[p], h[p], lo[p], hi[p], lo, top)
  BY <1>1, <1>2 DEF InOrder
<1> QED BY <1>3, RangedOne

\* The order of a tree when nothing is owed.
LEMMA SortedWhole ==
  /\ \A V, R, h : Sorted(V, R, h, Nothing) <=> \E lo, hi : Ranged(V, R, h, lo, hi, hi)
BY DEF Sorted, Divided

\* The leaf that a key is searched in, with an entry of that key.
EntryAdded(R, h, lo, hi, e, path, p, s, V) ==
  /\ Tree(pages, R, h) /\ Ranged(pages, R, h, lo, hi, hi) /\ e \in Entry
  /\ Searched(R, h, e.key, path) /\ Way(path, R, h) /\ p = Last(path) /\ p \in R /\ h[p] = 0
  /\ s = InsertAt(pages[p].entries, e)
  /\ V[p] = Leaf(s, pages[p].next) /\ \A x \in R : x # p => V[x] = pages[x]
WayKept(V, R, h, lo, hi, path) ==
  /\ Ranged(V, R, h, lo, hi, hi)
  /\ \A i \in 1..(Len(path) - 1) : IsChild(V, path[i + 1], path[i])
LEMMA InsertInOrder ==
  ASSUME NEW R, NEW h, NEW lo, NEW hi, NEW e, NEW path, NEW p, NEW s, NEW V,
         EntryAdded(R, h, lo, hi, e, path, p, s, V)
  PROVE  WayKept(V, R, h, lo, hi, path)
<1>0. /\ Tree(pages, R, h) /\ Ranged(pages, R, h, lo, hi, hi) /\ e \in Entry
      /\ Searched(R, h, e.key, path) /\ Way(path, R, h) /\ p = Last(path) /\ p \in R /\ h[p] = 0
      /\ s = InsertAt(pages[p].entries, e)
      /\ V[p] = Leaf(s, pages[p].next) /\ \A x \in R : x # p => V[x] = pages[x]
  BY DEF EntryAdded
<1>1. e.key \in Nat /\ e.key <= MaxKey /\ Keyed(Entry) /\ pages[p].entries \in Seq(Entry)
  <2>1. MaxKey \in Nat
    BY TreeAssumption DEF MaxKey
  <2>2. e.key \in Nat /\ e.key <= MaxKey
    BY <1>0, <2>1, EntryFields DEF Key
  <2>3. pages[p].entries \in Seq(Entry)
    BY <1>0, NodeFacts
  <2> QED BY <2>2, <2>3, EntryFields
<1>2. /\ \A i \in 1..Len(path) : lo[path[i]] <= e.key /\ e.key < hi[path[i]]
      /\ \A i \in 1..(Len(path) - 1) : IsChild(pages, path[i + 1], path[i])
  BY <1>0, <1>1, WayInRange
<1>3. lo[p] <= e.key /\ e.key < hi[p]
  <2>1. path \in Seq(R) /\ path # <<>>
    BY <1>0 DEF Way
  <2>2. Len(path) \in 1..Len(path)
    BY <2>1
  <2> QED BY <1>0, <1>2, <2>2 DEF Last
<1>4. InOrder(pages[p], 0, lo[p], hi[p], lo, hi)
  BY <1>0 DEF Ranged
<1>5. Ascending(s) /\ ElementsOf(s) = ElementsOf(pages[p].entries) \cup {e}
  <2>1. Ascending(pages[p].entries)
    BY <1>4 DEF InOrder
  <2> QED BY <1>0, <1>1, <2>1, InsertAtKeeps
<1>6. \A x \in ElementsOf(s) : lo[p] <= x.key /\ x.key < hi[p]
  BY <1>3, <1>4, <1>5 DEF InOrder
<1>7. Ranged(V, R, h, lo, hi, hi)
  BY <1>0, <1>5, <1>6, LeafInOrder
<1>8. \A i \in 1..(Len(path) - 1) : V[path[i]] = pages[path[i]]
  <2>1. h \in [R -> Nat] /\ Root \in R
    BY <1>0 DEF Tree
  <2>2. \A i \in 1..(Len(path) - 1) : path[i] \in R /\ path[i] # p
    BY <1>0, <2>1, WayApart
  <2> QED BY <1>0, <2>2
<1>9. \A i \in 1..(Len(path) - 1) : IsChild(V, path[i + 1], path[i])
  BY <1>2, <1>8 DEF IsChild
<1> QED BY <1>7, <1>9 DEF WayKept

\* A leaf cut in half that was in order stays so if its halves share no key.
SplitLeafOf(V, R, h, p, s, next, lo, hi, k) ==
  /\ Leads(V, R, h, p) /\ Ranged(V, R, h, lo, hi, hi) /\ h[p] = 0 /\ V[p] = Leaf(s, next)
  /\ s \in Seq(Entry) /\ Len(s) >= 2 /\ k = Promoted(s).key /\ Last(LeftHalf(s)).key # k
LEMMA SplitLeafCleaves ==
  ASSUME NEW V, NEW R, NEW h, NEW p, NEW s, NEW next, NEW lo, NEW hi, NEW k,
         SplitLeafOf(V, R, h, p, s, next, lo, hi, k), NEW n, n \notin R
  PROVE  Cleaves(R, lo, hi, p, n, k, Leaf(LeftHalf(s), n), Leaf(RightHalf(s), next), 0)
<1>1. /\ p \in R /\ h[p] = 0 /\ V[p] = Leaf(s, next) /\ V[p].next \in R \cup {None}
      /\ lo[p] \in Nat /\ hi[p] \in Nat /\ InOrder(V[p], h[p], lo[p], hi[p], lo, hi)
      /\ s \in Seq(Entry) /\ Len(s) >= 2 /\ k = Promoted(s).key /\ Last(LeftHalf(s)).key # k
  BY DEF SplitLeafOf, Leads, Ranged
<1>2. next \in R \cup {None} /\ InOrder(Leaf(s, next), 0, lo[p], hi[p], lo, hi)
  <2>1. Leaf(s, next).next = next
    BY DEF Leaf
  <2> QED BY <1>1, <2>1
<1> QED BY <1>1, <1>2, LeafCleaves

\* So it does while its separator is on the way to its parent ...
LEMMA HalfLeafSorted ==
  ASSUME NEW V, NEW R, NEW h, NEW p, NEW s, NEW next, NEW lo, NEW hi, NEW k,
         SplitLeafOf(V, R, h, p, s, next, lo, hi, k), p # Root, NEW n, n \notin R,
         NEW W, W[p] = Leaf(LeftHalf(s), n), W[n] = Leaf(RightHalf(s), next), \A x \in R : x # p => W[x] = V[x],
         NEW g, g[n] = h[p], \A x \in R : g[x] = h[x],
         NEW path, Way(path, R, h), Last(path) = p,
         \A i \in 1..(Len(path) - 1) : IsChild(V, path[i + 1], path[i])
  PROVE  Sorted(W, R \cup {n}, g, ToParent(path, k, n))
<1>1. Cleaves(R, lo, hi, p, n, k, Leaf(LeftHalf(s), n), Leaf(RightHalf(s), next), 0)
  BY SplitLeafCleaves
<1>2. Leads(V, R, h, p) /\ Ranged(V, R, h, lo, hi, hi) /\ h[p] = 0
  BY DEF SplitLeafOf
<1>3. CutInOrder(V, R, h, W, g, lo, hi, p, n, k)
  BY <1>1, <1>2 DEF CutInOrder
<1> QED BY <1>3, SortedHalf

\* ... and under a new root.
LEMMA RootLeafSorted ==
  ASSUME NEW V, NEW R, NEW h, NEW s, NEW next, NEW lo, NEW hi, NEW k,
         SplitLeafOf(V, R, h, Root, s, next, lo, hi, k), NEW n, n \notin R, n + 1 \notin R, n # n + 1,
         NEW W, W[n] = Leaf(LeftHalf(s), n + 1), W[n + 1] = Leaf(RightHalf(s), next),
         W[Root] = Inner(<<[key |-> k, child |-> n + 1]>>, n), \A x \in R : x # Root => W[x] = V[x],
         NEW g, g[Root] = h[Root] + 1, g[n] = h[Root], g[n + 1] = h[Root], \A x \in R \ {Root} : g[x] = h[x]
  PROVE  Sorted(W, R \cup {n, n + 1}, g, Nothing)
<1>1. Cleaves(R, lo, hi, Root, n + 1, k, Leaf(LeftHalf(s), n + 1), Leaf(RightHalf(s), next), 0)
  BY SplitLeafCleaves
<1>2. Leads(V, R, h, Root) /\ Ranged(V, R, h, lo, hi, hi) /\ h[Root] = 0
  BY DEF SplitLeafOf
<1>3. RootInOrder(V, R, h, W, g, lo, hi, n, k)
  BY <1>1, <1>2 DEF RootInOrder
<1> QED BY <1>3, SortedRoot

\* An internal node cut in half that was in order.
SplitInnerOf(V, R, h, p, s, left, lo, hi, k, l, r) ==
  /\ Leads(V, R, h, p) /\ Ranged(V, R, h, lo, hi, hi) /\ h[p] # 0 /\ V[p] = Inner(s, left)
  /\ s \in Seq([key : Key, child : Nat]) /\ Len(s) >= 3 /\ k = Promoted(s).key
  /\ l = Inner(LeftHalf(s), left) /\ r = Inner(Tail(RightHalf(s)), Promoted(s).child)
  /\ Fits(l, h[p], R, h) /\ Fits(r, h[p], R, h)
LEMMA SplitInnerCleaves ==
  ASSUME NEW V, NEW R, NEW h, NEW p, NEW s, NEW left, NEW lo, NEW hi, NEW k, NEW l, NEW r,
         SplitInnerOf(V, R, h, p, s, left, lo, hi, k, l, r), NEW n
  PROVE  Cleaves(R, lo, hi, p, n, k, l, r, h[p])
<1>1. /\ p \in R /\ h[p] # 0 /\ V[p] = Inner(s, left)
      /\ lo[p] \in Nat /\ hi[p] \in Nat /\ InOrder(V[p], h[p], lo[p], hi[p], lo, hi)
      /\ s \in Seq([key : Key, child : Nat]) /\ Len(s) >= 3 /\ k = Promoted(s).key
      /\ l = Inner(LeftHalf(s), left) /\ r = Inner(Tail(RightHalf(s)), Promoted(s).child)
      /\ Fits(l, h[p], R, h) /\ Fits(r, h[p], R, h)
  BY DEF SplitInnerOf, Leads, Ranged
<1>2. PICK d : d = h[p]
  OBVIOUS
<1>3. /\ d # 0 /\ InOrder(Inner(s, left), d, lo[p], hi[p], lo, hi)
      /\ Fits(Inner(LeftHalf(s), left), d, R, h)
      /\ Fits(Inner(Tail(RightHalf(s)), Promoted(s).child), d, R, h)
  BY <1>1, <1>2
<1>4. Cleaves(R, lo, hi, p, n, Promoted(s).key, Inner(LeftHalf(s), left),
              Inner(Tail(RightHalf(s)), Promoted(s).child), d)
  BY <1>1, <1>3, InnerCleaves
<1> QED BY <1>1, <1>2, <1>4

\* So it does while its separator is on the way to its parent ...
LEMMA HalfInnerSorted ==
  ASSUME NEW V, NEW R, NEW h, NEW p, NEW s, NEW left, NEW lo, NEW hi, NEW k, NEW l, NEW r,
         SplitInnerOf(V, R, h, p, s, left, lo, hi, k, l, r), p # Root, NEW n, n \notin R,
         NEW W, W[p] = l, W[n] = r, \A x \in R : x # p => W[x] = V[x],
         NEW g, g[n] = h[p], \A x \in R : g[x] = h[x],
         NEW path, Way(path, R, h), Last(path) = p,
         \A i \in 1..(Len(path) - 1) : IsChild(V, path[i + 1], path[i])
  PROVE  Sorted(W, R \cup {n}, g, ToParent(path, k, n))
<1>1. Cleaves(R, lo, hi, p, n, k, l, r, h[p])
  BY SplitInnerCleaves
<1>2. Leads(V, R, h, p) /\ Ranged(V, R, h, lo, hi, hi)
  BY DEF SplitInnerOf
<1>3. CutInOrder(V, R, h, W, g, lo, hi, p, n, k)
  BY <1>1, <1>2 DEF CutInOrder
<1> QED BY <1>3, SortedHalf

\* ... and under a new root.
LEMMA RootInnerSorted ==
  ASSUME NEW V, NEW R, NEW h, NEW s, NEW left, NEW lo, NEW hi, NEW k, NEW l, NEW r,
         SplitInnerOf(V, R, h, Root, s, left, lo, hi, k, l, r), NEW n, n \notin R, n + 1 \notin R, n # n + 1,
         NEW W, W[n] = l, W[n + 1] = r,
         W[Root] = Inner(<<[key |-> k, child |-> n + 1]>>, n), \A x \in R : x # Root => W[x] = V[x],
         NEW g, g[Root] = h[Root] + 1, g[n] = h[Root], g[n + 1] = h[Root], \A x \in R \ {Root} : g[x] = h[x]
  PROVE  Sorted(W, R \cup {n, n + 1}, g, Nothing)
<1>1. Cleaves(R, lo, hi, Root, n + 1, k, l, r, h[Root])
  BY SplitInnerCleaves
<1>2. Leads(V, R, h, Root) /\ Ranged(V, R, h, lo, hi, hi)
  BY DEF SplitInnerOf
<1>3. RootInOrder(V, R, h, W, g, lo, hi, n, k)
  BY <1>1, <1>2 DEF RootInOrder
<1> QED BY <1>3, SortedRoot

\* The tree with the separator in its parent is in order, all that leads to it as before.
LEMMA PropagateInOrder ==
  ASSUME NEW R, NEW h, Tree(pages, R, h), Owed(climb, R, h), Sorted(pages, R, h, climb),
         NEW path, NEW p, NEW s, NEW left, Propagating(R, h, path, p, Separator, s, left),
         NEW U, U[p] = Inner(s, left), \A x \in R : x # p => U[x] = pages[x]
  PROVE  \E lo, hi : /\ Ranged(U, R, h, lo, hi, hi)
                     /\ \A i \in 1..(Len(path) - 1) : IsChild(U, path[i + 1], path[i])
<1>1. PICK lo, hi, top : Ranged(pages, R, h, lo, hi, top) /\ Divided(pages, climb, lo, hi, top)
  BY DEF Sorted
<1>2. /\ climb # Nothing /\ path = climb.path /\ Way(path, R, h) /\ p = Last(path) /\ p \in R /\ h[p] # 0
      /\ left = pages[p].left /\ Separator \in [key : Key, child : Nat]
      /\ s = InsertAt(pages[p].entries, Separator)
  BY DEF Propagating
<1>3. PICK e : e = Separator
  OBVIOUS
<1>4. e = [key |-> climb.key, child |-> climb.child] /\ e \in [key : Key, child : Nat] /\ s = InsertAt(pages[p].entries, e)
  BY <1>2, <1>3 DEF Separator
<1>5. Ranged(U, R, h, lo, hi, hi)
  BY <1>1, <1>2, <1>4, SortedPaid
<1>6. \A i \in 1..(Len(path) - 1) : IsChild(pages, path[i + 1], path[i])
  BY <1>1, <1>2 DEF Divided
<1>7. \A i \in 1..(Len(path) - 1) : U[path[i]] = pages[path[i]]
  <2>1. h \in [R -> Nat] /\ Root \in R
    BY DEF Tree
  <2>2. \A i \in 1..(Len(path) - 1) : path[i] \in R /\ path[i] # p
    BY <1>2, <2>1, WayApart
  <2> QED BY <2>2
<1>8. \A i \in 1..(Len(path) - 1) : IsChild(U, path[i + 1], path[i])
  BY <1>6, <1>7 DEF IsChild
<1> QED BY <1>5, <1>8

(***************************************************************************)
(* The chain and the order through the steps of an operation.              *)
(***************************************************************************)

Good(V, debt, lower, upper, harm) == \E R, h :
  /\ Tree(V, R, h) /\ Owed(debt, R, h) /\ Chained(V, R, lower, upper)
  /\ harm = {} => Sorted(V, R, h, debt)
\* Until a crash has cut a node in half, the chain is complete in the tree as it will be,
\* and whenever it may crash without that, in the tree as it is.  Their keys are in order
\* as long as no halves of a leaf have shared one either.
ChainInv == "cut" \notin damage =>
  /\ Good(Ahead, climb, stored \cup Due, stored \cup doubtful \cup Due, damage)
  /\ torn \/ Good(pages, Nothing, stored, stored \cup doubtful, damage)

\* The chain in a longer file.
LEMMA ChainedLonger ==
  ASSUME NEW V, NEW R, NEW h, Tree(V, R, h), NEW lower, NEW upper, Chained(V, R, lower, upper),
         NEW U, NEW node, Longer(V, U, node)
  PROVE  Chained(U, R, lower, upper)
<1>1. Len(V) \in Nat /\ R \subseteq 1..Len(V) /\ Len(U) = Len(V) + 1 /\ \A x \in R : U[x] = V[x]
  BY DEF Tree, Longer
<1>2. SameLeaves(V, R, U, R)
  <2>1. Leaves(U, R) = Leaves(V, R) /\ Leaves(V, R) \subseteq R
    BY <1>1 DEF Leaves
  <2>2. Len(U) \in Nat /\ Len(V) <= Len(U)
    BY <1>1
  <2>3. \A x \in Leaves(V, R) : U[x] = V[x]
    BY <1>1, <2>1
  <2> QED BY <1>1, <2>1, <2>2, <2>3 DEF SameLeaves
<1>3. PICK first, place, M : /\ Linked(V, Leaves(V, R), first, place) /\ Leftmost(V, R, M, first)
                             /\ Holds(V, Leaves(V, R), lower, upper)
  BY DEF Chained
<1>4. Linked(U, Leaves(U, R), first, place) /\ Holds(U, Leaves(U, R), lower, upper)
  BY <1>2, <1>3, LinkedSame
<1>5. Leftmost(U, R, M, first)
  <2>1. M \subseteq R
    BY <1>3 DEF Leftmost
  <2> QED BY <1>1, <1>3, <2>1 DEF Leftmost
<1> QED BY <1>4, <1>5 DEF Chained

\* An insertion keeps the chain complete.
LEMMA InsertChained ==
  ASSUME TypeInv, ChainInv, NEW key \in Key, Insert(key)
  PROVE  ChainInv'
<1> SUFFICES ASSUME "cut" \notin damage'
             PROVE  /\ Good(Ahead', climb', stored' \cup Due', stored' \cup doubtful' \cup Due', damage')
                    /\ torn' \/ Good(pages', Nothing, stored', stored' \cup doubtful', damage')
  BY DEF ChainInv
<1>1. /\ todo = <<>> /\ climb = Nothing /\ Due = {} /\ Ahead = pages /\ ~torn /\ TypeOK
  BY IdleTypes DEF Insert, TypeInv, StepOK
<1>2. PICK R, h : Tree(pages, R, h)
  BY IdleTypes DEF Insert
<1>3. PICK path0, p0, s0, next0, operation0 : Inserting(R, h, path0, p0, NewEntry(key), s0, next0, operation0)
  BY <1>2, InsertDoes
<1>4. "cut" \notin damage
  BY <1>3 DEF Inserting
<1>5. Good(pages, Nothing, stored, stored \cup doubtful, damage)
  BY <1>1, <1>4 DEF ChainInv
<1>6. PICK Q, g : /\ Tree(pages, Q, g) /\ Chained(pages, Q, stored, stored \cup doubtful)
                  /\ damage = {} => Sorted(pages, Q, g, Nothing)
  BY <1>5 DEF Good
<1>7. PICK e : e = NewEntry(key)
  OBVIOUS
<1>8. PICK path, p, s, next, operation : Inserting(Q, g, path, p, e, s, next, operation)
  BY <1>6, <1>7, InsertDoes
<1>9. /\ e \in Entry /\ e \notin stored \cup doubtful
      /\ operation.op = "insert" /\ operation.entry = e /\ operation # Nothing
      /\ p \in Q /\ g[p] = 0 /\ p \in 1..Len(pages) /\ p = Last(path)
      /\ pages[p].entries \in Seq(Entry) /\ next = pages[p].next /\ next \in Nat
      /\ s = InsertAt(pages[p].entries, e) /\ s \in Seq(Entry)
  BY <1>8 DEF Inserting, Nothing
<1>10. Len(pages) \in Nat /\ DOMAIN pages = 1..Len(pages) /\ Q \subseteq 1..Len(pages)
  BY <1>6 DEF Tree
<1>11. PICK V : V = [pages EXCEPT ![p] = Leaf(s, next)]
  OBVIOUS
<1>12. /\ Replaced(pages, V, p, Leaf(s, next)) /\ Len(V) = Len(pages) /\ V[p] = Leaf(s, next)
       /\ V[p].entries = s /\ V[p].next = next /\ pages \in Seq(NodeTo(Len(pages) + 1))
  <2>1. pages \in Seq(NodeTo(Len(pages) + 1))
    BY <1>1, TypeMeans DEF Form
  <2>2. Replaced(pages, V, p, Leaf(s, next))
    BY <1>9, <1>11, <2>1, Changed
  <2> QED BY <2>1, <2>2 DEF Replaced, Leaf
<1>13. Tree(V, Q, g)
  <2>1. Leaf(s, next) \in AnyLeaf
    BY <1>9, Nodes
  <2>2. Fits(Leaf(s, next), g[p], Q, g)
    BY <1>9, <2>1 DEF Fits
  <2> QED BY <1>6, <1>9, <1>11, <1>12, <2>2, TreeOne
<1>14. Chained(V, Q, stored \cup {e}, stored \cup doubtful \cup {e})
  <2>1. Keyed(Entry)
    BY EntryFields
  <2>2. e \notin ElementsOf(pages[p].entries) /\ Once(pages[p].entries)
    <3>1. PICK first, place, M : Holds(pages, Leaves(pages, Q), stored, stored \cup doubtful)
      BY <1>6 DEF Chained
    <3>2. p \in Leaves(pages, Q)
      BY <1>6, <1>9, NodeFacts DEF Leaves
    <3> QED BY <1>9, <3>1, <3>2 DEF Holds, Content
  <2>3. ElementsOf(s) = ElementsOf(pages[p].entries) \cup {e} /\ Once(s)
    BY <1>9, <2>1, <2>2, InsertAtKeeps
  <2> DEFINE lower == stored
             upper == stored \cup doubtful
             more == {e}
             less == {}
  <2>4. ElementsOf(s) = (Content(pages, p) \cup more) \ less /\ more \cap upper = {}
    BY <1>9, <2>3 DEF Content
  <2>5. less \cap upper \subseteq Content(pages, p)
    OBVIOUS
  <2>6. Replaced(pages, V, p, Leaf(s, pages[p].next))
    BY <1>9, <1>12
  <2> HIDE DEF lower, upper, more, less
  <2>7. Chained(pages, Q, lower, upper)
    BY <1>6 DEF lower, upper
  <2>8. Chained(V, Q, (lower \cup more) \ less, (upper \cup more) \ less)
    BY <1>6, <1>9, <2>3, <2>4, <2>5, <2>6, <2>7, ChainedRewritten
  <2>9. (lower \cup more) \ less = stored \cup {e} /\ (upper \cup more) \ less = stored \cup doubtful \cup {e}
    BY DEF lower, upper, more, less
  <2> QED BY <2>8, <2>9
<1>18. damage' = {} => /\ Sorted(pages, Q, g, Nothing)
                       /\ NodeFull(s, LeafCap) => Last(LeftHalf(s)).key # Promoted(s).key
  BY <1>6, <1>8 DEF Inserting
<1>19. ASSUME damage' = {}
       PROVE  \E lo, hi : /\ Ranged(V, Q, g, lo, hi, hi)
                          /\ \A i \in 1..(Len(path) - 1) : IsChild(V, path[i + 1], path[i])
  <2>1. PICK lo, hi : Ranged(pages, Q, g, lo, hi, hi)
    BY <1>18, <1>19, SortedWhole
  <2>2. /\ Searched(Q, g, e.key, path) /\ Way(path, Q, g) /\ p = Last(path) /\ p \in Q /\ g[p] = 0
        /\ s = InsertAt(pages[p].entries, e)
    BY <1>8 DEF Inserting
  <2>3. V[p] = Leaf(s, pages[p].next) /\ \A x \in Q : x # p => V[x] = pages[x]
    BY <1>9, <1>10, <1>12 DEF Replaced
  <2>4. EntryAdded(Q, g, lo, hi, e, path, p, s, V)
    BY <1>6, <1>9, <2>1, <2>2, <2>3 DEF EntryAdded
  <2>5. WayKept(V, Q, g, lo, hi, path)
    BY <2>4, InsertInOrder
  <2> QED BY <2>5 DEF WayKept
<1>20. Leads(V, Q, g, p)
  BY <1>13, <1>14, <1>9, TreeLeads
<1>15. CASE WritesOne(Q, g, p, Leaf(s, next), operation)
  <2>1. OneWritten(Q, g, p, Leaf(s, next), operation)
    BY <1>1, <1>6, <1>15, WriteOneTree
  <2>2. /\ pages' = V /\ Ahead' = V /\ climb' = Nothing /\ pending' = Nothing /\ Tree(V, Q, g)
        /\ stored' = stored \cup {e} /\ doubtful' = doubtful \ {e}
    BY <1>9, <1>11, <2>1 DEF OneWritten
  <2>3. Due' = {}
    BY <2>2 DEF Due, Idle
  <2>4. stored' \cup doubtful' = stored \cup doubtful \cup {e}
    BY <2>2
  <2>7. damage' = {} => Sorted(V, Q, g, Nothing)
    BY <1>19, SortedWhole
  <2>5. Good(V, Nothing, stored', stored' \cup doubtful', damage')
    BY <1>14, <2>2, <2>4, <2>7 DEF Good, Owed
  <2>6. stored' \cup Due' = stored' /\ stored' \cup doubtful' \cup Due' = stored' \cup doubtful'
    BY <2>3
  <2> QED BY <2>2, <2>5, <2>6
<1>16. CASE /\ NodeFull(s, LeafCap) /\ Len(s) >= 2 /\ p = Root
            /\ WritesRoots(Q, g, Leaf(LeftHalf(s), Len(pages) + 2), Leaf(RightHalf(s), next),
                           Promoted(s).key, operation)
  <2> DEFINE n == Len(pages) + 1
             left == Leaf(LeftHalf(s), n + 1)
             right == Leaf(RightHalf(s), next)
             root == Inner(<<[key |-> Promoted(s).key, child |-> n + 1]>>, n)
             d == RootHeights(Q, g, n)
  <2>1. n + 1 = Len(pages) + 2 /\ ~root.leaf /\ root.left = n
    BY <1>10 DEF Inner
  <2>2. RootsWritten(Q, g, left, right, Promoted(s).key, operation, n, root, d)
    <3>1. WritesRoots(Q, g, left, right, Promoted(s).key, operation)
      BY <1>16, <2>1
    <3> HIDE DEF left, right
    <3> QED BY <1>1, <1>6, <3>1, WriteRootsTree
  <2> HIDE DEF n, left, right, root, d
  <2>3. /\ climb' = Nothing /\ pending' = operation /\ stored' = stored /\ doubtful' = doubtful
        /\ Longer(pages, pages', left) /\ Tree(pages', Q, g)
        /\ Sprouted(pages, Ahead', n, left, right, root) /\ Tree(Ahead', Q \cup {n, n + 1}, d)
    BY <2>2 DEF RootsWritten, RootTree
  <2>4. Due' = {e}
    BY <1>9, <2>3 DEF Due, Idle
  <2>5. Sprouted(V, Ahead', n, Leaf(LeftHalf(V[Root].entries), n + 1), Leaf(RightHalf(V[Root].entries), V[Root].next), root)
    <3>1. Sprouted(V, Ahead', n, left, right, root)
      BY <1>12, <1>16, <2>3 DEF Sprouted, Replaced
    <3> QED BY <1>12, <1>16, <3>1 DEF left, right
  <2>6. Chained(Ahead', Q \cup {n, n + 1}, stored \cup {e}, stored \cup doubtful \cup {e})
    <3>1. g[Root] = 0 /\ Len(V[Root].entries) >= 2
      BY <1>9, <1>12, <1>16
    <3> QED BY <1>13, <1>14, <2>1, <2>5, <3>1, ChainedRootLeaf
  <2>10. damage' = {} => Sorted(Ahead', Q \cup {n, n + 1}, d, Nothing)
    <3> SUFFICES ASSUME damage' = {} PROVE Sorted(Ahead', Q \cup {n, n + 1}, d, Nothing)
      OBVIOUS
    <3>1. PICK lo, hi : Ranged(V, Q, g, lo, hi, hi)
      BY <1>19
    <3>2. SplitLeafOf(V, Q, g, Root, s, next, lo, hi, Promoted(s).key)
      BY <1>9, <1>12, <1>16, <1>18, <1>20, <3>1 DEF SplitLeafOf
    <3>3. /\ n \notin Q /\ n + 1 \notin Q /\ n # n + 1
          /\ d[Root] = g[Root] + 1 /\ d[n] = g[Root] /\ d[n + 1] = g[Root]
          /\ \A x \in Q \ {Root} : d[x] = g[x]
      BY <1>10, <2>2 DEF RootsWritten, RootTree
    <3>4. /\ Ahead'[n] = Leaf(LeftHalf(s), n + 1) /\ Ahead'[n + 1] = Leaf(RightHalf(s), next)
          /\ Ahead'[Root] = Inner(<<[key |-> Promoted(s).key, child |-> n + 1]>>, n)
      BY <2>3 DEF Sprouted, left, right, root
    <3>5. \A x \in Q : x # Root => Ahead'[x] = V[x]
      BY <1>10, <1>12, <1>16, <2>3 DEF Sprouted, Replaced
    <3> QED BY <3>2, <3>3, <3>4, <3>5, RootLeafSorted
  <2>7. Good(Ahead', Nothing, stored \cup {e}, stored \cup doubtful \cup {e}, damage')
    BY <2>3, <2>6, <2>10 DEF Good, Owed
  <2>8. Chained(pages', Q, stored, stored \cup doubtful)
    BY <1>6, <2>3, ChainedLonger
  <2>11. damage' = {} => Sorted(pages', Q, g, Nothing)
    <3>1. \A x \in Q : pages'[x] = pages[x]
      BY <1>10, <2>3 DEF Longer
    <3> QED BY <1>18, <3>1, SortedSame
  <2>9. Good(pages', Nothing, stored, stored \cup doubtful, damage')
    BY <2>3, <2>8, <2>11 DEF Good, Owed
  <2> QED BY <2>3, <2>4, <2>7, <2>9
<1>17. CASE /\ NodeFull(s, LeafCap) /\ Len(s) >= 2 /\ p # Root
            /\ WritesHalf(Q, g, path, Leaf(LeftHalf(s), Len(pages) + 1), Leaf(RightHalf(s), next),
                          Promoted(s).key, operation)
  <2> DEFINE n == Len(pages) + 1
             left == Leaf(LeftHalf(s), n)
             right == Leaf(RightHalf(s), next)
             d == HalfHeights(Q, g, n, p)
  <2>1. HalfWritten(Q, g, p, left, right, path, Promoted(s).key, operation, n, d)
    <3>1. WritesHalf(Q, g, path, left, right, Promoted(s).key, operation)
      BY <1>17
    <3> HIDE DEF left, right
    <3> QED BY <1>1, <1>6, <1>9, <3>1, WriteHalfTree
  <2>2. n = Len(V) + 1
    BY <1>12
  <2> HIDE DEF n, left, right, d
  <2>3. /\ pending' = operation /\ torn' = TRUE /\ stored' = stored /\ doubtful' = doubtful
        /\ Replaced(pages, pages', p, left) /\ Longer(pages', Ahead', right)
        /\ Tree(Ahead', Q \cup {n}, d) /\ Owed(climb', Q \cup {n}, d)
    BY <2>1 DEF HalfWritten, HalfTree
  <2>4. Due' = {e}
    BY <1>9, <2>3 DEF Due, Idle
  <2>5. /\ Replaced(V, pages', p, Leaf(LeftHalf(V[p].entries), n))
        /\ Longer(pages', Ahead', Leaf(RightHalf(V[p].entries), V[p].next))
    <3>1. Replaced(V, pages', p, left)
      BY <1>12, <2>3 DEF Replaced
    <3> QED BY <1>12, <2>3, <3>1 DEF left, right
  <2>6. Chained(Ahead', Q \cup {n}, stored \cup {e}, stored \cup doubtful \cup {e})
    <3>1. Len(V[p].entries) >= 2
      BY <1>12, <1>17
    <3> QED BY <1>9, <1>13, <1>14, <2>2, <2>5, <3>1, ChainedHalfLeaf
  <2>8. damage' = {} => Sorted(Ahead', Q \cup {n}, d, climb')
    <3> SUFFICES ASSUME damage' = {} PROVE Sorted(Ahead', Q \cup {n}, d, climb')
      OBVIOUS
    <3>1. PICK lo, hi : /\ Ranged(V, Q, g, lo, hi, hi)
                        /\ \A i \in 1..(Len(path) - 1) : IsChild(V, path[i + 1], path[i])
      BY <1>19
    <3>2. SplitLeafOf(V, Q, g, p, s, next, lo, hi, Promoted(s).key)
      BY <1>9, <1>12, <1>17, <1>18, <1>20, <3>1 DEF SplitLeafOf
    <3>3. n \notin Q /\ d[n] = g[p] /\ \A x \in Q : d[x] = g[x]
      BY <2>1 DEF HalfWritten, HalfTree
    <3>4. /\ Ahead'[p] = Leaf(LeftHalf(s), n) /\ Ahead'[n] = Leaf(RightHalf(s), next)
          /\ \A x \in Q : x # p => Ahead'[x] = V[x]
      <4>1. /\ pages'[p] = left /\ \A x \in 1..Len(pages) : x # p => pages'[x] = pages[x]
            /\ Len(pages') = Len(pages)
        BY <2>3 DEF Replaced
      <4>2. Ahead'[Len(pages') + 1] = right /\ \A x \in 1..Len(pages') : Ahead'[x] = pages'[x]
        BY <2>3 DEF Longer
      <4>3. Ahead'[p] = left /\ Ahead'[n] = right
        BY <1>9, <4>1, <4>2 DEF n
      <4>4. \A x \in Q : x # p => Ahead'[x] = V[x]
        BY <1>10, <1>12, <4>1, <4>2 DEF Replaced
      <4> QED BY <4>3, <4>4 DEF left, right
    <3>5. climb' = ToParent(path, Promoted(s).key, n)
      BY <2>1 DEF HalfWritten
    <3>6. Way(path, Q, g) /\ Last(path) = p
      BY <1>8 DEF Inserting
    <3>7. Sorted(Ahead', Q \cup {n}, d, ToParent(path, Promoted(s).key, n))
      BY <1>17, <3>1, <3>2, <3>3, <3>4, <3>6, HalfLeafSorted
    <3> QED BY <3>5, <3>7
  <2>7. Good(Ahead', climb', stored \cup {e}, stored \cup doubtful \cup {e}, damage')
    BY <2>3, <2>6, <2>8 DEF Good
  <2> QED BY <2>3, <2>4, <2>7
<1> QED BY <1>8, <1>15, <1>16, <1>17 DEF Inserting

\* What a deletion leaves behind is that leaf without the entry.
LEMMA DeleteLeaves ==
  ASSUME NEW s \in Seq(Entry), NEW e \in Entry, NEW kept, kept = Only(Entry \ {e}, s), kept # s
  PROVE  /\ kept \in Seq(Entry) /\ e \in ElementsOf(s) /\ ElementsOf(kept) = ElementsOf(s) \ {e}
         /\ Once(s) => Once(kept)
<1>1. kept \in Seq(Entry) /\ ElementsOf(kept) = ElementsOf(s) \cap (Entry \ {e}) /\ (Once(s) => Once(kept))
  BY OnlyFacts
<1>2. ElementsOf(s) \subseteq Entry
  BY DEF ElementsOf
<1>3. e \in ElementsOf(s)
  <2>1. SUFFICES ASSUME e \notin ElementsOf(s) PROVE FALSE
    OBVIOUS
  <2>2. ElementsOf(s) \subseteq Entry \ {e}
    BY <1>2, <2>1
  <2>3. Only(Entry \ {e}, s) = s
    BY <2>2, OnlyAll
  <2> QED BY <2>3
<1> QED BY <1>1, <1>2, <1>3

\* A deletion keeps the chain complete.
LEMMA DeleteChained ==
  ASSUME TypeInv, ChainInv, NEW e \in stored \cup doubtful, Delete(e)
  PROVE  ChainInv'
<1> SUFFICES ASSUME "cut" \notin damage'
             PROVE  /\ Good(Ahead', climb', stored' \cup Due', stored' \cup doubtful' \cup Due', damage')
                    /\ torn' \/ Good(pages', Nothing, stored', stored' \cup doubtful', damage')
  BY DEF ChainInv
<1>1. /\ todo = <<>> /\ climb = Nothing /\ Due = {} /\ Ahead = pages /\ ~torn /\ TypeOK
  BY IdleTypes DEF Delete, TypeInv, StepOK
<1>2. damage' = damage
  BY DEF Delete
<1>3. Good(pages, Nothing, stored, stored \cup doubtful, damage)
  BY <1>1, <1>2 DEF ChainInv
<1>4. PICK Q, g : /\ Tree(pages, Q, g) /\ Chained(pages, Q, stored, stored \cup doubtful)
                  /\ damage = {} => Sorted(pages, Q, g, Nothing)
  BY <1>3 DEF Good
<1>5. PICK path, p, kept, next, operation : Deleting(Q, g, path, p, e, kept, next, operation)
  BY <1>4, DeleteDoes
<1>6. /\ e \in Entry /\ operation.op = "delete" /\ operation.op # "insert" /\ operation.entry = e
      /\ p \in Q /\ g[p] = 0
      /\ pages[p].entries \in Seq(Entry) /\ next = pages[p].next
      /\ kept = Only(Entry \ {e}, pages[p].entries) /\ kept # pages[p].entries
      /\ WritesOne(Q, g, p, Leaf(kept, next), operation)
  BY <1>5 DEF Deleting
<1>7. OneWritten(Q, g, p, Leaf(kept, next), operation)
  BY <1>1, <1>4, <1>6, WriteOneTree
<1>8. /\ Ahead' = pages' /\ climb' = Nothing /\ pending' = Nothing /\ Tree(pages', Q, g)
      /\ Replaced(pages, pages', p, Leaf(kept, pages[p].next))
      /\ stored' = stored \ {e} /\ doubtful' = doubtful \ {e}
  BY <1>6, <1>7 DEF OneWritten
<1>9. Due' = {}
  BY <1>8 DEF Due, Idle
<1>10. Once(pages[p].entries)
  <2>1. PICK first, place, M : Holds(pages, Leaves(pages, Q), stored, stored \cup doubtful)
    BY <1>4 DEF Chained
  <2>2. p \in Leaves(pages, Q)
    BY <1>4, <1>6, NodeFacts DEF Leaves
  <2> QED BY <2>1, <2>2 DEF Holds
<1>11. /\ e \in ElementsOf(pages[p].entries) /\ ElementsOf(kept) = ElementsOf(pages[p].entries) \ {e}
       /\ Once(kept)
  BY <1>6, <1>10, DeleteLeaves
<1>12. Chained(pages', Q, stored \ {e}, (stored \cup doubtful) \ {e})
  <2> DEFINE lower == stored
             upper == stored \cup doubtful
             more == {}
             less == {e}
  <2>1. /\ ElementsOf(kept) = (Content(pages, p) \cup more) \ less /\ more \cap upper = {}
        /\ less \cap upper \subseteq Content(pages, p)
    BY <1>11 DEF Content
  <2> HIDE DEF lower, upper, more, less
  <2>2. Chained(pages, Q, lower, upper)
    BY <1>4 DEF lower, upper
  <2>3. Chained(pages', Q, (lower \cup more) \ less, (upper \cup more) \ less)
    BY <1>4, <1>6, <1>8, <1>11, <2>1, <2>2, ChainedRewritten
  <2>4. (lower \cup more) \ less = stored \ {e} /\ (upper \cup more) \ less = (stored \cup doubtful) \ {e}
    BY DEF lower, upper, more, less
  <2> QED BY <2>3, <2>4
<1>13. stored' = stored \ {e} /\ stored' \cup doubtful' = (stored \cup doubtful) \ {e}
  BY <1>8
<1>16. damage' = {} => Sorted(pages', Q, g, Nothing)
  <2> SUFFICES ASSUME damage = {} PROVE Sorted(pages', Q, g, Nothing)
    BY <1>2
  <2>1. PICK lo, hi : Ranged(pages, Q, g, lo, hi, hi)
    BY <1>4, SortedWhole
  <2>2. InOrder(pages[p], 0, lo[p], hi[p], lo, hi)
    BY <1>6, <2>1 DEF Ranged
  <2>3. Ascending(kept)
    <3>1. Ascending(pages[p].entries) /\ Keyed(Entry)
      BY <2>2, EntryFields DEF InOrder
    <3> QED BY <1>6, <3>1, OnlyFacts
  <2>4. \A x \in ElementsOf(kept) : lo[p] <= x.key /\ x.key < hi[p]
    BY <1>11, <2>2 DEF InOrder
  <2>5. pages'[p] = Leaf(kept, pages[p].next) /\ \A x \in Q : x # p => pages'[x] = pages[x]
    BY <1>4, <1>8 DEF Replaced, Tree
  <2>6. Ranged(pages', Q, g, lo, hi, hi)
    BY <1>4, <1>6, <2>1, <2>3, <2>4, <2>5, LeafInOrder
  <2> QED BY <2>6, SortedWhole
<1>14. Good(pages', Nothing, stored', stored' \cup doubtful', damage')
  BY <1>8, <1>12, <1>13, <1>16 DEF Good, Owed
<1>15. stored' \cup Due' = stored' /\ stored' \cup doubtful' \cup Due' = stored' \cup doubtful'
  BY <1>9
<1> QED BY <1>8, <1>14, <1>15

\* Taking a separator to the parent leaves the chain as it was.
LEMMA PropagateChained ==
  ASSUME TypeInv, ChainInv, Propagate
  PROVE  ChainInv'
<1> DEFINE lower == stored \cup Due
           upper == stored \cup doubtful \cup Due
<1> SUFFICES ASSUME "cut" \notin damage'
             PROVE  /\ Good(Ahead', climb', stored' \cup Due', stored' \cup doubtful' \cup Due', damage')
                    /\ torn' \/ Good(pages', Nothing, stored', stored' \cup doubtful', damage')
  BY DEF ChainInv
<1>1. "cut" \notin damage /\ TypeOK /\ Ahead = pages
  BY DEF Propagate, TypeInv, Ahead
<1>2. Good(pages, climb, lower, upper, damage)
  BY <1>1 DEF ChainInv
<1>3. PICK R, h : /\ Tree(pages, R, h) /\ Owed(climb, R, h) /\ Chained(pages, R, lower, upper)
                  /\ damage = {} => Sorted(pages, R, h, climb)
  BY <1>2 DEF Good
<1>4. PICK path, p, s, left : Propagating(R, h, path, p, Separator, s, left)
  BY <1>3, PropagateDoes
<1>5. /\ torn /\ Due = {pending.entry} /\ pending.op = "insert" /\ pending # Nothing
      /\ pending.entry \notin stored \cup doubtful
      /\ Way(path, R, h) /\ p = Last(path) /\ p \in R /\ h[p] # 0 /\ left = pages[p].left
  BY <1>1, <1>4, IdleTypes DEF Propagating, Nothing, TypeInv, StepOK, Idle
<1>6. /\ Len(pages) \in Nat /\ R \subseteq 1..Len(pages) /\ Root \in R /\ ~pages[p].leaf /\ h[p] \in Nat
  BY <1>3, <1>5, NodeFacts DEF Tree
<1>7. ~pages[Root].leaf
  <2>1. path \in Seq(R) /\ path # <<>> /\ \A i \in 1..Len(path) : h[path[i]] = h[Root] + 1 - i
    BY <1>5 DEF Way
  <2>2. Len(path) \in 1..Len(path) /\ Len(path) \in Nat /\ Len(path) >= 1
    BY <2>1
  <2>3. h[p] = h[Root] + 1 - Len(path)
    BY <1>5, <2>1, <2>2 DEF Last
  <2>4. h[Root] \in Nat
    BY <1>3 DEF Tree
  <2>5. h[Root] # 0
    BY <1>5, <1>6, <2>2, <2>3, <2>4
  <2> QED BY <1>3, <1>6, <2>5, NodeFacts
<1> HIDE DEF lower, upper
<1>13. damage' = damage
  BY DEF Propagate
<1>14. PICK V : V = [pages EXCEPT ![p] = Inner(s, left)]
  OBVIOUS
<1>15. V[p] = Inner(s, left) /\ \A x \in R : x # p => V[x] = pages[x]
  BY <1>3, <1>5, <1>14 DEF Tree
<1>16. ASSUME damage' = {} PROVE \E lo, hi : WayKept(V, R, h, lo, hi, path)
  <2>1. Sorted(pages, R, h, climb)
    BY <1>3, <1>13, <1>16
  <2>2. \E lo, hi : /\ Ranged(V, R, h, lo, hi, hi)
                     /\ \A i \in 1..(Len(path) - 1) : IsChild(V, path[i + 1], path[i])
    BY <1>3, <1>4, <1>15, <2>1, PropagateInOrder
  <2> QED BY <2>2 DEF WayKept
<1>17. Leads(V, R, h, p)
  BY <1>3, <1>5, <1>15, TreeLeads
<1>8. CASE WritesOne(R, h, p, Inner(s, left), pending)
  <2>1. OneWritten(R, h, p, Inner(s, left), pending)
    BY <1>1, <1>3, <1>8, WriteOneTree
  <2>2. /\ Ahead' = pages' /\ climb' = Nothing /\ pending' = Nothing /\ Tree(pages', R, h)
        /\ Replaced(pages, pages', p, Inner(s, left))
        /\ stored' = stored \cup {pending.entry} /\ doubtful' = doubtful \ {pending.entry}
    BY <1>5, <2>1 DEF OneWritten
  <2>3. /\ Len(pages') = Len(pages) /\ pages'[p].leaf = FALSE /\ pages'[p].left = pages[p].left
        /\ \A x \in R : x # p => pages'[x] = pages[x]
    BY <1>5, <1>6, <2>2 DEF Replaced, Inner
  <2>4. SameLeaves(pages, R, pages', R)
    <3>1. Leaves(pages', R) = Leaves(pages, R)
      BY <1>6, <2>3 DEF Leaves
    <3>2. \A x \in Leaves(pages, R) : pages'[x] = pages[x]
      BY <1>6, <2>3 DEF Leaves
    <3> QED BY <1>6, <2>3, <3>1, <3>2 DEF SameLeaves
  <2>5. InnerOnly(pages, R, pages', R)
    <3>1. \A x \in R : pages'[x].leaf = pages[x].leaf /\ (~pages[x].leaf => pages'[x].left = pages[x].left)
      <4>1. pages[p].leaf = FALSE
        BY <1>3, <1>5, <1>6, NodeFacts
      <4> QED BY <2>3, <4>1
    <3> QED BY <1>6, <1>7, <2>4, <3>1 DEF InnerOnly
  <2>6. Chained(pages', R, lower, upper)
    BY <1>3, <2>5, ChainedInner
  <2>7. Due' = {}
    BY <2>2 DEF Due, Idle
  <2>8. /\ stored' = lower /\ stored' \cup doubtful' = upper
        /\ stored' \cup Due' = lower /\ stored' \cup doubtful' \cup Due' = upper
    BY <1>5, <2>2, <2>7 DEF lower, upper
  <2>9. damage' = {} => Sorted(pages', R, h, Nothing)
    <3>1. pages' = V
      BY <1>14, <2>1 DEF OneWritten
    <3> QED BY <1>16, <3>1, SortedWhole DEF WayKept
  <2> QED BY <2>2, <2>6, <2>8, <2>9 DEF Good, Owed
<1> DEFINE l == Inner(LeftHalf(s), left)
           r == Inner(Tail(RightHalf(s)), Promoted(s).child)
           n == Len(pages) + 1
<1>9. ~l.leaf /\ ~r.leaf /\ l.leaf = FALSE /\ l.left = left
  BY DEF Inner
<1>10. n \notin R /\ n + 1 \notin R /\ n # n + 1 /\ n \in Nat /\ n # Root /\ n + 1 # Root
  BY <1>6
<1>18. s \in Seq([key : Key, child : Nat])
  BY <1>4, EntryFields, InsertAtFacts DEF Propagating
<1>11. CASE p = Root /\ Len(s) >= 3 /\ WritesRoots(R, h, l, r, Promoted(s).key, pending)
  <2> DEFINE root == Inner(<<[key |-> Promoted(s).key, child |-> n + 1]>>, n)
             d == RootHeights(R, h, n)
             Q == R \cup {n, n + 1}
  <2>1. ~root.leaf /\ root.left = n
    BY DEF Inner
  <2>11. Fits(l, h[p], R, h) /\ Fits(r, h[p], R, h)
    BY <1>11 DEF WritesRoots, Fine
  <2>12. ASSUME NEW lo, NEW hi, Ranged(V, R, h, lo, hi, hi)
         PROVE  SplitInnerOf(V, R, h, Root, s, left, lo, hi, Promoted(s).key, l, r)
    BY <1>5, <1>11, <1>15, <1>17, <1>18, <2>11, <2>12 DEF SplitInnerOf
  <2> HIDE DEF l, r
  <2>2. RootsWritten(R, h, l, r, Promoted(s).key, pending, n, root, d)
    BY <1>1, <1>3, <1>11, WriteRootsTree
  <2> HIDE DEF n, root, d
  <2>3. /\ climb' = Nothing /\ pending' = pending /\ torn' = torn /\ stored' = stored /\ doubtful' = doubtful
        /\ Sprouted(pages, Ahead', n, l, r, root) /\ Tree(Ahead', Q, d)
    BY <2>2 DEF RootsWritten, RootTree
  <2>4. Due' = Due
    BY <2>3 DEF Due, Idle
  <2>5. /\ Len(Ahead') = n + 1 /\ Ahead'[n] = l /\ Ahead'[n + 1] = r /\ Ahead'[Root] = root
        /\ \A x \in R : x # Root => Ahead'[x] = pages[x]
    BY <1>6, <2>3 DEF Sprouted
  <2>6. SameLeaves(pages, R, Ahead', Q)
    <3>1. Leaves(Ahead', Q) = Leaves(pages, R)
      BY <1>6, <1>7, <1>9, <2>1, <2>5 DEF Leaves
    <3>2. \A x \in Leaves(pages, R) : Ahead'[x] = pages[x]
      BY <1>7, <2>5 DEF Leaves
    <3>3. Len(Ahead') \in Nat /\ Len(pages) <= Len(Ahead')
      BY <1>6, <2>5 DEF n
    <3> QED BY <1>6, <3>1, <3>2, <3>3 DEF SameLeaves
  <2>7. InnerOnly(pages, R, Ahead', Q)
    <3>1. Ahead'[Root].left = n /\ ~Ahead'[Root].leaf /\ ~Ahead'[n].leaf /\ Ahead'[n].left = pages[Root].left
      BY <1>5, <1>9, <1>11, <2>1, <2>5
    <3>2. n \in Q /\ n \notin R /\ R \subseteq Q
      BY <1>10
    <3> QED BY <1>7, <2>5, <2>6, <3>1, <3>2 DEF InnerOnly
  <2>8. Chained(Ahead', Q, lower, upper)
    BY <1>3, <2>7, ChainedInner
  <2>13. damage' = {} => Sorted(Ahead', Q, d, Nothing)
    <3> SUFFICES ASSUME damage' = {} PROVE Sorted(Ahead', Q, d, Nothing)
      OBVIOUS
    <3>1. PICK lo, hi : Ranged(V, R, h, lo, hi, hi)
      BY <1>16 DEF WayKept
    <3>2. SplitInnerOf(V, R, h, Root, s, left, lo, hi, Promoted(s).key, l, r)
      BY <2>12, <3>1
    <3>3. /\ d[Root] = h[Root] + 1 /\ d[n] = h[Root] /\ d[n + 1] = h[Root]
          /\ \A x \in R \ {Root} : d[x] = h[x]
      BY <2>2 DEF RootsWritten, RootTree
    <3>4. Ahead'[Root] = Inner(<<[key |-> Promoted(s).key, child |-> n + 1]>>, n)
      BY <2>5 DEF root
    <3>5. \A x \in R : x # Root => Ahead'[x] = V[x]
      BY <1>11, <1>15, <2>5
    <3> QED BY <1>10, <2>5, <3>2, <3>3, <3>4, <3>5, RootInnerSorted
  <2>9. Good(Ahead', climb', lower, upper, damage')
    BY <2>3, <2>8, <2>13 DEF Good, Owed
  <2>10. stored' \cup Due' = lower /\ stored' \cup doubtful' \cup Due' = upper
    BY <2>3, <2>4 DEF lower, upper
  <2> QED BY <1>5, <2>3, <2>9, <2>10
<1>12. CASE p # Root /\ Len(s) >= 3 /\ WritesHalf(R, h, path, l, r, Promoted(s).key, pending)
  <2> DEFINE d == HalfHeights(R, h, n, p)
             Q == R \cup {n}
  <2>10. Fits(l, h[p], R, h) /\ Fits(r, h[p], R, h)
    BY <1>5, <1>12 DEF WritesHalf, Fine
  <2>11. ASSUME NEW lo, NEW hi, Ranged(V, R, h, lo, hi, hi)
         PROVE  SplitInnerOf(V, R, h, p, s, left, lo, hi, Promoted(s).key, l, r)
    BY <1>5, <1>12, <1>15, <1>17, <1>18, <2>10, <2>11 DEF SplitInnerOf
  <2> HIDE DEF l, r
  <2>1. HalfWritten(R, h, p, l, r, path, Promoted(s).key, pending, n, d)
    BY <1>1, <1>3, <1>5, <1>12, WriteHalfTree
  <2> HIDE DEF d
  <2>2. /\ pending' = pending /\ torn' = TRUE /\ stored' = stored /\ doubtful' = doubtful
        /\ Replaced(pages, pages', p, l) /\ Longer(pages', Ahead', r)
        /\ Tree(Ahead', Q, d) /\ Owed(climb', Q, d)
    BY <2>1 DEF HalfWritten, HalfTree
  <2>3. Due' = Due
    BY <2>2 DEF Due, Idle
  <2>4. /\ Len(Ahead') = n /\ Ahead'[n] = r /\ Ahead'[p] = l
        /\ \A x \in R : x # p => Ahead'[x] = pages[x]
    BY <1>5, <1>6, <1>10, <2>2 DEF Replaced, Longer
  <2>5. SameLeaves(pages, R, Ahead', Q)
    <3>1. Leaves(Ahead', Q) = Leaves(pages, R)
      BY <1>5, <1>6, <1>9, <2>4 DEF Leaves
    <3>2. \A x \in Leaves(pages, R) : Ahead'[x] = pages[x]
      BY <1>6, <2>4 DEF Leaves
    <3>3. Len(Ahead') \in Nat /\ Len(pages) <= Len(Ahead')
      BY <1>6, <2>4
    <3> QED BY <1>6, <3>1, <3>2, <3>3 DEF SameLeaves
  <2>6. InnerOnly(pages, R, Ahead', Q)
    <3>1. \A x \in R : Ahead'[x].leaf = pages[x].leaf /\ (~pages[x].leaf => Ahead'[x].left = pages[x].left)
      <4>1. pages[p].leaf = FALSE
        BY <1>3, <1>5, <1>6, NodeFacts
      <4> QED BY <1>5, <1>9, <2>4, <4>1
    <3>2. R \subseteq Q
      OBVIOUS
    <3> QED BY <1>6, <1>7, <2>5, <3>1, <3>2 DEF InnerOnly
  <2>7. Chained(Ahead', Q, lower, upper)
    BY <1>3, <2>6, ChainedInner
  <2>12. damage' = {} => Sorted(Ahead', Q, d, climb')
    <3> SUFFICES ASSUME damage' = {} PROVE Sorted(Ahead', Q, d, climb')
      OBVIOUS
    <3>1. PICK lo, hi : WayKept(V, R, h, lo, hi, path)
      BY <1>16
    <3>2. SplitInnerOf(V, R, h, p, s, left, lo, hi, Promoted(s).key, l, r)
      BY <2>11, <3>1 DEF WayKept
    <3>3. d[n] = h[p] /\ (\A x \in R : d[x] = h[x]) /\ climb' = ToParent(path, Promoted(s).key, n)
      BY <2>1 DEF HalfWritten, HalfTree
    <3>4. \A x \in R : x # p => Ahead'[x] = V[x]
      BY <1>15, <2>4
    <3>5. \A i \in 1..(Len(path) - 1) : IsChild(V, path[i + 1], path[i])
      BY <3>1 DEF WayKept
    <3>6. Sorted(Ahead', Q, d, ToParent(path, Promoted(s).key, n))
      BY <1>5, <1>10, <1>12, <2>4, <3>2, <3>3, <3>4, <3>5, HalfInnerSorted
    <3> QED BY <3>3, <3>6
  <2>8. Good(Ahead', climb', lower, upper, damage')
    BY <2>2, <2>7, <2>12 DEF Good
  <2>9. stored' \cup Due' = lower /\ stored' \cup doubtful' \cup Due' = upper
    BY <2>2, <2>3 DEF lower, upper
  <2> QED BY <2>2, <2>8, <2>9
<1> QED BY <1>4, <1>8, <1>11, <1>12 DEF Propagating

\* The next page of a split leads to the same chain.
LEMMA ContinueChained ==
  ASSUME TypeInv, ChainInv, Continue
  PROVE  ChainInv'
<1> SUFFICES ASSUME "cut" \notin damage'
             PROVE  /\ Good(Ahead', climb', stored' \cup Due', stored' \cup doubtful' \cup Due', damage')
                    /\ torn' \/ Good(pages', Nothing, stored', stored' \cup doubtful', damage')
  BY DEF ChainInv
<1>1. TypeOK /\ StepOK /\ Shape(pages, Nothing)
  BY DEF TypeInv
<1>2. /\ Ahead' = Ahead /\ climb' = climb
      /\ \/ /\ Len(todo) = 1 /\ todo' = <<>> /\ climb # Nothing /\ pages' = Append(pages, todo[1].node)
         \/ /\ Len(todo) = 1 /\ todo' = <<>> /\ climb = Nothing
            /\ pages' = [pages EXCEPT ![Root] = todo[1].node] /\ pending' = Nothing
         \/ /\ Len(todo) = 2 /\ todo' = <<todo[2]>> /\ pages' = Append(pages, todo[1].node)
      /\ IF Len(todo) = 1 /\ climb = Nothing
           THEN /\ pending' = Nothing /\ torn' = FALSE
                /\ stored' = stored \cup {pending.entry} /\ doubtful' = doubtful \ {pending.entry}
           ELSE /\ pending' = pending /\ stored' = stored /\ doubtful' = doubtful
                /\ torn' = (torn \/ climb # Nothing)
      /\ UNCHANGED <<used, upsets, damage>>
  BY <1>1, WriteNext
<1>3. /\ Good(Ahead, climb, stored \cup Due, stored \cup doubtful \cup Due, damage)
      /\ torn \/ Good(pages, Nothing, stored, stored \cup doubtful, damage)
      /\ damage' = damage
  BY <1>2 DEF ChainInv
<1>4. ~Idle /\ Due = {pending.entry} /\ torn \in BOOLEAN
  BY <1>1, TypeMeans DEF StepOK, Continue, Due, Rest
<1>5. CASE Len(todo) = 1 /\ climb = Nothing
  <2>1. /\ pending' = Nothing /\ todo' = <<>> /\ stored' = stored \cup {pending.entry}
        /\ doubtful' = doubtful \ {pending.entry} /\ climb' = Nothing
    BY <1>2, <1>5
  <2>2. Due' = {} /\ Ahead' = pages'
    BY <2>1 DEF Due, Idle, Ahead
  <2>3. stored' = stored \cup Due /\ stored' \cup doubtful' = stored \cup doubtful \cup Due
    BY <1>4, <2>1
  <2>4. Good(Ahead', Nothing, stored', stored' \cup doubtful', damage')
    BY <1>2, <1>3, <1>5, <2>3
  <2>5. stored' \cup Due' = stored' /\ stored' \cup doubtful' \cup Due' = stored' \cup doubtful'
    BY <2>2
  <2> QED BY <2>1, <2>2, <2>4, <2>5
<1>6. CASE ~(Len(todo) = 1 /\ climb = Nothing)
  <2>1. /\ pending' = pending /\ stored' = stored /\ doubtful' = doubtful
        /\ torn' = (torn \/ climb # Nothing)
    BY <1>2, <1>6
  <2>2. Due' = Due
    BY <2>1 DEF Due, Idle
  <2>3. Good(Ahead', climb', stored' \cup Due', stored' \cup doubtful' \cup Due', damage')
    BY <1>2, <1>3, <2>1, <2>2
  <2>4. CASE torn \/ climb # Nothing
    BY <2>1, <2>3, <2>4
  <2>5. CASE ~torn /\ climb = Nothing
    <3>1. pages' = Append(pages, todo[1].node)
      BY <1>2, <1>6, <2>5
    <3>2. PICK R, h : /\ Tree(pages, R, h) /\ Chained(pages, R, stored, stored \cup doubtful)
                      /\ damage = {} => Sorted(pages, R, h, Nothing)
      BY <1>3, <2>5 DEF Good
    <3>3. Longer(pages, pages', todo[1].node)
      BY <1>1, <3>1, TypeMeans, Changed DEF Form
    <3>4. Chained(pages', R, stored, stored \cup doubtful)
      BY <3>2, <3>3, ChainedLonger
    <3>5. Tree(pages', R, h)
      <4>1. /\ Len(pages) \in Nat /\ R \subseteq 1..Len(pages)
        BY <3>2 DEF Tree
      <4>2. /\ Len(pages') \in Nat /\ DOMAIN pages' = 1..Len(pages') /\ Len(pages) <= Len(pages')
            /\ \A x \in R : pages'[x] = pages[x]
        BY <3>3, <4>1 DEF Longer
      <4> QED BY <3>2, <4>2, TreeInLonger
    <3>7. damage' = {} => Sorted(pages', R, h, Nothing)
      <4>1. \A x \in R : pages'[x] = pages[x]
        BY <3>2, <3>3 DEF Longer, Tree
      <4> QED BY <1>3, <3>2, <4>1, SortedSame
    <3>6. Good(pages', Nothing, stored', stored' \cup doubtful', damage')
      BY <2>1, <3>4, <3>5, <3>7 DEF Good, Owed
    <3> QED BY <2>3, <3>6
  <2> QED BY <1>4, <2>4, <2>5
<1> QED BY <1>5, <1>6

\* A crash that does not cut a node in half loses at most the entry that was being inserted.
LEMMA CrashChained ==
  ASSUME TypeInv, ChainInv, Crash
  PROVE  ChainInv'
<1> SUFFICES ASSUME "cut" \notin damage'
             PROVE  /\ Good(Ahead', climb', stored' \cup Due', stored' \cup doubtful' \cup Due', damage')
                    /\ torn' \/ Good(pages', Nothing, stored', stored' \cup doubtful', damage')
  BY DEF ChainInv
<1>1. /\ todo' = <<>> /\ climb' = Nothing /\ pending' = Nothing /\ torn' = FALSE /\ pages' = pages
      /\ stored' = stored \ Due /\ doubtful' = doubtful \cup Due
      /\ damage' = damage \cup IF torn THEN {"cut"} ELSE {}
  BY DEF Crash, Due
<1>2. "cut" \notin damage /\ ~torn
  BY <1>1
<1>3. Good(pages, Nothing, stored, stored \cup doubtful, damage)
  BY <1>2 DEF ChainInv
<1>4. PICK R, h : /\ Tree(pages, R, h) /\ Chained(pages, R, stored, stored \cup doubtful)
                  /\ damage = {} => Sorted(pages, R, h, Nothing)
  BY <1>3 DEF Good
<1>5. stored' \subseteq stored /\ stored \cup doubtful \subseteq stored' \cup doubtful'
  BY <1>1
<1>6. Chained(pages, R, stored', stored' \cup doubtful')
  BY <1>4, <1>5, HoldsLoosely
<1>7. Good(pages', Nothing, stored', stored' \cup doubtful', damage')
  BY <1>1, <1>4, <1>6 DEF Good, Owed
<1>8. Due' = {} /\ Ahead' = pages'
  BY <1>1 DEF Due, Idle, Ahead
<1>9. stored' \cup Due' = stored' /\ stored' \cup doubtful' \cup Due' = stored' \cup doubtful'
  BY <1>8
<1> QED BY <1>1, <1>7, <1>8, <1>9

\* The chain of an empty index.
LEMMA InitChained == Init => ChainInv
<1> SUFFICES ASSUME Init PROVE ChainInv
  OBVIOUS
<1> DEFINE node == Leaf(<<>>, None)
<1>1. /\ pages = <<node>> /\ Len(pages) = 1 /\ pages[1] = node /\ todo = <<>> /\ climb = Nothing
      /\ Idle /\ stored = {} /\ doubtful = {}
  BY DEF Init, Idle
<1>2. node.leaf /\ node.next = None /\ node.entries = <<>>
  BY DEF Leaf
<1> HIDE DEF node
<1>3. Shape(pages, Nothing)
  BY InitTypes DEF TypeInv
<1>4. PICK R, h : Tree(pages, R, h)
  BY <1>3 DEF Shape
<1>5. R = {1} /\ Leaves(pages, R) = {1} /\ 1 \in R
  <2>1. R \subseteq 1..1 /\ Root \in R
    BY <1>1, <1>4 DEF Tree
  <2>2. R = {1}
    <3>1. \A x \in 1..1 : x = 1
      OBVIOUS
    <3> QED BY <2>1, <3>1 DEF Root
  <2> QED BY <1>1, <1>2, <2>2 DEF Leaves
<1>6. Linked(pages, {1}, 1, [x \in {1} |-> 1])
  BY <1>1, <1>2 DEF Linked
<1>7. Leftmost(pages, R, {1}, 1)
  BY <1>1, <1>2, <1>5 DEF Leftmost, Root
<1>8. Holds(pages, {1}, {}, {})
  BY <1>1, <1>2 DEF Holds, Content, Once, ElementsOf
<1>9. Chained(pages, R, {}, {})
  BY <1>5, <1>6, <1>7, <1>8 DEF Chained
<1>12. Sorted(pages, R, h, Nothing)
  <2>1. PICK lo, hi : lo = [x \in R |-> 0] /\ hi = [x \in R |-> MaxKey + 1]
    OBVIOUS
  <2>2. MaxKey \in Nat
    BY TreeAssumption DEF MaxKey
  <2>3. lo \in [R -> Nat] /\ hi \in [R -> Nat] /\ lo[Root] = 0 /\ hi[Root] = MaxKey + 1
    BY <1>5, <2>1, <2>2 DEF Root
  <2>4. h[Root] = 0
    BY <1>1, <1>2, <1>4, <1>5, NodeFacts DEF Root
  <2>5. InOrder(pages[1], 0, lo[1], hi[1], lo, hi)
    <3>1. ElementsOf(node.entries) = {} /\ Ascending(node.entries)
      BY <1>2 DEF ElementsOf, Ascending
    <3>2. lo[1] < hi[1]
      BY <2>2, <2>3 DEF Root
    <3> QED BY <1>1, <1>2, <3>1, <3>2 DEF InOrder
  <2>6. Ranged(pages, R, h, lo, hi, hi)
    BY <1>5, <2>3, <2>4, <2>5 DEF Ranged, Root
  <2> QED BY <2>6, SortedWhole
<1>10. Good(pages, Nothing, {}, {}, damage)
  BY <1>4, <1>9, <1>12 DEF Good, Owed
<1>11. Ahead = pages /\ Due = {} /\ {} \cup {} = {}
  BY <1>1 DEF Ahead, Due
<1> QED BY <1>1, <1>10, <1>11 DEF ChainInv

\* Every step keeps the chain complete and the tree in order.
LEMMA ChainKept == TypeInv /\ ChainInv /\ [Next]_vars => ChainInv'
<1> SUFFICES ASSUME TypeInv, ChainInv, [Next]_vars PROVE ChainInv'
  OBVIOUS
<1>1. CASE \E key \in Key : Insert(key)
  BY <1>1, InsertChained
<1>2. CASE \E e \in stored \cup doubtful : Delete(e)
  BY <1>2, DeleteChained
<1>3. CASE Continue
  BY <1>3, ContinueChained
<1>4. CASE Propagate
  BY <1>4, PropagateChained
<1>5. CASE Crash
  BY <1>5, CrashChained
<1>6. CASE UNCHANGED vars
  <2>1. /\ Ahead' = Ahead /\ climb' = climb /\ pages' = pages /\ Due' = Due /\ damage' = damage
        /\ stored' = stored /\ doubtful' = doubtful /\ torn' = torn
    BY <1>6 DEF vars, Ahead, Due, Idle
  <2> QED BY <2>1 DEF ChainInv
<1> QED BY <1>1, <1>2, <1>3, <1>4, <1>5, <1>6 DEF Next, Stop

\* The chain from a leaf on visits, in the order of their places, that leaf and those behind it.
Visits(leaves, L, place, p) ==
  /\ Len(leaves) \in Nat
  /\ \A n \in 1..Len(leaves) : leaves[n] \in L /\ place[p] <= place[leaves[n]]
  /\ \A m, n \in 1..Len(leaves) : m < n => place[leaves[m]] < place[leaves[n]]
  /\ \A x \in L : place[p] <= place[x] => \E n \in 1..Len(leaves) : leaves[n] = x

\* How far a walk along the links has come with its step n, and what it has met by then.
Seen(at, n, x) == \E m \in 0..(n - 1) : at[m] = x
Walked(L, place, p, at, n) ==
  \/ /\ at[n] \in L /\ n + 1 <= place[at[n]] /\ place[p] <= place[at[n]]
     /\ \A m \in 0..(n - 1) : at[m] \in L /\ place[at[m]] < place[at[n]]
     /\ \A x \in L : place[p] <= place[x] /\ place[x] < place[at[n]] => Seen(at, n, x)
  \/ at[n] = None /\ \A x \in L : place[p] <= place[x] => Seen(at, n, x)

\* One link further.
LEMMA WalkOn ==
  ASSUME NEW L, NEW first, NEW place, Linked(pages, L, first, place), None \notin L, NEW p \in L,
         NEW at, NEW n \in Nat \ {0}, Walked(L, place, p, at, n - 1),
         at[n] = IF at[n - 1] \in L THEN pages[at[n - 1]].next ELSE None
  PROVE  Walked(L, place, p, at, n)
<1> DEFINE q == at[n - 1]
<1>1. \A m \in 0..(n - 1) : m = n - 1 \/ m \in 0..((n - 1) - 1)
  OBVIOUS
<1>2. \A x : Seen(at, n - 1, x) \/ x = q => Seen(at, n, x)
  <2>1. n - 1 \in 0..(n - 1) /\ \A m \in 0..((n - 1) - 1) : m \in 0..(n - 1)
    OBVIOUS
  <2> QED BY <2>1 DEF Seen
<1>3. \A x \in L : place[x] \in Nat
  BY DEF Linked
<1>4. CASE q \notin L
  <2>1. at[n] = None /\ \A x \in L : place[p] <= place[x] => Seen(at, n - 1, x)
    BY <1>4 DEF Walked
  <2> QED BY <1>2, <2>1 DEF Walked
<1>5. CASE q \in L
  <2>1. /\ n <= place[q] /\ place[p] <= place[q]
        /\ \A m \in 0..((n - 1) - 1) : at[m] \in L /\ place[at[m]] < place[q]
        /\ \A x \in L : place[p] <= place[x] /\ place[x] < place[q] => Seen(at, n - 1, x)
    BY <1>5 DEF Walked
  <2>2. at[n] = pages[q].next
    BY <1>5
  <2>3. ASSUME NEW x \in L, place[p] <= place[x], place[x] <= place[q] PROVE Seen(at, n, x)
    <3>1. CASE place[x] = place[q]
      <4>1. x = q
        BY <1>5, <3>1 DEF Linked
      <4> QED BY <1>2, <4>1
    <3>2. CASE place[x] # place[q]
      <4>1. place[x] < place[q]
        BY <1>3, <1>5, <2>3, <3>2
      <4>2. Seen(at, n - 1, x)
        BY <2>1, <2>3, <4>1
      <4> QED BY <1>2, <4>2
    <3> QED BY <3>1, <3>2
  <2>4. CASE pages[q].next = None
    <3>1. \A x \in L : place[x] <= place[q]
      BY <1>5, <2>4 DEF Linked
    <3> QED BY <2>2, <2>3, <2>4, <3>1 DEF Walked
  <2>5. CASE pages[q].next # None
    <3>1. Follows(at[n], q, L, place)
      BY <1>5, <2>2, <2>5 DEF Linked
    <3> HIDE DEF q
    <3>2. /\ at[n] \in L /\ place[q] < place[at[n]]
          /\ \A x \in L : place[q] < place[x] => place[at[n]] <= place[x]
      BY <3>1 DEF Follows
    <3>3. PICK y : y = at[n]
      OBVIOUS
    <3>4. y \in L /\ place[y] \in Nat /\ place[q] \in Nat /\ place[q] < place[y]
      BY <1>3, <1>5, <3>2, <3>3
    <3>5. n + 1 <= place[y]
      BY <2>1, <3>4
    <3>6. place[p] <= place[y] /\ \A m \in 0..(n - 1) : at[m] \in L /\ place[at[m]] < place[y]
      <4>1. ASSUME NEW m \in 0..(n - 1) PROVE at[m] \in L /\ place[at[m]] <= place[q]
        <5>1. CASE m = n - 1
          BY <1>5, <3>4, <5>1 DEF q
        <5>2. CASE m \in 0..((n - 1) - 1)
          <6>1. at[m] \in L /\ place[at[m]] < place[q] /\ place[at[m]] \in Nat
            BY <1>3, <2>1, <5>2
          <6> QED BY <3>4, <6>1
        <5> QED BY <1>1, <5>1, <5>2
      <4>2. \A m \in 0..(n - 1) : at[m] \in L /\ place[at[m]] < place[y]
        BY <1>3, <3>4, <4>1
      <4>3. place[p] <= place[y]
        BY <1>3, <2>1, <3>4
      <4> QED BY <4>2, <4>3
    <3>7. ASSUME NEW x \in L, place[p] <= place[x], place[x] < place[y] PROVE Seen(at, n, x)
      <4>1. place[x] \in Nat /\ ~(place[q] < place[x])
        BY <1>3, <3>2, <3>3, <3>4, <3>7
      <4>2. place[x] <= place[q]
        BY <3>4, <4>1
      <4> QED BY <2>3, <3>7, <4>2
    <3> QED BY <3>3, <3>4, <3>5, <3>6, <3>7 DEF Walked
  <2> QED BY <2>4, <2>5
<1> QED BY <1>4, <1>5

\* The chain from a leaf on visits that leaf and those behind it.
LEMMA ChainVisits ==
  ASSUME NEW R, NEW h, Tree(pages, R, h), NEW first, NEW place,
         Linked(pages, Leaves(pages, R), first, place), NEW p \in Leaves(pages, R)
  PROVE  Visits(Chain(p), Leaves(pages, R), place, p)
<1> DEFINE L == Leaves(pages, R)
           N == Len(pages)
           S == L \cup {None}
           at == Walk(p, Onwards)
<1>1. N \in Nat /\ DOMAIN pages = 1..N /\ L \subseteq 1..N /\ None \notin L /\ p \in L /\ Linked(pages, L, first, place)
  BY DEF Tree, Leaves, None
<1>2. /\ \A x \in L : Onwards[x] = pages[x].next /\ Onwards[x] \in S
      /\ Onwards[None] = None
  <2>1. \A x \in L : IsLeaf(x) /\ x \in Page \cup {None}
    BY <1>1 DEF IsLeaf, Leaves, Page
  <2>2. ~IsLeaf(None) /\ None \in Page \cup {None}
    BY <1>1 DEF IsLeaf, None
  <2>3. \A x \in L : pages[x].next \in S
    BY <1>1 DEF Linked, Follows
  <2> QED BY <2>1, <2>2, <2>3 DEF Onwards
<1>3. at \in [0..N -> S] /\ at[0] = p /\ \A n \in 1..N : at[n] = Onwards[at[n - 1]]
  <2>1. \A x \in S : Onwards[x] \in S
    BY <1>2
  <2> HIDE DEF S
  <2>2. p \in S
    BY <1>1 DEF S
  <2> QED BY <1>1, <2>1, <2>2, WalkFacts
<1>4. \A n \in 0..N : IsLeaf(at[n]) <=> at[n] \in L
  <2>1. \A x \in S : IsLeaf(x) <=> x \in L
    BY <1>1 DEF IsLeaf, Leaves, None
  <2> QED BY <1>3, <2>1
<1>5. Chain(p) = [n \in 1..Cardinality({n \in 0..N : IsLeaf(at[n])}) |-> at[n - 1]]
  BY DEF Chain
<1> HIDE DEF at, L, S, N
<1> DEFINE T == {n \in 0..N : Walked(L, place, p, at, n)}
<1>6. 0 \in T
  <2>1. \A m \in 0..(0 - 1) : FALSE
    OBVIOUS
  <2>2. place[p] \in 1..N
    BY <1>1 DEF Linked, N
  <2>3. 0 + 1 <= place[p] /\ place[p] <= place[p]
    BY <1>1, <2>2
  <2>4. Walked(L, place, p, at, 0)
    BY <1>1, <1>3, <2>1, <2>2, <2>3 DEF Walked, Linked
  <2> QED BY <1>1, <2>4
<1>7. ASSUME NEW n \in 1..N, n - 1 \in T PROVE n \in T
  <2>1. at[n] = IF at[n - 1] \in L THEN pages[at[n - 1]].next ELSE None
    <3>1. n - 1 \in 0..N /\ at[n - 1] \in L \cup {None}
      BY <1>1, <1>3 DEF S
    <3> QED BY <1>2, <1>3, <3>1
  <2>2. n \in Nat \ {0} /\ Walked(L, place, p, at, n - 1)
    BY <1>1, <1>7
  <2>3. Walked(L, place, p, at, n)
    BY <1>1, <2>1, <2>2, WalkOn
  <2> QED BY <1>1, <2>3
<1>8. \A n \in 0..N : Walked(L, place, p, at, n)
  <2> HIDE DEF T
  <2>1. 0..N \subseteq T
    BY <1>1, <1>6, <1>7, UpTo
  <2> QED BY <2>1 DEF T
<1>9. at[N] \notin L
  <2>1. SUFFICES ASSUME at[N] \in L PROVE FALSE
    OBVIOUS
  <2>2. N + 1 <= place[at[N]]
    BY <1>1, <1>8, <2>1 DEF Walked
  <2>3. place[at[N]] \in 1..N
    BY <1>1, <2>1 DEF Linked, N
  <2> QED BY <1>1, <2>2, <2>3
<1> DEFINE Ends == {n \in 0..N : at[n] \notin L}
<1>10. PICK k \in Ends : \A n \in Ends : k <= n
  <2>1. Ends \in SUBSET Nat /\ Ends # {}
    BY <1>1, <1>9
  <2> HIDE DEF Ends
  <2> QED BY <2>1, LeastNumber
<1>11. k \in 1..N /\ at[k] \notin L /\ \A n \in 0..(k - 1) : at[n] \in L
  <2>1. k \in 0..N /\ at[k] \notin L
    BY <1>10
  <2>2. k # 0
    BY <1>1, <1>3, <2>1
  <2>3. ASSUME NEW n \in 0..(k - 1) PROVE at[n] \in L
    <3>1. n \in 0..N /\ ~(k <= n)
      BY <1>1, <2>1
    <3> QED BY <1>10, <3>1
  <2> QED BY <1>1, <2>1, <2>2, <2>3
<1> HIDE DEF Ends
<1>12. {n \in 0..N : IsLeaf(at[n])} = 0..(k - 1)
  <2>1. ASSUME NEW n \in 0..N, at[n] \in L PROVE n \in 0..(k - 1)
    <3>1. SUFFICES ASSUME k <= n PROVE FALSE
      BY <1>1, <1>11
    <3>2. k # n
      BY <1>11, <2>1
    <3>3. k \in 0..(n - 1)
      BY <1>1, <1>11, <3>1, <3>2
    <3>4. at[k] \in L
      BY <1>1, <1>8, <2>1, <3>3 DEF Walked
    <3> QED BY <1>11, <3>4
  <2>2. \A n \in 0..(k - 1) : n \in 0..N
    BY <1>1, <1>11
  <2> QED BY <1>4, <1>11, <2>1, <2>2
<1>13. Cardinality(0..(k - 1)) = k
  BY <1>1, <1>11, FS_Interval
<1>14. PICK leaves : leaves = Chain(p) /\ leaves = [n \in 1..k |-> at[n - 1]]
  BY <1>5, <1>12, <1>13
<1>15. k \in Nat /\ Len(leaves) = k /\ \A n \in 1..k : leaves[n] = at[n - 1] /\ n - 1 \in 0..(k - 1) /\ n - 1 \in 0..N
  BY <1>1, <1>11, <1>14
<1>16. ASSUME NEW n \in 1..k
       PROVE  leaves[n] \in L /\ place[p] <= place[leaves[n]]
  <2>1. at[n - 1] \in L
    BY <1>11, <1>15
  <2> QED BY <1>1, <1>8, <1>15, <2>1 DEF Walked
<1>17. ASSUME NEW m \in 1..k, NEW n \in 1..k, m < n PROVE place[leaves[m]] < place[leaves[n]]
  <2>1. at[n - 1] \in L /\ Walked(L, place, p, at, n - 1)
    BY <1>8, <1>11, <1>15
  <2>2. m - 1 \in 0..((n - 1) - 1)
    BY <1>15, <1>17
  <2>3. place[at[m - 1]] < place[at[n - 1]]
    BY <1>1, <2>1, <2>2 DEF Walked
  <2> QED BY <1>15, <2>3
<1>18. ASSUME NEW x \in L, place[p] <= place[x] PROVE \E n \in 1..k : leaves[n] = x
  <2>1. Seen(at, k, x)
    <3>1. k \in 0..N
      BY <1>1, <1>11
    <3>2. Walked(L, place, p, at, k)
      BY <1>8, <3>1
    <3> QED BY <1>11, <1>18, <3>2 DEF Walked
  <2>2. PICK m \in 0..(k - 1) : at[m] = x
    BY <2>1 DEF Seen
  <2>3. m + 1 \in 1..k /\ (m + 1) - 1 = m
    BY <1>15
  <2> QED BY <1>15, <2>2, <2>3
<1>19. Visits(leaves, L, place, p)
  BY <1>15, <1>16, <1>17, <1>18 DEF Visits
<1> QED BY <1>14, <1>19 DEF L

\* Leftmost children lead to the first leaf.
LEMMA LeftmostIsFirst ==
  ASSUME NEW R, NEW h, Tree(pages, R, h), NEW M, NEW first, Leftmost(pages, R, M, first)
  PROVE  LeftmostLeaf = first
<1> DEFINE N == Len(pages)
           at == Walk(Root, Leftwards)
<1>1. N \in Nat /\ h[Root] \in Nat /\ h[Root] < N
  BY DEF Tree
<1>2. /\ at \in [0..N -> R] /\ at[0] = Root
      /\ \A d \in 1..N : at[d] = Leftwards[at[d - 1]]
      /\ \A d \in 0..N : h[at[d]] = IF d <= h[Root] THEN h[Root] - d ELSE 0
  BY LeftwardsDescends, DescentFacts
<1>3. LeftmostLeaf = at[N]
  BY DEF LeftmostLeaf
<1> HIDE DEF at
<1>4. M \subseteq R /\ Root \in M /\ \A p \in M : IF pages[p].leaf THEN p = first ELSE pages[p].left \in M
  BY DEF Leftmost
<1>5. \A p \in M : Leftwards[p] \in M
  <2>1. ASSUME NEW p \in M PROVE Leftwards[p] \in M
    <3>1. p \in R /\ (pages[p].leaf <=> h[p] = 0)
      BY <1>4, NodeFacts
    <3>2. /\ h[p] = 0 => Leftwards[p] = p
          /\ h[p] # 0 => Leftwards[p] = pages[p].left
      BY <3>1, LeftwardsDescends DEF Descends
    <3> QED BY <1>4, <3>1, <3>2
  <2> QED BY <2>1
<1> DEFINE T == {d \in 0..N : at[d] \in M}
<1>6. at[N] \in M
  <2>1. 0 \in T
    BY <1>1, <1>2, <1>4
  <2>2. ASSUME NEW d \in 1..N, d - 1 \in T PROVE d \in T
    BY <1>1, <1>2, <1>5, <2>2
  <2> HIDE DEF T
  <2>3. 0..N \subseteq T
    BY <1>1, <2>1, <2>2, UpTo
  <2> QED BY <1>1, <2>3 DEF T
<1>7. h[at[N]] = 0
  BY <1>1, <1>2
<1>8. pages[at[N]].leaf
  BY <1>4, <1>6, <1>7, NodeFacts
<1> QED BY <1>3, <1>4, <1>6, <1>8

\* What the leaves along the chain hold together is what the tree holds.
LEMMA ChainHolds ==
  ASSUME NEW R, NEW h, Tree(pages, R, h), NEW lower, NEW upper, Chained(pages, R, lower, upper),
         NEW found, found = Flat(Chain(LeftmostLeaf))
  PROVE  Once(found) /\ lower \subseteq ElementsOf(found) /\ ElementsOf(found) \subseteq upper
<1> DEFINE L == Leaves(pages, R)
<1>1. PICK first, place, M : /\ Linked(pages, L, first, place) /\ Leftmost(pages, R, M, first)
                             /\ Holds(pages, L, lower, upper)
  BY DEF Chained
<1>2. LeftmostLeaf = first /\ first \in L
  BY <1>1, LeftmostIsFirst DEF Linked
<1>3. PICK leaves : leaves = Chain(first)
  OBVIOUS
<1>4. Visits(leaves, L, place, first)
  BY <1>1, <1>2, <1>3, ChainVisits
<1>5. \A x \in L : place[first] <= place[x] /\ place[x] \in Nat /\ pages[x].entries \in Seq(Entry)
  BY <1>1, NodeFacts DEF Linked, Leaves
<1> HIDE DEF L
<1>6. /\ Len(leaves) \in Nat /\ \A n \in 1..Len(leaves) : leaves[n] \in L
      /\ \A m, n \in 1..Len(leaves) : m # n => leaves[m] # leaves[n]
      /\ \A x \in L : \E n \in 1..Len(leaves) : leaves[n] = x
  <2>1. /\ Len(leaves) \in Nat /\ \A n \in 1..Len(leaves) : leaves[n] \in L
        /\ \A m, n \in 1..Len(leaves) : m < n => place[leaves[m]] < place[leaves[n]]
        /\ \A x \in L : \E n \in 1..Len(leaves) : leaves[n] = x
    BY <1>4, <1>5 DEF Visits
  <2>2. ASSUME NEW m \in 1..Len(leaves), NEW n \in 1..Len(leaves), m # n PROVE leaves[m] # leaves[n]
    <3>1. m < n \/ n < m
      BY <2>1, <2>2
    <3>2. place[leaves[m]] < place[leaves[n]] \/ place[leaves[n]] < place[leaves[m]]
      BY <2>1, <3>1
    <3> QED BY <1>5, <2>1, <3>2
  <2> QED BY <2>1, <2>2
<1>7. /\ \A p \in L : Once(pages[p].entries) /\ Content(pages, p) \subseteq upper
      /\ \A p, q \in L : p # q => Content(pages, p) \cap Content(pages, q) = {}
      /\ \A e \in lower : \E p \in L : e \in Content(pages, p)
  BY <1>1 DEF Holds
<1>8. Distinct(leaves)
  BY <1>6, <1>7 DEF Distinct, Content
<1>9. Once(Flat(leaves)) /\ ElementsOf(Flat(leaves)) = Held(leaves)
  BY <1>5, <1>6, <1>8, FlatFacts
<1>10. lower \subseteq Held(leaves)
  <2>1. ASSUME NEW e \in lower PROVE e \in Held(leaves)
    <3>1. PICK p \in L : e \in Content(pages, p)
      BY <1>7
    <3>2. PICK n \in 1..Len(leaves) : leaves[n] = p
      BY <1>6
    <3> QED BY <3>1, <3>2 DEF Held, Content
  <2> QED BY <2>1
<1>11. Held(leaves) \subseteq upper
  BY <1>6, <1>7 DEF Held, Content
<1> QED BY <1>2, <1>3, <1>9, <1>10, <1>11

\* Whatever the keys, and through every split, deletion and crash that has not cut a node in
\* half, the chain of leaves from the leftmost one holds each entry that was inserted and
\* not deleted once, and none else but those a crash left in doubt.
THEOREM ChainCorrect == Spec => []ChainIsComplete
<1>1. TypeInv /\ ChainInv => ChainIsComplete
  <2> SUFFICES ASSUME TypeInv, ChainInv, Idle, "cut" \notin damage
               PROVE  Exactly(Flat(Chain(LeftmostLeaf)), 1, MaxKey)
    BY DEF ChainIsComplete
  <2>1. ~torn /\ TypeOK
    BY DEF TypeInv, StepOK
  <2>2. PICK R, h : Tree(pages, R, h) /\ Chained(pages, R, stored, stored \cup doubtful)
    BY <2>1 DEF ChainInv, Good
  <2>3. PICK found : found = Flat(Chain(LeftmostLeaf))
    OBVIOUS
  <2>4. /\ Once(found) /\ stored \subseteq ElementsOf(found)
        /\ ElementsOf(found) \subseteq stored \cup doubtful
    BY <2>2, <2>3, ChainHolds
  <2>5. \A e \in stored \cup doubtful : 1 <= e.key /\ e.key <= MaxKey
    <3>1. stored \cup doubtful \subseteq Entry
      BY <2>1, TypeMeans DEF Rest
    <3>2. \A e \in Entry : e.key \in 1..MaxKey
      BY EntryFields DEF Key
    <3>3. MaxKey \in Nat
      BY TreeAssumption DEF MaxKey
    <3> QED BY <3>1, <3>2, <3>3
  <2>6. Exactly(found, 1, MaxKey)
    BY <2>4, <2>5 DEF Exactly
  <2> QED BY <2>3, <2>6
<1>2. Init => TypeInv /\ ChainInv
  BY InitTypes, InitChained
<1>3. TypeInv /\ ChainInv /\ [Next]_vars => (TypeInv /\ ChainInv)'
  BY TypesKept, ChainKept
<1> QED BY <1>1, <1>2, <1>3, PTL DEF Spec

(***************************************************************************)
(* What a search and a range scan find.                                    *)
(***************************************************************************)

\* Leaves further along the chain have greater keys.
LEMMA LeavesApart ==
  ASSUME NEW R, NEW h, Tree(pages, R, h), NEW lo, NEW hi, Ranged(pages, R, h, lo, hi, hi),
         NEW first, NEW place, Linked(pages, Leaves(pages, R), first, place)
  PROVE  \A p, q \in Leaves(pages, R) : place[p] < place[q] => hi[p] <= lo[q]
<1> DEFINE L == Leaves(pages, R)
           N == Len(pages)
           Apart(n, p, q) == place[p] < place[q] /\ place[q] - place[p] <= n => hi[p] <= lo[q]
           T == {n \in 0..N : \A p, q \in L : Apart(n, p, q)}
<1>1. N \in Nat /\ \A p \in L : place[p] \in 1..N
  BY DEF Tree, Linked
<1>2. \A p \in L : /\ lo[p] \in Nat /\ hi[p] \in Nat /\ lo[p] < hi[p]
                   /\ pages[p].next = None \/ hi[p] <= lo[pages[p].next]
  <2>1. ASSUME NEW p \in L
        PROVE  /\ lo[p] \in Nat /\ hi[p] \in Nat /\ lo[p] < hi[p]
               /\ pages[p].next = None \/ hi[p] <= lo[pages[p].next]
    <3>1. p \in R /\ h[p] = 0
      BY NodeFacts DEF Leaves
    <3>2. lo[p] \in Nat /\ hi[p] \in Nat /\ lo[p] < hi[p] /\ InOrder(pages[p], h[p], lo[p], hi[p], lo, hi)
      BY <3>1, RangedFacts
    <3> QED BY <3>1, <3>2 DEF InOrder
  <2> QED BY <2>1
<1>3. 0 \in T
  BY <1>1
<1>4. ASSUME NEW n \in 1..N, n - 1 \in T PROVE n \in T
  <2> SUFFICES ASSUME NEW p \in L, NEW q \in L, place[p] < place[q], place[q] - place[p] <= n
               PROVE  hi[p] <= lo[q]
    BY <1>1
  <2>1. place[p] \in Nat /\ place[q] \in Nat
    BY <1>1
  <2>2. pages[p].next # None
    <3>1. pages[p].next = None => place[q] <= place[p]
      BY DEF Linked
    <3> QED BY <2>1, <3>1
  <2>3. PICK x : x = pages[p].next
    OBVIOUS
  <2>4. x \in L /\ place[p] < place[x] /\ place[x] <= place[q]
    BY <2>2, <2>3 DEF Linked, Follows
  <2>5. place[x] \in Nat /\ hi[p] <= lo[x] /\ lo[x] < hi[x]
    BY <1>1, <1>2, <2>2, <2>3, <2>4
  <2>6. CASE place[x] = place[q]
    <3>1. x = q
      BY <2>4, <2>6 DEF Linked
    <3> QED BY <2>5, <3>1
  <2>7. CASE place[x] # place[q]
    <3>1. place[x] < place[q] /\ place[q] - place[x] <= n - 1
      BY <2>1, <2>4, <2>5, <2>7
    <3>2. Apart(n - 1, x, q)
      BY <1>4, <2>4
    <3>3. hi[x] <= lo[q]
      BY <3>1, <3>2
    <3>4. /\ hi[p] \in Nat /\ lo[q] \in Nat /\ lo[x] \in Nat /\ hi[x] \in Nat
      BY <1>2, <2>4
    <3> QED BY <2>5, <3>3, <3>4
  <2> QED BY <2>6, <2>7
<1>5. N \in T
  <2> HIDE DEF T
  <2>1. 0..N \subseteq T
    BY <1>1, <1>3, <1>4, UpTo
  <2> QED BY <1>1, <2>1
<1>6. ASSUME NEW p \in L, NEW q \in L, place[p] < place[q] PROVE hi[p] <= lo[q]
  <2>1. Apart(N, p, q)
    BY <1>5
  <2>2. place[q] - place[p] <= N
    BY <1>1
  <2> QED BY <1>6, <2>1, <2>2
<1> QED BY <1>6

\* The entries of the leaves from p on: each once, in order, and all of those leaves.
Onward(L, place, p) == UNION {Content(pages, x) : x \in {q \in L : place[p] <= place[q]}}
LEMMA ScanFacts ==
  ASSUME NEW R, NEW h, Tree(pages, R, h), NEW lo, NEW hi, Ranged(pages, R, h, lo, hi, hi),
         NEW first, NEW place, Linked(pages, Leaves(pages, R), first, place),
         NEW lower, NEW upper, Holds(pages, Leaves(pages, R), lower, upper),
         NEW p \in Leaves(pages, R), NEW found, found = Flat(Chain(p))
  PROVE  /\ found \in Seq(Entry) /\ Once(found) /\ Ascending(found)
         /\ ElementsOf(found) = Onward(Leaves(pages, R), place, p)
<1> DEFINE L == Leaves(pages, R)
<1>1. PICK leaves : leaves = Chain(p)
  OBVIOUS
<1>2. Visits(leaves, L, place, p)
  BY <1>1, ChainVisits
<1>3. \A x \in L : /\ place[x] \in Nat /\ pages[x].entries \in Seq(Entry) /\ lo[x] \in Nat /\ hi[x] \in Nat
                   /\ Ascending(pages[x].entries)
                   /\ \A e \in Content(pages, x) : lo[x] <= e.key /\ e.key < hi[x] /\ e.key \in Nat
  <2>1. ASSUME NEW x \in L
        PROVE  /\ place[x] \in Nat /\ pages[x].entries \in Seq(Entry) /\ lo[x] \in Nat /\ hi[x] \in Nat
               /\ Ascending(pages[x].entries)
               /\ \A e \in Content(pages, x) : lo[x] <= e.key /\ e.key < hi[x] /\ e.key \in Nat
    <3>1. x \in R /\ h[x] = 0 /\ place[x] \in Nat /\ pages[x].entries \in Seq(Entry)
      BY NodeFacts DEF Leaves, Linked
    <3>2. lo[x] \in Nat /\ hi[x] \in Nat /\ InOrder(pages[x], h[x], lo[x], hi[x], lo, hi)
      BY <3>1, RangedFacts
    <3>3. \A e \in Content(pages, x) : e.key \in Nat
      <4>1. Content(pages, x) \subseteq Entry
        BY <3>1 DEF Content, ElementsOf
      <4> QED BY <4>1, EntryFields DEF Keyed
    <3> QED BY <3>1, <3>2, <3>3 DEF InOrder, Content
  <2> QED BY <2>1
<1>4. \A x, y \in L : place[x] < place[y] => hi[x] <= lo[y]
  BY LeavesApart
<1>5. /\ \A x \in L : Once(pages[x].entries)
      /\ \A x, y \in L : x # y => Content(pages, x) \cap Content(pages, y) = {}
  BY DEF Holds
<1> HIDE DEF L
<1>6. /\ Len(leaves) \in Nat /\ \A n \in 1..Len(leaves) : leaves[n] \in L
      /\ \A m, n \in 1..Len(leaves) : m < n => place[leaves[m]] < place[leaves[n]]
      /\ \A n \in 1..Len(leaves) : place[p] <= place[leaves[n]]
      /\ \A x \in L : place[p] <= place[x] => \E n \in 1..Len(leaves) : leaves[n] = x
  BY <1>2 DEF Visits
<1>7. Distinct(leaves)
  <2>1. ASSUME NEW m \in 1..Len(leaves), NEW n \in 1..Len(leaves), m # n PROVE leaves[m] # leaves[n]
    <3>1. m < n \/ n < m
      BY <1>6, <2>1
    <3>2. place[leaves[m]] < place[leaves[n]] \/ place[leaves[n]] < place[leaves[m]]
      BY <1>6, <3>1
    <3> QED BY <1>3, <1>6, <3>2
  <2> QED BY <1>5, <1>6, <2>1 DEF Distinct, Content
<1>8. Increasing(leaves)
  <2>1. \A n \in 1..Len(leaves) : Ascending(pages[leaves[n]].entries)
    BY <1>3, <1>6
  <2>2. ASSUME NEW m \in 1..Len(leaves), NEW n \in 1..Len(leaves), m < n,
               NEW x \in Content(pages, leaves[m]), NEW y \in Content(pages, leaves[n])
        PROVE  x.key <= y.key
    <3>1. PICK a, b : a = leaves[m] /\ b = leaves[n] /\ a \in L /\ b \in L
      BY <1>6
    <3>2. hi[a] <= lo[b]
      BY <1>4, <1>6, <2>2, <3>1
    <3>3. x.key < hi[a] /\ lo[b] <= y.key /\ x.key \in Nat /\ y.key \in Nat /\ hi[a] \in Nat /\ lo[b] \in Nat
      BY <1>3, <3>1
    <3> QED BY <3>2, <3>3
  <2> QED BY <2>1, <2>2 DEF Increasing, Content
<1>9. /\ Flat(leaves) \in Seq(Entry) /\ ElementsOf(Flat(leaves)) = Held(leaves)
      /\ Once(Flat(leaves)) /\ Ascending(Flat(leaves))
  BY <1>3, <1>6, <1>7, <1>8, FlatFacts
<1>10. Held(leaves) = Onward(L, place, p)
  <2>1. \A n \in 1..Len(leaves) : leaves[n] \in {q \in L : place[p] <= place[q]}
    BY <1>6
  <2>2. \A x \in {q \in L : place[p] <= place[q]} : \E n \in 1..Len(leaves) : leaves[n] = x
    BY <1>6
  <2> QED BY <2>1, <2>2 DEF Held, Onward, Content
<1> QED BY <1>1, <1>9, <1>10 DEF L

\* Whether a bound is passed depends on the key, one way along the keys.
AnyBound == Bound \cup {Nothing}
LEMMA BoundFacts ==
  /\ \A b \in Bound : b # Nothing /\ b.key \in Nat /\ b.inclusive \in BOOLEAN
  /\ \A b \in AnyBound, x, y \in Entry : x.key <= y.key /\ TooBig(x, b) => TooBig(y, b)
<1>1. ASSUME NEW b \in Bound PROVE b # Nothing /\ b.key \in Nat /\ b.inclusive \in BOOLEAN
  <2>1. Key \subseteq Nat
    BY TreeAssumption DEF Key, MaxKey
  <2>2. DOMAIN b # DOMAIN Nothing
    <3>1. DOMAIN b = {"key", "inclusive"} /\ DOMAIN Nothing = {"op"}
      BY DEF Bound, Nothing
    <3>2. "key" # "op"
      OBVIOUS
    <3> QED BY <3>1, <3>2
  <2> QED BY <2>1, <2>2 DEF Bound
<1>2. \A x \in Entry : x.key \in Nat
  BY EntryFields DEF Keyed
<1>3. ASSUME NEW b \in AnyBound, NEW x \in Entry, NEW y \in Entry, x.key <= y.key, TooBig(x, b)
      PROVE  TooBig(y, b)
  <2>1. b # Nothing /\ b \in Bound
    BY <1>3 DEF TooBig, AnyBound
  <2>2. x.key \in Nat /\ y.key \in Nat /\ b.key \in Nat
    BY <1>1, <1>2, <2>1
  <2>3. CASE b.inclusive
    BY <1>3, <2>1, <2>2, <2>3 DEF TooBig
  <2>4. CASE ~b.inclusive
    BY <1>3, <2>1, <2>2, <2>4 DEF TooBig
  <2> QED BY <2>3, <2>4
<1> QED BY <1>1, <1>3

\* The scan of an ascending sequence ends behind the last entry within the upper bound.
UpTill(s, upper) == SubSeq(s, 1, Cardinality({i \in DOMAIN s : \A j \in 1..i : ~TooBig(s[j], upper)}))
LEMMA UpTillFacts ==
  ASSUME NEW s \in Seq(Entry), Ascending(s), Once(s), NEW upper \in AnyBound, NEW r, r = UpTill(s, upper)
  PROVE  /\ Once(r) /\ Ascending(r)
         /\ ElementsOf(r) = {e \in ElementsOf(s) : ~TooBig(e, upper)}
<1> DEFINE Before == {i \in DOMAIN s : \A j \in 1..i : ~TooBig(s[j], upper)}
           W == {i \in DOMAIN s : TooBig(s[i], upper)}
<1>1. Len(s) \in Nat /\ DOMAIN s = 1..Len(s) /\ \A i \in DOMAIN s : s[i] \in Entry
  OBVIOUS
<1>2. PICK n \in 0..Len(s) : /\ \A i \in 1..n : ~TooBig(s[i], upper)
                             /\ n < Len(s) => TooBig(s[n + 1], upper)
                             /\ Before = 1..n
  <2>1. CASE W = {}
    <3>1. \A i \in DOMAIN s : ~TooBig(s[i], upper)
      BY <2>1
    <3>2. Before = 1..Len(s)
      BY <1>1, <3>1
    <3> QED BY <1>1, <3>1, <3>2
  <2>2. CASE W # {}
    <3>1. W \in SUBSET Nat
      BY <1>1
    <3>2. PICK b \in W : \A m \in W : b <= m
      BY <2>2, <3>1, LeastNumber
    <3>3. b \in 1..Len(s) /\ TooBig(s[b], upper)
      BY <1>1, <3>2
    <3>4. ASSUME NEW j \in 1..(b - 1) PROVE ~TooBig(s[j], upper)
      <4>1. j \in DOMAIN s /\ ~(b <= j)
        BY <1>1, <3>3
      <4> QED BY <3>2, <4>1
    <3>5. Before = 1..(b - 1)
      <4>1. \A i \in 1..(b - 1) : i \in DOMAIN s /\ \A j \in 1..i : j \in 1..(b - 1)
        BY <1>1, <3>3
      <4>2. \A i \in DOMAIN s : i \notin 1..(b - 1) => b \in 1..i
        BY <1>1, <3>3
      <4> QED BY <3>3, <3>4, <4>1, <4>2
    <3>6. b - 1 \in 0..Len(s) /\ (b - 1) + 1 = b
      BY <1>1, <3>3
    <3> HIDE DEF Before
    <3> QED BY <3>3, <3>4, <3>5, <3>6
  <2> QED BY <2>1, <2>2
<1> HIDE DEF Before, W
<1>3. r = SubSeq(s, 1, n)
  <2>1. Cardinality(1..n) = n
    BY <1>2, FS_Interval
  <2>2. Cardinality(Before) = n
    BY <1>2, <2>1
  <2> QED BY <2>2 DEF UpTill, Before
<1>4. DOMAIN r = 1..n /\ Len(r) = n /\ \A i \in 1..n : r[i] = s[i] /\ i \in DOMAIN s
  BY <1>1, <1>2, <1>3
<1>5. Once(r)
  BY <1>4 DEF Once
<1>6. Ascending(r)
  <2>1. ASSUME NEW i \in 1..(Len(r) - 1) PROVE r[i].key <= r[i + 1].key
    <3>1. i \in 1..n /\ i + 1 \in 1..n /\ i \in 1..(Len(s) - 1)
      BY <1>1, <1>2, <1>4
    <3> QED BY <1>4, <3>1 DEF Ascending
  <2> QED BY <2>1 DEF Ascending
<1>7. ASSUME NEW i \in DOMAIN s, ~TooBig(s[i], upper) PROVE i \in 1..n
  <2> SUFFICES ASSUME n < i PROVE FALSE
    BY <1>1, <1>2
  <2>1. n + 1 \in DOMAIN s /\ n + 1 <= i /\ n < Len(s)
    BY <1>1, <1>2
  <2>2. s[n + 1].key <= s[i].key
    <3>1. Keyed(Entry)
      BY EntryFields
    <3> QED BY <2>1, <3>1, AscendingFar
  <2>3. TooBig(s[i], upper)
    <3>1. PICK x, y : x = s[n + 1] /\ y = s[i] /\ x \in Entry /\ y \in Entry
      BY <1>1, <2>1
    <3>2. x.key <= y.key /\ TooBig(x, upper)
      BY <1>2, <2>1, <2>2, <3>1
    <3>3. TooBig(y, upper)
      BY <3>1, <3>2, BoundFacts
    <3> QED BY <3>1, <3>3
  <2> QED BY <1>7, <2>3
<1>8. ElementsOf(r) = {e \in ElementsOf(s) : ~TooBig(e, upper)}
  <2>1. ASSUME NEW i \in 1..n PROVE r[i] \in ElementsOf(s) /\ ~TooBig(r[i], upper)
    BY <1>2, <1>4 DEF ElementsOf
  <2>2. ASSUME NEW i \in DOMAIN s, ~TooBig(s[i], upper) PROVE s[i] \in ElementsOf(r)
    <3>1. i \in 1..n
      BY <1>7, <2>2
    <3> QED BY <1>4, <3>1 DEF ElementsOf
  <2>3. ASSUME NEW e \in ElementsOf(r) PROVE e \in ElementsOf(s) /\ ~TooBig(e, upper)
    <3>1. PICK i \in 1..n : e = r[i]
      BY <1>4 DEF ElementsOf
    <3> QED BY <2>1, <3>1
  <2>4. ASSUME NEW e \in ElementsOf(s), ~TooBig(e, upper) PROVE e \in ElementsOf(r)
    <3>1. PICK i \in DOMAIN s : e = s[i]
      BY DEF ElementsOf
    <3> QED BY <2>2, <2>4, <3>1
  <2> QED BY <2>3, <2>4
<1> QED BY <1>5, <1>6, <1>8

\* What a scan from one bound to another finds, of the entries the leaves hold.
Within(S, low, up) == {e \in S : ~TooSmall(e, low) /\ ~TooBig(e, up)}
Exact(found, low, up) ==
  /\ Once(found) /\ Ascending(found)
  /\ Within(stored, low, up) \subseteq ElementsOf(found)
  /\ ElementsOf(found) \subseteq Within(stored \cup doubtful, low, up)
Ordered(R, h, lo, hi) ==
  /\ Tree(pages, R, h) /\ Chained(pages, R, stored, stored \cup doubtful)
  /\ Ranged(pages, R, h, lo, hi, hi) /\ stored \cup doubtful \subseteq Entry

\* The leaf a search ends in, and the leaves a key is not in.
LEMMA SearchedLeaf ==
  ASSUME NEW R, NEW h, NEW lo, NEW hi, Ordered(R, h, lo, hi), NEW key \in Key, NEW p, p = Last(PathToLeaf(key))
  PROVE  /\ p \in Leaves(pages, R) /\ lo[p] <= key /\ key < hi[p]
         /\ \A q \in Leaves(pages, R) : q # p => \A e \in Content(pages, q) : e.key # key
<1>1. Tree(pages, R, h) /\ Ranged(pages, R, h, lo, hi, hi)
  BY DEF Ordered
<1>2. key \in Nat /\ key <= MaxKey
  BY TreeAssumption DEF Key, MaxKey
<1>3. PICK path : path = PathToLeaf(key)
  OBVIOUS
<1>4. Searched(R, h, key, path)
  BY <1>1, <1>2, <1>3, PathFacts
<1>5. \A i \in 1..Len(path) : lo[path[i]] <= key /\ key < hi[path[i]]
  BY <1>1, <1>2, <1>4, WayInRange
<1>6. p \in Leaves(pages, R) /\ lo[p] <= key /\ key < hi[p]
  <2>1. Len(path) \in 1..Len(path) /\ p = path[Len(path)]
    BY <1>3, <1>4 DEF Searched, Last
  <2>2. p \in Leaves(pages, R)
    BY <1>3, <1>4 DEF Searched
  <2> QED BY <1>5, <2>1, <2>2
<1>7. ASSUME NEW q \in Leaves(pages, R), q # p, NEW e \in Content(pages, q), e.key = key PROVE FALSE
  <2>1. p \in R /\ q \in R /\ h[p] = 0 /\ h[q] = 0
    BY <1>1, <1>6, NodeFacts DEF Leaves
  <2>2. hi[p] <= lo[q] \/ hi[q] <= lo[p]
    BY <1>1, <1>7, <2>1 DEF Ranged
  <2>3. lo[q] <= e.key /\ e.key < hi[q]
    BY <1>1, <2>1 DEF Ranged, InOrder, Content
  <2>4. lo[p] \in Nat /\ hi[p] \in Nat /\ lo[q] \in Nat /\ hi[q] \in Nat
    BY <1>1, <2>1 DEF Ranged
  <2> QED BY <1>2, <1>6, <1>7, <2>2, <2>3, <2>4
<1> QED BY <1>6, <1>7

\* A scan finds what lies within its bounds.
LEMMA RangeFacts ==
  ASSUME NEW R, NEW h, NEW lo, NEW hi, Ordered(R, h, lo, hi), NEW low \in AnyBound, NEW up \in AnyBound,
         NEW found, found = RangeSearch(low, up)
  PROVE  Exact(found, low, up)
<1> DEFINE L == Leaves(pages, R)
           W == {e \in Entry : ~TooSmall(e, low)}
<1>1. Tree(pages, R, h) /\ Ranged(pages, R, h, lo, hi, hi) /\ stored \cup doubtful \subseteq Entry
  BY DEF Ordered
<1>2. PICK first, place, M : /\ Linked(pages, L, first, place) /\ Leftmost(pages, R, M, first)
                             /\ Holds(pages, L, stored, stored \cup doubtful)
  BY DEF Ordered, Chained
<1>3. PICK start : start = IF low = Nothing THEN LeftmostLeaf ELSE Last(PathToLeaf(low.key))
  OBVIOUS
<1>4. /\ start \in L
      /\ \A q \in L : place[q] < place[start] => \A e \in Content(pages, q) : TooSmall(e, low)
  <2>1. CASE low = Nothing
    <3>1. start = first
      BY <1>1, <1>2, <1>3, <2>1, LeftmostIsFirst
    <3>2. start \in L /\ \A q \in L : place[start] <= place[q] /\ place[q] \in Nat
      BY <1>1, <1>2, <3>1 DEF Linked, Tree
    <3> QED BY <3>2
  <2>2. CASE low # Nothing
    <3>1. low \in Bound /\ low.key \in Key /\ low.key \in Nat
      BY <2>2, BoundFacts DEF AnyBound, Bound
    <3>2. start = Last(PathToLeaf(low.key))
      BY <1>3, <2>2
    <3>3. start \in L /\ lo[start] <= low.key
      BY <3>1, <3>2, SearchedLeaf
    <3>4. ASSUME NEW q \in L, place[q] < place[start], NEW e \in Content(pages, q) PROVE TooSmall(e, low)
      <4>1. hi[q] <= lo[start]
        BY <1>1, <1>2, <3>3, <3>4, LeavesApart
      <4>2. q \in R /\ h[q] = 0 /\ start \in R
        BY <1>1, <3>3, NodeFacts DEF Leaves
      <4>3. e.key < hi[q] /\ hi[q] \in Nat /\ lo[start] \in Nat
        BY <1>1, <4>2 DEF Ranged, InOrder, Content
      <4>4. e.key \in Nat
        <5>1. e \in Entry
          BY <1>1, <1>2, <3>4 DEF Holds
        <5> QED BY <5>1, EntryFields DEF Keyed
      <4>5. e.key < low.key /\ e.key <= low.key
        BY <3>1, <3>3, <4>1, <4>3, <4>4
      <4> QED BY <2>2, <4>5 DEF TooSmall
    <3> QED BY <3>3, <3>4
  <2> QED BY <2>1, <2>2
<1>5. PICK all : all = Flat(Chain(start))
  OBVIOUS
<1>6. all \in Seq(Entry) /\ Once(all) /\ Ascending(all) /\ ElementsOf(all) = Onward(L, place, start)
  BY <1>1, <1>2, <1>4, <1>5, ScanFacts
<1>7. PICK inside : inside = Only(W, all)
  OBVIOUS
<1>8. /\ inside \in Seq(Entry) /\ Once(inside) /\ Ascending(inside)
      /\ ElementsOf(inside) = ElementsOf(all) \cap W
  <2> HIDE DEF W
  <2> QED BY <1>6, <1>7, EntryFields, OnlyFacts
<1>9. found = UpTill(inside, up)
  BY <1>3, <1>5, <1>7 DEF RangeSearch, UpTill
<1>10. /\ Once(found) /\ Ascending(found)
       /\ ElementsOf(found) = {e \in ElementsOf(inside) : ~TooBig(e, up)}
  BY <1>8, <1>9, UpTillFacts
<1> HIDE DEF L
<1>11. ASSUME NEW e \in stored, ~TooSmall(e, low) PROVE e \in ElementsOf(all)
  <2>1. PICK q \in L : e \in Content(pages, q)
    BY <1>2 DEF Holds
  <2>2. place[q] \in Nat /\ place[start] \in Nat
    BY <1>1, <1>2, <1>4 DEF Linked, Tree
  <2>3. place[start] <= place[q]
    BY <1>4, <1>11, <2>1, <2>2
  <2> QED BY <1>6, <2>1, <2>3 DEF Onward
<1>12. ElementsOf(all) \subseteq stored \cup doubtful
  BY <1>2, <1>6 DEF Holds, Onward
<1>13. Within(stored, low, up) \subseteq ElementsOf(found)
  BY <1>1, <1>8, <1>10, <1>11 DEF Within
<1>14. ElementsOf(found) \subseteq Within(stored \cup doubtful, low, up)
  BY <1>8, <1>10, <1>12 DEF Within
<1> QED BY <1>10, <1>13, <1>14 DEF Exact

\* Between operations, and without mishap, the tree's leaves are chained and in order.
LEMMA OrderedTree ==
  ASSUME TypeInv, ChainInv, Idle, damage = {}
  PROVE  /\ \E R, h, lo, hi : Ordered(R, h, lo, hi)
         /\ \A e \in stored \cup doubtful : e \in Entry /\ e.key \in 1..MaxKey
         /\ MaxKey \in Nat
<1>1. ~torn /\ TypeOK
  BY DEF TypeInv, StepOK
<1>2. PICK R, h : /\ Tree(pages, R, h) /\ Chained(pages, R, stored, stored \cup doubtful)
                  /\ Sorted(pages, R, h, Nothing)
  BY <1>1 DEF ChainInv, Good
<1>3. PICK lo, hi : Ranged(pages, R, h, lo, hi, hi)
  BY <1>2, SortedWhole
<1>4. stored \cup doubtful \subseteq Entry
  BY <1>1, TypeMeans DEF Rest
<1>5. \A e \in Entry : e.key \in 1..MaxKey
  BY EntryFields DEF Key
<1>6. MaxKey \in Nat
  BY TreeAssumption DEF MaxKey
<1>7. Ordered(R, h, lo, hi)
  BY <1>2, <1>3, <1>4 DEF Ordered
<1> QED BY <1>4, <1>5, <1>6, <1>7

\* Until halves of a leaf have shared a key or a crash has cut a node in half, a search finds
\* each entry of its key that was inserted and not deleted, once, and none else but those a
\* crash left in doubt.
THEOREM SearchCorrect == Spec => []SearchIsExact
<1>1. TypeInv /\ ChainInv => SearchIsExact
  <2> SUFFICES ASSUME TypeInv, ChainInv, Idle, damage = {}, NEW k \in Key
               PROVE  Exactly(Search(k), k, k)
    BY DEF SearchIsExact
  <2>1. \A e \in stored \cup doubtful : e \in Entry /\ e.key \in 1..MaxKey
    BY OrderedTree
  <2>2. PICK R, h, lo, hi : Ordered(R, h, lo, hi)
    BY OrderedTree
  <2>3. PICK p : p = Last(PathToLeaf(k))
    OBVIOUS
  <2>4. /\ p \in Leaves(pages, R)
        /\ \A q \in Leaves(pages, R) : q # p => \A e \in Content(pages, q) : e.key # k
    BY <2>2, <2>3, SearchedLeaf
  <2>5. PICK first, place, M : Holds(pages, Leaves(pages, R), stored, stored \cup doubtful)
    BY <2>2 DEF Ordered, Chained
  <2>6. pages[p].entries \in Seq(Entry) /\ Once(pages[p].entries)
    BY <2>2, <2>4, <2>5, NodeFacts DEF Ordered, Leaves, Holds
  <2>7. PICK W : W = {e \in Entry : e.key = k}
    OBVIOUS
  <2>8. PICK found : found = Search(k) /\ found = Only(W, pages[p].entries)
    BY <2>3, <2>7 DEF Search
  <2>9. Once(found) /\ ElementsOf(found) = Content(pages, p) \cap W
    BY <2>6, <2>8, OnlyFacts DEF Content
  <2>10. k \in Nat
    BY TreeAssumption DEF Key, MaxKey
  <2>11. \A e \in stored \cup doubtful : (k <= e.key /\ e.key <= k) <=> e \in W
    <3>1. \A e \in stored \cup doubtful : e.key \in Nat
      BY <2>1
    <3>2. \A e \in stored \cup doubtful : (k <= e.key /\ e.key <= k) <=> e.key = k
      BY <2>10, <3>1
    <3> QED BY <2>1, <2>7, <3>2
  <2>12. ASSUME NEW e \in stored, e \in W PROVE e \in ElementsOf(found)
    <3>1. PICK q \in Leaves(pages, R) : e \in Content(pages, q)
      BY <2>5 DEF Holds
    <3>2. q = p
      BY <2>4, <2>7, <2>12, <3>1
    <3> QED BY <2>9, <2>12, <3>1, <3>2
  <2>13. ElementsOf(found) \subseteq (stored \cup doubtful) \cap W
    BY <2>4, <2>5, <2>9 DEF Holds
  <2>14. Exactly(found, k, k)
    BY <2>9, <2>11, <2>12, <2>13 DEF Exactly
  <2> QED BY <2>8, <2>14
<1>2. Init => TypeInv /\ ChainInv
  BY InitTypes, InitChained
<1>3. TypeInv /\ ChainInv /\ [Next]_vars => (TypeInv /\ ChainInv)'
  BY TypesKept, ChainKept
<1> QED BY <1>1, <1>2, <1>3, PTL DEF Spec

\* As long, a scan from or up to a bound finds, in the order of their keys, each entry within
\* it that was inserted and not deleted, once, and none else but those a crash left in doubt.
THEOREM RangeCorrect == Spec => []RangeIsExact
<1>1. TypeInv /\ ChainInv => RangeIsExact
  <2> SUFFICES ASSUME TypeInv, ChainInv, Idle, damage = {}, NEW b \in Bound
               PROVE  /\ Exactly(RangeSearch(b, Nothing), IF b.inclusive THEN b.key ELSE b.key + 1, MaxKey)
                      /\ Ascending(RangeSearch(b, Nothing))
                      /\ Exactly(RangeSearch(Nothing, b), 1, IF b.inclusive THEN b.key ELSE b.key - 1)
                      /\ Ascending(RangeSearch(Nothing, b))
    BY DEF RangeIsExact
  <2>1. PICK S : S = stored \cup doubtful
    OBVIOUS
  <2>2. MaxKey \in Nat /\ \A e \in S : e.key \in 1..MaxKey
    BY <2>1, OrderedTree
  <2>3. PICK R, h, lo, hi : Ordered(R, h, lo, hi)
    BY OrderedTree
  <2>4. b # Nothing /\ b.key \in Nat /\ b.inclusive \in BOOLEAN /\ b \in AnyBound /\ Nothing \in AnyBound
    BY BoundFacts DEF AnyBound
  <2>5. Exact(RangeSearch(b, Nothing), b, Nothing) /\ Exact(RangeSearch(Nothing, b), Nothing, b)
    BY <2>3, <2>4, RangeFacts
  <2>6. \A e : ~TooSmall(e, Nothing) /\ ~TooBig(e, Nothing)
    BY DEF TooSmall, TooBig
  <2>7. PICK least, most : /\ least = IF b.inclusive THEN b.key ELSE b.key + 1
                           /\ most = IF b.inclusive THEN b.key ELSE b.key - 1
    OBVIOUS
  <2>8. \A e \in S : /\ ~TooSmall(e, b) <=> least <= e.key /\ e.key <= MaxKey
                     /\ ~TooBig(e, b) <=> 1 <= e.key /\ e.key <= most
    <3> SUFFICES ASSUME NEW e \in S
                 PROVE  /\ ~TooSmall(e, b) <=> least <= e.key /\ e.key <= MaxKey
                        /\ ~TooBig(e, b) <=> 1 <= e.key /\ e.key <= most
      OBVIOUS
    <3>1. e.key \in Nat /\ 1 <= e.key /\ e.key <= MaxKey
      BY <2>2
    <3>2. CASE b.inclusive
      BY <2>2, <2>4, <2>7, <3>1, <3>2 DEF TooSmall, TooBig
    <3>3. CASE ~b.inclusive
      BY <2>2, <2>4, <2>7, <3>1, <3>3 DEF TooSmall, TooBig
    <3> QED BY <3>2, <3>3
  <2>9. \A T : T \subseteq S => /\ Within(T, b, Nothing) = {e \in T : least <= e.key /\ e.key <= MaxKey}
                                /\ Within(T, Nothing, b) = {e \in T : 1 <= e.key /\ e.key <= most}
    BY <2>6, <2>8 DEF Within
  <2>10. /\ Within(stored, b, Nothing) = {e \in stored : least <= e.key /\ e.key <= MaxKey}
         /\ Within(S, b, Nothing) = {e \in S : least <= e.key /\ e.key <= MaxKey}
         /\ Within(stored, Nothing, b) = {e \in stored : 1 <= e.key /\ e.key <= most}
         /\ Within(S, Nothing, b) = {e \in S : 1 <= e.key /\ e.key <= most}
    BY <2>1, <2>9
  <2>11. Exactly(RangeSearch(b, Nothing), least, MaxKey) /\ Ascending(RangeSearch(b, Nothing))
    BY <2>1, <2>5, <2>10 DEF Exact, Exactly
  <2>12. Exactly(RangeSearch(Nothing, b), 1, most) /\ Ascending(RangeSearch(Nothing, b))
    BY <2>1, <2>5, <2>10 DEF Exact, Exactly
  <2> QED BY <2>7, <2>11, <2>12
<1>2. Init => TypeInv /\ ChainInv
  BY InitTypes, InitChained
<1>3. TypeInv /\ ChainInv /\ [Next]_vars => (TypeInv /\ ChainInv)'
  BY TypesKept, ChainKept
<1> QED BY <1>1, <1>2, <1>3, PTL DEF Spec

==============================================================================
