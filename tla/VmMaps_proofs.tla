--------------------------- MODULE VmMaps_proofs ---------------------------
(***************************************************************************)
(* Proofs about the operations on paging structures, for any number of     *)
(* entries of a structure and any memory, and about the reference counts   *)
(* of maps, the structures they keep and share, and the translations the   *)
(* processor caches, for any number of maps and any regions.               *)
(***************************************************************************)
EXTENDS VmMaps, FiniteSetTheorems, TLAPS

-----------------------------------------------------------------------------
(* Paging structures.                                                        *)

T == TableEntries

LEMMA TIsNat == T \in Nat /\ T > 1 /\ Boundary \in Nat /\ Frames \subseteq Nat \ {0}
BY TablesAssumption DEF T, Boundary

-----------------------------------------------------------------------------
(* Arithmetic of indexes.                                                  *)

LEMMA Divided ==
  ASSUME NEW v \in Nat, NEW n \in Nat \ {0}
  PROVE  /\ v \div n \in Nat /\ v % n \in 0 .. (n - 1)
         /\ v = n * (v \div n) + (v % n)
OBVIOUS

\* A quotient is determined by the multiples around a number.
LEMMA QuotientIs ==
  ASSUME NEW v \in Nat, NEW n \in Nat \ {0}, NEW q \in Nat,
         NEW r \in 0 .. (n - 1), v = n * q + r
  PROVE  v \div n = q /\ v % n = r
<1> DEFINE p == v \div n
           s == v % n
<1>1. p \in Nat /\ s \in 0 .. (n - 1) /\ v = n * p + s
  BY Divided
<1> HIDE DEF p, s
<1>2. n * (p - q) = r - s
  BY <1>1
<1>3. p = q
  <2>1. ASSUME NEW d \in Nat \ {0} PROVE n * d >= n
    BY <2>1
  <2>2. ~(p > q)
    <3>1. p > q => p - q \in Nat \ {0}
      BY <1>1
    <3>2. p > q => n * (p - q) >= n
      BY <2>1, <3>1
    <3>3. QED
      BY <1>1, <1>2, <3>2
  <2>3. ~(q > p)
    <3>1. q > p => q - p \in Nat \ {0}
      BY <1>1
    <3>2. q > p => n * (q - p) >= n
      BY <2>1, <3>1
    <3>3. n * (q - p) = s - r
      BY <1>1
    <3>4. QED
      BY <1>1, <3>2, <3>3
  <2>4. QED
    BY <1>1, <2>2, <2>3
<1>4. QED
  BY <1>1, <1>2, <1>3 DEF p, s

LEMMA DividedTwice ==
  ASSUME NEW v \in Nat, NEW m \in Nat \ {0}, NEW n \in Nat \ {0}
  PROVE  v \div (m * n) = (v \div m) \div n
<1> DEFINE a == v \div m
           b == v % m
           q == a \div n
           r == a % n
<1>1. a \in Nat /\ b \in 0 .. (m - 1) /\ v = m * a + b
  BY Divided
<1>2. q \in Nat /\ r \in 0 .. (n - 1) /\ a = n * q + r
  BY <1>1, Divided
<1> HIDE DEF a, b, q, r
<1>3. v = (m * n) * q + (m * r + b)
  BY <1>1, <1>2
<1>4. m * n \in Nat \ {0}
  BY <1>1
<1>5. m * r + b \in 0 .. (m * n - 1)
  <2>1. m * r \in Nat
    BY <1>2
  <2>2. m * r <= m * (n - 1)
    <3>1. n - 1 - r \in Nat
      BY <1>2
    <3>2. m * (n - 1 - r) \in Nat
      BY <3>1
    <3>3. m * (n - 1) = m * r + m * (n - 1 - r)
      BY <1>2
    <3>4. QED
      BY <1>2, <2>1, <3>2, <3>3
  <2>3. m * (n - 1) = m * n - m
    OBVIOUS
  <2>4. QED
    BY <1>1, <1>4, <2>1, <2>2, <2>3
<1>6. v \div (m * n) = q
  <2> DEFINE k == m * n
             s == m * r + b
  <2> HIDE DEF k, s
  <2>1. k \in Nat \ {0} /\ s \in 0 .. (k - 1) /\ v = k * q + s
    BY <1>3, <1>4, <1>5 DEF k, s
  <2>2. v \div k = q
    BY <1>2, <2>1, QuotientIs
  <2>3. QED
    BY <2>2 DEF k
<1>7. QED
  BY <1>6 DEF q, a

\* The indexes of a page are its digits, and a canonical page has no more.
LEMMA Digits ==
  ASSUME NEW v \in Nat
  PROVE  /\ Index(v, 1) = v % T
         /\ Index(v, 2) = (v \div T) % T
         /\ Index(v, 3) = ((v \div T) \div T) % T
         /\ Index(v, 4) = (((v \div T) \div T) \div T) % T
<1>1. T \in Nat \ {0} /\ T * T \in Nat \ {0}
  BY TIsNat
<1>2. v \div 1 = v
  OBVIOUS
<1>3. v \div (T * T) = (v \div T) \div T
  BY <1>1, DividedTwice
<1>4. v \div (T * T * T) = (v \div (T * T)) \div T
  BY <1>1, DividedTwice
<1>5. Reach(1) = 1 /\ Reach(2) = T /\ Reach(3) = T * T /\ Reach(4) = T * T * T
  BY DEF Reach, T
<1>6. QED
  BY <1>2, <1>3, <1>4, <1>5 DEF Index, T

LEMMA IndexInTable ==
  ASSUME NEW v \in Nat
  PROVE  \A k \in 1 .. 4 : Index(v, k) \in Indexes
<1>1. T \in Nat \ {0} /\ Indexes = 0 .. (T - 1)
  BY TIsNat DEF Indexes, T
<1>2. \A w \in Nat : w % T \in Indexes /\ w \div T \in Nat
  BY <1>1, Divided
<1>3. QED
  BY <1>2, Digits

\* Multiples of T change no last digit.
LEMMA MultipleAdded ==
  ASSUME NEW a \in Nat, NEW b \in Nat
  PROVE  /\ (a * T + b) % T = b % T
         /\ (a * T + b) \div T = a + b \div T
<1> DEFINE q == b \div T
           r == b % T
<1>1. T \in Nat \ {0}
  BY TIsNat
<1>2. q \in Nat /\ r \in 0 .. (T - 1) /\ b = T * q + r
  BY <1>1, Divided
<1> HIDE DEF q, r
<1>3. a * T + b \in Nat /\ a + q \in Nat /\ a * T + b = T * (a + q) + r
  BY <1>1, <1>2
<1>4. (a * T + b) \div T = a + q /\ (a * T + b) % T = r
  BY <1>1, <1>2, <1>3, QuotientIs
<1>5. QED
  BY <1>4 DEF q, r

\* The page at offset o of the pages below PML4 entry i.
LEMMA SlotPage ==
  ASSUME NEW i \in Indexes, NEW o \in 0 .. (Reach(4) - 1)
  PROVE  LET x == i * Reach(4) + o
         IN  /\ x \in Nat /\ x < VirtualPages /\ x % Reach(4) = o
             /\ Index(x, 4) = i
             /\ \A k \in 1 .. 3 : Index(x, k) = Index(o, k)
<1> DEFINE N == T * T * T
           x == i * N + o
           o1 == o \div T
           o2 == o1 \div T
<1>1. T \in Nat \ {0} /\ i \in 0 .. (T - 1) /\ T * T \in Nat \ {0}
  BY TIsNat DEF Indexes, T
<1>2. N \in Nat \ {0}
  BY <1>1
<1>3. Reach(4) = N /\ VirtualPages = T * N
  BY DEF VirtualPages, Reach, T
<1>4. o \in 0 .. (N - 1) /\ o \in Nat
  BY <1>2, <1>3
<1>5. o1 \in Nat /\ o2 \in Nat
  BY <1>1, <1>4, Divided
<1>6. o2 \div T = 0
  <2>1. o = N * 0 + o
    BY <1>2, <1>4
  <2>2. o \div N = 0
    <3> HIDE DEF N
    <3>1. QED
      BY <1>2, <1>4, <2>1, QuotientIs
  <2>3. o \div (T * T * T) = (o \div (T * T)) \div T
    BY <1>1, <1>4, DividedTwice
  <2>4. o \div (T * T) = o2
    BY <1>1, <1>4, DividedTwice
  <2>5. QED
    BY <2>2, <2>3, <2>4
<1>7. x \in Nat /\ x = (i * (T * T)) * T + o /\ i * (T * T) \in Nat
  BY <1>1, <1>2, <1>4
<1>8. x % T = o % T /\ x \div T = i * (T * T) + o1
  BY <1>4, <1>7, MultipleAdded
<1>9. x \div T = (i * T) * T + o1 /\ i * T \in Nat
  BY <1>1, <1>5, <1>8
<1>10. (x \div T) % T = o1 % T /\ (x \div T) \div T = i * T + o2
  BY <1>5, <1>9, MultipleAdded
<1>11. ((x \div T) \div T) % T = o2 % T /\ ((x \div T) \div T) \div T = i
  <2> HIDE DEF x, o2
  <2>1. i \in Nat
    BY <1>1
  <2>2. (i * T + o2) % T = o2 % T /\ (i * T + o2) \div T = i + (o2 \div T)
    BY <1>5, <2>1, MultipleAdded
  <2>3. i + (o2 \div T) = i
    BY <1>6, <2>1
  <2>4. QED
    BY <1>10, <2>2, <2>3
<1>12. i % T = i
  <2>1. i = T * 0 + i
    BY <1>1
  <2>2. QED
    BY <1>1, <2>1, QuotientIs
<1>13. x % N = o
  <2>1. x = N * i + o /\ i \in Nat /\ x \in Nat
    BY <1>1, <1>2, <1>4, <1>7
  <2> HIDE DEF N, x
  <2>2. QED
    BY <1>2, <1>4, <2>1, QuotientIs
<1>14. x < T * N
  <2>1. T - 1 - i \in Nat
    BY <1>1
  <2>2. (T - 1 - i) * N \in Nat
    <3> HIDE DEF N
    <3>1. QED
      BY <1>2, <2>1
  <2>3. T * N = (T - 1 - i) * N + i * N + N
    <3> HIDE DEF N
    <3>1. QED
      BY <1>1, <1>2
  <2> HIDE DEF N
  <2>4. i * N \in Nat /\ T * N \in Nat
    BY <1>1, <1>2
  <2>5. QED
    BY <1>2, <1>4, <2>2, <2>3, <2>4 DEF x
<1>15. \A k \in 1 .. 3 : Index(x, k) = Index(o, k)
  BY <1>4, <1>7, <1>8, <1>10, <1>11, Digits
<1>16. Index(x, 4) = i
  BY <1>7, <1>11, <1>12, Digits
<1>17. QED
  BY <1>3, <1>7, <1>13, <1>14, <1>15, <1>16

\* Two canonical pages differ in one index at least.
LEMMA SamePage ==
  ASSUME NEW v \in Nat, NEW w \in Nat, v < VirtualPages, w < VirtualPages,
         \A k \in 1 .. 4 : Index(v, k) = Index(w, k)
  PROVE  v = w
<1>1. T \in Nat \ {0}
  BY TIsNat
<1>2. ASSUME NEW x \in Nat, x < VirtualPages PROVE ((x \div T) \div T) \div T < T
  <2>1. Reach(4) = T * T * T /\ T * T * T \in Nat \ {0}
    BY <1>1 DEF Reach, T
  <2> DEFINE R == T * T * T
  <2>2. x \div R = ((x \div T) \div T) \div T
    <3>1. x \div R = (x \div (T * T)) \div T
      BY <1>1, DividedTwice
    <3>2. x \div (T * T) = (x \div T) \div T
      BY <1>1, DividedTwice
    <3>3. QED
      BY <3>1, <3>2
  <2> HIDE DEF R
  <2>3. R \in Nat \ {0} /\ x < R * T
    BY <1>1, <1>2, <2>1 DEF VirtualPages, T, R
  <2>4. x \div R < T
    <3> DEFINE q == x \div R
    <3>1. q \in Nat /\ x >= R * q
      <4>1. q \in Nat /\ x % R \in 0 .. (R - 1) /\ x = R * q + (x % R)
        BY <2>3, Divided
      <4> HIDE DEF q
      <4>2. R * q \in Nat
        BY <2>3, <4>1
      <4>3. QED
        BY <2>3, <4>1, <4>2
    <3> HIDE DEF q
    <3>2. ~(q >= T)
      <4>1. q >= T => R * q >= R * T
        <5>1. q >= T => R * (q - T) \in Nat
          BY <1>1, <2>3, <3>1
        <5>2. R * (q - T) = R * q - R * T
          BY <1>1, <2>3, <3>1
        <5>3. R * q \in Nat /\ R * T \in Nat
          BY <1>1, <2>3, <3>1
        <5>4. QED
          BY <5>1, <5>2, <5>3
      <4>2. R * q \in Nat /\ R * T \in Nat
        BY <1>1, <2>3, <3>1
      <4>3. QED
        BY <2>3, <3>1, <4>1, <4>2
    <3>3. QED
      BY <1>1, <3>1, <3>2 DEF q
  <2>5. QED
    BY <2>2, <2>4
<1>3. \A x \in Nat : x \div T \in Nat /\ x = T * (x \div T) + (x % T)
  BY <1>1, Divided
<1>4. \A x \in Nat : x < T => x % T = x
  BY <1>1
<1> DEFINE v2 == v \div T
           v3 == v2 \div T
           v4 == v3 \div T
           w2 == w \div T
           w3 == w2 \div T
           w4 == w3 \div T
<1>5. v2 \in Nat /\ v3 \in Nat /\ v4 \in Nat /\ w2 \in Nat /\ w3 \in Nat /\ w4 \in Nat
  BY <1>3
<1>6. v4 % T = w4 % T /\ v3 % T = w3 % T /\ v2 % T = w2 % T /\ v % T = w % T
  BY Digits
<1>7. v4 = w4
  BY <1>2, <1>4, <1>5, <1>6
<1>8. v3 = w3
  BY <1>3, <1>5, <1>6, <1>7
<1>9. v2 = w2
  BY <1>3, <1>5, <1>6, <1>8
<1>10. QED
  BY <1>3, <1>6, <1>9

-----------------------------------------------------------------------------
(* The pages the allocator hands out.                                      *)

Rank(S, f) == Cardinality({g \in S : g < f})

LEMMA RankNat ==
  ASSUME NEW S \in SUBSET Nat, IsFiniteSet(S), NEW f
  PROVE  IsFiniteSet({g \in S : g < f}) /\ Rank(S, f) \in Nat
<1>1. {g \in S : g < f} \in SUBSET S
  OBVIOUS
<1>2. QED
  BY <1>1, FS_Subset, FS_CardinalityType DEF Rank

LEMMA RankLess ==
  ASSUME NEW S \in SUBSET Nat, IsFiniteSet(S), NEW f \in S, NEW g \in S, f < g
  PROVE  Rank(S, f) < Rank(S, g)
<1> DEFINE A == {x \in S : x < f}
           B == {x \in S : x < g}
<1>1. IsFiniteSet(A) /\ IsFiniteSet(B) /\ Cardinality(A) \in Nat /\ Cardinality(B) \in Nat
  BY RankNat, FS_CardinalityType
<1>2. f \notin A /\ A \cup {f} \in SUBSET B
  <2>1. f \in Int /\ g \in Int /\ \A x \in S : x \in Int
    OBVIOUS
  <2>2. ~(f < f) /\ \A x \in S : x < f => x < g
    BY <2>1
  <2>3. QED
    BY <2>2
<1>3. Cardinality(A \cup {f}) = Cardinality(A) + 1
  BY <1>1, <1>2, FS_AddElement
<1>4. Cardinality(A \cup {f}) <= Cardinality(B)
  BY <1>1, <1>2, FS_Subset
<1>5. QED
  BY <1>1, <1>3, <1>4 DEF Rank

LEMMA RankOnce ==
  ASSUME NEW S \in SUBSET Nat, IsFiniteSet(S), NEW f \in S, NEW g \in S,
         Rank(S, f) = Rank(S, g)
  PROVE  f = g
<1> SUFFICES ASSUME f # g PROVE FALSE
  OBVIOUS
<1>1. f < g \/ g < f
  OBVIOUS
<1>2. Rank(S, f) \in Nat /\ Rank(S, g) \in Nat
  BY RankNat
<1>3. QED
  BY <1>1, <1>2, RankLess

\* The pages of a set are numbered by their ranks, from 0.
LEMMA NthPage ==
  ASSUME NEW S \in SUBSET Nat, IsFiniteSet(S), NEW n \in Nat, n < Cardinality(S)
  PROVE  Nth(S, n) \in S /\ Rank(S, Nth(S, n)) = n
<1> DEFINE m == Cardinality(S)
           R == 0 .. (m - 1)
           h == [f \in S |-> Rank(S, f)]
<1>1. m \in Nat
  BY FS_CardinalityType
<1>2. IsFiniteSet(R) /\ Cardinality(R) = m
  <2> HIDE DEF m
  <2>1. 0 \in Int /\ m - 1 \in Int
    BY <1>1
  <2>2. IsFiniteSet(R) /\ Cardinality(R) = IF 0 > m - 1 THEN 0 ELSE m - 1 - 0 + 1
    BY <2>1, FS_Interval
  <2>3. QED
    BY <1>1, <2>2
<1>3. ASSUME NEW f \in S PROVE Rank(S, f) \in R
  <2> DEFINE A == {g \in S : g < f}
  <2>1. A \in SUBSET S /\ A # S
    <3>1. f \in Int
      OBVIOUS
    <3>2. ~(f < f)
      BY <3>1
    <3>3. QED
      BY <3>2
  <2>2. Cardinality(A) <= m /\ Cardinality(A) # m
    BY <2>1, FS_Subset
  <2>3. Rank(S, f) \in Nat /\ Rank(S, f) = Cardinality(A)
    BY RankNat DEF Rank
  <2>4. QED
    BY <1>1, <2>2, <2>3
<1>4. h \in Injection(S, R)
  <2>1. h \in [S -> R]
    BY <1>3
  <2>2. ASSUME NEW f \in S, NEW g \in S, h[f] = h[g] PROVE f = g
    BY <2>2, RankOnce
  <2> HIDE DEF h, R
  <2>3. QED
    BY <2>1, <2>2, Zenon DEF Injection, IsInjective
<1>5. h \in Surjection(S, R)
  BY <1>2, <1>4, FS_Injection
<1>6. n \in R
  BY <1>1
<1>7. \E f \in S : Rank(S, f) = n
  BY <1>5, <1>6 DEF Surjection
<1>8. QED
  BY <1>7 DEF Nth, Rank

LEMMA LowestPage ==
  ASSUME NEW S \in SUBSET Nat, IsFiniteSet(S), S # {}
  PROVE  Lowest(S) \in S /\ Rank(S, Lowest(S)) = 0
<1>1. Cardinality(S) \in Nat /\ Cardinality(S) # 0
  BY FS_CardinalityType, FS_EmptySet
<1>2. Nth(S, 0) \in S /\ Rank(S, Nth(S, 0)) = 0
  BY <1>1, NthPage
<1>3. {g \in S : g < Nth(S, 0)} = {}
  BY <1>2, RankNat, FS_EmptySet DEF Rank
<1> DEFINE f == Nth(S, 0)
<1> HIDE DEF f
<1>4. f \in S /\ f \in Nat
  BY <1>2 DEF f
<1>5. \A g \in S : f <= g
  <2>1. \A g \in S : g \in Int /\ ~(g < f)
    BY <1>3 DEF f
  <2>2. QED
    BY <1>4, <2>1
<1>6. Lowest(S) \in S /\ \A g \in S : Lowest(S) <= g
  BY <1>4, <1>5 DEF Lowest
<1>7. Lowest(S) = f
  <2>1. Lowest(S) <= f /\ f <= Lowest(S) /\ Lowest(S) \in Nat
    BY <1>4, <1>5, <1>6
  <2>2. QED
    BY <1>4, <2>1
<1>8. QED
  BY <1>2, <1>6, <1>7 DEF f

-----------------------------------------------------------------------------
(* The shape of the structures.  A level is given to every structure: 4 to *)
(* a PML4, 1 to a page table, 0 to what is no structure.  The structures of *)
(* a deleted map keep theirs, except for its PML4.                         *)

Entries == [kind : {"absent", "table", "large", "page"},
            to : Nat, write : BOOLEAN, user : BOOLEAN]

\* What entry i of structure f may be.
GoodEntry(level, f, i, e) ==
  \/ e = Absent
  \/ /\ e.kind = "table"
     /\ level[f] \in 2 .. 4
     /\ e.to \in Frames
     /\ level[e.to] = level[f] - 1
     /\ level[f] = 4 /\ i >= Boundary => ~e.user
  \/ e.kind = "large" /\ level[f] = 3
  \/ e.kind = "page" /\ level[f] = 1

\* Two links lead to different structures, but for those of the kernel's half.
GoodLinks(tab, level) ==
  \A f, g \in Frames : \A i, j \in Indexes :
    /\ level[f] # 0 /\ tab[f][i].kind = "table"
    /\ level[g] # 0 /\ tab[g][j].kind = "table"
    /\ tab[f][i].to = tab[g][j].to
    => i = j /\ (f = g \/ (level[f] = 4 /\ i >= Boundary))

GoodEntries(tab, level) ==
  \A f \in Frames : level[f] # 0 =>
    \A i \in Indexes : GoodEntry(level, f, i, tab[f][i])

Typed(tab, av, level) ==
  /\ level \in [Frames -> 0 .. 4]
  /\ tab \in [Frames -> [Indexes -> Entries]]
  /\ av \subseteq Frames
  /\ \A f \in av : level[f] = 0

Shaped(tab, av, level) ==
  Typed(tab, av, level) /\ GoodEntries(tab, level) /\ GoodLinks(tab, level)

\* What a structure holds stays when entries are only added.
Kept(tab, level, tab2, level2) ==
  \A f \in Frames : level[f] # 0 =>
    /\ level2[f] = level[f]
    /\ \A i \in Indexes : tab[f][i] # Absent => tab2[f][i] = tab[f][i]

SameTranslations(tab, level, tab2) ==
  \A r \in Frames, v \in Nat :
    level[r] = 4 => Translation(tab2, r, v) = Translation(tab, r, v)

-----------------------------------------------------------------------------
(* The walk.                                                               *)

E4(tab, r, v) == tab[r][Index(v, 4)]
E3(tab, r, v) == Follow(tab, E4(tab, r, v), v, 3)
E2(tab, r, v) == Follow(tab, E3(tab, r, v), v, 2)
E1(tab, r, v) == Follow(tab, E2(tab, r, v), v, 1)

LEMMA Walk ==
  ASSUME NEW tab, NEW r, NEW v
  PROVE  /\ Path(tab, r, v) = <<E1(tab, r, v), E2(tab, r, v), E3(tab, r, v), E4(tab, r, v)>>
         /\ Translation(tab, r, v) =
              IF E3(tab, r, v).kind = "large" THEN E3(tab, r, v)
              ELSE IF E2(tab, r, v).kind = "large" THEN E2(tab, r, v)
              ELSE E1(tab, r, v)
BY DEF Path, PathBelow, E1, E2, E3, E4, Translation, Mapped

\* What the structures below PDPT w translate offset o to.
Below4(tab, w, o) == Mapped(PathBelow(tab, Entry("table", w, TRUE, FALSE), o))

LEMMA TranslationBelow ==
  ASSUME NEW tab, NEW r, NEW i \in Indexes, NEW o \in 0 .. (Reach(4) - 1),
         tab[r][i].kind = "table"
  PROVE  Below4(tab, tab[r][i].to, o) = Translation(tab, r, i * Reach(4) + o)
<1> DEFINE x == i * Reach(4) + o
           w == tab[r][i].to
           d == Entry("table", w, TRUE, FALSE)
<1>1. Index(x, 4) = i /\ Index(x, 3) = Index(o, 3)
      /\ Index(x, 2) = Index(o, 2) /\ Index(x, 1) = Index(o, 1)
  BY SlotPage
<1>2. E4(tab, r, x) = tab[r][i] /\ d.kind = "table" /\ d.to = w
  BY <1>1 DEF E4, Entry
<1> HIDE DEF x
<1>3. E3(tab, r, x) = Follow(tab, d, o, 3)
  BY <1>1, <1>2 DEF E3, Follow
<1> DEFINE d3 == Follow(tab, d, o, 3)
           d2 == Follow(tab, d3, o, 2)
           d1 == Follow(tab, d2, o, 1)
<1>4. Below4(tab, w, o) = IF d3.kind = "large" THEN d3 ELSE IF d2.kind = "large" THEN d2 ELSE d1
  BY DEF Below4, PathBelow, Mapped
<1>5. E3(tab, r, x) = d3 /\ E2(tab, r, x) = d2 /\ E1(tab, r, x) = d1
  BY <1>1, <1>3 DEF E2, E1, Follow
<1> HIDE DEF d1, d2, d3, w
<1>6. QED
  BY <1>4, <1>5, Walk DEF w, x

LEMMA AbsentEntry ==
  /\ Absent \in Entries
  /\ Absent.kind = "absent" /\ Absent.user = FALSE
BY DEF Absent, Entry, Entries

LEMMA LeafEntry ==
  ASSUME NEW page \in Nat, NEW mode
  PROVE  Leaf(page, mode) \in Entries /\ Leaf(page, mode).kind = "page"
BY SMT DEF Leaf, Entry, Entries

LEMMA AbsentBelow ==
  ASSUME NEW tab, NEW v, NEW k
  PROVE  Follow(tab, Absent, v, k) = Absent
BY AbsentEntry DEF Follow

\* How far a walk from a PML4 can come.
WalkTo3(tab, level, r, v) ==
  /\ E4(tab, r, v).kind = "table" /\ E4(tab, r, v).to \in Frames
  /\ level[E4(tab, r, v).to] = 3
  /\ E3(tab, r, v) = tab[E4(tab, r, v).to][Index(v, 3)]

WalkTo2(tab, level, r, v) ==
  /\ WalkTo3(tab, level, r, v)
  /\ E3(tab, r, v).kind = "table" /\ E3(tab, r, v).to \in Frames
  /\ level[E3(tab, r, v).to] = 2
  /\ E2(tab, r, v) = tab[E3(tab, r, v).to][Index(v, 2)]

WalkTo1(tab, level, r, v) ==
  /\ WalkTo2(tab, level, r, v)
  /\ E2(tab, r, v).kind = "table" /\ E2(tab, r, v).to \in Frames
  /\ level[E2(tab, r, v).to] = 1
  /\ E1(tab, r, v) = tab[E2(tab, r, v).to][Index(v, 1)]

LEMMA WalkShape ==
  ASSUME NEW tab, NEW av, NEW level, Shaped(tab, av, level),
         NEW r \in Frames, level[r] = 4, NEW v \in Nat
  PROVE  \/ /\ E4(tab, r, v) = Absent /\ E3(tab, r, v) = Absent
            /\ E2(tab, r, v) = Absent /\ E1(tab, r, v) = Absent
            /\ Translation(tab, r, v) = Absent
         \/ /\ WalkTo3(tab, level, r, v)
            /\ E3(tab, r, v) = Absent
            /\ E2(tab, r, v) = Absent /\ E1(tab, r, v) = Absent
            /\ Translation(tab, r, v) = Absent
         \/ /\ WalkTo3(tab, level, r, v)
            /\ E3(tab, r, v).kind = "large"
            /\ Translation(tab, r, v) = E3(tab, r, v)
         \/ /\ WalkTo2(tab, level, r, v)
            /\ E2(tab, r, v) = Absent /\ E1(tab, r, v) = Absent
            /\ Translation(tab, r, v) = Absent
         \/ /\ WalkTo1(tab, level, r, v)
            /\ E1(tab, r, v) = Absent \/ E1(tab, r, v).kind = "page"
            /\ Translation(tab, r, v) = E1(tab, r, v)
<1> DEFINE e4 == E4(tab, r, v)
           e3 == E3(tab, r, v)
           e2 == E2(tab, r, v)
           e1 == E1(tab, r, v)
<1>1. /\ Index(v, 1) \in Indexes /\ Index(v, 2) \in Indexes
      /\ Index(v, 3) \in Indexes /\ Index(v, 4) \in Indexes
  BY IndexInTable
<1>2. \A f \in Frames : level[f] # 0 =>
        \A i \in Indexes : GoodEntry(level, f, i, tab[f][i])
  BY DEF Shaped, GoodEntries
<1>3. e4 = Absent \/ (e4.kind = "table" /\ e4.to \in Frames /\ level[e4.to] = 3)
  BY <1>1, <1>2 DEF GoodEntry, E4
<1>4. CASE e4 = Absent
  <2>1. e3 = Absent
    BY <1>4, AbsentBelow DEF E3
  <2>2. e2 = Absent
    BY <2>1, AbsentBelow DEF E2
  <2>3. e1 = Absent
    BY <2>2, AbsentBelow DEF E1
  <2>4. QED
    BY <1>4, <2>1, <2>2, <2>3, Walk, AbsentEntry
<1>5. CASE e4 # Absent
  <2>1. WalkTo3(tab, level, r, v)
    BY <1>3, <1>5 DEF WalkTo3, E3, Follow
  <2>2. GoodEntry(level, e4.to, Index(v, 3), e3)
    BY <1>1, <1>2, <2>1 DEF WalkTo3
  <2>3. CASE e3 = Absent
    <3>1. e2 = Absent
      BY <2>3, AbsentBelow DEF E2
    <3>2. e1 = Absent
      BY <3>1, AbsentBelow DEF E1
    <3>3. QED
      BY <2>1, <2>3, <3>1, <3>2, Walk, AbsentEntry
  <2>4. CASE e3 # Absent /\ e3.kind = "large"
    BY <2>1, <2>4, Walk
  <2>5. CASE e3 # Absent /\ e3.kind # "large"
    <3>1. WalkTo2(tab, level, r, v)
      BY <2>1, <2>2, <2>5 DEF WalkTo2, WalkTo3, GoodEntry, E2, Follow
    <3>2. GoodEntry(level, e3.to, Index(v, 2), e2)
      BY <1>1, <1>2, <3>1 DEF WalkTo2
    <3>3. CASE e2 = Absent
      <4>1. e1 = Absent
        BY <3>3, AbsentBelow DEF E1
      <4>2. QED
        BY <2>5, <3>1, <3>3, <4>1, Walk, AbsentEntry
    <3>4. CASE e2 # Absent
      <4>1. WalkTo1(tab, level, r, v)
        BY <3>1, <3>2, <3>4 DEF WalkTo1, WalkTo2, GoodEntry, E1, Follow
      <4>2. GoodEntry(level, e2.to, Index(v, 1), e1)
        BY <1>1, <1>2, <4>1 DEF WalkTo1
      <4>3. e1 = Absent \/ e1.kind = "page"
        BY <4>1, <4>2 DEF GoodEntry, WalkTo1
      <4>4. e2.kind # "large"
        BY <4>1 DEF WalkTo1
      <4>5. Translation(tab, r, v) = e1
        BY <2>5, <4>4, Walk
      <4>6. QED
        BY <4>1, <4>3, <4>5
    <3>5. QED
      BY <3>3, <3>4
  <2>6. QED
    BY <2>3, <2>4, <2>5
<1>6. QED
  BY <1>4, <1>5

\* Links of a walk lead to structures of the level below.
LEMMA WalkLinks ==
  ASSUME NEW tab, NEW av, NEW level, Shaped(tab, av, level),
         NEW r \in Frames, level[r] = 4, NEW v \in Nat
  PROVE  /\ E4(tab, r, v).kind = "table" =>
              E4(tab, r, v).to \in Frames /\ level[E4(tab, r, v).to] = 3
         /\ E3(tab, r, v).kind = "table" =>
              E3(tab, r, v).to \in Frames /\ level[E3(tab, r, v).to] = 2
         /\ E2(tab, r, v).kind = "table" /\ E3(tab, r, v).kind # "large" =>
              E2(tab, r, v).to \in Frames /\ level[E2(tab, r, v).to] = 1
BY WalkShape, AbsentEntry DEF WalkTo1, WalkTo2, WalkTo3

\* One way leads to a structure, but for the PML4 it starts at.
LEMMA OneWay ==
  ASSUME NEW tab, NEW av, NEW level, Shaped(tab, av, level),
         NEW a \in Frames, NEW b \in Frames, level[a] = level[b],
         level[a] \in 2 .. 4, NEW i \in Indexes, NEW j \in Indexes,
         tab[a][i].kind = "table", tab[b][j].kind = "table",
         tab[a][i].to = tab[b][j].to
  PROVE  i = j /\ (level[a] # 4 => a = b)
<1>1. level[a] # 0 /\ level[b] # 0
  OBVIOUS
<1>2. i = j /\ (a = b \/ (level[a] = 4 /\ i >= Boundary))
  BY <1>1 DEF Shaped, GoodLinks
<1>3. QED
  BY <1>2

-----------------------------------------------------------------------------
(* Adding a structure: an absent entry becomes a link to a cleared page.   *)

Cleared == [i \in Indexes |-> Absent]

\* An entry before and after: the same, or a link to a cleared structure now.
Grown(tab2, x, y) ==
  \/ y = x
  \/ /\ x = Absent /\ y.kind = "table"
     /\ \A i \in Indexes : tab2[y.to][i] = Absent

LEMMA ClearedEntries ==
  /\ \A i \in Indexes : Cleared[i] = Absent
  /\ Cleared \in [Indexes -> Entries]
BY AbsentEntry DEF Cleared

\* Walks take the same way through structures whose entries have only grown.
LEMMA GrownWalk ==
  ASSUME NEW tab, NEW av, NEW level, Shaped(tab, av, level),
         NEW tab2, NEW av2, NEW level2, Shaped(tab2, av2, level2),
         \A f \in Frames : level[f] # 0 =>
           level2[f] = level[f] /\ \A i \in Indexes : Grown(tab2, tab[f][i], tab2[f][i])
  PROVE  SameTranslations(tab, level, tab2)
<1> SUFFICES ASSUME NEW r \in Frames, NEW v \in Nat, level[r] = 4
             PROVE  Translation(tab2, r, v) = Translation(tab, r, v)
  BY DEF SameTranslations
<1>1. /\ Index(v, 1) \in Indexes /\ Index(v, 2) \in Indexes
      /\ Index(v, 3) \in Indexes /\ Index(v, 4) \in Indexes
  BY IndexInTable
<1>2. ASSUME NEW x, NEW y, NEW k, Grown(tab2, x, y), Index(v, k) \in Indexes,
             x.kind = "table" => x.to \in Frames /\ level[x.to] # 0
      PROVE  Grown(tab2, Follow(tab, x, v, k), Follow(tab2, y, v, k))
  <2>1. CASE x = Absent /\ y # x
    BY <1>2, <2>1, AbsentEntry DEF Grown, Follow
  <2>2. CASE y = x /\ x.kind = "table"
    BY <1>2, <2>2 DEF Follow
  <2>3. CASE y = x /\ x.kind # "table"
    BY <2>3 DEF Follow, Grown
  <2>4. QED
    BY <1>2, <2>1, <2>2, <2>3 DEF Grown
<1> DEFINE e4 == E4(tab, r, v)
           e3 == E3(tab, r, v)
           e2 == E2(tab, r, v)
           e1 == E1(tab, r, v)
           d4 == E4(tab2, r, v)
           d3 == E3(tab2, r, v)
           d2 == E2(tab2, r, v)
           d1 == E1(tab2, r, v)
<1>3. /\ e4.kind = "table" => e4.to \in Frames /\ level[e4.to] # 0
      /\ e3.kind = "table" => e3.to \in Frames /\ level[e3.to] # 0
      /\ e2.kind = "table" /\ e3.kind # "large" => e2.to \in Frames /\ level[e2.to] # 0
  BY WalkLinks
<1>4. Grown(tab2, e4, d4)
  BY <1>1 DEF E4
<1>5. Grown(tab2, e3, d3)
  BY <1>1, <1>2, <1>3, <1>4 DEF E3
<1>6. Grown(tab2, e2, d2)
  BY <1>1, <1>2, <1>3, <1>5 DEF E2
<1>7. e3.kind # "large" => Grown(tab2, e1, d1)
  BY <1>1, <1>2, <1>3, <1>6 DEF E1
<1>8. level2[r] = 4
  OBVIOUS
<1>9. Translation(tab2, r, v).kind # "table"
  BY <1>8, WalkShape, AbsentEntry DEF Shaped
<1>10. /\ Translation(tab, r, v) = IF e3.kind = "large" THEN e3
                                   ELSE IF e2.kind = "large" THEN e2 ELSE e1
       /\ Translation(tab2, r, v) = IF d3.kind = "large" THEN d3
                                    ELSE IF d2.kind = "large" THEN d2 ELSE d1
  BY Walk
<1> HIDE DEF e4, e3, e2, e1, d4, d3, d2, d1
<1>11. CASE e3.kind = "large"
  BY <1>5, <1>10, <1>11, AbsentEntry DEF Grown
<1>12. CASE e3.kind # "large"
  <2>1. d3.kind # "large"
    BY <1>5, <1>12 DEF Grown
  <2>2. CASE e2.kind = "large"
    BY <1>6, <1>10, <1>12, <2>1, <2>2, AbsentEntry DEF Grown
  <2>3. CASE e2.kind # "large"
    <3>1. d2.kind # "large"
      BY <1>6, <2>3 DEF Grown
    <3>2. QED
      BY <1>7, <1>9, <1>10, <1>12, <2>1, <2>3, <3>1 DEF Grown
  <2>4. QED
    BY <2>2, <2>3
<1>13. QED
  BY <1>11, <1>12

\* e becomes a link from entry i of f to g, which is cleared.
AddsStructure(tab, av, level, f, i, g, e, tab2, level2) ==
  /\ Shaped(tab, av, level)
  /\ f \in Frames /\ level[f] \in 2 .. 4 /\ i \in Indexes /\ tab[f][i] = Absent
  /\ g \in av
  /\ e \in Entries /\ e.kind = "table" /\ e.to = g
  /\ level[f] = 4 /\ i >= Boundary => ~e.user
  /\ tab2 \in [Frames -> [Indexes -> Entries]]
  /\ \A h \in Frames, j \in Indexes :
       tab2[h][j] = IF h = g THEN Absent
                    ELSE IF h = f /\ j = i THEN e ELSE tab[h][j]
  /\ level2 \in [Frames -> 0 .. 4]
  /\ \A h \in Frames : level2[h] = IF h = g THEN level[f] - 1 ELSE level[h]

LEMMA StructureAdded ==
  ASSUME NEW tab, NEW av, NEW level, NEW f, NEW i, NEW g, NEW e, NEW tab2, NEW level2,
         AddsStructure(tab, av, level, f, i, g, e, tab2, level2)
  PROVE  /\ Shaped(tab2, av \ {g}, level2)
         /\ Kept(tab, level, tab2, level2)
         /\ SameTranslations(tab, level, tab2)
<1>1. /\ level \in [Frames -> 0 .. 4] /\ tab \in [Frames -> [Indexes -> Entries]]
      /\ av \subseteq Frames /\ \A a \in av : level[a] = 0
      /\ GoodEntries(tab, level) /\ GoodLinks(tab, level)
  BY DEF AddsStructure, Shaped, Typed
<1> USE DEF AddsStructure
<1>2. g \in Frames /\ level[g] = 0 /\ g # f
  BY <1>1
<1>3. \A h \in Frames : level2[h] = IF h = g THEN level[f] - 1 ELSE level[h]
  OBVIOUS
<1>4. \A h \in Frames, j \in Indexes :
        tab2[h][j] = IF h = g THEN Absent ELSE IF h = f /\ j = i THEN e ELSE tab[h][j]
  OBVIOUS
<1>5. Typed(tab2, av \ {g}, level2)
  BY <1>1, <1>3 DEF Typed
<1>6. GoodEntries(tab2, level2)
  <2>1. SUFFICES ASSUME NEW h \in Frames, level2[h] # 0, NEW j \in Indexes
                 PROVE  GoodEntry(level2, h, j, tab2[h][j])
    BY DEF GoodEntries
  <2>2. CASE h = g
    BY <1>4, <2>2 DEF GoodEntry
  <2>3. CASE h = f /\ j = i
    BY <1>2, <1>3, <1>4, <2>3 DEF GoodEntry
  <2>4. CASE h # g /\ ~(h = f /\ j = i)
    <3>1. GoodEntry(level, h, j, tab[h][j])
      BY <1>1, <1>3, <2>1, <2>4 DEF GoodEntries
    <3>2. level[h] \in 2 .. 4 /\ tab[h][j].to = g => level[g] # level[h] - 1
      BY <1>2
    <3>3. QED
      BY <1>3, <1>4, <2>4, <3>1, <3>2 DEF GoodEntry
  <2>5. QED
    BY <2>2, <2>3, <2>4
<1>7. GoodLinks(tab2, level2)
  <2>1. SUFFICES ASSUME NEW a \in Frames, NEW b \in Frames,
                        NEW j \in Indexes, NEW k \in Indexes,
                        level2[a] # 0, tab2[a][j].kind = "table",
                        level2[b] # 0, tab2[b][k].kind = "table",
                        tab2[a][j].to = tab2[b][k].to
                 PROVE  j = k /\ (a = b \/ (level2[a] = 4 /\ j >= Boundary))
    BY DEF GoodLinks
  <2>2. a # g /\ b # g
    <3>1. \A h \in Frames, l \in Indexes : h = g => tab2[h][l] = Absent
      BY <1>4
    <3>2. QED
      BY <2>1, <3>1, AbsentEntry
  <2>3. ASSUME NEW h \in Frames, NEW l \in Indexes, h # g, level2[h] # 0,
               tab2[h][l].kind = "table", ~(h = f /\ l = i)
        PROVE  tab[h][l].kind = "table" /\ tab2[h][l].to = tab[h][l].to
               /\ level[h] # 0 /\ tab[h][l].to # g
    <3>1. GoodEntry(level, h, l, tab[h][l]) /\ level[h] # 0 /\ tab2[h][l] = tab[h][l]
      BY <1>1, <1>3, <1>4, <2>3 DEF GoodEntries
    <3>2. QED
      BY <1>2, <2>3, <3>1, AbsentEntry DEF GoodEntry
  <2>4. CASE a = f /\ j = i /\ b = f /\ k = i
    BY <2>4
  <2>5. CASE ~(a = f /\ j = i) /\ ~(b = f /\ k = i)
    BY <1>1, <1>3, <2>1, <2>2, <2>3, <2>5 DEF GoodLinks
  <2>6. CASE (a = f /\ j = i) /\ ~(b = f /\ k = i)
    BY <1>4, <2>1, <2>2, <2>3, <2>6
  <2>7. CASE ~(a = f /\ j = i) /\ (b = f /\ k = i)
    BY <1>4, <2>1, <2>2, <2>3, <2>7
  <2>8. QED
    BY <2>4, <2>5, <2>6, <2>7
<1>8. Shaped(tab2, av \ {g}, level2)
  BY <1>5, <1>6, <1>7 DEF Shaped
<1>9. Kept(tab, level, tab2, level2)
  BY <1>2, <1>3, <1>4 DEF Kept
<1>10. \A h \in Frames : level[h] # 0 =>
         level2[h] = level[h] /\ \A j \in Indexes : Grown(tab2, tab[h][j], tab2[h][j])
  BY <1>2, <1>3, <1>4 DEF Grown
<1>11. SameTranslations(tab, level, tab2)
  BY <1>8, <1>10, GrownWalk
<1>12. QED
  BY <1>8, <1>9, <1>11

-----------------------------------------------------------------------------
(* Writing a page's entry.                                                 *)

\* e becomes the entry of page v in the page table its walk from r ends at.
WritesLeaf(tab, av, level, r, v, e, tab2) ==
  /\ Shaped(tab, av, level)
  /\ r \in Frames /\ level[r] = 4 /\ v \in Nat /\ v < VirtualPages
  /\ WalkTo1(tab, level, r, v)
  /\ e \in Entries
  /\ e = Absent \/ e.kind = "page"
  /\ tab2 \in [Frames -> [Indexes -> Entries]]
  /\ \A h \in Frames, j \in Indexes :
       tab2[h][j] = IF h = E2(tab, r, v).to /\ j = Index(v, 1) THEN e ELSE tab[h][j]

\* The structures above the page tables hold what they held.
SameAbove(tab, level, tab2) ==
  \A f \in Frames : level[f] # 0 /\ level[f] # 1 =>
    \A i \in Indexes : tab2[f][i] = tab[f][i]

\* Canonical pages other than v translate as before in every map, and so does v
\* but where the map has the PDPT that v has below r.
OthersSame(tab, level, tab2, r, v) ==
  \A s \in Frames, w \in Nat : level[s] = 4 /\ w < VirtualPages =>
    \/ Translation(tab2, s, w) = Translation(tab, s, w)
    \/ /\ w = v /\ Translation(tab, s, w) = Translation(tab, r, v)
       /\ E4(tab2, s, w).to = E4(tab2, r, v).to

\* Writing an entry of a page table changes no translation but the one of the
\* page whose entry it is, in every map that reaches the page table.
LEMMA LeafWritten ==
  ASSUME NEW tab, NEW av, NEW level, NEW r, NEW v, NEW e, NEW tab2,
         WritesLeaf(tab, av, level, r, v, e, tab2)
  PROVE  /\ Shaped(tab2, av, level)
         /\ SameAbove(tab, level, tab2)
         /\ Translation(tab2, r, v) = e
         /\ OthersSame(tab, level, tab2, r, v)
<1> DEFINE t == E2(tab, r, v).to
           i == Index(v, 1)
<1> USE DEF WritesLeaf
<1>1. t \in Frames /\ level[t] = 1 /\ i \in Indexes
  BY IndexInTable DEF WalkTo1
<1>2. /\ level \in [Frames -> 0 .. 4] /\ tab \in [Frames -> [Indexes -> Entries]]
      /\ av \subseteq Frames /\ \A a \in av : level[a] = 0
      /\ GoodEntries(tab, level) /\ GoodLinks(tab, level)
  BY DEF Shaped, Typed
<1>3. \A h \in Frames, j \in Indexes :
        tab2[h][j] = IF h = t /\ j = i THEN e ELSE tab[h][j]
  OBVIOUS
<1> HIDE DEF t, i
<1>4. Typed(tab2, av, level)
  BY <1>2 DEF Typed
<1>5. \A h \in Frames, j \in Indexes :
        tab2[h][j].kind = "table" => tab2[h][j] = tab[h][j] 
  BY <1>3, AbsentEntry
<1>6. GoodEntries(tab2, level)
  <2>1. SUFFICES ASSUME NEW h \in Frames, level[h] # 0, NEW j \in Indexes
                 PROVE  GoodEntry(level, h, j, tab2[h][j])
    BY DEF GoodEntries
  <2>2. CASE h = t /\ j = i
    BY <1>1, <1>3, <2>2 DEF GoodEntry
  <2>3. CASE ~(h = t /\ j = i)
    BY <1>2, <1>3, <2>1, <2>3 DEF GoodEntries
  <2>4. QED
    BY <2>2, <2>3
<1>7. GoodLinks(tab2, level)
  BY <1>2, <1>5 DEF GoodLinks
<1>8. Shaped(tab2, av, level)
  BY <1>4, <1>6, <1>7 DEF Shaped
<1>9. \A f \in Frames : level[f] # 0 /\ level[f] # 1 =>
        \A j \in Indexes : tab2[f][j] = tab[f][j]
  BY <1>1, <1>3
<1>10. ASSUME NEW s \in Frames, level[s] = 4, NEW w \in Nat
       PROVE  /\ ~WalkTo1(tab, level, s, w) =>
                   Translation(tab2, s, w) = Translation(tab, s, w)
              /\ WalkTo1(tab, level, s, w) =>
                   /\ Translation(tab, s, w) = tab[E2(tab, s, w).to][Index(w, 1)]
                   /\ Translation(tab2, s, w) = tab2[E2(tab, s, w).to][Index(w, 1)]
  <2>1. /\ Index(w, 1) \in Indexes /\ Index(w, 2) \in Indexes
        /\ Index(w, 3) \in Indexes /\ Index(w, 4) \in Indexes
    BY IndexInTable
  <2>2. E4(tab2, s, w) = E4(tab, s, w)
    BY <1>9, <1>10, <2>1 DEF E4
  <2>3. E3(tab2, s, w) = E3(tab, s, w)
    <3>1. E4(tab, s, w).kind = "table" =>
            E4(tab, s, w).to \in Frames /\ level[E4(tab, s, w).to] = 3
      BY <1>10, WalkLinks
    <3>2. QED
      BY <1>9, <2>1, <2>2, <3>1 DEF E3, Follow
  <2>4. E2(tab2, s, w) = E2(tab, s, w)
    <3>1. E3(tab, s, w).kind = "table" =>
            E3(tab, s, w).to \in Frames /\ level[E3(tab, s, w).to] = 2
      BY <1>10, WalkLinks
    <3>2. QED
      BY <1>9, <2>1, <2>3, <3>1 DEF E2, Follow
  <2>5. CASE WalkTo1(tab, level, s, w)
    <3>1. /\ E1(tab, s, w) = tab[E2(tab, s, w).to][Index(w, 1)]
          /\ E1(tab2, s, w) = tab2[E2(tab, s, w).to][Index(w, 1)]
      BY <2>4, <2>5 DEF WalkTo1, E1, Follow
    <3>2. E3(tab, s, w).kind # "large" /\ E2(tab, s, w).kind # "large"
      BY <2>5 DEF WalkTo1, WalkTo2
    <3>3. QED
      BY <2>3, <2>4, <2>5, <3>1, <3>2, Walk
  <2>6. CASE ~WalkTo1(tab, level, s, w)
    <3>1. \/ E3(tab, s, w).kind = "large"
          \/ E2(tab, s, w) = Absent /\ E1(tab, s, w) = Absent
      BY <1>10, <2>6, WalkShape
    <3>2. E2(tab, s, w) = Absent => E1(tab2, s, w) = Absent
      BY <2>4, AbsentBelow DEF E1
    <3>3. QED
      BY <2>3, <2>4, <2>6, <3>1, <3>2, Walk
  <2>7. QED
    BY <2>5, <2>6
<1>11. Translation(tab2, r, v) = e /\ Translation(tab, r, v) = tab[t][i]
  BY <1>1, <1>3, <1>10 DEF t, i
<1>12. ASSUME NEW s \in Frames, level[s] = 4, NEW w \in Nat, w < VirtualPages,
              Translation(tab2, s, w) # Translation(tab, s, w)
       PROVE  /\ w = v /\ Translation(tab, s, w) = Translation(tab, r, v)
              /\ E4(tab2, s, w).to = E4(tab2, r, v).to
  <2>1. /\ WalkTo1(tab, level, s, w)
        /\ Translation(tab, s, w) = tab[E2(tab, s, w).to][Index(w, 1)]
        /\ Translation(tab2, s, w) = tab2[E2(tab, s, w).to][Index(w, 1)]
    BY <1>10, <1>12
  <2>2. Index(w, 1) \in Indexes /\ E2(tab, s, w).to \in Frames
    BY <2>1, IndexInTable DEF WalkTo1
  <2>3. E2(tab, s, w).to = t /\ Index(w, 1) = i
    BY <1>3, <1>12, <2>1, <2>2
  <2>4. \A x \in {v, w} : /\ Index(x, 2) \in Indexes
                          /\ Index(x, 3) \in Indexes /\ Index(x, 4) \in Indexes
    BY IndexInTable, SMTT(30)
  <2> DEFINE a3 == E4(tab, r, v).to
             a2 == E3(tab, r, v).to
             b3 == E4(tab, s, w).to
             b2 == E3(tab, s, w).to
  <2>5. /\ a3 \in Frames /\ a2 \in Frames /\ b3 \in Frames /\ b2 \in Frames
        /\ level[a3] = 3 /\ level[b3] = 3 /\ level[a2] = 2 /\ level[b2] = 2
        /\ tab[a2][Index(v, 2)].kind = "table" /\ tab[b2][Index(w, 2)].kind = "table"
        /\ tab[a2][Index(v, 2)].to = tab[b2][Index(w, 2)].to
        /\ tab[a3][Index(v, 3)].kind = "table" /\ tab[b3][Index(w, 3)].kind = "table"
        /\ tab[a3][Index(v, 3)].to = a2 /\ tab[b3][Index(w, 3)].to = b2
        /\ tab[r][Index(v, 4)].kind = "table" /\ tab[s][Index(w, 4)].kind = "table"
        /\ tab[r][Index(v, 4)].to = a3 /\ tab[s][Index(w, 4)].to = b3
    BY <2>1, <2>3 DEF t, WalkTo1, WalkTo2, WalkTo3, E4
  <2> HIDE DEF a3, a2, b3, b2
  <2>6. Index(v, 2) = Index(w, 2) /\ a2 = b2
    BY <2>4, <2>5, OneWay
  <2>7. Index(v, 3) = Index(w, 3) /\ a3 = b3
    BY <2>4, <2>5, <2>6, OneWay
  <2>8. Index(v, 4) = Index(w, 4)
    BY <1>12, <2>4, <2>5, <2>7, OneWay
  <2>9. w = v
    <3>1. \A k \in 1 .. 4 : Index(v, k) = Index(w, k)
      BY <2>3, <2>6, <2>7, <2>8 DEF i
    <3>2. QED
      BY <1>12, <3>1, SamePage
  <2>10. E4(tab2, s, w).to = E4(tab2, r, v).to
    <3>1. E4(tab2, s, w) = E4(tab, s, w) /\ E4(tab2, r, v) = E4(tab, r, v)
      BY <1>9, <1>12, <2>4 DEF E4
    <3>2. QED
      BY <2>7, <3>1 DEF a3, b3
  <2>11. QED
    BY <1>11, <2>1, <2>3, <2>9, <2>10
<1>13. QED
  BY <1>8, <1>9, <1>11, <1>12 DEF SameAbove, OthersSame

-----------------------------------------------------------------------------
(* mapPage: the structures on the way, then the entry.                     *)

\* The link from the structure a level above to the one descended to.
Linked(mem, mem2, v, k) ==
  /\ mem2.tables[mem.at][Index(v, k)].kind = "table"
  /\ mem2.tables[mem.at][Index(v, k)].to = mem2.at

\* Of what the structures held, entry i of f may have changed.
OnlyAt(tab, level, tab2, f, i) ==
  \A h \in Frames, j \in Indexes :
    level[h] # 0 /\ ~(h = f /\ j = i) => tab2[h][j] = tab[h][j]

IsMemory(mem) ==
  mem = [tables |-> mem.tables, avail |-> mem.avail, at |-> mem.at]

LEMMA KeptTwice ==
  ASSUME NEW tab, NEW level, NEW tab2, NEW level2, NEW tab3, NEW level3,
         Kept(tab, level, tab2, level2), Kept(tab2, level2, tab3, level3),
         SameTranslations(tab, level, tab2), SameTranslations(tab2, level2, tab3)
  PROVE  Kept(tab, level, tab3, level3) /\ SameTranslations(tab, level, tab3)
<1>1. Kept(tab, level, tab3, level3)
  <2>1. SUFFICES ASSUME NEW f \in Frames, level[f] # 0
                 PROVE  /\ level3[f] = level[f]
                        /\ \A i \in Indexes : tab[f][i] # Absent => tab3[f][i] = tab[f][i]
    BY DEF Kept
  <2>2. level2[f] = level[f]
        /\ \A i \in Indexes : tab[f][i] # Absent => tab2[f][i] = tab[f][i]
    BY <2>1 DEF Kept
  <2>3. level3[f] = level2[f]
        /\ \A i \in Indexes : tab2[f][i] # Absent => tab3[f][i] = tab2[f][i]
    BY <2>1, <2>2 DEF Kept
  <2>4. QED
    BY <2>2, <2>3
<1>2. SameTranslations(tab, level, tab3)
  <2>1. SUFFICES ASSUME NEW r \in Frames, NEW v \in Nat, level[r] = 4
                 PROVE  Translation(tab3, r, v) = Translation(tab, r, v)
    BY DEF SameTranslations
  <2>2. level2[r] = 4
    BY <2>1 DEF Kept
  <2>3. QED
    BY <2>1, <2>2 DEF SameTranslations
<1>3. QED
  BY <1>1, <1>2

\* One level of mapPage: the structure below is there, and nothing translates
\* differently for it.
LEMMA Descended ==
  ASSUME NEW mem, IsMemory(mem), NEW level, Shaped(mem.tables, mem.avail, level),
         mem.at \in Frames, NEW k \in 2 .. 4, level[mem.at] = k, NEW v \in Nat,
         EntryAt(mem, v, k).kind # "large",
         EntryAt(mem, v, k).kind = "absent" => mem.avail # {},
         NEW mem2, mem2 = Descend(mem, v, k)
  PROVE  /\ IsMemory(mem2)
         /\ \E level2 :
              /\ Shaped(mem2.tables, mem2.avail, level2)
              /\ Kept(mem.tables, level, mem2.tables, level2)
              /\ mem2.at \in Frames /\ level2[mem2.at] = k - 1
         /\ SameTranslations(mem.tables, level, mem2.tables)
         /\ Linked(mem, mem2, v, k)
         /\ OnlyAt(mem.tables, level, mem2.tables, mem.at, Index(v, k))
         /\ EntryAt(mem, v, k).kind # "absent" =>
              mem2.tables = mem.tables /\ mem2.avail = mem.avail
         /\ EntryAt(mem, v, k).kind = "absent" =>
              /\ mem2.avail = mem.avail \ {Lowest(mem.avail)}
              /\ Lowest(mem.avail) \in mem.avail /\ mem2.at = Lowest(mem.avail)
              /\ \A j \in Indexes : mem2.tables[mem2.at][j] = Absent
<1> DEFINE f == mem.at
           i == Index(v, k)
           tab == mem.tables
<1>1. i \in Indexes /\ GoodEntry(level, f, i, tab[f][i]) /\ EntryAt(mem, v, k) = tab[f][i]
  BY IndexInTable, SMTT(30) DEF Shaped, GoodEntries, EntryAt
<1>2. CASE EntryAt(mem, v, k).kind # "absent"
  <2>1. mem2 = [mem EXCEPT !.at = tab[f][i].to]
    BY <1>2 DEF Descend, EntryAt
  <2>2. mem2 = [tables |-> mem.tables, avail |-> mem.avail, at |-> tab[f][i].to]
    BY <2>1 DEF IsMemory
  <2>3. mem2.tables = tab /\ mem2.avail = mem.avail /\ mem2.at = tab[f][i].to
    BY <2>2
  <2>4. tab[f][i].kind = "table" /\ mem2.at \in Frames /\ level[mem2.at] = k - 1
    BY <1>1, <1>2, <2>3, AbsentEntry DEF GoodEntry
  <2>5. Kept(tab, level, tab, level) /\ SameTranslations(tab, level, tab)
        /\ OnlyAt(tab, level, tab, f, i)
    BY DEF Kept, SameTranslations, OnlyAt
  <2>6. IsMemory(mem2)
    BY <2>2, <2>3 DEF IsMemory
  <2>7. QED
    BY <1>2, <2>3, <2>4, <2>5, <2>6 DEF Linked
<1>3. CASE EntryAt(mem, v, k).kind = "absent"
  <2> DEFINE g == Lowest(mem.avail)
             e == Link(g, v)
  <2>1. mem.avail \subseteq Frames /\ g \in mem.avail /\ g \in Frames /\ g \in Nat
    <3>1. mem.avail \subseteq Frames /\ mem.avail # {}
      BY <1>3 DEF Shaped, Typed
    <3>2. mem.avail \in SUBSET Nat /\ IsFiniteSet(mem.avail)
      BY <3>1, TIsNat, TablesAssumption, FS_Subset
    <3>3. QED
      BY <3>1, <3>2, LowestPage
  <2>2. mem2 = [[mem EXCEPT !.avail = @ \ {g}, !.tables[g] = Cleared]
                  EXCEPT !.tables[f][i] = e, !.at = g]
    BY <1>3, Zenon DEF Descend, Fresh, Cleared
  <2>3. mem2 = [tables |-> [[tab EXCEPT ![g] = Cleared]
                               EXCEPT ![f] = [[tab EXCEPT ![g] = Cleared][f] EXCEPT ![i] = e]],
                avail |-> mem.avail \ {g}, at |-> g]
    BY <2>2 DEF IsMemory
  <2>4. /\ mem2.avail = mem.avail \ {g} /\ mem2.at = g
        /\ mem2.tables = [[tab EXCEPT ![g] = Cleared]
                             EXCEPT ![f] = [[tab EXCEPT ![g] = Cleared][f] EXCEPT ![i] = e]]
    BY <2>3
  <2>5. IsMemory(mem2)
    BY <2>3, <2>4 DEF IsMemory
  <2>6. /\ e \in Entries /\ e.kind = "table" /\ e.to = g
        /\ k = 4 /\ i >= Boundary => ~e.user
    BY <2>1 DEF Link, Entry, Entries, IsKernel
  <2>7. tab[f][i] = Absent
    BY <1>1, <1>3 DEF GoodEntry
  <2>8. level \in [Frames -> 0 .. 4] /\ tab \in [Frames -> [Indexes -> Entries]] /\ g # f
    BY <2>1 DEF Shaped, Typed
  <2> DEFINE level2 == [level EXCEPT ![g] = k - 1]
             tab2 == mem2.tables
  <2>9. level2 \in [Frames -> 0 .. 4] /\
        \A h \in Frames : level2[h] = IF h = g THEN k - 1 ELSE level[h]
    BY <2>1, <2>8
  <2> HIDE DEF e, g, i, f, tab, tab2, level2
  <2>10. /\ tab2 \in [Frames -> [Indexes -> Entries]]
         /\ \A h \in Frames, j \in Indexes :
              tab2[h][j] = IF h = g THEN Absent
                           ELSE IF h = f /\ j = i THEN e ELSE tab[h][j]
    <3> DEFINE mid == [tab EXCEPT ![g] = Cleared]
    <3>1. mid \in [Frames -> [Indexes -> Entries]]
      BY <2>8, ClearedEntries
    <3>2. mid[g] = Cleared /\ \A h \in Frames : h # g => mid[h] = tab[h]
      BY <2>1, <2>8
    <3> HIDE DEF mid
    <3>3. tab2 = [mid EXCEPT ![f] = [mid[f] EXCEPT ![i] = e]]
      BY <2>4 DEF mid, tab2
    <3>4. tab2 \in [Frames -> [Indexes -> Entries]]
      BY <1>1, <2>6, <3>1, <3>3 DEF f
    <3>5. f \in Frames /\ tab2[f] = [mid[f] EXCEPT ![i] = e]
          /\ \A h \in Frames : h # f => tab2[h] = mid[h]
      BY <3>1, <3>3 DEF f
    <3>6. \A j \in Indexes : tab2[f][j] = IF j = i THEN e ELSE mid[f][j]
      BY <3>1, <3>5
    <3>7. QED
      BY <2>1, <2>8, <3>2, <3>4, <3>5, <3>6, ClearedEntries
  <2>11. f \in Frames /\ level[f] = k /\ Shaped(tab, mem.avail, level)
    BY DEF f, tab
  <2>12. /\ Shaped(tab2, mem.avail \ {g}, level2)
         /\ Kept(tab, level, tab2, level2)
         /\ SameTranslations(tab, level, tab2)
         /\ level2[g] = k - 1 /\ tab2[f][i] = e
         /\ \A j \in Indexes : tab2[g][j] = Absent
    <3>1. i \in Indexes
      BY <1>1
    <3>2. level[f] \in 2 .. 4
      BY <2>11
    <3>3. level[f] = 4 /\ i >= Boundary => ~e.user
      BY <2>6, <2>11
    <3>4. \A h \in Frames : level2[h] = IF h = g THEN level[f] - 1 ELSE level[h]
      BY <2>9, <2>11
    <3>5. g \in mem.avail /\ e \in Entries /\ e.kind = "table" /\ e.to = g
      BY <2>1, <2>6
    <3>6. tab[f][i] = Absent /\ f \in Frames /\ Shaped(tab, mem.avail, level)
      BY <2>7, <2>11
    <3>7. /\ tab2 \in [Frames -> [Indexes -> Entries]]
          /\ level2 \in [Frames -> 0 .. 4]
      BY <2>9, <2>10
    <3>8. \A h \in Frames, j \in Indexes :
              tab2[h][j] = IF h = g THEN Absent
                           ELSE IF h = f /\ j = i THEN e ELSE tab[h][j]
      BY <2>10
    <3>9. /\ Shaped(tab2, mem.avail \ {g}, level2)
          /\ Kept(tab, level, tab2, level2)
          /\ SameTranslations(tab, level, tab2)
      <4>1. AddsStructure(tab, mem.avail, level, f, i, g, e, tab2, level2)
        BY <3>1, <3>2, <3>3, <3>4, <3>5, <3>6, <3>7, <3>8 DEF AddsStructure
      <4>2. QED
        BY <4>1, StructureAdded, Zenon
    <3>10. level2[g] = k - 1 /\ tab2[f][i] = e
      BY <2>1, <2>8, <2>9, <2>11, <3>1, <3>8
    <3>11. \A j \in Indexes : tab2[g][j] = Absent
      BY <2>1, <3>8
    <3>12. QED
      BY <3>9, <3>10, <3>11
  <2>13. Linked(mem, mem2, v, k)
    BY <2>4, <2>6, <2>12 DEF Linked, f, i, tab2
  <2>14. OnlyAt(tab, level, tab2, f, i)
    <3>1. level[g] = 0
      BY <2>1, <2>11 DEF Shaped, Typed
    <3>2. QED
      BY <2>10, <3>1 DEF OnlyAt
  <2>15. QED
    BY <1>3, <2>1, <2>4, <2>5, <2>12, <2>13, <2>14 DEF f, i, tab, tab2, g
<1>4. QED
  BY <1>2, <1>3

\* Where the walk of a page ends before the page tables, the structures from
\* there on are missing.
LEMMA MissingFrom ==
  ASSUME NEW tab, NEW av, NEW level, Shaped(tab, av, level),
         NEW r \in Frames, level[r] = 4, NEW v \in Nat
  PROVE  /\ Missing(tab, r, v) \in Nat
         /\ E4(tab, r, v).kind = "absent" => Missing(tab, r, v) >= 3
         /\ E3(tab, r, v).kind = "absent" => Missing(tab, r, v) >= 2
         /\ E2(tab, r, v).kind = "absent" /\ E3(tab, r, v).kind # "large" =>
              Missing(tab, r, v) >= 1
<1> DEFINE P == Path(tab, r, v)
           M == {k \in 2 .. 4 : P[k].kind = "absent"}
<1>1. P[4] = E4(tab, r, v) /\ P[3] = E3(tab, r, v) /\ P[2] = E2(tab, r, v)
  BY Walk
<1>2. IsFiniteSet(M) /\ Cardinality(M) \in Nat
  <2>1. IsFiniteSet(2 .. 4)
    <3>1. 2 \in Int /\ 4 \in Int
      OBVIOUS
    <3>2. QED
      BY <3>1, FS_Interval, Zenon
  <2>2. M \subseteq 2 .. 4
    OBVIOUS
  <2>3. QED
    BY <2>1, <2>2, FS_Subset, FS_CardinalityType
<1>3. /\ E4(tab, r, v).kind = "absent" => E3(tab, r, v).kind = "absent"
      /\ E3(tab, r, v).kind = "absent" => E2(tab, r, v).kind = "absent"
  BY AbsentEntry DEF E3, E2, Follow
<1> HIDE DEF P
<1>4. ASSUME NEW k \in 2 .. 4, 2 .. k \subseteq M
      PROVE  Cardinality(M) >= k - 1
  <2>1. Cardinality(2 .. k) = k - 1
    BY FS_Interval
  <2>2. QED
    BY <1>2, <1>4, <2>1, FS_Subset
<1>5. E4(tab, r, v).kind = "absent" => 2 .. 4 \subseteq M
  <2>1. ASSUME NEW k \in 2 .. 4 PROVE k = 2 \/ k = 3 \/ k = 4
    OBVIOUS
  <2>2. QED
    BY <1>1, <1>3, <2>1
<1>6. E3(tab, r, v).kind = "absent" => 2 .. 3 \subseteq M
  <2>1. ASSUME NEW k \in 2 .. 3 PROVE k = 2 \/ k = 3
    OBVIOUS
  <2>2. QED
    BY <1>1, <1>3, <2>1
<1>7. E2(tab, r, v).kind = "absent" => 2 .. 2 \subseteq M
  <2>1. ASSUME NEW k \in 2 .. 2 PROVE k = 2
    OBVIOUS
  <2>2. QED
    BY <1>1, <2>1
<1>8. Missing(tab, r, v) = Cardinality(M)
  BY DEF Missing, P
<1> HIDE DEF M
<1>9. /\ 2 .. 4 \subseteq M => Cardinality(M) >= 3
      /\ 2 .. 3 \subseteq M => Cardinality(M) >= 2
      /\ 2 .. 2 \subseteq M => Cardinality(M) >= 1
  BY <1>4
<1>10. QED
  BY <1>2, <1>5, <1>6, <1>7, <1>8, <1>9

\* What writing the entry of page v below r leaves as it was.  The PML4 entry
\* of v below r may become a link to a page that was no structure.
Rewritten(tab, level, tab2, level2, r, v) ==
  /\ \A f \in Frames : level[f] = 4 =>
       /\ level2[f] = 4
       /\ \A i \in Indexes :
            \/ tab2[f][i] = tab[f][i]
            \/ /\ f = r /\ i = Index(v, 4) /\ tab[f][i] = Absent
               /\ tab2[f][i].kind = "table" /\ level[tab2[f][i].to] = 0
  /\ OthersSame(tab, level, tab2, r, v)

\* The page table of v below r is there, and of the PML4s at most the entry of v
\* below r is new.
Prepared(tab, av, level, mem, level2, r, v) ==
  /\ Shaped(mem.tables, mem.avail, level2)
  /\ level2[r] = 4 /\ WalkTo1(mem.tables, level2, r, v)
  /\ E2(mem.tables, r, v).to = mem.at
  /\ Kept(tab, level, mem.tables, level2)
  /\ SameTranslations(tab, level, mem.tables)
  /\ mem.avail \subseteq av
  /\ \A f \in Frames : level[f] = 4 =>
       \A i \in Indexes : ~(f = r /\ i = Index(v, 4)) =>
         mem.tables[f][i] = tab[f][i]
  /\ E4(tab, r, v) = Absent =>
       /\ E4(mem.tables, r, v).kind = "table"
       /\ level[E4(mem.tables, r, v).to] = 0

\* The way mapPage prepares: the page table of v is there, all is still well
\* shaped, and nothing translates differently.
LEMMA PageTableThere ==
  ASSUME NEW tab, NEW av, NEW level, Shaped(tab, av, level),
         NEW r \in Frames, level[r] = 4, NEW v \in Nat,
         ~InLargePage(tab, r, v), Missing(tab, r, v) <= Cardinality(av),
         NEW mem, mem = PageTableOf([tables |-> tab, avail |-> av, at |-> r], v)
  PROVE  \E level2 : Prepared(tab, av, level, mem, level2, r, v)
<1> DEFINE m0 == [tables |-> tab, avail |-> av, at |-> r]
           m1 == Descend(m0, v, 4)
           m2 == Descend(m1, v, 3)
           m3 == Descend(m2, v, 2)
<1>1. /\ IsMemory(m0) /\ m0.tables = tab /\ m0.avail = av /\ m0.at = r
      /\ mem = m3
  BY DEF IsMemory, PageTableOf
<1>2. /\ Index(v, 1) \in Indexes /\ Index(v, 2) \in Indexes
      /\ Index(v, 3) \in Indexes /\ Index(v, 4) \in Indexes
  BY IndexInTable
<1>3. IsFiniteSet(av) /\ Cardinality(av) \in Nat /\ (Cardinality(av) > 0 => av # {})
  <2>1. av \subseteq Frames
    BY DEF Shaped, Typed
  <2>2. IsFiniteSet(av)
    BY <2>1, TablesAssumption, FS_Subset
  <2>3. av = {} => Cardinality(av) = 0
    BY FS_EmptySet, Zenon
  <2>4. Cardinality(av) \in Nat
    BY <2>2, FS_CardinalityType
  <2>5. QED
    BY <2>2, <2>3, <2>4
<1>4. EntryAt(m0, v, 4) = E4(tab, r, v)
  BY <1>1 DEF EntryAt, E4
<1>5. E4(tab, r, v).kind # "large"
  BY WalkShape, AbsentEntry DEF WalkTo1, WalkTo2, WalkTo3
<1>6. EntryAt(m0, v, 4).kind = "absent" => Cardinality(av) >= 3
  BY <1>3, <1>4, MissingFrom
<1> HIDE DEF m0
<1>7. PICK level1 :
        /\ IsMemory(m1)
        /\ Shaped(m1.tables, m1.avail, level1)
        /\ Kept(tab, level, m1.tables, level1)
        /\ m1.at \in Frames /\ level1[m1.at] = 3
        /\ SameTranslations(tab, level, m1.tables)
        /\ Linked(m0, m1, v, 4)
        /\ OnlyAt(tab, level, m1.tables, r, Index(v, 4))
        /\ EntryAt(m0, v, 4).kind # "absent" => m1.tables = tab /\ m1.avail = av
        /\ EntryAt(m0, v, 4).kind = "absent" =>
              /\ m1.avail = av \ {Lowest(av)}
              /\ Lowest(av) \in av /\ m1.at = Lowest(av)
              /\ \A j \in Indexes : m1.tables[m1.at][j] = Absent
  <2>1. EntryAt(m0, v, 4).kind = "absent" => m0.avail # {}
    BY <1>1, <1>3, <1>6
  <2>2. 4 \in 2 .. 4 /\ EntryAt(m0, v, 4).kind # "large"
    BY <1>4, <1>5
  <2>3. Shaped(m0.tables, m0.avail, level) /\ m0.at \in Frames /\ level[m0.at] = 4
    BY <1>1
  <2>4. 4 - 1 = 3
    OBVIOUS
  <2>5. QED
    BY <1>1, <2>1, <2>2, <2>3, <2>4, Descended
<1>8. ~(Translation(tab, r, v).kind = "large")
  BY DEF InLargePage
<1>9. level1[r] = 4 /\ E4(m1.tables, r, v).kind = "table" /\ E4(m1.tables, r, v).to = m1.at
  BY <1>1, <1>7 DEF Kept, Linked, E4
<1>10. EntryAt(m1, v, 3) = E3(m1.tables, r, v)
  BY <1>9 DEF EntryAt, E3, Follow
<1>11. Translation(m1.tables, r, v) = Translation(tab, r, v)
  BY <1>7 DEF SameTranslations
<1>12. EntryAt(m1, v, 3).kind # "large"
  BY <1>8, <1>10, <1>11, Walk
<1>13. EntryAt(m1, v, 3).kind = "absent" => Cardinality(m1.avail) >= 2
  <2>1. CASE EntryAt(m0, v, 4).kind = "absent"
    <3>1. Cardinality(m1.avail) = Cardinality(av) - 1
      BY <1>3, <1>7, <2>1, FS_RemoveElement
    <3>2. QED
      BY <1>3, <1>6, <2>1, <3>1
  <2>2. CASE EntryAt(m0, v, 4).kind # "absent"
    BY <1>3, <1>7, <1>10, <2>2, MissingFrom
  <2>3. QED
    BY <2>1, <2>2
<1>14. IsFiniteSet(m1.avail) /\ Cardinality(m1.avail) \in Nat /\ m1.avail \subseteq av
       /\ (Cardinality(m1.avail) > 0 => m1.avail # {})
  <2>1. m1.avail \subseteq av
    BY <1>7
  <2>2. IsFiniteSet(m1.avail)
    BY <1>3, <2>1, FS_Subset
  <2>3. m1.avail = {} => Cardinality(m1.avail) = 0
    BY FS_EmptySet, Zenon
  <2>4. Cardinality(m1.avail) \in Nat
    BY <2>2, FS_CardinalityType
  <2>5. QED
    BY <2>1, <2>2, <2>3, <2>4
<1> HIDE DEF m1
<1>15. PICK level2 :
        /\ IsMemory(m2)
        /\ Shaped(m2.tables, m2.avail, level2)
        /\ Kept(m1.tables, level1, m2.tables, level2)
        /\ m2.at \in Frames /\ level2[m2.at] = 2
        /\ SameTranslations(m1.tables, level1, m2.tables)
        /\ Linked(m1, m2, v, 3)
        /\ OnlyAt(m1.tables, level1, m2.tables, m1.at, Index(v, 3))
        /\ EntryAt(m1, v, 3).kind # "absent" => m2.tables = m1.tables /\ m2.avail = m1.avail
        /\ EntryAt(m1, v, 3).kind = "absent" =>
              /\ m2.avail = m1.avail \ {Lowest(m1.avail)}
              /\ Lowest(m1.avail) \in m1.avail
              /\ \A j \in Indexes : m2.tables[m2.at][j] = Absent
  <2>1. EntryAt(m1, v, 3).kind = "absent" => m1.avail # {}
    BY <1>13, <1>14
  <2>2. 3 \in 2 .. 4 /\ EntryAt(m1, v, 3).kind # "large"
    BY <1>12
  <2>3. 3 - 1 = 2
    OBVIOUS
  <2>4. QED
    BY <1>7, <2>1, <2>2, <2>3, Descended
<1>16. Kept(tab, level, m2.tables, level2) /\ SameTranslations(tab, level, m2.tables)
  BY <1>7, <1>15, KeptTwice
<1>17. /\ level2[r] = 4 /\ level2[m1.at] = 3
       /\ E4(m2.tables, r, v).kind = "table" /\ E4(m2.tables, r, v).to = m1.at
       /\ E3(m2.tables, r, v).kind = "table" /\ E3(m2.tables, r, v).to = m2.at
  <2>1. level2[r] = 4 /\ level2[m1.at] = 3
    BY <1>7, <1>9, <1>15 DEF Kept
  <2>2. E4(m2.tables, r, v) = E4(m1.tables, r, v)
    BY <1>2, <1>9, <1>15, AbsentEntry DEF Kept, E4
  <2>3. E3(m2.tables, r, v) = m2.tables[m1.at][Index(v, 3)]
    BY <1>9, <2>2 DEF E3, Follow
  <2>4. QED
    BY <1>9, <1>15, <2>1, <2>2, <2>3 DEF Linked
<1>18. EntryAt(m2, v, 2) = E2(m2.tables, r, v)
  BY <1>17 DEF EntryAt, E2, Follow
<1>19. Translation(m2.tables, r, v) = Translation(tab, r, v)
  BY <1>16 DEF SameTranslations
<1>20. EntryAt(m2, v, 2).kind # "large"
  BY <1>8, <1>17, <1>18, <1>19, Walk
<1>21. EntryAt(m2, v, 2).kind = "absent" => m2.avail # {}
  <2>1. CASE EntryAt(m1, v, 3).kind = "absent"
    <3>1. Cardinality(m2.avail) = Cardinality(m1.avail) - 1
      BY <1>14, <1>15, <2>1, FS_RemoveElement
    <3>2. Cardinality(m2.avail) # 0
      BY <1>13, <1>14, <2>1, <3>1
    <3>3. QED
      BY <3>2, FS_EmptySet
  <2>2. CASE EntryAt(m1, v, 3).kind # "absent"
    <3>1. m2.tables = m1.tables /\ m2.avail = m1.avail
      BY <1>15, <2>2
    <3>2. EntryAt(m0, v, 4).kind = "absent" => EntryAt(m1, v, 3) = Absent
      BY <1>2, <1>7 DEF EntryAt
    <3>3. EntryAt(m0, v, 4).kind # "absent"
      BY <2>2, <3>2, AbsentEntry
    <3>4. m2.tables = tab /\ m2.avail = av
      BY <1>7, <3>1, <3>3
    <3>5. EntryAt(m2, v, 2).kind = "absent" => Missing(tab, r, v) >= 1
      BY <1>10, <1>12, <1>18, <3>1, <3>4, MissingFrom
    <3>6. Missing(tab, r, v) \in Nat
      BY MissingFrom
    <3>7. QED
      BY <1>3, <3>4, <3>5, <3>6
  <2>3. QED
    BY <2>1, <2>2
<1> HIDE DEF m2
<1>22. PICK level3 :
        /\ Shaped(m3.tables, m3.avail, level3)
        /\ Kept(m2.tables, level2, m3.tables, level3)
        /\ m3.at \in Frames /\ level3[m3.at] = 1
        /\ SameTranslations(m2.tables, level2, m3.tables)
        /\ Linked(m2, m3, v, 2)
        /\ OnlyAt(m2.tables, level2, m3.tables, m2.at, Index(v, 2))
        /\ EntryAt(m2, v, 2).kind # "absent" => m3.tables = m2.tables /\ m3.avail = m2.avail
        /\ EntryAt(m2, v, 2).kind = "absent" => m3.avail = m2.avail \ {Lowest(m2.avail)}
  <2>1. 2 \in 2 .. 4 /\ EntryAt(m2, v, 2).kind # "large"
    BY <1>20
  <2>2. 2 - 1 = 1
    OBVIOUS
  <2>3. QED
    BY <1>15, <1>21, <2>1, <2>2, Descended
<1>23. Kept(tab, level, m3.tables, level3) /\ SameTranslations(tab, level, m3.tables)
  BY <1>16, <1>22, KeptTwice
<1>24. /\ level3[r] = 4 /\ level3[m1.at] = 3 /\ level3[m2.at] = 2
       /\ E4(m3.tables, r, v) = E4(m2.tables, r, v)
       /\ E3(m3.tables, r, v) = E3(m2.tables, r, v)
       /\ E3(m3.tables, r, v) = m3.tables[m1.at][Index(v, 3)]
       /\ E2(m3.tables, r, v) = m3.tables[m2.at][Index(v, 2)]
  <2>1. level3[r] = 4 /\ level3[m1.at] = 3 /\ level3[m2.at] = 2
    BY <1>7, <1>15, <1>17, <1>22 DEF Kept
  <2>2. E4(m3.tables, r, v) = E4(m2.tables, r, v)
    BY <1>2, <1>17, <1>22, AbsentEntry DEF Kept, E4
  <2>3. E3(m3.tables, r, v) = m3.tables[m1.at][Index(v, 3)]
    BY <1>17, <2>2 DEF E3, Follow
  <2>4. E3(m2.tables, r, v) = m2.tables[m1.at][Index(v, 3)]
    BY <1>17 DEF E3, Follow
  <2>5. E3(m3.tables, r, v) = E3(m2.tables, r, v)
    BY <1>2, <1>7, <1>17, <1>22, <2>3, <2>4, AbsentEntry DEF Kept
  <2>6. E2(m3.tables, r, v) = m3.tables[m2.at][Index(v, 2)]
    BY <1>17, <2>5 DEF E2, Follow
  <2>7. QED
    BY <2>1, <2>2, <2>3, <2>5, <2>6
<1>25. WalkTo1(m3.tables, level3, r, v) /\ E2(m3.tables, r, v).to = m3.at
  <2>1. E2(m3.tables, r, v).kind = "table" /\ E2(m3.tables, r, v).to = m3.at
    BY <1>22, <1>24 DEF Linked
  <2>2. E1(m3.tables, r, v) = m3.tables[m3.at][Index(v, 1)]
    BY <2>1 DEF E1, Follow
  <2>3. QED
    BY <1>7, <1>15, <1>17, <1>22, <1>24, <2>1, <2>2 DEF WalkTo1, WalkTo2, WalkTo3
<1>26. m3.avail \subseteq av
  BY <1>14, <1>15, <1>22
<1>27. ASSUME NEW f \in Frames, level[f] = 4, NEW i \in Indexes, ~(f = r /\ i = Index(v, 4))
       PROVE  m3.tables[f][i] = tab[f][i]
  <2>1. level1[f] = 4 /\ level2[f] = 4 /\ m1.at # f /\ m2.at # f
    BY <1>7, <1>15, <1>27 DEF Kept
  <2>2. m1.tables[f][i] = tab[f][i]
    BY <1>7, <1>27 DEF OnlyAt
  <2>3. m2.tables[f][i] = m1.tables[f][i]
    BY <1>15, <2>1 DEF OnlyAt
  <2>4. m3.tables[f][i] = m2.tables[f][i]
    BY <1>22, <2>1 DEF OnlyAt
  <2>5. QED
    BY <2>2, <2>3, <2>4
<1>28. E4(tab, r, v) = Absent =>
         /\ E4(m3.tables, r, v).kind = "table"
         /\ level[E4(m3.tables, r, v).to] = 0
  <2>1. ASSUME E4(tab, r, v) = Absent PROVE m1.at \in av
    BY <1>4, <1>7, <2>1, AbsentEntry
  <2>2. \A f \in av : level[f] = 0
    BY DEF Shaped, Typed
  <2>3. QED
    BY <1>17, <1>24, <2>1, <2>2
<1>29. Prepared(tab, av, level, m3, level3, r, v)
  BY <1>22, <1>23, <1>24, <1>25, <1>26, <1>27, <1>28 DEF Prepared
<1>30. QED
  BY <1>1, <1>29

\* mapPage makes the page translate to the new entry.  Every other page
\* translates as before in every map, entries that were there stay, and the
\* structures keep their shape, whatever mapPage had to add on its way.
THEOREM MapPageMaps ==
  ASSUME NEW level, Shaped(tables, avail, level),
         NEW r \in Frames, level[r] = 4, NEW v \in Nat, v < VirtualPages,
         NEW leaf \in Entries, leaf.kind = "page", MapPage(r, v, leaf)
  PROVE  /\ Translation(tables', r, v) = leaf
         /\ avail' \subseteq avail
         /\ \E level2 : /\ Shaped(tables', avail', level2)
                        /\ Rewritten(tables, level, tables', level2, r, v)
<1> DEFINE mem == PageTableOf(Memory(r), v)
<1>1. /\ ~InLargePage(tables, r, v) /\ Missing(tables, r, v) <= Cardinality(avail)
      /\ tables' = [mem.tables EXCEPT ![mem.at] = [mem.tables[mem.at] EXCEPT ![Index(v, 1)] = leaf]]
      /\ avail' = mem.avail
  BY DEF MapPage
<1>2. mem = PageTableOf([tables |-> tables, avail |-> avail, at |-> r], v)
  BY DEF Memory
<1> HIDE DEF mem
<1>0. PICK level2 : Prepared(tables, avail, level, mem, level2, r, v)
  BY <1>1, <1>2, PageTableThere
<1>3. /\ Shaped(mem.tables, mem.avail, level2)
      /\ level2[r] = 4 /\ WalkTo1(mem.tables, level2, r, v)
      /\ E2(mem.tables, r, v).to = mem.at
      /\ Kept(tables, level, mem.tables, level2)
      /\ SameTranslations(tables, level, mem.tables)
      /\ mem.avail \subseteq avail
      /\ \A f \in Frames : level[f] = 4 =>
           \A i \in Indexes : ~(f = r /\ i = Index(v, 4)) =>
             mem.tables[f][i] = tables[f][i]
      /\ E4(tables, r, v) = Absent =>
           /\ E4(mem.tables, r, v).kind = "table"
           /\ level[E4(mem.tables, r, v).to] = 0
  BY <1>0 DEF Prepared
<1> DEFINE tab == mem.tables
           t == mem.at
           i == Index(v, 1)
           tab2 == tables'
<1>4. t \in Frames /\ i \in Indexes /\ tab \in [Frames -> [Indexes -> Entries]]
  BY <1>3, IndexInTable DEF Shaped, Typed, WalkTo1
<1>5. tab2 = [tab EXCEPT ![t] = [tab[t] EXCEPT ![i] = leaf]]
  BY <1>1
<1> HIDE DEF tab, t, i, tab2
<1>6. tab2 \in [Frames -> [Indexes -> Entries]]
  BY <1>4, <1>5
<1>7. \A h \in Frames, j \in Indexes :
        tab2[h][j] = IF h = t /\ j = i THEN leaf ELSE tab[h][j]
  <2>1. tab2[t] = [tab[t] EXCEPT ![i] = leaf] /\ \A h \in Frames : h # t => tab2[h] = tab[h]
    BY <1>4, <1>5
  <2>2. \A j \in Indexes : tab2[t][j] = IF j = i THEN leaf ELSE tab[t][j]
    BY <1>4, <2>1
  <2>3. QED
    BY <2>1, <2>2
<1>8. WritesLeaf(tab, mem.avail, level2, r, v, leaf, tab2)
  BY <1>3, <1>6, <1>7 DEF WritesLeaf, tab, t, i
<1>9. /\ Shaped(tab2, mem.avail, level2)
      /\ SameAbove(tab, level2, tab2)
      /\ Translation(tab2, r, v) = leaf
      /\ OthersSame(tab, level2, tab2, r, v)
  BY <1>8, LeafWritten, Zenon
<1>10. Rewritten(tables, level, tab2, level2, r, v)
  <2>1. ASSUME NEW f \in Frames, level[f] = 4
        PROVE  /\ level2[f] = 4
               /\ \A j \in Indexes :
                    \/ tab2[f][j] = tables[f][j]
                    \/ /\ f = r /\ j = Index(v, 4) /\ tables[f][j] = Absent
                       /\ tab2[f][j].kind = "table" /\ level[tab2[f][j].to] = 0
    <3>1. level2[f] = 4 /\ \A j \in Indexes : tab2[f][j] = tab[f][j]
      BY <1>3, <1>9, <2>1 DEF Kept, SameAbove
    <3>2. ASSUME NEW j \in Indexes, ~(f = r /\ j = Index(v, 4)) PROVE tab[f][j] = tables[f][j]
      BY <1>3, <2>1, <3>2 DEF tab
    <3>3. ASSUME NEW j \in Indexes, f = r, j = Index(v, 4)
          PROVE  \/ tab[f][j] = tables[f][j]
                 \/ /\ tables[f][j] = Absent
                    /\ tab[f][j].kind = "table" /\ level[tab[f][j].to] = 0
      <4>1. CASE tables[f][j] # Absent
        BY <1>3, <2>1, <3>3, <4>1 DEF Kept, tab
      <4>2. CASE tables[f][j] = Absent
        BY <1>3, <3>3, <4>2 DEF E4, tab
      <4>3. QED
        BY <4>1, <4>2
    <3>4. QED
      BY <3>1, <3>2, <3>3
  <2>2. ASSUME NEW s \in Frames, NEW w \in Nat, level[s] = 4, w < VirtualPages
        PROVE  \/ Translation(tab2, s, w) = Translation(tables, s, w)
               \/ /\ w = v /\ Translation(tables, s, w) = Translation(tables, r, v)
                  /\ E4(tab2, s, w).to = E4(tab2, r, v).to
    <3>1. level2[s] = 4
      BY <2>1, <2>2
    <3>2. /\ Translation(tab, s, w) = Translation(tables, s, w)
          /\ Translation(tab, r, v) = Translation(tables, r, v)
      BY <1>3, <2>2 DEF SameTranslations, tab
    <3>3. QED
      BY <1>9, <2>2, <3>1, <3>2 DEF OthersSame
  <2>3. QED
    BY <2>1, <2>2 DEF Rewritten, OthersSame
<1>11. QED
  BY <1>1, <1>3, <1>9, <1>10 DEF tab2

-----------------------------------------------------------------------------
(* unmapPage.                                                              *)

\* unmapPage makes a page that is mapped alone translate to nothing, and every
\* other page as before in every map.
THEOREM UnmapPageUnmaps ==
  ASSUME NEW level, Shaped(tables, avail, level),
         NEW r \in Frames, level[r] = 4, NEW v \in Nat, v < VirtualPages,
         Translation(tables, r, v).kind = "page", UnmapPage(r, v)
  PROVE  /\ Translation(tables', r, v) = Absent
         /\ avail' = avail
         /\ Shaped(tables', avail', level)
         /\ Rewritten(tables, level, tables', level, r, v)
<1>1. WalkTo1(tables, level, r, v) /\ Translation(tables, r, v) = E1(tables, r, v)
  <2>1. ~(Translation(tables, r, v).kind = "large") /\ Translation(tables, r, v) # Absent
    BY AbsentEntry
  <2>2. QED
    BY <2>1, WalkShape
<1> DEFINE path == Path(tables, r, v)
           l == CHOOSE k \in 1 .. 3 : path[k].kind \in {"page", "large"}
<1>2. /\ path[1] = E1(tables, r, v) /\ path[2] = E2(tables, r, v)
      /\ path[3] = E3(tables, r, v)
  BY Walk
<1>3. path[1].kind = "page" /\ path[2].kind = "table" /\ path[3].kind = "table"
  BY <1>1, <1>2 DEF WalkTo1, WalkTo2
<1>4. l = 1
  <2>1. \A k \in 1 .. 3 : path[k].kind \in {"page", "large"} <=> k = 1
    <3>1. \A k \in 1 .. 3 : k = 1 \/ k = 2 \/ k = 3
      OBVIOUS
    <3> HIDE DEF path
    <3>2. QED
      BY <1>3, <3>1
  <2> HIDE DEF path
  <2>2. QED
    BY <2>1
<1>5. Translation(tables, r, v) # Absent
  BY AbsentEntry
<1> DEFINE t == E2(tables, r, v).to
           i == Index(v, 1)
           tab2 == tables'
<1>6. /\ tab2 = [tables EXCEPT ![t] = [tables[t] EXCEPT ![i] = Absent]]
      /\ avail' = avail
  <2>1. tables' = [tables EXCEPT ![path[l + 1].to] =
                     [tables[path[l + 1].to] EXCEPT ![Index(v, l)] = Absent]]
        /\ avail' = avail
    BY <1>5 DEF UnmapPage
  <2>2. path[l + 1] = E2(tables, r, v)
    <3> HIDE DEF l, path
    <3>1. l + 1 = 2
      BY <1>4
    <3>2. QED
      BY <1>2, <3>1
  <2>3. QED
    BY <1>4, <2>1, <2>2
<1>7. t \in Frames /\ i \in Indexes /\ tables \in [Frames -> [Indexes -> Entries]]
  BY <1>1, IndexInTable DEF Shaped, Typed, WalkTo1
<1> HIDE DEF t, i, tab2, path, l
<1>8. tab2 \in [Frames -> [Indexes -> Entries]]
  BY <1>6, <1>7, AbsentEntry
<1>9. \A h \in Frames, j \in Indexes :
        tab2[h][j] = IF h = t /\ j = i THEN Absent ELSE tables[h][j]
  <2>1. tab2[t] = [tables[t] EXCEPT ![i] = Absent]
        /\ \A h \in Frames : h # t => tab2[h] = tables[h]
    BY <1>6, <1>7
  <2>2. \A j \in Indexes : tab2[t][j] = IF j = i THEN Absent ELSE tables[t][j]
    BY <1>7, <2>1
  <2>3. QED
    BY <2>1, <2>2
<1>10. WritesLeaf(tables, avail, level, r, v, Absent, tab2)
  BY <1>1, <1>8, <1>9, AbsentEntry DEF WritesLeaf, t, i
<1>11. /\ Shaped(tab2, avail, level)
       /\ SameAbove(tables, level, tab2)
       /\ Translation(tab2, r, v) = Absent
       /\ OthersSame(tables, level, tab2, r, v)
  BY <1>10, LeafWritten, Zenon
<1>12. Rewritten(tables, level, tab2, level, r, v)
  BY <1>11 DEF Rewritten, SameAbove
<1>13. QED
  BY <1>6, <1>11, <1>12 DEF tab2

-----------------------------------------------------------------------------
(* PML4s: the first one, those with a parent, and giving them back.        *)

\* A new PML4 has the parent's entries of the kernel's half and no others, and
\* no map translates differently for it.
THEOREM TableFromCopies ==
  ASSUME NEW level, Shaped(tables, avail, level),
         NEW p \in Frames, level[p] = 4, TableFrom(p)
  PROVE  LET g == Lowest(avail)
         IN  /\ g \in avail /\ avail' = avail \ {g}
             /\ \A i \in Indexes :
                  tables'[g][i] = IF i >= Boundary THEN tables[p][i] ELSE Absent
             /\ \A f \in Frames : f # g => tables'[f] = tables[f]
             /\ SameTranslations(tables, level, tables')
             /\ \E level2 : /\ Shaped(tables', avail', level2)
                            /\ Kept(tables, level, tables', level2)
                            /\ level2[g] = 4
<1> DEFINE g == Lowest(avail)
           tab2 == tables'
           level2 == [level EXCEPT ![g] = 4]
           av2 == avail \ {g}
<1>1. /\ level \in [Frames -> 0 .. 4] /\ tables \in [Frames -> [Indexes -> Entries]]
      /\ avail \subseteq Frames /\ \A a \in avail : level[a] = 0
      /\ GoodEntries(tables, level) /\ GoodLinks(tables, level)
  BY DEF Shaped, Typed
<1>2. avail # {} /\ tab2 = [tables EXCEPT ![g] = Copied(p)] /\ avail' = av2
  BY DEF TableFrom
<1>3. g \in avail /\ g \in Frames
  <2>1. avail \in SUBSET Nat /\ IsFiniteSet(avail)
    BY <1>1, TIsNat, TablesAssumption, FS_Subset
  <2>2. QED
    BY <1>1, <1>2, <2>1, LowestPage
<1>4. /\ level2 \in [Frames -> 0 .. 4]
      /\ \A h \in Frames : level2[h] = IF h = g THEN 4 ELSE level[h]
  BY <1>1, <1>3
<1> HIDE DEF g, tab2, level2, av2
<1>5. level[g] = 0 /\ g # p
  BY <1>1, <1>3
<1>6. Copied(p) \in [Indexes -> Entries]
      /\ \A i \in Indexes : Copied(p)[i] = IF i >= Boundary THEN tables[p][i] ELSE Absent
  BY <1>1, AbsentEntry DEF Copied
<1>7. tab2 \in [Frames -> [Indexes -> Entries]]
  BY <1>1, <1>2, <1>6
<1>8. /\ \A i \in Indexes : tab2[g][i] = IF i >= Boundary THEN tables[p][i] ELSE Absent
      /\ \A h \in Frames : h # g => tab2[h] = tables[h]
  BY <1>1, <1>2, <1>3, <1>6
<1>9. Typed(tab2, av2, level2)
  BY <1>1, <1>4, <1>7 DEF Typed, av2
<1>10. GoodEntries(tab2, level2)
  <2>1. SUFFICES ASSUME NEW h \in Frames, level2[h] # 0, NEW i \in Indexes
                 PROVE  GoodEntry(level2, h, i, tab2[h][i])
    BY DEF GoodEntries
  <2>2. CASE h = g
    <3>1. GoodEntry(level, p, i, tables[p][i])
      BY <1>1 DEF GoodEntries
    <3>2. CASE i >= Boundary
      <4>1. tab2[h][i] = tables[p][i] /\ level2[h] = 4
        BY <1>3, <1>4, <1>8, <2>2, <3>2
      <4>2. QED
        BY <1>4, <1>5, <3>1, <4>1 DEF GoodEntry
    <3>3. CASE ~(i >= Boundary)
      <4>1. tab2[h][i] = Absent
        BY <1>8, <2>2, <3>3
      <4>2. QED
        BY <4>1 DEF GoodEntry
    <3>4. QED
      BY <3>2, <3>3
  <2>3. CASE h # g
    <3>1. GoodEntry(level, h, i, tables[h][i]) /\ level2[h] = level[h]
      BY <1>1, <1>4, <2>1, <2>3 DEF GoodEntries
    <3>2. tab2[h][i] = tables[h][i]
      BY <1>8, <2>3
    <3>3. level[h] \in 2 .. 4 /\ tables[h][i].to = g => level[g] # level[h] - 1
      BY <1>5
    <3>4. QED
      BY <1>4, <3>1, <3>2, <3>3 DEF GoodEntry
  <2>4. QED
    BY <2>2, <2>3
<1>11. GoodLinks(tab2, level2)
  <2>1. SUFFICES ASSUME NEW a \in Frames, NEW b \in Frames,
                        NEW j \in Indexes, NEW k \in Indexes,
                        level2[a] # 0, tab2[a][j].kind = "table",
                        level2[b] # 0, tab2[b][k].kind = "table",
                        tab2[a][j].to = tab2[b][k].to
                 PROVE  j = k /\ (a = b \/ (level2[a] = 4 /\ j >= Boundary))
    BY DEF GoodLinks
  \* A link of the new PML4 is one of the parent's.
  <2> DEFINE Old(x) == IF x = g THEN p ELSE x
  <2>2. ASSUME NEW x \in Frames, NEW i \in Indexes, level2[x] # 0, tab2[x][i].kind = "table"
        PROVE  /\ Old(x) \in Frames /\ level[Old(x)] = level2[x]
               /\ tables[Old(x)][i] = tab2[x][i]
               /\ x = g => i >= Boundary
    <3>1. CASE x = g
      <4>1. i >= Boundary
        BY <1>8, <2>2, <3>1, AbsentEntry
      <4>2. QED
        BY <1>4, <1>8, <2>2, <3>1, <4>1
    <3>2. CASE x # g
      BY <1>4, <1>8, <2>2, <3>2
    <3>3. QED
      BY <3>1, <3>2
  <2> HIDE DEF Old
  <2>3. j = k /\ (Old(a) = Old(b) \/ (level2[a] = 4 /\ j >= Boundary))
    BY <1>1, <2>1, <2>2 DEF GoodLinks
  <2>4. QED
    BY <1>4, <2>1, <2>2, <2>3 DEF Old
<1>12. Shaped(tab2, av2, level2)
  BY <1>9, <1>10, <1>11 DEF Shaped
<1>13. Kept(tables, level, tab2, level2)
  BY <1>4, <1>5, <1>8 DEF Kept
<1>14. \A h \in Frames : level[h] # 0 =>
         level2[h] = level[h] /\ \A j \in Indexes : Grown(tab2, tables[h][j], tab2[h][j])
  BY <1>4, <1>5, <1>8 DEF Grown
<1>15. SameTranslations(tables, level, tab2)
  BY <1>12, <1>14, GrownWalk
<1>16. level2[g] = 4
  BY <1>3, <1>4
<1>17. QED
  BY <1>2, <1>3, <1>8, <1>12, <1>13, <1>15, <1>16 DEF tab2, av2, g

\* Deleting maps gives their PML4s back; no link leads to one.
LEMMA FreeTablesKeep ==
  ASSUME NEW level, Shaped(tables, avail, level),
         NEW roots \in SUBSET Frames, \A r \in roots : level[r] = 4, FreeTables(roots),
         NEW level2, level2 = [f \in Frames |-> IF f \in roots THEN 0 ELSE level[f]]
  PROVE  Shaped(tables', avail', level2) /\ tables' = tables
<1>1. /\ level \in [Frames -> 0 .. 4] /\ tables \in [Frames -> [Indexes -> Entries]]
      /\ avail \subseteq Frames /\ \A a \in avail : level[a] = 0
      /\ GoodEntries(tables, level) /\ GoodLinks(tables, level)
  BY DEF Shaped, Typed
<1>2. /\ level2 \in [Frames -> 0 .. 4]
      /\ \A h \in Frames : level2[h] = IF h \in roots THEN 0 ELSE level[h]
  BY <1>1
<1>3. tables' = tables /\ avail' = avail \cup (roots \cap Recognised)
  BY DEF FreeTables
<1>4. Typed(tables, avail', level2)
  BY <1>1, <1>2, <1>3, TablesAssumption DEF Typed
<1>5. GoodEntries(tables, level2)
  <2>1. SUFFICES ASSUME NEW h \in Frames, level2[h] # 0, NEW i \in Indexes
                 PROVE  GoodEntry(level2, h, i, tables[h][i])
    BY DEF GoodEntries
  <2>2. GoodEntry(level, h, i, tables[h][i]) /\ level2[h] = level[h]
    BY <1>1, <1>2, <2>1 DEF GoodEntries
  <2>3. \A x \in Frames : level[x] # 4 => level2[x] = level[x]
    BY <1>2
  <2>4. level[h] \in 2 .. 4 => level[h] - 1 # 4
    OBVIOUS
  <2>5. QED
    BY <2>2, <2>3, <2>4 DEF GoodEntry
<1>6. GoodLinks(tables, level2)
  <2>1. \A h \in Frames : level2[h] # 0 => level[h] # 0 /\ level2[h] = level[h]
    BY <1>2
  <2>2. QED
    BY <1>1, <2>1 DEF GoodLinks
<1>7. QED
  BY <1>3, <1>4, <1>5, <1>6 DEF Shaped

LEMMA ApertureEntries ==
  ASSUME NEW i \in Nat
  PROVE  /\ ApertureTable(i) \in [Indexes -> Entries]
         /\ \A j \in Indexes : ApertureTable(i)[j].kind = "large"
<1>1. Indexes \subseteq Nat
  BY TIsNat DEF Indexes, T
<1>2. Reach(4) = T * T * T /\ Reach(3) = T * T
  BY DEF Reach, T
<1>3. T * T \in Nat /\ T * T * T \in Nat
  BY TIsNat
<1>4. \A j \in Indexes : i * (T * T * T) + j * (T * T) \in Nat
  <2> DEFINE x == T * T
             y == T * T * T
  <2> HIDE DEF x, y
  <2>1. x \in Nat /\ y \in Nat
    BY <1>3 DEF x, y
  <2>2. \A j \in Indexes : i * y \in Nat /\ j * x \in Nat
    BY <1>1, <2>1
  <2>3. \A j \in Indexes : i * y + j * x \in Nat
    BY <2>2
  <2>4. QED
    BY <2>3 DEF x, y
<1>5. \A n \in Nat : Large(n) \in Entries /\ Large(n).kind = "large"
  BY DEF Large, Entry, Entries
<1>6. QED
  BY <1>2, <1>4, <1>5 DEF ApertureTable

\* The first PML4 and the PDPTs of the aperture.
LEMMA FirstTableShaped ==
  ASSUME NEW level, Shaped(tables, avail, level), FirstTable
  PROVE  LET g == Lowest(avail)
         IN  /\ g \in avail /\ avail' \subseteq avail \ {g}
             /\ \E level2 : /\ Shaped(tables', avail', level2)
                            /\ Kept(tables, level, tables', level2)
                            /\ level2[g] = 4
             /\ \A i \in Indexes : i < Boundary => tables'[g][i] = Absent
<1> DEFINE pdpt(i) == Nth(avail, i + 1)
           slots == 0 .. (ApertureTables - 1)
           g == Lowest(avail)
           pdpts == {pdpt(i) : i \in slots}
           tab2 == tables'
           level2 == [f \in Frames |-> IF f = g THEN 4 ELSE IF f \in pdpts THEN 3 ELSE level[f]]
           pml4 == [j \in Indexes |->
                      IF j - Boundary \in slots
                      THEN Entry("table", pdpt(j - Boundary), TRUE, FALSE) ELSE Absent]
<1>1. /\ level \in [Frames -> 0 .. 4] /\ tables \in [Frames -> [Indexes -> Entries]]
      /\ avail \subseteq Frames /\ \A a \in avail : level[a] = 0
      /\ GoodEntries(tables, level) /\ GoodLinks(tables, level)
  BY DEF Shaped, Typed
<1>2. /\ Cardinality(avail) > ApertureTables
      /\ tab2 = [f \in Frames |->
                   IF f = g THEN pml4
                   ELSE IF \E i \in slots : f = pdpt(i)
                        THEN ApertureTable(CHOOSE i \in slots : f = pdpt(i))
                        ELSE tables[f]]
      /\ avail' = avail \ ({g} \cup pdpts)
  BY DEF FirstTable
<1>3. ApertureTables \in Nat /\ slots \subseteq Nat
  BY TIsNat, TablesAssumption DEF T
<1>4. avail \in SUBSET Nat /\ IsFiniteSet(avail) /\ Cardinality(avail) \in Nat
  BY <1>1, TIsNat, TablesAssumption, FS_Subset, FS_CardinalityType
<1>5. g \in avail /\ Rank(avail, g) = 0
  <2>1. Cardinality(avail) # 0
    BY <1>2, <1>3, <1>4
  <2>2. avail # {}
    BY <2>1, FS_EmptySet
  <2>3. QED
    BY <1>4, <2>2, LowestPage
<1>6. ASSUME NEW i \in slots
      PROVE  pdpt(i) \in avail /\ Rank(avail, pdpt(i)) = i + 1
  <2>1. i + 1 \in Nat /\ i + 1 < Cardinality(avail)
    BY <1>2, <1>3, <1>4
  <2>2. QED
    BY <1>4, <2>1, NthPage
<1> HIDE DEF pdpt, slots, g, pml4, tab2, level2
<1>7. \A i, j \in slots : pdpt(i) = pdpt(j) => i = j
  BY <1>3, <1>6
<1>8. \A i \in slots : pdpt(i) # g
  BY <1>3, <1>5, <1>6
<1>9. g \in Frames /\ pdpts \subseteq Frames /\ level[g] = 0 /\ g \notin pdpts
      /\ \A f \in pdpts : f \in avail /\ level[f] = 0
  BY <1>1, <1>5, <1>6, <1>8
<1>10. /\ level2 \in [Frames -> 0 .. 4]
       /\ level2[g] = 4
       /\ \A f \in pdpts : level2[f] = 3
       /\ \A f \in Frames : level[f] # 0 => level2[f] = level[f]
       /\ \A f \in Frames : f # g /\ f \notin pdpts => level2[f] = level[f]
  BY <1>1, <1>9 DEF level2
<1>11. /\ pml4 \in [Indexes -> Entries]
       /\ \A j \in Indexes :
            \/ pml4[j] = Absent
            \/ /\ j - Boundary \in slots
               /\ pml4[j].kind = "table" /\ pml4[j].to = pdpt(j - Boundary)
               /\ pml4[j].user = FALSE
  <2>1. \A i \in slots : pdpt(i) \in Nat
    BY <1>4, <1>6
  <2>2. \A i \in slots : Entry("table", pdpt(i), TRUE, FALSE) \in Entries
    BY <2>1 DEF Entry, Entries
  <2>3. pml4 \in [Indexes -> Entries]
    BY <2>2, AbsentEntry DEF pml4
  <2>4. \A j \in Indexes : pml4[j] = IF j - Boundary \in slots
                        THEN Entry("table", pdpt(j - Boundary), TRUE, FALSE) ELSE Absent
    BY DEF pml4
  <2>5. \A p : /\ Entry("table", p, TRUE, FALSE).kind = "table"
               /\ Entry("table", p, TRUE, FALSE).to = p
               /\ Entry("table", p, TRUE, FALSE).user = FALSE
    BY DEF Entry
  <2>6. QED
    BY <2>3, <2>4, <2>5
<1>12. /\ tab2[g] = pml4
       /\ \A f \in pdpts : /\ tab2[f] \in [Indexes -> Entries]
                           /\ \A j \in Indexes : tab2[f][j].kind = "large"
       /\ \A f \in Frames : f # g /\ f \notin pdpts => tab2[f] = tables[f]
  <2>1. ASSUME NEW f \in pdpts
        PROVE  /\ tab2[f] \in [Indexes -> Entries]
               /\ \A j \in Indexes : tab2[f][j].kind = "large"
    <3> DEFINE i == CHOOSE i \in slots : f = pdpt(i)
    <3>1. \E k \in slots : f = pdpt(k)
      BY DEF pdpts
    <3>2. i \in slots
      BY <3>1
    <3>3. tab2[f] = ApertureTable(i)
      BY <1>2, <1>9, <3>1
    <3> HIDE DEF i
    <3>4. i \in Nat
      BY <1>3, <3>2
    <3>5. QED
      BY <3>3, <3>4, ApertureEntries
  <2>2. tab2[g] = pml4
    BY <1>2, <1>9
  <2>3. \A f \in Frames : f # g /\ f \notin pdpts => tab2[f] = tables[f]
    BY <1>2
  <2>4. QED
    BY <2>1, <2>2, <2>3
<1>13. tab2 \in [Frames -> [Indexes -> Entries]]
  <2>1. \E h : tab2 = [f \in Frames |-> h[f]]
    <3>1. tab2 = [f \in Frames |-> tab2[f]]
      BY <1>2
    <3>2. QED
      BY <3>1
  <2>2. \A f \in Frames : tab2[f] \in [Indexes -> Entries]
    BY <1>1, <1>11, <1>12
  <2>3. QED
    BY <2>1, <2>2
<1> HIDE DEF pdpts
<1>14. Typed(tab2, avail', level2)
  BY <1>1, <1>2, <1>10, <1>13 DEF Typed
<1>15. pdpts = {pdpt(i) : i \in slots}
  BY DEF pdpts
<1>16. GoodEntries(tab2, level2)
  <2>1. SUFFICES ASSUME NEW h \in Frames, level2[h] # 0, NEW i \in Indexes
                 PROVE  GoodEntry(level2, h, i, tab2[h][i])
    BY DEF GoodEntries
  <2>2. CASE h = g
    <3>1. CASE pml4[i] = Absent
      BY <1>12, <2>2, <3>1 DEF GoodEntry
    <3>2. CASE pml4[i] # Absent
      <4>1. /\ i - Boundary \in slots
            /\ pml4[i].kind = "table" /\ pml4[i].to = pdpt(i - Boundary)
            /\ pml4[i].user = FALSE
        BY <1>11, <3>2
      <4>2. pdpt(i - Boundary) \in pdpts
        BY <1>15, <4>1
      <4>3. tab2[h][i] = pml4[i]
        BY <1>12, <2>2
      <4>4. level2[h] = 4 /\ level2[pdpt(i - Boundary)] = 3 /\ pdpt(i - Boundary) \in Frames
        BY <1>9, <1>10, <2>2, <4>2
      <4>5. QED
        BY <4>1, <4>3, <4>4 DEF GoodEntry
    <3>3. QED
      BY <3>1, <3>2
  <2>3. CASE h \in pdpts
    BY <1>10, <1>12, <2>3 DEF GoodEntry
  <2>4. CASE h # g /\ h \notin pdpts
    <3>1. GoodEntry(level, h, i, tables[h][i]) /\ level2[h] = level[h] /\ tab2[h] = tables[h]
      BY <1>1, <1>10, <1>12, <2>1, <2>4 DEF GoodEntries
    <3>2. level[h] \in 2 .. 4 => level[h] - 1 # 0
      OBVIOUS
    <3>3. QED
      BY <1>10, <3>1, <3>2 DEF GoodEntry
  <2>5. QED
    BY <2>2, <2>3, <2>4
<1>17. GoodLinks(tab2, level2)
  <2>1. SUFFICES ASSUME NEW a \in Frames, NEW b \in Frames,
                        NEW j \in Indexes, NEW k \in Indexes,
                        level2[a] # 0, tab2[a][j].kind = "table",
                        level2[b] # 0, tab2[b][k].kind = "table",
                        tab2[a][j].to = tab2[b][k].to
                 PROVE  j = k /\ (a = b \/ (level2[a] = 4 /\ j >= Boundary))
    BY DEF GoodLinks
  <2>2. ASSUME NEW h \in Frames, NEW i \in Indexes, level2[h] # 0,
               tab2[h][i].kind = "table"
        PROVE  \/ /\ h = g /\ i - Boundary \in slots
                  /\ tab2[h][i].to = pdpt(i - Boundary)
               \/ /\ h # g /\ level[h] # 0 /\ level2[h] = level[h]
                  /\ tab2[h][i] = tables[h][i]
                  /\ level[tab2[h][i].to] # 0
    <3>1. CASE h = g
      <4>1. tab2[h][i] = pml4[i] /\ pml4[i] # Absent
        BY <1>12, <2>2, <3>1, AbsentEntry
      <4>2. QED
        BY <1>11, <3>1, <4>1
    <3>2. CASE h \in pdpts
      BY <1>12, <2>2, <3>2
    <3>3. CASE h # g /\ h \notin pdpts
      <4>1. level2[h] = level[h] /\ tab2[h] = tables[h]
        BY <1>10, <1>12, <3>3
      <4>2. GoodEntry(level, h, i, tables[h][i])
        BY <1>1, <2>2, <4>1 DEF GoodEntries
      <4>3. level[h] \in 2 .. 4 => level[h] - 1 # 0
        OBVIOUS
      <4>4. QED
        BY <2>2, <3>3, <4>1, <4>2, <4>3, AbsentEntry DEF GoodEntry
    <3>4. QED
      BY <3>1, <3>2, <3>3
  <2>3. \A i \in slots : level[pdpt(i)] = 0
    BY <1>9, <1>15
  <2>4. CASE a = g /\ b = g
    <3>1. j - Boundary = k - Boundary
      BY <1>7, <2>1, <2>2, <2>4
    <3>2. j \in Int /\ k \in Int /\ Boundary \in Int
      BY TIsNat DEF Indexes
    <3>3. QED
      BY <2>4, <3>1, <3>2
  <2>5. CASE a # g /\ b # g
    BY <1>1, <2>1, <2>2, <2>5 DEF GoodLinks
  <2>6. CASE (a = g /\ b # g) \/ (a # g /\ b = g)
    BY <2>1, <2>2, <2>3, <2>6
  <2>7. QED
    BY <2>4, <2>5, <2>6
<1>18. Shaped(tab2, avail', level2)
  BY <1>14, <1>16, <1>17 DEF Shaped
<1>19. Kept(tables, level, tab2, level2)
  BY <1>9, <1>10, <1>12 DEF Kept
<1>20. ASSUME NEW i \in Indexes, i < Boundary PROVE tab2[g][i] = Absent
  <2>1. i \in Int /\ Boundary \in Int
    BY TIsNat DEF Indexes
  <2>2. i - Boundary \notin slots
    BY <1>3, <1>20, <2>1 DEF slots
  <2>3. QED
    BY <1>11, <1>12, <2>2
<1>21. QED
  BY <1>2, <1>5, <1>10, <1>18, <1>19, <1>20 DEF tab2, g

-----------------------------------------------------------------------------
(* Maps.                                                                     *)

\* The parts of the right-hand side of ReferencesCounted.
Children(m) == {c \in Live : parent[c] = m}
Makers(m) == IF m \in owned THEN 1 ELSE 0
Drops(m) == IF job.op = "drop" /\ job.map = m THEN 1 ELSE 0

\* Maps are made in order, each with a parent made before or none; the kernel
\* map is never released, and the active map has a maker that keeps it.
RefShape ==
  /\ made \in 0 .. MaxMaps
  /\ refs \in [Maps -> Nat]
  /\ parent \in [Maps -> 0 .. made]
  /\ owned \subseteq 1 .. made
  /\ \A m \in Maps : m > made => refs[m] = 0
  /\ made > 0 => KernelMap \in owned
  /\ current \in owned \cup {0}
  /\ job.op = "drop" => job.map \in Maps /\ job = Job("drop", job.map, 0, 0, 0, {})

RefInv == RefShape /\ ReferencesCounted

LEMMA MapsAreNumbers ==
  /\ MaxMaps \in Nat \ {0}
  /\ Maps \subseteq Nat
  /\ KernelMap \in Maps
  /\ 0 \notin Maps
BY MapsAssumption DEF Maps, KernelMap

LEMMA ChildrenFinite ==
  ASSUME NEW m
  PROVE  IsFiniteSet(Children(m)) /\ Cardinality(Children(m)) \in Nat
<1>1. IsFiniteSet(Maps)
  BY MapsAreNumbers, FS_Interval DEF Maps
<1>2. Children(m) \subseteq Maps
  BY DEF Children, Live
<1>3. QED
  BY <1>1, <1>2, FS_Subset, FS_CardinalityType

LEMMA CountedParts ==
  ReferencesCounted <=>
    \A m \in Maps : refs[m] = Makers(m) + Cardinality(Children(m)) + Drops(m)
BY DEF ReferencesCounted, Makers, Children, Drops

\* Whoever has a reference keeps the map alive.
LEMMA CountedLive ==
  ASSUME RefInv, NEW m \in Maps
  PROVE  /\ m \in owned => m \in Live
         /\ job.op = "drop" /\ job.map = m => m \in Live
         /\ Children(m) # {} => m \in Live
<1>1. refs[m] = Makers(m) + Cardinality(Children(m)) + Drops(m)
  BY CountedParts DEF RefInv
<1>2. Cardinality(Children(m)) \in Nat
  BY ChildrenFinite
<1>3. Children(m) # {} => Cardinality(Children(m)) # 0
  BY ChildrenFinite, FS_EmptySet
<1>4. refs[m] > 0 => m \in Live
  BY DEF Live
<1>5. CASE m \in owned
  BY <1>1, <1>2, <1>3, <1>4, <1>5 DEF Makers, Drops
<1>6. CASE m \notin owned
  BY <1>1, <1>2, <1>3, <1>4, <1>6 DEF Makers, Drops
<1>7. QED
  BY <1>5, <1>6

-----------------------------------------------------------------------------
LEMMA RefInit == Init => RefInv
<1>1. SUFFICES ASSUME Init PROVE RefInv
  OBVIOUS
<1>2. RefShape
  BY <1>1, MapsAreNumbers DEF Init, RefShape, Idle, Job
<1>3. \A m \in Maps : Children(m) = {}
  BY <1>1 DEF Init, Children, Live
<1>4. \A m \in Maps : refs[m] = 0 /\ Makers(m) = 0 /\ Drops(m) = 0
  BY <1>1 DEF Init, Makers, Drops, Idle, Job
<1>5. \A m \in Maps : refs[m] = Makers(m) + Cardinality(Children(m)) + Drops(m)
  BY <1>3, <1>4, FS_EmptySet
<1>6. QED
  BY <1>2, <1>5, CountedParts DEF RefInv

\* A step that leaves the maps alone, and is no part of dropping one.
LEMMA RefUntouched ==
  ASSUME RefInv, UNCHANGED <<made, refs, parent, owned>>,
         current' \in owned \cup {0},
         \/ job' = job
         \/ job.op # "drop" /\ job'.op # "drop"
  PROVE  RefInv'
<1>1. RefShape'
  BY DEF RefInv, RefShape
<1>2. \A m : Children(m)' = Children(m) /\ Makers(m)' = Makers(m)
  BY DEF Children, Live, Makers
<1>3. \A m \in Maps : Drops(m)' = Drops(m)
  BY DEF Drops
<1>4. \A m \in Maps : refs'[m] = refs[m]
  OBVIOUS
<1>5. ReferencesCounted'
  BY <1>2, <1>3, <1>4 DEF RefInv, ReferencesCounted, Children, Makers, Drops
<1>6. QED
  BY <1>1, <1>5 DEF RefInv

LEMMA RefFirstMap == RefInv /\ FirstMap => RefInv'
<1>1. SUFFICES ASSUME RefInv, FirstMap PROVE RefInv'
  OBVIOUS
<1>2. \A m \in Maps : refs[m] = 0
  BY <1>1, MapsAreNumbers DEF FirstMap, RefInv, RefShape
<1>3. refs \in [Maps -> Nat] /\ parent \in [Maps -> 0 .. 0] /\ 1 \in Maps
  BY <1>1, MapsAreNumbers DEF FirstMap, RefInv, RefShape, KernelMap
<1>4. \A m \in Maps : refs'[m] = IF m = 1 THEN 1 ELSE 0
  BY <1>1, <1>2, <1>3 DEF FirstMap
<1>5. RefShape'
  <2>1. refs' \in [Maps -> Nat] /\ parent' \in [Maps -> 0 .. 1] /\ made' \in 0 .. MaxMaps
    BY <1>1, <1>3, MapsAreNumbers DEF FirstMap
  <2>2. owned' = {1} /\ made' = 1 /\ current' = current /\ job' = job
    BY <1>1 DEF FirstMap, KernelMap
  <2>3. current = 0
    BY <1>1 DEF FirstMap, RefInv, RefShape
  <2>4. QED
    BY <1>1, <1>4, <2>1, <2>2, <2>3, MapsAreNumbers
       DEF RefShape, RefInv, KernelMap
<1>6. \A m \in Maps : Children(m)' = {}
  <2>1. parent' = parent
    BY <1>1 DEF FirstMap
  <2>2. \A c \in Maps : parent'[c] = 0
    BY <1>3, <2>1
  <2>3. Live' \subseteq Maps
    BY DEF Live
  <2>4. QED
    BY <2>2, <2>3, MapsAreNumbers DEF Children
<1>7. \A m \in Maps : Drops(m)' = 0 /\ Makers(m)' = IF m = 1 THEN 1 ELSE 0
  BY <1>1 DEF FirstMap, Drops, Makers, Ready, Idle, Job, KernelMap
<1>8. \A m \in Maps : refs'[m] = Makers(m)' + Cardinality(Children(m)') + Drops(m)'
  BY <1>4, <1>6, <1>7, FS_EmptySet
<1>9. QED
  BY <1>5, <1>8 DEF RefInv, ReferencesCounted, Children, Makers, Drops

LEMMA RefNewMap ==
  ASSUME RefInv, NEW p \in Live \cup {0}, NewMap(p)
  PROVE  RefInv'
<1> DEFINE up == ParentFor(p)
           new == made + 1
<1>1. /\ made \in 1 .. (MaxMaps - 1) /\ job = Idle /\ job' = job
      /\ made' = new /\ owned' = owned \cup {new} /\ current' = current
      /\ parent' = [parent EXCEPT ![new] = up]
      /\ refs' = [[refs EXCEPT ![up] = @ + 1] EXCEPT ![new] = 1]
  BY DEF NewMap, Ready, WithParent
<1>2. /\ refs \in [Maps -> Nat] /\ parent \in [Maps -> 0 .. made]
      /\ new \in Maps /\ refs[new] = 0 /\ new \notin owned
  BY <1>1, MapsAreNumbers DEF RefInv, RefShape, Maps
<1>3. up \in Live /\ up # new /\ up \in 1 .. made
  <2>1. KernelMap \in Live
    BY <1>1, CountedLive, MapsAreNumbers DEF RefInv, RefShape
  <2>2. up \in Live
    BY <2>1 DEF ParentFor
  <2>3. QED
    <3>1. up \in Maps /\ refs[up] > 0
      BY <2>2 DEF Live
    <3> HIDE DEF up, new
    <3>2. up \in Nat /\ up # 0 /\ up # new
      <4>1. up = new => refs[up] = 0
        BY <1>2
      <4>2. QED
        BY <3>1, <4>1, MapsAreNumbers
    <3>3. ~(up > made)
      BY <3>1 DEF RefInv, RefShape
    <3>4. QED
      BY <1>1, <2>2, <3>2, <3>3
<1> HIDE DEF up, new
<1>4. \A m \in Maps :
        refs'[m] = IF m = new THEN 1 ELSE IF m = up THEN refs[m] + 1 ELSE refs[m]
  BY <1>1, <1>2, <1>3 DEF Live
<1>5. RefShape'
  <2>1. refs' \in [Maps -> Nat] /\ made' \in 0 .. MaxMaps
    BY <1>1, <1>2, MapsAreNumbers DEF Live, new
  <2>2. parent' \in [Maps -> 0 .. made']
    <3>1. \A m \in Maps : parent'[m] \in 0 .. made'
      BY <1>1, <1>2, <1>3 DEF new
    <3>2. QED
      BY <1>1, <1>2, <3>1
  <2>3. owned' \subseteq 1 .. made'
    BY <1>1 DEF RefInv, RefShape, new
  <2>4. \A m \in Maps : m > made' => refs'[m] = 0
    BY <1>1, <1>3, <1>4, MapsAreNumbers DEF RefInv, RefShape, new
  <2>5. KernelMap \in owned' /\ current' \in owned' \cup {0}
    BY <1>1 DEF RefInv, RefShape
  <2>6. job'.op # "drop"
    BY <1>1 DEF Idle, Job
  <2>7. QED
    BY <2>1, <2>2, <2>3, <2>4, <2>5, <2>6 DEF RefShape
<1>6. Live' = Live \cup {new}
  <2>1. \A m \in Maps : refs'[m] > 0 <=> refs[m] > 0 \/ m = new
    BY <1>2, <1>3, <1>4 DEF Live
  <2>2. QED
    BY <1>2, <2>1 DEF Live
<1>7. new \notin Live
  BY <1>2 DEF Live
<1>8. \A m \in Maps : Children(m)' = IF m = up THEN Children(m) \cup {new}
                                     ELSE Children(m)
  BY <1>1, <1>2, <1>6, <1>7 DEF Children, Live
<1>9. \A m \in Maps : Cardinality(Children(m)') =
        IF m = up THEN Cardinality(Children(m)) + 1 ELSE Cardinality(Children(m))
  <2>1. TAKE m \in Maps
  <2>2. new \notin Children(m)
    BY <1>7 DEF Children
  <2>3. CASE m = up
    BY <1>8, <2>2, <2>3, ChildrenFinite, FS_AddElement
  <2>4. CASE m # up
    BY <1>8, <2>4
  <2>5. QED
    BY <2>3, <2>4
<1>10. Children(new) = {}
  <2>1. \A c \in Maps : parent[c] \in 0 .. made
    BY <1>2
  <2>2. new \notin 0 .. made
    BY <1>1 DEF new
  <2>3. QED
    BY <2>1, <2>2 DEF Children, Live
<1>11. \A m \in Maps : /\ Drops(m)' = 0 /\ Drops(m) = 0
                       /\ Makers(m)' = IF m = new THEN 1 ELSE Makers(m)
  BY <1>1 DEF Drops, Idle, Job, Makers
<1>12. \A m \in Maps : refs[m] = Makers(m) + Cardinality(Children(m)) + Drops(m)
  BY CountedParts DEF RefInv
<1>13. \A m \in Maps : refs'[m] = Makers(m)' + Cardinality(Children(m)') + Drops(m)'
  <2>1. TAKE m \in Maps
  <2>2. Cardinality(Children(m)) \in Nat /\ Makers(m) \in Nat
    BY ChildrenFinite DEF Makers
  <2>3. CASE m = new
    <3>1. Cardinality(Children(m)) = 0
      BY <1>10, <2>3, FS_EmptySet
    <3>2. QED
      BY <1>3, <1>4, <1>9, <1>11, <2>3, <3>1
  <2>4. CASE m # new
    BY <1>4, <1>9, <1>11, <1>12, <2>2, <2>4
  <2>5. QED
    BY <2>3, <2>4
<1>14. QED
  BY <1>5, <1>13 DEF RefInv, ReferencesCounted, Children, Makers, Drops

LEMMA RefRelease ==
  ASSUME RefInv, NEW m \in Live, Release(m)
  PROVE  RefInv'
<1>1. /\ m \in owned \ {current, KernelMap} /\ owned' = owned \ {m}
      /\ UNCHANGED <<made, refs, parent, current>>
      /\ job.op = "idle" /\ job'.op = "drop" /\ job'.map = m
      /\ job' = Job("drop", m, 0, 0, 0, {})
  BY DEF Release, Ready, Idle, Job
<1>2. RefShape'
  BY <1>1 DEF RefInv, RefShape, Live
<1>3. \A n \in Maps : Children(n)' = Children(n)
  BY <1>1 DEF Children, Live
<1>4. \A n \in Maps : Makers(n)' + Drops(n)' = Makers(n) + Drops(n)
  BY <1>1 DEF Makers, Drops
<1>5. \A n \in Maps : refs[n] = Makers(n) + Cardinality(Children(n)) + Drops(n)
  BY CountedParts DEF RefInv
<1>6. \A n \in Maps : refs'[n] = Makers(n)' + Cardinality(Children(n)') + Drops(n)'
  <2>1. TAKE n \in Maps
  <2>2. /\ Cardinality(Children(n)) \in Nat
        /\ Makers(n) \in Nat /\ Drops(n) \in Nat
        /\ Makers(n)' \in Nat /\ Drops(n)' \in Nat
    BY ChildrenFinite DEF Makers, Drops
  <2>3. Cardinality(Children(n)') = Cardinality(Children(n))
    BY <1>3
  <2>4. refs'[n] = refs[n]
    BY <1>1
  <2>5. QED
    BY <1>4, <1>5, <2>2, <2>3, <2>4
<1>7. QED
  BY <1>2, <1>6 DEF RefInv, ReferencesCounted, Children, Makers, Drops

\* The last reference takes the map out of its parent's children and makes the
\* parent the next to be dropped.
LEMMA RefDrop ==
  ASSUME RefInv, Drop
  PROVE  RefInv'
<1> DEFINE m == job.map
           goesOn == refs[m] = 1 /\ parent[m] # 0
<1>1. /\ job.op = "drop" /\ m \in Maps
      /\ refs' = [refs EXCEPT ![m] = @ - 1]
      /\ UNCHANGED <<made, parent, owned, current>>
      /\ goesOn => job' = [job EXCEPT !.map = parent[m]]
      /\ ~goesOn => job' = Idle
  BY DEF Drop, RefInv, RefShape
<1>2. m \in Live /\ refs \in [Maps -> Nat] /\ parent \in [Maps -> 0 .. made]
  BY <1>1, CountedLive DEF RefInv, RefShape
<1>3. \A n \in Maps : refs[n] = Makers(n) + Cardinality(Children(n)) + Drops(n)
  BY CountedParts DEF RefInv
<1>4. \A n \in Maps : refs'[n] = IF n = m THEN refs[n] - 1 ELSE refs[n]
  BY <1>1, <1>2
<1>5. \A n \in Maps : Cardinality(Children(n)) \in Nat /\ Makers(n) \in Nat
  BY ChildrenFinite DEF Makers
<1>6. Drops(m) = 1 /\ \A n \in Maps : n # m => Drops(n) = 0
  BY <1>1 DEF Drops
<1>7. \A n \in Maps : Makers(n)' = Makers(n)
  BY <1>1 DEF Makers
<1>8. refs[m] \in Nat \ {0}
  BY <1>2 DEF Live
<1>9. refs[m] = 1 => Children(m) = {}
  <2>1. ASSUME refs[m] = 1 PROVE Cardinality(Children(m)) = 0
    BY <1>1, <1>3, <1>5, <1>6, <2>1
  <2>2. QED
    BY <2>1, ChildrenFinite, FS_EmptySet
<1>10. goesOn => job' = Job("drop", parent[m], 0, 0, 0, {})
  <2>1. job = Job("drop", m, 0, 0, 0, {})
    BY <1>1 DEF RefInv, RefShape
  <2>2. [Job("drop", m, 0, 0, 0, {}) EXCEPT !.map = parent[m]]
          = Job("drop", parent[m], 0, 0, 0, {})
    BY DEF Job
  <2>3. QED
    BY <1>1, <2>1, <2>2
<1>11. ~goesOn => job'.op = "idle"
  BY <1>1 DEF Idle, Job
<1> HIDE DEF m, goesOn
<1>12. RefShape'
  <2>1. refs' \in [Maps -> Nat]
    BY <1>1, <1>2, <1>8
  <2>2. \A n \in Maps : n > made => refs'[n] = 0
    BY <1>4, <1>8 DEF RefInv, RefShape
  <2>3. job'.op = "drop" =>
          job'.map \in Maps /\ job' = Job("drop", job'.map, 0, 0, 0, {})
    <3>1. goesOn => parent[m] \in 1 .. made
      BY <1>1, <1>2 DEF goesOn, RefInv, RefShape
    <3>2. goesOn => parent[m] \in Maps
      BY <3>1, MapsAreNumbers DEF RefInv, RefShape, Maps
    <3>3. QED
      BY <3>2, <1>10, <1>11 DEF Job
  <2>4. QED
    BY <1>1, <2>1, <2>2, <2>3 DEF RefInv, RefShape
<1>13. CASE refs[m] # 1
  <2>1. Live' = Live
    BY <1>4, <1>8, <1>13, <1>2 DEF Live
  <2>2. \A n \in Maps : Children(n)' = Children(n)
    BY <1>1, <2>1 DEF Children
  <2>3. \A n \in Maps : Drops(n)' = 0
    BY <1>11, <1>13 DEF Drops, goesOn
  <2>4. \A n \in Maps : refs'[n] = Makers(n)' + Cardinality(Children(n)') + Drops(n)'
    BY <1>3, <1>4, <1>5, <1>6, <1>7, <2>2, <2>3
  <2>5. QED
    BY <1>12, <2>4 DEF RefInv, ReferencesCounted, Children, Makers, Drops
<1>14. CASE refs[m] = 1
  <2>1. Live' = Live \ {m}
    BY <1>1, <1>2, <1>4, <1>14 DEF Live
  <2>2. \A n \in Maps : Children(n)' = Children(n) \ {m}
    BY <1>1, <2>1 DEF Children
  <2>3. \A n \in Maps : m \in Children(n) <=> n = parent[m]
    BY <1>2 DEF Children
  <2>4. \A n \in Maps : Cardinality(Children(n)') =
          IF n = parent[m] THEN Cardinality(Children(n)) - 1 ELSE Cardinality(Children(n))
    BY <2>2, <2>3, ChildrenFinite, FS_RemoveElement
  <2>5. parent[m] # m
    BY <1>1, <1>9, <1>14, <2>3
  <2>6. \A n \in Maps : Drops(n)' = IF n = parent[m] THEN 1 ELSE 0
    <3>1. CASE goesOn
      BY <1>10, <3>1 DEF Drops, Job
    <3>2. CASE ~goesOn
      BY <1>11, <1>14, <3>2, MapsAreNumbers DEF Drops, goesOn
    <3>3. QED
      BY <3>1, <3>2
  <2>7. \A n \in Maps : refs'[n] = Makers(n)' + Cardinality(Children(n)') + Drops(n)'
    <3>1. TAKE n \in Maps
    <3>2. refs[n] = Makers(n) + Cardinality(Children(n)) + Drops(n)
      BY <1>3
    <3>3. CASE n = m
      BY <1>4, <1>5, <1>6, <1>7, <2>4, <2>5, <2>6, <3>2, <3>3
    <3>4. CASE n # m
      BY <1>4, <1>5, <1>6, <1>7, <2>4, <2>6, <3>2, <3>4
    <3>5. QED
      BY <3>3, <3>4
  <2>8. QED
    BY <1>12, <2>7 DEF RefInv, ReferencesCounted, Children, Makers, Drops
<1>15. QED
  BY <1>13, <1>14

LEMMA RefStep == RefInv /\ [Next]_vars => RefInv'
<1>1. SUFFICES ASSUME RefInv, [Next]_vars PROVE RefInv'
  OBVIOUS
<1>2. current \in owned \cup {0}
  BY <1>1 DEF RefInv, RefShape
<1>3. CASE FirstMap
  BY <1>1, <1>3, RefFirstMap
<1>4. ASSUME NEW p \in Live \cup {0}, NewMap(p) PROVE RefInv'
  BY <1>1, <1>4, RefNewMap
<1>5. ASSUME NEW m \in Live, Release(m) PROVE RefInv'
  BY <1>1, <1>5, RefRelease
<1>6. ASSUME NEW m \in Live, Activate(m) PROVE RefInv'
  BY <1>1, <1>6, RefUntouched DEF Activate, mapVars
<1>7. ASSUME NEW m \in Live, NEW r \in Regions, NEW base \in Bases, Add(m, r, base)
      PROVE  RefInv'
  BY <1>1, <1>2, <1>7, RefUntouched DEF Add, Ready, Idle, Job
<1>8. ASSUME NEW base \in VAreas, VAlloc(base) PROVE RefInv'
  BY <1>1, <1>2, <1>8, RefUntouched DEF VAlloc, mapVars, Ready, Idle, Job
<1>9. ASSUME NEW base \in VAreas, VFree(base) PROVE RefInv'
  BY <1>1, <1>2, <1>9, RefUntouched DEF VFree, mapVars, Ready, Idle, Job
<1>10. ASSUME NEW v \in Accessed, Access(v) PROVE RefInv'
  BY <1>1, <1>2, <1>10, RefUntouched DEF Access, mapVars
<1>11. CASE NewMapPanics
  BY <1>1, <1>2, <1>11, RefUntouched DEF NewMapPanics, mapVars
<1>12. CASE Drop
  BY <1>1, <1>12, RefDrop
<1>13. CASE MapStep
  BY <1>1, <1>2, <1>13, RefUntouched DEF MapStep, NextPage, mapVars, Idle, Job
<1>14. CASE MapPanics
  BY <1>1, <1>2, <1>14, RefUntouched DEF MapPanics, mapVars
<1>15. CASE UnmapStep
  BY <1>1, <1>2, <1>15, RefUntouched DEF UnmapStep, NextPage, mapVars
<1>16. CASE Flush
  BY <1>1, <1>2, <1>16, RefUntouched DEF Flush, mapVars, Idle, Job
<1>17. CASE UNCHANGED vars
  BY <1>1, <1>2, <1>17, RefUntouched DEF vars, mapVars
<1>18. QED
  BY <1>1, <1>3, <1>4, <1>5, <1>6, <1>7, <1>8, <1>9, <1>10, <1>11, <1>12,
     <1>13, <1>14, <1>15, <1>16, <1>17 DEF Next

\* The inductive invariant of the reference counts.
THEOREM RefInvHolds == Spec => []RefInv
BY RefInit, RefStep, PTL DEF Spec

\* A map's reference count is its maker's reference, one per live child and one
\* that is being dropped (RefCountable, Map::Map, Map::~Map).
THEOREM CountsCorrect == Spec => []ReferencesCounted
<1>1. RefInv => ReferencesCounted
  BY DEF RefInv
<1>2. QED
  BY <1>1, RefInvHolds, PTL

\* No map outlives its parent, and the processor's map is not deleted under it:
\* the pointers that Map::parent and the processor's locals hold are to live maps.
PointersLive ==
  /\ \A m \in Live : parent[m] = 0 \/ parent[m] \in Live
  /\ current = 0 \/ current \in Live
  /\ made > 0 => KernelMap \in Live

LEMMA RefPointersLive == RefInv => PointersLive
<1>1. SUFFICES ASSUME RefInv PROVE PointersLive
  OBVIOUS
<1>2. ASSUME NEW m \in Live, parent[m] # 0 PROVE parent[m] \in Live
  <2>1. parent[m] \in 1 .. made /\ made \in 0 .. MaxMaps
    BY <1>1, <1>2 DEF RefInv, RefShape, Live
  <2>2. parent[m] \in Maps
    BY <2>1, MapsAreNumbers DEF Maps
  <2>3. m \in Children(parent[m])
    BY DEF Children
  <2>4. QED
    BY <1>1, <2>2, <2>3, CountedLive
<1>3. owned \subseteq Maps
  BY <1>1, MapsAreNumbers DEF RefInv, RefShape, Maps
<1>4. owned \subseteq Live
  BY <1>1, <1>3, CountedLive
<1>5. QED
  BY <1>1, <1>2, <1>4 DEF PointersLive, RefInv, RefShape

\* A map's parent lives as long as the map, and the processor never walks a deleted map.
THEOREM NoDanglingMap == Spec => []PointersLive
BY RefPointersLive, RefInvHolds, PTL

LEMMA PointersLiveAfter == RefInv' => PointersLive'
BY RefPointersLive, PTL

-----------------------------------------------------------------------------
(* The invariant of the paging structures, the call in progress and the    *)
(* cache.                                                                  *)

\* Every map that has a PML4 has one of its own, and live maps have one.
RootsOK ==
  /\ root \in [Maps -> Frames \cup {0}]
  /\ \A m, n \in Maps : root[m] = root[n] /\ root[m] # 0 => m = n
  /\ \A m \in Live : root[m] # 0
  /\ \A m \in Maps : m > made => root[m] = 0

\* What a map took from its parent the two still have in common.
CopiedOK ==
  /\ copied \in [Maps -> SUBSET Indexes]
  /\ \A m \in Maps : m > made => copied[m] = {}
  /\ \A m \in Live : \A i \in copied[m] :
       /\ parent[m] # 0
       /\ tables[root[m]][i] = tables[root[parent[m]]][i]
       /\ tables[root[m]][i] # Absent

Leveled(level) == \A m \in Maps : root[m] # 0 => level[root[m]] = 4

TablesOK ==
  /\ RootsOK
  /\ CopiedOK
  /\ \E level : Shaped(tables, avail, level) /\ Leveled(level)

\* A call in progress has pages left that are as its caller saw them.
JobOK ==
  /\ job \in [op : {"idle", "map", "unmap", "flush", "drop"}, map : Nat,
              first : Nat, page : Nat, last : Int, phys : Nat,
              mode : SUBSET {"write", "user"}]
  /\ job.op \in {"map", "unmap", "flush"} =>
       /\ job.map \in owned
       /\ job.page \in job.first .. job.last
       /\ job.last < VirtualPages
  /\ job.op = "map" =>
       \A v \in job.page .. job.last : TranslationIn(job.map, v) = Absent
  /\ job.op = "unmap" =>
       \A v \in job.page .. job.last : TranslationIn(job.map, v).kind = "page"

CacheOK ==
  /\ DOMAIN tlb \subseteq Accessed
  /\ current = 0 => DOMAIN tlb = {}
  /\ \A v \in DOMAIN tlb : tlb[v] # Absent
  /\ CacheFollowsTables

CountsOK == entryRefs \in [Regions -> Nat \ {0}] /\ panicked \in BOOLEAN

VmInv == RefInv /\ CountsOK /\ TablesOK /\ JobOK /\ CacheOK

LEMMA IdleJob ==
  /\ Idle \in [op : {"idle", "map", "unmap", "flush", "drop"}, map : Nat,
               first : Nat, page : Nat, last : Int, phys : Nat,
               mode : SUBSET {"write", "user"}]
  /\ Idle.op = "idle"
BY DEF Idle, Job

\* Live maps have a PML4 in memory.
LEMMA LiveRoot ==
  ASSUME TablesOK, NEW m \in Live
  PROVE  m \in Maps /\ root[m] \in Frames /\ root[m] # 0
BY DEF TablesOK, RootsOK, Live

LEMMA OwnedLive ==
  ASSUME RefInv, NEW m \in owned
  PROVE  m \in Live
<1>1. m \in Maps
  BY MapsAreNumbers DEF RefInv, RefShape, Maps
<1>2. QED
  BY <1>1, CountedLive

LEMMA VmInit == Init => VmInv
<1>1. SUFFICES ASSUME Init PROVE VmInv
  OBVIOUS
<1>2. RefInv
  BY <1>1, RefInit
<1>3. Live = {}
  BY <1>1 DEF Init, Live
<1>4. tables = [f \in Frames |-> Cleared] /\ avail = Frames
  BY <1>1 DEF Init, Cleared
<1> DEFINE level == [f \in Frames |-> 0]
<1>5. Typed(tables, avail, level)
  BY <1>4, ClearedEntries DEF Typed
<1>6. \A f \in Frames : level[f] = 0
  OBVIOUS
<1> HIDE DEF level
<1>7. GoodEntries(tables, level) /\ GoodLinks(tables, level)
  BY <1>6 DEF GoodEntries, GoodLinks
<1>8. RootsOK /\ CopiedOK /\ Leveled(level)
  BY <1>1, <1>3 DEF Init, RootsOK, CopiedOK, Leveled
<1>9. TablesOK
  BY <1>5, <1>7, <1>8 DEF TablesOK, Shaped
<1>10. JobOK
  BY <1>1, IdleJob DEF Init, JobOK
<1>11. CacheOK
  <2>1. DOMAIN tlb = {}
    BY <1>1 DEF Init
  <2>2. QED
    BY <2>1 DEF CacheOK, CacheFollowsTables
<1>12. CountsOK
  <2>1. entryRefs \in [Regions -> Nat \ {0}]
    BY <1>1 DEF Init
  <2>2. panicked \in BOOLEAN
    BY <1>1, Zenon DEF Init
  <2>3. QED
    BY <2>1, <2>2 DEF CountsOK
<1>13. QED
  BY <1>2, <1>9, <1>10, <1>11, <1>12 DEF VmInv

-----------------------------------------------------------------------------
(* Steps that leave the structures alone.                                  *)

LEMMA TablesUntouched ==
  ASSUME TablesOK, UNCHANGED <<memory, made, root, parent, copied>>, Live' \subseteq Live
  PROVE  TablesOK'
<1>1. RootsOK'
  BY DEF TablesOK, RootsOK
<1>2. CopiedOK'
  BY DEF TablesOK, CopiedOK, memory
<1>3. \A level : Leveled(level)' <=> Leveled(level)
  BY DEF Leveled
<1>4. \E level : Shaped(tables', avail', level) /\ Leveled(level)'
  BY <1>3 DEF TablesOK, memory
<1>5. QED
  BY <1>1, <1>2, <1>4 DEF TablesOK

LEMMA JobUntouched ==
  ASSUME JobOK, UNCHANGED <<memory, root, job>>, owned \subseteq owned' \/ job.op \in {"idle", "drop"}
  PROVE  JobOK'
BY DEF JobOK, memory, TranslationIn

LEMMA CacheUntouched ==
  ASSUME CacheOK, UNCHANGED <<memory, root, current, tlb>>,
         job.op \notin {"unmap", "flush"}
         \/ (job'.op \in {"unmap", "flush"} /\ job'.first = job.first /\ job'.last = job.last)
  PROVE  CacheOK'
BY DEF CacheOK, CacheFollowsTables, memory, TranslationIn

LEMMA VmRelease ==
  ASSUME VmInv, NEW m \in Live, Release(m)
  PROVE  TablesOK' /\ JobOK' /\ CacheOK' /\ CountsOK'
<1>1. UNCHANGED <<memory, made, root, parent, refs, entryRefs, copied, current, tlb, panicked>>
      /\ job = Idle /\ job' = Job("drop", m, 0, 0, 0, {})
  BY DEF Release, Ready
<1>2. TablesOK'
  BY <1>1, TablesUntouched DEF VmInv, Live
<1>3. JobOK'
  BY <1>1, MapsAreNumbers DEF JobOK, Job, Live
<1>4. CacheOK'
  BY <1>1, CacheUntouched, IdleJob DEF VmInv
<1>5. QED
  BY <1>1, <1>2, <1>3, <1>4 DEF VmInv, CountsOK

LEMMA VmActivate ==
  ASSUME VmInv, NEW m \in Live, Activate(m)
  PROVE  TablesOK' /\ JobOK' /\ CacheOK' /\ CountsOK'
<1>1. UNCHANGED <<memory, mapVars, job, panicked>> /\ tlb' = << >> /\ current' = m
  BY DEF Activate
<1>2. TablesOK'
  BY <1>1, TablesUntouched DEF VmInv, Live, mapVars
<1>3. JobOK'
  BY <1>1, JobUntouched DEF VmInv, mapVars
<1>4. DOMAIN tlb' = {}
  BY <1>1
<1>5. CacheOK'
  BY <1>4 DEF CacheOK, CacheFollowsTables
<1>6. QED
  BY <1>1, <1>2, <1>3, <1>5 DEF VmInv, CountsOK, mapVars

\* Starting a call that maps or unmaps pages.
LEMMA VmCall ==
  ASSUME VmInv, job = Idle,
         UNCHANGED <<memory, made, root, parent, refs, owned, copied, current, tlb, panicked>>,
         NEW op \in {"map", "unmap"}, NEW m \in owned, NEW base \in Nat,
         NEW n \in Nat \ {0}, NEW phys \in Nat, NEW mode \in SUBSET {"write", "user"},
         base + n <= VirtualPages,
         op = "map" => \A v \in Pages(base, n) : TranslationIn(m, v) = Absent,
         op = "unmap" => \A v \in Pages(base, n) : TranslationIn(m, v).kind = "page",
         job' = Job(op, m, base, n, phys, mode)
  PROVE  TablesOK' /\ JobOK' /\ CacheOK'
<1>1. TablesOK'
  BY TablesUntouched DEF VmInv, Live
<1>2. /\ job'.op = op /\ job'.map = m /\ job'.first = base /\ job'.page = base
      /\ job'.last = base + n - 1 /\ job'.phys = phys /\ job'.mode = mode
  BY DEF Job
<1>3. m \in Nat
  BY MapsAreNumbers, OwnedLive DEF VmInv, Live
<1>4. VirtualPages \in Nat
  <2>1. VirtualPages = T * (T * T * T)
    BY DEF VirtualPages, Reach, T
  <2>2. T * T * T \in Nat
    BY TIsNat
  <2>3. QED
    BY <2>1, <2>2, TIsNat
<1>5. JobOK'
  <2>1. job' \in [op : {"idle", "map", "unmap", "flush", "drop"}, map : Nat,
                  first : Nat, page : Nat, last : Int, phys : Nat,
                  mode : SUBSET {"write", "user"}]
    BY <1>3 DEF Job
  <2>2. job'.page \in job'.first .. job'.last /\ job'.last < VirtualPages
    BY <1>2, <1>4
  <2>3. Pages(base, n) = job'.page .. job'.last
    BY <1>2 DEF Pages
  <2>4. \A v : TranslationIn(m, v)' = TranslationIn(m, v)
    BY DEF TranslationIn, memory
  <2>5. QED
    BY <1>2, <2>1, <2>2, <2>3, <2>4 DEF JobOK, TranslationIn, memory
<1>6. CacheOK'
  BY CacheUntouched, IdleJob DEF VmInv
<1>7. QED
  BY <1>1, <1>5, <1>6

LEMMA VmAdd ==
  ASSUME VmInv, NEW m \in Live, NEW r \in Regions, NEW base \in Bases, Add(m, r, base)
  PROVE  TablesOK' /\ JobOK' /\ CacheOK' /\ CountsOK'
<1>1. /\ UNCHANGED <<memory, made, root, parent, refs, owned, copied, current, tlb, panicked>>
      /\ job = Idle /\ m \in owned
      /\ job' = Job("map", m, base, r.length, r.physBase, r.mode)
      /\ \A v \in Pages(base, r.length) : TranslationIn(m, v) = Absent
      /\ entryRefs' = [entryRefs EXCEPT ![r] = @ + 1]
  BY DEF Add, Ready, Available
<1>2. /\ base \in Nat /\ r.length \in Nat \ {0} /\ r.physBase \in Nat
      /\ r.mode \in SUBSET {"write", "user"} /\ base + r.length <= VirtualPages
  BY MapsAssumption, CanonicalAssumption
<1>3. "map" \in {"map", "unmap"} /\ "map" # "unmap"
  OBVIOUS
<1>4. TablesOK' /\ JobOK' /\ CacheOK'
  BY <1>1, <1>2, <1>3, VmCall
<1>5. CountsOK'
  BY <1>1 DEF VmInv, CountsOK
<1>6. QED
  BY <1>4, <1>5

LEMMA VmVAlloc ==
  ASSUME VmInv, NEW base \in VAreas, VAlloc(base)
  PROVE  TablesOK' /\ JobOK' /\ CacheOK' /\ CountsOK'
<1>1. /\ UNCHANGED <<memory, made, root, parent, refs, owned, copied, current, tlb, panicked>>
      /\ entryRefs' = entryRefs
      /\ job = Idle /\ made > 0
      /\ job' = Job("map", KernelMap, base, VPages, 0, {"write"})
      /\ \A v \in Pages(base, VPages) : TranslationIn(KernelMap, v) = Absent
  BY DEF VAlloc, Ready, Available, mapVars
<1>2. /\ base \in Nat /\ VPages \in Nat \ {0} /\ base + VPages <= VirtualPages
      /\ KernelMap \in owned
  BY <1>1, MapsAssumption, CanonicalAssumption DEF VmInv, RefInv, RefShape
<1>3. /\ "map" \in {"map", "unmap"} /\ "map" # "unmap"
      /\ {"write"} \in SUBSET {"write", "user"} /\ 0 \in Nat
  OBVIOUS
<1>4. TablesOK' /\ JobOK' /\ CacheOK'
  BY <1>1, <1>2, <1>3, VmCall
<1>5. CountsOK'
  BY <1>1 DEF VmInv, CountsOK
<1>6. QED
  BY <1>4, <1>5

LEMMA VmVFree ==
  ASSUME VmInv, NEW base \in VAreas, VFree(base)
  PROVE  TablesOK' /\ JobOK' /\ CacheOK' /\ CountsOK'
<1>1. /\ UNCHANGED <<memory, made, root, parent, refs, owned, copied, current, tlb, panicked>>
      /\ entryRefs' = entryRefs
      /\ job = Idle /\ made > 0
      /\ job' = Job("unmap", KernelMap, base, VPages, 0, {})
      /\ \A v \in Pages(base, VPages) : TranslationIn(KernelMap, v).kind = "page"
  BY DEF VFree, Ready, mapVars
<1>2. /\ base \in Nat /\ VPages \in Nat \ {0} /\ base + VPages <= VirtualPages
      /\ KernelMap \in owned
  BY <1>1, MapsAssumption, CanonicalAssumption DEF VmInv, RefInv, RefShape
<1>3. /\ "unmap" \in {"map", "unmap"} /\ "map" # "unmap"
      /\ {} \in SUBSET {"write", "user"} /\ 0 \in Nat
  OBVIOUS
<1>4. TablesOK' /\ JobOK' /\ CacheOK'
  BY <1>1, <1>2, <1>3, VmCall
<1>5. CountsOK'
  BY <1>1 DEF VmInv, CountsOK
<1>6. QED
  BY <1>4, <1>5

LEMMA VmAccess ==
  ASSUME VmInv, NEW v \in Accessed, Access(v)
  PROVE  TablesOK' /\ JobOK' /\ CacheOK' /\ CountsOK'
<1>1. /\ UNCHANGED <<memory, mapVars, current, job, panicked>> /\ current # 0
      /\ TranslationIn(current, v) # Absent
      /\ tlb' = [w \in DOMAIN tlb \cup {v} |->
                   IF w = v THEN TranslationIn(current, v) ELSE tlb[w]]
  BY DEF Access
<1>2. TablesOK'
  BY <1>1, TablesUntouched DEF VmInv, Live, mapVars
<1>3. JobOK'
  BY <1>1, JobUntouched DEF VmInv, mapVars
<1>4. /\ DOMAIN tlb' = DOMAIN tlb \cup {v}
      /\ \A w \in DOMAIN tlb' :
           tlb'[w] = IF w = v THEN TranslationIn(current, v) ELSE tlb[w]
  BY <1>1
<1>5. \A w : TranslationIn(current, w)' = TranslationIn(current, w)
  BY <1>1 DEF TranslationIn, mapVars, memory
<1>6. CacheOK'
  BY <1>1, <1>4, <1>5 DEF VmInv, CacheOK, CacheFollowsTables
<1>7. QED
  BY <1>1, <1>2, <1>3, <1>6 DEF VmInv, CountsOK, mapVars

\* A panic leaves everything as it is.
LEMMA VmPanics ==
  ASSUME VmInv, NewMapPanics \/ MapPanics
  PROVE  TablesOK' /\ JobOK' /\ CacheOK' /\ CountsOK'
<1>1. UNCHANGED <<memory, mapVars, current, tlb, job>> /\ panicked' = TRUE
  BY DEF NewMapPanics, MapPanics
<1>2. TablesOK'
  BY <1>1, TablesUntouched DEF VmInv, Live, mapVars
<1>3. JobOK'
  BY <1>1, JobUntouched DEF VmInv, mapVars
<1>4. CacheOK'
  BY <1>1, CacheUntouched DEF VmInv, mapVars
<1>5. panicked' \in BOOLEAN
  BY <1>1, Zenon
<1>6. QED
  BY <1>1, <1>2, <1>3, <1>4, <1>5 DEF VmInv, CountsOK, mapVars

\* After the flush nothing of the pages unmapped is cached.
LEMMA VmFlush ==
  ASSUME VmInv, Flush
  PROVE  TablesOK' /\ JobOK' /\ CacheOK' /\ CountsOK'
<1>1. /\ UNCHANGED <<memory, mapVars, current, panicked>> /\ job' = Idle
      /\ tlb' = [v \in DOMAIN tlb \ (job.first .. job.last) |-> tlb[v]]
  BY DEF Flush, Flushed
<1>2. TablesOK'
  BY <1>1, TablesUntouched DEF VmInv, Live, mapVars
<1>3. JobOK'
  BY <1>1, IdleJob DEF JobOK
<1>4. /\ DOMAIN tlb' = DOMAIN tlb \ (job.first .. job.last)
      /\ \A v \in DOMAIN tlb' : tlb'[v] = tlb[v]
  BY <1>1
<1>5. \A w : TranslationIn(current, w)' = TranslationIn(current, w)
  BY <1>1 DEF TranslationIn, mapVars, memory
<1>6. CacheOK'
  BY <1>1, <1>4, <1>5 DEF VmInv, CacheOK, CacheFollowsTables
<1>7. QED
  BY <1>1, <1>2, <1>3, <1>6 DEF VmInv, CountsOK, mapVars

-----------------------------------------------------------------------------
(* mapPage and unmapPage.                                                  *)

\* Writing the entry of a page leaves what the maps share in place.
LEMMA TablesRewritten ==
  ASSUME RefInv, TablesOK, UNCHANGED mapVars,
         NEW level, Leveled(level), NEW level2, NEW r, NEW v,
         Shaped(tables', avail', level2), Rewritten(tables, level, tables', level2, r, v)
  PROVE  TablesOK'
<1>1. Live' = Live /\ root' = root
  BY DEF Live, mapVars
<1>2. RootsOK'
  BY <1>1 DEF TablesOK, RootsOK, mapVars
<1>3. ASSUME NEW m \in Live
      PROVE  /\ root[m] \in Frames /\ level2[root[m]] = 4
             /\ \A i \in Indexes : tables[root[m]][i] # Absent =>
                  tables'[root[m]][i] = tables[root[m]][i]
  <2>1. root[m] \in Frames /\ level[root[m]] = 4
    BY LiveRoot DEF Leveled
  <2>2. QED
    BY <2>1 DEF Rewritten
<1>4. CopiedOK'
  <2>1. copied' = copied /\ parent' = parent /\ made' = made
    BY DEF mapVars
  <2>2. /\ copied \in [Maps -> SUBSET Indexes]
        /\ \A m \in Maps : m > made => copied[m] = {}
    BY DEF TablesOK, CopiedOK
  <2>3. ASSUME NEW m \in Live, NEW i \in copied[m]
        PROVE  /\ parent[m] # 0
               /\ tables'[root[m]][i] = tables'[root[parent[m]]][i]
               /\ tables'[root[m]][i] # Absent
    <3>1. /\ parent[m] # 0 /\ tables[root[m]][i] # Absent
          /\ tables[root[m]][i] = tables[root[parent[m]]][i]
      BY DEF TablesOK, CopiedOK
    <3>2. parent[m] \in Live /\ i \in Indexes
      BY <2>2, <3>1, RefPointersLive DEF PointersLive, Live
    <3>3. QED
      BY <1>3, <3>1, <3>2
  <2>4. QED
    BY <1>1, <2>1, <2>2, <2>3 DEF CopiedOK
<1>5. \A m \in Maps : root'[m] # 0 => level2[root'[m]] = 4
  <2>1. \A m \in Maps : root[m] # 0 => root[m] \in Frames /\ level[root[m]] = 4
    BY DEF TablesOK, RootsOK, Leveled
  <2>2. QED
    BY <1>1, <2>1 DEF Rewritten
<1>6. QED
  BY <1>2, <1>4, <1>5 DEF TablesOK, Leveled

\* The page the call in progress is at, and what other pages and maps see.
LEMMA PageOfJob ==
  ASSUME VmInv, job.op \in {"map", "unmap"}
  PROVE  /\ job.page \in Nat /\ job.page < VirtualPages
         /\ job.page \in job.first .. job.last
         /\ job.map \in Live /\ root[job.map] \in Frames
         /\ job.first \in Nat /\ job.last \in Int /\ job.map \in owned
<1>1. /\ job.page \in Nat /\ job.first \in Nat /\ job.last \in Int
      /\ job.map \in owned /\ job.page \in job.first .. job.last
      /\ job.last < VirtualPages
  BY DEF VmInv, JobOK
<1>2. VirtualPages \in Int
  <2>1. VirtualPages = T * (T * T * T)
    BY DEF VirtualPages, Reach, T
  <2>2. QED
    BY <2>1, TIsNat
<1>3. job.map \in Live
  BY <1>1, OwnedLive DEF VmInv
<1>4. job.page < VirtualPages
  BY <1>1, <1>2
<1>5. QED
  BY <1>1, <1>3, <1>4, LiveRoot DEF VmInv

LEMMA NextOfJob ==
  ASSUME VmInv, job.op \in {"map", "unmap"}
  PROVE  /\ NextPage \in [op : {"idle", "map", "unmap", "flush", "drop"}, map : Nat,
                          first : Nat, page : Nat, last : Int, phys : Nat,
                          mode : SUBSET {"write", "user"}]
         /\ NextPage.op = job.op /\ NextPage.map = job.map /\ NextPage.first = job.first
         /\ NextPage.last = job.last /\ NextPage.page = job.page + 1
<1>1. job.page \in Nat /\ job.phys \in Nat
  BY DEF VmInv, JobOK
<1>2. job.page + 1 \in Nat /\ job.phys + 1 \in Nat
  BY <1>1
<1>3. QED
  BY <1>2 DEF VmInv, JobOK, NextPage

\* mapPage's page was absent, so no translation that is cached changes.
LEMMA VmMapStep ==
  ASSUME VmInv, MapStep
  PROVE  TablesOK' /\ JobOK' /\ CacheOK' /\ CountsOK'
<1> DEFINE r == root[job.map]
           v == job.page
           leaf == Leaf(job.phys, job.mode)
<1>1. /\ job.op = "map" /\ MapPage(r, v, leaf)
      /\ job' = IF job.page = job.last THEN Idle ELSE NextPage
      /\ UNCHANGED <<mapVars, current, tlb, panicked>>
  BY DEF MapStep
<1>2. PICK level : Shaped(tables, avail, level) /\ Leveled(level)
  BY DEF VmInv, TablesOK
<1>3. /\ v \in Nat /\ v < VirtualPages /\ v \in job.first .. job.last
      /\ job.map \in Live /\ r \in Frames /\ level[r] = 4 /\ job.map \in owned
  <2>1. job.map \in Maps /\ root[job.map] # 0
    BY <1>1, PageOfJob, LiveRoot DEF VmInv
  <2>2. QED
    BY <1>1, <1>2, <2>1, PageOfJob DEF Leveled
<1>4. leaf \in Entries /\ leaf.kind = "page"
  <2>1. job.phys \in Nat
    BY DEF VmInv, JobOK
  <2>2. QED
    BY <2>1, LeafEntry
<1>5. \A w \in v .. job.last : Translation(tables, r, w) = Absent
  BY <1>1 DEF VmInv, JobOK, TranslationIn
<1>6. Translation(tables, r, v) = Absent
  BY <1>1, <1>3, <1>5, PageOfJob
<1> HIDE DEF r, v, leaf
<1>7. PICK level2 : /\ Shaped(tables', avail', level2)
                    /\ Rewritten(tables, level, tables', level2, r, v)
  BY <1>1, <1>2, <1>3, <1>4, MapPageMaps
<1>8. TablesOK'
  BY <1>1, <1>2, <1>7, TablesRewritten DEF VmInv
<1>9. root' = root /\ owned' = owned
  BY <1>1 DEF mapVars
<1>10. ASSUME NEW s \in Frames, level[s] = 4, NEW w \in Nat, w < VirtualPages
       PROVE  \/ Translation(tables', s, w) = Translation(tables, s, w)
              \/ w = v /\ Translation(tables, s, w) = Absent
  BY <1>6, <1>7, <1>10 DEF Rewritten, OthersSame
<1>11. JobOK'
  <2>1. CASE v = job.last
    BY <1>1, <2>1, IdleJob DEF JobOK, v
  <2>2. CASE v # job.last
    <3>1. /\ job' = NextPage /\ NextPage.op = "map" /\ NextPage.map = job.map
          /\ NextPage.first = job.first /\ NextPage.last = job.last
          /\ NextPage.page = v + 1
      BY <1>1, <2>2, NextOfJob DEF v
    <3>2. job.last \in Int /\ job.first \in Nat /\ job.last < VirtualPages
      BY <1>1 DEF VmInv, JobOK
    <3>3. v + 1 \in job.first .. job.last
      BY <1>3, <2>2, <3>2
    <3>4. ASSUME NEW w \in (v + 1) .. job.last
          PROVE  Translation(tables', r, w) = Absent
      <4>1. w \in Nat /\ w # v /\ w \in v .. job.last /\ w <= job.last
        BY <1>3, <3>2
      <4>2. VirtualPages \in Int
        <5>1. VirtualPages = T * (T * T * T)
          BY DEF VirtualPages, Reach, T
        <5>2. QED
          BY <5>1, TIsNat
      <4>3. w < VirtualPages
        BY <3>2, <4>1, <4>2
      <4>4. QED
        BY <1>3, <1>5, <1>10, <4>1, <4>3
    <3>5. job' \in [op : {"idle", "map", "unmap", "flush", "drop"}, map : Nat,
                    first : Nat, page : Nat, last : Int, phys : Nat,
                    mode : SUBSET {"write", "user"}]
      BY <1>1, <3>1, NextOfJob
    <3>6. \A w \in job'.page .. job'.last :
            Translation(tables', root'[job'.map], w) = Absent
      BY <1>9, <3>1, <3>4 DEF r
    <3>7. QED
      BY <1>3, <1>9, <3>1, <3>2, <3>3, <3>5, <3>6 DEF JobOK, TranslationIn
  <2>3. QED
    BY <2>1, <2>2
<1>12. CacheOK'
  <2>1. current' = current /\ tlb' = tlb
    BY <1>1
  <2>2. ASSUME NEW w \in DOMAIN tlb
        PROVE  tlb[w] = Translation(tables', root[current], w)
    <3>1. w \in Nat /\ w < VirtualPages /\ current # 0 /\ tlb[w] # Absent
      BY MapsAssumption, CanonicalAssumption DEF VmInv, CacheOK
    <3>2. tlb[w] = Translation(tables, root[current], w)
      BY <1>1 DEF VmInv, CacheOK, CacheFollowsTables, TranslationIn
    <3>3. current \in Live
      BY <3>1, RefPointersLive DEF VmInv, PointersLive
    <3>4. root[current] \in Frames /\ level[root[current]] = 4
      BY <1>2, <3>3, LiveRoot DEF VmInv, Leveled
    <3>5. QED
      BY <1>10, <3>1, <3>2, <3>4
  <2>3. QED
    BY <1>9, <2>1, <2>2 DEF VmInv, CacheOK, CacheFollowsTables, TranslationIn
<1>13. QED
  BY <1>1, <1>8, <1>11, <1>12 DEF VmInv, CountsOK, mapVars

\* Only the page that is unmapped translates differently, and VFree flushes it.
LEMMA VmUnmapStep ==
  ASSUME VmInv, UnmapStep
  PROVE  TablesOK' /\ JobOK' /\ CacheOK' /\ CountsOK'
<1> DEFINE r == root[job.map]
           v == job.page
<1>1. /\ job.op = "unmap" /\ UnmapPage(r, v)
      /\ job' = IF job.page = job.last THEN [job EXCEPT !.op = "flush"] ELSE NextPage
      /\ UNCHANGED <<mapVars, current, tlb, panicked>>
  BY DEF UnmapStep
<1>2. PICK level : Shaped(tables, avail, level) /\ Leveled(level)
  BY DEF VmInv, TablesOK
<1>3. /\ v \in Nat /\ v < VirtualPages /\ v \in job.first .. job.last
      /\ job.map \in Live /\ r \in Frames /\ level[r] = 4 /\ job.map \in owned
  <2>1. job.map \in Maps /\ root[job.map] # 0
    BY <1>1, PageOfJob, LiveRoot DEF VmInv
  <2>2. QED
    BY <1>1, <1>2, <2>1, PageOfJob DEF Leveled
<1>4. \A w \in v .. job.last : Translation(tables, r, w).kind = "page"
  BY <1>1 DEF VmInv, JobOK, TranslationIn
<1>5. Translation(tables, r, v).kind = "page"
  BY <1>1, <1>3, <1>4, PageOfJob
<1> HIDE DEF r, v
<1>6. /\ Shaped(tables', avail', level)
      /\ Rewritten(tables, level, tables', level, r, v)
  BY <1>1, <1>2, <1>3, <1>5, UnmapPageUnmaps
<1>7. TablesOK'
  BY <1>1, <1>2, <1>6, TablesRewritten DEF VmInv
<1>8. root' = root /\ owned' = owned
  BY <1>1 DEF mapVars
<1>9. ASSUME NEW s \in Frames, level[s] = 4, NEW w \in Nat, w < VirtualPages, w # v
      PROVE  Translation(tables', s, w) = Translation(tables, s, w)
  BY <1>6, <1>9 DEF Rewritten, OthersSame
<1>10. /\ job'.op \in {"unmap", "flush"} /\ job'.map = job.map
       /\ job'.first = job.first /\ job'.last = job.last
       /\ job' \in [op : {"idle", "map", "unmap", "flush", "drop"}, map : Nat,
                    first : Nat, page : Nat, last : Int, phys : Nat,
                    mode : SUBSET {"write", "user"}]
       /\ job'.page \in job.first .. job.last
       /\ job'.op = "unmap" => v # job.last /\ job'.page = v + 1
  <2>1. CASE v = job.last
    <3>1. job' = [job EXCEPT !.op = "flush"]
      BY <1>1, <2>1 DEF v
    <3>2. job \in [op : {"idle", "map", "unmap", "flush", "drop"}, map : Nat,
                   first : Nat, page : Nat, last : Int, phys : Nat,
                   mode : SUBSET {"write", "user"}]
      BY DEF VmInv, JobOK
    <3>3. job'.page = v
      BY <3>1, <3>2 DEF v
    <3>4. QED
      BY <1>3, <3>1, <3>2, <3>3
  <2>2. CASE v # job.last
    <3>1. /\ job' = NextPage /\ NextPage.op = "unmap" /\ NextPage.map = job.map
          /\ NextPage.first = job.first /\ NextPage.last = job.last
          /\ NextPage.page = v + 1
      BY <1>1, <2>2, NextOfJob DEF v
    <3>2. job.last \in Int /\ job.first \in Nat
      BY <1>1 DEF VmInv, JobOK
    <3>3. v + 1 \in job.first .. job.last
      BY <1>3, <2>2, <3>2
    <3>4. QED
      BY <1>1, <2>2, <3>1, <3>3, NextOfJob
  <2>3. QED
    BY <2>1, <2>2
<1>11. JobOK'
  <2>1. job.last \in Int /\ job.first \in Nat /\ job.last < VirtualPages
    BY <1>1 DEF VmInv, JobOK
  <2>2. ASSUME job'.op = "unmap", NEW w \in job'.page .. job'.last
        PROVE  Translation(tables', r, w).kind = "page"
    <3>1. w \in Nat /\ w # v /\ w \in v .. job.last /\ w <= job.last
      BY <1>3, <1>10, <2>1, <2>2
    <3>2. VirtualPages \in Int
      <4>1. VirtualPages = T * (T * T * T)
        BY DEF VirtualPages, Reach, T
      <4>2. QED
        BY <4>1, TIsNat
    <3>3. w < VirtualPages
      BY <2>1, <3>1, <3>2
    <3>4. QED
      BY <1>3, <1>4, <1>9, <3>1, <3>3
  <2>3. job'.op = "unmap" =>
          \A w \in job'.page .. job'.last :
            Translation(tables', root'[job'.map], w).kind = "page"
    BY <1>8, <1>10, <2>2 DEF r
  <2>4. QED
    BY <1>3, <1>8, <1>10, <2>1, <2>3 DEF JobOK, TranslationIn
<1>12. CacheOK'
  <2>1. current' = current /\ tlb' = tlb
    BY <1>1
  <2>2. ASSUME NEW w \in DOMAIN tlb, w \notin job.first .. job.last
        PROVE  tlb[w] = Translation(tables', root[current], w)
    <3>1. w \in Nat /\ w < VirtualPages /\ current # 0
      BY MapsAssumption, CanonicalAssumption DEF VmInv, CacheOK
    <3>2. tlb[w] = Translation(tables, root[current], w)
      BY <1>1, <2>2 DEF VmInv, CacheOK, CacheFollowsTables, TranslationIn
    <3>3. current \in Live
      BY <3>1, RefPointersLive DEF VmInv, PointersLive
    <3>4. root[current] \in Frames /\ level[root[current]] = 4
      BY <1>2, <3>3, LiveRoot DEF VmInv, Leveled
    <3>5. w # v
      BY <1>3, <2>2
    <3>6. QED
      BY <1>9, <3>1, <3>2, <3>4, <3>5
  <2>3. QED
    BY <1>8, <1>10, <2>1, <2>2 DEF VmInv, CacheOK, CacheFollowsTables, TranslationIn
<1>13. QED
  BY <1>1, <1>7, <1>11, <1>12 DEF VmInv, CountsOK, mapVars

-----------------------------------------------------------------------------
(* Making and deleting maps.                                               *)

LEMMA VmFirstMap ==
  ASSUME VmInv, FirstMap
  PROVE  TablesOK' /\ JobOK' /\ CacheOK' /\ CountsOK'
<1> DEFINE g == Lowest(avail)
<1>1. /\ job = Idle /\ made = 0 /\ FirstTable /\ made' = 1
      /\ root' = [root EXCEPT ![1] = g]
      /\ refs' = [refs EXCEPT ![1] = 1]
      /\ UNCHANGED <<parent, entryRefs, copied, current, tlb, job, panicked>>
  BY DEF FirstMap, Ready
<1>2. PICK level : Shaped(tables, avail, level) /\ Leveled(level)
  BY DEF VmInv, TablesOK
<1>3. g \in avail /\ g \in Frames /\ g # 0
  BY <1>1, <1>2, FirstTableShaped, TIsNat DEF Shaped, Typed
<1>4. PICK level2 : Shaped(tables', avail', level2) /\ level2[g] = 4
  BY <1>1, <1>2, FirstTableShaped
<1> HIDE DEF g
<1>5. /\ \A m \in Maps : root[m] = 0 /\ refs[m] = 0
      /\ root \in [Maps -> Frames \cup {0}] /\ refs \in [Maps -> Nat]
      /\ 1 \in Maps /\ \A m \in Maps : m # 1 => m > 1
      /\ copied \in [Maps -> SUBSET Indexes]
  <2>1. \A m \in Maps : m > made
    BY <1>1, MapsAreNumbers
  <2>2. 1 \in Maps /\ \A m \in Maps : m # 1 => m > 1
    BY MapsAreNumbers DEF KernelMap
  <2>3. QED
    BY <2>1, <2>2 DEF VmInv, RefInv, RefShape, TablesOK, RootsOK, CopiedOK
<1>6. \A m \in Maps : root'[m] = (IF m = 1 THEN g ELSE 0) /\ refs'[m] = (IF m = 1 THEN 1 ELSE 0)
  BY <1>1, <1>5
<1>7. Live' = {1}
  BY <1>5, <1>6 DEF Live
<1>8. RootsOK'
  <2>1. root' \in [Maps -> Frames \cup {0}]
    BY <1>1, <1>3, <1>5
  <2>2. \A m, n \in Maps : root'[m] = root'[n] /\ root'[m] # 0 => m = n
    BY <1>3, <1>6
  <2>3. \A m \in Live' : root'[m] # 0
    BY <1>3, <1>5, <1>6, <1>7
  <2>4. \A m \in Maps : m > made' => root'[m] = 0
    BY <1>1, <1>5, <1>6
  <2>5. QED
    BY <2>1, <2>2, <2>3, <2>4 DEF RootsOK
<1>9. CopiedOK'
  <2>1. \A m \in Maps : copied[m] = {}
    BY <1>1, MapsAreNumbers DEF VmInv, TablesOK, CopiedOK
  <2>2. QED
    BY <1>1, <1>5, <1>7, <2>1 DEF CopiedOK
<1>10. Leveled(level2)'
  BY <1>4, <1>6 DEF Leveled
<1>11. TablesOK'
  BY <1>4, <1>8, <1>9, <1>10 DEF TablesOK
<1>12. DOMAIN tlb = {}
  <2>1. current = 0
    BY <1>1 DEF VmInv, RefInv, RefShape
  <2>2. QED
    BY <2>1 DEF VmInv, CacheOK
<1>13. CacheOK'
  BY <1>1, <1>12 DEF CacheOK, CacheFollowsTables
<1>14. JobOK'
  BY <1>1, IdleJob DEF JobOK
<1>15. QED
  BY <1>1, <1>11, <1>13, <1>14 DEF VmInv, CountsOK

\* A new map has a PML4 of its own, with what it shares with its parent.
LEMMA VmNewMap ==
  ASSUME VmInv, NEW p \in Live \cup {0}, NewMap(p)
  PROVE  TablesOK' /\ JobOK' /\ CacheOK' /\ CountsOK'
<1> DEFINE up == ParentFor(p)
           new == made + 1
           g == Lowest(avail)
           q == root[up]
<1>1. /\ made \in 1 .. (MaxMaps - 1) /\ job = Idle /\ TableFrom(q)
      /\ made' = new /\ root' = [root EXCEPT ![new] = g]
      /\ parent' = [parent EXCEPT ![new] = up]
      /\ refs' = [[refs EXCEPT ![up] = @ + 1] EXCEPT ![new] = 1]
      /\ copied' = [copied EXCEPT ![new] =
                      {i \in Indexes : i >= Boundary /\ tables[q][i] # Absent}]
      /\ UNCHANGED <<entryRefs, current, tlb, job, panicked>>
  BY DEF NewMap, Ready, WithParent
<1>2. PICK level : Shaped(tables, avail, level) /\ Leveled(level)
  BY DEF VmInv, TablesOK
<1>3. up \in Live
  <2>1. KernelMap \in Live
    BY <1>1, RefPointersLive DEF VmInv, PointersLive
  <2>2. QED
    BY <2>1 DEF ParentFor
<1>4. up \in Maps /\ q \in Frames /\ level[q] = 4 /\ q # 0
  BY <1>2, <1>3, LiveRoot DEF VmInv, Leveled
<1>5. /\ new \in Maps /\ root[new] = 0 /\ refs[new] = 0 /\ copied[new] = {}
      /\ refs \in [Maps -> Nat] /\ root \in [Maps -> Frames \cup {0}]
      /\ copied \in [Maps -> SUBSET Indexes] /\ parent \in [Maps -> 0 .. made]
      /\ new # 0
  BY <1>1, MapsAreNumbers DEF VmInv, RefInv, RefShape, TablesOK, RootsOK, CopiedOK, Maps
<1>6. up # new
  BY <1>3, <1>5 DEF Live
<1>7. /\ g \in avail
      /\ \A i \in Indexes : tables'[g][i] = IF i >= Boundary THEN tables[q][i] ELSE Absent
      /\ SameTranslations(tables, level, tables')
  BY <1>1, <1>2, <1>4, TableFromCopies
<1>8. PICK level2 : /\ Shaped(tables', avail', level2)
                    /\ Kept(tables, level, tables', level2)
                    /\ level2[g] = 4
  BY <1>1, <1>2, <1>4, TableFromCopies
<1>9. g \in Frames /\ g # 0 /\ level[g] = 0
  BY <1>2, <1>7, TIsNat DEF Shaped, Typed
<1> HIDE DEF up, new, g, q
<1>10. /\ \A m \in Maps : root'[m] = IF m = new THEN g ELSE root[m]
       /\ \A m \in Maps : parent'[m] = IF m = new THEN up ELSE parent[m]
       /\ \A m \in Maps : copied'[m] = IF m = new
            THEN {i \in Indexes : i >= Boundary /\ tables[q][i] # Absent} ELSE copied[m]
  BY <1>1, <1>5
<1>11. Live' \subseteq Live \cup {new}
  <2>1. \A m \in Maps : m # new /\ m # up => refs'[m] = refs[m]
    BY <1>1, <1>4, <1>5
  <2>2. QED
    BY <1>3, <2>1 DEF Live
<1>12. new \notin Live /\ \A m \in Maps : root[m] # g
  BY <1>2, <1>5, <1>9 DEF Live, Leveled
<1>13. RootsOK'
  <2>1. root' \in [Maps -> Frames \cup {0}]
    BY <1>1, <1>5, <1>9
  <2>2. \A m, n \in Maps : root'[m] = root'[n] /\ root'[m] # 0 => m = n
    BY <1>10, <1>12 DEF VmInv, TablesOK, RootsOK
  <2>3. \A m \in Live' : root'[m] # 0
    BY <1>9, <1>10, <1>11 DEF VmInv, TablesOK, RootsOK, Live
  <2>4. \A m \in Maps : m > made' => root'[m] = 0
    BY <1>1, <1>10, MapsAreNumbers DEF VmInv, TablesOK, RootsOK, new
  <2>5. QED
    BY <2>1, <2>2, <2>3, <2>4 DEF RootsOK
<1>14. ASSUME NEW m \in Live
       PROVE  /\ m \in Maps /\ m # new /\ root'[m] = root[m]
              /\ root[m] \in Frames /\ level[root[m]] = 4
              /\ \A i \in Indexes : tables[root[m]][i] # Absent =>
                   tables'[root[m]][i] = tables[root[m]][i]
  <2>1. /\ m \in Maps /\ m # new /\ root'[m] = root[m]
        /\ root[m] \in Frames /\ level[root[m]] = 4
    BY <1>2, <1>10, <1>12, LiveRoot DEF VmInv, Leveled
  <2>2. QED
    BY <1>8, <2>1 DEF Kept
<1>15. CopiedOK'
  <2>1. copied' \in [Maps -> SUBSET Indexes]
    BY <1>1, <1>5
  <2>2. \A m \in Maps : m > made' => copied'[m] = {}
    BY <1>1, <1>10, MapsAreNumbers DEF VmInv, TablesOK, CopiedOK, new
  <2>3. ASSUME NEW m \in Live', NEW i \in copied'[m]
        PROVE  /\ parent'[m] # 0
               /\ tables'[root'[m]][i] = tables'[root'[parent'[m]]][i]
               /\ tables'[root'[m]][i] # Absent
    <3>1. CASE m = new
      <4>1. parent'[m] = up /\ root'[m] = g /\ root'[up] = q /\ up # 0
        BY <1>4, <1>5, <1>6, <1>10, <3>1, MapsAreNumbers DEF q
      <4>2. i \in Indexes /\ i >= Boundary /\ tables[q][i] # Absent
        BY <1>5, <1>10, <2>3, <3>1
      <4>3. tables'[g][i] = tables[q][i]
        BY <1>7, <4>2
      <4>4. tables'[q][i] = tables[q][i]
        BY <1>4, <1>8, <4>2 DEF Kept
      <4>5. QED
        BY <4>1, <4>2, <4>3, <4>4
    <3>2. CASE m # new
      <4>1. m \in Live /\ i \in copied[m] /\ parent'[m] = parent[m]
        BY <1>10, <1>11, <2>3, <3>2 DEF Live
      <4>2. /\ parent[m] # 0 /\ tables[root[m]][i] # Absent
            /\ tables[root[m]][i] = tables[root[parent[m]]][i]
        BY <4>1 DEF VmInv, TablesOK, CopiedOK
      <4>3. parent[m] \in Live /\ i \in Indexes
        BY <1>5, <4>1, <4>2, RefPointersLive DEF VmInv, PointersLive, Live
      <4>4. QED
        BY <1>14, <4>1, <4>2, <4>3
    <3>3. QED
      BY <3>1, <3>2
  <2>4. QED
    BY <2>1, <2>2, <2>3 DEF CopiedOK
<1>16. Leveled(level2)'
  <2>1. ASSUME NEW m \in Maps, root'[m] # 0 PROVE level2[root'[m]] = 4
    <3>1. CASE m = new
      BY <1>8, <1>10, <3>1
    <3>2. CASE m # new
      <4>1. root'[m] = root[m] /\ root[m] \in Frames /\ level[root[m]] = 4
        BY <1>2, <1>5, <1>10, <2>1, <3>2 DEF Leveled
      <4>2. QED
        BY <1>8, <4>1 DEF Kept
    <3>3. QED
      BY <3>1, <3>2
  <2>2. QED
    BY <2>1 DEF Leveled
<1>17. TablesOK'
  BY <1>8, <1>13, <1>15, <1>16 DEF TablesOK
<1>18. CacheOK'
  <2>1. ASSUME NEW w \in DOMAIN tlb
        PROVE  tlb[w] = Translation(tables', root'[current], w)
    <3>1. w \in Nat /\ current # 0
      BY MapsAssumption DEF VmInv, CacheOK
    <3>2. tlb[w] = Translation(tables, root[current], w)
      BY <1>1, IdleJob DEF VmInv, CacheOK, CacheFollowsTables, TranslationIn
    <3>3. current \in Live
      BY <3>1, RefPointersLive DEF VmInv, PointersLive
    <3>4. QED
      BY <1>7, <1>14, <3>1, <3>2, <3>3 DEF SameTranslations
  <2>2. QED
    BY <1>1, <2>1 DEF VmInv, CacheOK, CacheFollowsTables, TranslationIn
<1>19. JobOK'
  BY <1>1, IdleJob DEF JobOK
<1>20. QED
  BY <1>1, <1>17, <1>18, <1>19 DEF VmInv, CountsOK

\* The PML4s of deleted maps go; those that remain are others.
LEMMA VmDrop ==
  ASSUME VmInv, RefInv', Drop
  PROVE  TablesOK' /\ JobOK' /\ CacheOK' /\ CountsOK'
<1> DEFINE m == job.map
           dead == {root[d] : d \in Dying}
<1>1. /\ job.op = "drop" /\ refs' = [refs EXCEPT ![m] = @ - 1]
      /\ UNCHANGED <<made, parent, owned, entryRefs, copied, current, tlb, panicked>>
      /\ \/ job' = [job EXCEPT !.map = parent[m]] /\ UNCHANGED <<memory, root>>
         \/ /\ job' = Idle /\ FreeTables(dead)
            /\ root' = [d \in Maps |-> IF d \in Dying THEN 0 ELSE root[d]]
  BY DEF Drop
<1>2. m \in Maps /\ refs \in [Maps -> Nat] /\ parent \in [Maps -> 0 .. made] /\ made \in Nat
  BY <1>1 DEF VmInv, RefInv, RefShape
<1>3. Live' \subseteq Live
  <2>1. \A n \in Maps : refs'[n] = IF n = m THEN refs[n] - 1 ELSE refs[n]
    BY <1>1, <1>2
  <2>2. \A n \in Maps : refs[n] \in Nat
    BY <1>2
  <2>3. QED
    BY <2>1, <2>2 DEF Live
<1>4. PointersLive'
  BY PointersLiveAfter
<1>5. JobOK'
  <2>1. CASE job' = Idle
    BY <2>1, IdleJob DEF JobOK
  <2>2. CASE job' = [job EXCEPT !.map = parent[m]]
    <3>1. parent[m] \in Nat
      BY <1>2
    <3>2. job'.op = "drop" /\
          job' \in [op : {"idle", "map", "unmap", "flush", "drop"}, map : Nat,
                    first : Nat, page : Nat, last : Int, phys : Nat,
                    mode : SUBSET {"write", "user"}]
      BY <1>1, <2>2, <3>1 DEF VmInv, JobOK
    <3>3. QED
      BY <3>2 DEF JobOK
  <2>3. QED
    BY <1>1, <2>1, <2>2
<1>6. CASE UNCHANGED <<memory, root>>
  <2>1. TablesOK'
    BY <1>1, <1>3, <1>6, TablesUntouched DEF VmInv
  <2>2. CacheOK'
    BY <1>1, <1>6, CacheUntouched DEF VmInv
  <2>3. QED
    BY <1>1, <1>5, <2>1, <2>2 DEF VmInv, CountsOK
<1>7. CASE /\ FreeTables(dead)
           /\ root' = [d \in Maps |-> IF d \in Dying THEN 0 ELSE root[d]]
  <2>1. PICK level : Shaped(tables, avail, level) /\ Leveled(level)
    BY DEF VmInv, TablesOK
  <2>2. /\ Dying \subseteq Maps
        /\ \A d \in Dying : root[d] # 0 /\ refs'[d] = 0
        /\ root \in [Maps -> Frames \cup {0}]
        /\ \A a, b \in Maps : root[a] = root[b] /\ root[a] # 0 => a = b
    BY DEF Dying, VmInv, TablesOK, RootsOK
  <2>3. dead \in SUBSET Frames /\ \A r \in dead : level[r] = 4
    BY <2>1, <2>2 DEF Leveled
  <2> DEFINE level2 == [f \in Frames |-> IF f \in dead THEN 0 ELSE level[f]]
  <2>4. Shaped(tables', avail', level2) /\ tables' = tables
    BY <1>7, <2>1, <2>3, FreeTablesKeep
  <2>5. \A f \in Frames : level2[f] = IF f \in dead THEN 0 ELSE level[f]
    OBVIOUS
  <2> HIDE DEF level2
  <2>6. \A d \in Maps : root'[d] = IF d \in Dying THEN 0 ELSE root[d]
    BY <1>7
  <2>7. \A n \in Live' : n \in Live /\ n \in Maps /\ n \notin Dying /\ root'[n] = root[n]
    BY <1>3, <2>2, <2>6 DEF Live
  <2>8. RootsOK'
    <3>1. root' \in [Maps -> Frames \cup {0}]
      BY <1>7, <2>2
    <3>2. \A a, b \in Maps : root'[a] = root'[b] /\ root'[a] # 0 => a = b
      BY <2>2, <2>6
    <3>3. \A n \in Live' : root'[n] # 0
      BY <2>7 DEF VmInv, TablesOK, RootsOK
    <3>4. \A n \in Maps : n > made' => root'[n] = 0
      BY <1>1, <2>6 DEF VmInv, TablesOK, RootsOK
    <3>5. QED
      BY <3>1, <3>2, <3>3, <3>4 DEF RootsOK
  <2>9. CopiedOK'
    <3>1. \A n \in Live' : parent'[n] = 0 \/ parent'[n] \in Live'
      BY <1>4 DEF PointersLive
    <3>2. copied' = copied /\ parent' = parent /\ made' = made
      BY <1>1
    <3>3. QED
      BY <2>4, <2>7, <3>1, <3>2 DEF VmInv, TablesOK, CopiedOK
  <2>10. \A d \in Maps : root'[d] # 0 => level2[root'[d]] = 4
    <3>1. ASSUME NEW d \in Maps, root'[d] # 0 PROVE level2[root'[d]] = 4
      <4>1. d \notin Dying /\ root'[d] = root[d] /\ root[d] \in Frames /\ level[root[d]] = 4
        BY <2>1, <2>2, <2>6, <3>1 DEF Leveled
      <4>2. root[d] \notin dead
        BY <2>2, <4>1
      <4>3. QED
        BY <2>5, <4>1, <4>2
    <3>2. QED
      BY <3>1
  <2>11. TablesOK'
    BY <2>4, <2>8, <2>9, <2>10 DEF TablesOK, Leveled
  <2>12. CacheOK'
    <3>1. ASSUME NEW w \in DOMAIN tlb
          PROVE  tlb[w] = Translation(tables', root'[current], w)
      <4>1. current # 0
        BY DEF VmInv, CacheOK
      <4>2. tlb[w] = Translation(tables, root[current], w)
        BY <1>1 DEF VmInv, CacheOK, CacheFollowsTables, TranslationIn
      <4>3. current \in Live'
        BY <1>1, <1>4, <4>1 DEF PointersLive
      <4>4. QED
        BY <2>4, <2>7, <4>2, <4>3
    <3>2. QED
      BY <1>1, <3>1 DEF VmInv, CacheOK, CacheFollowsTables, TranslationIn
  <2>13. QED
    BY <1>1, <1>5, <2>11, <2>12 DEF VmInv, CountsOK
<1>8. QED
  BY <1>1, <1>6, <1>7

-----------------------------------------------------------------------------
LEMMA VmStep == VmInv /\ [Next]_vars => VmInv'
<1>1. SUFFICES ASSUME VmInv, [Next]_vars PROVE VmInv'
  OBVIOUS
<1>2. RefInv'
  BY <1>1, RefStep DEF VmInv
<1>3. SUFFICES TablesOK' /\ JobOK' /\ CacheOK' /\ CountsOK'
  BY <1>2 DEF VmInv
<1>4. CASE FirstMap
  BY <1>1, <1>4, VmFirstMap
<1>5. ASSUME NEW p \in Live \cup {0}, NewMap(p)
      PROVE  TablesOK' /\ JobOK' /\ CacheOK' /\ CountsOK'
  BY <1>1, <1>5, VmNewMap
<1>6. ASSUME NEW m \in Live, Release(m)
      PROVE  TablesOK' /\ JobOK' /\ CacheOK' /\ CountsOK'
  BY <1>1, <1>6, VmRelease
<1>7. ASSUME NEW m \in Live, Activate(m)
      PROVE  TablesOK' /\ JobOK' /\ CacheOK' /\ CountsOK'
  BY <1>1, <1>7, VmActivate
<1>8. ASSUME NEW m \in Live, NEW r \in Regions, NEW base \in Bases, Add(m, r, base)
      PROVE  TablesOK' /\ JobOK' /\ CacheOK' /\ CountsOK'
  BY <1>1, <1>8, VmAdd
<1>9. ASSUME NEW base \in VAreas, VAlloc(base)
      PROVE  TablesOK' /\ JobOK' /\ CacheOK' /\ CountsOK'
  BY <1>1, <1>9, VmVAlloc
<1>10. ASSUME NEW base \in VAreas, VFree(base)
       PROVE  TablesOK' /\ JobOK' /\ CacheOK' /\ CountsOK'
  BY <1>1, <1>10, VmVFree
<1>11. ASSUME NEW v \in Accessed, Access(v)
       PROVE  TablesOK' /\ JobOK' /\ CacheOK' /\ CountsOK'
  BY <1>1, <1>11, VmAccess
<1>12. CASE NewMapPanics \/ MapPanics
  BY <1>1, <1>12, VmPanics
<1>13. CASE Drop
  BY <1>1, <1>2, <1>13, VmDrop
<1>14. CASE MapStep
  BY <1>1, <1>14, VmMapStep
<1>15. CASE UnmapStep
  BY <1>1, <1>15, VmUnmapStep
<1>16. CASE Flush
  BY <1>1, <1>16, VmFlush
<1>17. CASE UNCHANGED vars
  <2>1. TablesOK'
    BY <1>1, <1>17, TablesUntouched DEF VmInv, vars, mapVars, Live
  <2>2. JobOK'
    BY <1>1, <1>17, JobUntouched DEF VmInv, vars, mapVars
  <2>3. CacheOK'
    BY <1>1, <1>17, CacheUntouched DEF VmInv, vars, mapVars
  <2>4. QED
    BY <1>1, <1>17, <2>1, <2>2, <2>3 DEF VmInv, CountsOK, vars, mapVars
<1>18. QED
  BY <1>1, <1>4, <1>5, <1>6, <1>7, <1>8, <1>9, <1>10, <1>11, <1>12, <1>13,
     <1>14, <1>15, <1>16, <1>17 DEF Next

\* The inductive invariant of maps and paging structures, in which the levels of
\* the structures are an existential.
THEOREM VmInvHolds == Spec => []VmInv
BY VmInit, VmStep, PTL DEF Spec

-----------------------------------------------------------------------------
\* The state keeps its types: every structure holds entries, every live map has
\* its PML4 in memory, the active map and the map of a call in progress live.
THEOREM TypesKept == Spec => []TypeOK
<1>1. VmInv => TypeOK
  <2>1. SUFFICES ASSUME VmInv PROVE TypeOK
    OBVIOUS
  <2>2. /\ tables \in [Frames -> [Indexes -> Entries]]
        /\ avail \subseteq Frames
    BY <2>1 DEF VmInv, TablesOK, Shaped, Typed
  <2>3. /\ made \in 0 .. MaxMaps /\ \A m \in Maps : m > made => refs[m] = 0
        /\ parent \in [Maps -> 0 .. made] /\ refs \in [Maps -> Nat]
        /\ owned \subseteq Maps
    BY <2>1, MapsAreNumbers DEF VmInv, RefInv, RefShape, Maps
  <2>4. \A m \in Live : root[m] \in Frames
    BY <2>1, LiveRoot DEF VmInv
  <2>5. current \in Live \cup {0}
    BY <2>1, RefPointersLive DEF VmInv, PointersLive
  <2>6. /\ job.op \in {"idle", "map", "unmap", "flush", "drop"}
        /\ job.op # "idle" => job.map \in Live
    <3>1. job.op \in {"map", "unmap", "flush"} => job.map \in Live
      BY <2>1, OwnedLive DEF VmInv, JobOK
    <3>2. job.op = "drop" => job.map \in Live
      BY <2>1, CountedLive DEF VmInv, RefInv, RefShape
    <3>3. job.op \in {"idle", "map", "unmap", "flush", "drop"}
      BY <2>1 DEF VmInv, JobOK
    <3>4. QED
      BY <3>1, <3>2, <3>3
  <2>7. entryRefs \in [Regions -> Nat \ {0}] /\ panicked \in BOOLEAN
    BY <2>1 DEF VmInv, CountsOK
  <2>8. QED
    BY <2>2, <2>3, <2>4, <2>5, <2>6, <2>7 DEF TypeOK, Entries
<1>2. QED
  BY <1>1, VmInvHolds, PTL

\* The levels of the structures that the live maps lead to.
LEMMA StructureLevels ==
  ASSUME TablesOK, NEW level, Shaped(tables, avail, level), Leveled(level)
  PROVE  \A k \in 1 .. 4 : \A f \in Structures[k] : f \in Frames /\ level[f] = k
<1>1. \A f \in Pml4s : f \in Frames /\ level[f] = 4
  BY LiveRoot DEF Pml4s, Leveled
<1>2. ASSUME NEW frames, NEW k \in 2 .. 4, \A f \in frames : f \in Frames /\ level[f] = k
      PROVE  \A f \in Below(frames) : f \in Frames /\ level[f] = k - 1
  <2>1. SUFFICES ASSUME NEW l \in Links(frames)
                 PROVE  /\ tables[l[1]][l[2]].to \in Frames
                        /\ level[tables[l[1]][l[2]].to] = k - 1
    BY DEF Below
  <2>2. l[1] \in frames /\ l[2] \in Indexes /\ tables[l[1]][l[2]].kind = "table"
    BY DEF Links
  <2>3. level[l[1]] = k /\ l[1] \in Frames
    BY <1>2, <2>2
  <2>4. GoodEntry(level, l[1], l[2], tables[l[1]][l[2]])
    BY <2>2, <2>3 DEF Shaped, GoodEntries
  <2>5. QED
    BY <2>2, <2>3, <2>4, AbsentEntry DEF GoodEntry
<1> DEFINE pdpts == Below(Pml4s)
           pdts == Below(pdpts)
           pts == Below(pdts)
<1>3. \A f \in pdpts : f \in Frames /\ level[f] = 3
  BY <1>1, <1>2
<1> HIDE DEF pdpts
<1>4. \A f \in pdts : f \in Frames /\ level[f] = 2
  BY <1>2, <1>3
<1> HIDE DEF pdts
<1>5. \A f \in pts : f \in Frames /\ level[f] = 1
  BY <1>2, <1>4
<1> HIDE DEF pts
<1>6. Structures = <<pts, pdts, pdpts, Pml4s>>
  BY DEF Structures, pts, pdts, pdpts
<1>7. QED
  BY <1>1, <1>3, <1>4, <1>5, <1>6

\* No structure of a live map is available to the allocator, or a structure of
\* two levels, and no two maps have one PML4: AllocPage hands out and ~PageTable
\* gives back no page that a remaining map walks through.
THEOREM StructuresStay == Spec => []StructuresInUse
<1>1. VmInv => StructuresInUse
  <2>1. SUFFICES ASSUME VmInv PROVE StructuresInUse
    OBVIOUS
  <2>2. PICK level : Shaped(tables, avail, level) /\ Leveled(level)
    BY <2>1 DEF VmInv, TablesOK
  <2>3. \A k \in 1 .. 4 : \A f \in Structures[k] : f \in Frames /\ level[f] = k
    BY <2>1, <2>2, StructureLevels DEF VmInv
  <2>4. \A f \in avail : level[f] = 0
    BY <2>2 DEF Shaped, Typed
  <2>5. \A k \in 1 .. 4 : Structures[k] \cap avail = {}
    BY <2>3, <2>4
  <2>6. \A j, k \in 1 .. 4 : j # k => Structures[j] \cap Structures[k] = {}
    BY <2>3
  <2>7. \A m, n \in Live : root[m] = root[n] => m = n
    BY <2>1, LiveRoot DEF VmInv, TablesOK, RootsOK
  <2>8. QED
    BY <2>5, <2>6, <2>7 DEF StructuresInUse
<1>2. QED
  BY <1>1, VmInvHolds, PTL

\* Maps share the PDPTs of the kernel's half and nothing else: below its half
\* what one map maps is seen by that map alone (copyPml4Upper).
THEOREM OnlyKernelHalfShared == Spec => []SharedOnlyAbove
<1>1. VmInv => SharedOnlyAbove
  <2>1. SUFFICES ASSUME VmInv PROVE SharedOnlyAbove
    OBVIOUS
  <2>2. PICK level : Shaped(tables, avail, level) /\ Leveled(level)
    BY <2>1 DEF VmInv, TablesOK
  <2>3. \A k \in 1 .. 4 : \A f \in Structures[k] : f \in Frames /\ level[f] = k
    BY <2>1, <2>2, StructureLevels DEF VmInv
  <2> DEFINE To(l) == tables[l[1]][l[2]].to
  <2>4. ASSUME NEW frames, NEW l \in Links(frames)
        PROVE  /\ l[1] \in frames /\ l[2] \in Indexes
               /\ tables[l[1]][l[2]].kind = "table" /\ l = <<l[1], l[2]>>
    BY DEF Links
  <2>5. ASSUME NEW l \in Links(Structures[4]), NEW k \in Links(Structures[4]), To(l) = To(k)
        PROVE  l[2] = k[2] /\ (l = k \/ l[2] >= Boundary)
    <3>1. /\ l[1] \in Frames /\ level[l[1]] = 4 /\ k[1] \in Frames /\ level[k[1]] = 4
          /\ l[2] \in Indexes /\ k[2] \in Indexes
          /\ tables[l[1]][l[2]].kind = "table" /\ tables[k[1]][k[2]].kind = "table"
          /\ l = <<l[1], l[2]>> /\ k = <<k[1], k[2]>>
      BY <2>3, <2>4
    <3>2. l[2] = k[2] /\ (l[1] = k[1] \/ l[2] >= Boundary)
      BY <2>2, <2>5, <3>1 DEF Shaped, GoodLinks
    <3>3. QED
      BY <3>1, <3>2
  <2>6. ASSUME NEW l \in Links(Structures[3] \cup Structures[2]),
               NEW k \in Links(Structures[3] \cup Structures[2]), To(l) = To(k)
        PROVE  l = k
    <3>1. /\ l[1] \in Frames /\ level[l[1]] \in {2, 3}
          /\ k[1] \in Frames /\ level[k[1]] \in {2, 3}
          /\ l[2] \in Indexes /\ k[2] \in Indexes
          /\ tables[l[1]][l[2]].kind = "table" /\ tables[k[1]][k[2]].kind = "table"
          /\ l = <<l[1], l[2]>> /\ k = <<k[1], k[2]>>
      BY <2>3, <2>4
    <3>2. l[2] = k[2] /\ l[1] = k[1]
      BY <2>2, <2>6, <3>1 DEF Shaped, GoodLinks
    <3>3. QED
      BY <3>1, <3>2
  <2>7. QED
    BY <2>5, <2>6 DEF SharedOnlyAbove
<1>2. QED
  BY <1>1, VmInvHolds, PTL

\* What a page translates to depends on the PML4 entry above it.
LEMMA SameEntry ==
  ASSUME NEW tab, NEW r, NEW s, NEW v,
         tab[r][Index(v, 4)] = tab[s][Index(v, 4)]
  PROVE  Translation(tab, r, v) = Translation(tab, s, v)
BY DEF Translation, Path

\* A map and its parent translate the kernel's half alike below every entry the
\* map got when it was made, after any mapping, unmapping or deletion.
THEOREM KernelHalfStays == Spec => []CopiedStaysCommon
<1>1. VmInv => CopiedStaysCommon
  <2>1. SUFFICES ASSUME VmInv, NEW m \in Live, NEW v \in Watched,
                        Index(v, 4) \in copied[m]
                 PROVE  TranslationIn(m, v) = TranslationIn(parent[m], v)
    BY DEF CopiedStaysCommon
  <2>2. tables[root[m]][Index(v, 4)] = tables[root[parent[m]]][Index(v, 4)]
    BY <2>1 DEF VmInv, TablesOK, CopiedOK
  <2>3. QED
    BY <2>2, SameEntry DEF TranslationIn
<1>2. QED
  BY <1>1, VmInvHolds, PTL

\* User code reaches no address of the kernel's half, whatever mode it was
\* mapped with: the link in the PML4 does not let it pass.
THEOREM KernelStaysSupervisor == Spec => []KernelIsSupervisor
<1>1. VmInv => KernelIsSupervisor
  <2>1. SUFFICES ASSUME VmInv, NEW m \in Live, NEW v \in Watched, IsKernel(v),
                        UserAccess(tables, root[m], v)
                 PROVE  FALSE
    BY DEF KernelIsSupervisor
  <2>2. PICK level : Shaped(tables, avail, level) /\ Leveled(level)
    BY <2>1 DEF VmInv, TablesOK
  <2> DEFINE r == root[m]
             e == E4(tables, r, v)
  <2>3. v \in Nat /\ Index(v, 4) >= Boundary
    BY <2>1, MapsAssumption DEF IsKernel
  <2>4. r \in Frames /\ level[r] = 4
    BY <2>1, <2>2, LiveRoot DEF VmInv, Leveled
  <2>5. Index(v, 4) \in Indexes
    BY <2>3, IndexInTable
  <2>6. GoodEntry(level, r, Index(v, 4), e)
    BY <2>2, <2>4, <2>5 DEF Shaped, GoodEntries, E4
  <2>7. Path(tables, r, v)[4] = e
    BY Walk
  <2> HIDE DEF e, r
  <2>8. CASE e.kind = "table"
    <3>1. ~e.user
      BY <2>3, <2>4, <2>6, <2>8, AbsentEntry DEF GoodEntry
    <3>2. e.user
      BY <2>1, <2>7, <2>8 DEF UserAccess, r
    <3>3. QED
      BY <3>1, <3>2
  <2>9. CASE e.kind # "table"
    <3>1. e = Absent
      BY <2>4, <2>6, <2>9 DEF GoodEntry
    <3>2. Translation(tables, r, v) = Absent
      BY <2>2, <2>3, <2>4, <3>1, WalkShape, AbsentEntry DEF e, WalkTo1, WalkTo2, WalkTo3
    <3>3. Translation(tables, r, v).user
      BY <2>1 DEF UserAccess, r
    <3>4. QED
      BY <3>2, <3>3, AbsentEntry
  <2>10. QED
    BY <2>8, <2>9
<1>2. QED
  BY <1>1, VmInvHolds, PTL

\* The processor caches no translation that the active map does not have, but for
\* the pages of a VFree that has yet to flush them.
THEOREM CacheStaysTrue == Spec => []CacheFollowsTables
<1>1. VmInv => CacheFollowsTables
  BY DEF VmInv, CacheOK
<1>2. QED
  BY <1>1, VmInvHolds, PTL

-----------------------------------------------------------------------------
(* The refinement of AddressSpaces: a window is a PDPT that a live map      *)
(* shows, and what it translates an offset to is what the pages below the  *)
(* PML4 entries that lead to it translate to.                              *)

LEMMA ContentValue ==
  ASSUME NEW w \in Frames, NEW o \in Offsets
  PROVE  Content[w][o] = Below4(tables, w, o) /\ Content'[w][o] = Below4(tables', w, o)
BY DEF Content, Below4

LEMMA OffsetsInSlot == Offsets \subseteq 0 .. (Reach(4) - 1)
<1>1. Reach(4) \in Nat \ {0}
  <2>1. Reach(4) = T * T * T
    BY DEF Reach, T
  <2>2. QED
    BY <2>1, TIsNat
<1>2. ASSUME NEW v \in Watched PROVE v % Reach(4) \in 0 .. (Reach(4) - 1)
  <2>1. v \in Nat
    BY MapsAssumption
  <2>2. QED
    BY <1>1, <2>1, Divided
<1>3. QED
  BY <1>2 DEF Offsets

LEMMA ViewValue ==
  ASSUME NEW m \in Maps, NEW s \in Indexes
  PROVE  /\ View[m][s] = IF refs[m] > 0 THEN tables[root[m]][s].to ELSE 0
         /\ View'[m][s] = IF refs'[m] > 0 THEN tables'[root'[m]][s].to ELSE 0
BY DEF View

\* A step that changes the row of one map, or none.
LEMMA ViewChange ==
  ASSUME NEW m \in Maps, NEW row, row = [s \in Indexes |-> row[s]],
         \A s \in Indexes : View'[m][s] = row[s],
         \A n \in Maps : n # m => \A s \in Indexes : View'[n][s] = View[n][s]
  PROVE  View' = [View EXCEPT ![m] = row]
<1>1. /\ \A n \in Maps : View'[n] = [s \in Indexes |-> View'[n][s]]
      /\ \A n \in Maps : View[n] = [s \in Indexes |-> View[n][s]]
      /\ View' = [n \in Maps |-> View'[n]]
      /\ View = [n \in Maps |-> View[n]]
  BY DEF View
<1>2. View'[m] = row
  BY <1>1
<1>3. \A n \in Maps : n # m => View'[n] = View[n]
  BY <1>1
<1>4. QED
  BY <1>1, <1>2, <1>3

\* A window that is shown is a PDPT, at an entry of a live map's PML4.
LEMMA ShownBy ==
  ASSUME TablesOK, NEW level, Shaped(tables, avail, level), Leveled(level),
         NEW w \in Spaces!Shown
  PROVE  /\ w \in Frames /\ level[w] = 3
         /\ \E m \in Live, s \in Indexes :
              /\ root[m] \in Frames /\ level[root[m]] = 4
              /\ tables[root[m]][s].kind = "table" /\ tables[root[m]][s].to = w
<1>1. PICK m \in Maps, s \in Indexes : w = View[m][s] /\ w # 0
  BY DEF Spaces!Shown
<1>2. refs[m] > 0 /\ w = tables[root[m]][s].to
  BY <1>1, ViewValue
<1>3. m \in Live
  BY <1>2 DEF Live
<1>4. root[m] \in Frames /\ level[root[m]] = 4
  BY <1>3, LiveRoot DEF Leveled
<1>5. GoodEntry(level, root[m], s, tables[root[m]][s])
  BY <1>4 DEF Shaped, GoodEntries
<1>6. Absent.to = 0
  BY DEF Absent, Entry
<1>7. tables[root[m]][s].kind = "table" /\ w \in Frames /\ level[w] = 3
  BY <1>1, <1>2, <1>4, <1>5, <1>6 DEF GoodEntry
<1>8. QED
  BY <1>2, <1>3, <1>4, <1>7

\* Where a window changes, a page below a PML4 entry of a live map changes.
LEMMA ChangedAt ==
  ASSUME TablesOK, NEW level, Shaped(tables, avail, level), Leveled(level),
         \A f \in Frames : level[f] = 4 =>
           \A i \in Indexes : tables[f][i] # Absent => tables'[f][i] = tables[f][i],
         NEW c \in Spaces!Changed
  PROVE  /\ c[2] \in 0 .. (Reach(4) - 1) /\ c = <<c[1], c[2]>>
         /\ c[1] \in Spaces!Shown
         /\ \E s \in Frames, i \in Indexes :
              /\ level[s] = 4 /\ tables'[s][i].to = c[1]
              /\ LET x == i * Reach(4) + c[2]
                 IN  /\ Index(x, 4) = i /\ x \in Nat /\ x < VirtualPages
                     /\ x % Reach(4) = c[2]
                     /\ Translation(tables', s, x) # Translation(tables, s, x)
<1>1. /\ c \in (Spaces!Shown \cap Spaces!Shown') \X Offsets
      /\ Content[c[1]][c[2]] # Content'[c[1]][c[2]]
  BY DEF Spaces!Changed
<1>2. c[1] \in Spaces!Shown /\ c[2] \in Offsets /\ c = <<c[1], c[2]>>
  BY <1>1
<1>3. c[2] \in 0 .. (Reach(4) - 1)
  BY <1>2, OffsetsInSlot
<1>4. c[1] \in Frames
  BY <1>2, ShownBy
<1>5. PICK m \in Live, i \in Indexes :
        /\ root[m] \in Frames /\ level[root[m]] = 4
        /\ tables[root[m]][i].kind = "table" /\ tables[root[m]][i].to = c[1]
  BY <1>2, ShownBy
<1>6. tables'[root[m]][i] = tables[root[m]][i]
  BY <1>5, AbsentEntry
<1>7. Below4(tables, c[1], c[2]) # Below4(tables', c[1], c[2])
  BY <1>1, <1>2, <1>4, ContentValue
<1>8. /\ Below4(tables, c[1], c[2]) = Translation(tables, root[m], i * Reach(4) + c[2])
      /\ Below4(tables', c[1], c[2]) = Translation(tables', root[m], i * Reach(4) + c[2])
  BY <1>3, <1>5, <1>6, TranslationBelow
<1>9. QED
  BY <1>2, <1>3, <1>5, <1>6, <1>7, <1>8, SlotPage

\* No window changes when no page of a map translates differently.
LEMMA NothingChanged ==
  ASSUME TablesOK, NEW level, Shaped(tables, avail, level), Leveled(level),
         \A f \in Frames : level[f] = 4 =>
           \A i \in Indexes : tables[f][i] # Absent => tables'[f][i] = tables[f][i],
         SameTranslations(tables, level, tables')
  PROVE  Spaces!Changed = {}
<1>1. SUFFICES ASSUME NEW c \in Spaces!Changed PROVE FALSE
  OBVIOUS
<1>2. QED
  BY ChangedAt DEF SameTranslations

\* Steps that leave the structures and the maps alone.
LEMMA SpacesUntouched ==
  ASSUME UNCHANGED <<tables, root, refs>>
  PROVE  UNCHANGED Spaces!vars
BY DEF View, Content, Spaces!vars

LEMMA SpacesFirstMap ==
  ASSUME VmInv, FirstMap
  PROVE  Spaces!Next
<1> DEFINE g == Lowest(avail)
<1>1. /\ made = 0 /\ FirstTable /\ root' = [root EXCEPT ![1] = g]
      /\ refs' = [refs EXCEPT ![1] = 1]
  BY DEF FirstMap
<1>2. PICK level : Shaped(tables, avail, level) /\ Leveled(level)
  BY DEF VmInv, TablesOK
<1>3. /\ g \in avail /\ \A i \in Indexes : i < Boundary => tables'[g][i] = Absent
  BY <1>1, <1>2, FirstTableShaped
<1>4. PICK level2 : Shaped(tables', avail', level2) /\ level2[g] = 4
  BY <1>1, <1>2, FirstTableShaped
<1>5. g \in Frames
  BY <1>2, <1>3 DEF Shaped, Typed
<1> HIDE DEF g
<1>6. 1 \in Maps /\ \A m \in Maps : root[m] = 0 /\ refs[m] = 0
  <2>1. 1 \in Maps /\ \A m \in Maps : m > made
    BY <1>1, MapsAreNumbers DEF KernelMap
  <2>2. QED
    BY <2>1 DEF VmInv, RefInv, RefShape, TablesOK, RootsOK
<1>7. \A m \in Maps : refs'[m] = (IF m = 1 THEN 1 ELSE 0) /\ (m = 1 => root'[m] = g)
  BY <1>1, <1>6 DEF VmInv, RefInv, RefShape, TablesOK, RootsOK
<1>8. Spaces!Shown = {}
  BY <1>6, ViewValue DEF Spaces!Shown
<1>9. \A s \in Indexes : View'[1][s] = tables'[g][s].to
  BY <1>6, <1>7, ViewValue
<1>10. \A s \in Indexes \ {i \in Indexes : i >= Boundary} : View'[1][s] = 0
  <2>1. \A s \in Indexes : s \in Int
    BY DEF Indexes
  <2>2. Absent.to = 0
    BY DEF Absent, Entry
  <2>3. QED
    BY <1>3, <1>9, <2>1, <2>2, TIsNat
<1>11. ASSUME NEW s \in Indexes, NEW t \in Indexes,
              View'[1][s] # 0, View'[1][s] = View'[1][t]
       PROVE  s = t
  <2>1. Absent.to = 0
    BY DEF Absent, Entry
  <2>2. ASSUME NEW i \in Indexes, tables'[g][i].to # 0
        PROVE  tables'[g][i].kind = "table"
    <3>1. GoodEntry(level2, g, i, tables'[g][i])
      BY <1>4, <1>5 DEF Shaped, GoodEntries
    <3>2. QED
      BY <1>4, <2>1, <2>2, <3>1 DEF GoodEntry
  <2>3. tables'[g][s].kind = "table" /\ tables'[g][t].kind = "table"
    BY <1>9, <1>11, <2>2
  <2>4. QED
    BY <1>4, <1>5, <1>9, <1>11, <2>3 DEF Shaped, GoodLinks
<1>12. \A n \in Maps \ {1} : View'[n] = Spaces!Hidden
  <2>1. \A n \in Maps : View'[n] = [s \in Indexes |-> IF refs'[n] > 0 THEN tables'[root'[n]][s].to ELSE 0]
    BY DEF View
  <2>2. QED
    BY <1>7, <2>1 DEF Spaces!Hidden
<1>13. Spaces!Start(1)
  BY <1>8, <1>10, <1>11, <1>12 DEF Spaces!Start
<1>14. QED
  BY <1>6, <1>13 DEF Spaces!Next

LEMMA SpacesNewMap ==
  ASSUME VmInv, NEW p \in Live \cup {0}, NewMap(p)
  PROVE  Spaces!Next
<1> DEFINE up == ParentFor(p)
           new == made + 1
           g == Lowest(avail)
           q == root[up]
<1>1. /\ made \in 1 .. (MaxMaps - 1) /\ TableFrom(q)
      /\ root' = [root EXCEPT ![new] = g]
      /\ refs' = [[refs EXCEPT ![up] = @ + 1] EXCEPT ![new] = 1]
  BY DEF NewMap, WithParent
<1>2. PICK level : Shaped(tables, avail, level) /\ Leveled(level)
  BY DEF VmInv, TablesOK
<1>3. up \in Live
  <2>1. KernelMap \in Live
    BY <1>1, RefPointersLive DEF VmInv, PointersLive
  <2>2. QED
    BY <2>1 DEF ParentFor
<1>4. up \in Maps /\ q \in Frames /\ level[q] = 4
  BY <1>2, <1>3, LiveRoot DEF VmInv, Leveled
<1>5. /\ new \in Maps /\ refs[new] = 0 /\ refs \in [Maps -> Nat]
      /\ root \in [Maps -> Frames \cup {0}]
  BY <1>1, MapsAreNumbers DEF VmInv, RefInv, RefShape, TablesOK, RootsOK, Maps
<1>6. up # new
  BY <1>3, <1>5 DEF Live
<1>7. /\ g \in avail
      /\ \A i \in Indexes : tables'[g][i] = IF i >= Boundary THEN tables[q][i] ELSE Absent
      /\ \A f \in Frames : f # g => tables'[f] = tables[f]
      /\ SameTranslations(tables, level, tables')
  BY <1>1, <1>2, <1>4, TableFromCopies
<1>8. g \in Frames /\ level[g] = 0
  BY <1>2, <1>7 DEF Shaped, Typed
<1> HIDE DEF up, new, g, q
<1>9. \A m \in Maps : /\ root'[m] = IF m = new THEN g ELSE root[m]
                      /\ refs'[m] > 0 <=> m = new \/ refs[m] > 0
  <2>1. \A m \in Maps : refs'[m] = IF m = new THEN 1 ELSE IF m = up THEN refs[m] + 1 ELSE refs[m]
    BY <1>1, <1>4, <1>5, <1>6
  <2>2. refs[up] > 0 /\ \A m \in Maps : refs[m] \in Nat
    BY <1>3, <1>5 DEF Live
  <2>3. QED
    BY <1>1, <1>4, <1>5, <2>1, <2>2
<1>10. ASSUME NEW m \in Maps, m # new, NEW s \in Indexes
       PROVE  View'[m][s] = View[m][s]
  <2>1. CASE refs[m] > 0
    <3>1. m \in Live
      BY <2>1 DEF Live
    <3>2. root[m] \in Frames /\ level[root[m]] = 4
      BY <1>2, <3>1, LiveRoot DEF VmInv, Leveled
    <3>3. tables'[root[m]] = tables[root[m]]
      BY <1>7, <1>8, <3>2
    <3>4. QED
      BY <1>9, <1>10, <3>3, ViewValue
  <2>2. CASE ~(refs[m] > 0)
    BY <1>9, <1>10, <2>2, ViewValue
  <2>3. QED
    BY <2>1, <2>2
<1>11. \A s \in Indexes :
         View'[new][s] = IF s \in {i \in Indexes : i >= Boundary} THEN View[up][s] ELSE 0
  <2>1. Absent.to = 0
    BY DEF Absent, Entry
  <2>2. refs[up] > 0
    BY <1>3 DEF Live
  <2>3. QED
    BY <1>4, <1>5, <1>7, <1>9, <2>1, <2>2, ViewValue DEF q
<1>12. View[new] = Spaces!Hidden
  <2>1. View[new] = [s \in Indexes |-> IF refs[new] > 0 THEN tables[root[new]][s].to ELSE 0]
    BY <1>5 DEF View
  <2>2. QED
    BY <1>5, <2>1 DEF Spaces!Hidden
<1> DEFINE row == [s \in Indexes |->
                     IF s \in {i \in Indexes : i >= Boundary} THEN View[up][s] ELSE 0]
<1>13. View' = [View EXCEPT ![new] = row]
  <2>1. \A s \in Indexes : View'[new][s] = row[s]
    BY <1>11
  <2>2. row = [s \in Indexes |-> row[s]]
    OBVIOUS
  <2> HIDE DEF row
  <2>3. QED
    BY <1>5, <1>10, <2>1, <2>2, ViewChange
<1>14. Spaces!Changed = {}
  <2>1. \A f \in Frames : level[f] = 4 =>
          \A i \in Indexes : tables[f][i] # Absent => tables'[f][i] = tables[f][i]
    BY <1>7, <1>8
  <2>2. QED
    BY <1>2, <1>7, <2>1, NothingChanged DEF VmInv
<1>15. Spaces!Make(new, up)
  BY <1>12, <1>13, <1>14 DEF Spaces!Make
<1>16. QED
  BY <1>4, <1>5, <1>15 DEF Spaces!Next

LEMMA SpacesDrop ==
  ASSUME VmInv, Drop
  PROVE  [Spaces!Next]_(Spaces!vars)
<1> DEFINE m == job.map
<1>1. /\ job.op = "drop" /\ refs' = [refs EXCEPT ![m] = @ - 1]
      /\ \/ UNCHANGED <<memory, root>>
         \/ /\ tables' = tables
            /\ root' = [d \in Maps |-> IF d \in Dying THEN 0 ELSE root[d]]
  BY DEF Drop, FreeTables
<1>2. m \in Maps /\ refs \in [Maps -> Nat]
  BY <1>1 DEF VmInv, RefInv, RefShape
<1>3. tables' = tables
  BY <1>1 DEF memory
<1>4. \A n \in Maps : refs'[n] = IF n = m THEN refs[n] - 1 ELSE refs[n]
  BY <1>1, <1>2
<1> HIDE DEF m
<1>5. \A n \in Maps : refs'[n] > 0 => root'[n] = root[n]
  BY <1>1 DEF Dying
<1>6. \A n \in Maps : n # m =>
        \A s \in Indexes : View'[n][s] = View[n][s]
  <2>1. ASSUME NEW n \in Maps, n # m, NEW s \in Indexes PROVE View'[n][s] = View[n][s]
    <3>1. refs'[n] = refs[n]
      BY <1>4, <2>1
    <3>2. refs[n] > 0 => root'[n] = root[n]
      BY <1>5, <3>1
    <3>3. QED
      BY <1>3, <3>1, <3>2, ViewValue
  <2>2. QED
    BY <2>1
<1>7. /\ View[m] = [s \in Indexes |-> View[m][s]]
      /\ View = [View EXCEPT ![m] = View[m]]
  BY <1>2 DEF View
<1>8. Content' = Content
  BY <1>3 DEF Content
<1>9. CASE refs'[m] > 0
  <2>1. refs[m] > 0 /\ root'[m] = root[m]
    BY <1>2, <1>4, <1>5, <1>9
  <2>2. \A s \in Indexes : View'[m][s] = View[m][s]
    BY <1>2, <1>3, <1>9, <2>1, ViewValue
  <2>3. View' = View
    BY <1>2, <1>6, <1>7, <2>2, ViewChange
  <2>4. QED
    BY <1>8, <2>3 DEF Spaces!vars
<1>10. CASE ~(refs'[m] > 0)
  <2>1. \A s \in Indexes : View'[m][s] = 0
    BY <1>2, <1>10, ViewValue
  <2>2. View' = [View EXCEPT ![m] = [s \in Indexes |-> 0]]
    BY <1>2, <1>6, <2>1, ViewChange
  <2>3. Spaces!Changed = {}
    BY <1>8 DEF Spaces!Changed
  <2>4. Spaces!Delete(m)
    BY <2>2, <2>3 DEF Spaces!Delete, Spaces!Hidden
  <2>5. QED
    BY <1>2, <2>4 DEF Spaces!Next
<1>11. QED
  BY <1>9, <1>10

\* What mapPage and unmapPage change: the offset of their page, in the window
\* that the PML4 entry of the page leads to.
LEMMA OneChange ==
  ASSUME TablesOK, NEW level, Shaped(tables, avail, level), Leveled(level),
         NEW level2, NEW r, NEW v, Rewritten(tables, level, tables', level2, r, v)
  PROVE  /\ Spaces!Changed \subseteq {<<E4(tables', r, v).to, v % Reach(4)>>}
         /\ Spaces!Change
<1>1. Spaces!Changed \subseteq {<<E4(tables', r, v).to, v % Reach(4)>>}
  <2>1. \A f \in Frames : level[f] = 4 =>
          \A i \in Indexes : tables[f][i] # Absent => tables'[f][i] = tables[f][i]
    BY DEF Rewritten
  <2>2. ASSUME NEW c \in Spaces!Changed
        PROVE  c = <<E4(tables', r, v).to, v % Reach(4)>>
    <3>1. /\ c = <<c[1], c[2]>>
          /\ \E s \in Frames, i \in Indexes :
               /\ level[s] = 4 /\ tables'[s][i].to = c[1]
               /\ LET x == i * Reach(4) + c[2]
                  IN  /\ Index(x, 4) = i /\ x \in Nat /\ x < VirtualPages
                      /\ x % Reach(4) = c[2]
                      /\ Translation(tables', s, x) # Translation(tables, s, x)
      BY <2>1, <2>2, ChangedAt
    <3>2. PICK s \in Frames, i \in Indexes, x \in Nat :
            /\ level[s] = 4 /\ tables'[s][i].to = c[1]
            /\ Index(x, 4) = i /\ x < VirtualPages
            /\ x % Reach(4) = c[2]
            /\ Translation(tables', s, x) # Translation(tables, s, x)
      BY <3>1, Zenon
    <3>3. x = v /\ E4(tables', s, x).to = E4(tables', r, v).to
      BY <3>2 DEF Rewritten, OthersSame
    <3>4. E4(tables', s, x).to = c[1]
      BY <3>2 DEF E4
    <3>5. QED
      BY <3>1, <3>2, <3>3, <3>4
  <2>3. QED
    BY <2>2
<1>2. Spaces!Change
  BY <1>1 DEF Spaces!Change
<1>3. QED
  BY <1>1, <1>2

\* A page is unmapped, or mapped in a window that its map has already.
LEMMA SpacesChange ==
  ASSUME TablesOK, NEW level, Shaped(tables, avail, level), Leveled(level),
         NEW level2, NEW r, NEW v, Rewritten(tables, level, tables', level2, r, v),
         UNCHANGED <<root, refs>>, r \in Frames, level[r] = 4, v \in Nat,
         tables'[r][Index(v, 4)] = tables[r][Index(v, 4)]
  PROVE  Spaces!Next
<1>1. ASSUME NEW m \in Maps, NEW s \in Indexes
      PROVE  View'[m][s] = View[m][s]
  <2>1. CASE refs[m] > 0
    <3>1. m \in Live
      BY <2>1 DEF Live
    <3>2. root[m] \in Frames /\ level[root[m]] = 4
      BY <3>1, LiveRoot DEF Leveled
    <3>3. tables'[root[m]][s] = tables[root[m]][s]
      BY <3>2 DEF Rewritten
    <3>4. QED
      BY <3>3, ViewValue
  <2>2. QED
    BY <2>1, ViewValue
<1>2. View' = View
  <2>1. PICK m \in Maps : TRUE
    BY MapsAreNumbers
  <2>2. View[m] = [s \in Indexes |-> View[m][s]] /\ View = [View EXCEPT ![m] = View[m]]
    BY DEF View
  <2>3. QED
    BY <1>1, <2>2, ViewChange
<1>3. Spaces!Change
  BY OneChange
<1>4. QED
  BY <1>2, <1>3 DEF Spaces!Next

\* mapPage adds a PDPT: a window that no map shows, with one page.
LEMMA SpacesShow ==
  ASSUME TablesOK, NEW level, Shaped(tables, avail, level), Leveled(level),
         NEW level2, NEW m \in Live, NEW v,
         Shaped(tables', avail', level2),
         Rewritten(tables, level, tables', level2, root[m], v),
         UNCHANGED <<root, refs>>, v \in Nat,
         tables'[root[m]][Index(v, 4)] # tables[root[m]][Index(v, 4)]
  PROVE  Spaces!Next
<1> DEFINE r == root[m]
           i == Index(v, 4)
           w == tables'[r][i].to
<1>1. /\ m \in Maps /\ r \in Frames /\ level[r] = 4 /\ i \in Indexes /\ refs[m] > 0
  BY LiveRoot, IndexInTable DEF Leveled, Live
<1>2. /\ tables[r][i] = Absent /\ tables'[r][i].kind = "table" /\ level[w] = 0
      /\ level2[r] = 4
  BY <1>1 DEF Rewritten
<1>3. w \in Frames
  <2>1. GoodEntry(level2, r, i, tables'[r][i])
    BY <1>1, <1>2 DEF Shaped, GoodEntries
  <2>2. QED
    BY <1>2, <2>1, AbsentEntry DEF GoodEntry
<1>4. w \notin Spaces!Shown
  BY <1>2, ShownBy
<1>5. E4(tables', r, v).to = w
  BY DEF E4
<1>6. Rewritten(tables, level, tables', level2, r, v)
  OBVIOUS
<1>7. \A f \in Frames : level[f] = 4 =>
        \A j \in Indexes : ~(f = r /\ j = i) => tables'[f][j] = tables[f][j]
  BY <1>6 DEF Rewritten
<1> HIDE DEF w, i, r
<1>8. ASSUME NEW n \in Maps, NEW s \in Indexes, ~(n = m /\ s = i)
      PROVE  View'[n][s] = View[n][s]
  <2>1. CASE refs[n] > 0
    <3>1. n \in Live
      BY <2>1 DEF Live
    <3>2. root[n] \in Frames /\ level[root[n]] = 4 /\ root[n] # 0
      BY <3>1, LiveRoot DEF Leveled
    <3>3. root[n] = r => n = m
      BY <1>1, <3>2 DEF TablesOK, RootsOK, r
    <3>4. tables'[root[n]][s] = tables[root[n]][s]
      BY <1>7, <1>8, <3>2, <3>3
    <3>5. QED
      BY <3>4, ViewValue
  <2>2. QED
    BY <2>1, ViewValue
<1>9. View'[m][i] = w /\ View[m][i] = 0
  <2>1. Absent.to = 0
    BY DEF Absent, Entry
  <2>2. QED
    BY <1>1, <1>2, <2>1, ViewValue DEF w, r
<1>10. View' = [View EXCEPT ![m][i] = w]
  <2> DEFINE row == [View[m] EXCEPT ![i] = w]
  <2>1. View[m] = [s \in Indexes |-> View[m][s]]
    BY <1>1 DEF View
  <2>2. row = [s \in Indexes |-> row[s]] /\ \A s \in Indexes : row[s] = IF s = i THEN w ELSE View[m][s]
    BY <1>1, <2>1
  <2>3. \A s \in Indexes : View'[m][s] = row[s]
    BY <1>1, <1>8, <1>9, <2>2
  <2>4. \A n \in Maps : n # m => \A s \in Indexes : View'[n][s] = View[n][s]
    BY <1>8
  <2> HIDE DEF row
  <2>5. View' = [View EXCEPT ![m] = row]
    BY <1>1, <2>2, <2>3, <2>4, ViewChange
  <2>6. QED
    BY <2>5 DEF row
<1>11. ASSUME NEW o \in Offsets, Content'[w][o] # Absent PROVE o = v % Reach(4)
  <2> DEFINE x == i * Reach(4) + o
  <2>1. o \in 0 .. (Reach(4) - 1)
    BY OffsetsInSlot
  <2>2. /\ x \in Nat /\ x < VirtualPages /\ x % Reach(4) = o /\ Index(x, 4) = i
    BY <1>1, <2>1, SlotPage
  <2>3. Below4(tables', tables'[r][i].to, o) = Translation(tables', r, i * Reach(4) + o)
    BY <1>1, <1>2, <2>1, TranslationBelow
  <2>4. Content'[w][o] = Below4(tables', w, o)
    BY <1>3, ContentValue
  <2>5. Translation(tables', r, x) # Absent
    BY <1>11, <2>3, <2>4 DEF w
  <2> HIDE DEF x
  <2>6. E4(tables, r, x) = Absent
    BY <1>2, <2>2 DEF E4
  <2>7. Translation(tables, r, x) = Absent
    BY <1>1, <2>2, <2>6, WalkShape, AbsentEntry DEF WalkTo1, WalkTo2, WalkTo3
  <2>8. x = v
    BY <1>1, <1>6, <2>2, <2>5, <2>7 DEF Rewritten, OthersSame
  <2>9. QED
    BY <2>2, <2>8
<1>12. Spaces!Changed = {}
  <2>1. Spaces!Changed \subseteq {<<w, v % Reach(4)>>}
    BY <1>5, <1>6, OneChange
  <2>2. \A c \in Spaces!Changed : c[1] \in Spaces!Shown
    BY DEF Spaces!Changed
  <2>3. QED
    BY <1>4, <2>1, <2>2
<1>13. Spaces!Show(m, i)
  BY <1>3, <1>4, <1>9, <1>10, <1>11, <1>12 DEF Spaces!Show
<1>14. QED
  BY <1>1, <1>13 DEF Spaces!Next

LEMMA SpacesMapStep ==
  ASSUME VmInv, MapStep
  PROVE  Spaces!Next
<1> DEFINE m == job.map
           v == job.page
           leaf == Leaf(job.phys, job.mode)
<1>1. job.op = "map" /\ MapPage(root[m], v, leaf) /\ UNCHANGED <<root, refs>>
  BY DEF MapStep, mapVars
<1>2. PICK level : Shaped(tables, avail, level) /\ Leveled(level)
  BY DEF VmInv, TablesOK
<1>3. /\ v \in Nat /\ v < VirtualPages /\ m \in Live
      /\ root[m] \in Frames /\ level[root[m]] = 4
  <2>1. m \in Live /\ m \in Maps /\ root[m] # 0
    BY <1>1, PageOfJob, LiveRoot DEF VmInv
  <2>2. QED
    BY <1>1, <1>2, <2>1, PageOfJob DEF Leveled
<1>4. leaf \in Entries /\ leaf.kind = "page"
  <2>1. job.phys \in Nat
    BY DEF VmInv, JobOK
  <2>2. QED
    BY <2>1, LeafEntry
<1> HIDE DEF m, v, leaf
<1>5. PICK level2 : /\ Shaped(tables', avail', level2)
                    /\ Rewritten(tables, level, tables', level2, root[m], v)
  BY <1>1, <1>2, <1>3, <1>4, MapPageMaps
<1>6. CASE tables'[root[m]][Index(v, 4)] = tables[root[m]][Index(v, 4)]
  BY <1>1, <1>2, <1>3, <1>5, <1>6, SpacesChange DEF VmInv
<1>7. CASE tables'[root[m]][Index(v, 4)] # tables[root[m]][Index(v, 4)]
  BY <1>1, <1>2, <1>3, <1>5, <1>7, SpacesShow DEF VmInv
<1>8. QED
  BY <1>6, <1>7

LEMMA SpacesUnmapStep ==
  ASSUME VmInv, UnmapStep
  PROVE  Spaces!Next
<1> DEFINE m == job.map
           v == job.page
<1>1. job.op = "unmap" /\ UnmapPage(root[m], v) /\ UNCHANGED <<root, refs>>
  BY DEF UnmapStep, mapVars
<1>2. PICK level : Shaped(tables, avail, level) /\ Leveled(level)
  BY DEF VmInv, TablesOK
<1>3. /\ v \in Nat /\ v < VirtualPages /\ m \in Live
      /\ root[m] \in Frames /\ level[root[m]] = 4
  <2>1. m \in Live /\ m \in Maps /\ root[m] # 0
    BY <1>1, PageOfJob, LiveRoot DEF VmInv
  <2>2. QED
    BY <1>1, <1>2, <2>1, PageOfJob DEF Leveled
<1>4. Translation(tables, root[m], v).kind = "page"
  <2>1. \A w \in job.page .. job.last : TranslationIn(job.map, w).kind = "page"
    BY <1>1 DEF VmInv, JobOK
  <2>2. job.page \in job.page .. job.last
    BY <1>1, PageOfJob
  <2>3. QED
    BY <2>1, <2>2 DEF TranslationIn
<1> HIDE DEF m, v
<1>5. Rewritten(tables, level, tables', level, root[m], v)
  BY <1>1, <1>2, <1>3, <1>4, UnmapPageUnmaps
<1>6. tables'[root[m]][Index(v, 4)] = tables[root[m]][Index(v, 4)]
  <2>1. tables[root[m]][Index(v, 4)] # Absent
    <3>1. E4(tables, root[m], v) # Absent
      BY <1>2, <1>3, <1>4, WalkShape, AbsentEntry DEF WalkTo1, WalkTo2, WalkTo3
    <3>2. QED
      BY <3>1 DEF E4
  <2>2. Index(v, 4) \in Indexes
    BY <1>3, IndexInTable
  <2>3. QED
    BY <1>3, <1>5, <2>1, <2>2 DEF Rewritten
<1>7. QED
  BY <1>1, <1>2, <1>3, <1>5, <1>6, SpacesChange DEF VmInv

LEMMA SpacesInit == Init => Spaces!Init
<1>1. SUFFICES ASSUME Init PROVE View = [m \in Maps |-> Spaces!Hidden]
  BY DEF Spaces!Init
<1>2. \A m \in Maps : refs[m] = 0
  BY <1>1 DEF Init
<1>3. QED
  BY <1>2 DEF View, Spaces!Hidden

LEMMA SpacesStep == VmInv /\ [Next]_vars => [Spaces!Next]_(Spaces!vars)
<1>1. SUFFICES ASSUME VmInv, [Next]_vars PROVE [Spaces!Next]_(Spaces!vars)
  OBVIOUS
<1>2. CASE FirstMap
  BY <1>1, <1>2, SpacesFirstMap
<1>3. ASSUME NEW p \in Live \cup {0}, NewMap(p) PROVE Spaces!Next
  BY <1>1, <1>3, SpacesNewMap
<1>4. CASE Drop
  BY <1>1, <1>4, SpacesDrop
<1>5. CASE MapStep
  BY <1>1, <1>5, SpacesMapStep
<1>6. CASE UnmapStep
  BY <1>1, <1>6, SpacesUnmapStep
<1>7. ASSUME \/ \E m \in Live : Release(m) \/ Activate(m)
             \/ \E m \in Live, r \in Regions, base \in Bases : Add(m, r, base)
             \/ \E base \in VAreas : VAlloc(base) \/ VFree(base)
             \/ \E v \in Accessed : Access(v)
             \/ NewMapPanics \/ MapPanics \/ Flush
             \/ UNCHANGED vars
      PROVE  UNCHANGED Spaces!vars
  <2>1. UNCHANGED <<tables, root, refs>>
    BY <1>7 DEF Release, Activate, Add, VAlloc, VFree, Access, NewMapPanics, MapPanics,
                Flush, vars, mapVars, memory
  <2>2. QED
    BY <2>1, SpacesUntouched
<1>8. QED
  BY <1>1, <1>2, <1>3, <1>4, <1>5, <1>6, <1>7 DEF Next

\* Map.cpp and PageTable.cpp implement AddressSpaces: what a map shows, and what
\* it has in common with its parent, is what it got when it was made; a call maps
\* or unmaps one page, in the maps that share the window of the page, and making
\* or deleting maps changes nothing in the others.
THEOREM MapsImplementSpaces == Spec => ImplementsAddressSpaces
<1>1. Spec => []VmInv
  BY VmInvHolds
<1>2. QED
  BY <1>1, SpacesInit, SpacesStep, PTL DEF Spec, ImplementsAddressSpaces, Spaces!Spec
=============================================================================
