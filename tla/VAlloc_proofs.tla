---------------------------- MODULE VAlloc_proofs ----------------------------
(***************************************************************************)
(* Proofs about the virtual page allocator, for all sizes of the area, of  *)
(* guards and of requests.                                                 *)
(***************************************************************************)
EXTENDS VAlloc, TLAPS, FiniteSetTheorems, FunctionTheorems, SequenceTheorems

LEMMA NearestNat ==
  ASSUME NEW length \in Lengths
  PROVE  NearestPages(length) \in Nat
BY VAllocAssumption, SizesAssumption DEF NearestPages, CeilDiv

-----------------------------------------------------------------------------
(* Areas, their guards and what is mapped.                                 *)

\* Area a and its guards end before area b.
Before(a, b) == a.start + a.pages + GuardPages <= b.start

AreaInv ==
  /\ cursor \in Nat
  /\ \A v \in DOMAIN vmap : v \in Nat /\ v < cursor
  /\ areas \subseteq [start : Nat, pages : Nat]
  /\ \A a \in areas : a.start + a.pages + GuardPages <= cursor
  /\ \A a \in areas : Guards(a) \cap DOMAIN vmap = {}
  /\ \A a \in areas : Pages(a) \subseteq DOMAIN vmap
  /\ \A a, b \in areas : a # b => Before(a, b) \/ Before(b, a)

LEMMA InitAreas == Init => AreaInv
<1> SUFFICES ASSUME Init PROVE AreaInv
  OBVIOUS
<1>1. cursor = 0 /\ vmap = << >> /\ areas = {}
  BY DEF Init
<1>2. DOMAIN vmap = {}
  BY <1>1
<1>3. QED
  BY <1>1, <1>2 DEF AreaInv

LEMMA QuietAreas ==
  ASSUME AreaInv, UNCHANGED vallocVars
  PROVE  AreaInv'
BY DEF AreaInv, vallocVars, Guards, Pages, Before

LEMMA AllocAreas ==
  ASSUME AreaInv, NEW n \in Nat, AllocMaps(n)
  PROVE  AreaInv'
<1> DEFINE a == [start |-> cursor, pages |-> n]
<1>1. /\ cursor' = cursor + n + GuardPages /\ areas' = areas \cup {a}
      /\ cursor \in Nat /\ GuardPages \in Nat
  BY VAllocAssumption DEF AllocMaps, Reserved, AreaInv
<1>2. DOMAIN vmap' = DOMAIN vmap \cup cursor .. cursor + n - 1
  BY DEF AllocMaps, Merge
<1>3. a \in [start : Nat, pages : Nat] /\ a.start = cursor /\ a.pages = n
  BY <1>1
<1>4. \A v \in DOMAIN vmap' : v \in Nat /\ v < cursor'
  BY <1>1, <1>2 DEF AreaInv
<1>5. \A b \in areas : /\ b.start \in Nat /\ b.pages \in Nat
                       /\ b.start + b.pages + GuardPages <= cursor
  BY DEF AreaInv
<1>6. \A b \in areas' : b.start + b.pages + GuardPages <= cursor'
  BY <1>1, <1>3, <1>5
<1>7. \A b \in areas' : Guards(b) \cap DOMAIN vmap' = {}
  <2>1. Guards(a) \cap DOMAIN vmap' = {}
    BY <1>1, <1>2, <1>3 DEF Guards, AreaInv
  <2>2. ASSUME NEW b \in areas PROVE Guards(b) \cap DOMAIN vmap' = {}
    BY <1>1, <1>2, <1>5 DEF Guards, AreaInv
  <2>3. QED
    BY <1>1, <2>1, <2>2
<1>8. \A b \in areas' : Pages(b) \subseteq DOMAIN vmap'
  BY <1>1, <1>2, <1>3 DEF Pages, AreaInv
<1>9. \A b \in areas : Before(b, a)
  BY <1>3, <1>5 DEF Before
<1>10. \A b, c \in areas' : b # c => Before(b, c) \/ Before(c, b)
  BY <1>1, <1>9 DEF AreaInv
<1>11. \A b : Guards(b)' = Guards(b) /\ Pages(b)' = Pages(b)
  BY DEF Guards, Pages
<1>12. \A b, c : Before(b, c)' <=> Before(b, c)
  BY DEF Before
<1>13. areas' \subseteq [start : Nat, pages : Nat] /\ cursor' \in Nat
  BY <1>1, <1>3 DEF AreaInv
<1>14. QED
  BY <1>4, <1>6, <1>7, <1>8, <1>10, <1>11, <1>12, <1>13 DEF AreaInv

\* What is mapped from an area's start on stops at its guards.
LEMMA FreeInside ==
  ASSUME GuardPages # 0, AreaInv, NEW a \in areas, NEW n \in Nat, AllMapped(a.start, n)
  PROVE  n <= a.pages
<1> SUFFICES ASSUME ~(n <= a.pages) PROVE FALSE
  OBVIOUS
<1>1. a.start \in Nat /\ a.pages \in Nat /\ GuardPages \in Nat
  BY VAllocAssumption DEF AreaInv
<1>2. a.start + a.pages \in a.start .. (a.start + n - 1)
  BY <1>1
<1>3. a.start + a.pages \in Guards(a)
  BY <1>1 DEF Guards
<1>4. QED
  BY <1>2, <1>3 DEF AreaInv, AllMapped

LEMMA FreeAreas ==
  ASSUME GuardPages # 0, AreaInv, NEW length \in Lengths, NEW a \in areas, Free(a, length)
  PROVE  /\ AreaInv'
         /\ \A b \in areas' : \A v \in Pages(b) :
              v \in DOMAIN vmap' /\ vmap'[v] = vmap[v]
<1> DEFINE n == NearestPages(length)
           F == a.start .. (a.start + n - 1)
<1>1. /\ vmap' = Unmapped(a.start, n) /\ areas' = areas \ {a} /\ cursor' = cursor
      /\ AllMapped(a.start, n) /\ n \in Nat
  BY NearestNat DEF Free
<1>2. DOMAIN vmap' = DOMAIN vmap \ F /\ \A v \in DOMAIN vmap' : vmap'[v] = vmap[v]
  BY <1>1 DEF Unmapped
<1>3. n <= a.pages
  BY <1>1, FreeInside
<1>4. ASSUME NEW b \in areas' PROVE F \cap Pages(b) = {}
  <2>1. /\ b \in areas /\ (Before(a, b) \/ Before(b, a))
        /\ a.start \in Nat /\ a.pages \in Nat /\ b.start \in Nat /\ b.pages \in Nat
    BY <1>1 DEF AreaInv
  <2>2. QED
    BY <1>1, <1>3, <2>1, VAllocAssumption DEF Before, Pages
<1>5. \A b \in areas' : Pages(b) \subseteq DOMAIN vmap'
  BY <1>1, <1>2, <1>4 DEF AreaInv
<1>6. \A b : Guards(b)' = Guards(b) /\ Pages(b)' = Pages(b)
  BY DEF Guards, Pages
<1>7. \A b, c : Before(b, c)' <=> Before(b, c)
  BY DEF Before
<1>8. QED
  BY <1>1, <1>2, <1>5, <1>6, <1>7 DEF AreaInv

LEMMA NextAreas ==
  ASSUME GuardPages # 0, AreaInv, [Next]_vars
  PROVE  AreaInv'
<1>1. CASE UNCHANGED vars \/ Boot
  BY <1>1, QuietAreas DEF vars, Boot
<1>2. ASSUME NEW length \in Lengths, Alloc(length) PROVE AreaInv'
  BY <1>2, NearestNat, AllocAreas, QuietAreas DEF Alloc, AllocFails, AllocPanics, Panics
<1>3. ASSUME NEW length \in Lengths, NEW a \in areas, Free(a, length) PROVE AreaInv'
  BY <1>3, FreeAreas
<1>4. ASSUME NEW length \in Lengths, NEW a \in areas, FreePanics(a, length) PROVE AreaInv'
  BY <1>4, QuietAreas DEF FreePanics, Panics
<1>5. QED
  BY <1>1, <1>2, <1>3, <1>4 DEF Next

\* The guard pages behind a live allocation are never mapped, for any number of
\* guard pages but none (PageAllocator.cpp, Alloc).
THEOREM GuardsCorrect ==
  ASSUME GuardPages # 0
  PROVE  Spec => []GuardsUnmapped
<1>1. AreaInv => GuardsUnmapped
  BY DEF AreaInv, GuardsUnmapped
<1>2. AreaInv /\ [Next]_vars => AreaInv'
  BY NextAreas
<1>3. QED
  BY <1>1, <1>2, InitAreas, PTL DEF Spec

\* A free with a wrong length touches no page of another allocation
\* (PageAllocator.cpp, Free).
THEOREM FreesInside ==
  ASSUME GuardPages # 0
  PROVE  Spec => FreeStaysInside
<1> DEFINE Kept == \A a \in areas' : \A v \in Pages(a) :
                     v \in DOMAIN vmap' /\ (a \in areas => vmap'[v] = vmap[v])
<1>1. ASSUME AreaInv, [Next]_vars PROVE [Kept]_vars
  <2>1. CASE UNCHANGED vars
    BY <2>1
  <2>2. CASE Boot
    <3>1. UNCHANGED <<areas, vmap>>
      BY <2>2 DEF Boot, vallocVars
    <3>2. QED
      BY <1>1, <3>1 DEF AreaInv
  <2>3. ASSUME NEW length \in Lengths, Alloc(length) PROVE Kept
    <3>1. CASE UNCHANGED <<areas, vmap>>
      BY <1>1, <3>1 DEF AreaInv
    <3>2. CASE AllocMaps(NearestPages(length))
      <4>1. AreaInv'
        BY <1>1, <3>2, NearestNat, AllocAreas
      <4>2. \A v \in DOMAIN vmap : vmap'[v] = vmap[v]
        BY <1>1, <3>2 DEF AllocMaps, Merge, AreaInv
      <4>3. \A a \in areas' : Pages(a) \subseteq DOMAIN vmap'
        BY <4>1 DEF AreaInv, Pages
      <4>4. QED
        BY <1>1, <4>2, <4>3 DEF AreaInv
    <3>3. QED
      BY <2>3, <3>1, <3>2 DEF Alloc, AllocFails, AllocPanics, Panics, vallocVars
  <2>4. ASSUME NEW length \in Lengths, NEW a \in areas, Free(a, length) PROVE Kept
    BY <1>1, <2>4, FreeAreas
  <2>5. ASSUME NEW length \in Lengths, NEW a \in areas, FreePanics(a, length) PROVE Kept
    <3>1. UNCHANGED <<areas, vmap>>
      BY <2>5 DEF FreePanics, Panics, vallocVars
    <3>2. QED
      BY <1>1, <3>1 DEF AreaInv
  <2>6. QED
    BY <1>1, <2>1, <2>2, <2>3, <2>4, <2>5 DEF Next
<1>2. AreaInv /\ [Next]_vars => AreaInv'
  BY NextAreas
<1>3. QED
  BY <1>1, <1>2, InitAreas, PTL DEF Spec, FreeStaysInside

-----------------------------------------------------------------------------
(* The counter of mapped pages.                                            *)

LEMMA IntervalCount ==
  ASSUME NEW first \in Nat, NEW n \in Nat
  PROVE  /\ IsFiniteSet(first .. (first + n - 1))
         /\ Cardinality(first .. (first + n - 1)) = n
<1>1. first + n - 1 \in Int
  OBVIOUS
<1>2. IsFiniteSet(first .. (first + n - 1))
  BY <1>1, FS_Interval
<1>3. Cardinality(first .. (first + n - 1)) = n
  <2>1. CASE n = 0
    <3>1. first .. (first + n - 1) = {}
      BY <2>1
    <3>2. QED
      BY <2>1, <3>1, FS_EmptySet
  <2>2. CASE n # 0
    <3>1. first <= first + n - 1 /\ first + n - 1 - first + 1 = n
      BY <2>2
    <3>2. QED
      BY <1>1, <3>1, FS_Interval
  <2>3. QED
    BY <2>1, <2>2
<1>4. QED
  BY <1>2, <1>3

LEMMA MappedFinite == AreaInv => IsFiniteSet(DOMAIN vmap)
<1> SUFFICES ASSUME AreaInv PROVE IsFiniteSet(DOMAIN vmap)
  OBVIOUS
<1>1. cursor \in Nat /\ DOMAIN vmap \subseteq 0 .. (0 + cursor - 1)
  BY DEF AreaInv
<1>2. IsFiniteSet(0 .. (0 + cursor - 1))
  BY <1>1, IntervalCount
<1>3. QED
  BY <1>1, <1>2, FS_Subset

LEMMA NextCounted ==
  ASSUME AreaInv, MappedIsCounted, [Next]_vars
  PROVE  MappedIsCounted'
<1> SUFFICES ASSUME ~panicked' PROVE Cardinality(DOMAIN vmap') = pagesAllocated'
  BY DEF MappedIsCounted
<1>1. CASE UNCHANGED vars
  BY <1>1 DEF vars, poolVars, vallocVars, MappedIsCounted
<1>2. ASSUME ~panicked, UNCHANGED vallocVars
      PROVE  Cardinality(DOMAIN vmap') = pagesAllocated'
  BY <1>2 DEF vallocVars, MappedIsCounted
<1>3. CASE Boot
  BY <1>2, <1>3 DEF Boot
<1>4. ASSUME NEW length \in Lengths, Alloc(length)
      PROVE  Cardinality(DOMAIN vmap') = pagesAllocated'
  <2> DEFINE n == NearestPages(length)
             P == cursor .. (cursor + n - 1)
  <2>1. ~panicked /\ n \in Nat
    BY <1>4, NearestNat DEF Alloc
  <2>2. CASE UNCHANGED vallocVars
    BY <1>2, <2>1, <2>2
  <2>3. CASE AllocMaps(n)
    <3>1. DOMAIN vmap' = DOMAIN vmap \cup P /\ pagesAllocated' = pagesAllocated + n
      BY <2>3 DEF AllocMaps, Merge
    <3>2. cursor \in Nat /\ DOMAIN vmap \cap P = {}
      BY <2>1 DEF AreaInv
    <3>3. IsFiniteSet(P) /\ Cardinality(P) = n
      BY <2>1, <3>2, IntervalCount
    <3>4. IsFiniteSet(DOMAIN vmap)
      BY MappedFinite
    <3>5. Cardinality(DOMAIN vmap \cap P) = 0
      BY <3>2, FS_EmptySet
    <3>6. Cardinality(DOMAIN vmap \cup P)
            = Cardinality(DOMAIN vmap) + n - Cardinality(DOMAIN vmap \cap P)
      BY <3>3, <3>4, FS_Union
    <3>7. Cardinality(DOMAIN vmap) \in Nat /\ Cardinality(DOMAIN vmap) = pagesAllocated
      BY <2>1, <3>4, FS_CardinalityType DEF MappedIsCounted
    <3>8. QED
      BY <2>1, <3>1, <3>5, <3>6, <3>7
  <2>4. QED
    BY <1>4, <2>2, <2>3 DEF Alloc, AllocFails, AllocPanics, Panics
<1>5. ASSUME NEW length \in Lengths, NEW a \in areas, Free(a, length)
      PROVE  Cardinality(DOMAIN vmap') = pagesAllocated'
  <2> DEFINE n == NearestPages(length)
             F == a.start .. (a.start + n - 1)
             list == [k \in 1 .. n |-> PhysAddr(a.start + k - 1)]
  <2>1. /\ ~panicked /\ F \subseteq DOMAIN vmap /\ DOMAIN vmap' = DOMAIN vmap \ F
        /\ n \in Nat /\ a.start \in Nat
    BY <1>5, NearestNat DEF Free, AllMapped, Unmapped, AreaInv
  <2>2. pagesAllocated' = pagesAllocated - n
    <3>1. panicked' = (Freed(list) # n \/ Astray(list))
      BY <1>5 DEF Free
    <3>2. Freed(list) = n
      BY <3>1
    <3>3. QED
      BY <1>5, <3>2 DEF Free
  <2>3. IsFiniteSet(DOMAIN vmap) /\ Cardinality(DOMAIN vmap) = pagesAllocated
    BY <2>1, MappedFinite DEF MappedIsCounted
  <2>4. Cardinality(F) = n
    BY <2>1, IntervalCount
  <2>5. DOMAIN vmap \cap F = F
    BY <2>1
  <2>6. Cardinality(DOMAIN vmap \ F) = Cardinality(DOMAIN vmap) - Cardinality(DOMAIN vmap \cap F)
    BY <2>3, FS_Difference
  <2>7. QED
    BY <2>1, <2>2, <2>3, <2>4, <2>5, <2>6
<1>6. ASSUME NEW length \in Lengths, NEW a \in areas, FreePanics(a, length)
      PROVE  Cardinality(DOMAIN vmap') = pagesAllocated'
  BY <1>6 DEF FreePanics, Panics
<1>7. QED
  BY <1>1, <1>3, <1>4, <1>5, <1>6 DEF Next

\* gPagesAllocated is the number of mapped pages after any sequence of calls,
\* those with a wrong length included (PageAllocator.cpp).
THEOREM CounterCorrect ==
  ASSUME GuardPages # 0
  PROVE  Spec => []MappedIsCounted
<1>1. Init => MappedIsCounted
  <2> SUFFICES ASSUME Init PROVE Cardinality(DOMAIN vmap) = pagesAllocated
    BY DEF MappedIsCounted
  <2>1. DOMAIN vmap = {} /\ pagesAllocated = 0
    BY DEF Init
  <2>2. QED
    BY <2>1, FS_EmptySet
<1>2. AreaInv /\ MappedIsCounted /\ [Next]_vars => AreaInv' /\ MappedIsCounted'
  BY NextAreas, NextCounted
<1>3. QED
  BY <1>1, <1>2, InitAreas, PTL DEF Spec

-----------------------------------------------------------------------------
(* The lowest bits of a bitmap.                                            *)

Rank(B, b) == Cardinality({c \in B : c < b})
Lowest(B, w) == {b \in B : Rank(B, b) < w}

LEMMA RankNat ==
  ASSUME NEW B \in SUBSET Nat, IsFiniteSet(B), NEW b
  PROVE  IsFiniteSet({c \in B : c < b}) /\ Rank(B, b) \in Nat
<1>1. {c \in B : c < b} \in SUBSET B
  OBVIOUS
<1>2. QED
  BY <1>1, FS_Subset, FS_CardinalityType DEF Rank

LEMMA RankLess ==
  ASSUME NEW B \in SUBSET Nat, IsFiniteSet(B), NEW b \in B, NEW c \in B, b < c
  PROVE  Rank(B, b) < Rank(B, c)
<1> DEFINE S == {x \in B : x < b}
           T == {x \in B : x < c}
<1>1. IsFiniteSet(S) /\ IsFiniteSet(T) /\ Cardinality(S) \in Nat /\ Cardinality(T) \in Nat
  BY RankNat, FS_CardinalityType
<1>2. b \notin S /\ S \cup {b} \in SUBSET T
  <2>1. b \in Int /\ c \in Int /\ \A x \in B : x \in Int
    OBVIOUS
  <2>2. ~(b < b) /\ \A x \in B : x < b => x < c
    BY <2>1
  <2>3. QED
    BY <2>2
<1>3. Cardinality(S \cup {b}) = Cardinality(S) + 1
  BY <1>1, <1>2, FS_AddElement
<1>4. Cardinality(S \cup {b}) <= Cardinality(T)
  BY <1>1, <1>2, FS_Subset
<1>5. QED
  BY <1>1, <1>3, <1>4 DEF Rank

LEMMA RankOnce ==
  ASSUME NEW B \in SUBSET Nat, IsFiniteSet(B), NEW b \in B, NEW c \in B,
         Rank(B, b) = Rank(B, c)
  PROVE  b = c
<1> SUFFICES ASSUME b # c PROVE FALSE
  OBVIOUS
<1>1. b < c \/ c < b
  OBVIOUS
<1>2. Rank(B, b) \in Nat /\ Rank(B, c) \in Nat
  BY RankNat
<1>3. QED
  BY <1>1, <1>2, RankLess

\* The ranks of the lowest bits are 0, 1 and so on.
LEMMA RanksOnto ==
  ASSUME NEW B \in SUBSET Nat, IsFiniteSet(B), NEW w \in Nat
  PROVE  /\ IsFiniteSet(Lowest(B, w)) /\ Cardinality(Lowest(B, w)) \in Nat
         /\ \A k \in 1 .. Cardinality(Lowest(B, w)) :
              \E b \in Lowest(B, w) : Rank(B, b) = k - 1
<1> DEFINE T == Lowest(B, w)
           m == Cardinality(T)
           R == 0 .. (0 + m - 1)
           g == [b \in T |-> Rank(B, b)]
<1>1. T \in SUBSET B
  BY DEF Lowest
<1>2. IsFiniteSet(T) /\ m \in Nat
  BY <1>1, FS_Subset, FS_CardinalityType
<1>3. ASSUME NEW b \in T PROVE Rank(B, b) \in R
  <2> DEFINE S == {c \in B : c < b}
  <2>1. S \in SUBSET T
    <3> SUFFICES ASSUME NEW c \in B, c < b PROVE Rank(B, c) < w
      BY DEF Lowest
    <3>1. Rank(B, c) < Rank(B, b)
      BY <1>1, RankLess
    <3>2. Rank(B, c) \in Nat /\ Rank(B, b) \in Nat /\ Rank(B, b) < w
      BY RankNat DEF Lowest
    <3>3. QED
      BY <3>1, <3>2
  <2>2. S # T
    <3>1. b \in Int
      <4>1. b \in B
        BY <1>1
      <4>2. B \subseteq Nat
        OBVIOUS
      <4> HIDE DEF T
      <4>3. QED
        BY <4>1, <4>2
    <3>2. b \notin S
      BY <3>1
    <3>3. QED
      BY <3>2
  <2>3. Cardinality(S) <= m /\ Cardinality(S) # m
    BY <1>2, <2>1, <2>2, FS_Subset
  <2>4. Rank(B, b) \in Nat /\ Rank(B, b) = Cardinality(S)
    BY RankNat DEF Rank
  <2>5. QED
    BY <1>2, <2>3, <2>4
<1>4. IsFiniteSet(R) /\ Cardinality(R) = m
  BY <1>2, IntervalCount
<1>5. g \in Injection(T, R)
  <2>1. g \in [T -> R]
    BY <1>3
  <2>2. ASSUME NEW b \in T, NEW c \in T, g[b] = g[c] PROVE b = c
    <3>1. Rank(B, b) = Rank(B, c) /\ b \in B /\ c \in B
      BY <1>1, <2>2
    <3>2. QED
      BY <3>1, RankOnce
  <2> HIDE DEF g, T, R
  <2>3. QED
    BY <2>1, <2>2, Zenon DEF Injection, IsInjective
<1>6. g \in Surjection(T, R)
  BY <1>4, <1>5, FS_Injection
<1>7. \A k \in R : \E b \in T : Rank(B, b) = k
  BY <1>6 DEF Surjection
<1>8. \A k \in 1 .. m : k - 1 \in R
  BY <1>2
<1>9. QED
  BY <1>2, <1>7, <1>8

\* Pages of the only region are counted by their bits.
LEMMA PairCount ==
  ASSUME NEW S, IsFiniteSet(S)
  PROVE  IsFiniteSet({1} \X S) /\ Cardinality({1} \X S) = Cardinality(S)
<1> DEFINE g == [x \in S |-> <<1, x>>]
<1>1. g \in Surjection(S, {1} \X S)
  <2>1. g \in [S -> {1} \X S]
    OBVIOUS
  <2>2. \A t \in {1} \X S : t[2] \in S /\ g[t[2]] = t
    OBVIOUS
  <2> HIDE DEF g
  <2>3. QED
    BY <2>1, <2>2 DEF Surjection
<1>2. \A x, y \in S : g[x] = g[y] => x = y
  OBVIOUS
<1>3. g \in Injection(S, {1} \X S)
  BY <1>1, <1>2 DEF Injection, IsInjective, Surjection
<1>4. QED
  BY <1>1, <1>3, FS_Surjection

-----------------------------------------------------------------------------
(* Frames and their uses, with one region: with more of them, the pages of *)
(* an allocation that spans regions overwrite each other in the buffer.    *)

OneRegion == Len(MemoryMap) = 1

Used == tableFrames \cup {vmap[v] : v \in DOMAIN vmap}

BitsInv ==
  /\ added \in {0, 1}
  /\ free \in [Slots -> SUBSET Nat]
  /\ installed \in [Slots -> SUBSET Nat]
  /\ IsFiniteSet(installed[1])
  /\ free[1] \subseteq installed[1]

UsedInv ==
  \A f \in Used : /\ f \in Int /\ added = 1
                  /\ f - AllocBase(1) \in installed[1]
                  /\ f - AllocBase(1) \notin free[1]

FrameInv == BitsInv /\ UsedInv /\ BackedOnce

LEMMA OneSlot == OneRegion => Slots = {1}
BY DEF OneRegion, Slots

LEMMA OneGeometry == OneRegion => AllocBase(1) \in Nat /\ ScanLimit(1) \in Int
<1> SUFFICES ASSUME OneRegion PROVE AllocBase(1) \in Nat /\ ScanLimit(1) \in Int
  OBVIOUS
<1>1. MemoryMap[1] \in [base : Nat, numPages : Nat]
  <2>1. ASSUME NEW R, NEW s \in Seq(R), NEW k \in 1 .. Len(s)
        PROVE  s[k] \in R
    OBVIOUS
  <2>2. 1 \in 1 .. Len(MemoryMap)
    BY DEF OneRegion
  <2>3. QED
    BY <2>1, <2>2, MapAssumption
<1>2. \A m \in Nat, d \in Nat \ {0} : CeilDiv(m, d) \in Nat
  BY DEF CeilDiv
<1>3. BitmapBytes(1) \in Nat
  BY <1>1, <1>2, SizesAssumption DEF BitmapBytes
<1>4. BitmapPages(1) \in Nat
  BY <1>2, <1>3, SizesAssumption DEF BitmapPages
<1>5. BitmapSize(1) \in Int
  BY <1>1, <1>4 DEF BitmapSize
<1>6. CeilDiv(BitmapSize(1), BitsPerWord) \in Int
  BY <1>5, SizesAssumption DEF CeilDiv
<1>7. ScanLimit(1) \in Int
  BY <1>6, SizesAssumption DEF ScanLimit
<1>8. QED
  BY <1>1, <1>4, <1>7 DEF AllocBase

LEMMA FreeBits ==
  ASSUME OneRegion, BitsInv
  PROVE  free[1] \in SUBSET Nat /\ IsFiniteSet(free[1])
<1>1. free[1] \in SUBSET Nat
  BY OneSlot DEF BitsInv
<1>2. QED
  BY <1>1, FS_Subset DEF BitsInv

\* An allocation takes the lowest bits of the region.
LEMMA TakenBits ==
  ASSUME OneRegion, BitsInv, NEW w \in Nat
  PROVE  /\ Taken(w) = {1} \X Lowest(free[1], w)
         /\ TakenFrom(w, 1) = Lowest(free[1], w)
         /\ Got(w) = Cardinality(Lowest(free[1], w))
         /\ Surviving(w) = Taken(w)
<1> DEFINE B == free[1]
<1>1. B \in SUBSET Nat /\ IsFiniteSet(B)
  BY FreeBits
<1>2. FreePages = {1} \X B
  BY OneSlot DEF FreePages
<1>3. ASSUME NEW b \in B
      PROVE  Cardinality({q \in FreePages : Precedes(q, <<1, b>>)}) = Rank(B, b)
  <2>1. {q \in FreePages : Precedes(q, <<1, b>>)} = {1} \X {c \in B : c < b}
    BY <1>2 DEF Precedes
  <2>2. IsFiniteSet({c \in B : c < b})
    BY <1>1, RankNat
  <2>3. QED
    BY <2>1, <2>2, PairCount DEF Rank
<1>4. Taken(w) = {1} \X Lowest(B, w)
  <2>1. ASSUME NEW p \in FreePages PROVE p[2] \in B /\ p = <<1, p[2]>>
    BY <1>2
  <2>2. ASSUME NEW p \in FreePages
        PROVE  (Cardinality({q \in FreePages : Precedes(q, p)}) < w)
                 <=> p[2] \in Lowest(B, w)
    BY <1>3, <2>1 DEF Lowest
  <2>3. \A p \in {1} \X Lowest(B, w) : p \in FreePages /\ p[2] \in Lowest(B, w)
    BY <1>2 DEF Lowest
  <2>4. Taken(w) = {p \in FreePages : p[2] \in Lowest(B, w)}
    BY <2>2 DEF Taken
  <2>5. QED
    BY <2>1, <2>3, <2>4
<1>5. TakenFrom(w, 1) = Lowest(B, w)
  BY <1>4 DEF TakenFrom, Lowest
<1>6. Got(w) = Cardinality(Lowest(B, w))
  BY <1>1, <1>4, RanksOnto, PairCount DEF Got
<1>7. Surviving(w) = Taken(w)
  <2>1. \A p \in Taken(w) : p[1] = 1
    BY <1>4
  <2>2. QED
    BY <2>1, OneSlot DEF Surviving
<1>8. QED
  BY <1>4, <1>5, <1>6, <1>7

\* The k-th entry of the buffer is the page whose bit has k - 1 below it.
LEMMA BufferPage ==
  ASSUME OneRegion, BitsInv, NEW w \in Nat, NEW k \in 1 .. w,
         NEW b \in free[1], Rank(free[1], b) = k - 1
  PROVE  BufferEntry(w, k, 0) = AllocBase(1) + b
<1> DEFINE B == free[1]
<1>1. B \in SUBSET Nat /\ IsFiniteSet(B)
  BY FreeBits
<1>2. ASSUME NEW c \in Lowest(B, w) PROVE Entry(w, <<1, c>>) = 1 + Rank(B, c)
  <2>1. c \in B
    BY DEF Lowest
  <2>2. ASSUME NEW d \in B, d < c PROVE d \in Lowest(B, w)
    <3>1. Rank(B, d) < Rank(B, c) /\ Rank(B, d) \in Nat /\ Rank(B, c) \in Nat
      BY <1>1, <2>1, <2>2, RankLess, RankNat
    <3>2. QED
      BY <3>1 DEF Lowest
  <2>3. {d \in TakenFrom(w, 1) : d < c} = {d \in B : d < c}
    BY <2>2, TakenBits DEF Lowest
  <2>4. QED
    BY <2>3 DEF Entry, Rank
<1>3. b \in Lowest(B, w)
  BY DEF Lowest
<1>4. <<1, b>> \in Surviving(w) /\ Entry(w, <<1, b>>) = k
  BY <1>2, <1>3, TakenBits
<1>5. ASSUME NEW p \in Surviving(w), Entry(w, p) = k PROVE p = <<1, b>>
  <2>1. PICK c \in Lowest(B, w) : p = <<1, c>>
    BY TakenBits
  <2>2. c \in B /\ Rank(B, c) \in Nat
    BY <1>1, RankNat DEF Lowest
  <2>3. 1 + Rank(B, c) = k
    BY <1>2, <1>5, <2>1
  <2>4. Rank(B, c) = Rank(B, b)
    <3>1. Rank(B, b) \in Nat
      BY <1>1, RankNat
    <3>2. QED
      BY <2>2, <2>3, <3>1
  <2>5. QED
    BY <1>1, <2>1, <2>2, <2>4, RankOnce
<1>6. BufferEntry(w, k, 0) = Frame(1, b)
  <2>1. (CHOOSE p \in Surviving(w) : Entry(w, p) = k) = <<1, b>>
    BY <1>4, <1>5
  <2>2. <<1, b>>[1] = 1 /\ <<1, b>>[2] = b
    OBVIOUS
  <2>3. \E p \in Surviving(w) : Entry(w, p) = k
    BY <1>4
  <2> DEFINE q == CHOOSE p \in Surviving(w) : Entry(w, p) = k
  <2>4. BufferEntry(w, k, 0) = Frame(q[1], q[2])
    BY <2>3, Zenon DEF BufferEntry
  <2>5. QED
    BY <2>1, <2>2, <2>4
<1>7. QED
  BY <1>6 DEF Frame

\* What an allocation leaves in its buffer: a page of its own in every entry.
LEMMA BufferPages ==
  ASSUME OneRegion, BitsInv, NEW w \in Nat, NEW n \in 0 .. w, NEW m \in 1 .. n,
         m <= Got(w)
  PROVE  \E b \in Lowest(free[1], n) :
           Rank(free[1], b) = m - 1 /\ Buffer(n)[m] = AllocBase(1) + b
<1> DEFINE B == free[1]
<1>1. B \in SUBSET Nat /\ IsFiniteSet(B)
  BY FreeBits
<1>2. Got(w) = Cardinality(Lowest(B, w)) /\ Got(w) \in Nat
  BY <1>1, TakenBits, RanksOnto
<1>3. m \in 1 .. Cardinality(Lowest(B, w))
  BY <1>2
<1>4. PICK b \in Lowest(B, w) : Rank(B, b) = m - 1
  BY <1>1, <1>3, RanksOnto
<1>5. b \in Lowest(B, n)
  BY <1>4 DEF Lowest
<1>6. Buffer(n)[m] = AllocBase(1) + b
  BY <1>4, BufferPage DEF Lowest, Buffer
<1>7. QED
  BY <1>4, <1>5, <1>6

LEMMA ImageFinite ==
  ASSUME NEW S, IsFiniteSet(S), NEW g, DOMAIN g = S
  PROVE  IsFiniteSet({g[x] : x \in S})
<1> DEFINE h == [x \in S |-> g[x]]
           T == {g[x] : x \in S}
<1>1. h \in [S -> T] /\ \A t \in T : \E x \in S : h[x] = t
  OBVIOUS
<1> HIDE DEF h, T
<1>2. h \in Surjection(S, T)
  BY <1>1 DEF Surjection
<1>3. IsFiniteSet(T)
  BY <1>2, FS_Surjection
<1>4. QED
  BY <1>3 DEF T

\* An allocation adds finitely many paging structures.
LEMMA MissingFinite ==
  ASSUME NEW P, IsFiniteSet(P)
  PROVE  IsFiniteSet(MissingTables(P)) /\ Cardinality(MissingTables(P)) \in Nat
<1> DEFINE T == TableEntries
           g1 == [v \in P |-> <<1, v \div T>>]
           g2 == [v \in P |-> <<2, v \div (T * T)>>]
           g3 == [v \in P |-> <<3, v \div (T * T * T)>>]
           I(g) == {g[v] : v \in P}
<1>1. IsFiniteSet(I(g1)) /\ IsFiniteSet(I(g2)) /\ IsFiniteSet(I(g3))
  BY ImageFinite
<1>2. MissingTables(P) \subseteq I(g1) \cup I(g2) \cup I(g3)
  BY DEF MissingTables, Above
<1> HIDE DEF I, g1, g2, g3
<1>3. IsFiniteSet(I(g1) \cup I(g2))
  BY <1>1, FS_Union
<1>4. IsFiniteSet((I(g1) \cup I(g2)) \cup I(g3))
  BY <1>1, <1>3, FS_Union
<1>5. QED
  BY <1>2, <1>4, FS_Subset, FS_CardinalityType

LEMMA InitFrames == OneRegion /\ Init => FrameInv
<1> SUFFICES ASSUME OneRegion, Init PROVE FrameInv
  OBVIOUS
<1>1. /\ added = 0 /\ vmap = << >> /\ tableFrames = {}
      /\ free = [i \in Slots |-> {}] /\ installed = [i \in Slots |-> {}]
  BY DEF Init, PoolInit
<1>2. DOMAIN vmap = {}
  BY <1>1
<1>3. BitsInv
  BY <1>1, OneSlot, FS_EmptySet DEF BitsInv
<1>4. UsedInv /\ BackedOnce
  BY <1>1, <1>2 DEF UsedInv, BackedOnce, Used
<1>5. QED
  BY <1>3, <1>4 DEF FrameInv

LEMMA BootFrames ==
  ASSUME OneRegion, FrameInv, AddRegion, UNCHANGED vallocVars
  PROVE  FrameInv'
<1>1. added = 0 /\ added' = 1
  BY DEF FrameInv, BitsInv, OneRegion, AddRegion
<1>2. Used = {}
  BY <1>1 DEF FrameInv, UsedInv
<1>3. PICK bits \in SUBSET (ScannedBits(1) \cap Nat) :
        free' = [free EXCEPT ![1] = bits] /\ installed' = [installed EXCEPT ![1] = bits]
  <2>1. PICK stray \in SUBSET StrayBits(1) :
          LET bits == (WrittenBits(1) \cap ScannedBits(1)) \cup stray
          IN  /\ free' = [free EXCEPT ![1] = bits]
              /\ installed' = [installed EXCEPT ![1] = bits]
    <3>1. added + 1 = 1
      BY <1>1
    <3>2. \E stray \in SUBSET StrayBits(added + 1) :
            LET bits == (WrittenBits(added + 1) \cap ScannedBits(added + 1)) \cup stray
            IN  /\ free' = [free EXCEPT ![added + 1] = bits]
                /\ installed' = [installed EXCEPT ![added + 1] = bits]
      BY DEF AddRegion
    <3>3. QED
      BY <3>1, <3>2
  <2>2. (WrittenBits(1) \cap ScannedBits(1)) \cup stray \subseteq ScannedBits(1)
    BY DEF StrayBits
  <2>3. ScannedBits(1) \subseteq Nat
    BY OneGeometry DEF ScannedBits
  <2>4. QED
    BY <2>1, <2>2, <2>3
<1>4. IsFiniteSet(ScannedBits(1))
  BY OneGeometry, FS_Interval DEF ScannedBits
<1>5. IsFiniteSet(bits)
  <2>1. bits \in SUBSET ScannedBits(1)
    OBVIOUS
  <2>2. QED
    BY <1>4, <2>1, FS_Subset
<1>6. BitsInv'
  <2>1. free'[1] = bits /\ installed'[1] = bits
    BY <1>3, OneSlot DEF FrameInv, BitsInv
  <2>2. free' \in [Slots -> SUBSET Nat] /\ installed' \in [Slots -> SUBSET Nat]
    BY <1>3 DEF FrameInv, BitsInv
  <2>3. QED
    BY <1>1, <1>5, <2>1, <2>2 DEF BitsInv
<1>7. UsedInv' /\ BackedOnce'
  <2>1. Used' = {} /\ vmap' = vmap /\ tableFrames' = tableFrames
    BY <1>2 DEF vallocVars, Used
  <2>2. QED
    BY <2>1 DEF FrameInv, UsedInv, BackedOnce
<1>8. QED
  BY <1>6, <1>7 DEF FrameInv

\* Only free bits that come back without a use can end the invariant.
LEMMA QuietFrames ==
  ASSUME OneRegion, FrameInv, UNCHANGED vallocVars, UNCHANGED <<added, installed>>,
         free' \in [Slots -> SUBSET Nat], free'[1] \subseteq free[1]
  PROVE  FrameInv'
<1>1. Used' = Used /\ vmap' = vmap /\ tableFrames' = tableFrames
  BY DEF vallocVars, Used
<1>2. BitsInv'
  BY DEF FrameInv, BitsInv
<1>3. UsedInv'
  <2>1. AllocBase(1)' = AllocBase(1)
    BY DEF AllocBase, BitmapPages, BitmapBytes
  <2>2. QED
    BY <1>1, <2>1 DEF FrameInv, UsedInv
<1>4. BackedOnce'
  BY <1>1 DEF FrameInv, BackedOnce
<1>5. QED
  BY <1>2, <1>3, <1>4 DEF FrameInv

\* An allocation that fails gives back no more than it took.
LEMMA FailFrames ==
  ASSUME OneRegion, FrameInv, NEW n \in Nat, AllocFails(n)
  PROVE  FrameInv'
<1> DEFINE B == free[1]
           g == Got(n)
           list == SubSeq(Buffer(n), 1, g)
<1>1. B \in SUBSET Nat /\ IsFiniteSet(B) /\ BitsInv
  BY FreeBits DEF FrameInv
<1>2. g \in Nat /\ TakenFrom(n, 1) = Lowest(B, n)
  BY <1>1, TakenBits, RanksOnto
<1>3. g < n
  BY DEF AllocFails
<1>4. \A k \in 1 .. g : \E b \in B : list[k] = AllocBase(1) + b
  <2> SUFFICES ASSUME NEW k \in 1 .. g PROVE \E b \in B : list[k] = AllocBase(1) + b
    OBVIOUS
  <2>1. \E b \in Lowest(B, n) : Buffer(n)[k] = AllocBase(1) + b
    <3>1. k \in 1 .. n /\ k <= Got(n) /\ n \in 0 .. n
      BY <1>2, <1>3
    <3>2. QED
      BY <1>1, <3>1, BufferPages
  <2>2. list[k] = Buffer(n)[k]
    <3> DEFINE S == {Buffer(n)[j] : j \in 1 .. g}
    <3>1. \A j \in 1 .. g : Buffer(n)[j] \in S
      OBVIOUS
    <3> HIDE DEF S
    <3>2. \A j \in 1 .. g - 1 + 1 : SubSeq(Buffer(n), 1, g)[j] = Buffer(n)[1 + j - 1]
      BY <1>2, <3>1, SubSeqProperties
    <3>3. QED
      BY <1>2, <3>2
  <2>3. QED
    BY <2>1, <2>2 DEF Lowest
<1>5. DOMAIN list = 1 .. g
  <2> DEFINE S == {Buffer(n)[j] : j \in 1 .. g}
  <2>1. \A j \in 1 .. g : Buffer(n)[j] \in S
    OBVIOUS
  <2> HIDE DEF S
  <2>2. /\ SubSeq(Buffer(n), 1, g) \in Seq(S)
        /\ Len(SubSeq(Buffer(n), 1, g)) = IF 1 <= g THEN g - 1 + 1 ELSE 0
    BY <1>2, <2>1, SubSeqProperties
  <2>3. QED
    BY <1>2, <2>2
<1>6. free' = [i \in Slots |-> FreeInto(free[i] \ TakenFrom(n, i), i, list)]
  BY DEF AllocFails
<1>7. free'[1] = FreeInto(B \ Lowest(B, n), 1, list)
  BY <1>2, <1>6, OneSlot
<1>8. free'[1] \subseteq B
  <2> HIDE DEF list, g
  <2>1. \A k \in Hits(1, list) : list[k] - AllocBase(1) \in B
    <3> SUFFICES ASSUME NEW k \in Hits(1, list) PROVE list[k] - AllocBase(1) \in B
      OBVIOUS
    <3>1. PICK b \in B : list[k] = AllocBase(1) + b
      BY <1>4, <1>5 DEF Hits
    <3>2. AllocBase(1) \in Nat /\ b \in Nat
      BY <1>1, OneGeometry
    <3>3. QED
      BY <3>1, <3>2
  <2>2. QED
    BY <1>7, <2>1 DEF FreeInto
<1>9. free' \in [Slots -> SUBSET Nat]
  <2>1. free' = [i \in Slots |-> free'[i]]
    BY <1>6
  <2>2. \A i \in Slots : free'[i] \in SUBSET Nat
    BY <1>1, <1>8, OneSlot
  <2>3. QED
    BY <2>1, <2>2
<1>10. UNCHANGED vallocVars /\ UNCHANGED <<added, installed>>
  BY DEF AllocFails
<1>11. QED
  BY <1>8, <1>9, <1>10, QuietFrames

\* What an allocation maps and builds was free, and every page of it is new.
LEMMA MapFrames ==
  ASSUME OneRegion, FrameInv, AreaInv, added = 1, NEW n \in Nat, AllocMaps(n)
  PROVE  FrameInv'
<1> DEFINE B == free[1]
           base == AllocBase(1)
           P == cursor .. (cursor + n - 1)
           all == n + Cardinality(MissingTables(P))
           L == Lowest(B, n)
           M == Lowest(B, all) \ L
<1>1. B \in SUBSET Nat /\ IsFiniteSet(B) /\ BitsInv /\ base \in Nat
  BY FreeBits, OneGeometry DEF FrameInv
<1>2. cursor \in Nat
  BY DEF AreaInv
<1>3. all \in Nat /\ n <= all
  <2>1. IsFiniteSet(P)
    BY <1>2, IntervalCount
  <2>2. Cardinality(MissingTables(P)) \in Nat
    BY <2>1, MissingFinite
  <2>3. QED
    BY <2>2
<1>4. Got(all) = all /\ TakenFrom(all, 1) = Lowest(B, all)
  BY <1>1, <1>3, TakenBits DEF AllocMaps
<1>5. L \subseteq Lowest(B, all)
  <2>1. \A b \in B : Rank(B, b) \in Nat
    BY <1>1, RankNat
  <2>2. QED
    BY <1>3, <2>1 DEF Lowest
<1>6. /\ free' = [i \in Slots |-> free[i] \ TakenFrom(all, i)]
      /\ UNCHANGED <<added, installed>>
  BY DEF AllocMaps, AllocatePages
<1>7. free'[1] = B \ Lowest(B, all)
  BY <1>4, <1>6, OneSlot
<1>8. DOMAIN vmap' = DOMAIN vmap \cup P /\ DOMAIN vmap \cap P = {}
  BY <1>2 DEF AllocMaps, Merge, AreaInv
<1>9. \A v \in DOMAIN vmap : vmap'[v] = vmap[v]
  BY <1>8 DEF AllocMaps, Merge
<1>10. ASSUME NEW v \in P
       PROVE  \E b \in L : Rank(B, b) = v - cursor /\ vmap'[v] = base + b
  <2> DEFINE m == v - cursor + 1
  <2>1. m \in 1 .. n /\ m <= Got(all) /\ m - 1 = v - cursor
    BY <1>2, <1>3, <1>4
  <2>2. vmap'[v] = Buffer(n)[m]
    BY DEF AllocMaps, Merge
  <2>3. \E b \in L : Rank(B, b) = m - 1 /\ Buffer(n)[m] = base + b
    <3>1. n \in 0 .. all
      BY <1>3
    <3>2. QED
      BY <1>1, <1>3, <2>1, <3>1, BufferPages
  <2>4. QED
    BY <2>1, <2>2, <2>3
<1>11. tableFrames' = tableFrames \cup {base + b : b \in M}
  <2>1. Taken(all) \ Taken(n) = {1} \X M
    BY <1>1, <1>3, TakenBits
  <2>2. {Frame(p[1], p[2]) : p \in {1} \X M} = {base + b : b \in M}
    <3>1. \A p \in {1} \X M : p[2] \in M /\ Frame(p[1], p[2]) = base + p[2]
      BY DEF Frame
    <3>2. ASSUME NEW b \in M PROVE \E p \in {1} \X M : Frame(p[1], p[2]) = base + b
      <4>1. <<1, b>> \in {1} \X M /\ <<1, b>>[1] = 1 /\ <<1, b>>[2] = b
        OBVIOUS
      <4>2. QED
        BY <4>1 DEF Frame
    <3> HIDE DEF M, base
    <3>3. QED
      BY <3>1, <3>2
  <2>3. QED
    BY <2>1, <2>2 DEF AllocMaps
<1>12. AllocBase(1)' = base
  BY DEF AllocBase, BitmapPages, BitmapBytes
<1>13. \A b \in Lowest(B, all) : b \in B /\ b \in Nat
  BY <1>1 DEF Lowest
<1>14. BitsInv'
  <2>1. free' \in [Slots -> SUBSET Nat]
    BY <1>6 DEF FrameInv, BitsInv
  <2>2. QED
    BY <1>1, <1>6, <1>7, <2>1 DEF BitsInv
<1>15. \A f \in Used : f \in Int /\ f - base \in installed[1] /\ f - base \notin B
  BY DEF FrameInv, UsedInv
<1>16. ASSUME NEW f \in Used', f \notin Used
       PROVE  \E b \in Lowest(B, all) : f = base + b
  <2>1. CASE f \in tableFrames'
    BY <1>11, <1>16, <2>1 DEF Used
  <2>2. CASE \E v \in DOMAIN vmap' : f = vmap'[v]
    <3>1. PICK v \in DOMAIN vmap' : f = vmap'[v]
      BY <2>2
    <3>2. v \in P
      BY <1>8, <1>9, <1>16, <3>1 DEF Used
    <3>3. QED
      BY <1>5, <1>10, <3>1, <3>2
  <2>3. QED
    BY <1>16, <2>1, <2>2 DEF Used
<1>17. UsedInv'
  <2> SUFFICES ASSUME NEW f \in Used'
               PROVE  /\ f \in Int /\ added' = 1
                      /\ f - base \in installed'[1] /\ f - base \notin free'[1]
    BY <1>12 DEF UsedInv
  <2>1. CASE f \in Used
    BY <1>6, <1>7, <1>15, <2>1
  <2>2. CASE f \notin Used
    <3>1. PICK b \in Lowest(B, all) : f = base + b
      BY <1>16, <2>2
    <3>2. f - base = b /\ f \in Int /\ b \in B
      BY <1>1, <1>13, <3>1
    <3>3. QED
      BY <1>1, <1>6, <1>7, <3>2 DEF BitsInv
  <2>3. QED
    BY <2>1, <2>2
<1>18. \A f \in Used, b \in Lowest(B, all) : f # base + b
  <2> SUFFICES ASSUME NEW f \in Used, NEW b \in Lowest(B, all), f = base + b PROVE FALSE
    OBVIOUS
  <2>1. f - base = b
    BY <1>1, <1>13
  <2>2. QED
    BY <1>13, <1>15, <2>1
<1>19. \A b, c \in Lowest(B, all) : base + b = base + c => b = c
  BY <1>1, <1>13
<1>20. \A v, w \in DOMAIN vmap' : vmap'[v] = vmap'[w] => v = w
  <2> SUFFICES ASSUME NEW v \in DOMAIN vmap', NEW w \in DOMAIN vmap', vmap'[v] = vmap'[w]
               PROVE  v = w
    OBVIOUS
  <2>1. CASE v \in DOMAIN vmap /\ w \in DOMAIN vmap
    BY <1>9, <2>1 DEF FrameInv, BackedOnce
  <2>2. CASE v \in P /\ w \in P
    <3>1. PICK b \in L : Rank(B, b) = v - cursor /\ vmap'[v] = base + b
      BY <1>10, <2>2
    <3>2. PICK c \in L : Rank(B, c) = w - cursor /\ vmap'[w] = base + c
      BY <1>10, <2>2
    <3>3. b = c
      BY <1>5, <1>19, <3>1, <3>2
    <3>4. v - cursor = w - cursor /\ v \in Int /\ w \in Int
      BY <1>2, <2>2, <3>1, <3>2, <3>3
    <3>5. QED
      BY <1>2, <3>4
  <2>3. CASE (v \in P /\ w \in DOMAIN vmap) \/ (v \in DOMAIN vmap /\ w \in P)
    BY <1>5, <1>9, <1>10, <1>18, <2>3 DEF Used
  <2>4. QED
    BY <1>8, <2>1, <2>2, <2>3
<1>21. \A v \in DOMAIN vmap' : vmap'[v] \notin tableFrames'
  <2> SUFFICES ASSUME NEW v \in DOMAIN vmap', vmap'[v] \in tableFrames' PROVE FALSE
    OBVIOUS
  <2>1. CASE v \in DOMAIN vmap
    <3>1. vmap'[v] = vmap[v] /\ vmap[v] \in Used /\ vmap[v] \notin tableFrames
      BY <1>9, <2>1 DEF FrameInv, BackedOnce, Used
    <3>2. PICK b \in M : vmap[v] = base + b
      BY <1>11, <3>1
    <3>3. QED
      BY <1>18, <3>1, <3>2
  <2>2. CASE v \in P
    <3>1. PICK b \in L : vmap'[v] = base + b
      BY <1>10, <2>2
    <3>2. vmap'[v] \notin tableFrames
      BY <1>5, <1>18, <3>1 DEF Used
    <3>3. PICK c \in M : base + b = base + c
      BY <1>11, <3>1, <3>2
    <3>4. b = c
      BY <1>5, <1>19, <3>3
    <3>5. QED
      BY <3>4
  <2>3. QED
    BY <1>8, <2>1, <2>2
<1>22. QED
  BY <1>14, <1>17, <1>20, <1>21 DEF FrameInv, BackedOnce

\* A free unmaps the frames it returns.
LEMMA FreeFrames ==
  ASSUME OneRegion, FrameInv, AreaInv, NEW length \in Lengths, NEW a \in areas,
         Free(a, length)
  PROVE  FrameInv'
<1> DEFINE base == AllocBase(1)
           n == NearestPages(length)
           F == a.start .. (a.start + n - 1)
           list == [k \in 1 .. n |-> PhysAddr(a.start + k - 1)]
<1>1. /\ F \subseteq DOMAIN vmap /\ vmap' = [v \in DOMAIN vmap \ F |-> vmap[v]]
      /\ n \in Nat /\ a.start \in Nat /\ base \in Nat
  BY NearestNat, OneGeometry DEF Free, AllMapped, Unmapped, AreaInv
<1>2. /\ free' = [i \in Slots |-> FreeInto(free[i], i, list)]
      /\ UNCHANGED <<added, installed, tableFrames>>
  BY DEF Free, FreePagesOf
<1>3. ASSUME NEW k \in Hits(1, list)
      PROVE  \E v \in F : list[k] = vmap[v]
  <2>1. k \in 1 .. n
    BY DEF Hits
  <2>2. a.start + k - 1 \in F
    BY <1>1, <2>1
  <2>3. list[k] = vmap[a.start + k - 1]
    BY <1>1, <2>1, <2>2 DEF PhysAddr
  <2>4. QED
    BY <2>2, <2>3
<1>4. \A v \in DOMAIN vmap : /\ vmap[v] \in Int /\ vmap[v] \in Used /\ added = 1
                             /\ vmap[v] - base \in installed[1]
  BY DEF FrameInv, UsedInv, Used
<1>5. free'[1] = free[1] \cup ({list[k] - base : k \in Hits(1, list)} \cap Nat)
  BY <1>2, OneSlot DEF FreeInto
<1>6. BitsInv'
  <2> HIDE DEF list
  <2>1. free'[1] \subseteq installed[1]
    BY <1>1, <1>3, <1>4, <1>5 DEF FrameInv, BitsInv
  <2>2. free' \in [Slots -> SUBSET Nat]
    BY <1>2 DEF FrameInv, BitsInv, FreeInto
  <2>3. QED
    BY <1>2, <2>1, <2>2 DEF FrameInv, BitsInv
<1>7. \A v \in DOMAIN vmap' : v \in DOMAIN vmap /\ v \notin F /\ vmap'[v] = vmap[v]
  BY <1>1
<1>8. Used' \subseteq Used
  BY <1>2, <1>7 DEF Used
<1>9. ASSUME NEW f \in Used' PROVE f - base \notin free'[1]
  <2>1. f \in Int /\ f - base \notin free[1]
    BY <1>8, <1>9 DEF FrameInv, UsedInv
  <2>2. ASSUME NEW k \in Hits(1, list), list[k] - base = f - base PROVE FALSE
    <3>1. PICK v \in F : list[k] = vmap[v]
      BY <1>3, <2>2
    <3>2. f = vmap[v] /\ v \in DOMAIN vmap
      <4>1. vmap[v] \in Int /\ v \in DOMAIN vmap
        BY <1>1, <1>4
      <4> HIDE DEF list
      <4>2. vmap[v] - base = f - base
        BY <2>2, <3>1
      <4>3. QED
        BY <1>1, <2>1, <4>1, <4>2
    <3>3. f \notin tableFrames
      BY <3>2 DEF FrameInv, BackedOnce
    <3>4. PICK w \in DOMAIN vmap' : f = vmap'[w]
      BY <1>2, <1>9, <3>3 DEF Used
    <3>5. w = v
      BY <1>7, <3>2, <3>4 DEF FrameInv, BackedOnce
    <3>6. QED
      BY <1>7, <3>5
  <2> HIDE DEF list
  <2>3. QED
    BY <1>5, <2>1, <2>2
<1>10. UsedInv'
  <2>1. AllocBase(1)' = base
    BY DEF AllocBase, BitmapPages, BitmapBytes
  <2>2. QED
    BY <1>2, <1>8, <1>9, <2>1 DEF FrameInv, UsedInv
<1>11. BackedOnce'
  BY <1>2, <1>7 DEF FrameInv, BackedOnce
<1>12. QED
  BY <1>6, <1>10, <1>11 DEF FrameInv

LEMMA NextFrames ==
  ASSUME OneRegion, FrameInv, AreaInv, [Next]_vars
  PROVE  FrameInv'
<1>1. ASSUME UNCHANGED vallocVars, UNCHANGED <<added, free, installed>> PROVE FrameInv'
  <2>1. free' \in [Slots -> SUBSET Nat] /\ free'[1] \subseteq free[1]
    BY <1>1 DEF FrameInv, BitsInv
  <2>2. QED
    BY <1>1, <2>1, QuietFrames
<1>2. CASE UNCHANGED vars
  BY <1>1, <1>2 DEF vars, poolVars
<1>3. CASE Boot
  BY <1>3, BootFrames DEF Boot
<1>4. ASSUME NEW length \in Lengths, Alloc(length) PROVE FrameInv'
  <2>1. added = 1 /\ NearestPages(length) \in Nat
    BY <1>4, NearestNat DEF Alloc, Booted, OneRegion
  <2>2. CASE AllocFails(NearestPages(length))
    BY <2>1, <2>2, FailFrames
  <2>3. CASE AllocMaps(NearestPages(length))
    BY <2>1, <2>3, MapFrames
  <2>4. CASE AllocPanics(NearestPages(length))
    BY <1>1, <2>4 DEF AllocPanics, Panics
  <2>5. QED
    BY <1>4, <2>2, <2>3, <2>4 DEF Alloc
<1>5. ASSUME NEW length \in Lengths, NEW a \in areas, Free(a, length) PROVE FrameInv'
  BY <1>5, FreeFrames
<1>6. ASSUME NEW length \in Lengths, NEW a \in areas, FreePanics(a, length) PROVE FrameInv'
  BY <1>1, <1>6 DEF FreePanics, Panics
<1>7. QED
  BY <1>2, <1>3, <1>4, <1>5, <1>6 DEF Next

LEMMA FramesAlways ==
  ASSUME GuardPages # 0, OneRegion
  PROVE  Spec => []FrameInv
<1>1. Init => AreaInv /\ FrameInv
  BY InitAreas, InitFrames
<1>2. AreaInv /\ FrameInv /\ [Next]_vars => AreaInv' /\ FrameInv'
  BY NextAreas, NextFrames
<1>3. QED
  BY <1>1, <1>2, PTL DEF Spec

\* A frame backs one page of the area at most and is no paging structure at the
\* same time (PageAllocator.cpp, Alloc and Free), on a machine with one region.
THEOREM BackingCorrect ==
  ASSUME GuardPages # 0, OneRegion
  PROVE  Spec => []BackedOnce
<1>1. FrameInv => BackedOnce
  BY DEF FrameInv
<1>2. QED
  BY <1>1, FramesAlways, PTL

\* Every frame the area uses is one the pool has handed out and not got back
\* (PageAllocator.cpp:68-69), on a machine with one region.
THEOREM TakenCorrect ==
  ASSUME GuardPages # 0, OneRegion
  PROVE  Spec => []BackingIsTaken
<1>1. FrameInv => BackingIsTaken
  <2> SUFFICES ASSUME FrameInv, NEW f \in Used
               PROVE  \E i \in Active : f - AllocBase(i) \in HandedOut(i)
    BY DEF BackingIsTaken, Used
  <2>1. f - AllocBase(1) \in HandedOut(1) /\ 1 \in Active
    BY DEF FrameInv, UsedInv, HandedOut, Active
  <2>2. QED
    BY <2>1
<1>2. QED
  BY <1>1, FramesAlways, PTL
=============================================================================
