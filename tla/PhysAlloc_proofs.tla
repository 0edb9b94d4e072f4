-------------------------- MODULE PhysAlloc_proofs --------------------------
(***************************************************************************)
(* Proofs about the physical allocator, for every page size, bitmap word   *)
(* and memory map.  Some need an assumption on the map that the code does  *)
(* not ensure, Separated: the frames a region owns or can hand out, the    *)
(* stray bits of its last word included, are no other region's.            *)
(***************************************************************************)
EXTENDS PhysAlloc, FiniteSetTheorems, WellFoundedInduction, TLAPS

(***************************************************************************)
(* The inductive invariant in two parts.  SInv holds for every map: a free *)
(* sets only bits of pages in a region's range, and these were installed.  *)
(* CountMatchesBitmap joins it under Separated, where a free also sets     *)
(* only bits that were handed out.                                         *)
(***************************************************************************)
BitmapInv ==
  /\ added \in 0 .. Len(MemoryMap)
  /\ free \in [Slots -> SUBSET Nat]
  /\ installed \in [Slots -> SUBSET Nat]
  /\ numAllocated \in [Slots -> Int]
  /\ \A i \in Slots : /\ free[i] \subseteq installed[i]
                      /\ installed[i] \subseteq ScannedBits(i)
                      /\ i > added => installed[i] = {}
  /\ \A i \in Active : /\ MemoryMap[i].numPages > 0
                       /\ WrittenBits(i) \cap ScannedBits(i) \subseteq installed[i]

HolderInv ==
  /\ held \subseteq Nat
  /\ \A f \in held : \E i \in Active : f - AllocBase(i) \in HandedOut(i)

RestInv ==
  /\ panicked \in BOOLEAN
  /\ ret \in [call : {"none", "alloc", "free"}, want : Nat, got : Nat,
              frames : SUBSET Nat]

SInv == BitmapInv /\ HolderInv /\ RestInv

IInv == SInv /\ CountMatchesBitmap

-----------------------------------------------------------------------------
(* Geometry.                                                               *)

\* Rounded-up division of a natural number is a natural number.
LEMMA CeilDivNat ==
  ASSUME NEW a \in Nat, NEW b \in Nat \ {0}
  PROVE  CeilDiv(a, b) \in Nat
  BY DEF CeilDiv

\* The sizes of a region are numbers, and its pages start after its bitmap.
LEMMA Geometry ==
  ASSUME NEW i \in Slots
  PROVE  /\ MemoryMap[i].base \in Nat
         /\ MemoryMap[i].numPages \in Nat
         /\ AllocBase(i) \in Nat
         /\ AllocBase(i) >= MemoryMap[i].base
         /\ ScanLimit(i) \in Int
<1>1. MemoryMap[i] \in [base : Nat, numPages : Nat]
  <2>1. ASSUME NEW R, NEW s \in Seq(R), NEW k \in 1 .. Len(s)
        PROVE  s[k] \in R
    OBVIOUS
  <2>2. QED
    BY <2>1, MapAssumption DEF Slots
<1>2. BitmapBytes(i) \in Nat
  BY <1>1, CeilDivNat, SizesAssumption DEF BitmapBytes
<1>3. BitmapPages(i) \in Nat
  BY <1>2, CeilDivNat, SizesAssumption DEF BitmapPages
<1>4. ScanLimit(i) \in Int
  <2>1. BitmapSize(i) \in Int
    BY <1>1, <1>3 DEF BitmapSize
  <2>2. CeilDiv(BitmapSize(i), BitsPerWord) \in Int
    BY <2>1, SizesAssumption DEF CeilDiv
  <2>3. QED
    BY <2>2, SizesAssumption DEF ScanLimit
<1>5. QED
  BY <1>1, <1>3, <1>4 DEF AllocBase

LEMMA Divided ==
  ASSUME NEW c \in Int, NEW b \in Int, b > 0
  PROVE  /\ c \div b \in Int /\ c % b \in 0 .. (b - 1)
         /\ c = b * (c \div b) + (c % b)
<1>1. c \div b \in Int
  OBVIOUS
<1>2. c % b \in 0 .. (b - 1)
  OBVIOUS
<1>3. c = b * (c \div b) + (c % b)
  BY Z3
<1>4. QED
  BY <1>1, <1>2, <1>3

\* Rounding up reaches the number, and less than a divisor beyond it.
LEMMA CeilDivBounds ==
  ASSUME NEW a \in Int, NEW b \in Nat \ {0}
  PROVE  CeilDiv(a, b) \in Int /\ a <= CeilDiv(a, b) * b /\ CeilDiv(a, b) * b < a + b
<1>1. b \in Int /\ b > 0 /\ a + (b - 1) \in Int
  OBVIOUS
<1>2. PICK q \in Int, r \in 0 .. (b - 1) :
         q = (a + (b - 1)) \div b /\ a + (b - 1) = b * q + r
  BY <1>1, Divided
<1>3. CeilDiv(a, b) = q
  BY <1>2 DEF CeilDiv
<1>4. q * b = b * q /\ q * b \in Int
  BY <1>1, <1>2
<1>5. a <= q * b /\ q * b < a + b
  <2>1. \A p \in Int : a + (b - 1) = p + r => a <= p /\ p < a + b
    OBVIOUS
  <2>2. b * q \in Int
    BY <1>1, <1>2
  <2>3. QED
    BY <1>2, <1>4, <2>1, <2>2
<1>6. QED
  BY <1>2, <1>3, <1>4, <1>5

\* The sizes of a region: its allocatable pages end where its range does, the
\* scanned bits reach to them, and so do the bits that are written.
LEMMA Sizes ==
  ASSUME NEW i \in Slots
  PROVE  /\ BitmapBytes(i) \in Nat /\ BitmapPages(i) \in Nat /\ BitmapSize(i) \in Int
         /\ AllocBase(i) + BitmapSize(i) = MemoryMap[i].base + MemoryMap[i].numPages
         /\ BitmapSize(i) <= ScanLimit(i)
         /\ ScanLimit(i) < BitmapSize(i) + BitsPerWord
         /\ MemoryMap[i].numPages <= BitmapBytes(i) * BitsPerByte
         /\ BitmapBytes(i) * BitsPerByte \in Int
<1>1. MemoryMap[i].base \in Nat /\ MemoryMap[i].numPages \in Nat
  BY Geometry
<1>2. BitmapBytes(i) \in Nat
  BY <1>1, CeilDivNat, SizesAssumption DEF BitmapBytes
<1>3. BitmapPages(i) \in Nat
  BY <1>2, CeilDivNat, SizesAssumption DEF BitmapPages
<1>4. BitmapSize(i) \in Int
  BY <1>1, <1>3 DEF BitmapSize
<1>5. AllocBase(i) + BitmapSize(i) = MemoryMap[i].base + MemoryMap[i].numPages
  BY <1>1, <1>3 DEF AllocBase, BitmapSize
<1>6. BitmapSize(i) <= ScanLimit(i) /\ ScanLimit(i) < BitmapSize(i) + BitsPerWord
  BY <1>4, CeilDivBounds, SizesAssumption DEF ScanLimit
<1>7. MemoryMap[i].numPages <= BitmapBytes(i) * BitsPerByte
  <2>1. MemoryMap[i].numPages \in Int
    BY <1>1
  <2>2. QED
    BY <2>1, CeilDivBounds, SizesAssumption DEF BitmapBytes
<1>8. BitmapBytes(i) * BitsPerByte \in Int
  BY <1>2, SizesAssumption
<1>9. QED
  BY <1>2, <1>3, <1>4, <1>5, <1>6, <1>7, <1>8

\* What a region believes it contains is in its range, and so in its window.
LEMMA ContainsInRange ==
  ASSUME NEW i \in Slots, NEW f \in Nat, Contains(i, f)
  PROVE  /\ f \in Window(i)
         /\ f >= MemoryMap[i].base /\ f < MemoryMap[i].base + MemoryMap[i].numPages
<1> DEFINE k == f - MemoryMap[i].base
           n == MemoryMap[i].numPages
<1>1. k \in Nat /\ n \in Nat
  BY Geometry DEF Contains
<1>2. k * PageSize < n
  BY DEF Contains
<1>3. k <= k * PageSize
  <2>1. ASSUME NEW x \in Nat, NEW y \in Nat \ {0}
        PROVE  x <= x * y
    <3>1. x * y = x + x * (y - 1)
      BY <2>1
    <3>2. x * (y - 1) \in Nat
      BY <2>1
    <3>3. QED
      BY <2>1, <3>1, <3>2
  <2>2. QED
    BY <1>1, <2>1, SizesAssumption
<1>4. k < n
  BY <1>1, <1>2, <1>3, SizesAssumption
<1>5. f < MemoryMap[i].base + n /\ f >= MemoryMap[i].base
  BY <1>1, <1>4, Geometry DEF Contains
<1>6. QED
  BY <1>5 DEF Window

\* A frame that stands for a scanned bit of a region is in its window.
LEMMA BitInWindow ==
  ASSUME NEW i \in Slots, NEW f \in Nat, f - AllocBase(i) \in ScannedBits(i)
  PROVE  f \in Window(i)
BY Geometry DEF ScannedBits, Window

\* Under Separated, two windows that share a frame are one region's.
LEMMA OneWindow ==
  ASSUME Separated, NEW i \in Slots, NEW j \in Slots,
         NEW f \in Window(i), f \in Window(j)
  PROVE  i = j
BY DEF Separated

-----------------------------------------------------------------------------
(* Sets of bits.                                                           *)

\* The bits of a region's bitmap are finitely many.
LEMMA BitsFinite ==
  ASSUME BitmapInv, NEW i \in Slots
  PROVE  IsFiniteSet(installed[i]) /\ IsFiniteSet(free[i])
<1>1. IsFiniteSet(ScannedBits(i))
  BY Geometry, FS_Interval DEF ScannedBits
<1>2. IsFiniteSet(installed[i])
  BY <1>1, FS_Subset DEF BitmapInv
<1>3. QED
  BY <1>2, FS_Subset DEF BitmapInv

\* Adding elements of T that A does not have, and taking elements T of A away.
LEMMA AddCount ==
  ASSUME NEW A, IsFiniteSet(A), NEW T, IsFiniteSet(T), A \cap T = {}
  PROVE  Cardinality(A \cup T) = Cardinality(A) + Cardinality(T)
<1>1. Cardinality(A \cap T) = 0
  BY FS_EmptySet
<1>2. Cardinality(A) \in Nat /\ Cardinality(T) \in Nat
  BY FS_CardinalityType
<1>3. Cardinality(A \cup T) = Cardinality(A) + Cardinality(T) - Cardinality(A \cap T)
  BY FS_Union
<1>4. QED
  BY <1>1, <1>2, <1>3

\* Taking elements of A away from A.
LEMMA RemoveCount ==
  ASSUME NEW A, IsFiniteSet(A), NEW T, A \cap T = T
  PROVE  Cardinality(A \ T) = Cardinality(A) - Cardinality(T)
BY FS_Difference

\* As many bits as list positions, when the list has no page twice.
LEMMA ImageCount ==
  ASSUME NEW K, IsFiniteSet(K), NEW list, NEW c \in Int,
         \A k \in K : list[k] \in Int,
         \A j, k \in K : list[j] = list[k] => j = k
  PROVE  Cardinality({list[k] - c : k \in K}) = Cardinality(K)
<1> DEFINE T == {list[k] - c : k \in K}
           g == [k \in K |-> list[k] - c]
<1>1. g \in Surjection(K, T)
  BY DEF Surjection
<1>2. g \in Injection(K, T)
  <2>1. ASSUME NEW j \in K, NEW k \in K, g[j] = g[k]
        PROVE  j = k
    <3>1. list[j] - c = list[k] - c
      BY <2>1
    <3>2. list[j] \in Int /\ list[k] \in Int
      OBVIOUS
    <3>3. list[j] = list[k]
      BY <3>1, <3>2
    <3>4. QED
      BY <3>3
  <2>2. g \in [K -> T]
    OBVIOUS
  <2> HIDE DEF g, T
  <2>3. QED
    BY <2>1, <2>2, Zenon DEF Injection, IsInjective
<1>3. QED
  BY <1>1, <1>2, FS_Surjection

-----------------------------------------------------------------------------
(* One lemma per operation of the pool.                                    *)

\* The pages that are out of a region, and those a call takes, are finitely many.
LEMMA OutFinite ==
  ASSUME BitmapInv, NEW i \in Slots, NEW want
  PROVE  /\ IsFiniteSet(HandedOut(i))
         /\ TakenFrom(want, i) \subseteq free[i]
         /\ IsFiniteSet(TakenFrom(want, i))
         /\ Cardinality(TakenFrom(want, i)) \in Nat
<1>1. IsFiniteSet(HandedOut(i))
  BY BitsFinite, FS_Difference DEF HandedOut
<1>2. TakenFrom(want, i) \subseteq free[i]
  BY DEF TakenFrom
<1>3. IsFiniteSet(TakenFrom(want, i))
  BY <1>2, BitsFinite, FS_Subset
<1>4. QED
  BY <1>1, <1>2, <1>3, FS_CardinalityType

\* A page in the range of a region stands for one of its installed bits, unless it
\* holds the bitmap.
LEMMA OwnPageInstalled ==
  ASSUME BitmapInv, NEW i \in Active, NEW f \in Nat, Contains(i, f),
         f - AllocBase(i) \in Nat
  PROVE  f - AllocBase(i) \in installed[i]
<1>1. i \in Slots
  BY DEF BitmapInv, Active, Slots
<1> DEFINE b == f - AllocBase(i)
           z == BitmapSize(i)
           n == MemoryMap[i].numPages
           w == BitmapBytes(i) * BitsPerByte
<1>2. f \in Nat /\ f < MemoryMap[i].base + n
  BY <1>1, ContainsInRange
<1>3. /\ b \in Nat /\ z \in Int /\ AllocBase(i) \in Nat /\ n \in Nat /\ w \in Int
      /\ AllocBase(i) + z = MemoryMap[i].base + n /\ MemoryMap[i].base \in Nat
      /\ z <= ScanLimit(i) /\ ScanLimit(i) \in Int /\ n <= w
      /\ AllocBase(i) >= MemoryMap[i].base
  BY <1>1, Geometry, Sizes
<1>4. b < z /\ b < n
  BY <1>2, <1>3
<1>5. b \in ScannedBits(i) /\ b \in WrittenBits(i)
  <2> HIDE DEF b, z, n, w
  <2>1. b < ScanLimit(i) /\ b < w
    BY <1>3, <1>4
  <2>2. QED
    BY <1>3, <2>1 DEF ScannedBits, WrittenBits, w
<1>6. QED
  BY <1>5 DEF BitmapInv

\* An allocation clears bits that were set, and counts each of them once.
LEMMA AllocatePagesKeeps ==
  ASSUME SInv, NEW want, AllocatePages(want)
  PROVE  BitmapInv' /\ (CountMatchesBitmap => CountMatchesBitmap')
<1> USE DEF SInv
<1>1. ASSUME NEW i \in Slots
      PROVE  /\ free'[i] = free[i] \ TakenFrom(want, i)
             /\ numAllocated'[i] = numAllocated[i] + Cardinality(TakenFrom(want, i))
             /\ numAllocated'[i] \in Int
             /\ installed'[i] = installed[i]
  <2>1. numAllocated[i] \in Int
    BY DEF BitmapInv
  <2>2. QED
    BY <2>1, OutFinite DEF AllocatePages
<1>2. BitmapInv'
  <2>1. /\ free' \in [Slots -> SUBSET Nat]
        /\ numAllocated' \in [Slots -> Int]
    BY <1>1 DEF AllocatePages, BitmapInv
  <2>2. UNCHANGED <<added, installed>>
    BY DEF AllocatePages
  <2>3. \A i \in Slots : free'[i] \subseteq installed'[i]
    BY <1>1 DEF BitmapInv
  <2>4. QED
    BY <2>1, <2>2, <2>3 DEF BitmapInv, Active
<1>3. ASSUME CountMatchesBitmap, NEW i \in Slots
      PROVE  numAllocated'[i] = Cardinality(HandedOut(i)')
  <2>1. HandedOut(i)' = HandedOut(i) \cup TakenFrom(want, i)
    <3>1. HandedOut(i)' = installed[i] \ (free[i] \ TakenFrom(want, i))
      BY <1>1 DEF HandedOut
    <3>2. free[i] \subseteq installed[i] /\ TakenFrom(want, i) \subseteq free[i]
      BY OutFinite DEF BitmapInv
    <3>3. QED
      BY <3>1, <3>2 DEF HandedOut
  <2>2. HandedOut(i) \cap TakenFrom(want, i) = {}
    BY OutFinite DEF HandedOut
  <2>3. Cardinality(HandedOut(i) \cup TakenFrom(want, i)) =
          Cardinality(HandedOut(i)) + Cardinality(TakenFrom(want, i))
    BY <2>2, OutFinite, AddCount
  <2>4. numAllocated[i] = Cardinality(HandedOut(i))
    BY <1>3 DEF CountMatchesBitmap
  <2>5. QED
    BY <1>1, <2>1, <2>3, <2>4
<1>4. QED
  BY <1>2, <1>3 DEF CountMatchesBitmap

\* The pages left in the buffer were free, and are handed out afterwards.
LEMMA WrittenPages ==
  ASSUME SInv, NEW want, NEW f \in Written(want)
  PROVE  /\ f \in Nat
         /\ \E i \in Active : f - AllocBase(i) \in TakenFrom(want, i)
<1>1. PICK p \in Surviving(want) : f = Frame(p[1], p[2])
  BY DEF Written
<1>2. p \in FreePages /\ p \in Taken(want)
  BY DEF Surviving, Taken
<1>3. PICK i \in Slots : p \in {i} \X free[i]
  BY <1>2 DEF FreePages
<1>4. p = <<i, p[2]>> /\ p[2] \in free[i] /\ p[2] \in Nat
  BY <1>3 DEF SInv, BitmapInv
<1>5. p[2] \in TakenFrom(want, i)
  BY <1>2, <1>4 DEF TakenFrom
<1>6. i \in Active
  BY <1>4 DEF SInv, BitmapInv, Active, Slots
<1>7. f = AllocBase(i) + p[2]
  BY <1>1, <1>4 DEF Frame
<1>8. f \in Nat /\ f - AllocBase(i) = p[2]
  BY <1>4, <1>7, Geometry
<1>9. QED
  BY <1>5, <1>6, <1>8

\* A page on a caller's list that a region takes for its own is its own: it
\* stands for a bit that region handed out.
LEMMA HitsAreOwn ==
  ASSUME Separated, SInv, NEW i \in Slots, NEW list, NEW k \in Hits(i, list),
         list[k] \in held
  PROVE  list[k] - AllocBase(i) \in HandedOut(i)
<1>1. PICK j \in Active : list[k] - AllocBase(j) \in HandedOut(j)
  BY DEF SInv, HolderInv
<1>2. j \in Slots
  BY DEF Active, Slots, SInv, BitmapInv
<1>3. list[k] \in Nat /\ Contains(i, list[k])
  BY DEF Hits, SInv, HolderInv
<1>4. list[k] \in Window(i)
  BY <1>3, ContainsInRange
<1>5. list[k] - AllocBase(j) \in ScannedBits(j)
  BY <1>1, <1>2 DEF HandedOut, SInv, BitmapInv
<1>6. list[k] \in Window(j)
  BY <1>2, <1>3, <1>5, BitInWindow
<1>7. i = j
  BY <1>2, <1>4, <1>6, OneWindow
<1>8. QED
  BY <1>1, <1>7

\* A free sets installed bits only, whatever the map.
LEMMA FreeSetsInstalled ==
  ASSUME SInv, NEW n \in 1 .. MaxRequest, NEW list \in HeldLists(n),
         FreePagesOf(list), NEW i \in Slots
  PROVE  free'[i] \subseteq installed[i] /\ numAllocated'[i] \in Int
<1>1. list \in [1 .. n -> held] /\ held \subseteq Nat
  BY DEF HeldLists, SInv, HolderInv
<1>2. Hits(i, list) \subseteq 1 .. n
  BY <1>1 DEF Hits
<1>3. ASSUME NEW k \in Hits(i, list), list[k] - AllocBase(i) \in Nat
      PROVE  list[k] - AllocBase(i) \in installed[i]
  <2>1. k \in 1 .. n /\ i \in Active /\ Contains(i, list[k])
    BY <1>2 DEF Hits
  <2>2. list[k] \in Nat
    BY <1>1, <2>1
  <2>3. QED
    BY <1>3, <2>1, <2>2, OwnPageInstalled DEF SInv
<1>4. free'[i] \subseteq installed[i]
  <2>1. free'[i] = free[i] \cup ({list[k] - AllocBase(i) : k \in Hits(i, list)} \cap Nat)
    BY DEF FreePagesOf, FreeInto
  <2>2. free[i] \subseteq installed[i]
    BY DEF SInv, BitmapInv
  <2>3. QED
    BY <1>3, <2>1, <2>2
<1>5. numAllocated'[i] \in Int
  <2>1. IsFiniteSet(Hits(i, list))
    BY <1>2, FS_Interval, FS_Subset, RequestAssumption
  <2>2. Cardinality(Hits(i, list)) \in Nat /\ numAllocated[i] \in Int
    BY <2>1, FS_CardinalityType DEF SInv, BitmapInv
  <2>3. QED
    BY <2>2 DEF FreePagesOf
<1>6. QED
  BY <1>4, <1>5

\* A free of pages the caller holds returns exactly the bits of its hits.
LEMMA FreeReturns ==
  ASSUME Separated, IInv, NEW n \in 1 .. MaxRequest, NEW list \in HeldLists(n),
         FreePagesOf(list), NEW i \in Slots
  PROVE  /\ HandedOut(i)' =
              HandedOut(i) \ {list[k] - AllocBase(i) : k \in Hits(i, list)}
         /\ numAllocated'[i] = Cardinality(HandedOut(i)')
<1> DEFINE K == Hits(i, list)
           D == {list[k] - AllocBase(i) : k \in K}
<1>1. list \in [1 .. n -> held] /\ \A j, k \in 1 .. n : list[j] = list[k] => j = k
  BY DEF HeldLists
<1>2. K \subseteq 1 .. n
  BY <1>1 DEF Hits
<1>3. \A k \in K : list[k] \in held /\ list[k] \in Int
  <2> SUFFICES ASSUME NEW k \in K PROVE list[k] \in held /\ list[k] \in Int
    OBVIOUS
  <2>1. k \in 1 .. n
    BY <1>2
  <2> HIDE DEF K
  <2>2. list[k] \in held
    BY <1>1, <2>1
  <2>3. held \subseteq Nat
    BY DEF IInv, SInv, HolderInv
  <2>4. list[k] \in Nat
    BY <2>2, <2>3
  <2>5. QED
    BY <2>2, <2>4
<1>4. D \subseteq HandedOut(i)
  BY <1>3, HitsAreOwn DEF IInv
<1>5. free'[i] = free[i] \cup D
  <2>1. free'[i] = free[i] \cup (D \cap Nat)
    BY DEF FreePagesOf, FreeInto
  <2>2. D \subseteq Nat
    BY <1>4 DEF HandedOut, IInv, SInv, BitmapInv
  <2>3. QED
    BY <2>1, <2>2
<1>6. installed'[i] = installed[i]
  BY DEF FreePagesOf
<1>7. HandedOut(i)' = HandedOut(i) \ D
  BY <1>5, <1>6 DEF HandedOut
<1>8. Cardinality(D) = Cardinality(K) /\ Cardinality(K) \in Nat
  <2>1. IsFiniteSet(K)
    BY <1>2, FS_Interval, FS_Subset, RequestAssumption
  <2>2. \A j, k \in K : list[j] = list[k] => j = k
    BY <1>1, <1>2
  <2>3. AllocBase(i) \in Int
    BY Geometry
  <2> HIDE DEF K
  <2>4. Cardinality(D) = Cardinality(K)
    BY <1>3, <2>1, <2>2, <2>3, ImageCount
  <2>5. QED
    BY <2>1, <2>4, FS_CardinalityType
<1>9. numAllocated'[i] = numAllocated[i] - Cardinality(K)
  BY DEF FreePagesOf
<1>10. numAllocated[i] = Cardinality(HandedOut(i)) /\ numAllocated[i] \in Int
  BY DEF IInv, SInv, BitmapInv, CountMatchesBitmap
<1>11. Cardinality(HandedOut(i) \ D) = Cardinality(HandedOut(i)) - Cardinality(D)
  <2>1. HandedOut(i) \cap D = D
    BY <1>4
  <2>2. IsFiniteSet(HandedOut(i))
    BY OutFinite DEF IInv, SInv
  <2> HIDE DEF D
  <2>3. QED
    BY <2>1, <2>2, RemoveCount
<1>12. QED
  BY <1>7, <1>8, <1>9, <1>10, <1>11

\* The free pages of the pool are finitely many.
LEMMA FreePagesFinite ==
  ASSUME BitmapInv
  PROVE  IsFiniteSet(FreePages)
<1> DEFINE g == [i \in Slots |-> {i} \X free[i]]
           T == {{i} \X free[i] : i \in Slots}
<1>1. IsFiniteSet(Slots)
  <2>1. Len(MemoryMap) \in Int
    BY MapAssumption
  <2>2. QED
    BY <2>1, FS_Interval DEF Slots
<1>2. g \in Surjection(Slots, T)
  BY DEF Surjection
<1>3. IsFiniteSet(T)
  BY <1>1, <1>2, FS_Surjection
<1>4. \A i \in Slots : IsFiniteSet({i} \X free[i])
  BY BitsFinite, FS_Singleton, FS_Product
<1>5. IsFiniteSet(UNION T)
  BY <1>3, <1>4, FS_UNION
<1>6. QED
  BY <1>5 DEF FreePages

-----------------------------------------------------------------------------
(* How many pages AllocatePages takes.                                     *)

\* The free pages a call takes before p.
Before(p) == {q \in FreePages : Precedes(q, p)}

\* The free pages are in a strict order, the regions' first.
LEMMA FreePagesOrdered ==
  ASSUME BitmapInv, NEW p \in FreePages, NEW q \in FreePages
  PROVE  /\ ~Precedes(p, p)
         /\ Precedes(p, q) \/ Precedes(q, p) \/ p = q
         /\ \A o \in FreePages : Precedes(o, p) /\ Precedes(p, q) => Precedes(o, q)
<1>1. \A o \in FreePages : o = <<o[1], o[2]>> /\ o[1] \in Int /\ o[2] \in Int
  BY DEF FreePages, BitmapInv, Slots
<1>2. QED
  BY <1>1 DEF Precedes

\* Ranks are numbers and grow in that order.
LEMMA PageRank ==
  ASSUME BitmapInv, NEW p \in FreePages
  PROVE  /\ IsFiniteSet(Before(p)) /\ Cardinality(Before(p)) \in Nat
         /\ Cardinality(Before(p)) < Cardinality(FreePages)
         /\ \A q \in FreePages :
              Precedes(q, p) => Cardinality(Before(q)) < Cardinality(Before(p))
<1>1. IsFiniteSet(FreePages) /\ Cardinality(FreePages) \in Nat
  BY FreePagesFinite, FS_CardinalityType
<1>2. \A q \in FreePages : Before(q) \in SUBSET FreePages
  BY DEF Before
<1>3. \A q \in FreePages : IsFiniteSet(Before(q)) /\ Cardinality(Before(q)) \in Nat
  BY <1>1, <1>2, FS_Subset, FS_CardinalityType
<1>4. p \notin Before(p)
  BY FreePagesOrdered DEF Before
<1>5. Cardinality(Before(p)) < Cardinality(FreePages)
  <2>1. Before(p) # FreePages
    BY <1>4
  <2>2. Cardinality(Before(p)) <= Cardinality(FreePages)
        /\ Cardinality(Before(p)) # Cardinality(FreePages)
    BY <1>1, <1>2, <2>1, FS_Subset
  <2>3. QED
    BY <1>1, <1>3, <2>2
<1>6. ASSUME NEW q \in FreePages, Precedes(q, p)
      PROVE  Cardinality(Before(q)) < Cardinality(Before(p))
  <2>1. Before(q) \subseteq Before(p)
    BY <1>6, FreePagesOrdered DEF Before
  <2>2. q \in Before(p) /\ q \notin Before(q)
    BY <1>6, FreePagesOrdered DEF Before
  <2>3. Before(q) \in SUBSET Before(p) /\ Before(q) # Before(p)
    BY <2>1, <2>2
  <2>4. Cardinality(Before(q)) <= Cardinality(Before(p))
        /\ Cardinality(Before(q)) # Cardinality(Before(p))
    BY <1>3, <2>3, FS_Subset
  <2>5. QED
    BY <1>3, <2>4
<1>7. QED
  BY <1>3, <1>5, <1>6

\* A call takes as many pages as it is asked for, or all there are: the loops of
\* Pool::alloc and Region::alloc neither stop early nor go on too long.
THEOREM TakesWhatIsAsked ==
  ASSUME BitmapInv, NEW want \in Nat
  PROVE  /\ Got(want) = IF want < Cardinality(FreePages) THEN want
                        ELSE Cardinality(FreePages)
         /\ Got(want) < want => Taken(want) = FreePages
<1> DEFINE m == Cardinality(FreePages)
           R == 0 .. (m - 1)
           h == [p \in FreePages |-> Cardinality(Before(p))]
<1>1. IsFiniteSet(FreePages) /\ m \in Nat
  BY FreePagesFinite, FS_CardinalityType
<1>2. \A p \in FreePages : h[p] = Cardinality(Before(p)) /\ h[p] \in R
  BY <1>1, PageRank
<1>3. Taken(want) = {p \in FreePages : h[p] < want}
  BY <1>2 DEF Taken, Before
<1> HIDE DEF m, h
<1>4. \A a, b \in Int : IsFiniteSet(a .. b) /\ Cardinality(a .. b) = IF a > b THEN 0 ELSE b - a + 1
  BY FS_Interval
<1>5. IsFiniteSet(R) /\ Cardinality(R) = m
  <2>1. 0 \in Int /\ m - 1 \in Int
    BY <1>1
  <2>2. QED
    BY <1>1, <1>4, <2>1
<1>6. \A p, q \in FreePages : h[p] = h[q] => p = q
  <2>1. ASSUME NEW p \in FreePages, NEW q \in FreePages, h[p] = h[q], p # q PROVE FALSE
    <3>1. h[p] \in Int /\ h[q] \in Int /\ (h[p] < h[q] \/ h[q] < h[p])
      BY <1>2, <2>1, FreePagesOrdered, PageRank
    <3>2. QED
      BY <2>1, <3>1
  <2>2. QED
    BY <2>1
<1>7. h \in Injection(FreePages, R)
  <2>1. h \in [FreePages -> R]
    BY <1>2 DEF h
  <2> HIDE DEF R
  <2>2. QED
    BY <1>6, <2>1, Zenon DEF Injection, IsInjective
<1>8. h \in Surjection(FreePages, R)
  <2> HIDE DEF R
  <2>1. QED
    BY <1>1, <1>5, <1>7, FS_Injection DEF m
<1>9. \A n \in R : \E p \in FreePages : h[p] = n
  BY <1>8 DEF Surjection
<1>10. CASE want < m
  <2> DEFINE W == 0 .. (want - 1)
             k == [p \in Taken(want) |-> h[p]]
  <2>1. IsFiniteSet(W) /\ Cardinality(W) = want
    <3>1. 0 \in Int /\ want - 1 \in Int
      OBVIOUS
    <3>2. QED
      BY <1>4, <3>1
  <2>2. \A n \in W : \E p \in Taken(want) : h[p] = n
    BY <1>1, <1>3, <1>9, <1>10
  <2>3. k \in [Taken(want) -> W]
    BY <1>2, <1>3
  <2>4. \A p, q \in Taken(want) : k[p] = k[q] => p = q
    BY <1>3, <1>6
  <2>5. \A n \in W : \E p \in Taken(want) : k[p] = n
    BY <2>2
  <2> HIDE DEF W, k
  <2>6. k \in Injection(Taken(want), W) /\ k \in Surjection(Taken(want), W)
    BY <2>3, <2>4, <2>5, Zenon DEF Injection, Surjection, IsInjective
  <2>7. IsFiniteSet(Taken(want))
    BY <1>1, <1>3, FS_Subset
  <2>8. Cardinality(Taken(want)) = Cardinality(W)
    BY <2>6, <2>7, FS_Surjection
  <2>9. QED
    BY <1>10, <2>1, <2>8 DEF Got, m
<1>11. CASE ~(want < m)
  <2>1. Taken(want) = FreePages
    BY <1>1, <1>2, <1>3, <1>11
  <2>2. QED
    BY <1>11, <2>1 DEF Got, m
<1>12. QED
  BY <1>10, <1>11

-----------------------------------------------------------------------------
(* The inductive invariant holds.                                          *)

\* Before any range is added, the invariant holds.
LEMMA InitIInv == Init => IInv
<1> SUFFICES ASSUME Init PROVE IInv
  OBVIOUS
<1>1. BitmapInv
  BY DEF Init, PoolInit, BitmapInv, Slots, Active
<1>2. CountMatchesBitmap
  BY FS_EmptySet DEF Init, PoolInit, CountMatchesBitmap, HandedOut
<1>3. HolderInv /\ RestInv
  BY DEF Init, PoolInit, HolderInv, RestInv, NoCall
<1>4. QED
  BY <1>1, <1>2, <1>3 DEF IInv, SInv

\* AllocatePages keeps the invariant.
LEMMA AllocateStep ==
  ASSUME SInv, NEW want \in 1 .. MaxRequest, Allocate(want)
  PROVE  SInv' /\ (CountMatchesBitmap => CountMatchesBitmap')
<1>1. BitmapInv' /\ (CountMatchesBitmap => CountMatchesBitmap')
  BY AllocatePagesKeeps DEF Allocate
<1>2. ASSUME NEW f \in held'
      PROVE  f \in Nat /\ \E i \in Active' : (f - AllocBase(i) \in HandedOut(i))'
  <2>1. UNCHANGED <<added, installed>>
    BY DEF Allocate, AllocatePages
  <2>2. CASE f \in held
    <3>1. PICK i \in Active : f - AllocBase(i) \in HandedOut(i)
      BY <2>2 DEF SInv, HolderInv
    <3>2. i \in Slots
      BY DEF Active, Slots, SInv, BitmapInv
    <3>3. HandedOut(i) \subseteq HandedOut(i)'
      BY <2>1, <3>2 DEF HandedOut, Allocate, AllocatePages
    <3>4. QED
      BY <2>1, <2>2, <3>1, <3>3 DEF SInv, HolderInv, Active, AllocBase
  <2>3. CASE f \in Written(want)
    <3>1. PICK i \in Active : f - AllocBase(i) \in TakenFrom(want, i)
      BY <2>3, WrittenPages
    <3>2. i \in Slots
      BY DEF Active, Slots, SInv, BitmapInv
    <3>3. TakenFrom(want, i) \subseteq HandedOut(i)'
      BY <2>1, <3>2, OutFinite DEF HandedOut, Allocate, AllocatePages, SInv, BitmapInv
    <3>4. QED
      BY <2>1, <2>3, <3>1, <3>3, WrittenPages DEF Active, AllocBase
  <2>4. QED
    BY <2>2, <2>3 DEF Allocate
<1>3. HolderInv'
  BY <1>2 DEF HolderInv
<1>4. RestInv'
  <2>1. panicked' \in BOOLEAN
    BY DEF Allocate, AllocatePages, SInv, RestInv
  <2>2. Got(want) \in Nat
    BY FreePagesFinite, FS_Subset, FS_CardinalityType DEF Got, Taken, SInv
  <2>3. Written(want) \in SUBSET Nat
    BY WrittenPages
  <2>4. QED
    BY <2>1, <2>2, <2>3 DEF RestInv, Allocate
<1>5. QED
  BY <1>1, <1>3, <1>4 DEF SInv

\* FreePages of pages the caller holds keeps the invariant; the count as well,
\* when no page is taken for another region's.
LEMMA ReleaseStep ==
  ASSUME SInv, NEW n \in 1 .. MaxRequest, Release(n)
  PROVE  SInv' /\ (Separated /\ CountMatchesBitmap => CountMatchesBitmap')
<1>1. PICK list \in HeldLists(n) :
        /\ FreePagesOf(list)
        /\ panicked' = Astray(list)
        /\ held' = held \ {list[k] : k \in 1 .. n}
        /\ ret' = [call |-> "free", want |-> n, got |-> Freed(list), frames |-> {}]
  BY DEF Release
<1>2. UNCHANGED <<added, installed>> /\ panicked' \in BOOLEAN
  BY <1>1 DEF FreePagesOf, Astray
<1>3. BitmapInv'
  <2>1. \A i \in Slots : /\ free'[i] \subseteq installed[i]
                         /\ numAllocated'[i] \in Int
    BY <1>1, FreeSetsInstalled
  <2>2. /\ free' \in [Slots -> SUBSET Nat]
        /\ numAllocated' \in [Slots -> Int]
    BY <1>1, <2>1 DEF FreePagesOf, SInv, BitmapInv
  <2>3. QED
    BY <1>2, <2>1, <2>2 DEF SInv, BitmapInv, Active
<1>4. Separated /\ CountMatchesBitmap => CountMatchesBitmap'
  BY <1>1, FreeReturns DEF CountMatchesBitmap, IInv
<1>5. HolderInv'
  <2>1. ASSUME NEW f \in held'
        PROVE  \E i \in Active' : (f - AllocBase(i) \in HandedOut(i))'
    <3>1. f \in held /\ f \notin {list[k] : k \in 1 .. n}
      BY <1>1
    <3>2. PICK i \in Active : f - AllocBase(i) \in HandedOut(i)
      BY <3>1 DEF SInv, HolderInv
    <3>3. i \in Slots
      BY DEF Active, Slots, SInv, BitmapInv
    <3>4. f - AllocBase(i) \notin {list[k] - AllocBase(i) : k \in Hits(i, list)}
      <4>1. ASSUME NEW k \in Hits(i, list), f - AllocBase(i) = list[k] - AllocBase(i)
            PROVE  FALSE
        <5>1. k \in 1 .. n /\ list[k] \in held
          BY <4>1 DEF Hits, HeldLists
        <5>2. f \in Int /\ list[k] \in Int /\ AllocBase(i) \in Int
          <6>1. held \subseteq Nat
            BY DEF SInv, HolderInv
          <6>2. AllocBase(i) \in Int
            BY <3>3, Geometry
          <6>3. f \in Nat /\ list[k] \in Nat
            BY <3>1, <5>1, <6>1
          <6>4. QED
            BY <6>2, <6>3
        <5>3. f = list[k]
          BY <4>1, <5>2
        <5>4. QED
          BY <3>1, <5>1, <5>3
      <4>2. QED
        BY <4>1
    <3>5. f - AllocBase(i) \in HandedOut(i)'
      <4>1. /\ f - AllocBase(i) \in installed[i] /\ f - AllocBase(i) \notin free[i]
            /\ free'[i] = free[i] \cup ({list[k] - AllocBase(i) : k \in Hits(i, list)} \cap Nat)
        BY <1>1, <3>2, <3>3 DEF HandedOut, FreePagesOf, FreeInto
      <4>2. QED
        BY <1>2, <3>4, <4>1 DEF HandedOut
    <3>6. QED
      BY <1>2, <3>2, <3>5 DEF Active, AllocBase
  <2>2. held' \subseteq Nat
    BY <1>1 DEF SInv, HolderInv
  <2>3. QED
    BY <2>1, <2>2 DEF HolderInv
<1>6. RestInv'
  <2>1. Freed(list) \in Nat
    <3>1. \A i \in Slots : Hits(i, list) \subseteq 1 .. n
      BY DEF Hits, HeldLists
    <3>2. UNION {Hits(i, list) : i \in Slots} \subseteq 1 .. n
      BY <3>1
    <3>3. IsFiniteSet(1 .. n)
      BY FS_Interval, RequestAssumption
    <3>4. IsFiniteSet(UNION {Hits(i, list) : i \in Slots})
      BY <3>2, <3>3, FS_Subset
    <3>5. QED
      BY <3>4, FS_CardinalityType DEF Freed
  <2>2. QED
    BY <1>1, <1>2, <2>1 DEF RestInv
<1>7. QED
  BY <1>3, <1>4, <1>5, <1>6 DEF SInv

\* AddRegion keeps the invariant, whatever the stray bits are.
LEMMA GrowStep ==
  ASSUME SInv, Grow
  PROVE  SInv' /\ (CountMatchesBitmap => CountMatchesBitmap')
<1> DEFINE m == added + 1
<1>1. m \in Slots /\ added' = m /\ added \in Nat
  BY DEF Grow, AddRegion, Slots, SInv, BitmapInv
<1>2. PICK stray \in SUBSET StrayBits(m) :
        LET bits == (WrittenBits(m) \cap ScannedBits(m)) \cup stray
        IN  /\ free' = [free EXCEPT ![m] = bits]
            /\ installed' = [installed EXCEPT ![m] = bits]
  BY DEF Grow, AddRegion
<1>3. installed[m] = {} /\ free[m] = {} /\ numAllocated' = [numAllocated EXCEPT ![m] = 0]
  BY <1>1 DEF SInv, BitmapInv, Grow, AddRegion
<1>4. PICK bits \in SUBSET ScannedBits(m) :
        /\ free' = [free EXCEPT ![m] = bits]
        /\ installed' = [installed EXCEPT ![m] = bits]
        /\ WrittenBits(m) \cap ScannedBits(m) \subseteq bits
  BY <1>2 DEF StrayBits
<1>5. ScannedBits(m) \subseteq Nat
  BY <1>1, Geometry DEF ScannedBits
<1>6. BitmapInv'
  <2>1. added' \in 0 .. Len(MemoryMap)
    BY <1>1 DEF Slots
  <2>2. /\ free' \in [Slots -> SUBSET Nat]
        /\ installed' \in [Slots -> SUBSET Nat]
        /\ numAllocated' \in [Slots -> Int]
    BY <1>1, <1>3, <1>4, <1>5 DEF SInv, BitmapInv
  <2>3. ASSUME NEW i \in Slots
        PROVE  /\ free'[i] \subseteq installed'[i]
               /\ installed'[i] \subseteq ScannedBits(i)
               /\ i > added' => installed'[i] = {}
    <3>1. CASE i = m
      BY <1>1, <1>4, <3>1 DEF SInv, BitmapInv
    <3>2. CASE i # m
      <4>1. free'[i] = free[i] /\ installed'[i] = installed[i]
        BY <1>4, <3>2 DEF SInv, BitmapInv
      <4>2. i > added' => i > added
        BY <1>1 DEF Slots
      <4>3. QED
        BY <4>1, <4>2 DEF SInv, BitmapInv
    <3>3. QED
      BY <3>1, <3>2
  <2>4. ASSUME NEW i \in Active'
        PROVE  /\ MemoryMap[i].numPages > 0
               /\ WrittenBits(i) \cap ScannedBits(i) \subseteq installed'[i]
    <3>1. i \in Slots /\ (i = m \/ i \in Active)
      BY <1>1, <2>4 DEF Active, Slots
    <3>2. CASE i = m
      <4>1. MemoryMap[m].numPages > 0
        BY DEF Grow, AddRegion, CanAdd
      <4>2. installed'[m] = bits
        BY <1>1, <1>4 DEF SInv, BitmapInv
      <4>3. QED
        BY <1>4, <3>2, <4>1, <4>2
    <3>3. CASE i # m /\ i \in Active
      <4>1. installed'[i] = installed[i]
        BY <1>4, <3>1, <3>3 DEF SInv, BitmapInv
      <4>2. QED
        BY <3>3, <4>1 DEF SInv, BitmapInv
    <3>4. QED
      BY <3>1, <3>2, <3>3
  <2>5. QED
    BY <2>1, <2>2, <2>3, <2>4 DEF BitmapInv
<1>7. ASSUME NEW i \in Slots
      PROVE  /\ CountMatchesBitmap => numAllocated'[i] = Cardinality(HandedOut(i)')
             /\ HandedOut(i) \subseteq HandedOut(i)'
  <2>1. CASE i = m
    <3>1. HandedOut(i)' = {} /\ HandedOut(i) = {} /\ numAllocated'[i] = 0
      BY <1>1, <1>3, <1>4, <2>1 DEF HandedOut, SInv, BitmapInv
    <3>2. QED
      BY <3>1, FS_EmptySet
  <2>2. CASE i # m
    <3>1. HandedOut(i)' = HandedOut(i) /\ numAllocated'[i] = numAllocated[i]
      BY <1>3, <1>4, <2>2 DEF HandedOut, SInv, BitmapInv
    <3>2. QED
      BY <3>1 DEF CountMatchesBitmap
  <2>3. QED
    BY <2>1, <2>2
<1>8. HolderInv'
  <2>1. held' = held
    BY DEF Grow
  <2>2. ASSUME NEW f \in held
        PROVE  \E i \in Active' : (f - AllocBase(i) \in HandedOut(i))'
    <3>1. PICK i \in Active : f - AllocBase(i) \in HandedOut(i)
      BY DEF SInv, HolderInv
    <3>2. i \in Slots /\ i \in Active'
      BY <1>1 DEF Active, Slots, SInv, BitmapInv
    <3>3. f - AllocBase(i) \in HandedOut(i)'
      BY <1>7, <3>1, <3>2
    <3>4. QED
      BY <3>2, <3>3 DEF AllocBase
  <2>3. QED
    BY <2>1, <2>2 DEF SInv, HolderInv
<1>9. RestInv'
  <2>1. panicked' = panicked /\ ret' = NoCall
    BY DEF Grow, AddRegion
  <2>2. panicked \in BOOLEAN
    BY DEF SInv, RestInv
  <2>3. ret' \in [call : {"none", "alloc", "free"}, want : Nat, got : Nat,
                  frames : SUBSET Nat]
    BY <2>1 DEF NoCall
  <2>4. QED
    BY <2>1, <2>2, <2>3 DEF RestInv
<1>10. QED
  BY <1>6, <1>7, <1>8, <1>9 DEF SInv, CountMatchesBitmap

\* So do an AddRegion that panics and a step of something else.
LEMMA StutterStep ==
  ASSUME SInv, GrowPanics \/ UNCHANGED vars
  PROVE  SInv' /\ (CountMatchesBitmap => CountMatchesBitmap')
<1>1. UNCHANGED <<added, free, numAllocated, installed, held>>
  BY DEF GrowPanics, AddRegionPanics, vars
<1>2. RestInv'
  <2>1. /\ panicked' = TRUE \/ panicked' = panicked
        /\ ret' = NoCall \/ ret' = ret
    BY DEF GrowPanics, AddRegionPanics, vars
  <2>2. panicked' \in BOOLEAN
    BY <2>1 DEF SInv, RestInv
  <2>3. ret' \in [call : {"none", "alloc", "free"}, want : Nat, got : Nat,
                  frames : SUBSET Nat]
    BY <2>1 DEF SInv, RestInv, NoCall
  <2>4. QED
    BY <2>2, <2>3 DEF RestInv
<1>3. QED
  BY <1>1, <1>2 DEF SInv, BitmapInv, CountMatchesBitmap, HandedOut, HolderInv,
     Active, AllocBase

\* The first part of the invariant holds for every map, and the count joins it
\* for maps with separated regions.
LEMMA StepKeeps ==
  ASSUME SInv, [Next]_vars
  PROVE  SInv' /\ (Separated /\ CountMatchesBitmap => CountMatchesBitmap')
<1>1. CASE Grow
  BY <1>1, GrowStep
<1>2. CASE GrowPanics \/ UNCHANGED vars
  BY <1>2, StutterStep
<1>3. ASSUME NEW n \in 1 .. MaxRequest, Allocate(n)
      PROVE  SInv' /\ (CountMatchesBitmap => CountMatchesBitmap')
  BY <1>3, AllocateStep
<1>4. ASSUME NEW n \in 1 .. MaxRequest, Release(n)
      PROVE  SInv' /\ (Separated /\ CountMatchesBitmap => CountMatchesBitmap')
  BY <1>4, ReleaseStep
<1>5. QED
  BY <1>1, <1>2, <1>3, <1>4 DEF Next

THEOREM SInvHolds == Spec => []SInv
<1>1. Init => SInv
  BY InitIInv DEF IInv
<1>2. SInv /\ [Next]_vars => SInv'
  BY StepKeeps
<1>3. QED
  BY <1>1, <1>2, PTL DEF Spec

THEOREM IInvHolds ==
  ASSUME Separated
  PROVE  Spec => []IInv
<1>1. Init => IInv
  BY InitIInv
<1>2. IInv /\ [Next]_vars => IInv'
  BY StepKeeps DEF IInv
<1>3. QED
  BY <1>1, <1>2, PTL DEF Spec

-----------------------------------------------------------------------------
(* Results.                                                                *)

\* The variables keep their types, when the regions are separated; in particular
\* numAllocated, a size_t in the code, never goes below zero.  With stray bits in a
\* neighbour's pages it can: the page is freed into the region that did not give it.
THEOREM TypeCorrect ==
  ASSUME Separated
  PROVE  Spec => []TypeOK
<1>1. IInv => TypeOK
  <2> SUFFICES ASSUME IInv PROVE TypeOK
    OBVIOUS
  <2>1. \A i \in Slots : numAllocated[i] \in Nat
    BY OutFinite, FS_CardinalityType DEF IInv, SInv, CountMatchesBitmap
  <2>2. QED
    BY <2>1 DEF IInv, SInv, BitmapInv, HolderInv, RestInv, TypeOK, PoolTypeOK
<1>2. QED
  BY <1>1, IInvHolds, PTL

\* GetAllocPages adds up the pages that are really out, after any sequence of
\* calls, for every memory map with separated regions.
THEOREM CountCorrect ==
  ASSUME Separated
  PROVE  Spec => []CountMatchesBitmap
<1>1. IInv => CountMatchesBitmap
  BY DEF IInv
<1>2. QED
  BY <1>1, IInvHolds, PTL

\* For any ranges that do not overlap, a page that a caller holds cannot be handed
\* to a second one but by a bit past the end of a region: stray bits are the only
\* way to a page with two owners.
THEOREM NoDoubleGrant ==
  ASSUME RangesApart
  PROVE  Spec => []HeldPagesAreTaken
<1>1. SInv => HeldPagesAreTaken
  <2> SUFFICES ASSUME SInv, NEW f \in held
               PROVE  \E i \in Active :
                        /\ f - AllocBase(i) \in HandedOut(i)
                        /\ \A j \in Slots : f - AllocBase(j) \in free[j] =>
                             f \notin PagesOf(i) \/ f \notin PagesOf(j)
    BY DEF HeldPagesAreTaken
  <2>1. PICK i \in Active : f - AllocBase(i) \in HandedOut(i)
    BY DEF SInv, HolderInv
  <2>2. i \in Slots
    BY DEF Active, Slots, SInv, BitmapInv
  <2>3. ASSUME NEW j \in Slots, f - AllocBase(j) \in free[j],
               f \in PagesOf(i), f \in PagesOf(j)
        PROVE  FALSE
    <3>1. i = j
      BY <2>2, <2>3 DEF RangesApart
    <3>2. QED
      BY <2>1, <2>3, <3>1 DEF HandedOut
  <2>4. QED
    BY <2>1, <2>3
<1>2. QED
  BY <1>1, SInvHolds, PTL

\* A caller that gets fewer pages than it asked for has been given the last one:
\* there is no page in any region that it could have had.
THEOREM ShortIsEmpty == Spec => []ShortOnlyWhenEmpty
<1>1. Init => ShortOnlyWhenEmpty
  BY DEF Init, NoCall, ShortOnlyWhenEmpty
<1>2. SInv /\ ShortOnlyWhenEmpty /\ [Next]_vars => ShortOnlyWhenEmpty'
  <2> SUFFICES ASSUME SInv, ShortOnlyWhenEmpty, [Next]_vars PROVE ShortOnlyWhenEmpty'
    OBVIOUS
  <2>1. CASE Grow \/ GrowPanics
    BY <2>1 DEF Grow, GrowPanics, NoCall, ShortOnlyWhenEmpty
  <2>2. ASSUME NEW want \in 1 .. MaxRequest, Allocate(want)
        PROVE  ShortOnlyWhenEmpty'
    <3>1. /\ ret'.want = want /\ ret'.got = Got(want)
          /\ free' = [i \in Slots |-> free[i] \ TakenFrom(want, i)]
      BY <2>2 DEF Allocate, AllocatePages
    <3>2. want \in Nat
      BY RequestAssumption
    <3>3. ASSUME Got(want) < want, NEW i \in Slots PROVE free'[i] = {}
      <4>1. Taken(want) = FreePages
        BY <3>2, <3>3, TakesWhatIsAsked DEF SInv
      <4>2. \A b \in free[i] : <<i, b>> \in FreePages
        BY DEF FreePages
      <4>3. TakenFrom(want, i) = free[i]
        BY <4>1, <4>2 DEF TakenFrom
      <4>4. QED
        BY <3>1, <4>3
    <3>4. QED
      BY <3>1, <3>3 DEF ShortOnlyWhenEmpty
  <2>3. ASSUME NEW n \in 1 .. MaxRequest, Release(n)
        PROVE  ShortOnlyWhenEmpty'
    BY <2>3 DEF Release, ShortOnlyWhenEmpty
  <2>4. CASE UNCHANGED vars
    BY <2>4 DEF vars, ShortOnlyWhenEmpty
  <2>5. QED
    BY <2>1, <2>2, <2>3, <2>4 DEF Next
<1>3. QED
  BY <1>1, <1>2, SInvHolds, PTL DEF Spec

\* Dividing a whole number of words, and rounding it up.
LEMMA WholeWords ==
  ASSUME NEW w \in Nat \ {0}, NEW n \in Nat
  PROVE  CeilDiv(n * w, w) * w = n * w /\ (n * w) % w = 0
<1>1. n * w + (w - 1) = w * n + (w - 1) /\ w - 1 \in 0 .. (w - 1)
  OBVIOUS
<1>2. (w * n + (w - 1)) \div w = n
  OBVIOUS
<1>3. n * w = w * n + 0 /\ 0 \in 0 .. (w - 1)
  OBVIOUS
<1>4. (w * n + 0) % w = 0
  OBVIOUS
<1>5. QED
  BY <1>1, <1>2, <1>3, <1>4 DEF CeilDiv

LEMMA NoRemainder ==
  ASSUME NEW w \in Nat \ {0}, NEW z \in Nat, z % w = 0
  PROVE  \E n \in Nat : z = n * w
<1>1. w \in Int /\ w > 0 /\ z \in Int
  OBVIOUS
<1>2. z \div w \in Int /\ z = w * (z \div w) + (z % w)
  BY <1>1, Divided
<1>3. PICK q \in Int : z = w * q + 0
  BY <1>2
<1>4. q * w = w * q /\ w * q \in Int
  BY <1>1
<1>5. z = q * w
  BY <1>3, <1>4
<1>6. q \in Nat
  <2>1. ASSUME q < 0 PROVE FALSE
    <3>1. (0 - q) * w > 0 /\ (0 - q) * w = 0 - q * w
      BY <2>1
    <3>2. QED
      BY <1>5, <3>1
  <2>2. QED
    BY <2>1
<1>7. QED
  BY <1>5, <1>6

\* A region that was added keeps at least one page for its bitmap and no more
\* than it has.
LEMMA RegionHasBitmap ==
  ASSUME BitmapInv, NEW i \in Active
  PROVE  /\ i \in Slots /\ BitmapSize(i) \in Nat
         /\ BitmapSize(i) < MemoryMap[i].numPages
<1>1. i \in Slots /\ MemoryMap[i].numPages > 0
  BY DEF BitmapInv, Active, Slots
<1>2. \A a \in Nat \ {0}, b \in Nat \ {0} :
         CeilDiv(a, b) \in Nat \ {0} /\ CeilDiv(a, b) <= a
  <2> SUFFICES ASSUME NEW a \in Nat \ {0}, NEW b \in Nat \ {0}
               PROVE  CeilDiv(a, b) \in Nat \ {0} /\ CeilDiv(a, b) <= a
    OBVIOUS
  <2> DEFINE q == CeilDiv(a, b)
  <2>1. q \in Int /\ a <= q * b /\ q * b < a + b
    BY CeilDivBounds
  <2> HIDE DEF q
  <2>2. q > 0
    <3>1. ASSUME q <= 0 PROVE FALSE
      <4>1. (0 - q) * b >= 0
        BY <2>1, <3>1
      <4>2. (0 - q) * b = 0 - q * b
        BY <2>1
      <4>3. QED
        BY <2>1, <4>1, <4>2
    <3>2. QED
      BY <2>1, <3>1
  <2>3. q <= a
    <3>1. ASSUME q > a PROVE FALSE
      <4>1. (q - a - 1) * b >= 0 /\ (q - a - 1) * b = q * b - a * b - b
        BY <2>1, <3>1
      <4>2. a * b >= a
        <5>1. a * (b - 1) >= 0 /\ a * (b - 1) = a * b - a
          OBVIOUS
        <5>2. QED
          BY <5>1
      <4>3. QED
        BY <2>1, <4>1, <4>2
    <3>2. QED
      BY <2>1, <3>1
  <2>4. QED
    BY <2>1, <2>2, <2>3 DEF q
<1>3. MemoryMap[i].numPages \in Nat \ {0}
  BY <1>1, Geometry
<1>4. BitmapBytes(i) \in Nat \ {0} /\ BitmapBytes(i) <= MemoryMap[i].numPages
  BY <1>2, <1>3, SizesAssumption DEF BitmapBytes
<1>5. BitmapPages(i) \in Nat \ {0} /\ BitmapPages(i) <= BitmapBytes(i)
  BY <1>2, <1>4, SizesAssumption DEF BitmapPages
<1>6. QED
  BY <1>1, <1>3, <1>4, <1>5 DEF BitmapSize

\* A region offers pages past its end exactly if the pages it has to offer do not
\* fill its last word, and then fewer than a word of them.
RegionsOverrun ==
  \A i \in Active :
    /\ installed[i] \subseteq 0 .. (BitmapSize(i) + BitsPerWord - 2)
    /\ installed[i] \subseteq 0 .. (BitmapSize(i) - 1) <=> BitmapSize(i) % BitsPerWord = 0

\* Region::alloc hands out pages beyond the range it was made of for every size of a
\* region but those whose bitmap ends with a word, for any map and any memory.
THEOREM OverrunUnlessWhole == Spec => []RegionsOverrun
<1>1. ASSUME SInv, NEW i \in Active
      PROVE  /\ installed[i] \subseteq 0 .. (BitmapSize(i) + BitsPerWord - 2)
             /\ installed[i] \subseteq 0 .. (BitmapSize(i) - 1)
                  <=> BitmapSize(i) % BitsPerWord = 0
  <2> DEFINE z == BitmapSize(i)
             w == BitsPerWord
             l == ScanLimit(i)
             y == BitmapBytes(i) * BitsPerByte
  <2>1. i \in Slots /\ z \in Nat /\ z < MemoryMap[i].numPages
    BY <1>1, RegionHasBitmap DEF SInv
  <2>2. /\ w \in Nat \ {0} /\ l \in Int /\ z <= l /\ l < z + w /\ y \in Int
        /\ MemoryMap[i].numPages \in Nat /\ MemoryMap[i].numPages <= y
    BY <2>1, Geometry, Sizes, SizesAssumption
  <2>3. installed[i] \subseteq 0 .. (l - 1)
    BY <1>1, <2>1 DEF SInv, BitmapInv, ScannedBits
  <2>4. installed[i] \subseteq 0 .. (z + w - 2)
    <3> HIDE DEF z, w, l, y
    <3>1. QED
      BY <2>1, <2>2, <2>3
  <2>5. ASSUME z % w = 0 PROVE l = z
    <3>1. PICK n \in Nat : z = n * w
      <4> HIDE DEF z, w
      <4>1. QED
        BY <2>1, <2>2, <2>5, NoRemainder
    <3>2. l = CeilDiv(z, w) * w
      BY DEF ScanLimit
    <3> HIDE DEF z, w, l
    <3>3. QED
      BY <2>2, <3>1, <3>2, WholeWords
  <2>6. ASSUME l = z PROVE z % w = 0
    <3> DEFINE n == CeilDiv(z, w)
    <3>1. z = n * w /\ n \in Nat
      BY <2>1, <2>2, <2>6, CeilDivNat DEF ScanLimit
    <3> HIDE DEF n, z, w, l
    <3>2. QED
      BY <2>2, <3>1, WholeWords
  <2>7. ASSUME z < l PROVE z \in installed[i]
    <3>1. z \in WrittenBits(i) \cap ScannedBits(i)
      <4> HIDE DEF z, w, l, y
      <4>1. z \in 0 .. (y - 1) /\ z \in 0 .. (l - 1)
        BY <2>1, <2>2, <2>7
      <4>2. QED
        BY <4>1 DEF WrittenBits, ScannedBits, l, y
    <3>2. QED
      BY <1>1, <3>1 DEF SInv, BitmapInv
  <2>8. installed[i] \subseteq 0 .. (z - 1) <=> z % w = 0
    <3> HIDE DEF z, w, l, y
    <3>1. ASSUME installed[i] \subseteq 0 .. (z - 1) PROVE l = z
      <4>1. z \notin 0 .. (z - 1)
        BY <2>1
      <4>2. ~(z < l)
        BY <2>7, <3>1, <4>1
      <4>3. QED
        BY <2>1, <2>2, <4>2
    <3>2. QED
      BY <2>3, <2>5, <2>6, <3>1
  <2>9. QED
    BY <2>4, <2>8
<1>2. SInv => RegionsOverrun
  BY <1>1 DEF RegionsOverrun
<1>3. QED
  BY <1>2, SInvHolds, PTL

-----------------------------------------------------------------------------
(* The refinement of PageOwners, for any number of separated regions.       *)

LEMMA OwnersCardinality ==
  ASSUME NEW S
  PROVE  Owners!Cardinality(S) = Cardinality(S)
BY Zenon DEF Owners!Cardinality, Cardinality

Place == [f \in Machine |-> PlaceOf(f)]

\* A frame of region i's bank stands for a scanned bit of no other region.
LEMMA BankApart ==
  ASSUME Separated, NEW i \in Slots, NEW f \in Bank(i)
  PROVE  /\ f \in Nat /\ f \in Machine /\ f \in Window(i)
         /\ \A j \in Slots : f - AllocBase(j) \in ScannedBits(j) => j = i
         /\ \A j \in Slots : f \in Window(j) => j = i
<1>1. /\ MemoryMap[i].base \in Nat /\ AllocBase(i) \in Nat /\ ScanLimit(i) \in Int
      /\ f \in MemoryMap[i].base .. (AllocBase(i) + ScanLimit(i) - 1)
  BY Geometry DEF Bank
<1>2. f \in Nat /\ f >= MemoryMap[i].base /\ f < AllocBase(i) + ScanLimit(i)
  BY <1>1
<1>3. f \in Window(i)
  BY <1>2 DEF Window
<1>4. \A j \in Slots : f \in Window(j) => j = i
  BY <1>3, OneWindow
<1>5. \A j \in Slots : f - AllocBase(j) \in ScannedBits(j) => f \in Window(j)
  BY <1>2, BitInWindow
<1>6. QED
  BY <1>2, <1>3, <1>4, <1>5 DEF Machine

\* A scanned bit of a region stands for a frame of its bank.
LEMMA BitInBank ==
  ASSUME NEW i \in Slots, NEW f \in Int, f - AllocBase(i) \in ScannedBits(i)
  PROVE  f \in Bank(i) /\ f \in Machine
<1>1. /\ MemoryMap[i].base \in Nat /\ AllocBase(i) \in Nat /\ ScanLimit(i) \in Int
      /\ AllocBase(i) >= MemoryMap[i].base
  BY Geometry
<1>2. f - AllocBase(i) >= 0 /\ f - AllocBase(i) <= ScanLimit(i) - 1
  BY <1>1 DEF ScannedBits
<1>3. f \in Bank(i)
  BY <1>1, <1>2 DEF Bank
<1>4. QED
  BY <1>3 DEF Machine

LEMMA FrameInBank ==
  ASSUME NEW i \in Slots, NEW b \in Nat, b \in ScannedBits(i)
  PROVE  AllocBase(i) + b \in Bank(i)
<1>1. /\ MemoryMap[i].base \in Nat /\ AllocBase(i) \in Nat /\ ScanLimit(i) \in Int
      /\ AllocBase(i) >= MemoryMap[i].base /\ b <= ScanLimit(i) - 1
  BY Geometry DEF ScannedBits
<1>2. QED
  BY <1>1 DEF Bank

\* Of the bits in any table of scanned bits, only its own region's is a frame's.
LEMMA OwnBit ==
  ASSUME Separated, NEW i \in Slots, NEW f \in Bank(i), NEW bits,
         \A j \in Slots : bits[j] \subseteq ScannedBits(j)
  PROVE  (\E j \in Slots : f - FirstFrame[j] \in bits[j]) <=> f - AllocBase(i) \in bits[i]
<1>1. \A j \in Slots : FirstFrame[j] = AllocBase(j)
  BY DEF FirstFrame
<1>2. \A j \in Slots : f - AllocBase(j) \in bits[j] => j = i
  BY BankApart
<1>3. QED
  BY <1>1, <1>2

\* Where a frame is can be read off its own region's bits.
LEMMA PlaceValue ==
  ASSUME Separated, BitmapInv, BitmapInv', NEW i \in Slots, NEW f \in Bank(i)
  PROVE  LET b == f - AllocBase(i)
         IN  /\ Place[f] = IF f \in held THEN "owned" ELSE IF b \in free[i] THEN "avail"
                           ELSE IF b \in installed[i] THEN "lost" ELSE "absent"
             /\ Place'[f] = IF f \in held' THEN "owned" ELSE IF b \in free'[i] THEN "avail"
                            ELSE IF b \in installed'[i] THEN "lost" ELSE "absent"
<1>1. f \in Machine
  BY BankApart
<1>2. \A j \in Slots : /\ free[j] \subseteq ScannedBits(j)
                       /\ installed[j] \subseteq ScannedBits(j)
  BY DEF BitmapInv
<1>3. \A j \in Slots : /\ free'[j] \subseteq ScannedBits(j)
                       /\ installed'[j] \subseteq ScannedBits(j)
  BY DEF BitmapInv
<1>4. /\ (\E j \in Slots : f - FirstFrame[j] \in free[j]) <=> f - AllocBase(i) \in free[i]
      /\ (\E j \in Slots : f - FirstFrame[j] \in installed[j])
           <=> f - AllocBase(i) \in installed[i]
  BY <1>2, OwnBit
<1>5. /\ (\E j \in Slots : f - FirstFrame[j] \in free'[j]) <=> f - AllocBase(i) \in free'[i]
      /\ (\E j \in Slots : f - FirstFrame[j] \in installed'[j])
           <=> f - AllocBase(i) \in installed'[i]
  BY <1>3, OwnBit
<1>6. Place[f] = PlaceOf(f) /\ Place'[f] = PlaceOf(f)'
  BY <1>1 DEF Place
<1>7. QED
  BY <1>4, <1>5, <1>6 DEF PlaceOf

\* A page that is held is of one region's bank, and its bit is handed out.
LEMMA HeldInBank ==
  ASSUME SInv, NEW f \in held
  PROVE  \E i \in Active : /\ i \in Slots /\ f \in Bank(i) /\ f \in Machine /\ f \in Nat
                           /\ f - AllocBase(i) \in installed[i]
                           /\ f - AllocBase(i) \notin free[i]
<1>1. PICK i \in Active : f - AllocBase(i) \in HandedOut(i)
  BY DEF SInv, HolderInv
<1>2. i \in Slots /\ f \in Nat
  BY DEF Active, Slots, SInv, BitmapInv, HolderInv
<1>3. f - AllocBase(i) \in ScannedBits(i)
  BY <1>1, <1>2 DEF HandedOut, SInv, BitmapInv
<1>4. f \in Bank(i) /\ f \in Machine
  BY <1>2, <1>3, BitInBank
<1>5. QED
  BY <1>1, <1>2, <1>4 DEF HandedOut

\* A frame of region i's bank that is held has region i's bit handed out.
LEMMA HeldOfBank ==
  ASSUME Separated, SInv, NEW i \in Slots, NEW f \in Bank(i), f \in held
  PROVE  /\ i \in Active /\ f - AllocBase(i) \in installed[i]
         /\ f - AllocBase(i) \notin free[i]
<1>1. PICK j \in Active : /\ j \in Slots /\ f \in Bank(j)
                          /\ f - AllocBase(j) \in installed[j]
                          /\ f - AllocBase(j) \notin free[j]
  BY HeldInBank
<1>2. f \in Window(j) /\ f \in Window(i)
  BY <1>1, BankApart
<1>3. i = j
  BY <1>1, <1>2, OneWindow
<1>4. QED
  BY <1>1, <1>3

\* The frames of the pages a call takes.
TakenFrames(want) == {Frame(p[1], p[2]) : p \in Taken(want)}

\* A page taken is a region and one of its free bits.
LEMMA TakenPairs ==
  ASSUME SInv, NEW want, NEW p \in Taken(want)
  PROVE  /\ p[1] \in Slots /\ p[2] \in TakenFrom(want, p[1]) /\ p[2] \in free[p[1]]
         /\ p[2] \in ScannedBits(p[1]) /\ p[2] \in Nat /\ p = <<p[1], p[2]>>
<1>1. PICK i \in Slots : p \in {i} \X free[i]
  BY DEF Taken, FreePages
<1>2. p = <<i, p[2]>> /\ p[2] \in free[i] /\ p[1] = i
  BY <1>1
<1>3. p[2] \in ScannedBits(i) /\ p[2] \in Nat
  BY <1>2 DEF SInv, BitmapInv
<1>4. <<i, p[2]>> \in Taken(want)
  BY <1>2
<1>5. p[2] \in TakenFrom(want, i)
  BY <1>2, <1>4 DEF TakenFrom
<1>6. QED
  BY <1>1, <1>2, <1>3, <1>5

\* A frame of region i's bank is taken if its bit in region i is.
LEMMA TakenOfBank ==
  ASSUME Separated, SInv, NEW want, NEW i \in Slots, NEW f \in Bank(i)
  PROVE  f \in TakenFrames(want) <=> f - AllocBase(i) \in TakenFrom(want, i)
<1>1. f \in Nat /\ \A j \in Slots : f - AllocBase(j) \in ScannedBits(j) => j = i
  BY BankApart
<1>2. \A j \in Slots : AllocBase(j) \in Nat
  BY Geometry
<1>3. ASSUME f \in TakenFrames(want) PROVE f - AllocBase(i) \in TakenFrom(want, i)
  <2>1. PICK p \in Taken(want) : f = Frame(p[1], p[2])
    BY <1>3 DEF TakenFrames
  <2>2. PICK j \in Slots, b \in Nat : /\ p[1] = j /\ p[2] = b
                                      /\ b \in TakenFrom(want, j) /\ b \in ScannedBits(j)
    BY TakenPairs
  <2>3. f = AllocBase(j) + b
    BY <2>1, <2>2 DEF Frame
  <2>4. f - AllocBase(j) = b
    BY <1>2, <2>3
  <2>5. QED
    BY <1>1, <2>2, <2>4
<1>4. ASSUME f - AllocBase(i) \in TakenFrom(want, i) PROVE f \in TakenFrames(want)
  <2>1. PICK b : b = f - AllocBase(i) /\ <<i, b>> \in Taken(want)
    BY <1>4 DEF TakenFrom
  <2>2. f = AllocBase(i) + b
    BY <1>1, <1>2, <2>1
  <2>3. f = Frame(<<i, b>>[1], <<i, b>>[2])
    BY <2>2 DEF Frame
  <2>4. QED
    BY <2>1, <2>3 DEF TakenFrames
<1>5. QED
  BY <1>3, <1>4

\* As many frames are taken as pages, and all are of the machine; those that the
\* call reports are among them.
LEMMA TakenCount ==
  ASSUME Separated, SInv, NEW want
  PROVE  /\ IsFiniteSet(TakenFrames(want)) /\ Cardinality(TakenFrames(want)) = Got(want)
         /\ \A f \in TakenFrames(want) : \E i \in Slots : f \in Bank(i)
         /\ Written(want) \subseteq TakenFrames(want)
<1> DEFINE A == Taken(want)
           W == TakenFrames(want)
           k == [p \in A |-> Frame(p[1], p[2])]
<1>1. ASSUME NEW p \in A
      PROVE  /\ p[1] \in Slots /\ Frame(p[1], p[2]) \in Bank(p[1])
             /\ p[2] = Frame(p[1], p[2]) - AllocBase(p[1]) /\ p = <<p[1], p[2]>>
  <2>1. PICK j \in Slots, b \in Nat : /\ p[1] = j /\ p[2] = b /\ b \in ScannedBits(j)
                                      /\ p = <<p[1], p[2]>>
    BY TakenPairs
  <2>2. Frame(p[1], p[2]) = AllocBase(j) + b /\ AllocBase(j) \in Nat
    BY <2>1, Geometry DEF Frame
  <2>3. AllocBase(j) + b \in Int /\ AllocBase(j) + b - AllocBase(j) = b
    BY <2>2
  <2>4. AllocBase(j) + b \in Bank(j)
    BY <2>1, FrameInBank
  <2>5. QED
    BY <2>1, <2>2, <2>3, <2>4
<1>2. k \in [A -> W] /\ \A f \in W : \E p \in A : k[p] = f
  BY DEF TakenFrames
<1>3. ASSUME NEW p \in A, NEW q \in A, k[p] = k[q] PROVE p = q
  <2>1. Frame(p[1], p[2]) = Frame(q[1], q[2])
    BY <1>3
  <2>2. p[1] = q[1]
    <3>1. /\ Frame(p[1], p[2]) \in Window(p[1])
          /\ Frame(p[1], p[2]) \in Window(q[1])
      BY <1>1, <2>1, BankApart
    <3>2. QED
      BY <1>1, <3>1, OneWindow
  <2>3. p[2] = q[2]
    BY <1>1, <2>1, <2>2
  <2>4. QED
    BY <1>1, <2>2, <2>3
<1>4. IsFiniteSet(A)
  BY FreePagesFinite, FS_Subset DEF SInv, Taken
<1>5. \A f \in W : \E i \in Slots : f \in Bank(i)
  BY <1>1 DEF TakenFrames
<1>6. Written(want) \subseteq W
  BY DEF Written, Surviving, TakenFrames
<1> HIDE DEF k, W, A
<1>7. k \in Surjection(A, W) /\ k \in Injection(A, W)
  BY <1>2, <1>3, Zenon DEF Injection, Surjection, IsInjective
<1>8. Cardinality(W) = Cardinality(A) /\ IsFiniteSet(W)
  BY <1>4, <1>7, FS_Surjection
<1>9. QED
  BY <1>5, <1>6, <1>8 DEF Got, W, A

\* What the last region gives is not overwritten in the caller's buffer.
LEMMA LastBankSurvives ==
  ASSUME Separated, SInv, NEW want, Taken(want) # {}
  PROVE  \E i \in Slots : /\ TakenFrames(want) \cap Bank(i) # {}
                          /\ TakenFrames(want) \cap Bank(i) \subseteq Written(want)
<1> DEFINE N == Len(MemoryMap)
           D == {N - p[1] : p \in Taken(want)}
<1>1. N \in Nat /\ \A p \in Taken(want) : p[1] \in 1 .. N
  BY MapAssumption, TakenPairs DEF Slots
<1>2. PICK n \in D : \A m \in D : n <= m
  <2>1. D # {} /\ D \subseteq Nat
    BY <1>1
  <2> DEFINE R == OpToRel(<, Nat)
  <2>2. \A a, b \in Nat : a < b => <<a, b>> \in R
    BY DEF OpToRel
  <2>3. IsWellFoundedOn(R, Nat)
    BY NatLessThanWellFounded
  <2> HIDE DEF R, D
  <2>4. PICK n \in D : \A m \in D : ~(<<m, n>> \in R)
    BY <2>1, <2>3, WFMin
  <2>5. \A m \in D : m \in Nat /\ n \in Nat /\ ~(m < n)
    BY <2>1, <2>2, <2>4
  <2>6. QED
    BY <2>5
<1>3. PICK p \in Taken(want) : n = N - p[1]
  BY <1>2
<1>4. PICK i \in Slots : i = p[1]
  BY TakenPairs
<1>5. \A q \in Taken(want) : q[1] <= i
  <2> SUFFICES ASSUME NEW q \in Taken(want) PROVE q[1] <= i
    OBVIOUS
  <2>1. N - p[1] <= N - q[1]
    BY <1>2, <1>3
  <2>2. q[1] \in Int /\ p[1] \in Int
    BY <1>1
  <2> HIDE DEF N
  <2>3. QED
    BY <1>1, <1>4, <2>1, <2>2
<1>6. ASSUME NEW j \in Slots, j > i PROVE Cardinality(TakenFrom(want, j)) = 0
  <2>1. ASSUME NEW b \in TakenFrom(want, j) PROVE FALSE
    <3>1. <<j, b>> \in Taken(want)
      BY DEF TakenFrom
    <3>2. <<j, b>>[1] <= i
      BY <1>5, <3>1
    <3>3. QED
      BY <1>4, <1>6, <3>2 DEF Slots
  <2>2. TakenFrom(want, j) = {}
    BY <2>1
  <2>3. QED
    BY <2>2, FS_EmptySet
<1>7. ASSUME NEW q \in Taken(want), q[1] = i PROVE q \in Surviving(want)
  <2>1. Entry(want, q) \in Nat /\ Entry(want, q) > 0
    <3>1. {b \in TakenFrom(want, q[1]) : b < q[2]} \subseteq TakenFrom(want, i)
      BY <1>7
    <3>2. IsFiniteSet({b \in TakenFrom(want, q[1]) : b < q[2]})
      BY <3>1, OutFinite, FS_Subset DEF SInv
    <3>3. Cardinality({b \in TakenFrom(want, q[1]) : b < q[2]}) \in Nat
      BY <3>2, FS_CardinalityType
    <3>4. QED
      BY <3>3 DEF Entry
  <2>2. \A j \in Slots : j > q[1] => Cardinality(TakenFrom(want, j)) < Entry(want, q)
    BY <1>6, <1>7, <2>1
  <2>3. QED
    BY <2>2 DEF Surviving
<1>8. ASSUME NEW f \in TakenFrames(want), f \in Bank(i) PROVE f \in Written(want)
  <2>1. f - AllocBase(i) \in TakenFrom(want, i)
    BY <1>8, TakenOfBank
  <2>2. PICK b : b = f - AllocBase(i) /\ <<i, b>> \in Taken(want)
    BY <2>1 DEF TakenFrom
  <2>3. <<i, b>> \in Surviving(want)
    BY <1>7, <2>2
  <2>4. f \in Nat /\ AllocBase(i) \in Nat
    BY <1>8, BankApart, Geometry
  <2>5. f = AllocBase(i) + b
    BY <2>2, <2>4
  <2>6. f = Frame(<<i, b>>[1], <<i, b>>[2])
    BY <2>5 DEF Frame
  <2>7. QED
    BY <2>3, <2>6 DEF Written
<1>9. TakenFrames(want) \cap Bank(i) # {}
  <2>1. PICK b \in Nat : b = p[2] /\ b \in ScannedBits(i)
    BY <1>4, TakenPairs
  <2>2. AllocBase(i) \in Nat /\ Frame(p[1], p[2]) = AllocBase(i) + b
    BY <1>4, <2>1, Geometry DEF Frame
  <2>3. AllocBase(i) + b \in Bank(i)
    BY <2>1, FrameInBank
  <2>4. AllocBase(i) + b \in TakenFrames(want)
    BY <2>2 DEF TakenFrames
  <2>5. QED
    BY <2>3, <2>4
<1>10. QED
  BY <1>8, <1>9

\* AllocatePages takes available frames, and grants those it reports.
LEMMA OwnersAllocate ==
  ASSUME Separated, SInv, BitmapInv', NEW want \in 1 .. MaxRequest, Allocate(want)
  PROVE  Owners!Next
<1>1. /\ held' = held \cup Written(want) /\ ret'.frames = Written(want)
      /\ installed' = installed
      /\ \A i \in Slots : free'[i] = free[i] \ TakenFrom(want, i)
  BY DEF Allocate, AllocatePages
<1>2. want \in Nat
  BY RequestAssumption
<1>3. ASSUME NEW f \in TakenFrames(want)
      PROVE  /\ f \in Machine /\ Place[f] = "avail"
             /\ Place'[f] = IF f \in Written(want) THEN "owned" ELSE "lost"
  <2>1. PICK i \in Slots : f \in Bank(i)
    BY <1>3, TakenCount
  <2>2. f - AllocBase(i) \in TakenFrom(want, i)
    BY <1>3, <2>1, TakenOfBank
  <2>3. f - AllocBase(i) \in free[i] /\ f - AllocBase(i) \in installed[i]
    BY <2>2, OutFinite DEF SInv, BitmapInv
  <2>4. f \notin held
    BY <2>1, <2>3, HeldOfBank
  <2>5. f - AllocBase(i) \notin free'[i]
    BY <1>1, <2>2
  <2>6. f \in Machine
    BY <2>1, BankApart
  <2>7. QED
    BY <1>1, <2>1, <2>3, <2>4, <2>5, <2>6, PlaceValue DEF SInv
<1>4. ASSUME NEW f \in Machine, f \notin TakenFrames(want)
      PROVE  Place'[f] = Place[f]
  <2>1. PICK i \in Slots : f \in Bank(i)
    BY DEF Machine
  <2>2. f - AllocBase(i) \notin TakenFrom(want, i)
    BY <1>4, <2>1, TakenOfBank
  <2>3. f \notin Written(want)
    BY <1>4, TakenCount
  <2>4. (f - AllocBase(i) \in free'[i]) = (f - AllocBase(i) \in free[i])
    BY <1>1, <2>2
  <2>5. QED
    BY <1>1, <2>1, <2>3, <2>4, PlaceValue DEF SInv
<1>5. Owners!Moved = TakenFrames(want)
  BY <1>3, <1>4 DEF Owners!Moved, Place
<1>6. Owners!Moves("avail", {"owned", "lost"})
  BY <1>3, <1>4 DEF Owners!Moves, Place
<1>7. Written(want) = {f \in Owners!Moved : Place'[f] = "owned"}
  BY <1>3, <1>5, TakenCount
<1>8. Cardinality(Owners!Moved) <= want
  <2>1. Cardinality(FreePages) \in Nat
    BY FreePagesFinite, FS_CardinalityType DEF SInv
  <2>2. Got(want) <= want
    BY <1>2, <2>1, TakesWhatIsAsked DEF SInv
  <2>3. QED
    BY <1>5, <2>2, TakenCount
<1>9. ASSUME Cardinality(Owners!Moved) < want PROVE Owners!In("avail") = Owners!Moved
  <2>1. Taken(want) = FreePages
    BY <1>2, <1>5, <1>9, TakenCount, TakesWhatIsAsked DEF SInv
  <2>2. ASSUME NEW f \in Machine, Place[f] = "avail" PROVE f \in TakenFrames(want)
    <3>1. PICK i \in Slots : f \in Bank(i)
      BY DEF Machine
    <3>2. f - AllocBase(i) \in free[i]
      BY <2>2, <3>1, PlaceValue DEF SInv
    <3>3. <<i, f - AllocBase(i)>> \in FreePages
      BY <3>2 DEF FreePages
    <3>4. f - AllocBase(i) \in TakenFrom(want, i)
      BY <2>1, <3>2, <3>3 DEF TakenFrom
    <3>5. QED
      BY <3>1, <3>4, TakenOfBank
  <2>3. QED
    BY <1>3, <1>5, <2>2 DEF Owners!In, Place
<1>10. ASSUME Owners!Moved # {}
       PROVE  \E bank \in {Bank(i) : i \in Slots} :
                 Owners!Moved \cap bank # {} /\ Owners!Moved \cap bank \subseteq Written(want)
  <2>1. Taken(want) # {}
    BY <1>5, <1>10 DEF TakenFrames
  <2>2. QED
    BY <1>5, <2>1, LastBankSurvives
<1>11. Owners!Grant(want)
  BY <1>1, <1>6, <1>7, <1>8, <1>9, <1>10, OwnersCardinality DEF Owners!Grant, Place
<1>12. QED
  BY <1>11 DEF Owners!Next

\* A list without repetitions has as many members as places.
LEMMA ListCount ==
  ASSUME NEW n \in Nat, NEW list,
         \A k \in 1 .. n : list[k] \in Int,
         \A j, k \in 1 .. n : list[j] = list[k] => j = k
  PROVE  Cardinality({list[k] : k \in 1 .. n}) = n
<1> DEFINE K == 1 .. n
<1>1. 1 \in Int /\ n \in Int /\ 0 \in Int
  OBVIOUS
<1>2. IsFiniteSet(K) /\ Cardinality(K) = n
  BY <1>1, FS_Interval
<1>3. {list[k] : k \in K} = {list[k] - 0 : k \in K}
  OBVIOUS
<1>4. /\ \A k \in K : list[k] \in Int
      /\ \A j, k \in K : list[j] = list[k] => j = k
  OBVIOUS
<1> HIDE DEF K
<1>5. Cardinality({list[k] - 0 : k \in K}) = Cardinality(K)
  BY <1>1, <1>2, <1>4, ImageCount
<1>6. Cardinality({list[k] : k \in K}) = n
  BY <1>2, <1>3, <1>5
<1>7. QED
  BY <1>6 DEF K

\* FreePages returns frames: those their region recognises are available again.
LEMMA OwnersRelease ==
  ASSUME Separated, SInv, BitmapInv', NEW n \in 1 .. MaxRequest, Release(n)
  PROVE  Owners!Next
<1>1. PICK list \in HeldLists(n) :
        /\ FreePagesOf(list) /\ held' = held \ {list[k] : k \in 1 .. n}
        /\ ret'.frames = {}
  BY DEF Release
<1> DEFINE L == {list[k] : k \in 1 .. n}
           kept == {f \in Machine : \E i \in Slots : Contains(i, f)}
<1>2. /\ list \in [1 .. n -> held] /\ L \subseteq held /\ DOMAIN list = 1 .. n
      /\ \A j, k \in 1 .. n : list[j] = list[k] => j = k
  BY DEF HeldLists
<1>3. /\ installed' = installed
      /\ \A i \in Slots : free'[i] = FreeInto(free[i], i, list)
  BY <1>1 DEF FreePagesOf
<1>4. held \subseteq Nat /\ \A i \in Slots : AllocBase(i) \in Nat
  BY Geometry DEF SInv, HolderInv
<1>5. ASSUME NEW i \in Slots, NEW f \in Bank(i)
      PROVE  f - AllocBase(i) \in free'[i] <=>
               \/ f - AllocBase(i) \in free[i]
               \/ f \in L /\ i \in Active /\ Contains(i, f) /\ f - AllocBase(i) \in Nat
  <2>1. f \in Nat /\ AllocBase(i) \in Nat
    BY <1>4, BankApart
  <2>2. ASSUME NEW k \in Hits(i, list), list[k] - AllocBase(i) = f - AllocBase(i)
        PROVE  f \in L /\ i \in Active /\ Contains(i, f)
    <3>1. k \in 1 .. n /\ i \in Active /\ Contains(i, list[k])
      BY <1>2 DEF Hits
    <3>2. list[k] \in Nat
      BY <1>2, <1>4, <3>1
    <3>3. list[k] = f
      BY <2>1, <2>2, <3>2
    <3>4. QED
      BY <3>1, <3>3
  <2>3. ASSUME f \in L, i \in Active, Contains(i, f)
        PROVE  \E k \in Hits(i, list) : list[k] - AllocBase(i) = f - AllocBase(i)
    <3>1. PICK k \in 1 .. n : list[k] = f
      BY <2>3
    <3>2. k \in Hits(i, list)
      BY <1>2, <2>3, <3>1 DEF Hits
    <3>3. QED
      BY <3>1, <3>2
  <2>4. f - AllocBase(i) \in free'[i] <=>
          \/ f - AllocBase(i) \in free[i]
          \/ f - AllocBase(i) \in {list[k] - AllocBase(i) : k \in Hits(i, list)} \cap Nat
    BY <1>3 DEF FreeInto
  <2> HIDE DEF L
  <2>5. QED
    BY <2>2, <2>3, <2>4 DEF SInv, BitmapInv
<1>6. ASSUME NEW f \in L
      PROVE  /\ f \in Machine /\ Place[f] = "owned"
             /\ Place'[f] = IF f \in kept THEN "avail" ELSE "lost"
  <2>1. f \in held /\ f \notin held'
    BY <1>1, <1>2
  <2>2. PICK i \in Active : /\ i \in Slots /\ f \in Bank(i) /\ f \in Machine /\ f \in Nat
                            /\ f - AllocBase(i) \in installed[i]
                            /\ f - AllocBase(i) \notin free[i]
    BY <2>1, HeldInBank
  <2>3. f \in kept <=> Contains(i, f)
    <3>1. ASSUME NEW j \in Slots, Contains(j, f) PROVE j = i
      BY <2>2, <3>1, ContainsInRange, BankApart
    <3>2. QED
      BY <2>2, <3>1
  <2>4. f - AllocBase(i) \in Nat
    BY <2>2 DEF SInv, BitmapInv
  <2>5. f - AllocBase(i) \in free'[i] <=> Contains(i, f)
    BY <1>5, <2>2, <2>4
  <2>6. /\ Place[f] = "owned"
        /\ Place'[f] = IF f - AllocBase(i) \in free'[i] THEN "avail" ELSE "lost"
    BY <1>3, <2>1, <2>2, PlaceValue DEF SInv
  <2> HIDE DEF kept
  <2>7. QED
    BY <2>2, <2>3, <2>5, <2>6
<1>7. ASSUME NEW f \in Machine, f \notin L
      PROVE  Place'[f] = Place[f]
  <2>1. PICK i \in Slots : f \in Bank(i)
    BY DEF Machine
  <2>2. (f \in held') = (f \in held)
    BY <1>1, <1>7
  <2>3. (f - AllocBase(i) \in free'[i]) = (f - AllocBase(i) \in free[i])
    BY <1>5, <1>7, <2>1
  <2>4. QED
    BY <1>3, <2>1, <2>2, <2>3, PlaceValue DEF SInv
<1> HIDE DEF kept
<1>8. Owners!Moved = L
  BY <1>6, <1>7 DEF Owners!Moved, Place
<1>9. Owners!Moves("owned", {"avail", "lost"})
  BY <1>6, <1>7 DEF Owners!Moves, Place
<1>10. \A f \in Owners!Moved : Place'[f] = "avail" <=> f \in kept
  BY <1>6, <1>8
<1>11. Cardinality(Owners!Moved) = n
  <2>1. n \in Nat /\ \A k \in 1 .. n : list[k] \in Int
    <3>1. n \in Nat
      BY RequestAssumption
    <3>2. \A k \in 1 .. n : list[k] \in held
      BY <1>2
    <3>3. held \subseteq Int
      BY <1>4
    <3> HIDE DEF L
    <3>4. QED
      BY <3>1, <3>2, <3>3
  <2>2. Cardinality({list[k] : k \in 1 .. n}) = n
    <3>1. \A j, k \in 1 .. n : list[j] = list[k] => j = k
      BY <1>2
    <3> HIDE DEF L
    <3>2. QED
      BY ONLY <2>1, <3>1, ListCount
  <2>3. QED
    BY <1>8, <2>2
<1>12. Owners!Return(n)
  BY <1>1, <1>9, <1>10, <1>11, OwnersCardinality DEF Owners!Return, Place, kept
<1>13. QED
  BY <1>12 DEF Owners!Next

\* AddRegion makes frames available; a panic moves none.
LEMMA OwnersGrow ==
  ASSUME Separated, SInv, BitmapInv', Grow \/ GrowPanics
  PROVE  Owners!Next
<1>1. ret'.frames = {}
  BY DEF Grow, GrowPanics, NoCall
<1>2. ASSUME NEW f \in Machine, Place'[f] # Place[f]
      PROVE  Place[f] = "absent" /\ Place'[f] \in {"avail"}
  <2>1. PICK i \in Slots : f \in Bank(i)
    BY DEF Machine
  <2>2. CASE GrowPanics
    BY <1>2, <2>1, <2>2, PlaceValue DEF GrowPanics, AddRegionPanics, SInv
  <2>3. CASE Grow
    <3>1. /\ added < Len(MemoryMap) /\ held' = held
          /\ \E bits : /\ free' = [free EXCEPT ![added + 1] = bits]
                       /\ installed' = [installed EXCEPT ![added + 1] = bits]
      BY <2>3 DEF Grow, AddRegion
    <3>2. free \in [Slots -> SUBSET Nat] /\ installed \in [Slots -> SUBSET Nat]
      BY DEF SInv, BitmapInv
    <3>3. CASE i # added + 1
      <4>1. free'[i] = free[i] /\ installed'[i] = installed[i]
        BY <3>1, <3>2, <3>3
      <4>2. QED
        BY <1>2, <2>1, <3>1, <4>1, PlaceValue DEF SInv
    <3>4. CASE i = added + 1
      <4>1. installed[i] = {} /\ free[i] = {}
        <5>1. i > added
          BY <3>4 DEF SInv, BitmapInv
        <5>2. installed[i] = {} /\ free[i] \subseteq installed[i]
          BY <5>1 DEF SInv, BitmapInv
        <5>3. QED
          BY <5>2
      <4>2. f \notin held
        BY <2>1, <4>1, HeldOfBank
      <4>3. free'[i] = installed'[i]
        BY <3>1, <3>2, <3>4
      <4>4. QED
        BY <1>2, <2>1, <3>1, <4>1, <4>2, <4>3, PlaceValue DEF SInv
    <3>5. QED
      BY <3>3, <3>4
  <2>4. QED
    BY <2>2, <2>3
<1>3. Owners!Donate
  BY <1>1, <1>2 DEF Owners!Donate, Owners!Moves, Place
<1>4. QED
  BY <1>3 DEF Owners!Next

\* Over any number of separated regions the allocator does what PageOwners promises:
\* a call takes as many available frames as were asked for unless none is left, and
\* grants those it reports, all of them when one region serves it; a frame that is
\* returned is available again if its region recognises it and lost otherwise, and
\* no step takes one from its owner.
THEOREM AllocatorKeepsOwners ==
  ASSUME Separated
  PROVE  Spec => KeepsPageOwners
<1>1. Spec => []SInv
  BY SInvHolds
<1>2. Init => Owners!Init
  <2>1. ASSUME Init, NEW f \in Machine PROVE PlaceOf(f) = "absent"
    BY <2>1 DEF Init, PoolInit, PlaceOf
  <2>2. QED
    BY <2>1 DEF Init, NoCall, Owners!Init
<1>3. SInv /\ SInv' /\ [Next]_vars => [Owners!Next]_(Owners!vars)
  <2> SUFFICES ASSUME SInv, SInv', [Next]_vars PROVE [Owners!Next]_(Owners!vars)
    OBVIOUS
  <2>1. BitmapInv'
    BY DEF SInv
  <2>2. CASE Grow \/ GrowPanics
    BY <2>1, <2>2, OwnersGrow
  <2>3. ASSUME NEW n \in 1 .. MaxRequest, Allocate(n) PROVE Owners!Next
    BY <2>1, <2>3, OwnersAllocate
  <2>4. ASSUME NEW n \in 1 .. MaxRequest, Release(n) PROVE Owners!Next
    BY <2>1, <2>4, OwnersRelease
  <2>5. CASE UNCHANGED vars
    BY <2>5 DEF vars, Owners!vars, PlaceOf
  <2>6. QED
    BY <2>2, <2>3, <2>4, <2>5 DEF Next
<1>4. QED
  BY <1>1, <1>2, <1>3, PTL DEF Spec, KeepsPageOwners, Owners!Spec
=============================================================================
