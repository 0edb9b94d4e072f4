------------------------------ MODULE PhysPool ------------------------------
(***************************************************************************)
(* Pool 0 of the kernel's physical allocator and its regions               *)
(* (Memory/PhysicalAllocator, Memory/Pool, Memory/Region).  Every address  *)
(* these classes see is page aligned, so an address is modelled by its     *)
(* frame number; a bitmap is the set of its bits that are 1 (free).        *)
(*                                                                         *)
(* Region i of the pool is the i-th range the boot code adds, so the       *)
(* layout of the regions is the constant MemoryMap and a count.            *)
(***************************************************************************)
EXTENDS Integers, FiniteSets, Sequences

CONSTANTS
  PageSize,      \* bytes in a page (4096 in the code)
  BitsPerByte,   \* bits the constructor counts per bitmap byte (8)
  BitsPerWord,   \* bits Region::alloc scans at a time (64)
  MaxRegions,    \* Pool::kMaxRegions (16)
  MemoryMap      \* the ranges given to AddRegion, [base, numPages] in frames

ASSUME SizesAssumption ==
  /\ PageSize \in Nat \ {0}
  /\ BitsPerByte \in Nat \ {0}
  /\ BitsPerWord \in Nat \ {0}
  /\ MaxRegions \in Nat \ {0}

ASSUME MapAssumption == MemoryMap \in Seq([base : Nat, numPages : Nat])

VARIABLES
  added,         \* how many ranges are regions by now
  free,          \* free[i]: the bits of region i's bitmap that are 1
  numAllocated,  \* Region::numAllocated
  installed,     \* history: the bits that were 1 when region i was built
  panicked       \* a REQUIRE failed, or the kernel faulted

poolVars == <<added, free, numAllocated, installed, panicked>>

Slots  == 1 .. Len(MemoryMap)
Active == 1 .. added

-----------------------------------------------------------------------------
(* Geometry of one region: Region::Region.                                 *)

CeilDiv(a, b)   == (a + (b - 1)) \div b
BitmapBytes(i)  == CeilDiv(MemoryMap[i].numPages, BitsPerByte)
BitmapPages(i)  == CeilDiv(BitmapBytes(i), PageSize)
\* Region::bitmapSize, "the total number of allocatable pages in the region"
BitmapSize(i)   == MemoryMap[i].numPages - BitmapPages(i)
AllocBase(i)    == MemoryMap[i].base + BitmapPages(i)

\* Region::alloc reads whole words for as long as a word begins below bitmapSize.
ScanLimit(i)    == CeilDiv(BitmapSize(i), BitsPerWord) * BitsPerWord
ScannedBits(i)  == 0 .. (ScanLimit(i) - 1)

\* The constructor sets whole bytes, numPages rounded up ...
WrittenBits(i)  == 0 .. (BitmapBytes(i) * BitsPerByte - 1)
\* ... and the rest of the last scanned word is whatever the memory held.
StrayBits(i)    == ScannedBits(i) \ WrittenBits(i)

Frame(i, b)     == AllocBase(i) + b

\* The bits of region i that were handed out and have not come back.
HandedOut(i)    == installed[i] \ free[i]

\* The frames of the range region i was made of.
PagesOf(i)      ==
  MemoryMap[i].base .. (MemoryMap[i].base + MemoryMap[i].numPages - 1)

\* Region::contains: a byte address compared with physBase + a number of pages.
Contains(i, f) ==
  /\ f >= MemoryMap[i].base
  /\ (f - MemoryMap[i].base) * PageSize < MemoryMap[i].numPages

\* Every frame region i owns or can hand out.
Window(i) == {f \in Nat : /\ f >= MemoryMap[i].base
                          /\ \/ f < MemoryMap[i].base + MemoryMap[i].numPages
                             \/ f < AllocBase(i) + ScanLimit(i)}

\* The loader's usable ranges do not overlap.
RangesApart == \A i, j \in Slots : i # j => PagesOf(i) \cap PagesOf(j) = {}

\* No region can hand out a frame that another one owns or can hand out.  Nothing
\* in the code sees to it: a range may begin where the stray bits of another reach.
Separated == \A i, j \in Slots : i # j => Window(i) \cap Window(j) = {}

-----------------------------------------------------------------------------
(* Allocation.  Pool::alloc asks the regions in order for what is still    *)
(* missing, and a region hands out its lowest free bits: the call takes    *)
(* the lowest free pages in the order of <<region, bit>>.                  *)

FreePages == UNION {{i} \X free[i] : i \in Slots}

Precedes(p, q) == p[1] < q[1] \/ (p[1] = q[1] /\ p[2] < q[2])

\* Mutant: the loop over the regions stops after the first one.
TakenFromFirst(want) ==
  {p \in FreePages : /\ p[1] = 1
                     /\ Cardinality({q \in FreePages : Precedes(q, p)}) < want}

Taken(want) ==
  {p \in FreePages : Cardinality({q \in FreePages : Precedes(q, p)}) < want}

TakenFrom(want, i) == {b \in free[i] : <<i, b>> \in Taken(want)}

\* Pool::alloc returns the sum of what its regions returned.
Got(want) == Cardinality(Taken(want))

\* The entry of the caller's buffer a region writes a page to: every region is
\* handed the start of the buffer (outPtr does not move).
Entry(want, p) ==
  1 + Cardinality({b \in TakenFrom(want, p[1]) : b < p[2]})

\* The pages still in the buffer when the call returns: those whose entry no
\* later region wrote as well.
Surviving(want) ==
  {p \in Taken(want) :
     \A j \in Slots : j > p[1] =>
        Cardinality(TakenFrom(want, j)) < Entry(want, p)}

Written(want) == {Frame(p[1], p[2]) : p \in Surviving(want)}

\* What alloc leaves in the k-th entry of a buffer that held old there.
BufferEntry(want, k, old) ==
  IF \E p \in Surviving(want) : Entry(want, p) = k
  THEN LET p == CHOOSE p \in Surviving(want) : Entry(want, p) = k
       IN  Frame(p[1], p[2])
  ELSE old

\* Mutant: the cleared bit is not written back to the bitmap.
AllocatePagesUncleared(want) ==
  /\ free' = free
  /\ numAllocated' =
       [i \in Slots |-> numAllocated[i] + Cardinality(TakenFrom(want, i))]
  /\ UNCHANGED <<added, installed, panicked>>

AllocatePages(want) ==
  /\ free' = [i \in Slots |-> free[i] \ TakenFrom(want, i)]
  /\ numAllocated' =
       [i \in Slots |-> numAllocated[i] + Cardinality(TakenFrom(want, i))]
  /\ UNCHANGED <<added, installed, panicked>>

-----------------------------------------------------------------------------
(* Release.  Pool::free hands the whole list to every region; a region     *)
(* takes the entries it believes it contains and skips the others.  The    *)
(* early exit of the loop, once as many pages were freed as were given,    *)
(* skips only regions that contain none of them: no two ranges overlap.    *)

\* The positions of the list whose page region i believes is its own.
Hits(i, list) == {k \in DOMAIN list : i \in Active /\ Contains(i, list[k])}

\* What Pool::free returns.
Freed(list) == Cardinality(UNION {Hits(i, list) : i \in Slots})

\* An own page below the first allocatable one makes the bit number wrap
\* around, and the write to the bitmap goes astray.
Astray(list) ==
  \E i \in Slots : \E k \in Hits(i, list) : list[k] < AllocBase(i)

\* The bits of region i after the list was freed into them.
FreeInto(bits, i, list) ==
  bits \cup ({list[k] - AllocBase(i) : k \in Hits(i, list)} \cap Nat)

\* Mutant: the counter goes down for skipped pages too.
FreePagesOfAllCounted(list) ==
  /\ free' = [i \in Slots |-> FreeInto(free[i], i, list)]
  /\ numAllocated' =
       [i \in Slots |-> numAllocated[i] - Cardinality(DOMAIN list)]
  /\ UNCHANGED <<added, installed>>

FreePagesOf(list) ==
  /\ free' = [i \in Slots |-> FreeInto(free[i], i, list)]
  /\ numAllocated' =
       [i \in Slots |-> numAllocated[i] - Cardinality(Hits(i, list))]
  /\ UNCHANGED <<added, installed>>

-----------------------------------------------------------------------------
(* Growth: AddRegion and Pool::addRegion.                                  *)

PoolInit ==
  /\ added = 0
  /\ free = [i \in Slots |-> {}]
  /\ numAllocated = [i \in Slots |-> 0]
  /\ installed = [i \in Slots |-> {}]
  /\ panicked = FALSE

\* REQUIRE(length), and REQUIRE(freeIndex < kMaxRegions).
CanAdd == /\ MemoryMap[added + 1].numPages > 0
          /\ added < MaxRegions

AddRegion ==
  /\ added < Len(MemoryMap)
  /\ CanAdd
  /\ added' = added + 1
  /\ \E stray \in SUBSET StrayBits(added + 1) :
       LET bits == (WrittenBits(added + 1) \cap ScannedBits(added + 1)) \cup stray
       IN  /\ free' = [free EXCEPT ![added + 1] = bits]
           /\ installed' = [installed EXCEPT ![added + 1] = bits]
  /\ numAllocated' = [numAllocated EXCEPT ![added + 1] = 0]
  /\ UNCHANGED panicked

AddRegionPanics ==
  /\ added < Len(MemoryMap)
  /\ ~CanAdd
  /\ panicked' = TRUE
  /\ UNCHANGED <<added, free, numAllocated, installed>>

-----------------------------------------------------------------------------
PoolTypeOK ==
  /\ added \in 0 .. Len(MemoryMap)
  /\ free \in [Slots -> SUBSET Nat]
  /\ installed \in [Slots -> SUBSET Nat]
  /\ numAllocated \in [Slots -> Nat]
  /\ panicked \in BOOLEAN
=============================================================================
