----------------------------- MODULE ZoneAlloc ------------------------------
(***************************************************************************)
(* A zone allocator (Vm/ZoneAllocator.h): objects of one type in regions   *)
(* got from VAlloc, which form a linked list; each region has a bitmap of  *)
(* the slots it has available.  The loops over the list are modelled step  *)
(* by step.  One thread runs in the kernel, so calls do not overlap.       *)
(*                                                                         *)
(* The r-th region taken from VAlloc is r; null is 0.  An object is its    *)
(* region and its slot: VAlloc's guard pages keep regions apart, so the    *)
(* address of an object tells both.  The code also keeps freeRegion, which *)
(* nothing reads.                                                          *)
(***************************************************************************)
EXTENDS Integers, FiniteSets

CONSTANTS
  NumItems,      \* objects that fit in a region (RegionMetadata::RegionMetadata)
  MaxRegions     \* regions VAlloc has memory for (bound)

ASSUME ZoneAssumption == NumItems \in Nat \ {0} /\ MaxRegions \in Nat

Regions == 1 .. MaxRegions
Items == 0 .. (NumItems - 1)
Objects == [region : Regions, item : Items]

VARIABLES
  count,         \* regions taken from VAlloc so far
  start, tail,   \* ZoneAllocator::start and ::last
  next,          \* RegionMetadata::next, of every region
  bitmap,        \* the slots each region has available
  live,          \* the objects callers have
  call,          \* the call in progress, [op, region, object]
  faulted        \* the kernel panicked, or faulted on a null pointer

vars == <<count, start, tail, next, bitmap, live, call, faulted>>

NoObject == [region |-> 0, item |-> 0]
Idle == [op |-> "idle", region |-> 0, object |-> NoObject]

\* Region::isFull
IsFull(r) == bitmap[r] = {}

\* Region::contains.
\* Mutant: an object that ends where the region ends is left out.
ContainsAllButLast(r, o) == o.region = r /\ o.item < NumItems - 1

Contains(r, o) == o.region = r

\* Region::indexFor.
\* Mutant: the offset is counted from the start of the region.
IndexFromRegion(o) == o.item + 1

IndexFor(o) == o.item

\* Region::alloc takes the lowest slot (ffsll of the first word that is not 0).
\* Mutant: the bit is not cleared.
TakeSlotUncleared(b, r, s) == b

TakeSlot(b, r, s) == [b EXCEPT ![r] = @ \ {s}]

Lowest(slots, s) == s \in slots /\ \A t \in slots : s <= t

-----------------------------------------------------------------------------
(* ZoneAllocator::alloc                                                    *)

\* findRegionWithSpace starts at the first region.
Alloc ==
  /\ ~faulted
  /\ call.op = "idle"
  /\ call' = [op |-> "alloc", region |-> start, object |-> NoObject]
  /\ UNCHANGED <<count, start, tail, next, bitmap, live, faulted>>

\* Mutant: the loop continues without moving on.
SearchSpins ==
  /\ call.op = "alloc" /\ call.region # 0
  /\ IsFull(call.region)
  /\ UNCHANGED vars

\* Mutant: the search gives up after one region.
SearchOne ==
  /\ call.op = "alloc" /\ call.region # 0
  /\ IsFull(call.region)
  /\ call' = [call EXCEPT !.region = 0]
  /\ UNCHANGED <<count, start, tail, next, bitmap, live, faulted>>

Search ==
  /\ call.op = "alloc" /\ call.region # 0
  /\ IsFull(call.region)
  /\ call' = [call EXCEPT !.region = next[call.region]]
  /\ UNCHANGED <<count, start, tail, next, bitmap, live, faulted>>

TakeItem ==
  /\ call.op = "alloc" /\ call.region # 0
  /\ \E s \in Items :
       /\ Lowest(bitmap[call.region], s)
       /\ bitmap' = TakeSlot(bitmap, call.region, s)
       /\ live' = live \cup {[region |-> call.region, item |-> s]}
  /\ call' = Idle
  /\ UNCHANGED <<count, start, tail, next, faulted>>

\* Mutant: the new region is not made the last one.
LinkOnce(r) ==
  /\ start' = IF start = 0 THEN r ELSE start
  /\ next' = IF tail # 0 THEN [next EXCEPT ![tail] = r] ELSE next
  /\ tail' = IF tail = 0 THEN r ELSE tail

Link(r) ==
  /\ start' = IF start = 0 THEN r ELSE start
  /\ next' = IF tail # 0 THEN [next EXCEPT ![tail] = r] ELSE next
  /\ tail' = r

\* Every region is full: a new one goes to the end of the list, and its first
\* slot to the caller.
NewRegion ==
  /\ call.op = "alloc" /\ call.region = 0
  /\ count < MaxRegions
  /\ count' = count + 1
  /\ Link(count + 1)
  /\ bitmap' = TakeSlot([bitmap EXCEPT ![count + 1] = Items], count + 1, 0)
  /\ live' = live \cup {[region |-> count + 1, item |-> 0]}
  /\ call' = Idle
  /\ UNCHANGED faulted

\* VAlloc gives back null: operator new (noexcept) passes it on, the null
\* region goes to the end of the list, and Region::alloc reads its bitmap.
NoRegion ==
  /\ call.op = "alloc" /\ call.region = 0
  /\ next' = IF tail # 0 THEN [next EXCEPT ![tail] = 0] ELSE next
  /\ tail' = 0
  /\ faulted' = TRUE
  /\ UNCHANGED <<count, start, bitmap, live, call>>

-----------------------------------------------------------------------------
(* ZoneAllocator::free                                                     *)

\* Without any region free panics.
Free(o) ==
  /\ ~faulted
  /\ call.op = "idle"
  /\ live' = live \ {o}
  /\ call' = [op |-> "free", region |-> start, object |-> o]
  /\ faulted' = (start = 0)
  /\ UNCHANGED <<count, start, tail, next, bitmap>>

\* The loop continues without moving on to the next region.
FreeSpins ==
  /\ call.op = "free"
  /\ ~Contains(call.region, call.object)
  /\ UNCHANGED vars

FreeItem ==
  /\ call.op = "free"
  /\ Contains(call.region, call.object)
  /\ bitmap' = [bitmap EXCEPT ![call.region] = @ \cup {IndexFor(call.object)}]
  /\ call' = Idle
  /\ UNCHANGED <<count, start, tail, next, live, faulted>>

-----------------------------------------------------------------------------
Init ==
  /\ count = 0
  /\ start = 0
  /\ tail = 0
  /\ next = [r \in Regions |-> 0]
  /\ bitmap = [r \in Regions |-> {}]
  /\ live = {}
  /\ call = Idle
  /\ faulted = FALSE

\* The steps of a call in progress.
Step ==
  /\ ~faulted
  /\ Search \/ TakeItem \/ NewRegion \/ NoRegion \/ FreeSpins \/ FreeItem

Next == Alloc \/ (\E o \in live : Free(o)) \/ Step

Spec == Init /\ [][Next]_vars

\* The processor keeps executing a call that was made.
FairSpec == Spec /\ WF_vars(Step)

-----------------------------------------------------------------------------
\* The object a free in progress is giving back.
Leaving == IF call.op = "free" THEN {call.object} ELSE {}

TypeOK ==
  /\ count \in 0 .. MaxRegions
  /\ start \in 0 .. count
  /\ tail \in 0 .. count
  /\ next \in [Regions -> 0 .. count]
  /\ bitmap \in [Regions -> SUBSET Items]
  /\ live \subseteq Objects
  /\ call \in [op : {"idle", "alloc", "free"}, region : 0 .. count,
               object : Objects \cup {NoObject}]
  /\ faulted \in BOOLEAN

\* "A set bit indicates an available slot; a clear bit indicates allocated"
\* (ZoneAllocator.h:61): a slot of a region is available, a caller's, or on its
\* way back, and only one of these.  No object is given out twice, none leaks.
SlotsAccounted ==
  /\ \A o \in live \cup Leaving : o.region <= count
  /\ live \cap Leaving = {}
  /\ \A r \in 1 .. count : \A s \in Items :
       s \in bitmap[r] <=> [region |-> r, item |-> s] \notin live \cup Leaving

\* "All regions in a zone allocator are attached together in a linked list"
\* (ZoneAllocator.h:53): from start, next leads through every region, in the
\* order they were made, to the last one.
RegionsAreListed ==
  ~faulted =>
    /\ start = IF count = 0 THEN 0 ELSE 1
    /\ tail = count
    /\ \A r \in 1 .. count : next[r] = IF r = count THEN 0 ELSE r + 1

\* A new region is taken only when no region has a slot left: the search visits
\* every region, also those that were full and had an object freed.
GrowsOnlyWhenFull ==
  [][count' # count => \A r \in 1 .. count : IsFull(r)]_vars

\* An alloc ends: it returns, or the kernel stops on a null pointer.
AllocEnds == call.op = "alloc" ~> (call.op = "idle" \/ faulted)

\* A free of an object of the first region returns.
FirstRegionFreeEnds ==
  (call.op = "free" /\ call.object.region = start) ~> call.op = "idle"

\* "Return the memory from a previously allocated object back to the
\* appropriate region" (ZoneAllocator.h:270): every free returns.
FreeEnds == call.op = "free" ~> call.op = "idle"
=============================================================================
