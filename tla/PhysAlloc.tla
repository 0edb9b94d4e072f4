----------------------------- MODULE PhysAlloc ------------------------------
(***************************************************************************)
(* The physical allocator with its callers: boot code adds the ranges of   *)
(* the memory map, kernel code takes pages with AllocatePages and returns  *)
(* pages it holds with FreePages, in any order and any number at a time.   *)
(* The allocator has no lock; the boot processor is its only user.         *)
(***************************************************************************)
EXTENDS PhysPool

CONSTANT
  MaxRequest     \* largest number of pages in a call (bound; kMaxAllocPages)

ASSUME RequestAssumption == MaxRequest \in Nat \ {0}

VARIABLES
  held,          \* the frames callers own: returned to them and not yet freed
  ret            \* the last call: what it returned and left in its buffer

vars == <<added, free, numAllocated, installed, panicked, held, ret>>

NoCall == [call |-> "none", want |-> 0, got |-> 0, frames |-> {}]

Allocate(want) ==
  /\ ~panicked
  /\ AllocatePages(want)
  /\ held' = held \cup Written(want)
  /\ ret' = [call |-> "alloc", want |-> want, got |-> Got(want),
             frames |-> Written(want)]

\* A list of distinct pages the caller holds.
HeldLists(n) ==
  {list \in [1 .. n -> held] : \A j, k \in 1 .. n : list[j] = list[k] => j = k}

Release(n) ==
  /\ ~panicked
  /\ \E list \in HeldLists(n) :
       /\ FreePagesOf(list)
       /\ panicked' = Astray(list)
       /\ held' = held \ {list[k] : k \in 1 .. n}
       /\ ret' = [call |-> "free", want |-> n, got |-> Freed(list),
                  frames |-> {}]

Grow ==
  /\ ~panicked
  /\ AddRegion
  /\ ret' = NoCall
  /\ UNCHANGED held

GrowPanics ==
  /\ ~panicked
  /\ AddRegionPanics
  /\ ret' = NoCall
  /\ UNCHANGED held

Init == PoolInit /\ held = {} /\ ret = NoCall

Next ==
  \/ Grow
  \/ GrowPanics
  \/ \E want \in 1 .. MaxRequest : Allocate(want) \/ Release(want)

Spec == Init /\ [][Next]_vars

-----------------------------------------------------------------------------
TypeOK ==
  /\ PoolTypeOK
  /\ held \subseteq Nat
  /\ ret \in [call : {"none", "alloc", "free"}, want : Nat, got : Nat,
              frames : SUBSET Nat]

\* Region::numAllocated, the counter GetAllocPages adds up, is exactly the
\* number of pages of the region that are handed out: it does not drift over
\* any sequence of allocations and (partly ignored) frees.
CountMatchesBitmap ==
  \A i \in Slots : numAllocated[i] = Cardinality(HandedOut(i))

\* Region::alloc cannot hand a page out again while a caller holds it: the bit of
\* the page is clear in the region it is from, and set in another region only if
\* the page lies past the end of one of the two (their stray bits, see below).
HeldPagesAreTaken ==
  \A f \in held : \E i \in Active :
    /\ f - AllocBase(i) \in HandedOut(i)
    /\ \A j \in Slots :
         f - AllocBase(j) \in free[j] => f \notin PagesOf(i) \/ f \notin PagesOf(j)

\* Pool::alloc comes back short only when every region is out of pages.
ShortOnlyWhenEmpty ==
  ret.call = "alloc" /\ ret.got < ret.want => \A i \in Slots : free[i] = {}

\* "The bitmap is represented such that all pages that are free are set (1) and
\* allocated pages are cleared (0)" (Region.h:23-24): a page that a caller holds is
\* set in no bitmap.
AllocatedIsCleared ==
  \A f \in held, j \in Slots : f - AllocBase(j) \notin free[j]

-----------------------------------------------------------------------------
(* The refinement of PageOwners.                                           *)

\* The pages of a region, and those that stray bits stand for.
Bank(i) == MemoryMap[i].base .. (AllocBase(i) + ScanLimit(i) - 1)
Machine == UNION {Bank(i) : i \in Slots}

FirstFrame == [i \in Slots |-> AllocBase(i)]

\* Where the allocator's state says a frame is.
PlaceOf(f) ==
  IF f \in held THEN "owned"
  ELSE IF \E i \in Slots : f - FirstFrame[i] \in free[i] THEN "avail"
  ELSE IF \E i \in Slots : f - FirstFrame[i] \in installed[i] THEN "lost"
  ELSE "absent"

Owners == INSTANCE PageOwners WITH
            Frames <- Machine, Banks <- {Bank(i) : i \in Slots},
            Kept <- {f \in Machine : \E i \in Slots : Contains(i, f)},
            MaxGrant <- MaxRequest,
            place <- [f \in Machine |-> PlaceOf(f)],
            granted <- ret.frames

\* AllocatePages and FreePages do what PageOwners promises: a page a call reports
\* was available and is its caller's from then on, no step takes one from its
\* owner, and pages are lost in the two ways PageOwners names and in no other.
KeepsPageOwners == Owners!Spec
=============================================================================
