------------------------------- MODULE VAlloc -------------------------------
(***************************************************************************)
(* The kernel's virtual page allocator (Vm/PageAllocator: VAlloc, VFree)   *)
(* over the physical pool and the kernel's page tables.  Addresses in the  *)
(* VAlloc area are page numbers that start at 0; the mappings of that area *)
(* are a function from the mapped page numbers to frames.                  *)
(***************************************************************************)
EXTENDS PhysPool

CONSTANTS
  GuardPages,    \* kNumGuardPages (2)
  AreaPages,     \* size of the VAlloc area, in pages
  TableEntries,  \* entries of a paging structure (512)
  Lengths        \* lengths, in bytes, that callers pass

ASSUME VAllocAssumption ==
  /\ GuardPages \in Nat
  /\ AreaPages \in Nat
  /\ TableEntries \in Nat \ {0}
  /\ Lengths \subseteq Nat \ {0}

VARIABLES
  cursor,          \* gAllocCursor
  pagesAllocated,  \* gPagesAllocated
  vmap,            \* the present page table entries of the area
  tables,          \* the paging structures of the area that exist by now
  tableFrames,     \* the frames those are in
  areas            \* the allocations callers have, [start, pages]

vallocVars == <<cursor, pagesAllocated, vmap, tables, tableFrames, areas>>
vars == <<poolVars, vallocVars>>

\* PageTable::NearestPageSize, in pages.
NearestPages(length) == CeilDiv(length, PageSize)

-----------------------------------------------------------------------------
(* PageTable::mapPage, getPhysAddr and unmap, for the addresses of the     *)
(* area.  mapPage adds the PDPT, the PDT and the page table above a page   *)
(* when they are not there yet; nothing ever removes one.                  *)

Above(v) == {<<1, v \div TableEntries>>,
             <<2, v \div (TableEntries * TableEntries)>>,
             <<3, v \div (TableEntries * TableEntries * TableEntries)>>}

MissingTables(pages) == UNION {Above(v) : v \in pages} \ tables

Merge(f, g) ==
  [x \in DOMAIN f \cup DOMAIN g |-> IF x \in DOMAIN g THEN g[x] ELSE f[x]]

PhysAddr(v) == IF v \in DOMAIN vmap THEN vmap[v] ELSE 0

\* Mutant: unmap clears the first page of the range only.
UnmappedFirst(start, n) == [v \in DOMAIN vmap \ {start} |-> vmap[v]]

Unmapped(start, n) ==
  [v \in DOMAIN vmap \ (start .. start + n - 1) |-> vmap[v]]

-----------------------------------------------------------------------------
(* PageAllocator::Alloc.                                                   *)

\* Boot adds every range before Kernel::Start runs.
Booted == added = Len(MemoryMap)

\* Mutant: no guard pages.
ReservedBare(n) == n

Reserved(n) == n + GuardPages

\* REQUIRE(end < VAllocEnd)
Fits(n) == cursor + Reserved(n) < AreaPages

\* A panic stops the kernel: what the call did before it is not observed.
Panics ==
  /\ panicked' = TRUE
  /\ UNCHANGED <<added, free, numAllocated, installed, vallocVars>>

\* The n entries of phys[], which Alloc clears before AllocatePages fills it.
Buffer(n) == [k \in 1 .. n |-> BufferEntry(n, k, 0)]

\* Too few pages: what came is given back, and the caller gets a null pointer.
\* When nothing came, FreePages refuses a request for zero pages.
AllocFails(n) ==
  LET list == SubSeq(Buffer(n), 1, Got(n))
  IN  /\ Fits(n)
      /\ Got(n) < n
      /\ panicked' = (Got(n) = 0 \/ Astray(list))
      /\ free' = [i \in Slots |-> FreeInto(free[i] \ TakenFrom(n, i), i, list)]
      /\ numAllocated' =
           [i \in Slots |-> numAllocated[i] + Cardinality(TakenFrom(n, i))
                                            - Cardinality(Hits(i, list))]
      /\ UNCHANGED <<added, installed, vallocVars>>

\* The pages are mapped one by one.  Each missing paging structure takes a page
\* of its own after the n pages of the allocation.
AllocMaps(n) ==
  LET pages == cursor .. (cursor + n - 1)
      missing == MissingTables(pages)
      all == n + Cardinality(missing)
  IN  /\ Fits(n)
      /\ Got(all) = all
      /\ AllocatePages(all)
      /\ vmap' = Merge(vmap, [v \in pages |-> Buffer(n)[v - cursor + 1]])
      /\ tables' = tables \cup missing
      /\ tableFrames' = tableFrames \cup
           {Frame(p[1], p[2]) : p \in Taken(all) \ Taken(n)}
      /\ cursor' = cursor + Reserved(n)
      /\ pagesAllocated' = pagesAllocated + n
      /\ areas' = areas \cup {[start |-> cursor, pages |-> n]}

\* AllocPage panics when there is no page for a paging structure.
AllocPanics(n) ==
  LET pages == cursor .. (cursor + n - 1)
      all == n + Cardinality(MissingTables(pages))
  IN  /\ \/ ~Fits(n)
         \/ Got(n) = n /\ Got(all) < all
      /\ Panics

Alloc(length) ==
  LET n == NearestPages(length)
  IN  /\ Booted /\ ~panicked
      /\ AllocFails(n) \/ AllocMaps(n) \/ AllocPanics(n)

-----------------------------------------------------------------------------
(* PageAllocator::Free, with the start of an allocation and any length.    *)

\* Mutant: only the first page is looked up.
StartMapped(start, n) == start \in DOMAIN vmap

AllMapped(start, n) == start .. (start + n - 1) \subseteq DOMAIN vmap

Free(a, length) ==
  LET n == NearestPages(length)
      list == [k \in 1 .. n |-> PhysAddr(a.start + k - 1)]
  IN  /\ ~panicked
      /\ AllMapped(a.start, n)
      /\ vmap' = Unmapped(a.start, n)
      /\ FreePagesOf(list)
      /\ panicked' = (Freed(list) # n \/ Astray(list))
      /\ pagesAllocated' =
           IF Freed(list) = n THEN pagesAllocated - n ELSE pagesAllocated
      /\ areas' = areas \ {a}
      /\ UNCHANGED <<cursor, tables, tableFrames>>

FreePanics(a, length) ==
  LET n == NearestPages(length)
  IN  /\ ~panicked
      /\ ~AllMapped(a.start, n)
      /\ Panics

-----------------------------------------------------------------------------
Boot ==
  /\ ~panicked
  /\ AddRegion
  /\ UNCHANGED vallocVars

Init ==
  /\ PoolInit
  /\ cursor = 0
  /\ pagesAllocated = 0
  /\ vmap = << >>
  /\ tables = {}
  /\ tableFrames = {}
  /\ areas = {}

Next ==
  \/ Boot
  \/ \E length \in Lengths : Alloc(length)
  \/ \E length \in Lengths, a \in areas : Free(a, length) \/ FreePanics(a, length)

Spec == Init /\ [][Next]_vars

-----------------------------------------------------------------------------
Pages(a) == a.start .. (a.start + a.pages - 1)
Guards(a) == (a.start + a.pages) .. (a.start + a.pages + GuardPages - 1)

TypeOK ==
  /\ PoolTypeOK
  /\ cursor \in 0 .. AreaPages
  /\ pagesAllocated \in Nat
  /\ DOMAIN vmap \subseteq 0 .. AreaPages
  /\ \A v \in DOMAIN vmap : vmap[v] \in Nat
  /\ areas \subseteq [start : Nat, pages : Nat \ {0}]

\* The guard pages behind a live allocation are never mapped, whatever
\* allocations come after it, so running off its end faults
\* (PageAllocator::HandleFault).
GuardsUnmapped == \A a \in areas : Guards(a) \cap DOMAIN vmap = {}

\* A frame backs one page of the area at most, and none is a paging structure
\* at the same time.
BackedOnce ==
  /\ \A v, w \in DOMAIN vmap : vmap[v] = vmap[w] => v = w
  /\ \A v \in DOMAIN vmap : vmap[v] \notin tableFrames

\* "The underlying physical memory is allocated directly from the physical
\* allocator" (PageAllocator.cpp:68-69): every frame the area's mappings and
\* paging structures use is one the pool has handed out and not got back.
BackingIsTaken ==
  \A f \in tableFrames \cup {vmap[v] : v \in DOMAIN vmap} :
    \E i \in Active : f - AllocBase(i) \in HandedOut(i)

\* gPagesAllocated counts the mapped pages, also after an allocation was freed
\* with another length than its own.
MappedIsCounted == ~panicked => Cardinality(DOMAIN vmap) = pagesAllocated

\* A free, with whatever length, touches no page of another allocation: the
\* guard pages stop it.
FreeStaysInside ==
  [][\A a \in areas' : \A v \in Pages(a) :
       v \in DOMAIN vmap' /\ (a \in areas => vmap'[v] = vmap[v])]_vars
=============================================================================
