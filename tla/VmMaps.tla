------------------------------- MODULE VmMaps -------------------------------
(***************************************************************************)
(* The kernel's address spaces (Vm/Map.cpp) over their paging structures,  *)
(* with the reference counts of maps and map entries, the map that is      *)
(* active on the processor and the processor's translation cache.  The     *)
(* callers are VAlloc and VFree, which use the kernel map, and code that   *)
(* makes maps and adds ContiguousPhysRegions to them.                      *)
(*                                                                         *)
(* mapPage and unmapPage are a step each, so the processor can cache       *)
(* translations in the middle of a call; the kernel's calls do not overlap.*)
(***************************************************************************)
EXTENDS PageTables

CONSTANTS
  MaxMaps,         \* Map objects ever made (bound)
  Regions,         \* the ContiguousPhysRegions: [physBase, length, mode], in pages
  MaxEntryRefs,    \* references to one region, its maker's included (bound)
  Bases,           \* where regions are added
  VAreas,          \* where VAlloc maps pages
  ZoneArea,        \* the one VAlloc gave the zone allocator of Map
  VPages,          \* pages in an allocation of VAlloc
  Watched,         \* the virtual pages whose translations are checked
  Accessed,        \* those the processor accesses
  MaxCached        \* translations cached at a time (bound)

ASSUME MapsAssumption ==
  /\ MaxMaps \in Nat \ {0}
  /\ Regions \subseteq [physBase : Nat, length : Nat \ {0},
                        mode : SUBSET {"write", "user"}]
  /\ MaxEntryRefs \in Nat
  /\ Bases \subseteq Nat \ {0}
  /\ VAreas \subseteq Nat \ {0}
  /\ ZoneArea \in VAreas
  /\ VPages \in Nat \ {0}
  /\ Watched \subseteq Nat
  /\ Accessed \subseteq Nat
  /\ MaxCached \in Nat

\* Callers pass canonical addresses.
ASSUME CanonicalAssumption ==
  /\ \A r \in Regions, base \in Bases : base + r.length <= VirtualPages
  /\ \A base \in VAreas : base + VPages <= VirtualPages
  /\ \A v \in Accessed : v < VirtualPages

VARIABLES
  made,            \* how many maps were made
  root,            \* pml4Phys of each map
  parent,          \* Map::parent, 0 for none
  refs,            \* RefCountable::refCount of each map; 0 once deleted
  owned,           \* the maps whose makers keep the reference they got
  entryRefs,       \* refCount of each region
  copied,          \* history: the PML4 entries a map took from its parent
  current,         \* the active map, 0 for the loader's tables
  tlb,             \* the translations the processor has cached
  job,             \* the call in progress
  panicked

mapVars == <<made, root, parent, refs, owned, entryRefs, copied>>
vars == <<memory, mapVars, current, tlb, job, panicked>>

Maps == 1 .. MaxMaps
Live == {m \in Maps : refs[m] > 0}
KernelMap == 1

Pages(base, n) == base .. (base + n - 1)

Job(op, map, first, n, phys, mode) ==
  [op |-> op, map |-> map, first |-> first, page |-> first,
   last |-> first + n - 1, phys |-> phys, mode |-> mode]

Idle == Job("idle", 0, 0, 0, 0, {})

Ready == ~panicked /\ job = Idle

TranslationIn(m, v) == Translation(tables, root[m], v)

-----------------------------------------------------------------------------
(* Map::Map and RefCountable                                               *)

\* The kernel map; Kernel::Start makes it gKernelMap.
FirstMap ==
  /\ Ready /\ made = 0
  /\ FirstTable
  /\ made' = 1
  /\ root' = [root EXCEPT ![1] = Lowest(avail)]
  /\ refs' = [refs EXCEPT ![1] = 1]
  /\ owned' = {KernelMap}
  /\ UNCHANGED <<parent, entryRefs, copied, current, tlb, job, panicked>>

\* Without a parent a map gets the kernel map.
ParentFor(p) == IF p = 0 THEN KernelMap ELSE p

\* Mutant: the kernel map is not retained.
WithParentUnretained(p) == IF p = 0 THEN refs ELSE [refs EXCEPT ![p] = @ + 1]

WithParent(p) == [refs EXCEPT ![ParentFor(p)] = @ + 1]

\* The object is the zone's, so VAlloc has mapped the zone's region before.
NewMap(p) ==
  LET up == ParentFor(p)
      m == made + 1
  IN  /\ Ready /\ made \in 1 .. (MaxMaps - 1)
      /\ TranslationIn(KernelMap, ZoneArea) # Absent
      /\ TableFrom(root[up])
      /\ made' = m
      /\ root' = [root EXCEPT ![m] = Lowest(avail)]
      /\ parent' = [parent EXCEPT ![m] = up]
      /\ refs' = [WithParent(p) EXCEPT ![m] = 1]
      /\ owned' = owned \cup {m}
      /\ copied' = [copied EXCEPT ![m] =
           {i \in Indexes : i >= Boundary /\ tables[root[up]][i] # Absent}]
      /\ UNCHANGED <<entryRefs, current, tlb, job, panicked>>

\* AllocPage panics when there is no page for the PML4.
NewMapPanics ==
  /\ Ready /\ made \in 1 .. (MaxMaps - 1)
  /\ TranslationIn(KernelMap, ZoneArea) # Absent
  /\ avail = {}
  /\ panicked' = TRUE
  /\ UNCHANGED <<memory, mapVars, current, tlb, job>>

\* The maker of a map drops its reference.  Nothing retains the active map on
\* behalf of the processor, so it must not be that; the kernel map is static.
Release(m) ==
  /\ Ready
  /\ m \in owned \ {current, KernelMap}
  /\ owned' = owned \ {m}
  /\ job' = Job("drop", m, 0, 0, 0, {})
  /\ UNCHANGED <<memory, made, root, parent, refs, entryRefs, copied, current,
                 tlb, panicked>>

\* Maps that were deleted and whose page tables were not: ~Map releases the
\* parent before the PageTable it holds is destroyed.
Dying == {m \in Maps : root[m] # 0 /\ refs'[m] = 0}

\* RefCountable::release.  The last reference deletes the map, which releases
\* its parent; when that has returned, the PML4s of the deleted maps go back.
Drop ==
  LET m == job.map
  IN  /\ ~panicked /\ job.op = "drop"
      /\ refs' = [refs EXCEPT ![m] = @ - 1]
      /\ IF refs[m] = 1 /\ parent[m] # 0
         THEN job' = [job EXCEPT !.map = parent[m]] /\ UNCHANGED <<memory, root>>
         ELSE /\ job' = Idle
              /\ FreeTables({root[d] : d \in Dying})
              /\ root' = [d \in Maps |-> IF d \in Dying THEN 0 ELSE root[d]]
      /\ UNCHANGED <<made, parent, owned, entryRefs, copied, current, tlb, panicked>>

-----------------------------------------------------------------------------
(* Map::activate, and what the processor does with the active map.         *)

\* Loading cr3 drops every cached translation.
Activate(m) ==
  /\ Ready
  /\ m \in owned
  /\ current' = m
  /\ tlb' = << >>
  /\ UNCHANGED <<memory, mapVars, job, panicked>>

\* The processor accesses v; it caches no translation that is absent.
Access(v) ==
  /\ ~panicked /\ current # 0
  /\ v \notin DOMAIN tlb
  /\ Cardinality(DOMAIN tlb) < MaxCached
  /\ TranslationIn(current, v) # Absent
  /\ tlb' = [w \in DOMAIN tlb \cup {v} |->
               IF w = v THEN TranslationIn(current, v) ELSE tlb[w]]
  /\ UNCHANGED <<memory, mapVars, current, job, panicked>>

-----------------------------------------------------------------------------
(* Mapping: Map::add with ContiguousPhysRegion::addedTo, and VAlloc.       *)

\* "The entire region must be available in the map": the callers see to it.
Available(m, pages) == \A v \in pages : TranslationIn(m, v) = Absent

Add(m, r, base) ==
  /\ Ready
  /\ m \in owned
  /\ entryRefs[r] < MaxEntryRefs
  /\ Available(m, Pages(base, r.length))
  /\ entryRefs' = [entryRefs EXCEPT ![r] = @ + 1]
  /\ job' = Job("map", m, base, r.length, r.physBase, r.mode)
  /\ UNCHANGED <<memory, made, root, parent, refs, owned, copied, current, tlb,
                 panicked>>

VAlloc(base) ==
  /\ Ready /\ made > 0
  /\ Available(KernelMap, Pages(base, VPages))
  /\ job' = Job("map", KernelMap, base, VPages, 0, {"write"})
  /\ UNCHANGED <<memory, mapVars, current, tlb, panicked>>

NextPage == [job EXCEPT !.page = @ + 1, !.phys = @ + 1]

MapStep ==
  /\ ~panicked /\ job.op = "map"
  /\ MapPage(root[job.map], job.page, Leaf(job.phys, job.mode))
  /\ job' = IF job.page = job.last THEN Idle ELSE NextPage
  /\ UNCHANGED <<mapVars, current, tlb, panicked>>

\* A panic stops the kernel: what the call did before it is not observed.
MapPanics ==
  /\ ~panicked /\ job.op = "map"
  /\ MapPageFails(root[job.map], job.page)
  /\ panicked' = TRUE
  /\ UNCHANGED <<memory, mapVars, current, tlb, job>>

-----------------------------------------------------------------------------
(* VFree: unmap, then invalidateTlb, then the pages are free for others.   *)

\* The zone never returns its region.
VFree(base) ==
  /\ Ready /\ made > 0
  /\ base # ZoneArea
  /\ \A v \in Pages(base, VPages) : TranslationIn(KernelMap, v).kind = "page"
  /\ job' = Job("unmap", KernelMap, base, VPages, 0, {})
  /\ UNCHANGED <<memory, mapVars, current, tlb, panicked>>

UnmapStep ==
  /\ ~panicked /\ job.op = "unmap"
  /\ UnmapPage(root[job.map], job.page)
  /\ job' = IF job.page = job.last THEN [job EXCEPT !.op = "flush"] ELSE NextPage
  /\ UNCHANGED <<mapVars, current, tlb, panicked>>

\* The pages invlpg is given.  doTlbShootdown does nothing.
\* Mutant: the last page is left out.
FlushedShort == job.first .. (job.last - 1)

Flushed == job.first .. job.last

Flush ==
  /\ ~panicked /\ job.op = "flush"
  /\ tlb' = [v \in DOMAIN tlb \ Flushed |-> tlb[v]]
  /\ job' = Idle
  /\ UNCHANGED <<memory, mapVars, current, panicked>>

-----------------------------------------------------------------------------
Init ==
  \* What a page holds before AllocPage zeroes it makes no difference.
  /\ tables = [f \in Frames |-> [i \in Indexes |-> Absent]]
  /\ avail = Frames
  /\ made = 0
  /\ root = [m \in Maps |-> 0]
  /\ parent = [m \in Maps |-> 0]
  /\ refs = [m \in Maps |-> 0]
  /\ owned = {}
  /\ entryRefs = [r \in Regions |-> 1]
  /\ copied = [m \in Maps |-> {}]
  /\ current = 0
  /\ tlb = << >>
  /\ job = Idle
  /\ panicked = FALSE

Next ==
  \/ FirstMap
  \/ \E p \in Live \cup {0} : NewMap(p)
  \/ \E m \in Live : Release(m) \/ Activate(m)
  \/ \E m \in Live, r \in Regions, base \in Bases : Add(m, r, base)
  \/ \E base \in VAreas : VAlloc(base) \/ VFree(base)
  \/ \E v \in Accessed : Access(v)
  \/ NewMapPanics
  \/ Drop \/ MapStep \/ MapPanics \/ UnmapStep \/ Flush

Spec == Init /\ [][Next]_vars

-----------------------------------------------------------------------------
TypeOK ==
  /\ tables \in [Frames -> [Indexes -> [kind : {"absent", "table", "large", "page"},
                                        to : Nat, write : BOOLEAN, user : BOOLEAN]]]
  /\ avail \subseteq Frames
  /\ made \in 0 .. MaxMaps
  /\ \A m \in Maps : (m > made => refs[m] = 0) /\ (m \in Live => root[m] \in Frames)
  /\ parent \in [Maps -> 0 .. made]
  /\ refs \in [Maps -> Nat]
  /\ owned \subseteq Maps
  /\ entryRefs \in [Regions -> Nat \ {0}]
  /\ current \in Live \cup {0}
  /\ job.op \in {"idle", "map", "unmap", "flush", "drop"}
  /\ job.op # "idle" => job.map \in Live
  /\ panicked \in BOOLEAN

\* The links out of some structures, and the structures they lead to.
Links(frames) == {l \in frames \X Indexes : tables[l[1]][l[2]].kind = "table"}
Below(frames) == {tables[l[1]][l[2]].to : l \in Links(frames)}

\* The structures the live maps lead to, by level.
Pml4s == {root[m] : m \in Live}
Structures == LET pdpts == Below(Pml4s)
                  pdts == Below(pdpts)
              IN  <<Below(pdts), pdts, pdpts, Pml4s>>

\* No structure a live map uses is available to the allocator, and none is a
\* structure of two levels or of two maps' PML4: deleting maps and reusing their
\* pages does not disturb the maps that remain.
StructuresInUse ==
  LET at == Structures
  IN  /\ \A k \in 1 .. 4 : at[k] \cap avail = {}
      /\ \A j, k \in 1 .. 4 : j # k => at[j] \cap at[k] = {}
      /\ \A m, n \in Live : root[m] = root[n] => m = n

\* Maps share nothing but the PDPTs of the kernel's half, each at the same
\* PML4 entry in all maps; every other structure has one entry that leads to it.
SharedOnlyAbove ==
  LET at == Structures
      To(l) == tables[l[1]][l[2]].to
  IN  /\ \A l, k \in Links(at[4]) :
           To(l) = To(k) => l[2] = k[2] /\ (l = k \/ l[2] >= Boundary)
      /\ \A l, k \in Links(at[3] \cup at[2]) : To(l) = To(k) => l = k

\* What a map copied of the kernel's half stays common: below the PML4 entries it
\* took from its parent, the two translate alike after any mapping, unmapping or
\* deletion by either of them.  Of the entries that the parent had not set at the
\* time this says nothing; KernelAlwaysMapped does.
CopiedStaysCommon ==
  \A m \in Live : \A v \in Watched :
    Index(v, 4) \in copied[m] => TranslationIn(m, v) = TranslationIn(parent[m], v)

\* "We'll copy every PML4 entry in the parent map above the kernel split into this
\* one, so that kernel addresses are always mapped" (PageTable.cpp:24-25), and "all
\* subsequently allocated maps will use the kernel map for the upper (kernel) part
\* of its address space" (Map.h:73-75): what the kernel map maps of the kernel's
\* half, every map translates the same way.
KernelAlwaysMapped ==
  \A m \in Live : \A v \in Watched :
    IsKernel(v) /\ TranslationIn(KernelMap, v) # Absent
      => TranslationIn(m, v) = TranslationIn(KernelMap, v)

\* No address of the kernel's half can be reached by user code, whatever mode it
\* was mapped with: the structures above it grant user access only below
\* KernelBoundary (PageTable.cpp:169-172).
KernelIsSupervisor ==
  \A m \in Live : \A v \in Watched :
    IsKernel(v) => ~UserAccess(tables, root[m], v)

\* A cached translation is the one the active map has, except for the pages a
\* VFree in progress is about to flush: VFree's pages go back to the allocator
\* only when the processor cannot reach them (PageAllocator.cpp:171-174).
CacheFollowsTables ==
  \A v \in DOMAIN tlb :
    ~(job.op \in {"unmap", "flush"} /\ v \in job.first .. job.last)
      => tlb[v] = TranslationIn(current, v)

\* A map's reference count is its maker's reference, one per live map it is the
\* parent of, and one that is being dropped: a parent lives as long as its
\* children, and no map outlives its last reference.
ReferencesCounted ==
  \A m \in Maps :
    refs[m] = (IF m \in owned THEN 1 ELSE 0)
              + Cardinality({c \in Live : parent[c] = m})
              + (IF job.op = "drop" /\ job.map = m THEN 1 ELSE 0)

-----------------------------------------------------------------------------
(* The refinement of AddressSpaces.                                        *)

\* A slot of a map shows the PDPT its PML4 entry leads to.
View == [m \in Maps |-> [s \in Indexes |->
           IF refs[m] > 0 THEN tables[root[m]][s].to ELSE 0]]

\* The pages are told apart by where they are below their PML4 entry.
Offsets == {v % Reach(4) : v \in Watched}

Content ==
  [w \in Frames |-> [o \in Offsets |->
     Mapped(PathBelow(tables, Entry("table", w, TRUE, FALSE), o))]]

Spaces == INSTANCE AddressSpaces WITH
            Slots <- Indexes, KernelSlots <- {i \in Indexes : i >= Boundary},
            Windows <- Frames, NoWindow <- 0, Nothing <- Absent,
            view <- View, content <- Content

\* Maps translate as AddressSpaces says: a call changes one offset of one window,
\* the maps that show it are those that had it when they were made, and the
\* rest of the memory the structures share with the allocator stays out of it.
ImplementsAddressSpaces == Spaces!Spec
=============================================================================
