----------------------------- MODULE PageTables -----------------------------
(***************************************************************************)
(* The four levels of paging structures of pc-uefi's Vm/PageTable.cpp, as  *)
(* they lie in physical memory.  A virtual address is a page number (all   *)
(* addresses here are canonical; every operation refuses others before it  *)
(* does anything).  Level 4 is the PML4, 3 a PDPT, 2 a PDT, 1 a page table.*)
(***************************************************************************)
EXTENDS Integers, FiniteSets

CONSTANTS
  TableEntries,    \* entries of a paging structure (512)
  ApertureTables,  \* PDPTs of the physical aperture (4)
  Frames,          \* the pages AllocPage can get from the physical allocator
  Recognised       \* those FreePages takes back (Region::contains)

ASSUME TablesAssumption ==
  /\ TableEntries \in Nat \ {0, 1}
  /\ ApertureTables \in 0 .. (TableEntries \div 2)
  /\ Frames \subseteq Nat \ {0}     \* page 0 counts as a failure
  /\ IsFiniteSet(Frames)
  /\ Cardinality(Frames) > ApertureTables  \* enough to boot
  /\ Recognised \subseteq Frames

VARIABLES
  tables,          \* what each page of Frames holds
  avail            \* the pages the physical allocator has available

memory == <<tables, avail>>

Indexes == 0 .. (TableEntries - 1)

\* The first PML4 entry of the kernel's half (0x100).
Boundary == TableEntries \div 2

\* The pages below one entry of a level, and the entry of that level for v.
Reach(level) ==
  LET T == TableEntries IN <<1, T, T * T, T * T * T>>[level]
Index(v, level) == (v \div Reach(level)) % TableEntries

IsKernel(v) == Index(v, 4) >= Boundary

\* The canonical addresses: mapPage, unmapPage and getPhysAddr refuse others.
VirtualPages == TableEntries * Reach(4)

-----------------------------------------------------------------------------
(* Entries.  No-execute is never used (kNoExecuteEnabled is false), so an  *)
(* entry grants write and user access or not.                              *)

Entry(kind, to, write, user) ==
  [kind |-> kind, to |-> to, write |-> write, user |-> user]

Absent == Entry("absent", 0, FALSE, FALSE)

\* A 1G page of the aperture.
Large(page) == Entry("large", page, TRUE, FALSE)

\* The mapping of one page.
Leaf(page, mode) == Entry("page", page, "write" \in mode, "user" \in mode)

\* A link to a structure; below the kernel's half it lets user accesses pass.
\* Mutant: the address compared with KernelBoundary is cut to 48 bits.
LinkMasked(f, v) == Entry("table", f, TRUE, TRUE)

Link(f, v) == Entry("table", f, TRUE, ~IsKernel(v))

-----------------------------------------------------------------------------
(* A state of the memory is a record [tables, avail, at], at being the     *)
(* structure a walk has reached.                                           *)

Memory(root) == [tables |-> tables, avail |-> avail, at |-> root]

\* The allocator hands out its lowest page.
Lowest(pages) == CHOOSE f \in pages : \A g \in pages : f <= g
Nth(pages, n) == CHOOSE f \in pages : Cardinality({g \in pages : g < f}) = n

\* Mutant: the page is not zeroised.
FreshUncleared(mem) == [mem EXCEPT !.avail = @ \ {Lowest(mem.avail)}]

\* PageTable::AllocPage
Fresh(mem) ==
  [mem EXCEPT !.avail = @ \ {Lowest(mem.avail)},
              !.tables[Lowest(mem.avail)] = [i \in Indexes |-> Absent]]

EntryAt(mem, v, level) == mem.tables[mem.at][Index(v, level)]

\* One level of mapPage: add the structure below when there is none, go there.
Descend(mem, v, level) ==
  IF EntryAt(mem, v, level).kind # "absent"
  THEN [mem EXCEPT !.at = EntryAt(mem, v, level).to]
  ELSE LET f == Lowest(mem.avail)
       IN  [Fresh(mem) EXCEPT !.tables[mem.at][Index(v, level)] = Link(f, v),
                              !.at = f]

\* The page table of v, with what mapPage has to add to get there.
PageTableOf(mem, v) == Descend(Descend(Descend(mem, v, 4), v, 3), v, 2)

-----------------------------------------------------------------------------
(* The walk the processor and getPhysAddr do: path[k] is the entry of      *)
(* level k, absent below one that is not a link.                           *)

Follow(tab, e, v, level) ==
  IF e.kind = "table" THEN tab[e.to][Index(v, level)] ELSE Absent

PathBelow(tab, e4, v) ==
  LET e3 == Follow(tab, e4, v, 3)
      e2 == Follow(tab, e3, v, 2)
      e1 == Follow(tab, e2, v, 1)
  IN  <<e1, e2, e3, e4>>

Path(tab, root, v) == PathBelow(tab, tab[root][Index(v, 4)], v)

\* What v translates to: the entry that is not a link, if it is a page.
Mapped(path) == IF path[3].kind = "large" THEN path[3]
                ELSE IF path[2].kind = "large" THEN path[2] ELSE path[1]

Translation(tab, root, v) == Mapped(Path(tab, root, v))

\* User code can reach v: every level has to grant it.
UserAccess(tab, root, v) ==
  /\ Translation(tab, root, v).user
  /\ \A k \in 2 .. 4 : Path(tab, root, v)[k].kind = "table"
                         => Path(tab, root, v)[k].user

\* How many structures mapPage has to add for v.
Missing(tab, root, v) ==
  Cardinality({k \in 2 .. 4 : Path(tab, root, v)[k].kind = "absent"})

\* v lies in a large page (mapPage fails with -1002 or -1003).
InLargePage(tab, root, v) == Translation(tab, root, v).kind = "large"

-----------------------------------------------------------------------------
(* The operations on the structures below root.                            *)

MapPage(root, v, leaf) ==
  LET mem == PageTableOf(Memory(root), v)
  IN  /\ ~InLargePage(tables, root, v)
      /\ Missing(tables, root, v) <= Cardinality(avail)
      /\ tables' = [mem.tables EXCEPT ![mem.at][Index(v, 1)] = leaf]
      /\ avail' = mem.avail

\* A large page, or AllocPage finds no page: callers do not survive either.
MapPageFails(root, v) ==
  \/ InLargePage(tables, root, v)
  \/ Missing(tables, root, v) > Cardinality(avail)

\* unmapPage(v, true): the entry that maps v is cleared, large or not.
UnmapPage(root, v) ==
  LET path == Path(tables, root, v)
      level == CHOOSE k \in 1 .. 3 : path[k].kind \in {"page", "large"}
  IN  /\ tables' = IF Translation(tables, root, v) = Absent THEN tables
                   ELSE [tables EXCEPT ![path[level + 1].to][Index(v, level)] = Absent]
      /\ UNCHANGED avail

\* copyPml4Upper.
\* Mutant: the copy starts one entry late.
CopiedLate(parent) ==
  [i \in Indexes |-> IF i > Boundary THEN tables[parent][i] ELSE Absent]

\* Mutant: the whole PML4 is copied.
CopiedWhole(parent) == tables[parent]

Copied(parent) ==
  [i \in Indexes |-> IF i >= Boundary THEN tables[parent][i] ELSE Absent]

\* A new PML4 with the upper half of a parent's.
TableFrom(parent) ==
  /\ avail # {}
  /\ tables' = [tables EXCEPT ![Lowest(avail)] = Copied(parent)]
  /\ avail' = avail \ {Lowest(avail)}

\* mapPhysAperture: the i-th PDPT maps all of the i-th 512G, in 1G pages.
ApertureTable(i) ==
  [j \in Indexes |-> Large(i * Reach(4) + j * Reach(3))]

\* The first PML4 has no parent and gets the aperture.
FirstTable ==
  LET pdpt(i) == Nth(avail, i + 1)
      slots == 0 .. (ApertureTables - 1)
      pml4 == [j \in Indexes |->
                 IF j - Boundary \in slots
                 THEN Entry("table", pdpt(j - Boundary), TRUE, FALSE) ELSE Absent]
  IN  /\ Cardinality(avail) > ApertureTables
      /\ tables' = [f \in Frames |->
                      IF f = Lowest(avail) THEN pml4
                      ELSE IF \E i \in slots : f = pdpt(i)
                           THEN ApertureTable(CHOOSE i \in slots : f = pdpt(i))
                           ELSE tables[f]]
      /\ avail' = avail \ ({Lowest(avail)} \cup {pdpt(i) : i \in slots})

\* Mutant: the PDPTs are given back as well.
FreeTablesBelow(roots) ==
  /\ avail' = avail \cup
       ((roots \cup {tables[f][i].to : f \in roots, i \in Indexes}) \cap Recognised)
  /\ UNCHANGED tables

\* ~PageTable gives back the PML4 and no other structure.
FreeTables(roots) ==
  /\ avail' = avail \cup (roots \cap Recognised)
  /\ UNCHANGED tables
=============================================================================
