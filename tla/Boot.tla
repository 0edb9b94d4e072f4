-------------------------------- MODULE Boot --------------------------------
(***************************************************************************)
(* The way from the loader to Kernel::Start (Boot/Entry.cpp, Init.cpp) on  *)
(* one machine of `Machines`: the memory map becomes the physical          *)
(* allocator's regions, the kernel's page tables are built and switched    *)
(* to, and the outputs of the console change with them.  Addresses and     *)
(* lengths are in pages.  While Start runs, kernel code may log, allocate, *)
(* or cause an exception, and non-maskable interrupts and machine checks   *)
(* come at any time.                                                       *)
(*                                                                         *)
(* A virtual address is an area of the kernel's layout and a page in it.   *)
(* Each area has paging structures of its own and needs one at each of the *)
(* three levels below the PML4.                                            *)
(***************************************************************************)
EXTENDS Consoles, CmdLine, Traps, Backtraces

CONSTANTS
  Machines,        \* what the loader reports, the processor, and what happens
  MinRegion,       \* kMinPhysicalRegionSize
  Bound,           \* kPhysAllocationBound
  EarlyLimit,      \* the loader's tables map what is below (4 GB)
  PagesPerBitmapPage,
  MaxRegions,      \* Pool::kMaxRegions (16)
  AperturePages,   \* PDPTs of the physical aperture (4)
  PageBytes,
  Sections,        \* of the kernel image, [bytes, mode]
  KernelPhys,      \* where the image is
  FbPhys, FbPages,
  ZonePages,       \* pages of a zone allocator's region (4)
  Messages         \* what kernel code logs, [level, cmds]

ASSUME BootAssumption ==
  /\ {Bound, EarlyLimit, MaxRegions, AperturePages, KernelPhys, FbPages, ZonePages}
       \subseteq Nat
  /\ Bound < EarlyLimit
  /\ {MinRegion, PagesPerBitmapPage, PageBytes} \subseteq Nat \ {0}
  /\ Sections \in Seq([bytes : Nat, mode : {"RX", "R", "RW"}]) /\ Sections # << >>
  /\ \A m \in Machines :
       /\ m.entries \in Seq([base : Nat, length : Nat, usable : BOOLEAN])
       /\ m.work \in Nat
       /\ m.terminal \in BOOLEAN
       /\ m.vectors \subseteq {Exc[name] : name \in DOMAIN Exc}  \* those there are
       /\ \A i, j \in DOMAIN m.entries :  \* no page is usable twice
            i # j /\ m.entries[i].usable /\ m.entries[j].usable =>
              \/ m.entries[i].base + m.entries[i].length <= m.entries[j].base
              \/ m.entries[j].base + m.entries[j].length <= m.entries[i].base

ASSUME CommandLineAssumption ==
  \A m \in Machines : /\ m.args \in Seq(Argument)
                       /\ \A i \in DOMAIN m.args : Legible(m.args[i])

VARIABLES
  machine,
  pc,           \* the step of _osentry to take next
  step,         \* iterations of the current loop done
  regions,      \* of the physical allocator, [base, length]
  bitmapAt,     \* their bitmap pointers: a metadata page, or Identity
  nextBitmap,   \* gBitmapStart
  taken,        \* pages handed out
  structures,   \* paging structures of the kernel map, (area, level)
  mappings,     \* its pages, [area, page, phys, mode]
  offset,       \* of the next section in the image: kernelVirtBase and kernelPhysBase
  kernelMap,    \* the kernel map exists
  active,       \* the page tables in use
  gIsEarlyBoot,
  gFb,          \* Console::SetFramebuffer was called
  cpu,          \* the bootstrap processor, see Traps
  symbols,      \* see Backtraces
  trap,         \* history: the first exception, [vector, delivered, state]
  work,         \* what kernel code did while Start ran, up to machine.work
  interrupts    \* exceptions from outside, up to machine.interrupts

memoryVars == <<regions, bitmapAt, nextBitmap, taken, structures, mappings, offset>>
trapVars == <<cpu, symbols, trap, work, interrupts>>
bootVars == <<machine, pc, step, memoryVars, kernelMap, active,
              gIsEarlyBoot, gFb, trapVars>>
vars == <<consoleVars, bootVars>>

Identity == -1

\* No other code runs while a message is being written or after a panic.
At_(where) == pc = where /\ calls = << >> /\ ~halted /\ reason = NoReason

\* The sums of the first i numbers in s, for every i.
Totals(s) ==
  LET total[i \in 0 .. Len(s)] == IF i = 0 THEN 0 ELSE total[i - 1] + s[i]
  IN  total

Pages(bytes) == (bytes + PageBytes - 1) \div PageBytes

keepPc == <<machine, step, memoryVars, kernelMap, active, gIsEarlyBoot, gFb, trapVars>>

-----------------------------------------------------------------------------
(* Console::Init and Kernel::Console::Init, Processor::VerifyFeatures.     *)

\* The loader hands the command line over with the kernel's file.
CommandLine(m) == IF m.file = NoFile THEN << >> ELSE m.args

ConsoleInit ==
  /\ At_("console")
  /\ gTerminalWrite' = machine.terminal
  /\ gDebugconPort' = ParseCmd(Line(CommandLine(machine)))
  /\ pc' = "build"
  /\ UNCHANGED <<keepPc, gFbCons, con, buf, calls, reason, halted, wanted>>

\* A step that only logs.
Announce(from, level, cmds, to) ==
  /\ At_(from)
  /\ Say(level, cmds)
  /\ pc' = to
  /\ UNCHANGED keepPc

NoteBuild == Announce("build", "Notice", Glyphs(<<75>>) \o LineBreak, "platform")
NotePlatform == Announce("platform", "Notice", Glyphs(<<80>>), "symbols")

\* Backtrace::Init, with one warning for all that may be wrong with the file.
BacktraceInit ==
  /\ At_("symbols")
  /\ symbols' = IF machine.file = NoFile THEN symbols
                ELSE ParseKernelElf(symbols, machine.file)
  /\ IF Symbolicates(symbols') THEN UNCHANGED consoleVars
     ELSE Say("Warning", Glyphs(<<83>>))
  /\ pc' = "features"
  /\ UNCHANGED <<machine, step, memoryVars, kernelMap, active, gIsEarlyBoot, gFb,
                 cpu, trap, work, interrupts>>

\* A step that panics unless `why` is NoReason.
Unless(why, progress) ==
  IF why = NoReason THEN progress ELSE Panic(why) /\ UNCHANGED bootVars

kRequiredCpuFeatures ==
  {"APIC", "POPCNT", "CMPXCHG16B", "SSE 4", "XSAVE", "global pages", "PAT"}

VerifyFeatures ==
  /\ At_("features")
  /\ Unless(IF kRequiredCpuFeatures \subseteq machine.features THEN NoReason ELSE "features",
            pc' = "gdt" /\ UNCHANGED <<keepPc, consoleVars>>)

\* A step that sets the processor up.
SetsUp(from, to, processor) ==
  /\ At_(from)
  /\ cpu' = processor
  /\ pc' = to
  /\ UNCHANGED <<machine, step, memoryVars, kernelMap, active, gIsEarlyBoot, gFb,
                 symbols, trap, work, interrupts, consoleVars>>

SetUpGdt == SetsUp("gdt", "idt", GdtInit(cpu))
SetUpIdt == SetsUp("idt", "memory", IdtInit(cpu))

-----------------------------------------------------------------------------
(* InitPhysAllocator.                                                      *)

Skipped(e) ==
  ~e.usable \/ e.length < MinRegion \/ e.base + e.length < Bound

\* Mutant: the length is not reduced with the base.
ClippedBase(e) ==
  [base |-> IF e.base < Bound THEN Bound ELSE e.base, length |-> e.length]

Clipped(e) ==
  LET diff == IF e.base < Bound THEN Bound - e.base ELSE 0
  IN  [base |-> e.base + diff, length |-> e.length - diff]

\* Pool::addRegion and the constructor of Region, which reaches the bitmap by
\* PhysicalMap::Add.
AddRegionFails(r) ==
  IF Len(regions) = MaxRegions THEN "no more regions"
  ELSE IF r.length = 0 THEN "length"
  ELSE IF r.base >= EarlyLimit THEN "early limit"
  ELSE NoReason

AddEntry ==
  /\ At_("memory") /\ step < Len(machine.entries)
  /\ LET e == machine.entries[step + 1]
         next == step' = step + 1 /\ UNCHANGED <<machine, pc, nextBitmap, taken,
                   structures, mappings, offset, kernelMap, active, gIsEarlyBoot,
                   gFb, trapVars, consoleVars>>
     IN  IF Skipped(e) THEN next /\ UNCHANGED <<regions, bitmapAt>>
         ELSE Unless(AddRegionFails(Clipped(e)),
                /\ next
                /\ regions' = Append(regions, Clipped(e))
                /\ bitmapAt' = Append(bitmapAt, Identity))

EntriesDone ==
  /\ At_("memory") /\ step = Len(machine.entries)
  /\ Unless(IF step = 0 THEN "no memory map" ELSE NoReason,
            Announce("memory", "Notice", Glyphs(<<77>>), "kernelVm"))

-----------------------------------------------------------------------------
(* Pages of the physical allocator, for paging structures and for VAlloc.  *)

\* (What PhysAlloc says of bits past a region's end is left out.)
BitmapPages(r) == (r.length + PagesPerBitmapPage - 1) \div PagesPerBitmapPage
Allocatable(r) == r.length - BitmapPages(r)
PagesBefore(i) == Totals([j \in DOMAIN regions |-> Allocatable(regions[j])])[i - 1]

\* The regions that are searched for the next n pages: a search reads the
\* bitmaps in order until it has enough.
Searched(n) == {i \in DOMAIN regions : taken + n > PagesBefore(i)}

\* Bitmaps are found by identity under the loader's tables and by their
\* metadata page under the kernel's; so are paging structures (GetTableVmAddr),
\* by identity and by the aperture.
BitmapReadable(i) == (bitmapAt[i] = Identity) = (active = "loader")
TablesReadable == gIsEarlyBoot = (active = "loader")

\* Why n pages cannot be had, or NoReason.
AllocationFails(n) ==
  IF n = 0 THEN NoReason
  ELSE IF \E i \in Searched(n) : ~BitmapReadable(i) THEN "bitmap"
  ELSE IF taken + n > PagesBefore(Len(regions) + 1) THEN "memory"
  ELSE IF ~TablesReadable THEN "tables"
  ELSE NoReason

Levels == {"pdpt", "pdt", "pt"}
Missing(area) == ({area} \X Levels) \ structures

\* Map::add of a ContiguousPhysRegion, as far as the mappings go.
Mapped(area, first, phys, n, mode) ==
  {[area |-> area, page |-> first + i, phys |-> phys + i, mode |-> mode] :
     i \in 0 .. n - 1}

MapRegion(area, first, phys, n, mode) ==
  /\ mappings' = mappings \cup Mapped(area, first, phys, n, mode)
  /\ structures' = structures \cup Missing(area)
  /\ taken' = taken + Cardinality(Missing(area))

AddFails(area) == AllocationFails(Cardinality(Missing(area)))

-----------------------------------------------------------------------------
(* InitKernelVm and PopulateKernelVm.                                      *)

InitKernelVm ==
  /\ At_("kernelVm")
  /\ Unless(AllocationFails(1 + AperturePages),
        /\ taken' = taken + 1 + AperturePages
        /\ kernelMap' = TRUE
        /\ pc' = "sections" /\ step' = 0
        /\ UNCHANGED <<machine, regions, bitmapAt, nextBitmap, structures, mappings,
                       offset, active, gIsEarlyBoot, gFb, trapVars, consoleVars>>)

\* Where the section after the i-th begins.
\* Mutant: the size is not rounded up to pages.
NextOffsetUnrounded(i) == offset + Sections[i].bytes \div PageBytes

NextOffset(i) == offset + Pages(Sections[i].bytes)

MapKernelSection ==
  /\ At_("sections")
  /\ Unless(IF machine.located THEN AddFails("image") ELSE "kernel address",
        LET i == step + 1
        IN  /\ MapRegion("image", offset, KernelPhys + offset,
                         Pages(Sections[i].bytes), Sections[i].mode)
            /\ offset' = NextOffset(i)
            /\ pc' = IF i = Len(Sections) THEN "image" ELSE pc
            /\ step' = i
            /\ UNCHANGED <<machine, regions, bitmapAt, nextBitmap, kernelMap, active,
                           gIsEarlyBoot, gFb, trapVars, consoleVars>>)

\* Symbolication is switched off: the kernel's file is not mapped, and what was
\* found in it is forgotten.
WarnNoImage ==
  /\ At_("image")
  /\ Say("Warning", Glyphs(<<73>>))
  /\ symbols' = ParseKernelElf(symbols, NoFile)
  /\ pc' = "findFb"
  /\ UNCHANGED <<machine, step, memoryVars, kernelMap, active, gIsEarlyBoot, gFb,
                 cpu, trap, work, interrupts>>

\* Without a framebuffer PopulateKernelVm returns here.
FindFramebuffer ==
  /\ At_("findFb")
  /\ IF machine.framebuffers = 1 THEN UNCHANGED consoleVars
     ELSE Say("Warning", Glyphs(<<70>>))
  /\ pc' = IF machine.framebuffers = 0 THEN "prepare" ELSE "noteFb"
  /\ UNCHANGED keepPc

NoteFramebuffer == Announce("noteFb", "Notice", Glyphs(<<70>>), "mapFb")

MapFramebuffer ==
  /\ At_("mapFb")
  /\ Unless(AddFails("framebuffer"),
        /\ MapRegion("framebuffer", 0, FbPhys, FbPages, "RW")
        /\ gFb' = TRUE
        /\ pc' = "remap" /\ step' = 0
        /\ UNCHANGED <<machine, regions, bitmapAt, nextBitmap, offset, kernelMap, active,
                       gIsEarlyBoot, trapVars, consoleVars>>)

\* Pages from one bitmap to the next: a guard page is between them.
Advance(r) == BitmapPages(r) + 1

\* RemapTo.  The pointer changes here, though the kernel's tables are not in
\* use yet.
RemapRegion ==
  /\ At_("remap")
  /\ Unless(AddFails("metadata"),
        LET i == step + 1
            r == regions[i]
        IN  /\ MapRegion("metadata", nextBitmap, r.base, BitmapPages(r), "RW")
            /\ bitmapAt' = [bitmapAt EXCEPT ![i] = nextBitmap]
            /\ nextBitmap' = nextBitmap + Advance(r)
            /\ pc' = IF i = Len(regions) THEN "prepare" ELSE pc
            /\ step' = i
            /\ UNCHANGED <<machine, regions, offset, kernelMap, active, gIsEarlyBoot,
                           gFb, trapVars, consoleVars>>)

-----------------------------------------------------------------------------
(* The switch to the kernel's tables.                                      *)

\* Mutant: the terminal is switched off after the tables are.
PrepareNothing ==
  /\ At_("prepare")
  /\ pc' = "locals"
  /\ UNCHANGED <<keepPc, consoleVars>>

\* Only the terminal and the port see what PrepareForVm writes.
PrepareConsole ==
  /\ At_("prepare")
  /\ PrepareForVm
  /\ pc' = "locals"
  /\ UNCHANGED keepPc

SetUpLocals == SetsUp("locals", "activate", LocalsInit(cpu))

\* Map::activate looks for the map in use in the processor's locals.
Activate ==
  /\ At_("activate") /\ cpu.gs = "locals"
  /\ active' = "kernel"
  /\ pc' = "early"
  /\ UNCHANGED <<machine, step, memoryVars, kernelMap, gIsEarlyBoot, gFb, trapVars,
                 consoleVars>>

\* Mutant: paging structures are still reached by their physical addresses.
FinishedNothing ==
  /\ At_("early")
  /\ pc' = "enabled"
  /\ UNCHANGED <<keepPc, consoleVars>>

FinishedEarlyBoot ==
  /\ At_("early")
  /\ gIsEarlyBoot' = FALSE
  /\ pc' = "enabled"
  /\ UNCHANGED <<machine, step, memoryVars, kernelMap, active, gFb, trapVars, consoleVars>>

EnableConsole ==
  /\ At_("enabled")
  /\ VmEnabled(gFb)
  /\ pc' = "cpus"
  /\ UNCHANGED keepPc

NoteCpus ==
  Announce("cpus", IF machine.smp THEN "Notice" ELSE "Warning", Glyphs(<<78>>),
           "banner")

-----------------------------------------------------------------------------
(* Kernel::Start.                                                          *)

Fg(i) == Painted(<<[what |-> "fg", index |-> i]>>)

BannerText == Glyphs(<<87>>) \o Fg(1) \o Glyphs(<<107>>) \o Fg(11) \o Glyphs(<<115>>)
                \o Painted(<<[what |-> "reset", index |-> 0]>>) \o Glyphs(<<33>>)

PrintBanner == Announce("banner", "Notice", BannerText, "revision")
PrintRevision == Announce("revision", "Notice", Glyphs(<<82>>) \o LineBreak, "start")

\* Code that Start is to run one day may use what has been set up.
Works ==
  /\ At_("start") /\ work < machine.work
  /\ work' = work + 1

KernelLogs(m) ==
  /\ Works
  /\ Say(m.level, m.cmds)
  /\ UNCHANGED <<machine, pc, step, memoryVars, kernelMap, active, gIsEarlyBoot, gFb,
                 cpu, symbols, trap, interrupts>>

\* A zone allocator takes a region from VAlloc.
KernelAllocates ==
  /\ At_("start") /\ work < machine.work
  /\ Unless(AllocationFails(ZonePages + Cardinality(Missing("valloc"))),
        /\ Works
        /\ structures' = structures \cup Missing("valloc")
        /\ taken' = taken + ZonePages + Cardinality(Missing("valloc"))
        /\ UNCHANGED <<machine, pc, step, regions, bitmapAt, nextBitmap, mappings,
                       offset, kernelMap, active, gIsEarlyBoot, gFb, cpu, symbols, trap,
                       interrupts, consoleVars>>)

-----------------------------------------------------------------------------
(* Exceptions.                                                             *)

SymbolsReadable == Symbolicates(symbols) => active = "loader"

\* Manager::HandleFault: VAlloc's area aborts, with a backtrace of the
\* interrupted code; any other address goes to the current map, whose
\* getEntryAt always fails.
HandleFault(area) ==
  IF area # "valloc" THEN "map fault"
  ELSE IF SymbolsReadable THEN "fault in valloc" ELSE "symbols"

\* Exceptions::Handler::Dispatch aborts, with such a backtrace, too.
HandleException(irq) ==
  IF irq \in DOMAIN Dispatched /\ ~SymbolsReadable THEN "symbols" ELSE Handle(irq)

\* The processor takes an exception; without a way to the handler it is reset.
Take(vector, area) ==
  LET delivered == Delivers(cpu, vector)
      state == State(cpu, vector)
      why == IF vector = Exc.PAGING THEN HandleFault(area) ELSE HandleException(state.irq)
      happened == [vector |-> vector, delivered |-> delivered,
                   state |-> IF delivered THEN state ELSE << >>]
  IN  /\ trap' = IF reason = NoReason THEN happened ELSE trap
      /\ IF delivered THEN PanicOn(cpu.idt[vector].ist, why)
         ELSE UNCHANGED consoleVars
      /\ UNCHANGED <<machine, pc, step, memoryVars, kernelMap, active, gIsEarlyBoot,
                     gFb, cpu, symbols, work>>

PageFault(area) ==
  /\ At_("start") /\ work < machine.work
  /\ Take(Exc.PAGING, area)
  /\ UNCHANGED interrupts

Exception(vector) ==
  /\ At_("start") /\ work < machine.work
  /\ Take(vector, "none")
  /\ UNCHANGED interrupts

\* What an interruption finds the framebuffer console at, besides single
\* characters.
Midway ==
  {phase \in {"scroll", "sequence"} :
     IF phase = "scroll" THEN \E i \in DOMAIN calls : calls[i].op = "scroll"
     ELSE gFbCons /\ con.writeState # "Idle"}

\* An exception that has nothing to do with what the processor does.  None comes
\* again while its handler runs.  (Before the kernel has its gates, they are the
\* loader's.)
Interrupt(vector) ==
  /\ cpu.idt # << >> /\ ~halted
  /\ \A i \in DOMAIN calls : calls[i].ist # cpu.idt[vector].ist
  /\ interrupts < machine.interrupts /\ Midway \subseteq machine.midway
  /\ Take(vector, "none")
  /\ interrupts' = interrupts + 1

StartReturns ==
  /\ At_("start")
  /\ Panic("returned")
  /\ UNCHANGED bootVars

-----------------------------------------------------------------------------
Init ==
  /\ ConsolesOff
  /\ machine \in Machines
  /\ pc = "console" /\ step = 0
  /\ regions = << >> /\ bitmapAt = << >> /\ nextBitmap = 0
  /\ taken = 0 /\ structures = {} /\ mappings = {} /\ offset = 0
  /\ kernelMap = FALSE
  /\ active = "loader" /\ gIsEarlyBoot = TRUE
  /\ gFb = FALSE
  /\ cpu = [gdt |-> << >>, limit |-> 0, task |-> 0, idt |-> << >>, gs |-> "none"]
  /\ symbols = NoSymbols
  /\ trap = << >>
  /\ work = 0 /\ interrupts = 0

\* Write loops, and the kernel's own code.
Writes == (WriteStep \/ Return(SymbolsReadable)) /\ UNCHANGED bootVars

Boots ==
  \/ ConsoleInit \/ NoteBuild \/ NotePlatform \/ BacktraceInit \/ VerifyFeatures
  \/ SetUpGdt \/ SetUpIdt
  \/ AddEntry \/ EntriesDone \/ InitKernelVm \/ MapKernelSection
  \/ WarnNoImage \/ FindFramebuffer \/ NoteFramebuffer \/ MapFramebuffer
  \/ RemapRegion \/ PrepareConsole \/ SetUpLocals \/ Activate \/ FinishedEarlyBoot
  \/ EnableConsole \/ NoteCpus \/ PrintBanner \/ PrintRevision
  \/ StartReturns

Uses ==
  \/ \E m \in Messages : KernelLogs(m)
  \/ KernelAllocates
  \/ \E area \in {"valloc", "user"} : PageFault(area)
  \/ \E vector \in machine.vectors : Exception(vector)
  \/ \E vector \in {Exc.NMI, Exc.MCE} : Interrupt(vector)

Next == Writes \/ Boots \/ Uses

Spec == Init /\ [][Next]_vars

\* The write loops have nothing to wait for.
FairSpec == Spec /\ WF_calls(Writes)

\* The same, without the ENABLED that TLC evaluates slowly: Writes is enabled
\* whenever a message is being written.
LoopSpec == Spec /\ ([]<>(~Writing) \/ []<><<Writes>>_calls)

-----------------------------------------------------------------------------
Steps == {"console", "build", "platform", "symbols", "features", "gdt", "idt",
          "memory", "kernelVm", "sections", "image", "findFb", "noteFb", "mapFb", "remap", "prepare",
          "locals", "activate", "early", "enabled", "cpus", "banner", "revision", "start"}

\* Panics that a machine, not the kernel's later work, is the reason for.
BootFailures ==
  {"features", "no more regions", "length", "early limit", "no memory map",
   "kernel address", "bitmap", "memory", "tables", "memcpy", "fault", "symbols"}

\* The framebuffer console as messages leave it that move the cursor to places on
\* the screen only: the cursor is in a column of it and at most one row below
\* it, and a control sequence fits its buffer.
ConsoleTyped ==
  gFbCons => /\ con.cursorPos.x \in 0 .. Width - 1
             /\ con.cursorPos.y \in 0 .. Height
             /\ Len(con.ansiBuf) <= AnsiBufSize

\* The variables have their types, and the console's fields their ranges.
TypeOK ==
  /\ machine \in Machines /\ pc \in Steps /\ step \in Nat /\ work \in 0 .. machine.work
  /\ Len(bitmapAt) = Len(regions) /\ Len(regions) <= MaxRegions
  /\ \A i \in DOMAIN bitmapAt : bitmapAt[i] \in {Identity} \cup 0 .. nextBitmap
  /\ taken \in Nat /\ active \in {"loader", "kernel"}
  /\ {gTerminalWrite, gFbCons, gFb, kernelMap, gIsEarlyBoot, halted} \subseteq BOOLEAN
  /\ ConsoleTyped

PagesOf(r) == r.base .. r.base + r.length - 1

\* The physical allocator gets pages of usable memory only, none twice and none
\* below the bound, and once the memory map has been read every page above
\* the bound of a big enough entry (Boot/Entry.cpp, InitPhysAllocator).
RegionsUsable ==
  LET usable == {e \in {machine.entries[i] : i \in DOMAIN machine.entries} :
                   e.usable /\ e.length >= MinRegion}
      given == UNION {PagesOf(regions[i]) : i \in DOMAIN regions}
      above == {p \in UNION {PagesOf(e) : e \in usable} : p >= Bound}
  IN  /\ given \subseteq above
      /\ \A i, j \in DOMAIN regions :
           i # j => PagesOf(regions[i]) \cap PagesOf(regions[j]) = {}
      /\ kernelMap => given = above

\* The image as the linker lays it out: the page each section starts at.
Layout ==
  LET pages == [i \in DOMAIN Sections |-> Pages(Sections[i].bytes)]
  IN  [i \in DOMAIN Sections |-> Totals(pages)[i - 1]]

MappedAt(area, page) == {m \in mappings : m.area = area /\ m.page = page}

\* When the processor starts to use the kernel's tables, they map every page of
\* the image once, where it is and as its section demands, and each bitmap
\* that has moved, with nothing at the page after it (Boot/Entry.cpp,
\* MapKernelSections; Region::applyVirtualMap).
MapHoldsKernel ==
  active = "kernel" =>
    /\ \A i \in DOMAIN Sections : \A k \in 0 .. Pages(Sections[i].bytes) - 1 :
         MappedAt("image", Layout[i] + k)
           = {[area |-> "image", page |-> Layout[i] + k,
               phys |-> KernelPhys + Layout[i] + k, mode |-> Sections[i].mode]}
    /\ \A i \in {j \in DOMAIN regions : bitmapAt[j] # Identity} :
         /\ \A k \in 0 .. BitmapPages(regions[i]) - 1 :
              MappedAt("metadata", bitmapAt[i] + k)
                = {[area |-> "metadata", page |-> bitmapAt[i] + k,
                    phys |-> regions[i].base + k, mode |-> "RW"]}
         /\ MappedAt("metadata", bitmapAt[i] + BitmapPages(regions[i])) = {}

\* The console never writes to an output that the tables in use do not map: the
\* loader's terminal, or the framebuffer (Io/Console.cpp, PrepareForVm and
\* VmEnabled).
OutputsReachable ==
  /\ gTerminalWrite => active = "loader"
  /\ gFbCons => /\ active = "kernel"
                /\ \A p \in 0 .. FbPages - 1 : MappedAt("framebuffer", p) # {}

\* What is on the screen, as rows of characters with their colours.
Shown == [y \in 1 .. Height |-> [x \in 1 .. Width |->
            con.video[(y - 1) * Pitch + (x - 1)]]]

Meant(t) == [y \in 1 .. Height |-> [x \in 1 .. Width |->
              LET cell == t.rows[y][x]
              IN  <<cell[1], Pixel(cell[2]), Pixel(cell[3])>>]]

\* Between messages the screen shows what they describe, and the cursor and the
\* colours are where the last one left them: wrapped lines, scrolling, and
\* escape sequences that were cut off or unknown included
\* (FbCons/Sources/Console.cpp).
ShowsMessages ==
  calls = << >> /\ gFbCons =>
    LET t == T!DoAll(T!SwitchedOn, wanted)
    IN  /\ Shown = Meant(t)
        /\ con.cursorPos = [x |-> t.x, y |-> t.y]
        /\ con.colorIndices = [fg |-> t.fg, bg |-> t.bg]

\* A machine the kernel means to run on: the memory above the bound is within
\* reach of the loader's tables, in not too many pieces and enough for all of
\* the boot and the work after it.
Big(m) == {i \in DOMAIN m.entries : ~Skipped(m.entries[i])}
Supported(m) ==
  /\ kRequiredCpuFeatures \subseteq m.features /\ m.located /\ m.framebuffers > 0
  /\ Cardinality(Big(m)) <= MaxRegions
  /\ \A i \in Big(m) : /\ m.entries[i].base < EarlyLimit
                       /\ m.entries[i].base + m.entries[i].length > Bound
  /\ Totals([i \in DOMAIN m.entries |->
               IF i \in Big(m) THEN Allocatable(Clipped(m.entries[i])) ELSE 0])
         [Len(m.entries)]
       >= 1 + AperturePages + 4 * Cardinality(Levels) + m.work * ZonePages

\* No step of the boot fails on such a machine, and neither do allocations
\* and messages after it: bitmaps and paging structures are found before and
\* after the switch of tables.
SupportedBoots == Supported(machine) => reason \notin BootFailures

\* A panic halts the machine, whatever was being written when it happened
\* (Logging/Console.cpp, Panic).
PanicHalts == (reason # NoReason) ~> halted

\* What the first panic has to say for a vector, in the words of the kernel.
Reports(vector) ==
  CASE vector = 0 -> {"DivideByZero"}
    [] vector \in {1, 3} -> {"DebugBreakpoint"}
    [] vector = 2 -> {"Non-maskable interrupt"}
    [] vector \in {4, 5} -> {"Overflow"}
    [] vector = 6 -> {"InvalidOpcode"}
    [] vector = 7 -> {"Device unavailable (FPU)"}
    [] vector = 8 -> {"Double fault"}
    [] vector = 10 -> {"Invalid TSS"}
    [] vector = 11 -> {"Segment not present"}
    [] vector = 12 -> {"Invalid stack segment"}
    [] vector = 13 -> {"ProtectionFault"}
    [] vector = 14 -> {"fault in valloc", "map fault"}
    [] vector = 16 -> {"FloatingPoint"}
    [] vector = 17 -> {"AlignmentFault"}
    [] vector = 18 -> {"Machine check"}
    [] vector = 19 -> {"SIMD"}
    [] vector = 20 -> {"Virtualization exception"}

\* Whenever an exception happens once the kernel has its gates, it reaches a
\* handler that knows it for what it is and sees the registers of the
\* interrupted code (ExceptionHandlers.S and .cpp, Gdt.cpp, Idt.cpp).
ExceptionsReported ==
  trap # << >> =>
    /\ trap.delivered /\ reason \in Reports(trap.vector)
    /\ \A f \in DOMAIN trap.state \ {"irq", "errorCode"} : trap.state[f] = f
    /\ Exc[trap.state.irq] = trap.vector
    /\ trap.state.errorCode = IF trap.vector \in HasErrorCode THEN "errorCode" ELSE "zero"

\* The port that the last argument for a debug console names, 0 without one.
Asked(args) ==
  LET asking == {i \in DOMAIN args :
                   args[i].key = ConsoleKey /\ args[i].type = Debugcon}
  IN  IF asking = {} THEN 0 ELSE args[Max(asking)].number

\* The debug port is the one that the command line asks for, whatever
\* arguments are around it (Io/Console.cpp, ParseCmd).
PortAsAsked == pc # "console" => gDebugconPort = Asked(CommandLine(machine))
=============================================================================
