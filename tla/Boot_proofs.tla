----------------------------- MODULE Boot_proofs -----------------------------
(***************************************************************************)
(* Proofs about the boot, for all machines: which outputs are in use under *)
(* which page tables, what memory the physical allocator gets, what the    *)
(* kernel's tables map, what becomes of an exception, what a character     *)
(* leaves on the screen, and that no step fails for want of memory.        *)
(***************************************************************************)
EXTENDS Boot, CmdLine_proofs, FiniteSetTheorems, TLAPS

\* The steps of _osentry, by what has happened to the outputs and the tables.
WithTerminal ==
  {"console", "build", "platform", "symbols", "features", "gdt", "idt", "memory",
   "kernelVm", "sections", "image", "findFb", "noteFb", "mapFb", "remap", "prepare"}
WithNone == {"locals", "activate"}
Switched == {"early", "enabled"}
WithFbCons == {"cpus", "banner", "revision", "start"}

FbMapped == \A p \in 0 .. FbPages - 1 : MappedAt("framebuffer", p) # {}

OutputInv ==
  /\ pc \in WithTerminal \cup WithNone \cup Switched \cup WithFbCons
  /\ gTerminalWrite # FALSE => pc \in WithTerminal
  /\ active = IF pc \in WithTerminal \cup WithNone THEN "loader" ELSE "kernel"
  /\ gFbCons # FALSE => pc \in WithFbCons /\ FbMapped
  /\ gFb # FALSE => FbMapped

LEMMA InitOutputs == Init => OutputInv
BY DEF Init, ConsolesOff, OutputInv, WithTerminal

LEMMA StillMapped ==
  ASSUME FbMapped, mappings \subseteq mappings'
  PROVE  FbMapped'
BY DEF FbMapped, MappedAt

\* Steps that leave the outputs and the tables alone.
SamePhase ==
  \A S \in {WithTerminal, WithNone, Switched, WithFbCons} : pc \in S => pc' \in S

LEMMA QuietOutputs ==
  ASSUME OutputInv, UNCHANGED <<gTerminalWrite, gFbCons, active, gFb>>,
         mappings \subseteq mappings', SamePhase
  PROVE  OutputInv'
<1>1. FbMapped => FbMapped'
  BY StillMapped
<1>2. /\ pc \in WithTerminal => pc' \in WithTerminal
      /\ pc \in WithNone => pc' \in WithNone
      /\ pc \in Switched => pc' \in Switched
      /\ pc \in WithFbCons => pc' \in WithFbCons
  BY DEF SamePhase
<1>3. /\ pc' \in WithTerminal => pc' \notin WithNone \cup Switched \cup WithFbCons
      /\ pc' \in WithNone => pc' \notin Switched \cup WithFbCons
      /\ pc' \in Switched => pc' \notin WithFbCons
  BY DEF WithTerminal, WithNone, Switched, WithFbCons
<1>4. /\ pc \in WithTerminal => pc \notin WithNone \cup Switched \cup WithFbCons
      /\ pc \in WithNone => pc \notin Switched \cup WithFbCons
      /\ pc \in Switched => pc \notin WithFbCons
  BY DEF WithTerminal, WithNone, Switched, WithFbCons
<1>5. QED
  BY <1>1, <1>2, <1>3, <1>4 DEF OutputInv

LEMMA SamePc == pc' = pc => SamePhase
BY DEF SamePhase

LEMMA SayOutputs ==
  ASSUME NEW level, NEW cmds, Say(level, cmds)
  PROVE  UNCHANGED <<gTerminalWrite, gFbCons>>
BY DEF Say

LEMMA PanicOutputs ==
  /\ \A why : Panic(why) => UNCHANGED <<gTerminalWrite, gFbCons>>
  /\ \A ist, why : PanicOn(ist, why) => UNCHANGED <<gTerminalWrite, gFbCons>>
BY DEF Panic, PanicOn

\* A step that panics leaves the boot where it is.
LEMMA PanicKeeps ==
  ASSUME OutputInv, NEW why, Panic(why), UNCHANGED bootVars
  PROVE  OutputInv'
BY PanicOutputs, SamePc, QuietOutputs DEF bootVars, memoryVars

LEMMA WritesOutputs == OutputInv /\ Writes => OutputInv'
<1> SUFFICES ASSUME OutputInv, Writes PROVE OutputInv'
  OBVIOUS
<1>1. UNCHANGED <<gTerminalWrite, gFbCons>>
  BY DEF Writes, WriteStep, Return
<1>2. UNCHANGED <<pc, active, gFb, mappings>>
  BY DEF Writes, bootVars, memoryVars
<1>3. QED
  BY <1>1, <1>2, SamePc, QuietOutputs

LEMMA UsesOutputs == OutputInv /\ Uses => OutputInv'
<1> SUFFICES ASSUME OutputInv, Uses PROVE OutputInv'
  OBVIOUS
<1>1. ASSUME NEW m \in Messages, KernelLogs(m) PROVE OutputInv'
  <2>1. UNCHANGED <<gTerminalWrite, gFbCons, pc, active, gFb, mappings>>
    BY <1>1, SayOutputs DEF KernelLogs, memoryVars
  <2>2. QED
    BY <2>1, SamePc, QuietOutputs
<1>2. CASE KernelAllocates
  <2>1. CASE AllocationFails(ZonePages + Cardinality(Missing("valloc"))) = NoReason
    <3>1. UNCHANGED <<gTerminalWrite, gFbCons, pc, active, gFb, mappings>>
      BY <1>2, <2>1 DEF KernelAllocates, Unless, consoleVars
    <3>2. QED
      BY <3>1, SamePc, QuietOutputs
  <2>2. CASE AllocationFails(ZonePages + Cardinality(Missing("valloc"))) # NoReason
    BY <1>2, <2>2, PanicKeeps DEF KernelAllocates, Unless
  <2>3. QED
    BY <2>1, <2>2
<1>3. ASSUME NEW vector, NEW area, Take(vector, area) PROVE OutputInv'
  <2>1. UNCHANGED <<gTerminalWrite, gFbCons, pc, active, gFb, mappings>>
    BY <1>3, PanicOutputs DEF Take, memoryVars, consoleVars
  <2>2. QED
    BY <2>1, SamePc, QuietOutputs
<1>4. QED
  BY <1>1, <1>2, <1>3 DEF Uses, PageFault, Exception, Interrupt

\* Steps that say something, or nothing, and go on.
LEMMA SpokenOutputs ==
  ASSUME OutputInv, UNCHANGED <<gTerminalWrite, gFbCons, active, gFb, mappings>>,
         NEW S \in {WithTerminal, WithNone, Switched, WithFbCons}, pc \in S, pc' \in S
  PROVE  OutputInv'
<1>1. SamePhase
  BY DEF SamePhase, WithTerminal, WithNone, Switched, WithFbCons
<1>2. QED
  BY <1>1, QuietOutputs

LEMMA NotesOutputs ==
  ASSUME OutputInv, NEW S \in {WithTerminal, WithNone, Switched, WithFbCons},
         NEW from \in S, NEW to \in S, NEW level, NEW cmds, Announce(from, level, cmds, to)
  PROVE  OutputInv'
<1>1. /\ UNCHANGED <<gTerminalWrite, gFbCons, active, gFb, mappings>>
      /\ pc = from /\ pc' = to
  BY SayOutputs DEF Announce, At_, keepPc, memoryVars
<1>2. QED
  BY <1>1, SpokenOutputs

LEMMA SetsUpOutputs ==
  ASSUME OutputInv, NEW S \in {WithTerminal, WithNone, Switched, WithFbCons},
         NEW from \in S, NEW to \in S, NEW processor, SetsUp(from, to, processor)
  PROVE  OutputInv'
<1>1. /\ UNCHANGED <<gTerminalWrite, gFbCons, active, gFb, mappings>>
      /\ pc = from /\ pc' = to
  BY DEF SetsUp, At_, memoryVars, consoleVars
<1>2. QED
  BY <1>1, SpokenOutputs

\* Up to the switch of tables, but for the framebuffer.
LEMMA EarlyOutputs ==
  ASSUME OutputInv,
         \/ ConsoleInit \/ NoteBuild \/ NotePlatform \/ BacktraceInit \/ VerifyFeatures
         \/ SetUpGdt \/ SetUpIdt \/ AddEntry \/ EntriesDone \/ InitKernelVm
  PROVE  OutputInv'
<1>1. CASE ConsoleInit
  BY <1>1 DEF ConsoleInit, At_, keepPc, memoryVars, OutputInv, WithTerminal, WithNone,
              Switched, WithFbCons, FbMapped, MappedAt
<1>2. CASE NoteBuild \/ NotePlatform
  BY <1>2, NotesOutputs DEF NoteBuild, NotePlatform, WithTerminal
<1>3. CASE BacktraceInit
  <2>1. UNCHANGED <<gTerminalWrite, gFbCons>>
    BY <1>3, SayOutputs DEF BacktraceInit, consoleVars
  <2>2. /\ UNCHANGED <<active, gFb, mappings>>
        /\ pc \in WithTerminal /\ pc' \in WithTerminal
    BY <1>3 DEF BacktraceInit, memoryVars, At_, WithTerminal
  <2>3. QED
    BY <2>1, <2>2, SpokenOutputs
<1>4. CASE VerifyFeatures
  <2>1. \/ /\ UNCHANGED <<gTerminalWrite, gFbCons, active, gFb, mappings>>
           /\ pc \in WithTerminal /\ pc' \in WithTerminal
        \/ Panic("features") /\ UNCHANGED bootVars
    BY <1>4 DEF VerifyFeatures, Unless, At_, keepPc, memoryVars, consoleVars, WithTerminal,
                NoReason
  <2>2. QED
    BY <2>1, SpokenOutputs, PanicKeeps
<1>5. CASE SetUpGdt \/ SetUpIdt
  BY <1>5, SetsUpOutputs DEF SetUpGdt, SetUpIdt, WithTerminal
<1>6. CASE AddEntry
  <2> DEFINE why == AddRegionFails(Clipped(machine.entries[step + 1]))
  <2>1. \/ UNCHANGED <<gTerminalWrite, gFbCons, active, gFb, mappings, pc>>
        \/ Panic(why) /\ UNCHANGED bootVars
    BY <1>6 DEF AddEntry, Unless, consoleVars
  <2>2. QED
    BY <2>1, SamePc, QuietOutputs, PanicKeeps
<1>7. CASE EntriesDone
  <2>1. CASE step = 0
    BY <1>7, <2>1, PanicKeeps DEF EntriesDone, Unless, NoReason
  <2>2. CASE step # 0
    BY <1>7, <2>2, NotesOutputs DEF EntriesDone, Unless, WithTerminal
  <2>3. QED
    BY <2>1, <2>2
<1>8. CASE InitKernelVm
  <2>1. \/ /\ UNCHANGED <<gTerminalWrite, gFbCons, active, gFb, mappings>>
           /\ pc \in WithTerminal /\ pc' \in WithTerminal
        \/ Panic(AllocationFails(1 + AperturePages)) /\ UNCHANGED bootVars
    BY <1>8 DEF InitKernelVm, Unless, At_, consoleVars, WithTerminal
  <2>2. QED
    BY <2>1, SpokenOutputs, PanicKeeps
<1>9. QED
  BY <1>1, <1>2, <1>3, <1>4, <1>5, <1>6, <1>7, <1>8

\* Mapping a page of the framebuffer makes it one.
LEMMA MapsFramebuffer ==
  ASSUME mappings' = mappings \cup Mapped("framebuffer", 0, FbPhys, FbPages, "RW")
  PROVE  FbMapped'
<1> SUFFICES ASSUME NEW p \in 0 .. FbPages - 1
             PROVE  MappedAt("framebuffer", p)' # {}
  BY DEF FbMapped
<1> DEFINE m == [area |-> "framebuffer", page |-> 0 + p, phys |-> FbPhys + p, mode |-> "RW"]
<1>1. m \in Mapped("framebuffer", 0, FbPhys, FbPages, "RW")
  BY DEF Mapped
<1>2. m.area = "framebuffer" /\ m.page = p
  OBVIOUS
<1>3. m \in MappedAt("framebuffer", p)'
  BY <1>1, <1>2 DEF MappedAt
<1>4. QED
  BY <1>3

LEMMA MappingOutputs ==
  ASSUME OutputInv,
         \/ MapKernelSection \/ WarnNoImage \/ FindFramebuffer \/ NoteFramebuffer
         \/ MapFramebuffer \/ RemapRegion
  PROVE  OutputInv'
<1>1. CASE MapKernelSection
  <2> DEFINE why == IF machine.located THEN AddFails("image") ELSE "kernel address"
  <2>1. \/ /\ UNCHANGED <<gTerminalWrite, gFbCons, active, gFb>>
           /\ mappings \subseteq mappings'
           /\ pc \in WithTerminal /\ pc' \in WithTerminal
        \/ Panic(why) /\ UNCHANGED bootVars
    BY <1>1 DEF MapKernelSection, Unless, MapRegion, At_, consoleVars, WithTerminal
  <2>2. QED
    BY <2>1, QuietOutputs, PanicKeeps
       DEF SamePhase, WithTerminal, WithNone, Switched, WithFbCons
<1>2. CASE WarnNoImage
  <2>1. /\ UNCHANGED <<gTerminalWrite, gFbCons, active, gFb, mappings>>
        /\ pc \in WithTerminal /\ pc' \in WithTerminal
    BY <1>2, SayOutputs DEF WarnNoImage, At_, memoryVars, WithTerminal
  <2>2. QED
    BY <2>1, SpokenOutputs
<1>3. CASE FindFramebuffer
  <2>1. UNCHANGED <<gTerminalWrite, gFbCons>>
    BY <1>3, SayOutputs DEF FindFramebuffer, consoleVars
  <2>2. /\ UNCHANGED <<active, gFb, mappings>>
        /\ pc \in WithTerminal /\ pc' \in WithTerminal
    BY <1>3 DEF FindFramebuffer, At_, keepPc, memoryVars, WithTerminal
  <2>3. QED
    BY <2>1, <2>2, SpokenOutputs
<1>4. CASE NoteFramebuffer
  BY <1>4, NotesOutputs DEF NoteFramebuffer, WithTerminal
<1>5. CASE MapFramebuffer
  <2>1. CASE AddFails("framebuffer") = NoReason
    <3>1. FbMapped'
      BY <1>5, <2>1, MapsFramebuffer DEF MapFramebuffer, Unless, MapRegion
    <3>2. /\ UNCHANGED <<gTerminalWrite, gFbCons, active>>
          /\ pc = "mapFb" /\ pc' = "remap"
      BY <1>5, <2>1 DEF MapFramebuffer, Unless, At_, consoleVars
    <3>3. QED
      BY <3>1, <3>2 DEF OutputInv, WithTerminal, WithNone, Switched, WithFbCons
  <2>2. CASE AddFails("framebuffer") # NoReason
    BY <1>5, <2>2, PanicKeeps DEF MapFramebuffer, Unless
  <2>3. QED
    BY <2>1, <2>2
<1>6. CASE RemapRegion
  <2>1. \/ /\ UNCHANGED <<gTerminalWrite, gFbCons, active, gFb>>
           /\ mappings \subseteq mappings'
           /\ pc \in WithTerminal /\ pc' \in WithTerminal
        \/ Panic(AddFails("metadata")) /\ UNCHANGED bootVars
    BY <1>6 DEF RemapRegion, Unless, MapRegion, At_, consoleVars, WithTerminal
  <2>2. QED
    BY <2>1, QuietOutputs, PanicKeeps
       DEF SamePhase, WithTerminal, WithNone, Switched, WithFbCons
<1>7. QED
  BY <1>1, <1>2, <1>3, <1>4, <1>5, <1>6

\* The switch, and what comes after it.
LEMMA SwitchOutputs ==
  ASSUME OutputInv,
         \/ PrepareConsole \/ SetUpLocals \/ Activate \/ FinishedEarlyBoot
         \/ EnableConsole \/ NoteCpus \/ PrintBanner \/ PrintRevision \/ StartReturns
  PROVE  OutputInv'
<1> USE DEF WithTerminal, WithNone, Switched, WithFbCons
<1>1. CASE PrepareConsole
  <2>1. /\ pc = "prepare" /\ pc' = "locals"
        /\ gTerminalWrite' = FALSE /\ UNCHANGED <<gFbCons, active, gFb, mappings>>
    BY <1>1 DEF PrepareConsole, PrepareForVm, At_, keepPc, memoryVars
  <2>2. FbMapped' <=> FbMapped
    BY <2>1 DEF FbMapped, MappedAt
  <2>3. QED
    BY <2>1, <2>2 DEF OutputInv
<1>2. CASE SetUpLocals
  BY <1>2, SetsUpOutputs DEF SetUpLocals
<1>3. CASE Activate
  <2>1. /\ pc = "activate" /\ pc' = "early" /\ active' = "kernel"
        /\ UNCHANGED <<gTerminalWrite, gFbCons, gFb, mappings>>
    BY <1>3 DEF Activate, At_, memoryVars, consoleVars
  <2>2. FbMapped' <=> FbMapped
    BY <2>1 DEF FbMapped, MappedAt
  <2>3. QED
    BY <2>1, <2>2 DEF OutputInv
<1>4. CASE FinishedEarlyBoot
  <2>1. /\ UNCHANGED <<gTerminalWrite, gFbCons, active, gFb, mappings>>
        /\ pc \in Switched /\ pc' \in Switched
    BY <1>4 DEF FinishedEarlyBoot, At_, memoryVars, consoleVars
  <2>2. QED
    BY <2>1, SpokenOutputs
<1>5. CASE EnableConsole
  <2>1. /\ pc = "enabled" /\ pc' = "cpus" /\ gFbCons' \in {gFbCons, TRUE}
        /\ gFbCons' # gFbCons => gFb # FALSE
        /\ UNCHANGED <<gTerminalWrite, active, gFb, mappings>>
    BY <1>5 DEF EnableConsole, VmEnabled, At_, keepPc, memoryVars
  <2>2. FbMapped' <=> FbMapped
    BY <2>1 DEF FbMapped, MappedAt
  <2>3. QED
    BY <2>1, <2>2 DEF OutputInv
<1>6. CASE NoteCpus \/ PrintBanner \/ PrintRevision
  BY <1>6, NotesOutputs DEF NoteCpus, PrintBanner, PrintRevision
<1>7. CASE StartReturns
  BY <1>7, PanicKeeps DEF StartReturns
<1>8. QED
  BY <1>1, <1>2, <1>3, <1>4, <1>5, <1>6, <1>7

LEMMA NextOutputs == OutputInv /\ [Next]_vars => OutputInv'
<1>1. CASE UNCHANGED vars
  BY <1>1, SamePc, QuietOutputs DEF vars, consoleVars, bootVars, memoryVars
<1>2. QED
  BY <1>1, WritesOutputs, UsesOutputs, EarlyOutputs, MappingOutputs, SwitchOutputs
     DEF Next, Boots

\* The console writes to no output that the tables in use do not map
\* (Io/Console.cpp).
THEOREM OutputsCorrect == Spec => []OutputsReachable
<1>1. OutputInv => OutputsReachable
  BY DEF OutputInv, OutputsReachable, FbMapped, WithTerminal, WithNone, Switched, WithFbCons
<1>2. QED
  BY <1>1, InitOutputs, NextOutputs, PTL DEF Spec

-----------------------------------------------------------------------------
(* The memory that the physical allocator gets.                            *)

Before == {"console", "build", "platform", "symbols", "features", "gdt", "idt"}
After ==
  {"kernelVm", "sections", "image", "findFb", "noteFb", "mapFb", "remap", "prepare",
   "locals", "activate", "early", "enabled", "cpus", "banner", "revision", "start"}

\* Entries of the memory map that have been looked at.
Considered ==
  IF pc \in Before THEN 0 ELSE IF pc = "memory" THEN step ELSE Len(machine.entries)

Entry == [base : Nat, length : Nat, usable : BOOLEAN]

\* Whether page p is above the bound and of a big enough usable entry.
Wanted(e, p) == e.usable /\ e.length >= MinRegion /\ p \in PagesOf(e) /\ p >= Bound

Given(p) == \E i \in DOMAIN regions : p \in PagesOf(regions[i])

RegionsInv ==
  /\ machine \in Machines
  /\ regions \in Seq([base : Nat, length : Nat])
  /\ pc \in Before \cup {"memory"} \cup After
  /\ pc \in Before => step = 0
  /\ pc = "memory" => step \in 0 .. Len(machine.entries)
  /\ kernelMap # FALSE => pc \in After
  /\ \A i, j \in DOMAIN regions :
       i # j => PagesOf(regions[i]) \cap PagesOf(regions[j]) = {}
  /\ \A p \in Int : Given(p) <=> \E i \in 1 .. Considered : Wanted(machine.entries[i], p)

LEMMA InitRegions == Init => RegionsInv
<1> SUFFICES ASSUME Init PROVE RegionsInv
  OBVIOUS
<1>1. /\ machine \in Machines /\ pc = "console" /\ step = 0 /\ kernelMap = FALSE
      /\ regions = << >>
  BY DEF Init
<1>2. DOMAIN regions = {} /\ regions \in Seq([base : Nat, length : Nat])
  BY <1>1
<1>3. Considered = 0
  BY <1>1 DEF Considered, Before
<1>4. \A p : ~Given(p)
  BY <1>2 DEF Given
<1>5. \A p \in Int : Given(p) <=> \E i \in 1 .. Considered : Wanted(machine.entries[i], p)
  BY <1>3, <1>4
<1>6. QED
  BY <1>1, <1>2, <1>5 DEF RegionsInv, Before

LEMMA EntryTypes ==
  ASSUME NEW m \in Machines
  PROVE  /\ m.entries \in Seq(Entry)
         /\ Len(m.entries) \in Nat /\ DOMAIN m.entries = 1 .. Len(m.entries)
         /\ \A i \in 1 .. Len(m.entries) : m.entries[i] \in Entry
<1>1. m.entries \in Seq(Entry)
  BY BootAssumption DEF Entry
<1>2. QED
  BY <1>1

LEMMA NotYet ==
  ASSUME RegionsInv, pc = "memory"
  PROVE  kernelMap = FALSE
BY DEF RegionsInv, After

\* Steps that leave the regions alone.
SameStage ==
  /\ pc \in Before => pc' \in Before /\ step' = step
  /\ pc = "memory" => pc' = pc /\ step' = step
  /\ pc \in After => pc' \in After

LEMMA QuietRegions ==
  ASSUME RegionsInv, UNCHANGED <<machine, regions>>, SameStage,
         kernelMap' = kernelMap \/ pc \in After
  PROVE  RegionsInv'
<1>1. Considered' = Considered
  BY DEF SameStage, Considered, RegionsInv, Before, After
<1>2. \A p : Given(p)' <=> Given(p)
  BY DEF Given
<1>3. \A p : (\E i \in 1 .. Considered' : Wanted(machine.entries[i], p)')
               <=> \E i \in 1 .. Considered : Wanted(machine.entries[i], p)
  BY <1>1 DEF Wanted
<1>4. QED
  BY <1>1, <1>2, <1>3 DEF RegionsInv, SameStage, Before, After

LEMMA SameStep == UNCHANGED <<pc, step>> => SameStage
BY DEF SameStage

LEMMA PanicKeepsRegions ==
  ASSUME RegionsInv, UNCHANGED bootVars
  PROVE  RegionsInv'
BY SameStep, QuietRegions DEF bootVars, memoryVars

LEMMA ClippedPages ==
  ASSUME NEW e \in Entry, ~Skipped(e)
  PROVE  /\ Clipped(e) \in [base : Nat, length : Nat]
         /\ \A p \in Int : p \in PagesOf(Clipped(e)) <=> Wanted(e, p)
<1>1. /\ e.base \in Nat /\ e.length \in Nat /\ e.usable /\ e.length >= MinRegion
      /\ e.base + e.length >= Bound
      /\ MinRegion \in Nat /\ Bound \in Nat
  BY BootAssumption DEF Skipped, Entry
<1>2. CASE e.base < Bound
  <2>1. /\ Clipped(e).base = Bound
        /\ Clipped(e).length = e.length - (Bound - e.base)
    BY <1>1, <1>2 DEF Clipped
  <2>2. Clipped(e).length \in Nat
    BY <1>1, <2>1
  <2>3. Clipped(e) = [base |-> Clipped(e).base, length |-> Clipped(e).length]
    BY DEF Clipped
  <2>4. QED
    BY <1>1, <1>2, <2>1, <2>2, <2>3 DEF Wanted, PagesOf
<1>3. CASE ~(e.base < Bound)
  <2>1. /\ Clipped(e).base = e.base
        /\ Clipped(e).length = e.length
    BY <1>1, <1>3 DEF Clipped
  <2>2. Clipped(e) = [base |-> Clipped(e).base, length |-> Clipped(e).length]
    BY DEF Clipped
  <2>3. QED
    BY <1>1, <1>3, <2>1, <2>2 DEF Wanted, PagesOf
<1>4. QED
  BY <1>2, <1>3

LEMMA SkippedPages ==
  ASSUME NEW e \in Entry, Skipped(e), NEW p \in Int
  PROVE  ~Wanted(e, p)
<1>1. e.base \in Nat /\ e.length \in Nat /\ MinRegion \in Nat /\ Bound \in Nat
  BY BootAssumption DEF Entry
<1>2. QED
  BY <1>1 DEF Skipped, Wanted, PagesOf

\* Two entries want no page both.
LEMMA WantedOnce ==
  ASSUME NEW m \in Machines, NEW i \in 1 .. Len(m.entries), NEW j \in 1 .. Len(m.entries),
         i # j, NEW p \in Int, Wanted(m.entries[i], p)
  PROVE  ~Wanted(m.entries[j], p)
<1>1. /\ m.entries[i] \in Entry /\ m.entries[j] \in Entry
      /\ i \in DOMAIN m.entries /\ j \in DOMAIN m.entries
  BY EntryTypes
<1>2. m.entries[i].usable /\ m.entries[j].usable =>
        \/ m.entries[i].base + m.entries[i].length <= m.entries[j].base
        \/ m.entries[j].base + m.entries[j].length <= m.entries[i].base
  BY <1>1, BootAssumption
<1>3. QED
  BY <1>1, <1>2, SMTT(30) DEF Wanted, PagesOf, Entry

LEMMA AddEntryRegions == RegionsInv /\ AddEntry => RegionsInv'
<1> SUFFICES ASSUME RegionsInv, AddEntry PROVE RegionsInv'
  OBVIOUS
<1> DEFINE e == machine.entries[step + 1]
           r == Clipped(e)
<1>1. /\ machine \in Machines /\ pc = "memory" /\ step \in Nat
      /\ step + 1 \in 1 .. Len(machine.entries) /\ Len(machine.entries) \in Nat
  BY EntryTypes DEF RegionsInv, AddEntry, At_
<1>2. e \in Entry
  BY <1>1, EntryTypes
<1>3. Considered = step
  BY <1>1 DEF Considered, Before
<1>4. CASE Skipped(e)
  <2>1. /\ UNCHANGED <<machine, pc, regions, kernelMap>> /\ step' = step + 1
    BY <1>4 DEF AddEntry
  <2>2. Considered' = step + 1
    BY <1>1, <2>1 DEF Considered, Before
  <2>3. \A p \in Int : (\E i \in 1 .. step + 1 : Wanted(machine.entries[i], p))
                         <=> \E i \in 1 .. step : Wanted(machine.entries[i], p)
    <3> SUFFICES ASSUME NEW p \in Int
                 PROVE  (\E i \in 1 .. step + 1 : Wanted(machine.entries[i], p))
                          <=> \E i \in 1 .. step : Wanted(machine.entries[i], p)
      OBVIOUS
    <3>1. ~Wanted(e, p)
      BY <1>2, <1>4, SkippedPages
    <3>2. 1 .. step + 1 = (1 .. step) \cup {step + 1}
      BY <1>1
    <3>3. QED
      BY <3>1, <3>2
  <2>4. \A p : Given(p)' <=> Given(p)
    BY <2>1 DEF Given
  <2>5. \A p, i : Wanted(machine.entries[i], p)' <=> Wanted(machine.entries[i], p)
    BY <2>1 DEF Wanted
  <2>6. \A p \in Int : Given(p)' <=> \E i \in 1 .. Considered' : Wanted(machine.entries[i], p)'
    BY <1>3, <2>2, <2>3, <2>4, <2>5 DEF RegionsInv
  <2>7. step' \in 0 .. Len(machine.entries') /\ kernelMap' = FALSE
    BY <1>1, <2>1, NotYet
  <2>8. QED
    BY <1>1, <2>1, <2>6, <2>7 DEF RegionsInv, Before
<1>5. CASE ~Skipped(e) /\ AddRegionFails(r) = NoReason
  <2>1. /\ UNCHANGED <<machine, pc, kernelMap>> /\ step' = step + 1
        /\ regions' = Append(regions, r)
    BY <1>5 DEF AddEntry, Unless
  <2>2. /\ r \in [base : Nat, length : Nat]
        /\ \A p \in Int : p \in PagesOf(r) <=> Wanted(e, p)
    BY <1>2, <1>5, ClippedPages
  <2> DEFINE n == Len(regions)
  <2>3. /\ n \in Nat /\ regions' \in Seq([base : Nat, length : Nat])
        /\ DOMAIN regions = 1 .. n /\ DOMAIN regions' = 1 .. n + 1
        /\ \A i \in 1 .. n : regions'[i] = regions[i]
        /\ regions'[n + 1] = r
    BY <2>1, <2>2 DEF RegionsInv
  <2>4. Considered' = step + 1
    BY <1>1, <2>1 DEF Considered, Before
  <2>5. \A i \in 1 .. n : PagesOf(regions[i]) \subseteq Int
    BY <2>3 DEF PagesOf, RegionsInv
  <2>6. PagesOf(r) \subseteq Int
    BY <2>2 DEF PagesOf
  <2>7. \A i \in 1 .. n : PagesOf(regions[i]) \cap PagesOf(r) = {}
    <3> SUFFICES ASSUME NEW i \in 1 .. n, NEW p \in PagesOf(regions[i]), p \in PagesOf(r)
                 PROVE  FALSE
      OBVIOUS
    <3>1. p \in Int /\ Given(p)
      BY <2>3, <2>5 DEF Given
    <3>2. PICK k \in 1 .. step : Wanted(machine.entries[k], p)
      BY <3>1, <1>3 DEF RegionsInv
    <3>3. k \in 1 .. Len(machine.entries) /\ k # step + 1
      BY <1>1
    <3>4. ~Wanted(e, p)
      BY <1>1, <3>1, <3>2, <3>3, WantedOnce
    <3>5. QED
      BY <2>2, <3>1, <3>4
  <2>8. \A i, j \in DOMAIN regions' :
          i # j => PagesOf(regions'[i]) \cap PagesOf(regions'[j]) = {}
    <3> SUFFICES ASSUME NEW i \in 1 .. n + 1, NEW j \in 1 .. n + 1, i # j
                 PROVE  PagesOf(regions'[i]) \cap PagesOf(regions'[j]) = {}
      BY <2>3
    <3>1. CASE i \in 1 .. n /\ j \in 1 .. n
      BY <2>3, <3>1 DEF RegionsInv
    <3>2. CASE i = n + 1
      <4>1. j \in 1 .. n
        BY <2>3, <3>2
      <4>2. QED
        BY <2>3, <2>7, <3>2, <4>1
    <3>3. CASE j = n + 1
      <4>1. i \in 1 .. n
        BY <2>3, <3>3
      <4>2. QED
        BY <2>3, <2>7, <3>3, <4>1
    <3>4. QED
      BY <2>3, <3>1, <3>2, <3>3, SMTT(30)
  <2>9. \A p \in Int : Given(p)' <=> Given(p) \/ p \in PagesOf(r)
    <3>1. 1 .. n + 1 = (1 .. n) \cup {n + 1}
      BY <2>3
    <3>2. \A p : Given(p)' <=> \E i \in 1 .. n + 1 : p \in PagesOf(regions'[i])
      BY <2>3 DEF Given
    <3>3. \A p : Given(p) <=> \E i \in 1 .. n : p \in PagesOf(regions[i])
      BY <2>3 DEF Given
    <3>4. QED
      BY <2>3, <3>1, <3>2, <3>3
  <2>10. \A p \in Int : (\E i \in 1 .. step + 1 : Wanted(machine.entries[i], p))
           <=> Wanted(e, p) \/ \E i \in 1 .. step : Wanted(machine.entries[i], p)
    <3>1. 1 .. step + 1 = (1 .. step) \cup {step + 1}
      BY <1>1
    <3>2. QED
      BY <3>1
  <2>11. \A p, i : Wanted(machine.entries[i], p)' <=> Wanted(machine.entries[i], p)
    BY <2>1 DEF Wanted
  <2>12. \A p \in Int : Given(p)' <=> \E i \in 1 .. Considered' : Wanted(machine.entries[i], p)'
    BY <1>3, <2>2, <2>4, <2>9, <2>10, <2>11 DEF RegionsInv
  <2>13. step' \in 0 .. Len(machine.entries') /\ kernelMap' = FALSE
    BY <1>1, <2>1, NotYet
  <2>14. QED
    BY <1>1, <2>1, <2>3, <2>8, <2>12, <2>13 DEF RegionsInv, Before
<1>6. CASE ~Skipped(e) /\ AddRegionFails(r) # NoReason
  BY <1>6, PanicKeepsRegions DEF AddEntry, Unless
<1>7. QED
  BY <1>4, <1>5, <1>6

LEMMA EntriesDoneRegions == RegionsInv /\ EntriesDone => RegionsInv'
<1> SUFFICES ASSUME RegionsInv, EntriesDone PROVE RegionsInv'
  OBVIOUS
<1>1. CASE step = 0
  BY <1>1, PanicKeepsRegions DEF EntriesDone, Unless, NoReason
<1>2. CASE step # 0
  <2>1. /\ UNCHANGED <<machine, regions, kernelMap>> /\ pc = "memory" /\ pc' = "kernelVm"
        /\ step = Len(machine.entries)
    BY <1>2 DEF EntriesDone, Unless, Announce, At_, keepPc, memoryVars
  <2>2. Considered' = Considered
    BY <2>1 DEF Considered, Before
  <2>3. \A p : Given(p)' <=> Given(p)
    BY <2>1 DEF Given
  <2>4. \A p, i : Wanted(machine.entries[i], p)' <=> Wanted(machine.entries[i], p)
    BY <2>1 DEF Wanted
  <2>5. \A p \in Int : Given(p)' <=> \E i \in 1 .. Considered' : Wanted(machine.entries[i], p)'
    BY <2>2, <2>3, <2>4 DEF RegionsInv
  <2>6. QED
    BY <2>1, <2>5 DEF RegionsInv, Before, After
<1>3. QED
  BY <1>1, <1>2

LEMMA SetUpIdtRegions == RegionsInv /\ SetUpIdt => RegionsInv'
<1> SUFFICES ASSUME RegionsInv, SetUpIdt PROVE RegionsInv'
  OBVIOUS
<1>1. /\ UNCHANGED <<machine, regions, kernelMap, step>> /\ pc = "idt" /\ pc' = "memory"
  BY DEF SetUpIdt, SetsUp, At_, memoryVars
<1>2. step = 0 /\ Considered = 0 /\ Considered' = 0
  BY <1>1 DEF Considered, Before, RegionsInv
<1>3. \A p : Given(p)' <=> Given(p)
  BY <1>1 DEF Given
<1>4. 0 \in 0 .. Len(machine.entries)
  BY EntryTypes DEF RegionsInv
<1>5. \A p \in Int : Given(p)' <=> \E i \in 1 .. Considered' : Wanted(machine.entries[i], p)'
  BY <1>2, <1>3 DEF RegionsInv
<1>6. QED
  BY <1>1, <1>2, <1>4, <1>5 DEF RegionsInv, Before, After

LEMMA UsesStage == Uses => UNCHANGED <<machine, regions, kernelMap, pc, step>>
<1>1. ASSUME NEW m \in Messages, KernelLogs(m)
      PROVE  UNCHANGED <<machine, regions, kernelMap, pc, step>>
  BY <1>1 DEF KernelLogs, memoryVars
<1>2. KernelAllocates => UNCHANGED <<machine, regions, kernelMap, pc, step>>
  BY DEF KernelAllocates, Unless, bootVars, memoryVars
<1>3. ASSUME NEW vector, NEW area, Take(vector, area)
      PROVE  UNCHANGED <<machine, regions, kernelMap, pc, step>>
  BY <1>3 DEF Take, memoryVars
<1>4. QED
  BY <1>1, <1>2, <1>3 DEF Uses, PageFault, Exception, Interrupt

\* The other steps of the boot, and all others.
LEMMA OtherStage ==
  ASSUME Next, ~SetUpIdt, ~AddEntry, ~EntriesDone
  PROVE  UNCHANGED <<machine, regions>> /\ SameStage /\ (kernelMap' = kernelMap \/ pc \in After)
<1> USE DEF Before, After
<1>1. CASE ConsoleInit \/ NoteBuild \/ NotePlatform \/ BacktraceInit \/ SetUpGdt
  <2>1. /\ UNCHANGED <<machine, regions, kernelMap, step>>
        /\ pc \in Before /\ pc' \in Before
    BY <1>1 DEF ConsoleInit, NoteBuild, NotePlatform, BacktraceInit, SetUpGdt, SetsUp,
                Announce, At_, keepPc, memoryVars
  <2>2. QED
    BY <2>1 DEF SameStage
<1>2. CASE UNCHANGED bootVars
  BY <1>2, SameStep DEF bootVars, memoryVars
<1>3. CASE VerifyFeatures
  <2>1. \/ UNCHANGED bootVars
        \/ /\ UNCHANGED <<machine, regions, kernelMap, step>>
           /\ pc = "features" /\ pc' = "gdt"
    BY <1>3 DEF VerifyFeatures, Unless, At_, keepPc, memoryVars
  <2>2. QED
    BY <1>2, <2>1 DEF SameStage
<1>4. CASE InitKernelVm \/ MapKernelSection \/ MapFramebuffer \/ RemapRegion
  <2>1. \/ UNCHANGED bootVars
        \/ UNCHANGED <<machine, regions>> /\ pc \in After /\ pc' \in After
    BY <1>4 DEF InitKernelVm, MapKernelSection, MapFramebuffer, RemapRegion, Unless, At_,
                bootVars, memoryVars
  <2>2. QED
    BY <1>2, <2>1 DEF SameStage
<1>5. CASE \/ WarnNoImage \/ FindFramebuffer \/ NoteFramebuffer \/ PrepareConsole
           \/ SetUpLocals \/ Activate \/ FinishedEarlyBoot \/ EnableConsole \/ NoteCpus
           \/ PrintBanner \/ PrintRevision
  <2>1. UNCHANGED <<machine, regions>> /\ pc \in After /\ pc' \in After
    BY <1>5 DEF WarnNoImage, FindFramebuffer, NoteFramebuffer, PrepareConsole, SetUpLocals,
                Activate, FinishedEarlyBoot, EnableConsole, NoteCpus, PrintBanner,
                PrintRevision, SetsUp, Announce, At_, keepPc, memoryVars
  <2>2. QED
    BY <2>1 DEF SameStage
<1>6. CASE StartReturns \/ Writes
  BY <1>2, <1>6 DEF StartReturns, Writes
<1>7. CASE Uses
  BY <1>7, UsesStage, SameStep
<1>8. QED
  BY <1>1, <1>3, <1>4, <1>5, <1>6, <1>7 DEF Next, Boots

LEMMA NextRegions == RegionsInv /\ [Next]_vars => RegionsInv'
<1> SUFFICES ASSUME RegionsInv, [Next]_vars PROVE RegionsInv'
  OBVIOUS
<1>1. CASE UNCHANGED vars
  BY <1>1, PanicKeepsRegions DEF vars
<1>2. CASE SetUpIdt \/ AddEntry \/ EntriesDone
  BY <1>2, AddEntryRegions, EntriesDoneRegions, SetUpIdtRegions
<1>3. CASE Next /\ ~(SetUpIdt \/ AddEntry \/ EntriesDone)
  BY <1>3, OtherStage, QuietRegions
<1>4. QED
  BY <1>1, <1>2, <1>3

LEMMA RegionsInvUsable == RegionsInv => RegionsUsable
<1> SUFFICES ASSUME RegionsInv PROVE RegionsUsable
  OBVIOUS
<1> DEFINE entries == machine.entries
           usable == {e \in {entries[i] : i \in DOMAIN entries} :
                        e.usable /\ e.length >= MinRegion}
           given == UNION {PagesOf(regions[i]) : i \in DOMAIN regions}
           above == {p \in UNION {PagesOf(e) : e \in usable} : p >= Bound}
<1>1. /\ entries \in Seq(Entry) /\ DOMAIN entries = 1 .. Len(entries) /\ Len(entries) \in Nat
      /\ \A i \in DOMAIN entries : entries[i] \in Entry
  BY EntryTypes DEF RegionsInv
<1>2. \A i \in DOMAIN regions : PagesOf(regions[i]) \subseteq Int
  BY DEF PagesOf, RegionsInv
<1>3. \A i \in DOMAIN entries : PagesOf(entries[i]) \subseteq Int
  BY <1>1 DEF PagesOf, Entry
<1>4. Considered \in 0 .. Len(entries) /\ (kernelMap # FALSE => Considered = Len(entries))
  <2>1. pc = "memory" => step \in 0 .. Len(entries)
    BY DEF RegionsInv
  <2>2. kernelMap # FALSE => pc \in After
    BY DEF RegionsInv
  <2>3. /\ pc \in Before => Considered = 0
        /\ pc = "memory" => Considered = step
        /\ pc \in After => Considered = Len(entries)
    BY DEF Considered, Before, After
  <2>4. pc \in Before \cup {"memory"} \cup After
    BY DEF RegionsInv
  <2>5. Considered \in 0 .. Len(entries)
    BY <1>1, <2>1, <2>3, <2>4
  <2>6. QED
    BY <2>2, <2>3, <2>5
<1>5. \A p : p \in given <=> Given(p)
  BY DEF Given
<1>6. \A p : p \in above <=> \E i \in 1 .. Len(entries) : Wanted(entries[i], p)
  BY <1>1 DEF Wanted
<1>7. given \subseteq Int /\ above \subseteq Int
  BY <1>2, <1>3
<1>8. given \subseteq above
  <2> SUFFICES ASSUME NEW p \in given PROVE p \in above
    OBVIOUS
  <2>1. PICK i \in 1 .. Considered : Wanted(entries[i], p)
    BY <1>5, <1>7 DEF RegionsInv
  <2>2. i \in 1 .. Len(entries)
    BY <1>1, <1>4
  <2>3. QED
    BY <1>6, <2>1, <2>2
<1>9. ASSUME kernelMap PROVE above \subseteq given
  BY <1>4, <1>5, <1>6, <1>7, <1>9 DEF RegionsInv
<1>10. QED
  BY <1>8, <1>9 DEF RegionsUsable, RegionsInv

\* The physical allocator gets the usable memory above the bound, all of it and
\* no page twice, from every memory map whose usable entries are apart
\* (Boot/Entry.cpp, InitPhysAllocator).
THEOREM RegionsCorrect == Spec => []RegionsUsable
BY InitRegions, NextRegions, RegionsInvUsable, PTL DEF Spec

-----------------------------------------------------------------------------
(* What the kernel's tables map when they come into use.                     *)

\* Quotients that are rounded up are numbers.
LEMMA RoundedUp ==
  ASSUME NEW a \in Nat, NEW b \in Nat \ {0}
  PROVE  (a + b - 1) \div b \in Nat
<1>1. PICK c \in Nat : c = a + b - 1
  OBVIOUS
<1>2. c \div b \in Nat
  OBVIOUS
<1>3. QED
  BY <1>1, <1>2

\* t holds the sums of the first 0, 1, ... n numbers of s.
Sums(s, n, t) ==
  /\ t \in [0 .. n -> Int]
  /\ t[0] = 0
  /\ \A i \in 1 .. n : t[i] = t[i - 1] + s[i]

LEMMA SumsExist ==
  ASSUME NEW s, NEW n \in Nat, \A i \in 1 .. n : s[i] \in Int
  PROVE  \E t : Sums(s, n, t)
<1> DEFINE S == {k \in Nat : k <= n => \E t : Sums(s, k, t)}
<1>1. 0 \in S
  <2>1. Sums(s, 0, [i \in 0 .. 0 |-> 0])
    BY DEF Sums
  <2>2. QED
    BY <2>1
<1>2. ASSUME NEW k \in Nat, k \in S PROVE k + 1 \in S
  <2> SUFFICES ASSUME k + 1 <= n PROVE \E t : Sums(s, k + 1, t)
    OBVIOUS
  <2>1. PICK t : Sums(s, k, t)
    BY <1>2
  <2> DEFINE u == [i \in 0 .. k + 1 |-> IF i = k + 1 THEN t[k] + s[k + 1] ELSE t[i]]
  <2>2. t[k] \in Int /\ s[k + 1] \in Int
    BY <2>1 DEF Sums
  <2>3. u \in [0 .. k + 1 -> Int] /\ u[0] = 0
    BY <2>1, <2>2 DEF Sums
  <2>4. ASSUME NEW i \in 1 .. k + 1 PROVE u[i] = u[i - 1] + s[i]
    <3>1. CASE i = k + 1
      <4>1. u[i] = t[k] + s[k + 1] /\ u[k] = t[k] /\ i - 1 = k
        BY <3>1
      <4> HIDE DEF u
      <4>2. QED
        BY <3>1, <4>1
    <3>2. CASE i # k + 1
      <4>1. i \in 1 .. k /\ i - 1 \in 0 .. k
        BY <3>2
      <4>2. u[i] = t[i] /\ u[i - 1] = t[i - 1]
        BY <4>1
      <4> HIDE DEF u
      <4>3. QED
        BY <2>1, <4>1, <4>2 DEF Sums
    <3>3. QED
      BY <3>1, <3>2
  <2> HIDE DEF u
  <2>5. Sums(s, k + 1, u)
    BY <2>3, <2>4 DEF Sums
  <2>6. QED
    BY <2>5
<1>3. Nat \subseteq S
  <2> HIDE DEF S
  <2>1. QED
    BY <1>1, <1>2, Induct
<1>4. n \in S /\ n <= n
  <2> HIDE DEF S
  <2>1. QED
    BY <1>3
<1>5. QED
  BY <1>4

LEMMA TotalsAreSums ==
  ASSUME NEW s, Len(s) \in Nat, \A i \in 1 .. Len(s) : s[i] \in Int
  PROVE  Sums(s, Len(s), Totals(s))
<1> DEFINE n == Len(s)
           D(t) == [i \in 0 .. n |-> IF i = 0 THEN 0 ELSE t[i - 1] + s[i]]
<1>1. PICK t : Sums(s, n, t)
  BY SumsExist
<1>2. t = D(t)
  BY <1>1 DEF Sums
<1>3. Totals(s) = CHOOSE u : u = D(u)
  BY DEF Totals
<1>4. Totals(s) = D(Totals(s))
  <2> HIDE DEF D
  <2>1. QED
    BY <1>2, <1>3, Zenon
<1>5. PICK u : u = Totals(s)
  OBVIOUS
<1>6. u = D(u)
  BY <1>4, <1>5
<1>7. u[0] = 0 /\ \A i \in 1 .. n : u[i] = u[i - 1] + s[i]
  <2>1. 0 \in 0 .. n /\ \A i \in 1 .. n : i \in 0 .. n /\ i # 0
    OBVIOUS
  <2>2. QED
    BY <1>6, <2>1
<1>8. \A i \in 0 .. n : u[i] = t[i]
  <2> DEFINE S == {i \in Nat : i <= n => u[i] = t[i]}
  <2>1. 0 \in S
    BY <1>1, <1>7 DEF Sums
  <2>2. ASSUME NEW i \in Nat, i \in S PROVE i + 1 \in S
    <3> SUFFICES ASSUME i + 1 <= n PROVE u[i + 1] = t[i + 1]
      OBVIOUS
    <3>1. i + 1 \in 1 .. n /\ i + 1 - 1 = i /\ u[i] = t[i]
      BY <2>2
    <3>2. u[i + 1] = u[i] + s[i + 1] /\ t[i + 1] = t[i] + s[i + 1]
      BY <1>1, <1>7, <3>1 DEF Sums
    <3>3. QED
      BY <3>1, <3>2
  <2>3. Nat \subseteq S
    <3> HIDE DEF S
    <3>1. QED
      BY <2>1, <2>2, Induct
  <2>4. \A i \in 0 .. n : i \in S /\ i <= n
    <3> HIDE DEF S
    <3>1. QED
      BY <2>3
  <2>5. QED
    BY <2>4
<1>9. u = t
  <2>1. u = [i \in 0 .. n |-> u[i]]
    BY <1>6
  <2>2. t = [i \in 0 .. n |-> t[i]]
    BY <1>1 DEF Sums
  <2> HIDE DEF D
  <2>3. QED
    BY <1>8, <2>1, <2>2
<1>10. QED
  BY <1>1, <1>5, <1>9

\* Sums of natural numbers are natural.
LEMMA NaturalSums ==
  ASSUME NEW n \in Nat, NEW s, \A i \in 1 .. n : s[i] \in Nat, NEW t, Sums(s, n, t)
  PROVE  \A i \in 0 .. n : t[i] \in Nat
<1> DEFINE S == {i \in Nat : i <= n => t[i] \in Nat}
<1>1. 0 \in S
  BY DEF Sums
<1>2. ASSUME NEW i \in Nat, i \in S PROVE i + 1 \in S
  <2> SUFFICES ASSUME i + 1 <= n PROVE t[i + 1] \in Nat
    OBVIOUS
  <2>1. i + 1 \in 1 .. n /\ i + 1 - 1 = i /\ t[i] \in Nat /\ s[i + 1] \in Nat
    BY <1>2
  <2>2. t[i + 1] = t[i] + s[i + 1]
    BY <2>1 DEF Sums
  <2>3. QED
    BY <2>1, <2>2
<1>3. Nat \subseteq S
  <2> HIDE DEF S
  <2>1. QED
    BY <1>1, <1>2, Induct
<1>4. \A i \in 0 .. n : i \in S /\ i <= n
  <2> HIDE DEF S
  <2>1. QED
    BY <1>3
<1>5. QED
  BY <1>4

N == Len(Sections)
Extent(i) == Pages(Sections[i].bytes)

LEMMA SectionTypes ==
  /\ N \in Nat \ {0} /\ DOMAIN Sections = 1 .. N /\ KernelPhys \in Nat
  /\ \A i \in 1 .. N : Extent(i) \in Nat
<1>1. Sections \in Seq([bytes : Nat, mode : {"RX", "R", "RW"}]) /\ Sections # << >>
  BY BootAssumption
<1>2. N \in Nat \ {0} /\ DOMAIN Sections = 1 .. N
  BY <1>1 DEF N
<1>3. ASSUME NEW i \in 1 .. N PROVE Sections[i].bytes \in Nat
  <2> DEFINE Section == [bytes : Nat, mode : {"RX", "R", "RW"}]
  <2>1. Sections \in Seq(Section) /\ i \in 1 .. Len(Sections)
    BY <1>1 DEF N
  <2>2. Sections[i] \in Section
    <3> HIDE DEF Section
    <3>1. QED
      BY <2>1
  <2>3. QED
    BY <2>2
<1>4. PageBytes \in Nat \ {0} /\ KernelPhys \in Nat
  BY BootAssumption
<1>5. QED
  BY <1>2, <1>3, <1>4, RoundedUp DEF Extent, Pages

\* Where the first n sections start.
Starts(n, g) ==
  /\ g \in [1 .. n -> Nat]
  /\ \A i \in 1 .. n : g[i] = IF i = 1 THEN 0 ELSE g[i - 1] + Extent(i - 1)

LEMMA LayoutStarts == Starts(N, Layout)
<1> DEFINE pages == [i \in DOMAIN Sections |-> Pages(Sections[i].bytes)]
<1>1. /\ N \in Nat \ {0} /\ DOMAIN Sections = 1 .. N
      /\ \A i \in 1 .. N : Extent(i) \in Nat
  BY SectionTypes
<1>2. Len(pages) = N /\ \A i \in 1 .. N : pages[i] = Extent(i)
  BY <1>1 DEF Extent
<1>3. Layout = [i \in 1 .. N |-> Totals(pages)[i - 1]]
  BY <1>1 DEF Layout
<1> HIDE DEF pages
<1>4. PICK t : t = Totals(pages) /\ Sums(pages, N, t)
  BY <1>1, <1>2, TotalsAreSums
<1>5. \A i \in 0 .. N : t[i] \in Nat
  BY <1>1, <1>2, <1>4, NaturalSums
<1>6. Layout = [i \in 1 .. N |-> t[i - 1]]
  BY <1>3, <1>4
<1>7. \A i \in 1 .. N : i - 1 \in 0 .. N
  BY <1>1
<1>8. Layout \in [1 .. N -> Nat]
  BY <1>5, <1>6, <1>7
<1>9. ASSUME NEW i \in 1 .. N, i # 1 PROVE Layout[i] = Layout[i - 1] + Extent(i - 1)
  <2>1. i - 1 \in 1 .. N /\ i - 1 - 1 \in 0 .. N
    BY <1>1, <1>9
  <2>2. Layout[i] = t[i - 1] /\ Layout[i - 1] = t[i - 1 - 1]
    BY <1>6, <2>1
  <2>3. t[i - 1] = t[i - 1 - 1] + pages[i - 1]
    BY <1>4, <2>1 DEF Sums
  <2>4. QED
    BY <1>2, <2>1, <2>2, <2>3
<1>10. Layout[1] = 0
  <2>1. Layout[1] = t[1 - 1] /\ 1 - 1 = 0
    BY <1>1, <1>6
  <2>2. QED
    BY <1>4, <2>1 DEF Sums
<1>11. QED
  BY <1>8, <1>9, <1>10 DEF Starts

\* Sections do not overlap.
LEMMA LayoutOrdered ==
  ASSUME NEW i \in 1 .. N, NEW j \in 1 .. N, i < j
  PROVE  Layout[i] + Extent(i) <= Layout[j]
<1> DEFINE S == {n \in Nat : i + 1 + n <= N => Layout[i] + Extent(i) <= Layout[i + 1 + n]}
<1>1. /\ \A k \in 1 .. N : Layout[k] \in Nat /\ Extent(k) \in Nat
      /\ \A k \in 1 .. N : k # 1 => Layout[k] = Layout[k - 1] + Extent(k - 1)
      /\ N \in Nat
  BY LayoutStarts, SectionTypes DEF Starts
<1>2. 0 \in S
  <2> SUFFICES ASSUME i + 1 <= N PROVE Layout[i] + Extent(i) <= Layout[i + 1 + 0]
    OBVIOUS
  <2>1. i + 1 + 0 \in 1 .. N /\ i + 1 + 0 # 1 /\ i + 1 + 0 - 1 = i
    BY <1>1
  <2>2. Layout[i + 1 + 0] = Layout[i] + Extent(i)
    BY <1>1, <2>1
  <2>3. QED
    BY <1>1, <2>2
<1>3. ASSUME NEW n \in Nat, n \in S PROVE n + 1 \in S
  <2> SUFFICES ASSUME i + 1 + (n + 1) <= N
               PROVE  Layout[i] + Extent(i) <= Layout[i + 1 + (n + 1)]
    OBVIOUS
  <2> DEFINE k == i + 1 + (n + 1)
  <2>1. k \in 1 .. N /\ k # 1 /\ k - 1 = i + 1 + n /\ k - 1 \in 1 .. N /\ i + 1 + n <= N
    BY <1>1
  <2>2. Layout[k] = Layout[k - 1] + Extent(k - 1)
    BY <1>1, <2>1
  <2>3. Layout[i] + Extent(i) <= Layout[k - 1]
    BY <1>3, <2>1
  <2>4. Layout[k - 1] \in Nat /\ Extent(k - 1) \in Nat /\ Layout[i] \in Nat /\ Extent(i) \in Nat
    BY <1>1, <2>1
  <2> HIDE DEF k
  <2>5. Layout[i] + Extent(i) <= Layout[k]
    BY <2>2, <2>3, <2>4
  <2>6. QED
    BY <2>5 DEF k
<1>4. Nat \subseteq S
  <2> HIDE DEF S
  <2>1. QED
    BY <1>2, <1>3, Induct
<1>5. j - i - 1 \in Nat /\ i + 1 + (j - i - 1) = j /\ j <= N
  BY <1>1
<1>6. j - i - 1 \in S
  BY <1>4, <1>5
<1>7. QED
  BY <1>5, <1>6

\* The steps before the kernel's map gets the image, after it has it, and
\* before the bitmaps move.
Unfilled == Before \cup {"memory", "kernelVm"}
Filled == After \ {"kernelVm", "sections"}
Unmoved == Unfilled \cup {"sections", "image", "findFb", "noteFb", "mapFb"}

In(area) == {m \in mappings : m.area = area}

\* What is mapped of a section, and of the first n.
Image(i) == Mapped("image", Layout[i], KernelPhys + Layout[i], Extent(i), Sections[i].mode)
Images(n) == UNION {Image(i) : i \in 1 .. n}

\* The regions whose bitmaps have moved, and what is mapped of one.
Moved == {i \in DOMAIN bitmapAt : bitmapAt[i] # Identity}
Bitmap(i) == Mapped("metadata", bitmapAt[i], regions[i].base, BitmapPages(regions[i]), "RW")
End(i) == bitmapAt[i] + BitmapPages(regions[i])

ImageInv ==
  /\ pc \in Unfilled => offset = 0 /\ In("image") = {}
  /\ pc = "sections" => /\ step \in 0 .. N - 1 /\ offset = Layout[step + 1]
                        /\ In("image") = Images(step)
  /\ pc \in Filled => In("image") = Images(N)

BitmapsApart ==
  /\ nextBitmap \in Nat
  /\ In("metadata") = UNION {Bitmap(i) : i \in Moved}
  /\ \A i \in Moved : bitmapAt[i] \in Nat /\ End(i) < nextBitmap
  /\ \A i, j \in Moved : i < j => End(i) < bitmapAt[j]

\* (Without regions there are no bitmaps.)
BitmapInv ==
  /\ bitmapAt \in Seq(Int) /\ Len(bitmapAt) = Len(regions)
  /\ pc \in Unmoved => Moved = {} /\ In("metadata") = {} /\ nextBitmap = 0
  /\ pc = "remap" => /\ step \in Nat /\ \A i \in Moved : i <= step
                     /\ regions # << >> => step < Len(regions)
  /\ regions # << >> => BitmapsApart

MapInv == ImageInv /\ BitmapInv

LEMMA InitMap == Init => MapInv
<1> SUFFICES ASSUME Init PROVE MapInv
  OBVIOUS
<1>1. /\ pc = "console" /\ regions = << >> /\ bitmapAt = << >> /\ nextBitmap = 0
      /\ mappings = {} /\ offset = 0
  BY DEF Init
<1>2. In("image") = {} /\ In("metadata") = {} /\ Moved = {}
  BY <1>1 DEF In, Moved
<1>3. ImageInv
  BY <1>1, <1>2 DEF ImageInv, Unfilled, Filled, Before, After
<1>4. BitmapInv
  BY <1>1, <1>2 DEF BitmapInv
<1>5. QED
  BY <1>3, <1>4 DEF MapInv

\* Steps that leave the map alone.
SameFilling ==
  /\ pc' \in Unfilled => pc \in Unfilled
  /\ pc' = "sections" => pc = pc' /\ step' = step
  /\ pc' \in Filled => pc \in Filled
  /\ pc' \in Unmoved => pc \in Unmoved
  /\ pc' = "remap" => pc = pc' /\ step' = step

LEMMA QuietImage ==
  ASSUME ImageInv, SameFilling, offset' = offset, In("image")' = In("image")
  PROVE  ImageInv'
<1>1. \A n : Images(n)' = Images(n)
  BY DEF Images, Image
<1>2. QED
  BY <1>1 DEF ImageInv, SameFilling

LEMMA QuietBitmaps ==
  ASSUME BitmapInv, SameFilling, UNCHANGED <<regions, bitmapAt, nextBitmap>>,
         In("metadata")' = In("metadata")
  PROVE  BitmapInv'
<1>1. /\ Moved' = Moved /\ \A i : Bitmap(i)' = Bitmap(i) /\ End(i)' = End(i)
  BY DEF Moved, Bitmap, End
<1>2. BitmapsApart' <=> BitmapsApart
  BY <1>1 DEF BitmapsApart
<1>3. QED
  BY <1>1, <1>2 DEF BitmapInv, SameFilling

LEMMA QuietMap ==
  ASSUME MapInv, UNCHANGED <<regions, bitmapAt, nextBitmap, mappings, offset>>, SameFilling
  PROVE  MapInv'
<1>1. \A area : In(area)' = In(area)
  BY DEF In
<1>2. QED
  BY <1>1, QuietImage, QuietBitmaps DEF MapInv

LEMMA SameFillingStep == UNCHANGED <<pc, step>> => SameFilling
BY DEF SameFilling

LEMMA PanicKeepsMap ==
  ASSUME MapInv, UNCHANGED bootVars
  PROVE  MapInv'
BY SameFillingStep, QuietMap DEF bootVars, memoryVars

\* Where no bitmap has moved, there is nothing to keep apart.
LEMMA NoneMoved ==
  ASSUME Moved = {}, In("metadata") = {}, nextBitmap = 0
  PROVE  BitmapsApart
BY DEF BitmapsApart

LEMMA AddEntryMap == RegionsInv /\ MapInv /\ AddEntry => MapInv'
<1> SUFFICES ASSUME RegionsInv, MapInv, AddEntry PROVE MapInv'
  OBVIOUS
<1> DEFINE r == Clipped(machine.entries[step + 1])
<1>1. CASE UNCHANGED bootVars
  BY <1>1, PanicKeepsMap
<1>2. CASE /\ UNCHANGED <<pc, nextBitmap, mappings, offset>>
           /\ UNCHANGED <<regions, bitmapAt>>
  <2>1. SameFilling
    BY <1>2 DEF SameFilling, AddEntry, At_
  <2>2. QED
    BY <1>2, <2>1, QuietMap
<1>3. CASE /\ UNCHANGED <<pc, nextBitmap, mappings, offset>>
           /\ regions' = Append(regions, r) /\ bitmapAt' = Append(bitmapAt, Identity)
  <2>1. pc = "memory" /\ pc' = "memory" /\ pc \in Unmoved
    BY <1>3 DEF AddEntry, At_, Unmoved, Unfilled
  <2>2. SameFilling
    BY <2>1 DEF SameFilling
  <2>3. \A area : In(area)' = In(area)
    BY <1>3 DEF In
  <2>4. ImageInv'
    BY <1>3, <2>2, <2>3, QuietImage DEF MapInv
  <2>5. /\ bitmapAt \in Seq(Int) /\ Len(bitmapAt) = Len(regions) /\ Moved = {}
        /\ In("metadata") = {} /\ nextBitmap = 0
    BY <2>1 DEF MapInv, BitmapInv
  <2>6. regions \in Seq([base : Nat, length : Nat])
    BY DEF RegionsInv
  <2>7. bitmapAt' \in Seq(Int) /\ Len(bitmapAt') = Len(bitmapAt) + 1
    BY <1>3, <2>5 DEF Identity
  <2>8. Len(regions') = Len(regions) + 1
    <3>1. \A s \in Seq([base : Nat, length : Nat]) : \A x : Len(Append(s, x)) = Len(s) + 1
      OBVIOUS
    <3>2. QED
      BY <1>3, <2>6, <3>1
  <2>9. Moved' = {}
    BY <1>3, <2>5 DEF Moved, Identity
  <2>10. BitmapsApart'
    BY <1>3, <2>3, <2>5, <2>9 DEF BitmapsApart
  <2>11. BitmapInv'
    <3>1. In("metadata")' = {} /\ nextBitmap' = 0 /\ pc' # "remap"
      BY <1>3, <2>1, <2>3, <2>5
    <3>2. QED
      BY <2>5, <2>7, <2>8, <2>9, <2>10, <3>1 DEF BitmapInv
  <2>12. QED
    BY <2>4, <2>11 DEF MapInv
<1>4. QED
  BY <1>1, <1>2, <1>3 DEF AddEntry, Unless

\* Steps that change no memory.
LEMMA OtherMap ==
  ASSUME MapInv,
         \/ ConsoleInit \/ NoteBuild \/ NotePlatform \/ BacktraceInit \/ VerifyFeatures
         \/ SetUpGdt \/ SetUpIdt \/ EntriesDone \/ WarnNoImage \/ FindFramebuffer
         \/ NoteFramebuffer \/ PrepareConsole \/ SetUpLocals \/ Activate
         \/ FinishedEarlyBoot \/ EnableConsole \/ NoteCpus \/ PrintBanner \/ PrintRevision
         \/ StartReturns
  PROVE  MapInv'
<1> USE DEF Before, After, Unfilled, Filled, Unmoved
<1>1. CASE \/ ConsoleInit \/ NoteBuild \/ NotePlatform \/ BacktraceInit \/ SetUpGdt
           \/ SetUpIdt \/ WarnNoImage \/ FindFramebuffer \/ NoteFramebuffer
  <2>1. /\ UNCHANGED <<regions, bitmapAt, nextBitmap, mappings, offset>>
        /\ \/ pc \in Before /\ pc' \in Before \cup {"memory"}
           \/ <<pc, pc'>> \in {<<"image", "findFb">>, <<"findFb", "prepare">>,
                               <<"findFb", "noteFb">>, <<"noteFb", "mapFb">>}
    BY <1>1 DEF ConsoleInit, NoteBuild, NotePlatform, BacktraceInit, SetUpGdt, SetUpIdt,
                WarnNoImage, FindFramebuffer, NoteFramebuffer, SetsUp, Announce, At_, keepPc,
                memoryVars
  <2>2. SameFilling
    BY <2>1 DEF SameFilling
  <2>3. QED
    BY <2>1, <2>2, QuietMap
<1>2. CASE VerifyFeatures \/ EntriesDone
  <2>1. \/ UNCHANGED bootVars
        \/ /\ UNCHANGED <<regions, bitmapAt, nextBitmap, mappings, offset>>
           /\ <<pc, pc'>> \in {<<"features", "gdt">>, <<"memory", "kernelVm">>}
    BY <1>2 DEF VerifyFeatures, EntriesDone, Unless, Announce, At_, keepPc, memoryVars
  <2>2. SameFilling \/ UNCHANGED bootVars
    BY <2>1 DEF SameFilling
  <2>3. QED
    BY <2>1, <2>2, QuietMap, PanicKeepsMap
<1>3. CASE \/ PrepareConsole \/ SetUpLocals \/ Activate \/ FinishedEarlyBoot
           \/ EnableConsole \/ NoteCpus \/ PrintBanner \/ PrintRevision
  <2>1. /\ UNCHANGED <<regions, bitmapAt, nextBitmap, mappings, offset>>
        /\ pc \in {"prepare", "locals", "activate", "early", "enabled", "cpus", "banner",
                   "revision"}
        /\ pc' \in {"locals", "activate", "early", "enabled", "cpus", "banner", "revision",
                    "start"}
    BY <1>3 DEF PrepareConsole, SetUpLocals, Activate, FinishedEarlyBoot, EnableConsole,
                NoteCpus, PrintBanner, PrintRevision, SetsUp, Announce, At_, keepPc, memoryVars
  <2>2. SameFilling
    BY <2>1 DEF SameFilling
  <2>3. QED
    BY <2>1, <2>2, QuietMap
<1>4. CASE StartReturns
  BY <1>4, PanicKeepsMap DEF StartReturns
<1>5. QED
  BY <1>1, <1>2, <1>3, <1>4

LEMMA InitKernelVmMap == MapInv /\ InitKernelVm => MapInv'
<1> SUFFICES ASSUME MapInv, InitKernelVm PROVE MapInv'
  OBVIOUS
<1>1. CASE UNCHANGED bootVars
  BY <1>1, PanicKeepsMap
<1>2. CASE /\ UNCHANGED <<regions, bitmapAt, nextBitmap, mappings, offset>>
           /\ pc' = "sections" /\ step' = 0
  <2>1. pc \in Unfilled /\ pc \in Unmoved
    BY DEF InitKernelVm, At_, Unmoved, Unfilled
  <2>2. pc' \notin Unfilled /\ pc' \notin Filled /\ pc' # "remap"
    BY <1>2 DEF Unfilled, Filled, Before
  <2>3. \A area : In(area)' = In(area)
    BY <1>2 DEF In
  <2>4. offset = 0 /\ In("image") = {}
    BY <2>1 DEF MapInv, ImageInv
  <2>5. Layout[1] = 0 /\ 0 \in 0 .. N - 1 /\ Images(0)' = {}
    BY LayoutStarts, SectionTypes DEF Starts, Images
  <2>6. ImageInv'
    BY <1>2, <2>2, <2>3, <2>4, <2>5 DEF ImageInv
  <2>7. Moved' = Moved /\ Moved = {} /\ In("metadata") = {} /\ nextBitmap = 0
    BY <1>2, <2>1 DEF Moved, MapInv, BitmapInv
  <2>8. BitmapsApart'
    BY <1>2, <2>3, <2>7 DEF BitmapsApart
  <2>9. BitmapInv'
    BY <1>2, <2>2, <2>3, <2>7, <2>8 DEF BitmapInv, MapInv
  <2>10. QED
    BY <2>6, <2>9 DEF MapInv
<1>3. QED
  BY <1>1, <1>2 DEF InitKernelVm, Unless

\* A mapping adds to its own area only.
LEMMA MappedIn ==
  ASSUME NEW area, NEW first, NEW phys, NEW n, NEW mode,
         mappings' = mappings \cup Mapped(area, first, phys, n, mode)
  PROVE  /\ In(area)' = In(area) \cup Mapped(area, first, phys, n, mode)
         /\ \A other : other # area => In(other)' = In(other)
<1>1. \A m \in Mapped(area, first, phys, n, mode) : m.area = area
  BY DEF Mapped
<1> HIDE DEF Mapped
<1>2. QED
  BY <1>1 DEF In

LEMMA MapKernelSectionMap == MapInv /\ MapKernelSection => MapInv'
<1> SUFFICES ASSUME MapInv, MapKernelSection PROVE MapInv'
  OBVIOUS
<1> DEFINE i == step + 1
<1>1. CASE UNCHANGED bootVars
  BY <1>1, PanicKeepsMap
<1>2. CASE /\ mappings' = mappings \cup Mapped("image", offset, KernelPhys + offset,
                                     Pages(Sections[i].bytes), Sections[i].mode)
           /\ offset' = NextOffset(i) /\ step' = i
           /\ pc' = IF i = N THEN "image" ELSE pc
           /\ UNCHANGED <<regions, bitmapAt, nextBitmap>>
  <2>1. pc = "sections" /\ pc \in Unmoved
    BY DEF MapKernelSection, At_, Unmoved
  <2>2. /\ step \in 0 .. N - 1 /\ offset = Layout[i] /\ In("image") = Images(step)
    BY <2>1 DEF MapInv, ImageInv
  <2>3. PICK n : n = step
    OBVIOUS
  <2>4. n \in 0 .. N - 1 /\ n + 1 \in 1 .. N /\ N \in Nat \ {0}
    BY <2>2, <2>3, SectionTypes
  <2>5. Mapped("image", offset, KernelPhys + offset, Pages(Sections[i].bytes),
               Sections[i].mode) = Image(n + 1)
    BY <2>2, <2>3 DEF Image, Extent
  <2>6. Images(n + 1) = Images(n) \cup Image(n + 1)
    <3>1. 1 .. n + 1 = (1 .. n) \cup {n + 1}
      BY <2>4
    <3>2. QED
      BY <3>1 DEF Images
  <2>7. In("image")' = Images(n + 1) /\ In("metadata")' = In("metadata")
    <3>1. /\ In("image")' = In("image") \cup Mapped("image", offset, KernelPhys + offset,
                                          Pages(Sections[i].bytes), Sections[i].mode)
          /\ \A other : other # "image" => In(other)' = In(other)
      <4> HIDE DEF i
      <4>1. QED
        BY <1>2, MappedIn, Zenon
    <3>2. In("image")' = In("image") \cup Image(n + 1)
      BY <2>5, <3>1
    <3>3. In("metadata")' = In("metadata")
      BY <3>1
    <3>4. QED
      BY <2>2, <2>3, <2>6, <3>2, <3>3
  <2>8. \A k : Images(k)' = Images(k)
    BY DEF Images, Image
  <2>9. ImageInv'
    <3>1. CASE n + 1 = N
      <4>1. pc' = "image" /\ pc' \notin Unfilled
        BY <1>2, <2>3, <3>1 DEF Unfilled, Before
      <4>2. QED
        BY <2>7, <2>8, <3>1, <4>1 DEF ImageInv
    <3>2. CASE n + 1 # N
      <4>1. pc' = "sections" /\ pc' \notin Unfilled /\ pc' \notin Filled
        BY <1>2, <2>1, <2>3, <3>2 DEF Unfilled, Filled, Before
      <4>2. n + 1 \in 0 .. N - 1 /\ n + 1 + 1 \in 1 .. N /\ n + 1 + 1 # 1 /\ n + 1 + 1 - 1 = n + 1
        BY <2>4, <3>2
      <4>3. Layout[n + 1 + 1] = Layout[n + 1] + Extent(n + 1)
        BY <4>2, LayoutStarts DEF Starts
      <4>4. offset' = Layout[n + 1 + 1]
        BY <1>2, <2>2, <2>3, <4>3 DEF NextOffset, Extent
      <4>5. step' = n + 1
        BY <1>2, <2>3
      <4>6. QED
        BY <2>7, <2>8, <4>1, <4>2, <4>4, <4>5 DEF ImageInv
    <3>3. QED
      BY <3>1, <3>2
  <2>10. Moved' = Moved /\ Moved = {} /\ In("metadata") = {} /\ nextBitmap = 0
    BY <1>2, <2>1 DEF Moved, MapInv, BitmapInv
  <2>11. BitmapsApart'
    BY <1>2, <2>7, <2>10 DEF BitmapsApart
  <2>12. BitmapInv'
    <3>1. pc' # "remap"
      BY <1>2, <2>1
    <3>2. QED
      BY <1>2, <2>7, <2>10, <2>11, <3>1 DEF BitmapInv, MapInv
  <2>13. QED
    BY <2>9, <2>12 DEF MapInv
<1>3. QED
  BY <1>1, <1>2 DEF MapKernelSection, Unless, MapRegion, N

LEMMA MapFramebufferMap == RegionsInv /\ MapInv /\ MapFramebuffer => MapInv'
<1> SUFFICES ASSUME RegionsInv, MapInv, MapFramebuffer PROVE MapInv'
  OBVIOUS
<1>1. CASE UNCHANGED bootVars
  BY <1>1, PanicKeepsMap
<1>2. CASE /\ mappings' = mappings \cup Mapped("framebuffer", 0, FbPhys, FbPages, "RW")
           /\ pc' = "remap" /\ step' = 0
           /\ UNCHANGED <<regions, bitmapAt, nextBitmap, offset>>
  <2>1. pc \in Filled /\ pc \in Unmoved
    BY DEF MapFramebuffer, At_, Unmoved, Filled, After
  <2>2. In("image")' = In("image") /\ In("metadata")' = In("metadata")
    BY <1>2, MappedIn
  <2>3. Images(N)' = Images(N)
    BY DEF Images, Image
  <2>4. pc' \notin Unfilled /\ pc' \notin Unmoved /\ pc' # "sections"
    BY <1>2 DEF Unmoved, Unfilled, Before
  <2>5. ImageInv'
    BY <2>1, <2>2, <2>3, <2>4 DEF ImageInv, MapInv
  <2>6. Moved' = Moved /\ Moved = {} /\ In("metadata") = {} /\ nextBitmap = 0
    BY <1>2, <2>1 DEF Moved, MapInv, BitmapInv
  <2>7. BitmapsApart'
    BY <1>2, <2>2, <2>6 DEF BitmapsApart
  <2>8. regions # << >> => 0 < Len(regions)
    BY DEF RegionsInv
  <2>9. BitmapInv'
    BY <1>2, <2>4, <2>6, <2>7, <2>8 DEF BitmapInv, MapInv
  <2>10. QED
    BY <2>5, <2>9 DEF MapInv
<1>3. QED
  BY <1>1, <1>2 DEF MapFramebuffer, Unless, MapRegion

LEMMA BitmapSizes ==
  ASSUME regions \in Seq([base : Nat, length : Nat])
  PROVE  \A j \in 1 .. Len(regions) : BitmapPages(regions[j]) \in Nat
<1> TAKE j \in 1 .. Len(regions)
<1>1. regions[j] \in [base : Nat, length : Nat]
  <2>1. \A Set : \A s \in Seq(Set) : \A k \in 1 .. Len(s) : s[k] \in Set
    OBVIOUS
  <2>2. QED
    BY <2>1
<1>2. regions[j].length \in Nat /\ PagesPerBitmapPage \in Nat \ {0}
  BY <1>1, BootAssumption
<1>3. QED
  BY <1>2, RoundedUp DEF BitmapPages

\* A bitmap that moves goes past those that have.
LEMMA NextBitmap ==
  ASSUME RegionsInv, BitmapInv, pc = "remap", regions # << >>,
         NEW i, i = step + 1, NEW r, r = regions[i],
         UNCHANGED regions,
         bitmapAt' = [bitmapAt EXCEPT ![i] = nextBitmap],
         nextBitmap' = nextBitmap + Advance(r),
         In("metadata")' = In("metadata")
                             \cup Mapped("metadata", nextBitmap, r.base, BitmapPages(r), "RW")
  PROVE  BitmapsApart' /\ (\A j \in Moved' : j <= i) /\ i \in 1 .. Len(regions)
<1>1. /\ regions \in Seq([base : Nat, length : Nat]) /\ bitmapAt \in Seq(Int)
      /\ Len(bitmapAt) = Len(regions) /\ step \in Nat /\ \A j \in Moved : j <= step
      /\ step < Len(regions) /\ BitmapsApart
  BY DEF RegionsInv, BitmapInv
<1>2. i \in 1 .. Len(regions) /\ DOMAIN bitmapAt = 1 .. Len(regions) /\ Len(regions) \in Nat
  BY <1>1
<1>3. \A j \in 1 .. Len(regions) : BitmapPages(regions[j]) \in Nat
  BY <1>1, BitmapSizes
<1>4. nextBitmap \in Nat /\ nextBitmap # Identity
  BY <1>1 DEF BitmapsApart, Identity
<1>5. /\ DOMAIN bitmapAt' = 1 .. Len(regions) /\ bitmapAt'[i] = nextBitmap
      /\ \A j \in 1 .. Len(regions) : j # i => bitmapAt'[j] = bitmapAt[j]
  BY <1>2
<1>6. Moved' = Moved \cup {i} /\ i \notin Moved /\ Moved \subseteq 1 .. Len(regions)
  <2>1. i \notin Moved
    BY <1>1, <1>2
  <2>2. QED
    BY <1>2, <1>4, <1>5, <2>1 DEF Moved
<1>7. \A j \in Moved : bitmapAt'[j] = bitmapAt[j]
  BY <1>5, <1>6
<1>8. \A j \in Moved : Bitmap(j)' = Bitmap(j) /\ End(j)' = End(j)
  BY <1>7 DEF Bitmap, End
<1>9. /\ Bitmap(i)' = Mapped("metadata", nextBitmap, r.base, BitmapPages(r), "RW")
      /\ End(i)' = nextBitmap + BitmapPages(r)
  BY <1>5 DEF Bitmap, End
<1>10. End(i)' < nextBitmap' /\ nextBitmap < nextBitmap' /\ nextBitmap' \in Nat
  BY <1>2, <1>3, <1>4, <1>9 DEF Advance
<1>11. In("metadata")' = UNION {Bitmap(j)' : j \in Moved'}
  <2>1. In("metadata") = UNION {Bitmap(j) : j \in Moved}
    BY <1>1 DEF BitmapsApart
  <2>2. UNION {Bitmap(j)' : j \in Moved} = UNION {Bitmap(j) : j \in Moved}
    BY <1>8
  <2>3. UNION {Bitmap(j)' : j \in Moved \cup {i}}
          = (UNION {Bitmap(j)' : j \in Moved}) \cup Bitmap(i)'
    OBVIOUS
  <2>4. QED
    BY <1>6, <1>9, <2>1, <2>2, <2>3
<1>12. \A j \in Moved : bitmapAt[j] \in Nat /\ End(j) \in Nat /\ End(j) < nextBitmap
  <2> TAKE j \in Moved
  <2>1. bitmapAt[j] \in Nat /\ End(j) < nextBitmap
    BY <1>1 DEF BitmapsApart
  <2>2. BitmapPages(regions[j]) \in Nat
    BY <1>3, <1>6
  <2>3. QED
    BY <2>1, <2>2 DEF End
<1>13. \A j \in Moved' : bitmapAt'[j] \in Nat /\ End(j)' < nextBitmap'
  <2> TAKE j \in Moved'
  <2>1. CASE j = i
    BY <1>4, <1>5, <1>10, <2>1
  <2>2. CASE j \in Moved
    BY <1>4, <1>7, <1>8, <1>10, <1>12, <2>2
  <2>3. QED
    BY <1>6, <2>1, <2>2
<1>14. \A j, k \in Moved' : j < k => End(j)' < bitmapAt'[k]
  <2> SUFFICES ASSUME NEW j \in Moved', NEW k \in Moved', j < k
               PROVE  End(j)' < bitmapAt'[k]
    OBVIOUS
  <2>1. j \in Moved
    BY <1>1, <1>2, <1>6
  <2>2. CASE k = i
    BY <1>5, <1>8, <1>12, <2>1, <2>2
  <2>3. CASE k \in Moved
    BY <1>1, <1>7, <1>8, <2>1, <2>3 DEF BitmapsApart
  <2>4. QED
    BY <1>6, <2>2, <2>3
<1>15. \A j \in Moved' : j <= i
  BY <1>1, <1>2, <1>6
<1>16. QED
  BY <1>2, <1>10, <1>11, <1>13, <1>14, <1>15 DEF BitmapsApart

LEMMA RemapRegionMap == RegionsInv /\ MapInv /\ RemapRegion => MapInv'
<1> SUFFICES ASSUME RegionsInv, MapInv, RemapRegion PROVE MapInv'
  OBVIOUS
<1>1. CASE UNCHANGED bootVars
  BY <1>1, PanicKeepsMap
<1>2. ASSUME NEW i, i = step + 1, NEW r, r = regions[i],
             /\ mappings' = mappings
                  \cup Mapped("metadata", nextBitmap, r.base, BitmapPages(r), "RW")
             /\ bitmapAt' = [bitmapAt EXCEPT ![i] = nextBitmap]
             /\ nextBitmap' = nextBitmap + Advance(r)
             /\ pc' = IF i = Len(regions) THEN "prepare" ELSE pc
             /\ step' = i
             /\ UNCHANGED <<regions, offset>>
      PROVE  MapInv'
  <2>1. pc = "remap" /\ pc \in Filled /\ pc' \in {"remap", "prepare"}
    BY <1>2 DEF RemapRegion, At_, Filled, After
  <2>2. /\ In("image")' = In("image")
        /\ In("metadata")' = In("metadata")
             \cup Mapped("metadata", nextBitmap, r.base, BitmapPages(r), "RW")
    BY <1>2, MappedIn
  <2>3. Images(N)' = Images(N)
    BY DEF Images, Image
  <2>4. pc' \notin Unfilled /\ pc' \notin Unmoved /\ pc' # "sections"
    BY <2>1 DEF Unmoved, Unfilled, Before
  <2>5. ImageInv'
    BY <2>1, <2>2, <2>3, <2>4 DEF ImageInv, MapInv
  <2>6. /\ bitmapAt \in Seq(Int) /\ Len(bitmapAt) = Len(regions) /\ step \in Nat
        /\ regions \in Seq([base : Nat, length : Nat])
    BY <2>1 DEF MapInv, BitmapInv, RegionsInv
  <2>7. CASE regions = << >>
    <3>1. bitmapAt = << >> /\ bitmapAt' = << >>
      BY <1>2, <2>6, <2>7
    <3>2. Moved' = {} /\ i \in Nat
      BY <1>2, <2>6, <3>1 DEF Moved
    <3>3. bitmapAt' \in Seq(Int) /\ Len(bitmapAt') = Len(regions') /\ regions' = << >>
      BY <1>2, <2>6, <2>7, <3>1
    <3>4. BitmapInv'
      BY <1>2, <2>4, <3>2, <3>3 DEF BitmapInv
    <3>5. QED
      BY <2>5, <3>4 DEF MapInv
  <2>8. CASE regions # << >>
    <3>1. BitmapsApart' /\ (\A j \in Moved' : j <= i) /\ i \in 1 .. Len(regions)
      BY <1>2, <2>1, <2>2, <2>8, NextBitmap DEF MapInv
    <3>2. nextBitmap \in Nat
      BY <2>8 DEF MapInv, BitmapInv, BitmapsApart
    <3>3. bitmapAt' \in Seq(Int) /\ Len(bitmapAt') = Len(regions')
      BY <1>2, <2>6, <3>1, <3>2
    <3>4. pc' = "remap" => i \in Nat /\ i < Len(regions')
      BY <1>2, <2>6, <3>1
    <3>5. BitmapInv'
      BY <1>2, <2>4, <3>1, <3>3, <3>4 DEF BitmapInv
    <3>6. QED
      BY <2>5, <3>5 DEF MapInv
  <2>9. QED
    BY <2>7, <2>8
<1>3. QED
  BY <1>1, <1>2 DEF RemapRegion, Unless, MapRegion

LEMMA NextMap == RegionsInv /\ MapInv /\ [Next]_vars => MapInv'
<1> SUFFICES ASSUME RegionsInv, MapInv, [Next]_vars PROVE MapInv'
  OBVIOUS
<1>1. CASE UNCHANGED vars \/ Writes
  BY <1>1, PanicKeepsMap DEF vars, Writes
<1>2. CASE Uses
  <2>1. UNCHANGED <<regions, bitmapAt, nextBitmap, mappings, offset, pc, step>>
    <3>1. ASSUME NEW m \in Messages, KernelLogs(m)
          PROVE  UNCHANGED <<regions, bitmapAt, nextBitmap, mappings, offset, pc, step>>
      BY <3>1 DEF KernelLogs, memoryVars
    <3>2. CASE KernelAllocates
      BY <3>2 DEF KernelAllocates, Unless, bootVars, memoryVars
    <3>3. ASSUME NEW vector, NEW area, Take(vector, area)
          PROVE  UNCHANGED <<regions, bitmapAt, nextBitmap, mappings, offset, pc, step>>
      BY <3>3 DEF Take, memoryVars
    <3>4. QED
      BY <1>2, <3>1, <3>2, <3>3 DEF Uses, PageFault, Exception, Interrupt
  <2>2. QED
    BY <2>1, SameFillingStep, QuietMap
<1>3. CASE Boots
  BY <1>3, AddEntryMap, OtherMap, InitKernelVmMap, MapKernelSectionMap, MapFramebufferMap,
     RemapRegionMap DEF Boots
<1>4. QED
  BY <1>1, <1>2, <1>3 DEF Next

\* What is mapped at a page of a section.
LEMMA PageOfSection ==
  ASSUME In("image") = Images(N), NEW i \in 1 .. N, NEW k \in 0 .. Extent(i) - 1
  PROVE  MappedAt("image", Layout[i] + k)
           = {[area |-> "image", page |-> Layout[i] + k,
               phys |-> KernelPhys + Layout[i] + k, mode |-> Sections[i].mode]}
<1> DEFINE p == Layout[i] + k
           Place(j, l) == [area |-> "image", page |-> Layout[j] + l,
                           phys |-> KernelPhys + Layout[j] + l, mode |-> Sections[j].mode]
<1>1. \A j \in 1 .. N : Layout[j] \in Nat /\ Extent(j) \in Nat
  BY LayoutStarts, SectionTypes DEF Starts
<1>2. \A j \in 1 .. N : Image(j) = {Place(j, l) : l \in 0 .. Extent(j) - 1}
  BY DEF Image, Mapped
<1>3. MappedAt("image", p) = {m \in Images(N) : m.page = p}
  BY DEF MappedAt, In
<1>4. Place(i, k) \in Images(N) /\ Place(i, k).page = p
  BY <1>2 DEF Images
<1>5. ASSUME NEW m \in Images(N), m.page = p PROVE m = Place(i, k)
  <2>1. PICK j \in 1 .. N : m \in Image(j)
    BY DEF Images
  <2>2. PICK l \in 0 .. Extent(j) - 1 : m = Place(j, l)
    BY <1>2, <2>1
  <2>3. Layout[j] + l = Layout[i] + k
    BY <1>5, <2>2
  <2>4. j = i
    <3>1. ~(i < j) /\ ~(j < i)
      BY <1>1, <2>3, LayoutOrdered
    <3>2. QED
      BY <3>1, SectionTypes
  <2>5. l = k
    BY <1>1, <2>3, <2>4
  <2>6. QED
    BY <2>2, <2>4, <2>5
<1>6. MappedAt("image", p) = {Place(i, k)}
  <2> HIDE DEF Place, p
  <2>1. QED
    BY <1>3, <1>4, <1>5
<1>7. QED
  BY <1>6

\* What is mapped at a page of a bitmap that has moved, and at the one after it.
LEMMA PageOfBitmap ==
  ASSUME RegionsInv, BitmapInv, NEW i \in Moved
  PROVE  /\ \A k \in 0 .. BitmapPages(regions[i]) - 1 :
              MappedAt("metadata", bitmapAt[i] + k)
                = {[area |-> "metadata", page |-> bitmapAt[i] + k,
                    phys |-> regions[i].base + k, mode |-> "RW"]}
         /\ MappedAt("metadata", End(i)) = {}
<1> DEFINE Place(j, l) == [area |-> "metadata", page |-> bitmapAt[j] + l,
                           phys |-> regions[j].base + l, mode |-> "RW"]
<1>1. /\ regions \in Seq([base : Nat, length : Nat]) /\ bitmapAt \in Seq(Int)
      /\ Len(bitmapAt) = Len(regions)
  BY DEF RegionsInv, BitmapInv
<1>2. Moved \subseteq 1 .. Len(regions) /\ Len(regions) \in Nat /\ regions # << >>
  BY <1>1 DEF Moved
<1>3. BitmapsApart
  BY <1>2 DEF BitmapInv
<1>4. \A j \in Moved : BitmapPages(regions[j]) \in Nat /\ bitmapAt[j] \in Nat
  <2> TAKE j \in Moved
  <2>1. regions[j] \in [base : Nat, length : Nat]
    <3>1. \A Set : \A s \in Seq(Set) : \A k \in 1 .. Len(s) : s[k] \in Set
      OBVIOUS
    <3>2. QED
      BY <1>1, <1>2, <3>1
  <2>2. regions[j].length \in Nat /\ PagesPerBitmapPage \in Nat \ {0}
    BY <2>1, BootAssumption
  <2>3. QED
    BY <1>3, <2>2, RoundedUp DEF BitmapPages, BitmapsApart
<1>5. \A j \in Moved : Bitmap(j) = {Place(j, l) : l \in 0 .. BitmapPages(regions[j]) - 1}
  BY DEF Bitmap, Mapped
<1>6. \A p : MappedAt("metadata", p) = {m \in In("metadata") : m.page = p}
  BY DEF MappedAt, In
<1>7. In("metadata") = UNION {Bitmap(j) : j \in Moved}
  BY <1>3 DEF BitmapsApart
<1>8. \A j \in Moved : i < j => End(i) < bitmapAt[j]
  BY <1>3 DEF BitmapsApart
<1>9. \A j \in Moved : j < i => End(j) < bitmapAt[i]
  BY <1>3 DEF BitmapsApart
\* No other bitmap reaches the pages from this one's first to the one after it.
<1>10. ASSUME NEW m \in In("metadata"), m.page \in bitmapAt[i] .. End(i)
       PROVE  \E l \in 0 .. BitmapPages(regions[i]) - 1 : m = Place(i, l)
  <2>1. PICK j \in Moved : m \in Bitmap(j)
    BY <1>7
  <2>2. PICK l \in 0 .. BitmapPages(regions[j]) - 1 : m = Place(j, l)
    BY <1>5, <2>1
  <2>3. m.page = bitmapAt[j] + l
    BY <2>2
  <2>4. /\ bitmapAt[j] + l \in bitmapAt[i] .. End(i)
        /\ End(i) = bitmapAt[i] + BitmapPages(regions[i])
        /\ End(j) = bitmapAt[j] + BitmapPages(regions[j])
    BY <1>10, <2>3 DEF End
  <2>5. ~(i < j) /\ ~(j < i)
    BY <1>4, <1>8, <1>9, <2>4
  <2>6. i = j
    BY <1>2, <2>5
  <2>7. QED
    BY <2>2, <2>6
<1>11. ASSUME NEW k \in 0 .. BitmapPages(regions[i]) - 1
       PROVE  MappedAt("metadata", bitmapAt[i] + k) = {Place(i, k)}
  <2>1. Place(i, k) \in In("metadata")
    BY <1>5, <1>7
  <2>2. Place(i, k).page = bitmapAt[i] + k
    OBVIOUS
  <2>3. ASSUME NEW m \in In("metadata"), m.page = bitmapAt[i] + k PROVE m = Place(i, k)
    <3>1. m.page \in bitmapAt[i] .. End(i)
      BY <1>4, <2>3 DEF End
    <3>2. PICK l \in 0 .. BitmapPages(regions[i]) - 1 : m = Place(i, l)
      BY <1>10, <3>1
    <3>3. bitmapAt[i] + l = bitmapAt[i] + k
      BY <2>3, <3>2
    <3>4. l = k
      BY <1>4, <3>3
    <3>5. QED
      BY <3>2, <3>4
  <2> HIDE DEF Place
  <2>4. QED
    BY <1>6, <2>1, <2>2, <2>3
<1>12. MappedAt("metadata", End(i)) = {}
  <2> SUFFICES ASSUME NEW m \in In("metadata"), m.page = End(i) PROVE FALSE
    BY <1>6
  <2>1. m.page \in bitmapAt[i] .. End(i)
    BY <1>4 DEF End
  <2>2. PICK l \in 0 .. BitmapPages(regions[i]) - 1 : m = Place(i, l)
    BY <1>10, <2>1
  <2>3. bitmapAt[i] + l = bitmapAt[i] + BitmapPages(regions[i])
    BY <2>2 DEF End
  <2>4. QED
    BY <1>4, <2>3
<1>13. QED
  BY <1>11, <1>12

\* From the switch of tables on, they map every page of the image once, where
\* it is and as its section demands, and each bitmap that has moved with an
\* unmapped page behind it (Boot/Entry.cpp, MapKernelSections).
THEOREM MapCorrect == Spec => []MapHoldsKernel
<1>1. ASSUME OutputInv, RegionsInv, MapInv, active = "kernel" PROVE MapHoldsKernel
  <2>1. pc \in Filled
    BY <1>1 DEF OutputInv, WithTerminal, WithNone, Switched, WithFbCons, Filled, After
  <2>2. In("image") = Images(N)
    BY <1>1, <2>1 DEF MapInv, ImageInv
  <2>3. ASSUME NEW i \in DOMAIN Sections, NEW k \in 0 .. Pages(Sections[i].bytes) - 1
        PROVE  MappedAt("image", Layout[i] + k)
                 = {[area |-> "image", page |-> Layout[i] + k,
                     phys |-> KernelPhys + Layout[i] + k, mode |-> Sections[i].mode]}
    <3>1. i \in 1 .. N /\ k \in 0 .. Extent(i) - 1
      BY SectionTypes DEF Extent
    <3>2. QED
      BY <2>2, <3>1, PageOfSection
  <2>4. \A i \in Moved : MappedAt("metadata", bitmapAt[i] + BitmapPages(regions[i])) = {}
    BY <1>1, PageOfBitmap DEF MapInv, End
  <2>5. {j \in DOMAIN regions : bitmapAt[j] # Identity} = Moved
    <3>1. DOMAIN regions = DOMAIN bitmapAt
      BY <1>1 DEF RegionsInv, MapInv, BitmapInv
    <3>2. QED
      BY <3>1 DEF Moved
  <2>6. BitmapInv
    BY <1>1 DEF MapInv
  <2>7. QED
    BY <1>1, <2>3, <2>4, <2>5, <2>6, PageOfBitmap DEF MapHoldsKernel
<1>2. OutputInv /\ RegionsInv /\ MapInv => MapHoldsKernel
  <2>1. CASE active = "kernel"
    BY <1>1, <2>1
  <2>2. CASE active # "kernel"
    BY <2>2 DEF MapHoldsKernel
  <2>3. QED
    BY <2>1, <2>2
<1>3. QED
  BY <1>2, InitOutputs, NextOutputs, InitRegions, NextRegions, InitMap, NextMap, PTL DEF Spec

-----------------------------------------------------------------------------
(* Exceptions: the tables and stubs, and what the kernel makes of them.      *)

LEMMA HandlerTable ==
  /\ DOMAIN gDefaultHandlers = 1 .. 19
  /\ \A i, j \in 1 .. 19 : i < j => gDefaultHandlers[i].idtIndex < gDefaultHandlers[j].idtIndex
<1>1. DOMAIN gDefaultHandlers = 1 .. 19
  BY DEF gDefaultHandlers
<1>2. \A i, j \in 1 .. 19 : i < j => gDefaultHandlers[i].idtIndex < gDefaultHandlers[j].idtIndex
  BY DEF gDefaultHandlers, Handler
<1>3. QED
  BY <1>1, <1>2

LEMMA GateOfHandler ==
  ASSUME NEW i \in 1 .. 19
  PROVE  LET h == gDefaultHandlers[i]
         IN  /\ h.idtIndex \in DOMAIN Gates
             /\ Gates[h.idtIndex] = [offset |-> h.function, selector |-> 8, ist |-> h.stack]
<1> DEFINE h == gDefaultHandlers[i]
           for == {j \in DOMAIN gDefaultHandlers : gDefaultHandlers[j].idtIndex = h.idtIndex}
<1>0. \A j \in 1 .. 19 : gDefaultHandlers[j].idtIndex \in Int
  BY DEF gDefaultHandlers, Handler
<1>1. for = {i}
  BY <1>0, HandlerTable
<1>2. (CHOOSE k \in for : \A j \in for : j <= k) = i
  BY <1>1
<1>3. h.idtIndex \in {gDefaultHandlers[j].idtIndex : j \in DOMAIN gDefaultHandlers}
  BY HandlerTable
<1>4. QED
  BY <1>2, <1>3 DEF Gates, Selectors

LEMMA TablesLeadToKernel ==
  ASSUME NEW processor, processor.gdt = BspGdt, processor.limit = 63, processor.task = 48,
         processor.idt = Gates, NEW i \in 1 .. 19
  PROVE  Delivers(processor, gDefaultHandlers[i].idtIndex)
<1>1. BspGdt[1] = [access |-> 154, gran |-> 175]
  BY DEF BspGdt, Set32, InstallTss, Selectors, kGdtSize
<1>2. BspGdt[6] = [access |-> 137, gran |-> 0]
  BY DEF BspGdt, Set32, InstallTss, Selectors, kGdtSize
<1>3. KernelCode(BspGdt[1])
  BY <1>1 DEF KernelCode
<1>4. 8 \div 8 = 1 /\ 48 \div 8 = 6
  OBVIOUS
<1>5. QED
  BY GateOfHandler, <1>2, <1>3, <1>4 DEF Delivers

Frame(code, irq) ==
  <<"ss", "rsp", "rflags", "cs", "rip", code, irq, "r15", "r14", "r13", "r12", "r11",
    "r10", "r9", "r8", "rbp", "rdi", "rsi", "rdx", "rcx", "rbx", "rax">>

Pushes(irq) ==
  {"ss", "rsp", "rflags", "cs", "rip", "zero", "errorCode", irq, "r15", "r14", "r13", "r12",
   "r11", "r10", "r9", "r8", "rbp", "rdi", "rsi", "rdx", "rcx", "rbx", "rax"}

LEMMA Joined ==
  ASSUME NEW S, NEW s \in Seq(S), NEW t \in Seq(S)
  PROVE  /\ s \o t \in Seq(S) /\ Len(s \o t) = Len(s) + Len(t)
         /\ \A i \in 1 .. Len(s) + Len(t) :
              (s \o t)[i] = IF i <= Len(s) THEN s[i] ELSE t[i - Len(s)]
OBVIOUS

LEMMA SameSequence ==
  ASSUME NEW S, NEW s \in Seq(S), NEW t \in Seq(S), Len(s) = Len(t),
         \A i \in 1 .. Len(s) : s[i] = t[i]
  PROVE  s = t
OBVIOUS

LEMMA RegistersPushed ==
  ASSUME NEW irq, NEW code \in {"zero", "errorCode"}, NEW c \in Seq(Pushes(irq)),
         Len(c) = 7, \A i \in 1 .. 7 : c[i] = Frame(code, irq)[i]
  PROVE  c \o CommonHandler = Frame(code, irq)
<1>1. CommonHandler \in Seq(Pushes(irq)) /\ Len(CommonHandler) = 15
  BY DEF CommonHandler, Pushes
<1>2. Frame(code, irq) \in Seq(Pushes(irq)) /\ Len(Frame(code, irq)) = 22
  BY DEF Frame, Pushes
<1>3. /\ c \o CommonHandler \in Seq(Pushes(irq)) /\ Len(c \o CommonHandler) = 22
      /\ \A i \in 1 .. 22 :
            (c \o CommonHandler)[i] = IF i <= 7 THEN c[i] ELSE CommonHandler[i - 7]
  <2>1. /\ c \o CommonHandler \in Seq(Pushes(irq)) /\ Len(c \o CommonHandler) = Len(c) + Len(CommonHandler)
        /\ \A i \in 1 .. Len(c) + Len(CommonHandler) :
             (c \o CommonHandler)[i] = IF i <= Len(c) THEN c[i] ELSE CommonHandler[i - Len(c)]
    BY <1>1, Joined, Zenon
  <2>2. Len(c) = 7 /\ Len(CommonHandler) = 15
    BY <1>1
  <2>3. Len(c) + Len(CommonHandler) = 22
    BY <2>2
  <2>4. \A i \in 1 .. 22 :
           (c \o CommonHandler)[i] = IF i <= 7 THEN c[i] ELSE CommonHandler[i - 7]
    BY <2>1, <2>2, <2>3, Zenon
  <2>5. QED
    BY <2>1, <2>3, <2>4, Zenon
<1>4. \A i \in 8 .. 22 : CommonHandler[i - 7] = Frame(code, irq)[i]
  <2>1. /\ CommonHandler[1] = "r15" /\ CommonHandler[2] = "r14" /\ CommonHandler[3] = "r13"
        /\ CommonHandler[4] = "r12" /\ CommonHandler[5] = "r11" /\ CommonHandler[6] = "r10"
        /\ CommonHandler[7] = "r9" /\ CommonHandler[8] = "r8" /\ CommonHandler[9] = "rbp"
        /\ CommonHandler[10] = "rdi" /\ CommonHandler[11] = "rsi" /\ CommonHandler[12] = "rdx"
        /\ CommonHandler[13] = "rcx" /\ CommonHandler[14] = "rbx" /\ CommonHandler[15] = "rax"
    BY DEF CommonHandler
  <2> DEFINE f == Frame(code, irq)
  <2>2. /\ f[8] = "r15" /\ f[9] = "r14" /\ f[10] = "r13" /\ f[11] = "r12" /\ f[12] = "r11"
        /\ f[13] = "r10" /\ f[14] = "r9" /\ f[15] = "r8" /\ f[16] = "rbp" /\ f[17] = "rdi"
        /\ f[18] = "rsi" /\ f[19] = "rdx" /\ f[20] = "rcx" /\ f[21] = "rbx" /\ f[22] = "rax"
    BY DEF Frame
  <2> HIDE DEF f
  <2>3. QED
    BY <2>1, <2>2 DEF f
<1>5. ASSUME NEW i \in 1 .. 22 PROVE (c \o CommonHandler)[i] = Frame(code, irq)[i]
  <2>1. CASE i <= 7
    <3>1. i \in 1 .. 7
      BY <2>1
    <3>2. (c \o CommonHandler)[i] = c[i]
      BY <1>3, <2>1, Zenon
    <3>3. c[i] = Frame(code, irq)[i]
      BY <3>1, Zenon
    <3>4. QED
      BY <3>2, <3>3, Zenon
  <2>2. CASE ~(i <= 7)
    <3>1. i \in 8 .. 22
      BY <2>2
    <3>2. (c \o CommonHandler)[i] = CommonHandler[i - 7]
      BY <1>3, <2>2, Zenon
    <3>3. CommonHandler[i - 7] = Frame(code, irq)[i]
      BY <1>4, <3>1, Zenon
    <3>4. QED
      BY <3>2, <3>3, Zenon
  <2>3. QED
    BY <2>1, <2>2
<1>6. QED
  BY <1>2, <1>3, <1>5, SameSequence

LEMMA PlainFrame ==
  ASSUME NEW irq
  PROVE  (<<"ss", "rsp", "rflags", "cs", "rip">> \o << >>) \o Plain(irq) \o CommonHandler
           = Frame("zero", irq)
<1> DEFINE a == <<"ss", "rsp", "rflags", "cs", "rip">>
           b == a \o << >>
           c == b \o Plain(irq)
<1>1. a \in Seq(Pushes(irq)) /\ Len(a) = 5 /\ << >> \in Seq(Pushes(irq)) /\ Len(<< >>) = 0
  BY DEF Pushes
<1>2. b \in Seq(Pushes(irq)) /\ Len(b) = 5 /\ \A i \in 1 .. 5 : b[i] = a[i]
  <2> HIDE DEF a
  <2> QED
    BY <1>1, Joined
<1>3. Plain(irq) \in Seq(Pushes(irq)) /\ Len(Plain(irq)) = 2
  BY DEF Plain, Pushes
<1>4. c \in Seq(Pushes(irq)) /\ Len(c) = 7
  <2> HIDE DEF b
  <2>1. /\ b \o Plain(irq) \in Seq(Pushes(irq)) /\ Len(b \o Plain(irq)) = Len(b) + Len(Plain(irq))
        /\ \A i \in 1 .. Len(b) + Len(Plain(irq)) :
             (b \o Plain(irq))[i] = IF i <= Len(b) THEN b[i] ELSE Plain(irq)[i - Len(b)]
    BY <1>2, <1>3, Joined, Zenon
  <2>2. QED
    BY <1>2, <1>3, <2>1
<1>5. \A i \in 1 .. 7 : c[i] = IF i <= 5 THEN a[i] ELSE Plain(irq)[i - 5]
  <2> HIDE DEF a, b
  <2>1. /\ b \o Plain(irq) \in Seq(Pushes(irq)) /\ Len(b \o Plain(irq)) = Len(b) + Len(Plain(irq))
        /\ \A i \in 1 .. Len(b) + Len(Plain(irq)) :
             (b \o Plain(irq))[i] = IF i <= Len(b) THEN b[i] ELSE Plain(irq)[i - Len(b)]
    BY <1>2, <1>3, Joined, Zenon
  <2>2. QED
    BY <1>2, <1>3, <2>1, SMTT(30)
<1>6. \A i \in 1 .. 7 : c[i] = Frame("zero", irq)[i]
  <2> HIDE DEF c
  <2> QED
    BY <1>5 DEF a, Plain, Frame
<1> HIDE DEF c
<1>7. c \o CommonHandler = Frame("zero", irq)
  BY <1>4, <1>6, RegistersPushed
<1>8. QED
  BY <1>7 DEF c

LEMMA CodedFrame ==
  ASSUME NEW irq
  PROVE  (<<"ss", "rsp", "rflags", "cs", "rip">> \o <<"errorCode">>) \o Coded(irq)
           \o CommonHandler
           = Frame("errorCode", irq)
<1> DEFINE a == <<"ss", "rsp", "rflags", "cs", "rip">>
           e == <<"errorCode">>
           b == a \o e
           c == b \o Coded(irq)
<1>1. a \in Seq(Pushes(irq)) /\ Len(a) = 5
  BY DEF Pushes
<1>2. e \in Seq(Pushes(irq)) /\ Len(e) = 1 /\ e[1] = "errorCode"
  BY DEF Pushes
<1>3. b \in Seq(Pushes(irq)) /\ Len(b) = 6
      /\ \A i \in 1 .. 6 : b[i] = IF i <= 5 THEN a[i] ELSE e[i - 5]
  <2> HIDE DEF a, e
  <2>1. /\ a \o e \in Seq(Pushes(irq)) /\ Len(a \o e) = Len(a) + Len(e)
        /\ \A i \in 1 .. Len(a) + Len(e) :
             (a \o e)[i] = IF i <= Len(a) THEN a[i] ELSE e[i - Len(a)]
    BY <1>1, <1>2, Joined, Zenon
  <2>2. QED
    BY <1>1, <1>2, <2>1
<1>4. Coded(irq) \in Seq(Pushes(irq)) /\ Len(Coded(irq)) = 1 /\ Coded(irq)[1] = irq
  BY DEF Coded, Pushes
<1>5. c \in Seq(Pushes(irq)) /\ Len(c) = 7
      /\ \A i \in 1 .. 7 : c[i] = IF i <= 6 THEN b[i] ELSE Coded(irq)[i - 6]
  <2> HIDE DEF b
  <2>1. /\ b \o Coded(irq) \in Seq(Pushes(irq)) /\ Len(b \o Coded(irq)) = Len(b) + Len(Coded(irq))
        /\ \A i \in 1 .. Len(b) + Len(Coded(irq)) :
             (b \o Coded(irq))[i] = IF i <= Len(b) THEN b[i] ELSE Coded(irq)[i - Len(b)]
    BY <1>3, <1>4, Joined, Zenon
  <2>2. QED
    BY <1>3, <1>4, <2>1
<1>6. \A i \in 1 .. 7 : c[i] = IF i <= 5 THEN a[i] ELSE IF i = 6 THEN "errorCode" ELSE irq
  <2> HIDE DEF a, b, c, e
  <2> QED
    BY <1>2, <1>3, <1>4, <1>5
<1>7. \A i \in 1 .. 7 : c[i] = Frame("errorCode", irq)[i]
  <2> HIDE DEF c
  <2> QED
    BY <1>6 DEF a, Frame
<1> HIDE DEF c
<1>8. c \o CommonHandler = Frame("errorCode", irq)
  BY <1>5, <1>7, RegistersPushed
<1>9. QED
  BY <1>8 DEF c, b, a, e

\* A place of the frame holds the register that Regs has at the same distance
\* from its other end.
LEMMA FrameFields ==
  ASSUME NEW code, NEW irq, NEW i \in 1 .. 22
  PROVE  Frame(code, irq)[23 - i] = IF Regs[i] = "irq" THEN irq
                                    ELSE IF Regs[i] = "errorCode" THEN code ELSE Regs[i]
BY DEF Frame, Regs

LEMMA RegsOnce ==
  /\ DOMAIN Regs = 1 .. 22
  /\ \A i, j \in 1 .. 22 : Regs[i] = Regs[j] => i = j
  /\ \E i \in 1 .. 22 : Regs[i] = "irq"
  /\ \E i \in 1 .. 22 : Regs[i] = "errorCode"
BY DEF Regs

\* What a handler's state holds, by what its stub pushed.
Holds(state, code, irq) ==
  /\ DOMAIN state = {Regs[i] : i \in 1 .. 22}
  /\ state["irq"] = irq
  /\ state["errorCode"] = code
  /\ \A f \in DOMAIN state \ {"irq", "errorCode"} : state[f] = f

LEMMA StateOfFrame ==
  ASSUME NEW processor, NEW vector, NEW code, NEW irq,
         Interrupted(vector) \o Stubs[processor.idt[vector].offset] \o CommonHandler
           = Frame(code, irq)
  PROVE  Holds(State(processor, vector), code, irq)
<1> DEFINE pushed == Interrupted(vector) \o Stubs[processor.idt[vector].offset] \o CommonHandler
           at(f) == CHOOSE i \in DOMAIN Regs : Regs[i] = f
           state == [f \in Fields |-> pushed[Len(pushed) + 1 - at(f)]]
<1>1. Fields = {Regs[i] : i \in 1 .. 22}
  BY RegsOnce DEF Fields
<1>2. State(processor, vector) = state
  BY DEF State
<1>3. Len(Frame(code, irq)) = 22
  BY DEF Frame
<1>4. \A i \in 1 .. 22 : at(Regs[i]) = i
  BY RegsOnce
<1> HIDE DEF at
<1>5. pushed = Frame(code, irq)
  OBVIOUS
<1> HIDE DEF pushed
<1>6. ASSUME NEW i \in 1 .. 22 PROVE state[Regs[i]] = Frame(code, irq)[23 - i]
  <2>1. Regs[i] \in Fields
    BY <1>1
  <2>2. state[Regs[i]] = pushed[Len(pushed) + 1 - at(Regs[i])]
    BY <2>1, Zenon
  <2>3. 22 + 1 - i = 23 - i
    OBVIOUS
  <2>4. QED
    BY <1>3, <1>4, <1>5, <2>2, <2>3, Zenon
<1> HIDE DEF state
<1>7. \A i \in 1 .. 22 : state[Regs[i]] = IF Regs[i] = "irq" THEN irq
                                    ELSE IF Regs[i] = "errorCode" THEN code ELSE Regs[i]
  <2> SUFFICES ASSUME NEW i \in 1 .. 22
               PROVE  state[Regs[i]] = IF Regs[i] = "irq" THEN irq
                                    ELSE IF Regs[i] = "errorCode" THEN code ELSE Regs[i]
    OBVIOUS
  <2>1. Frame(code, irq)[23 - i] = IF Regs[i] = "irq" THEN irq
                                    ELSE IF Regs[i] = "errorCode" THEN code ELSE Regs[i]
    BY FrameFields
  <2>2. QED
    BY <1>6, <2>1, Zenon
<1>8. DOMAIN state = {Regs[i] : i \in 1 .. 22}
  BY <1>1 DEF state
<1>9. state["irq"] = irq /\ state["errorCode"] = code
  BY <1>7, RegsOnce
<1>10. \A f \in DOMAIN state \ {"irq", "errorCode"} : state[f] = f
  BY <1>7, <1>8
<1>11. QED
  BY <1>2, <1>8, <1>9, <1>10 DEF Holds

Irqs == <<"DIVIDE", "DEBUG", "NMI", "BREAKPOINT", "OVERFLOW", "BOUNDS", "ILLEGAL_OPCODE",
          "DEVICE_UNAVAIL", "DOUBLE_FAULT", "INVALID_TSS", "SEGMENT_NP", "SS", "GPF",
          "PAGING", "FP", "ALIGNMENT", "MCE", "SIMD_FP", "VIRT">>

LEMMA ExcNames == \A name \in DOMAIN Exc : \E i \in 1 .. 19 : Irqs[i] = name /\ gDefaultHandlers[i].idtIndex = Exc[name]
BY DEF Exc, Irqs, gDefaultHandlers, Handler

LEMMA StubOf ==
  ASSUME NEW i \in 1 .. 19
  PROVE  LET h == gDefaultHandlers[i]
         IN  Stubs[h.function] = IF h.idtIndex \in HasErrorCode THEN Coded(Irqs[i]) ELSE Plain(Irqs[i])
BY DEF gDefaultHandlers, Handler, Stubs, HasErrorCode, Irqs

LEMMA IrqOf ==
  ASSUME NEW i \in 1 .. 19
  PROVE  LET h == gDefaultHandlers[i]
         IN  Exc[Irqs[i]] = h.idtIndex /\ Irqs[i] \in DOMAIN Exc
BY DEF gDefaultHandlers, Handler, Exc, Irqs

LEMMA Handled ==
  /\ Handle("DIVIDE") \in Reports(0)
  /\ Handle("DEBUG") \in Reports(1)
  /\ Handle("NMI") \in Reports(2)
  /\ Handle("BREAKPOINT") \in Reports(3)
  /\ Handle("OVERFLOW") \in Reports(4)
  /\ Handle("BOUNDS") \in Reports(5)
  /\ Handle("ILLEGAL_OPCODE") \in Reports(6)
  /\ Handle("DEVICE_UNAVAIL") \in Reports(7)
  /\ Handle("DOUBLE_FAULT") \in Reports(8)
  /\ Handle("INVALID_TSS") \in Reports(10)
  /\ Handle("SEGMENT_NP") \in Reports(11)
  /\ Handle("SS") \in Reports(12)
  /\ Handle("GPF") \in Reports(13)
  /\ Handle("FP") \in Reports(16)
  /\ Handle("ALIGNMENT") \in Reports(17)
  /\ Handle("MCE") \in Reports(18)
  /\ Handle("SIMD_FP") \in Reports(19)
  /\ Handle("VIRT") \in Reports(20)
<1> USE DEF Handle, Reports, Dispatched, gExceptionNames
<1>1. /\ Handle("DIVIDE") \in Reports(0)
      /\ Handle("DEBUG") \in Reports(1)
      /\ Handle("NMI") \in Reports(2)
  OBVIOUS
<1>2. /\ Handle("BREAKPOINT") \in Reports(3)
      /\ Handle("OVERFLOW") \in Reports(4)
      /\ Handle("BOUNDS") \in Reports(5)
  OBVIOUS
<1>3. /\ Handle("ILLEGAL_OPCODE") \in Reports(6)
      /\ Handle("DEVICE_UNAVAIL") \in Reports(7)
      /\ Handle("DOUBLE_FAULT") \in Reports(8)
  OBVIOUS
<1>4. /\ Handle("INVALID_TSS") \in Reports(10)
      /\ Handle("SEGMENT_NP") \in Reports(11)
      /\ Handle("SS") \in Reports(12)
  OBVIOUS
<1>5. /\ Handle("GPF") \in Reports(13)
      /\ Handle("FP") \in Reports(16)
      /\ Handle("ALIGNMENT") \in Reports(17)
  OBVIOUS
<1>6. /\ Handle("MCE") \in Reports(18)
      /\ Handle("SIMD_FP") \in Reports(19)
      /\ Handle("VIRT") \in Reports(20)
  OBVIOUS
<1> HIDE DEF Handle, Reports
<1>7. QED
  BY <1>1, <1>2, <1>3, <1>4, <1>5, <1>6, Zenon

LEMMA ReportOf ==
  ASSUME NEW i \in 1 .. 19, gDefaultHandlers[i].idtIndex # 14
  PROVE  Handle(Irqs[i]) \in Reports(gDefaultHandlers[i].idtIndex)
BY Handled DEF gDefaultHandlers, Handler, Irqs

LEMMA OthersOf ==
  ASSUME NEW i \in 1 .. 19, gDefaultHandlers[i].idtIndex \in {2, 18}
  PROVE  Irqs[i] \notin DOMAIN Dispatched
BY DEF gDefaultHandlers, Handler, Irqs, Dispatched

LEMMA NoneReported ==
  ASSUME NEW i \in 1 .. 19
  PROVE  NoReason \notin Reports(gDefaultHandlers[i].idtIndex)
<1> USE DEF Reports, NoReason
<1>1. \A v \in 0 .. 5 : NoReason \notin Reports(v)
  OBVIOUS
<1>2. \A v \in 6 .. 12 \ {9} : NoReason \notin Reports(v)
  OBVIOUS
<1>3. \A v \in 13 .. 20 \ {15} : NoReason \notin Reports(v)
  OBVIOUS
<1> HIDE DEF Reports, NoReason
<1>4. gDefaultHandlers[i].idtIndex \in 0 .. 5 \cup (6 .. 12 \ {9}) \cup (13 .. 20 \ {15})
  BY DEF gDefaultHandlers, Handler
<1>5. QED
  BY <1>1, <1>2, <1>3, <1>4

Vectors == {Exc[name] : name \in DOMAIN Exc}

HasGates(processor) ==
  /\ processor.gdt = BspGdt /\ processor.limit = 63 /\ processor.task = 48
  /\ processor.idt = Gates

\* A processor with the kernel's tables takes each exception to the handler that
\* names it, with the state that the stub saved.
LEMMA TakenRight ==
  ASSUME NEW processor, HasGates(processor), NEW vector \in Vectors
  PROVE  LET state == State(processor, vector)
         IN  /\ Delivers(processor, vector)
             /\ \A f \in DOMAIN state \ {"irq", "errorCode"} : state[f] = f
             /\ Exc[state.irq] = vector
             /\ state.errorCode = IF vector \in HasErrorCode THEN "errorCode" ELSE "zero"
             /\ vector # 14 => Handle(state.irq) \in Reports(vector)
             /\ vector \in {2, 18} => state.irq \notin DOMAIN Dispatched
             /\ NoReason \notin Reports(vector)
<1>1. PICK i \in 1 .. 19 : gDefaultHandlers[i].idtIndex = vector
  BY ExcNames DEF Vectors
<1> DEFINE code == IF vector \in HasErrorCode THEN "errorCode" ELSE "zero"
           irq == Irqs[i]
           state == State(processor, vector)
<1>2. Delivers(processor, vector)
  BY <1>1, TablesLeadToKernel DEF HasGates
<1>3. Gates[vector].offset = gDefaultHandlers[i].function
  BY <1>1, GateOfHandler
<1>4. Stubs[processor.idt[vector].offset]
        = IF vector \in HasErrorCode THEN Coded(irq) ELSE Plain(irq)
  BY <1>1, <1>3, StubOf DEF HasGates
<1>5. Interrupted(vector) \o Stubs[processor.idt[vector].offset] \o CommonHandler
        = Frame(code, irq)
  <2>1. CASE vector \in HasErrorCode
    <3>1. Interrupted(vector) = <<"ss", "rsp", "rflags", "cs", "rip">> \o <<"errorCode">>
      BY <2>1, Zenon DEF Interrupted
    <3>2. Stubs[processor.idt[vector].offset] = Coded(irq)
      BY <1>4, <2>1, Zenon
    <3>3. QED
      BY <2>1, <3>1, <3>2, CodedFrame, Zenon
  <2>2. CASE vector \notin HasErrorCode
    <3>1. Interrupted(vector) = <<"ss", "rsp", "rflags", "cs", "rip">> \o << >>
      BY <2>2, Zenon DEF Interrupted
    <3>2. Stubs[processor.idt[vector].offset] = Plain(irq)
      BY <1>4, <2>2, Zenon
    <3>3. QED
      BY <2>2, <3>1, <3>2, PlainFrame, Zenon
  <2>3. QED
    BY <2>1, <2>2
<1>6. Holds(state, code, irq)
  BY <1>5, StateOfFrame, Zenon
<1>7. Exc[irq] = vector
  BY <1>1, IrqOf
<1>8. vector # 14 => Handle(irq) \in Reports(vector)
  BY <1>1, ReportOf
<1>9. vector \in {2, 18} => irq \notin DOMAIN Dispatched
  BY <1>1, OthersOf
<1>10. NoReason \notin Reports(vector)
  BY <1>1, NoneReported
<1>11. state.irq = irq /\ state.errorCode = code
       /\ \A f \in DOMAIN state \ {"irq", "errorCode"} : state[f] = f
  BY <1>6, Zenon DEF Holds
<1> HIDE DEF state, irq
<1>12. QED
  BY <1>2, <1>7, <1>8, <1>9, <1>10, <1>11 DEF state

\* Once the kernel's file is not mapped, its symbols are forgotten.
Forgotten == After \ {"kernelVm", "sections", "image"}

TrapInv ==
  /\ machine \in Machines
  /\ DOMAIN cpu = {"gdt", "limit", "task", "idt", "gs"}
  /\ pc \in Before \cup {"memory"} \cup After
  /\ pc = "idt" => cpu.gdt = BspGdt /\ cpu.limit = 63 /\ cpu.task = 48
  /\ IF pc \in Before THEN cpu.idt = << >> ELSE HasGates(cpu)
  /\ pc \in Forgotten => symbols = NoSymbols
  /\ reason = NoReason => trap = << >>
  /\ ExceptionsReported

LEMMA InitTraps == Init => TrapInv
BY DEF Init, TrapInv, Before, Forgotten, After, ExceptionsReported

\* The first reason stays.
ReasonStays == reason # NoReason => reason' = reason

LEMMA PanicReasons ==
  /\ \A ist, why : PanicOn(ist, why) => reason' = IF reason = NoReason THEN why ELSE reason
  /\ \A why : Panic(why) => ReasonStays
  /\ \A level, cmds : Say(level, cmds) => UNCHANGED reason
BY DEF Panic, PanicOn, PanicOver, Say, ReasonStays

\* Steps that leave gates, symbols and exceptions alone.
LEMMA QuietTraps ==
  ASSUME TrapInv, UNCHANGED <<machine, trap>>, ReasonStays,
         UNCHANGED <<cpu.gdt, cpu.limit, cpu.task, cpu.idt, DOMAIN cpu>>,
         pc' \in Before \cup {"memory"} \cup After,
         pc \in Before <=> pc' \in Before,
         pc' = "idt" => pc = "idt",
         pc' \in Forgotten => symbols' = NoSymbols \/ (UNCHANGED symbols /\ pc \in Forgotten)
  PROVE  TrapInv'
<1>1. /\ machine' \in Machines /\ DOMAIN cpu' = {"gdt", "limit", "task", "idt", "gs"}
      /\ pc' = "idt" => cpu'.gdt = BspGdt /\ cpu'.limit = 63 /\ cpu'.task = 48
      /\ pc' \in Forgotten => symbols' = NoSymbols
  BY DEF TrapInv
<1>2. IF pc' \in Before THEN cpu'.idt = << >> ELSE HasGates(cpu')
  BY DEF TrapInv, HasGates
<1>3. reason' = NoReason => trap' = << >>
  BY DEF TrapInv, ReasonStays
<1>4. ExceptionsReported'
  <2> SUFFICES ASSUME trap # << >> PROVE ExceptionsReported'
    BY DEF ExceptionsReported
  <2>1. UNCHANGED <<trap, reason>>
    BY DEF TrapInv, ReasonStays
  <2>2. ExceptionsReported
    BY DEF TrapInv
  <2>3. QED
    BY <2>1, <2>2 DEF ExceptionsReported
<1>5. QED
  BY <1>1, <1>2, <1>3, <1>4 DEF TrapInv

LEMMA StillTraps ==
  ASSUME TrapInv, UNCHANGED <<machine, trap, cpu, pc, symbols>>, ReasonStays
  PROVE  TrapInv'
BY QuietTraps DEF TrapInv

LEMMA PanicTraps ==
  ASSUME TrapInv, NEW why, Panic(why), UNCHANGED bootVars
  PROVE  TrapInv'
BY StillTraps, PanicReasons DEF bootVars, trapVars

LEMMA TakeTraps ==
  ASSUME TrapInv, NEW vector \in Vectors, NEW area, Take(vector, area),
         pc \notin Before, SymbolsReadable \/ vector \in {2, 18}
  PROVE  TrapInv'
<1> DEFINE state == State(cpu, vector)
           why == IF vector = Exc.PAGING THEN HandleFault(area) ELSE HandleException(state.irq)
           happened == [vector |-> vector, delivered |-> TRUE, state |-> state]
<1>1. HasGates(cpu)
  BY DEF TrapInv
<1>2. /\ Delivers(cpu, vector)
      /\ \A f \in DOMAIN state \ {"irq", "errorCode"} : state[f] = f
      /\ Exc[state.irq] = vector
      /\ state.errorCode = IF vector \in HasErrorCode THEN "errorCode" ELSE "zero"
      /\ vector # 14 => Handle(state.irq) \in Reports(vector)
      /\ vector \in {2, 18} => state.irq \notin DOMAIN Dispatched
      /\ NoReason \notin Reports(vector)
  BY <1>1, TakenRight, Zenon
<1>3. why \in Reports(vector)
  <2>1. Exc.PAGING = 14
    BY DEF Exc
  <2>2. CASE vector = 14
    <3>1. SymbolsReadable
      BY <2>2
    <3>2. HandleFault(area) \in {"map fault", "fault in valloc"}
      BY <3>1 DEF HandleFault
    <3>3. Reports(14) = {"fault in valloc", "map fault"}
      BY DEF Reports
    <3>4. QED
      BY <2>1, <2>2, <3>2, <3>3
  <2>3. CASE vector # 14
    <3>1. HandleException(state.irq) = Handle(state.irq)
      BY <1>2 DEF HandleException
    <3>2. QED
      BY <1>2, <2>1, <2>3, <3>1
  <2>4. QED
    BY <2>2, <2>3
<1>4. /\ trap' = IF reason = NoReason THEN happened ELSE trap
      /\ PanicOn(cpu.idt[vector].ist, why)
      /\ UNCHANGED <<machine, pc, cpu, symbols>>
  BY <1>2 DEF Take
<1> HIDE DEF state, why
<1>5. reason' = IF reason = NoReason THEN why ELSE reason
  BY <1>4, PanicReasons
<1>6. CASE reason # NoReason
  BY <1>4, <1>5, <1>6, StillTraps DEF ReasonStays
<1>7. CASE reason = NoReason
  <2>1. trap' = happened /\ reason' = why
    BY <1>4, <1>5, <1>7
  <2>2. /\ trap'.vector = vector /\ trap'.delivered /\ trap'.state = state
    BY <2>1
  <2>3. ExceptionsReported'
    BY <1>2, <1>3, <2>1, <2>2 DEF ExceptionsReported
  <2>4. reason' # NoReason
    BY <1>2, <1>3, <2>1
  <2>5. HasGates(cpu') /\ pc' = pc /\ symbols' = symbols /\ machine' = machine
    BY <1>1, <1>4
  <2>6. QED
    BY <1>4, <2>3, <2>4, <2>5 DEF TrapInv
<1>8. QED
  BY <1>6, <1>7

LEMMA UsesTraps == TrapInv /\ Uses => TrapInv'
<1> SUFFICES ASSUME TrapInv, Uses PROVE TrapInv'
  OBVIOUS
<1>1. ASSUME NEW m \in Messages, KernelLogs(m) PROVE TrapInv'
  <2>1. UNCHANGED <<machine, trap, cpu, pc, symbols, reason>>
    BY <1>1, PanicReasons DEF KernelLogs
  <2>2. QED
    BY <2>1, StillTraps DEF ReasonStays
<1>2. CASE KernelAllocates
  <2>1. CASE AllocationFails(ZonePages + Cardinality(Missing("valloc"))) = NoReason
    <3>1. UNCHANGED <<machine, trap, cpu, pc, symbols, reason>>
      BY <1>2, <2>1 DEF KernelAllocates, Unless, consoleVars
    <3>2. QED
      BY <3>1, StillTraps DEF ReasonStays
  <2>2. CASE AllocationFails(ZonePages + Cardinality(Missing("valloc"))) # NoReason
    BY <1>2, <2>2, PanicTraps DEF KernelAllocates, Unless
  <2>3. QED
    BY <2>1, <2>2
<1>3. /\ Exc.PAGING \in Vectors /\ Exc.NMI \in Vectors /\ Exc.MCE \in Vectors
      /\ Exc.NMI = 2 /\ Exc.MCE = 18
  BY DEF Exc, Vectors
<1>4. pc = "start" => pc \notin Before /\ SymbolsReadable
  <2>1. ~Symbolicates(NoSymbols)
    BY DEF Symbolicates, NoSymbols
  <2>2. pc = "start" => symbols = NoSymbols
    BY DEF TrapInv, Forgotten, After
  <2>3. QED
    BY <2>1, <2>2 DEF SymbolsReadable, Before
<1>5. ASSUME NEW area, PageFault(area) PROVE TrapInv'
  BY <1>3, <1>4, <1>5, TakeTraps DEF PageFault, At_
<1>6. ASSUME NEW vector \in machine.vectors, Exception(vector) PROVE TrapInv'
  <2>1. vector \in Vectors
    BY BootAssumption DEF TrapInv, Vectors
  <2>2. QED
    BY <1>4, <1>6, <2>1, TakeTraps DEF Exception, At_
<1>7. ASSUME NEW vector \in {Exc.NMI, Exc.MCE}, Interrupt(vector) PROVE TrapInv'
  <2>1. pc \notin Before /\ Take(vector, "none")
    BY <1>7 DEF Interrupt, TrapInv
  <2>2. vector \in Vectors /\ vector \in {2, 18}
    BY <1>3
  <2>3. QED
    BY <2>1, <2>2, TakeTraps
<1>8. QED
  BY <1>1, <1>2, <1>5, <1>6, <1>7 DEF Uses

LEMMA GatesTraps == TrapInv /\ (SetUpGdt \/ SetUpIdt \/ SetUpLocals) => TrapInv'
<1> SUFFICES ASSUME TrapInv, SetUpGdt \/ SetUpIdt \/ SetUpLocals PROVE TrapInv'
  OBVIOUS
<1>1. UNCHANGED <<machine, trap, symbols, reason>>
  BY DEF SetUpGdt, SetUpIdt, SetUpLocals, SetsUp, consoleVars
<1>2. ExceptionsReported' /\ (reason' = NoReason => trap' = << >>)
  BY <1>1 DEF TrapInv, ExceptionsReported
<1>3. CASE SetUpGdt
  <2>1. pc = "gdt" /\ pc' = "idt" /\ cpu' = GdtInit(cpu)
    BY <1>3 DEF SetUpGdt, SetsUp, At_
  <2>2. /\ cpu'.gdt = BspGdt /\ cpu'.limit = 63 /\ cpu'.task = 48 /\ cpu'.idt = cpu.idt
        /\ DOMAIN cpu' = DOMAIN cpu
    BY <2>1 DEF GdtInit, Selectors, TrapInv
  <2>3. QED
    BY <1>1, <1>2, <2>1, <2>2 DEF TrapInv, Before, Forgotten, After
<1>4. CASE SetUpIdt
  <2>1. pc = "idt" /\ pc' = "memory" /\ cpu' = IdtInit(cpu)
    BY <1>4 DEF SetUpIdt, SetsUp, At_
  <2>2. /\ cpu'.gdt = cpu.gdt /\ cpu'.limit = cpu.limit /\ cpu'.task = cpu.task
        /\ cpu'.idt = Gates /\ DOMAIN cpu' = DOMAIN cpu
    BY <2>1 DEF IdtInit, TrapInv
  <2>3. HasGates(cpu')
    BY <2>1, <2>2 DEF TrapInv, HasGates
  <2>4. QED
    BY <1>1, <1>2, <2>1, <2>2, <2>3 DEF TrapInv, Before, Forgotten, After
<1>5. CASE SetUpLocals
  <2>1. pc = "locals" /\ pc' = "activate" /\ cpu' = LocalsInit(cpu)
    BY <1>5 DEF SetUpLocals, SetsUp, At_
  <2>2. UNCHANGED <<cpu.gdt, cpu.limit, cpu.task, cpu.idt, DOMAIN cpu>>
    BY <2>1 DEF LocalsInit, TrapInv
  <2>3. QED
    BY <1>1, <2>1, <2>2, QuietTraps DEF ReasonStays, Before, Forgotten, After
<1>6. QED
  BY <1>3, <1>4, <1>5

LEMMA BootsTraps ==
  ASSUME TrapInv, Boots, ~SetUpGdt, ~SetUpIdt, ~SetUpLocals
  PROVE  TrapInv'
<1> USE DEF Before, After, Forgotten
<1>1. CASE ConsoleInit \/ NoteBuild \/ NotePlatform \/ BacktraceInit
  <2>1. /\ UNCHANGED <<machine, trap, cpu, reason>>
        /\ pc \in Before \ {"idt"} /\ pc' \in Before \ {"idt"}
    BY <1>1, PanicReasons
       DEF ConsoleInit, NoteBuild, NotePlatform, BacktraceInit, Announce, At_, keepPc,
           trapVars, consoleVars
  <2>2. QED
    BY <2>1, QuietTraps DEF ReasonStays
<1>2. CASE VerifyFeatures
  <2>1. \/ /\ UNCHANGED <<machine, trap, cpu, reason>>
           /\ pc = "features" /\ pc' = "gdt"
        \/ Panic("features") /\ UNCHANGED bootVars
    BY <1>2 DEF VerifyFeatures, Unless, At_, keepPc, trapVars, consoleVars, NoReason
  <2>2. QED
    BY <2>1, QuietTraps, PanicTraps DEF ReasonStays
<1>3. CASE AddEntry
  <2> DEFINE why == AddRegionFails(Clipped(machine.entries[step + 1]))
  <2>1. \/ UNCHANGED <<machine, trap, cpu, pc, symbols, reason>>
        \/ Panic(why) /\ UNCHANGED bootVars
    BY <1>3 DEF AddEntry, Unless, trapVars, consoleVars
  <2>2. QED
    BY <2>1, StillTraps, PanicTraps DEF ReasonStays
<1>4. CASE EntriesDone
  <2>1. \/ /\ UNCHANGED <<machine, trap, cpu, reason>>
           /\ pc = "memory" /\ pc' = "kernelVm"
        \/ Panic("no memory map") /\ UNCHANGED bootVars
    BY <1>4, PanicReasons DEF EntriesDone, Unless, Announce, At_, keepPc, trapVars, NoReason
  <2>2. QED
    BY <2>1, QuietTraps, PanicTraps DEF ReasonStays
<1>5. CASE InitKernelVm \/ MapKernelSection
  <2>1. \/ /\ UNCHANGED <<machine, trap, cpu, reason>>
           /\ pc \in {"kernelVm", "sections"} /\ pc' \in {"sections", "image"}
        \/ (\E why : Panic(why)) /\ UNCHANGED bootVars
    BY <1>5 DEF InitKernelVm, MapKernelSection, Unless, At_, trapVars, consoleVars
  <2>2. QED
    BY <2>1, QuietTraps, PanicTraps DEF ReasonStays
<1>6. CASE WarnNoImage
  <2>1. /\ UNCHANGED <<machine, trap, cpu, reason>>
        /\ pc = "image" /\ pc' = "findFb" /\ symbols' = NoSymbols
    BY <1>6, PanicReasons DEF WarnNoImage, At_, ParseKernelElf
  <2>2. QED
    BY <2>1, QuietTraps DEF ReasonStays
<1>7. CASE \/ FindFramebuffer \/ NoteFramebuffer \/ PrepareConsole \/ Activate
           \/ FinishedEarlyBoot \/ EnableConsole \/ NoteCpus \/ PrintBanner \/ PrintRevision
  <2>1. /\ UNCHANGED <<machine, trap, cpu, symbols, reason>>
        /\ pc \in Forgotten /\ pc' \in Forgotten
    BY <1>7, PanicReasons
       DEF FindFramebuffer, NoteFramebuffer, PrepareConsole, Activate, FinishedEarlyBoot,
           EnableConsole, NoteCpus, PrintBanner, PrintRevision, Announce, PrepareForVm,
           VmEnabled, At_, keepPc, trapVars, consoleVars
  <2>2. QED
    BY <2>1, QuietTraps DEF ReasonStays
<1>8. CASE MapFramebuffer \/ RemapRegion
  <2>1. \/ /\ UNCHANGED <<machine, trap, cpu, symbols, reason>>
           /\ pc \in Forgotten /\ pc' \in Forgotten
        \/ (\E why : Panic(why)) /\ UNCHANGED bootVars
    BY <1>8 DEF MapFramebuffer, RemapRegion, Unless, At_, trapVars, consoleVars
  <2>2. QED
    BY <2>1, QuietTraps, PanicTraps DEF ReasonStays
<1>9. CASE StartReturns
  BY <1>9, PanicTraps DEF StartReturns
<1>10. QED
  BY <1>1, <1>2, <1>3, <1>4, <1>5, <1>6, <1>7, <1>8, <1>9 DEF Boots

LEMMA NextTraps == TrapInv /\ [Next]_vars => TrapInv'
<1> SUFFICES ASSUME TrapInv, [Next]_vars PROVE TrapInv'
  OBVIOUS
<1>1. CASE UNCHANGED vars
  BY <1>1, StillTraps DEF vars, consoleVars, bootVars, trapVars, ReasonStays
<1>2. CASE Writes
  <2>1. ReasonStays
    BY <1>2 DEF Writes, WriteStep, Return, PanicOver, ReasonStays
  <2>2. UNCHANGED <<machine, trap, cpu, pc, symbols>>
    BY <1>2 DEF Writes, bootVars, trapVars
  <2>3. QED
    BY <2>1, <2>2, StillTraps
<1>3. QED
  BY <1>1, <1>2, UsesTraps, GatesTraps, BootsTraps DEF Next

\* Whenever an exception happens once the kernel has its gates, it reaches the
\* handler that knows it for what it is, with the registers of the interrupted code
\* (ExceptionHandlers.S and .cpp, Gdt.cpp, Idt.cpp).
THEOREM ExceptionsAreReported == Spec => []ExceptionsReported
<1>1. TrapInv => ExceptionsReported
  BY DEF TrapInv
<1>2. QED
  BY <1>1, InitTraps, NextTraps, PTL DEF Spec

-----------------------------------------------------------------------------
(* The memory that the boot needs, on a machine that has it.               *)

\* What an entry of the memory map is worth, and what the regions hold.
Amount(m, i) == IF i \in Big(m) THEN Allocatable(Clipped(m.entries[i])) ELSE 0
Amounts(m) == [i \in DOMAIN m.entries |-> Amount(m, i)]
Held(rs) == [j \in DOMAIN rs |-> Allocatable(rs[j])]

Need(m) == 1 + AperturePages + 4 * Cardinality(Levels) + m.work * ZonePages

Region == [base : Nat, length : Nat]

LEMMA AllocatableInt ==
  ASSUME NEW r \in Region
  PROVE  Allocatable(r) \in Int
<1>1. r.length \in Nat /\ PagesPerBitmapPage \in Nat \ {0}
  BY BootAssumption DEF Region
<1>2. BitmapPages(r) \in Nat
  BY <1>1, RoundedUp DEF BitmapPages
<1>3. QED
  BY <1>1, <1>2 DEF Allocatable

LEMMA HeldSums ==
  ASSUME NEW rs \in Seq(Region)
  PROVE  Sums(Held(rs), Len(rs), Totals(Held(rs)))
<1>1. Len(rs) \in Nat /\ DOMAIN rs = 1 .. Len(rs) /\ \A i \in 1 .. Len(rs) : rs[i] \in Region
  <2> HIDE DEF Region
  <2>1. QED
    OBVIOUS
<1>2. Len(Held(rs)) = Len(rs)
  BY <1>1 DEF Held
<1>3. \A i \in 1 .. Len(rs) : Held(rs)[i] \in Int
  BY <1>1, AllocatableInt DEF Held
<1>4. QED
  BY <1>1, <1>2, <1>3, TotalsAreSums

\* A region more adds its pages.
LEMMA AppendHeld ==
  ASSUME NEW rs \in Seq(Region), NEW r \in Region
  PROVE  Totals(Held(Append(rs, r)))[Len(rs) + 1] = Totals(Held(rs))[Len(rs)] + Allocatable(r)
<1> DEFINE n == Len(rs)
           more == Append(rs, r)
<1>1. n \in Nat /\ more \in Seq(Region) /\ Len(more) = n + 1
      /\ more[n + 1] = r /\ \A i \in 1 .. n : more[i] = rs[i]
      /\ DOMAIN more = 1 .. n + 1 /\ DOMAIN rs = 1 .. n
  <2> HIDE DEF Region
  <2>1. QED
    OBVIOUS
<1>2. \A i \in 1 .. n : Held(more)[i] = Held(rs)[i]
  BY <1>1 DEF Held
<1>3. Held(more)[n + 1] = Allocatable(r)
  BY <1>1 DEF Held
<1> HIDE DEF more
<1>4. PICK t : t = Totals(Held(more)) /\ Sums(Held(more), n + 1, t)
  BY <1>1, HeldSums
<1>5. PICK u : u = Totals(Held(rs)) /\ Sums(Held(rs), n, u)
  BY HeldSums
<1>6. PICK s, z : s = Held(more) /\ z = Held(rs)
  OBVIOUS
<1>7. /\ \A i \in 1 .. n : s[i] = z[i]
      /\ t[0] = 0 /\ \A i \in 1 .. n + 1 : t[i] = t[i - 1] + s[i]
      /\ u[0] = 0 /\ \A i \in 1 .. n : u[i] = u[i - 1] + z[i]
  BY <1>2, <1>4, <1>5, <1>6 DEF Sums
<1> DEFINE S == {i \in Nat : i <= n => t[i] = u[i]}
<1>8. 0 \in S
  BY <1>7
<1>9. ASSUME NEW i \in Nat, i \in S PROVE i + 1 \in S
  <2> SUFFICES ASSUME i + 1 <= n PROVE t[i + 1] = u[i + 1]
    OBVIOUS
  <2>1. t[i] = u[i]
    BY <1>1, <1>9
  <2>2. i + 1 \in 1 .. n + 1 /\ i + 1 \in 1 .. n /\ i + 1 - 1 = i
    BY <1>1
  <2>3. t[i + 1] = t[i] + s[i + 1] /\ u[i + 1] = u[i] + z[i + 1] /\ s[i + 1] = z[i + 1]
    BY <1>7, <2>2
  <2>4. QED
    BY <2>1, <2>3
<1>10. Nat \subseteq S
  <2> HIDE DEF S
  <2>1. QED
    BY <1>8, <1>9, Induct
<1>11. t[n] = u[n]
  BY <1>1, <1>10
<1>12. t[n + 1] = t[n] + s[n + 1]
  <2>1. n + 1 \in 1 .. n + 1 /\ n + 1 - 1 = n
    BY <1>1
  <2>2. QED
    BY <1>7, <2>1
<1>13. QED
  BY <1>3, <1>4, <1>5, <1>6, <1>11, <1>12 DEF more

LEMMA BigEntries ==
  ASSUME NEW m \in Machines
  PROVE  /\ IsFiniteSet(Big(m)) /\ Cardinality(Big(m)) \in Nat
         /\ Big(m) \subseteq 1 .. Len(m.entries)
         /\ \A i \in Big(m) : m.entries[i] \in Entry /\ ~Skipped(m.entries[i])
         /\ \A i \in 1 .. Len(m.entries) : i \in Big(m) <=> ~Skipped(m.entries[i])
<1>1. /\ Len(m.entries) \in Nat /\ DOMAIN m.entries = 1 .. Len(m.entries)
      /\ \A i \in 1 .. Len(m.entries) : m.entries[i] \in Entry
  BY EntryTypes
<1>2. IsFiniteSet(1 .. Len(m.entries))
  BY <1>1, FS_Interval
<1>3. Big(m) \subseteq 1 .. Len(m.entries)
  BY <1>1 DEF Big
<1>4. IsFiniteSet(Big(m))
  BY <1>2, <1>3, FS_Subset
<1>5. QED
  BY <1>1, <1>3, <1>4, FS_CardinalityType DEF Big

LEMMA AmountSums ==
  ASSUME NEW m \in Machines
  PROVE  /\ Sums(Amounts(m), Len(m.entries), Totals(Amounts(m)))
         /\ \A i \in 1 .. Len(m.entries) : Amounts(m)[i] = Amount(m, i)
<1>1. /\ Len(m.entries) \in Nat /\ DOMAIN m.entries = 1 .. Len(m.entries)
  BY EntryTypes
<1>2. ASSUME NEW i \in 1 .. Len(m.entries) PROVE Amount(m, i) \in Int
  <2>1. CASE i \in Big(m)
    <3>1. Clipped(m.entries[i]) \in Region
      BY <2>1, BigEntries, ClippedPages DEF Region
    <3>2. QED
      BY <2>1, <3>1, AllocatableInt DEF Amount
  <2>2. CASE i \notin Big(m)
    BY <2>2 DEF Amount
  <2>3. QED
    BY <2>1, <2>2
<1>3. /\ Len(Amounts(m)) = Len(m.entries)
      /\ \A i \in 1 .. Len(m.entries) : Amounts(m)[i] = Amount(m, i)
  BY <1>1 DEF Amounts
<1>4. QED
  BY <1>1, <1>2, <1>3, TotalsAreSums

\* One entry more that is looked at.
LEMMA NextAmount ==
  ASSUME NEW m \in Machines, NEW k \in Nat, k < Len(m.entries)
  PROVE  /\ Totals(Amounts(m))[k + 1] = Totals(Amounts(m))[k] + Amount(m, k + 1)
         /\ Totals(Amounts(m))[k] \in Int
<1>1. PICK t : t = Totals(Amounts(m)) /\ Sums(Amounts(m), Len(m.entries), t)
  BY AmountSums
<1>2. k + 1 \in 1 .. Len(m.entries) /\ k + 1 - 1 = k /\ k \in 0 .. Len(m.entries)
  BY EntryTypes
<1>3. Amounts(m)[k + 1] = Amount(m, k + 1)
  BY <1>2, AmountSums
<1>4. t[k + 1] = t[k] + Amounts(m)[k + 1] /\ t[k] \in Int
  BY <1>1, <1>2 DEF Sums
<1>5. QED
  BY <1>1, <1>3, <1>4

LEMMA NextBig ==
  ASSUME NEW m \in Machines, NEW k \in Nat, k < Len(m.entries)
  PROVE  /\ Cardinality(Big(m) \cap (1 .. k)) \in Nat
         /\ Cardinality(Big(m) \cap (1 .. k + 1))
              = Cardinality(Big(m) \cap (1 .. k)) + IF k + 1 \in Big(m) THEN 1 ELSE 0
         /\ Cardinality(Big(m) \cap (1 .. k + 1)) <= Cardinality(Big(m))
<1> DEFINE A == Big(m) \cap (1 .. k)
           B == Big(m) \cap (1 .. k + 1)
<1>1. IsFiniteSet(Big(m))
  BY BigEntries
<1>2. IsFiniteSet(A) /\ IsFiniteSet(B) /\ Cardinality(B) <= Cardinality(Big(m))
  BY <1>1, FS_Subset
<1>3. k + 1 \notin A
  OBVIOUS
<1>4. B = IF k + 1 \in Big(m) THEN A \cup {k + 1} ELSE A
  OBVIOUS
<1> HIDE DEF A, B
<1>5. Cardinality(A) \in Nat /\ Cardinality(A \cup {k + 1}) = Cardinality(A) + 1
  BY <1>2, <1>3, FS_CardinalityType, FS_AddElement
<1>6. Cardinality(B) = Cardinality(A) + IF k + 1 \in Big(m) THEN 1 ELSE 0
  BY <1>4, <1>5
<1>7. QED
  BY <1>2, <1>5, <1>6 DEF A, B

\* What has been read of the memory map is in the regions.
StockInv ==
  /\ Totals(Held(regions))[Len(regions)] = Totals(Amounts(machine))[Considered]
  /\ Len(regions) = Cardinality(Big(machine) \cap (1 .. Considered))

LEMMA InitStock == Init => StockInv
<1> SUFFICES ASSUME Init PROVE StockInv
  OBVIOUS
<1>1. regions = << >> /\ machine \in Machines /\ Considered = 0
  BY DEF Init, Considered, Before
<1>2. regions \in Seq(Region) /\ Len(regions) = 0
  BY <1>1
<1>3. PICK t : t = Totals(Held(regions)) /\ Sums(Held(regions), Len(regions), t)
  BY <1>2, HeldSums
<1>4. PICK u : u = Totals(Amounts(machine)) /\ Sums(Amounts(machine), Len(machine.entries), u)
  BY <1>1, AmountSums
<1>5. t[0] = 0 /\ u[0] = 0
  BY <1>3, <1>4 DEF Sums
<1>6. Big(machine) \cap (1 .. 0) = {}
  OBVIOUS
<1>7. QED
  BY <1>1, <1>2, <1>3, <1>4, <1>5, <1>6, FS_EmptySet DEF StockInv

LEMMA QuietStock ==
  ASSUME RegionsInv, StockInv, UNCHANGED <<machine, regions>>, SameStage
  PROVE  StockInv'
<1>1. Considered' = Considered
  BY DEF SameStage, Considered, RegionsInv, Before, After
<1>2. QED
  BY <1>1 DEF StockInv

LEMMA AddEntryStock == RegionsInv /\ StockInv /\ AddEntry => StockInv'
<1> SUFFICES ASSUME RegionsInv, StockInv, AddEntry PROVE StockInv'
  OBVIOUS
<1> DEFINE i == step + 1
           r == Clipped(machine.entries[i])
<1>1. /\ machine \in Machines /\ step \in Nat /\ step < Len(machine.entries)
      /\ regions \in Seq(Region) /\ pc = "memory"
  BY EntryTypes DEF RegionsInv, AddEntry, At_, Region
<1>2. Considered = step
  BY <1>1 DEF Considered, Before
<1>3. /\ Totals(Amounts(machine))[i] = Totals(Amounts(machine))[step] + Amount(machine, i)
      /\ Totals(Amounts(machine))[step] \in Int
      /\ Cardinality(Big(machine) \cap (1 .. step)) \in Nat
      /\ Cardinality(Big(machine) \cap (1 .. i))
           = Cardinality(Big(machine) \cap (1 .. step)) + IF i \in Big(machine) THEN 1 ELSE 0
  BY <1>1, NextAmount, NextBig
<1>4. i \in Big(machine) <=> ~Skipped(machine.entries[i])
  BY <1>1, BigEntries
<1>5. CASE UNCHANGED bootVars
  BY <1>5, SameStep, QuietStock DEF bootVars, memoryVars
<1>6. CASE /\ Skipped(machine.entries[i])
           /\ UNCHANGED <<machine, pc, regions>> /\ step' = i
  <2>1. Considered' = i
    BY <1>1, <1>6 DEF Considered, Before
  <2>2. Amount(machine, i) = 0
    BY <1>4, <1>6 DEF Amount
  <2> HIDE DEF i
  <2>3. QED
    BY <1>2, <1>3, <1>4, <1>6, <2>1, <2>2 DEF StockInv
<1>7. CASE /\ ~Skipped(machine.entries[i])
           /\ UNCHANGED <<machine, pc>> /\ step' = i
           /\ regions' = Append(regions, r)
  <2>1. Considered' = i
    BY <1>1, <1>7 DEF Considered, Before
  <2>2. Amount(machine, i) = Allocatable(r)
    BY <1>4, <1>7 DEF Amount
  <2>3. r \in Region
    BY <1>1, <1>4, <1>7, BigEntries, ClippedPages DEF Region
  <2>4. Len(regions') = Len(regions) + 1
    <3>1. \A s \in Seq(Region) : \A x : Len(Append(s, x)) = Len(s) + 1
      OBVIOUS
    <3>2. QED
      BY <1>1, <1>7, <3>1
  <2>5. Totals(Held(regions'))[Len(regions) + 1]
          = Totals(Held(regions))[Len(regions)] + Allocatable(r)
    BY <1>1, <1>7, <2>3, AppendHeld
  <2> HIDE DEF i, r
  <2>6. QED
    BY <1>2, <1>3, <1>4, <1>7, <2>1, <2>2, <2>4, <2>5 DEF StockInv
<1>8. QED
  BY <1>5, <1>6, <1>7 DEF AddEntry, Unless

LEMMA EntriesDoneStock == RegionsInv /\ StockInv /\ EntriesDone => StockInv'
<1> SUFFICES ASSUME RegionsInv, StockInv, EntriesDone PROVE StockInv'
  OBVIOUS
<1>1. CASE UNCHANGED bootVars
  BY <1>1, SameStep, QuietStock DEF bootVars, memoryVars
<1>2. CASE UNCHANGED <<machine, regions>> /\ pc' = "kernelVm"
  <2>1. Considered' = Considered
    BY <1>2 DEF Considered, EntriesDone, At_, Before
  <2>2. QED
    BY <1>2, <2>1 DEF StockInv
<1>3. QED
  BY <1>1, <1>2 DEF EntriesDone, Unless, Announce, keepPc, memoryVars

LEMMA NextStock == RegionsInv /\ StockInv /\ [Next]_vars => StockInv'
<1> SUFFICES ASSUME RegionsInv, StockInv, [Next]_vars PROVE StockInv'
  OBVIOUS
<1>1. CASE UNCHANGED vars
  BY <1>1, SameStep, QuietStock DEF vars, bootVars, memoryVars
<1>2. CASE SetUpIdt
  <2>1. /\ UNCHANGED <<machine, regions, step>> /\ pc = "idt" /\ pc' = "memory"
    BY <1>2 DEF SetUpIdt, SetsUp, At_, memoryVars
  <2>2. Considered = 0 /\ Considered' = 0
    BY <2>1 DEF Considered, Before, RegionsInv
  <2>3. QED
    BY <2>1, <2>2 DEF StockInv
<1>3. CASE AddEntry \/ EntriesDone
  BY <1>3, AddEntryStock, EntriesDoneStock
<1>4. CASE Next /\ ~(SetUpIdt \/ AddEntry \/ EntriesDone)
  BY <1>4, OtherStage, QuietStock
<1>5. QED
  BY <1>1, <1>2, <1>3, <1>4

Areas == {"image", "framebuffer", "metadata", "valloc"}

\* The steps under the loader's way to paging structures, and those after the bitmaps
\* have moved.
Early == WithTerminal \cup WithNone \cup {"early"}
Later ==
  {"prepare", "locals", "activate", "early", "enabled", "cpus", "banner", "revision", "start"}

\* What has been handed out.
TakenInv ==
  /\ structures \subseteq Areas \X Levels
  /\ work \in Nat /\ work <= machine.work
  /\ taken \in Nat
  /\ pc \in Unfilled => taken = 0 /\ structures = {} /\ work = 0
  /\ pc \notin Unfilled =>
       taken <= 1 + AperturePages + Cardinality(structures) + work * ZonePages

\* Which bitmaps have moved.
ReachInv ==
  /\ gIsEarlyBoot = IF pc \in Early THEN TRUE ELSE FALSE
  /\ pc = "remap" =>
       /\ \A i \in DOMAIN regions : i <= step => i \in Moved
       /\ step # 0 => {"metadata"} \X Levels \subseteq structures
  /\ pc \in Later /\ machine.framebuffers > 0 => DOMAIN regions \subseteq Moved

SupplyInv == TakenInv /\ ReachInv

LEMMA InitSupply == Init => SupplyInv
<1> SUFFICES ASSUME Init PROVE SupplyInv
  OBVIOUS
<1>1. /\ machine \in Machines /\ pc = "console" /\ structures = {} /\ taken = 0
      /\ work = 0 /\ gIsEarlyBoot = TRUE
  BY DEF Init
<1>2. 0 <= machine.work
  BY <1>1, BootAssumption
<1>3. QED
  BY <1>1, <1>2 DEF SupplyInv, TakenInv, ReachInv, Unfilled, Before, Early, WithTerminal, Later

\* Steps that take nothing and move nothing.
SamePlace ==
  /\ pc' \in Unfilled <=> pc \in Unfilled
  /\ pc' \in Early <=> pc \in Early
  /\ pc' = "remap" => pc = pc' /\ step' = step
  /\ pc' \in Later => pc \in Later

LEMMA QuietSupply ==
  ASSUME SupplyInv, UNCHANGED <<machine, structures, taken, work, regions, bitmapAt, gIsEarlyBoot>>,
         SamePlace
  PROVE  SupplyInv'
<1>1. Moved' = Moved
  BY DEF Moved
<1>2. TakenInv'
  BY DEF SupplyInv, TakenInv, SamePlace
<1>3. gIsEarlyBoot' = IF pc' \in Early THEN TRUE ELSE FALSE
  BY DEF SupplyInv, ReachInv, SamePlace
<1>4. ReachInv'
  BY <1>1, <1>3 DEF SupplyInv, ReachInv, SamePlace
<1>5. QED
  BY <1>2, <1>4 DEF SupplyInv

LEMMA PanicKeepsSupply ==
  ASSUME SupplyInv, UNCHANGED bootVars
  PROVE  SupplyInv'
BY QuietSupply DEF bootVars, memoryVars, trapVars, SamePlace

\* Steps that only go on.
GoesOn ==
  \/ ConsoleInit \/ NoteBuild \/ NotePlatform \/ BacktraceInit \/ SetUpGdt \/ SetUpIdt
  \/ WarnNoImage \/ NoteFramebuffer \/ PrepareConsole \/ SetUpLocals \/ Activate
  \/ EnableConsole \/ NoteCpus \/ PrintBanner \/ PrintRevision

LEMMA OnlyGoesOn ==
  ASSUME GoesOn
  PROVE  /\ UNCHANGED <<machine, structures, taken, work, regions, bitmapAt, gIsEarlyBoot, reason>>
         /\ SamePlace
<1>1. CASE ConsoleInit \/ NoteBuild \/ NotePlatform \/ BacktraceInit \/ SetUpGdt \/ SetUpIdt
  <2>1. /\ UNCHANGED <<machine, structures, taken, work, regions, bitmapAt, gIsEarlyBoot, reason>>
        /\ <<pc, pc'>> \in {<<"console", "build">>, <<"build", "platform">>,
              <<"platform", "symbols">>, <<"symbols", "features">>, <<"gdt", "idt">>,
              <<"idt", "memory">>}
    BY <1>1 DEF ConsoleInit, NoteBuild, NotePlatform, BacktraceInit, SetUpGdt, SetUpIdt, SetsUp,
                Announce, Say, At_, keepPc, memoryVars, trapVars, consoleVars
  <2>2. QED
    BY <2>1 DEF SamePlace, Unfilled, Before, Early, WithTerminal, WithNone, Later
<1>2. CASE WarnNoImage \/ NoteFramebuffer \/ PrepareConsole \/ SetUpLocals \/ Activate
  <2>1. /\ UNCHANGED <<machine, structures, taken, work, regions, bitmapAt, gIsEarlyBoot, reason>>
        /\ <<pc, pc'>> \in {<<"image", "findFb">>, <<"noteFb", "mapFb">>,
              <<"prepare", "locals">>, <<"locals", "activate">>, <<"activate", "early">>}
    BY <1>2 DEF WarnNoImage, NoteFramebuffer, PrepareConsole, SetUpLocals, Activate, SetsUp,
                PrepareForVm, Announce, Say, At_, keepPc, memoryVars, trapVars, consoleVars
  <2>2. QED
    BY <2>1 DEF SamePlace, Unfilled, Before, Early, WithTerminal, WithNone, Later
<1>3. CASE EnableConsole \/ NoteCpus \/ PrintBanner \/ PrintRevision
  <2>1. /\ UNCHANGED <<machine, structures, taken, work, regions, bitmapAt, gIsEarlyBoot, reason>>
        /\ <<pc, pc'>> \in {<<"enabled", "cpus">>, <<"cpus", "banner">>,
              <<"banner", "revision">>, <<"revision", "start">>}
    BY <1>3 DEF EnableConsole, NoteCpus, PrintBanner, PrintRevision, VmEnabled,
                Announce, Say, At_, keepPc, memoryVars, trapVars, consoleVars
  <2>2. QED
    BY <2>1 DEF SamePlace, Unfilled, Before, Early, WithTerminal, WithNone, Later
<1>4. QED
  BY <1>1, <1>2, <1>3 DEF GoesOn

\* Paging structures are taken once.
LEMMA Structures ==
  ASSUME TakenInv, NEW area \in Areas
  PROVE  /\ structures \cup Missing(area) \subseteq Areas \X Levels
         /\ Cardinality(Missing(area)) \in Nat /\ Cardinality(structures) \in Nat
         /\ Cardinality(structures \cup Missing(area))
              = Cardinality(structures) + Cardinality(Missing(area))
         /\ Cardinality(structures \cup Missing(area)) <= 4 * Cardinality(Levels)
         /\ Cardinality(Levels) \in Nat
<1>1. IsFiniteSet(Levels) /\ Cardinality(Levels) \in Nat
  <2>1. IsFiniteSet({}) /\ Levels = (({} \cup {"pdpt"}) \cup {"pdt"}) \cup {"pt"}
    BY FS_EmptySet DEF Levels
  <2>2. QED
    BY <2>1, FS_AddElement, FS_CardinalityType
<1>2. IsFiniteSet(Areas) /\ Cardinality(Areas) = 4
  <2> DEFINE A == {"image"}
             B == A \cup {"framebuffer"}
             C == B \cup {"metadata"}
             D == C \cup {"valloc"}
  <2>1. IsFiniteSet(A) /\ Cardinality(A) = 1
    BY FS_Singleton
  <2>2. /\ "framebuffer" \notin A /\ "metadata" \notin B /\ "valloc" \notin C
        /\ Areas = D
    BY DEF Areas
  <2> HIDE DEF A
  <2>3. IsFiniteSet(B) /\ Cardinality(B) = 2
    BY <2>1, <2>2, FS_AddElement
  <2> HIDE DEF B
  <2>4. IsFiniteSet(C) /\ Cardinality(C) = 3
    BY <2>2, <2>3, FS_AddElement
  <2> HIDE DEF C
  <2>5. QED
    BY <2>2, <2>4, FS_AddElement
<1>3. IsFiniteSet(Areas \X Levels) /\ Cardinality(Areas \X Levels) = 4 * Cardinality(Levels)
  BY <1>1, <1>2, FS_Product
<1>4. structures \cup Missing(area) \subseteq Areas \X Levels
  BY DEF TakenInv, Missing
<1>5. structures \cap Missing(area) = {}
  BY DEF Missing
<1> HIDE DEF Missing
<1>6. /\ IsFiniteSet(structures) /\ IsFiniteSet(Missing(area))
      /\ IsFiniteSet(structures \cup Missing(area))
      /\ Cardinality(structures \cup Missing(area)) <= Cardinality(Areas \X Levels)
  <2> DEFINE X == Areas \X Levels
  <2>1. \A P \in SUBSET X : IsFiniteSet(P) /\ Cardinality(P) <= Cardinality(X)
    <3> HIDE DEF X
    <3>1. IsFiniteSet(X)
      BY <1>3 DEF X
    <3>2. QED
      BY <3>1, FS_Subset
  <2>2. structures \in SUBSET X /\ Missing(area) \in SUBSET X
        /\ structures \cup Missing(area) \in SUBSET X
    BY <1>4
  <2>3. QED
    BY <2>1, <2>2
<1>7. Cardinality(structures) \in Nat /\ Cardinality(Missing(area)) \in Nat
  BY <1>6, FS_CardinalityType
<1>8. Cardinality(structures \cup Missing(area))
        = Cardinality(structures) + Cardinality(Missing(area))
  <2>1. Cardinality(structures \cup Missing(area))
          = Cardinality(structures) + Cardinality(Missing(area))
              - Cardinality(structures \cap Missing(area))
    BY <1>6, FS_Union
  <2>2. Cardinality(structures \cap Missing(area)) = 0
    BY <1>5, FS_EmptySet
  <2>3. QED
    BY <1>7, <2>1, <2>2
<1>9. QED
  BY <1>1, <1>3, <1>4, <1>6, <1>7, <1>8

LEMMA MapRegionTakes ==
  ASSUME TakenInv, NEW area \in Areas, NEW first, NEW phys, NEW n, NEW mode,
         MapRegion(area, first, phys, n, mode), UNCHANGED <<machine, work>>,
         pc \notin Unfilled, pc' \notin Unfilled
  PROVE  TakenInv'
<1>1. /\ structures' = structures \cup Missing(area)
      /\ taken' = taken + Cardinality(Missing(area))
  BY DEF MapRegion
<1>2. /\ Cardinality(Missing(area)) \in Nat /\ Cardinality(structures) \in Nat
      /\ Cardinality(structures') = Cardinality(structures) + Cardinality(Missing(area))
      /\ structures' \subseteq Areas \X Levels
  BY <1>1, Structures
<1>3. PICK d \in Int : d = work * ZonePages
  BY BootAssumption DEF TakenInv
<1>4. taken \in Nat /\ taken <= 1 + AperturePages + Cardinality(structures) + d
  BY <1>3 DEF TakenInv
<1>5. taken' \in Nat /\ taken' <= 1 + AperturePages + Cardinality(structures') + d
  <2>1. AperturePages \in Nat
    BY BootAssumption
  <2>2. QED
    BY <1>1, <1>2, <1>4, <2>1
<1>6. QED
  BY <1>2, <1>3, <1>5 DEF TakenInv

LEMMA MappingSupply ==
  ASSUME RegionsInv, MapInv, SupplyInv,
         InitKernelVm \/ MapKernelSection \/ MapFramebuffer
  PROVE  SupplyInv'
<1> USE DEF Unfilled, Before, Early, WithTerminal, WithNone, Later
<1>1. CASE UNCHANGED bootVars
  BY <1>1, PanicKeepsSupply
<1>2. CASE InitKernelVm /\ ~UNCHANGED bootVars
  <2>1. /\ taken' = taken + 1 + AperturePages /\ pc = "kernelVm" /\ pc' = "sections"
        /\ UNCHANGED <<machine, structures, work, gIsEarlyBoot>>
    BY <1>2 DEF InitKernelVm, Unless, At_, trapVars
  <2>2. taken = 0 /\ structures = {} /\ work = 0 /\ work <= machine.work
    BY <2>1 DEF SupplyInv, TakenInv
  <2>3. /\ AperturePages \in Nat /\ ZonePages \in Nat /\ Cardinality({}) = 0
        /\ 0 * ZonePages = 0
    BY BootAssumption, FS_EmptySet
  <2>4. TakenInv'
    BY <2>1, <2>2, <2>3 DEF TakenInv
  <2>5. ReachInv'
    BY <2>1 DEF SupplyInv, ReachInv
  <2>6. QED
    BY <2>4, <2>5 DEF SupplyInv
<1>3. CASE MapKernelSection /\ ~UNCHANGED bootVars
  <2>1. PICK first, phys, n, mode : MapRegion("image", first, phys, n, mode)
    BY <1>3 DEF MapKernelSection, Unless
  <2>2. /\ pc = "sections" /\ pc' \in {"sections", "image"}
        /\ UNCHANGED <<machine, work, gIsEarlyBoot>>
    BY <1>3 DEF MapKernelSection, Unless, At_, trapVars
  <2>3. TakenInv'
    BY <2>1, <2>2, MapRegionTakes DEF SupplyInv, Areas
  <2>4. ReachInv'
    BY <2>2 DEF SupplyInv, ReachInv
  <2>5. QED
    BY <2>3, <2>4 DEF SupplyInv
<1>4. CASE MapFramebuffer /\ ~UNCHANGED bootVars
  <2>1. PICK first, phys, n, mode : MapRegion("framebuffer", first, phys, n, mode)
    BY <1>4 DEF MapFramebuffer, Unless
  <2>2. /\ pc = "mapFb" /\ pc' = "remap" /\ step' = 0
        /\ UNCHANGED <<machine, work, gIsEarlyBoot, regions>>
    BY <1>4 DEF MapFramebuffer, Unless, At_, trapVars
  <2>3. TakenInv'
    BY <2>1, <2>2, MapRegionTakes DEF SupplyInv, Areas
  <2>4. ~ \E i \in DOMAIN regions : i <= 0
    BY DEF RegionsInv
  <2>5. ReachInv'
    BY <2>2, <2>4 DEF SupplyInv, ReachInv
  <2>6. QED
    BY <2>3, <2>5 DEF SupplyInv
<1>5. QED
  BY <1>1, <1>2, <1>3, <1>4

LEMMA RemapSupply == RegionsInv /\ MapInv /\ SupplyInv /\ RemapRegion => SupplyInv'
<1> SUFFICES ASSUME RegionsInv, MapInv, SupplyInv, RemapRegion PROVE SupplyInv'
  OBVIOUS
<1> DEFINE i == step + 1
<1>1. CASE UNCHANGED bootVars
  BY <1>1, PanicKeepsSupply
<1>2. CASE ~UNCHANGED bootVars
  <2>1. PICK first, phys, n, mode : MapRegion("metadata", first, phys, n, mode)
    BY <1>2 DEF RemapRegion, Unless
  <2>2. /\ pc = "remap" /\ pc' = (IF i = Len(regions) THEN "prepare" ELSE "remap") /\ step' = i
        /\ UNCHANGED <<machine, work, gIsEarlyBoot, regions>>
        /\ bitmapAt' = [bitmapAt EXCEPT ![i] = nextBitmap]
    BY <1>2 DEF RemapRegion, Unless, At_, trapVars
  <2>3. /\ DOMAIN regions = 1 .. Len(regions) /\ Len(regions) \in Nat
        /\ bitmapAt \in Seq(Int) /\ DOMAIN bitmapAt = 1 .. Len(regions)
        /\ step \in Nat
    BY <2>2 DEF MapInv, BitmapInv, RegionsInv
  <2>4. /\ pc \notin Unfilled /\ pc' \notin Unfilled
        /\ pc \in Early /\ pc' \in Early
    BY <2>2 DEF Unfilled, Before, Early, WithTerminal
  <2>5. TakenInv'
    BY <2>1, <2>2, <2>4, MapRegionTakes DEF SupplyInv, Areas
  <2>6. \A j \in DOMAIN regions : j <= i => j \in Moved'
    <3> SUFFICES ASSUME NEW j \in DOMAIN regions, j <= i PROVE bitmapAt'[j] # Identity
      BY <2>2, <2>3 DEF Moved
    <3>1. CASE j = i
      <4>1. regions # << >>
        BY <2>3
      <4>2. nextBitmap \in Nat
        BY <4>1 DEF MapInv, BitmapInv, BitmapsApart
      <4>3. j \in DOMAIN bitmapAt
        BY <2>3
      <4>4. bitmapAt'[j] = nextBitmap
        BY <2>2, <3>1, <4>3, ZenonT(60)
      <4>5. QED
        BY <4>2, <4>4 DEF Identity
    <3>2. CASE j # i
      <4>1. j <= step /\ j \in Nat
        BY <2>3, <3>2
      <4>2. j \in Moved
        BY <2>2, <4>1 DEF SupplyInv, ReachInv
      <4>3. QED
        BY <2>2, <2>3, <3>2, <4>2 DEF Moved
    <3>3. QED
      BY <3>1, <3>2, SMTT(30)
  <2>7. {"metadata"} \X Levels \subseteq structures'
    BY <2>1 DEF MapRegion, Missing
  <2>8. pc' \in Later => DOMAIN regions \subseteq Moved'
    <3>1. pc' \in Later => i = Len(regions)
      BY <2>2 DEF Later
    <3>2. QED
      BY <2>3, <2>6, <3>1
  <2>9. ReachInv'
    BY <2>2, <2>4, <2>6, <2>7, <2>8 DEF SupplyInv, ReachInv
  <2>10. QED
    BY <2>5, <2>9 DEF SupplyInv
<1>3. QED
  BY <1>1, <1>2

LEMMA WorkSupply == RegionsInv /\ SupplyInv /\ Uses => SupplyInv'
<1> SUFFICES ASSUME RegionsInv, SupplyInv, Uses PROVE SupplyInv'
  OBVIOUS
<1> USE DEF Unfilled, Before
<1>1. work \in Nat /\ ZonePages \in Nat /\ machine.work \in Nat
  BY BootAssumption DEF SupplyInv, TakenInv, RegionsInv
<1>2. PICK d, e \in Int : d = work * ZonePages /\ e = (work + 1) * ZonePages /\ e = d + ZonePages
  BY <1>1
<1>3. ASSUME NEW m \in Messages, KernelLogs(m) PROVE SupplyInv'
  <2>1. /\ pc = "start" /\ work' = work + 1 /\ work < machine.work
        /\ UNCHANGED <<machine, structures, taken, regions, bitmapAt, gIsEarlyBoot, pc, step>>
    BY <1>3 DEF KernelLogs, Works, At_, memoryVars
  <2>2. TakenInv'
    <3>1. /\ taken \in Nat /\ taken <= 1 + AperturePages + Cardinality(structures) + d
          /\ structures \subseteq Areas \X Levels
      BY <1>2, <2>1 DEF SupplyInv, TakenInv
    <3>2. Cardinality(structures) \in Nat /\ AperturePages \in Nat
      BY Structures, BootAssumption DEF SupplyInv, Areas
    <3>3. taken <= 1 + AperturePages + Cardinality(structures) + e
      BY <1>1, <1>2, <3>1, <3>2
    <3>4. work + 1 \in Nat /\ work + 1 <= machine.work
      BY <1>1, <2>1
    <3>5. QED
      BY <1>2, <2>1, <3>1, <3>3, <3>4 DEF TakenInv
  <2>3. ReachInv'
    BY <2>1 DEF SupplyInv, ReachInv, Moved
  <2>4. QED
    BY <2>2, <2>3 DEF SupplyInv
<1>4. ASSUME KernelAllocates PROVE SupplyInv'
  <2>1. CASE UNCHANGED bootVars
    BY <2>1, PanicKeepsSupply
  <2>2. CASE ~UNCHANGED bootVars
    <3>1. /\ pc = "start" /\ work' = work + 1 /\ work < machine.work
          /\ structures' = structures \cup Missing("valloc")
          /\ taken' = taken + ZonePages + Cardinality(Missing("valloc"))
          /\ UNCHANGED <<machine, regions, bitmapAt, gIsEarlyBoot, pc, step>>
      BY <1>4, <2>2 DEF KernelAllocates, Unless, Works, At_
    <3>2. /\ Cardinality(Missing("valloc")) \in Nat /\ Cardinality(structures) \in Nat
          /\ Cardinality(structures')
               = Cardinality(structures) + Cardinality(Missing("valloc"))
          /\ structures' \subseteq Areas \X Levels /\ AperturePages \in Nat
      BY <3>1, Structures, BootAssumption DEF SupplyInv, Areas
    <3>3. taken \in Nat /\ taken <= 1 + AperturePages + Cardinality(structures) + d
      BY <1>2, <3>1 DEF SupplyInv, TakenInv
    <3>4. taken' \in Nat /\ taken' <= 1 + AperturePages + Cardinality(structures') + e
      BY <1>1, <1>2, <3>1, <3>2, <3>3
    <3>5. work + 1 \in Nat /\ work + 1 <= machine.work
      BY <1>1, <3>1
    <3>6. TakenInv'
      BY <1>2, <3>1, <3>2, <3>4, <3>5 DEF TakenInv
    <3>7. ReachInv'
      BY <3>1 DEF SupplyInv, ReachInv, Moved
    <3>8. QED
      BY <3>6, <3>7 DEF SupplyInv
  <2>3. QED
    BY <2>1, <2>2
<1>5. ASSUME NEW vector, NEW area, Take(vector, area) PROVE SupplyInv'
  <2>1. UNCHANGED <<machine, structures, taken, work, regions, bitmapAt, gIsEarlyBoot, pc, step>>
    BY <1>5 DEF Take, memoryVars
  <2>2. QED
    BY <2>1, QuietSupply DEF SamePlace
<1>6. QED
  BY <1>3, <1>4, <1>5 DEF Uses, PageFault, Exception, Interrupt

LEMMA EdgeSupply ==
  ASSUME RegionsInv, SupplyInv, AddEntry \/ EntriesDone \/ VerifyFeatures \/ FindFramebuffer
                      \/ FinishedEarlyBoot \/ StartReturns
  PROVE  SupplyInv'
<1> USE DEF SamePlace, Unfilled, Before, Early, WithTerminal, WithNone, Later
<1>1. CASE UNCHANGED bootVars
  BY <1>1, PanicKeepsSupply
<1>2. CASE AddEntry /\ ~UNCHANGED bootVars
  <2>1. /\ UNCHANGED <<machine, structures, taken, work, gIsEarlyBoot, pc>> /\ pc = "memory"
    BY <1>2 DEF AddEntry, Unless, At_, bootVars, memoryVars, trapVars
  <2>2. TakenInv' /\ ReachInv'
    BY <2>1 DEF SupplyInv, TakenInv, ReachInv
  <2>3. QED
    BY <2>2 DEF SupplyInv
<1>3. CASE (EntriesDone \/ VerifyFeatures) /\ ~UNCHANGED bootVars
  <2>1. /\ UNCHANGED <<machine, structures, taken, work, regions, bitmapAt, gIsEarlyBoot>>
        /\ <<pc, pc'>> \in {<<"memory", "kernelVm">>, <<"features", "gdt">>}
    BY <1>3 DEF EntriesDone, VerifyFeatures, Unless, Announce, At_, keepPc, memoryVars, trapVars
  <2>2. QED
    BY <2>1, QuietSupply
<1>4. CASE FindFramebuffer
  <2>1. /\ UNCHANGED <<machine, structures, taken, work, regions, bitmapAt, gIsEarlyBoot>>
        /\ pc = "findFb" /\ pc' = IF machine.framebuffers = 0 THEN "prepare" ELSE "noteFb"
    BY <1>4 DEF FindFramebuffer, At_, keepPc, memoryVars, trapVars
  <2>2. TakenInv'
    BY <2>1 DEF SupplyInv, TakenInv
  <2>3. pc' \in Later => ~(machine.framebuffers > 0)
    BY <2>1
  <2>4. ReachInv'
    BY <2>1, <2>3 DEF SupplyInv, ReachInv
  <2>5. QED
    BY <2>2, <2>4 DEF SupplyInv
<1>5. CASE FinishedEarlyBoot
  <2>1. /\ UNCHANGED <<machine, structures, taken, work, regions, bitmapAt>>
        /\ pc = "early" /\ pc' = "enabled" /\ gIsEarlyBoot' = FALSE
    BY <1>5 DEF FinishedEarlyBoot, At_, memoryVars, trapVars
  <2>2. TakenInv'
    BY <2>1 DEF SupplyInv, TakenInv
  <2>3. gIsEarlyBoot' = IF pc' \in Early THEN TRUE ELSE FALSE
    BY <2>1
  <2>4. Moved' = Moved /\ pc \in Later
    BY <2>1 DEF Moved
  <2>5. ReachInv'
    BY <2>1, <2>3, <2>4 DEF SupplyInv, ReachInv
  <2>6. QED
    BY <2>2, <2>5 DEF SupplyInv
<1>6. QED
  BY <1>1, <1>2, <1>3, <1>4, <1>5 DEF StartReturns

LEMMA NextSupply ==
  RegionsInv /\ MapInv /\ SupplyInv /\ [Next]_vars => SupplyInv'
<1> SUFFICES ASSUME RegionsInv, MapInv, SupplyInv, [Next]_vars PROVE SupplyInv'
  OBVIOUS
<1>1. CASE UNCHANGED vars \/ Writes
  BY <1>1, PanicKeepsSupply DEF vars, Writes
<1>2. CASE GoesOn
  BY <1>2, OnlyGoesOn, QuietSupply
<1>3. CASE Uses
  BY <1>3, WorkSupply
<1>4. CASE Boots /\ ~GoesOn
  BY <1>4, MappingSupply, RemapSupply, EdgeSupply DEF Boots, GoesOn
<1>5. QED
  BY <1>1, <1>2, <1>3, <1>4 DEF Next

-----------------------------------------------------------------------------
(* No step of the boot fails on a machine that is supported.               *)

LEMMA Products ==
  ASSUME NEW a \in Nat, NEW b \in Nat, NEW c \in Nat, a <= b
  PROVE  a * c <= b * c /\ a * c \in Nat /\ b * c \in Nat
<1>1. PICK d \in Nat : b = a + d
  <2>1. b - a \in Nat /\ b = a + (b - a)
    OBVIOUS
  <2>2. QED
    BY <2>1
<1>2. b * c = a * c + d * c
  BY <1>1
<1>3. a * c \in Nat /\ d * c \in Nat /\ b * c \in Nat
  OBVIOUS
<1>4. QED
  BY <1>2, <1>3

LEMMA NeedNat ==
  ASSUME NEW m \in Machines
  PROVE  Need(m) \in Nat /\ 1 + AperturePages <= Need(m) /\ Need(m) >= 1
<1>1. m.work \in Nat /\ AperturePages \in Nat /\ ZonePages \in Nat
  BY BootAssumption
<1>2. m.work * ZonePages \in Nat
  BY <1>1
<1>3. Cardinality(Levels) \in Nat
  <2>1. IsFiniteSet({}) /\ Levels = (({} \cup {"pdpt"}) \cup {"pdt"}) \cup {"pt"}
    BY FS_EmptySet DEF Levels
  <2>2. QED
    BY <2>1, FS_AddElement, FS_CardinalityType
<1>4. QED
  BY <1>1, <1>2, <1>3 DEF Need

\* Pages can be had when all of the allocator can be reached.
LEMMA Affords ==
  ASSUME RegionsInv, StockInv, Supported(machine), pc \in After, taken \in Nat,
         NEW n \in Nat, taken + n <= Need(machine),
         \A i \in DOMAIN regions : BitmapReadable(i), TablesReadable
  PROVE  AllocationFails(n) = NoReason
<1>1. Considered = Len(machine.entries)
  BY DEF Considered, Before, After
<1>2. machine \in Machines /\ Len(machine.entries) \in Nat
  BY EntryTypes DEF RegionsInv
<1>3. Totals(Amounts(machine))[Len(machine.entries)] >= Need(machine)
  BY DEF Supported, Amounts, Amount, Need
<1>4. PICK t : t = Totals(Held(regions)) /\ Sums(Held(regions), Len(regions), t)
  BY HeldSums DEF RegionsInv, Region
<1>5. PagesBefore(Len(regions) + 1) = t[Len(regions)]
  <2>1. Len(regions) + 1 - 1 = Len(regions)
    BY DEF RegionsInv
  <2>2. QED
    BY <1>4, <2>1 DEF PagesBefore, Held
<1>6. t[Len(regions)] \in Int
  BY <1>4 DEF Sums, RegionsInv
<1>7. PICK needed \in Nat : needed = Need(machine)
  BY <1>2, NeedNat
<1>8. t[Len(regions)] >= needed
  BY <1>1, <1>3, <1>4, <1>7 DEF StockInv
<1>9. ~(taken + n > PagesBefore(Len(regions) + 1))
  BY <1>5, <1>6, <1>7, <1>8
<1>10. ~ \E i \in Searched(n) : ~BitmapReadable(i)
  BY DEF Searched
<1>11. QED
  BY <1>9, <1>10 DEF AllocationFails

LEMMA LoaderReads ==
  ASSUME OutputInv, RegionsInv, MapInv, SupplyInv,
         pc \in Unmoved \/ (pc = "remap" /\ step = 0)
  PROVE  (\A i \in DOMAIN regions : BitmapReadable(i)) /\ TablesReadable
<1>1. pc \in WithTerminal /\ pc \in Early /\ active = "loader"
  BY DEF OutputInv, Unmoved, Unfilled, Before, WithTerminal, Early
<1>2. Moved = {}
  <2>1. CASE pc \in Unmoved
    BY <2>1 DEF MapInv, BitmapInv
  <2>2. CASE pc = "remap" /\ step = 0
    <3>1. /\ \A i \in Moved : i <= 0
          /\ bitmapAt \in Seq(Int)
      BY <2>2 DEF MapInv, BitmapInv
    <3>2. \A i \in Moved : i >= 1 /\ i \in Nat
      BY <3>1 DEF Moved
    <3>3. QED
      BY <3>1, <3>2
  <2>3. QED
    BY <2>1, <2>2
<1>3. DOMAIN bitmapAt = DOMAIN regions
  BY DEF MapInv, BitmapInv, RegionsInv
<1>4. QED
  BY <1>1, <1>2, <1>3 DEF SupplyInv, ReachInv, TablesReadable, BitmapReadable, Moved

LEMMA KernelReads ==
  ASSUME OutputInv, SupplyInv, pc = "start", Supported(machine)
  PROVE  (\A i \in DOMAIN regions : BitmapReadable(i)) /\ TablesReadable
<1>1. active = "kernel" /\ pc \notin Early
  BY DEF OutputInv, WithTerminal, WithNone, Early
<1>2. DOMAIN regions \subseteq Moved
  BY DEF SupplyInv, ReachInv, Later, Supported
<1>3. QED
  BY <1>1, <1>2 DEF SupplyInv, ReachInv, TablesReadable, BitmapReadable, Moved

\* Structures for one area more can be had.
LEMMA AreaAffordable ==
  ASSUME RegionsInv, TakenInv, pc \notin Unfilled, NEW area \in Areas
  PROVE  /\ Cardinality(Missing(area)) \in Nat
         /\ taken + Cardinality(Missing(area)) <= Need(machine)
         /\ work < machine.work =>
              /\ ZonePages + Cardinality(Missing(area)) \in Nat
              /\ taken + (ZonePages + Cardinality(Missing(area))) <= Need(machine)
<1>1. /\ machine.work \in Nat /\ work \in Nat /\ work <= machine.work
      /\ AperturePages \in Nat /\ ZonePages \in Nat /\ taken \in Nat
  BY BootAssumption DEF RegionsInv, TakenInv
<1>2. PICK d, w \in Nat : d = work * ZonePages /\ w = machine.work * ZonePages /\ d <= w
  BY <1>1, Products
<1>3. work < machine.work => d + ZonePages <= w
  <2> SUFFICES ASSUME work < machine.work PROVE d + ZonePages <= w
    OBVIOUS
  <2>1. work + 1 \in Nat /\ work + 1 <= machine.work
    BY <1>1
  <2>2. (work + 1) * ZonePages <= w
    BY <1>1, <1>2, <2>1, Products
  <2>3. (work + 1) * ZonePages = d + ZonePages
    BY <1>1, <1>2
  <2>4. QED
    BY <2>2, <2>3
<1>4. /\ Cardinality(Missing(area)) \in Nat /\ Cardinality(structures) \in Nat
      /\ Cardinality(structures) + Cardinality(Missing(area)) <= 4 * Cardinality(Levels)
      /\ Cardinality(Levels) \in Nat
  BY Structures
<1>5. taken <= 1 + AperturePages + Cardinality(structures) + d
  BY <1>2 DEF TakenInv
<1>6. Need(machine) = 1 + AperturePages + 4 * Cardinality(Levels) + w
  BY <1>2 DEF Need
<1>7. QED
  BY <1>1, <1>2, <1>3, <1>4, <1>5, <1>6

\* What a console step can come to.
LEMMA WriteCharCalls ==
  ASSUME NEW c, NEW ch
  PROVE  WriteChar(c, ch).call \in {"none", "scroll", "unhandled", "memcpy", "fault"}
<1> DEFINE All == {"none", "scroll", "unhandled", "memcpy", "fault"}
<1>1. \A d : Done(d).call \in All
  BY DEF Done
<1>2. \A d : /\ Calls(d, "scroll").call \in All /\ Calls(d, "unhandled").call \in All
             /\ Calls(d, "memcpy").call \in All /\ Calls(d, "fault").call \in All
  BY DEF Calls
<1> HIDE DEF All
<1>3. \A d : NewLine(d).call \in All
  BY <1>1, <1>2 DEF NewLine
<1>4. \A d : PrintChar(d, ch).call \in All
  BY <1>1, <1>2, <1>3 DEF PrintChar
<1>5. \A d : ProcessAnsi(d).call \in All
  BY <1>1, <1>2 DEF ProcessAnsi
<1>6. WriteChar(c, ch).call \in All
  BY <1>1, <1>4, <1>5 DEF WriteChar
<1>7. QED
  BY <1>6 DEF All

\* Without the console's own failures.
Failures == BootFailures \ {"memcpy", "fault"}

SupportInv == Supported(machine) => reason \notin Failures

BootInv ==
  OutputInv /\ RegionsInv /\ MapInv /\ TrapInv /\ StockInv /\ SupplyInv /\ SupportInv

LEMMA NoneIsNoFailure == NoReason \notin Failures
BY DEF NoReason, Failures, BootFailures

LEMMA ReadsSymbols ==
  ASSUME OutputInv, TrapInv
  PROVE  SymbolsReadable
<1>1. ~Symbolicates(NoSymbols)
  BY DEF Symbolicates, NoSymbols
<1>2. pc \in Forgotten \/ pc \in WithTerminal \cup WithNone
  BY DEF OutputInv, WithTerminal, WithNone, Switched, WithFbCons, Forgotten, After
<1>3. QED
  BY <1>1, <1>2 DEF OutputInv, TrapInv, SymbolsReadable

LEMMA WritesSupport == BootInv /\ Writes => SupportInv'
<1> SUFFICES ASSUME BootInv, Writes PROVE SupportInv'
  OBVIOUS
<1>1. machine' = machine
  BY DEF Writes, bootVars
<1>2. Supported(machine') => Supported(machine)
  BY <1>1
<1>3. reason' = reason \/ reason' \in {"memcpy", "fault"}
  <2>1. CASE WriteStep
    <3>1. PICK r \in {WriteChar(con, buf[Loop.next])} :
            reason' = reason \/ (/\ r.call \notin {"none", "scroll", "unhandled"}
                                 /\ reason' = r.call)
      BY <2>1 DEF WriteStep, PanicOver
    <3>2. QED
      BY <3>1, WriteCharCalls
  <2>2. CASE Return(SymbolsReadable)
    BY <2>2, ReadsSymbols DEF Return, BootInv
  <2>3. QED
    BY <2>1, <2>2 DEF Writes
<1>4. QED
  BY <1>2, <1>3 DEF BootInv, SupportInv, Failures

\* An exception is reported as what it is, and as nothing else.
LEMMA ReportsNoFailure ==
  ASSUME NEW vector \in Vectors
  PROVE  Reports(vector) \cap Failures = {}
<1> DEFINE Said == {
      {"DivideByZero"}, {"DebugBreakpoint"}, {"Non-maskable interrupt"}, {"Overflow"},
      {"InvalidOpcode"}, {"Device unavailable (FPU)"}, {"Double fault"}, {"Invalid TSS"},
      {"Segment not present"}, {"Invalid stack segment"}, {"ProtectionFault"},
      {"fault in valloc", "map fault"}, {"FloatingPoint"}, {"AlignmentFault"},
      {"Machine check"}, {"SIMD"}, {"Virtualization exception"}}
<1>1. vector \in 0 .. 20 \ {9, 15}
  BY DEF Vectors, Exc
<1>2. Reports(vector) \in Said
  <2>1. CASE vector \in {0, 1, 2, 3}
    BY <2>1 DEF Reports
  <2>2. CASE vector \in {4, 5, 6, 7}
    BY <2>2 DEF Reports
  <2>3. CASE vector \in {8, 10, 11, 12}
    BY <2>3 DEF Reports
  <2>4. CASE vector \in {13, 14, 16, 17}
    BY <2>4 DEF Reports
  <2>5. CASE vector \in {18, 19, 20}
    BY <2>5 DEF Reports
  <2> HIDE DEF Said
  <2>6. QED
    BY <1>1, <2>1, <2>2, <2>3, <2>4, <2>5
<1>3. \A whys \in Said : whys \cap Failures = {}
  BY DEF Failures, BootFailures
<1>4. QED
  BY <1>2, <1>3

LEMMA KeepsSupport ==
  ASSUME SupportInv, UNCHANGED <<machine, reason>>
  PROVE  SupportInv'
<1>1. Supported(machine') => Supported(machine)
  OBVIOUS
<1>2. QED
  BY <1>1 DEF SupportInv

\* The steps that read the memory map.
LEMMA EntriesSupport ==
  ASSUME BootInv, Supported(machine), AddEntry \/ EntriesDone
  PROVE  reason' = reason
<1>1. machine \in Machines /\ Len(machine.entries) \in Nat
  BY EntryTypes DEF BootInv, RegionsInv
<1>2. CASE AddEntry
  <2> DEFINE i == step + 1
             e == machine.entries[i]
             r == Clipped(e)
  <2>1. step \in Nat /\ step < Len(machine.entries) /\ pc = "memory"
    BY <1>1, <1>2 DEF BootInv, RegionsInv, AddEntry, At_
  <2>2. i \in 1 .. Len(machine.entries)
    BY <1>1, <2>1
  <2>3. CASE Skipped(e)
    BY <1>2, <2>3 DEF AddEntry, consoleVars
  <2>4. CASE ~Skipped(e)
    <3>1. i \in Big(machine) /\ e \in Entry
      BY <1>1, <2>2, <2>4, BigEntries
    <3>2. Len(regions) = Cardinality(Big(machine) \cap (1 .. step))
      BY <2>1 DEF BootInv, StockInv, Considered, Before
    <3>3. Len(regions) # MaxRegions
      <4>1. /\ Cardinality(Big(machine) \cap (1 .. step)) \in Nat
            /\ Cardinality(Big(machine) \cap (1 .. i))
                 = Cardinality(Big(machine) \cap (1 .. step)) + 1
            /\ Cardinality(Big(machine) \cap (1 .. i)) <= Cardinality(Big(machine))
        BY <1>1, <2>1, <3>1, NextBig
      <4>2. /\ Cardinality(Big(machine)) <= MaxRegions /\ MaxRegions \in Nat
            /\ Cardinality(Big(machine)) \in Nat
        BY <1>1, BigEntries, BootAssumption DEF Supported
      <4>3. QED
        BY <3>2, <4>1, <4>2
    <3>4. e.base < EarlyLimit /\ e.base + e.length > Bound
      BY <3>1 DEF Supported
    <3>5. /\ e.base \in Nat /\ e.length \in Nat /\ e.length >= MinRegion
          /\ MinRegion \in Nat \ {0} /\ Bound \in Nat /\ EarlyLimit \in Nat
          /\ Bound < EarlyLimit
      <4> HIDE DEF e
      <4>1. /\ MinRegion \in Nat \ {0} /\ Bound \in Nat /\ EarlyLimit \in Nat
            /\ Bound < EarlyLimit
        BY BootAssumption
      <4>2. e.base \in Nat /\ e.length \in Nat
        BY <3>1 DEF Entry
      <4>3. e.length >= MinRegion
        BY <2>4, <4>1, <4>2 DEF Skipped
      <4>4. QED
        BY <4>1, <4>2, <4>3
    <3>6. r.length # 0 /\ ~(r.base >= EarlyLimit)
      <4> HIDE DEF e
      <4>1. QED
        BY <3>4, <3>5 DEF Clipped
    <3>7. AddRegionFails(r) = NoReason
      BY <3>3, <3>6 DEF AddRegionFails
    <3> HIDE DEF r, e
    <3>8. QED
      BY <1>2, <2>4, <3>7 DEF AddEntry, Unless, consoleVars, r, e
  <2>5. QED
    BY <2>3, <2>4
<1>3. CASE EntriesDone
  <2>1. step # 0
    <3>1. SUFFICES ASSUME step = 0 PROVE FALSE
      OBVIOUS
    <3>2. Len(machine.entries) = 0
      BY <1>3, <3>1 DEF EntriesDone
    <3>3. PICK t : t = Totals(Amounts(machine)) /\ Sums(Amounts(machine), 0, t)
      BY <1>1, <3>2, AmountSums
    <3>4. t[0] = 0
      BY <3>3 DEF Sums
    <3>5. 0 >= Need(machine)
      BY <3>2, <3>3, <3>4 DEF Supported, Amounts, Amount, Need
    <3>6. Need(machine) \in Nat /\ Need(machine) >= 1
      BY <1>1, NeedNat
    <3>7. QED
      BY <3>5, <3>6
  <2>2. QED
    BY <1>3, <2>1 DEF EntriesDone, Unless, Announce, Say
<1>4. QED
  BY <1>2, <1>3

\* The steps that take pages.
LEMMA AllocationSupport ==
  ASSUME BootInv, Supported(machine),
         InitKernelVm \/ MapKernelSection \/ MapFramebuffer \/ RemapRegion \/ KernelAllocates
  PROVE  reason' = reason
<1>1. /\ OutputInv /\ RegionsInv /\ MapInv /\ StockInv /\ SupplyInv /\ TakenInv
  BY DEF BootInv, SupplyInv
<1>2. machine \in Machines /\ taken \in Nat
  BY <1>1 DEF RegionsInv, TakenInv
<1>3. \A area \in Areas : pc \notin Unfilled =>
        /\ Cardinality(Missing(area)) \in Nat
        /\ taken + Cardinality(Missing(area)) <= Need(machine)
        /\ work < machine.work =>
             /\ ZonePages + Cardinality(Missing(area)) \in Nat
             /\ taken + (ZonePages + Cardinality(Missing(area))) <= Need(machine)
  BY <1>1, AreaAffordable
<1>4. CASE InitKernelVm
  <2>1. pc = "kernelVm" /\ pc \in Unmoved /\ pc \in After /\ pc \in Unfilled
    BY <1>4 DEF InitKernelVm, At_, Unmoved, Unfilled, After
  <2>2. 1 + AperturePages \in Nat /\ taken + (1 + AperturePages) <= Need(machine)
    <3>1. taken = 0
      BY <1>1, <2>1 DEF TakenInv
    <3>2. AperturePages \in Nat /\ Need(machine) \in Nat /\ 1 + AperturePages <= Need(machine)
      BY <1>2, NeedNat, BootAssumption
    <3>3. QED
      BY <3>1, <3>2
  <2>3. AllocationFails(1 + AperturePages) = NoReason
    BY <1>1, <1>2, <2>1, <2>2, LoaderReads, Affords
  <2>4. QED
    BY <1>4, <2>3 DEF InitKernelVm, Unless, consoleVars
<1>5. CASE MapKernelSection
  <2>1. pc = "sections" /\ pc \in Unmoved /\ pc \in After /\ pc \notin Unfilled
    BY <1>5 DEF MapKernelSection, At_, Unmoved, Unfilled, After, Before
  <2>2. AddFails("image") = NoReason
    BY <1>1, <1>2, <1>3, <2>1, LoaderReads, Affords DEF AddFails, Areas
  <2>3. machine.located
    BY DEF Supported
  <2>4. QED
    BY <1>5, <2>2, <2>3 DEF MapKernelSection, Unless, consoleVars
<1>6. CASE MapFramebuffer
  <2>1. pc = "mapFb" /\ pc \in Unmoved /\ pc \in After /\ pc \notin Unfilled
    BY <1>6 DEF MapFramebuffer, At_, Unmoved, Unfilled, After, Before
  <2>2. AddFails("framebuffer") = NoReason
    BY <1>1, <1>2, <1>3, <2>1, LoaderReads, Affords DEF AddFails, Areas
  <2>3. QED
    BY <1>6, <2>2 DEF MapFramebuffer, Unless, consoleVars
<1>7. CASE RemapRegion
  <2>1. pc = "remap" /\ pc \in After /\ pc \notin Unfilled
    BY <1>7 DEF RemapRegion, At_, Unfilled, After, Before
  <2>2. step = 0 => AddFails("metadata") = NoReason
    BY <1>1, <1>2, <1>3, <2>1, LoaderReads, Affords DEF AddFails, Areas
  <2>3. step # 0 => AddFails("metadata") = NoReason
    <3> SUFFICES ASSUME step # 0 PROVE AddFails("metadata") = NoReason
      OBVIOUS
    <3>1. Missing("metadata") = {}
      BY <1>1, <2>1 DEF SupplyInv, ReachInv, Missing
    <3>2. Cardinality(Missing("metadata")) = 0
      BY <3>1, FS_EmptySet
    <3>3. QED
      BY <3>2 DEF AddFails, AllocationFails
  <2>4. QED
    BY <1>7, <2>2, <2>3 DEF RemapRegion, Unless, consoleVars
<1>8. CASE KernelAllocates
  <2>1. pc = "start" /\ pc \in After /\ pc \notin Unfilled /\ work < machine.work
    BY <1>8 DEF KernelAllocates, At_, Unfilled, After, Before
  <2>2. AllocationFails(ZonePages + Cardinality(Missing("valloc"))) = NoReason
    BY <1>1, <1>2, <1>3, <2>1, KernelReads, Affords DEF Areas
  <2>3. QED
    BY <1>8, <2>2 DEF KernelAllocates, Unless, consoleVars
<1>9. QED
  BY <1>4, <1>5, <1>6, <1>7, <1>8

\* An exception has a reason of its own.
LEMMA ExceptionSupport ==
  ASSUME TrapInv, TrapInv', NEW vector \in Vectors, NEW area, Take(vector, area)
  PROVE  reason' = reason \/ reason' \notin Failures
<1>1. CASE reason # NoReason
  BY <1>1 DEF Take, PanicOn, PanicOver, consoleVars
<1>2. CASE reason = NoReason
  <2>1. /\ trap'.vector = vector
        /\ DOMAIN trap' = {"vector", "delivered", "state"}
    BY <1>2 DEF Take
  <2>2. trap' # << >>
    BY <2>1
  <2>3. reason' \in Reports(vector)
    BY <2>1, <2>2 DEF TrapInv, ExceptionsReported
  <2>4. QED
    BY <2>3, ReportsNoFailure
<1>3. QED
  BY <1>1, <1>2

LEMMA UsesSupport == BootInv /\ TrapInv' /\ Supported(machine) /\ Uses =>
                       reason' = reason \/ reason' \notin Failures
<1> SUFFICES ASSUME BootInv, TrapInv', Supported(machine), Uses
             PROVE  reason' = reason \/ reason' \notin Failures
  OBVIOUS
<1>1. Exc.PAGING \in Vectors /\ Exc.NMI \in Vectors /\ Exc.MCE \in Vectors
  BY DEF Exc, Vectors
<1>2. \A vector \in machine.vectors : vector \in Vectors
  BY BootAssumption DEF BootInv, TrapInv, Vectors
<1>3. ASSUME NEW vector \in Vectors, NEW area, Take(vector, area)
      PROVE  reason' = reason \/ reason' \notin Failures
  BY <1>3, ExceptionSupport DEF BootInv
<1>4. ASSUME NEW m \in Messages, KernelLogs(m)
      PROVE  reason' = reason
  BY <1>4 DEF KernelLogs, Say
<1>5. CASE KernelAllocates
  BY <1>5, AllocationSupport
<1>6. QED
  BY <1>1, <1>2, <1>3, <1>4, <1>5 DEF Uses, PageFault, Exception, Interrupt

LEMMA BootsSupport == BootInv /\ Supported(machine) /\ Boots =>
                        reason' = reason \/ reason' \notin Failures
<1> SUFFICES ASSUME BootInv, Supported(machine), Boots
             PROVE  reason' = reason \/ reason' \notin Failures
  OBVIOUS
<1>1. CASE GoesOn
  BY <1>1, OnlyGoesOn
<1>2. CASE VerifyFeatures
  BY <1>2 DEF VerifyFeatures, Unless, consoleVars, Supported
<1>3. CASE AddEntry \/ EntriesDone
  BY <1>3, EntriesSupport
<1>4. CASE InitKernelVm \/ MapKernelSection \/ MapFramebuffer \/ RemapRegion
  BY <1>4, AllocationSupport
<1>5. CASE FindFramebuffer \/ FinishedEarlyBoot
  BY <1>5 DEF FindFramebuffer, FinishedEarlyBoot, Say, consoleVars
<1>6. CASE StartReturns
  <2>1. reason' = reason \/ reason' = "returned"
    BY <1>6 DEF StartReturns, Panic, PanicOn, PanicOver
  <2>2. "returned" \notin Failures
    BY DEF Failures, BootFailures
  <2>3. QED
    BY <2>1, <2>2
<1>7. QED
  BY <1>1, <1>2, <1>3, <1>4, <1>5, <1>6 DEF Boots, GoesOn

LEMMA InitBoot == Init => BootInv
<1> SUFFICES ASSUME Init PROVE BootInv
  OBVIOUS
<1>1. SupportInv
  BY NoneIsNoFailure DEF Init, ConsolesOff, SupportInv
<1>2. QED
  BY <1>1, InitOutputs, InitRegions, InitMap, InitTraps, InitStock, InitSupply DEF BootInv

LEMMA NextBoot == BootInv /\ [Next]_vars => BootInv'
<1> SUFFICES ASSUME BootInv, [Next]_vars PROVE BootInv'
  OBVIOUS
<1>1. /\ OutputInv' /\ RegionsInv' /\ MapInv' /\ TrapInv' /\ StockInv' /\ SupplyInv'
  BY NextOutputs, NextRegions, NextMap, NextTraps, NextStock, NextSupply DEF BootInv
<1>2. SupportInv'
  <2>1. CASE UNCHANGED vars
    BY <2>1, KeepsSupport DEF vars, consoleVars, bootVars, BootInv
  <2>2. CASE Writes
    BY <2>2, WritesSupport
  <2>3. CASE Boots \/ Uses
    <3>1. machine' = machine
      <4>1. SetUpIdt \/ AddEntry \/ EntriesDone => machine' = machine
        BY DEF SetUpIdt, SetsUp, AddEntry, EntriesDone, Unless, Announce, keepPc, bootVars
      <4>2. QED
        BY <2>3, <4>1, OtherStage DEF Next
    <3>2. Supported(machine') => Supported(machine)
      BY <3>1
    <3>3. Supported(machine) => reason' = reason \/ reason' \notin Failures
      BY <1>1, <2>3, UsesSupport, BootsSupport
    <3>4. QED
      BY <3>2, <3>3 DEF BootInv, SupportInv
  <2>4. QED
    BY <2>1, <2>2, <2>3 DEF Next
<1>3. QED
  BY <1>1, <1>2 DEF BootInv

\* On a machine the kernel means to run on, nothing of the boot or after it fails
\* but the framebuffer console, by its way of scrolling or of drawing past the screen
\* (Boot/Entry.cpp, InitPhysAllocator, InitKernelVm and PopulateKernelVm).
THEOREM BootsAreSupplied == Spec => [](reason \notin {"memcpy", "fault"} => SupportedBoots)
<1>1. BootInv => (reason \notin {"memcpy", "fault"} => SupportedBoots)
  BY DEF BootInv, SupportInv, SupportedBoots, Failures
<1>2. QED
  BY <1>1, InitBoot, NextBoot, PTL DEF Spec

-----------------------------------------------------------------------------
(* The debug port.                                                           *)

\* The last of the arguments that ask is the one Asked means.
LEMMA AskedLast ==
  ASSUME NEW args, Len(args) \in Nat, DOMAIN args = 1 .. Len(args), NEW p,
         AskedBy(args, Len(args), p)
  PROVE  p = Asked(args)
<1>1. PICK n \in Nat : n = Len(args)
  OBVIOUS
<1>2. PICK asking : asking = {i \in 1 .. n : Asks(args[i])}
  OBVIOUS
<1>3. Asked(args) = IF asking = {} THEN 0 ELSE args[Max(asking)].number
  BY <1>1, <1>2 DEF Asked, Asks
<1>4. CASE p = 0 /\ \A i \in 1 .. n : ~Asks(args[i])
  BY <1>2, <1>3, <1>4
<1>5. CASE \E i \in 1 .. n : /\ Asks(args[i]) /\ p = args[i].number
                             /\ \A j \in i + 1 .. n : ~Asks(args[j])
  <2>1. PICK i \in 1 .. n : /\ Asks(args[i]) /\ p = args[i].number
                            /\ \A j \in i + 1 .. n : ~Asks(args[j])
    BY <1>5
  <2>2. i \in asking /\ asking \subseteq 1 .. n
    BY <1>2, <2>1
  <2>3. \A j \in asking : i >= j
    <3> SUFFICES ASSUME NEW j \in asking, ~(i >= j) PROVE FALSE
      OBVIOUS
    <3>1. j \in i + 1 .. n /\ Asks(args[j])
      BY <1>2
    <3>2. QED
      BY <2>1, <3>1
  <2>4. \A m \in asking : (\A j \in asking : m >= j) => m = i
    <3> SUFFICES ASSUME NEW m \in asking, \A j \in asking : m >= j PROVE m = i
      OBVIOUS
    <3>1. m >= i /\ i >= m /\ m \in Int
      BY <2>2, <2>3
    <3>2. QED
      BY <3>1
  <2>5. Max(asking) = i
    <3>1. Max(asking) = CHOOSE m \in asking : \A j \in asking : m >= j
      BY DEF Max
    <3>2. QED
      BY <2>2, <2>3, <2>4, <3>1
  <2>6. QED
    BY <1>3, <2>1, <2>2, <2>5
<1>6. QED
  BY <1>1, <1>4, <1>5, SMTT(30) DEF AskedBy

LEMMA PortRight ==
  ASSUME NEW m \in Machines
  PROVE  ParseCmd(Line(CommandLine(m))) = Asked(CommandLine(m))
<1>1. PICK args : args = CommandLine(m)
  OBVIOUS
<1>2. args \in Seq(Argument) /\ \A i \in DOMAIN args : Legible(args[i])
  <2>1. CASE m.file = NoFile
    BY <1>1, <2>1 DEF CommandLine
  <2>2. CASE m.file # NoFile
    BY <1>1, <2>2, CommandLineAssumption DEF CommandLine
  <2>3. QED
    BY <2>1, <2>2
<1>3. Len(args) \in Nat /\ DOMAIN args = 1 .. Len(args)
  BY <1>2
<1>4. \A i \in 1 .. Len(args) : args[i] \in Argument
  BY <1>2
<1>5. LegibleLine(args)
  BY <1>2, <1>3, <1>4 DEF LegibleLine
<1>6. AskedBy(args, Len(args), ParseCmd(Line(args)))
  BY <1>5, LineRead
<1>7. ParseCmd(Line(args)) = Asked(args)
  BY <1>3, <1>6, AskedLast
<1>8. QED
  BY <1>1, <1>7

\* The port is set once, and before anything is logged.
PortInv == machine \in Machines /\ PortAsAsked

KeepsPort == gDebugconPort' = gDebugconPort /\ (pc = "console" => pc' = "console")

LEMMA SayPort == \A level, cmds : Say(level, cmds) => gDebugconPort' = gDebugconPort
BY DEF Say

LEMMA PanicPort ==
  /\ \A why : Panic(why) => gDebugconPort' = gDebugconPort
  /\ \A ist, why : PanicOn(ist, why) => gDebugconPort' = gDebugconPort
BY DEF Panic, PanicOn

LEMMA UsesPort == Uses => KeepsPort
<1>1. ASSUME NEW m \in Messages, KernelLogs(m) PROVE gDebugconPort' = gDebugconPort
  BY <1>1, SayPort DEF KernelLogs
<1>2. KernelAllocates => gDebugconPort' = gDebugconPort
  BY PanicPort DEF KernelAllocates, Unless, consoleVars
<1>3. ASSUME NEW vector, NEW area, Take(vector, area) PROVE gDebugconPort' = gDebugconPort
  BY <1>3, PanicPort DEF Take, consoleVars
<1>4. Uses => gDebugconPort' = gDebugconPort
  BY <1>1, <1>2, <1>3 DEF Uses, PageFault, Exception, Interrupt
<1>5. Uses => pc' = pc
  BY UsesStage
<1>6. QED
  BY <1>4, <1>5 DEF KeepsPort

LEMMA BootsPort == Boots /\ ~ConsoleInit => KeepsPort
<1>1. CASE NoteBuild \/ NotePlatform \/ NoteFramebuffer \/ NoteCpus \/ PrintBanner \/ PrintRevision
  <2>1. gDebugconPort' = gDebugconPort
    BY <1>1, SayPort DEF NoteBuild, NotePlatform, NoteFramebuffer, NoteCpus, PrintBanner,
                         PrintRevision, Announce
  <2>2. pc # "console"
    BY <1>1 DEF NoteBuild, NotePlatform, NoteFramebuffer, NoteCpus, PrintBanner,
                PrintRevision, Announce, At_
  <2>3. QED
    BY <2>1, <2>2 DEF KeepsPort
<1>2. CASE BacktraceInit \/ WarnNoImage \/ FindFramebuffer
  BY <1>2, SayPort DEF BacktraceInit, WarnNoImage, FindFramebuffer, At_, consoleVars, KeepsPort
<1>3. CASE SetUpGdt \/ SetUpIdt \/ SetUpLocals \/ Activate \/ FinishedEarlyBoot
  BY <1>3 DEF SetUpGdt, SetUpIdt, SetUpLocals, Activate, FinishedEarlyBoot, SetsUp, At_,
              consoleVars, KeepsPort
<1>4. CASE PrepareConsole \/ EnableConsole
  BY <1>4 DEF PrepareConsole, EnableConsole, PrepareForVm, VmEnabled, At_, KeepsPort
<1>5. CASE VerifyFeatures \/ InitKernelVm \/ MapKernelSection \/ MapFramebuffer \/ RemapRegion
  <2>1. gDebugconPort' = gDebugconPort
    BY <1>5, PanicPort DEF VerifyFeatures, InitKernelVm, MapKernelSection, MapFramebuffer,
                           RemapRegion, Unless, consoleVars
  <2>2. pc # "console"
    BY <1>5 DEF VerifyFeatures, InitKernelVm, MapKernelSection, MapFramebuffer,
                RemapRegion, At_
  <2>3. QED
    BY <2>1, <2>2 DEF KeepsPort
<1>6. CASE AddEntry \/ EntriesDone
  <2>1. gDebugconPort' = gDebugconPort
    BY <1>6, PanicPort, SayPort DEF AddEntry, EntriesDone, Unless, Announce, consoleVars
  <2>2. pc # "console"
    BY <1>6 DEF AddEntry, EntriesDone, Announce, At_
  <2>3. QED
    BY <2>1, <2>2 DEF KeepsPort
<1>7. CASE StartReturns
  BY <1>7, PanicPort DEF StartReturns, bootVars, KeepsPort
<1>8. QED
  BY <1>1, <1>2, <1>3, <1>4, <1>5, <1>6, <1>7 DEF Boots

LEMMA NextPort == PortInv /\ [Next]_vars => PortInv'
<1> SUFFICES ASSUME PortInv, [Next]_vars PROVE PortInv'
  OBVIOUS
<1>1. CASE UNCHANGED vars
  BY <1>1 DEF vars, consoleVars, bootVars, PortInv, PortAsAsked
<1>2. CASE ConsoleInit
  <2>1. gDebugconPort' = ParseCmd(Line(CommandLine(machine))) /\ machine' = machine
    BY <1>2 DEF ConsoleInit, keepPc
  <2>2. QED
    BY <2>1, PortRight DEF PortInv, PortAsAsked
<1>3. CASE Next /\ ~ConsoleInit
  <2>1. machine' = machine
    <3>1. SetUpIdt \/ AddEntry \/ EntriesDone => machine' = machine
      BY DEF SetUpIdt, SetsUp, AddEntry, EntriesDone, Unless, Announce, keepPc, bootVars
    <3>2. QED
      BY <1>3, <3>1, OtherStage
  <2>2. Writes => KeepsPort
    BY DEF Writes, WriteStep, Return, bootVars, KeepsPort
  <2>3. KeepsPort
    BY <1>3, <2>2, UsesPort, BootsPort DEF Next
  <2>4. pc' # "console" => gDebugconPort' = Asked(CommandLine(machine'))
    <3>1. pc # "console" => gDebugconPort = Asked(CommandLine(machine))
      BY DEF PortInv, PortAsAsked
    <3>2. gDebugconPort' = gDebugconPort /\ (pc = "console" => pc' = "console")
      BY <2>3 DEF KeepsPort
    <3>3. Asked(CommandLine(machine')) = Asked(CommandLine(machine))
      BY <2>1
    <3>4. QED
      BY <3>1, <3>2, <3>3
  <2>5. QED
    BY <2>1, <2>4 DEF PortInv, PortAsAsked
<1>4. QED
  BY <1>1, <1>2, <1>3

\* Whatever arguments are on the command line, and wherever the one for the
\* debug console is among them, the port that is set is the one it names
\* (Io/Console.cpp, Init, ParseCmd and ParseCmdToken).
THEOREM PortIsAsked == Spec => []PortAsAsked
<1>1. Init => PortInv
  BY DEF Init, PortInv, PortAsAsked
<1>2. PortInv => PortAsAsked
  BY DEF PortInv
<1>3. QED
  BY <1>1, <1>2, NextPort, PTL DEF Spec

-----------------------------------------------------------------------------
(* What the framebuffer console shows.                                       *)

\* Where the framebuffer has the character in column x of row y, and how a cell
\* of the terminal, a character and its pen, looks there.
CellAt(y, x) == y * Stride + x
Look(cell) == <<cell[1], Pixel(cell[2]), Pixel(cell[3])>>

Terminals ==
  [rows : [1 .. Height -> [1 .. Width -> Nat \X Nat \X Nat]],
   x : 0 .. Width, y : 0 .. Height - 1, fg : Nat, bg : Nat]

\* The console shows the terminal t; the cursor may be right of the last column.
Pictures(c, t) ==
  /\ t \in Terminals
  /\ DOMAIN c = {"cursorPos", "writeState", "ansiBuf", "colorIndices", "colors", "video"}
  /\ c.cursorPos = [x |-> t.x, y |-> t.y]
  /\ c.writeState = "Idle"
  /\ c.colorIndices = [fg |-> t.fg, bg |-> t.bg]
  /\ c.colors = [fg |-> Pixel(t.fg), bg |-> Pixel(t.bg)]
  /\ DOMAIN c.video = Cells
  /\ \A y \in 0 .. Height - 1, x \in 0 .. Width - 1 :
       c.video[CellAt(y, x)] = Look(t.rows[y + 1][x + 1])

LEMMA Sizes ==
  /\ Width \in Nat /\ Width > 0 /\ Height \in Nat /\ Height > 0
  /\ ScrollAmount \in 1 .. Height /\ Stride \in Nat /\ Width <= Stride
<1>1. /\ Width \in Nat \ {0} /\ Height \in Nat \ {0} /\ GivenStride \in Nat
      /\ ScrollAmount \in 1 .. Height /\ (GivenStride = 0 \/ GivenStride >= Width)
  BY FbConsAssumption
<1>2. QED
  BY <1>1 DEF Stride

\* Multiples keep the order.
LEMMA Monotone ==
  ASSUME NEW a \in Nat, NEW b \in Nat, NEW s \in Nat, a < b
  PROVE  a * s \in Nat /\ b * s \in Nat /\ a * s + s <= b * s
<1>1. PICK k \in Nat : b = a + 1 + k
  <2>1. b - a - 1 \in Nat /\ b = a + 1 + (b - a - 1)
    OBVIOUS
  <2>2. QED
    BY <2>1
<1>2. b * s = a * s + s + k * s
  BY <1>1
<1>3. k * s \in Nat /\ a * s \in Nat /\ b * s \in Nat
  OBVIOUS
<1>4. QED
  BY <1>2, <1>3

\* No two places of the screen share a cell, and all have one.
LEMMA CellsApart ==
  ASSUME NEW y \in 0 .. Height - 1, NEW x \in 0 .. Width - 1,
         NEW v \in 0 .. Height - 1, NEW u \in 0 .. Width - 1,
         CellAt(y, x) = CellAt(v, u)
  PROVE  y = v /\ x = u
<1>1. /\ Stride \in Nat /\ Width \in Nat /\ Height \in Nat /\ Width <= Stride
  BY Sizes
<1>2. PICK a \in Nat, b \in Nat, s \in Nat :
        a = y * Stride /\ b = v * Stride /\ s = Stride /\ x < s /\ u < s
  <2>1. y * Stride \in Nat /\ v * Stride \in Nat
    BY <1>1
  <2>2. QED
    BY <1>1, <2>1
<1>3. a + x = b + u
  BY <1>2 DEF CellAt
<1>4. ~(y < v)
  <2>1. y < v => a + s <= b
    BY <1>1, <1>2, Monotone
  <2>2. QED
    BY <1>2, <1>3, <2>1
<1>5. ~(v < y)
  <2>1. v < y => b + s <= a
    BY <1>1, <1>2, Monotone
  <2>2. QED
    BY <1>2, <1>3, <2>1
<1>6. y = v
  BY <1>1, <1>4, <1>5
<1>7. QED
  BY <1>2, <1>3, <1>6

LEMMA CellsInside ==
  ASSUME NEW y \in 0 .. Height - 1, NEW x \in 0 .. Width - 1
  PROVE  CellAt(y, x) \in Cells
<1>1. /\ Stride \in Nat /\ Width \in Nat /\ Height \in Nat /\ Width <= Stride
  BY Sizes
<1>2. y * Stride + Stride <= Height * Stride /\ y * Stride \in Nat /\ Height * Stride \in Nat
  BY <1>1, Monotone
<1>3. PICK a \in Nat, h \in Nat, s \in Nat :
        a = y * Stride /\ h = Height * Stride /\ s = Stride /\ a + s <= h /\ x < s
  BY <1>1, <1>2
<1>4. a + x \in 0 .. h - 1
  BY <1>3
<1>5. Stride * Height = h
  BY <1>1, <1>3
<1>6. QED
  BY <1>3, <1>4, <1>5 DEF CellAt, Cells

\* The place in a row.
LEMMA Column ==
  ASSUME NEW y \in Nat, NEW x \in 0 .. Width - 1
  PROVE  CellAt(y, x) % Stride = x
<1>1. /\ Stride \in Nat /\ Width \in Nat /\ Width > 0 /\ Width <= Stride
  BY Sizes
<1>2. PICK s \in Nat : s = Stride /\ x < s /\ s > 0
  BY <1>1
<1>3. (y * s + x) % s = x
  BY <1>2
<1>4. QED
  BY <1>2, <1>3 DEF CellAt

\* A character drawn and the cursor moved, in either.
Drawn(c, ch) == [DrawChar(c, ch) EXCEPT !.cursorPos.x = @ + 1]
Marked(t, ch) == [t EXCEPT !.rows[t.y + 1][t.x + 1] = <<ch, t.fg, t.bg>>, !.x = @ + 1]

LEMMA DrawShows ==
  ASSUME NEW c, NEW t, Pictures(c, t), t.x < Width, NEW ch \in Nat
  PROVE  /\ CursorCell(c) \in Cells /\ Pictures(Drawn(c, ch), Marked(t, ch))
         /\ Marked(t, ch).x = t.x + 1
<1>1. /\ t \in Terminals /\ t.x \in 0 .. Width - 1 /\ t.y \in 0 .. Height - 1
      /\ t.fg \in Nat /\ t.bg \in Nat
      /\ t.rows \in [1 .. Height -> [1 .. Width -> Nat \X Nat \X Nat]]
  <2>1. /\ t \in Terminals /\ t.x \in 0 .. Width /\ t.y \in 0 .. Height - 1
        /\ t.fg \in Nat /\ t.bg \in Nat
        /\ t.rows \in [1 .. Height -> [1 .. Width -> Nat \X Nat \X Nat]]
    BY DEF Pictures, Terminals
  <2>2. PICK n \in Nat, W \in Nat : n = t.x /\ W = Width
    <3>1. \A m \in Nat : \A k \in 0 .. m : k \in Nat
      OBVIOUS
    <3>2. t.x \in Nat
      BY <2>1, <3>1, Sizes
    <3>3. QED
      BY <3>2, Sizes
  <2>3. n < W => n \in 0 .. W - 1
    BY <2>2
  <2>4. t.x \in 0 .. Width - 1
    BY <2>2, <2>3
  <2>5. QED
    BY <2>1, <2>4
<1>2. CursorCell(c) = CellAt(t.y, t.x)
  BY DEF Pictures, CursorCell, CellAt
<1>3. CellAt(t.y, t.x) \in Cells
  BY <1>1, CellsInside
<1>4. PICK rows : rows = [t.rows EXCEPT ![t.y + 1][t.x + 1] = <<ch, t.fg, t.bg>>]
  OBVIOUS
<1>5. t.y + 1 \in 1 .. Height /\ t.x + 1 \in 1 .. Width
  <2>1. \A n, m \in Nat : n \in 0 .. m - 1 => n + 1 \in 1 .. m
    OBVIOUS
  <2>2. t.y \in Nat /\ t.x \in Nat /\ Height \in Nat /\ Width \in Nat
    BY <1>1, Sizes
  <2>3. QED
    BY <1>1, <2>1, <2>2
<1>6. rows \in [1 .. Height -> [1 .. Width -> Nat \X Nat \X Nat]]
  <2>1. <<ch, t.fg, t.bg>> \in Nat \X Nat \X Nat
    BY <1>1
  <2>2. QED
    BY <1>1, <1>4, <1>5, <2>1
<1> DEFINE d == Drawn(c, ch)
           u == Marked(t, ch)
<1>7. /\ u.rows = rows /\ u.x = t.x + 1 /\ u.y = t.y /\ u.fg = t.fg /\ u.bg = t.bg
      /\ u \in Terminals
  <2>1. u = [t EXCEPT !.rows = rows, !.x = t.x + 1]
    BY <1>1, <1>4 DEF Marked, Terminals
  <2>2. t.x + 1 \in 0 .. Width
    <3>1. t.x + 1 \in 1 .. Width /\ Width \in Nat
      BY <1>5, Sizes
    <3>2. \A m \in Nat : \A n \in 1 .. m : n \in 0 .. m
      OBVIOUS
    <3>3. QED
      BY <3>1, <3>2
  <2>3. QED
    BY <1>1, <1>6, <2>1, <2>2 DEF Terminals
<1>8. PICK pen : pen = <<ch, c.colors.fg, c.colors.bg>>
  OBVIOUS
<1>9. /\ DOMAIN d = DOMAIN c /\ d.cursorPos = [x |-> t.x + 1, y |-> t.y]
      /\ d.writeState = c.writeState /\ d.colorIndices = c.colorIndices /\ d.colors = c.colors
      /\ d.video = [c.video EXCEPT ![CursorCell(c)] = pen]
  BY <1>1, <1>8 DEF Pictures, DrawChar, Drawn
<1> HIDE DEF d, u
<1>10. DOMAIN d.video = Cells
  BY <1>9 DEF Pictures
<1>11. pen = Look(rows[t.y + 1][t.x + 1])
  <2>1. rows[t.y + 1][t.x + 1] = <<ch, t.fg, t.bg>>
    BY <1>1, <1>4, <1>5
  <2>2. QED
    BY <1>8, <2>1 DEF Look, Pictures
<1>12. ASSUME NEW y \in 0 .. Height - 1, NEW x \in 0 .. Width - 1
       PROVE  d.video[CellAt(y, x)] = Look(rows[y + 1][x + 1])
  <2>1. CellAt(y, x) \in DOMAIN c.video
    BY CellsInside DEF Pictures
  <2>2. CASE y = t.y /\ x = t.x
    BY <1>2, <1>9, <1>11, <2>1, <2>2
  <2>3. CASE ~(y = t.y /\ x = t.x)
    <3>1. CellAt(y, x) # CellAt(t.y, t.x)
      BY <1>1, <2>3, CellsApart
    <3>2. d.video[CellAt(y, x)] = c.video[CellAt(y, x)]
      BY <1>2, <1>9, <2>1, <3>1
    <3>3. rows[y + 1][x + 1] = t.rows[y + 1][x + 1]
      <4>1. y + 1 \in 1 .. Height /\ x + 1 \in 1 .. Width
        BY Sizes
      <4>2. PICK q \in Nat, p \in Nat : q = t.y /\ p = t.x
        <5>1. \A m \in Nat : \A n \in 0 .. m - 1 : n \in Nat
          OBVIOUS
        <5>2. t.y \in Nat /\ t.x \in Nat
          BY <1>1, <5>1, Sizes
        <5>3. QED
          BY <5>2
      <4>3. ~(y + 1 = q + 1 /\ x + 1 = p + 1)
        BY <2>3, <4>2
      <4>4. QED
        BY <1>1, <1>4, <1>5, <4>1, <4>2, <4>3
    <3>4. QED
      BY <3>2, <3>3 DEF Pictures
  <2>4. QED
    BY <2>2, <2>3
<1>13. Pictures(d, u)
  BY <1>7, <1>9, <1>10, <1>12 DEF Pictures
<1>14. QED
  BY <1>2, <1>3, <1>7, <1>13 DEF d, u

\* The first n rows are the first n * Stride cells.
LEMMA BelowRows ==
  ASSUME NEW y \in 0 .. Height - 1, NEW x \in 0 .. Width - 1, NEW n \in Nat
  PROVE  CellAt(y, x) < Rows(n) <=> y < n
<1>1. Stride \in Nat /\ Width \in Nat /\ Width <= Stride /\ y \in Nat
  BY Sizes
<1>2. PICK a \in Nat, r \in Nat, s \in Nat :
        a = y * Stride /\ r = n * Stride /\ s = Stride /\ x < s /\ x \in Nat
  <2>1. y * Stride \in Nat /\ n * Stride \in Nat /\ x \in Nat /\ x < Stride
    BY <1>1
  <2>2. QED
    BY <1>1, <2>1
<1>3. y < n => a + s <= r
  BY <1>1, <1>2, Monotone
<1>4. n < y => r + s <= a
  BY <1>1, <1>2, Monotone
<1>5. n = y => r = a
  BY <1>2
<1>6. y < n \/ n < y \/ n = y
  BY <1>1
<1>7. CellAt(y, x) = a + x /\ Rows(n) = r
  BY <1>2 DEF CellAt, Rows
<1>8. a + x < r <=> y < n
  <2>1. y < n => a + x < r
    BY <1>2, <1>3
  <2>2. n < y => ~(a + x < r) /\ ~(y < n)
    BY <1>1, <1>2, <1>4
  <2>3. n = y => ~(a + x < r) /\ ~(y < n)
    BY <1>1, <1>2, <1>5
  <2>4. QED
    BY <1>6, <2>1, <2>2, <2>3
<1>9. QED
  BY <1>7, <1>8

LEMMA ScrollShows ==
  ASSUME NEW c, NEW t, Pictures(c, t), t.y + 1 = Height,
         NEW d, DOMAIN d = DOMAIN c, d.cursorPos = [x |-> 0, y |-> t.y + 1],
         d.writeState = c.writeState, d.colorIndices = c.colorIndices,
         d.colors = c.colors, d.video = c.video
  PROVE  Pictures(EndNewLine(d), T!LineFeed(t)) /\ T!LineFeed(t).x = 0
<1> DEFINE e == EndNewLine(d)
           u == T!LineFeed(t)
<1>1. /\ t \in Terminals /\ t.fg \in Nat /\ t.bg \in Nat
      /\ t.rows \in [1 .. Height -> [1 .. Width -> Nat \X Nat \X Nat]]
  BY DEF Pictures, Terminals
<1>2. PICK H \in Nat, W \in Nat, S \in Nat :
        H = Height /\ W = Width /\ S = ScrollAmount /\ S <= H /\ S > 0 /\ W > 0 /\ H > 0
  BY Sizes
<1>3. PICK rows : rows = SubSeq(t.rows, S + 1, H) \o [y \in 1 .. S |-> T!EmptyRow(t)]
  OBVIOUS
<1>4. T!EmptyRow(t) = [x \in 1 .. Width |-> <<32, t.bg, t.bg>>]
  BY DEF T!EmptyRow, T!Empty, T!Space
<1>5. T!EmptyRow(t) \in [1 .. Width -> Nat \X Nat \X Nat]
  BY <1>1, <1>4
<1>6. /\ rows \in [1 .. Height -> [1 .. Width -> Nat \X Nat \X Nat]]
      /\ \A y \in 1 .. H - S : rows[y] = t.rows[y + S]
      /\ \A y \in H - S + 1 .. H : rows[y] = T!EmptyRow(t)
  <2> DEFINE Row == [1 .. Width -> Nat \X Nat \X Nat]
             p == SubSeq(t.rows, S + 1, H)
             q == [y \in 1 .. S |-> T!EmptyRow(t)]
  <2> HIDE DEF Row
  <2>1. t.rows \in [1 .. H -> Row] /\ T!EmptyRow(t) \in Row
    BY <1>1, <1>2, <1>5 DEF Row
  <2>2. t.rows \in Seq(Row) /\ Len(t.rows) = H
    BY <2>1, <1>2
  <2>3. q \in Seq(Row) /\ Len(q) = S /\ \A y \in 1 .. S : q[y] = T!EmptyRow(t)
    BY <2>1, <1>2
  <2>4. p \in Seq(Row) /\ Len(p) = H - S /\ \A y \in 1 .. H - S : p[y] = t.rows[y + S]
    BY <2>2, <1>2
  <2> HIDE DEF p, q
  <2>5. p \o q \in Seq(Row) /\ Len(p \o q) = H
    BY <2>3, <2>4, <1>2
  <2>6. \A y \in 1 .. H - S : (p \o q)[y] = p[y]
    BY <2>3, <2>4, <1>2
  <2>7. \A y \in H - S + 1 .. H : (p \o q)[y] = T!EmptyRow(t)
    <3> SUFFICES ASSUME NEW y \in H - S + 1 .. H PROVE (p \o q)[y] = T!EmptyRow(t)
      OBVIOUS
    <3>1. (p \o q)[y] = q[y - (H - S)] /\ y - (H - S) \in 1 .. S
      BY <2>3, <2>4, <1>2
    <3>2. QED
      BY <2>3, <3>1
  <2>8. rows = p \o q
    BY <1>3 DEF p, q
  <2>9. p \o q \in [1 .. H -> Row]
    <3>1. PICK v \in Seq(Row) : v = p \o q
      BY <2>5
    <3>2. Len(v) = H
      BY <2>5, <3>1
    <3>3. v \in [1 .. H -> Row]
      BY <3>2
    <3>4. QED
      BY <3>1, <3>3
  <2>10. rows \in [1 .. Height -> [1 .. Width -> Nat \X Nat \X Nat]]
    BY <1>2, <2>8, <2>9 DEF Row
  <2>11. \A y \in 1 .. H - S : rows[y] = t.rows[y + S]
    BY <2>4, <2>6, <2>8
  <2>12. QED
    BY <2>7, <2>8, <2>10, <2>11
<1>7. u = [t EXCEPT !.rows = rows, !.x = 0, !.y = H - S]
  <2>1. ~(t.y + 1 < Height)
    BY <1>2
  <2>2. QED
    BY <1>1, <1>2, <1>3, <2>1 DEF T!LineFeed, Terminals
<1>8. /\ u \in Terminals /\ u.rows = rows /\ u.x = 0 /\ u.y = H - S
      /\ u.fg = t.fg /\ u.bg = t.bg
  <2>1. H - S \in 0 .. Height - 1 /\ 0 \in 0 .. Width
    BY <1>2
  <2>2. QED
    BY <1>1, <1>6, <1>7, <2>1 DEF Terminals
<1> HIDE DEF u
<1>9. /\ DOMAIN e = DOMAIN c /\ e.cursorPos = [x |-> 0, y |-> H - S]
      /\ e.writeState = c.writeState /\ e.colorIndices = c.colorIndices
      /\ e.colors = c.colors
      /\ e.video = [a \in Cells |->
           CASE a < Rows(Height - ScrollAmount) -> c.video[a + Rows(ScrollAmount)]
             [] OTHER -> IF a % Stride < Width THEN Cleared(c.colors.bg) ELSE c.video[a]]
  BY <1>2 DEF Pictures, EndNewLine, Scrolled
<1> HIDE DEF e
<1>10. DOMAIN e.video = Cells
  BY <1>9
<1>11. ASSUME NEW y \in 0 .. Height - 1, NEW x \in 0 .. Width - 1
       PROVE  e.video[CellAt(y, x)] = Look(rows[y + 1][x + 1])
  <2>1. CellAt(y, x) \in Cells
    BY CellsInside
  <2>2. CASE y < H - S
    <3>1. CellAt(y, x) < Rows(Height - ScrollAmount)
      BY <1>2, <2>2, BelowRows
    <3>2. y + S \in 0 .. Height - 1
      BY <1>2, <2>2
    <3>3. CellAt(y, x) + Rows(ScrollAmount) = CellAt(y + S, x)
      <4>1. Stride \in Nat /\ S * Stride \in Nat /\ y * Stride \in Nat
        BY Sizes
      <4>2. (y + S) * Stride = y * Stride + S * Stride
        BY <4>1
      <4>3. QED
        BY <1>2, <4>1, <4>2 DEF CellAt, Rows
    <3>4. e.video[CellAt(y, x)] = c.video[CellAt(y + S, x)]
      BY <1>9, <2>1, <3>1, <3>3
    <3>5. rows[y + 1] = t.rows[(y + S) + 1]
      <4>1. y + 1 \in 1 .. H - S /\ (y + 1) + S = (y + S) + 1
        BY <1>2, <2>2
      <4>2. QED
        BY <1>6, <4>1
    <3>6. QED
      BY <3>2, <3>4, <3>5 DEF Pictures
  <2>3. CASE ~(y < H - S)
    <3>1. ~(CellAt(y, x) < Rows(Height - ScrollAmount))
      BY <1>2, <2>3, BelowRows
    <3>2. CellAt(y, x) % Stride < Width
      BY Column, Sizes
    <3>3. e.video[CellAt(y, x)] = Cleared(c.colors.bg)
      BY <1>9, <2>1, <3>1, <3>2
    <3>4. rows[y + 1][x + 1] = <<32, t.bg, t.bg>>
      <4>1. y + 1 \in H - S + 1 .. H /\ x + 1 \in 1 .. Width
        BY <1>2, <2>3
      <4>2. QED
        BY <1>4, <1>6, <4>1
    <3>5. QED
      BY <3>3, <3>4 DEF Pictures, Cleared, Look, Code
  <2>4. QED
    BY <2>2, <2>3
<1>12. Pictures(e, u)
  BY <1>8, <1>9, <1>10, <1>11 DEF Pictures
<1>13. QED
  BY <1>8, <1>12 DEF e, u

\* The console after what a character makes it do on the way.
Effect(r) == IF r.call = "scroll" THEN EndNewLine(r.con) ELSE r.con

\* After an operation the console shows t, unless memcpy has refused to scroll.
Leaves(r, t) ==
  /\ r.call \in {"none", "scroll", "memcpy"}
  /\ r.call # "memcpy" => Pictures(Effect(r), t) /\ t.x < Width

LEMMA NewLineShows ==
  ASSUME NEW c, NEW t, Pictures(c, t)
  PROVE  Leaves(NewLine(c), T!LineFeed(t))
<1> DEFINE d == [c EXCEPT !.cursorPos = [x |-> 0, y |-> IF @.y > Height THEN @.y ELSE @.y + 1]]
           u == T!LineFeed(t)
<1>1. /\ t \in Terminals /\ t.x \in 0 .. Width /\ t.y \in 0 .. Height - 1
      /\ t.fg \in Nat /\ t.bg \in Nat
      /\ t.rows \in [1 .. Height -> [1 .. Width -> Nat \X Nat \X Nat]]
  BY DEF Pictures, Terminals
<1>0. PICK q \in Nat, H \in Nat : q = t.y /\ H = Height /\ q \in 0 .. H - 1
  <2>1. t.y \in Nat /\ Height \in Nat
    BY <1>1, Sizes
  <2>2. QED
    BY <1>1, <2>1
<1>2. /\ DOMAIN d = DOMAIN c /\ d.cursorPos = [x |-> 0, y |-> t.y + 1]
      /\ d.writeState = c.writeState /\ d.colorIndices = c.colorIndices
      /\ d.colors = c.colors /\ d.video = c.video
  <2>1. ~(t.y > Height)
    <3>1. ~(q > H)
      BY <1>0
    <3>2. QED
      BY <1>0, <3>1
  <2>2. QED
    BY <2>1 DEF Pictures
<1>3. CASE t.y + 1 # Height
  <2>1. NewLine(c) = Done(d)
    <3>1. d.cursorPos.y # Height
      BY <1>2, <1>3
    <3>2. QED
      BY <3>1 DEF NewLine
  <2>2. u = [t EXCEPT !.x = 0, !.y = t.y + 1]
    <3>1. q + 1 # H => q + 1 < H
      BY <1>0
    <3>2. t.y + 1 < Height
      BY <1>0, <1>3, <3>1
    <3>3. QED
      BY <1>1, <3>2 DEF T!LineFeed, Terminals
  <2>3. /\ u \in Terminals /\ u.rows = t.rows /\ u.x = 0 /\ u.y = t.y + 1
        /\ u.fg = t.fg /\ u.bg = t.bg
    <3>1. q + 1 # H => q + 1 \in 0 .. H - 1
      BY <1>0
    <3>2. t.y + 1 \in 0 .. Height - 1
      BY <1>0, <1>3, <3>1
    <3>3. 0 \in 0 .. Width
      BY Sizes
    <3>4. QED
      BY <1>1, <2>2, <3>2, <3>3 DEF Terminals
  <2>4. Pictures(d, u)
    BY <1>2, <2>3 DEF Pictures
  <2>5. Done(d).call = "none" /\ Done(d).con = d /\ 0 < Width
    BY Sizes DEF Done
  <2>6. QED
    BY <2>1, <2>3, <2>4, <2>5 DEF Leaves, Effect
<1>4. CASE t.y + 1 = Height
  <2>1. NewLine(c) = Calls(d, "memcpy") \/ NewLine(c) = Calls(d, "scroll")
    BY <1>2, <1>4 DEF NewLine
  <2>2. CASE NewLine(c) = Calls(d, "memcpy")
    BY <2>2 DEF Calls, Leaves
  <2>3. CASE NewLine(c) = Calls(d, "scroll")
    <3> DEFINE e == EndNewLine(d)
    <3>1. Pictures(e, u) /\ u.x = 0
      BY <1>1, <1>2, <1>4, ScrollShows
    <3>2. Calls(d, "scroll").call = "scroll" /\ Calls(d, "scroll").con = d /\ 0 < Width
      BY Sizes DEF Calls
    <3>3. QED
      BY <2>3, <3>1, <3>2 DEF Leaves, Effect
  <2>4. QED
    BY <2>1, <2>2, <2>3
<1>5. QED
  BY <1>3, <1>4

\* The line feed that leaves the last row scrolls the screen if it has at most
\* twice as many rows as are scrolled by; on every taller one the rows that are
\* copied overlap their destination, memcpy panics, and the panic writes to the
\* console that is in the middle of the character (FbCons/Sources/Console.cpp,
\* newLine).
THEOREM ScrollRefused ==
  ASSUME NEW c, NEW t, Pictures(c, t), t.y = Height - 1
  PROVE  NewLine(c).call = IF Height > 2 * ScrollAmount THEN "memcpy" ELSE "scroll"
<1> DEFINE d == [c EXCEPT !.cursorPos = [x |-> 0, y |-> IF @.y > Height THEN @.y ELSE @.y + 1]]
<1>1. PICK H \in Nat, A \in Nat, s \in Nat :
        H = Height /\ A = ScrollAmount /\ s = Stride /\ A <= H /\ s > 0
  BY Sizes
<1>2. d.cursorPos.y = Height
  <2>1. c.cursorPos.y = H - 1
    BY <1>1 DEF Pictures
  <2>2. ~(H - 1 > H) /\ H - 1 + 1 = H
    BY <1>1
  <2>3. d.cursorPos.y = H - 1 + 1
    BY <1>1, <2>1, <2>2 DEF Pictures
  <2>4. QED
    BY <1>1, <2>2, <2>3
<1>3. NewLine(c) = IF Overlap(Rows(ScrollAmount), Rows(Height - ScrollAmount))
                   THEN Calls(d, "memcpy") ELSE Calls(d, "scroll")
  BY <1>2 DEF NewLine
<1>4. Overlap(Rows(ScrollAmount), Rows(Height - ScrollAmount)) <=> Height > 2 * ScrollAmount
  <2>1. PICK B \in Nat : B = H - A
    BY <1>1
  <2>2. A < B => A * s + s <= B * s
    BY Monotone
  <2>3. B < A => B * s + s <= A * s
    BY Monotone
  <2>4. A * s \in Nat /\ B * s \in Nat
    OBVIOUS
  <2>5. B * s > A * s <=> B > A
    <3>1. PICK p \in Nat, q \in Nat : p = A * s /\ q = B * s
      BY <2>4
    <3>2. (A < B => p + s <= q) /\ (B < A => q + s <= p) /\ (A = B => p = q)
      BY <2>2, <2>3, <3>1
    <3>3. QED
      BY ONLY <1>1, <3>1, <3>2, A \in Nat, B \in Nat, s \in Nat, p \in Nat, q \in Nat
  <2>6. B > A <=> H > 2 * A
    BY <2>1
  <2>7. QED
    BY <1>1, <2>1, <2>5, <2>6 DEF Overlap, Rows
<1>5. Calls(d, "memcpy").call = "memcpy" /\ Calls(d, "scroll").call = "scroll"
  BY DEF Calls
<1>6. QED
  BY <1>3, <1>4, <1>5

\* What a character shows, apart from the one that begins a sequence.
Shows(ch) == IF ch = Code.newline THEN [op |-> "newline"]
             ELSE [op |-> "put", char |-> ch, shows |-> Glyph(ch)]

\* Whatever the sizes of the screen and of a row, whatever is on it and whatever
\* the colours: a character other than the escape leaves on the screen what the
\* terminal is meant to show, cursor included, and never draws past it.  Lines
\* wrap, and the screen scrolls when the last one is left, unless memcpy refuses
\* to copy the rows.  Another message that is logged in the middle of the
\* scrolling is left out (FbCons/Sources/Console.cpp, printChar and newLine).
THEOREM PrintingShows ==
  ASSUME NEW c, NEW t, Pictures(c, t), t.x < Width, NEW ch \in 0 .. 255, ch # Code.escape
  PROVE  Leaves(WriteChar(c, ch), T!Do(t, Shows(ch)))
<1>1. c.writeState = "Idle"
  BY DEF Pictures
<1>2. WriteChar(c, ch) = PrintChar(c, ch)
  BY <1>1 DEF WriteChar
<1>3. CASE ch = Code.newline
  <2>1. PrintChar(c, ch) = NewLine(c)
    BY <1>3 DEF PrintChar
  <2>2. T!Do(t, Shows(ch)) = T!LineFeed(t)
    BY <1>3 DEF T!Do, Shows
  <2>3. QED
    BY <1>2, <2>1, <2>2, NewLineShows
<1>4. CASE ch # Code.newline
  <2>1. PICK g \in Nat : g = Glyph(ch)
    BY DEF Glyph, Code
  <2>2. PICK d : d = Drawn(c, g)
    OBVIOUS
  <2>3. PICK u : u = Marked(t, g)
    OBVIOUS
  <2>4. /\ T!Do(t, Shows(ch)) = IF u.x = Width THEN T!LineFeed(u) ELSE u
        /\ PrintChar(c, ch) = IF CursorCell(c) \notin Cells THEN Calls(c, "fault")
                              ELSE IF d.cursorPos.x = Width THEN NewLine(d) ELSE Done(d)
    <3>1. T!Do(t, Shows(ch)) = T!Put(t, g)
      BY <1>4, <2>1 DEF T!Do, Shows
    <3>2. T!Put(t, g) = IF u.x = Width THEN T!LineFeed(u) ELSE u
      BY <2>3 DEF T!Put, Marked
    <3>3. QED
      BY <1>4, <2>1, <2>2, <3>1, <3>2 DEF PrintChar, Drawn
  <2>5. CursorCell(c) \in Cells /\ Pictures(d, u) /\ u.x = t.x + 1
    BY <2>1, <2>2, <2>3, DrawShows
  <2>6. d.cursorPos.x = u.x
    BY <2>5 DEF Pictures
  <2>7. CASE u.x = Width
    BY <1>2, <2>4, <2>5, <2>6, <2>7, NewLineShows
  <2>8. CASE u.x # Width
    <3>1. WriteChar(c, ch) = Done(d) /\ T!Do(t, Shows(ch)) = u
      BY <1>2, <2>4, <2>5, <2>6, <2>8
    <3>2. u.x < Width
      <4>1. t.x \in Nat /\ Width \in Nat
        BY Sizes DEF Pictures, Terminals
      <4>2. QED
        BY <2>5, <2>8, <4>1
    <3>3. Done(d).call = "none" /\ Done(d).con = d
      BY DEF Done
    <3>4. QED
      BY <2>5, <3>1, <3>2, <3>3 DEF Leaves, Effect
  <2>9. QED
    BY <2>7, <2>8
<1>5. QED
  BY <1>3, <1>4

\* A new console shows the terminal that has just been switched on, whatever was on
\* the screen (FbCons/Sources/Console.cpp, the constructor and clear).
THEOREM NewConsoleShows ==
  ASSUME NEW video, DOMAIN video = Cells
  PROVE  Pictures(NewConsole(video), T!SwitchedOn) /\ T!SwitchedOn.x < Width
<1> DEFINE t == T!SwitchedOn
           c == NewConsole(video)
<1>1. /\ t.x = 0 /\ t.y = 0 /\ t.fg = 15 /\ t.bg = 0
      /\ t.rows = [y \in 1 .. Height |-> [x \in 1 .. Width |-> <<32, 0, 0>>]]
      /\ t = [rows |-> t.rows, x |-> 0, y |-> 0, fg |-> 15, bg |-> 0]
  <2>1. PICK off : off = [rows |-> << >>, x |-> 0, y |-> 0, fg |-> 15, bg |-> 0]
    OBVIOUS
  <2>2. T!EmptyRow(off) = [x \in 1 .. Width |-> <<32, 0, 0>>]
    BY <2>1 DEF T!EmptyRow, T!Empty, T!Space
  <2>3. t = [off EXCEPT !.rows = [y \in 1 .. Height |-> T!EmptyRow(off)]]
    BY <2>1 DEF T!SwitchedOn
  <2> HIDE DEF t
  <2>4. QED
    BY <2>1, <2>2, <2>3
<1> HIDE DEF t
<1>2. t \in Terminals
  <2>1. 0 \in 0 .. Width /\ 0 \in 0 .. Height - 1
    BY Sizes
  <2>2. <<32, 0, 0>> \in Nat \X Nat \X Nat
    OBVIOUS
  <2>3. t.rows \in [1 .. Height -> [1 .. Width -> Nat \X Nat \X Nat]]
    BY <1>1, <2>2
  <2>4. QED
    BY <1>1, <2>1, <2>3 DEF Terminals
<1>3. /\ DOMAIN c = {"cursorPos", "writeState", "ansiBuf", "colorIndices", "colors", "video"}
      /\ c.cursorPos = [x |-> 0, y |-> 0] /\ c.writeState = "Idle"
      /\ c.colorIndices = [fg |-> 15, bg |-> 0]
      /\ c.colors = [fg |-> Pixel(15), bg |-> Pixel(0)]
      /\ c.video = [a \in Cells |->
           IF a % Stride < Width THEN Cleared(Pixel(0)) ELSE video[a]]
  BY DEF NewConsole, Clear, UpdateColors, ResetIndices
<1> HIDE DEF c
<1>4. DOMAIN c.video = Cells
  BY <1>3
<1>5. ASSUME NEW y \in 0 .. Height - 1, NEW x \in 0 .. Width - 1
      PROVE  c.video[CellAt(y, x)] = Look(t.rows[y + 1][x + 1])
  <2>1. CellAt(y, x) \in Cells /\ CellAt(y, x) % Stride < Width
    BY CellsInside, Column, Sizes
  <2>2. c.video[CellAt(y, x)] = Cleared(Pixel(0))
    BY <1>3, <2>1
  <2>3. t.rows[y + 1][x + 1] = <<32, 0, 0>>
    <3>1. y + 1 \in 1 .. Height /\ x + 1 \in 1 .. Width
      BY Sizes
    <3>2. QED
      BY <1>1, <3>1
  <2>4. QED
    BY <2>2, <2>3 DEF Cleared, Look, Code
<1>6. QED
  BY <1>1, <1>2, <1>3, <1>4, <1>5, Sizes DEF Pictures, c, t

-----------------------------------------------------------------------------
(* Types.                                                                    *)

Flags == <<gTerminalWrite, gFbCons, gFb, kernelMap, halted>>

FlagTypes ==
  /\ gTerminalWrite \in BOOLEAN /\ gFbCons \in BOOLEAN /\ gFb \in BOOLEAN
  /\ kernelMap \in BOOLEAN /\ halted \in BOOLEAN

TypeInv == FlagTypes /\ step \in Nat /\ Len(regions) <= MaxRegions

LEMMA InitTypes == Init => TypeInv
<1> SUFFICES ASSUME Init PROVE TypeInv
  OBVIOUS
<1>1. /\ gTerminalWrite = FALSE /\ gFbCons = FALSE /\ gFb = FALSE /\ kernelMap = FALSE
      /\ halted = FALSE
  BY DEF Init, ConsolesOff
<1>2. step = 0 /\ Len(regions) = 0
  BY DEF Init
<1>3. MaxRegions \in Nat
  BY BootAssumption
<1>4. FlagTypes
  BY <1>1 DEF FlagTypes
<1>5. 0 <= MaxRegions /\ 0 \in Nat
  BY <1>3
<1>6. QED
  BY <1>2, <1>4, <1>5 DEF TypeInv

LEMMA QuietFlags == FlagTypes /\ UNCHANGED Flags => FlagTypes'
BY DEF FlagTypes, Flags

\* Messages and panics leave the flags alone.
LoggerFlags == <<gTerminalWrite, gFbCons, halted>>

LEMMA SayFlags ==
  /\ \A level, cmds : Say(level, cmds) => UNCHANGED LoggerFlags
  /\ \A why : Panic(why) => UNCHANGED LoggerFlags
  /\ \A ist, why : PanicOn(ist, why) => UNCHANGED LoggerFlags
BY DEF Say, Panic, PanicOn, LoggerFlags

LEMMA PanicTypes ==
  ASSUME FlagTypes, NEW why, Panic(why), UNCHANGED bootVars
  PROVE  FlagTypes' /\ UNCHANGED <<step, regions>>
<1>1. UNCHANGED LoggerFlags
  BY SayFlags
<1>2. UNCHANGED <<gFb, kernelMap, step, regions>>
  BY DEF bootVars, memoryVars
<1>3. QED
  BY <1>1, <1>2, QuietFlags DEF Flags, LoggerFlags

LEMMA WritesFlags ==
  ASSUME FlagTypes, Writes
  PROVE  FlagTypes' /\ UNCHANGED <<step, regions>>
<1>1. UNCHANGED <<gFb, kernelMap, step, regions>>
  BY DEF Writes, bootVars, memoryVars
<1>2. CASE WriteStep
  BY <1>1, <1>2 DEF WriteStep, FlagTypes
<1>3. CASE Return(SymbolsReadable)
  <2>1. halted' = (Loop.op = "backtrace") /\ UNCHANGED <<gTerminalWrite, gFbCons>>
    BY <1>3 DEF Return
  <2>2. halted' \in BOOLEAN
    BY <2>1
  <2>3. QED
    BY <1>1, <2>1, <2>2 DEF FlagTypes
<1>4. QED
  BY <1>2, <1>3, <1>1 DEF Writes

LEMMA UsesFlags ==
  ASSUME FlagTypes, Uses
  PROVE  FlagTypes' /\ UNCHANGED <<step, regions>>
<1>1. UNCHANGED <<step, regions, kernelMap>>
  BY UsesStage
<1>2. ASSUME NEW m \in Messages, KernelLogs(m) PROVE UNCHANGED <<LoggerFlags, gFb>>
  BY <1>2, SayFlags DEF KernelLogs
<1>3. KernelAllocates => UNCHANGED <<LoggerFlags, gFb>>
  BY SayFlags DEF KernelAllocates, Unless, consoleVars, bootVars, LoggerFlags
<1>4. ASSUME NEW vector, NEW area, Take(vector, area) PROVE UNCHANGED <<LoggerFlags, gFb>>
  BY <1>4, SayFlags DEF Take, consoleVars, LoggerFlags
<1>5. UNCHANGED <<LoggerFlags, gFb>>
  BY <1>2, <1>3, <1>4 DEF Uses, PageFault, Exception, Interrupt
<1>6. UNCHANGED Flags
  BY <1>1, <1>5 DEF Flags, LoggerFlags
<1>7. QED
  BY <1>1, <1>6, QuietFlags

SectionProgress == UNCHANGED <<consoleVars, regions, gFb, kernelMap>> /\ step' = step + 1

LEMMA PanicOrProgress ==
  /\ MapKernelSection => SectionProgress \/ \E why : Panic(why) /\ UNCHANGED bootVars
  /\ EntriesDone /\ step = 0 => \E why : Panic(why) /\ UNCHANGED bootVars
<1>1. ASSUME MapKernelSection
      PROVE  SectionProgress \/ \E why : Panic(why) /\ UNCHANGED bootVars
  <2> DEFINE why == IF machine.located THEN AddFails("image") ELSE "kernel address"
  <2>1. \/ UNCHANGED <<consoleVars, regions, gFb, kernelMap>> /\ step' = step + 1
        \/ Panic(why) /\ UNCHANGED bootVars
    BY <1>1 DEF MapKernelSection, Unless
  <2>2. QED
    BY <2>1 DEF SectionProgress
<1>2. ASSUME EntriesDone, step = 0 PROVE \E why : Panic(why) /\ UNCHANGED bootVars
  <2>1. Panic("no memory map") /\ UNCHANGED bootVars
    BY <1>2 DEF EntriesDone, Unless, NoReason
  <2>2. QED
    BY <2>1
<1>3. QED
  BY <1>1, <1>2

\* Steps that neither log nor set a flag, or that only log.
LEMMA QuietBoots ==
  ASSUME FlagTypes,
         \/ NoteBuild \/ NotePlatform \/ NoteFramebuffer \/ NoteCpus \/ PrintBanner
         \/ PrintRevision \/ BacktraceInit \/ WarnNoImage \/ FindFramebuffer
         \/ SetUpGdt \/ SetUpIdt \/ SetUpLocals \/ Activate \/ FinishedEarlyBoot
         \/ VerifyFeatures \/ EntriesDone \/ StartReturns
  PROVE  FlagTypes' /\ UNCHANGED <<step, regions>>
<1>1. CASE NoteBuild \/ NotePlatform \/ NoteFramebuffer \/ NoteCpus \/ PrintBanner \/ PrintRevision
  <2>1. UNCHANGED LoggerFlags
    BY <1>1, SayFlags DEF NoteBuild, NotePlatform, NoteFramebuffer, NoteCpus, PrintBanner,
                          PrintRevision, Announce
  <2>2. UNCHANGED <<gFb, kernelMap, step, regions>>
    BY <1>1 DEF NoteBuild, NotePlatform, NoteFramebuffer, NoteCpus, PrintBanner,
                PrintRevision, Announce, keepPc, memoryVars
  <2>3. QED
    BY <2>1, <2>2, QuietFlags DEF Flags, LoggerFlags
<1>2. CASE BacktraceInit \/ WarnNoImage \/ FindFramebuffer
  <2>1. UNCHANGED LoggerFlags
    BY <1>2, SayFlags DEF BacktraceInit, WarnNoImage, FindFramebuffer, consoleVars, LoggerFlags
  <2>2. UNCHANGED <<gFb, kernelMap, step, regions>>
    BY <1>2 DEF BacktraceInit, WarnNoImage, FindFramebuffer, keepPc, memoryVars
  <2>3. QED
    BY <2>1, <2>2, QuietFlags DEF Flags, LoggerFlags
<1>3. CASE SetUpGdt \/ SetUpIdt \/ SetUpLocals \/ Activate \/ FinishedEarlyBoot
  <2>1. UNCHANGED <<Flags, step, regions>>
    BY <1>3 DEF SetUpGdt, SetUpIdt, SetUpLocals, Activate, FinishedEarlyBoot, SetsUp,
                consoleVars, memoryVars, Flags
  <2>2. QED
    BY <2>1, QuietFlags
<1>4. CASE VerifyFeatures \/ EntriesDone \/ StartReturns
  <2>1. CASE \E why : Panic(why) /\ UNCHANGED bootVars
    BY <2>1, PanicTypes
  <2>2. CASE pc' = "gdt" /\ UNCHANGED <<keepPc, consoleVars>>
    BY <2>2, QuietFlags DEF keepPc, consoleVars, memoryVars, Flags
  <2>3. CASE Announce("memory", "Notice", Glyphs(<<77>>), "kernelVm")
    <3>1. UNCHANGED LoggerFlags
      BY <2>3, SayFlags DEF Announce
    <3>2. UNCHANGED <<gFb, kernelMap, step, regions>>
      BY <2>3 DEF Announce, keepPc, memoryVars
    <3>3. QED
      BY <3>1, <3>2, QuietFlags DEF Flags, LoggerFlags
  <2>4. CASE VerifyFeatures
    BY <2>1, <2>2, <2>4 DEF VerifyFeatures, Unless
  <2>5. CASE EntriesDone
    <3>1. CASE step = 0
      <4>1. \E why : Panic(why) /\ UNCHANGED bootVars
        BY <2>5, <3>1, PanicOrProgress
      <4>2. QED
        BY <2>1, <4>1
    <3>2. CASE step # 0
      BY <2>3, <2>5, <3>2 DEF EntriesDone, Unless
    <3>3. QED
      BY <3>1, <3>2
  <2>6. CASE StartReturns
    BY <2>1, <2>6 DEF StartReturns
  <2>7. QED
    BY <1>4, <2>4, <2>5, <2>6
<1>5. QED
  BY <1>1, <1>2, <1>3, <1>4

\* Steps that set a flag or count.
LEMMA CountingBoots ==
  ASSUME FlagTypes, step \in Nat,
         InitKernelVm \/ MapKernelSection \/ MapFramebuffer \/ RemapRegion
  PROVE  FlagTypes' /\ step' \in Nat /\ regions' = regions
<1>1. CASE \E why : Panic(why) /\ UNCHANGED bootVars
  BY <1>1, PanicTypes
<1>2. CASE /\ UNCHANGED <<consoleVars, regions>>
           /\ gFb' = gFb \/ gFb' = TRUE
           /\ kernelMap' = kernelMap \/ kernelMap' = TRUE
           /\ step' = 0 \/ step' = step + 1
  <2>1. FlagTypes'
    BY <1>2 DEF FlagTypes, consoleVars
  <2>2. QED
    BY <1>2, <2>1
<1>3. CASE InitKernelVm
  BY <1>1, <1>2, <1>3 DEF InitKernelVm, Unless
<1>4. CASE MapKernelSection
  <2>1. SectionProgress \/ (\E why : Panic(why) /\ UNCHANGED bootVars)
    BY <1>4, PanicOrProgress
  <2>2. QED
    BY <2>1, <1>1, <1>2 DEF SectionProgress
<1>5. CASE MapFramebuffer
  BY <1>1, <1>2, <1>5 DEF MapFramebuffer, Unless
<1>6. CASE RemapRegion
  BY <1>1, <1>2, <1>6 DEF RemapRegion, Unless
<1>7. QED
  BY <1>3, <1>4, <1>5, <1>6

LEMMA AddEntryTypes ==
  ASSUME TypeInv, regions \in Seq([base : Nat, length : Nat]), AddEntry
  PROVE  TypeInv'
<1> DEFINE e == machine.entries[step + 1]
<1>1. MaxRegions \in Nat /\ Len(regions) \in Nat
  BY BootAssumption
<1>2. CASE Skipped(e)
  <2>1. UNCHANGED <<Flags, regions>> /\ step' = step + 1
    BY <1>2 DEF AddEntry, consoleVars, Flags
  <2>2. QED
    BY <2>1, QuietFlags DEF TypeInv
<1>3. CASE ~Skipped(e) /\ AddRegionFails(Clipped(e)) = NoReason
  <2>1. UNCHANGED Flags /\ step' = step + 1 /\ regions' = Append(regions, Clipped(e))
    BY <1>3 DEF AddEntry, Unless, consoleVars, Flags
  <2>2. Len(regions) # MaxRegions
    BY <1>3 DEF AddRegionFails, NoReason
  <2>3. Len(regions') = Len(regions) + 1
    BY <2>1
  <2>4. Len(regions') <= MaxRegions
    BY <1>1, <2>2, <2>3 DEF TypeInv
  <2>5. QED
    BY <2>1, <2>4, QuietFlags DEF TypeInv
<1>4. CASE ~Skipped(e) /\ AddRegionFails(Clipped(e)) # NoReason
  <2>1. UNCHANGED <<LoggerFlags, gFb, kernelMap, step, regions>>
    BY <1>4, SayFlags DEF AddEntry, Unless, bootVars, memoryVars
  <2>2. QED
    BY <2>1, QuietFlags DEF TypeInv, Flags, LoggerFlags
<1>5. QED
  BY <1>2, <1>3, <1>4

LEMMA NextTypes == BootInv /\ TypeInv /\ [Next]_vars => TypeInv'
<1> SUFFICES ASSUME BootInv, TypeInv, [Next]_vars PROVE TypeInv'
  OBVIOUS
<1>1. FlagTypes /\ step \in Nat /\ machine \in Machines /\ regions \in Seq([base : Nat, length : Nat])
  BY DEF TypeInv, BootInv, RegionsInv
<1>2. CASE UNCHANGED vars
  BY <1>2, QuietFlags DEF vars, consoleVars, bootVars, memoryVars, TypeInv, Flags
<1>3. CASE Writes
  BY <1>1, <1>3, WritesFlags DEF TypeInv
<1>4. CASE Uses
  BY <1>1, <1>4, UsesFlags DEF TypeInv
<1>5. CASE ConsoleInit
  <2>1. UNCHANGED <<gFbCons, gFb, kernelMap, halted, step, regions>> /\ gTerminalWrite' = machine.terminal
    BY <1>5 DEF ConsoleInit, keepPc, memoryVars
  <2>2. machine.terminal \in BOOLEAN
    BY <1>1, BootAssumption
  <2>3. QED
    BY <2>1, <2>2 DEF TypeInv, FlagTypes
<1>6. CASE PrepareConsole \/ EnableConsole
  <2>1. /\ UNCHANGED <<gFb, kernelMap, halted, step, regions>>
        /\ gTerminalWrite' = gTerminalWrite \/ gTerminalWrite' = FALSE
        /\ gFbCons' = gFbCons \/ gFbCons' = TRUE
    BY <1>6 DEF PrepareConsole, EnableConsole, PrepareForVm, VmEnabled, keepPc, memoryVars
  <2>2. FlagTypes'
    BY <1>1, <2>1 DEF FlagTypes
  <2>3. QED
    BY <2>1, <2>2 DEF TypeInv
<1>7. CASE AddEntry
  BY <1>1, <1>7, AddEntryTypes
<1>8. CASE InitKernelVm \/ MapKernelSection \/ MapFramebuffer \/ RemapRegion
  BY <1>1, <1>8, CountingBoots DEF TypeInv
<1>9. CASE \/ NoteBuild \/ NotePlatform \/ NoteFramebuffer \/ NoteCpus \/ PrintBanner
           \/ PrintRevision \/ BacktraceInit \/ WarnNoImage \/ FindFramebuffer
           \/ SetUpGdt \/ SetUpIdt \/ SetUpLocals \/ Activate \/ FinishedEarlyBoot
           \/ VerifyFeatures \/ EntriesDone \/ StartReturns
  BY <1>1, <1>9, QuietBoots DEF TypeInv
<1>10. QED
  BY <1>2, <1>3, <1>4, <1>5, <1>6, <1>7, <1>8, <1>9 DEF Next, Boots

\* A bitmap that has moved is below the next free metadata page.
LEMMA BitmapsTyped ==
  ASSUME MapInv, regions \in Seq([base : Nat, length : Nat])
  PROVE  \A i \in DOMAIN bitmapAt : bitmapAt[i] \in {Identity} \cup 0 .. nextBitmap
<1> SUFFICES ASSUME NEW i \in DOMAIN bitmapAt, bitmapAt[i] # Identity
             PROVE  bitmapAt[i] \in 0 .. nextBitmap
  OBVIOUS
<1>1. bitmapAt \in Seq(Int) /\ Len(bitmapAt) = Len(regions)
  BY DEF MapInv, BitmapInv
<1>2. i \in DOMAIN regions /\ regions # << >>
  BY <1>1
<1>3. BitmapsApart /\ i \in Moved
  BY <1>2 DEF MapInv, BitmapInv, Moved
<1>4. bitmapAt[i] \in Nat /\ End(i) < nextBitmap /\ nextBitmap \in Nat
  BY <1>3 DEF BitmapsApart
<1>5. BitmapPages(regions[i]) \in Nat
  BY <1>1, <1>2, BitmapSizes
<1>6. PICK b \in Nat, n \in Nat, next \in Nat :
        b = bitmapAt[i] /\ n = BitmapPages(regions[i]) /\ next = nextBitmap /\ b + n < next
  BY <1>4, <1>5 DEF End
<1>7. QED
  BY <1>6

\* Everything about the boot has its type at all times, for every machine, but
\* for what a message can do to the framebuffer console's cursor and to the
\* buffer of its control sequences.
THEOREM BootIsTyped == Spec => [](ConsoleTyped => TypeOK)
<1>1. BootInv /\ TypeInv => (ConsoleTyped => TypeOK)
  <2> SUFFICES ASSUME BootInv, TypeInv, ConsoleTyped PROVE TypeOK
    OBVIOUS
  <2>1. machine \in Machines /\ regions \in Seq([base : Nat, length : Nat])
    BY DEF BootInv, RegionsInv
  <2>2. pc \in Steps /\ active \in {"loader", "kernel"}
    BY DEF BootInv, OutputInv, Steps, WithTerminal, WithNone, Switched, WithFbCons
  <2>3. work \in Nat /\ work <= machine.work /\ taken \in Nat
    BY DEF BootInv, SupplyInv, TakenInv
  <2>4. work \in 0 .. machine.work
    BY <2>1, <2>3, BootAssumption
  <2>5. Len(bitmapAt) = Len(regions)
    BY DEF BootInv, MapInv, BitmapInv
  <2>6. \A i \in DOMAIN bitmapAt : bitmapAt[i] \in {Identity} \cup 0 .. nextBitmap
    BY <2>1, BitmapsTyped DEF BootInv
  <2>7. gIsEarlyBoot \in BOOLEAN
    BY DEF BootInv, SupplyInv, ReachInv
  <2>8. {gTerminalWrite, gFbCons, gFb, kernelMap, gIsEarlyBoot, halted} \subseteq BOOLEAN
    BY <2>7 DEF TypeInv, FlagTypes
  <2>9. step \in Nat /\ Len(regions) <= MaxRegions
    BY DEF TypeInv
  <2>10. QED
    BY <2>1, <2>2, <2>3, <2>4, <2>5, <2>6, <2>8, <2>9 DEF TypeOK
<1>2. QED
  BY <1>1, InitBoot, NextBoot, InitTypes, NextTypes, PTL DEF Spec
=============================================================================
