# Verification of kush-os

TLA+ models of the kernel in `src/Core/Kernel`, of the interface compiler `idlc`
and of the RPC stubs it generates, the TLC configurations that check them, and
TLAPS proofs. Paths below are relative to `src/Core/Kernel` unless they start
with `src/`; `P/` stands for `Platforms/x86_64/pc-uefi.platform/Sources/`,
`F/` for `Platforms/Shared/FbCons/`, `idlc/` for `src/tools/idlc/src/`.

## The system

The kernel boots on x86_64 under UEFI, builds its physical allocator from the
loader's memory map, builds and activates its own page tables, and starts its
virtual allocators. It has no threads, no second processor and no user tasks
yet. A separate tool, `idlc`, compiles interface descriptions into RPC stubs.

| Component | State it keeps | Operations | Interacts with |
|---|---|---|---|
| Physical allocator (`Sources/Memory`) | pool 0, up to 16 regions, per region a bitmap and a counter | `AddRegion`, `AllocatePages`, `FreePages`, totals, `RemapTo` | fed by boot code; called by VAlloc and the page tables |
| Page tables (`P/Vm/PageTable.cpp`) | four levels of tables in physical pages | `mapPage`, `unmap`, `getPhysAddr`, copy of the upper half, aperture | takes pages from the physical allocator; owned by a map |
| VM maps (`Sources/Vm/Map.cpp`, `MapEntry`, `ContiguousPhysRegion`) | parent, reference count, page table | `activate`, `add`, `remove`, `handleFault`, `invalidateTlb` | calls its entries back (`addedTo`, `willRemoveFrom`), which call the page table |
| VAlloc (`Sources/Vm/PageAllocator.cpp`) | cursor, page counter | `Alloc`, `Free`, `HandleFault` | physical allocator, kernel map |
| Zone allocator (`Includes/Vm/ZoneAllocator.h`) | list of regions, bitmap per region | `alloc`, `free` | takes regions from VAlloc; backs `Map` and `ContiguousPhysRegion` |
| Processor set-up (`P/Arch`) | GDT, IDT, task register, `%gs` | `Gdt::Init`, `Idt::InitBsp`, `ProcessorLocals::InitBsp`, exception stubs | boot; the processor on an exception |
| Fault handling (`P/Arch/ExceptionHandlers.*`, `Sources/Exceptions`, `Sources/Vm/Manager.cpp`) | none | `Handle`, `Dispatch`, `AbortException`, `HandleFault` | VAlloc's and the map's handlers; ends in a panic |
| Backtraces (`P/Util/Backtrace.cpp`) | symbol and string table | `ParseKernelElf`, `Print` | read by panics |
| Boot (`P/Boot/Entry.cpp`, `Sources/Init.cpp`) | phase, static VM objects | `InitPhysAllocator`, `InitKernelVm`, `PopulateKernelVm`, `Start` | everything above, in a fixed order |
| Framebuffer console (`F/`) | cursor, parser state, attributes, pixels | `write` of a character: glyph, new line, escape sequences | platform console; panics through `memcpy` |
| Platform console, logging (`P/Io/Console.cpp`, `Sources/Logging`) | enabled outputs, one static buffer | `Init` with the command line, `Write`, `SetFramebuffer`, `PrepareForVm`, `VmEnabled`, `Log`, `Panic` | framebuffer console, boot |
| `idlc` (`idlc/main.cpp`, `IDLGrammar.h`, `IDLParser.cpp`, `InterfaceDescriptionBuilder`, `CodeGenerator*`) | interface, method, argument, decorator being built; output files | parse actions, generation of five files per interface | grammar library, file system |
| Generated RPC stubs (`idlc/CodeGenerator*.cpp`) | transmit buffer, next tag | client call, server `runOne`, serializers | streams over kernel ports, which the repository does not implement |

What is hard here, and what makes each component correct:

* **Physical allocator.** Bit arithmetic at the edges of a region; a request
  that spans regions; a caller's list of pages, the bitmaps and the counters
  must tell the same story after any sequence of calls. Correct: no page has
  two owners, counters match bitmaps, an allocation is short only when memory
  is exhausted, pages come back when freed, no page is outside its region. The
  last two do not hold, and then nor need the first: see Findings.
* **VAlloc.** Three pieces of state move together: page table, frames, counter;
  the call may fail after any of them. Correct: each frame has one use, what is
  mapped is allocated, guard pages stay unmapped, a free with a wrong length
  does not reach another allocation.
* **Zone allocator.** Linked list and bitmaps over many allocations and frees.
  Correct: no object twice, no slot lost, every call ends, a region is added
  only when all are full.
* **Page tables and maps.** Tables shared between maps but copied once; stale
  translations; reference counts. Correct: a lookup returns what was last
  mapped, maps agree below the entries that one copied from the other, no table
  is used after it is freed. That all maps agree on all kernel addresses, as the
  comments say, does not hold (`MapsDiverge`).
* **Boot.** An order of phases in which addresses change meaning (identity
  map, then aperture). Correct: nothing uses an early address after the switch
  or a late one before it; the allocator gets exactly the usable memory.
* **Exceptions.** Hand-written stubs, descriptors and a register frame that must
  agree, none of them exercised unless something goes wrong. Correct: each
  exception is reported as what it is, with the state it interrupted.
* **Consoles.** A parser fed one character at a time, a cursor at the edges, and
  messages logged while another message is being written (a panic in `memcpy`,
  in an interrupt handler, a warning of the parser itself). Correct: the screen
  shows what the messages mean; a panic is shown and halts.
* **idlc.** A builder whose fields live through methods, interfaces and files,
  called by a parser that may stop anywhere. Correct: the five files of an
  interface implement its description and fit each other, or none is written.
* **RPC stubs.** Two programs, buffers used again, replies told apart by a tag
  alone, streams that fail. Correct: arguments and results arrive unchanged,
  each call is executed at most once and gets its own answer.

The kernel's TODOs speak of locks. No code runs concurrently in this version,
so the models let one call run at a time, and say nothing about two processors.
What does interrupt it are exceptions, non-maskable interrupts and machine
checks, which `Boot` has.

## Modules

| Module | Models | Uses |
|---|---|---|
| `PhysPool` | pool 0 and its regions: geometry, bitmap, `alloc`, `free`, `addRegion` | |
| `PhysAlloc` | the allocator with its callers, refinement of `PageOwners` | `PhysPool`, `PageOwners` |
| `PageOwners` | abstract: each page frame has one place | |
| `MCPhysAlloc` | memory maps for TLC | `PhysAlloc` |
| `PhysAlloc_proofs` | proofs about `PhysAlloc` | `PhysAlloc` |
| `VAlloc` | `VAlloc` and `VFree` with pool and page tables | `PhysPool` |
| `MCVAlloc` | a memory map for TLC | `VAlloc` |
| `VAlloc_proofs` | proofs about `VAlloc` | `VAlloc` |
| `ZoneAlloc` | a zone allocator over VAlloc | |
| `ZoneAlloc_proofs` | proofs about `ZoneAlloc` | `ZoneAlloc` |
| `PageTables` | paging structures in physical memory, and the operations on them | |
| `VmMaps` | maps with references, regions, the active map, the translation cache; refinement of `AddressSpaces` | `PageTables`, `AddressSpaces` |
| `AddressSpaces` | abstract: maps show windows, what is mapped in one shows in all maps that have it | |
| `VmMaps_proofs` | proofs about the walks and the operations on structures, references, the cache and the refinement | `VmMaps` |
| `Wire` | layout of packets, serialize and deserialize | |
| `Rpc` | clients and a server with generated stubs, over streams; refinement of `RemoteCalls` | `Wire`, `RemoteCalls` |
| `RemoteCalls` | abstract: calls in order, at most once, each with its own answer | |
| `Rpc_proofs` | proofs about packets, stubs in step and the refinement | `Rpc` |
| `MCRpc` | a small interface for TLC | `Rpc` |
| `MCVmMaps` | small address spaces for TLC | `VmMaps` |
| `Terminal` | reference: what a text screen shows, by commands | |
| `FbCons` | the framebuffer console, one character at a time | |
| `Consoles` | logger, platform console and nested write loops | `FbCons`, `Terminal` |
| `CmdLine` | the kernel command line | |
| `Traps` | descriptor tables, exception stubs and handlers | |
| `Backtraces` | which symbol tables are found and read | |
| `Boot` | from the loader to `Kernel::Start` and what runs in it | `Consoles`, `CmdLine`, `Traps`, `Backtraces` |
| `MCBoot` | machines and messages for TLC | `Boot` |
| `CmdLine_proofs` | what the scanner reads of a line of arguments | `CmdLine` |
| `Boot_proofs` | proofs about outputs, regions, the kernel's map, exceptions, the supply of memory and the debug port | `Boot`, `CmdLine_proofs` |
| `IdlBuilder` | `idl::Builder`, call by call | |
| `CodeGenerator` | the declarations and calls in the files idlc writes | `IdlBuilder` |
| `Idlc` | a run of the compiler, token by token, file by file | `CodeGenerator` |
| `MCIdlc` | source files for TLC, whole and damaged | `Idlc` |
| `Idlc_proofs` | proofs about failing compilations and assertions | `Idlc` |

### PhysPool and PhysAlloc

Every address the allocator sees is page aligned, so an address is its frame
number. `free[i]` is the set of bits of region `i`'s bitmap that are 1;
`numAllocated[i]` is the counter of the same name. `installed[i]` is a history
variable: the bits that were 1 when the region was made, so `HandedOut(i)` is
what the region gave out and has not got back. `held` are the frames callers
own, `ret` what the last call returned.

The geometry follows the constructor of `Region`: the bitmap sits at the start
of the region, `BitmapSize` is what is left, whole *bytes* are set, whole
*words* are scanned. Bits that are scanned and were not set hold whatever the
memory held: `AddRegion` chooses any subset of them. Two kinds of bits lie past
the end of a region, therefore: those of the last scanned word that `memset`
reached, which are always 1 (it sets bits for all `numPages` pages, and those of
the bitmap's own pages are never allocated), and those it did not reach. The
models have both, and every region has the pages they stand for in its `Window`.
`Contains` has the code's mixed units, a byte offset against a number of pages.

`Region::alloc` and the loop of `Pool::alloc` are one operator: the call takes
the lowest free bits in the order of region and bit (`Taken`). The caller's
buffer is modelled with the code's own addressing: each region writes from the
start of it, so `Surviving` are the pages that no later region overwrote.
`FreePagesOf` gives the list to every region, which takes the entries it
contains. A free that names a page below the first allocatable one wraps around
and is a panic.

Left out: pools above 0 (never created), `extraPageSizes` (stored, never read),
the negative return of `Region::alloc` (never returned), `kMaxGlobalRegions`
(three times `kMaxRegions`, and there is one pool).

### VAlloc

The VAlloc area is numbered in pages from 0. `vmap` holds its present page table
entries, `tables` and `tableFrames` the paging structures made for it: mapping a
page creates the PDPT, PDT and page table above it when they are missing, each
with a page of its own (`Above`, `MissingTables`), and nothing removes them.
`Alloc` is one action with its outcomes: area exhausted, too few pages, no page
for a paging structure, success. `Free` takes the start of a live allocation and
*any* length, since nothing in the code records allocations. A panic stops the
kernel; what the call changed before it is not represented, except in `Free`,
which panics after it has changed the page table.

`phys[]` holds 16 entries and the code does not check the request against it;
`Lengths` stays below that.

### ZoneAlloc

Regions are numbered in the order VAlloc gives them, 0 is null. The two loops
over the list are stepped: `call` is the call in progress and the region its
loop is at. `Search` moves to `next`; `FreeSpins` is the `continue` of `free`
that moves nowhere. The build sets no optimisation level, so the loop is taken
to spin. `NoRegion` is VAlloc returning null, at any time: `operator new` is
`noexcept`, so the null is linked in and dereferenced.

### PageOwners

What the physical allocator promises, without bitmaps: a frame is absent,
available, owned or lost. A call reports exactly the frames it makes its
caller's (`granted`), which were available before, and takes fewer than were
asked for only when none are left; a returned frame becomes available or is
lost.

The two defects by which the allocator loses frames are stated, not hidden. A
*bank* is the frames of one region: a call may lose frames it took
(`Sources/Memory/Pool.cpp:97`), but of some bank it reports all it took, so a
call that one region can serve loses nothing. `Kept` are the frames that
`Region::contains` recognises (`Includes/Memory/Region.h:49`): a returned frame
becomes available if and only if it is one of them. `KeepsPageOwners` maps the
allocator's state to this one, with a bank for every region.

### PageTables

`tables[f]` is what page `f` of physical memory holds, read as a paging
structure; `avail` are the pages the physical allocator would hand out, lowest
first. An entry is absent, a link, a large page or a page, with the write and
user bits. A virtual address is a page number; `Index(v, level)` is the index
the code shifts out of it. An operation of the code is an operator on a record
of this memory (`Fresh` is `AllocPage`, `Descend` one level of `mapPage`, the
structure made when it is missing), and the actions `MapPage`, `UnmapPage`,
`TableFrom`, `FirstTable`, `FreeTables` apply them. `Path` is the walk, as
`getPhysAddr` and the processor do it. No-execute is off in this build
(`kNoExecuteEnabled`), the global bit is never set by `mapPage`, and addresses
that are not canonical are refused before anything happens: all left out
(`CanonicalAssumption` of `VmMaps`: every page used has an index at each level).

`Recognised` are the pages `FreePages` takes back: the defect of
`Region::contains` decides in the code, a constant here.

`getPhysAddr` answers 0 for large pages, although `PageTable.cpp:432` says 1
when an address is mapped; its only caller asks about 4K pages. `unmap`
collects no structures, as its TODO says, though `PageTable.cpp:373` promises
it; the destructor keeps all but the PML4.

### VmMaps

Map 1 is the kernel map, made by boot code (`FirstMap`) and static. `NewMap`
needs the zone of `Map` objects to have its region, which a VAlloc mapped
(`ZoneArea`): the first child can only copy a kernel half that has VAlloc's
PML4 entry. `Add`, `VAlloc` and `VFree` start a `job` of one page per step,
`Drop` is one `release` of the chain of maps that a last reference brings down:
`~Map` releases the parent before its own `PageTable` is destroyed, so the
PML4s go back at the end (`Dying`). `Access` is the processor: it fills its
cache from the active map between any two steps, `Activate` empties it and
`Flush` drops the pages that `invalidateTlb` names. `copied` is a history
variable: the entries a map took from its parent.

Over-approximated: `VAlloc` may use an area again after `VFree` (the code's
cursor never goes back), and VFree's pages are not checked to come from VAlloc
(the kernel frees what it allocated). The pages VAlloc maps come from elsewhere
than `Frames`; module `VAlloc` has them come from the same pool. Callers add a
region only where nothing is mapped, as `Map.cpp:86` asks; nothing checks it.
The maker of a map does not release it while it is active: `activate` takes no
reference. `Map::remove` returns an error before it changes anything, since
`findEntry` always fails, so there is no action for it.

### AddressSpaces

What the structures are for: a map is a row of slots that show windows (the
PDPTs), a window translates offsets. A new map shows its parent's windows in
the kernel's slots; every step changes at most one offset of one window that
is shown, and a window that begins to be shown is new and shows at most the
page being mapped. So nothing appears in an address space but what was mapped
there or in a shared window, whatever pages are reused for what.
`ImplementsAddressSpaces` maps `tables` to it.

### Wire and Rpc

The subject is the code that `idlc` writes, not the writing: the string literals
of `CodeGenerator+Client.cpp`, `+Server.cpp` and `+Serialization.cpp`.

`Wire` is the layout of a message structure: offsets and sizes as
`serWriteArgs` computes them, `Written` the bytes that the rounds of `serialize`
put into the buffer, `Deserialize` the way back through the offset and length
words. Values are their bytes, so a scalar is copied as the code copies it; a
byte of a buffer that nobody wrote is `Junk`. Custom types are blobs whose
serializers their authors write.

In `Rpc` a message is its header's type and tag and its payload; the flags are
never read. `Call` is a generated method up to the wait (buffer, serialize, tag,
send), `ReceiveReply` the rest of it; `RunOne` takes a request and calls the
implementation, which answers with any of `Results`, and `SendReply` marshalls
and sends. `txBuf` and `serverBuf` hold what earlier messages left in them. A
method's id is the hash of its name, so the name stands for it. `ClientIdl` and
`ServerIdl` are the interfaces the two stubs were made from.

The streams (`rpc/rt/RpcIoStream.hpp`) are not in the repository. What the stubs
need of them is assumed: whole messages, requests in order, a reply goes to the
sender of the request received last. Each operation may fail, as may an
allocation: the client's process exits (also when a reply fails, where the code
goes on to read the header of an empty buffer), a reply the stream refuses is
gone, a server whose `receive` fails leaves `run`. Whether the program runs it
again is outside the repository.

### RemoteCalls

What the programs on both sides rely on, without messages: a client's calls are
executed in order and at most once with the arguments they were made with, and
a call that waits returns its own execution's answer. `KeepsPromise` maps the
histories `issued`, `executed` and `returned` of `Rpc` to it.

### Terminal, FbCons and Consoles

`Terminal` is the reference: a screen is rows of cells, a command puts a
character, breaks the line, sets colours or moves the cursor, and `Text` is how
a program spells the command. `FbCons` is the code, over codes of characters: a
console is a record of the class's fields, `WriteChar` what one character does
to it, through the states of the parser (`writeState`, `ansiBuf`). Pixels are
taken together by cells; colours are converted as `Convert` and the palette do,
so that the default of 15 is a colour and not only a name. What takes more than
one step, or logs, is returned as a call: scrolling, `memcpy`'s panic on
overlapping rows, the fault of a glyph past the framebuffer, the warning about an
unknown sequence.

`Consoles` has what is global: the outputs in use, the one static buffer of
`Log` (`buf`), and `calls`, the stack of write loops. A loop reads the buffer
one character per step, so that a message logged inside another replaces what
the outer loop still has to read, as in the code. `Panic` logs, prints a
backtrace and halts; when the symbols cannot be read it faults and panics again.
An exception starts at the top of its interrupt stack: calls under way on that
stack are lost (`Cut`). `wanted` is a history variable: the commands of the
messages so far.

Left out: what the terminal and the port receive, formatting, messages longer
than the buffer, and the bits of a glyph.

### CmdLine

`ParseCmd` as a fold of its four-state scanner over the characters, with the
code's `strncmp` and `strtol`. Argument lists as their writer sees them are
spelled by `Line`.

### Traps and Backtraces

`Traps`: `GdtInit`, `IdtInit` and `LocalsInit` set the registers of a processor
record; `Gates` is the table of default handlers as the processor sees it, the
last one for each vector. `Delivers` is the processor's way through gate, code segment and task
register; `State` is the stack that processor, stub and common handler build,
read through the field order of `Processor::Regs`; `Handle` tells what the
kernel panics with. Bases and limits, which long mode ignores, are left out, and
so are control registers and EFER.

`Backtraces`: `ParseKernelElf` over the section headers. The walk of frames and
the search for the nearest symbol read only, and are left out.

### Boot

`pc` is the step of `_osentry`; loops have `step`. `machine` is what the loader
reports and what will happen: memory map, processor features, framebuffers,
command line, kernel file, and how much work and how many interruptions there
are to come (bounds `work` and `interrupts`). Addresses are pages, a virtual
address an area of the kernel's layout and a page in it. Paging structures are
counted per area, one for each level below the PML4; `PageTables` has them entry
by entry. `offset` is what the loop over the sections has added to
`kernelPhysBase` and `kernelVirtBase`. `taken` counts pages handed out, and
`Searched` are the regions whose bitmaps a search reads: an allocation fails when
one of those bitmaps, or the paging structures, are not reachable under the tables
in use. The command line comes with the kernel's file: without one there is none
(`CommandLine`). A step that panics leaves the rest as it was. Every step that logs hands its text to `Consoles`; the next step
waits until it is written. In `Start`, kernel code logs, allocates and causes
exceptions, as code to come will; `Start` returns, which is a panic today.

`Interrupt` is a non-maskable interrupt or machine check at any time after
the kernel has its gates. `machine.midway` says at what moments, besides between
characters, it may come: the passing run has none of them, since there
`PanicHalts` is false (`FbInterrupted`, and the hazard at `Console.cpp:162`).

### IdlBuilder, CodeGenerator and Idlc

`IdlBuilder` is `idl::Builder`: a record of its fields and one operator per
call; exceptions and failed assertions are flags, and `asserts` says whether the
build has assertions. `CodeGenerator` has what differs between the files of two
interfaces: names, types, structures, ids, and which structure each method
encodes and decodes; the code around them is the subject of `Wire` and `Rpc`.
`Implement` says what the five files are for: that a call of the client arrives
at the server's method of the same signature, that the fields of its reply are
those the client assigns to its result or returns (`ReplyValues` and
`ResultValues` are the two halves of that way back), and that the numbers in the
server's `switch` tell its methods apart (`CasesDiffer`).

`Idlc` is `main`: options, parsing of all files, writing. A file is its tokens.
The grammar (`IDLGrammar.h`) is a machine of places (`at`); a token that fits
moves it and calls the builder as the grammar's actions do, one that does not ends the
compilation. One token decides, so there is no backtracking over actions.
Comments and white space are left out. `Damaged` files lack one token.

## Runs

| Run | Checks | Bounds and why |
|---|---|---|
| `Phys` | `TypeOK`, `CountMatchesBitmap`, `HeldPagesAreTaken`, `ShortOnlyWhenEmpty`, refinement `KeepsPageOwners` | two regions, 4 and 1 pages to hand out, a hole apart, bitmap words of 4 bits, so that the second has three bits past its end, two of which `memset` did not reach; a third range over `MaxRegions`; requests of up to 3 pages, which one or both regions serve in full or in part; one page of the first region is recognised when freed and the others are not |
| `VAlloc` | `GuardsUnmapped`, `BackedOnce`, `BackingIsTaken`, `MappedIsCounted`, `FreeStaysInside` | one region of 16 pages after its bitmap, of which 5 come back when freed; an area of 20 pages, tables of 2 entries so that every allocation crosses tables; lengths of 1, 3 and 8 bytes (1, 2 and 4 pages) with 2 guard pages: the last runs over a one-page allocation, its guard and the next; both the area and the pool run out |
| `ZoneLists` | `TypeOK`, `SlotsAccounted`, `RegionsAreListed`, `GrowsOnlyWhenFull`, `AllocEnds`, `FirstRegionFreeEnds` | three regions of three slots: a first, a middle and a last of each |
| `VmMaps` | `TypeOK`, `StructuresInUse`, `SharedOnlyAbove`, `CopiedStaysCommon`, `KernelIsSupervisor`, `CacheFollowsTables`, `ReferencesCounted`, refinement `ImplementsAddressSpaces` | structures of 6 entries: three user slots, the aperture, VAlloc's, one more of the kernel; 3 maps, so that a grandchild exists; 13 pages, of which 7 come back when freed: enough for three maps, not for all mappings; 2 regions added at most, one of two pages that user code may write, in the user or the kernel half of any map; one cached translation (the property is about each alone) |
| `Rpc` | `TypeOK`, `InStep`, refinement `KeepsPromise`, `WaitEnds` | two clients with two calls each, of four kinds: scalars and blobs mixed, asynchronous, nothing at all, several results; the second message in a buffer is shorter or longer than the first; tags of one bit, so that they wrap; one failure anywhere |
| `Boot` | `TypeOK`, `RegionsUsable`, `MapHoldsKernel`, `OutputsReachable`, `ShowsMessages`, `SupportedBoots`, `PortAsAsked`, `ExceptionsReported`, `PanicHalts` | 22 machines: one the kernel supports and the others with one thing changed (memory map, features, framebuffers, kernel file, command line, exceptions, two interrupts); memory maps of up to 5 entries below, at and above the bound, 3 regions at most; a screen of 3 by 3 cells that scrolls by 2 rows, a control sequence buffer of 8: messages longer than a row, two of which scroll; up to 3 messages, allocations and exceptions in any order after the boot; every vector |
| `Idlc` | `AsWritten`, `AllOrNothing` | four sets of one or two files, whole and with any one token missing, with and without assertions, and files that are refused for each reason there is; names, types, decorators, includes, empty and asynchronous methods, custom types; one output file that cannot be opened, anywhere |
| `PhysStray` | `AllocatedIsCleared` violated | two ranges of 5 pages that touch; bitmap bytes of 4 bits and words of 8: 4 pages to hand out, 8 bits set |
| `ZoneFree` | `FreeEnds` violated | as `ZoneLists` |
| `MapsDiverge` | `KernelAlwaysMapped` violated | as `VmMaps` |
| `FbInterrupted` | `PanicHalts` violated under `FairSpec` | one machine, one interrupt, also while the screen scrolls |
| `IdlIds` | `IdentifiersUnique` violated | one interface of two methods with the same `identifier` decorator |

Deadlock is not checked where a panic stops the machine, nor in `Rpc`, where a
lost reply leaves a client waiting and clients stop after `MaxCalls`, nor in
`Idlc`, where `main` returns.

Passing runs keep to inputs in which the defects below do not hide everything
else. The two regions of `Phys` lie apart, so that the pages past the end of one
are not the other's; `PhysStray` has two that touch. `Boot` keeps to screens of
at most twice `ScrollAmount` rows (theorem `ScrollRefused` says what happens on
others), to control sequences the console knows and to interruptions between
characters. The files of `Idlc` have methods with different identifiers and with
names that differ in more than the case of the first letter (`Legal` asks for
both): `IdlIds` has those with equal identifiers. `VmMaps` has kernel entries that
are gained late, and `CopiedStaysCommon` says what holds of the others;
`MapsDiverge` is about the late ones.

`ShowsMessages` and `AsWritten` compare the code with a reference (`Terminal`,
`Meaning` and `Implement`) over these inputs; they are where a parser, a cursor
or a builder that goes wrong shows.

**Fairness.** `ZoneAlloc` assumes weak fairness of the steps of a call in
progress: the kernel runs one thread of control and no interrupt handler keeps
it, so a call that was made keeps executing. Nothing makes a caller call. `Rpc`
assumes that a server in `run` takes the next request, that an implementation
returns, and that a waiting client takes a reply that has come: each is a loop
or a blocking call of the stub's own thread. No failure is fair, and `WaitEnds`
promises nothing once one has happened. `Boot` assumes that a write loop goes
on: it runs on the only processor and waits for nothing (`FairSpec`). The passing
run states the same as `LoopSpec`, without `ENABLED`, which TLC evaluates slowly:
`Writes` is enabled whenever a message is being written.

## Findings

With a run that shows them:

* `Region.cpp:102`: whole words of the bitmap are scanned, so that a region hands
  out pages beyond its end when the last word is not used up; when the next range
  begins there both regions do, though `Region.h:23-24` says that an allocated
  page's bit is cleared (`PhysStray`). `OverrunUnlessWhole` proves for which sizes.
* `ZoneAllocator.h:280`: freeing an object of any but the first region hangs
  (`ZoneFree`).
* `PageTable.cpp:64`: a PML4 entry the kernel map gains after a child was made
  is missing from the child, though `PageTable.cpp:24-25` says that kernel
  addresses are always mapped and `Map.h:73-75` that all maps use the kernel map
  for the upper part of their address space (`MapsDiverge`).
* `F/Sources/Console.cpp:361`: an interrupt while the screen scrolls finds the
  cursor below it, and its panic faults again and again instead of halting
  (`FbInterrupted`).
* `InterfaceDescriptionBuilder.cpp:105`: identifiers given by decorators are not
  compared, though `InterfaceDescription.h:133` says unique; the generated server
  has two equal `case` labels (`IdlIds`).

Met while modelling, in the models but without a run of their own:

* `Region.h:49`: `contains` compares bytes with pages, so most frees are ignored;
  `Pool.cpp:97`: a request that spans regions overwrites the start of the caller's
  list and loses pages. Both are part of what `PageOwners` says.
* `F/Sources/Console.cpp:369`: scrolling copies overlapping rows with a `memcpy`
  that panics on overlap, and the panic is written to the console that is
  scrolling; every screen of more than 10 rows does so (`ScrollRefused`).
* `CodeGenerator+Client.cpp:342`: a reply with another call's tag is logged and
  then returned as the result, where the comment promises an abort. It takes
  stubs made from two versions of an interface.
* `VAlloc` panics instead of returning null when no page at all is left
  (`PageAllocator.cpp:100`); `VFree` panics on a correct length when the frames
  are ones `contains` misses, and not on a shorter length, although
  `PageAllocator.cpp:207` says so; the zone allocator faults where
  `ZoneAllocator.h:235` promises null.
* Boot: a usable entry that ends exactly at the bound is added with length 0, a
  panic; usable memory at 4 GB and above panics, too; a machine without a
  framebuffer never moves its bitmaps, and the first allocation after the switch
  faults; without a debug port as well it halts silently. `VmEnabled` does not
  pass the stride on. `getEntryAt` always fails, so every page fault outside
  VAlloc's area panics. `Start` returns, a panic.
* Console: an unknown control sequence is warned about before the parser has
  left it, so that the warning ends as another unknown sequence, without end
  (`Console.cpp:162`); a position without a column keeps the column, where
  `Console.cpp:255` says 1; the cursor position is not clamped.
* Command line: a key matches every prefix of `console`, and a `debugcon`
  without a port reads the next argument as its number.
* `idlc`: an empty decorator value is refused by an assertion only;
  `--print` also generates code (`main.cpp:45`); methods that differ in the case
  of the first letter get the same stub; interfaces of one name overwrite each
  other's files; output streams are never looked at.

Read in the code, not in a model: `number[8]` in the two sequence handlers is
not bounded (`Console.cpp:202`, `280`); the length `vsnprintf` returns may exceed
the log buffer (`Sources/Logging/Console.cpp:67`); `Backtrace.cpp` takes a link
one past the last section (88), counts symbols by the strings' length (230) and
lets `bufAvail` underflow (161); exceptions that share an interrupt stack destroy
each other's frame.

## Proofs

Every theorem holds for all values of the constants that satisfy the named
assumptions of its modules; where one needs more, the condition is in its
statement and below. TLC evaluates the assumptions in every run.

`PhysAlloc_proofs`, for every page size, word size, memory map and request size.
Three of its theorems hold for every map:

* `ShortIsEmpty`: who gets less than asked for has the last page of all regions.
  `TakesWhatIsAsked` is the lemma behind it: the loops over regions and bits take
  as many as are asked for, or all. Free bits are numbered from the lowest
  (`PageRank`), so the bits that a call takes are those of the first ranks; no
  induction over the loops is needed.
* `OverrunUnlessWhole`: a region has pages past its end to hand out if and only if
  what it can allocate is not a whole number of bitmap words, and then fewer than
  a word of them.

One needs what a loader sees to, that its ranges do not overlap (`RangesApart`):

* `NoDoubleGrant`: a page that is held is clear in the bitmap it came from, and
  set in another only if it lies past the end of one of the two regions. Together
  with `OverrunUnlessWhole` this says that stray bits are the only way to a page
  with two owners; `PhysStray` shows that they are one.

And three need `Separated`: no region can hand out a page that another owns or
can hand out, stray bits included. **Neither `AddRegion` nor the boot code sees to
it**; where it fails, pages have two owners and a counter can go below zero.

* `TypeCorrect` and `CountCorrect`.
* `AllocatorKeepsOwners`, the refinement of `PageOwners` for any number of
  regions: a step of the allocator is a grant, a return, a region being added or
  nothing. `TakenOfBank` says that what a call takes from a bank are the bits it
  takes from that region, and `LastBankSurvives` that of the last region with a
  taken page nothing is overwritten.

The invariant is in two parts. `SInv` holds for every map: free bits are among the
installed ones, which are scanned bits (so finitely many), include all that the
constructor sets, and are absent before the region exists; and every held frame is
a handed-out bit of an active region. A free keeps it because a region sets only
bits of pages in its own range, and those were installed (`FreeSetsInstalled`).
`IInv` adds `CountMatchesBitmap`, which is not inductive alone: a free must set
only bits that were *handed out*, or the counter goes down more than the set
shrinks. That is where `Separated` comes in: `HitsAreOwn` shows that the only
region which takes a held page is the one it came from. `ImageCount` turns list
positions into bits; `AllocateStep`, `ReleaseStep` and `GrowStep` do one action
each.

`VAlloc_proofs`, for any area, memory, lengths and any number of guard pages but
none:

* `GuardsCorrect`, `FreesInside`, `CounterCorrect`. `AreaInv` says that nothing is
  mapped at or above the cursor, that live allocations are mapped in full and lie
  apart, each with its guards, below the cursor, and that no guard is mapped. From
  that `FreeInside` follows: a range that is mapped in full and starts at an
  allocation ends with it. Without guard pages (`GuardPages = 0`) a free could run
  into the next allocation.
* `BackingCorrect` and `TakenCorrect`, under `OneRegion`. `FrameInv` says that the
  bits of all frames in use were installed and are not free, and that every frame
  has one use. An allocation takes the lowest free bits, which `Rank` numbers:
  `BufferPage` shows that entry k of `phys[]` is the bit with k - 1 below it, so
  each page of an allocation has a frame of its own. With several regions this
  is not so: every region writes to the start of the buffer
  (`Sources/Memory/Pool.cpp:97`), and an allocation that takes pages of two
  maps entries that nobody filled.

`ZoneAlloc_proofs`, for any number of regions and slots: `TypeCorrect`,
`NoDoubleObject`, `ListCorrect` and the action property `GrowthNeeded`. The last
one needs the invariant `SearchedAreFull`: the regions a search in progress
has passed are full, which holds because the list is in the order of creation.

The first part of `VmMaps_proofs`, for structures of any size and any memory, is
about the operators that stand for the code, whatever calls them. `Shaped` says what a
memory full of structures looks like: a `level` is given to every page that is a
structure, links go one level down, and two links lead to the same page only
from entries of the kernel half with the same index. From it:

* `MapPageMaps`: `mapPage` makes its page translate to the new entry and leaves
  every other page of every map as it was, also those that share structures with
  the first, and whatever structures it adds, one after the other, or fails to.
* `UnmapPageUnmaps` says the same of `unmap`, `TableFromCopies` of the copy of
  the upper half, in which no map changes at all.

Each adds a claim on `Kept`: what was in a structure stays in it. The arithmetic
is in a few lemmas on `Index`: two pages with the same index at all levels are one
page (`SamePage`), which is where pages beyond the last index would break it and
`CanonicalAssumption` is used.

The second part, for any number of maps and entries, any regions and memory:

* `CountsCorrect` and, from it, `NoDanglingMap` (no live map has a deleted parent;
  the active map and the kernel map are never deleted). The counts are inductive
  with `RefShape`: a parent is made before its children, so a new map has none
  (`RefNewMap`), and the last reference of a map implies that it has no children
  left (`RefDrop`), which is why the chain of releases of `Drop` is sound.
* `TypesKept`, `StructuresStay`, `OnlyKernelHalfShared`, `KernelHalfStays`,
  `KernelStaysSupervisor`, `CacheStaysTrue`: all from `VmInv`, of which none
  would be inductive alone. Its part `TablesOK` says that *some* level function
  fits the structures (`Shaped`). It is existential because the code keeps no
  record of what a page is: structures that a deleted map leaves behind keep
  their level, since others may still link to them, and its PML4 gets 0 before
  the allocator has it back. `CopiedOK` is that a map and its parent have what was
  copied in common, entry by entry; since entries of the kernel half are never
  taken away, that gives `CopiedStaysCommon` for every page below. `JobOK` is
  about a call in progress: the pages it has not reached are as its caller saw
  them, unmapped for `add`, mapped for `VFree`. Without it a step of a loop could
  meet a page that is mapped already.
* `MapsImplementSpaces`: the refinement of `AddressSpaces`. A window is a PDPT;
  what it shows at an offset is the walk below it (`ContentAt`), so that a page
  translates as its slot's window shows (`SlotPage`, `TranslationBelow`). The
  step of a call is one change in one window (`OneChange`), seen in every map that
  shows it.

`Rpc_proofs`, for any number of clients, any interface, any calls and results,
any width of tags and any failures:

* `PacketsRoundTrip`: what a stub writes into a buffer, whatever that held, and
  sends from its start decodes to what it was made from, for every signature and
  arguments that fit into a packet of 2^32 bytes. Offsets are sums over the
  arguments before, and the rounds of `serialize` are a recursive function; both
  need induction, and get it from the least element of a set of numbers
  (`LeastNat`, from the library's `NatLessThanWellFounded` and `WFMin`): the set
  of lengths for which a statement fails has no least element.
* `TypesKept`, also when the two sides were made from different interfaces.
* `StubsInStep`, `OwnTag` (a call returns on its own reply only) and
  `StubsKeepPromise`, if `ServerIdl = ClientIdl`. `InStep` counts what is under
  way for a client; the proof replaces the count by `Conversation`, in which a
  request, a call being served and a reply exclude each other. For the refinement
  of `RemoteCalls`, `PromiseInv` adds for every client an order of its requests in
  the queue (`Queued`): the requests that wait are exactly the calls issued and
  not executed, in order, each decoding to its arguments, and what is on its way
  back decodes to the last execution's answer. `PacketAssumption` says that calls
  have the fields of a call and that arguments and results fit into a packet: the
  stubs do not check it, and truncate lengths to 32 bits.

`Boot_proofs`, for every machine:

* `OutputsCorrect` is not inductive alone: `OutputInv` says in which of four
  phases (terminal, no output, tables switched, framebuffer console) each output
  may be in use and which tables are, and that a framebuffer that was announced
  is mapped. Exceptions and nested messages are among the steps: they change no
  output.
* `RegionsCorrect` rests on `BootAssumption`, that no page of memory is in two
  usable entries of the memory map; `RegionsInv` is the loop invariant: the regions
  are the pages above the bound of the entries looked at so far, `ClippedPages`
  and `SkippedPages` do one entry.
* `MapCorrect`, for any sections and regions, from `MapInv`: while the sections
  are mapped, `offset` is where the linker starts the next one (`Layout`) and the
  pages mapped of the image are those of the sections done; bitmaps that have moved
  lie apart, each ends below the next one's start and below `nextBitmap`, and
  their pages are all there is in the metadata area. `LayoutOrdered` (sections do
  not overlap, by induction over their number) and `PageOfBitmap` turn that
  into one mapping for every page. `OutputInv` gives that the tables come into use
  after all of it.
* `ExceptionsAreReported`, for every command line, memory map, message and
  interruption, from `TrapInv`: once there are gates they are those of the
  table; the descriptors and the task register are set before, and the symbols
  are forgotten before the tables that reach them go. `TablesLeadToKernel` is the
  way through gate and descriptor, `GateOfHandler` the last handler of a vector,
  and the stubs are done in two kinds: `PlainFrame` and `CodedFrame` say where each
  field of `Regs` lies, with and without an error code from the processor.
* `BootsAreSupplied`, for every supported machine: `SupportedBoots` but for the two
  ways in which the framebuffer console itself fails (`memcpy` and `fault`, see below).
  `StockInv` is the loop invariant of the memory map: the regions hold the pages of
  the big entries looked at so far, and are as many as those (`AppendHeld`,
  `NextAmount`, `NextBig`; `Totals` is a recursive function and `TotalsAreSums` says
  what it is, by induction over its length). `TakenInv` bounds what was
  handed out: the PML4, the aperture, one paging structure per area and level, and a
  zone region per unit of work. `ReachInv` says which bitmaps have moved: none before
  `RemapTo`, those of the regions done during it, when the first of them has already
  taken the metadata area's structures, and all after it. `Affords` puts the three
  together for each of the five steps that take pages. What an exception
  reports is never one of these failures (`ReportsNoFailure`).
  `BootAssumption` asks here that the minimal size of a region is not zero and
  that the loader's tables reach past the bound, as the constants of
  `Boot/Entry.cpp` do.

* `PortIsAsked`, for any number of arguments of any length, is the one result about
  a parser. `ParseCmd` and `Line` are recursive functions over the characters and
  the arguments: `ScannersExist` and `WritingsExist` show by induction over the
  length that there is a function with their equations, so that `ParseCmdScans`
  and `LineGrows` may use these. Then the scanner is followed through an argument
  (`KeyRead`, `ValueRead`, with one lemma for each step of the loop), `TokenRead`
  says what `ParseCmdToken` makes of the value, and `PortEnds` and `NoPort` that
  `strtol` reads the same from the middle of a line as from the port alone.
  `ArgumentStands` finds each argument in the line as it was written, with a space
  and a dash before the next; `LineRead` is the induction over the arguments. The
  port is then part of an invariant with `machine`, which no step changes.

  The theorem rests on `CommandLineAssumption`, that arguments are `Legible`. The
  code needs what this says: words contain no separator; a key or type is not a
  beginning of `console` or `debugcon`, because `strncmp` compares only as much of
  the name as was written and takes `-con=debug` for the whole; and a key does not
  begin with a digit, because `strtol` goes past the value when `debugcon` names
  no port, over the space and the dash, and would read such a key as a negative
  number. `StrToL` is a model of `strtol` for lower case digits and values far from
  the limits of `long`.

* `BootIsTyped`, `TypeOK` but for the console's fields: most of it is part of the
  invariants above; `TypeInv` adds the flags, the loop counter and the number of
  regions, which `addRegion`'s check keeps within `MaxRegions` (`AddEntryTypes`), and
  `BitmapsTyped` reads the bitmap pointers off `MapInv`. `ConsoleTyped` is the
  hypothesis: a message may move the cursor off the screen.

* `PrintingShows` and `NewConsoleShows`, the refinement of `Terminal` by `FbCons`
  for everything but control sequences, character by character. `Pictures` is the
  refinement mapping: the framebuffer's cell at `y * Stride + x` shows the
  terminal's, and the cursor, the pen and its colours are the same, with the
  parser outside a sequence. `CellsApart` and `Column` say that a place has one
  cell and is in its column, from `FbConsAssumption` (a row is no longer than the
  stride); `DrawShows` is a glyph, `ScrollShows` the copying and clearing of rows,
  `NewLineShows` the end of a line with what it entails. Their hypothesis, that
  the cursor is on the screen, comes back after each character; a new console
  fulfils it, and a control sequence may break it. What they except is stated
  by `ScrollRefused`: a line feed on the last row scrolls if the screen has at most
  twice `kScrollAmount` rows, and panics in `memcpy` on every taller one.

`Idlc_proofs`, for any source files, words and failures: `NoneOnFailure`, with the
strengthening `NothingYet` (nothing is written before the last file is parsed),
and `BuilderAsserts`: at every place of the grammar the builder has what the
next call asserts (a method with a name, an argument's name and type, a
decorator's key). `BuilderInv` ties the builder's fields to the place.

Model-checked only:

* Liveness (`AllocEnds`, `FirstRegionFreeEnds`, `WaitEnds`, `PanicHalts`) and
  everything about fairness is outside the prover.
* `Boot`'s `ConsoleTyped`, `ShowsMessages` and what `BootsAreSupplied` leaves of
  `SupportedBoots` (`memcpy`, `fault`) speak of the screen. They
  hold for the messages of the kernel, not for all: the cursor goes where a
  message's control sequence says, on the screen or not, and a fault or a panic
  of the console is then the result. A theorem about all `Messages` would be
  false; `PrintingShows` is its step for a character. What is missing is the
  control sequences, an induction over the digits and attributes of each, and the
  nesting of messages.
* `AsWritten` is an induction over the tokens of a file.

`VAlloc`'s `TypeOK` describes its state and is in no run: the invariants of the
run say more. Nothing proved depends on a RECURSIVE operator.

## Plan

In this order; each with its invariants first checked by TLC, then proved.

1. Done: `PhysPool`, `PhysAlloc`, `PageOwners`, `VAlloc`, `ZoneAlloc`.
2. Done: `PageTables`, `VmMaps`, `AddressSpaces`.
3. Done: `Wire`, `Rpc`, `RemoteCalls`.
4. Done: `FbCons`, `Terminal`, `Consoles`, `CmdLine`, `Traps`, `Backtraces`, `Boot`.
5. Done: `IdlBuilder`, `CodeGenerator`, `Idlc`.
6. Done: proofs about `PhysAlloc`, `VAlloc`, `ZoneAlloc`, `PageTables`, `VmMaps`,
   `Wire`, `Rpc`, `CmdLine`, `Boot`, `Idlc`; the three refinements.
7. Left: the control sequences of `FbCons` against `Terminal`, with which a theorem
   about messages that stay on the screen could be had; what `Idlc` writes of a file.
8. Left until the code has them: `Map::remove`, faults that are handled, larger
   pages, locks and other processors.

## Not modelled

* Fonts, hashes, ELF structure definitions, build files: data, third-party code,
  descriptions.
* Control registers and EFER: written once, never read back by the kernel.
* The walk of stack frames, symbol search and `printf`: they only read and write
  text; the copying of `memcpy` and `memset`.
* A second processor: nothing starts one, `doTlbShootdown` is empty and the
  allocators have no locks.
* Page sizes above 4K, which are stored and never used by the allocator; pools
  above 0, never created.
* The destruction of a region of memory and `Map::remove`: the first cannot
  happen, since `add` never gives its reference back, the second returns before
  it changes anything.
* Serializers of custom types, which their authors write; the streams under the
  stubs, which the repository does not contain (what they must do is assumed in
  `Rpc`); a server that is run again.
* Requests of more pages than the caller's array holds
  (`PageAllocator.cpp:93`): `Lengths` stay below it, as the kernel's own do.
* White space and comments of interface files, and the text of help messages.
