------------------------------- MODULE Traps --------------------------------
(***************************************************************************)
(* The way of an exception from the processor to the kernel's handlers:    *)
(* the descriptor tables (Arch/Gdt, Arch/Idt), the assembly stubs          *)
(* (ExceptionHandlers.S) and ExceptionHandlers.cpp.  A processor is a      *)
(* record [gdt, limit, task, idt, gs] of what its registers refer to.      *)
(***************************************************************************)
EXTENDS Integers, Sequences

\* AMD64_EXC_*, without their common bit 0x1000.
Exc == [DIVIDE |-> 0, DEBUG |-> 1, NMI |-> 2, BREAKPOINT |-> 3, OVERFLOW |-> 4,
        BOUNDS |-> 5, ILLEGAL_OPCODE |-> 6, DEVICE_UNAVAIL |-> 7, DOUBLE_FAULT |-> 8,
        INVALID_TSS |-> 10, SEGMENT_NP |-> 11, SS |-> 12, GPF |-> 13, PAGING |-> 14,
        FP |-> 16, ALIGNMENT |-> 17, MCE |-> 18, SIMD_FP |-> 19, VIRT |-> 20]

-----------------------------------------------------------------------------
(* Segments.  Bases and limits are left out: the processor ignores them in *)
(* long mode.                                                              *)

kGdtSize == 64
Selectors == [kernCode |-> 8, kernData |-> 16, userCode |-> 24, userData |-> 32,
              userCode64 |-> 40, firstTss |-> 48]

Set32(gdt, selector, access, gran) ==
  [gdt EXCEPT ![selector \div 8] = [access |-> access, gran |-> gran]]

\* A TSS descriptor takes two slots; the second holds the base only.
InstallTss(gdt, i) ==
  LET num == i * 2 + Selectors.firstTss \div 8
  IN  [gdt EXCEPT ![num] = [access |-> 137, gran |-> 0],
                  ![num + 1] = [access |-> 0, gran |-> 0]]

BspGdt ==
  LET s == Selectors
      null == [i \in 0 .. kGdtSize - 1 |-> [access |-> 0, gran |-> 0]]
      kern == Set32(Set32(null, s.kernCode, 154, 175), s.kernData, 146, 207)
      code == Set32(Set32(kern, s.userCode, 250, 175), s.userCode64, 250, 175)
  IN  InstallTss(Set32(code, s.userData, 242, 207), 0)

\* Gdt::Init.  Flush loads %gs, too, which clears its base.
GdtInit(cpu) ==
  [cpu EXCEPT !.gdt = BspGdt, !.limit = Selectors.firstTss + 16 - 1,
              !.task = Selectors.firstTss, !.gs = "none"]

-----------------------------------------------------------------------------
(* Gates.                                                                  *)

\* The function, its IDT index and its interrupt stack; all have the kernel's
\* code segment.
Handler(function, idtIndex, stack) ==
  [function |-> function, idtIndex |-> idtIndex, stack |-> stack]

gDefaultHandlers == <<
  Handler("div0", 0, 1), Handler("debug", 1, 4), Handler("nmi", 2, 3),
  Handler("breakpoint", 3, 4), Handler("overflow", 4, 1), Handler("bounds", 5, 1),
  Handler("invalid_instruction", 6, 2), Handler("device_unavailable", 7, 2),
  Handler("double_fault", 8, 2), Handler("tss_invalid", 10, 1),
  Handler("segment_missing", 11, 1), Handler("ss_invalid", 12, 1),
  Handler("gpf", 13, 2), Handler("pagefault", 14, 7), Handler("float", 16, 2),
  Handler("alignment_check", 17, 2), Handler("machine_check", 18, 4),
  Handler("simd", 19, 1), Handler("virtualization", 20, 1)>>

\* ExceptionHandlers::Install, then Idt::load: a gate is that of the last handler
\* for its vector, the other gates are not present.
Gates ==
  LET for(v) == {i \in DOMAIN gDefaultHandlers : gDefaultHandlers[i].idtIndex = v}
      last(v) == gDefaultHandlers[CHOOSE i \in for(v) : \A j \in for(v) : j <= i]
  IN  [v \in {gDefaultHandlers[i].idtIndex : i \in DOMAIN gDefaultHandlers} |->
         [offset |-> last(v).function, selector |-> Selectors.kernCode,
          ist |-> last(v).stack]]

IdtInit(cpu) == [cpu EXCEPT !.idt = Gates]

\* ProcessorLocals::InitBsp.
LocalsInit(cpu) == [cpu EXCEPT !.gs = "locals"]

\* Present, a code segment for long mode, and of ring 0.
KernelCode(d) ==
  /\ d.access \div 8 = 19
  /\ (d.gran \div 32) % 2 = 1

\* The processor finds its way to the handler.
Delivers(cpu, vector) ==
  /\ vector \in DOMAIN cpu.idt
  /\ LET gate == cpu.idt[vector]
     IN  /\ gate.selector + 7 <= cpu.limit /\ KernelCode(cpu.gdt[gate.selector \div 8])
         /\ cpu.task + 15 <= cpu.limit /\ cpu.gdt[cpu.task \div 8].access \in {137, 139}

-----------------------------------------------------------------------------
(* The stack of a handler, as the sequence of what was pushed.             *)

\* Vectors with an error code.
HasErrorCode == {8, 10, 11, 12, 13, 14, 17}

Interrupted(vector) ==
  <<"ss", "rsp", "rflags", "cs", "rip">>
  \o (IF vector \in HasErrorCode THEN <<"errorCode">> ELSE << >>)

Plain(irq) == <<"zero", irq>>
Coded(irq) == <<irq>>

Stubs ==
  [div0 |-> Plain("DIVIDE"), debug |-> Plain("DEBUG"), nmi |-> Plain("NMI"),
   breakpoint |-> Plain("BREAKPOINT"), overflow |-> Plain("OVERFLOW"),
   bounds |-> Plain("BOUNDS"), invalid_instruction |-> Plain("ILLEGAL_OPCODE"),
   device_unavailable |-> Plain("DEVICE_UNAVAIL"), double_fault |-> Coded("DOUBLE_FAULT"),
   tss_invalid |-> Coded("INVALID_TSS"), segment_missing |-> Coded("SEGMENT_NP"),
   ss_invalid |-> Coded("SS"), gpf |-> Coded("GPF"), pagefault |-> Coded("PAGING"),
   float |-> Plain("FP"), alignment_check |-> Coded("ALIGNMENT"),
   machine_check |-> Plain("MCE"), simd |-> Plain("SIMD_FP"),
   virtualization |-> Plain("VIRT")]

CommonHandler == <<"r15", "r14", "r13", "r12", "r11", "r10", "r9", "r8", "rbp", "rdi",
                   "rsi", "rdx", "rcx", "rbx", "rax">>

\* Processor::Regs, from its first field on.
Regs == <<"rax", "rbx", "rcx", "rdx", "rsi", "rdi", "rbp", "r8", "r9", "r10", "r11",
          "r12", "r13", "r14", "r15", "irq", "errorCode", "rip", "cs", "rflags",
          "rsp", "ss">>

Fields == {Regs[i] : i \in DOMAIN Regs}

\* Mutant: the stub of the alignment check pushes an error code of its own.
StateDoubled(cpu, vector) ==
  LET function == cpu.idt[vector].offset
      pushed == Interrupted(vector)
                \o (IF vector = Exc.ALIGNMENT THEN Plain("ALIGNMENT") ELSE Stubs[function])
                \o CommonHandler
      at(f) == CHOOSE i \in DOMAIN Regs : Regs[i] = f
  IN  [f \in Fields |-> pushed[Len(pushed) + 1 - at(f)]]

\* The state that the handler of a vector gets, as what its fields hold.
State(cpu, vector) ==
  LET pushed == Interrupted(vector) \o Stubs[cpu.idt[vector].offset] \o CommonHandler
      at(f) == CHOOSE i \in DOMAIN Regs : Regs[i] = f
  IN  [f \in Fields |-> pushed[Len(pushed) + 1 - at(f)]]

-----------------------------------------------------------------------------
(* ExceptionHandlers::Handle: the exceptions given to Exceptions::Handler, *)
(* with their types, and what it panics with for the others.               *)

Dispatched ==
  [DIVIDE |-> "DivideByZero", OVERFLOW |-> "Overflow", BOUNDS |-> "Overflow",
   FP |-> "FloatingPoint", SIMD_FP |-> "SIMD", ILLEGAL_OPCODE |-> "InvalidOpcode",
   GPF |-> "ProtectionFault", ALIGNMENT |-> "AlignmentFault",
   BREAKPOINT |-> "DebugBreakpoint", DEBUG |-> "DebugBreakpoint"]

gExceptionNames ==
  [DOUBLE_FAULT |-> "Double fault", DEVICE_UNAVAIL |-> "Device unavailable (FPU)",
   INVALID_TSS |-> "Invalid TSS", SEGMENT_NP |-> "Segment not present",
   SS |-> "Invalid stack segment", VIRT |-> "Virtualization exception"]

Handle(irq) ==
  CASE irq \in DOMAIN Dispatched -> Dispatched[irq]
    [] irq = "NMI" -> "Non-maskable interrupt"
    [] irq = "MCE" -> "Machine check"
    [] OTHER -> gExceptionNames[irq]
=============================================================================
