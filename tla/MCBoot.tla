------------------------------- MODULE MCBoot -------------------------------
(***************************************************************************)
(* Machines, messages and exceptions to check Boot with: one machine that  *)
(* the kernel supports, the others with one thing changed.                 *)
(***************************************************************************)
EXTENDS Boot

Usable(base, length) == [base |-> base, length |-> length, usable |-> TRUE]
Reserved(base, length) == [base |-> base, length |-> length, usable |-> FALSE]

Arg(key, type, port, number) ==
  [key |-> key, type |-> type, port |-> port, number |-> number]
Console(type, port, number) == Arg(ConsoleKey, type, port, number)
Serial == <<"s", "e", "r", "i", "a", "l">>

NoSection == [type |-> "NULL", link |-> 0, size |-> 0]
Section(type, link) == [type |-> type, link |-> link, size |-> 9]
KernelFile == [magic |-> TRUE, secHdrSize |-> 64,
               sections |-> <<NoSection, Section("PROGBITS", 0), Section("SYMTAB", 3),
                              Section("STRTAB", 0)>>]

Base == [features |-> kRequiredCpuFeatures \cup {"AVX"}, located |-> TRUE, smp |-> TRUE,
         terminal |-> TRUE, framebuffers |-> 1, args |-> << >>, file |-> KernelFile,
         entries |-> <<Usable(0, 3), Reserved(3, 2), Usable(5, 35), Usable(40, 1),
                       Usable(41, 25)>>,
         work |-> 3, vectors |-> {6}, interrupts |-> 0, midway |-> {}]

\* An interrupted machine does less of its own.
Hit == [Base EXCEPT !.work = 1, !.interrupts = 2]

MCMachines ==
  {Base, Hit,
   [Base EXCEPT !.features = @ \ {"XSAVE"}],
   [Base EXCEPT !.located = FALSE],
   [Base EXCEPT !.smp = FALSE, !.terminal = FALSE, !.framebuffers = 2, !.vectors = {2, 8},
                !.work = 2],
   [Base EXCEPT !.framebuffers = 0, !.work = 2, !.vectors = {18},
                !.args = <<Console(Debugcon, <<"0", "x", "e", "9">>, 233)>>],
   \* Exceptions.
   [Base EXCEPT !.work = 1, !.vectors = 0 .. 8],
   [Base EXCEPT !.work = 1, !.vectors = (10 .. 20) \ {14, 15}],
   \* Ends at the bound; begins at the limit; does not touch the bound.
   [Base EXCEPT !.entries = <<Usable(5, 3), Usable(10, 30)>>],
   [Base EXCEPT !.entries = <<Usable(10, 30), Usable(70, 5)>>],
   [Base EXCEPT !.entries = <<Usable(0, 7), Usable(8, 50)>>, !.work = 2],
   \* Too many regions, none at all, too little memory.
   [Base EXCEPT !.entries = [i \in 1 .. 4 |-> Usable(10 * i, 10)]],
   [Base EXCEPT !.entries = << >>],
   [Base EXCEPT !.entries = <<Usable(10, 8)>>],
   \* Symbols: no file, a wrong one, odd headers, no table, no strings, two tables.
   [Base EXCEPT !.file = NoFile, !.work = 0,
                !.args = <<Console(Debugcon, <<"7">>, 7)>>],
   [Base EXCEPT !.file.magic = FALSE, !.work = 0],
   [Base EXCEPT !.file.secHdrSize = 72, !.work = 0],
   [Base EXCEPT !.file.sections = <<NoSection>>, !.work = 0],
   [Base EXCEPT !.file.sections[3].link = 0, !.interrupts = 1, !.work = 0],
   [Base EXCEPT !.file.sections = @ \o <<Section("SYMTAB", 3)>>, !.work = 0],
   \* Command lines.
   [Base EXCEPT !.args = <<Console(Serial, <<"9">>, 9),
                           Console(Debugcon, <<"2", "3", "3">>, 233),
                           Arg(<<"q">>, << >>, << >>, 0)>>, !.work = 0],
   [Base EXCEPT !.args = <<Arg(<<"v">>, Debugcon, <<"9">>, 9),
                           Console(Debugcon, <<"0", "1", "7">>, 15),
                           Console(Serial, << >>, 0)>>, !.work = 0],
   [Base EXCEPT !.args = <<Console(Debugcon, <<"7">>, 7), Console(Debugcon, << >>, 0),
                           Arg(ConsoleKey, << >>, << >>, 0)>>, !.work = 0]}

\* A machine that is interrupted while the screen scrolls.
MCScrolling == {[Base EXCEPT !.work = 0, !.interrupts = 1, !.midway = {"scroll"}]}

MCSections == <<[bytes |-> 5, mode |-> "RX"], [bytes |-> 3, mode |-> "R"],
                [bytes |-> 8, mode |-> "RW"]>>

Logs(level, cmds) == [level |-> level, cmds |-> cmds]
Skip(text) == <<[op |-> "skip", text |-> text]>>
MoveTo(x, y) == <<[op |-> "move", x |-> x, y |-> y]>>

MCMessages ==
  {Logs("Error", Glyphs(<<65, 66, 67, 68>>)),           \* longer than a row
   Logs("Warning", Painted(<<[what |-> "bg", index |-> 12], [what |-> "fg", index |-> 2]>>)
                     \o Glyphs(<<69>>)),
   Logs("Notice", MoveTo(2, 0) \o Glyphs(<<70>>)),
   Logs("Notice", MoveTo(0, 1) \o Glyphs(<<71>>)
                    \o Painted(<<[what |-> "reset", index |-> 0]>>)),
   Logs("Notice", <<[op |-> "put", char |-> 200, shows |-> 63]>>),
   Logs("Notice", Skip(<<27, 99>>) \o Glyphs(<<72>>)),  \* not a control sequence
   Logs("Notice", Skip(<<27, 91, 51, 49, 59, 51, 50, 59, 51, 51>>) \o Glyphs(<<73>>)), \* too long
   Logs("Trace", Glyphs(<<74>>))}
=============================================================================
