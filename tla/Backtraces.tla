----------------------------- MODULE Backtraces -----------------------------
(***************************************************************************)
(* Where the kernel's symbols are (Util/Backtrace): the two tables that    *)
(* ParseKernelElf finds in the loaded kernel file, as section indexes and  *)
(* lengths, and whether a backtrace reads them.                            *)
(*                                                                         *)
(* A file is [magic, secHdrSize, sections]; section i of the file is       *)
(* sections[i + 1], [type, link, size].                                    *)
(***************************************************************************)
EXTENDS Integers, Sequences, SequencesExt

NoSymbols == [symtab |-> 0, symtabLen |-> 0, strtab |-> 0, strtabLen |-> 0]

NoFile == << >>    \* a null pointer

Elf64_Shdr == 64   \* its size

\* One section header; a table without strings ends the search.  (The code
\* takes a link to the section after the last one for valid, and reads what is
\* behind the headers; no linker writes such a file.)
ParseSection(s, file, i) ==
  LET section == file.sections[i + 1]
      found == [s EXCEPT !.symtab = i, !.symtabLen = section.size]
  IN  IF s.done \/ section.type # "SYMTAB" THEN s
      ELSE IF section.link >= Len(file.sections) \/ section.link = 0
      THEN [found EXCEPT !.done = TRUE]
      ELSE [found EXCEPT !.strtab = section.link,
                         !.strtabLen = file.sections[section.link + 1].size]

SymbolsOf(symbols, file) ==
  LET s == FoldLeft(LAMBDA t, i : ParseSection(t, file, i - 1),
                    [f \in DOMAIN symbols \cup {"done"} |->
                       IF f = "done" THEN FALSE ELSE symbols[f]],
                    [i \in DOMAIN file.sections |-> i])
  IN  [f \in DOMAIN symbols |-> s[f]]

\* Mutant: without a file, the tables stay as they are.
ParseKernelElfKeeping(symbols, file) ==
  IF file = NoFile \/ ~file.magic \/ Elf64_Shdr < file.secHdrSize THEN symbols
  ELSE SymbolsOf(symbols, file)

ParseKernelElf(symbols, file) ==
  CASE file = NoFile -> NoSymbols
    [] file # NoFile /\ (~file.magic \/ Elf64_Shdr < file.secHdrSize) -> symbols
    [] OTHER -> SymbolsOf(symbols, file)

\* Symbolicate, for an address in the kernel's text, reads the tables when it
\* has both.
Symbolicates(symbols) == \A f \in DOMAIN symbols : symbols[f] # 0
=============================================================================
