------------------------------- MODULE FbCons -------------------------------
(***************************************************************************)
(* The framebuffer text console (Shared/FbCons): what one character does   *)
(* to it.  A console is a record of the class's fields; characters are     *)
(* their codes.  A character cell stands for its pixels: what it shows is  *)
(* the glyph and the two colours it was blitted with, and the framebuffer  *)
(* is counted in cells, so that the cell in column x of row y is at        *)
(* y * Stride + x.                                                         *)
(***************************************************************************)
EXTENDS Integers, Sequences, FiniteSets, SequencesExt

CONSTANTS
  Width, Height,  \* bufferChars
  GivenStride,    \* the constructor's stride argument, in cells
  ScrollAmount,   \* kScrollAmount (5)
  AnsiBufSize     \* kAnsiBufSize (32)

ASSUME FbConsAssumption ==
  /\ {Width, Height, AnsiBufSize} \subseteq Nat \ {0}
  /\ ScrollAmount \in 1 .. Height /\ GivenStride \in Nat
  /\ GivenStride = 0 \/ GivenStride >= Width

\* bufferStride, in cells; 0 asks for packed rows.
Stride == IF GivenStride = 0 THEN Width ELSE GivenStride

\* The codes of the characters that the console treats specially.
Code == [newline |-> 10, escape |-> 27, space |-> 32, zero |-> 48,
         semicolon |-> 59, query |-> 63, H |-> 72, bracket |-> 91, m |-> 109]

Final(ch) == ch \in 64 .. 126    \* the last byte of a control sequence
Digit(ch) == ch \in 48 .. 57

\* Red, green, blue; the alpha channel is 255.
Palette == <<
  <<0, 0, 0>>, <<205, 49, 49>>, <<13, 188, 121>>, <<229, 229, 16>>,
  <<36, 114, 200>>, <<188, 63, 188>>, <<17, 168, 205>>, <<229, 229, 229>>,
  <<102, 102, 102>>, <<241, 76, 76>>, <<35, 209, 139>>, <<245, 245, 67>>,
  <<59, 142, 234>>, <<214, 112, 214>>, <<41, 184, 219>>, <<229, 229, 229>> >>

\* A pixel as its bytes, the highest first.
Convert(color, order) ==
  IF order = "RGBA" THEN color \o <<255>> ELSE <<255>> \o color

\* VmEnabled asks for ARGB.
Pixel(index) == Convert(Palette[(index % Len(Palette)) + 1], "ARGB")

UpdateColors(c) ==
  [c EXCEPT !.colors = [k \in {"fg", "bg"} |-> Pixel(c.colorIndices[k])]]

ResetIndices == [fg |-> 15, bg |-> 0]

Cells == 0 .. Stride * Height - 1
Cleared(bg) == <<Code.space, bg, bg>>

\* clear() leaves what the stride adds to a row as it is.
Clear(c) ==
  [c EXCEPT !.video = [a \in Cells |->
     IF a % Stride < Width THEN Cleared(c.colors.bg) ELSE @[a]]]

\* The constructor, over a framebuffer that shows `video`.
NewConsole(video) ==
  Clear(UpdateColors(
    [cursorPos |-> [x |-> 0, y |-> 0], writeState |-> "Idle", ansiBuf |-> << >>,
     colorIndices |-> ResetIndices, colors |-> ResetIndices, video |-> video]))

-----------------------------------------------------------------------------
(* A character either goes through, or the console does something on the   *)
(* way that takes steps of its own: it scrolls, or it logs a message, by   *)
(* the panic of memcpy, a page fault, or the warning about a sequence.     *)

Done(c) == [con |-> c, call |-> "none"]
Calls(c, what) == [con |-> c, call |-> what]

\* memcpy refuses ranges that overlap.
Overlap(from, length) == length > from

Rows(n) == n * Stride

\* Mutant: the rows that the scrolling uncovers are not cleared.
ScrolledUncleared(c) ==
  [c EXCEPT !.video = [a \in Cells |->
     IF a < Rows(Height - ScrollAmount) THEN @[a + Rows(ScrollAmount)] ELSE @[a]]]

Scrolled(c) ==
  [c EXCEPT !.video = [a \in Cells |->
     CASE a < Rows(Height - ScrollAmount) -> @[a + Rows(ScrollAmount)]
       [] OTHER -> IF a % Stride < Width THEN Cleared(c.colors.bg) ELSE @[a]]]

\* Scrolling is a step of its own, as it takes long.  (All rows past Height are
\* alike, and count as Height + 1.)
NewLine(c) ==
  LET d == [c EXCEPT !.cursorPos = [x |-> 0, y |-> IF @.y > Height THEN @.y ELSE @.y + 1]]
  IN  IF d.cursorPos.y # Height THEN Done(d)
      ELSE IF Overlap(Rows(ScrollAmount), Rows(Height - ScrollAmount))
      THEN Calls(d, "memcpy")
      ELSE Calls(d, "scroll")

\* What of newLine comes after the copying.
EndNewLine(c) == [Scrolled(c) EXCEPT !.cursorPos.y = @ - ScrollAmount]

CursorCell(c) == c.cursorPos.y * Stride + c.cursorPos.x

DrawChar(c, ch) ==
  [c EXCEPT !.video[CursorCell(c)] = <<ch, c.colors.fg, c.colors.bg>>]

\* The font has glyphs for all characters but the negative ones.
Glyph(ch) == IF ch > 127 THEN Code.query ELSE ch

\* Mutant: the line is broken one character too late.
PrintCharPast(c, ch) ==
  IF ch = Code.newline THEN NewLine(c)
  ELSE IF CursorCell(c) \notin Cells THEN Calls(c, "fault")
  ELSE LET d == [DrawChar(c, Glyph(ch)) EXCEPT !.cursorPos.x = @ + 1]
       IN  IF d.cursorPos.x = Width + 1 THEN NewLine(d) ELSE Done(d)

\* A glyph drawn past the framebuffer's end is taken to fault, although the
\* last page of the mapping may have room for it.
PrintChar(c, ch) ==
  IF ch = Code.newline THEN NewLine(c)
  ELSE IF CursorCell(c) \notin Cells THEN Calls(c, "fault")
  ELSE LET d == [DrawChar(c, Glyph(ch)) EXCEPT !.cursorPos.x = @ + 1]
       IN  IF d.cursorPos.x = Width THEN NewLine(d) ELSE Done(d)

-----------------------------------------------------------------------------
(* Control sequences.                                                      *)

StrToInt(str) ==
  LET n == CHOOSE k \in 0 .. Len(str) :
             /\ \A i \in 1 .. k : Digit(str[i])
             /\ k = Len(str) \/ ~Digit(str[k + 1])
  IN  FoldLeft(LAMBDA i, ch : i * 10 + (ch - Code.zero), 0, SubSeq(str, 1, n))

\* The numbers of a sequence, between its semicolons.
Numbers(params) ==
  LET ends == {i \in DOMAIN params : params[i] = Code.semicolon} \cup {Len(params) + 1}
      end(n) == CHOOSE i \in ends : Cardinality({j \in ends : j < i}) = n - 1
  IN  [n \in 1 .. Cardinality(ends) |->
         SubSeq(params, IF n = 1 THEN 1 ELSE end(n - 1) + 1, end(n) - 1)]

SgrAttribute(indices, str) ==
  LET cmd == StrToInt(str)
  IN  CASE str = << >> \/ str = <<Code.zero>> -> ResetIndices
        [] cmd \in 30 .. 37 -> [indices EXCEPT !.fg = cmd - 30]
        [] cmd \in 40 .. 47 -> [indices EXCEPT !.bg = cmd - 40]
        [] cmd \in 90 .. 97 -> [indices EXCEPT !.fg = cmd - 90 + 8]
        [] cmd \in 100 .. 107 -> [indices EXCEPT !.bg = cmd - 100 + 8]
        [] OTHER -> indices

\* A single 'm' is a reset; a number that is empty at the end is not read.
ProcessAnsiSgr(c) ==
  LET numbers == Numbers(Front(c.ansiBuf))
      attributes == IF Len(numbers) > 1 /\ Last(numbers) = << >> THEN Front(numbers)
                    ELSE numbers
  IN  UpdateColors(
        [c EXCEPT !.colorIndices = FoldLeft(SgrAttribute, @, attributes)])

Position(str) == IF StrToInt(str) = 0 THEN 0 ELSE StrToInt(str) - 1

\* Rows and columns alternate.  A column that is not given stays.
ProcessAnsiCup(c) ==
  LET numbers == Numbers(Front(c.ansiBuf))
      last(odd) == CHOOSE i \in {Len(numbers) - 1, Len(numbers)} : i % 2 = odd
  IN  [c EXCEPT !.cursorPos.y = Position(numbers[last(1)]),
                !.cursorPos.x = IF Len(numbers) = 1 THEN @
                                ELSE Position(numbers[last(0)])]

ProcessAnsi(c) ==
  CASE Last(c.ansiBuf) = Code.m -> Done(ProcessAnsiSgr(c))
    [] Last(c.ansiBuf) = Code.H -> Done(ProcessAnsiCup(c))
    [] OTHER -> Calls(c, "unhandled")

\* processAnsi has returned.
ToIdle(c) == [c EXCEPT !.writeState = "Idle"]

\* Console::write of one character.
WriteChar(c, ch) ==
  CASE c.writeState = "Idle" ->
         IF ch = Code.escape
         THEN Done([c EXCEPT !.writeState = "AnsiEscapeStart"])
         ELSE PrintChar(c, ch)
    [] c.writeState = "AnsiEscapeStart" ->
         IF ch = Code.bracket
         THEN Done([c EXCEPT !.writeState = "AnsiReadingCSI", !.ansiBuf = << >>])
         ELSE Done(ToIdle(c))
    [] OTHER ->  \* AnsiReadingCSI
         LET d == [c EXCEPT !.ansiBuf = Append(@, ch)]
         IN  IF Final(ch)
             THEN LET r == ProcessAnsi(d)
                  IN  IF r.call = "none" THEN Done(ToIdle(r.con)) ELSE r
             ELSE Done(IF Len(d.ansiBuf) = AnsiBufSize THEN ToIdle(d) ELSE d)
=============================================================================
