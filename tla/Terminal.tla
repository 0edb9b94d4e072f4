------------------------------ MODULE Terminal ------------------------------
(***************************************************************************)
(* What a text screen is meant to show, by commands instead of bytes: a    *)
(* reference for the framebuffer console.  A terminal is its rows (from    *)
(* the top), the place of the cursor and the pen, two palette indices; a   *)
(* cell is a character and the pen it was put with.  `Text` is how a       *)
(* program spells a command.                                               *)
(***************************************************************************)
EXTENDS Integers, Sequences, SequencesExt

CONSTANTS
  Columns, Lines,
  Scroll           \* rows that go when the last one is left

Space == 32
Empty(t) == <<Space, t.bg, t.bg>>
EmptyRow(t) == [x \in 1 .. Columns |-> Empty(t)]

SwitchedOn ==
  LET t == [rows |-> << >>, x |-> 0, y |-> 0, fg |-> 15, bg |-> 0]
  IN  [t EXCEPT !.rows = [y \in 1 .. Lines |-> EmptyRow(t)]]

\* Rows only ever leave at the top; the others move up unchanged.
LineFeed(t) ==
  IF t.y + 1 < Lines THEN [t EXCEPT !.x = 0, !.y = @ + 1]
  ELSE [t EXCEPT !.rows = SubSeq(@, Scroll + 1, Lines)
                            \o [y \in 1 .. Scroll |-> EmptyRow(t)],
                 !.x = 0, !.y = Lines - Scroll]

Put(t, ch) ==
  LET u == [t EXCEPT !.rows[t.y + 1][t.x + 1] = <<ch, t.fg, t.bg>>, !.x = @ + 1]
  IN  IF u.x = Columns THEN LineFeed(u) ELSE u

Paint(t, p) ==
  CASE p.what = "fg" -> [t EXCEPT !.fg = p.index]
    [] p.what = "bg" -> [t EXCEPT !.bg = p.index]
    [] p.what = "reset" -> [t EXCEPT !.fg = 15, !.bg = 0]

\* "put" a character, "newline", "paint" with a list of attributes, "move" to a
\* column and row counted from 0; "skip" is anything that shows nothing.
Do(t, cmd) ==
  CASE cmd.op = "put" -> Put(t, cmd.shows)
    [] cmd.op = "newline" -> LineFeed(t)
    [] cmd.op = "paint" -> FoldLeft(Paint, t, cmd.attributes)
    [] cmd.op = "move" -> [t EXCEPT !.x = cmd.x, !.y = cmd.y]
    [] cmd.op = "skip" -> t

DoAll(t, cmds) == FoldLeft(Do, t, cmds)

-----------------------------------------------------------------------------
Digits(n) ==
  LET all == <<48 + n \div 100, 48 + ((n \div 10) % 10), 48 + (n % 10)>>
  IN  SubSeq(all, IF n < 10 THEN 3 ELSE IF n < 100 THEN 2 ELSE 1, 3)

AttributeText(p) ==
  CASE p.what = "reset" -> Digits(0)
    [] p.what = "fg" -> Digits(p.index + (IF p.index < 8 THEN 30 ELSE 82))
    [] p.what = "bg" -> Digits(p.index + (IF p.index < 8 THEN 40 ELSE 92))

Joined(s, t) == IF s = << >> THEN t ELSE s \o <<59>> \o t

Text(cmd) ==
  CASE cmd.op = "put" -> <<cmd.char>>
    [] cmd.op = "newline" -> <<10>>
    [] cmd.op = "paint" ->
         <<27, 91>> \o FoldLeft(LAMBDA s, p : Joined(s, AttributeText(p)),
                                << >>, cmd.attributes) \o <<109>>
    [] cmd.op = "move" ->
         <<27, 91>> \o Joined(Digits(cmd.y + 1), Digits(cmd.x + 1)) \o <<72>>
    [] cmd.op = "skip" -> cmd.text

TextOf(cmds) == FlattenSeq([i \in DOMAIN cmds |-> Text(cmds[i])])
=============================================================================
