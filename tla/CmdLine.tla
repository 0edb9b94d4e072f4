------------------------------ MODULE CmdLine -------------------------------
(***************************************************************************)
(* The kernel command line (Console::ParseCmd): which port, if any, the    *)
(* `-console=debugcon,<port>` argument asks for.  A line is a sequence of  *)
(* one-character strings; the code's terminating NUL is the end of it.     *)
(***************************************************************************)
EXTENDS Integers, Sequences, SequencesExt

NUL == "end"
Space == " "
Comma == ","
At(line, i) == IF i <= Len(line) THEN line[i] ELSE NUL

-----------------------------------------------------------------------------
(* Util/String.h.                                                          *)

\* strncmp(s, t, n) = 0
SameFor(s, t, n) ==
  \A i \in 1 .. n : At(s, i) = At(t, i) \/ \E j \in 1 .. i - 1 : At(s, j) = NUL

HexDigits == <<"0", "1", "2", "3", "4", "5", "6", "7", "8", "9",
               "a", "b", "c", "d", "e", "f">>
DigitValue(ch) ==
  IF \E i \in 1 .. 16 : HexDigits[i] = ch
  THEN (CHOOSE i \in 1 .. 16 : HexDigits[i] = ch) - 1
  ELSE 36   \* no digit in any base up to 16

\* The number that a sequence of digits stands for.
Number(digits, base) ==
  LET value[k \in 0 .. Len(digits)] ==
        IF k = 0 THEN 0 ELSE value[k - 1] * base + DigitValue(digits[k])
  IN  value[Len(digits)]

\* strtol(nptr, nullptr, 0) after the sign, of lower case letters and numbers
\* that stay small.
Magnitude(t) ==
  LET hex == At(t, 1) = "0" /\ At(t, 2) = "x" /\ DigitValue(At(t, 3)) < 16
      base == IF hex THEN 16 ELSE IF At(t, 1) = "0" THEN 8 ELSE 10
      digits == IF hex THEN SubSeq(t, 3, Len(t)) ELSE t
      n == CHOOSE k \in 0 .. Len(digits) :
             /\ \A i \in 1 .. k : DigitValue(digits[i]) < base
             /\ DigitValue(At(digits, k + 1)) >= base
  IN  Number(SubSeq(digits, 1, n), base)

StrToL(s) ==
  LET first == CHOOSE k \in 1 .. Len(s) + 1 :
                 At(s, k) # Space /\ \A i \in 1 .. k - 1 : s[i] = Space
      sign == At(s, first)
  IN  CASE sign = "-" -> -Magnitude(SubSeq(s, first + 1, Len(s)))
        [] sign = "+" -> Magnitude(SubSeq(s, first + 1, Len(s)))
        [] OTHER -> Magnitude(SubSeq(s, first, Len(s)))

-----------------------------------------------------------------------------
Debugcon == <<"d", "e", "b", "u", "g", "c", "o", "n">>
ConsoleKey == <<"c", "o", "n", "s", "o", "l", "e">>

\* ParseCmdToken: the port after the value from `start` on, of n characters.
\* What follows the first comma, or the value, is read as the port.
ParseCmdToken(line, start, n, port) ==
  LET rest == SubSeq(line, start, Len(line))
      typeLen == CHOOSE k \in 0 .. n :
                   /\ \A i \in 1 .. k : rest[i] # Comma
                   /\ k = n \/ rest[k + 1] = Comma
      past == IF typeLen < n THEN typeLen + 1 ELSE n
  IN  IF SameFor(Debugcon, rest, typeLen)
      THEN StrToL(SubSeq(rest, past + 1, Len(rest))) % 65536
      ELSE port

\* The scanner: its state, and the key and value as (first, length).
Scanner == [state |-> "IDLE", key |-> 0, keyLen |-> 0, value |-> 0,
            valueLen |-> 0, port |-> 0]

\* Mutant: a space does not end a value.
ValueEndsAtNul == {NUL}

ValueEnds == {Space, NUL}

\* The body of ParseCmd's loop, at character i.
Scan(line, s, i) ==
  LET ch == At(line, i)
      key == SubSeq(line, s.key, Len(line))
  IN  CASE s.state = "IDLE" /\ ch = "-" ->
             [s EXCEPT !.state = "KEY", !.key = i + 1, !.keyLen = 0]
        [] s.state = "KEY" /\ ch = "=" ->
             [s EXCEPT !.state = "VALUE", !.value = i + 1, !.valueLen = 0]
        [] s.state = "KEY" /\ ch = Space -> [s EXCEPT !.state = "IDLE"]
        [] s.state = "KEY" /\ ch \notin {"=", Space} -> [s EXCEPT !.keyLen = @ + 1]
        [] s.state = "VALUE" /\ ch \in ValueEnds ->
             [s EXCEPT !.state = "IDLE",
                       !.port = IF SameFor(ConsoleKey, key, s.keyLen)
                                THEN ParseCmdToken(line, s.value, s.valueLen, @)
                                ELSE @]
        [] s.state = "VALUE" /\ ch \notin ValueEnds -> [s EXCEPT !.valueLen = @ + 1]
        [] OTHER -> s

ParseCmd(line) ==
  LET scanner[i \in 0 .. Len(line) + 1] ==
        IF i = 0 THEN Scanner ELSE Scan(line, scanner[i - 1], i)
  IN  scanner[Len(line) + 1].port

-----------------------------------------------------------------------------
(* Command lines as their writers see them: arguments, some with values.   *)
(* A type that is empty is no value at all, and a port that is empty is    *)
(* not given.                                                              *)

Word == Seq(STRING)
Ports == 0 .. 65535
Argument == [key : Word, type : Word, port : Word,
             number : Ports]  \* number is what the port is written for

TypeAndPort(a) == a.type \o (IF a.port = << >> THEN << >> ELSE <<Comma>> \o a.port)

Written(a) ==
  <<"-">> \o a.key \o
    (IF a.type = << >> THEN << >> ELSE <<"=">> \o TypeAndPort(a))

Line(args) ==
  LET line[n \in 0 .. Len(args)] ==
        IF n = 0 THEN << >>
        ELSE line[n - 1] \o (IF n = 1 THEN << >> ELSE <<Space>>) \o Written(args[n])
  IN  line[Len(args)]

\* An argument that can be told from its neighbours, and is not taken for the
\* console argument that it is the beginning of: strncmp compares as much of
\* a name as is written.  A key that begins with a digit would be read as the
\* port of a debug console before it that names none.
Legible(a) ==
  /\ \A word \in {a.key, a.type, a.port} : \A i \in DOMAIN word : word[i] \notin {Space, NUL}
  /\ \A i \in DOMAIN a.key : a.key[i] # "="
  /\ \A i \in DOMAIN a.type : a.type[i] # Comma
  /\ DigitValue(At(a.key, 1)) >= 10
  /\ a.type # << >> => ~IsStrictPrefix(a.key, ConsoleKey) /\ ~IsStrictPrefix(a.type, Debugcon)
  /\ a.number = StrToL(a.port) % 65536
=============================================================================
