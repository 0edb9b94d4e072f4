--------------------------- MODULE CmdLine_proofs ---------------------------
(***************************************************************************)
(* Proofs about the kernel command line: the scanner reads back the port   *)
(* that a line of arguments, of any number and any length, was written to  *)
(* ask for.                                                                *)
(***************************************************************************)
EXTENDS CmdLine, WellFoundedInduction, TLAPS

\* Numbers have a least one.
LEMMA LeastNat ==
  ASSUME NEW Q, Q \subseteq Nat, Q # {}
  PROVE  \E n \in Q : \A m \in Q : n <= m
<1> DEFINE R == OpToRel(<, Nat)
<1>1. \A a, b \in Nat : a < b => <<a, b>> \in R
  BY DEF OpToRel
<1>2. IsWellFoundedOn(R, Nat)
  BY NatLessThanWellFounded
<1> HIDE DEF R
<1>3. PICK n \in Q : \A m \in Q : ~(<<m, n>> \in R)
  BY <1>2, WFMin
<1>4. \A m \in Q : m \in Nat /\ n \in Nat /\ ~(m < n)
  BY <1>1, <1>3
<1>5. QED
  BY <1>4

LEMMA Induct ==
  ASSUME NEW S, 0 \in S, \A n \in Nat : n \in S => n + 1 \in S
  PROVE  Nat \subseteq S
<1> DEFINE Q == Nat \ S
<1>1. SUFFICES ASSUME Q # {} PROVE FALSE
  OBVIOUS
<1>2. PICK n \in Q : \A m \in Q : n <= m
  <2>1. Q \subseteq Nat
    OBVIOUS
  <2> HIDE DEF Q
  <2>2. QED
    BY <1>1, <2>1, LeastNat
<1>3. n \in Nat /\ n # 0
  BY <1>2
<1>4. n - 1 \in Nat /\ ~(n <= n - 1) /\ n - 1 + 1 = n
  BY <1>3
<1>5. n - 1 \in S
  BY <1>2, <1>4
<1>6. QED
  BY <1>2, <1>4, <1>5


\* u records the scanner before the first n characters of a line and after
\* each of them.
Scanners(line, n, u) ==
  u = [i \in 0 .. n |-> IF i = 0 THEN Scanner ELSE Scan(line, u[i - 1], i)]

LEMMA ScannersExist ==
  ASSUME NEW line, NEW n \in Nat
  PROVE  \E u : Scanners(line, n, u)
<1> DEFINE S == {k \in Nat : \E u : Scanners(line, k, u)}
<1>1. 0 \in S
  <2>1. Scanners(line, 0, [i \in 0 .. 0 |-> Scanner])
    BY DEF Scanners
  <2>2. QED
    BY <2>1
<1>2. ASSUME NEW k \in Nat, k \in S PROVE k + 1 \in S
  <2>1. PICK u : Scanners(line, k, u)
    BY <1>2
  <2> DEFINE v == [i \in 0 .. k + 1 |->
                     IF i = k + 1 THEN Scan(line, u[k], k + 1) ELSE u[i]]
  <2>2. ASSUME NEW i \in 0 .. k + 1
        PROVE  v[i] = IF i = 0 THEN Scanner ELSE Scan(line, v[i - 1], i)
    <3>1. CASE i = k + 1
      <4>1. v[i] = Scan(line, u[k], k + 1) /\ v[k] = u[k] /\ i - 1 = k /\ i # 0
        BY <3>1
      <4> HIDE DEF v
      <4>2. QED
        BY <3>1, <4>1
    <3>2. CASE i # k + 1
      <4>1. i \in 0 .. k /\ (i # 0 => i - 1 \in 0 .. k /\ i - 1 # k + 1)
        BY <3>2
      <4>2. v[i] = u[i] /\ (i # 0 => v[i - 1] = u[i - 1])
        BY <4>1, <3>2
      <4>3. u[i] = IF i = 0 THEN Scanner ELSE Scan(line, u[i - 1], i)
        BY <2>1, <4>1 DEF Scanners
      <4> HIDE DEF v
      <4>4. QED
        BY <4>2, <4>3
    <3>3. QED
      BY <3>1, <3>2
  <2>3. v = [i \in 0 .. k + 1 |-> v[i]]
    OBVIOUS
  <2> HIDE DEF v
  <2>4. Scanners(line, k + 1, v)
    BY <2>2, <2>3 DEF Scanners
  <2>5. QED
    BY <2>4
<1>3. Nat \subseteq S
  <2> HIDE DEF S
  <2>1. QED
    BY <1>1, <1>2, Induct
<1>4. QED
  BY <1>3

\* The loop of ParseCmd runs once for each character and for the NUL.
LEMMA ParseCmdScans ==
  ASSUME NEW line, Len(line) \in Nat
  PROVE  \E u : /\ u[0] = Scanner
                /\ \A i \in 1 .. Len(line) + 1 : u[i] = Scan(line, u[i - 1], i)
                /\ ParseCmd(line) = u[Len(line) + 1].port
<1> DEFINE n == Len(line) + 1
           D(u) == [i \in 0 .. n |-> IF i = 0 THEN Scanner ELSE Scan(line, u[i - 1], i)]
<1>1. n \in Nat
  OBVIOUS
<1>2. PICK t : t = D(t)
  <2>1. \E u : Scanners(line, n, u)
    BY <1>1, ScannersExist
  <2>2. QED
    BY <2>1 DEF Scanners
<1>3. PICK u : u = D(u) /\ ParseCmd(line) = u[n].port
  <2> DEFINE c == CHOOSE u : u = D(u)
  <2>1. c = D(c)
    BY <1>2
  <2>2. ParseCmd(line) = c[n].port
    BY DEF ParseCmd
  <2>3. QED
    BY <2>1, <2>2
<1>4. u[0] = Scanner
  BY <1>1, <1>3
<1>5. \A i \in 1 .. n : u[i] = Scan(line, u[i - 1], i)
  BY <1>1, <1>3
<1>6. QED
  BY <1>3, <1>4, <1>5

\* No digits stand for 0.
LEMMA NoDigits == \A base : Number(<< >>, base) = 0
<1> SUFFICES ASSUME NEW base PROVE Number(<< >>, base) = 0
  OBVIOUS
<1> DEFINE D(u) == [k \in 0 .. Len(<< >>) |->
                      IF k = 0 THEN 0 ELSE u[k - 1] * base + DigitValue(<< >>[k])]
           c == CHOOSE u : u = D(u)
<1>1. Len(<< >>) = 0 /\ 0 .. 0 = {0}
  OBVIOUS
<1>2. D([k \in 0 .. 0 |-> 0]) = [k \in 0 .. 0 |-> 0]
  BY <1>1
<1>3. c = D(c)
  BY <1>2
<1>4. c[0] = 0
  BY <1>1, <1>3
<1>5. QED
  BY <1>1, <1>4 DEF Number

\* Characters with a meaning of their own.
LEMMA Separators ==
  /\ Space # NUL /\ Comma # NUL /\ Space # "=" /\ Space # "-" /\ Space # Comma
  /\ Space # "0" /\ Space # "x" /\ NUL # "=" /\ NUL # "-" /\ NUL # "0" /\ NUL # "x"
BY Zenon DEF Space, Comma, NUL

\* Separators are no digits.
LEMMA SeparatorValues ==
  DigitValue(Space) = 36 /\ DigitValue(NUL) = 36 /\ DigitValue("=") = 36 /\ DigitValue("-") = 36
BY DEF DigitValue, HexDigits, NUL, Space

LEMMA DigitValues == \A ch : DigitValue(ch) \in Nat
<1> SUFFICES ASSUME NEW ch PROVE DigitValue(ch) \in Nat
  OBVIOUS
<1>1. CASE \E i \in 1 .. 16 : HexDigits[i] = ch
  <2> DEFINE c == CHOOSE i \in 1 .. 16 : HexDigits[i] = ch
  <2>1. c \in 1 .. 16
    BY <1>1, Zenon
  <2>2. DigitValue(ch) = c - 1
    BY <1>1 DEF DigitValue
  <2> HIDE DEF c
  <2>3. QED
    BY <2>1, <2>2
<1>2. CASE ~ \E i \in 1 .. 16 : HexDigits[i] = ch
  BY <1>2 DEF DigitValue
<1>3. QED
  BY <1>1, <1>2

LEMMA ZeroValue == DigitValue("0") = 0
<1> DEFINE c == CHOOSE i \in 1 .. 16 : HexDigits[i] = "0"
<1>1. HexDigits[1] = "0" /\ 1 \in 1 .. 16
  BY DEF HexDigits
<1>2. c \in 1 .. 16 /\ HexDigits[c] = "0"
  BY <1>1
<1>3. c = 1
  BY <1>2 DEF HexDigits
<1>4. QED
  BY <1>1, <1>3 DEF DigitValue

\* Of the characters of d, the first k are digits and the next is not.
Run(d, base, k) ==
  /\ \A i \in 1 .. k : DigitValue(d[i]) < base
  /\ DigitValue(At(d, k + 1)) >= base

LEMMA RunExists ==
  ASSUME NEW C, NEW d \in Seq(C), NEW base \in {8, 10, 16}
  PROVE  \E k \in 0 .. Len(d) : Run(d, base, k)
<1> DEFINE Q == {k \in Nat : DigitValue(At(d, k + 1)) >= base}
<1>1. Len(d) \in Q
  <2>1. Len(d) \in Nat /\ At(d, Len(d) + 1) = NUL
    BY DEF At
  <2>2. DigitValue(NUL) >= base
    BY SeparatorValues
  <2>3. QED
    BY <2>1, <2>2
<1>2. PICK k \in Q : \A m \in Q : k <= m
  <2>1. Q \subseteq Nat /\ Q # {}
    BY <1>1
  <2> HIDE DEF Q
  <2>2. QED
    BY <2>1, LeastNat
<1>3. k \in 0 .. Len(d)
  BY <1>1, <1>2
<1>4. ASSUME NEW i \in 1 .. k PROVE DigitValue(d[i]) < base
  <2>1. i - 1 \in Nat /\ ~(k <= i - 1) /\ i <= Len(d) /\ i - 1 + 1 = i
    BY <1>3
  <2>2. At(d, i) = d[i]
    BY <2>1 DEF At
  <2>3. ~(DigitValue(At(d, i)) >= base)
    BY <1>2, <2>1
  <2>4. QED
    BY <2>2, <2>3, DigitValues
<1>5. QED
  BY <1>2, <1>3, <1>4 DEF Run

LEMMA RunUnique ==
  ASSUME NEW C, NEW d \in Seq(C), NEW base \in {8, 10, 16},
         NEW k \in 0 .. Len(d), Run(d, base, k)
  PROVE  k = CHOOSE m \in 0 .. Len(d) :
               /\ \A i \in 1 .. m : DigitValue(d[i]) < base
               /\ DigitValue(At(d, m + 1)) >= base
<1> SUFFICES ASSUME NEW m \in 0 .. Len(d), Run(d, base, m) PROVE m = k
  BY DEF Run
<1>1. Len(d) \in Nat
  OBVIOUS
<1>2. ASSUME NEW a \in 0 .. Len(d), NEW b \in 0 .. Len(d), Run(d, base, a), Run(d, base, b),
             a < b
      PROVE  FALSE
  <2>1. a + 1 \in 1 .. b /\ a + 1 <= Len(d)
    BY <1>1, <1>2
  <2>2. DigitValue(d[a + 1]) < base
    BY <1>2, <2>1 DEF Run
  <2>3. DigitValue(At(d, a + 1)) >= base /\ At(d, a + 1) = d[a + 1]
    BY <1>2, <2>1 DEF Run, At
  <2>4. QED
    BY <2>2, <2>3, DigitValues
<1>3. QED
  BY <1>1, <1>2

\* A number is the same whatever follows it after a separator.
LEMMA MagnitudeEnds ==
  ASSUME NEW C, NEW t \in Seq(C), NEW s \in Seq(C), Len(t) <= Len(s),
         \A i \in 1 .. Len(t) : s[i] = t[i],
         At(s, Len(t) + 1) \in {Space, NUL},
         \A i \in 1 .. Len(t) : t[i] # NUL
  PROVE  Magnitude(s) = Magnitude(t)
<1>1. Len(t) \in Nat /\ Len(s) \in Nat
  OBVIOUS
<1>2. \A i \in 1 .. Len(t) : At(s, i) = At(t, i) /\ At(t, i) = t[i]
  BY <1>1 DEF At
<1>3. At(t, Len(t) + 1) = NUL
  BY <1>1 DEF At
<1> DEFINE Hex(u) == At(u, 1) = "0" /\ At(u, 2) = "x" /\ DigitValue(At(u, 3)) < 16
           Base(u) == IF Hex(u) THEN 16 ELSE IF At(u, 1) = "0" THEN 8 ELSE 10
           Digits(u) == IF Hex(u) THEN SubSeq(u, 3, Len(u)) ELSE u
           Count(u) == CHOOSE k \in 0 .. Len(Digits(u)) :
             /\ \A i \in 1 .. k : DigitValue(Digits(u)[i]) < Base(u)
             /\ DigitValue(At(Digits(u), k + 1)) >= Base(u)
<1>4. \A u : Magnitude(u) = Number(SubSeq(Digits(u), 1, Count(u)), Base(u))
  BY DEF Magnitude
<1>5. Hex(s) <=> Hex(t)
  <2>1. CASE Len(t) = 0
    <3>1. At(s, 1) # "0" /\ At(t, 1) # "0"
      BY <1>3, <2>1, Separators
    <3>2. QED
      BY <3>1
  <2>2. CASE Len(t) = 1
    <3>1. At(s, 2) # "x" /\ At(t, 2) # "x"
      BY <1>3, <2>2, Separators
    <3>2. QED
      BY <3>1
  <2>3. CASE Len(t) = 2
    <3>1. DigitValue(At(s, 3)) = 36 /\ DigitValue(At(t, 3)) = 36
      BY <1>3, <2>3, SeparatorValues
    <3>2. QED
      BY <3>1
  <2>4. CASE Len(t) >= 3
    BY <1>1, <1>2, <2>4
  <2>5. Len(t) = 0 \/ Len(t) = 1 \/ Len(t) = 2 \/ Len(t) >= 3
    <3>1. \A n \in Nat : n = 0 \/ n = 1 \/ n = 2 \/ n >= 3
      OBVIOUS
    <3> HIDE DEF Hex, Base, Digits, Count
    <3>2. QED
      BY <1>1, <3>1
  <2> HIDE DEF Hex
  <2>6. QED
    BY <2>1, <2>2, <2>3, <2>4, <2>5
<1>6. Base(s) = Base(t) /\ Base(t) \in {8, 10, 16}
  <2>1. CASE Len(t) = 0
    <3>1. At(s, 1) # "0" /\ At(t, 1) # "0"
      BY <1>3, <2>1, Separators
    <3>2. QED
      BY <1>5, <3>1
  <2>2. CASE Len(t) # 0
    BY <1>1, <1>2, <1>5, <2>2
  <2>3. QED
    BY <2>1, <2>2
<1>7. Hex(t) => Len(t) >= 3
  BY <1>1, SeparatorValues DEF At, NUL
<1>8. /\ Digits(t) \in Seq(C) /\ Digits(s) \in Seq(C)
      /\ Len(Digits(t)) <= Len(Digits(s))
      /\ \A i \in 1 .. Len(Digits(t)) : Digits(s)[i] = Digits(t)[i]
      /\ At(Digits(s), Len(Digits(t)) + 1) \in {Space, NUL}
  <2>1. CASE Hex(t)
    <3>1. Digits(t) = SubSeq(t, 3, Len(t)) /\ Digits(s) = SubSeq(s, 3, Len(s))
      BY <1>5, <2>1
    <3>2. Len(t) >= 3 /\ Len(s) >= 3
      BY <1>1, <1>7, <2>1
    <3>3. /\ Digits(t) \in Seq(C) /\ Digits(s) \in Seq(C)
          /\ Len(Digits(t)) = Len(t) - 2 /\ Len(Digits(s)) = Len(s) - 2
          /\ \A i \in 1 .. Len(t) - 2 : Digits(t)[i] = t[i + 2]
          /\ \A i \in 1 .. Len(s) - 2 : Digits(s)[i] = s[i + 2]
      BY <1>1, <3>1, <3>2
    <3> HIDE DEF Digits, Hex
    <3>4. ASSUME NEW i \in 1 .. Len(Digits(t)) PROVE Digits(s)[i] = Digits(t)[i]
      <4>1. i \in 1 .. Len(t) - 2 /\ i \in 1 .. Len(s) - 2 /\ i + 2 \in 1 .. Len(t)
        BY <1>1, <3>2, <3>3
      <4>2. QED
        BY <3>3, <4>1
    <3>5. At(Digits(s), Len(Digits(t)) + 1) = At(s, Len(t) + 1)
      BY <1>1, <3>2, <3>3 DEF At
    <3>6. QED
      BY <1>1, <3>3, <3>4, <3>5
  <2>2. CASE ~Hex(t)
    <3>1. Digits(t) = t /\ Digits(s) = s
      BY <1>5, <2>2
    <3> HIDE DEF Digits, Hex
    <3>2. QED
      BY <3>1
  <2>3. QED
    BY <2>1, <2>2
<1>9. PICK e : e = Digits(t)
  OBVIOUS
<1>10. PICK f : f = Digits(s)
  OBVIOUS
<1>11. PICK b : b = Base(t)
  OBVIOUS
<1> HIDE DEF Hex, Base, Digits
<1>12. PICK k \in 0 .. Len(e) : Run(e, b, k)
  BY <1>6, <1>8, <1>9, <1>11, RunExists
<1>13. e \in Seq(C) /\ f \in Seq(C) /\ Len(e) <= Len(f) /\ Len(e) \in Nat /\ Len(f) \in Nat
  BY <1>8, <1>9, <1>10
<1>14. Run(f, b, k) /\ k \in 0 .. Len(f)
  <2>1. k \in 0 .. Len(f)
    BY <1>13
  <2>2. ASSUME NEW i \in 1 .. k PROVE DigitValue(f[i]) < b
    <3>1. i \in 1 .. Len(e)
      BY <1>13
    <3>2. f[i] = e[i]
      BY <1>8, <1>9, <1>10, <3>1
    <3>3. QED
      BY <1>12, <3>2 DEF Run
  <2>3. DigitValue(At(f, k + 1)) >= b
    <3>1. CASE k = Len(e)
      <4>1. At(f, k + 1) \in {Space, NUL}
        BY <1>8, <1>9, <1>10, <3>1
      <4>2. QED
        BY <4>1, <1>6, <1>11, SeparatorValues
    <3>2. CASE k # Len(e)
      <4>1. k + 1 \in 1 .. Len(e) /\ k + 1 <= Len(f)
        BY <1>13, <3>2
      <4>2. f[k + 1] = e[k + 1]
        BY <1>8, <1>9, <1>10, <4>1
      <4>3. At(f, k + 1) = At(e, k + 1)
        BY <4>1, <4>2 DEF At
      <4>4. QED
        BY <1>12, <4>3 DEF Run
    <3>3. QED
      BY <3>1, <3>2
  <2>4. QED
    BY <2>1, <2>2, <2>3 DEF Run
<1>15. Count(t) = k
  <2>1. k = CHOOSE m \in 0 .. Len(e) :
               /\ \A i \in 1 .. m : DigitValue(e[i]) < b
               /\ DigitValue(At(e, m + 1)) >= b
    BY <1>6, <1>11, <1>12, <1>13, RunUnique, SMTT(30)
  <2>2. QED
    BY <2>1, <1>9, <1>11
<1>16. Count(s) = k
  <2>1. k = CHOOSE m \in 0 .. Len(f) :
               /\ \A i \in 1 .. m : DigitValue(f[i]) < b
               /\ DigitValue(At(f, m + 1)) >= b
    BY <1>6, <1>11, <1>13, <1>14, RunUnique, SMTT(30)
  <2>2. QED
    BY <2>1, <1>6, <1>10, <1>11
<1>17. SubSeq(e, 1, k) = SubSeq(f, 1, k)
  <2>1. \A i \in 1 .. k : e[i] = f[i]
    <3>1. \A i \in 1 .. k : i \in 1 .. Len(e)
      BY <1>13
    <3>2. QED
      BY <1>8, <1>9, <1>10, <3>1
  <2>2. QED
    BY <1>13, <2>1
<1> HIDE DEF Count
<1>18. QED
  BY <1>4, <1>6, <1>9, <1>10, <1>15, <1>16, <1>17

\* What does not begin with a digit is no number.
LEMMA NoMagnitude ==
  ASSUME NEW C, NEW t \in Seq(C), DigitValue(At(t, 1)) >= 10
  PROVE  Magnitude(t) = 0
<1>1. At(t, 1) # "0"
  BY ZeroValue
<1>2. Run(t, 10, 0) /\ 0 \in 0 .. Len(t)
  BY DEF Run
<1>3. Magnitude(t) = Number(SubSeq(t, 1, CHOOSE m \in 0 .. Len(t) :
               /\ \A i \in 1 .. m : DigitValue(t[i]) < 10
               /\ DigitValue(At(t, m + 1)) >= 10), 10)
  BY <1>1 DEF Magnitude
<1>4. Magnitude(t) = Number(SubSeq(t, 1, 0), 10)
  BY <1>2, <1>3, RunUnique
<1>5. SubSeq(t, 1, 0) = << >>
  OBVIOUS
<1>6. QED
  BY <1>4, <1>5, NoDigits

\* The rest of a line, from its k-th character on.
LEMMA Rest ==
  ASSUME NEW C, NEW s \in Seq(C), NEW k \in 1 .. Len(s) + 1, NEW v,
         v = SubSeq(s, k, Len(s))
  PROVE  /\ v \in Seq(C) /\ Len(v) = Len(s) - (k - 1)
         /\ \A i \in 1 .. Len(v) : v[i] = s[i + k - 1]
<1>1. Len(s) \in Nat
  OBVIOUS
<1>2. v \in Seq(C)
  OBVIOUS
<1>3. Len(v) = Len(s) - (k - 1)
  BY <1>1
<1>4. ASSUME NEW i \in 1 .. Len(v) PROVE v[i] = s[i + k - 1]
  <2>1. i \in 1 .. Len(s) - k + 1
    BY <1>1, <1>3
  <2>2. SubSeq(s, k, Len(s))[i] = s[i + k - 1]
    BY <1>1, <2>1
  <2>3. QED
    BY <2>2
<1>5. QED
  BY <1>2, <1>3, <1>4

LEMMA RestAt ==
  ASSUME NEW C, NEW s \in Seq(C), NEW k \in 1 .. Len(s) + 1, NEW i \in Nat \ {0}
  PROVE  At(SubSeq(s, k, Len(s)), i) = At(s, i + k - 1)
<1>1. PICK v : v = SubSeq(s, k, Len(s))
  OBVIOUS
<1>2. Len(v) = Len(s) - (k - 1)
  BY <1>1, Rest
<1>3. \A j \in 1 .. Len(v) : v[j] = s[j + k - 1]
  BY <1>1, Rest
<1>4. At(v, i) = At(s, i + k - 1)
  BY <1>2, <1>3 DEF At
<1>5. QED
  BY <1>1, <1>4

\* Where the number begins after spaces decides what strtol reads.
LEMMA NumberBegins ==
  ASSUME NEW C, NEW s \in Seq(C), NEW k \in 1 .. Len(s) + 1,
         At(s, k) # Space, \A i \in 1 .. k - 1 : s[i] = Space
  PROVE  StrToL(s) = IF At(s, k) = "-" THEN -Magnitude(SubSeq(s, k + 1, Len(s)))
                     ELSE IF At(s, k) = "+" THEN Magnitude(SubSeq(s, k + 1, Len(s)))
                     ELSE Magnitude(SubSeq(s, k, Len(s)))
<1> DEFINE P(m) == At(s, m) # Space /\ \A i \in 1 .. m - 1 : s[i] = Space
           first == CHOOSE m \in 1 .. Len(s) + 1 : P(m)
<1>1. Len(s) \in Nat
  OBVIOUS
<1>2. ASSUME NEW a \in 1 .. Len(s) + 1, NEW b \in 1 .. Len(s) + 1, P(a), P(b), a < b
      PROVE  FALSE
  <2>1. a \in 1 .. b - 1 /\ a <= Len(s)
    BY <1>1, <1>2
  <2>2. s[a] = Space /\ At(s, a) = s[a]
    BY <1>2, <2>1 DEF At
  <2>3. QED
    BY <1>2, <2>2
<1>3. P(k) /\ k \in 1 .. Len(s) + 1
  OBVIOUS
<1>4. first \in 1 .. Len(s) + 1 /\ P(first)
  BY <1>3
<1>5. first = k
  <2> HIDE DEF first, P
  <2>1. first \in Int /\ k \in Int
    BY <1>1, <1>4
  <2>2. QED
    BY <1>2, <1>3, <1>4, <2>1
<1>6. StrToL(s) = CASE At(s, first) = "-" -> -Magnitude(SubSeq(s, first + 1, Len(s)))
                    [] At(s, first) = "+" -> Magnitude(SubSeq(s, first + 1, Len(s)))
                    [] OTHER -> Magnitude(SubSeq(s, first, Len(s)))
  BY Zenon DEF StrToL
<1> HIDE DEF first
<1>7. QED
  BY <1>5, <1>6

\* The port of a console argument is read as it would be alone.
LEMMA PortEnds ==
  ASSUME NEW C, NEW t \in Seq(C), NEW s \in Seq(C), t # << >>, Len(t) <= Len(s),
         \A i \in 1 .. Len(t) : s[i] = t[i],
         At(s, Len(t) + 1) \in {Space, NUL},
         \A i \in 1 .. Len(t) : t[i] # Space /\ t[i] # NUL
  PROVE  StrToL(s) = StrToL(t)
<1>1. Len(t) \in Nat \ {0} /\ Len(s) \in Nat \ {0} /\ 1 \in 1 .. Len(t)
  OBVIOUS
<1>2. At(s, 1) = t[1] /\ At(t, 1) = t[1] /\ t[1] # Space
  BY <1>1 DEF At
<1>3. PICK k \in {1, 2} : k = IF t[1] \in {"-", "+"} THEN 2 ELSE 1
  OBVIOUS
<1>4. Magnitude(SubSeq(s, k, Len(s))) = Magnitude(SubSeq(t, k, Len(t)))
  <2>1. PICK u : u = SubSeq(t, k, Len(t))
    OBVIOUS
  <2>2. PICK v : v = SubSeq(s, k, Len(s))
    OBVIOUS
  <2>3. k \in 1 .. Len(t) + 1 /\ k \in 1 .. Len(s) + 1
    BY <1>1, <1>3
  <2>4. u \in Seq(C) /\ Len(u) = Len(t) - (k - 1)
    BY <2>1, <2>3, Rest
  <2>5. v \in Seq(C) /\ Len(v) = Len(s) - (k - 1)
    BY <2>2, <2>3, Rest
  <2>6. Len(u) <= Len(v) /\ Len(u) \in Nat /\ Len(v) \in Nat
    BY <1>1, <1>3, <2>4, <2>5
  <2>7. \A i \in 1 .. Len(u) : v[i] = u[i] /\ u[i] # NUL
    <3> SUFFICES ASSUME NEW i \in 1 .. Len(u) PROVE v[i] = u[i] /\ u[i] # NUL
      OBVIOUS
    <3>1. i + k - 1 \in 1 .. Len(t) /\ i \in 1 .. Len(v)
      BY <1>1, <1>3, <2>4, <2>6
    <3>2. u[i] = t[i + k - 1]
      BY <2>1, <2>3, Rest
    <3>3. v[i] = s[i + k - 1]
      BY <2>2, <2>3, <3>1, Rest
    <3>4. QED
      BY <3>1, <3>2, <3>3
  <2>8. At(v, Len(u) + 1) \in {Space, NUL}
    <3>1. Len(u) + 1 \in Nat \ {0} /\ Len(u) + 1 + k - 1 = Len(t) + 1
      BY <1>1, <1>3, <2>4
    <3>2. At(v, Len(u) + 1) = At(s, Len(u) + 1 + k - 1)
      BY <2>2, <2>3, <3>1, RestAt
    <3>3. QED
      BY <3>1, <3>2
  <2>9. Magnitude(v) = Magnitude(u)
    BY <2>4, <2>5, <2>6, <2>7, <2>8, MagnitudeEnds
  <2>10. QED
    BY <2>1, <2>2, <2>9
<1>5. \A r \in Seq(C) : At(r, 1) # Space /\ Len(r) \in Nat =>
        StrToL(r) = IF At(r, 1) = "-" THEN -Magnitude(SubSeq(r, 2, Len(r)))
                    ELSE IF At(r, 1) = "+" THEN Magnitude(SubSeq(r, 2, Len(r)))
                    ELSE Magnitude(SubSeq(r, 1, Len(r)))
  <2> SUFFICES ASSUME NEW r \in Seq(C), At(r, 1) # Space, Len(r) \in Nat
               PROVE  StrToL(r) = IF At(r, 1) = "-" THEN -Magnitude(SubSeq(r, 2, Len(r)))
                    ELSE IF At(r, 1) = "+" THEN Magnitude(SubSeq(r, 2, Len(r)))
                    ELSE Magnitude(SubSeq(r, 1, Len(r)))
    OBVIOUS
  <2>1. 1 \in 1 .. Len(r) + 1 /\ 1 + 1 = 2 /\ \A i \in 1 .. 1 - 1 : r[i] = Space
    OBVIOUS
  <2>2. QED
    BY <2>1, NumberBegins
<1>6. CASE t[1] = "-"
  BY <1>1, <1>2, <1>3, <1>4, <1>5, <1>6
<1>7. CASE t[1] = "+"
  BY <1>1, <1>2, <1>3, <1>4, <1>5, <1>7
<1>8. CASE t[1] # "-" /\ t[1] # "+"
  BY <1>1, <1>2, <1>3, <1>4, <1>5, <1>8
<1>9. QED
  BY <1>6, <1>7, <1>8

\* Without a port, strtol reads the end of the line or the next argument.
LEMMA NoPort ==
  ASSUME NEW C, NEW s \in Seq(C),
         \/ s = << >>
         \/ /\ Len(s) >= 2 /\ s[1] = Space /\ s[2] = "-"
            /\ DigitValue(At(s, 3)) >= 10
  PROVE  StrToL(s) = 0
<1>1. Len(s) \in Nat
  OBVIOUS
<1>2. CASE s = << >>
  <2>1. Len(s) = 0 /\ At(s, 1) = NUL
    BY <1>2 DEF At
  <2>2. SubSeq(s, 1, Len(s)) = << >>
    BY <1>2, <2>1
  <2>3. Magnitude(<< >>) = 0
    <3>1. At(<< >>, 1) = NUL /\ << >> \in Seq(C)
      BY DEF At
    <3>2. DigitValue(At(<< >>, 1)) >= 10
      BY <3>1, SeparatorValues
    <3>3. QED
      BY <3>1, <3>2, NoMagnitude
  <2>4. 1 \in 1 .. Len(s) + 1 /\ \A i \in 1 .. 1 - 1 : s[i] = Space
    BY <2>1
  <2>5. At(s, 1) # Space /\ At(s, 1) # "-" /\ At(s, 1) # "+"
    BY <2>1, Separators DEF NUL
  <2>6. StrToL(s) = Magnitude(SubSeq(s, 1, Len(s)))
    BY <2>4, <2>5, NumberBegins
  <2>7. QED
    BY <2>2, <2>3, <2>6
<1>3. CASE /\ Len(s) >= 2 /\ s[1] = Space /\ s[2] = "-"
           /\ DigitValue(At(s, 3)) >= 10
  <2>1. At(s, 2) = "-" /\ At(s, 2) # Space
    BY <1>1, <1>3, Separators DEF At
  <2>2. 2 \in 1 .. Len(s) + 1 /\ \A i \in 1 .. 2 - 1 : s[i] = Space
    BY <1>1, <1>3
  <2>3. StrToL(s) = -Magnitude(SubSeq(s, 3, Len(s)))
    <3>1. StrToL(s) = -Magnitude(SubSeq(s, 2 + 1, Len(s)))
      BY <2>1, <2>2, NumberBegins
    <3>2. QED
      BY <3>1
  <2>4. PICK t : t = SubSeq(s, 3, Len(s))
    OBVIOUS
  <2>5. t \in Seq(C) /\ At(t, 1) = At(s, 3)
    <3>1. 3 \in 1 .. Len(s) + 1
      BY <1>1, <1>3
    <3>2. t \in Seq(C)
      BY <2>4, <3>1, Rest
    <3>3. At(t, 1) = At(s, 1 + 3 - 1)
      BY <2>4, <3>1, RestAt
    <3>4. QED
      BY <3>2, <3>3
  <2>6. Magnitude(t) = 0
    BY <1>3, <2>5, NoMagnitude
  <2>7. QED
    BY <2>3, <2>4, <2>6
<1>4. QED
  BY <1>2, <1>3

\* strncmp for as long as a word is compares the whole word with a name that
\* the word does not abbreviate.
LEMMA SameForWord ==
  ASSUME NEW C, NEW c \in Seq(C), NEW w \in Seq(C), NEW rest \in Seq(C),
         Len(w) <= Len(rest), \A i \in 1 .. Len(w) : rest[i] = w[i] /\ w[i] # NUL,
         \A i \in 1 .. Len(c) : c[i] # NUL,
         ~IsStrictPrefix(w, c)
  PROVE  SameFor(c, rest, Len(w)) <=> w = c
<1>1. Len(c) \in Nat /\ Len(w) \in Nat /\ Len(rest) \in Nat
  OBVIOUS
<1>2. \A i \in 1 .. Len(w) : At(rest, i) = w[i]
  BY <1>1 DEF At
<1>3. \A i \in 1 .. Len(c) : At(c, i) = c[i]
  BY <1>1 DEF At
<1>4. ASSUME w = c PROVE SameFor(c, rest, Len(w))
  BY <1>2, <1>3, <1>4 DEF SameFor
<1>5. ASSUME SameFor(c, rest, Len(w)) PROVE w = c
  <2>1. Len(w) <= Len(c)
    <3>1. SUFFICES ASSUME Len(c) < Len(w) PROVE FALSE
      BY <1>1
    <3>2. PICK i \in 1 .. Len(w) : i = Len(c) + 1
      BY <1>1, <3>1
    <3>3. At(c, i) = NUL /\ At(rest, i) # NUL
      BY <1>1, <1>2, <3>2 DEF At
    <3>4. PICK j \in 1 .. i - 1 : At(c, j) = NUL
      BY <1>5, <3>3 DEF SameFor
    <3>5. j \in 1 .. Len(c)
      BY <1>1, <3>2
    <3>6. QED
      BY <1>3, <3>4, <3>5
  <2>2. ASSUME NEW i \in 1 .. Len(w) PROVE c[i] = w[i]
    <3>1. \A j \in 1 .. i - 1 : j \in 1 .. Len(c)
      BY <1>1, <2>1
    <3>2. ~ \E j \in 1 .. i - 1 : At(c, j) = NUL
      BY <1>3, <3>1
    <3>3. At(c, i) = At(rest, i) /\ i \in 1 .. Len(c)
      BY <1>1, <1>5, <2>1, <3>2 DEF SameFor
    <3>4. QED
      BY <1>2, <1>3, <3>3
  <2>3. SubSeq(w, 1, Len(w)) = SubSeq(c, 1, Len(w))
    BY <1>1, <2>1, <2>2
  <2>4. QED
    BY <2>1, <2>3 DEF IsStrictPrefix, IsPrefix
<1>6. QED
  BY <1>4, <1>5

\* No name that is looked for holds a NUL.
LEMMA NamesPlain ==
  /\ Len(Debugcon) = 8 /\ Len(ConsoleKey) = 7
  /\ \A i \in 1 .. 8 : Debugcon[i] # NUL
  /\ \A i \in 1 .. 7 : ConsoleKey[i] # NUL
<1>1. Len(Debugcon) = 8 /\ Len(ConsoleKey) = 7
  BY DEF Debugcon, ConsoleKey
<1>2. ASSUME NEW i \in 1 .. 8 PROVE Debugcon[i] # NUL
  <2>1. i = 1 \/ i = 2 \/ i = 3 \/ i = 4 \/ i = 5 \/ i = 6 \/ i = 7 \/ i = 8
    OBVIOUS
  <2>2. QED
    BY <2>1 DEF Debugcon, NUL
<1>3. ASSUME NEW i \in 1 .. 7 PROVE ConsoleKey[i] # NUL
  <2>1. i = 1 \/ i = 2 \/ i = 3 \/ i = 4 \/ i = 5 \/ i = 6 \/ i = 7
    OBVIOUS
  <2>2. QED
    BY <2>1 DEF ConsoleKey, NUL
<1>4. QED
  BY <1>1, <1>2, <1>3

\* A value is the type and, after a comma, the port.
IsValue(v, type, port) ==
  /\ \A i \in 1 .. Len(type) : v[i] = type[i]
  /\ port = << >> => Len(v) = Len(type)
  /\ port # << >> => /\ Len(v) = Len(type) + 1 + Len(port)
                     /\ v[Len(type) + 1] = Comma
                     /\ \A i \in 1 .. Len(port) : v[Len(type) + 1 + i] = port[i]

LEMMA ValueParts ==
  ASSUME NEW C, Comma \in C, NEW type \in Seq(C), NEW port \in Seq(C), NEW v,
         v = type \o (IF port = << >> THEN << >> ELSE <<Comma>> \o port)
  PROVE  v \in Seq(C) /\ IsValue(v, type, port)
<1>1. Len(type) \in Nat /\ Len(port) \in Nat
  OBVIOUS
<1>2. CASE port = << >>
  <2>1. v = type
    BY <1>2
  <2>2. QED
    BY <1>2, <2>1 DEF IsValue
<1>3. CASE port # << >>
  <2>1. PICK w : w = <<Comma>> \o port
    OBVIOUS
  <2>2. w \in Seq(C) /\ Len(w) = 1 + Len(port) /\ w[1] = Comma
    BY <2>1
  <2>3. \A i \in 1 .. Len(port) : w[1 + i] = port[i]
    BY <2>1
  <2>4. v = type \o w
    BY <1>3, <2>1
  <2>5. v \in Seq(C) /\ Len(v) = Len(type) + Len(w)
    BY <2>2, <2>4
  <2>6. \A i \in 1 .. Len(type) : v[i] = type[i]
    BY <2>2, <2>4
  <2>7. \A i \in 1 .. Len(w) : v[Len(type) + i] = w[i]
    BY <2>2, <2>4
  <2>8. v[Len(type) + 1] = Comma
    <3>1. 1 \in 1 .. Len(w)
      BY <1>1, <2>2
    <3>2. QED
      BY <2>2, <2>7, <3>1
  <2>9. ASSUME NEW i \in 1 .. Len(port) PROVE v[Len(type) + 1 + i] = port[i]
    <3>1. 1 + i \in 1 .. Len(w) /\ Len(type) + (1 + i) = Len(type) + 1 + i
      BY <1>1, <2>2
    <3>2. v[Len(type) + (1 + i)] = w[1 + i]
      BY <2>7, <3>1
    <3>3. QED
      BY <2>3, <3>1, <3>2
  <2>10. QED
    BY <1>1, <1>3, <2>2, <2>5, <2>6, <2>8, <2>9 DEF IsValue
<1>4. QED
  BY <1>2, <1>3

\* The rest of a line after its first characters.
LEMMA RestAfter ==
  ASSUME NEW C, NEW s \in Seq(C), NEW past \in Nat, past <= Len(s), NEW v,
         v = SubSeq(s, past + 1, Len(s))
  PROVE  /\ v \in Seq(C) /\ Len(v) = Len(s) - past
         /\ \A i \in 1 .. Len(v) : v[i] = s[past + i]
<1>1. PICK k \in 1 .. Len(s) + 1 : k = past + 1
  OBVIOUS
<1>2. v = SubSeq(s, k, Len(s))
  BY <1>1
<1>3. /\ v \in Seq(C) /\ Len(v) = Len(s) - (k - 1)
      /\ \A i \in 1 .. Len(v) : v[i] = s[i + k - 1]
  BY <1>2, Rest, SMTT(30)
<1>4. Len(v) = Len(s) - past
  BY <1>1, <1>3
<1>5. \A i \in 1 .. Len(v) : i + k - 1 = past + i
  BY <1>1, <1>3
<1>6. QED
  BY <1>3, <1>4, <1>5

\* strtol reads the port, or nothing that is a number if there is none.
LEMMA PortRead ==
  ASSUME NEW C, NEW rest \in Seq(C), NEW past \in Nat, past <= Len(rest),
         NEW port \in Seq(C), \A i \in 1 .. Len(port) : port[i] # Space /\ port[i] # NUL,
         port # << >> =>
           /\ past + Len(port) <= Len(rest)
           /\ \A i \in 1 .. Len(port) : rest[past + i] = port[i]
           /\ At(rest, past + Len(port) + 1) \in {Space, NUL},
         port = << >> /\ past < Len(rest) =>
           /\ rest[past + 1] = Space /\ At(rest, past + 2) = "-"
           /\ DigitValue(At(rest, past + 3)) >= 10
  PROVE  StrToL(SubSeq(rest, past + 1, Len(rest))) = StrToL(port)
<1>1. Len(rest) \in Nat /\ Len(port) \in Nat
  OBVIOUS
<1>2. PICK s : s = SubSeq(rest, past + 1, Len(rest))
  OBVIOUS
<1>3. s \in Seq(C) /\ Len(s) = Len(rest) - past
  BY <1>2, RestAfter
<1>4. \A i \in 1 .. Len(s) : s[i] = rest[past + i]
  BY <1>2, RestAfter
<1>5. \A i \in Nat \ {0} : At(s, i) = At(rest, past + i)
  <2> SUFFICES ASSUME NEW i \in Nat \ {0} PROVE At(s, i) = At(rest, past + i)
    OBVIOUS
  <2>1. QED
    BY <1>1, <1>3, <1>4 DEF At
<1>6. CASE port # << >>
  <2>1. Len(port) <= Len(s)
    BY <1>1, <1>3, <1>6
  <2>2. \A i \in 1 .. Len(port) : s[i] = port[i]
    <3> SUFFICES ASSUME NEW i \in 1 .. Len(port) PROVE s[i] = port[i]
      OBVIOUS
    <3>1. i \in 1 .. Len(s)
      BY <1>1, <1>3, <2>1
    <3>2. QED
      BY <1>4, <1>6, <3>1
  <2>3. At(s, Len(port) + 1) \in {Space, NUL}
    <3>1. Len(port) + 1 \in Nat \ {0} /\ past + (Len(port) + 1) = past + Len(port) + 1
      BY <1>1
    <3>2. QED
      BY <1>5, <1>6, <3>1
  <2>4. StrToL(s) = StrToL(port)
    BY <1>3, <1>6, <2>1, <2>2, <2>3, PortEnds
  <2>5. QED
    BY <1>2, <2>4
<1>7. CASE port = << >>
  <2>1. StrToL(s) = 0
    <3>1. CASE past < Len(rest)
      <4>1. At(s, 2) = "-" /\ DigitValue(At(s, 3)) >= 10
        <5>1. At(s, 2) = At(rest, past + 2) /\ At(s, 3) = At(rest, past + 3)
          <6>1. 2 \in Nat \ {0} /\ 3 \in Nat \ {0}
            OBVIOUS
          <6>2. QED
            BY <1>5, <6>1
        <5>2. QED
          BY <1>7, <3>1, <5>1
      <4>2. Len(s) >= 1 /\ s[1] = Space
        BY <1>1, <1>3, <1>4, <1>7, <3>1
      <4>3. Len(s) >= 2 /\ s[2] = "-"
        <5>1. "-" # NUL
          BY Separators
        <5>2. 2 <= Len(s)
          BY <4>1, <5>1 DEF At
        <5>3. QED
          BY <4>1, <5>2 DEF At
      <4>4. QED
        BY <1>3, <4>1, <4>2, <4>3, NoPort
    <3>2. CASE ~(past < Len(rest))
      <4>1. s = << >>
        BY <1>1, <1>3, <3>2
      <4>2. QED
        BY <1>3, <4>1, NoPort
    <3>3. QED
      BY <3>1, <3>2
  <2>2. StrToL(port) = 0
    BY <1>7, NoPort
  <2>3. QED
    BY <1>2, <2>1, <2>2
<1>8. QED
  BY <1>6, <1>7

\* A value v stands on the line from its start-th character on, and a space or
\* the end of the line comes after it.
TokenAt(L, start, v) ==
  /\ start + Len(v) - 1 <= Len(L)
  /\ \A i \in 1 .. Len(v) : L[start + i - 1] = v[i]
  /\ At(L, start + Len(v)) \in {Space, NUL}
  /\ start + Len(v) <= Len(L) =>
       /\ L[start + Len(v)] = Space
       /\ At(L, start + Len(v) + 1) = "-"
       /\ DigitValue(At(L, start + Len(v) + 2)) >= 10

\* A type and a port that can be told from what is around them.
PlainValue(type, port) ==
  /\ type # << >> /\ ~IsStrictPrefix(type, Debugcon)
  /\ \A i \in 1 .. Len(type) : type[i] # Comma /\ type[i] # NUL
  /\ \A i \in 1 .. Len(port) : port[i] # Space /\ port[i] # NUL

\* A console argument sets the port that it names if its type is that of a
\* debug console, wherever the argument is in the line.
LEMMA TokenRead ==
  ASSUME NEW C, Comma \in C, Debugcon \in Seq(C), NEW L \in Seq(C),
         NEW type \in Seq(C), NEW port \in Seq(C), PlainValue(type, port),
         NEW v \in Seq(C), IsValue(v, type, port),
         NEW start \in 1 .. Len(L), TokenAt(L, start, v), NEW p
  PROVE  ParseCmdToken(L, start, Len(v), p)
           = IF type = Debugcon THEN StrToL(port) % 65536 ELSE p
<1> SUFFICES
      ASSUME type # << >>, ~IsStrictPrefix(type, Debugcon),
             \A i \in 1 .. Len(type) : type[i] # Comma /\ type[i] # NUL,
             \A i \in 1 .. Len(port) : port[i] # Space /\ port[i] # NUL,
             start + Len(v) - 1 <= Len(L),
             \A i \in 1 .. Len(v) : L[start + i - 1] = v[i],
             At(L, start + Len(v)) \in {Space, NUL},
             start + Len(v) <= Len(L) =>
               /\ L[start + Len(v)] = Space
               /\ At(L, start + Len(v) + 1) = "-"
               /\ DigitValue(At(L, start + Len(v) + 2)) >= 10
      PROVE  ParseCmdToken(L, start, Len(v), p)
               = IF type = Debugcon THEN StrToL(port) % 65536 ELSE p
  BY DEF PlainValue, TokenAt
<1>1. Len(type) \in Nat \ {0} /\ Len(port) \in Nat /\ Len(L) \in Nat
  OBVIOUS
<1>2. /\ v \in Seq(C)
      /\ \A i \in 1 .. Len(type) : v[i] = type[i]
      /\ port = << >> => Len(v) = Len(type)
      /\ port # << >> => /\ Len(v) = Len(type) + 1 + Len(port)
                         /\ v[Len(type) + 1] = Comma
                         /\ \A i \in 1 .. Len(port) : v[Len(type) + 1 + i] = port[i]
  BY DEF IsValue
<1>3. Len(v) \in Nat /\ Len(type) <= Len(v)
  BY <1>1, <1>2
<1>4. PICK rest : rest = SubSeq(L, start, Len(L))
  OBVIOUS
<1>5. start \in 1 .. Len(L) + 1
  BY <1>1
<1>6. rest \in Seq(C) /\ Len(rest) = Len(L) - (start - 1)
  BY <1>4, <1>5, Rest
<1>7. \A i \in 1 .. Len(v) : rest[i] = v[i]
  <2> SUFFICES ASSUME NEW i \in 1 .. Len(v) PROVE rest[i] = v[i]
    OBVIOUS
  <2>1. i \in 1 .. Len(rest) /\ i + start - 1 = start + i - 1
    BY <1>1, <1>3, <1>6
  <2>2. rest[i] = L[i + start - 1]
    BY <1>4, <1>5, <2>1, Rest
  <2>3. QED
    BY <2>1, <2>2
<1>8. \A i \in Nat \ {0} : At(rest, i) = At(L, i + start - 1)
  <2> SUFFICES ASSUME NEW i \in Nat \ {0} PROVE At(rest, i) = At(L, i + start - 1)
    OBVIOUS
  <2>1. QED
    BY <1>4, <1>5, RestAt
<1> DEFINE P(k) == /\ \A i \in 1 .. k : rest[i] # Comma
                   /\ k = Len(v) \/ rest[k + 1] = Comma
           typeLen == CHOOSE k \in 0 .. Len(v) : P(k)
<1>9. P(Len(type))
  <2>1. ASSUME NEW i \in 1 .. Len(type) PROVE rest[i] # Comma
    <3>1. i \in 1 .. Len(v)
      BY <1>3
    <3>2. rest[i] = type[i]
      BY <1>2, <1>7, <3>1
    <3>3. QED
      BY <3>2
  <2>2. Len(type) = Len(v) \/ rest[Len(type) + 1] = Comma
    <3>1. CASE port = << >>
      BY <1>2, <3>1
    <3>2. CASE port # << >>
      <4>1. Len(type) + 1 \in 1 .. Len(v) /\ v[Len(type) + 1] = Comma
        BY <1>1, <1>2, <3>2
      <4>2. QED
        BY <1>7, <4>1
    <3>3. QED
      BY <3>1, <3>2
  <2>3. QED
    BY <2>1, <2>2
<1>10. Len(type) \in 0 .. Len(v)
  BY <1>1, <1>3
<1>11. typeLen = Len(type)
  <2>1. ASSUME NEW a \in 0 .. Len(v), NEW b \in 0 .. Len(v), P(a), P(b), a < b PROVE FALSE
    <3>1. a + 1 \in 1 .. b /\ a # Len(v)
      BY <1>3, <2>1
    <3>2. rest[a + 1] = Comma
      BY <2>1, <3>1
    <3>3. QED
      BY <2>1, <3>1, <3>2
  <2>2. typeLen \in 0 .. Len(v) /\ P(typeLen)
    BY <1>9, <1>10
  <2> HIDE DEF typeLen, P
  <2>3. typeLen \in Int /\ Len(type) \in Int
    BY <1>1, <1>3, <2>2
  <2>4. QED
    BY <1>9, <1>10, <2>1, <2>2, <2>3
<1>12. PICK past : past = IF Len(type) < Len(v) THEN Len(type) + 1 ELSE Len(v)
  OBVIOUS
<1>13. ParseCmdToken(L, start, Len(v), p)
         = IF SameFor(Debugcon, rest, Len(type))
           THEN StrToL(SubSeq(rest, past + 1, Len(rest))) % 65536 ELSE p
  <2> DEFINE r == SubSeq(L, start, Len(L))
             m == CHOOSE k \in 0 .. Len(v) :
                    /\ \A i \in 1 .. k : r[i] # Comma
                    /\ k = Len(v) \/ r[k + 1] = Comma
  <2>1. ParseCmdToken(L, start, Len(v), p)
          = IF SameFor(Debugcon, r, m)
            THEN StrToL(SubSeq(r, (IF m < Len(v) THEN m + 1 ELSE Len(v)) + 1,
                               Len(r))) % 65536
            ELSE p
    BY DEF ParseCmdToken
  <2>2. m = typeLen
    BY <1>4
  <2>3. m = Len(type)
    BY <1>11, <2>2, Zenon
  <2> HIDE DEF typeLen, P, m
  <2>4. QED
    BY <1>4, <1>12, <2>1, <2>3
<1>14. SameFor(Debugcon, rest, Len(type)) <=> type = Debugcon
  <2>1. Len(type) <= Len(rest)
    BY <1>1, <1>3, <1>6
  <2>2. \A i \in 1 .. Len(type) : rest[i] = type[i] /\ type[i] # NUL
    <3> SUFFICES ASSUME NEW i \in 1 .. Len(type) PROVE rest[i] = type[i] /\ type[i] # NUL
      OBVIOUS
    <3>1. i \in 1 .. Len(v)
      BY <1>1, <1>3
    <3>2. QED
      BY <1>2, <1>7, <3>1
  <2>3. \A i \in 1 .. Len(Debugcon) : Debugcon[i] # NUL
    BY NamesPlain
  <2>4. QED
    BY <1>6, <2>1, <2>2, <2>3, SameForWord
<1>15. StrToL(SubSeq(rest, past + 1, Len(rest))) = StrToL(port)
  <2>1. past \in Nat /\ past <= Len(rest)
    BY <1>1, <1>2, <1>3, <1>6, <1>12, SMTT(30)
  <2>2. ASSUME port # << >>
        PROVE  /\ past + Len(port) <= Len(rest)
               /\ \A i \in 1 .. Len(port) : rest[past + i] = port[i]
               /\ At(rest, past + Len(port) + 1) \in {Space, NUL}
    <3>1. past = Len(type) + 1 /\ Len(v) = past + Len(port)
      BY <1>1, <1>2, <1>12, <2>2
    <3>2. past + Len(port) <= Len(rest)
      BY <1>1, <1>6, <3>1
    <3>3. ASSUME NEW i \in 1 .. Len(port) PROVE rest[past + i] = port[i]
      <4>1. past + i \in 1 .. Len(v)
        BY <1>1, <2>1, <3>1
      <4>2. v[Len(type) + 1 + i] = port[i]
        BY <1>2, <2>2
      <4>3. QED
        BY <1>7, <3>1, <4>1, <4>2
    <3>4. past + Len(port) + 1 \in Nat \ {0}
          /\ past + Len(port) + 1 + start - 1 = start + Len(v)
      BY <1>1, <2>1, <3>1
    <3>5. At(rest, past + Len(port) + 1) = At(L, past + Len(port) + 1 + start - 1)
      BY <1>8, <3>4
    <3>6. QED
      BY <3>2, <3>3, <3>4, <3>5
  <2>3. ASSUME port = << >>, past < Len(rest)
        PROVE  /\ rest[past + 1] = Space /\ At(rest, past + 2) = "-"
               /\ DigitValue(At(rest, past + 3)) >= 10
    <3>1. past = Len(v)
      BY <1>2, <1>12, <2>3
    <3>2. start + Len(v) <= Len(L)
      BY <1>1, <1>3, <1>6, <2>3, <3>1
    <3>3. /\ L[start + Len(v)] = Space
          /\ At(L, start + Len(v) + 1) = "-"
          /\ DigitValue(At(L, start + Len(v) + 2)) >= 10
      BY <3>2
    <3>4. /\ past + 1 \in Nat \ {0} /\ past + 1 + start - 1 = start + Len(v)
          /\ past + 2 \in Nat \ {0} /\ past + 2 + start - 1 = start + Len(v) + 1
          /\ past + 3 \in Nat \ {0} /\ past + 3 + start - 1 = start + Len(v) + 2
      <4>1. \A a, b \in Nat : \A i \in 1 .. 3 :
              a + i \in Nat \ {0} /\ a + i + b - 1 = b + a + i - 1
        OBVIOUS
      <4>2. start \in Nat /\ Len(v) \in Nat /\ past = Len(v)
        BY <1>1, <1>3, <3>1
      <4>3. QED
        BY <4>2
    <3>5. /\ At(rest, past + 1) = At(L, past + 1 + start - 1)
          /\ At(rest, past + 2) = At(L, past + 2 + start - 1)
          /\ At(rest, past + 3) = At(L, past + 3 + start - 1)
      BY <1>8, <3>4
    <3>6. At(rest, past + 1) = Space
      BY <3>2, <3>3, <3>4, <3>5 DEF At
    <3>7. rest[past + 1] = Space
      <4>1. past + 1 <= Len(rest)
        BY <1>6, <2>1, <2>3
      <4>2. QED
        BY <3>6, <4>1 DEF At
    <3>8. QED
      BY <3>3, <3>4, <3>5, <3>7
  <2>4. QED
    BY <1>6, <2>1, <2>2, <2>3, PortRead
<1> HIDE DEF typeLen, P
<1>16. QED
  BY <1>13, <1>14, <1>15

\* The scanner in a state that is spelled out.
ScannerIs(s, state, key, keyLen, value, valueLen, port) ==
  s = [state |-> state, key |-> key, keyLen |-> keyLen, value |-> value,
       valueLen |-> valueLen, port |-> port]

LEMMA DashScanned ==
  ASSUME NEW L, NEW s, NEW i, NEW k, NEW kl, NEW v, NEW vl, NEW p,
         ScannerIs(s, "IDLE", k, kl, v, vl, p), At(L, i) = "-"
  PROVE  ScannerIs(Scan(L, s, i), "KEY", i + 1, 0, v, vl, p)
BY DEF ScannerIs, Scan

LEMMA KeyScanned ==
  ASSUME NEW L, NEW s, NEW i, NEW k, NEW kl, NEW v, NEW vl, NEW p,
         ScannerIs(s, "KEY", k, kl, v, vl, p), At(L, i) # "=", At(L, i) # Space
  PROVE  ScannerIs(Scan(L, s, i), "KEY", k, kl + 1, v, vl, p)
BY DEF ScannerIs, Scan

LEMMA FlagScanned ==
  ASSUME NEW L, NEW s, NEW i, NEW k, NEW kl, NEW v, NEW vl, NEW p,
         ScannerIs(s, "KEY", k, kl, v, vl, p), At(L, i) = Space
  PROVE  ScannerIs(Scan(L, s, i), "IDLE", k, kl, v, vl, p)
BY Separators DEF ScannerIs, Scan

LEMMA EqualsScanned ==
  ASSUME NEW L, NEW s, NEW i, NEW k, NEW kl, NEW v, NEW vl, NEW p,
         ScannerIs(s, "KEY", k, kl, v, vl, p), At(L, i) = "="
  PROVE  ScannerIs(Scan(L, s, i), "VALUE", k, kl, i + 1, 0, p)
BY Separators DEF ScannerIs, Scan

LEMMA ValueScanned ==
  ASSUME NEW L, NEW s, NEW i, NEW k, NEW kl, NEW v, NEW vl, NEW p,
         ScannerIs(s, "VALUE", k, kl, v, vl, p), At(L, i) # Space, At(L, i) # NUL
  PROVE  ScannerIs(Scan(L, s, i), "VALUE", k, kl, v, vl + 1, p)
BY DEF ScannerIs, Scan, ValueEnds

LEMMA EndScanned ==
  ASSUME NEW L, NEW s, NEW i, NEW k, NEW kl, NEW v, NEW vl, NEW p,
         ScannerIs(s, "VALUE", k, kl, v, vl, p), At(L, i) \in {Space, NUL}
  PROVE  ScannerIs(Scan(L, s, i), "IDLE", k, kl, v, vl,
                   IF SameFor(ConsoleKey, SubSeq(L, k, Len(L)), kl)
                   THEN ParseCmdToken(L, v, vl, p) ELSE p)
BY DEF ScannerIs, Scan, ValueEnds

LEMMA Concatenated ==
  ASSUME NEW C, NEW f \in Seq(C), NEW g \in Seq(C), NEW w, w = f \o g
  PROVE  /\ w \in Seq(C) /\ Len(w) = Len(f) + Len(g)
         /\ \A i \in 1 .. Len(f) : w[i] = f[i]
         /\ \A i \in 1 .. Len(g) : w[Len(f) + i] = g[i]
OBVIOUS

\* What an argument looks like on the line.
IsArgument(w, a) ==
  /\ w[1] = "-"
  /\ \A i \in 1 .. Len(a.key) : w[1 + i] = a.key[i]
  /\ a.type = << >> => Len(w) = 1 + Len(a.key)
  /\ a.type # << >> =>
       /\ Len(w) = 2 + Len(a.key) + Len(TypeAndPort(a))
       /\ w[2 + Len(a.key)] = "="
       /\ \A i \in 1 .. Len(TypeAndPort(a)) :
            w[2 + Len(a.key) + i] = TypeAndPort(a)[i]

LEMMA WrittenParts ==
  ASSUME NEW C, "-" \in C, "=" \in C, Comma \in C, NEW a,
         a.key \in Seq(C), a.type \in Seq(C), a.port \in Seq(C), NEW w, w = Written(a)
  PROVE  w \in Seq(C) /\ IsArgument(w, a)
<1>1. Len(a.key) \in Nat
  OBVIOUS
<1>2. PICK v : v = TypeAndPort(a)
  OBVIOUS
<1>3. v \in Seq(C)
  BY <1>2, ValueParts DEF TypeAndPort
<1>4. PICK f : f = <<"-">> \o a.key
  OBVIOUS
<1>5. /\ f \in Seq(C) /\ Len(f) = 1 + Len(a.key) /\ f[1] = "-"
      /\ \A i \in 1 .. Len(a.key) : f[1 + i] = a.key[i]
  BY <1>4
<1>6. CASE a.type = << >>
  <2>1. w = f
    BY <1>4, <1>5, <1>6 DEF Written
  <2>2. QED
    BY <1>5, <1>6, <2>1 DEF IsArgument
<1>7. CASE a.type # << >>
  <2>1. PICK g : g = <<"=">> \o v
    OBVIOUS
  <2>2. /\ g \in Seq(C) /\ Len(g) = 1 + Len(v) /\ g[1] = "="
        /\ \A i \in 1 .. Len(v) : g[1 + i] = v[i]
    BY <1>3, <2>1
  <2>3. w = f \o g
    BY <1>2, <1>4, <1>7, <2>1 DEF Written
  <2>4. w \in Seq(C) /\ Len(w) = Len(f) + Len(g) /\ Len(v) \in Nat
    <3>1. f \in Seq(C) /\ g \in Seq(C)
      BY <1>5, <2>2
    <3>2. w \in Seq(C) /\ Len(w) = Len(f) + Len(g)
      BY <2>3, <3>1, Concatenated
    <3>3. QED
      BY <1>3, <3>2
  <2>5. \A i \in 1 .. Len(f) : w[i] = f[i]
    BY <1>5, <2>2, <2>3
  <2>6. \A i \in 1 .. Len(g) : w[Len(f) + i] = g[i]
    <3>1. f \in Seq(C) /\ g \in Seq(C)
      BY <1>5, <2>2
    <3>2. QED
      BY <2>3, <3>1, Concatenated
  <2>7. w[1] = "-" /\ \A i \in 1 .. Len(a.key) : w[1 + i] = a.key[i]
    <3>1. 1 \in 1 .. Len(f) /\ \A i \in 1 .. Len(a.key) : 1 + i \in 1 .. Len(f)
      BY <1>1, <1>5
    <3>2. QED
      BY <1>5, <2>5, <3>1
  <2>8. w[2 + Len(a.key)] = "="
    <3>1. 1 \in 1 .. Len(g) /\ Len(f) + 1 = 2 + Len(a.key)
      BY <1>1, <1>5, <2>2, <2>4
    <3>2. QED
      BY <2>2, <2>6, <3>1
  <2>9. ASSUME NEW i \in 1 .. Len(v) PROVE w[2 + Len(a.key) + i] = v[i]
    <3>1. Len(g) = 1 + Len(v) /\ Len(f) = 1 + Len(a.key)
      BY <1>5, <2>2
    <3>2. 1 + i \in 1 .. Len(g) /\ Len(f) + (1 + i) = 2 + Len(a.key) + i
      <4>1. \A n, m \in Nat : \A j \in 1 .. n :
              1 + j \in 1 .. (1 + n) /\ (1 + m) + (1 + j) = 2 + m + j
        OBVIOUS
      <4>2. 1 + i \in 1 .. (1 + Len(v))
            /\ (1 + Len(a.key)) + (1 + i) = 2 + Len(a.key) + i
        BY <1>1, <2>4, <4>1, Zenon
      <4>3. QED
        BY <3>1, <4>2, Zenon
    <3>3. w[Len(f) + (1 + i)] = g[1 + i]
      BY <2>6, <3>2
    <3>4. QED
      BY <2>2, <3>2, <3>3
  <2>10. Len(w) = 2 + Len(a.key) + Len(v)
    <3>1. Len(g) = 1 + Len(v) /\ Len(f) = 1 + Len(a.key)
      BY <1>5, <2>2
    <3>2. QED
      <4>1. \A n, m : n \in Nat /\ m \in Nat => (1 + m) + (1 + n) = 2 + m + n
        OBVIOUS
      <4>2. QED
        BY <1>1, <2>4, <3>1, <4>1
  <2>11. QED
    BY <1>2, <1>3, <1>7, <2>4, <2>7, <2>8, <2>9, <2>10 DEF IsArgument
<1>8. QED
  BY <1>6, <1>7

\* A key of n characters after a dash has been read.
LEMMA KeyRead ==
  ASSUME NEW L, NEW u, NEW last \in Nat, \A i \in 1 .. last : u[i] = Scan(L, u[i - 1], i),
         NEW e \in Nat, NEW n \in Nat, e + 1 + n <= last,
         NEW k, NEW kl, NEW v, NEW vl, NEW p, ScannerIs(u[e], "IDLE", k, kl, v, vl, p),
         At(L, e + 1) = "-",
         \A j \in 1 .. n : At(L, e + 1 + j) # "=" /\ At(L, e + 1 + j) # Space
  PROVE  ScannerIs(u[e + 1 + n], "KEY", e + 2, n, v, vl, p)
<1> DEFINE S == {j \in Nat : j <= n => ScannerIs(u[e + 1 + j], "KEY", e + 2, j, v, vl, p)}
<1>1. 0 \in S
  <2>1. e + 1 \in 1 .. last /\ e + 1 - 1 = e /\ e + 1 + 1 = e + 2 /\ e + 1 + 0 = e + 1
    OBVIOUS
  <2>2. u[e + 1] = Scan(L, u[e], e + 1)
    BY <2>1
  <2>3. ScannerIs(u[e + 1], "KEY", e + 1 + 1, 0, v, vl, p)
    BY <2>2, DashScanned
  <2>4. QED
    BY <2>1, <2>3
<1>2. ASSUME NEW j \in Nat, j \in S PROVE j + 1 \in S
  <2> SUFFICES ASSUME j + 1 <= n
               PROVE  ScannerIs(u[e + 1 + (j + 1)], "KEY", e + 2, j + 1, v, vl, p)
    OBVIOUS
  <2>1. ScannerIs(u[e + 1 + j], "KEY", e + 2, j, v, vl, p)
    BY <1>2
  <2>2. PICK i \in 1 .. last : i = e + 1 + (j + 1)
    OBVIOUS
  <2>3. i - 1 = e + 1 + j /\ j + 1 \in 1 .. n
    BY <2>2
  <2>4. u[i] = Scan(L, u[e + 1 + j], i)
    BY <2>3
  <2>5. At(L, i) # "=" /\ At(L, i) # Space
    BY <2>2, <2>3
  <2>6. ScannerIs(u[i], "KEY", e + 2, j + 1, v, vl, p)
    BY <2>1, <2>4, <2>5, KeyScanned
  <2>7. QED
    BY <2>2, <2>6
<1>3. Nat \subseteq S
  <2> HIDE DEF S
  <2>1. QED
    BY <1>1, <1>2, Induct
<1>4. n \in S
  BY <1>3
<1>5. QED
  BY <1>4

\* The first n characters of a value have been read.
LEMMA ValueRead ==
  ASSUME NEW L, NEW u, NEW last \in Nat, \A i \in 1 .. last : u[i] = Scan(L, u[i - 1], i),
         NEW d \in Nat, NEW n \in Nat, d + n <= last,
         NEW k, NEW kl, NEW p, ScannerIs(u[d], "VALUE", k, kl, d + 1, 0, p),
         \A j \in 1 .. n : At(L, d + j) # Space /\ At(L, d + j) # NUL
  PROVE  ScannerIs(u[d + n], "VALUE", k, kl, d + 1, n, p)
<1> DEFINE S == {j \in Nat : j <= n => ScannerIs(u[d + j], "VALUE", k, kl, d + 1, j, p)}
<1>1. 0 \in S
  <2>1. d + 0 = d
    OBVIOUS
  <2>2. QED
    BY <2>1
<1>2. ASSUME NEW j \in Nat, j \in S PROVE j + 1 \in S
  <2> SUFFICES ASSUME j + 1 <= n
               PROVE  ScannerIs(u[d + (j + 1)], "VALUE", k, kl, d + 1, j + 1, p)
    OBVIOUS
  <2>1. ScannerIs(u[d + j], "VALUE", k, kl, d + 1, j, p)
    BY <1>2
  <2>2. PICK i \in 1 .. last : i = d + (j + 1)
    OBVIOUS
  <2>3. i - 1 = d + j /\ j + 1 \in 1 .. n
    BY <2>2
  <2>4. u[i] = Scan(L, u[d + j], i)
    BY <2>3
  <2>5. At(L, i) # Space /\ At(L, i) # NUL
    BY <2>2, <2>3
  <2>6. ScannerIs(u[i], "VALUE", k, kl, d + 1, j + 1, p)
    BY <2>1, <2>4, <2>5, ValueScanned
  <2>7. QED
    BY <2>2, <2>6
<1>3. Nat \subseteq S
  <2> HIDE DEF S
  <2>1. QED
    BY <1>1, <1>2, Induct
<1>4. n \in S
  BY <1>3
<1>5. QED
  BY <1>4

\* Between arguments the scanner is idle, and p is the port so far.
Idle(s, p) == \E k, kl, v, vl : ScannerIs(s, "IDLE", k, kl, v, vl, p)

\* The port after an argument a.
PortAfter(a, p) == IF a.key = ConsoleKey /\ a.type = Debugcon THEN a.number ELSE p

\* The characters of an argument that is not taken for another.
LegibleChars(a, C) ==
  /\ a.key \in Seq(C) /\ a.type \in Seq(C) /\ a.port \in Seq(C)
  /\ "-" \in C /\ "=" \in C /\ Comma \in C
  /\ Debugcon \in Seq(C) /\ ConsoleKey \in Seq(C)

\* Argument a stands on the line after its e-th character, and a space or the
\* end of the line comes after it.
StandsAt(a, L, e) ==
  /\ e + Len(Written(a)) <= Len(L)
  /\ \A i \in 1 .. Len(Written(a)) : L[e + i] = Written(a)[i]
  /\ e + Len(Written(a)) < Len(L) =>
       /\ L[e + Len(Written(a)) + 1] = Space
       /\ At(L, e + Len(Written(a)) + 2) = "-"
       /\ DigitValue(At(L, e + Len(Written(a)) + 3)) >= 10

\* The first x characters have been read, and what ends them.
ReadTo(L, u, x, p) == u[x + 1].port = p /\ (x < Len(L) => Idle(u[x + 1], p))

\* Reading a flag leaves the port alone.
LEMMA FlagRead ==
  ASSUME NEW C, NEW L \in Seq(C), NEW u,
         \A i \in 1 .. Len(L) + 1 : u[i] = Scan(L, u[i - 1], i),
         NEW a, LegibleChars(a, C), Legible(a), a.type = << >>,
         NEW e \in Nat, StandsAt(a, L, e), NEW p, Idle(u[e], p)
  PROVE  ReadTo(L, u, e + Len(Written(a)), p)
<1>1. PICK w : w = Written(a)
  OBVIOUS
<1>2. PICK n \in Nat : n = Len(a.key)
  BY DEF LegibleChars
<1>3. /\ w[1] = "-" /\ Len(w) = 1 + n
      /\ \A i \in 1 .. n : w[1 + i] = a.key[i]
  <2>1. /\ a.key \in Seq(C) /\ a.type \in Seq(C) /\ a.port \in Seq(C)
        /\ "-" \in C /\ "=" \in C /\ Comma \in C
    BY DEF LegibleChars
  <2>2. /\ w[1] = "-" /\ \A i \in 1 .. Len(a.key) : w[1 + i] = a.key[i]
        /\ a.type = << >> => Len(w) = 1 + Len(a.key)
    <3>1. IsArgument(w, a)
      BY <1>1, <2>1, WrittenParts
    <3>2. QED
      BY <3>1 DEF IsArgument
  <2>3. QED
    BY <1>2, <2>2
<1>4. \A i \in 1 .. n : a.key[i] # "=" /\ a.key[i] # Space
  BY <1>2 DEF Legible, LegibleChars
<1>5. e + (1 + n) <= Len(L) /\ Len(L) \in Nat
  BY <1>1, <1>3 DEF StandsAt
<1>6. \A i \in 1 .. 1 + n : At(L, e + i) = w[i]
  <2> SUFFICES ASSUME NEW i \in 1 .. 1 + n PROVE At(L, e + i) = w[i]
    OBVIOUS
  <2>1. L[e + i] = w[i]
    BY <1>1, <1>3 DEF StandsAt
  <2>2. e + i <= Len(L)
    BY <1>5
  <2>3. QED
    BY <2>1, <2>2 DEF At
<1>7. PICK k, kl, v, vl : ScannerIs(u[e], "IDLE", k, kl, v, vl, p)
  BY DEF Idle
<1>8. At(L, e + 1) = "-"
  <2>1. 1 \in 1 .. 1 + n
    OBVIOUS
  <2>2. QED
    BY <1>3, <1>6, <2>1
<1>9. \A j \in 1 .. n : At(L, e + 1 + j) # "=" /\ At(L, e + 1 + j) # Space
  <2> SUFFICES ASSUME NEW j \in 1 .. n
               PROVE  At(L, e + 1 + j) # "=" /\ At(L, e + 1 + j) # Space
    OBVIOUS
  <2>1. 1 + j \in 1 .. 1 + n /\ e + (1 + j) = e + 1 + j
    OBVIOUS
  <2>2. At(L, e + 1 + j) = a.key[j]
    BY <1>3, <1>6, <2>1
  <2>3. QED
    BY <1>4, <2>2
<1>10. PICK last \in Nat : last = Len(L) + 1
  BY <1>5
<1>11. ScannerIs(u[e + 1 + n], "KEY", e + 2, n, v, vl, p)
  <2>1. e + 1 + n <= last /\ \A i \in 1 .. last : u[i] = Scan(L, u[i - 1], i)
    BY <1>5, <1>10
  <2>2. QED
    BY <1>7, <1>8, <1>9, <2>1, KeyRead
<1>12. PICK i \in 1 .. Len(L) + 1 : i = e + Len(w) + 1
  BY <1>3, <1>5
<1>13. u[i] = Scan(L, u[e + 1 + n], i)
  <2>1. i - 1 = e + 1 + n
    BY <1>3, <1>12
  <2>2. QED
    BY <2>1
<1>14. CASE e + Len(w) < Len(L)
  <2>1. L[i] = Space /\ i <= Len(L)
    BY <1>1, <1>3, <1>5, <1>12, <1>14, SMTT(30) DEF StandsAt
  <2>2. At(L, i) = Space
    BY <2>1 DEF At
  <2>3. ScannerIs(u[i], "IDLE", e + 2, n, v, vl, p)
    BY <1>11, <1>13, <2>2, FlagScanned
  <2>4. u[i].port = p /\ Idle(u[i], p)
    <3>1. u[i].port = p
      BY <2>3 DEF ScannerIs
    <3>2. Idle(u[i], p)
      BY <2>3, Zenon DEF Idle
    <3>3. QED
      BY <3>1, <3>2
  <2>5. QED
    BY <1>1, <1>12, <2>4 DEF ReadTo
<1>15. CASE ~(e + Len(w) < Len(L))
  <2>1. ~(i <= Len(L))
    BY <1>3, <1>5, <1>12, <1>15
  <2>2. At(L, i) = NUL
    BY <2>1 DEF At
  <2>3. ScannerIs(u[i], "KEY", e + 2, n + 1, v, vl, p)
    BY <1>11, <1>13, <2>2, Separators, KeyScanned
  <2>4. u[i].port = p
    BY <2>3 DEF ScannerIs
  <2>5. QED
    BY <1>1, <1>12, <1>15, <2>4 DEF ReadTo
<1>16. QED
  BY <1>14, <1>15

LEMMA LengthNat == ASSUME NEW C, NEW s \in Seq(C) PROVE Len(s) \in Nat
OBVIOUS

\* Reading an argument with a value sets the port if it is a debug console's.
LEMMA OptionRead ==
  ASSUME NEW C, NEW L \in Seq(C), NEW u,
         \A i \in 1 .. Len(L) + 1 : u[i] = Scan(L, u[i - 1], i),
         NEW a, LegibleChars(a, C), Legible(a), a.type # << >>,
         NEW e \in Nat, StandsAt(a, L, e), NEW p, Idle(u[e], p)
  PROVE  Idle(u[e + Len(Written(a)) + 1], PortAfter(a, p))
<1>1. PICK w : w = Written(a)
  OBVIOUS
<1>2. PICK v : v = TypeAndPort(a)
  OBVIOUS
<1>3. /\ a.key \in Seq(C) /\ a.type \in Seq(C) /\ a.port \in Seq(C)
      /\ "-" \in C /\ "=" \in C /\ Comma \in C /\ Debugcon \in Seq(C) /\ ConsoleKey \in Seq(C)
  BY DEF LegibleChars
<1>4. PICK n \in Nat : n = Len(a.key)
  BY <1>3
<1>5. /\ v \in Seq(C) /\ IsValue(v, a.type, a.port)
  <2>1. v = a.type \o (IF a.port = << >> THEN << >> ELSE <<Comma>> \o a.port) /\ Comma \in C
    BY <1>2, <1>3 DEF TypeAndPort
  <2>2. QED
    BY <1>3, <2>1, ValueParts
<1>6. /\ v \in Seq(C) /\ w[1] = "-"
      /\ \A i \in 1 .. n : w[1 + i] = a.key[i]
      /\ Len(w) = 2 + n + Len(v) /\ w[2 + n] = "="
      /\ \A i \in 1 .. Len(v) : w[2 + n + i] = v[i]
  <2>1. /\ w[1] = "-"
        /\ \A i \in 1 .. Len(a.key) : w[1 + i] = a.key[i]
        /\ a.type # << >> =>
              /\ Len(w) = 2 + Len(a.key) + Len(TypeAndPort(a))
              /\ w[2 + Len(a.key)] = "="
              /\ \A i \in 1 .. Len(TypeAndPort(a)) :
                   w[2 + Len(a.key) + i] = TypeAndPort(a)[i]
    <3>1. IsArgument(w, a)
      BY <1>1, <1>3, WrittenParts
    <3>2. QED
      BY <3>1 DEF IsArgument
  <2>2. QED
    BY <1>2, <1>4, <1>5, <2>1
<1>7. PICK m \in Nat : m = Len(v)
  BY <1>6
<1>8. PICK last \in Nat : last = Len(L) + 1
  OBVIOUS
<1>9. e + (2 + n + m) <= Len(L) /\ Len(L) = last - 1 /\ Len(w) = 2 + n + m
  BY <1>1, <1>6, <1>7, <1>8 DEF StandsAt
<1>10. \A i \in 1 .. 2 + n + m : L[e + i] = w[i]
  BY <1>1, <1>9 DEF StandsAt
<1>11. \A i \in 1 .. 2 + n + m : At(L, e + i) = w[i]
  <2> SUFFICES ASSUME NEW i \in 1 .. 2 + n + m PROVE At(L, e + i) = w[i]
    OBVIOUS
  <2>1. e + i <= Len(L)
    BY <1>8, <1>9
  <2>2. QED
    BY <1>10, <2>1 DEF At
<1>12. PICK k, kl, v0, vl : ScannerIs(u[e], "IDLE", k, kl, v0, vl, p)
  BY DEF Idle
<1>13. \A i \in 1 .. last : u[i] = Scan(L, u[i - 1], i)
  BY <1>8
<1>14. \A i \in 1 .. n : a.key[i] # "=" /\ a.key[i] # Space /\ a.key[i] # NUL
  BY <1>3, <1>4 DEF Legible
<1>15. ScannerIs(u[e + 1 + n], "KEY", e + 2, n, v0, vl, p)
  <2>1. At(L, e + 1) = "-"
    <3>1. 1 \in 1 .. 2 + n + m
      OBVIOUS
    <3>2. QED
      BY <1>6, <1>11, <3>1
  <2>2. \A j \in 1 .. n : At(L, e + 1 + j) # "=" /\ At(L, e + 1 + j) # Space
    <3> SUFFICES ASSUME NEW j \in 1 .. n
                 PROVE  At(L, e + 1 + j) # "=" /\ At(L, e + 1 + j) # Space
      OBVIOUS
    <3>1. 1 + j \in 1 .. 2 + n + m /\ e + (1 + j) = e + 1 + j
      OBVIOUS
    <3>2. At(L, e + 1 + j) = a.key[j]
      BY <1>6, <1>11, <3>1
    <3>3. QED
      BY <1>14, <3>2
  <2>3. e + 1 + n <= last
    BY <1>8, <1>9
  <2>4. QED
    BY <1>12, <1>13, <2>1, <2>2, <2>3, KeyRead
<1>16. PICK d \in Nat : d = e + 2 + n
  OBVIOUS
<1>17. ScannerIs(u[d], "VALUE", e + 2, n, d + 1, 0, p)
  <2>1. d \in 1 .. last /\ d - 1 = e + 1 + n
    BY <1>8, <1>9, <1>16
  <2>2. u[d] = Scan(L, u[e + 1 + n], d)
    BY <1>13, <2>1
  <2>3. At(L, d) = "="
    <3>1. 2 + n \in 1 .. 2 + n + m /\ e + (2 + n) = d
      BY <1>16
    <3>2. QED
      BY <1>6, <1>11, <3>1
  <2>4. QED
    BY <1>15, <2>2, <2>3, EqualsScanned
<1>18. \A j \in 1 .. m : At(L, d + j) = v[j] /\ L[d + j] = v[j]
  <2> SUFFICES ASSUME NEW j \in 1 .. m PROVE At(L, d + j) = v[j] /\ L[d + j] = v[j]
    OBVIOUS
  <2>1. 2 + n + j \in 1 .. 2 + n + m /\ e + (2 + n + j) = d + j
    BY <1>16
  <2>2. QED
    BY <1>6, <1>7, <1>10, <1>11, <2>1
<1>19. /\ \A i \in 1 .. Len(a.type) : a.type[i] # Comma /\ a.type[i] # NUL /\ a.type[i] # Space
       /\ \A i \in 1 .. Len(a.port) : a.port[i] # Space /\ a.port[i] # NUL
  BY <1>3 DEF Legible
<1>20. /\ \A i \in 1 .. Len(a.type) : v[i] = a.type[i]
       /\ a.port = << >> => Len(v) = Len(a.type)
       /\ a.port # << >> => /\ Len(v) = Len(a.type) + 1 + Len(a.port)
                            /\ v[Len(a.type) + 1] = Comma
                            /\ \A i \in 1 .. Len(a.port) : v[Len(a.type) + 1 + i] = a.port[i]
  BY <1>5 DEF IsValue
<1>21. \A j \in 1 .. m : v[j] # Space /\ v[j] # NUL
  <2>1. PICK t \in Nat : t = Len(a.type)
    BY <1>3, LengthNat
  <2>2. PICK q \in Nat : q = Len(a.port)
    BY <1>3, LengthNat
  <2> SUFFICES ASSUME NEW j \in 1 .. m PROVE v[j] # Space /\ v[j] # NUL
    OBVIOUS
  <2>3. CASE j <= t
    <3>1. j \in 1 .. t
      BY <2>3
    <3>2. QED
      BY <1>19, <1>20, <2>1, <3>1
  <2>4. CASE j = t + 1
    <3>1. a.port # << >>
      BY <1>7, <1>20, <2>1, <2>4
    <3>2. v[j] = Comma
      BY <1>20, <2>1, <2>4, <3>1
    <3>3. QED
      BY <3>2, Separators
  <2>5. CASE j > t + 1
    <3>1. a.port # << >>
      BY <1>7, <1>20, <2>1, <2>5
    <3>2. m = t + 1 + q
      BY <1>7, <1>20, <2>1, <2>2, <3>1
    <3>3. PICK i \in 1 .. q : j = t + 1 + i
      <4>1. j - (t + 1) \in 1 .. q /\ j = t + 1 + (j - (t + 1))
        BY <2>5, <3>2
      <4>2. QED
        BY <4>1
    <3>4. v[j] = a.port[i]
      BY <1>20, <2>1, <2>2, <3>1, <3>3
    <3>5. QED
      BY <1>19, <2>2, <3>4
  <2>6. j <= t \/ j = t + 1 \/ j > t + 1
    OBVIOUS
  <2>7. QED
    BY <2>3, <2>4, <2>5, <2>6
<1>22. ScannerIs(u[d + m], "VALUE", e + 2, n, d + 1, m, p)
  <2>1. d + m <= last
    BY <1>9, <1>8, <1>16
  <2>2. \A j \in 1 .. m : At(L, d + j) # Space /\ At(L, d + j) # NUL
    BY <1>18, <1>21
  <2>3. QED
    BY <1>13, <1>17, <2>1, <2>2, ValueRead
<1>23. PICK i \in 1 .. last : i = d + m + 1
  BY <1>8, <1>9, <1>16
<1>24. i = e + Len(w) + 1
  BY <1>9, <1>16, <1>23
<1>25. /\ At(L, i) \in {Space, NUL}
       /\ i <= Len(L) => /\ L[i] = Space /\ At(L, i + 1) = "-"
                         /\ DigitValue(At(L, i + 2)) >= 10
  <2>1. CASE i <= Len(L)
    <3>1. e + Len(w) < Len(L)
      BY <1>8, <1>9, <1>24, <2>1
    <3>2. /\ L[e + Len(w) + 1] = Space
          /\ At(L, e + Len(w) + 2) = "-"
          /\ DigitValue(At(L, e + Len(w) + 3)) >= 10
      BY <1>1, <3>1 DEF StandsAt
    <3>3. e + Len(w) + 2 = i + 1 /\ e + Len(w) + 3 = i + 2
      <4>1. PICK z \in Nat : z = Len(w)
        BY <1>9
      <4>2. i = e + z + 1
        BY <1>24, <4>1
      <4>3. e + z + 2 = i + 1 /\ e + z + 3 = i + 2
        BY <4>2
      <4>4. QED
        BY <4>1, <4>3
    <3>4. At(L, i) = L[i]
      BY <2>1 DEF At
    <3>5. QED
      BY <1>24, <3>2, <3>3, <3>4
  <2>2. CASE ~(i <= Len(L))
    BY <2>2 DEF At
  <2>3. QED
    BY <2>1, <2>2
<1>26. SameFor(ConsoleKey, SubSeq(L, e + 2, Len(L)), n) <=> a.key = ConsoleKey
  <2>1. PICK s : s = SubSeq(L, e + 2, Len(L))
    OBVIOUS
  <2>2. e + 2 \in 1 .. Len(L) + 1
    BY <1>8, <1>9
  <2>3. s \in Seq(C) /\ Len(s) = Len(L) - (e + 2 - 1)
    BY <2>1, <2>2, Rest
  <2>4. \A j \in 1 .. Len(s) : s[j] = L[j + (e + 2) - 1]
    BY <2>1, <2>2, Rest
  <2>5. n <= Len(s)
    BY <1>8, <1>9, <2>3
  <2>6. \A j \in 1 .. n : s[j] = a.key[j] /\ a.key[j] # NUL
    <3> SUFFICES ASSUME NEW j \in 1 .. n PROVE s[j] = a.key[j] /\ a.key[j] # NUL
      OBVIOUS
    <3>1. j \in 1 .. Len(s) /\ j + (e + 2) - 1 = e + (1 + j) /\ 1 + j \in 1 .. 2 + n + m
      BY <1>8, <1>9, <2>3, <2>5
    <3>2. s[j] = L[e + (1 + j)]
      BY <2>4, <3>1
    <3>3. QED
      BY <1>6, <1>10, <1>14, <3>1, <3>2
  <2>7. \A j \in 1 .. Len(ConsoleKey) : ConsoleKey[j] # NUL
    BY NamesPlain
  <2>8. ~IsStrictPrefix(a.key, ConsoleKey)
    BY DEF Legible
  <2>9. SameFor(ConsoleKey, s, Len(a.key)) <=> a.key = ConsoleKey
    BY <1>3, <1>4, <2>3, <2>5, <2>6, <2>7, <2>8, SameForWord
  <2>10. QED
    BY <1>4, <2>1, <2>9
<1>27. ParseCmdToken(L, d + 1, m, p) = IF a.type = Debugcon THEN a.number ELSE p
  <2>1. PICK start \in 1 .. Len(L) : start = d + 1
    <3>1. m # 0
      <4>1. /\ a.port = << >> => Len(v) = Len(a.type)
            /\ a.port # << >> => Len(v) = Len(a.type) + 1 + Len(a.port)
        BY <1>20
      <4>2. Len(a.type) \in Nat \ {0} /\ Len(a.port) \in Nat
        BY <1>3
      <4>3. PICK t \in Nat \ {0}, q \in Nat : t = Len(a.type) /\ q = Len(a.port)
        BY <4>2
      <4>4. m = t \/ m = t + 1 + q
        BY <1>7, <4>1, <4>3, Zenon
      <4>5. QED
        BY <4>4
    <3>2. d + 1 \in 1 .. Len(L)
      BY <1>8, <1>9, <1>16, <3>1
    <3>3. QED
      BY <3>2
  <2>2. start + Len(v) - 1 <= Len(L) /\ start + Len(v) = i
    BY <1>7, <1>8, <1>9, <1>16, <1>23, <2>1
  <2>3. \A j \in 1 .. Len(v) : L[start + j - 1] = v[j]
    <3> SUFFICES ASSUME NEW j \in 1 .. m PROVE L[start + j - 1] = v[j]
      BY <1>7
    <3>1. start + j - 1 = d + j
      BY <2>1
    <3>2. QED
      BY <1>18, <3>1
  <2>4. PlainValue(a.type, a.port) /\ a.number = StrToL(a.port) % 65536
    BY <1>19 DEF Legible, PlainValue
  <2>5. TokenAt(L, start, v)
    BY <1>25, <2>2, <2>3 DEF TokenAt
  <2>6. ParseCmdToken(L, start, Len(v), p)
          = IF a.type = Debugcon THEN StrToL(a.port) % 65536 ELSE p
    BY <1>3, <1>5, <2>4, <2>5, TokenRead
  <2>7. QED
    BY <1>7, <2>1, <2>4, <2>6
<1>28. u[i] = Scan(L, u[d + m], i)
  <2>1. i - 1 = d + m
    BY <1>23
  <2>2. QED
    BY <1>13, <2>1
<1>29. ScannerIs(u[i], "IDLE", e + 2, n, d + 1, m, PortAfter(a, p))
  <2>1. ScannerIs(u[i], "IDLE", e + 2, n, d + 1, m,
                  IF SameFor(ConsoleKey, SubSeq(L, e + 2, Len(L)), n)
                  THEN ParseCmdToken(L, d + 1, m, p) ELSE p)
    BY <1>22, <1>25, <1>28, EndScanned
  <2>2. PortAfter(a, p) = IF SameFor(ConsoleKey, SubSeq(L, e + 2, Len(L)), n)
                          THEN ParseCmdToken(L, d + 1, m, p) ELSE p
    BY <1>26, <1>27 DEF PortAfter
  <2>3. QED
    BY <2>1, <2>2
<1>30. Idle(u[i], PortAfter(a, p))
  BY <1>29, Zenon DEF Idle
<1>31. QED
  BY <1>1, <1>24, <1>30

\* t records what is written of a line before its first n arguments and after
\* each of them.
Writings(args, n, t) ==
  t = [i \in 0 .. n |->
         IF i = 0 THEN << >>
         ELSE t[i - 1] \o (IF i = 1 THEN << >> ELSE <<Space>>) \o Written(args[i])]

LEMMA WritingsExist ==
  ASSUME NEW args, NEW n \in Nat
  PROVE  \E t : Writings(args, n, t)
<1> DEFINE More(s, i) == s \o (IF i = 1 THEN << >> ELSE <<Space>>) \o Written(args[i])
           S == {k \in Nat : \E t : Writings(args, k, t)}
<1>1. 0 \in S
  <2>1. Writings(args, 0, [i \in 0 .. 0 |-> << >>])
    BY DEF Writings
  <2>2. QED
    BY <2>1
<1>2. ASSUME NEW k \in Nat, k \in S PROVE k + 1 \in S
  <2>1. PICK t : Writings(args, k, t)
    BY <1>2
  <2>2. t = [i \in 0 .. k |-> IF i = 0 THEN << >> ELSE More(t[i - 1], i)]
    BY <2>1 DEF Writings
  <2> HIDE DEF More
  <2> DEFINE v == [i \in 0 .. k + 1 |-> IF i = k + 1 THEN More(t[k], k + 1) ELSE t[i]]
  <2>3. ASSUME NEW i \in 0 .. k + 1
        PROVE  v[i] = IF i = 0 THEN << >> ELSE More(v[i - 1], i)
    <3>1. CASE i = k + 1
      <4>1. v[i] = More(t[k], k + 1) /\ v[k] = t[k] /\ i - 1 = k /\ i # 0
        BY <3>1
      <4> HIDE DEF v
      <4>2. QED
        BY <3>1, <4>1
    <3>2. CASE i # k + 1
      <4>1. i \in 0 .. k /\ (i # 0 => i - 1 \in 0 .. k /\ i - 1 # k + 1)
        BY <3>2
      <4>2. v[i] = t[i] /\ (i # 0 => v[i - 1] = t[i - 1])
        BY <4>1, <3>2
      <4>3. t[i] = IF i = 0 THEN << >> ELSE More(t[i - 1], i)
        BY <2>2, <4>1
      <4> HIDE DEF v
      <4>4. QED
        BY <4>2, <4>3
    <3>3. QED
      BY <3>1, <3>2
  <2>4. v = [i \in 0 .. k + 1 |-> v[i]]
    OBVIOUS
  <2> HIDE DEF v
  <2>5. v = [i \in 0 .. k + 1 |-> IF i = 0 THEN << >> ELSE More(v[i - 1], i)]
    BY <2>3, <2>4
  <2>6. Writings(args, k + 1, v)
    BY <2>5 DEF Writings, More
  <2>7. QED
    BY <2>6
<1>3. Nat \subseteq S
  <2> HIDE DEF S
  <2>1. QED
    BY <1>1, <1>2, Induct
<1>4. QED
  BY <1>3

\* A line is written one argument after another.
Grows(args, t) ==
  /\ t[0] = << >>
  /\ \A i \in 1 .. Len(args) :
       t[i] = t[i - 1] \o (IF i = 1 THEN << >> ELSE <<Space>>) \o Written(args[i])

LEMMA LineGrows ==
  ASSUME NEW args, Len(args) \in Nat
  PROVE  \E t : Grows(args, t) /\ Line(args) = t[Len(args)]
<1> DEFINE n == Len(args)
           D(t) == [i \in 0 .. n |->
                      IF i = 0 THEN << >>
                      ELSE t[i - 1] \o (IF i = 1 THEN << >> ELSE <<Space>>)
                             \o Written(args[i])]
<1>1. PICK v : v = D(v)
  <2>1. \E t : Writings(args, n, t)
    BY WritingsExist
  <2>2. QED
    BY <2>1 DEF Writings
<1>2. PICK t : t = D(t) /\ Line(args) = t[n]
  <2> DEFINE c == CHOOSE t : t = D(t)
  <2>1. c = D(c)
    BY <1>1
  <2>2. Line(args) = c[n]
    BY DEF Line
  <2>3. QED
    BY <2>1, <2>2, ZenonT(60)
<1>3. t[0] = << >>
  BY <1>2, SMTT(30)
<1>4. \A i \in 1 .. n :
        t[i] = t[i - 1] \o (IF i = 1 THEN << >> ELSE <<Space>>) \o Written(args[i])
  BY <1>2
<1>5. QED
  BY <1>2, <1>3, <1>4, ZenonT(60) DEF Grows

\* Where an argument begins on the line: its dash is after the e-th character.
Begin(t, k) == IF k = 1 THEN 0 ELSE Len(t[k - 1]) + 1

\* f is the beginning of g.
Begins(f, g) == Len(f) <= Len(g) /\ \A i \in 1 .. Len(f) : g[i] = f[i]

\* A word w after a space.
LEMMA Spaced ==
  ASSUME NEW C, Space \in C, NEW s \in Seq(C), NEW w \in Seq(C)
  PROVE  /\ s \o <<Space>> \o w \in Seq(C)
         /\ Len(s \o <<Space>> \o w) = Len(s) + 1 + Len(w)
         /\ \A i \in 1 .. Len(s) : (s \o <<Space>> \o w)[i] = s[i]
         /\ (s \o <<Space>> \o w)[Len(s) + 1] = Space
         /\ \A i \in 1 .. Len(w) : (s \o <<Space>> \o w)[Len(s) + 1 + i] = w[i]
<1>1. PICK f : f = s \o <<Space>>
  OBVIOUS
<1>2. /\ f \in Seq(C) /\ Len(f) = Len(s) + 1 /\ f[Len(s) + 1] = Space
      /\ \A i \in 1 .. Len(s) : f[i] = s[i]
  BY <1>1
<1>3. PICK v : v = f \o w
  OBVIOUS
<1>4. v \in Seq(C) /\ Len(v) = Len(f) + Len(w)
  BY <1>2, <1>3, Concatenated
<1>5. \A i \in 1 .. Len(f) : v[i] = f[i]
  BY <1>2, <1>3, Concatenated
<1>6. \A i \in 1 .. Len(w) : v[Len(f) + i] = w[i]
  BY <1>2, <1>3, Concatenated
<1>7. Len(s) + 1 \in 1 .. Len(f) /\ \A i \in 1 .. Len(s) : i \in 1 .. Len(f)
  BY <1>2
<1>8. v[Len(s) + 1] = Space /\ \A i \in 1 .. Len(s) : v[i] = s[i]
  BY <1>2, <1>5, <1>7
<1>9. QED
  BY <1>1, <1>2, <1>3, <1>4, <1>6, <1>8

\* What an argument written as w adds to the part s of the line.
Adds(v, s, e, w) ==
  /\ Begins(s, v)
  /\ Len(v) = e + Len(w)
  /\ \A i \in 1 .. Len(w) : v[e + i] = w[i]

LEMMA Added ==
  ASSUME NEW C, Space \in C, NEW s \in Seq(C), NEW w \in Seq(C)
  PROVE  /\ s \o <<Space>> \o w \in Seq(C)
         /\ Adds(s \o <<Space>> \o w, s, Len(s) + 1, w)
         /\ (s \o <<Space>> \o w)[Len(s) + 1] = Space
<1>1. PICK v : v = s \o <<Space>> \o w
  OBVIOUS
<1>2. /\ v \in Seq(C) /\ Len(v) = Len(s) + 1 + Len(w)
      /\ \A i \in 1 .. Len(s) : v[i] = s[i]
      /\ v[Len(s) + 1] = Space
      /\ \A i \in 1 .. Len(w) : v[Len(s) + 1 + i] = w[i]
  BY <1>1, Spaced
<1>3. Len(s) <= Len(v)
  BY <1>2
<1>4. QED
  BY <1>1, <1>2, <1>3 DEF Adds, Begins

LEMMA AddedFirst ==
  ASSUME NEW C, NEW w \in Seq(C)
  PROVE  << >> \o << >> \o w = w /\ Adds(w, << >>, 0, w)
<1>1. << >> \o << >> \o w = w
  OBVIOUS
<1>2. Begins(<< >>, w)
  BY DEF Begins
<1>3. Len(w) = 0 + Len(w) /\ \A i \in 1 .. Len(w) : w[0 + i] = w[i]
  OBVIOUS
<1>4. QED
  BY <1>1, <1>2, <1>3 DEF Adds

\* A set of characters that holds those of arguments and those between them.
Characters ==
  STRING \cup {"-", "=", Comma, Space} \cup Range(Debugcon) \cup Range(ConsoleKey)

LEMMA LargerSequences == ASSUME NEW A PROVE \A B : A \subseteq B => Seq(A) \subseteq Seq(B)
OBVIOUS

LEMMA ArgumentCharacters ==
  ASSUME NEW a \in Argument
  PROVE  LegibleChars(a, Characters) /\ Space \in Characters
<1>1. a.key \in Word /\ a.type \in Word /\ a.port \in Word
  BY DEF Argument
<1>2. Word \subseteq Seq(Characters)
  <2>1. STRING \subseteq Characters
    BY Zenon DEF Characters
  <2>2. QED
    BY <2>1, LargerSequences, Zenon DEF Word
<1>3. "-" \in Characters /\ "=" \in Characters /\ Comma \in Characters /\ Space \in Characters
  BY Zenon DEF Characters
<1>4. Debugcon \in Seq(Characters)
  <2>1. Debugcon \in Seq(Range(Debugcon))
    BY DEF Debugcon, Range
  <2>2. Range(Debugcon) \subseteq Characters
    BY Zenon DEF Characters
  <2>3. QED
    BY <2>1, <2>2, LargerSequences, Zenon
<1>5. ConsoleKey \in Seq(Characters)
  <2>1. ConsoleKey \in Seq(Range(ConsoleKey))
    BY DEF ConsoleKey, Range
  <2>2. Range(ConsoleKey) \subseteq Characters
    BY Zenon DEF Characters
  <2>3. QED
    BY <2>1, <2>2, LargerSequences, Zenon
<1>6. QED
  BY <1>1, <1>2, <1>3, <1>4, <1>5 DEF LegibleChars

\* An argument begins with a dash, and no digit comes after it.
LEMMA WrittenBegins ==
  ASSUME NEW a \in Argument, Legible(a)
  PROVE  /\ Written(a) \in Seq(Characters)
         /\ Len(Written(a)) >= 1 /\ Written(a)[1] = "-"
         /\ Len(Written(a)) >= 2 => DigitValue(Written(a)[2]) >= 10
<1>1. PICK w : w = Written(a)
  OBVIOUS
<1>2. /\ a.key \in Seq(Characters) /\ a.type \in Seq(Characters) /\ a.port \in Seq(Characters)
      /\ "-" \in Characters /\ "=" \in Characters /\ Comma \in Characters
  BY ArgumentCharacters DEF LegibleChars
<1>3. w \in Seq(Characters) /\ IsArgument(w, a)
  BY <1>1, <1>2, WrittenParts
<1>4. PICK n \in Nat : n = Len(a.key)
  BY <1>2
<1>5. /\ w[1] = "-"
      /\ \A i \in 1 .. n : w[1 + i] = a.key[i]
      /\ a.type = << >> => Len(w) = 1 + n
      /\ a.type # << >> => /\ Len(w) = 2 + n + Len(TypeAndPort(a)) /\ w[2 + n] = "="
  BY <1>3, <1>4 DEF IsArgument
<1>6. TypeAndPort(a) \in Seq(Characters)
  BY <1>2, ValueParts DEF TypeAndPort
<1>7. Len(w) >= 1
  BY <1>5, <1>6
<1>8. ASSUME Len(w) >= 2 PROVE DigitValue(w[2]) >= 10
  <2>1. CASE n = 0
    <3>1. w[2] = "="
      BY <1>5, <1>8, <2>1
    <3>2. QED
      BY <3>1, SeparatorValues
  <2>2. CASE n # 0
    <3>1. 1 \in 1 .. n /\ 1 + 1 = 2
      BY <2>2
    <3>2. w[2] = a.key[1]
      BY <1>5, <3>1
    <3>3. At(a.key, 1) = a.key[1]
      BY <1>4, <2>2 DEF At
    <3>4. DigitValue(At(a.key, 1)) >= 10
      BY DEF Legible
    <3>5. QED
      BY <3>2, <3>3, <3>4
  <2>3. QED
    BY <2>1, <2>2
<1>9. QED
  BY <1>1, <1>3, <1>5, <1>7, <1>8

\* An argument list that can be read.
LegibleLine(args) ==
  /\ Len(args) \in Nat
  /\ \A i \in 1 .. Len(args) : args[i] \in Argument /\ Legible(args[i])

\* The k-th argument follows those before it.
Follows(args, t, k) ==
  /\ t[k] \in Seq(Characters)
  /\ Adds(t[k], t[k - 1], Begin(t, k), Written(args[k]))
  /\ k # 1 => t[k][Begin(t, k)] = Space

LEMMA OneMore ==
  ASSUME NEW args, LegibleLine(args), NEW t, Grows(args, t),
         NEW k \in 1 .. Len(args), t[k - 1] \in Seq(Characters)
  PROVE  Follows(args, t, k)
<1>1. PICK w : w = Written(args[k])
  OBVIOUS
<1>2. w \in Seq(Characters) /\ Space \in Characters
  BY <1>1, WrittenBegins, ArgumentCharacters DEF LegibleLine
<1>3. t[k] = t[k - 1] \o (IF k = 1 THEN << >> ELSE <<Space>>) \o w
  BY <1>1 DEF Grows
<1>4. PICK s \in Seq(Characters) : s = t[k - 1]
  OBVIOUS
<1>5. CASE k = 1
  <2>1. s = << >>
    BY <1>4, <1>5 DEF Grows
  <2>2. t[k] = << >> \o << >> \o w
    BY <1>3, <1>4, <1>5, <2>1
  <2>3. t[k] = w /\ Adds(w, << >>, 0, w)
    BY <1>2, <2>2, AddedFirst
  <2>4. Begin(t, k) = 0
    BY <1>5 DEF Begin
  <2>5. QED
    BY <1>1, <1>2, <1>4, <1>5, <2>1, <2>3, <2>4 DEF Follows
<1>6. CASE k # 1
  <2>1. t[k] = s \o <<Space>> \o w
    BY <1>3, <1>4, <1>6
  <2>2. t[k] \in Seq(Characters) /\ Adds(t[k], s, Len(s) + 1, w) /\ t[k][Len(s) + 1] = Space
    BY <1>2, <2>1, Added, SMTT(30)
  <2>3. Begin(t, k) = Len(s) + 1
    BY <1>4, <1>6 DEF Begin
  <2>4. QED
    BY <1>1, <1>4, <2>2, <2>3 DEF Follows
<1>7. QED
  BY <1>5, <1>6

LEMMA AllFollow ==
  ASSUME NEW args, LegibleLine(args), NEW t, Grows(args, t)
  PROVE  /\ \A k \in 0 .. Len(args) : t[k] \in Seq(Characters)
         /\ \A k \in 1 .. Len(args) : Follows(args, t, k)
<1> DEFINE S == {k \in Nat : k <= Len(args) => t[k] \in Seq(Characters)}
<1>1. Len(args) \in Nat
  BY DEF LegibleLine
<1>2. 0 \in S
  <2>1. t[0] = << >> /\ << >> \in Seq(Characters)
    BY DEF Grows
  <2>2. QED
    BY <2>1
<1>3. ASSUME NEW k \in Nat, k \in S PROVE k + 1 \in S
  <2> SUFFICES ASSUME k + 1 <= Len(args) PROVE t[k + 1] \in Seq(Characters)
    OBVIOUS
  <2>1. PICK j \in 1 .. Len(args) : j = k + 1
    BY <1>1
  <2>2. t[j - 1] \in Seq(Characters)
    BY <1>1, <1>3, <2>1
  <2>3. Follows(args, t, j)
    BY <2>2, OneMore
  <2>4. QED
    BY <2>1, <2>3 DEF Follows
<1>4. Nat \subseteq S
  <2> HIDE DEF S
  <2>1. QED
    BY <1>2, <1>3, Induct
<1>5. \A k \in 0 .. Len(args) : t[k] \in Seq(Characters)
  BY <1>1, <1>4
<1>6. ASSUME NEW k \in 1 .. Len(args) PROVE Follows(args, t, k)
  <2>1. t[k - 1] \in Seq(Characters)
    BY <1>1, <1>5
  <2>2. QED
    BY <2>1, OneMore
<1>7. QED
  BY <1>5, <1>6

\* What is written stays written.
LEMMA StaysWritten ==
  ASSUME NEW args, LegibleLine(args), NEW t, Grows(args, t), NEW k \in 0 .. Len(args)
  PROVE  \A n \in k .. Len(args) : Begins(t[k], t[n])
<1> DEFINE S == {d \in Nat : k + d <= Len(args) => Begins(t[k], t[k + d])}
<1>1. Len(args) \in Nat
  BY DEF LegibleLine
<1>2. 0 \in S
  <2>1. k + 0 = k /\ t[k] \in Seq(Characters)
    BY <1>1, AllFollow
  <2>2. Begins(t[k], t[k])
    BY <2>1 DEF Begins
  <2>3. QED
    BY <2>1, <2>2
<1>3. ASSUME NEW d \in Nat, d \in S PROVE d + 1 \in S
  <2> SUFFICES ASSUME k + (d + 1) <= Len(args) PROVE Begins(t[k], t[k + (d + 1)])
    OBVIOUS
  <2>1. PICK j \in 1 .. Len(args) : j = k + (d + 1)
    BY <1>1
  <2>2. j - 1 = k + d /\ j - 1 \in 0 .. Len(args)
    BY <1>1, <2>1
  <2>3. Begins(t[k], t[j - 1])
    BY <1>1, <1>3, <2>2
  <2>4. Begins(t[j - 1], t[j])
    BY AllFollow DEF Follows, Adds
  <2>5. /\ t[k] \in Seq(Characters) /\ t[j - 1] \in Seq(Characters) /\ t[j] \in Seq(Characters)
    BY <1>1, <2>1, <2>2, AllFollow
  <2>6. PICK f, g, h : f = t[k] /\ g = t[j - 1] /\ h = t[j]
    OBVIOUS
  <2>7. PICK p \in Nat, q \in Nat, r \in Nat : p = Len(f) /\ q = Len(g) /\ r = Len(h)
    BY <2>5, <2>6
  <2>8. p <= q /\ q <= r
    BY <2>3, <2>4, <2>6, <2>7 DEF Begins
  <2>9. \A i \in 1 .. p : h[i] = f[i]
    <3>1. \A i \in 1 .. p : g[i] = f[i]
      BY <2>3, <2>6, <2>7 DEF Begins
    <3>2. \A i \in 1 .. q : h[i] = g[i]
      BY <2>4, <2>6, <2>7 DEF Begins
    <3>3. QED
      BY <2>8, <3>1, <3>2
  <2>10. Begins(f, h)
    BY <2>7, <2>8, <2>9 DEF Begins
  <2>11. QED
    BY <2>1, <2>6, <2>10
<1>4. Nat \subseteq S
  <2> HIDE DEF S
  <2>1. QED
    BY <1>2, <1>3, Induct
<1>5. ASSUME NEW n \in k .. Len(args) PROVE Begins(t[k], t[n])
  <2>1. PICK d \in Nat : d = n - k
    BY <1>1
  <2>2. k + d = n /\ n <= Len(args)
    BY <1>1, <2>1
  <2>3. d \in S
    BY <1>4
  <2>4. QED
    BY <2>2, <2>3
<1>6. QED
  BY <1>5

\* Every argument stands where it was written, and a space and a dash come
\* before the next.
LEMMA ArgumentStands ==
  ASSUME NEW args, LegibleLine(args), NEW t, Grows(args, t), NEW k \in 1 .. Len(args), NEW L,
         L = t[Len(args)]
  PROVE  /\ Begin(t, k) \in Nat /\ Begin(t, k) + Len(Written(args[k])) = Len(t[k])
         /\ StandsAt(args[k], L, Begin(t, k))
         /\ k < Len(args) => Len(t[k]) < Len(L)
<1>1. Len(args) \in Nat
  BY DEF LegibleLine
<1>2. \A j \in 0 .. Len(args) : t[j] \in Seq(Characters)
  BY AllFollow
<1>3. PICK w : w = Written(args[k])
  OBVIOUS
<1>4. w \in Seq(Characters)
  BY <1>3, WrittenBegins DEF LegibleLine
<1>5. PICK e : e = Begin(t, k)
  OBVIOUS
<1>6. e \in Nat
  <2>1. k - 1 \in 0 .. Len(args)
    BY <1>1
  <2>2. t[k - 1] \in Seq(Characters)
    BY <1>2, <2>1
  <2>3. Len(t[k - 1]) + 1 \in Nat
    BY <2>2
  <2>4. QED
    BY <1>5, <2>3 DEF Begin
<1>7. PICK v \in Seq(Characters) : v = t[k]
  BY <1>1, <1>2
<1>8. Len(v) = e + Len(w) /\ \A i \in 1 .. Len(w) : v[e + i] = w[i]
  <2>1. Follows(args, t, k)
    BY AllFollow
  <2>2. QED
    BY <1>3, <1>5, <1>7, <2>1 DEF Follows, Adds
<1>9. L \in Seq(Characters)
  BY <1>1, <1>2
<1>10. Begins(v, L)
  <2>1. k \in 0 .. Len(args) /\ Len(args) \in k .. Len(args)
    BY <1>1
  <2>2. QED
    BY <1>7, <2>1, StaysWritten
<1>11. PICK m \in Nat, n \in Nat : m = Len(w) /\ n = Len(L)
  BY <1>4, <1>9
<1>12. e + m <= n /\ \A i \in 1 .. e + m : L[i] = v[i]
  BY <1>8, <1>10, <1>11 DEF Begins
<1>13. \A i \in 1 .. m : L[e + i] = w[i]
  <2> SUFFICES ASSUME NEW i \in 1 .. m PROVE L[e + i] = w[i]
    OBVIOUS
  <2>1. e + i \in 1 .. e + m
    BY <1>6
  <2>2. QED
    BY <1>8, <1>11, <1>12, <2>1
<1>14. ASSUME k < Len(args)
       PROVE  /\ e + m < n /\ L[e + m + 1] = Space /\ At(L, e + m + 2) = "-"
              /\ DigitValue(At(L, e + m + 3)) >= 10
  <2>1. PICK j \in 1 .. Len(args) : j = k + 1
    BY <1>1, <1>14
  <2>2. PICK x : x = Written(args[j])
    OBVIOUS
  <2>3. /\ x \in Seq(Characters) /\ Len(x) >= 1 /\ x[1] = "-"
        /\ Len(x) >= 2 => DigitValue(x[2]) >= 10
    BY <2>2, WrittenBegins DEF LegibleLine
  <2>4. PICK q \in Nat : q = Len(x)
    BY <2>3
  <2>5. Begin(t, j) = e + m + 1
    <3>1. j # 1 /\ j - 1 = k
      BY <2>1
    <3>2. Begin(t, j) = Len(v) + 1
      BY <1>7, <3>1 DEF Begin
    <3>3. QED
      BY <1>8, <1>11, <3>2
  <2>6. PICK h \in Seq(Characters) : h = t[j]
    BY <1>1, <1>2
  <2>7. /\ Len(h) = e + m + 1 + q
        /\ \A i \in 1 .. q : h[e + m + 1 + i] = x[i]
        /\ h[e + m + 1] = Space
    <3>1. Follows(args, t, j) /\ j # 1
      BY <2>1, AllFollow
    <3>2. QED
      BY <2>2, <2>4, <2>5, <2>6, <3>1 DEF Follows, Adds
  <2>8. Begins(h, L)
    <3>1. j \in 0 .. Len(args) /\ Len(args) \in j .. Len(args)
      BY <1>1
    <3>2. QED
      BY <2>6, <3>1, StaysWritten
  <2>9. e + m + 1 + q <= n /\ \A i \in 1 .. e + m + 1 + q : L[i] = h[i]
    BY <1>11, <2>7, <2>8 DEF Begins
  <2>10. e + m < n /\ L[e + m + 1] = Space
    <3>1. e + m + 1 \in 1 .. e + m + 1 + q
      BY <1>6
    <3>2. QED
      BY <1>6, <2>7, <2>9, <3>1
  <2>11. q >= 1 /\ At(L, e + m + 2) = "-"
    <3>1. q >= 1 /\ 1 \in 1 .. q /\ e + m + 2 \in 1 .. e + m + 1 + q /\ e + m + 1 + 1 = e + m + 2
      BY <1>6, <2>3, <2>4
    <3>2. L[e + m + 2] = x[1]
      BY <2>7, <2>9, <3>1
    <3>3. e + m + 2 <= Len(L)
      BY <1>6, <1>11, <2>9, <3>1
    <3>4. QED
      BY <2>3, <3>1, <3>2, <3>3 DEF At
  <2>12. DigitValue(At(L, e + m + 3)) >= 10
    <3>1. CASE q >= 2
      <4>1. 2 \in 1 .. q /\ e + m + 3 \in 1 .. e + m + 1 + q /\ e + m + 1 + 2 = e + m + 3
        BY <1>6, <3>1
      <4>2. L[e + m + 3] = x[2]
        BY <2>7, <2>9, <4>1
      <4>3. e + m + 3 <= Len(L)
        <5>1. e + m + 3 <= e + m + 1 + q
          BY <1>6, <3>1
        <5>2. e + m + 1 + q <= n /\ n = Len(L)
          BY <1>11, <2>9
        <5>3. \A b, c \in Nat : e + m + 3 <= b /\ b <= c => e + m + 3 <= c
          BY <1>6
        <5>4. QED
          BY <1>6, <5>1, <5>2, <5>3
      <4>4. At(L, e + m + 3) = x[2]
        BY <4>2, <4>3 DEF At
      <4>5. QED
        BY <2>3, <2>4, <3>1, <4>4
    <3>2. CASE ~(q >= 2)
      <4>1. q = 1 /\ e + m + 1 + q + 1 = e + m + 3
        BY <1>6, <2>11, <3>2
      <4>2. At(L, e + m + 3) \in {Space, NUL}
        <5>1. CASE j < Len(args)
          <6>1. PICK j2 \in 1 .. Len(args) : j2 = j + 1
            BY <1>1, <5>1
          <6>2. Begin(t, j2) = e + m + 3
            <7>1. j2 # 1 /\ j2 - 1 = j
              BY <2>1, <6>1
            <7>2. Begin(t, j2) = Len(h) + 1
              BY <2>6, <7>1 DEF Begin
            <7>3. QED
              BY <2>7, <4>1, <7>2
          <6>3. Follows(args, t, j2) /\ j2 # 1
            BY <2>1, <6>1, AllFollow
          <6>4. t[j2][e + m + 3] = Space
            BY <6>2, <6>3 DEF Follows
          <6>5. Begins(t[j2], L)
            <7>1. j2 \in 0 .. Len(args) /\ Len(args) \in j2 .. Len(args)
              BY <1>1
            <7>2. QED
              BY <7>1, StaysWritten
          <6>6. e + m + 3 \in 1 .. Len(t[j2])
            <7>1. Len(t[j2]) = e + m + 3 + Len(Written(args[j2]))
              BY <6>2, <6>3 DEF Follows, Adds
            <7>2. Written(args[j2]) \in Seq(Characters)
              BY WrittenBegins DEF LegibleLine
            <7>3. PICK z \in Nat : z = Len(Written(args[j2]))
              BY <7>2
            <7>4. QED
              BY <1>6, <7>1, <7>3
          <6>7. L[e + m + 3] = Space /\ e + m + 3 <= Len(L)
            <7>1. PICK z \in Seq(Characters) : z = t[j2]
              BY <1>1, <1>2
            <7>2. QED
              BY <1>6, <6>4, <6>5, <6>6, <7>1, <1>11 DEF Begins
          <6>8. QED
            BY <6>7 DEF At
        <5>2. CASE ~(j < Len(args))
          <6>1. j = Len(args)
            BY <1>1, <5>2
          <6>2. L = h
            BY <2>6, <6>1
          <6>3. Len(L) = e + m + 2
            <7>1. Len(L) = e + m + 1 + 1 /\ e + m + 1 + 1 = e + m + 2
              BY <1>6, <2>7, <4>1, <6>2
            <7>2. QED
              BY <7>1
          <6>4. ~(e + m + 3 <= Len(L))
            BY <1>6, <6>3
          <6>5. QED
            BY <6>4 DEF At
        <5>3. QED
          BY <5>1, <5>2
      <4>3. QED
        BY <4>2, SeparatorValues
    <3>3. QED
      BY <3>1, <3>2
  <2>13. QED
    BY <2>10, <2>11, <2>12
<1>15. CASE k < Len(args)
  <2>1. StandsAt(args[k], L, e)
    BY <1>3, <1>11, <1>12, <1>13, <1>14, <1>15 DEF StandsAt
  <2>2. Len(t[k]) < Len(L)
    BY <1>7, <1>8, <1>11, <1>14, <1>15
  <2>3. QED
    BY <1>3, <1>5, <1>6, <1>7, <1>8, <2>1, <2>2
<1>16. CASE ~(k < Len(args))
  <2>1. L = v
    BY <1>1, <1>7, <1>16
  <2>2. ~(e + m < n)
    BY <1>6, <1>8, <1>11, <2>1
  <2>3. StandsAt(args[k], L, e)
    BY <1>3, <1>11, <1>12, <1>13, <2>2 DEF StandsAt
  <2>4. QED
    BY <1>3, <1>5, <1>6, <1>7, <1>8, <1>16, <2>3
<1>17. QED
  BY <1>15, <1>16

\* The arguments that ask for a debug port.
Asks(a) == a.key = ConsoleKey /\ a.type = Debugcon

\* p is the port that the first n arguments ask for.
AskedBy(args, n, p) ==
  \/ p = 0 /\ \A i \in 1 .. n : ~Asks(args[i])
  \/ \E i \in 1 .. n : /\ Asks(args[i]) /\ p = args[i].number
                       /\ \A j \in i + 1 .. n : ~Asks(args[j])

LEMMA AskedNext ==
  ASSUME NEW args, NEW n \in Nat, NEW p, AskedBy(args, n, p)
  PROVE  AskedBy(args, n + 1, PortAfter(args[n + 1], p))
<1>1. PICK a : a = args[n + 1]
  OBVIOUS
<1>2. CASE Asks(a)
  <2>1. PortAfter(a, p) = a.number
    BY <1>2 DEF PortAfter, Asks
  <2>2. n + 1 \in 1 .. n + 1 /\ \A j \in (n + 1) + 1 .. n + 1 : FALSE
    OBVIOUS
  <2>3. QED
    BY <1>1, <1>2, <2>1, <2>2 DEF AskedBy
<1>3. CASE ~Asks(a)
  <2>1. PortAfter(a, p) = p
    BY <1>3 DEF PortAfter, Asks
  <2>2. \A j \in 1 .. n + 1 : j \in 1 .. n \/ j = n + 1
    OBVIOUS
  <2>3. CASE p = 0 /\ \A i \in 1 .. n : ~Asks(args[i])
    <3>1. \A i \in 1 .. n + 1 : ~Asks(args[i])
      BY <1>1, <1>3, <2>2, <2>3
    <3>2. QED
      BY <1>1, <2>1, <2>3, <3>1 DEF AskedBy
  <2>4. CASE \E i \in 1 .. n : /\ Asks(args[i]) /\ p = args[i].number
                               /\ \A j \in i + 1 .. n : ~Asks(args[j])
    <3>1. PICK i \in 1 .. n : /\ Asks(args[i]) /\ p = args[i].number
                              /\ \A j \in i + 1 .. n : ~Asks(args[j])
      BY <2>4
    <3>2. i \in 1 .. n + 1 /\ \A j \in i + 1 .. n + 1 : j \in i + 1 .. n \/ j = n + 1
      OBVIOUS
    <3>3. \A j \in i + 1 .. n + 1 : ~Asks(args[j])
      BY <1>1, <1>3, <3>1, <3>2
    <3>4. QED
      BY <1>1, <2>1, <3>1, <3>2, <3>3 DEF AskedBy
  <2>5. QED
    BY <2>3, <2>4 DEF AskedBy
<1>4. QED
  BY <1>2, <1>3

\* The scanner after the first k arguments.
Scanned(args, t, u, k, p) ==
  /\ AskedBy(args, k, p)
  /\ u[Begin(t, k + 1)].port = p
  /\ k < Len(args) => Idle(u[Begin(t, k + 1)], p)

LEMMA IdlePort == ASSUME NEW s, NEW p, Idle(s, p) PROVE s.port = p
BY DEF Idle, ScannerIs

LEMMA IdleScanned ==
  ASSUME NEW L, NEW s, NEW i, NEW k, NEW kl, NEW v, NEW vl, NEW p,
         ScannerIs(s, "IDLE", k, kl, v, vl, p), At(L, i) # "-"
  PROVE  Scan(L, s, i) = s
BY DEF ScannerIs, Scan

LEMMA ArgumentScanned ==
  ASSUME NEW args, LegibleLine(args), NEW t, Grows(args, t), NEW L, L = t[Len(args)],
         NEW u, \A i \in 1 .. Len(L) + 1 : u[i] = Scan(L, u[i - 1], i),
         NEW k \in 1 .. Len(args), NEW p, Scanned(args, t, u, k - 1, p)
  PROVE  Scanned(args, t, u, k, PortAfter(args[k], p))
<1>1. Len(args) \in Nat
  BY DEF LegibleLine
<1>2. PICK a : a = args[k]
  OBVIOUS
<1>3. a \in Argument /\ Legible(a)
  BY <1>2 DEF LegibleLine
<1>4. LegibleChars(a, Characters)
  BY <1>3, ArgumentCharacters
<1>5. L \in Seq(Characters)
  BY <1>1, AllFollow
<1>6. PICK e : e = Begin(t, k)
  OBVIOUS
<1>7. /\ e \in Nat /\ e + Len(Written(a)) = Len(t[k]) /\ StandsAt(a, L, e)
      /\ k < Len(args) => Len(t[k]) < Len(L)
  BY <1>2, <1>6, ArgumentStands
<1>8. k - 1 + 1 = k /\ k - 1 < Len(args)
  BY <1>1
<1>9. AskedBy(args, k - 1, p) /\ Idle(u[e], p)
  BY <1>6, <1>8 DEF Scanned
<1>10. Begin(t, k + 1) = e + Len(Written(a)) + 1
  <2>1. k + 1 # 1 /\ k + 1 - 1 = k
    OBVIOUS
  <2>2. Begin(t, k + 1) = Len(t[k]) + 1
    BY <2>1 DEF Begin
  <2>3. QED
    BY <1>7, <2>2
<1>11. AskedBy(args, k, PortAfter(a, p))
  <2>1. PICK n \in Nat : n = k - 1
    OBVIOUS
  <2>2. AskedBy(args, n + 1, PortAfter(args[n + 1], p))
    BY <1>9, <2>1, AskedNext
  <2>3. n + 1 = k
    BY <2>1
  <2>4. QED
    BY <1>2, <2>2, <2>3
<1>12. CASE a.type = << >>
  <2>1. /\ u[e + Len(Written(a)) + 1].port = p
        /\ e + Len(Written(a)) < Len(L) => Idle(u[e + Len(Written(a)) + 1], p)
    <3>1. ReadTo(L, u, e + Len(Written(a)), p)
      BY <1>3, <1>4, <1>5, <1>7, <1>9, <1>12, FlagRead
    <3>2. QED
      BY <3>1 DEF ReadTo
  <2>2. PortAfter(a, p) = p
    <3>1. Debugcon # << >>
      BY DEF Debugcon
    <3>2. QED
      BY <1>12, <3>1 DEF PortAfter
  <2>3. QED
    BY <1>2, <1>7, <1>10, <1>11, <2>1, <2>2 DEF Scanned
<1>13. CASE a.type # << >>
  <2>1. Idle(u[e + Len(Written(a)) + 1], PortAfter(a, p))
    BY <1>3, <1>4, <1>5, <1>7, <1>9, <1>13, OptionRead
  <2>2. u[e + Len(Written(a)) + 1].port = PortAfter(a, p)
    BY <2>1, IdlePort
  <2>3. QED
    BY <1>2, <1>10, <1>11, <2>1, <2>2 DEF Scanned
<1>14. QED
  BY <1>12, <1>13

\* ParseCmd reads the port that a line's arguments ask for.
LEMMA LineRead ==
  ASSUME NEW args, LegibleLine(args)
  PROVE  AskedBy(args, Len(args), ParseCmd(Line(args)))
<1>1. Len(args) \in Nat
  BY DEF LegibleLine
<1>2. PICK t : Grows(args, t) /\ Line(args) = t[Len(args)]
  BY <1>1, LineGrows
<1>3. PICK L : L = Line(args)
  OBVIOUS
<1>4. L \in Seq(Characters)
  BY <1>1, <1>2, <1>3, AllFollow
<1>5. Len(L) \in Nat
  BY <1>4
<1>6. PICK u : /\ u[0] = Scanner
               /\ \A i \in 1 .. Len(L) + 1 : u[i] = Scan(L, u[i - 1], i)
               /\ ParseCmd(L) = u[Len(L) + 1].port
  BY <1>5, ParseCmdScans
<1> DEFINE S == {k \in Nat : k <= Len(args) => \E p : Scanned(args, t, u, k, p)}
<1>7. ASSUME Len(args) # 0 PROVE 0 \in S
  <2>1. Begin(t, 0 + 1) = 0
    BY DEF Begin
  <2>2. ScannerIs(u[0], "IDLE", 0, 0, 0, 0, 0)
    BY <1>6 DEF Scanner, ScannerIs
  <2>3. Idle(u[0], 0)
    BY <2>2, Zenon DEF Idle
  <2>4. AskedBy(args, 0, 0)
    <3>1. \A i \in 1 .. 0 : FALSE
      OBVIOUS
    <3>2. QED
      BY <3>1 DEF AskedBy
  <2>5. u[0].port = 0
    BY <2>3, IdlePort
  <2>6. Scanned(args, t, u, 0, 0)
    BY <2>1, <2>3, <2>4, <2>5 DEF Scanned
  <2>7. QED
    BY <2>6
<1>8. ASSUME NEW k \in Nat, k \in S PROVE k + 1 \in S
  <2> SUFFICES ASSUME k + 1 <= Len(args) PROVE \E p : Scanned(args, t, u, k + 1, p)
    OBVIOUS
  <2>1. PICK p : Scanned(args, t, u, k, p)
    BY <1>1, <1>8
  <2>2. PICK j \in 1 .. Len(args) : j = k + 1
    BY <1>1
  <2>3. Scanned(args, t, u, j - 1, p)
    <3>1. j - 1 = k
      BY <2>2
    <3>2. QED
      BY <2>1, <3>1
  <2>4. Scanned(args, t, u, j, PortAfter(args[j], p))
    BY <1>2, <1>3, <1>6, <2>3, ArgumentScanned
  <2>5. QED
    BY <2>2, <2>4
<1>9. CASE Len(args) # 0
  <2>1. Nat \subseteq S
    <3> HIDE DEF S
    <3>1. 0 \in S
      BY <1>7, <1>9
    <3>2. QED
      BY <1>8, <3>1, Induct
  <2>2. PICK p : Scanned(args, t, u, Len(args), p)
    BY <1>1, <2>1
  <2>3. Begin(t, Len(args) + 1) = Len(L) + 1
    <3>1. Len(args) + 1 # 1 /\ Len(args) + 1 - 1 = Len(args)
      BY <1>1, <1>9
    <3>2. QED
      BY <1>2, <1>3, <3>1 DEF Begin
  <2>4. AskedBy(args, Len(args), p) /\ u[Len(L) + 1].port = p
    BY <2>2, <2>3 DEF Scanned
  <2>5. QED
    BY <1>3, <1>6, <2>4
<1>10. CASE Len(args) = 0
  <2>1. L = << >>
    BY <1>2, <1>3, <1>10 DEF Grows
  <2>2. Len(L) + 1 = 1 /\ 1 - 1 = 0 /\ 1 \in 1 .. Len(L) + 1
    BY <2>1
  <2>3. u[1] = Scan(L, u[0], 1)
    BY <1>6, <2>2
  <2>4. At(L, 1) = NUL
    BY <2>1 DEF At
  <2>5. Scan(L, u[0], 1).port = 0
    <3>1. ScannerIs(u[0], "IDLE", 0, 0, 0, 0, 0)
      BY <1>6 DEF Scanner, ScannerIs
    <3>2. At(L, 1) # "-"
      BY <2>4, Separators
    <3>3. Scan(L, u[0], 1) = u[0]
      BY <3>1, <3>2, IdleScanned
    <3>4. QED
      BY <1>6, <3>3 DEF Scanner
  <2>6. ParseCmd(L) = 0
    BY <1>6, <2>2, <2>3, <2>5
  <2>7. AskedBy(args, 0, 0)
    <3>1. \A i \in 1 .. 0 : FALSE
      OBVIOUS
    <3>2. QED
      BY <3>1 DEF AskedBy
  <2>8. QED
    BY <1>3, <1>10, <2>6, <2>7
<1>11. QED
  BY <1>9, <1>10
=============================================================================
