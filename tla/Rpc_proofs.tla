----------------------------- MODULE Rpc_proofs -----------------------------
(***************************************************************************)
(* What a packet was made from is what is read from it; clients and a      *)
(* server whose stubs were made from the same interface stay in step, and  *)
(* keep the promise of RemoteCalls.  All of it holds for any number of     *)
(* clients, any interface, any calls and results that fit into packets,    *)
(* any width of tags and any failures.                                     *)
(***************************************************************************)
EXTENDS Rpc, WellFoundedInduction, FiniteSetTheorems, SequenceTheorems, TLAPS

-----------------------------------------------------------------------------
(* Sums, by induction                                                      *)

\* Numbers have a least one.
LEMMA LeastNat ==
  ASSUME NEW T, T \subseteq Nat, T # {}
  PROVE  \E n \in T : \A m \in T : n <= m
<1> DEFINE R == OpToRel(<, Nat)
<1>1. \A a, b \in Nat : a < b => <<a, b>> \in R
  BY DEF OpToRel
<1>2. IsWellFoundedOn(R, Nat)
  BY NatLessThanWellFounded
<1> HIDE DEF R
<1>3. PICK n \in T : \A m \in T : ~(<<m, n>> \in R)
  BY <1>2, WFMin
<1>4. \A m \in T : m \in Nat /\ n \in Nat /\ ~(m < n)
  BY <1>1, <1>3
<1>5. \A m \in T : n <= m
  BY <1>4
<1>6. QED
  BY <1>5

LEMMA Induct ==
  ASSUME NEW S, 0 \in S, \A n \in Nat : n \in S => n + 1 \in S
  PROVE  Nat \subseteq S
<1> DEFINE T == Nat \ S
<1>1. SUFFICES ASSUME T # {} PROVE FALSE
  OBVIOUS
<1>2. PICK n \in T : \A m \in T : n <= m
  <2>1. T \subseteq Nat
    OBVIOUS
  <2> HIDE DEF T
  <2>2. QED
    BY <1>1, <2>1, LeastNat
<1>3. n \in Nat /\ n # 0
  BY <1>2
<1>4. n - 1 \in Nat /\ ~(n <= n - 1) /\ n - 1 + 1 = n
  BY <1>3
<1>5. n - 1 \in S
  BY <1>2, <1>4
<1>6. QED
  BY <1>2, <1>4, <1>5


\* g is the function that the sum of f over S is computed with.
Sums(f, S, g) ==
  g = [s \in SUBSET S |-> IF s = {} THEN 0
         ELSE f[CHOOSE x \in s : TRUE] + g[s \ {CHOOSE x \in s : TRUE}]]

\* In the table g of the sums over the subsets of S, any term can be taken out.
Adds(f, S, g) == \A s \in SUBSET S : \A x \in s : g[s] = f[x] + g[s \ {x}]

LEMMA SumIs ==
  ASSUME NEW f, NEW S
  PROVE  SumFunctionOnSet(f, S) = (CHOOSE g : Sums(f, S, g))[S]
BY DEF SumFunctionOnSet, FoldFunctionOnSet, MapThenFoldSet, Sums

\* A set with one element less.
LEMMA OneLess ==
  ASSUME NEW S, IsFiniteSet(S), NEW s \in SUBSET S, NEW x \in s
  PROVE  /\ Cardinality(s) \in Nat /\ Cardinality(s) # 0
         /\ s \ {x} \in SUBSET S /\ Cardinality(s \ {x}) = Cardinality(s) - 1
<1>1. IsFiniteSet(s)
  BY FS_Subset
<1>2. Cardinality(s \ {x}) = Cardinality(s) - 1
  BY <1>1, FS_RemoveElement
<1>3. Cardinality(s) \in Nat
  BY <1>1, FS_CardinalityType
<1>4. Cardinality(s) # 0
  BY <1>1, FS_EmptySet
<1>5. QED
  BY <1>2, <1>3, <1>4

\* Induction over the subsets of a finite set, by their size.
LEMMA SubsetInduction ==
  ASSUME NEW S, IsFiniteSet(S), NEW P, {} \in P,
         \A s \in SUBSET S : s # {} /\ (\A x \in s : s \ {x} \in P) => s \in P
  PROVE  SUBSET S \subseteq P
<1> DEFINE N == {n \in Nat : \A s \in SUBSET S : Cardinality(s) = n => s \in P}
<1>1. 0 \in N
  <2> SUFFICES ASSUME NEW s \in SUBSET S, Cardinality(s) = 0 PROVE s \in P
    OBVIOUS
  <2>1. IsFiniteSet(s)
    BY FS_Subset
  <2>2. s = {}
    BY <2>1, FS_EmptySet
  <2>3. QED
    BY <2>2
<1>2. ASSUME NEW n \in Nat, n \in N PROVE n + 1 \in N
  <2> SUFFICES ASSUME NEW s \in SUBSET S, Cardinality(s) = n + 1 PROVE s \in P
    OBVIOUS
  <2>1. s # {}
    BY FS_EmptySet
  <2>2. ASSUME NEW x \in s PROVE s \ {x} \in P
    <3>1. s \ {x} \in SUBSET S /\ Cardinality(s \ {x}) = n + 1 - 1
      BY OneLess
    <3>2. n + 1 - 1 = n
      OBVIOUS
    <3>3. QED
      BY <1>2, <3>1, <3>2
  <2>3. QED
    BY <2>1, <2>2
<1> HIDE DEF N
<1>3. Nat \subseteq N
  BY <1>1, <1>2, Induct
<1>4. QED
  <2> SUFFICES ASSUME NEW s \in SUBSET S PROVE s \in P
    OBVIOUS
  <2>1. Cardinality(s) \in Nat
    BY FS_Subset, FS_CardinalityType
  <2>2. QED
    BY <1>3, <2>1 DEF N

LEMMA SumsExist ==
  ASSUME NEW S, IsFiniteSet(S), NEW f, \A x \in S : f[x] \in Int
  PROVE  \E g : Sums(f, S, g) /\ g \in [SUBSET S -> Int]
<1> DEFINE Value(g, s) == IF s = {} THEN 0
                          ELSE f[CHOOSE x \in s : TRUE] + g[s \ {CHOOSE x \in s : TRUE}]
           Upto(g, n) == /\ g \in [SUBSET S -> Int]
                         /\ \A s \in SUBSET S : Cardinality(s) <= n => g[s] = Value(g, s)
           N == {n \in Nat : \E g : Upto(g, n)}
<1>1. \A s \in SUBSET S : s # {} =>
        /\ (CHOOSE x \in s : TRUE) \in s
        /\ s \ {CHOOSE x \in s : TRUE} \in SUBSET S
        /\ Cardinality(s) \in Nat /\ Cardinality(s) # 0
        /\ Cardinality(s \ {CHOOSE x \in s : TRUE}) = Cardinality(s) - 1
  BY OneLess
<1>2. \A s \in SUBSET S : Cardinality(s) \in Nat /\ (Cardinality(s) = 0 <=> s = {})
  BY FS_Subset, FS_CardinalityType, FS_EmptySet
<1>3. 0 \in N
  <2> DEFINE g == [s \in SUBSET S |-> 0]
  <2>1. Upto(g, 0)
    BY <1>2
  <2>2. QED
    BY <2>1
<1>4. ASSUME NEW n \in Nat, n \in N PROVE n + 1 \in N
  <2>1. PICK g : Upto(g, n)
    BY <1>4
  <2> DEFINE h == [s \in SUBSET S |-> IF Cardinality(s) = n + 1 THEN Value(g, s) ELSE g[s]]
  <2>2. \A s \in SUBSET S : Value(g, s) \in Int
    BY <1>1, <2>1
  <2>3. h \in [SUBSET S -> Int]
    BY <2>1, <2>2
  <2>4. \A s \in SUBSET S : Cardinality(s) <= n => h[s] = g[s]
    BY <1>2
  <2>5. \A s \in SUBSET S : Cardinality(s) <= n + 1 => Value(h, s) = Value(g, s)
    <3> SUFFICES ASSUME NEW s \in SUBSET S, Cardinality(s) <= n + 1, s # {}
                 PROVE  Value(h, s) = Value(g, s)
      OBVIOUS
    <3> DEFINE t == s \ {CHOOSE x \in s : TRUE}
    <3>1. t \in SUBSET S /\ Cardinality(t) <= n
      BY <1>1
    <3>2. h[t] = g[t]
      BY <2>4, <3>1
    <3>3. QED
      BY <3>2
  <2>6. ASSUME NEW s \in SUBSET S, Cardinality(s) <= n + 1 PROVE h[s] = Value(h, s)
    <3>1. CASE Cardinality(s) = n + 1
      BY <2>5, <2>6, <3>1
    <3>2. CASE Cardinality(s) # n + 1
      <4>1. Cardinality(s) <= n
        BY <1>2, <2>6, <3>2
      <4>2. QED
        BY <2>1, <2>4, <2>5, <2>6, <4>1
    <3>3. QED
      BY <3>1, <3>2
  <2>7. Upto(h, n + 1)
    BY <2>3, <2>6
  <2> HIDE DEF Upto, h
  <2>8. \E k : Upto(k, n + 1)
    BY <2>7
  <2>9. QED
    BY <2>8
<1>5. Nat \subseteq N
  <2> HIDE DEF N
  <2>1. QED
    BY <1>3, <1>4, Induct
<1>6. Cardinality(S) \in Nat
  BY FS_CardinalityType
<1>7. PICK g : Upto(g, Cardinality(S))
  BY <1>5, <1>6
<1>8. \A s \in SUBSET S : Cardinality(s) <= Cardinality(S)
  BY FS_Subset
<1>9. \A s \in SUBSET S : g[s] = Value(g, s)
  BY <1>7, <1>8
<1>10. g = [s \in SUBSET S |-> Value(g, s)]
  BY <1>7, <1>9
<1>11. QED
  BY <1>7, <1>10 DEF Sums

LEMMA SumsAgree ==
  ASSUME NEW S, IsFiniteSet(S), NEW R \in SUBSET S, NEW f, NEW g, NEW h,
         Sums(f, S, g), Sums(f, R, h)
  PROVE  \A s \in SUBSET R : g[s] = h[s]
<1> DEFINE P == {s \in SUBSET R : g[s] = h[s]}
           pick(s) == CHOOSE x \in s : TRUE
<1>1. /\ \A s \in SUBSET S : g[s] = IF s = {} THEN 0 ELSE f[pick(s)] + g[s \ {pick(s)}]
      /\ \A s \in SUBSET R : h[s] = IF s = {} THEN 0 ELSE f[pick(s)] + h[s \ {pick(s)}]
  BY Zenon DEF Sums
<1>2. {} \in P
  BY <1>1
<1>3. ASSUME NEW s \in SUBSET R, s # {}, \A x \in s : s \ {x} \in P PROVE s \in P
  <2>1. pick(s) \in s
    BY <1>3
  <2>2. g[s \ {pick(s)}] = h[s \ {pick(s)}]
    BY <1>3, <2>1
  <2> HIDE DEF pick
  <2>3. s \in SUBSET S
    OBVIOUS
  <2>4. QED
    BY <1>1, <1>3, <2>2, <2>3
<1>4. IsFiniteSet(R)
  BY FS_Subset
<1>5. SUBSET R \subseteq P
  <2> HIDE DEF P
  <2>1. QED
    BY <1>2, <1>3, <1>4, SubsetInduction
<1>6. QED
  BY <1>5

\* A term can be taken out of a sum, whichever it is.
LEMMA SumsAdd ==
  ASSUME NEW S, IsFiniteSet(S), NEW f, \A x \in S : f[x] \in Int
  PROVE  \A g \in [SUBSET S -> Int] : Sums(f, S, g) => Adds(f, S, g)
<1> SUFFICES ASSUME NEW g \in [SUBSET S -> Int], Sums(f, S, g)
             PROVE  \A s \in SUBSET S : \A x \in s : g[s] = f[x] + g[s \ {x}]
  BY DEF Adds
<1> DEFINE P == {s \in SUBSET S : \A x \in s : g[s] = f[x] + g[s \ {x}]}
           pick(s) == CHOOSE x \in s : TRUE
<1>1. \A s \in SUBSET S : g[s] = IF s = {} THEN 0 ELSE f[pick(s)] + g[s \ {pick(s)}]
  BY Zenon DEF Sums
<1>2. {} \in P
  OBVIOUS
<1>3. ASSUME NEW s \in SUBSET S, s # {}, \A x \in s : s \ {x} \in P PROVE s \in P
  <2> SUFFICES ASSUME NEW x \in s PROVE g[s] = f[x] + g[s \ {x}]
    OBVIOUS
  <2>1. PICK y \in s : y = pick(s)
    BY <1>3
  <2> HIDE DEF pick
  <2>2. g[s] = f[y] + g[s \ {y}]
    BY <1>1, <1>3, <2>1
  <2>3. CASE x = y
    BY <2>2, <2>3
  <2>4. CASE x # y
    <3>1. s \ {y} \in P /\ x \in s \ {y} /\ s \ {x} \in P /\ y \in s \ {x}
      BY <1>3, <2>4
    <3> DEFINE t == s \ {x, y}
    <3>2. (s \ {y}) \ {x} = t /\ (s \ {x}) \ {y} = t
      OBVIOUS
    <3>3. g[s \ {y}] = f[x] + g[t]
      BY <3>1, <3>2
    <3>4. g[s \ {x}] = f[y] + g[t]
      BY <3>1, <3>2
    <3>5. f[x] \in Int /\ f[y] \in Int /\ g[t] \in Int
      OBVIOUS
    <3> HIDE DEF t
    <3>6. QED
      BY <2>2, <3>3, <3>4, <3>5
  <2>5. QED
    BY <2>3, <2>4
<1>4. SUBSET S \subseteq P
  <2> HIDE DEF P
  <2>1. QED
    BY <1>2, <1>3, SubsetInduction
<1>5. QED
  BY <1>4

LEMMA SumOfNone ==
  ASSUME NEW f
  PROVE  SumFunctionOnSet(f, {}) = 0
<1>1. IsFiniteSet({})
  BY FS_EmptySet
<1>2. \E g : Sums(f, {}, g)
  BY <1>1, SumsExist, Zenon
<1>3. PICK g : Sums(f, {}, g) /\ SumFunctionOnSet(f, {}) = g[{}]
  BY <1>2, SumIs
<1>4. {} \in SUBSET {}
  OBVIOUS
<1>5. QED
  BY <1>3, <1>4 DEF Sums

LEMMA SumTable ==
  ASSUME NEW S, IsFiniteSet(S), NEW f, \A x \in S : f[x] \in Int
  PROVE  \E g : /\ g \in [SUBSET S -> Int] /\ Sums(f, S, g)
               /\ SumFunctionOnSet(f, S) = g[S]
               /\ Adds(f, S, g)
<1>1. PICK g : Sums(f, S, g) /\ g \in [SUBSET S -> Int]
  BY SumsExist
<1>2. PICK h : Sums(f, S, h) /\ SumFunctionOnSet(f, S) = h[S]
  BY <1>1, SumIs
<1>3. S \in SUBSET S
  OBVIOUS
<1>4. g[S] = h[S]
  BY <1>1, <1>2, <1>3, SumsAgree
<1>5. Adds(f, S, g)
  BY <1>1, SumsAdd, Zenon
<1>6. QED
  BY <1>1, <1>2, <1>4, <1>5, Zenon

LEMMA SumWithout ==
  ASSUME NEW S, IsFiniteSet(S), NEW f, \A x \in S : f[x] \in Int, NEW a \in S
  PROVE  /\ SumFunctionOnSet(f, S) \in Int
         /\ SumFunctionOnSet(f, S \ {a}) \in Int
         /\ SumFunctionOnSet(f, S) = f[a] + SumFunctionOnSet(f, S \ {a})
<1> DEFINE R == S \ {a}
<1>1. IsFiniteSet(R)
  BY FS_Subset
<1>2. PICK g : /\ g \in [SUBSET S -> Int] /\ Sums(f, S, g)
               /\ SumFunctionOnSet(f, S) = g[S]
               /\ Adds(f, S, g)
  BY SumTable
<1>3. PICK h : /\ h \in [SUBSET R -> Int] /\ Sums(f, R, h)
               /\ SumFunctionOnSet(f, R) = h[R]
  BY <1>1, SumTable
<1>4. h[R] = g[R]
  <2>1. R \in SUBSET S /\ R \in SUBSET R
    OBVIOUS
  <2> HIDE DEF R
  <2>2. QED
    BY <1>2, <1>3, <2>1, SumsAgree
<1>5. g[S] = f[a] + g[R]
  <2>1. S \in SUBSET S
    OBVIOUS
  <2>2. \A s \in SUBSET S : \A y \in s : g[s] = f[y] + g[s \ {y}]
    BY <1>2 DEF Adds
  <2>3. QED
    BY <2>1, <2>2
<1>6. QED
  BY <1>2, <1>3, <1>4, <1>5

-----------------------------------------------------------------------------
(* Offsets                                                                 *)

\* The sum of the terms before the i-th.
Before(f, i) == SumFunctionOnSet(f, 1 .. (i - 1))

LEMMA BeforeSteps ==
  ASSUME NEW n \in Nat, NEW f, \A j \in 1 .. n : f[j] \in Nat
  PROVE  /\ Before(f, 1) = 0
         /\ \A i \in 1 .. n : Before(f, i + 1) = f[i] + Before(f, i)
         /\ \A i \in 1 .. (n + 1) : Before(f, i) \in Nat
<1>1. Before(f, 1) = 0
  <2>1. 1 .. (1 - 1) = {}
    OBVIOUS
  <2>2. QED
    BY <2>1, SumOfNone DEF Before
<1>2. ASSUME NEW i \in 1 .. n PROVE Before(f, i + 1) = f[i] + Before(f, i)
  <2> DEFINE S == 1 .. i
  <2>1. 1 .. (i + 1 - 1) = S /\ S \ {i} = 1 .. (i - 1) /\ i \in S
    OBVIOUS
  <2>2. 1 \in Int /\ i \in Int
    OBVIOUS
  <2>3. IsFiniteSet(S)
    BY <2>2, FS_Interval
  <2>4. \A x \in S : f[x] \in Int
    OBVIOUS
  <2> HIDE DEF S
  <2>5. SumFunctionOnSet(f, S) = f[i] + SumFunctionOnSet(f, S \ {i})
    BY <2>1, <2>3, <2>4, SumWithout
  <2>6. /\ Before(f, i + 1) = SumFunctionOnSet(f, 1 .. (i + 1 - 1))
        /\ Before(f, i) = SumFunctionOnSet(f, 1 .. (i - 1))
    BY DEF Before
  <2>7. QED
    BY <2>1, <2>5, <2>6, Zenon
<1>3. \A i \in 1 .. (n + 1) : Before(f, i) \in Nat
  <2> DEFINE N == {k \in Nat : k <= n => Before(f, k + 1) \in Nat}
  <2>1. 0 \in N
    BY <1>1
  <2>2. ASSUME NEW k \in Nat, k \in N PROVE k + 1 \in N
    <3> SUFFICES ASSUME k + 1 <= n PROVE Before(f, k + 1 + 1) \in Nat
      OBVIOUS
    <3>1. k + 1 \in 1 .. n /\ Before(f, k + 1) \in Nat
      BY <2>2
    <3>2. QED
      BY <1>2, <3>1
  <2>3. Nat \subseteq N
    <3> HIDE DEF N
    <3>1. QED
      BY <2>1, <2>2, Induct
  <2>4. ASSUME NEW i \in 1 .. (n + 1) PROVE Before(f, i) \in Nat
    <3>1. i - 1 \in Nat /\ i - 1 <= n /\ i - 1 + 1 = i
      OBVIOUS
    <3>2. i - 1 \in N
      BY <2>3, <3>1
    <3>3. QED
      BY <3>1, <3>2
  <2>5. QED
    BY <2>4
<1>4. QED
  BY <1>1, <1>2, <1>3

\* Terms are one after the other.
LEMMA BeforeOrdered ==
  ASSUME NEW n \in Nat, NEW f, \A j \in 1 .. n : f[j] \in Nat,
         NEW i \in 1 .. n, NEW j \in 1 .. (n + 1), i < j
  PROVE  Before(f, i) + f[i] <= Before(f, j)
<1> DEFINE N == {k \in Nat : i + 1 + k <= n + 1 =>
                               Before(f, i) + f[i] <= Before(f, i + 1 + k)}
<1>1. /\ \A k \in 1 .. n : Before(f, k + 1) = f[k] + Before(f, k)
      /\ \A k \in 1 .. (n + 1) : Before(f, k) \in Nat
  BY BeforeSteps
<1>2. 0 \in N
  <2>1. i + 1 + 0 = i + 1 /\ i \in 1 .. (n + 1)
    OBVIOUS
  <2>2. Before(f, i + 1) = f[i] + Before(f, i) /\ f[i] \in Nat /\ Before(f, i) \in Nat
    BY <1>1, <2>1
  <2>3. QED
    BY <2>1, <2>2
<1>3. ASSUME NEW k \in Nat, k \in N PROVE k + 1 \in N
  <2> SUFFICES ASSUME i + 1 + (k + 1) <= n + 1
               PROVE  Before(f, i) + f[i] <= Before(f, i + 1 + (k + 1))
    OBVIOUS
  <2> DEFINE m == i + 1 + k
  <2>1. m \in 1 .. n /\ m \in 1 .. (n + 1) /\ i + 1 + (k + 1) = m + 1 /\ i \in 1 .. (n + 1)
    OBVIOUS
  <2>2. Before(f, i) + f[i] <= Before(f, m)
    BY <1>3, <2>1
  <2> HIDE DEF m
  <2>3. /\ Before(f, m + 1) = f[m] + Before(f, m) /\ f[m] \in Nat
        /\ Before(f, m) \in Nat /\ Before(f, i) \in Nat /\ f[i] \in Nat
    BY <1>1, <2>1
  <2>4. QED
    BY <2>1, <2>2, <2>3
<1>4. Nat \subseteq N
  <2> HIDE DEF N
  <2>1. QED
    BY <1>2, <1>3, Induct
<1>5. j - i - 1 \in N
  <2>1. j - i - 1 \in Nat
    OBVIOUS
  <2>2. QED
    BY <1>4, <2>1
<1>6. i + 1 + (j - i - 1) = j
  OBVIOUS
<1>7. QED
  BY <1>5, <1>6

\* How many numbers fit into a word.
Words == 65536 * 65536

LEMMA WireSizes ==
  ASSUME NEW t \in STRING
  PROVE  WireSize(t) \in Nat /\ (IsBlob(t) => WireSize(t) = 8)
<1>1. CASE t \in DOMAIN gWireSizes
  BY <1>1 DEF gWireSizes, WireSize, IsBlob
<1>2. CASE t \notin DOMAIN gWireSizes
  BY <1>2 DEF WireSize
<1>3. QED
  BY <1>1, <1>2

\* Where the elements and the blobs of a packet are.
Placed(sig, args) ==
  /\ Len(sig) \in Nat /\ DOMAIN sig = 1 .. Len(sig) /\ DOMAIN args = 1 .. Len(sig)
  /\ ScalarBytes(sig) \in Nat /\ BlobStartOffset(sig) \in Nat
  /\ ScalarBytes(sig) <= BlobStartOffset(sig)
  /\ BytesFor(sig, args) \in Nat /\ BytesFor(sig, args) < Words
  /\ ScalarBytes(sig) <= BytesFor(sig, args)
  /\ \A i \in 1 .. Len(sig) :
       /\ WireSize(sig[i]) \in Nat /\ WireSize(sig[i]) > 0
       /\ args[i] \in Seq(0 .. 255) /\ Len(args[i]) \in Nat
       /\ ElementOffset(sig, i) \in Nat
       /\ ElementOffset(sig, i) + WireSize(sig[i]) <= ScalarBytes(sig)
       /\ BlobOffset(sig, args, i) \in Nat
       /\ BlobStartOffset(sig) <= BlobOffset(sig, args, i)
       /\ BlobSize(sig, args, i) \in Nat
       /\ BlobOffset(sig, args, i) + BlobSize(sig, args, i) <= BytesFor(sig, args)
       /\ IsBlob(sig[i]) => WireSize(sig[i]) = 8 /\ BlobSize(sig, args, i) = Len(args[i])
       /\ ~IsBlob(sig[i]) => BlobSize(sig, args, i) = 0 /\ Len(args[i]) = WireSize(sig[i])
  /\ \A i, j \in 1 .. Len(sig) : i < j =>
       /\ ElementOffset(sig, i) + WireSize(sig[i]) <= ElementOffset(sig, j)
       /\ BlobOffset(sig, args, i) + BlobSize(sig, args, i) <= BlobOffset(sig, args, j)

LEMMA FitsPlaced ==
  ASSUME NEW sig, NEW args, Fits(sig, args)
  PROVE  Placed(sig, args)
<1> DEFINE n == Len(sig)
           w == [j \in DOMAIN sig |-> WireSize(sig[j])]
           b == [j \in DOMAIN sig |-> BlobSize(sig, args, j)]
<1>1. /\ n \in Nat /\ DOMAIN sig = 1 .. n /\ DOMAIN args = 1 .. n
      /\ \A i \in 1 .. n : sig[i] \in STRING /\ args[i] \in Seq(0 .. 255)
  BY DEF Fits
<1>2. \A i \in 1 .. n : Len(args[i]) \in Nat
  BY <1>1
<1>3. \A i \in 1 .. n :
        /\ WireSize(sig[i]) \in Nat /\ WireSize(sig[i]) > 0
        /\ IsBlob(sig[i]) => WireSize(sig[i]) = 8
        /\ ~IsBlob(sig[i]) => Len(args[i]) = WireSize(sig[i])
  <2> SUFFICES ASSUME NEW i \in 1 .. n
               PROVE  /\ WireSize(sig[i]) \in Nat /\ WireSize(sig[i]) > 0
                      /\ IsBlob(sig[i]) => WireSize(sig[i]) = 8
                      /\ ~IsBlob(sig[i]) => Len(args[i]) = WireSize(sig[i])
    OBVIOUS
  <2>1. sig[i] \in STRING /\ i \in DOMAIN sig
    BY <1>1
  <2>2. WireSize(sig[i]) \in Nat /\ (IsBlob(sig[i]) => WireSize(sig[i]) = 8)
    BY <2>1, WireSizes
  <2>3. WireSize(sig[i]) > 0 /\ (~IsBlob(sig[i]) => Len(args[i]) = WireSize(sig[i]))
    <3>1. \A k \in DOMAIN sig :
            WireSize(sig[k]) > 0 /\ (~IsBlob(sig[k]) => Len(args[k]) = WireSize(sig[k]))
      BY DEF Fits
    <3>2. QED
      BY <2>1, <3>1
  <2>4. QED
    BY <2>2, <2>3
<1>4. \A i \in 1 .. n :
        /\ BlobSize(sig, args, i) \in Nat
        /\ IsBlob(sig[i]) => BlobSize(sig, args, i) = Len(args[i])
        /\ ~IsBlob(sig[i]) => BlobSize(sig, args, i) = 0
  BY <1>2 DEF BlobSize
<1>5. /\ \A i \in 1 .. n : w[i] = WireSize(sig[i]) /\ w[i] \in Nat
      /\ \A i \in 1 .. n : b[i] = BlobSize(sig, args, i) /\ b[i] \in Nat
  BY <1>1, <1>3, <1>4
<1>6. /\ \A i : ElementOffset(sig, i) = Before(w, i)
      /\ \A i : BlobOffset(sig, args, i) = BlobStartOffset(sig) + Before(b, i)
  BY Zenon DEF ElementOffset, BlobOffset, Before
<1> HIDE DEF w, b
<1>7. /\ \A i \in 1 .. (n + 1) : Before(w, i) \in Nat
      /\ \A i \in 1 .. n, j \in 1 .. (n + 1) : i < j => Before(w, i) + w[i] <= Before(w, j)
  BY <1>1, <1>5, BeforeSteps, BeforeOrdered
<1>8. /\ \A i \in 1 .. (n + 1) : Before(b, i) \in Nat
      /\ \A i \in 1 .. n, j \in 1 .. (n + 1) : i < j => Before(b, i) + b[i] <= Before(b, j)
  BY <1>1, <1>5, BeforeSteps, BeforeOrdered
<1>9. ScalarBytes(sig) = Before(w, n + 1) /\ BytesFor(sig, args) = BlobStartOffset(sig) + Before(b, n + 1)
  BY <1>6 DEF ScalarBytes, BytesFor
<1>10. n + 1 \in 1 .. (n + 1) /\ \A i \in 1 .. n : i \in 1 .. (n + 1) /\ i < n + 1
  BY <1>1
<1>11. ScalarBytes(sig) \in Nat /\ Before(b, n + 1) \in Nat
  BY <1>7, <1>8, <1>9, <1>10
<1>12. BlobStartOffset(sig) \in Nat /\ ScalarBytes(sig) <= BlobStartOffset(sig)
  BY <1>11 DEF BlobStartOffset
<1>13. BytesFor(sig, args) \in Nat /\ ScalarBytes(sig) <= BytesFor(sig, args)
  BY <1>9, <1>11, <1>12
<1>14. BytesFor(sig, args) < Words
  <2>1. BytesFor(sig, args) \div 65536 < 65536
    BY DEF Fits
  <2> DEFINE total == BytesFor(sig, args)
  <2>2. total \in Nat
    BY <1>13
  <2> HIDE DEF total
  <2>3. total \div 65536 < 65536 => total < Words
    BY <2>2 DEF Words
  <2>4. QED
    BY <2>1, <2>3 DEF total
<1>15. ASSUME NEW i \in 1 .. n
       PROVE  /\ ElementOffset(sig, i) \in Nat
              /\ ElementOffset(sig, i) + WireSize(sig[i]) <= ScalarBytes(sig)
              /\ BlobOffset(sig, args, i) \in Nat
              /\ BlobStartOffset(sig) <= BlobOffset(sig, args, i)
              /\ BlobOffset(sig, args, i) + BlobSize(sig, args, i) <= BytesFor(sig, args)
  <2>1. /\ Before(w, i) \in Nat /\ Before(b, i) \in Nat
        /\ Before(w, i) + w[i] <= Before(w, n + 1)
        /\ Before(b, i) + b[i] <= Before(b, n + 1)
    BY <1>7, <1>8, <1>10
  <2>2. w[i] = WireSize(sig[i]) /\ b[i] = BlobSize(sig, args, i) /\ b[i] \in Nat
    BY <1>5
  <2>3. QED
    BY <1>6, <1>9, <1>11, <1>12, <2>1, <2>2
<1>16. ASSUME NEW i \in 1 .. n, NEW j \in 1 .. n, i < j
       PROVE  /\ ElementOffset(sig, i) + WireSize(sig[i]) <= ElementOffset(sig, j)
              /\ BlobOffset(sig, args, i) + BlobSize(sig, args, i) <= BlobOffset(sig, args, j)
  <2>1. /\ Before(w, i) \in Nat /\ Before(b, i) \in Nat /\ Before(b, j) \in Nat
        /\ Before(w, i) + w[i] <= Before(w, j)
        /\ Before(b, i) + b[i] <= Before(b, j)
    BY <1>7, <1>8, <1>10, <1>16
  <2>2. w[i] = WireSize(sig[i]) /\ b[i] = BlobSize(sig, args, i) /\ b[i] \in Nat
    BY <1>5
  <2>3. QED
    BY <1>6, <1>12, <2>1, <2>2
<1>17. QED
  BY <1>1, <1>2, <1>3, <1>4, <1>11, <1>12, <1>13, <1>14, <1>15, <1>16 DEF Placed

-----------------------------------------------------------------------------
(* Packets                                                                 *)

\* A number of 32 bits is what its bytes say.
LEMMA WordBytes ==
  ASSUME NEW v \in Nat, v < Words
  PROVE  /\ Word(v) \in Seq(0 .. 255) /\ Len(Word(v)) = 4
         /\ Word(v)[1] + 256 * (Word(v)[2] + 256 * (Word(v)[3] + 256 * Word(v)[4])) = v
<1> DEFINE a == v \div 256
           b == v \div 65536
           c == v \div 16777216
<1>1. a \in Nat /\ v = 256 * a + (v % 256)
  OBVIOUS
<1>2. b \in Nat /\ a = 256 * b + (a % 256)
  OBVIOUS
<1>3. c \in Nat /\ b = 256 * c + (b % 256) /\ c < 256 /\ c % 256 = c
  BY DEF Words
<1>4. /\ v % 256 \in 0 .. 255 /\ a % 256 \in 0 .. 255 /\ b % 256 \in 0 .. 255
      /\ c % 256 \in 0 .. 255
  BY <1>1, <1>2, <1>3
<1>5. Word(v) = <<v % 256, a % 256, b % 256, c % 256>>
  BY DEF Word
<1> HIDE DEF a, b, c
<1>6. /\ Word(v)[1] = v % 256 /\ Word(v)[2] = a % 256 /\ Word(v)[3] = b % 256
      /\ Word(v)[4] = c % 256 /\ Len(Word(v)) = 4
  BY <1>5
<1>7. (v % 256) + 256 * ((a % 256) + 256 * ((b % 256) + 256 * (c % 256))) = v
  BY <1>1, <1>2, <1>3, <1>4
<1>8. Word(v) \in Seq(0 .. 255)
  BY <1>4, <1>5
<1>9. QED
  BY <1>6, <1>7, <1>8

LEMMA ElementBytes ==
  ASSUME NEW sig, NEW args, Placed(sig, args), NEW i \in 1 .. Len(sig)
  PROVE  /\ Element(sig, args, i) \in Seq(0 .. 255)
         /\ Len(Element(sig, args, i)) = WireSize(sig[i])
<1>1. CASE IsBlob(sig[i])
  <2> DEFINE u == Word(BlobOffset(sig, args, i))
             v == Word(Len(args[i]))
  <2>1. /\ BlobOffset(sig, args, i) \in Nat /\ BlobOffset(sig, args, i) < Words
        /\ Len(args[i]) \in Nat /\ Len(args[i]) < Words
    <3>1. /\ BlobOffset(sig, args, i) \in Nat /\ Len(args[i]) \in Nat
          /\ BlobOffset(sig, args, i) + Len(args[i]) <= BytesFor(sig, args)
          /\ BytesFor(sig, args) \in Nat /\ BytesFor(sig, args) < Words
      BY <1>1 DEF Placed
    <3>2. Words \in Nat
      BY DEF Words
    <3>3. QED
      BY <3>1, <3>2
  <2>2. /\ u \in Seq(0 .. 255) /\ Len(u) = 4
        /\ v \in Seq(0 .. 255) /\ Len(v) = 4
    BY <2>1, WordBytes
  <2>3. Element(sig, args, i) = u \o v
    BY <1>1 DEF Element
  <2> HIDE DEF u, v
  <2>4. u \o v \in Seq(0 .. 255) /\ Len(u \o v) = 8
    <3>1. u \o v \in Seq(0 .. 255) /\ Len(u \o v) = Len(u) + Len(v)
      BY <2>2, ConcatProperties
    <3>2. QED
      BY <2>2, <3>1
  <2>5. QED
    BY <1>1, <2>3, <2>4 DEF Placed
<1>2. CASE ~IsBlob(sig[i])
  BY <1>2 DEF Element, Placed
<1>3. QED
  BY <1>1, <1>2

\* What a round of serialize writes, and where.
LEMMA RoundBytes ==
  ASSUME NEW sig, NEW args, Placed(sig, args), NEW i \in 1 .. Len(sig)
  PROVE  LET E == ElementOffset(sig, i)
             B == BlobOffset(sig, args, i)
             round == WrittenElement(sig, args, i)
         IN  /\ DOMAIN round = ((E + 1) .. (E + WireSize(sig[i])))
                                 \cup ((B + 1) .. (B + BlobSize(sig, args, i)))
             /\ \A p \in (E + 1) .. (E + WireSize(sig[i])) :
                  round[p] = Element(sig, args, i)[p - E]
             /\ \A p \in (B + 1) .. (B + BlobSize(sig, args, i)) :
                  IsBlob(sig[i]) /\ round[p] = args[i][p - B]
<1> DEFINE E == ElementOffset(sig, i)
           B == BlobOffset(sig, args, i)
           w == WireSize(sig[i])
           s == BlobSize(sig, args, i)
           bytes == IF IsBlob(sig[i]) THEN args[i] ELSE <<>>
           round == WrittenElement(sig, args, i)
<1>1. /\ E \in Nat /\ B \in Nat /\ w \in Nat /\ s \in Nat /\ E + w <= B
      /\ IsBlob(sig[i]) => s = Len(args[i])
      /\ ~IsBlob(sig[i]) => s = 0
  BY DEF Placed
<1>2. Len(Element(sig, args, i)) = w /\ Len(bytes) = s
  BY <1>1, ElementBytes
<1>3. /\ DOMAIN At(E, Element(sig, args, i)) = (E + 1) .. (E + w)
      /\ DOMAIN At(B, bytes) = (B + 1) .. (B + s)
      /\ \A p \in (E + 1) .. (E + w) : At(E, Element(sig, args, i))[p] = Element(sig, args, i)[p - E]
      /\ \A p \in (B + 1) .. (B + s) : At(B, bytes)[p] = bytes[p - B]
  BY <1>2 DEF At
<1>4. round = [p \in DOMAIN At(E, Element(sig, args, i)) \cup DOMAIN At(B, bytes) |->
                 IF p \in DOMAIN At(E, Element(sig, args, i))
                 THEN At(E, Element(sig, args, i))[p] ELSE At(B, bytes)[p]]
  BY DEF WrittenElement
<1> HIDE DEF round, E, B, w, s
<1>5. /\ DOMAIN round = ((E + 1) .. (E + w)) \cup ((B + 1) .. (B + s))
      /\ \A p \in (E + 1) .. (E + w) : round[p] = Element(sig, args, i)[p - E]
      /\ \A p \in (B + 1) .. (B + s) : p \notin (E + 1) .. (E + w) => round[p] = bytes[p - B]
  BY <1>3, <1>4
<1>6. \A p \in (B + 1) .. (B + s) : p \notin (E + 1) .. (E + w) /\ s # 0
  BY <1>1
<1>7. \A p \in (B + 1) .. (B + s) : IsBlob(sig[i]) /\ round[p] = args[i][p - B]
  BY <1>1, <1>5, <1>6
<1>8. QED
  BY <1>5, <1>7 DEF round, E, B, w, s

LEMMA ApartFrom ==
  ASSUME NEW a \in Nat, NEW m \in Nat, NEW b \in Nat, NEW n \in Nat,
         a + m <= b \/ b + n <= a, NEW p \in (a + 1) .. (a + m)
  PROVE  p \notin (b + 1) .. (b + n)
OBVIOUS

\* No two rounds write the same byte.
LEMMA RoundsApart ==
  ASSUME NEW sig, NEW args, Placed(sig, args),
         NEW i \in 1 .. Len(sig), NEW j \in 1 .. Len(sig), i # j,
         NEW p \in DOMAIN WrittenElement(sig, args, i)
  PROVE  p \notin DOMAIN WrittenElement(sig, args, j)
<1> DEFINE E(k) == ElementOffset(sig, k)
           B(k) == BlobOffset(sig, args, k)
           w(k) == WireSize(sig[k])
           s(k) == BlobSize(sig, args, k)
           start == BlobStartOffset(sig)
<1>1. \A k \in 1 .. Len(sig) :
        /\ E(k) \in Nat /\ B(k) \in Nat /\ w(k) \in Nat /\ s(k) \in Nat
        /\ E(k) + w(k) <= ScalarBytes(sig) /\ start <= B(k)
  BY DEF Placed
<1>2. ScalarBytes(sig) \in Nat /\ start \in Nat /\ ScalarBytes(sig) <= start
  BY DEF Placed
<1>3. \A k, l \in 1 .. Len(sig) : k < l => E(k) + w(k) <= E(l) /\ B(k) + s(k) <= B(l)
  BY DEF Placed
<1>4. \A k \in 1 .. Len(sig) :
        DOMAIN WrittenElement(sig, args, k)
           = ((E(k) + 1) .. (E(k) + w(k))) \cup ((B(k) + 1) .. (B(k) + s(k)))
  BY RoundBytes
<1>5. Len(sig) \in Nat
  BY DEF Placed
<1> HIDE DEF E, B, w, s, start
<1>6. /\ E(i) \in Nat /\ B(i) \in Nat /\ w(i) \in Nat /\ s(i) \in Nat
      /\ E(i) + w(i) <= start /\ start <= B(i)
  BY <1>1, <1>2
<1>7. /\ E(j) \in Nat /\ B(j) \in Nat /\ w(j) \in Nat /\ s(j) \in Nat
      /\ E(j) + w(j) <= start /\ start <= B(j)
  BY <1>1, <1>2
<1>8. \/ E(i) + w(i) <= E(j) /\ B(i) + s(i) <= B(j)
      \/ E(j) + w(j) <= E(i) /\ B(j) + s(j) <= B(i)
  <2>1. i < j \/ j < i
    BY <1>5
  <2>2. QED
    BY <1>3, <2>1
<1>9. \/ p \in (E(i) + 1) .. (E(i) + w(i))
      \/ p \in (B(i) + 1) .. (B(i) + s(i))
  BY <1>4
<1>10. /\ p \notin (E(j) + 1) .. (E(j) + w(j))
       /\ p \notin (B(j) + 1) .. (B(j) + s(j))
  <2>1. /\ E(i) + w(i) <= E(j) \/ E(j) + w(j) <= E(i)
        /\ B(i) + s(i) <= B(j) \/ B(j) + s(j) <= B(i)
        /\ E(i) + w(i) <= B(j) \/ B(j) + s(j) <= E(i)
        /\ B(i) + s(i) <= E(j) \/ E(j) + w(j) <= B(i)
    BY <1>2, <1>6, <1>7, <1>8
  <2>2. CASE p \in (E(i) + 1) .. (E(i) + w(i))
    BY <1>6, <1>7, <2>1, <2>2, ApartFrom, Zenon
  <2>3. CASE p \in (B(i) + 1) .. (B(i) + s(i))
    BY <1>6, <1>7, <2>1, <2>3, ApartFrom, Zenon
  <2>4. QED
    BY <1>9, <2>2, <2>3
<1>11. QED
  BY <1>4, <1>10

\* So what a round wrote stays.
LEMMA WrittenStays ==
  ASSUME NEW sig, NEW args, Placed(sig, args), NEW i \in 1 .. Len(sig),
         NEW p \in DOMAIN WrittenElement(sig, args, i)
  PROVE  /\ p \in DOMAIN Written(sig, args)
         /\ Written(sig, args)[p] = WrittenElement(sig, args, i)[p]
<1> DEFINE round == [k \in DOMAIN sig |-> WrittenElement(sig, args, k)]
           writers(q) == {k \in DOMAIN sig : q \in DOMAIN round[k]}
           all == UNION {DOMAIN round[k] : k \in DOMAIN sig}
<1>1. Written(sig, args) = [q \in all |-> round[Max(writers(q))][q]]
  BY DEF Written
<1>2. DOMAIN sig = 1 .. Len(sig) /\ Len(sig) \in Nat
  BY DEF Placed
<1>3. \A k \in DOMAIN sig : round[k] = WrittenElement(sig, args, k)
  OBVIOUS
<1>4. writers(p) = {i}
  <2>1. i \in writers(p)
    BY <1>2, <1>3
  <2>2. \A k \in DOMAIN sig : k # i => p \notin DOMAIN WrittenElement(sig, args, k)
    BY <1>2, RoundsApart
  <2>3. \A k \in DOMAIN sig : k # i => p \notin DOMAIN round[k]
    BY <1>3, <2>2
  <2> HIDE DEF round
  <2>4. QED
    BY <2>1, <2>3
<1>5. Max({i}) = i
  BY DEF Max
<1>6. p \in all
  BY <1>2, <1>3
<1> HIDE DEF round, all
<1>7. Written(sig, args)[p] = round[Max(writers(p))][p] /\ DOMAIN Written(sig, args) = all
  BY <1>1, <1>6
<1>8. QED
  BY <1>2, <1>3, <1>4, <1>5, <1>6, <1>7

\* Everything written are bytes, inside the packet.
LEMMA WrittenBytes ==
  ASSUME NEW sig, NEW args, Placed(sig, args), NEW p \in DOMAIN Written(sig, args)
  PROVE  p \in 1 .. BytesFor(sig, args) /\ Written(sig, args)[p] \in 0 .. 255
<1>1. PICK i \in 1 .. Len(sig) : p \in DOMAIN WrittenElement(sig, args, i)
  <2>1. DOMAIN Written(sig, args) = UNION {DOMAIN WrittenElement(sig, args, k) : k \in DOMAIN sig}
    <3> DEFINE round == [k \in DOMAIN sig |-> WrittenElement(sig, args, k)]
    <3>1. DOMAIN Written(sig, args) = UNION {DOMAIN round[k] : k \in DOMAIN sig}
      BY DEF Written
    <3>2. \A k \in DOMAIN sig : round[k] = WrittenElement(sig, args, k)
      OBVIOUS
    <3>3. QED
      BY <3>1, <3>2
  <2>2. QED
    BY <2>1 DEF Placed
<1> DEFINE E == ElementOffset(sig, i)
           B == BlobOffset(sig, args, i)
           w == WireSize(sig[i])
           s == BlobSize(sig, args, i)
           n == BytesFor(sig, args)
           round == WrittenElement(sig, args, i)
<1>2. /\ E \in Nat /\ B \in Nat /\ w \in Nat /\ s \in Nat /\ n \in Nat
      /\ E + w <= n /\ B + s <= n
      /\ args[i] \in Seq(0 .. 255)
      /\ IsBlob(sig[i]) => s = Len(args[i])
  BY DEF Placed
<1>3. Written(sig, args)[p] = round[p]
  BY <1>1, WrittenStays
<1>4. /\ DOMAIN round = ((E + 1) .. (E + w)) \cup ((B + 1) .. (B + s))
      /\ \A q \in (E + 1) .. (E + w) : round[q] = Element(sig, args, i)[q - E]
      /\ \A q \in (B + 1) .. (B + s) : IsBlob(sig[i]) /\ round[q] = args[i][q - B]
  BY RoundBytes
<1>5. Element(sig, args, i) \in Seq(0 .. 255) /\ Len(Element(sig, args, i)) = w
  BY ElementBytes
<1> HIDE DEF E, B, w, s, n, round
<1>6. CASE p \in (E + 1) .. (E + w)
  <2>1. p - E \in 1 .. w /\ p \in 1 .. n
    BY <1>2, <1>6
  <2>2. Element(sig, args, i)[p - E] \in 0 .. 255
    BY <1>5, <2>1, ElementOfSeq
  <2>3. QED
    BY <1>3, <1>4, <1>6, <2>1, <2>2 DEF n
<1>7. CASE p \in (B + 1) .. (B + s)
  <2>1. p - B \in 1 .. s /\ p \in 1 .. n
    BY <1>2, <1>7
  <2>2. IsBlob(sig[i]) /\ round[p] = args[i][p - B]
    BY <1>4, <1>7
  <2>3. args[i][p - B] \in 0 .. 255
    BY <1>2, <2>1, <2>2, ElementOfSeq
  <2>4. QED
    BY <1>3, <2>1, <2>2, <2>3 DEF n
<1>8. QED
  BY <1>1, <1>4, <1>6, <1>7 DEF round

\* What a cell of memory may hold.
Cells == -1 .. 255

LEMMA FunctionIsSequence ==
  ASSUME NEW S, NEW n \in Nat, NEW f \in [1 .. n -> S]
  PROVE  f \in Seq(S) /\ Len(f) = n
<1>1. f \in Seq(S)
  BY SeqDef
<1>2. DOMAIN f = 1 .. Len(f) /\ Len(f) \in Nat
  BY <1>1, LenProperties
<1>3. QED
  BY <1>1, <1>2

LEMMA PartOf ==
  ASSUME NEW S, NEW in \in Seq(S), NEW m \in Nat, NEW n \in Nat, m + n <= Len(in)
  PROVE  /\ SubSeq(in, m + 1, m + n) \in Seq(S)
         /\ Len(SubSeq(in, m + 1, m + n)) = n
         /\ \A k \in 1 .. n : SubSeq(in, m + 1, m + n)[k] = in[m + k]
<1>1. /\ m + 1 \in 1 .. (Len(in) + 1) /\ m + n \in (m + 1 - 1) .. Len(in)
      /\ (m + n) - (m + 1) + 1 = n /\ Len(in) \in Nat
  OBVIOUS
<1>2. \A k \in 1 .. n : (m + 1) + k - 1 = m + k
  OBVIOUS
<1>3. \A k \in (m + 1) .. (m + n) : in[k] \in S
  <2>1. \A k \in (m + 1) .. (m + n) : k \in 1 .. Len(in)
    OBVIOUS
  <2>2. QED
    BY <2>1, ElementOfSeq
<1> DEFINE a == m + 1
           b == m + n
<1>4. /\ a \in Int /\ b \in Int /\ b - a + 1 = n
      /\ (IF a <= b THEN b - a + 1 ELSE 0) = n
  OBVIOUS
<1>5. \A k \in a .. b : in[k] \in S
  BY <1>3
<1>6. \A k \in 1 .. n : a + k - 1 = m + k
  BY <1>2
<1> HIDE DEF a, b
<1>7. /\ SubSeq(in, a, b) \in Seq(S)
      /\ Len(SubSeq(in, a, b)) = IF a <= b THEN b - a + 1 ELSE 0
      /\ \A k \in 1 .. (b - a + 1) : SubSeq(in, a, b)[k] = in[a + k - 1]
  BY <1>4, <1>5, SubSeqProperties
<1>8. QED
  BY <1>4, <1>6, <1>7 DEF a, b

LEMMA Serialized ==
  ASSUME NEW sig, NEW args, Placed(sig, args),
         NEW out \in Seq(Cells), BytesFor(sig, args) <= Len(out)
  PROVE  LET all == Serialize(out, Written(sig, args))
             in == SubSeq(all, 1, BytesFor(sig, args))
         IN  /\ all \in Seq(Cells) /\ Len(all) = Len(out)
             /\ in \in Seq(Cells) /\ Len(in) = BytesFor(sig, args)
             /\ \A p \in DOMAIN Written(sig, args) : in[p] = Written(sig, args)[p]
<1> DEFINE all == Serialize(out, Written(sig, args))
           n == BytesFor(sig, args)
           in == SubSeq(all, 1, n)
<1>1. \A p \in DOMAIN Written(sig, args) :
        p \in 1 .. n /\ Written(sig, args)[p] \in 0 .. 255
  BY WrittenBytes
<1>2. /\ DOMAIN out = 1 .. Len(out) /\ Len(out) \in Nat
      /\ \A p \in 1 .. Len(out) : out[p] \in Cells
  BY LenProperties, ElementOfSeq
<1>3. all \in [1 .. Len(out) -> Cells]
  <2>1. all = [p \in 1 .. Len(out) |-> IF p \in DOMAIN Written(sig, args)
                                       THEN Written(sig, args)[p] ELSE out[p]]
    BY <1>2 DEF Serialize
  <2>2. \A p \in DOMAIN Written(sig, args) : Written(sig, args)[p] \in Cells
    BY <1>1 DEF Cells
  <2> HIDE DEF all
  <2>3. QED
    BY <1>2, <2>1, <2>2
<1>4. all \in Seq(Cells) /\ Len(all) = Len(out)
  <2> HIDE DEF all
  <2>1. all \in Seq(Cells)
    BY <1>2, <1>3, FunctionIsSequence
  <2>2. DOMAIN all = 1 .. Len(out) /\ DOMAIN all = 1 .. Len(all) /\ Len(all) \in Nat
    BY <1>3, <2>1, LenProperties
  <2>3. QED
    BY <1>2, <2>1, <2>2
<1>5. n \in Nat /\ n <= Len(all)
  BY <1>4 DEF Placed
<1>6. \A p \in DOMAIN Written(sig, args) : all[p] = Written(sig, args)[p]
  <2>1. \A p \in DOMAIN Written(sig, args) : p \in DOMAIN out
    BY <1>1, <1>2, <1>4, <1>5
  <2>2. QED
    BY <2>1 DEF Serialize
<1> HIDE DEF all, n
<1>7. /\ in \in Seq(Cells) /\ Len(in) = n
      /\ \A k \in 1 .. n : in[k] = all[k]
  <2>1. /\ SubSeq(all, 0 + 1, 0 + n) \in Seq(Cells)
        /\ Len(SubSeq(all, 0 + 1, 0 + n)) = n
        /\ \A k \in 1 .. n : SubSeq(all, 0 + 1, 0 + n)[k] = all[0 + k]
    <3>1. 0 \in Nat /\ 0 + n <= Len(all)
      BY <1>5
    <3>2. QED
      BY <1>4, <1>5, <3>1, PartOf, Zenon
  <2>2. 0 + 1 = 1 /\ 0 + n = n /\ \A k \in 1 .. n : 0 + k = k
    BY <1>5
  <2>3. QED
    BY <2>1, <2>2
<1> HIDE DEF in
<1>8. QED
  BY <1>1, <1>4, <1>6, <1>7 DEF all, n, in

\* Where the bytes of an element and those of a blob are in a packet.
LEMMA PacketBytes ==
  ASSUME NEW sig, NEW args, Placed(sig, args), NEW in,
         \A p \in DOMAIN Written(sig, args) : in[p] = Written(sig, args)[p],
         NEW i \in 1 .. Len(sig)
  PROVE  /\ \A k \in 1 .. WireSize(sig[i]) :
              in[ElementOffset(sig, i) + k] = Element(sig, args, i)[k]
         /\ IsBlob(sig[i]) =>
              \A k \in 1 .. Len(args[i]) : in[BlobOffset(sig, args, i) + k] = args[i][k]
<1> DEFINE E == ElementOffset(sig, i)
           B == BlobOffset(sig, args, i)
           w == WireSize(sig[i])
           s == BlobSize(sig, args, i)
           round == WrittenElement(sig, args, i)
<1>1. /\ DOMAIN round = ((E + 1) .. (E + w)) \cup ((B + 1) .. (B + s))
      /\ \A p \in (E + 1) .. (E + w) : round[p] = Element(sig, args, i)[p - E]
      /\ \A p \in (B + 1) .. (B + s) : IsBlob(sig[i]) /\ round[p] = args[i][p - B]
  BY RoundBytes
<1>2. \A p \in DOMAIN round : in[p] = round[p]
  BY WrittenStays
<1>3. E \in Nat /\ B \in Nat /\ w \in Nat /\ s \in Nat /\ (IsBlob(sig[i]) => s = Len(args[i]))
  BY DEF Placed
<1> HIDE DEF E, B, w, s, round
<1>4. ASSUME NEW k \in 1 .. w PROVE in[E + k] = Element(sig, args, i)[k]
  <2>1. E + k \in (E + 1) .. (E + w) /\ (E + k) - E = k
    BY <1>3
  <2>2. QED
    BY <1>1, <1>2, <2>1
<1>5. ASSUME NEW k \in 1 .. s PROVE in[B + k] = args[i][k]
  <2>1. B + k \in (B + 1) .. (B + s) /\ (B + k) - B = k
    BY <1>3
  <2>2. QED
    BY <1>1, <1>2, <2>1
<1>6. IsBlob(sig[i]) => \A k \in 1 .. Len(args[i]) : in[B + k] = args[i][k]
  BY <1>3, <1>5
<1>7. QED
  BY <1>4, <1>6 DEF E, B, w

\* What is read at a place is what stands there.
LEMMA ReadBack ==
  ASSUME NEW in \in Seq(Cells), NEW bytes \in Seq(0 .. 255), NEW off \in Nat,
         off + Len(bytes) <= Len(in), \A k \in 1 .. Len(bytes) : in[off + k] = bytes[k]
  PROVE  Subspan(in, off, Len(bytes)) = bytes
<1> DEFINE n == Len(bytes)
           part == SubSeq(in, off + 1, off + n)
<1>1. n \in Nat /\ bytes \in Seq(Cells)
  <2>1. 0 .. 255 \subseteq Cells
    BY DEF Cells
  <2>2. n \in Nat
    BY LenProperties
  <2>3. bytes \in Seq(Cells)
    BY <2>1, SeqMonotonic
  <2>4. QED
    BY <2>2, <2>3
<1>2. /\ part \in Seq(Cells) /\ Len(part) = n
      /\ \A k \in 1 .. n : part[k] = in[off + k]
  <2>1. in \in Seq(Cells) /\ off \in Nat /\ n \in Nat /\ off + n <= Len(in)
    BY <1>1
  <2> HIDE DEF n
  <2>2. QED
    BY <2>1, PartOf
<1>3. Subspan(in, off, n) = part
  BY DEF Subspan
<1> HIDE DEF part
<1>4. part = bytes
  BY <1>1, <1>2, SeqEqual
<1>5. QED
  BY <1>3, <1>4

LEMMA WordReads ==
  ASSUME NEW in, NEW off \in Nat, NEW v \in Nat, v < Words,
         \A k \in 1 .. 4 : in[off + k] = Word(v)[k]
  PROVE  WordAt(in, off) = v
<1>1. in[off + 1] = Word(v)[1] /\ in[off + 2] = Word(v)[2]
      /\ in[off + 3] = Word(v)[3] /\ in[off + 4] = Word(v)[4]
  OBVIOUS
<1>2. QED
  BY <1>1, WordBytes DEF WordAt

LEMMA Joined ==
  ASSUME NEW u \in Seq(0 .. 255), NEW v \in Seq(0 .. 255), Len(u) = 4, Len(v) = 4
  PROVE  \A k \in 1 .. 8 : (u \o v)[k] = IF k <= 4 THEN u[k] ELSE v[k - 4]
<1>1. SUFFICES ASSUME NEW k \in 1 .. 8
               PROVE  (u \o v)[k] = IF k <= 4 THEN u[k] ELSE v[k - 4]
  OBVIOUS
<1>2. k \in 1 .. Len(u) + Len(v)
  OBVIOUS
<1>3. (u \o v)[k] = IF k <= Len(u) THEN u[k] ELSE v[k - Len(u)]
  BY <1>2, ConcatProperties, Zenon
<1>4. QED
  BY <1>3

LEMMA DecodesElement ==
  ASSUME NEW sig, NEW args, Placed(sig, args), NEW in \in Seq(Cells),
         Len(in) = BytesFor(sig, args),
         \A p \in DOMAIN Written(sig, args) : in[p] = Written(sig, args)[p],
         NEW i \in 1 .. Len(sig)
  PROVE  DecodedElement(in, sig, i) = args[i]
<1> DEFINE E == ElementOffset(sig, i)
           B == BlobOffset(sig, args, i)
           n == Len(args[i])
           el == Element(sig, args, i)
<1>1. /\ E \in Nat /\ B \in Nat /\ n \in Nat /\ args[i] \in Seq(0 .. 255)
      /\ E + WireSize(sig[i]) <= Len(in)
      /\ IsBlob(sig[i]) => B + n <= Len(in) /\ WireSize(sig[i]) = 8
      /\ ~IsBlob(sig[i]) => n = WireSize(sig[i])
  BY DEF Placed
<1>2. \A k \in 1 .. WireSize(sig[i]) : in[E + k] = el[k]
  BY PacketBytes
<1>3. CASE ~IsBlob(sig[i])
  <2>1. el = args[i]
    BY <1>3 DEF Element
  <2>2. /\ E \in Nat /\ args[i] \in Seq(0 .. 255) /\ E + Len(args[i]) <= Len(in)
        /\ \A k \in 1 .. Len(args[i]) : in[E + k] = args[i][k]
    BY <1>1, <1>2, <1>3, <2>1
  <2> HIDE DEF E
  <2>3. Subspan(in, E, Len(args[i])) = args[i]
    BY <2>2, ReadBack, Zenon
  <2>4. QED
    BY <1>1, <1>3, <2>3 DEF DecodedElement, E
<1>4. CASE IsBlob(sig[i])
  <2>1. \A k \in 1 .. n : in[B + k] = args[i][k]
    BY <1>4, PacketBytes
  <2>2. B < Words /\ n < Words
    <3>1. /\ BytesFor(sig, args) \in Nat /\ BytesFor(sig, args) < Words
          /\ B + n <= BytesFor(sig, args)
      BY <1>1, <1>4 DEF Placed
    <3>2. Words \in Nat
      BY DEF Words
    <3>3. QED
      BY <1>1, <3>1, <3>2
  <2>3. el = Word(B) \o Word(n)
    BY <1>4 DEF Element
  <2>4. /\ Word(B) \in Seq(0 .. 255) /\ Len(Word(B)) = 4
        /\ Word(n) \in Seq(0 .. 255) /\ Len(Word(n)) = 4
    BY <1>1, <2>2, WordBytes
  <2>5. \A k \in 1 .. 8 : el[k] = IF k <= 4 THEN Word(B)[k] ELSE Word(n)[k - 4]
    <3>1. \A k \in 1 .. 8 : (Word(B) \o Word(n))[k]
                            = IF k <= 4 THEN Word(B)[k] ELSE Word(n)[k - 4]
      BY <2>4, Joined, Zenon
    <3> HIDE DEF B, n, el
    <3>2. QED
      BY <2>3, <3>1, Zenon
  <2> HIDE DEF E, B, n, el
  <2>6. \A k \in 1 .. 4 : /\ in[E + k] = Word(B)[k]
                          /\ in[E + (k + 4)] = Word(n)[k]
    <3> SUFFICES ASSUME NEW k \in 1 .. 4
                 PROVE  /\ in[E + k] = Word(B)[k]
                        /\ in[E + (k + 4)] = Word(n)[k]
      OBVIOUS
    <3>1. /\ k \in 1 .. 8 /\ k + 4 \in 1 .. 8 /\ k <= 4 /\ ~(k + 4 <= 4) /\ k + 4 - 4 = k
      OBVIOUS
    <3>2. WireSize(sig[i]) = 8
      BY <1>1, <1>4
    <3>3. in[E + k] = el[k] /\ in[E + (k + 4)] = el[k + 4]
      BY <1>2, <3>1, <3>2
    <3>4. el[k] = Word(B)[k] /\ el[k + 4] = Word(n)[k + 4 - 4]
      BY <2>5, <3>1
    <3>5. QED
      BY <3>1, <3>3, <3>4
  <2>7. \A k \in 1 .. 4 : E + (k + 4) = (E + 4) + k
    BY <1>1
  <2>8. WordAt(in, E) = B
    <3>1. \A k \in 1 .. 4 : in[E + k] = Word(B)[k]
      BY <2>6
    <3>2. E \in Nat /\ B \in Nat
      BY <1>1
    <3>3. QED
      BY <2>2, <3>1, <3>2, WordReads, Zenon
  <2>9. WordAt(in, E + 4) = n
    <3>1. \A k \in 1 .. 4 : in[(E + 4) + k] = Word(n)[k]
      BY <2>6, <2>7
    <3>2. E + 4 \in Nat /\ n \in Nat
      BY <1>1
    <3>3. QED
      BY <2>2, <3>1, <3>2, WordReads, Zenon
  <2>10. Subspan(in, B, n) = args[i]
    <3>1. /\ B \in Nat /\ args[i] \in Seq(0 .. 255) /\ B + Len(args[i]) <= Len(in)
          /\ \A k \in 1 .. Len(args[i]) : in[B + k] = args[i][k]
      BY <1>1, <1>4, <2>1 DEF n
    <3>2. QED
      BY <3>1, ReadBack, Zenon DEF n
  <2>11. QED
    BY <1>4, <2>8, <2>9, <2>10 DEF DecodedElement, E
<1>5. QED
  BY <1>3, <1>4

\* A packet is decoded to what it was made from.
LEMMA PacketDecodes ==
  ASSUME NEW sig, NEW args, Fits(sig, args), NEW in \in Seq(Cells),
         Len(in) = BytesFor(sig, args),
         \A p \in DOMAIN Written(sig, args) : in[p] = Written(sig, args)[p]
  PROVE  Decodes(in, sig) /\ Deserialize(in, sig) = args
<1>1. Placed(sig, args)
  BY FitsPlaced
<1>2. Decodes(in, sig)
  BY <1>1 DEF Decodes, Placed
<1>3. \A i \in 1 .. Len(sig) : DecodedElement(in, sig, i) = args[i]
  BY <1>1, DecodesElement, Zenon
<1>4. Deserialize(in, sig) = [i \in 1 .. Len(sig) |-> args[i]]
  BY <1>1, <1>3 DEF Deserialize, Placed
<1>5. args = [i \in 1 .. Len(sig) |-> args[i]]
  BY DEF Fits
<1>6. QED
  BY <1>2, <1>4, <1>5

-----------------------------------------------------------------------------
(* A client and the server in step                                         *)

SameInterface == ServerIdl = ClientIdl

IsSequence(s) == s \in Seq(Range(s))

\* The stubs' members and the streams have their shapes; what is in a packet does
\* not matter here.
Shape ==
  /\ client \in [Clients -> {"idle", "waiting", "gone"}]
  /\ DOMAIN sentTag = Clients
  /\ DOMAIN replies = Clients
  /\ DOMAIN issued = Clients
  /\ IsSequence(requests) /\ IsSequence(serving) /\ Len(serving) <= 1
  /\ \A c \in Clients : IsSequence(replies[c]) /\ IsSequence(issued[c])
  /\ \A i \in DOMAIN requests : requests[i].from \in Clients
  /\ \A i \in DOMAIN serving : serving[i].from \in Clients

\* The same as InStep, in the form its steps are proved in.
Conversation(c) ==
  /\ \A i \in Asked(c) : Current(c, requests[i])
  /\ \A i \in Served(c) : Current(c, serving[i])
  /\ \A i \in DOMAIN replies[c] : Current(c, replies[c][i])
  /\ \A i, j \in Asked(c) : i = j
  /\ Asked(c) # {} => Served(c) = {} /\ replies[c] = <<>>
  /\ Served(c) # {} => replies[c] = <<>>
  /\ Len(replies[c]) <= 1

StepInv == Shape /\ \A c \in Clients : Conversation(c)

-----------------------------------------------------------------------------
(* Sequences                                                               *)

LEMMA SequenceFacts ==
  ASSUME NEW s, IsSequence(s)
  PROVE  /\ Len(s) \in Nat
         /\ DOMAIN s = 1 .. Len(s)
         /\ s = <<>> <=> Len(s) = 0
         /\ s # <<>> => 1 \in DOMAIN s /\ Head(s) = s[1]
BY SMT DEF IsSequence

LEMMA EmptyIsSequence == IsSequence(<<>>)
BY DEF IsSequence

LEMMA SingletonIsSequence ==
  ASSUME NEW m
  PROVE  IsSequence(<<m>>) /\ Len(<<m>>) = 1 /\ DOMAIN <<m>> = {1} /\ <<m>>[1] = m
<1>1. /\ <<m>> \in Seq({m})
      /\ Len(<<m>>) = 1 /\ DOMAIN <<m>> = {1} /\ <<m>>[1] = m
  OBVIOUS
<1>2. Range(<<m>>) = {m}
  BY <1>1 DEF Range
<1>3. QED
  BY <1>1, <1>2 DEF IsSequence

LEMMA RestrictedRange ==
  ASSUME NEW S, NEW s \in Seq(S)
  PROVE  IsSequence(s)
BY SeqOfRange DEF IsSequence

LEMMA AppendFacts ==
  ASSUME NEW s, IsSequence(s), NEW m
  PROVE  /\ IsSequence(Append(s, m))
         /\ Len(Append(s, m)) = Len(s) + 1
         /\ DOMAIN Append(s, m) = 1 .. (Len(s) + 1)
         /\ \A i \in DOMAIN s : Append(s, m)[i] = s[i]
         /\ Append(s, m)[Len(s) + 1] = m
<1>1. s \in Seq(Range(s) \cup {m})
  BY SeqMonotonic DEF IsSequence
<1>2. Append(s, m) \in Seq(Range(s) \cup {m})
  BY <1>1
<1>3. IsSequence(Append(s, m))
  BY <1>2, RestrictedRange
<1>4. QED
  BY <1>1, <1>3, AppendProperties

LEMMA TailFacts ==
  ASSUME NEW s, IsSequence(s), s # <<>>
  PROVE  /\ IsSequence(Tail(s))
         /\ Len(Tail(s)) = Len(s) - 1
         /\ DOMAIN Tail(s) = 1 .. (Len(s) - 1)
         /\ \A i \in DOMAIN Tail(s) : i + 1 \in DOMAIN s /\ Tail(s)[i] = s[i + 1]
<1>1. s \in Seq(Range(s))
  BY DEF IsSequence
<1>2. Tail(s) \in Seq(Range(s))
  BY <1>1
<1>3. IsSequence(Tail(s))
  BY <1>2, RestrictedRange
<1>4. QED
  BY <1>1, <1>3

-----------------------------------------------------------------------------
(* Conversation and InStep                                                 *)

LEMMA AtMostOne ==
  ASSUME NEW S, \A i, j \in S : i = j
  PROVE  Cardinality(S) = IF S = {} THEN 0 ELSE 1
<1>1. CASE S = {}
  BY <1>1, FS_EmptySet
<1>2. CASE S # {}
  <2>1. PICK x \in S : S = {x}
    BY <1>2
  <2>2. QED
    BY <1>2, <2>1, FS_Singleton
<1>3. QED
  BY <1>1, <1>2

LEMMA AtMostOneOfThree ==
  ASSUME NEW a \in {0, 1}, NEW b \in {0, 1}, NEW n \in Nat, n <= 1,
         a = 1 => b = 0 /\ n = 0, b = 1 => n = 0
  PROVE  a + b + n <= 1
OBVIOUS

LEMMA StepInvImplies == StepInv => InStep
<1>1. SUFFICES ASSUME StepInv, NEW c \in Clients
               PROVE  Cardinality(Asked(c)) + Cardinality(Served(c)) + Len(replies[c]) <= 1
  BY DEF StepInv, Conversation, InStep
<1>2. Conversation(c) /\ Shape
  BY <1>1 DEF StepInv
<1>3. IsSequence(replies[c]) /\ IsSequence(serving) /\ Len(serving) <= 1
  BY <1>2 DEF Shape
<1>4. \A i, j \in Served(c) : i = j
  BY <1>3, SequenceFacts DEF Served
<1>5. /\ Cardinality(Asked(c)) = IF Asked(c) = {} THEN 0 ELSE 1
      /\ Cardinality(Served(c)) = IF Served(c) = {} THEN 0 ELSE 1
  BY <1>2, <1>4, AtMostOne DEF Conversation
<1>6. Len(replies[c]) \in Nat /\ (replies[c] = <<>> <=> Len(replies[c]) = 0)
  BY <1>3, SequenceFacts
<1>7. /\ Asked(c) # {} => Served(c) = {} /\ Len(replies[c]) = 0
      /\ Served(c) # {} => Len(replies[c]) = 0
      /\ Len(replies[c]) <= 1
  BY <1>2, <1>6 DEF Conversation
<1>8. /\ Cardinality(Asked(c)) \in {0, 1} /\ Cardinality(Served(c)) \in {0, 1}
      /\ Cardinality(Asked(c)) = 1 => Cardinality(Served(c)) = 0 /\ Len(replies[c]) = 0
      /\ Cardinality(Served(c)) = 1 => Len(replies[c]) = 0
  <2>1. CASE Asked(c) = {}
    BY <2>1, <1>5, <1>7
  <2>2. CASE Asked(c) # {}
    BY <2>2, <1>5, <1>7
  <2>3. QED
    BY <2>1, <2>2
<1>9. QED
  BY <1>6, <1>7, <1>8, AtMostOneOfThree

-----------------------------------------------------------------------------
(* The initial states                                                      *)

LEMMA InitStepInv == Init => StepInv
<1>1. SUFFICES ASSUME Init PROVE StepInv
  OBVIOUS
<1>2. \A c \in Clients : replies[c] = <<>> /\ issued[c] = <<>> /\ client[c] = "idle"
  BY <1>1 DEF Init
<1>3. Shape
  BY <1>1, <1>2, EmptyIsSequence DEF Init, Shape
<1>4. \A c \in Clients : Asked(c) = {} /\ Served(c) = {}
  BY <1>1 DEF Init, Asked, Served
<1>5. \A c \in Clients : Conversation(c)
  BY <1>2, <1>4 DEF Conversation
<1>6. QED
  BY <1>3, <1>5 DEF StepInv

-----------------------------------------------------------------------------
(* Steps                                                                   *)

\* A step that leaves c's messages and the call it is in alone.
LEMMA Undisturbed ==
  ASSUME NEW c \in Clients, Conversation(c),
         requests' = requests, serving' = serving, replies'[c] = replies[c],
         sentTag'[c] = sentTag[c], issued'[c] = issued[c],
         client[c] # "idle" => client'[c] # "idle"
  PROVE  Conversation(c)'
<1>1. Asked(c)' = Asked(c) /\ Served(c)' = Served(c)
  BY DEF Asked, Served
<1>2. \A m : Current(c, m) => Current(c, m)'
  BY DEF Current
<1>3. QED
  BY <1>1, <1>2 DEF Conversation

LEMMA AskedAfterSend ==
  ASSUME IsSequence(requests), NEW m, requests' = Append(requests, m), NEW c
  PROVE  /\ m.from = c /\ ~ServerIdl[m.type].async
              => Asked(c)' = Asked(c) \cup {Len(requests) + 1}
         /\ m.from # c \/ ServerIdl[m.type].async => Asked(c)' = Asked(c)
         /\ \A i \in DOMAIN requests : requests'[i] = requests[i]
         /\ requests'[Len(requests) + 1] = m
         /\ Asked(c) \subseteq DOMAIN requests
<1>1. /\ DOMAIN requests' = DOMAIN requests \cup {Len(requests) + 1}
      /\ Len(requests) + 1 \notin DOMAIN requests
      /\ \A i \in DOMAIN requests : requests'[i] = requests[i]
      /\ requests'[Len(requests) + 1] = m
  BY AppendFacts, SequenceFacts
<1>2. QED
  BY <1>1 DEF Asked

LEMMA AskedAfterReceive ==
  ASSUME IsSequence(requests), requests # <<>>, requests' = Tail(requests), NEW c
  PROVE  \A i \in Asked(c)' : /\ i \in DOMAIN requests' /\ i + 1 \in Asked(c)
                             /\ i + 1 # 1 /\ i \in Nat
                             /\ requests'[i] = requests[i + 1]
<1>1. /\ DOMAIN requests' = 1 .. (Len(requests) - 1) /\ Len(requests) \in Nat
      /\ \A i \in DOMAIN requests' : /\ i + 1 \in DOMAIN requests
                                     /\ requests'[i] = requests[i + 1]
  BY TailFacts, SequenceFacts
<1>2. \A i \in DOMAIN requests' : i \in Nat /\ i + 1 # 1
  BY <1>1
<1>3. QED
  BY <1>1, <1>2 DEF Asked

\* A client that is idle has nothing under way.
LEMMA IdleHasNone ==
  ASSUME NEW c \in Clients, Conversation(c), IsSequence(replies[c]), client[c] = "idle"
  PROVE  Asked(c) = {} /\ Served(c) = {} /\ replies[c] = <<>>
<1>1. Asked(c) = {} /\ Served(c) = {}
  BY DEF Conversation, Current
<1>2. DOMAIN replies[c] = {}
  BY DEF Conversation, Current
<1>3. QED
  BY <1>1, <1>2, SequenceFacts

-----------------------------------------------------------------------------
LEMMA CallStep ==
  ASSUME RpcAssumption, SameInterface, StepInv,
         NEW d \in Clients, NEW call \in Calls, Call(d, call)
  PROVE  StepInv'
<1> DEFINE method == ClientIdl[call.method]
           tag == NextTag(nextTag[d])
           buf == Marshalled(txBuf[d], Request[call].size, Request[call].written)
           message == [from |-> d, type |-> call.method, tag |-> tag,
                       payload |-> SubSeq(buf, 1, Request[call].size)]
<1>1. Shape /\ \A c \in Clients : Conversation(c)
  BY DEF StepInv
<1>2. /\ client[d] = "idle"
      /\ sentTag' = [sentTag EXCEPT ![d] = tag]
      /\ requests' = Append(requests, message)
      /\ issued' = [issued EXCEPT ![d] = Append(@, call)]
      /\ replies' = replies /\ serving' = serving
  BY DEF Call, serverVars
<1>3. IF method.async THEN client' = client
                      ELSE client' = [client EXCEPT ![d] = "waiting"]
  BY DEF Call
<1>4. message.from = d /\ message.type = call.method /\ message.tag = tag
  OBVIOUS
<1> HIDE DEF message, tag, method
<1>5. \A c \in Clients : c # d => /\ client'[c] = client[c] /\ sentTag'[c] = sentTag[c]
                                 /\ issued'[c] = issued[c]
  BY <1>1, <1>2, <1>3 DEF Shape
<1>6. /\ IsSequence(issued'[d])
      /\ issued'[d][Len(issued'[d])] = call
  <2>1. IsSequence(issued[d]) /\ issued'[d] = Append(issued[d], call)
    BY <1>1, <1>2 DEF Shape
  <2>2. QED
    BY <2>1, AppendFacts
<1>7. Shape'
  <2>1. client' \in [Clients -> {"idle", "waiting", "gone"}]
    BY <1>1, <1>3 DEF Shape
  <2>2. DOMAIN sentTag' = Clients /\ DOMAIN issued' = Clients /\ DOMAIN replies' = Clients
    BY <1>1, <1>2 DEF Shape
  <2>3. IsSequence(requests')
    BY <1>1, <1>2, AppendFacts DEF Shape
  <2>4. \A i \in DOMAIN requests' : requests'[i].from \in Clients
    <3>1. IsSequence(requests) /\ \A i \in DOMAIN requests : requests[i].from \in Clients
      BY <1>1 DEF Shape
    <3>2. /\ DOMAIN requests' = 1 .. (Len(requests) + 1)
          /\ DOMAIN requests = 1 .. Len(requests)
          /\ Len(requests) \in Nat
          /\ \A i \in DOMAIN requests : requests'[i] = requests[i]
          /\ requests'[Len(requests) + 1] = message
      BY <3>1, <1>2, AppendFacts, SequenceFacts
    <3>3. \A i \in DOMAIN requests' : i \in DOMAIN requests \/ i = Len(requests) + 1
      BY <3>2
    <3>4. QED
      BY <3>1, <3>2, <3>3, <1>4
  <2>5. \A c \in Clients : IsSequence(replies'[c]) /\ IsSequence(issued'[c])
    BY <1>1, <1>2, <1>5, <1>6 DEF Shape
  <2>6. QED
    BY <1>1, <1>2, <2>1, <2>2, <2>3, <2>4, <2>5 DEF Shape
<1>8. ASSUME NEW c \in Clients PROVE Conversation(c)'
  <2>1. IsSequence(requests) /\ IsSequence(replies[c])
    BY <1>1 DEF Shape
  <2>2. Served(c)' = Served(c) /\ replies'[c] = replies[c]
    BY <1>2 DEF Served
  <2>3. CASE c # d
    <3>1. Asked(c)' = Asked(c) /\ Asked(c) \subseteq DOMAIN requests
          /\ \A i \in DOMAIN requests : requests'[i] = requests[i]
      BY <2>1, <2>3, <1>2, <1>4, AskedAfterSend
    <3>2. \A m : Current(c, m) => Current(c, m)'
      BY <2>3, <1>5 DEF Current
    <3>3. QED
      BY <1>1, <1>2, <2>2, <3>1, <3>2 DEF Conversation
  <2>4. CASE c = d
    <3>1. Asked(c) = {} /\ Served(c) = {} /\ replies[c] = <<>>
      BY <1>1, <1>2, <2>1, <2>4, IdleHasNone
    <3>2. CASE method.async
      <4>1. Asked(c)' = {}
        BY <3>1, <3>2, <2>1, <1>2, <1>4, AskedAfterSend DEF SameInterface, method
      <4>2. QED
        BY <4>1, <3>1, <2>2 DEF Conversation
    <3>3. CASE ~method.async
      <4>1. Asked(c)' \subseteq {Len(requests) + 1}
            /\ requests'[Len(requests) + 1] = message
        BY <3>1, <2>1, <1>2, AskedAfterSend
      <4>2. client'[c] = "waiting" /\ sentTag'[c] = tag
        BY <3>3, <2>4, <1>1, <1>2, <1>3 DEF Shape
      <4>3. /\ client'[c] # "idle" /\ message.tag = sentTag'[c]
            /\ message.type = issued'[c][Len(issued'[c])].method
        BY <4>2, <1>4, <1>6, <2>4
      <4>4. \A i \in Asked(c)' : Current(c, requests[i])'
        BY <4>1, <4>3 DEF Current
      <4>5. QED
        BY <4>1, <4>4, <3>1, <2>2 DEF Conversation
    <3>4. QED
      BY <3>2, <3>3
  <2>5. QED
    BY <2>3, <2>4
<1>9. QED
  BY <1>7, <1>8 DEF StepInv

\* A client's process ends, in a call or before it.
LEMMA GoneStep ==
  ASSUME StepInv, NEW d \in Clients, CallFails(d) \/ ReceiveReplyFails(d)
  PROVE  StepInv'
<1>1. /\ client' = [client EXCEPT ![d] = "gone"]
      /\ UNCHANGED <<sentTag, requests, replies, serving, issued>>
  BY DEF CallFails, ReceiveReplyFails, serverVars, history
<1>2. Shape'
  BY <1>1 DEF StepInv, Shape
<1>3. \A c \in Clients : client[c] # "idle" => client'[c] # "idle"
  BY <1>1 DEF StepInv, Shape
<1>4. \A c \in Clients : Conversation(c)'
  BY <1>1, <1>3, Undisturbed DEF StepInv
<1>5. QED
  BY <1>2, <1>4 DEF StepInv

LEMMA OnlyOne ==
  ASSUME NEW n \in Nat, n # 0, n <= 1
  PROVE  n - 1 = 0
OBVIOUS

LEMMA ReceiveReplyStep ==
  ASSUME StepInv, NEW d \in Clients, ReceiveReply(d)
  PROVE  StepInv'
<1>1. Shape /\ \A c \in Clients : Conversation(c)
  BY DEF StepInv
<1>2. /\ replies[d] # <<>>
      /\ replies' = [replies EXCEPT ![d] = Tail(@)]
      /\ client' = [client EXCEPT ![d] = "idle"]
      /\ UNCHANGED <<sentTag, requests, serving, issued>>
  BY DEF ReceiveReply, serverVars
<1>3. IsSequence(replies[d]) /\ replies'[d] = Tail(replies[d])
  BY <1>1, <1>2 DEF Shape
<1>4. IsSequence(replies'[d]) /\ Len(replies'[d]) = Len(replies[d]) - 1
  BY <1>2, <1>3, TailFacts
<1>5. \A c \in Clients : c # d => client'[c] = client[c] /\ replies'[c] = replies[c]
  BY <1>1, <1>2 DEF Shape
<1>6. Shape'
  <2>1. /\ client' \in [Clients -> {"idle", "waiting", "gone"}]
        /\ DOMAIN replies' = Clients
    BY <1>1, <1>2 DEF Shape
  <2>2. \A c \in Clients : IsSequence(replies'[c])
    BY <1>1, <1>4, <1>5 DEF Shape
  <2>3. QED
    BY <1>1, <1>2, <2>1, <2>2 DEF Shape
<1>7. Conversation(d)'
  <2>1. Asked(d) = {} /\ Served(d) = {} /\ Len(replies[d]) <= 1
    BY <1>1, <1>2 DEF Conversation
  <2>2. Asked(d)' = {} /\ Served(d)' = {}
    BY <1>2, <2>1 DEF Asked, Served
  <2>3. Len(replies'[d]) = 0
    <3>1. Len(replies[d]) \in Nat /\ Len(replies[d]) # 0
      BY <1>2, <1>3, SequenceFacts
    <3>2. QED
      BY <1>4, <2>1, <3>1, OnlyOne
  <2>4. replies'[d] = <<>>
    BY <1>4, <2>3, SequenceFacts
  <2>5. QED
    BY <2>2, <2>4 DEF Conversation
<1>8. \A c \in Clients : c # d => Conversation(c)'
  BY <1>1, <1>2, <1>5, Undisturbed
<1>9. QED
  BY <1>6, <1>7, <1>8 DEF StepInv

\* The call being served is over without a reply.
LEMMA NothingServed ==
  ASSUME StepInv, serving' = <<>>,
         UNCHANGED <<client, sentTag, requests, replies, issued>>
  PROVE  StepInv'
<1>1. Shape'
  BY EmptyIsSequence DEF StepInv, Shape
<1>2. ASSUME NEW c \in Clients PROVE Conversation(c)'
  <2>1. Asked(c)' = Asked(c) /\ Served(c)' = {}
    BY DEF Asked, Served
  <2>2. \A m : Current(c, m)' = Current(c, m)
    BY DEF Current
  <2>3. QED
    BY <2>1, <2>2 DEF StepInv, Conversation
<1>3. QED
  BY <1>1, <1>2 DEF StepInv

LEMMA SendReplyStep ==
  ASSUME StepInv, SendReply
  PROVE  StepInv'
<1> DEFINE now == Head(serving)
           reply == [type |-> now.type, tag |-> now.tag,
                     payload |-> SubSeq(serverBuf', 1, Reply[now.type][now.result].size)]
<1>1. Shape /\ \A c \in Clients : Conversation(c)
  BY DEF StepInv
<1>2. /\ serving # <<>> /\ serving' = <<>>
      /\ replies' = [replies EXCEPT ![now.from] = Append(@, reply)]
      /\ UNCHANGED <<client, sentTag, requests, issued>>
  BY DEF SendReply, MarshallReply, clientVars, history
<1>3. reply.type = now.type /\ reply.tag = now.tag
  OBVIOUS
<1> HIDE DEF reply
<1>4. 1 \in DOMAIN serving /\ now = serving[1] /\ now.from \in Clients
  BY <1>1, <1>2, SequenceFacts DEF Shape
<1> HIDE DEF now
<1>5. 1 \in Served(now.from)
  BY <1>4 DEF Served
<1>6. replies[now.from] = <<>> /\ Asked(now.from) = {}
  BY <1>1, <1>4, <1>5 DEF Conversation
<1>7. Current(now.from, now)
  BY <1>1, <1>4, <1>5 DEF Conversation
<1>8. replies'[now.from] = <<reply>>
  BY <1>1, <1>2, <1>4, <1>6 DEF Shape
<1>9. \A c \in Clients : c # now.from => replies'[c] = replies[c]
  BY <1>1, <1>2 DEF Shape
<1>10. Shape'
  <2>1. DOMAIN replies' = Clients
    BY <1>1, <1>2 DEF Shape
  <2>2. \A c \in Clients : IsSequence(replies'[c])
    <3>1. IsSequence(<<reply>>)
      BY SingletonIsSequence
    <3>2. \A c \in Clients : IsSequence(replies[c])
      BY <1>1 DEF Shape
    <3>3. QED
      BY <1>8, <1>9, <3>1, <3>2
  <2>3. QED
    BY <1>1, <1>2, <2>1, <2>2, EmptyIsSequence DEF Shape
<1>11. ASSUME NEW c \in Clients PROVE Conversation(c)'
  <2>1. Asked(c)' = Asked(c) /\ Served(c)' = {}
    BY <1>2 DEF Asked, Served
  <2>2. \A m : Current(c, m)' = Current(c, m)
    BY <1>2 DEF Current
  <2>3. CASE c # now.from
    BY <1>1, <1>2, <1>9, <2>1, <2>2, <2>3 DEF Conversation
  <2>4. CASE c = now.from
    <3>1. /\ DOMAIN replies'[c] = {1} /\ replies'[c][1] = reply /\ Len(replies'[c]) = 1
      BY <1>8, <2>4, SingletonIsSequence
    <3>2. \A i \in DOMAIN replies'[c] : Current(c, replies[c][i])'
      BY <1>2, <1>3, <1>7, <2>4, <3>1 DEF Current
    <3>3. QED
      BY <1>6, <2>1, <2>4, <3>1, <3>2 DEF Conversation
  <2>5. QED
    BY <2>3, <2>4
<1>12. QED
  BY <1>10, <1>11 DEF StepInv

LEMMA RunOneStep ==
  ASSUME SameInterface, StepInv, RunOne
  PROVE  StepInv'
<1> DEFINE request == Head(requests)
<1>1. Shape /\ \A c \in Clients : Conversation(c)
  BY DEF StepInv
<1>2. /\ serving = <<>> /\ requests # <<>> /\ requests' = Tail(requests)
      /\ UNCHANGED <<client, sentTag, replies, issued>>
  BY DEF RunOne, Ready, clientVars
<1>3. \/ serving' = <<>>
      \/ /\ ~ServerIdl[request.type].async
         /\ \E result : serving' = Unanswered(request, result)
  BY <1>2 DEF RunOne, ReplyDue
<1>4. IsSequence(requests) /\ 1 \in DOMAIN requests /\ request = requests[1]
  BY <1>1, <1>2, SequenceFacts DEF Shape
<1> HIDE DEF request
<1>5. ASSUME NEW c \in Clients
      PROVE  /\ \A i \in Asked(c)' : Current(c, requests[i])'
             /\ \A i, j \in Asked(c)' : i = j
             /\ Asked(c)' # {} => Asked(c) # {}
             /\ 1 \in Asked(c) => Asked(c)' = {}
  <2>1. \A i \in Asked(c)' : /\ i \in DOMAIN requests' /\ i + 1 \in Asked(c)
                            /\ i + 1 # 1 /\ i \in Nat
                            /\ requests'[i] = requests[i + 1]
    BY <1>2, <1>4, AskedAfterReceive
  <2>2. \A m : Current(c, m) => Current(c, m)'
    BY <1>2 DEF Current
  <2>3. /\ \A i \in Asked(c) : Current(c, requests[i])
        /\ \A i, j \in Asked(c) : i = j
    BY <1>1 DEF Conversation
  <2>4. ASSUME NEW i \in Asked(c)' PROVE Current(c, requests[i])'
    <3>1. PICK m : m = requests[i + 1]
      OBVIOUS
    <3>2. Current(c, m)'
      BY <2>1, <2>2, <2>3, <3>1
    <3>3. QED
      BY <2>1, <3>1, <3>2 DEF Current
  <2>5. ASSUME NEW i \in Asked(c)', NEW j \in Asked(c)' PROVE i = j
    <3>1. i \in Nat /\ j \in Nat /\ i + 1 = j + 1
      BY <2>1, <2>3
    <3>2. QED
      BY <3>1
  <2>6. 1 \in Asked(c) => Asked(c)' = {}
    BY <2>1, <2>3
  <2>7. QED
    BY <2>1, <2>4, <2>5, <2>6
<1>6. \A c \in Clients : replies'[c] = replies[c]
  BY <1>2
<1>7. CASE serving' = <<>>
  <2>1. Shape'
    <3>1. \A i \in DOMAIN requests' : requests'[i].from \in Clients
      BY <1>1, <1>2, <1>4, TailFacts DEF Shape
    <3>2. IsSequence(requests')
      BY <1>2, <1>4, TailFacts
    <3>3. QED
      BY <1>1, <1>2, <1>7, <3>1, <3>2, EmptyIsSequence DEF Shape
  <2>2. \A c \in Clients : Served(c)' = {}
    BY <1>7 DEF Served
  <2>3. ASSUME NEW c \in Clients PROVE Conversation(c)'
    <3>1. \A m : Current(c, m) => Current(c, m)'
      BY <1>2 DEF Current
    <3>2. Conversation(c)
      BY <1>1
    <3>3. /\ \A i \in DOMAIN replies'[c] : Current(c, replies[c][i])'
          /\ Len(replies'[c]) <= 1
      BY <1>2, <3>1, <3>2 DEF Conversation
    <3>4. Asked(c)' # {} => replies'[c] = <<>>
      BY <1>5, <1>6, <3>2 DEF Conversation
    <3>5. QED
      BY <1>5, <2>2, <3>3, <3>4 DEF Conversation
  <2>4. QED
    BY <2>1, <2>3 DEF StepInv
<1>8. CASE ~ServerIdl[request.type].async /\ \E result : serving' = Unanswered(request, result)
  <2>1. PICK result : serving' = Unanswered(request, result)
    BY <1>8
  <2>2. PICK m : /\ serving' = <<m>>
                 /\ m.from = request.from /\ m.type = request.type /\ m.tag = request.tag
    BY <2>1 DEF Unanswered
  <2>3. /\ IsSequence(serving') /\ Len(serving') = 1 /\ DOMAIN serving' = {1}
        /\ serving'[1] = m
    BY <2>2, SingletonIsSequence
  <2>4. request.from \in Clients /\ 1 \in Asked(request.from)
    BY <1>1, <1>4, <1>8 DEF Shape, Asked
  <2>5. Shape'
    <3>1. \A i \in DOMAIN requests' : requests'[i].from \in Clients
      BY <1>1, <1>2, <1>4, TailFacts DEF Shape
    <3>2. IsSequence(requests')
      BY <1>2, <1>4, TailFacts
    <3>3. \A i \in DOMAIN serving' : serving'[i].from \in Clients
      BY <2>2, <2>3, <2>4
    <3>4. QED
      BY <1>1, <1>2, <2>3, <3>1, <3>2, <3>3 DEF Shape
  <2>6. ASSUME NEW c \in Clients PROVE Conversation(c)'
    <3>1. \A n : Current(c, n) => Current(c, n)'
      BY <1>2 DEF Current
    <3>2. CASE c # request.from
      <4>1. Served(c)' = {}
        BY <2>2, <2>3, <3>2 DEF Served
      <4>2. Conversation(c)
        BY <1>1
      <4>3. /\ \A i \in DOMAIN replies'[c] : Current(c, replies[c][i])'
            /\ Len(replies'[c]) <= 1
        BY <1>2, <3>1, <4>2 DEF Conversation
      <4>4. Asked(c)' # {} => replies'[c] = <<>>
        BY <1>5, <1>6, <4>2 DEF Conversation
      <4>5. QED
        BY <1>5, <4>1, <4>3, <4>4 DEF Conversation
    <3>3. CASE c = request.from
      <4>1. Asked(c)' = {} /\ replies[c] = <<>>
        BY <1>1, <1>5, <2>4, <3>3 DEF Conversation
      <4>2. Current(c, request)
        BY <1>1, <1>4, <2>4, <3>3 DEF Conversation
      <4>3. Current(c, m)
        BY <2>2, <4>2 DEF Current
      <4>4. Current(c, m)'
        BY <3>1, <4>3
      <4>5. \A i \in Served(c)' : Current(c, serving[i])'
        BY <2>3, <4>4 DEF Served, Current
      <4>6. Len(replies'[c]) = 0 /\ replies'[c] = <<>> /\ DOMAIN replies'[c] = {}
        BY <1>2, <4>1
      <4>7. QED
        BY <4>1, <4>5, <4>6 DEF Conversation
    <3>4. QED
      BY <3>2, <3>3
  <2>7. QED
    BY <2>5, <2>6 DEF StepInv
<1>9. QED
  BY <1>3, <1>7, <1>8

-----------------------------------------------------------------------------
LEMMA NextStepInv ==
  ASSUME RpcAssumption, SameInterface, StepInv, [Next]_vars
  PROVE  StepInv'
<1>1. ASSUME NEW c \in Clients, NEW call \in Calls, Call(c, call) PROVE StepInv'
  BY <1>1, CallStep
<1>2. ASSUME NEW c \in Clients, CallFails(c) \/ ReceiveReplyFails(c) PROVE StepInv'
  BY <1>2, GoneStep
<1>3. ASSUME NEW c \in Clients, ReceiveReply(c) PROVE StepInv'
  BY <1>3, ReceiveReplyStep
<1>4. CASE RunOne
  BY <1>4, RunOneStep
<1>5. CASE SendReply
  BY <1>5, SendReplyStep
<1>6. CASE SendReplyFails \/ ServerStops
  BY <1>6, NothingServed DEF SendReplyFails, ServerStops, MarshallReply, clientVars, history
<1>7. CASE UNCHANGED vars
  <2>1. UNCHANGED <<client, sentTag, requests, replies, serving, issued>>
    BY <1>7 DEF vars, clientVars, serverVars, history
  <2>2. Shape'
    BY <2>1 DEF StepInv, Shape
  <2>3. \A c \in Clients : Conversation(c)'
    BY <2>1, Undisturbed DEF StepInv
  <2>4. QED
    BY <2>2, <2>3 DEF StepInv
<1>8. QED
  BY <1>1, <1>2, <1>3, <1>4, <1>5, <1>6, <1>7 DEF Next

\* The inductive invariant behind InStep and OnlyOwnTag, which every step of a
\* client and of the server keeps.
THEOREM StepInvHolds == SameInterface => (Spec => []StepInv)
<1>1. SUFFICES ASSUME SameInterface PROVE Spec => []StepInv
  OBVIOUS
<1>2. Init => StepInv
  BY InitStepInv
<1>3. StepInv /\ [Next]_vars => StepInv'
  BY <1>1, NextStepInv, RpcAssumption
<1>4. QED
  BY <1>2, <1>3, PTL DEF Spec

\* Stubs made from the same interface stay in step: a client never has more than
\* one answer coming, and it is the answer to the call it is in.
THEOREM StubsInStep == SameInterface => (Spec => []InStep)
<1>1. SUFFICES ASSUME SameInterface PROVE Spec => []InStep
  OBVIOUS
<1>2. Spec => []StepInv
  BY <1>1, StepInvHolds
<1>3. StepInv => InStep
  BY StepInvImplies
<1>4. QED
  BY <1>2, <1>3, PTL

\* With the same interface on both sides a call returns only on a reply with its
\* own tag, however narrow tags are; with two versions of it that fails.
THEOREM OwnTag == SameInterface => (Spec => OnlyOwnTag)
<1>1. SUFFICES ASSUME SameInterface PROVE Spec => OnlyOwnTag
  OBVIOUS
<1>2. Spec => []StepInv
  BY <1>1, StepInvHolds
<1>3. ASSUME StepInv, [Next]_vars,
             NEW c \in Clients, client[c] = "waiting", client'[c] = "idle"
      PROVE  Head(replies[c]).tag = sentTag[c]
  <2>1. Shape /\ Conversation(c)
    BY <1>3 DEF StepInv
  <2>2. ReceiveReply(c)
    <3>1. client' # client
      BY <1>3
    <3>2. ASSUME NEW d \in Clients, NEW call \in Calls, Call(d, call) PROVE FALSE
      BY <1>3, <2>1, <3>2 DEF Call, Shape
    <3>3. ASSUME NEW d \in Clients, CallFails(d) \/ ReceiveReplyFails(d) PROVE FALSE
      BY <1>3, <2>1, <3>3 DEF CallFails, ReceiveReplyFails, Shape
    <3>4. ASSUME NEW d \in Clients, ReceiveReply(d), d # c PROVE FALSE
      BY <1>3, <2>1, <3>4 DEF ReceiveReply, Shape
    <3>5. ~(RunOne \/ SendReply \/ SendReplyFails \/ ServerStops \/ UNCHANGED vars)
      BY <3>1 DEF RunOne, SendReply, SendReplyFails, ServerStops, clientVars, vars
    <3>6. QED
      BY <1>3, <3>2, <3>3, <3>4, <3>5 DEF Next
  <2>3. 1 \in DOMAIN replies[c] /\ Head(replies[c]) = replies[c][1]
    BY <2>1, <2>2, SequenceFacts DEF ReceiveReply, Shape
  <2>4. QED
    BY <2>1, <2>3 DEF Conversation, Current
<1>4. StepInv /\ [Next]_vars =>
        [\A c \in Clients : client[c] = "waiting" /\ client'[c] = "idle"
           => Head(replies[c]).tag = sentTag[c]]_vars
  BY <1>3
<1>5. QED
  BY <1>2, <1>4, PTL DEF Spec, OnlyOwnTag

-----------------------------------------------------------------------------
(* Types                                                                   *)

\* What goes through a packet comes out unchanged: a message that the stubs build up
\* in a buffer, whatever the buffer held, and send from its start on is decoded by
\* the other side to what it was made from.
THEOREM PacketsRoundTrip ==
  ASSUME NEW sig, NEW args, Fits(sig, args), NEW buf \in Seq(Cells)
  PROVE  LET after == Marshalled(buf, BytesFor(sig, args), Written(sig, args))
             packet == SubSeq(after, 1, BytesFor(sig, args))
         IN  /\ after \in Seq(Cells) /\ packet \in Seq(Cells)
             /\ Decodes(packet, sig) /\ Deserialize(packet, sig) = args
<1> DEFINE n == BytesFor(sig, args)
           out == EnsureTxBuf(buf, n)
           after == Serialize(out, Written(sig, args))
           packet == SubSeq(after, 1, n)
<1>1. Placed(sig, args)
  BY FitsPlaced
<1>2. n \in Nat
  BY <1>1 DEF Placed
<1>3. out \in Seq(Cells) /\ n <= Len(out)
  <2> HIDE DEF n
  <2>1. CASE n + 16 > Len(buf)
    <3>1. JunkBytes(n + 16) \in [1 .. (n + 16) -> Cells] /\ n + 16 \in Nat
      BY <1>2 DEF JunkBytes, Junk, Cells
    <3>2. JunkBytes(n + 16) \in Seq(Cells) /\ Len(JunkBytes(n + 16)) = n + 16
      BY <3>1, FunctionIsSequence
    <3>3. out = JunkBytes(n + 16)
      BY <2>1 DEF EnsureTxBuf
    <3>4. QED
      BY <1>2, <3>2, <3>3
  <2>2. CASE ~(n + 16 > Len(buf))
    <3>1. out = buf
      BY <2>2 DEF EnsureTxBuf
    <3>2. Len(buf) \in Nat
      OBVIOUS
    <3>3. QED
      BY <1>2, <2>2, <3>1, <3>2
  <2>3. QED
    BY <2>1, <2>2
<1>4. Marshalled(buf, n, Written(sig, args)) = after
  BY DEF Marshalled
<1> HIDE DEF out
<1>5. /\ after \in Seq(Cells)
      /\ packet \in Seq(Cells) /\ Len(packet) = BytesFor(sig, args)
      /\ \A p \in DOMAIN Written(sig, args) : packet[p] = Written(sig, args)[p]
  BY <1>1, <1>3, Serialized, Zenon
<1> HIDE DEF packet, after
<1>6. Decodes(packet, sig) /\ Deserialize(packet, sig) = args
  BY <1>5, PacketDecodes, Zenon
<1>7. QED
  BY <1>4, <1>5, <1>6, Zenon DEF packet, after

Tags == 0 .. (TagModulus - 1)

ReplyMessages == [type : DOMAIN ServerIdl, tag : Tags, payload : Seq(Cells)]

\* What the server knows of a call it has not answered yet.
CallsServed ==
  {m \in [from : Clients, type : DOMAIN ServerIdl, tag : Tags, result : UNION {Results[t] : t \in DOMAIN ServerIdl}] :
     m.result \in Results[m.type]}

\* TypeOK, with what is being served.
Typed ==
  /\ client \in [Clients -> {"idle", "waiting", "gone"}]
  /\ nextTag \in [Clients -> Tags]
  /\ sentTag \in [Clients -> Tags]
  /\ txBuf \in [Clients -> Seq(Cells)]
  /\ requests \in Seq(Messages)
  /\ replies \in [Clients -> Seq(ReplyMessages)]
  /\ running \in BOOLEAN
  /\ serving \in Seq(CallsServed) /\ Len(serving) <= 1
  /\ serverBuf \in Seq(Cells)
  /\ failures \in 0 .. MaxFailures

LEMMA TypedImplies == Typed => TypeOK
BY DEF Typed, TypeOK, Tags, Cells, ReplyMessages

LEMMA InitTyped ==
  ASSUME RpcAssumption, Init
  PROVE  Typed
<1>1. 0 \in Tags /\ 0 \in 0 .. MaxFailures
  BY DEF RpcAssumption, Tags
<1>2. /\ <<>> \in Seq(Cells) /\ <<>> \in Seq(Messages) /\ <<>> \in Seq(ReplyMessages)
      /\ <<>> \in Seq(CallsServed) /\ Len(<<>>) <= 1
  OBVIOUS
<1>3. QED
  BY <1>1, <1>2 DEF Init, Typed

LEMMA TagsFollow ==
  ASSUME RpcAssumption, NEW tag \in Tags
  PROVE  NextTag(tag) \in Tags
BY DEF RpcAssumption, Tags, NextTag

LEMMA CallTyped ==
  ASSUME RpcAssumption, PacketAssumption, Typed,
         NEW d \in Clients, NEW call \in Calls, Call(d, call)
  PROVE  Typed'
<1> DEFINE sig == ClientIdl[call.method].params
           n == BytesFor(sig, call.args)
           tag == NextTag(nextTag[d])
           buf == Marshalled(txBuf[d], n, Written(sig, call.args))
           message == [from |-> d, type |-> call.method, tag |-> tag,
                       payload |-> SubSeq(buf, 1, n)]
<1>1. Request[call].size = n /\ Request[call].written = Written(sig, call.args)
  BY DEF Request
<1>2. /\ nextTag' = [nextTag EXCEPT ![d] = tag]
      /\ sentTag' = [sentTag EXCEPT ![d] = tag]
      /\ txBuf' = [txBuf EXCEPT ![d] = buf]
      /\ requests' = Append(requests, message)
      /\ client' = [client EXCEPT ![d] = "waiting"] \/ client' = client
      /\ UNCHANGED <<replies, running, serving, serverBuf, failures>>
  BY <1>1 DEF Call, serverVars
<1>3. tag \in Tags /\ call.method \in DOMAIN ClientIdl
  <2>1. nextTag[d] \in Tags
    BY DEF Typed
  <2>2. QED
    BY <2>1, TagsFollow DEF RpcAssumption
<1>4. buf \in Seq(Cells) /\ SubSeq(buf, 1, n) \in Seq(Cells)
  <2>1. Fits(sig, call.args) /\ txBuf[d] \in Seq(Cells)
    BY DEF PacketAssumption, Typed
  <2> HIDE DEF sig
  <2>2. QED
    BY <2>1, PacketsRoundTrip, Zenon
<1> HIDE DEF tag, buf, n
<1>5. message \in Messages
  BY <1>3, <1>4 DEF Messages, Tags, Cells
<1> HIDE DEF message
<1>6. requests' \in Seq(Messages)
  BY <1>2, <1>5 DEF Typed
<1>7. QED
  BY <1>2, <1>3, <1>4, <1>6 DEF Typed

LEMMA FailsTyped ==
  ASSUME RpcAssumption, Typed, Fails
  PROVE  failures' \in 0 .. MaxFailures
BY DEF RpcAssumption, Typed, Fails

LEMMA GoneTyped ==
  ASSUME RpcAssumption, Typed, NEW d \in Clients, CallFails(d) \/ ReceiveReplyFails(d)
  PROVE  Typed'
<1>1. /\ client' = [client EXCEPT ![d] = "gone"] /\ failures' \in 0 .. MaxFailures
      /\ UNCHANGED <<nextTag, sentTag, txBuf, requests, replies, running, serving, serverBuf>>
  BY FailsTyped DEF CallFails, ReceiveReplyFails, serverVars
<1>2. QED
  BY <1>1 DEF Typed

LEMMA ReceiveReplyTyped ==
  ASSUME Typed, NEW d \in Clients, ReceiveReply(d)
  PROVE  Typed'
<1>1. /\ replies[d] # <<>>
      /\ replies' = [replies EXCEPT ![d] = Tail(@)]
      /\ client' = [client EXCEPT ![d] = "idle"]
      /\ UNCHANGED <<nextTag, sentTag, txBuf, requests, running, serving, serverBuf, failures>>
  BY DEF ReceiveReply, serverVars
<1>2. Tail(replies[d]) \in Seq(ReplyMessages)
  <2>1. replies[d] \in Seq(ReplyMessages)
    BY DEF Typed
  <2>2. QED
    BY <1>1, <2>1
<1>3. QED
  BY <1>1, <1>2 DEF Typed

\* The request that is received.
LEMMA FirstRequest ==
  ASSUME Typed, requests # <<>>
  PROVE  /\ Head(requests) \in Messages /\ Tail(requests) \in Seq(Messages)
         /\ Head(requests) = requests[1] /\ 1 \in DOMAIN requests
BY DEF Typed

LEMMA RunOneTyped ==
  ASSUME Typed, RunOne
  PROVE  Typed'
<1> DEFINE request == Head(requests)
<1>1. /\ requests # <<>> /\ requests' = Tail(requests)
      /\ UNCHANGED <<client, nextTag, sentTag, txBuf, replies, running, serverBuf, failures>>
  BY DEF RunOne, clientVars
<1>2. \/ serving' = <<>>
      \/ /\ request.type \in DOMAIN ServerIdl
         /\ \E result \in Results[request.type] : serving' = Unanswered(request, result)
  BY DEF RunOne, Ready, ReplyDue
<1>3. request \in Messages /\ requests' \in Seq(Messages)
  BY <1>1, FirstRequest
<1>4. serving' \in Seq(CallsServed) /\ Len(serving') <= 1
  <2>1. CASE serving' = <<>>
    BY <2>1
  <2>2. CASE \E result \in Results[request.type] : /\ request.type \in DOMAIN ServerIdl
                                                  /\ serving' = Unanswered(request, result)
    <3>1. PICK result \in Results[request.type] : serving' = Unanswered(request, result)
      BY <2>2
    <3> DEFINE m == [from |-> request.from, type |-> request.type, tag |-> request.tag,
                     result |-> result]
    <3>2. serving' = <<m>>
      BY <3>1 DEF Unanswered
    <3>3. m \in CallsServed
      BY <1>3, <2>2 DEF CallsServed, Messages, Tags
    <3> HIDE DEF m
    <3>4. QED
      BY <3>2, <3>3
  <2>3. QED
    BY <1>2, <2>1, <2>2
<1>5. QED
  BY <1>1, <1>3, <1>4 DEF Typed

LEMMA MarshallReplyTyped ==
  ASSUME PacketAssumption, Typed, MarshallReply
  PROVE  LET now == Head(serving)
         IN  /\ now \in CallsServed /\ now = serving[1] /\ 1 \in DOMAIN serving
             /\ serverBuf' \in Seq(Cells) /\ serving' = <<>>
             /\ LET packet == SubSeq(serverBuf', 1, Reply[now.type][now.result].size)
                    sig == ServerIdl[now.type].returns
                IN  /\ packet \in Seq(Cells)
                    /\ Decodes(packet, sig) /\ Deserialize(packet, sig) = now.result
<1> DEFINE now == Head(serving)
           sig == ServerIdl[now.type].returns
           n == BytesFor(sig, now.result)
           buf == Marshalled(serverBuf, n, Written(sig, now.result))
<1>1. now \in CallsServed /\ now = serving[1] /\ 1 \in DOMAIN serving /\ serving' = <<>>
  BY DEF Typed, MarshallReply
<1>2. now.type \in DOMAIN ServerIdl /\ now.result \in Results[now.type]
  BY <1>1 DEF CallsServed
<1>3. /\ Reply[now.type][now.result].size = n
      /\ Reply[now.type][now.result].written = Written(sig, now.result)
  BY <1>2 DEF Reply
<1>4. serverBuf' = buf
  BY <1>3 DEF MarshallReply
<1>5. Fits(sig, now.result) /\ serverBuf \in Seq(Cells)
  BY <1>2 DEF PacketAssumption, Typed
<1> HIDE DEF sig, now
<1>6. /\ buf \in Seq(Cells) /\ SubSeq(buf, 1, n) \in Seq(Cells)
      /\ Decodes(SubSeq(buf, 1, n), sig) /\ Deserialize(SubSeq(buf, 1, n), sig) = now.result
  BY <1>5, PacketsRoundTrip, Zenon
<1> HIDE DEF buf, n
<1>7. QED
  BY <1>1, <1>3, <1>4, <1>6 DEF sig, now

LEMMA SendReplyTyped ==
  ASSUME PacketAssumption, Typed, SendReply
  PROVE  Typed'
<1> DEFINE now == Head(serving)
           packet == SubSeq(serverBuf', 1, Reply[now.type][now.result].size)
           reply == [type |-> now.type, tag |-> now.tag, payload |-> packet]
<1>1. now \in CallsServed /\ serverBuf' \in Seq(Cells) /\ serving' = <<>> /\ packet \in Seq(Cells)
  BY MarshallReplyTyped DEF SendReply
<1>2. /\ replies' = [replies EXCEPT ![now.from] = Append(@, reply)]
      /\ UNCHANGED <<client, nextTag, sentTag, txBuf, requests, running, failures>>
  BY DEF SendReply, clientVars
<1> HIDE DEF packet, now
<1>3. reply \in ReplyMessages /\ now.from \in Clients
  BY <1>1 DEF CallsServed, ReplyMessages
<1> HIDE DEF reply
<1>4. replies' \in [Clients -> Seq(ReplyMessages)]
  <2>1. Append(replies[now.from], reply) \in Seq(ReplyMessages)
    BY <1>3 DEF Typed
  <2>2. QED
    BY <1>2, <1>3, <2>1 DEF Typed
<1>5. serving' \in Seq(CallsServed) /\ Len(serving') <= 1
  BY <1>1
<1>6. QED
  BY <1>1, <1>2, <1>4, <1>5 DEF Typed

LEMMA NextTyped ==
  ASSUME RpcAssumption, PacketAssumption, Typed, [Next]_vars
  PROVE  Typed'
<1>1. ASSUME NEW c \in Clients, NEW call \in Calls, Call(c, call) PROVE Typed'
  BY <1>1, CallTyped
<1>2. ASSUME NEW c \in Clients, CallFails(c) \/ ReceiveReplyFails(c) PROVE Typed'
  BY <1>2, GoneTyped
<1>3. ASSUME NEW c \in Clients, ReceiveReply(c) PROVE Typed'
  BY <1>3, ReceiveReplyTyped
<1>4. CASE RunOne
  BY <1>4, RunOneTyped
<1>5. CASE SendReply
  BY <1>5, SendReplyTyped
<1>6. CASE SendReplyFails
  <2>1. /\ serverBuf' \in Seq(Cells) /\ serving' = <<>> /\ failures' \in 0 .. MaxFailures
        /\ UNCHANGED <<client, nextTag, sentTag, txBuf, requests, replies, running>>
    BY <1>6, MarshallReplyTyped, FailsTyped DEF SendReplyFails, clientVars
  <2>2. serving' \in Seq(CallsServed) /\ Len(serving') <= 1
    BY <2>1
  <2>3. QED
    BY <2>1, <2>2 DEF Typed
<1>7. CASE ServerStops
  <2>1. /\ running' = FALSE /\ serving' = <<>> /\ failures' \in 0 .. MaxFailures
        /\ UNCHANGED <<client, nextTag, sentTag, txBuf, requests, replies, serverBuf>>
    BY <1>7, FailsTyped DEF ServerStops, clientVars
  <2>2. serving' \in Seq(CallsServed) /\ Len(serving') <= 1
    <3>1. serving' = <<>>
      BY <2>1
    <3>2. QED
      BY <3>1
  <2>3. running' \in BOOLEAN
    BY <2>1, Zenon
  <2>4. /\ client' \in [Clients -> {"idle", "waiting", "gone"}]
        /\ nextTag' \in [Clients -> Tags]
        /\ sentTag' \in [Clients -> Tags]
        /\ txBuf' \in [Clients -> Seq(Cells)]
        /\ requests' \in Seq(Messages)
        /\ replies' \in [Clients -> Seq(ReplyMessages)]
        /\ serverBuf' \in Seq(Cells)
    <3>1. UNCHANGED <<client, nextTag, sentTag, txBuf, requests, replies, serverBuf>>
      BY <2>1, Zenon
    <3>2. QED
      BY <3>1 DEF Typed
  <2>5. QED
    BY <2>1, <2>2, <2>3, <2>4, Zenon DEF Typed
<1>8. CASE UNCHANGED vars
  BY <1>8 DEF vars, clientVars, serverVars, Typed
<1>9. QED
  BY <1>1, <1>2, <1>3, <1>4, <1>5, <1>6, <1>7, <1>8 DEF Next

\* The stubs' members and the streams hold what they should: every tag is a tag,
\* every message is of a method of the interface.  The two sides may have been made
\* from different versions of it.
THEOREM TypesKept == Spec => []TypeOK
<1>1. Init => Typed
  BY InitTyped, RpcAssumption
<1>2. Typed /\ [Next]_vars => Typed'
  BY NextTyped, RpcAssumption, PacketAssumption
<1>3. Typed => TypeOK
  BY TypedImplies
<1>4. QED
  BY <1>1, <1>2, <1>3, PTL DEF Spec

-----------------------------------------------------------------------------
(* The promise                                                             *)

\* The request is the call: its type, and arguments that decode to the call's.
Carries(request, call) ==
  /\ request.type = call.method
  /\ Decodes(request.payload, ClientIdl[call.method].params)
  /\ Deserialize(request.payload, ClientIdl[call.method].params) = call.args

\* The k-th call of c, which the server has not received yet, is at[k] in the stream.
Queued(c, at) ==
  LET pending == (Len(executed[c]) + 1) .. Len(issued[c])
  IN  /\ \A k \in pending : /\ at[k] \in DOMAIN requests
                            /\ requests[at[k]].from = c
                            /\ Carries(requests[at[k]], issued[c][k])
      /\ \A k, l \in pending : k < l => at[k] < at[l]
      /\ \A i \in DOMAIN requests : requests[i].from = c => \E k \in pending : at[k] = i

\* The last call of c has been executed, and this is what was answered.
LastAnswer(c, result) ==
  /\ Len(executed[c]) = Len(issued[c]) /\ Len(executed[c]) # 0
  /\ executed[c][Len(executed[c])].answer = result

\* What the histories say of c's calls: the returned ones, the executed ones and
\* those under way.
Promised(c) ==
  /\ issued[c] \in Seq(Calls) /\ IsSequence(executed[c]) /\ IsSequence(returned[c])
  /\ Len(executed[c]) <= Len(issued[c])
  /\ client[c] = "idle" => Len(returned[c]) = Len(issued[c])
  /\ client[c] = "waiting" => Len(returned[c]) + 1 = Len(issued[c])
  /\ \A k \in (Len(executed[c]) + 1) .. Len(issued[c]) :
       Waits(issued[c][k]) => k = Len(issued[c])
  /\ \A i \in DOMAIN serving : serving[i].from = c => LastAnswer(c, serving[i].result)
  /\ \A i \in DOMAIN replies[c] :
       LET sig == ServerIdl[replies[c][i].type].returns
       IN  /\ Decodes(replies[c][i].payload, sig)
           /\ LastAnswer(c, Deserialize(replies[c][i].payload, sig))

PromiseInv ==
  /\ DOMAIN issued = Clients /\ DOMAIN executed = Clients /\ DOMAIN returned = Clients
  /\ \A c \in Clients : Promised(c)
  /\ \A c \in Clients : \E at : Queued(c, at)

\* Everything the steps of the refinement need.
AllInv == Typed /\ StepInv /\ PromiseInv

\* Issue, Execute, Return or nothing.
Abstract == Promise!Next \/ UNCHANGED <<issued, executed, returned>>

LEMMA InitPromiseInv ==
  ASSUME Init
  PROVE  PromiseInv /\ Promise!Init
<1>1. /\ issued = [c \in Clients |-> <<>>] /\ executed = [c \in Clients |-> <<>>]
      /\ returned = [c \in Clients |-> <<>>] /\ replies = [c \in Clients |-> <<>>]
      /\ requests = <<>> /\ serving = <<>> /\ client = [c \in Clients |-> "idle"]
  BY DEF Init
<1>2. ASSUME NEW c \in Clients PROVE Promised(c)
  BY <1>1, EmptyIsSequence DEF Promised
<1>3. ASSUME NEW c \in Clients PROVE \E at : Queued(c, at)
  <2>1. Queued(c, <<>>)
    BY <1>1 DEF Queued
  <2>2. QED
    BY <2>1
<1>4. Promise!Init
  BY <1>1 DEF Promise!Init
<1>5. QED
  BY <1>1, <1>2, <1>3, <1>4 DEF PromiseInv

-----------------------------------------------------------------------------
(* Steps that leave a client's calls alone                                 *)

LEMMA PromisedStays ==
  ASSUME NEW c \in Clients, Promised(c),
         issued'[c] = issued[c], executed'[c] = executed[c], returned'[c] = returned[c],
         client'[c] = client[c] \/ client'[c] = "gone",
         \A i \in DOMAIN serving' :
           serving'[i].from # c \/ (i \in DOMAIN serving /\ serving'[i] = serving[i]),
         replies'[c] = replies[c]
  PROVE  Promised(c)'
BY DEF Promised, LastAnswer

LEMMA QueuedStays ==
  ASSUME NEW c \in Clients, \E at : Queued(c, at),
         issued'[c] = issued[c], executed'[c] = executed[c], requests' = requests
  PROVE  \E at : Queued(c, at)'
<1>1. PICK at : Queued(c, at)
  OBVIOUS
<1>2. Queued(c, at)'
  BY <1>1 DEF Queued
<1>3. QED
  BY <1>2

\* A client ends, a reply is not sent or the server stops.
LEMMA NothingPromised ==
  ASSUME PromiseInv, UNCHANGED <<issued, executed, returned, requests, replies>>,
         \A c \in Clients : client'[c] = client[c] \/ client'[c] = "gone",
         serving' = serving \/ serving' = <<>>
  PROVE  PromiseInv' /\ Abstract
<1>1. \A i \in DOMAIN serving' : i \in DOMAIN serving /\ serving'[i] = serving[i]
  OBVIOUS
<1>2. \A c \in Clients : Promised(c)'
  BY <1>1, PromisedStays DEF PromiseInv
<1>3. \A c \in Clients : \E at : Queued(c, at)'
  BY QueuedStays DEF PromiseInv
<1>4. QED
  BY <1>2, <1>3 DEF PromiseInv, Abstract

-----------------------------------------------------------------------------
(* A call                                                                  *)

\* While a client is idle the calls the server has yet to receive wait for nothing.
LEMMA IdleWaitsForNone ==
  ASSUME SameInterface, StepInv, NEW c \in Clients, client[c] = "idle", NEW at, Queued(c, at)
  PROVE  \A k \in (Len(executed[c]) + 1) .. Len(issued[c]) : ~Waits(issued[c][k])
<1>1. Asked(c) = {}
  BY IdleHasNone DEF StepInv, Shape
<1>2. ASSUME NEW k \in (Len(executed[c]) + 1) .. Len(issued[c]), Waits(issued[c][k]) PROVE FALSE
  <2>1. /\ at[k] \in DOMAIN requests /\ requests[at[k]].from = c
        /\ requests[at[k]].type = issued[c][k].method
    BY DEF Queued, Carries
  <2>2. at[k] \in Asked(c)
    BY <1>2, <2>1 DEF SameInterface, Asked, Waits
  <2>3. QED
    BY <1>1, <2>2
<1>3. QED
  BY <1>2

\* One more request at the end of the stream.
LEMMA QueuedAfterCall ==
  ASSUME NEW d \in Clients, NEW at, Queued(d, at), Promised(d),
         IsSequence(requests), NEW message, requests' = Append(requests, message),
         message.from = d, NEW call, Carries(message, call), call \in Calls,
         issued'[d] = Append(issued[d], call), executed' = executed
  PROVE  \E new : Queued(d, new)'
<1> DEFINE e == Len(executed[d])
           n == Len(issued[d])
           r == Len(requests)
           new == [k \in (e + 1) .. (n + 1) |-> IF k = n + 1 THEN r + 1 ELSE at[k]]
<1>1. /\ issued[d] \in Seq(Calls) /\ e \in Nat /\ n \in Nat /\ e <= n
  BY SequenceFacts DEF Promised
<1>2. /\ issued'[d][n + 1] = call /\ Len(issued'[d]) = n + 1
      /\ \A k \in 1 .. n : issued'[d][k] = issued[d][k]
  BY <1>1
<1>3. /\ r \in Nat /\ DOMAIN requests = 1 .. r /\ DOMAIN requests' = 1 .. (r + 1)
      /\ \A i \in 1 .. r : requests'[i] = requests[i]
      /\ requests'[r + 1] = message
  BY AppendFacts, SequenceFacts
<1>4. Len(executed'[d]) = e
  OBVIOUS
<1>5. /\ \A k \in (e + 1) .. n : /\ at[k] \in 1 .. r /\ requests[at[k]].from = d
                                 /\ Carries(requests[at[k]], issued[d][k])
      /\ \A k, l \in (e + 1) .. n : k < l => at[k] < at[l]
      /\ \A i \in 1 .. r : requests[i].from = d => \E k \in (e + 1) .. n : at[k] = i
  BY <1>3 DEF Queued
<1> HIDE DEF e, n, r
<1>6. \A k \in (e + 1) .. (n + 1) :
        \/ k = n + 1 /\ new[k] = r + 1
        \/ k \in (e + 1) .. n /\ k \in 1 .. n /\ k < n + 1 /\ new[k] = at[k]
  BY <1>1
<1>7. \A k \in (e + 1) .. n : k \in (e + 1) .. (n + 1) /\ new[k] = at[k]
  BY <1>1
<1>8. n + 1 \in (e + 1) .. (n + 1) /\ new[n + 1] = r + 1
  BY <1>1
<1> HIDE DEF new
<1>9. ASSUME NEW k \in (e + 1) .. (n + 1)
      PROVE  /\ new[k] \in 1 .. (r + 1) /\ requests'[new[k]].from = d
             /\ Carries(requests'[new[k]], issued'[d][k])
  <2>1. CASE k = n + 1
    BY <1>2, <1>3, <1>8, <2>1
  <2>2. CASE k \in (e + 1) .. n
    <3>1. new[k] = at[k] /\ at[k] \in 1 .. r /\ k \in 1 .. n
      BY <1>1, <1>5, <1>7, <2>2
    <3>2. requests'[at[k]] = requests[at[k]] /\ issued'[d][k] = issued[d][k]
      BY <1>2, <1>3, <3>1
    <3>3. at[k] \in 1 .. (r + 1)
      BY <1>3, <3>1
    <3>4. QED
      BY <1>5, <2>2, <3>1, <3>2, <3>3
  <2>3. QED
    BY <1>6, <2>1, <2>2
<1>10. ASSUME NEW k \in (e + 1) .. (n + 1), NEW l \in (e + 1) .. (n + 1), k < l
       PROVE  new[k] < new[l]
  <2>1. k \in (e + 1) .. n
    BY <1>1, <1>10
  <2>2. new[k] = at[k] /\ at[k] \in 1 .. r
    BY <1>5, <1>7, <2>1
  <2>3. CASE l = n + 1
    BY <1>3, <1>8, <2>2, <2>3
  <2>4. CASE l # n + 1
    <3>1. l \in (e + 1) .. n /\ new[l] = at[l]
      BY <1>6, <2>4
    <3>2. QED
      BY <1>5, <1>10, <2>1, <2>2, <3>1
  <2>5. QED
    BY <2>3, <2>4
<1>11. ASSUME NEW i \in 1 .. (r + 1), requests'[i].from = d
       PROVE  \E k \in (e + 1) .. (n + 1) : new[k] = i
  <2>1. CASE i = r + 1
    BY <1>8, <2>1
  <2>2. CASE i # r + 1
    <3>1. i \in 1 .. r
      BY <1>3, <2>2
    <3>2. requests[i].from = d
      BY <1>3, <1>11, <3>1
    <3>3. PICK k \in (e + 1) .. n : at[k] = i
      BY <1>5, <3>1, <3>2
    <3>4. QED
      BY <1>7, <3>3
  <2>3. QED
    BY <2>1, <2>2
<1>12. PICK places : places = new
  OBVIOUS
<1>13. /\ \A k \in (e + 1) .. (n + 1) : /\ places[k] \in DOMAIN requests'
                                        /\ requests'[places[k]].from = d
                                        /\ Carries(requests'[places[k]], issued'[d][k])
       /\ \A k, l \in (e + 1) .. (n + 1) : k < l => places[k] < places[l]
       /\ \A i \in DOMAIN requests' : requests'[i].from = d =>
            \E k \in (e + 1) .. (n + 1) : places[k] = i
  BY <1>3, <1>9, <1>10, <1>11, <1>12
<1>14. Len(executed'[d]) = e /\ Len(issued'[d]) = n + 1
  BY <1>2, <1>4
<1>15. Queued(d, places)'
  BY <1>13, <1>14 DEF Queued
<1>16. QED
  BY <1>15

\* Another client's requests do not matter.
LEMMA QueuedAfterOther ==
  ASSUME NEW c \in Clients, \E at : Queued(c, at), IsSequence(requests),
         NEW message, requests' = Append(requests, message), message.from # c,
         issued'[c] = issued[c], executed'[c] = executed[c]
  PROVE  \E at : Queued(c, at)'
<1>1. PICK at : Queued(c, at)
  OBVIOUS
<1> DEFINE r == Len(requests)
<1>2. /\ r \in Nat /\ DOMAIN requests = 1 .. r /\ DOMAIN requests' = 1 .. (r + 1)
      /\ \A i \in 1 .. r : requests'[i] = requests[i]
      /\ requests'[r + 1] = message
  BY AppendFacts, SequenceFacts
<1> HIDE DEF r
<1>3. /\ \A i \in DOMAIN requests : i \in DOMAIN requests' /\ requests'[i] = requests[i]
      /\ \A i \in DOMAIN requests' : requests'[i].from = c =>
           i \in DOMAIN requests /\ requests[i].from = c
  BY <1>2
<1>4. Queued(c, at)'
  BY <1>1, <1>3 DEF Queued
<1>5. QED
  BY <1>4

LEMMA CallPromised ==
  ASSUME RpcAssumption, PacketAssumption, SameInterface, AllInv,
         NEW d \in Clients, NEW call \in Calls, Call(d, call)
  PROVE  PromiseInv' /\ Abstract
<1> DEFINE method == ClientIdl[call.method]
           n == BytesFor(method.params, call.args)
           buf == Marshalled(txBuf[d], n, Written(method.params, call.args))
           message == [from |-> d, type |-> call.method, tag |-> NextTag(nextTag[d]),
                       payload |-> SubSeq(buf, 1, n)]
<1>1. Typed /\ StepInv /\ PromiseInv /\ Shape
  BY DEF AllInv, StepInv
<1>2. Request[call].size = n /\ Request[call].written = Written(method.params, call.args)
  BY DEF Request
<1>3. /\ client[d] = "idle"
      /\ requests' = Append(requests, message)
      /\ issued' = [issued EXCEPT ![d] = Append(@, call)]
      /\ \/ /\ ~Waits(call)
            /\ returned' = [returned EXCEPT ![d] = Append(@, NoResult)] /\ client' = client
         \/ /\ Waits(call)
            /\ returned' = returned /\ client' = [client EXCEPT ![d] = "waiting"]
      /\ replies' = replies /\ serving' = serving /\ executed' = executed
  BY <1>2 DEF Call, serverVars, Waits
<1>4. Carries(message, call) /\ message.from = d
  <2>1. Fits(method.params, call.args) /\ txBuf[d] \in Seq(Cells)
    BY <1>1 DEF PacketAssumption, Typed
  <2>2. message.from = d /\ message.type = call.method /\ message.payload = SubSeq(buf, 1, n)
    OBVIOUS
  <2> DEFINE sig == ClientIdl[call.method].params
  <2>3. n = BytesFor(sig, call.args) /\ buf = Marshalled(txBuf[d], BytesFor(sig, call.args), Written(sig, call.args))
        /\ Fits(sig, call.args)
    BY <2>1
  <2> HIDE DEF buf, n, message, sig
  <2>4. Decodes(SubSeq(buf, 1, n), sig) /\ Deserialize(SubSeq(buf, 1, n), sig) = call.args
    BY <2>1, <2>3, PacketsRoundTrip, Zenon
  <2>5. QED
    BY <2>2, <2>4 DEF Carries, sig
<1> HIDE DEF message, method, n, buf
<1>5. PICK at : Queued(d, at)
  BY <1>1 DEF PromiseInv
<1>6. \A k \in (Len(executed[d]) + 1) .. Len(issued[d]) : ~Waits(issued[d][k])
  BY <1>1, <1>3, <1>5, IdleWaitsForNone
<1>7. Served(d) = {} /\ replies[d] = <<>>
  BY <1>1, <1>3, IdleHasNone DEF StepInv, Shape
<1>8. /\ Promised(d) /\ DOMAIN issued = Clients /\ DOMAIN returned = Clients
      /\ DOMAIN executed = Clients /\ IsSequence(requests)
  BY <1>1 DEF PromiseInv, Shape
<1>9. issued'[d] = Append(issued[d], call)
  BY <1>3, <1>8
<1>10. /\ issued[d] \in Seq(Calls) /\ Len(issued[d]) \in Nat /\ Len(executed[d]) \in Nat
       /\ IsSequence(returned[d]) /\ Len(returned[d]) = Len(issued[d])
       /\ Len(executed[d]) <= Len(issued[d])
  BY <1>3, <1>8, SequenceFacts DEF Promised
<1>11. /\ issued'[d] \in Seq(Calls) /\ Len(issued'[d]) = Len(issued[d]) + 1
       /\ \A k \in 1 .. Len(issued[d]) : issued'[d][k] = issued[d][k]
  BY <1>9, <1>10
<1>12. Promised(d)'
  <2>1. executed'[d] = executed[d] /\ Len(executed'[d]) <= Len(issued'[d])
    BY <1>3, <1>10, <1>11
  <2>2. \A i \in DOMAIN serving' : serving'[i].from # d
    BY <1>3, <1>7 DEF Served
  <2>3. DOMAIN replies'[d] = {}
    BY <1>3, <1>7
  <2>4. /\ IsSequence(returned'[d])
        /\ client'[d] = "idle" => Len(returned'[d]) = Len(issued'[d])
        /\ client'[d] = "waiting" => Len(returned'[d]) + 1 = Len(issued'[d])
    <3>1. CASE ~Waits(call)
      <4>1. returned'[d] = Append(returned[d], NoResult) /\ client'[d] = "idle"
        BY <1>3, <1>8, <3>1
      <4>2. IsSequence(returned'[d]) /\ Len(returned'[d]) = Len(returned[d]) + 1
        BY <1>10, <4>1, AppendFacts
      <4>3. QED
        BY <1>10, <1>11, <4>1, <4>2
    <3>2. CASE Waits(call)
      <4>1. returned'[d] = returned[d] /\ client'[d] = "waiting"
        BY <1>1, <1>3, <3>2 DEF Typed
      <4>2. QED
        BY <1>10, <1>11, <4>1
    <3>3. QED
      BY <3>1, <3>2
  <2>5. ASSUME NEW k \in (Len(executed'[d]) + 1) .. Len(issued'[d]), k # Len(issued'[d])
        PROVE  ~Waits(issued'[d][k])
    <3>1. k \in (Len(executed[d]) + 1) .. Len(issued[d]) /\ k \in 1 .. Len(issued[d])
      BY <1>10, <1>11, <2>1, <2>5
    <3>2. QED
      BY <1>6, <1>11, <3>1
  <2>6. IsSequence(executed'[d])
    BY <1>8, <2>1 DEF Promised
  <2>7. \A k \in (Len(executed'[d]) + 1) .. Len(issued'[d]) :
          Waits(issued'[d][k]) => k = Len(issued'[d])
    BY <2>5
  <2>8. QED
    BY <1>11, <2>1, <2>2, <2>3, <2>4, <2>6, <2>7 DEF Promised
<1>13. ASSUME NEW c \in Clients, c # d PROVE Promised(c)'
  <2>1. /\ issued'[c] = issued[c] /\ executed'[c] = executed[c] /\ returned'[c] = returned[c]
        /\ client'[c] = client[c] /\ replies'[c] = replies[c]
    BY <1>1, <1>3, <1>8, <1>13 DEF Typed
  <2>2. Promised(c) /\ serving' = serving
    BY <1>1, <1>3 DEF PromiseInv
  <2>3. QED
    BY <2>1, <2>2, PromisedStays
<1>14. \E new : Queued(d, new)'
  BY <1>3, <1>4, <1>5, <1>8, <1>9, QueuedAfterCall
<1>15. ASSUME NEW c \in Clients, c # d PROVE \E new : Queued(c, new)'
  <2>1. issued'[c] = issued[c] /\ executed'[c] = executed[c] /\ message.from # c
    BY <1>3, <1>4, <1>8, <1>15
  <2>2. \E old : Queued(c, old)
    BY <1>1 DEF PromiseInv
  <2>3. QED
    BY <1>3, <1>8, <2>1, <2>2, QueuedAfterOther
<1>16. PromiseInv'
  <2>1. DOMAIN issued' = Clients /\ DOMAIN executed' = Clients /\ DOMAIN returned' = Clients
    BY <1>3, <1>8
  <2>2. QED
    BY <2>1, <1>12, <1>13, <1>14, <1>15 DEF PromiseInv
<1>17. Promise!Issue(d, call)
  <2>1. ~Promise!Waiting(d)
    BY <1>10 DEF Promise!Waiting
  <2>2. QED
    BY <1>3, <2>1 DEF Promise!Issue
<1>18. QED
  BY <1>16, <1>17 DEF Abstract, Promise!Next

-----------------------------------------------------------------------------
(* A request is executed                                                   *)

\* The first request in the stream is its client's next call.
LEMMA FirstPending ==
  ASSUME NEW c \in Clients, NEW at, Queued(c, at), Promised(c),
         IsSequence(requests), requests # <<>>, requests[1].from = c
  PROVE  /\ Len(executed[c]) + 1 \in 1 .. Len(issued[c])
         /\ at[Len(executed[c]) + 1] = 1
         /\ Carries(requests[1], issued[c][Len(executed[c]) + 1])
<1> DEFINE e == Len(executed[c])
           n == Len(issued[c])
<1>1. e \in Nat /\ n \in Nat
  BY SequenceFacts DEF Promised
<1>2. 1 \in DOMAIN requests /\ \A i \in DOMAIN requests : i \in Nat /\ i >= 1
  BY SequenceFacts
<1>3. PICK k \in (e + 1) .. n : at[k] = 1
  BY <1>2 DEF Queued
<1>4. e + 1 \in (e + 1) .. n /\ e + 1 \in 1 .. n /\ k \in Int /\ (k = e + 1 \/ e + 1 < k)
  BY <1>1
<1>5. at[e + 1] \in DOMAIN requests /\ Carries(requests[at[e + 1]], issued[c][e + 1])
  BY <1>4 DEF Queued
<1>6. k = e + 1
  <2>1. SUFFICES ASSUME e + 1 < k PROVE FALSE
    BY <1>4
  <2>2. at[e + 1] < at[k]
    BY <1>4, <2>1 DEF Queued
  <2>3. at[e + 1] \in Nat /\ at[e + 1] >= 1
    BY <1>2, <1>5
  <2>4. QED
    BY <1>3, <2>2, <2>3
<1>7. QED
  BY <1>3, <1>4, <1>5, <1>6

LEMMA QueuedAfterReceive ==
  ASSUME NEW c \in Clients, NEW at, Queued(c, at), Promised(c),
         IsSequence(requests), requests # <<>>, requests' = Tail(requests),
         issued'[c] = issued[c],
         \/ requests[1].from = c /\ Len(executed'[c]) = Len(executed[c]) + 1
         \/ requests[1].from # c /\ Len(executed'[c]) = Len(executed[c])
  PROVE  \E new : Queued(c, new)'
<1> DEFINE e == Len(executed[c])
           n == Len(issued[c])
           r == Len(requests)
<1>1. PICK f : f = Len(executed'[c])
  OBVIOUS
<1> DEFINE new == [k \in (f + 1) .. n |-> at[k] - 1]
<1>2. e \in Nat /\ n \in Nat
  BY SequenceFacts DEF Promised
<1>3. f \in Nat /\ e <= f /\ (f = e + 1 <=> requests[1].from = c) /\ (f # e + 1 => f = e)
  BY <1>1, <1>2
<1>4. /\ r \in Nat /\ DOMAIN requests = 1 .. r /\ DOMAIN requests' = 1 .. (r - 1)
      /\ \A i \in 1 .. (r - 1) : i + 1 \in 1 .. r /\ requests'[i] = requests[i + 1]
  BY TailFacts, SequenceFacts
<1>5. /\ \A k \in (e + 1) .. n : /\ at[k] \in 1 .. r /\ requests[at[k]].from = c
                                 /\ Carries(requests[at[k]], issued[c][k])
      /\ \A k, l \in (e + 1) .. n : k < l => at[k] < at[l]
      /\ \A i \in 1 .. r : requests[i].from = c => \E k \in (e + 1) .. n : at[k] = i
  BY <1>4 DEF Queued
<1>6. requests[1].from = c => e + 1 \in (e + 1) .. n /\ at[e + 1] = 1
  BY <1>2, FirstPending
<1>7. PICK m \in Nat : m = n
  BY <1>2
<1> HIDE DEF e, n, r
<1>8. ASSUME NEW k \in (f + 1) .. n
      PROVE  k \in (e + 1) .. n /\ at[k] \in 1 .. r /\ at[k] # 1
  <2>1. k \in (e + 1) .. n
    BY <1>2, <1>3
  <2>2. at[k] \in 1 .. r /\ requests[at[k]].from = c
    BY <1>5, <2>1
  <2>3. CASE requests[1].from = c
    <3>1. e + 1 < k
      BY <1>2, <1>3, <2>3
    <3>2. 1 < at[k]
      BY <1>5, <1>6, <2>1, <2>3, <3>1
    <3>3. QED
      BY <2>1, <2>2, <3>2
  <2>4. CASE requests[1].from # c
    BY <2>1, <2>2, <2>4
  <2>5. QED
    BY <2>3, <2>4
<1>9. ASSUME NEW k \in (f + 1) .. n
      PROVE  /\ new[k] = at[k] - 1 /\ new[k] \in 1 .. (r - 1) /\ new[k] + 1 = at[k]
             /\ requests'[new[k]] = requests[at[k]]
  <2>1. at[k] \in 1 .. r /\ at[k] # 1 /\ new[k] = at[k] - 1
    BY <1>8
  <2>2. new[k] \in 1 .. (r - 1) /\ new[k] + 1 = at[k]
    BY <1>4, <2>1
  <2> HIDE DEF new
  <2>3. requests'[new[k]] = requests[new[k] + 1]
    BY <1>4, <2>2
  <2>4. QED
    BY <2>1, <2>2, <2>3
<1> HIDE DEF new
<1>10. ASSUME NEW k \in (f + 1) .. n, NEW l \in (f + 1) .. n, k < l
       PROVE  new[k] < new[l]
  <2>1. at[k] \in 1 .. r /\ at[l] \in 1 .. r /\ at[k] < at[l]
    BY <1>5, <1>8, <1>10
  <2>2. QED
    BY <1>4, <1>9, <2>1
<1>11. ASSUME NEW i \in 1 .. (r - 1), requests'[i].from = c
       PROVE  \E k \in (f + 1) .. n : new[k] = i
  <2>1. i + 1 \in 1 .. r /\ requests[i + 1].from = c
    BY <1>4, <1>11
  <2>2. PICK k \in (e + 1) .. n : at[k] = i + 1
    BY <1>5, <2>1
  <2>3. k # e + 1 \/ requests[1].from # c
    <3>1. i + 1 # 1
      OBVIOUS
    <3>2. QED
      BY <1>6, <2>2, <3>1
  <2>4. k \in (f + 1) .. n
    BY <1>2, <1>3, <2>3
  <2>5. new[k] + 1 = i + 1 /\ new[k] \in 1 .. (r - 1)
    BY <1>9, <2>2, <2>4
  <2>6. new[k] = i
    BY <2>5
  <2>7. QED
    BY <2>4, <2>6
<1>12. PICK places : places = new
  OBVIOUS
<1>13. /\ \A k \in (f + 1) .. n : /\ places[k] \in DOMAIN requests'
                                  /\ requests'[places[k]].from = c
                                  /\ Carries(requests'[places[k]], issued'[c][k])
       /\ \A k, l \in (f + 1) .. n : k < l => places[k] < places[l]
       /\ \A i \in DOMAIN requests' : requests'[i].from = c =>
            \E k \in (f + 1) .. n : places[k] = i
  BY <1>4, <1>5, <1>8, <1>9, <1>10, <1>11, <1>12
<1>14. Len(issued'[c]) = n
  BY DEF n
<1>15. Queued(c, places)'
  BY <1>1, <1>13, <1>14 DEF Queued
<1>16. QED
  BY <1>15

LEMMA RunOnePromised ==
  ASSUME RpcAssumption, PacketAssumption, SameInterface, AllInv, RunOne
  PROVE  PromiseInv' /\ Abstract
<1> DEFINE request == Head(requests)
           params == ServerIdl[request.type].params
<1>1. Typed /\ Shape /\ PromiseInv
  BY DEF AllInv, StepInv
<1>2. /\ serving = <<>> /\ requests # <<>> /\ requests' = Tail(requests)
      /\ UNCHANGED <<client, replies, issued, returned>>
  BY DEF RunOne, Ready, clientVars
<1>3. PICK c \in Clients : request = requests[1] /\ request.from = c /\ IsSequence(requests)
  <2>1. request \in Messages /\ request = requests[1]
    BY <1>1, <1>2, FirstRequest
  <2>2. QED
    BY <1>1, <2>1 DEF Messages, Shape
<1> DEFINE e == Len(executed[c])
           n == Len(issued[c])
           call == issued[c][e + 1]
<1>4. PICK at : Queued(c, at)
  BY <1>1, <1>3 DEF PromiseInv
<1>5. Promised(c)
  BY <1>1, <1>3 DEF PromiseInv
<1>6. e + 1 \in 1 .. n /\ Carries(request, call)
  BY <1>2, <1>3, <1>4, <1>5, FirstPending
<1>7. call \in Calls /\ e \in Nat /\ n \in Nat
  BY <1>5, <1>6, SequenceFacts DEF Promised
<1>8. /\ request.type = call.method /\ request.type \in DOMAIN ServerIdl
      /\ Decodes(request.payload, params)
      /\ [method |-> request.type, args |-> Deserialize(request.payload, params)] = call
  <2>1. /\ request.type = call.method /\ Decodes(request.payload, params)
        /\ Deserialize(request.payload, params) = call.args
    BY <1>6 DEF Carries, SameInterface
  <2>2. call.method \in DOMAIN ClientIdl /\ call = [method |-> call.method, args |-> call.args]
    BY <1>7 DEF RpcAssumption, PacketAssumption
  <2> HIDE DEF request, params, call
  <2>3. QED
    BY <2>1, <2>2 DEF SameInterface
<1> DEFINE answer(result) == IF ClientIdl[request.type].async THEN NoResult ELSE result
<1>9. PICK result \in Results[request.type] :
        /\ executed' = [executed EXCEPT ![c] =
             Append(@, [call |-> call, answer |-> answer(result)])]
        /\ serving' = ReplyDue(request, result)
  <2>1. \E result \in Results[request.type] :
          /\ executed' = [executed EXCEPT ![request.from] = Append(@,
               [call |-> [method |-> request.type,
                          args |-> Deserialize(request.payload, params)],
                answer |-> IF ServerIdl[request.type].async THEN NoResult ELSE result])]
          /\ serving' = ReplyDue(request, result)
    BY <1>8 DEF RunOne
  <2> HIDE DEF params, call, request
  <2>2. QED
    BY <1>3, <1>8, <2>1 DEF SameInterface
<1>10. answer(result) \in Answers(call)
  BY <1>8, <1>9 DEF Answers
<1> DEFINE entry == [call |-> call, answer |-> answer(result)]
<1>11. Promise!Execute(c)
  <2>1. e + 1 <= n
    BY <1>6
  <2>2. executed' = [executed EXCEPT ![c] = Append(@, [call |-> call, answer |-> answer(result)])]
    BY <1>9
  <2>3. issued' = issued /\ returned' = returned
    BY <1>2
  <2> HIDE DEF answer
  <2>4. QED
    BY <1>10, <2>1, <2>2, <2>3 DEF Promise!Execute
<1>12. Abstract
  BY <1>3, <1>11 DEF Abstract, Promise!Next
<1>13. /\ DOMAIN executed = Clients /\ IsSequence(executed[c])
  BY <1>1, <1>5 DEF PromiseInv, Promised
<1>14. executed'[c] = Append(executed[c], entry) /\ \A d \in Clients : d # c => executed'[d] = executed[d]
  <2> HIDE DEF entry
  <2>1. executed' = [executed EXCEPT ![c] = Append(@, entry)]
    BY <1>9 DEF entry
  <2>2. QED
    BY <1>3, <1>13, <2>1
<1>15. /\ IsSequence(executed'[c]) /\ Len(executed'[c]) = e + 1
       /\ executed'[c][e + 1].answer = answer(result)
  <2>1. entry.answer = answer(result)
    OBVIOUS
  <2> HIDE DEF entry
  <2>2. /\ IsSequence(executed'[c]) /\ Len(executed'[c]) = Len(executed[c]) + 1
        /\ executed'[c][Len(executed[c]) + 1] = entry
    BY <1>13, <1>14, AppendFacts
  <2>3. QED
    BY <2>1, <2>2
<1>16. \A i \in DOMAIN serving' :
         /\ serving'[i].from = c /\ serving'[i].result = result
         /\ ~ClientIdl[request.type].async
  <2>1. serving' = <<>> \/ (serving' = Unanswered(request, result) /\ ~ClientIdl[request.type].async)
    BY <1>9 DEF ReplyDue, SameInterface
  <2> DEFINE m == [from |-> request.from, type |-> request.type, tag |-> request.tag,
                   result |-> result]
  <2>2. serving' = <<>> \/ (serving' = <<m>> /\ ~ClientIdl[request.type].async)
    BY <2>1 DEF Unanswered
  <2>3. m.from = c /\ m.result = result
    BY <1>3
  <2> HIDE DEF m, request
  <2>4. CASE serving' = <<>>
    BY <2>4
  <2>5. CASE serving' = <<m>> /\ ~ClientIdl[request.type].async
    <3>1. DOMAIN <<m>> = {1} /\ <<m>>[1] = m
      OBVIOUS
    <3>2. QED
      BY <2>3, <2>5, <3>1
  <2>6. QED
    BY <2>2, <2>4, <2>5
<1> HIDE DEF request, entry
<1>17. Promised(c)'
  <2>1. /\ issued'[c] = issued[c] /\ returned'[c] = returned[c] /\ client'[c] = client[c]
        /\ replies'[c] = replies[c]
    BY <1>2
  <2>2. /\ issued[c] \in Seq(Calls) /\ IsSequence(returned[c])
        /\ client[c] = "idle" => Len(returned[c]) = Len(issued[c])
        /\ client[c] = "waiting" => Len(returned[c]) + 1 = Len(issued[c])
        /\ \A k \in (e + 1) .. n : Waits(issued[c][k]) => k = n
    BY <1>5 DEF Promised
  <2>3. DOMAIN replies[c] = {}
    <3>1. \A i \in DOMAIN replies[c] : Len(executed[c]) = Len(issued[c])
      BY <1>5 DEF Promised, LastAnswer
    <3>2. e # n
      BY <1>6, <1>7
    <3>3. QED
      BY <3>1, <3>2
  <2>4. ASSUME NEW i \in DOMAIN serving' PROVE LastAnswer(c, serving[i].result)'
    <3>1. serving'[i].result = result /\ ~ClientIdl[request.type].async
      BY <1>16
    <3>2. Waits(call)
      BY <1>8, <3>1 DEF Waits
    <3>3. e + 1 = n
      <4>1. e + 1 \in (e + 1) .. n
        BY <1>6, <1>7
      <4>2. QED
        BY <2>2, <3>2, <4>1
    <3>4. Len(executed'[c]) = Len(issued'[c]) /\ Len(executed'[c]) # 0
      BY <1>6, <1>15, <2>1, <3>3
    <3>5. executed'[c][Len(executed'[c])].answer = serving'[i].result
      BY <1>15, <3>1
    <3>6. QED
      BY <3>4, <3>5 DEF LastAnswer
  <2>5. Len(executed'[c]) <= Len(issued'[c])
    BY <1>6, <1>15, <2>1
  <2>6. \A k \in (Len(executed'[c]) + 1) .. Len(issued'[c]) :
          Waits(issued'[c][k]) => k = Len(issued'[c])
    <3>1. \A k \in (e + 1 + 1) .. n : k \in (e + 1) .. n
      BY <1>7
    <3>2. QED
      BY <1>15, <2>1, <2>2, <3>1
  <2>7. QED
    BY <1>15, <2>1, <2>2, <2>3, <2>4, <2>5, <2>6 DEF Promised
<1>18. ASSUME NEW d \in Clients, d # c PROVE Promised(d)'
  <2>1. /\ issued'[d] = issued[d] /\ returned'[d] = returned[d] /\ client'[d] = client[d]
        /\ replies'[d] = replies[d] /\ executed'[d] = executed[d]
    BY <1>2, <1>14, <1>18
  <2>2. \A i \in DOMAIN serving' : serving'[i].from # d
    BY <1>16, <1>18
  <2>3. QED
    BY <1>1, <2>1, <2>2, PromisedStays DEF PromiseInv
<1>19. ASSUME NEW d \in Clients PROVE \E new : Queued(d, new)'
  <2>1. PICK old : Queued(d, old)
    BY <1>1 DEF PromiseInv
  <2>2. Promised(d) /\ issued'[d] = issued[d]
    BY <1>1, <1>2 DEF PromiseInv
  <2>3. \/ requests[1].from = d /\ Len(executed'[d]) = Len(executed[d]) + 1
        \/ requests[1].from # d /\ Len(executed'[d]) = Len(executed[d])
    BY <1>3, <1>14, <1>15
  <2>4. QED
    BY <1>2, <1>3, <2>1, <2>2, <2>3, QueuedAfterReceive
<1>20. PromiseInv'
  <2>1. DOMAIN issued' = Clients /\ DOMAIN executed' = Clients /\ DOMAIN returned' = Clients
    BY <1>1, <1>2, <1>9, <1>13 DEF PromiseInv
  <2>2. QED
    BY <2>1, <1>17, <1>18, <1>19 DEF PromiseInv
<1>21. QED
  BY <1>12, <1>20

-----------------------------------------------------------------------------
(* A reply                                                                 *)

LEMMA ReceiveReplyPromised ==
  ASSUME SameInterface, AllInv, NEW c \in Clients, ReceiveReply(c)
  PROVE  PromiseInv' /\ Abstract
<1> DEFINE reply == replies[c][1]
           n == Len(issued[c])
           sig == ClientIdl[issued[c][n].method].returns
           answer == executed[c][Len(executed[c])].answer
<1>1. Typed /\ Shape /\ PromiseInv /\ Conversation(c) /\ Promised(c)
  BY DEF AllInv, StepInv, PromiseInv
<1>2. /\ client[c] = "waiting" /\ replies[c] # <<>>
      /\ replies' = [replies EXCEPT ![c] = Tail(@)]
      /\ client' = [client EXCEPT ![c] = "idle"]
      /\ UNCHANGED <<requests, serving, issued, executed>>
  BY DEF ReceiveReply, serverVars
<1>3. IsSequence(replies[c]) /\ 1 \in DOMAIN replies[c] /\ Head(replies[c]) = reply
  BY <1>1, <1>2, SequenceFacts DEF Shape
<1>4. reply.type = issued[c][n].method
  BY <1>1, <1>3 DEF Conversation, Current
<1>5. /\ Decodes(reply.payload, sig)
      /\ LastAnswer(c, Deserialize(reply.payload, sig))
  <2>1. ServerIdl[reply.type].returns = sig
    BY <1>4 DEF SameInterface
  <2>2. LET s == ServerIdl[replies[c][1].type].returns
        IN  /\ Decodes(replies[c][1].payload, s)
            /\ LastAnswer(c, Deserialize(replies[c][1].payload, s))
    BY <1>1, <1>3 DEF Promised
  <2>3. QED
    BY <2>1, <2>2
<1>6. Deserialize(reply.payload, sig) = answer /\ Len(executed[c]) = n
  BY <1>5 DEF LastAnswer
<1>7. returned' = [returned EXCEPT ![c] = Append(@, answer)]
  <2>1. returned' = [returned EXCEPT ![c] = Append(@,
          IF Decodes(reply.payload, sig) THEN Deserialize(reply.payload, sig) ELSE Unset(sig))]
    BY <1>3 DEF ReceiveReply
  <2> HIDE DEF reply, sig
  <2>2. QED
    BY <1>5, <1>6, <2>1
<1>8. /\ IsSequence(returned[c]) /\ DOMAIN returned = Clients
      /\ n \in Nat /\ Len(returned[c]) \in Nat /\ Len(returned[c]) + 1 = n
  BY <1>1, <1>2, SequenceFacts DEF Promised, PromiseInv
<1>9. Promise!Return(c)
  <2>1. Promise!Waiting(c)
    BY <1>8 DEF Promise!Waiting
  <2>2. QED
    BY <1>2, <1>6, <1>7, <2>1 DEF Promise!Return
<1>10. replies'[c] = <<>>
  <2>1. replies'[c] = Tail(replies[c]) /\ Len(replies[c]) <= 1
    BY <1>1, <1>2 DEF Shape, Conversation
  <2>2. IsSequence(replies'[c]) /\ Len(replies'[c]) = Len(replies[c]) - 1
    BY <1>2, <1>3, <2>1, TailFacts
  <2>3. Len(replies[c]) \in Nat /\ Len(replies[c]) # 0
    BY <1>2, <1>3, SequenceFacts
  <2>4. Len(replies'[c]) = 0
    BY <2>1, <2>2, <2>3, OnlyOne
  <2>5. QED
    BY <2>2, <2>4, SequenceFacts
<1>11. Promised(c)'
  <2>1. client'[c] = "idle"
    BY <1>1, <1>2 DEF Typed
  <2>2. IsSequence(returned'[c]) /\ Len(returned'[c]) = n
    <3>1. returned'[c] = Append(returned[c], answer)
      BY <1>7, <1>8
    <3> HIDE DEF answer
    <3>2. IsSequence(returned'[c]) /\ Len(returned'[c]) = Len(returned[c]) + 1
      BY <1>8, <3>1, AppendFacts
    <3>3. QED
      BY <1>8, <3>2
  <2>3. issued'[c] = issued[c] /\ executed'[c] = executed[c] /\ serving' = serving
    BY <1>2
  <2>4. /\ issued[c] \in Seq(Calls) /\ IsSequence(executed[c])
        /\ Len(executed[c]) <= Len(issued[c])
        /\ \A k \in (Len(executed[c]) + 1) .. Len(issued[c]) :
             Waits(issued[c][k]) => k = Len(issued[c])
        /\ \A i \in DOMAIN serving : serving[i].from = c => LastAnswer(c, serving[i].result)
    BY <1>1 DEF Promised
  <2>5. \A i \in DOMAIN serving' : serving'[i].from = c => LastAnswer(c, serving[i].result)'
    BY <2>3, <2>4 DEF LastAnswer
  <2>6. DOMAIN replies'[c] = {}
    BY <1>10
  <2>7. QED
    BY <2>1, <2>2, <2>3, <2>4, <2>5, <2>6 DEF Promised
<1>12. ASSUME NEW d \in Clients, d # c PROVE Promised(d)'
  <2>1. /\ issued'[d] = issued[d] /\ returned'[d] = returned[d] /\ client'[d] = client[d]
        /\ replies'[d] = replies[d] /\ executed'[d] = executed[d]
    BY <1>1, <1>2, <1>7, <1>8, <1>12 DEF Typed
  <2>2. Promised(d) /\ serving' = serving
    BY <1>1, <1>2 DEF PromiseInv
  <2>3. QED
    BY <2>1, <2>2, PromisedStays
<1>13. \A d \in Clients : \E at : Queued(d, at)'
  BY <1>1, <1>2, QueuedStays DEF PromiseInv
<1>14. PromiseInv'
  <2>1. DOMAIN issued' = Clients /\ DOMAIN executed' = Clients /\ DOMAIN returned' = Clients
    BY <1>1, <1>2, <1>7, <1>8 DEF PromiseInv
  <2>2. QED
    BY <2>1, <1>11, <1>12, <1>13 DEF PromiseInv
<1>15. QED
  BY <1>9, <1>14 DEF Abstract, Promise!Next

LEMMA SendReplyPromised ==
  ASSUME PacketAssumption, AllInv, SendReply
  PROVE  PromiseInv' /\ Abstract
<1> DEFINE now == Head(serving)
           packet == SubSeq(serverBuf', 1, Reply[now.type][now.result].size)
           reply == [type |-> now.type, tag |-> now.tag, payload |-> packet]
<1>1. Typed /\ Shape /\ PromiseInv
  BY DEF AllInv, StepInv
<1>2. /\ serving # <<>> /\ serving' = <<>>
      /\ replies' = [replies EXCEPT ![now.from] = Append(@, reply)]
      /\ UNCHANGED <<client, requests, issued, executed, returned>>
  BY DEF SendReply, MarshallReply, clientVars, history
<1>3. /\ now \in CallsServed /\ now = serving[1] /\ 1 \in DOMAIN serving
      /\ Decodes(packet, ServerIdl[now.type].returns)
      /\ Deserialize(packet, ServerIdl[now.type].returns) = now.result
  BY <1>1, MarshallReplyTyped DEF SendReply
<1>4. PICK c \in Clients : c = now.from
  BY <1>3 DEF CallsServed
<1>5. reply.type = now.type /\ reply.payload = packet
  OBVIOUS
<1> HIDE DEF packet, reply, now
<1>6. Conversation(c) /\ Promised(c) /\ 1 \in Served(c)
  BY <1>1, <1>3, <1>4 DEF AllInv, StepInv, PromiseInv, Served
<1>7. PICK result : result = now.result /\ LastAnswer(c, result)
  BY <1>3, <1>4, <1>6 DEF Promised
<1>8. replies'[c] = <<reply>>
  <2>1. replies[c] = <<>>
    BY <1>6 DEF Conversation
  <2>2. QED
    BY <1>1, <1>2, <1>4, <2>1 DEF Shape
<1>9. DOMAIN replies'[c] = {1} /\ replies'[c][1] = reply
  BY <1>8, SingletonIsSequence
<1>10. Promised(c)'
  <2>1. /\ issued'[c] = issued[c] /\ executed'[c] = executed[c] /\ returned'[c] = returned[c]
        /\ client'[c] = client[c] /\ DOMAIN serving' = {}
    BY <1>2
  <2>2. LastAnswer(c, result)'
    BY <1>7, <2>1 DEF LastAnswer
  <2>3. \A i \in DOMAIN replies'[c] :
          LET sig == ServerIdl[replies'[c][i].type].returns
          IN  /\ Decodes(replies'[c][i].payload, sig)
              /\ Deserialize(replies'[c][i].payload, sig) = result
    BY <1>3, <1>5, <1>7, <1>9
  <2>4. QED
    BY <1>6, <2>1, <2>2, <2>3 DEF Promised, LastAnswer
<1>11. ASSUME NEW d \in Clients, d # c PROVE Promised(d)'
  <2>1. /\ issued'[d] = issued[d] /\ returned'[d] = returned[d] /\ client'[d] = client[d]
        /\ replies'[d] = replies[d] /\ executed'[d] = executed[d] /\ DOMAIN serving' = {}
    BY <1>1, <1>2, <1>4, <1>11 DEF Shape
  <2>2. QED
    BY <1>1, <2>1, PromisedStays DEF PromiseInv
<1>12. \A d \in Clients : \E at : Queued(d, at)'
  BY <1>1, <1>2, QueuedStays DEF PromiseInv
<1>13. PromiseInv'
  BY <1>1, <1>2, <1>10, <1>11, <1>12 DEF PromiseInv
<1>14. QED
  BY <1>2, <1>13 DEF Abstract

-----------------------------------------------------------------------------
LEMMA NextPromised ==
  ASSUME RpcAssumption, PacketAssumption, SameInterface, AllInv, [Next]_vars
  PROVE  PromiseInv' /\ Abstract
<1>1. PromiseInv /\ Typed
  BY DEF AllInv
<1>2. ASSUME NEW c \in Clients, NEW call \in Calls, Call(c, call) PROVE PromiseInv' /\ Abstract
  BY <1>2, CallPromised
<1>3. ASSUME NEW c \in Clients, CallFails(c) \/ ReceiveReplyFails(c)
      PROVE  PromiseInv' /\ Abstract
  <2>1. /\ UNCHANGED <<issued, executed, returned, requests, replies>>
        /\ client' = [client EXCEPT ![c] = "gone"] /\ serving' = serving
    BY <1>3 DEF CallFails, ReceiveReplyFails, serverVars, history
  <2>2. \A d \in Clients : client'[d] = client[d] \/ client'[d] = "gone"
    BY <1>1, <2>1 DEF Typed
  <2>3. QED
    BY <1>1, <2>1, <2>2, NothingPromised
<1>4. ASSUME NEW c \in Clients, ReceiveReply(c) PROVE PromiseInv' /\ Abstract
  BY <1>4, ReceiveReplyPromised
<1>5. CASE RunOne
  BY <1>5, RunOnePromised
<1>6. CASE SendReply
  BY <1>6, SendReplyPromised
<1>7. CASE SendReplyFails \/ ServerStops
  <2>1. /\ UNCHANGED <<client, issued, executed, returned, requests, replies>>
        /\ serving' = <<>>
    BY <1>7 DEF SendReplyFails, ServerStops, MarshallReply, clientVars, history
  <2>2. QED
    BY <1>1, <2>1, NothingPromised
<1>8. CASE UNCHANGED vars
  <2>1. UNCHANGED <<client, issued, executed, returned, requests, replies, serving>>
    BY <1>8 DEF vars, clientVars, serverVars, history
  <2>2. QED
    BY <1>1, <2>1, NothingPromised
<1>9. QED
  BY <1>2, <1>3, <1>4, <1>5, <1>6, <1>7, <1>8 DEF Next

\* Stubs made from the same interface implement RemoteCalls, for any interface whose
\* calls and results fit into packets.
THEOREM StubsKeepPromise == SameInterface => (Spec => KeepsPromise)
<1>1. SUFFICES ASSUME SameInterface PROVE Spec => KeepsPromise
  OBVIOUS
<1>2. Init => AllInv /\ Promise!Init
  BY InitTyped, InitStepInv, InitPromiseInv, RpcAssumption DEF AllInv
<1>3. AllInv /\ [Next]_vars => AllInv' /\ [Promise!Next]_<<issued, executed, returned>>
  <2>1. SUFFICES ASSUME AllInv, [Next]_vars
                 PROVE  AllInv' /\ Abstract
    BY DEF Abstract
  <2>2. Typed' /\ StepInv'
    BY <1>1, <2>1, NextTyped, NextStepInv, RpcAssumption, PacketAssumption DEF AllInv
  <2>3. PromiseInv' /\ Abstract
    BY <1>1, <2>1, NextPromised, RpcAssumption, PacketAssumption
  <2>4. QED
    BY <2>2, <2>3 DEF AllInv
<1>4. QED
  BY <1>2, <1>3, PTL DEF Spec, KeepsPromise, Promise!Spec
=============================================================================
