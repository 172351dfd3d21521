--------------------------- MODULE SequenceLemmas ---------------------------
(***************************************************************************)
(* Facts about the community modules' sequence and set operators that the  *)
(* proofs of this project share.                                           *)
(***************************************************************************)
EXTENDS Integers, Sequences, SequencesExt, FiniteSetsExt, SequenceTheorems,
        WellFoundedInduction, TLAPS

\* Front drops the last element and keeps the others; Last is an element.
LEMMA FrontLast ==
  ASSUME NEW S, NEW s \in Seq(S), s # <<>>
  PROVE  /\ Len(s) \in Nat \ {0}
         /\ Last(s) \in S
         /\ Last(s) = s[Len(s)]
         /\ Front(s) \in Seq(S)
         /\ Len(Front(s)) = Len(s) - 1
         /\ \A i \in 1 .. Len(s) - 1 : Front(s)[i] = s[i]
<1>1. Len(s) \in Nat \ {0}
  BY EmptySeq
<1>2. \A i \in 1 .. Len(s) : s[i] \in S
  BY ElementOfSeq
<1>3. \A i \in 1 .. (Len(s) - 1) : s[i] \in S
  BY <1>1, <1>2
<1>4. PICK k \in Nat : Len(s) - 1 = k
  BY <1>1
<1>5. \A i \in 1 .. k : s[i] \in S
  BY <1>3, <1>4
<1>6. /\ SubSeq(s, 1, k) \in Seq(S)
      /\ Len(SubSeq(s, 1, k)) = IF 1 <= k THEN k - 1 + 1 ELSE 0
      /\ \A i \in 1 .. k - 1 + 1 : SubSeq(s, 1, k)[i] = s[1 + i - 1]
  BY <1>5, SubSeqProperties, k \in Int, 1 \in Int
<1>7. /\ SubSeq(s, 1, k) \in Seq(S)
      /\ Len(SubSeq(s, 1, k)) = k
      /\ \A i \in 1 .. k : SubSeq(s, 1, k)[i] = s[i]
  <2>1. k - 1 + 1 = k /\ (k = 0 \/ 1 <= k)
    OBVIOUS
  <2>2. \A i \in 1 .. k : 1 + i - 1 = i
    OBVIOUS
  <2> QED
    BY <1>6, <2>1, <2>2
<1>8. Front(s) = SubSeq(s, 1, k)
  BY <1>4 DEF Front
<1>9. Last(s) = s[Len(s)] /\ Last(s) \in S
  BY <1>1, <1>2 DEF Last
<1> QED
  BY <1>1, <1>4, <1>7, <1>8, <1>9

\* ToSet of an appended sequence.
LEMMA ToSetAppend ==
  ASSUME NEW S, NEW s \in Seq(S), NEW e \in S
  PROVE  ToSet(Append(s, e)) = ToSet(s) \cup {e}
<1>1. /\ Append(s, e) \in Seq(S)
      /\ Len(Append(s, e)) = Len(s) + 1
      /\ \A i \in 1 .. Len(s) : Append(s, e)[i] = s[i]
      /\ Append(s, e)[Len(s) + 1] = e
  BY AppendProperties
<1>2. /\ Len(s) \in Nat
      /\ DOMAIN s = 1 .. Len(s)
      /\ DOMAIN Append(s, e) = 1 .. Len(s) + 1
  BY <1>1, LenProperties
<1> QED
  BY <1>1, <1>2 DEF ToSet

\* The minimum of a non-empty set of naturals is an element of it.
LEMMA MinInSet ==
  ASSUME NEW S \in SUBSET Nat, S # {}
  PROVE  /\ Min(S) \in S
         /\ \A y \in S : Min(S) <= y
<1>1. PICK x \in S : \A y \in S : <<y, x>> \notin OpToRel(<, Nat)
  BY WFMin, NatLessThanWellFounded
<1>2. \A y \in S : x <= y
  <2> SUFFICES ASSUME NEW y \in S PROVE x <= y
    OBVIOUS
  <2>1. <<y, x>> \notin OpToRel(<, Nat)
    BY <1>1
  <2>2. ~(y < x)
    BY <2>1 DEF OpToRel
  <2> QED
    BY <2>2
<1>3. \E z \in S : \A y \in S : z <= y
  BY <1>2
<1> QED
  BY <1>3 DEF Min

\* The maximum of a non-empty bounded set of naturals is an element of it.
LEMMA MaxInSet ==
  ASSUME NEW S \in SUBSET Nat, S # {}, NEW b \in Nat, \A x \in S : x <= b
  PROVE  /\ Max(S) \in S
         /\ \A y \in S : y <= Max(S)
<1> DEFINE T == {b - x : x \in S}
<1>0. \A x \in S : b - x \in Nat
  OBVIOUS
<1>1. T \in SUBSET Nat /\ T # {}
  BY <1>0
<1>2. Min(T) \in T /\ \A y \in T : Min(T) <= y
  BY <1>1, MinInSet
<1>3. PICK x \in S : Min(T) = b - x
  BY <1>2
<1>4. \A y \in S : b - x <= b - y
  BY <1>2, <1>3
<1>5. \A y \in S : x >= y
  BY <1>4
<1>6. \E z \in S : \A y \in S : z >= y
  BY <1>5
<1>7. /\ Max(S) \in S
      /\ \A y \in S : Max(S) >= y
  BY <1>6 DEF Max
<1> QED
  BY <1>7

\* A set that has the successor of each of its members below b has all from
\* its first up to b.
LEMMA Climb ==
  ASSUME NEW a \in Nat, NEW b \in Nat, NEW S, a \in S,
         \A p \in a .. b : p \in S /\ p # b => p + 1 \in S
  PROVE  \A p \in a .. b : p \in S
<1> DEFINE T == {p \in a .. b : p \notin S}
<1>1. SUFFICES ASSUME T # {} PROVE FALSE
  OBVIOUS
<1>2. T \in SUBSET Nat
  OBVIOUS
<1>3. Min(T) \in T /\ \A y \in T : Min(T) <= y
  BY <1>1, <1>2, MinInSet
<1> PICK m : m = Min(T)
  OBVIOUS
<1>4. m \in a .. b /\ m \notin S /\ \A y \in T : m <= y
  BY <1>3
<1>5. PICK q \in Int : m = q + 1
  BY <1>4
<1>6. m # a
  BY <1>4
<1>7. q \in a .. b /\ q # b /\ ~(m <= q)
  BY <1>4, <1>5, <1>6
<1>8. q \in S
  BY <1>4, <1>7
<1> QED
  BY <1>4, <1>5, <1>7, <1>8

\* FlattenSeq puts one sequence after the other.
LEMMA FlattenIs ==
  ASSUME NEW S, NEW seqs \in Seq(S), seqs # <<>>
  PROVE  \E f : /\ f[1] = seqs[1]
                /\ \A i \in 1 .. Len(seqs) - 1 : f[i + 1] = f[i] \o seqs[i + 1]
                /\ FlattenSeq(seqs) = f[Len(seqs)]
<1> PICK n \in Nat : n = Len(seqs) /\ n # 0
  BY EmptySeq
<1> DEFINE Equation(f, m) == f = [i \in 1 .. m |-> IF i = 1 THEN seqs[i] ELSE f[i - 1] \o seqs[i]]
           T == {m \in Nat : \E f : Equation(f, m)}
<1>1. 1 \in T
  <2>1. \A i \in 1 .. 1 : i = 1
    OBVIOUS
  <2>2. Equation([i \in 1 .. 1 |-> seqs[1]], 1)
    BY <2>1
  <2> QED
    BY <2>2
<1>2. ASSUME NEW m \in 1 .. n, m \in T PROVE m + 1 \in T
  <2>1. PICK f : Equation(f, m)
    BY <1>2
  <2> DEFINE g == [i \in 1 .. m + 1 |-> IF i = m + 1 THEN f[m] \o seqs[m + 1] ELSE f[i]]
  <2>2. \A i \in 1 .. m : g[i] = f[i]
    OBVIOUS
  <2>3. \A i \in 1 .. m : f[i] = IF i = 1 THEN seqs[i] ELSE f[i - 1] \o seqs[i]
    BY <2>1
  <2>4. ASSUME NEW i \in 1 .. m + 1
        PROVE  g[i] = IF i = 1 THEN seqs[i] ELSE g[i - 1] \o seqs[i]
    <3>1. CASE i = m + 1
      <4>1. i # 1 /\ i - 1 = m /\ m \in 1 .. m
        BY <3>1
      <4> QED
        BY <2>2, <3>1, <4>1
    <3>2. CASE i # m + 1
      <4>1. i \in 1 .. m /\ (i # 1 => i - 1 \in 1 .. m)
        BY <3>2
      <4> QED
        BY <2>2, <2>3, <4>1
    <3> QED
      BY <3>1, <3>2
  <2>5. Equation(g, m + 1)
    BY <2>4
  <2> HIDE DEF Equation, g
  <2>6. \E h : Equation(h, m + 1)
    BY <2>5
  <2> QED
    BY <2>6
<1> HIDE DEF T
<1>3. n \in T
  <2>1. \A m \in 1 .. n : m \in T /\ m # n => m + 1 \in T
    BY <1>2
  <2>2. \A m \in 1 .. n : m \in T
    BY <1>1, <2>1, Climb
  <2> QED
    BY <2>2
<1>4. \E f : Equation(f, n)
  BY <1>3 DEF T
<1> DEFINE flatten == CHOOSE f : Equation(f, n)
<1>5. Equation(flatten, n)
  <2> HIDE DEF Equation
  <2> QED
    BY <1>4
<1>6. FlattenSeq(seqs) = flatten[n]
  BY DEF FlattenSeq
<1> HIDE DEF flatten
<1>7. \A i \in 1 .. n : flatten[i] = IF i = 1 THEN seqs[i] ELSE flatten[i - 1] \o seqs[i]
  BY <1>5
<1>8. flatten[1] = seqs[1]
  BY <1>7
<1>9. ASSUME NEW i \in 1 .. n - 1 PROVE flatten[i + 1] = flatten[i] \o seqs[i + 1]
  <2>1. i + 1 \in 1 .. n /\ i + 1 # 1 /\ (i + 1) - 1 = i
    OBVIOUS
  <2> QED
    BY <1>7, <2>1
<1> QED
  BY <1>6, <1>8, <1>9

\* The first so many of a function's values and the next ones are the first of
\* both.
LEMMA ConcatIs ==
  ASSUME NEW p \in Nat, NEW n \in Nat, NEW g
  PROVE  [s \in 1 .. p |-> g[s]] \o [s \in 1 .. n |-> g[p + s]] = [s \in 1 .. p + n |-> g[s]]
<1> DEFINE V == {g[s] : s \in 1 .. p + n}
           a == [s \in 1 .. p |-> g[s]]
           b == [s \in 1 .. n |-> g[p + s]]
           c == [s \in 1 .. p + n |-> g[s]]
<1>1. a \in Seq(V) /\ Len(a) = p /\ \A s \in 1 .. p : a[s] = g[s]
  <2>1. \A s \in 1 .. p : s \in 1 .. p + n
    OBVIOUS
  <2> QED
    BY <2>1
<1>2. b \in Seq(V) /\ Len(b) = n /\ \A s \in 1 .. n : b[s] = g[p + s]
  <2>1. \A s \in 1 .. n : p + s \in 1 .. p + n
    OBVIOUS
  <2> QED
    BY <2>1
<1>3. p + n \in Nat
  OBVIOUS
<1>4. c \in Seq(V) /\ Len(c) = p + n /\ \A s \in 1 .. p + n : c[s] = g[s]
  BY <1>3
<1> HIDE DEF V, a, b, c
<1>5. /\ a \o b \in Seq(V) /\ Len(a \o b) = p + n
      /\ \A s \in 1 .. p + n : (a \o b)[s] = IF s <= p THEN a[s] ELSE b[s - p]
  BY <1>1, <1>2, ConcatProperties
<1>6. \A s \in 1 .. p + n : (a \o b)[s] = c[s]
  <2> SUFFICES ASSUME NEW s \in 1 .. p + n PROVE (a \o b)[s] = c[s]
    OBVIOUS
  <2>1. CASE s <= p
    <3>1. s \in 1 .. p
      BY <2>1
    <3> QED
      BY <1>1, <1>4, <1>5, <2>1, <3>1
  <2>2. CASE ~(s <= p)
    <3>1. s - p \in 1 .. n /\ p + (s - p) = s
      BY <2>2
    <3> QED
      BY <1>2, <1>4, <1>5, <2>2, <3>1
  <2> QED
    BY <2>1, <2>2
<1>7. a \o b = c
  BY <1>4, <1>5, <1>6, SeqEqual
<1> QED
  BY <1>7 DEF a, b, c
=============================================================================
