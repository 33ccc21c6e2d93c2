------------------------------ MODULE DataLemmas ------------------------------
(***************************************************************************)
(* What the proofs need to know of numbers, sets, sequences and sums.      *)
(* Induction is over a set: one that holds 0 and every successor holds     *)
(* every natural number, since its complement has no least element.        *)
(***************************************************************************)
EXTENDS Integers, Sequences, SequencesExt, SequenceTheorems, FiniteSetTheorems, TLAPS

(* Induction over the natural numbers, for a set of them.                  *)
LEMMA NaturalsBySteps ==
  ASSUME NEW S, 0 \in S, \A n \in Nat : n \in S => n + 1 \in S
  PROVE  Nat \subseteq S
<1> DEFINE R == OpToRel(<, Nat)
           T == Nat \ S
<1>1. \A x, y \in Nat : <<x, y>> \in R <=> x < y
  BY DEF OpToRel
<1>2. IsWellFoundedOn(R, Nat)
  BY NatLessThanWellFounded
<1> HIDE DEF R
<1>3. SUFFICES ASSUME T # {} PROVE FALSE
  OBVIOUS
<1>4. \E x \in T : \A y \in T : ~(<<y, x>> \in R)
  <2>1. T \subseteq Nat
    OBVIOUS
  <2> HIDE DEF T
  <2> QED BY <1>2, <1>3, <2>1, WFMin
<1>5. PICK x \in T : \A y \in T : ~(y < x)
  BY <1>1, <1>4
<1>6. x - 1 \in Nat /\ x - 1 \in S
  BY <1>5
<1> QED BY <1>5, <1>6

(* Two sequences are alike up to their n-th elements.                      *)
Alike(s, r, n) == \A i \in 1 .. n : s[i] = r[i]

(* A set of natural numbers has a least one ...                            *)
LEMMA LeastExists ==
  ASSUME NEW T, T \subseteq Nat, T # {}
  PROVE  \E x \in T : \A y \in T : x <= y
<1> DEFINE S == {n \in Nat : \A y \in T : n <= y}
<1>1. SUFFICES ASSUME \A x \in T : \E y \in T : ~(x <= y) PROVE FALSE
  OBVIOUS
<1>2. 0 \in S
  OBVIOUS
<1>3. ASSUME NEW n \in Nat, n \in S PROVE n + 1 \in S
  <2>1. n \notin T
    BY <1>1, <1>3
  <2>2. ASSUME NEW y \in T PROVE n + 1 <= y
    <3>1. n <= y /\ n # y /\ y \in Nat
      BY <1>3, <2>1
    <3> QED BY <3>1
  <2> QED BY <2>2
<1>4. PICK y \in T : TRUE
  OBVIOUS
<1>5. y + 1 \in Nat /\ ~(y + 1 <= y)
  OBVIOUS
<1> HIDE DEF S
<1>6. y + 1 \in S
  BY <1>2, <1>3, <1>5, NaturalsBySteps
<1> QED BY <1>5, <1>6 DEF S

(* ... and a bounded one its Max, which is an element of it.               *)
LEMMA MaxExists ==
  ASSUME NEW n \in Nat, NEW T, T \subseteq 1 .. n, T # {}
  PROVE  Max(T) \in T /\ \A y \in T : y <= Max(T)
<1> DEFINE U == {k \in Nat : n - k \in T}
<1>1. U \subseteq Nat /\ U # {}
  <2>1. PICK y \in T : y \in 1 .. n
    OBVIOUS
  <2>2. n - y \in Nat /\ n - (n - y) = y
    BY <2>1
  <2> QED BY <2>1, <2>2
<1>2. PICK k \in U : \A y \in U : k <= y
  <2> HIDE DEF U
  <2> QED BY <1>1, LeastExists
<1>3. n - k \in T
  OBVIOUS
<1>4. ASSUME NEW y \in T PROVE y <= n - k
  <2>1. n - y \in Nat /\ n - (n - y) = y
    BY <1>4
  <2>2. n - y \in U
    BY <2>1
  <2> QED BY <1>2, <2>1, <2>2
<1>5. \E x \in T : \A y \in T : x >= y
  <2>1. \A y \in T : n - k >= y
    BY <1>4
  <2> QED BY <1>3, <2>1
<1> DEFINE P(x) == x \in T /\ \A y \in T : x >= y
<1>6. Max(T) = CHOOSE x : P(x)
  BY DEF Max
<1>7. P(CHOOSE x : P(x))
  BY <1>5
<1>8. P(Max(T))
  BY <1>6, <1>7
<1> QED BY <1>8

-----------------------------------------------------------------------------
(* Cuts of a sequence.                                                     *)

(* A cut that is one element longer is the cut with that element appended. *)
LEMMA CutGrows ==
  ASSUME NEW S, NEW s \in Seq(S), NEW n \in Nat, n < Len(s), NEW d \in 0 .. n
  PROVE  Append(SubSeq(s, d + 1, n), s[n + 1]) = SubSeq(s, d + 1, n + 1)
<1> DEFINE a == SubSeq(s, d + 1, n)
           b == SubSeq(s, d + 1, n + 1)
           c == Append(a, s[n + 1])
<1>1. s[n + 1] \in S /\ (\A i \in d + 1 .. n : s[i] \in S) /\ (\A i \in d + 1 .. n + 1 : s[i] \in S)
  BY ElementOfSeq
<1>2. a \in Seq(S) /\ Len(a) = n - d /\ \A i \in 1 .. n - d : a[i] = s[d + i]
  <2>1. /\ a \in Seq(S)
        /\ Len(a) = IF d + 1 <= n THEN n - (d + 1) + 1 ELSE 0
        /\ \A i \in 1 .. n - (d + 1) + 1 : a[i] = s[d + 1 + i - 1]
    BY <1>1, SubSeqProperties
  <2> HIDE DEF a
  <2> QED BY <2>1
<1>3. b \in Seq(S) /\ Len(b) = n + 1 - d /\ \A i \in 1 .. n + 1 - d : b[i] = s[d + i]
  <2>1. /\ b \in Seq(S)
        /\ Len(b) = IF d + 1 <= n + 1 THEN n + 1 - (d + 1) + 1 ELSE 0
        /\ \A i \in 1 .. n + 1 - (d + 1) + 1 : b[i] = s[d + 1 + i - 1]
    BY <1>1, SubSeqProperties
  <2> HIDE DEF b
  <2> QED BY <2>1
<1> HIDE DEF a, b
<1>4. /\ c \in Seq(S) /\ Len(c) = Len(a) + 1
      /\ \A i \in 1 .. Len(a) : c[i] = a[i]
      /\ c[Len(a) + 1] = s[n + 1]
  BY <1>1, <1>2, AppendProperties
<1> HIDE DEF c
<1>5. ASSUME NEW i \in 1 .. Len(c) PROVE c[i] = b[i]
  <2>1. CASE i <= n - d
    BY <1>2, <1>3, <1>4, <2>1
  <2>2. CASE i = n - d + 1
    BY <1>2, <1>3, <1>4, <2>2
  <2> QED BY <1>2, <1>4, <2>1, <2>2
<1>6. c = b
  <2>1. Len(c) = Len(b)
    BY <1>2, <1>3, <1>4
  <2> QED BY <1>3, <1>4, <1>5, <2>1, SeqEqual
<1> QED BY <1>6 DEF a, b, c

(* What is left of a cut when its first k elements go.                     *)
LEMMA CutOfCut ==
  ASSUME NEW S, NEW s \in Seq(S), NEW n \in 0 .. Len(s), NEW d \in 0 .. n, NEW k \in 0 .. n - d
  PROVE  /\ SubSeq(s, d + 1, n) \in Seq(S) /\ Len(SubSeq(s, d + 1, n)) = n - d
         /\ \A i \in 1 .. n - d : SubSeq(s, d + 1, n)[i] = s[d + i]
         /\ SubSeq(SubSeq(s, d + 1, n), k + 1, n - d) = SubSeq(s, d + k + 1, n)
<1> DEFINE a == SubSeq(s, d + 1, n)
           b == SubSeq(s, d + k + 1, n)
           c == SubSeq(a, k + 1, n - d)
           m == n - d
<1>0. Len(s) \in Nat
  BY LenProperties
<1>1. (\A i \in d + 1 .. n : s[i] \in S) /\ (\A i \in d + k + 1 .. n : s[i] \in S)
  BY <1>0, ElementOfSeq
<1>2. a \in Seq(S) /\ Len(a) = n - d /\ \A i \in 1 .. n - d : a[i] = s[d + i]
  <2>1. /\ a \in Seq(S)
        /\ Len(a) = IF d + 1 <= n THEN n - (d + 1) + 1 ELSE 0
        /\ \A i \in 1 .. n - (d + 1) + 1 : a[i] = s[d + 1 + i - 1]
    BY <1>1, SubSeqProperties
  <2> HIDE DEF a
  <2> QED BY <2>1
<1>3. b \in Seq(S) /\ Len(b) = n - d - k /\ \A i \in 1 .. n - d - k : b[i] = s[d + k + i]
  <2>1. /\ b \in Seq(S)
        /\ Len(b) = IF d + k + 1 <= n THEN n - (d + k + 1) + 1 ELSE 0
        /\ \A i \in 1 .. n - (d + k + 1) + 1 : b[i] = s[d + k + 1 + i - 1]
    BY <1>1, SubSeqProperties
  <2> HIDE DEF b
  <2> QED BY <2>1
<1> HIDE DEF a, b
<1>4. c \in Seq(S) /\ Len(c) = n - d - k /\ \A i \in 1 .. n - d - k : c[i] = a[k + i]
  <2>1. m \in Nat /\ k + 1 \in Int /\ \A i \in k + 1 .. m : a[i] \in S
    BY <1>2, ElementOfSeq
  <2>2. c = SubSeq(a, k + 1, m)
    OBVIOUS
  <2> HIDE DEF c, m
  <2>3. /\ c \in Seq(S)
        /\ Len(c) = IF k + 1 <= m THEN m - (k + 1) + 1 ELSE 0
        /\ \A i \in 1 .. m - (k + 1) + 1 : c[i] = a[k + 1 + i - 1]
    BY <2>1, <2>2, SubSeqProperties
  <2> QED BY <2>3 DEF m
<1> HIDE DEF c
<1>5. ASSUME NEW i \in 1 .. Len(c) PROVE c[i] = b[i]
  <2>1. i \in 1 .. n - d - k /\ k + i \in 1 .. n - d /\ d + (k + i) = d + k + i
    BY <1>4
  <2> QED BY <1>2, <1>3, <1>4, <2>1
<1>6. c = b
  BY <1>3, <1>4, <1>5, SeqEqual
<1> QED BY <1>2, <1>6 DEF a, b, c

-----------------------------------------------------------------------------
(* Sums over the elements of a finite set, which are taken one by one in   *)
(* an order that CHOOSE fixes: the sum does not depend on it.              *)
Picked(s) == CHOOSE x \in s : TRUE

(* The sums of f over the subsets of S.                                    *)
Totals(f, S, t) ==
  t = [s \in SUBSET S |-> IF s = {} THEN 0 ELSE f[Picked(s)] + t[s \ {Picked(s)}]]

LEMMA PickedIsMember == ASSUME NEW s, s # {} PROVE Picked(s) \in s
BY DEF Picked

(* Of a finite set, every subset is finite, and has one element less       *)
(* without one of its elements.                                            *)
LEMMA OneLess ==
  ASSUME NEW S, IsFiniteSet(S), NEW s \in SUBSET S
  PROVE  /\ IsFiniteSet(s) /\ Cardinality(s) \in Nat
         /\ Cardinality(s) = 0 <=> s = {}
         /\ \A x \in s : Cardinality(s \ {x}) = Cardinality(s) - 1
<1>1. IsFiniteSet(s)
  BY FS_Subset
<1>2. ASSUME NEW x \in s PROVE Cardinality(s \ {x}) = Cardinality(s) - 1
  BY <1>1, FS_RemoveElement
<1> QED BY <1>1, <1>2, FS_CardinalityType, FS_EmptySet

LEMMA TotalsExist ==
  ASSUME NEW f, NEW S, IsFiniteSet(S)
  PROVE  \E t : Totals(f, S, t)
<1> DEFINE Small(n) == {s \in SUBSET S : Cardinality(s) <= n}
           Upto(n, t) == t = [s \in Small(n) |->
                               IF s = {} THEN 0 ELSE f[Picked(s)] + t[s \ {Picked(s)}]]
           N == {n \in Nat : \E t : Upto(n, t)}
<1>1. 0 \in N
  <2> DEFINE t == [s \in Small(0) |-> 0]
             u == [s \in Small(0) |-> IF s = {} THEN 0 ELSE f[Picked(s)] + t[s \ {Picked(s)}]]
  <2>1. ASSUME NEW s \in Small(0) PROVE s = {}
    BY OneLess
  <2>2. t = u
    BY <2>1
  <2> HIDE DEF t
  <2> QED BY <2>2
<1>2. ASSUME NEW n \in Nat, n \in N PROVE n + 1 \in N
  <2>1. PICK t : Upto(n, t)
    BY <1>2
  <2> DEFINE u == [s \in Small(n + 1) |-> IF s = {} THEN 0 ELSE f[Picked(s)] + t[s \ {Picked(s)}]]
             v == [s \in Small(n + 1) |-> IF s = {} THEN 0 ELSE f[Picked(s)] + u[s \ {Picked(s)}]]
  <2>2. ASSUME NEW s \in Small(n) PROVE s \in Small(n + 1) /\ u[s] = t[s]
    <3>1. s \in Small(n + 1)
      BY OneLess
    <3>2. t[s] = IF s = {} THEN 0 ELSE f[Picked(s)] + t[s \ {Picked(s)}]
      BY <2>1
    <3> QED BY <3>1, <3>2
  <2>3. ASSUME NEW s \in Small(n + 1), s # {} PROVE s \ {Picked(s)} \in Small(n)
    <3>1. Picked(s) \in s
      BY <2>3, PickedIsMember
    <3>2. Cardinality(s \ {Picked(s)}) = Cardinality(s) - 1 /\ Cardinality(s) \in Nat
      BY <3>1, OneLess
    <3> QED BY <3>2
  <2>4. ASSUME NEW s \in Small(n + 1) PROVE u[s] = v[s]
    <3>1. s # {} => u[s \ {Picked(s)}] = t[s \ {Picked(s)}]
      BY <2>2, <2>3
    <3> QED BY <3>1
  <2>5. u = v
    <3>1. u = [s \in Small(n + 1) |-> u[s]] /\ v = [s \in Small(n + 1) |-> v[s]]
      OBVIOUS
    <3> HIDE DEF u, v, Small
    <3> QED BY <2>4, <3>1
  <2>6. Upto(n + 1, u)
    <3> HIDE DEF u, Small
    <3> QED BY <2>5
  <2> HIDE DEF u, Upto
  <2> QED BY <2>6
<1>3. Cardinality(S) \in N
  <2> HIDE DEF N
  <2>1. Nat \subseteq N
    BY <1>1, <1>2, NaturalsBySteps
  <2> QED BY <2>1, FS_CardinalityType
<1>4. Small(Cardinality(S)) = SUBSET S
  BY FS_Subset
<1> HIDE DEF Small
<1> QED BY <1>3, <1>4 DEF Totals

LEMMA SumIsTotal ==
  ASSUME NEW f, NEW S, IsFiniteSet(S)
  PROVE  \E t : Totals(f, S, t) /\ SumFunctionOnSet(f, S) = t[S]
<1> DEFINE t == CHOOSE t : Totals(f, S, t)
<1>1. SumFunctionOnSet(f, S) = t[S]
  BY DEF SumFunctionOnSet, FoldFunctionOnSet, MapThenFoldSet, Totals, Picked
<1>2. Totals(f, S, t)
  BY TotalsExist
<1> QED BY <1>1, <1>2

LEMMA TotalsSplit ==
  ASSUME NEW f, NEW S, IsFiniteSet(S), \A x \in S : f[x] \in Int, NEW t, Totals(f, S, t)
  PROVE  \A s \in SUBSET S : t[s] \in Int /\ \A x \in s : t[s] = f[x] + t[s \ {x}]
<1> DEFINE Right(s) == t[s] \in Int /\ \A x \in s : t[s] = f[x] + t[s \ {x}]
           N == {n \in Nat : \A s \in SUBSET S : Cardinality(s) <= n => Right(s)}
<1>1. \A s \in SUBSET S : t[s] = IF s = {} THEN 0 ELSE f[Picked(s)] + t[s \ {Picked(s)}]
  BY DEF Totals
<1>2. 0 \in N
  <2> SUFFICES ASSUME NEW s \in SUBSET S, Cardinality(s) <= 0 PROVE Right(s)
    OBVIOUS
  <2>1. s = {}
    BY OneLess
  <2>2. t[s] = 0
    BY <1>1, <2>1
  <2> QED BY <2>1, <2>2
<1>3. ASSUME NEW n \in Nat, n \in N PROVE n + 1 \in N
  <2> SUFFICES ASSUME NEW s \in SUBSET S, Cardinality(s) <= n + 1 PROVE Right(s)
    OBVIOUS
  <2>1. CASE s = {}
    <3>1. t[s] = 0
      BY <1>1, <2>1
    <3> QED BY <2>1, <3>1
  <2>2. CASE s # {}
    <3> DEFINE y == Picked(s)
    <3>1. y \in s
      BY <2>2, PickedIsMember
    <3> HIDE DEF y
    <3>2. ASSUME NEW x \in s PROVE s \ {x} \in SUBSET S /\ Right(s \ {x})
      <4>1. Cardinality(s \ {x}) = Cardinality(s) - 1 /\ Cardinality(s) \in Nat
        BY OneLess
      <4>2. Cardinality(s \ {x}) <= n
        BY <4>1
      <4> QED BY <1>3, <4>2
    <3>3. t[s] = f[y] + t[s \ {y}]
      BY <1>1, <2>2 DEF y
    <3>4. t[s] \in Int
      <4>1. f[y] \in Int /\ t[s \ {y}] \in Int
        BY <3>1, <3>2
      <4> QED BY <3>3, <4>1
    <3>5. ASSUME NEW x \in s, x # y PROVE t[s] = f[x] + t[s \ {x}]
      <4>1. t[s \ {y}] = f[x] + t[(s \ {y}) \ {x}]
        BY <3>1, <3>2, <3>5
      <4>2. t[s \ {x}] = f[y] + t[(s \ {x}) \ {y}]
        BY <3>1, <3>2, <3>5
      <4>3. (s \ {y}) \ {x} = (s \ {x}) \ {y}
        OBVIOUS
      <4>4. t[(s \ {x}) \ {y}] \in Int
        <5>1. (s \ {x}) \ {y} \in SUBSET S /\ y \in s \ {x}
          BY <3>1, <3>5
        <5>2. /\ Cardinality(s \ {x}) = Cardinality(s) - 1 /\ Cardinality(s) \in Nat
              /\ Cardinality((s \ {x}) \ {y}) = Cardinality(s \ {x}) - 1
          BY <5>1, OneLess
        <5> QED BY <1>3, <5>1, <5>2
      <4>5. f[x] \in Int /\ f[y] \in Int
        BY <3>1
      <4> DEFINE a == f[x]
                 b == f[y]
                 r == t[(s \ {x}) \ {y}]
      <4>6. t[s] = b + (a + r) /\ t[s \ {x}] = b + r
        BY <3>3, <4>1, <4>2, <4>3
      <4>7. a \in Int /\ b \in Int /\ r \in Int
        BY <4>4, <4>5
      <4> HIDE DEF a, b, r
      <4>8. t[s] = a + t[s \ {x}]
        BY <4>6, <4>7
      <4> QED BY <4>8 DEF a
    <3> QED BY <3>3, <3>4, <3>5
  <2> QED BY <2>1, <2>2
<1> HIDE DEF N
<1>4. Nat \subseteq N
  BY <1>2, <1>3, NaturalsBySteps
<1> SUFFICES ASSUME NEW s \in SUBSET S PROVE Right(s)
  OBVIOUS
<1>5. Cardinality(s) \in Nat
  BY OneLess
<1> QED BY <1>4, <1>5 DEF N

LEMMA TotalsAgree ==
  ASSUME NEW f, NEW S, NEW g, NEW R, IsFiniteSet(S), S \subseteq R,
         \A x \in S : f[x] = g[x],
         NEW t, Totals(f, S, t), NEW u, Totals(g, R, u)
  PROVE  t[S] = u[S]
<1> DEFINE N == {n \in Nat : \A s \in SUBSET S : Cardinality(s) <= n => t[s] = u[s]}
<1>1. \A s \in SUBSET S :
        /\ t[s] = IF s = {} THEN 0 ELSE f[Picked(s)] + t[s \ {Picked(s)}]
        /\ u[s] = IF s = {} THEN 0 ELSE g[Picked(s)] + u[s \ {Picked(s)}]
  BY DEF Totals
<1>2. 0 \in N
  <2> SUFFICES ASSUME NEW s \in SUBSET S, Cardinality(s) <= 0 PROVE t[s] = u[s]
    OBVIOUS
  <2>1. s = {}
    BY OneLess
  <2> QED BY <1>1, <2>1
<1>3. ASSUME NEW n \in Nat, n \in N PROVE n + 1 \in N
  <2> SUFFICES ASSUME NEW s \in SUBSET S, Cardinality(s) <= n + 1 PROVE t[s] = u[s]
    OBVIOUS
  <2>1. CASE s = {}
    BY <1>1, <2>1
  <2>2. CASE s # {}
    <3> DEFINE y == Picked(s)
    <3>1. y \in s
      BY <2>2, PickedIsMember
    <3>2. Cardinality(s \ {y}) = Cardinality(s) - 1 /\ Cardinality(s) \in Nat
      BY <3>1, OneLess
    <3>3. s \ {y} \in SUBSET S /\ Cardinality(s \ {y}) <= n
      BY <3>2
    <3>4. t[s \ {y}] = u[s \ {y}] /\ f[y] = g[y]
      BY <1>3, <3>1, <3>3
    <3> QED BY <1>1, <2>2, <3>4
  <2> QED BY <2>1, <2>2
<1> HIDE DEF N
<1>4. Nat \subseteq N
  BY <1>2, <1>3, NaturalsBySteps
<1>5. Cardinality(S) \in N /\ S \in SUBSET S
  BY <1>4, FS_CardinalityType
<1> QED BY <1>5 DEF N

(* The sum over no elements, over one more, of other values.               *)
LEMMA SumOfNone == ASSUME NEW f PROVE SumFunctionOnSet(f, {}) = 0
<1>1. PICK t : Totals(f, {}, t) /\ SumFunctionOnSet(f, {}) = t[{}]
  BY SumIsTotal, FS_EmptySet
<1> QED BY <1>1 DEF Totals

LEMMA SumSplit ==
  ASSUME NEW f, NEW S, IsFiniteSet(S), \A x \in S : f[x] \in Int
  PROVE  /\ SumFunctionOnSet(f, S) \in Int
         /\ \A x \in S : /\ SumFunctionOnSet(f, S) = f[x] + SumFunctionOnSet(f, S \ {x})
                         /\ SumFunctionOnSet(f, S \ {x}) \in Int
<1>1. PICK t : Totals(f, S, t) /\ SumFunctionOnSet(f, S) = t[S]
  BY SumIsTotal
<1>2. S \in SUBSET S
  OBVIOUS
<1>3. \A s \in SUBSET S : t[s] \in Int /\ \A x \in s : t[s] = f[x] + t[s \ {x}]
  BY <1>1, TotalsSplit
<1>4. ASSUME NEW x \in S PROVE SumFunctionOnSet(f, S \ {x}) = t[S \ {x}]
  <2>1. IsFiniteSet(S \ {x}) /\ S \ {x} \subseteq S
    BY FS_Subset
  <2>2. PICK u : Totals(f, S \ {x}, u) /\ SumFunctionOnSet(f, S \ {x}) = u[S \ {x}]
    BY <2>1, SumIsTotal
  <2>3. u[S \ {x}] = t[S \ {x}]
    BY <1>1, <2>1, <2>2, TotalsAgree
  <2> QED BY <2>2, <2>3
<1> QED BY <1>1, <1>2, <1>3, <1>4

LEMMA SumAgrees ==
  ASSUME NEW S, IsFiniteSet(S), NEW f, NEW g, \A x \in S : f[x] = g[x]
  PROVE  SumFunctionOnSet(f, S) = SumFunctionOnSet(g, S)
<1>1. PICK t : Totals(f, S, t) /\ SumFunctionOnSet(f, S) = t[S]
  BY SumIsTotal
<1>2. PICK u : Totals(g, S, u) /\ SumFunctionOnSet(g, S) = u[S]
  BY SumIsTotal
<1>3. t[S] = u[S]
  BY <1>1, <1>2, TotalsAgree
<1> QED BY <1>1, <1>2, <1>3

(* One element changes its value by d, and the others keep theirs.         *)
LEMMA SumChanges ==
  ASSUME NEW S, IsFiniteSet(S), NEW f, NEW g, NEW x \in S, NEW d \in Int,
         \A y \in S : f[y] \in Int, g[x] = f[x] + d, \A y \in S \ {x} : g[y] = f[y]
  PROVE  SumFunctionOnSet(g, S) = SumFunctionOnSet(f, S) + d
<1>1. \A y \in S : g[y] \in Int
  <2>1. g[x] \in Int
    BY SMT
  <2> QED BY <2>1
<1>2. /\ SumFunctionOnSet(f, S) = f[x] + SumFunctionOnSet(f, S \ {x})
      /\ SumFunctionOnSet(f, S \ {x}) \in Int
  BY SumSplit
<1>3. SumFunctionOnSet(g, S) = g[x] + SumFunctionOnSet(g, S \ {x})
  BY <1>1, SumSplit
<1>4. SumFunctionOnSet(f, S \ {x}) = SumFunctionOnSet(g, S \ {x})
  <2>1. IsFiniteSet(S \ {x})
    BY FS_Subset
  <2> QED BY <2>1, SumAgrees
<1>5. f[x] \in Int
  OBVIOUS
<1> QED BY <1>2, <1>3, <1>4, <1>5

(* ... or comes in.                                                        *)
LEMMA SumGrows ==
  ASSUME NEW S, IsFiniteSet(S), NEW f, NEW g, NEW x, x \notin S,
         \A y \in S : f[y] \in Int, g[x] \in Int, \A y \in S : g[y] = f[y]
  PROVE  SumFunctionOnSet(g, S \cup {x}) = SumFunctionOnSet(f, S) + g[x]
<1>1. /\ IsFiniteSet(S \cup {x}) /\ (S \cup {x}) \ {x} = S
      /\ \A y \in S \cup {x} : g[y] \in Int
  BY FS_AddElement
<1>2. /\ SumFunctionOnSet(g, S \cup {x}) = g[x] + SumFunctionOnSet(g, S)
      /\ SumFunctionOnSet(g, S) \in Int
  <2>1. x \in S \cup {x}
    OBVIOUS
  <2> DEFINE T == S \cup {x}
  <2>2. /\ SumFunctionOnSet(g, T) = g[x] + SumFunctionOnSet(g, T \ {x})
        /\ SumFunctionOnSet(g, T \ {x}) \in Int
    <3> HIDE DEF T
    <3> QED BY <1>1, <2>1, SumSplit DEF T
  <2> QED BY <1>1, <2>2
<1>3. SumFunctionOnSet(g, S) = SumFunctionOnSet(f, S)
  BY SumAgrees
<1> QED BY <1>2, <1>3

(* A sum of natural numbers is one, and none of them exceeds it.           *)
LEMMA SumIsNat ==
  ASSUME NEW S, IsFiniteSet(S), NEW f, \A x \in S : f[x] \in Nat
  PROVE  SumFunctionOnSet(f, S) \in Nat /\ \A x \in S : f[x] <= SumFunctionOnSet(f, S)
<1> DEFINE N == {n \in Nat : \A s \in SUBSET S :
                   Cardinality(s) <= n => SumFunctionOnSet(f, s) \in Nat}
<1>1. 0 \in N
  <2> SUFFICES ASSUME NEW s \in SUBSET S, Cardinality(s) <= 0
               PROVE  SumFunctionOnSet(f, s) \in Nat
    OBVIOUS
  <2>1. s = {}
    BY OneLess
  <2> QED BY <2>1, SumOfNone
<1>2. ASSUME NEW n \in Nat, n \in N PROVE n + 1 \in N
  <2> SUFFICES ASSUME NEW s \in SUBSET S, Cardinality(s) <= n + 1
               PROVE  SumFunctionOnSet(f, s) \in Nat
    OBVIOUS
  <2>1. CASE s = {}
    BY <2>1, SumOfNone
  <2>2. CASE s # {}
    <3>1. PICK x \in s : TRUE
      BY <2>2
    <3>2. Cardinality(s \ {x}) = Cardinality(s) - 1 /\ Cardinality(s) \in Nat /\ IsFiniteSet(s)
      BY <3>1, OneLess
    <3>3. SumFunctionOnSet(f, s \ {x}) \in Nat
      <4>1. s \ {x} \in SUBSET S /\ Cardinality(s \ {x}) <= n
        BY <3>2
      <4> QED BY <1>2, <4>1
    <3>4. \A y \in s : f[y] \in Int
      OBVIOUS
    <3>5. SumFunctionOnSet(f, s) = f[x] + SumFunctionOnSet(f, s \ {x})
      BY <3>1, <3>2, <3>4, SumSplit
    <3>6. f[x] \in Nat
      BY <3>1
    <3> QED BY <3>3, <3>5, <3>6
  <2> QED BY <2>1, <2>2
<1> HIDE DEF N
<1>3. Nat \subseteq N
  BY <1>1, <1>2, NaturalsBySteps
<1>4. ASSUME NEW s \in SUBSET S PROVE SumFunctionOnSet(f, s) \in Nat
  <2>1. Cardinality(s) \in Nat
    BY OneLess
  <2> QED BY <1>3, <2>1 DEF N
<1>5. ASSUME NEW x \in S PROVE f[x] <= SumFunctionOnSet(f, S)
  <2>1. S \ {x} \in SUBSET S /\ \A y \in S : f[y] \in Int
    OBVIOUS
  <2>2. SumFunctionOnSet(f, S \ {x}) \in Nat
    BY <1>4, <2>1
  <2>3. SumFunctionOnSet(f, S) = f[x] + SumFunctionOnSet(f, S \ {x})
    BY <2>1, SumSplit
  <2> QED BY <2>2, <2>3
<1>6. S \in SUBSET S
  OBVIOUS
<1> QED BY <1>4, <1>5, <1>6

LEMMA SumIsBounded ==
  ASSUME NEW S, IsFiniteSet(S), NEW f, NEW b \in Nat,
         \A x \in S : f[x] \in Nat /\ f[x] <= b
  PROVE  SumFunctionOnSet(f, S) <= b * Cardinality(S)
<1> DEFINE N == {n \in Nat : \A s \in SUBSET S :
                   Cardinality(s) = n => SumFunctionOnSet(f, s) <= b * n}
<1>1. 0 \in N
  <2>1. ASSUME NEW s \in SUBSET S, Cardinality(s) = 0 PROVE s = {}
    BY <2>1, OneLess
  <2>2. 0 <= b * 0
    BY SMT
  <2>3. SumFunctionOnSet(f, {}) <= b * 0
    BY <2>2, SumOfNone
  <2> QED BY <2>1, <2>3
<1>2. ASSUME NEW n \in Nat, n \in N PROVE n + 1 \in N
  <2> SUFFICES ASSUME NEW s \in SUBSET S, Cardinality(s) = n + 1
               PROVE  SumFunctionOnSet(f, s) <= b * (n + 1)
    OBVIOUS
  <2>1. PICK x \in s : TRUE
    BY OneLess
  <2>2. Cardinality(s \ {x}) = n /\ IsFiniteSet(s) /\ s \ {x} \in SUBSET S
    BY <2>1, OneLess
  <2>3. SumFunctionOnSet(f, s \ {x}) <= b * n
    BY <1>2, <2>2
  <2>4. \A y \in s : f[y] \in Int
    OBVIOUS
  <2>5. /\ SumFunctionOnSet(f, s) = f[x] + SumFunctionOnSet(f, s \ {x})
        /\ SumFunctionOnSet(f, s \ {x}) \in Int
    BY <2>1, <2>2, <2>4, SumSplit
  <2>6. f[x] \in Nat /\ f[x] <= b
    BY <2>1
  <2>7. b * (n + 1) = b * n + b
    OBVIOUS
  <2>8. b * n \in Nat
    OBVIOUS
  <2> QED BY <2>3, <2>5, <2>6, <2>7, <2>8
<1> HIDE DEF N
<1>3. Nat \subseteq N
  BY <1>1, <1>2, NaturalsBySteps
<1>4. S \in SUBSET S /\ Cardinality(S) \in Nat
  BY FS_CardinalityType
<1> QED BY <1>3, <1>4 DEF N
=============================================================================
