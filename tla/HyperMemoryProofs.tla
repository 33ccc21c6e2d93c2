--------------------------- MODULE HyperMemoryProofs ---------------------------
(***************************************************************************)
(* The runtime memory and the bridge's chain in it, proved for any frame   *)
(* sizes, any capacities and whatever the bounds.                          *)
(*                                                                         *)
(* What the arena holds is measured and restored record by record; so the  *)
(* first part proves, by induction over the records, what the two          *)
(* recursive definitions compute: Bytes is additive, and Restored keeps    *)
(* an end of the file's records.                                           *)
(***************************************************************************)
EXTENDS CausalBridge, DataLemmas

-----------------------------------------------------------------------------
(* What a sequence of records measures.                                    *)

(* The sums over the first records of s, up to the m-th.                   *)
Sums(s, m, t) == t = [n \in 0 .. m |-> IF n = 0 THEN 0 ELSE t[n - 1] + s[n].bytes]

LEMMA SumsExist ==
  ASSUME NEW s, NEW n \in Nat
  PROVE  \E t : Sums(s, n, t)
<1> DEFINE S == {m \in Nat : \E t : Sums(s, m, t)}
<1>1. 0 \in S
  <2> DEFINE t == [n1 \in 0 .. 0 |-> 0]
  <2>1. t = [k \in 0 .. 0 |-> IF k = 0 THEN 0 ELSE t[k - 1] + s[k].bytes]
    OBVIOUS
  <2> QED BY <2>1 DEF Sums
<1>2. ASSUME NEW m \in Nat, m \in S PROVE m + 1 \in S
  <2>1. PICK t : t = [k \in 0 .. m |-> IF k = 0 THEN 0 ELSE t[k - 1] + s[k].bytes]
    BY <1>2 DEF Sums
  <2> DEFINE u == [k \in 0 .. m + 1 |-> IF k = m + 1 THEN t[m] + s[m + 1].bytes ELSE t[k]]
             v == [k \in 0 .. m + 1 |-> IF k = 0 THEN 0 ELSE u[k - 1] + s[k].bytes]
  <2>2. ASSUME NEW k \in 0 .. m + 1 PROVE u[k] = v[k]
    <3>1. CASE k = m + 1
      <4>1. u[k - 1] = t[m] /\ k # 0
        BY <3>1
      <4> QED BY <3>1, <4>1
    <3>2. CASE k # m + 1
      <4>1. k \in 0 .. m /\ u[k] = t[k] /\ (k # 0 => k - 1 \in 0 .. m + 1 /\ u[k - 1] = t[k - 1])
        BY <3>2
      <4> QED BY <4>1, <2>1
    <3> QED BY <3>1, <3>2
  <2>3. u = v
    <3>1. u = [k \in 0 .. m + 1 |-> u[k]] /\ v = [k \in 0 .. m + 1 |-> v[k]]
      OBVIOUS
    <3> HIDE DEF u, v
    <3> QED BY <3>1, <2>2
  <2>4. Sums(s, m + 1, u)
    <3> HIDE DEF u
    <3> QED BY <2>3 DEF Sums
  <2> QED BY <2>4
<1> HIDE DEF S
<1>3. n \in S
  BY <1>1, <1>2, NaturalsBySteps
<1> QED BY <1>3 DEF S

LEMMA BytesAreSums ==
  ASSUME NEW s, Len(s) \in Nat
  PROVE  \E t : Sums(s, Len(s), t) /\ Bytes(s) = t[Len(s)]
<1> DEFINE t == CHOOSE t : Sums(s, Len(s), t)
<1>1. Bytes(s) = t[Len(s)]
  BY DEF Bytes, Sums
<1>2. Sums(s, Len(s), t)
  BY SumsExist
<1> QED BY <1>1, <1>2

(* Two sequences that begin alike have the same sums that far.             *)
LEMMA SumsAgree ==
  ASSUME NEW s, NEW r, NEW n \in Nat, NEW m \in Nat, n <= m, Alike(s, r, n),
         NEW t, Sums(s, n, t), NEW u, Sums(r, m, u)
  PROVE  \A k \in 0 .. n : t[k] = u[k]
<1> DEFINE S == {k \in Nat : k <= n => t[k] = u[k]}
<1>1. /\ \A k \in 0 .. n : t[k] = IF k = 0 THEN 0 ELSE t[k - 1] + s[k].bytes
      /\ \A k \in 0 .. m : u[k] = IF k = 0 THEN 0 ELSE u[k - 1] + r[k].bytes
  BY DEF Sums
<1>2. 0 \in S
  BY <1>1
<1>3. ASSUME NEW k \in Nat, k \in S PROVE k + 1 \in S
  <2> SUFFICES ASSUME k + 1 <= n PROVE t[k + 1] = u[k + 1]
    OBVIOUS
  <2>1. k + 1 \in 0 .. n /\ k + 1 \in 0 .. m /\ k + 1 \in 1 .. n /\ k + 1 # 0 /\ k + 1 - 1 = k
    OBVIOUS
  <2>2. t[k + 1] = t[k] + s[k + 1].bytes /\ u[k + 1] = u[k] + r[k + 1].bytes
    BY <1>1, <2>1
  <2>3. s[k + 1] = r[k + 1]
    BY <2>1 DEF Alike
  <2> QED BY <1>3, <2>1, <2>2, <2>3
<1> HIDE DEF S
<1>4. Nat \subseteq S
  BY <1>2, <1>3, NaturalsBySteps
<1> QED BY <1>4 DEF S

LEMMA BytesOfNothing == Bytes(<< >>) = 0
<1> DEFINE s == << >>
<1>1. Len(s) = 0
  OBVIOUS
<1> HIDE DEF s
<1>2. PICK t : Sums(s, Len(s), t) /\ Bytes(s) = t[Len(s)]
  BY <1>1, BytesAreSums
<1>3. Bytes(s) = 0
  BY <1>1, <1>2 DEF Sums
<1> QED BY <1>3 DEF s

LEMMA BytesAppend ==
  ASSUME NEW S, NEW s \in Seq(S), NEW r \in S
  PROVE  Bytes(Append(s, r)) = Bytes(s) + r.bytes
<1> DEFINE a == Append(s, r)
           n == Len(s)
<1>1. n \in Nat /\ Len(a) = n + 1 /\ a[n + 1] = r /\ \A i \in 1 .. n : s[i] = a[i]
  OBVIOUS
<1> HIDE DEF a, n
<1>2. PICK t : Sums(s, n, t) /\ Bytes(s) = t[n]
  BY <1>1, BytesAreSums DEF n
<1>3. PICK u : Sums(a, n + 1, u) /\ Bytes(a) = u[n + 1]
  BY <1>1, BytesAreSums
<1>4. t[n] = u[n]
  <2>1. n <= n + 1 /\ n + 1 \in Nat /\ n \in 0 .. n
    BY <1>1
  <2>2. Alike(s, a, n)
    BY <1>1 DEF Alike
  <2>3. Sums(s, n, t) /\ Sums(a, n + 1, u)
    BY <1>2, <1>3
  <2>4. \A k \in 0 .. n : t[k] = u[k]
    BY <1>1, <2>1, <2>2, <2>3, SumsAgree
  <2> QED BY <2>1, <2>4
<1>5. u[n + 1] = u[n] + r.bytes
  <2>1. n + 1 \in 0 .. n + 1 /\ n + 1 # 0 /\ n + 1 - 1 = n
    BY <1>1
  <2> QED BY <1>1, <1>3, <2>1 DEF Sums
<1> QED BY <1>2, <1>3, <1>4, <1>5 DEF a

LEMMA RecordsMeasure ==
  ASSUME NEW s \in Seq(Records), NEW i \in 1 .. Len(s)
  PROVE  s[i] \in Records /\ s[i].bytes \in Nat
<1>1. s[i] \in Records
  BY ElementOfSeq
<1> QED BY <1>1, HyperMemoryAssumption DEF Records

(* Every cut of a sequence of records measures a natural number, that of   *)
(* its first part and that of the rest together.                           *)
LEMMA BytesOfCuts ==
  ASSUME NEW s \in Seq(Records), NEW k \in 0 .. Len(s)
  PROVE  /\ \A n \in k .. Len(s) :
               /\ Bytes(SubSeq(s, k + 1, n)) \in Nat
               /\ Bytes(SubSeq(s, 1, n)) = Bytes(SubSeq(s, 1, k)) + Bytes(SubSeq(s, k + 1, n))
         /\ Bytes(SubSeq(s, 1, k)) \in Nat
<1>0. Len(s) \in Nat
  OBVIOUS
<1>1. ASSUME NEW d \in 0 .. Len(s)
      PROVE  \A n \in d .. Len(s) : Bytes(SubSeq(s, d + 1, n)) \in Nat
  <2> DEFINE S == {n \in Nat : d + n <= Len(s) => Bytes(SubSeq(s, d + 1, d + n)) \in Nat}
  <2>1. 0 \in S
    <3>1. SubSeq(s, d + 1, d + 0) = << >>
      BY SubSeqEmpty
    <3>2. Bytes(SubSeq(s, d + 1, d + 0)) = 0
      BY <3>1, BytesOfNothing, Zenon
    <3> QED BY <3>2
  <2>2. ASSUME NEW n \in Nat, n \in S PROVE n + 1 \in S
    <3> SUFFICES ASSUME d + (n + 1) <= Len(s) PROVE Bytes(SubSeq(s, d + 1, d + (n + 1))) \in Nat
      OBVIOUS
    <3> DEFINE m == d + n
    <3>1. m \in Nat /\ m < Len(s) /\ d \in 0 .. m /\ m + 1 = d + (n + 1) /\ m + 1 \in 1 .. Len(s)
      BY <1>0
    <3>2. Bytes(SubSeq(s, d + 1, m)) \in Nat
      BY <2>2, <3>1
    <3> HIDE DEF m
    <3>3. s[m + 1] \in Records /\ s[m + 1].bytes \in Nat
      BY <3>1, RecordsMeasure
    <3>4. SubSeq(s, d + 1, m) \in Seq(Records)
      <4>1. m \in 0 .. Len(s) /\ 0 \in 0 .. m - d
        BY <1>0, <3>1
      <4> QED BY <3>1, <4>1, CutOfCut
    <3>5. SubSeq(s, d + 1, m + 1) = Append(SubSeq(s, d + 1, m), s[m + 1])
      BY <3>1, CutGrows
    <3>6. Bytes(SubSeq(s, d + 1, m + 1)) = Bytes(SubSeq(s, d + 1, m)) + s[m + 1].bytes
      BY <3>3, <3>4, <3>5, BytesAppend
    <3> QED BY <3>1, <3>2, <3>3, <3>6
  <2> HIDE DEF S
  <2>3. Nat \subseteq S
    BY <2>1, <2>2, NaturalsBySteps
  <2>4. ASSUME NEW n \in d .. Len(s) PROVE Bytes(SubSeq(s, d + 1, n)) \in Nat
    <3>1. n - d \in Nat /\ d + (n - d) = n /\ n <= Len(s)
      BY <1>0
    <3> QED BY <2>3, <3>1 DEF S
  <2> QED BY <2>4
<1>2. Bytes(SubSeq(s, 1, k)) \in Nat
  <2>1. 0 \in 0 .. Len(s) /\ k \in 0 .. Len(s) /\ 0 + 1 = 1
    BY <1>0
  <2> QED BY <1>1, <2>1
<1> DEFINE Adds(n) == Bytes(SubSeq(s, 1, n)) = Bytes(SubSeq(s, 1, k)) + Bytes(SubSeq(s, k + 1, n))
           S == {n \in Nat : k + n <= Len(s) => Adds(k + n)}
<1>3. 0 \in S
  <2>1. SubSeq(s, k + 1, k) = << >> /\ k + 0 = k
    BY SubSeqEmpty
  <2>2. Bytes(SubSeq(s, k + 1, k)) = 0
    BY <2>1, BytesOfNothing, Zenon
  <2>3. Adds(k + 0)
    BY <1>2, <2>1, <2>2
  <2> QED BY <2>3
<1>4. ASSUME NEW n \in Nat, n \in S PROVE n + 1 \in S
  <2> SUFFICES ASSUME k + (n + 1) <= Len(s) PROVE Adds(k + (n + 1))
    OBVIOUS
  <2> DEFINE m == k + n
  <2>1. /\ m \in Nat /\ m < Len(s) /\ k \in 0 .. m /\ m + 1 = k + (n + 1) /\ m + 1 \in 1 .. Len(s)
        /\ 0 \in 0 .. m
    BY <1>0
  <2>2. Adds(m)
    BY <1>4, <2>1
  <2> HIDE DEF m
  <2>3. s[m + 1] \in Records /\ s[m + 1].bytes \in Nat
    BY <2>1, RecordsMeasure
  <2>4. ASSUME NEW d \in 0 .. m
        PROVE  Bytes(SubSeq(s, d + 1, m + 1)) = Bytes(SubSeq(s, d + 1, m)) + s[m + 1].bytes
    <3>1. SubSeq(s, d + 1, m) \in Seq(Records)
      <4>1. m \in 0 .. Len(s) /\ 0 \in 0 .. m - d
        BY <1>0, <2>1
      <4> QED BY <4>1, CutOfCut
    <3>2. SubSeq(s, d + 1, m + 1) = Append(SubSeq(s, d + 1, m), s[m + 1])
      BY <2>1, CutGrows
    <3> QED BY <2>3, <3>1, <3>2, BytesAppend
  <2>5. Bytes(SubSeq(s, 1, m + 1)) = Bytes(SubSeq(s, 1, m)) + s[m + 1].bytes
    <3>1. 0 + 1 = 1
      OBVIOUS
    <3> QED BY <2>1, <2>4, <3>1
  <2>6. Bytes(SubSeq(s, k + 1, m + 1)) = Bytes(SubSeq(s, k + 1, m)) + s[m + 1].bytes
    BY <2>1, <2>4
  <2>7. Bytes(SubSeq(s, k + 1, m)) \in Nat
    <3>1. m \in k .. Len(s) /\ k \in 0 .. Len(s)
      BY <1>0, <2>1
    <3> QED BY <1>1, <3>1
  <2> QED BY <1>2, <2>1, <2>2, <2>3, <2>5, <2>6, <2>7
<1> HIDE DEF S
<1>5. Nat \subseteq S
  BY <1>3, <1>4, NaturalsBySteps
<1>6. ASSUME NEW n \in k .. Len(s) PROVE Adds(n) /\ Bytes(SubSeq(s, k + 1, n)) \in Nat
  <2>1. n - k \in Nat /\ k + (n - k) = n /\ n <= Len(s)
    BY <1>0
  <2> QED BY <1>1, <1>5, <2>1 DEF S
<1> QED BY <1>2, <1>6

-----------------------------------------------------------------------------
(* The ring's operations.                                                  *)

(* Arena e holds what is left of the first n records of arena a when the   *)
(* first d of them are gone.                                               *)
Holds(e, a, d, n) ==
  /\ e \in Arenas /\ d \in 0 .. n
  /\ e.records = SubSeq(a.records, d + 1, n)
  /\ e.used = Bytes(e.records)
  /\ e.next = a.next

LEMMA ArenaFields ==
  ASSUME NEW a \in Arenas
  PROVE  /\ a.records \in Seq(Records) /\ Len(a.records) \in Nat
         /\ a.used \in Nat /\ a.evictions \in Nat
         /\ a.generation \in Nat \ {0} /\ a.next \in Nat \ {0}
<1>1. a.records \in Seq(Records)
  BY DEF Arenas
<1>2. Len(a.records) \in Nat
  BY <1>1, LenProperties
<1>3. a.used \in Nat /\ a.evictions \in Nat /\ a.generation \in Nat \ {0} /\ a.next \in Nat \ {0}
  BY DEF Arenas
<1> QED BY <1>1, <1>2, <1>3

(* Eviction drops the oldest records, counts them, and stops when the new  *)
(* one fits or nothing is left.                                            *)
LEMMA EvictDropsTheOldest ==
  ASSUME NEW a \in Arenas, a.used = Bytes(a.records), NEW need \in Nat, capacity \in Nat
  PROVE  \E k \in 0 .. Len(a.records) :
           /\ Holds(Evict(a, need), a, k, Len(a.records))
           /\ Evict(a, need).evictions = a.evictions + k
           /\ \/ Evict(a, need).records = << >> /\ Evict(a, need).used = 0
              \/ Evict(a, need).used + need <= capacity
<1> DEFINE n == Len(a.records)
           Enough(k) == \/ k = n
                        \/ a.used - Bytes(SubSeq(a.records, 1, k)) + need <= capacity
           First(k) == Enough(k) /\ \A j \in 0 .. k - 1 : ~Enough(j)
           k0 == CHOOSE k \in 0 .. n : First(k)
           T == {k \in 0 .. n : Enough(k)}
<1>1. n \in Nat /\ a.records \in Seq(Records) /\ a.evictions \in Nat /\ a.used \in Nat
  BY ArenaFields
<1>2. \E k \in 0 .. n : First(k)
  <2>1. T \subseteq Nat /\ n \in T
    BY <1>1
  <2>2. PICK k \in T : \A j \in T : k <= j
    <3> HIDE DEF T
    <3> QED BY <2>1, LeastExists
  <2>3. ASSUME NEW j \in 0 .. k - 1 PROVE ~Enough(j)
    <3>1. j \in 0 .. n /\ ~(k <= j)
      BY <1>1, <2>2
    <3>2. j \notin T
      BY <2>2, <3>1
    <3> QED BY <3>1, <3>2
  <2> QED BY <2>2, <2>3
<1>3. k0 \in 0 .. n /\ First(k0)
  <2> HIDE DEF First
  <2> QED BY <1>2, Zenon
<1> DEFINE dropped == Bytes(SubSeq(a.records, 1, k0))
           e == [a EXCEPT !.records = SubSeq(a.records, k0 + 1, n),
                          !.used = a.used - dropped,
                          !.evictions = a.evictions + k0]
<1>4. Evict(a, need) = e
  BY DEF Evict
<1>5. Enough(k0)
  BY <1>3
<1> HIDE DEF k0, First
<1>6. /\ dropped \in Nat /\ Bytes(SubSeq(a.records, k0 + 1, n)) \in Nat
      /\ Bytes(a.records) = dropped + Bytes(SubSeq(a.records, k0 + 1, n))
  <2>1. n \in k0 .. Len(a.records) /\ k0 \in 0 .. Len(a.records)
    BY <1>1, <1>3
  <2>2. /\ dropped \in Nat /\ Bytes(SubSeq(a.records, k0 + 1, n)) \in Nat
        /\ Bytes(SubSeq(a.records, 1, n)) = dropped + Bytes(SubSeq(a.records, k0 + 1, n))
    BY <1>1, <2>1, BytesOfCuts
  <2>3. SubSeq(a.records, 1, n) = a.records
    BY <1>1, SubSeqFull
  <2> QED BY <2>2, <2>3
<1>7. SubSeq(a.records, k0 + 1, n) \in Seq(Records)
  <2>1. \A i \in k0 + 1 .. n : a.records[i] \in Records
    BY <1>1, <1>3, ElementOfSeq
  <2> QED BY <1>1, <1>3, <2>1, SubSeqProperties
<1>8. k0 = n => SubSeq(a.records, k0 + 1, n) = << >>
  BY <1>1, SubSeqEmpty
<1> DEFINE rest == SubSeq(a.records, k0 + 1, n)
           left == a.used - dropped
<1>9. left = Bytes(rest) /\ left \in Nat
  BY <1>1, <1>6
<1>10. left + need <= capacity \/ (rest = << >> /\ left = 0)
  <2>1. CASE k0 = n
    BY <1>8, <1>9, <2>1, BytesOfNothing
  <2>2. CASE k0 # n
    BY <1>5, <2>2
  <2> QED BY <2>1, <2>2
<1>11. rest \in Seq(Records) /\ a.evictions + k0 \in Nat
  BY <1>1, <1>3, <1>7
<1> HIDE DEF rest, left
<1>12. e = [a EXCEPT !.records = rest, !.used = left, !.evictions = a.evictions + k0]
  BY DEF rest, left
<1> DEFINE ev == a.evictions + k0
<1>13. ev \in Nat /\ ev = a.evictions + k0
  BY <1>11
<1> HIDE DEF ev
<1>14. e = [a EXCEPT !.records = rest, !.used = left, !.evictions = ev]
  BY <1>12, <1>13
<1> HIDE DEF e
<1>15. /\ e \in Arenas /\ e.records = rest /\ e.used = left /\ e.evictions = ev
       /\ e.next = a.next
  BY <1>9, <1>11, <1>13, <1>14 DEF Arenas
<1>16. Holds(e, a, k0, n)
  BY <1>3, <1>9, <1>15 DEF Holds, rest
<1> QED BY <1>3, <1>4, <1>10, <1>13, <1>15, <1>16

LEMMA PushAddsOne ==
  ASSUME NEW a \in Arenas, a.used = Bytes(a.records), NEW r \in Records
  PROVE  /\ Push(a, r) \in Arenas
         /\ Push(a, r).records = Append(a.records, r)
         /\ Push(a, r).used = a.used + r.bytes
         /\ Push(a, r).used = Bytes(Push(a, r).records)
         /\ Push(a, r).evictions = a.evictions /\ Push(a, r).next = a.next
<1> DEFINE more == Append(a.records, r)
           total == a.used + r.bytes
<1>1. a.records \in Seq(Records) /\ a.used \in Nat
  BY ArenaFields
<1>2. more \in Seq(Records)
  BY <1>1, AppendProperties
<1>3. r.bytes \in Nat
  BY HyperMemoryAssumption DEF Records
<1>4. total \in Nat /\ Bytes(more) = total
  BY <1>1, <1>3, BytesAppend
<1>5. Push(a, r) = [a EXCEPT !.records = more, !.used = total]
  BY DEF Push
<1>6. more = Append(a.records, r) /\ total = a.used + r.bytes
  OBVIOUS
<1> HIDE DEF more, total
<1>7. /\ Push(a, r) \in Arenas /\ Push(a, r).records = more /\ Push(a, r).used = total
      /\ Push(a, r).evictions = a.evictions /\ Push(a, r).next = a.next
  BY <1>2, <1>4, <1>5 DEF Arenas
<1> QED BY <1>4, <1>6, <1>7

-----------------------------------------------------------------------------
(* Restoring a checkpoint, record by record.                               *)

(* Every frame fits in an arena of this process.                           *)
Fits == \A f \in Frames : f <= capacity

(* Arena e is what the first n records of a file leave: an end of them,    *)
(* within the capacity, and, where every frame fits, with what was dropped *)
(* on the counter.                                                         *)
Replays(e, file, d, n) ==
  /\ Holds(e, file, d, n)
  /\ e.used <= capacity
  /\ file.evictions <= e.evictions
  /\ Fits => e.evictions = file.evictions + d

LEMMA ReinsertReplays ==
  ASSUME capacity \in Nat, NEW file \in Arenas, NEW n \in Nat, n < Len(file.records),
         NEW e, NEW d, Replays(e, file, d, n)
  PROVE  \E k : Replays(Reinsert(e, file.records[n + 1]), file, k, n + 1)
<1> DEFINE s == file.records
           r == s[n + 1]
           room == Evict(e, r.bytes)
<1>1. s \in Seq(Records) /\ Len(s) \in Nat /\ file.evictions \in Nat
  BY ArenaFields
<1>2. r \in Records /\ r.bytes \in Nat /\ r.bytes \in Frames
  <2>1. n + 1 \in 1 .. Len(s)
    BY <1>1
  <2>2. r \in Records
    BY <1>1, <2>1, ElementOfSeq
  <2> HIDE DEF r
  <2> QED BY <2>2, HyperMemoryAssumption DEF Records
<1>3. /\ e \in Arenas /\ d \in 0 .. n /\ e.records = SubSeq(s, d + 1, n)
      /\ e.used = Bytes(e.records) /\ e.next = file.next
      /\ e.used <= capacity /\ file.evictions <= e.evictions
      /\ (Fits => e.evictions = file.evictions + d)
  BY DEF Replays, Holds
<1>4. Len(e.records) = n - d
  <2>1. n \in 0 .. Len(s) /\ 0 \in 0 .. n - d
    BY <1>1, <1>3
  <2> QED BY <1>1, <1>3, <2>1, CutOfCut
<1> HIDE DEF r
<1>5. PICK k \in 0 .. n - d :
        /\ Holds(room, e, k, n - d)
        /\ room.evictions = e.evictions + k
        /\ \/ room.records = << >> /\ room.used = 0
           \/ room.used + r.bytes <= capacity
  BY <1>2, <1>3, <1>4, EvictDropsTheOldest
<1> HIDE DEF room
<1>6. /\ room \in Arenas /\ room.used = Bytes(room.records) /\ room.next = file.next
      /\ room.records = SubSeq(s, d + k + 1, n)
      /\ room.evictions \in Nat /\ room.used \in Nat /\ e.evictions \in Nat
  <2>1. room \in Arenas /\ room.used = Bytes(room.records) /\ room.next = e.next
        /\ room.records = SubSeq(e.records, k + 1, n - d)
    BY <1>5 DEF Holds
  <2>2. SubSeq(e.records, k + 1, n - d) = SubSeq(s, d + k + 1, n)
    <3>1. n \in 0 .. Len(s)
      BY <1>1
    <3> QED BY <1>1, <1>3, <3>1, CutOfCut
  <2> QED BY <1>3, <2>1, <2>2, ArenaFields
<1>7. CASE r.bytes > capacity
  <2>1. Reinsert(e, r) = room
    BY <1>7 DEF Reinsert, room
  <2>2. room.records = << >> /\ room.used = 0
    BY <1>2, <1>5, <1>6, <1>7
  <2>3. SubSeq(s, n + 1 + 1, n + 1) = << >>
    BY SubSeqEmpty
  <2>4. ~Fits
    BY <1>2, <1>7 DEF Fits
  <2>5. room.records = SubSeq(s, n + 1 + 1, n + 1)
    BY <2>2, <2>3, Zenon
  <2>6. n + 1 \in 0 .. n + 1
    OBVIOUS
  <2>7. Holds(room, file, n + 1, n + 1)
    BY <1>6, <2>5, <2>6 DEF Holds
  <2>8. room.used <= capacity /\ file.evictions <= room.evictions
    <3>1. room.used <= capacity
      BY <2>2
    <3> QED BY <1>1, <1>3, <1>5, <1>6, <3>1
  <2>9. Replays(room, file, n + 1, n + 1)
    BY <2>4, <2>7, <2>8 DEF Replays
  <2> QED BY <2>1, <2>9 DEF r
<1>8. CASE ~(r.bytes > capacity)
  <2> DEFINE p == Push(room, r)
  <2>1. Reinsert(e, r) = p
    BY <1>8 DEF Reinsert, room
  <2>2. /\ p \in Arenas /\ p.records = Append(room.records, r) /\ p.used = room.used + r.bytes
        /\ p.used = Bytes(p.records) /\ p.evictions = room.evictions /\ p.next = room.next
    BY <1>2, <1>6, PushAddsOne
  <2> HIDE DEF p
  <2>3. d + k \in 0 .. n /\ d + k \in 0 .. n + 1
    BY <1>3, <1>5
  <2>4. p.records = SubSeq(s, d + k + 1, n + 1)
    BY <1>1, <1>6, <2>2, <2>3, CutGrows DEF r
  <2>5. Holds(p, file, d + k, n + 1)
    BY <1>6, <2>2, <2>3, <2>4 DEF Holds
  <2>6. p.used <= capacity
    <3>1. CASE room.used + r.bytes <= capacity
      BY <2>2, <3>1
    <3>2. CASE room.used = 0
      BY <1>2, <1>8, <2>2, <3>2
    <3> QED BY <1>5, <3>1, <3>2
  <2>7. file.evictions <= p.evictions /\ (Fits => p.evictions = file.evictions + (d + k))
    <3>1. p.evictions = e.evictions + k
      BY <1>5, <2>2
    <3>2. d \in Nat /\ k \in Nat /\ e.evictions \in Nat /\ file.evictions \in Nat
      BY <1>1, <1>3, <1>5, <1>6
    <3>3. file.evictions <= p.evictions
      BY <1>3, <3>1, <3>2
    <3>4. ASSUME Fits PROVE p.evictions = file.evictions + (d + k)
      <4>1. e.evictions = file.evictions + d
        BY <1>3, <3>4
      <4> QED BY <3>1, <3>2, <4>1
    <3> QED BY <3>3, <3>4
  <2>8. Replays(p, file, d + k, n + 1)
    BY <2>5, <2>6, <2>7 DEF Replays
  <2> QED BY <2>1, <2>8 DEF r
<1> QED BY <1>7, <1>8

(* The arenas that the records of s lead through, up to the m-th.          *)
Rings(s, b, m, t) == t = [n \in 0 .. m |-> IF n = 0 THEN b ELSE Reinsert(t[n - 1], s[n])]

LEMMA RingsExist ==
  ASSUME NEW s, NEW b, NEW n \in Nat
  PROVE  \E t : Rings(s, b, n, t)
<1> DEFINE S == {m \in Nat : \E t : Rings(s, b, m, t)}
<1>1. 0 \in S
  <2> DEFINE t == [n1 \in 0 .. 0 |-> b]
  <2>1. t = [k \in 0 .. 0 |-> IF k = 0 THEN b ELSE Reinsert(t[k - 1], s[k])]
    OBVIOUS
  <2> QED BY <2>1 DEF Rings
<1>2. ASSUME NEW m \in Nat, m \in S PROVE m + 1 \in S
  <2>1. PICK t : t = [k \in 0 .. m |-> IF k = 0 THEN b ELSE Reinsert(t[k - 1], s[k])]
    BY <1>2 DEF Rings
  <2> DEFINE u == [k \in 0 .. m + 1 |-> IF k = m + 1 THEN Reinsert(t[m], s[m + 1]) ELSE t[k]]
             v == [k \in 0 .. m + 1 |-> IF k = 0 THEN b ELSE Reinsert(u[k - 1], s[k])]
  <2>2. ASSUME NEW k \in 0 .. m + 1 PROVE u[k] = v[k]
    <3>1. CASE k = m + 1
      <4>1. u[k - 1] = t[m] /\ k # 0
        BY <3>1
      <4> QED BY <3>1, <4>1
    <3>2. CASE k # m + 1
      <4>1. k \in 0 .. m /\ u[k] = t[k] /\ (k # 0 => k - 1 \in 0 .. m + 1 /\ u[k - 1] = t[k - 1])
        BY <3>2
      <4> QED BY <4>1, <2>1
    <3> QED BY <3>1, <3>2
  <2>3. u = v
    <3>1. u = [k \in 0 .. m + 1 |-> u[k]] /\ v = [k \in 0 .. m + 1 |-> v[k]]
      OBVIOUS
    <3> HIDE DEF u, v
    <3> QED BY <3>1, <2>2
  <2>4. Rings(s, b, m + 1, u)
    <3> HIDE DEF u
    <3> QED BY <2>3 DEF Rings
  <2> QED BY <2>4
<1> HIDE DEF S
<1>3. n \in S
  BY <1>1, <1>2, NaturalsBySteps
<1> QED BY <1>3 DEF S

LEMMA ReinsertedIs ==
  ASSUME NEW s, Len(s) \in Nat, NEW b
  PROVE  \E t : Rings(s, b, Len(s), t) /\ Reinserted(b, s) = t[Len(s)]
<1> DEFINE t == CHOOSE t : Rings(s, b, Len(s), t)
<1>1. Reinserted(b, s) = t[Len(s)]
  BY DEF Reinserted, Rings
<1>2. Rings(s, b, Len(s), t)
  BY RingsExist
<1> QED BY <1>1, <1>2

(* A restored arena is an end of the file's records, within the capacity.  *)
LEMMA RestoredReplays ==
  ASSUME capacity \in Nat, NEW file \in Arenas
  PROVE  \E d : Replays(Restored(file), file, d, Len(file.records))
<1> DEFINE s == file.records
           gen == file.generation + 1
           none == SubSeq(s, 1, 0)
           b == [file EXCEPT !.records = none, !.used = 0, !.generation = gen]
<1>1. s \in Seq(Records) /\ Len(s) \in Nat /\ file.evictions \in Nat /\ gen \in Nat \ {0}
  BY ArenaFields
<1>2. none = << >>
  BY SubSeqEmpty
<1>3. Restored(file) = Reinserted(b, s)
  BY <1>2, Zenon DEF Restored
<1>4. none \in Seq(Records) /\ Bytes(none) = 0
  <2>1. Bytes(none) = 0
    BY <1>2, BytesOfNothing, Zenon
  <2>2. \A i \in 1 .. 0 : s[i] \in Records
    OBVIOUS
  <2> QED BY <2>1, <2>2, SubSeqProperties
<1>5. PICK t : Rings(s, b, Len(s), t) /\ Reinserted(b, s) = t[Len(s)]
  <2> HIDE DEF b
  <2> QED BY <1>1, ReinsertedIs
<1>6. Replays(b, file, 0, 0)
  <2> HIDE DEF none, gen
  <2>1. b \in Arenas /\ b.records = none /\ b.used = 0 /\ b.evictions = file.evictions
        /\ b.next = file.next
    BY <1>1, <1>4 DEF Arenas
  <2>2. none = SubSeq(file.records, 0 + 1, 0)
    BY DEF none
  <2> HIDE DEF b, s
  <2>3. 0 \in 0 .. 0
    OBVIOUS
  <2>4. Holds(b, file, 0, 0)
    BY <1>4, <2>1, <2>2, <2>3 DEF Holds
  <2> QED BY <1>1, <2>1, <2>4 DEF Replays
<1> HIDE DEF b
<1> DEFINE S == {n \in Nat : n <= Len(s) => \E d : Replays(t[n], file, d, n)}
<1>7. t[0] = b /\ \A n \in Nat : n + 1 <= Len(s) => t[n + 1] = Reinsert(t[n], s[n + 1])
  <2>1. t = [n \in 0 .. Len(s) |-> IF n = 0 THEN b ELSE Reinsert(t[n - 1], s[n])]
    BY <1>5 DEF Rings
  <2>2. t[0] = b
    BY <1>1, <2>1
  <2>3. ASSUME NEW n \in Nat, n + 1 <= Len(s) PROVE t[n + 1] = Reinsert(t[n], s[n + 1])
    <3>1. n + 1 \in 0 .. Len(s) /\ n + 1 # 0 /\ n + 1 - 1 = n
      BY <1>1, <2>3
    <3> QED BY <2>1, <3>1
  <2> QED BY <2>2, <2>3
<1>8. 0 \in S
  BY <1>6, <1>7
<1>9. ASSUME NEW n \in Nat, n \in S PROVE n + 1 \in S
  <2> SUFFICES ASSUME n + 1 <= Len(s) PROVE \E d : Replays(t[n + 1], file, d, n + 1)
    OBVIOUS
  <2>1. n < Len(s) /\ n <= Len(s)
    BY <1>1
  <2>2. PICK d : Replays(t[n], file, d, n)
    BY <1>9, <2>1
  <2> QED BY <1>7, <2>1, <2>2, ReinsertReplays
<1> HIDE DEF S
<1>10. Len(s) \in S
  BY <1>1, <1>8, <1>9, NaturalsBySteps
<1> QED BY <1>1, <1>3, <1>5, <1>10 DEF S

-----------------------------------------------------------------------------
(* The chain of envelopes in a sequence of records.                        *)

(* An end of a linked sequence is linked, and so it is with one record     *)
(* more, if that is no envelope or names the last envelope of the whole    *)
(* sequence, the ones no longer in that end included.                      *)
LEMMA LinkedCut ==
  ASSUME NEW s \in Seq(Records), Linked(s), NEW d \in 0 .. Len(s)
  PROVE  Linked(SubSeq(s, d + 1, Len(s)))
<1> DEFINE n == Len(s)
           c == SubSeq(s, d + 1, n)
<1>1. n \in Nat /\ c \in Seq(Records) /\ Len(c) = n - d /\ \A i \in 1 .. n - d : c[i] = s[d + i]
  <2>1. n \in Nat
    BY LenProperties
  <2>2. n \in 0 .. Len(s) /\ 0 \in 0 .. n - d
    BY <2>1
  <2> QED BY <2>1, <2>2, CutOfCut
<1> HIDE DEF c
<1>2. DOMAIN c = 1 .. n - d /\ DOMAIN s = 1 .. n
  BY <1>1, LenProperties
<1>3. \A i \in Int : i \in EnvelopesIn(c) <=> i \in 1 .. n - d /\ d + i \in EnvelopesIn(s)
  <2>1. ASSUME NEW i \in 1 .. n - d PROVE d + i \in 1 .. n
    BY <1>1
  <2> QED BY <1>1, <1>2, <2>1 DEF EnvelopesIn
<1>4. ASSUME NEW i \in EnvelopesIn(c), NEW j \in EnvelopesIn(c), i < j,
             \A k \in i + 1 .. j - 1 : k \notin EnvelopesIn(c)
      PROVE  c[j].previous = c[i].sha256
  <2>1. i \in 1 .. n - d /\ j \in 1 .. n - d
    BY <1>2 DEF EnvelopesIn
  <2>2. d + i \in EnvelopesIn(s) /\ d + j \in EnvelopesIn(s)
    BY <1>3, <2>1
  <2>3. ASSUME NEW k \in (d + i) + 1 .. (d + j) - 1 PROVE k \notin EnvelopesIn(s)
    <3>1. k - d \in i + 1 .. j - 1 /\ k - d \in 1 .. n - d /\ k - d \in Int /\ d + (k - d) = k
      BY <1>1, <2>1
    <3>2. k - d \notin EnvelopesIn(c)
      BY <1>4, <3>1
    <3> QED BY <1>3, <3>1, <3>2
  <2>4. d + i < d + j
    BY <1>1, <1>4, <2>1
  <2> DEFINE p == d + i
             q == d + j
  <2>5. s[q].previous = s[p].sha256
    <3>1. p \in EnvelopesIn(s) /\ q \in EnvelopesIn(s) /\ p < q
      BY <2>2, <2>4
    <3>2. \A k \in p + 1 .. q - 1 : k \notin EnvelopesIn(s)
      BY <2>3, Zenon
    <3> HIDE DEF p, q
    <3> QED BY <3>1, <3>2 DEF Linked
  <2> QED BY <1>1, <2>1, <2>5
<1> QED BY <1>4 DEF Linked, c, n

LEMMA LinkedAppend ==
  ASSUME NEW s \in Seq(Records), Linked(s), NEW d \in 0 .. Len(s), NEW r \in Records,
         r.previous # Plain /\ EnvelopesIn(s) # {}
           => r.previous = s[Max(EnvelopesIn(s))].sha256
  PROVE  Linked(Append(SubSeq(s, d + 1, Len(s)), r))
<1> DEFINE n == Len(s)
           c == SubSeq(s, d + 1, n)
           a == Append(c, r)
<1>1. n \in Nat /\ c \in Seq(Records) /\ Len(c) = n - d /\ \A i \in 1 .. n - d : c[i] = s[d + i]
  <2>1. n \in Nat
    BY LenProperties
  <2>2. n \in 0 .. Len(s) /\ 0 \in 0 .. n - d
    BY <2>1
  <2> QED BY <2>1, <2>2, CutOfCut
<1>2. Linked(c)
  BY LinkedCut
<1> HIDE DEF c
<1>3. /\ a \in Seq(Records) /\ Len(a) = n - d + 1
      /\ (\A i \in 1 .. n - d : a[i] = c[i]) /\ a[n - d + 1] = r
  BY <1>1, AppendProperties
<1> HIDE DEF a
<1>4. DOMAIN a = 1 .. n - d + 1 /\ DOMAIN c = 1 .. n - d /\ DOMAIN s = 1 .. n
  BY <1>1, <1>3, LenProperties
<1>5. \A i \in 1 .. n - d : /\ i \in EnvelopesIn(a) <=> i \in EnvelopesIn(c)
                            /\ i \in EnvelopesIn(c) <=> d + i \in EnvelopesIn(s)
  <2>1. ASSUME NEW i \in 1 .. n - d PROVE d + i \in 1 .. n /\ i \in 1 .. n - d + 1
    BY <1>1
  <2> QED BY <1>1, <1>3, <1>4, <2>1 DEF EnvelopesIn
<1>6. ASSUME NEW i \in EnvelopesIn(a), NEW j \in EnvelopesIn(a), i < j,
             \A k \in i + 1 .. j - 1 : k \notin EnvelopesIn(a)
      PROVE  a[j].previous = a[i].sha256
  <2>1. i \in 1 .. n - d + 1 /\ j \in 1 .. n - d + 1 /\ i \in 1 .. n - d
    <3>1. i \in 1 .. n - d + 1 /\ j \in 1 .. n - d + 1
      BY <1>4 DEF EnvelopesIn
    <3> QED BY <1>1, <1>6, <3>1
  <2>2. CASE j \in 1 .. n - d
    <3>1. i \in EnvelopesIn(c) /\ j \in EnvelopesIn(c)
      BY <1>5, <1>6, <2>1, <2>2
    <3>2. ASSUME NEW k \in i + 1 .. j - 1 PROVE k \notin EnvelopesIn(c)
      <4>1. k \in 1 .. n - d
        BY <1>1, <2>1, <2>2
      <4> QED BY <1>5, <1>6, <4>1
    <3>3. c[j].previous = c[i].sha256
      BY <1>2, <1>6, <3>1, <3>2 DEF Linked
    <3> QED BY <1>3, <2>1, <2>2, <3>3
  <2>3. CASE j = n - d + 1
    <3>1. r.previous # Plain
      BY <1>3, <1>6, <2>3 DEF EnvelopesIn
    <3>2. d + i \in EnvelopesIn(s)
      BY <1>5, <1>6, <2>1
    <3> DEFINE E == EnvelopesIn(s)
               m == Max(E)
    <3>3. m \in E /\ \A y \in E : y <= m
      <4>1. E \subseteq 1 .. n /\ E # {}
        BY <1>4, <3>2 DEF EnvelopesIn
      <4> HIDE DEF E
      <4> QED BY <1>1, <4>1, MaxExists
    <3>4. m \in 1 .. n
      BY <1>4, <3>3 DEF EnvelopesIn
    <3> HIDE DEF m
    <3>5. m = d + i
      <4>1. d + i <= m
        BY <3>2, <3>3
      <4>2. SUFFICES ASSUME d + i < m PROVE FALSE
        BY <1>1, <2>1, <3>4, <4>1
      <4>3. m - d \in i + 1 .. j - 1 /\ m - d \in 1 .. n - d /\ d + (m - d) = m
        BY <1>1, <2>1, <2>3, <3>4, <4>2
      <4>4. m - d \in EnvelopesIn(a)
        BY <1>5, <3>3, <4>3
      <4> QED BY <1>6, <4>3, <4>4
    <3>6. r.previous = s[d + i].sha256
      BY <3>1, <3>2, <3>5 DEF m
    <3> QED BY <1>1, <1>3, <2>1, <2>3, <3>6
  <2>4. j \in 1 .. n - d \/ j = n - d + 1
    <3>1. n - d \in Nat
      BY <1>1
    <3> HIDE DEF n
    <3> QED BY <2>1, <3>1
  <2> QED BY <2>2, <2>3, <2>4
<1>7. Linked(a)
  BY <1>6 DEF Linked
<1> QED BY <1>7 DEF a, c, n

-----------------------------------------------------------------------------
(* The inductive invariant.                                                *)

(* No process is started with a capacity some frame exceeds.               *)
AllFit == \A f \in Frames, c \in Capacities : f <= c

(* The records end with the last number given out, without a gap.          *)
Contiguous(a) ==
  LET n == Len(a.records)
  IN \A i \in 1 .. n : a.records[i].sequence = a.next - 1 - (n - i)

(* An arena, in memory or in a checkpoint.                                 *)
Sound(a) ==
  /\ a \in Arenas /\ Contiguous(a) /\ Linked(a.records)
  /\ AllFit => a.next - 1 = Len(a.records) + a.evictions

OnFile == checkpoint \notin {NoFile, Corrupt}

(* A running process that restored the checkpoint, or wrote it, knows of   *)
(* the checkpoint's envelopes: by one of its own, or by its counter.       *)
Knows ==
  running /\ EnvelopeOnDisk => Envelopes # {} \/ arena.evictions > 0

BridgeInv ==
  /\ capacity \in Capacities /\ written \in Nat /\ faults \in Nat
  /\ Sound(arena) /\ RingFits
  /\ OnFile => Sound(checkpoint)
  /\ faults = 0 => checkpoint = committed /\ checkpoint # Corrupt
  /\ AllFit => Knows

(* Dropping the oldest records keeps an arena sound, if they are counted.  *)
LEMMA HoldsSound ==
  ASSUME NEW a, Sound(a), NEW e, NEW d, Holds(e, a, d, Len(a.records)),
         AllFit => e.evictions = a.evictions + d
  PROVE  Sound(e)
<1> DEFINE s == a.records
           n == Len(s)
<1>1. /\ a \in Arenas /\ Contiguous(a) /\ Linked(s)
      /\ (AllFit => a.next - 1 = n + a.evictions)
  BY DEF Sound
<1>2. s \in Seq(Records) /\ n \in Nat /\ a.next \in Nat /\ a.evictions \in Nat
  BY <1>1, ArenaFields
<1>3. e \in Arenas /\ d \in 0 .. n /\ e.records = SubSeq(s, d + 1, n) /\ e.next = a.next
  BY DEF Holds
<1>4. Len(e.records) = n - d /\ \A i \in 1 .. n - d : e.records[i] = s[d + i]
  <2>1. n \in 0 .. Len(s) /\ 0 \in 0 .. n - d
    BY <1>2, <1>3
  <2> QED BY <1>2, <1>3, <2>1, CutOfCut
<1>5. Contiguous(e)
  <2>1. ASSUME NEW i \in 1 .. n - d PROVE e.records[i].sequence = e.next - 1 - (n - d - i)
    <3>1. d + i \in 1 .. n
      BY <1>2, <1>3
    <3>2. s[d + i].sequence = a.next - 1 - (n - (d + i))
      BY <1>1, <3>1 DEF Contiguous
    <3> QED BY <1>2, <1>3, <1>4, <3>2
  <2> QED BY <1>4, <2>1 DEF Contiguous
<1>6. Linked(e.records)
  BY <1>1, <1>2, <1>3, LinkedCut
<1>7. AllFit => e.next - 1 = Len(e.records) + e.evictions
  BY <1>1, <1>2, <1>3, <1>4
<1> QED BY <1>3, <1>5, <1>6, <1>7 DEF Sound

LEMMA NewArenaSound == Sound(NewArena) /\ NewArena.used = Bytes(NewArena.records) /\ NewArena.used = 0
<1> DEFINE none == << >>
           a == [records |-> none, used |-> 0, evictions |-> 0, generation |-> 1, next |-> 1]
<1>1. NewArena = a
  BY DEF NewArena
<1>2. none \in Seq(Records) /\ Len(none) = 0 /\ DOMAIN none = {}
  BY EmptySeq
<1>3. Bytes(none) = 0
  BY BytesOfNothing
<1> HIDE DEF none
<1>4. a \in Arenas /\ a.records = none /\ a.used = 0 /\ a.next = 1 /\ a.evictions = 0
  BY <1>2 DEF Arenas
<1> HIDE DEF a
<1>5. Contiguous(a)
  BY <1>2, <1>4 DEF Contiguous
<1>6. Linked(a.records)
  BY <1>2, <1>4 DEF Linked, EnvelopesIn
<1>7. Sound(a) /\ a.used = Bytes(a.records)
  BY <1>2, <1>3, <1>4, <1>5, <1>6 DEF Sound
<1> QED BY <1>1, <1>4, <1>7

LEMMA CapacityIsNat ==
  ASSUME capacity \in Capacities
  PROVE  capacity \in Nat /\ capacity > 0 /\ (AllFit => Fits)
BY HyperMemoryAssumption DEF AllFit, Fits

LEMMA PredecessorIsInt ==
  ASSUME arena \in Arenas
  PROVE  /\ Predecessor \in Int
         /\ Envelopes # {} \/ arena.evictions > 0 => Predecessor # Genesis
         /\ Envelopes # {} => Predecessor = arena.records[Max(Envelopes)].sha256
<1> DEFINE s == arena.records
<1>1. s \in Seq(Records) /\ Len(s) \in Nat
  BY ArenaFields
<1>2. CASE Envelopes # {}
  <2> DEFINE E == Envelopes
             m == Max(E)
  <2>1. Predecessor = s[m].sha256
    BY <1>2 DEF Predecessor
  <2>2. E \subseteq 1 .. Len(s)
    BY <1>1, LenProperties DEF Envelopes, EnvelopesIn
  <2>3. m \in E
    <3> HIDE DEF E
    <3> QED BY <1>1, <1>2, <2>2, MaxExists DEF E
  <2>4. s[m] \in Records
    <3> HIDE DEF E, m
    <3> QED BY <1>1, <2>2, <2>3, ElementOfSeq
  <2> HIDE DEF m, E
  <2>5. s[m].sha256 \in Nat \ {0}
    BY <2>4 DEF Records
  <2> QED BY <2>1, <2>5 DEF Genesis, m, E
<1>3. CASE Envelopes = {}
  <2> QED BY <1>3 DEF Predecessor, EvictedPredecessor, Genesis
<1> QED BY <1>2, <1>3

LEMMA BridgeInit == Init => BridgeInv
<1> SUFFICES ASSUME Init PROVE BridgeInv
  OBVIOUS
<1>1. capacity \in Capacities /\ arena = NewArena /\ ~running /\ checkpoint = NoFile
      /\ committed = NoFile /\ written = 0 /\ faults = 0
  BY DEF Init
<1>2. Sound(arena) /\ RingFits
  BY <1>1, NewArenaSound, CapacityIsNat DEF RingFits
<1> QED BY <1>1, <1>2, HyperMemoryAssumption DEF BridgeInv, OnFile, Knows

(* A record more: what it may say of its predecessor is the bridge's word, *)
(* or that it is none of the bridge's.                                     *)
LEMMA RememberKeeps ==
  ASSUME BridgeInv, NEW bytes \in Frames, NEW previous,
         previous = Plain \/ previous = Predecessor, Remember(bytes, previous)
  PROVE  /\ BridgeInv'
         /\ AllFit /\ EnvelopeOnDisk => Last(arena'.records).previous # Genesis
<1> DEFINE r == [sequence |-> arena.next, bytes |-> bytes,
                 sha256 |-> written + 1, previous |-> previous]
           s == arena.records
           room == Evict(arena, bytes)
           p == Push(room, r)
<1>1. /\ running /\ bytes <= capacity /\ written' = written + 1
      /\ arena' = [p EXCEPT !.next = @ + 1]
      /\ UNCHANGED <<capacity, running, recoveryState, checkpoint, committed, faults>>
  BY DEF Remember, disk
<1>2. /\ capacity \in Capacities /\ written \in Nat /\ faults \in Nat
      /\ Sound(arena) /\ arena.used = Bytes(s) /\ arena.used <= capacity
      /\ arena \in Arenas /\ Contiguous(arena) /\ Linked(s)
      /\ (AllFit => arena.next - 1 = Len(s) + arena.evictions)
  BY DEF BridgeInv, RingFits, Sound
<1>3. s \in Seq(Records) /\ Len(s) \in Nat /\ arena.next \in Nat \ {0} /\ arena.evictions \in Nat
  BY <1>2, ArenaFields
<1>4. bytes \in Nat /\ capacity \in Nat
  BY <1>2, CapacityIsNat, HyperMemoryAssumption
<1>5. previous \in Int
  BY <1>2, PredecessorIsInt DEF Plain
<1>6. /\ r \in Records /\ r.sequence = arena.next /\ r.bytes = bytes /\ r.previous = previous
  BY <1>2, <1>3, <1>5 DEF Records
<1> HIDE DEF r
<1>7. PICK d \in 0 .. Len(s) :
        /\ Holds(room, arena, d, Len(s))
        /\ room.evictions = arena.evictions + d
        /\ \/ room.records = << >> /\ room.used = 0
           \/ room.used + bytes <= capacity
  BY <1>2, <1>4, EvictDropsTheOldest
<1>8. /\ room \in Arenas /\ room.used = Bytes(room.records) /\ room.next = arena.next
      /\ room.records = SubSeq(s, d + 1, Len(s)) /\ Sound(room)
  <2>1. Sound(room)
    BY <1>2, <1>7, HoldsSound
  <2> QED BY <1>7, <2>1 DEF Holds
<1>9. Len(room.records) = Len(s) - d /\ \A i \in 1 .. Len(s) - d : room.records[i] = s[d + i]
  <2>1. Len(s) \in 0 .. Len(s) /\ 0 \in 0 .. Len(s) - d
    BY <1>3, <1>7
  <2> QED BY <1>3, <1>7, <1>8, <2>1, CutOfCut
<1> DEFINE q == room.records
<1>10. q \in Seq(Records) /\ Len(q) \in Nat /\ room.used \in Nat
  BY <1>8, ArenaFields
<1> HIDE DEF room
<1>11. /\ p \in Arenas /\ p.records = Append(q, r) /\ p.used = room.used + bytes
       /\ p.used = Bytes(p.records) /\ p.evictions = room.evictions /\ p.next = room.next
  BY <1>6, <1>8, PushAddsOne
<1> HIDE DEF p
<1> DEFINE next == p.next + 1
<1>12. next \in Nat \ {0} /\ next = arena.next + 1
  BY <1>3, <1>8, <1>11
<1>13. arena' = [p EXCEPT !.next = next]
  BY <1>1
<1> HIDE DEF next
<1>14. /\ arena' \in Arenas /\ arena'.records = Append(q, r) /\ arena'.used = p.used
       /\ arena'.evictions = room.evictions /\ arena'.next = arena.next + 1
  BY <1>11, <1>12, <1>13 DEF Arenas
<1> DEFINE a == arena'
           t == Append(q, r)
<1>15. /\ Len(t) = Len(q) + 1 /\ t[Len(q) + 1] = r /\ (\A i \in 1 .. Len(q) : t[i] = q[i])
       /\ t \in Seq(Records)
  BY <1>6, <1>10, AppendProperties
<1>16. Linked(t)
  <2>1. r.previous # Plain /\ EnvelopesIn(s) # {} => r.previous = s[Max(EnvelopesIn(s))].sha256
    BY <1>2, <1>6, PredecessorIsInt DEF Envelopes
  <2> QED BY <1>2, <1>3, <1>6, <1>7, <1>8, <2>1, LinkedAppend
<1> HIDE DEF t
<1>17. Contiguous(a)
  <2>1. ASSUME NEW i \in 1 .. Len(t) PROVE t[i].sequence = a.next - 1 - (Len(t) - i)
    <3>1. CASE i \in 1 .. Len(q)
      <4>1. q[i].sequence = room.next - 1 - (Len(q) - i)
        BY <1>8, <3>1 DEF Sound, Contiguous
      <4>2. t[i] = q[i] /\ Len(t) = Len(q) + 1 /\ a.next = room.next + 1
        BY <1>8, <1>14, <1>15, <3>1
      <4>3. room.next \in Nat /\ Len(q) \in Nat /\ i \in Int
        BY <1>3, <1>8, <1>10
      <4> QED BY <4>1, <4>2, <4>3
    <3>2. CASE i = Len(q) + 1
      BY <1>3, <1>6, <1>10, <1>14, <1>15, <3>2
    <3>3. i \in 1 .. Len(q) \/ i = Len(q) + 1
      BY <1>10, <1>15
    <3> QED BY <3>1, <3>2, <3>3
  <2>2. a.records = t
    BY <1>14 DEF t
  <2> QED BY <2>1, <2>2 DEF Contiguous
<1>18. AllFit => a.next - 1 = Len(a.records) + a.evictions
  <2>1. AllFit => room.next - 1 = Len(q) + room.evictions
    BY <1>8 DEF Sound
  <2>2. room.evictions \in Nat /\ a.records = t
    BY <1>3, <1>7, <1>14 DEF t
  <2>3. Len(t) = Len(q) + 1 /\ a.next = room.next + 1 /\ a.evictions = room.evictions
    BY <1>8, <1>14, <1>15
  <2>4. room.next \in Nat /\ Len(q) \in Nat
    BY <1>3, <1>8, <1>10
  <2> QED BY <2>1, <2>2, <2>3, <2>4
<1>19. Sound(a) /\ a.records = t
  BY <1>14, <1>16, <1>17, <1>18 DEF Sound, t
<1>20. a.used = Bytes(a.records) /\ a.used <= capacity
  <2>1. a.used = room.used + bytes
    BY <1>11, <1>14
  <2>2. a.used <= capacity
    BY <1>1, <1>4, <1>7, <1>10, <2>1
  <2> QED BY <1>11, <1>14, <2>2
<1>21. AllFit => Knows'
  <2> SUFFICES ASSUME AllFit, EnvelopeOnDisk PROVE EnvelopesIn(t) # {} \/ a.evictions > 0
    BY <1>1, <1>19 DEF Knows, EnvelopeOnDisk, Envelopes
  <2>1. Envelopes # {} \/ arena.evictions > 0
    BY <1>1 DEF BridgeInv, Knows
  <2>2. CASE arena.evictions > 0
    BY <1>3, <1>7, <1>14, <2>2
  <2>3. CASE d # 0
    BY <1>3, <1>7, <1>14, <2>3
  <2>4. CASE d = 0 /\ Envelopes # {}
    <3>1. PICK i \in DOMAIN s : s[i].previous # Plain
      BY <2>4 DEF Envelopes, EnvelopesIn
    <3>2. i \in 1 .. Len(s) /\ Len(q) = Len(s)
      BY <1>3, <1>9, <2>4, LenProperties
    <3>3. t[i] = s[i] /\ i \in 1 .. Len(t)
      BY <1>3, <1>9, <1>15, <2>4, <3>2
    <3>4. i \in DOMAIN t
      BY <1>15, <3>3, LenProperties
    <3> QED BY <3>1, <3>3, <3>4 DEF EnvelopesIn
  <2> QED BY <2>1, <2>2, <2>3, <2>4
<1>22. BridgeInv'
  <2>1. Sound(arena)' /\ RingFits'
    BY <1>1, <1>19, <1>20 DEF RingFits, Sound, Contiguous, AllFit, Linked, EnvelopesIn
  <2>2. (OnFile => Sound(checkpoint))'
    BY <1>1 DEF BridgeInv, OnFile
  <2>3. (faults = 0 => checkpoint = committed /\ checkpoint # Corrupt)'
    BY <1>1 DEF BridgeInv
  <2>4. capacity' \in Capacities /\ written' \in Nat /\ faults' \in Nat
    BY <1>1, <1>2
  <2> QED BY <1>21, <2>1, <2>2, <2>3, <2>4 DEF BridgeInv
<1>23. ASSUME AllFit, EnvelopeOnDisk PROVE Last(arena'.records).previous # Genesis
  <2>1. Last(arena'.records) = r
    BY <1>14, <1>15 DEF Last, t
  <2>2. previous # Genesis
    <3>1. Envelopes # {} \/ arena.evictions > 0
      BY <1>1, <1>23 DEF BridgeInv, Knows
    <3> QED BY <1>2, <3>1, PredecessorIsInt DEF Plain, Genesis
  <2> QED BY <1>6, <2>1, <2>2
<1> QED BY <1>22, <1>23

(* The checkpoint restored: its envelopes are in the arena, or counted.    *)
LEMMA RestoreKeeps ==
  ASSUME BridgeInv, StartRestored
  PROVE  BridgeInv'
<1>1. /\ OnFile /\ arena' = Restored(checkpoint)
      /\ UNCHANGED <<capacity, checkpoint, committed, written, faults>>
  BY DEF StartRestored, Started, OnFile
<1>2. Sound(checkpoint) /\ capacity \in Capacities /\ capacity \in Nat /\ (AllFit => Fits)
  BY <1>1, CapacityIsNat DEF BridgeInv
<1> DEFINE f == checkpoint
           a == arena'
           n == Len(f.records)
<1>3. f \in Arenas /\ f.evictions \in Nat /\ f.records \in Seq(Records) /\ n \in Nat
  BY <1>2, ArenaFields DEF Sound
<1>4. PICK d : Replays(a, f, d, n)
  BY <1>1, <1>2, <1>3, RestoredReplays
<1> HIDE DEF a
<1>5. /\ a \in Arenas /\ d \in 0 .. n /\ a.records = SubSeq(f.records, d + 1, n)
      /\ a.used = Bytes(a.records) /\ a.next = f.next /\ a.used <= capacity
      /\ f.evictions <= a.evictions /\ (Fits => a.evictions = f.evictions + d)
      /\ Holds(a, f, d, n)
  BY <1>4 DEF Replays, Holds
<1>6. Sound(a)
  <2>1. AllFit => a.evictions = f.evictions + d
    BY <1>2, <1>5
  <2> QED BY <1>2, <1>5, <2>1, HoldsSound
<1>7. AllFit => Knows'
  <2> SUFFICES ASSUME AllFit, EnvelopesIn(f.records) # {}
               PROVE  EnvelopesIn(a.records) # {} \/ a.evictions > 0
    BY <1>1 DEF Knows, EnvelopeOnDisk, Envelopes, a
  <2>1. CASE d = 0
    <3>1. SubSeq(f.records, 1, n) = f.records
      BY <1>3, SubSeqFull
    <3>2. a.records = f.records
      BY <1>5, <2>1, <3>1
    <3> QED BY <3>2
  <2>2. CASE d # 0
    BY <1>2, <1>3, <1>5, <2>2
  <2> QED BY <2>1, <2>2
<1>8. Sound(arena)' /\ RingFits'
  BY <1>1, <1>5, <1>6 DEF RingFits, Sound, Contiguous, AllFit, Linked, EnvelopesIn, a
<1>9. (OnFile => Sound(checkpoint))'
  BY <1>1 DEF BridgeInv, OnFile
<1>10. (faults = 0 => checkpoint = committed /\ checkpoint # Corrupt)'
  BY <1>1 DEF BridgeInv
<1>11. capacity' \in Capacities /\ written' \in Nat /\ faults' \in Nat
  BY <1>1 DEF BridgeInv
<1> QED BY <1>7, <1>8, <1>9, <1>10, <1>11 DEF BridgeInv

(* A fresh arena, after a file that does not validate or with a process.   *)
LEMMA FreshArenaKeeps ==
  ASSUME BridgeInv, arena' = NewArena, capacity' \in Capacities
  PROVE  Sound(arena)' /\ RingFits'
<1>1. Sound(arena')
  BY NewArenaSound
<1>2. arena'.used = Bytes(arena'.records) /\ arena'.used <= capacity'
  <2>1. capacity' \in Nat
    BY HyperMemoryAssumption
  <2> QED BY <2>1, NewArenaSound
<1> QED BY <1>1, <1>2 DEF RingFits, Sound, Contiguous, AllFit, Linked, EnvelopesIn

LEMMA QuarantineKeeps ==
  ASSUME BridgeInv, StartQuarantined
  PROVE  BridgeInv'
<1>1. /\ checkpoint # NoFile /\ arena' = NewArena /\ recoveryState' = "QUARANTINED_CORRUPT"
      /\ UNCHANGED <<capacity, committed, written>>
  BY DEF StartQuarantined, Started
<1>2. PICK readError \in BOOLEAN, renameError \in BOOLEAN :
        /\ readError <=> checkpoint # Corrupt
        /\ faults' = faults + (IF readError THEN 1 ELSE 0) + (IF renameError THEN 1 ELSE 0)
        /\ IF renameError THEN UNCHANGED <<checkpoint, quarantined>> ELSE Quarantine
  BY DEF StartQuarantined
<1>3. faults' \in Nat /\ (faults' = 0 => faults = 0 /\ checkpoint = Corrupt)
  BY <1>2 DEF BridgeInv
<1>4. faults' # 0
  BY <1>3 DEF BridgeInv
<1>5. Sound(arena)' /\ RingFits'
  BY <1>1, FreshArenaKeeps DEF BridgeInv
<1>6. checkpoint' = checkpoint \/ checkpoint' = NoFile
  BY <1>2 DEF Quarantine
<1>7. (OnFile => Sound(checkpoint))'
  BY <1>6 DEF BridgeInv, OnFile, Sound, Contiguous, AllFit, Linked, EnvelopesIn
<1>8. Knows'
  BY <1>1 DEF Knows, EnvelopeOnDisk
<1> QED BY <1>1, <1>3, <1>4, <1>5, <1>7, <1>8 DEF BridgeInv

LEMMA RenameKeeps ==
  ASSUME BridgeInv, RenameCheckpoint
  PROVE  BridgeInv'
<1>1. /\ checkpoint' = arena /\ committed' = arena
      /\ UNCHANGED <<capacity, arena, recoveryState, written, faults>>
  BY DEF RenameCheckpoint, counts
<1>2. Sound(arena)' /\ RingFits'
  BY <1>1 DEF BridgeInv, RingFits, Sound, Contiguous, AllFit, Linked, EnvelopesIn
<1>3. (OnFile => Sound(checkpoint))'
  BY <1>1, <1>2 DEF OnFile, Sound, Contiguous, AllFit, Linked, EnvelopesIn
<1>4. arena \in Arenas
  BY DEF BridgeInv, Sound
<1>5. Knows'
  BY <1>1 DEF Knows, EnvelopeOnDisk, Envelopes
<1>6. capacity' \in Capacities /\ written' \in Nat /\ faults' \in Nat
  BY <1>1 DEF BridgeInv
<1> QED BY <1>1, <1>2, <1>3, <1>4, <1>5, <1>6, HyperMemoryAssumption DEF BridgeInv

(* The steps that leave the arena and the checkpoint as they are, or       *)
(* damage the file, or end the process.                                    *)
LEMMA QuietKeeps ==
  ASSUME BridgeInv,
         \/ UNCHANGED vars \/ StartFresh \/ BeginCheckpoint \/ Stop \/ CheckpointThrows
         \/ NextProcess \/ Damage
  PROVE  BridgeInv'
<1>1. CASE UNCHANGED vars
  <2>1. UNCHANGED <<capacity, arena, running, recoveryState, checkpoint, committed, written, faults>>
    BY <1>1 DEF vars, disk, counts
  <2> QED BY <2>1 DEF BridgeInv, RingFits, Sound, Contiguous, AllFit, Linked, EnvelopesIn,
                      OnFile, Knows, EnvelopeOnDisk, Envelopes
<1>2. CASE StartFresh
  <2>1. checkpoint = NoFile /\ UNCHANGED <<capacity, arena, checkpoint, committed, written, faults>>
    BY <1>2 DEF StartFresh, Started
  <2>2. Sound(arena)' /\ RingFits'
    BY <2>1 DEF BridgeInv, RingFits, Sound, Contiguous, AllFit, Linked, EnvelopesIn
  <2> QED BY <2>1, <2>2 DEF BridgeInv, OnFile, Knows, EnvelopeOnDisk
<1>3. CASE BeginCheckpoint \/ Stop \/ CheckpointThrows
  <2>1. UNCHANGED <<capacity, arena, running, recoveryState, checkpoint, committed, written>>
    BY <1>3 DEF BeginCheckpoint, Stop, CheckpointThrows, WriteTemporary, disk
  <2>2. faults' \in {faults, faults + 1}
    BY <1>3 DEF BeginCheckpoint, Stop, CheckpointThrows
  <2>3. Sound(arena)' /\ RingFits'
    BY <2>1 DEF BridgeInv, RingFits, Sound, Contiguous, AllFit, Linked, EnvelopesIn
  <2>4. (OnFile => Sound(checkpoint))' /\ (AllFit => Knows)'
    BY <2>1 DEF BridgeInv, OnFile, Sound, Contiguous, AllFit, Linked, EnvelopesIn,
                Knows, EnvelopeOnDisk, Envelopes
  <2>5. faults' \in Nat /\ (faults' = 0 => faults = 0)
    BY <2>2 DEF BridgeInv
  <2> QED BY <2>1, <2>3, <2>4, <2>5 DEF BridgeInv
<1>4. CASE NextProcess
  <2>1. /\ arena' = NewArena /\ capacity' \in Capacities /\ ~running'
        /\ UNCHANGED <<checkpoint, committed, written, faults>>
    BY <1>4 DEF NextProcess, disk
  <2>2. Sound(arena)' /\ RingFits'
    BY <2>1, FreshArenaKeeps
  <2>3. (OnFile => Sound(checkpoint))' /\ Knows'
    BY <2>1 DEF BridgeInv, OnFile, Knows, Sound, Contiguous, AllFit, Linked, EnvelopesIn
  <2> QED BY <2>1, <2>2, <2>3 DEF BridgeInv
<1>5. CASE Damage
  <2>1. /\ checkpoint' = Corrupt /\ faults' = faults + 1
        /\ UNCHANGED <<capacity, arena, running, recoveryState, committed, written>>
    BY <1>5 DEF Damage
  <2>2. Sound(arena)' /\ RingFits'
    BY <2>1 DEF BridgeInv, RingFits, Sound, Contiguous, AllFit, Linked, EnvelopesIn
  <2>3. faults' \in Nat /\ faults' # 0
    BY <2>1 DEF BridgeInv
  <2> QED BY <2>1, <2>2, <2>3 DEF BridgeInv, OnFile, Knows, EnvelopeOnDisk
<1> QED BY <1>1, <1>2, <1>3, <1>4, <1>5

LEMMA BridgeStep == BridgeInv /\ [BridgeNext]_vars => BridgeInv'
<1> SUFFICES ASSUME BridgeInv, [BridgeNext]_vars PROVE BridgeInv'
  OBVIOUS
<1>1. CASE \E bytes \in Frames : Remember(bytes, Plain) \/ AppendEnvelope(bytes)
  BY <1>1, RememberKeeps DEF AppendEnvelope
<1>2. CASE StartRestored
  BY <1>2, RestoreKeeps
<1>3. CASE StartQuarantined
  BY <1>3, QuarantineKeeps
<1>4. CASE RenameCheckpoint
  BY <1>4, RenameKeeps
<1>5. CASE \/ UNCHANGED vars \/ StartFresh \/ BeginCheckpoint \/ Stop \/ CheckpointThrows
           \/ NextProcess \/ Damage
  BY <1>5, QuietKeeps
<1> QED BY <1>1, <1>2, <1>3, <1>4, <1>5 DEF BridgeNext, Next, Lifecycle

LEMMA BridgeInductive == BridgeSpec => []BridgeInv
BY BridgeInit, BridgeStep, PTL DEF BridgeSpec

-----------------------------------------------------------------------------
(* The theorems.                                                           *)

(* The arena never exceeds its capacity, its byte count is that of its     *)
(* records, and they are the newest of the history without a gap, even     *)
(* where a process is started with a capacity that stored records exceed.  *)
THEOREM RingIsTheNewest == BridgeSpec => [](RingFits /\ TailIsContiguous)
<1>1. BridgeInv => RingFits /\ TailIsContiguous
  BY DEF BridgeInv, Sound, Contiguous, TailIsContiguous
<1> QED BY <1>1, BridgeInductive, PTL

(* Where every frame fits, every sequence number given out is besides in   *)
(* the arena or on the evictions counter, through every restart.           *)
THEOREM RingEndsTheHistory ==
  ASSUME AllFit
  PROVE  BridgeSpec => []RingIsEndOfHistory
<1>1. BridgeInv => RingIsEndOfHistory
  BY DEF BridgeInv, Sound, Contiguous, RingIsEndOfHistory, TailIsContiguous,
         EvictionsAccountForLoss
<1> QED BY <1>1, BridgeInductive, PTL

(* While the storage has failed in nothing, the file is the last           *)
(* checkpoint that was completed, whenever a process dies.                 *)
THEOREM CheckpointsSurvive == BridgeSpec => []LastCheckpointSurvives
<1>1. BridgeInv => LastCheckpointSurvives
  BY DEF BridgeInv, LastCheckpointSurvives
<1> QED BY <1>1, BridgeInductive, PTL

(* Every envelope in the ring names the one right before it, across        *)
(* evictions, records of other kinds and restarts.                         *)
THEOREM ChainLinksUp == BridgeSpec => []ChainIsLinked
<1>1. BridgeInv => ChainIsLinked
  BY DEF BridgeInv, Sound, ChainIsLinked
<1> QED BY <1>1, BridgeInductive, PTL

(* Where every frame fits, no envelope is marked as the beginning of the   *)
(* chain while the checkpoint holds one of this arena's history.           *)
THEOREM ChainGoesOn ==
  ASSUME AllFit
  PROVE  BridgeSpec => ChainIsNotRestarted
<1> DEFINE A == EnvelopeOnDisk /\ written' > written => Last(arena'.records).previous # Genesis
<1>1. BridgeInv /\ [BridgeNext]_vars => [A]_vars
  <2> SUFFICES ASSUME BridgeInv, BridgeNext, EnvelopeOnDisk, written' > written
               PROVE  Last(arena'.records).previous # Genesis
    OBVIOUS
  <2>1. CASE \E bytes \in Frames : Remember(bytes, Plain) \/ AppendEnvelope(bytes)
    BY <2>1, RememberKeeps DEF AppendEnvelope
  <2>2. CASE Lifecycle
    <3>1. written' = written
      BY <2>2 DEF Lifecycle, StartFresh, StartRestored, StartQuarantined, Started,
                  BeginCheckpoint, Stop, RenameCheckpoint, CheckpointThrows, NextProcess,
                  Damage, counts
    <3> QED BY <3>1 DEF BridgeInv
  <2> QED BY <2>1, <2>2 DEF BridgeNext, Next
<1> QED BY <1>1, BridgeInductive, PTL DEF BridgeSpec, ChainIsNotRestarted
=============================================================================
