---------------------- MODULE StabilityRecorderProofs ----------------------
(***************************************************************************)
(* For every capacity, policy and set of events: the recorder's numbers    *)
(* stay sixteen-bit fractions, the bank is a lossy queue, what it holds    *)
(* was dumped after a sustained disturbance of a learned baseline, and the *)
(* advice made of its state is safe under every risk policy.               *)
(***************************************************************************)
EXTENDS RecorderAdvice, FiniteSetTheorems, TLAPS

(* The bank: what commit and drain do to the queue, without remainders.    *)
(* Below twice the capacity, a remainder is at most one subtraction.       *)
Wraps(x) == x % Capacity = IF x < Capacity THEN x ELSE x - Capacity

LEMMA Wrap ==
  ASSUME NEW x \in 0 .. 2 * Capacity - 1
  PROVE  Wraps(x)
  BY CapacityAssumption, SMTT(30) DEF Wraps

Banks(R) == [records : [Slots -> R \cup {Blank}], write : Slots,
             readable : 0 .. Capacity, chain : Nat]

(* The slot of the i-th readable record, without remainders.               *)
SlotOf(write, readable, i) ==
  LET place == write - readable + i - 1
  IN  IF place >= Capacity THEN place - Capacity
      ELSE IF place < 0 THEN place + Capacity ELSE place

(* The i-th readable record lies where SlotOf says, in a slot of the bank. *)
LEMMA SlotIsPlain ==
  ASSUME NEW R, NEW ring \in Banks(R), NEW i \in 1 .. ring.readable
  PROVE  /\ (Oldest(ring) + i - 1) % Capacity = SlotOf(ring.write, ring.readable, i)
         /\ SlotOf(ring.write, ring.readable, i) \in Slots
<1> DEFINE w == ring.write
           r == ring.readable
           C == Capacity
           o == Oldest(ring)
<1>1. C \in Nat \ {0} /\ w \in 0 .. C - 1 /\ r \in 0 .. C /\ i \in 1 .. r
  BY CapacityAssumption DEF Banks, Slots
<1>2. o = IF w + C - r < C THEN w + C - r ELSE w + C - r - C
  <2> DEFINE x == w + C - r
  <2>1. x \in 0 .. 2 * Capacity - 1
    BY <1>1
  <2> HIDE DEF x
  <2>2. Wraps(x)
    BY <2>1, Wrap
  <2> QED
    BY <1>1, <2>1, <2>2 DEF Wraps, Oldest, x
<1>3. o \in 0 .. C - 1 /\ o + i - 1 \in 0 .. 2 * C - 1
  BY <1>1, <1>2
<1> HIDE DEF o, w, r
<1>4. (o + i - 1) % C = IF o + i - 1 < C THEN o + i - 1 ELSE o + i - 1 - C
  <2> DEFINE x == o + i - 1
  <2>1. x \in 0 .. 2 * Capacity - 1
    BY <1>3
  <2> HIDE DEF x
  <2>2. Wraps(x)
    BY <2>1, Wrap
  <2> QED
    BY <1>1, <1>3, <2>1, <2>2 DEF x, Wraps
<1> HIDE DEF C
<1>5. SlotOf(ring.write, ring.readable, i) = LET place == w - r + i - 1
                                             IN  IF place >= C THEN place - C
                                                 ELSE IF place < 0 THEN place + C
                                                      ELSE place
  BY DEF SlotOf, w, r, C
<1>6. SlotOf(ring.write, ring.readable, i) = (o + i - 1) % C /\ SlotOf(ring.write, ring.readable, i) \in 0 .. C - 1
  BY <1>1, <1>2, <1>3, <1>4, <1>5
<1> QED
  BY <1>6 DEF o, C, Slots

(* What is pending, by slots.                                              *)
LEMMA PendingIs ==
  ASSUME NEW R, NEW ring \in Banks(R)
  PROVE  Pending(ring) =
           [i \in 1 .. ring.readable |-> ring.records[SlotOf(ring.write, ring.readable, i)]]
  BY SlotIsPlain DEF Pending, Copied

(* A drain takes the first records and leaves the others in order.         *)
LEMMA DrainTakesFirst ==
  ASSUME NEW R, NEW ring \in Banks(R), NEW count \in 0 .. ring.readable,
         Pending(ring) \in Seq(R)
  PROVE  /\ Drained(ring, count) \in Banks(R)
         /\ Len(Pending(ring)) = ring.readable
         /\ Copied(ring, count) = SubSeq(Pending(ring), 1, count)
         /\ Pending(Drained(ring, count)) =
              SubSeq(Pending(ring), count + 1, ring.readable)
<1> DEFINE after == Drained(ring, count)
<1>1. /\ after \in Banks(R) /\ after.readable = ring.readable - count
      /\ after.write = ring.write /\ after.records = ring.records
  <2>1. ring.readable \in 0 .. Capacity /\ ring.readable - count \in 0 .. Capacity
    BY CapacityAssumption DEF Banks
  <2> QED
    BY <2>1 DEF Drained, Banks
<1>2. Pending(ring) = [i \in 1 .. ring.readable |-> ring.records[SlotOf(ring.write, ring.readable, i)]]
  BY PendingIs
<1>3. ring.readable \in Nat /\ ring.write \in Int /\ count \in Nat
  BY CapacityAssumption DEF Banks, Slots
<1>4. Len(Pending(ring)) = ring.readable
  BY <1>2, <1>3
<1>5. Copied(ring, count) = SubSeq(Pending(ring), 1, count)
  <2>1. 1 .. count \subseteq 1 .. ring.readable
    BY CapacityAssumption DEF Banks
  <2>2. Copied(ring, count) = [i \in 1 .. count |->
                   ring.records[SlotOf(ring.write, ring.readable, i)]]
    BY <2>1, SlotIsPlain DEF Copied
  <2>3. SubSeq(Pending(ring), 1, count) = [i \in 1 .. count |-> Pending(ring)[i]]
    BY <1>3, <1>4
  <2> QED
    BY <1>2, <2>1, <2>2, <2>3
<1>6. Pending(after) = [i \in 1 .. ring.readable - count |->
                          ring.records[SlotOf(after.write, after.readable, i)]]
  BY <1>1, PendingIs
<1>7. \A i \in 1 .. ring.readable - count :
        SlotOf(after.write, after.readable, i)
          = SlotOf(ring.write, ring.readable, count + i)
  <2> HIDE DEF after
  <2> QED
    BY <1>1, <1>3 DEF SlotOf
<1>8. SubSeq(Pending(ring), count + 1, ring.readable)
        = [i \in 1 .. ring.readable - count |->
             ring.records[SlotOf(ring.write, ring.readable, count + i)]]
  BY <1>2, <1>3, <1>4
<1> QED
  BY <1>1, <1>4, <1>5, <1>6, <1>7, <1>8

Following(slot) == IF slot + 1 < Capacity THEN slot + 1 ELSE 0

(* Where the records are before and after a commit.                        *)
LEMMA CommitSlots ==
  ASSUME NEW w \in 0 .. Capacity - 1, NEW r \in 0 .. Capacity - 1
  PROVE  /\ SlotOf(Following(w), r + 1, r + 1) = w
         /\ \A i \in 1 .. r : /\ SlotOf(Following(w), r + 1, i) = SlotOf(w, r, i)
                              /\ SlotOf(w, r, i) \in (0 .. Capacity - 1) \ {w}
  BY CapacityAssumption DEF SlotOf, Following

(* The same, when every slot is taken.                                     *)
LEMMA CommitSlotsFull ==
  ASSUME NEW w \in 0 .. Capacity - 1
  PROVE  /\ SlotOf(Following(w), Capacity, Capacity) = w
         /\ \A i \in 1 .. Capacity - 1 :
              /\ SlotOf(Following(w), Capacity, i) = SlotOf(w, Capacity, i + 1)
              /\ SlotOf(w, Capacity, i + 1) \in (0 .. Capacity - 1) \ {w}
  BY CapacityAssumption DEF SlotOf, Following

(* A commit appends, and gives up the first record when all slots are taken*)
LEMMA CommitAppends ==
  ASSUME NEW R, NEW ring \in Banks(R), NEW body,
         [body |-> body, chain |-> ring.chain + 1] \in R,
         Pending(ring) \in Seq(R)
  PROVE  LET next == Append(Pending(ring), [body |-> body, chain |-> ring.chain + 1])
         IN  /\ Commit(ring, body) \in Banks(R)
             /\ Pending(Commit(ring, body)) =
                  IF Len(next) <= Capacity THEN next ELSE Tail(next)
<1> DEFINE after == Commit(ring, body)
           e == [body |-> body, chain |-> ring.chain + 1]
           w == ring.write
           r == ring.readable
           C == Capacity
           n == after.readable
           v == after.write
<1>1. C \in Nat \ {0} /\ w \in 0 .. C - 1 /\ r \in 0 .. C /\ ring.chain \in Nat
      /\ ring.records \in [Slots -> R \cup {Blank}]
  BY CapacityAssumption DEF Banks, Slots
<1>2. /\ after.write = IF w + 1 < C THEN w + 1 ELSE 0
      /\ after.readable = IF r < C THEN r + 1 ELSE r
      /\ after.chain = ring.chain + 1
      /\ after.records = [ring.records EXCEPT ![w] = e]
  <2>1. (w + 1) % C = IF w + 1 < C THEN w + 1 ELSE w + 1 - C
    <3> DEFINE x == w + 1
    <3>1. x \in 0 .. 2 * Capacity - 1
      BY <1>1
    <3> HIDE DEF x
    <3>2. Wraps(x)
      BY <3>1, Wrap
    <3> QED BY <1>1, <3>1, <3>2 DEF x, Wraps
  <2> QED
    BY <1>1, <2>1 DEF Commit, ReadableAfterCommit
<1>3. after \in Banks(R)
  <2>1. after.records \in [Slots -> R \cup {Blank}]
    BY <1>1, <1>2
  <2>2. after.write \in Slots /\ after.readable \in 0 .. C /\ after.chain \in Nat
    BY <1>1, <1>2 DEF Slots
  <2> QED
    BY <2>1, <2>2 DEF Commit, Banks
<1>10. n = after.readable /\ v = after.write /\ w = ring.write /\ r = ring.readable /\ C = Capacity
  OBVIOUS
<1>4. Pending(ring) = [i \in 1 .. r |-> ring.records[SlotOf(w, r, i)]]
  BY PendingIs
<1>5. Len(Pending(ring)) = r
  BY <1>1, <1>4
<1>6. Pending(after) = [i \in 1 .. n |-> after.records[SlotOf(v, n, i)]]
  BY <1>3, PendingIs
<1> DEFINE next == Append(Pending(ring), e)
<1>7. /\ Len(next) = r + 1 /\ next[r + 1] = e /\ next \in Seq(R)
      /\ \A i \in 1 .. r : next[i] = ring.records[SlotOf(w, r, i)]
  BY <1>1, <1>4, <1>5
<1>11. v = IF w + 1 < C THEN w + 1 ELSE 0
  BY <1>2, <1>10
<1> HIDE DEF after, n, v, w, r
<1>12. CASE r < C
  <2>1. n = r + 1
    BY <1>2, <1>12, <1>10
  <2>2. /\ SlotOf(v, n, r + 1) = w
        /\ \A i \in 1 .. r : /\ SlotOf(v, n, i) = SlotOf(w, r, i)
                             /\ SlotOf(w, r, i) \in (0 .. C - 1) \ {w}
    <3>1. w \in 0 .. Capacity - 1 /\ r \in 0 .. Capacity - 1
      BY <1>1, <1>12
    <3>2. v = Following(w)
      BY <1>11 DEF Following
    <3>3. /\ SlotOf(Following(w), r + 1, r + 1) = w
          /\ \A i \in 1 .. r :
               /\ SlotOf(Following(w), r + 1, i) = SlotOf(w, r, i)
               /\ SlotOf(w, r, i) \in (0 .. Capacity - 1) \ {w}
      BY <3>1, CommitSlots
    <3> QED
      BY <2>1, <3>2, <3>3
  <2>3. ASSUME NEW i \in 1 .. r + 1
        PROVE  after.records[SlotOf(v, n, i)] = next[i]
    <3>1. CASE i = r + 1
      BY <1>1, <1>2, <1>7, <2>2, <3>1 DEF Slots
    <3>2. CASE i \in 1 .. r
      <4>1. after.records[SlotOf(w, r, i)] = ring.records[SlotOf(w, r, i)]
        BY <1>1, <1>2, <2>2, <3>2 DEF Slots
      <4> QED
        BY <1>7, <2>2, <3>2, <4>1
    <3>3. i = r + 1 \/ i \in 1 .. r
      BY <1>1
    <3> QED
      BY <3>1, <3>2, <3>3
  <2>4. next = [i \in 1 .. r + 1 |-> next[i]]
    BY <1>1, <1>7
  <2>5. Pending(after) = next
    BY <1>6, <2>1, <2>3, <2>4
  <2> QED
    BY <1>1, <1>3, <1>7, <1>12, <2>5 DEF after
<1>13. CASE r = C
  <2>1. n = r
    BY <1>1, <1>2, <1>13, <1>10
  <2>2. /\ SlotOf(v, n, r) = w
        /\ \A i \in 1 .. r - 1 : /\ SlotOf(v, n, i) = SlotOf(w, r, i + 1)
                                 /\ SlotOf(w, r, i + 1) \in (0 .. C - 1) \ {w}
    <3>1. w \in 0 .. Capacity - 1 /\ r \in 0 .. Capacity /\ r = Capacity
      BY <1>1, <1>13
    <3>2. v = Following(w)
      BY <1>11 DEF Following
    <3>3. /\ SlotOf(v, Capacity, Capacity) = w
          /\ \A i \in 1 .. Capacity - 1 :
               /\ SlotOf(v, Capacity, i) = SlotOf(w, Capacity, i + 1)
               /\ SlotOf(w, Capacity, i + 1) \in (0 .. Capacity - 1) \ {w}
      BY <3>1, <3>2, CommitSlotsFull
    <3> QED
      BY <2>1, <3>1, <3>3
  <2>3. ASSUME NEW i \in 1 .. r
        PROVE  after.records[SlotOf(v, n, i)] = next[i + 1]
    <3>1. CASE i = r
      BY <1>1, <1>2, <1>7, <2>2, <3>1 DEF Slots
    <3>2. CASE i \in 1 .. r - 1
      <4>1. after.records[SlotOf(w, r, i + 1)] = ring.records[SlotOf(w, r, i + 1)]
        BY <1>1, <1>2, <2>2, <3>2 DEF Slots
      <4>2. i + 1 \in 1 .. r
        BY <1>1, <3>2
      <4> QED
        BY <1>7, <2>2, <3>2, <4>1, <4>2
    <3>3. i = r \/ i \in 1 .. r - 1
      BY <1>1
    <3> QED
      BY <3>1, <3>2, <3>3
  <2>4. Tail(next) = [i \in 1 .. r |-> next[i + 1]]
    BY <1>1, <1>7
  <2>5. Pending(after) = Tail(next)
    BY <1>6, <2>1, <2>3, <2>4
  <2> QED
    BY <1>1, <1>3, <1>7, <1>13, <2>5 DEF after
<1> QED
  BY <1>1, <1>12, <1>13

-----------------------------------------------------------------------------
(* The recorder.                                                           *)
(***************************************************************************)
(* Fractions.                                                              *)
(***************************************************************************)
(* All that the proofs need to know of the scale.                          *)
LEMMA OneIs == One \in Nat /\ One >= 49152
  BY SMT DEF One

(* Both smoothers of the recorder keep fractions fractions.                *)
LEMMA SmoothIsFraction ==
  ASSUME NEW c \in Fraction, NEW i \in Fraction
  PROVE  Smooth(c, i, 4) \in Fraction /\ Smooth(c, i, 16) \in Fraction
  BY OneIs, SMT DEF Smooth, Fraction

(* A sixteenth of the scale, rounded up, is as far as the baseline goes.   *)
LEMMA SmoothIsInert ==
  ASSUME NEW c \in Fraction, NEW i \in Fraction
  PROVE  Distance(c, Smooth(c, i, 16)) <= One \div 16 + 1
  BY OneIs, SMT DEF Smooth, Distance, Fraction

(* A distance of fractions is one, and nothing is far from itself.         *)
LEMMA DistanceIsFraction ==
  ASSUME NEW l \in Fraction, NEW r \in Fraction
  PROVE  Distance(l, r) \in Fraction /\ Distance(l, l) = 0
  BY OneIs, SMT DEF Distance, Fraction

(* Means and complements of fractions are fractions.                       *)
LEMMA MeanIsFraction ==
  ASSUME NEW l \in Fraction, NEW r \in Fraction
  PROVE  Mean(l, r) \in Fraction /\ Complement(l) \in Fraction
  BY OneIs, SMT DEF Mean, Complement, Fraction

(* The weights of the instability add up to one.                           *)
LEMMA InstabilityIsFraction ==
  ASSUME NEW a \in Fraction, NEW b \in Fraction, NEW g \in Fraction,
         NEW l \in Fraction, NEW f \in Fraction
  PROVE  /\ Instability(a, b, g, l, f) \in Fraction
         /\ One - Instability(a, b, g, l, f) \in Fraction
<1>1. Mean(a, b) \in Fraction
  BY MeanIsFraction
<1> QED
  BY <1>1, OneIs, SMT DEF Instability, Fraction

(* Any number of boundary flags presses by at most one.                    *)
LEMMA FlagPressureIsFraction ==
  ASSUME NEW flags
  PROVE  FlagPressure(flags) \in Fraction
<1> DEFINE B == {"IO_ERROR", "WEB_BOUNDARY", "IPC_BOUNDARY", "DYNAMIC_LOAD"}
           S == flags \cap B
<1>1. IsFiniteSet(B)
  <2>1. /\ IsFiniteSet({"IO_ERROR"}) /\ IsFiniteSet({"WEB_BOUNDARY"})
        /\ IsFiniteSet({"IPC_BOUNDARY"}) /\ IsFiniteSet({"DYNAMIC_LOAD"})
    BY FS_Singleton
  <2>2. B = ({"IO_ERROR"} \cup {"WEB_BOUNDARY"})
              \cup ({"IPC_BOUNDARY"} \cup {"DYNAMIC_LOAD"})
    OBVIOUS
  <2>3. /\ IsFiniteSet({"IO_ERROR"} \cup {"WEB_BOUNDARY"})
        /\ IsFiniteSet({"IPC_BOUNDARY"} \cup {"DYNAMIC_LOAD"})
    BY <2>1, FS_Union
  <2> HIDE DEF B
  <2> QED
    BY <2>2, <2>3, FS_Union
<1>2. IsFiniteSet(S)
  BY <1>1, FS_Subset
<1>3. Cardinality(S) \in Nat
  BY <1>2, FS_CardinalityType
<1> HIDE DEF S, B
<1>4. (IF Cardinality(S) >= 4 THEN One ELSE Cardinality(S) * 16384) \in Fraction
  BY <1>3, OneIs, SMT DEF Fraction
<1> QED
  BY <1>4 DEF FlagPressure, S, B

(* Below the limit, a latency presses by less than one.                    *)
LEMMA LatencyPressureIsFraction ==
  ASSUME NEW latency \in Nat
  PROVE  LatencyPressure(latency) \in Fraction
<1>1. latency < LatencyLimit =>
        /\ (latency * One) \div LatencyLimit \in Nat
        /\ (latency * One) \div LatencyLimit <= One
  BY SMT DEF LatencyLimit, One
<1> QED
  BY <1>1, OneIs, SMT DEF LatencyPressure, LatencyLimit, Fraction

(* The inputs of the recorder.                                             *)
Inputs == [time : Nat \ {0}, kind : Kinds, latency : Nat,
           flags : SUBSET Flags, pressure : Fraction]

(* What the adapter lets through is an input of the recorder.              *)
LEMMA TranslatedIsInput ==
  ASSUME NEW e \in Events, Translatable(e)
  PROVE  Translated(e) \in Inputs
<1>1. e.time \in Nat \ {0} /\ e.latency \in Nat /\ e.pressure \in Nat
      /\ e.flags \subseteq Flags /\ e.operation \in DOMAIN KindOf
  BY EventsAssumption DEF Translatable
<1>2. KindOf[e.operation] \in Kinds
  <2>1. \A op \in DOMAIN KindOf : KindOf[op] \in Kinds
    BY DEF KindOf, Kinds
  <2> QED
    BY <1>1, <2>1
<1>3. DOMAIN MarkedBy \subseteq Flags
  BY DEF MarkedBy, Flags
<1>4. Capped(e.latency, LatencyMax) \in Nat /\ Capped(e.pressure, One) \in Fraction
  BY <1>1, OneIs, SMT DEF Capped, LatencyMax, Fraction
<1> QED
  BY <1>1, <1>2, <1>3, <1>4 DEF Translated, Inputs

(***************************************************************************)
(* The invariant.                                                          *)
(***************************************************************************)

(* Time zero marks an epoch that has observed nothing.                     *)
EpochIsMarked == lastTime = 0 <=> trail = << >>

(* The run counts the newest crossings, all of them, and never the first   *)
(* observation.                                                            *)
RunIsNewest ==
  /\ unstableRun \in 0 .. Len(trail)
  /\ trail # << >> => /\ unstableRun < Len(trail)
                      /\ ~Crossed(Len(trail) - unstableRun)
  /\ \A j \in DOMAIN trail : j > Len(trail) - unstableRun => Crossed(j)

(* The quota counts the dumps after the last release.                      *)
Counted(n) == {j \in 1 .. n : /\ trail[j].dumped
                              /\ \A k \in j + 1 .. n : ~Released(k)}
QuotaIsCounted == /\ IsFiniteSet(Counted(Len(trail)))
                  /\ dumpRun = Cardinality(Counted(Len(trail)))

BankIsFilled == Pending(bank) \in Seq(Records)

IInv == /\ TypeOK /\ BankIsFilled
        /\ EpochIsMarked /\ RunIsNewest /\ QuotaIsCounted
        /\ DumpsFollowPolicy /\ NothingDumpedUnlearned

(* The thresholds in force, after the defaults, are usable.                *)
LEMMA Thresholds ==
  /\ Trigger \in Fraction \ {0} /\ Release \in Fraction
  /\ MinEvents \in Nat \ {0} /\ MaxDumps \in Nat \ {0}
<1>1. DefaultTrigger \in Fraction \ {0}
  BY OneIs, SMT DEF DefaultTrigger, Fraction
<1>2. Trigger \in Fraction \ {0}
  BY <1>1, PolicyAssumption DEF Trigger, Default
<1>3. Trigger \div 2 \in Fraction
  BY <1>2, OneIs, SMT DEF Fraction
<1>4. Release \in Fraction
  BY <1>3, PolicyAssumption DEF Release, Default
<1> QED
  BY <1>2, <1>4, PolicyAssumption, CapacityAssumption
  DEF MinEvents, MaxDumps, Default

(* A zeroed bank is well formed and has nothing pending.                   *)
LEMMA BlankBankIsEmpty ==
  /\ BlankBank(0) \in Banks(Records)
  /\ Pending(BlankBank(0)) = << >>
  /\ Pending(BlankBank(0)) \in Seq(Records)
<1>1. BlankBank(0) \in Banks(Records)
  BY CapacityAssumption DEF BlankBank, Banks, Slots
<1>2. Pending(BlankBank(0)) = [i \in 1 .. 0 |->
         BlankBank(0).records[SlotOf(BlankBank(0).write, BlankBank(0).readable, i)]]
  BY <1>1, PendingIs DEF BlankBank
<1>3. Pending(BlankBank(0)) = << >>
  BY <1>2
<1>4. << >> \in Seq(Records)
  OBVIOUS
<1> QED
  BY <1>1, <1>3, <1>4

(* Zeroed storage satisfies the invariant.                                 *)
LEMMA InitIInv == Init => IInv
<1> SUFFICES ASSUME Init PROVE IInv
  OBVIOUS
<1>1. TypeOK
  <2>1. bank \in Banks(Records)
    BY BlankBankIsEmpty DEF Init
  <2>2. 0 \in Fraction /\ 0 \in 0 .. MaxDumps
    BY OneIs, Thresholds DEF Fraction
  <2>3. << >> \in Seq(Records) /\ << >> \in Seq([delta : Fraction, dumped : BOOLEAN])
    OBVIOUS
  <2> QED
    BY <2>1, <2>2, <2>3 DEF Init, TypeOK, Banks
<1>2. BankIsFilled
  <2>1. bank = BlankBank(0)
    BY DEF Init
  <2> QED
    BY <2>1, BlankBankIsEmpty DEF BankIsFilled
<1>3. EpochIsMarked /\ RunIsNewest /\ DumpsFollowPolicy /\ NothingDumpedUnlearned
  BY DEF Init, EpochIsMarked, RunIsNewest, DumpsFollowPolicy, NothingDumpedUnlearned
<1>4. QuotaIsCounted
  <2>1. Counted(Len(trail)) = {}
    BY DEF Init, Counted
  <2> QED
    BY <2>1, FS_EmptySet DEF Init, QuotaIsCounted
<1> QED
  BY <1>1, <1>2, <1>3, <1>4 DEF IInv

(* A new epoch, by frida_rs_init or by frida_rs_reset_epoch.               *)
LEMMA NewEpoch ==
  ASSUME TypeOK, ClearSensor, initialized' = TRUE,
         siliconTag' \in Tags \cup {AnyTag}, initResult' \in {"none", "ok", "refused"},
         bank' = BlankBank(0), output' = << >>, trail' = << >>,
         decision' = decision
  PROVE  IInv'
<1>1. TypeOK'
  BY BlankBankIsEmpty, OneIs, Thresholds DEF ClearSensor, TypeOK, Banks, Fraction
<1>2. BankIsFilled'
  <2>1. Pending(bank)' = Pending(BlankBank(0))
    OBVIOUS
  <2> QED
    BY <2>1, BlankBankIsEmpty DEF BankIsFilled
<1>3. EpochIsMarked' /\ RunIsNewest' /\ DumpsFollowPolicy' /\ NothingDumpedUnlearned'
  BY DEF ClearSensor, EpochIsMarked, RunIsNewest, DumpsFollowPolicy,
         NothingDumpedUnlearned
<1>4. QuotaIsCounted'
  <2>1. Counted(Len(trail))' = {}
    BY DEF Counted
  <2> QED
    BY <2>1, FS_EmptySet DEF ClearSensor, QuotaIsCounted
<1> QED
  BY <1>1, <1>2, <1>3, <1>4 DEF IInv

(* Calls that touch neither the sensor nor the history.                    *)
LEMMA HistoryKeeps ==
  ASSUME IInv, UNCHANGED <<sensorVars, unstableRun, dumpRun, trail>>
  PROVE  /\ EpochIsMarked' /\ RunIsNewest' /\ QuotaIsCounted'
         /\ DumpsFollowPolicy' /\ NothingDumpedUnlearned'
  BY DEF IInv, EpochIsMarked, RunIsNewest, QuotaIsCounted, Counted,
         DumpsFollowPolicy, DumpsSinceRelease, NothingDumpedUnlearned, Sustained,
         Crossed, Released, sensorVars

(* A drain.                                                                *)
LEMMA DrainKeeps ==
  ASSUME IInv, Drain
  PROVE  IInv'
<1>1. PICK size \in DrainSizes :
         LET count == IF bank.readable > size THEN size ELSE bank.readable
         IN  output' = Copied(bank, count) /\ bank' = Drained(bank, count)
  BY DEF Drain
<1> DEFINE count == IF bank.readable > size THEN size ELSE bank.readable
<1>2. bank \in Banks(Records) /\ Pending(bank) \in Seq(Records)
  BY DEF IInv, TypeOK, BankIsFilled, Banks
<1>3. bank.readable \in Nat /\ count \in 0 .. bank.readable
  BY <1>2, PolicyAssumption, CapacityAssumption DEF Banks
<1>4. /\ output' = SubSeq(Pending(bank), 1, count) /\ bank' \in Banks(Records)
      /\ Pending(bank') = SubSeq(Pending(bank), count + 1, bank.readable)
      /\ Len(Pending(bank)) = bank.readable
  <2> HIDE DEF count
  <2> QED
    BY <1>1, <1>2, <1>3, DrainTakesFirst DEF count
<1>5. output' \in Seq(Records) /\ Pending(bank') \in Seq(Records)
  <2> HIDE DEF count
  <2> QED
    BY <1>2, <1>3, <1>4
<1> QED
  <2>1. UNCHANGED <<initialized, siliconTag, initResult, sensorVars, runVars, trail>>
    BY DEF Drain
  <2>2. /\ EpochIsMarked' /\ RunIsNewest' /\ QuotaIsCounted'
        /\ DumpsFollowPolicy' /\ NothingDumpedUnlearned'
    <3>1. UNCHANGED <<sensorVars, unstableRun, dumpRun, trail>>
      BY <2>1 DEF runVars
    <3> QED
      BY <3>1, HistoryKeeps
  <2>3. TypeOK' /\ BankIsFilled'
    BY <1>4, <1>5, <2>1 DEF IInv, TypeOK, BankIsFilled, Banks, sensorVars, runVars
  <2> QED
    BY <2>2, <2>3 DEF IInv

(* What an observation computes.                                           *)
LEMMA ObservedFractions ==
  ASSUME IInv, NEW in \in Inputs, Observe(in)
  PROVE  /\ alternation' \in Fraction /\ burst' \in Fraction
         /\ gcPressure' \in Fraction /\ stability' \in Fraction
         /\ baseline' \in Fraction /\ delta' \in Fraction
         /\ trail = << >> => delta' = 0
         /\ trail # << >> => Distance(baseline, baseline') <= One \div 16 + 1
<1>1. /\ alternation \in Fraction /\ burst \in Fraction
      /\ gcPressure \in Fraction /\ baseline \in Fraction
  BY DEF IInv, TypeOK
<1>2. /\ AlternationSample(in.kind) \in Fraction /\ BurstSample(in.time) \in Fraction
      /\ GCSample(in) \in Fraction
  <2>1. 0 \in Fraction /\ One \in Fraction /\ 32768 \in Fraction /\ GCFloor \in Fraction
    BY OneIs, SMT DEF Fraction, GCFloor
  <2>2. in.pressure \in Fraction
    BY DEF Inputs
  <2>3. BurstSample(in.time) \in {0, One, 32768}
    <3>1. in.time \in Nat /\ lastTime \in Nat
      BY DEF Inputs, IInv, TypeOK
    <3> QED
      BY <3>1, SMT DEF BurstSample, FastBurst, MediumBurst
  <2>4. AlternationSample(in.kind) \in {0, One}
    BY DEF AlternationSample
  <2>5. GCSample(in) \in {GCFloor, in.pressure}
    BY DEF GCSample
  <2> QED
    BY <2>1, <2>2, <2>3, <2>4, <2>5
<1>3. alternation' \in Fraction /\ burst' \in Fraction /\ gcPressure' \in Fraction
  BY <1>1, <1>2, SmoothIsFraction DEF Observe
<1>4. stability' \in Fraction
  <2>1. LatencyPressure(in.latency) \in Fraction /\ FlagPressure(in.flags) \in Fraction
    BY LatencyPressureIsFraction, FlagPressureIsFraction DEF Inputs
  <2> QED
    BY <1>3, <2>1, InstabilityIsFraction DEF Observe
<1>5. /\ baseline' = IF trail = << >> THEN stability'
                                      ELSE Smooth(baseline, stability', 16)
      /\ delta' = Distance(stability', baseline')
  BY DEF Observe, BaselineAfter, IInv, EpochIsMarked
<1>6. baseline' \in Fraction
  BY <1>1, <1>4, <1>5, SmoothIsFraction
<1>7. delta' \in Fraction /\ (trail = << >> => delta' = 0)
  BY <1>4, <1>5, <1>6, DistanceIsFraction
<1>8. trail # << >> => Distance(baseline, baseline') <= One \div 16 + 1
  BY <1>1, <1>4, <1>5, SmoothIsInert
<1> QED
  BY <1>3, <1>4, <1>6, <1>7, <1>8

(* What an observation does to the bank: nothing, or a commit.             *)
LEMMA ObservedBank ==
  ASSUME IInv, NEW in \in Inputs, Observe(in)
  PROVE  /\ bank' \in Banks(Records) /\ Pending(bank') \in Seq(Records)
         /\ \/ bank' = bank
            \/ \E e \in Records :
                 LET next == Append(Pending(bank), e)
                 IN  Pending(bank') = IF Len(next) <= Capacity THEN next
                                                              ELSE Tail(next)
<1>1. bank \in Banks(Records) /\ Pending(bank) \in Seq(Records)
  BY DEF IInv, TypeOK, BankIsFilled, Banks
<1>2. CASE bank' = bank
  BY <1>1, <1>2
<1>3. CASE bank' = Commit(bank, Body(in))
  <2> DEFINE e == [body |-> Body(in), chain |-> bank.chain + 1]
             next == Append(Pending(bank), e)
  <2>1. Body(in) \in Bodies
    BY ObservedFractions DEF Body, Bodies, Inputs
  <2>2. bank.chain + 1 \in Nat \ {0}
    BY <1>1 DEF Banks
  <2>3. e \in Records
    BY <2>1, <2>2 DEF Records
  <2>4. /\ Commit(bank, Body(in)) \in Banks(Records)
        /\ Pending(Commit(bank, Body(in))) =
             IF Len(next) <= Capacity THEN next ELSE Tail(next)
    BY <1>1, <2>3, CommitAppends
  <2> HIDE DEF e
  <2>5. next \in Seq(Records) /\ Len(next) \in Nat \ {0}
    BY <1>1, <2>3
  <2>6. Tail(next) \in Seq(Records)
    BY <2>5
  <2> QED
    BY <1>3, <2>3, <2>4, <2>5, <2>6
<1>4. bank' \in {bank, Commit(bank, Body(in))}
  BY DEF Observe
<1> QED
  BY <1>2, <1>3, <1>4

(* A run of u, which the crossing at d precedes, and a window of m.        *)
LEMMA RunOrWindow ==
  ASSUME NEW n \in Nat, NEW u \in 0 .. n + 1, NEW m \in Nat \ {0}
  PROVE  /\ n + 1 - u \in Nat
         /\ u >= m => /\ n + 1 >= m
                      /\ \A j \in n + 1 - m + 1 .. n + 1 :
                           j \in 1 .. n + 1 /\ j > n + 1 - u
         /\ u < m /\ n + 1 >= m => n + 1 - u \in n + 1 - m + 1 .. n + 1
  OBVIOUS

(* An observation.                                                         *)
LEMMA ObserveKeeps ==
  ASSUME IInv, NEW in \in Inputs, Observe(in)
  PROVE  IInv'
<1>0. PICK n \in Nat : n = Len(trail)
  BY DEF IInv, TypeOK
<1> DEFINE dump == unstableRun' >= MinEvents /\ DumpsAfter(delta') < MaxDumps
           Last == {j \in 1 .. n : /\ trail'[j].dumped
                                   /\ \A k \in j + 1 .. n + 1 : ~Released(k)'}
<1>1. /\ n \in Nat /\ trail \in Seq([delta : Fraction, dumped : BOOLEAN])
      /\ unstableRun \in Nat /\ dumpRun \in 0 .. MaxDumps
  BY DEF IInv, TypeOK
<1>2. /\ delta' \in Fraction /\ (trail = << >> => delta' = 0)
  BY ObservedFractions
<1>3. /\ trail' = Append(trail, [delta |-> delta', dumped |-> dump])
      /\ unstableRun' = RunAfter(delta')
      /\ dumpRun' = DumpsAfter(delta') + (IF dump THEN 1 ELSE 0)
  BY DEF Observe
<1>4. /\ trail' \in Seq([delta : Fraction, dumped : BOOLEAN])
      /\ Len(trail') = n + 1 /\ trail' # << >> /\ DOMAIN trail' = 1 .. n + 1
      /\ trail'[n + 1].delta = delta' /\ trail'[n + 1].dumped = dump
      /\ \A j \in 1 .. n : trail'[j] = trail[j]
  <2> HIDE DEF dump
  <2>1. [delta |-> delta', dumped |-> dump] \in [delta : Fraction, dumped : BOOLEAN]
    <3>1. dump \in BOOLEAN
      BY DEF dump
    <3> QED
      BY <1>2, <3>1
  <2> QED
    BY <1>0, <1>1, <1>3, <2>1
<1> HIDE DEF dump, Last
<1>5. /\ Crossed(n + 1)' <=> delta' >= Trigger
      /\ Released(n + 1)' <=> delta' < Trigger /\ delta' <= Release
      /\ \A j \in 1 .. n : /\ Crossed(j)' <=> Crossed(j)
                           /\ Released(j)' <=> Released(j)
  <2>1. delta' \in Int /\ Trigger \in Int
    BY <1>2, Thresholds, OneIs DEF Fraction
  <2> QED
    BY <1>4, <2>1 DEF Crossed, Released
<1>6. RunIsNewest'
  <2>1. /\ unstableRun \in 0 .. n
        /\ trail # << >> => unstableRun < n /\ ~Crossed(n - unstableRun)
        /\ \A j \in 1 .. n : j > n - unstableRun => Crossed(j)
    BY <1>0, <1>1 DEF IInv, RunIsNewest
  <2>2. n = 0 <=> trail = << >>
    BY <1>0, <1>1
  <2>3. CASE ~Crossed(n + 1)'
    <3>1. unstableRun' = 0
      BY <1>3, <1>5, <2>3 DEF RunAfter
    <3> QED
      BY <1>1, <1>4, <2>3, <3>1 DEF RunIsNewest
  <2>4. CASE Crossed(n + 1)'
    <3>1. unstableRun' = unstableRun + 1
      BY <1>3, <1>5, <2>4 DEF RunAfter
    <3>6. PICK d \in Nat : d = n - unstableRun
      BY <1>1, <2>1
    <3>2. trail # << >>
      BY <1>2, <1>5, <2>4, Thresholds, OneIs DEF Fraction
    <3>3. unstableRun < n /\ d \in 1 .. n /\ ~Crossed(d)'
      BY <1>1, <1>5, <2>1, <3>2, <3>6
    <3>4. \A j \in 1 .. n + 1 : j > d => Crossed(j)'
      BY <1>1, <1>5, <2>1, <2>4, <3>6
    <3>5. n + 1 - unstableRun' = d
      BY <1>1, <3>1, <3>6
    <3> QED
      BY <1>1, <1>4, <3>1, <3>3, <3>4, <3>5 DEF RunIsNewest
  <2> QED
    BY <2>3, <2>4
<1>7. Sustained(n + 1)' <=> unstableRun' >= MinEvents
  <2>1. MinEvents \in Nat \ {0} /\ unstableRun' \in 0 .. n + 1
    BY <1>4, <1>6, Thresholds DEF RunIsNewest
  <2>2. PICK u \in 0 .. n + 1 : u = unstableRun'
    BY <2>1
  <2>3. PICK d \in Nat : d = n + 1 - u
    <3>1. n + 1 - u \in Nat
      BY <1>0, <2>2, RunOrWindow
    <3> QED
      BY <3>1
  <2>4. d = Len(trail') - unstableRun'
    BY <1>4, <2>2, <2>3
  <2>5. /\ ~Crossed(d)' /\ u < n + 1
        /\ \A j \in 1 .. n + 1 : j > d => Crossed(j)'
    BY <1>4, <1>6, <2>2, <2>4 DEF RunIsNewest
  <2>6. PICK m \in Nat \ {0} : m = MinEvents
    BY <2>1
  <2>7. ASSUME u >= m
        PROVE  n + 1 >= m /\ \A j \in n + 1 - m + 1 .. n + 1 : Crossed(j)'
    <3>1. n + 1 >= m
      BY <1>1, <2>2, <2>6, <2>7
    <3>2. \A j \in n + 1 - m + 1 .. n + 1 : j \in 1 .. n + 1 /\ j > d
      BY <2>2, <2>3, <2>6, <2>7, RunOrWindow
    <3> QED
      BY <2>5, <3>1, <3>2
  <2>8. ASSUME u < m, n + 1 >= m
        PROVE  d \in n + 1 - m + 1 .. n + 1
    BY <2>2, <2>3, <2>6, <2>8, RunOrWindow
  <2>9. Sustained(n + 1)' <=>
          n + 1 >= m /\ \A j \in n + 1 - m + 1 .. n + 1 : Crossed(j)'
    BY <2>6 DEF Sustained
  <2>10. u >= m <=> n + 1 >= m /\ \A j \in n + 1 - m + 1 .. n + 1 : Crossed(j)'
    BY <1>1, <2>2, <2>5, <2>6, <2>7, <2>8
  <2> QED
    BY <2>2, <2>6, <2>9, <2>10
<1>8. IsFiniteSet(Last) /\ DumpsAfter(delta') = Cardinality(Last)
  <2>1. CASE Released(n + 1)'
    <3>1. Last = {}
      BY <1>1, <2>1 DEF Last
    <3>2. DumpsAfter(delta') = 0
      BY <1>5, <2>1 DEF DumpsAfter
    <3> QED
      BY <3>1, <3>2, FS_EmptySet
  <2>2. CASE ~Released(n + 1)'
    <3>1. Last = Counted(n)
      BY <1>1, <1>4, <1>5, <2>2 DEF Last, Counted
    <3>2. DumpsAfter(delta') = dumpRun
      BY <1>5, <2>2 DEF DumpsAfter
    <3> QED
      BY <1>0, <3>1, <3>2 DEF IInv, QuotaIsCounted
  <2> QED
    BY <2>1, <2>2
<1>9. DumpsSinceRelease(n + 1)' = DumpsAfter(delta')
  <2>1. n + 1 - 1 = n
    BY <1>1
  <2> QED
    BY <1>8, <2>1 DEF DumpsSinceRelease, Last
<1>10. dumpRun' \in 0 .. MaxDumps
  <2>1. DumpsAfter(delta') \in 0 .. MaxDumps
    BY <1>1, Thresholds DEF DumpsAfter
  <2> QED
    BY <1>3, <2>1, Thresholds DEF dump
<1>11. QuotaIsCounted'
  <2>1. Counted(n + 1)' = IF dump THEN Last \cup {n + 1} ELSE Last
    BY <1>1, <1>4 DEF Counted, Last
  <2>2. n + 1 \notin Last
    BY <1>1 DEF Last
  <2>3. IsFiniteSet(Last \cup {n + 1}) /\ Cardinality(Last \cup {n + 1})
          = Cardinality(Last) + 1
    BY <1>8, <2>2, FS_AddElement
  <2>4. DumpsAfter(delta') \in Nat
    BY <1>8, FS_CardinalityType
  <2>5. dumpRun' = Cardinality(Counted(n + 1)') /\ IsFiniteSet(Counted(n + 1)')
    BY <1>3, <1>8, <2>1, <2>3, <2>4
  <2> QED
    BY <1>4, <2>5 DEF QuotaIsCounted
<1>12. DumpsFollowPolicy'
  <2>1. trail'[n + 1].dumped <=>
          Sustained(n + 1)' /\ DumpsSinceRelease(n + 1)' < MaxDumps
    BY <1>4, <1>7, <1>9 DEF dump
  <2>2. ASSUME NEW i \in 1 .. n
        PROVE  trail'[i].dumped <=> Sustained(i)' /\ DumpsSinceRelease(i)' < MaxDumps
    <3>1. trail[i].dumped <=> Sustained(i) /\ DumpsSinceRelease(i) < MaxDumps
      BY <1>0, <1>1 DEF IInv, DumpsFollowPolicy
    <3>2. Sustained(i)' <=> Sustained(i)
      <4>1. \A j \in i - MinEvents + 1 .. i : i >= MinEvents => j \in 1 .. n
        BY <1>1, Thresholds
      <4> QED
        BY <1>5, <4>1 DEF Sustained
    <3>3. DumpsSinceRelease(i)' = DumpsSinceRelease(i)
      <4>1. \A j \in 1 .. i - 1 : j \in 1 .. n
        BY <1>1
      <4>2. \A j \in 1 .. i - 1 : \A k \in j + 1 .. i : k \in 1 .. n
        BY <1>1
      <4>3. {j \in 1 .. i - 1 : trail'[j].dumped /\ \A k \in j + 1 .. i : ~Released(k)'}
              = {j \in 1 .. i - 1 : trail[j].dumped /\ \A k \in j + 1 .. i : ~Released(k)}
        BY <1>4, <1>5, <4>1, <4>2
      <4> QED
        BY <4>3 DEF DumpsSinceRelease
    <3> QED
      BY <1>4, <3>1, <3>2, <3>3
  <2>3. \A i \in 1 .. n + 1 : i = n + 1 \/ i \in 1 .. n
    BY <1>1
  <2> QED
    BY <1>4, <2>1, <2>2, <2>3 DEF DumpsFollowPolicy
<1>13. NothingDumpedUnlearned'
  <2>1. trail'[n + 1].dumped => n + 1 > MinEvents
    <3>1. unstableRun' < n + 1 /\ unstableRun' \in Nat
      BY <1>1, <1>4, <1>6 DEF RunIsNewest
    <3>2. dump => unstableRun' >= MinEvents
      BY DEF dump
    <3>3. MinEvents \in Nat
      BY Thresholds
    <3>4. unstableRun' >= MinEvents => n + 1 > MinEvents
      BY <1>1, <3>1, <3>3
    <3> QED
      BY <1>4, <3>2, <3>4
  <2>2. \A i \in 1 .. n : trail'[i].dumped => i > MinEvents
    BY <1>0, <1>1, <1>4 DEF IInv, NothingDumpedUnlearned
  <2>3. \A i \in 1 .. n + 1 : i = n + 1 \/ i \in 1 .. n
    BY <1>1
  <2> QED
    BY <1>4, <2>1, <2>2, <2>3 DEF NothingDumpedUnlearned
<1>14. EpochIsMarked'
  BY <1>4 DEF Observe, Inputs, EpochIsMarked
<1>15. TypeOK' /\ BankIsFilled'
  <2>1. bank' \in Banks(Records) /\ Pending(bank)' \in Seq(Records)
    BY ObservedBank
  <2>2. lastTime' \in Nat /\ lastDirection' \in {"none", "read", "write"}
    BY DEF Observe, Inputs, Direction, IInv, TypeOK
  <2>3. decision' \in {"STABLE", "OBSERVE", "DUMP", "FAILSAFE"}
    BY DEF Observe
  <2>4. unstableRun' \in Nat
    BY <1>1, <1>3 DEF RunAfter
  <2>5. /\ initialized' \in BOOLEAN /\ siliconTag' \in Tags \cup {AnyTag}
        /\ initResult' \in {"none", "ok", "refused"} /\ output' \in Seq(Records)
    BY DEF Observe, IInv, TypeOK
  <2>6. {alternation', burst', gcPressure', stability', baseline', delta'} \subseteq Fraction
    BY ObservedFractions
  <2>7. trail' \in Seq([delta : Fraction, dumped : BOOLEAN])
    BY <1>4
  <2>8. TypeOK'
    BY ONLY <1>10, <2>1, <2>2, <2>3, <2>4, <2>5, <2>6, <2>7 DEF TypeOK, Banks
  <2> QED
    BY <2>1, <2>8 DEF BankIsFilled
<1> QED
  BY <1>6, <1>11, <1>12, <1>13, <1>14, <1>15 DEF IInv

(* Every call keeps the invariant.                                         *)
LEMMA StepKeeps == IInv /\ [Next]_vars => IInv'
<1> SUFFICES ASSUME IInv, [Next]_vars
             PROVE  IInv'
  OBVIOUS
<1> USE DEF sensorVars, runVars
<1>1. ASSUME NEW tag \in Tags, Start(tag)
      PROVE  IInv'
  <2>1. siliconTag' \in Tags \cup {AnyTag} /\ initResult' \in {"none", "ok", "refused"}
    BY <1>1 DEF Start
  <2> QED
    BY <1>1, <2>1, NewEpoch DEF Start, IInv
<1>2. ASSUME NEW tag \in Tags, StartRefused(tag)
      PROVE  IInv'
  <2>1. TypeOK' /\ BankIsFilled'
    BY <1>2 DEF StartRefused, IInv, TypeOK, BankIsFilled
  <2> QED
    BY <1>2, <2>1, HistoryKeeps DEF StartRefused, IInv
<1>3. CASE ResetEpoch
  <2>1. siliconTag' \in Tags \cup {AnyTag} /\ initResult' \in {"none", "ok", "refused"}
    BY <1>3 DEF ResetEpoch, IInv, TypeOK
  <2> QED
    BY <1>3, <2>1, NewEpoch DEF ResetEpoch, IInv
<1>4. CASE Report
  BY <1>4, TranslatedIsInput, ObserveKeeps DEF Report
<1>5. CASE ReportIgnored
  <2>1. TypeOK' /\ BankIsFilled'
    BY <1>5 DEF ReportIgnored, IInv, TypeOK, BankIsFilled
  <2> QED
    BY <1>5, <2>1, HistoryKeeps DEF ReportIgnored, IInv
<1>6. CASE ReportUninitialized
  <2>1. TypeOK' /\ BankIsFilled'
    BY <1>6 DEF ReportUninitialized, IInv, TypeOK, BankIsFilled
  <2> QED
    BY <1>6, <2>1, HistoryKeeps DEF ReportUninitialized, IInv
<1>7. CASE Drain
  BY <1>7, DrainKeeps
<1>8. CASE UNCHANGED vars
  <2>1. TypeOK' /\ BankIsFilled'
    BY <1>8 DEF vars, IInv, TypeOK, BankIsFilled
  <2> QED
    BY <1>8, <2>1, HistoryKeeps DEF vars, IInv
<1> QED
  BY <1>1, <1>2, <1>3, <1>4, <1>5, <1>6, <1>7, <1>8 DEF Next

(* The inductive invariant holds of every reachable state.                 *)
THEOREM Invariant == Spec => []IInv
BY InitIInv, StepKeeps, PTL DEF Spec

(* Every pressure, the stability and the baseline stay sixteen-bit         *)
(* fractions, the counters within their limits: no cast truncates.         *)
THEOREM TypeCorrect == Spec => []TypeOK
<1>1. IInv => TypeOK
  BY DEF IInv
<1> QED
  BY <1>1, Invariant, PTL

(* frida_rs_observe dumps exactly what the policy asks for, counted over   *)
(* the epoch's history, and nothing before it has learned a baseline.      *)
THEOREM DumpsAsConfigured == Spec => []DumpsAreJustified
<1>1. IInv => DumpsAreJustified
  BY DEF IInv, DumpsAreJustified
<1> QED
  BY <1>1, Invariant, PTL

(* No single observation drags the baseline along.                         *)
THEOREM BaselineInertia == Spec => BaselineIsInert
<1>1. IInv /\ [Next]_vars => [BaselineStep]_vars
  <2> SUFFICES ASSUME IInv, Next, trail # << >>, Len(trail') > Len(trail)
               PROVE  Distance(baseline, baseline') <= One \div 16 + 1
    BY DEF BaselineStep
  <2> USE DEF sensorVars, runVars
  <2>1. Len(trail) \in Nat
    BY DEF IInv, TypeOK
  <2>2. trail' # trail
    BY <2>1
  <2>3. trail' # << >>
    BY <2>1
  <2>4. Report
    BY <2>2, <2>3 DEF Next, Start, StartRefused, ResetEpoch, ReportIgnored,
                      ReportUninitialized, Drain
  <2>5. PICK e \in Events : Translatable(e) /\ Observe(Translated(e))
    BY <2>4 DEF Report
  <2> QED
    BY <2>5, TranslatedIsInput, ObservedFractions
<1> QED
  BY <1>1, Invariant, PTL DEF Spec, BaselineIsInert

(***************************************************************************)
(* The bank implements the lossy queue.                                    *)
(***************************************************************************)
(* Every call is a step of the lossy queue, or none.                       *)
LEMMA QueueStep ==
  ASSUME IInv, [Next]_vars
  PROVE  [Queue!QueueNext]_<<Pending(bank), output>>
<1> USE DEF sensorVars, runVars
<1>1. /\ bank \in Banks(Records) /\ Pending(bank) \in Seq(Records)
  BY DEF IInv, TypeOK, BankIsFilled, Banks
<1>2. ASSUME bank' = BlankBank(0), output' = << >>
      PROVE  Queue!QueueNext
  BY <1>2, BlankBankIsEmpty DEF Queue!QueueNext, Queue!Clear
<1>3. CASE Report
  <2>1. PICK e \in Events : Translatable(e) /\ Observe(Translated(e))
    BY <1>3 DEF Report
  <2>2. output' = output
    BY <2>1 DEF Observe
  <2>3. \/ bank' = bank
        \/ \E e1 \in Records :
             LET next == Append(Pending(bank), e1)
             IN  Pending(bank') = IF Len(next) <= Capacity THEN next ELSE Tail(next)
    BY <2>1, TranslatedIsInput, ObservedBank
  <2>4. CASE bank' = bank
    BY <2>2, <2>4
  <2>5. ASSUME NEW e1 \in Records,
               LET next == Append(Pending(bank), e1)
               IN  Pending(bank') = IF Len(next) <= Capacity THEN next ELSE Tail(next)
        PROVE  Queue!Put
    <3> DEFINE q == Pending(bank)
               next == Append(q, e1)
    <3>1. q \in Seq(Records)
      BY <1>1
    <3>2. Pending(bank') = Queue!Newest(next)
      BY <2>5 DEF Queue!Newest
    <3> HIDE DEF q
    <3>3. next \in Seq(Records) /\ Len(next) = Len(q) + 1 /\ next[Len(q) + 1] = e1
      BY <3>1
    <3>4. Queue!Newest(next) # << >>
          /\ Queue!Newest(next)[Len(Queue!Newest(next))] = e1
      <4> HIDE DEF next
      <4>1. CASE Len(next) <= Capacity
        <5>1. Queue!Newest(next) = next
          BY <4>1 DEF Queue!Newest
        <5>2. Len(q) \in Nat
          BY <3>1
        <5> QED
          BY <3>3, <5>1, <5>2
      <4>2. CASE ~(Len(next) <= Capacity)
        <5>1. Queue!Newest(next) = Tail(next)
          BY <4>2 DEF Queue!Newest
        <5>2. Len(q) \in Nat \ {0}
          BY <3>1, <3>3, <4>2, CapacityAssumption
        <5>3. Len(Tail(next)) = Len(q) /\ Tail(next)[Len(q)] = next[Len(q) + 1]
          BY <3>3, <5>2
        <5> QED
          BY <3>3, <5>1, <5>2, <5>3
      <4> QED
        BY <4>1, <4>2
    <3> HIDE DEF next
    <3>5. Pending(bank') # << >> /\ Pending(bank')[Len(Pending(bank'))] = e1
      BY <3>2, <3>4
    <3> QED
      BY <2>2, <3>2, <3>5 DEF Queue!Put, q, next
  <2> QED
    BY <2>3, <2>4, <2>5 DEF Queue!QueueNext
<1>4. CASE Drain
  <2>1. PICK size \in DrainSizes :
          LET count == IF bank.readable > size THEN size ELSE bank.readable
          IN  output' = Copied(bank, count) /\ bank' = Drained(bank, count)
    BY <1>4 DEF Drain
  <2> DEFINE count == IF bank.readable > size THEN size ELSE bank.readable
  <2>2. bank.readable \in Nat /\ count \in 0 .. bank.readable
    BY <1>1, PolicyAssumption, CapacityAssumption DEF Banks
  <2>3. output' = Copied(bank, count) /\ bank' = Drained(bank, count)
    BY <2>1
  <2> HIDE DEF count
  <2>4. /\ Len(Pending(bank)) = bank.readable
        /\ output' = SubSeq(Pending(bank), 1, count)
        /\ Pending(bank') = SubSeq(Pending(bank), count + 1, bank.readable)
    BY <1>1, <2>2, <2>3, DrainTakesFirst
  <2> QED
    BY <2>2, <2>4 DEF Queue!QueueNext, Queue!Take
<1>5. CASE \E tag \in Tags : Start(tag)
  BY <1>2, <1>5 DEF Start
<1>6. CASE ResetEpoch
  BY <1>2, <1>6 DEF ResetEpoch
<1>7. CASE UNCHANGED <<bank, output>>
  BY <1>7
<1> QED
  BY <1>3, <1>4, <1>5, <1>6, <1>7 DEF Next, StartRefused, ReportIgnored,
       ReportUninitialized, vars

(* Whatever its capacity, the circular bank is the queue of LossyQueue:    *)
(* drains deliver in order, and only the oldest records are ever given up. *)
THEOREM BankIsLossyQueue == Spec => ImplementsLossyQueue
<1>1. Init => Queue!QueueInit
  BY BlankBankIsEmpty DEF Init, Queue!QueueInit
<1>2. IInv /\ [Next]_vars => [Queue!QueueNext]_<<Pending(bank), output>>
  BY QueueStep
<1> QED
  BY <1>1, <1>2, Invariant, PTL DEF Spec, ImplementsLossyQueue, Queue!QueueSpec

(***************************************************************************)
(* The advice.                                                             *)
(***************************************************************************)

(* Less than half a word apart, the wrapping comparison is exact.          *)
LEMMA AtLeastIsExact ==
  ASSUME NEW l \in Nat, NEW r \in Nat, l < Word \div 2, r < Word \div 2
  PROVE  AtLeast(l, r) <=> l >= r
<1> DEFINE h == Word \div 2
<1>1. h \in Nat /\ Word = 2 * h /\ Word \in Nat \ {0}
  BY WordAssumption, OneIs, SMT
<1>2. (l - r) % Word = IF l >= r THEN l - r ELSE l - r + Word
  <2>1. CASE l >= r
    <3>1. l - r \in 0 .. Word - 1
      BY <1>1, <2>1, SMT
    <3> QED
      BY <1>1, <2>1, <3>1, SMTT(30)
  <2>2. CASE l < r
    <3>1. l - r + Word \in 0 .. Word - 1
      BY <1>1, <2>2, SMT
    <3> QED
      BY <1>1, <2>2, <3>1, SMTT(30)
  <2> QED
    BY <2>1, <2>2
<1> QED
  BY <1>1, <1>2, SMT DEF AtLeast

(* Sums of two fractions are less than half a word.                        *)
LEMMA SmallIsBelowHalf ==
  ASSUME NEW x \in 0 .. 2 * One
  PROVE  x \in Nat /\ x < Word \div 2
  BY WordAssumption, OneIs, SMT

(* The saturating sum saturates.                                           *)
LEMMA SaturatingAddIsFraction ==
  ASSUME NEW l \in Fraction, NEW r \in Fraction
  PROVE  SaturatingAdd(l, r) \in Fraction
<1>1. l + r \in 0 .. 2 * One /\ One \in 0 .. 2 * One
  BY OneIs, SMT DEF Fraction
<1>2. AtLeast(l + r, One) <=> l + r >= One
  BY <1>1, SmallIsBelowHalf, AtLeastIsExact
<1> QED
  BY <1>1, <1>2, OneIs, SMT DEF SaturatingAdd, Fraction

Signals == [stability : Fraction, accuracy : Fraction, friction : Fraction,
            entropy : Fraction, overhead : Fraction,
            arch : SUBSET {"ARM32", "NEON"}, budget : Nat, lastRoute : Routes,
            faults : SUBSET {"UNSTABLE", "OVERHEAD"}]

(* Every route's score is a fraction.                                      *)
LEMMA ScoresAreFractions ==
  ASSUME NEW s \in Signals, NEW r \in Routes
  PROVE  Scores(s)[r] \in Fraction
<1>1. /\ s.stability \in Fraction /\ s.accuracy \in Fraction
      /\ s.friction \in Fraction /\ s.entropy \in Fraction
      /\ s.overhead \in Fraction
  BY DEF Signals
<1>2. Coherence(s) \in Fraction
  BY <1>1, MeanIsFraction, SmoothIsFraction DEF Coherence
<1>3. 0 \in Fraction /\ 12288 \in Fraction /\ 8192 \in Fraction /\ 24576 \in Fraction
  BY OneIs, SMT DEF Fraction
<1>4. GenericScore(s) \in Fraction
  BY <1>1, <1>2, MeanIsFraction DEF GenericScore
<1>10. /\ Mean(Coherence(s), Complement(s.overhead)) \in Fraction
       /\ Mean(Coherence(s), Complement(s.friction)) \in Fraction
       /\ Mean(Complement(s.entropy), Complement(Coherence(s))) \in Fraction
  BY <1>1, <1>2, MeanIsFraction
<1>5. NeonScore(s) \in Fraction
  <2>1. (IF {"ARM32", "NEON"} \subseteq s.arch THEN 12288 ELSE 0) \in Fraction
    BY <1>3
  <2> QED
    BY <1>10, <2>1, SaturatingAddIsFraction DEF NeonScore
<1>6. CacheScore(s) \in Fraction
  <2>1. (IF "SMALL_CACHE" \in s.arch \/ AtLeast(LowBudget, s.budget) THEN 8192 ELSE 0) \in Fraction
    BY <1>3
  <2> QED
    BY <1>10, <2>1, SaturatingAddIsFraction DEF CacheScore
<1>7. RollbackScore(s) \in Fraction
  <2>1. (IF s.faults # {} THEN 24576 ELSE 0) \in Fraction
    BY <1>3
  <2> QED
    BY <1>10, <2>1, SaturatingAddIsFraction DEF RollbackScore
<1>8. Scores(s)[r] = CASE r = 0 -> GenericScore(s) [] r = 1 -> NeonScore(s)
                       [] r = 2 -> CacheScore(s) [] r = 3 -> RollbackScore(s)
  BY DEF Scores
<1>9. r = 0 \/ r = 1 \/ r = 2 \/ r = 3
  BY DEF Routes
<1> QED
  BY <1>4, <1>5, <1>6, <1>7, <1>8, <1>9

(* A limit on a fraction, as the risk check phrases it.                    *)
LEMMA LimitIsExact ==
  ASSUME NEW limit \in Fraction, NEW x \in Fraction, ~AtLeast(limit, x + 1)
  PROVE  limit <= x
<1>1. limit \in 0 .. 2 * One /\ x + 1 \in 0 .. 2 * One
  BY OneIs, SMT DEF Fraction
<1>2. AtLeast(limit, x + 1) <=> limit >= x + 1
  BY <1>1, SmallIsBelowHalf, AtLeastIsExact
<1> QED
  BY <1>2, OneIs, SMT DEF Fraction

(* An upper limit, as the risk check phrases it.                           *)
LEMMA CeilingIsExact ==
  ASSUME NEW limit \in Fraction, NEW x \in Fraction, ~AtLeast(x, limit + 1)
  PROVE  x <= limit
<1>1. x \in 0 .. 2 * One /\ limit + 1 \in 0 .. 2 * One
  BY OneIs, SMT DEF Fraction
<1>2. AtLeast(x, limit + 1) <=> x >= limit + 1
  BY <1>1, SmallIsBelowHalf, AtLeastIsExact
<1> QED
  BY <1>2, OneIs, SMT DEF Fraction

(* The range check on the known-good route refuses what lies between the   *)
(* routes and the numbers that wrap, and nothing else.                     *)
LEMMA KnownGoodIs ==
  ASSUME NEW p \in RiskPolicies
  PROVE  KnownGood(p) = IF p.knownGood \in Routes \/ p.knownGood >= FirstWrapped
                        THEN p.knownGood ELSE Generic
<1> DEFINE h == Word \div 2
           k == p.knownGood
<1>1. h \in Nat /\ h > 4 /\ Word = 2 * h
  BY WordAssumption, OneIs, SMT
<1>2. k \in 0 .. Word - 1
  BY AdviceAssumption
<1>3. (3 - k) % Word = IF 3 >= k THEN 3 - k ELSE 3 - k + Word
  <2>1. CASE 3 >= k
    <3>1. 3 - k \in 0 .. Word - 1
      BY <1>1, <1>2, <2>1, SMT
    <3> QED
      BY <1>1, <2>1, <3>1, SMTT(30)
  <2>2. CASE 3 < k
    <3>1. 3 - k + Word \in 0 .. Word - 1
      BY <1>1, <1>2, <2>2, SMT
    <3> QED
      BY <1>1, <1>2, <2>2, <3>1, SMTT(30)
  <2> QED
    BY <1>2, <2>1, <2>2
<1>4. AtLeast(3, k) <=> 3 >= k \/ k >= h + 4
  BY <1>1, <1>2, <1>3, SMT DEF AtLeast
<1>5. AtLeast(3, k) <=> k \in Routes \/ k >= FirstWrapped
  BY <1>2, <1>4 DEF Routes, FirstWrapped
<1> QED
  BY <1>5 DEF KnownGood

(* The types alone make every advice safe.                                 *)
LEMMA AdviceFollows == TypeOK => AdviceIsSafe
<1> SUFFICES ASSUME TypeOK, NEW c \in Callers, NEW p \in RiskPolicies
             PROVE  LET m == Mitigate(Signal(c), p)
    IN  \/ /\ m.route = IF p.knownGood \in Routes \/ p.knownGood >= FirstWrapped
                         THEN p.knownGood ELSE Generic
           /\ Fallback \subseteq m.flags
        \/ /\ "ROLLBACK" \notin m.flags
           /\ m.route \in p.allowed /\ m.confidence >= p.minConfidence
           /\ stability >= p.minStability /\ One - delta >= p.minAccuracy
           /\ burst <= p.maxFriction /\ alternation <= p.maxEntropy
           /\ gcPressure <= p.maxOverhead
           /\ delta < DefaultTrigger /\ gcPressure < GCFloor
  BY DEF AdviceIsSafe
<1> DEFINE s == Signal(c)
           planned == Plan(s)
           risks == Risks(s, p, planned)
           m == Mitigate(s, p)
<1>1. /\ m.route = IF risks # {} THEN KnownGood(p) ELSE planned.route
      /\ m.flags = planned.flags \cup When(risks # {}, Fallback)
      /\ m.confidence = IF risks # {} THEN Smooth(planned.confidence, One, 4)
                                      ELSE planned.confidence
  BY DEF Mitigate
<1>2. CASE risks # {}
  BY <1>1, <1>2, KnownGoodIs DEF When
<1>3. CASE risks = {}
  <2>1. /\ ~AtLeast(p.minStability, s.stability + 1)
        /\ ~AtLeast(p.minAccuracy, s.accuracy + 1)
        /\ ~AtLeast(s.friction, p.maxFriction + 1)
        /\ ~AtLeast(s.entropy, p.maxEntropy + 1)
        /\ ~AtLeast(s.overhead, p.maxOverhead + 1)
        /\ ~AtLeast(p.minConfidence, planned.confidence + 1)
        /\ planned.route \in p.allowed
        /\ s.faults = {}
    <3> HIDE DEF s, planned
    <3> QED
      BY <1>3, Zenon DEF Risks, When
  <2>2. /\ s.stability = stability /\ s.accuracy = One - delta
        /\ s.friction = burst /\ s.entropy = alternation
        /\ s.overhead = gcPressure
        /\ s.faults = When(delta >= DefaultTrigger, {"UNSTABLE"})
                        \cup When(gcPressure >= GCFloor, {"OVERHEAD"})
    BY DEF Signal
  <2>3. /\ stability \in Fraction /\ One - delta \in Fraction /\ burst \in Fraction
        /\ alternation \in Fraction /\ gcPressure \in Fraction /\ delta \in Fraction
    BY OneIs, SMT DEF TypeOK, Fraction
  <2>4. s \in Signals
    BY <2>3, AdviceAssumption DEF Signal, Signals, When
  <2>5. /\ p.minStability \in Fraction /\ p.minAccuracy \in Fraction
        /\ p.maxFriction \in Fraction /\ p.maxEntropy \in Fraction
        /\ p.maxOverhead \in Fraction /\ p.minConfidence \in Fraction
        /\ p.allowed \subseteq Routes
    BY AdviceAssumption
  <2>6. planned.confidence = Scores(s)[planned.route] /\ planned.route \in Routes
    BY <2>1, <2>5 DEF Plan
  <2>7. planned.confidence \in Fraction
    <3> HIDE DEF s, planned
    <3> QED
      BY <2>4, <2>6, ScoresAreFractions
  <2>8. "ROLLBACK" \notin m.flags
    <3>1. m.flags = planned.flags
      BY <1>1, <1>3 DEF When
    <3>2. planned.flags \subseteq {"FAILSAFE", "FAILOVER", "MORPHED"}
      BY DEF Plan, When
    <3> QED
      BY <3>1, <3>2
  <2>9. delta < DefaultTrigger /\ gcPressure < GCFloor
    <3>1. ~(delta >= DefaultTrigger) /\ ~(gcPressure >= GCFloor)
      BY <2>1, <2>2 DEF When
    <3> QED
      BY <2>3, <3>1, OneIs, SMT DEF Fraction, DefaultTrigger, GCFloor
  <2> HIDE DEF s, planned, risks, m
  <2>10. /\ p.minStability <= stability /\ p.minAccuracy <= One - delta
         /\ p.minConfidence <= planned.confidence
    BY <2>1, <2>2, <2>3, <2>5, <2>7, LimitIsExact
  <2>11. burst <= p.maxFriction /\ alternation <= p.maxEntropy
         /\ gcPressure <= p.maxOverhead
    BY <2>1, <2>2, <2>3, <2>5, CeilingIsExact
  <2>12. stability >= p.minStability /\ One - delta >= p.minAccuracy
         /\ planned.confidence >= p.minConfidence
    BY <2>3, <2>5, <2>7, <2>10, OneIs, SMT DEF Fraction
  <2> QED
    BY <1>1, <1>3, <2>1, <2>8, <2>9, <2>11, <2>12 DEF s, m
<1> QED
  BY <1>2, <1>3

(* Whatever the recorder has observed, the advice made of its state is the *)
(* fallback with all its flags, or within every limit of the risk policy.  *)
(* The fallback is the known-good route or, if that is neither a route nor *)
(* FirstWrapped and more, the generic one: a known-good route that wraps   *)
(* is advised although it does not exist.                                  *)
THEOREM AdviceSafety == Spec => []AdviceIsSafe
BY TypeCorrect, AdviceFollows, PTL
=============================================================================
