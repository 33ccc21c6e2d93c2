------------------------- MODULE LearningStoreProofs -------------------------
(***************************************************************************)
(* Type correctness, crash safety and replay of LearningStore, and the log *)
(* that it implements, for every size of slab and predictor and every      *)
(* number of faults, crashes and, where nothing else is said, power losses.*)
(***************************************************************************)
EXTENDS RuntimeOverStore, PredictorProofs, DataLemmas

(* f holds s at its start.                                                 *)
Holds(f, s) == Len(s) <= Len(f) /\ \A i \in 1 .. Len(s) : f[i] = s[i]

(* Where a call can stand, and what it has established when it is there.   *)
Progress ==
  /\ call.op = "none" => call.step = "idle"
  /\ call.op = "init" => ~initialized /\ call.step \in {"headersync", "replay"}
  /\ call.op \notin {"none", "init"} =>
       /\ initialized
       /\ call.step \in {"slab", "size", "header", "sync", "epochheader",
                         "epochsync", "return"}
  /\ call.step = "headersync" => cache.recs = << >>
  /\ ~initialized /\ call.step # "replay" => committed = 0
  /\ ~initialized => slab = << >>
  /\ call.step \in {"header", "sync", "epochheader", "epochsync"} =>
       Len(cache.recs) = committed
  /\ call.step = "return" /\ call.ok /\ call.op # "observe" =>
       disk = cache /\ Len(cache.recs) = committed

(* A file without a header has no records, and is not open.                *)
Headed ==
  /\ initialized \/ call.step \in {"headersync", "replay"} => cache.hdr # NoHeader
  /\ cache.hdr = NoHeader => cache.recs = << >>
  /\ disk.hdr = NoHeader => disk.recs = << >>

(* What a durable call confirmed is in both images, and a running store    *)
(* writes above it.                                                        *)
Confirmed ==
  /\ \A i \in 1 .. Len(acked) : acked[i] # Garbage
  /\ Holds(cache.recs, acked) /\ Holds(disk.recs, acked)
  /\ initialized => Len(acked) <= committed

IInv == /\ TypeOK /\ Progress /\ Headed
        /\ CommittedVerified /\ Confirmed /\ ObservationsAreRecords
-----------------------------------------------------------------------------
(* What the file operations return.                                        *)

LEMMA WriteAtProperties ==
  ASSUME NEW S, NEW f \in Seq(S), NEW s \in Seq(S), NEW off \in 0 .. Len(f)
  PROVE  /\ WriteAt(f, off, s) \in Seq(S)
         /\ Len(WriteAt(f, off, s)) =
              IF Len(f) > off + Len(s) THEN Len(f) ELSE off + Len(s)
         /\ \A i \in 1 .. off : WriteAt(f, off, s)[i] = f[i]
         /\ \A i \in off + 1 .. off + Len(s) : WriteAt(f, off, s)[i] = s[i - off]
<1> DEFINE n == IF Len(f) > off + Len(s) THEN Len(f) ELSE off + Len(s)
           e(i) == IF i > off /\ i <= off + Len(s) THEN s[i - off] ELSE f[i]
           w == [i \in 1 .. n |-> e(i)]
<1>1. WriteAt(f, off, s) = w
  BY DEF WriteAt
<1>2. n \in Nat
  OBVIOUS
<1>3. \A i \in 1 .. n : e(i) \in S
  OBVIOUS
<1>4. w \in Seq(S)
  <2> HIDE DEF n, e
  <2> QED BY <1>2, <1>3, IsASeq
<1>5. Len(w) = n
  <2> HIDE DEF n, e
  <2> QED BY <1>2
<1> QED BY <1>1, <1>4, <1>5

LEMMA WriteTornProperties ==
  ASSUME NEW S, Garbage \in S, NEW f \in Seq(S), NEW s \in Seq(S),
         NEW off \in 0 .. Len(f), NEW j \in 0 .. Len(s) - 1
  PROVE  /\ WriteTorn(f, off, s, j) \in Seq(S)
         /\ Len(WriteTorn(f, off, s, j)) >= Len(f)
         /\ \A i \in 1 .. off : WriteTorn(f, off, s, j)[i] = f[i]
<1> DEFINE old == IF off + j + 1 <= Len(f) THEN f[off + j + 1] ELSE Garbage
           x == IF old = s[j + 1] THEN old ELSE Garbage
           t == Append(SubSeq(s, 1, j), x)
<1>1. old \in S
  OBVIOUS
<1>2. x \in S
  BY <1>1
<1>3. SubSeq(s, 1, j) \in Seq(S)
  BY SubSeqProperties
<1>4. t \in Seq(S)
  <2> HIDE DEF x
  <2> QED BY <1>2, <1>3, AppendProperties
<1>5. WriteTorn(f, off, s, j) = WriteAt(f, off, t)
  BY DEF WriteTorn
<1> HIDE DEF t
<1>6. /\ WriteAt(f, off, t) \in Seq(S)
      /\ Len(WriteAt(f, off, t)) = IF Len(f) > off + Len(t) THEN Len(f) ELSE off + Len(t)
      /\ \A i \in 1 .. off : WriteAt(f, off, t)[i] = f[i]
  BY <1>4, WriteAtProperties
<1>7. Len(t) \in Nat
  BY <1>4
<1> QED BY <1>5, <1>6, <1>7

LEMMA TruncateProperties ==
  ASSUME NEW S, NEW f \in Seq(S), NEW n \in 0 .. Len(f)
  PROVE  /\ Truncate(f, n) \in Seq(S)
         /\ Len(Truncate(f, n)) = n
         /\ \A i \in 1 .. n : Truncate(f, n)[i] = f[i]
BY SubSeqProperties DEF Truncate

(* A power loss leaves what the two images agree on.                       *)
LEMMA LossProperties ==
  ASSUME NEW S, Garbage \in S, NEW d \in Seq(S), NEW c \in Seq(S), NEW a \in Seq(S),
         Holds(d, a), Holds(c, a), NEW r \in AreasAfterLoss(d, c)
  PROVE  r \in Seq(S) /\ Len(r) \in {Len(d), Len(c)} /\ Holds(r, a)
<1>1. PICK n \in {Len(d), Len(c)} :
        /\ r \in [1 .. n -> UNION {SlotsAfterLoss(d, c, i) : i \in 1 .. n}]
        /\ \A i \in 1 .. n : r[i] \in SlotsAfterLoss(d, c, i)
  BY DEF AreasAfterLoss
<1>2. n \in Nat /\ n >= Len(a)
  BY DEF Holds
<1>3. \A i \in 1 .. n : SlotsAfterLoss(d, c, i) \subseteq S
  BY DEF SlotsAfterLoss
<1>4. r = [i \in 1 .. n |-> r[i]] /\ \A i \in 1 .. n : r[i] \in S
  BY <1>1, <1>3
<1>5. r \in Seq(S)
  <2>1. r \in [1 .. n -> S]
    BY <1>4
  <2> QED BY <1>2, <2>1, IsASeq, <1>4
<1>6. Len(r) = n
  BY <1>2, <1>4, <1>5
<1>7. \A i \in 1 .. Len(a) : SlotsAfterLoss(d, c, i) = {a[i]}
  BY DEF SlotsAfterLoss, Holds
<1> QED BY <1>1, <1>2, <1>5, <1>6, <1>7 DEF Holds

-----------------------------------------------------------------------------
LEMMA InitIInv == Init => IInv
<1> SUFFICES ASSUME Init PROVE IInv
  OBVIOUS
<1> USE DEF Init, EmptyFile, Idle, ZeroStats
<1>1. cache \in Files /\ disk \in Files
  BY DEF Files, Headers
<1>2. predictor \in Tables
  BY DEF EmptyTable, Tables
<1>3. /\ stats \in Counters
      /\ call \in [op : Ops, step : Steps, to : Modes, ok : BOOLEAN]
  BY DEF Modes, Ops, Steps, Counters
<1>4. slab \in Seq(Records) /\ Len(slab) <= RecordsPerSlab /\ acked \in Seq(Slots)
  BY StoreAssumption
<1>5. TypeOK
  BY <1>1, <1>2, <1>3, <1>4 DEF TypeOK, Modes
<1> QED BY <1>5 DEF IInv, Progress, Headed, CommittedVerified, Confirmed, Holds,
                    ObservationsAreRecords

(* A call that gives the store up, or a death, leaves the zero state: only *)
(* the file and what was confirmed of it remain to be argued about.        *)
LEMMA ZeroStateIInv ==
  ASSUME IInv, ZeroState, cache' \in Files, disk' \in Files, Headed',
         acked' \in Seq(Slots), \A i \in 1 .. Len(acked') : acked'[i] # Garbage,
         Holds(cache'.recs, acked'), Holds(disk'.recs, acked'),
         faults' \in Nat, crashes' \in Nat
  PROVE  IInv'
<1> USE DEF ZeroState, Idle, ZeroStats
<1>1. predictor' \in Tables
  BY DEF EmptyTable, Tables
<1>2. TypeOK'
  <2>1. /\ stats' \in Counters
        /\ call' \in [op : Ops, step : Steps, to : Modes, ok : BOOLEAN]
    BY DEF Modes, Ops, Steps, Counters
  <2>2. slab' \in Seq(Records) /\ Len(slab') <= RecordsPerSlab
    BY StoreAssumption
  <2> QED BY <1>1, <2>1, <2>2 DEF TypeOK, Modes
<1>3. Progress' /\ CommittedVerified' /\ ObservationsAreRecords'
  <2>1. cache'.recs \in Seq(Slots)
    BY DEF Files
  <2> QED BY <2>1 DEF Progress, CommittedVerified, ObservationsAreRecords
<1>4. Confirmed'
  BY DEF Confirmed
<1> QED BY <1>2, <1>3, <1>4 DEF IInv

LEMMA OpeningIInv == IInv /\ Opening => IInv'
<1> SUFFICES ASSUME IInv, Opening PROVE IInv'
  OBVIOUS
<1> USE DEF IInv
<1>1. CASE OpenEmpty
  <2> USE <1>1 DEF OpenEmpty, LockFree, Idle, Call, headVars, learnVars, ghostVars
  <2>0. Header(1, 0) \in [epoch : Nat, committed : Nat]
    BY DEF Header
  <2>1. cache' \in Files /\ cache'.recs = << >> /\ cache.recs = << >>
        /\ cache'.hdr # NoHeader
    BY <2>0, StorageAssumption DEF TypeOK, Files, Headers, Headed
  <2>2. TypeOK'
    BY <2>1 DEF TypeOK, Modes, Ops, Steps
  <2>3. Progress' /\ Headed'
    BY <2>1 DEF Progress, Headed
  <2>4. CommittedVerified' /\ Confirmed' /\ ObservationsAreRecords'
    BY <2>1 DEF CommittedVerified, Confirmed, ObservationsAreRecords
  <2> QED BY <2>2, <2>3, <2>4
<1>2. CASE OpenEmptyFails
  <2> USE <1>2 DEF OpenEmptyFails, Fault, LockFree, Idle, headVars, learnVars
  <2>1. cache' \in Files /\ cache'.recs = << >> /\ cache.recs = << >>
    BY DEF TypeOK, Files, Headers, Headed
  <2>2. TypeOK'
    BY <2>1 DEF TypeOK
  <2>3. Progress' /\ Headed'
    BY <2>1 DEF Progress, Headed
  <2>4. CommittedVerified' /\ Confirmed' /\ ObservationsAreRecords'
    BY <2>1 DEF CommittedVerified, Confirmed, ObservationsAreRecords
  <2> QED BY <2>2, <2>3, <2>4
<1>3. CASE OpenSync
  <2> USE <1>3 DEF OpenSync, Idle, ghostVars
  <2>1. cache.recs = << >> /\ committed = 0 /\ slab = << >> /\ ~initialized
    BY DEF Progress
  <2>2. TypeOK'
    BY DEF TypeOK, Modes, Ops, Steps
  <2>3. Progress' /\ Headed'
    BY <2>1 DEF Progress, Headed
  <2>4. Len(acked) = 0
    BY <2>1 DEF Confirmed, Holds, TypeOK
  <2>5. CommittedVerified' /\ Confirmed' /\ ObservationsAreRecords'
    BY <2>1, <2>4 DEF CommittedVerified, Confirmed, ObservationsAreRecords
  <2> QED BY <2>2, <2>3, <2>5
<1>4. CASE OpenExisting
  <2> USE <1>4 DEF OpenExisting, LockFree, Idle, Call, fileVars, learnVars, ghostVars
  <2>1. epoch' \in Nat
    BY DEF TypeOK, Files, Headers
  <2>2. TypeOK'
    BY <2>1 DEF TypeOK, Modes, Ops, Steps
  <2>3. Progress' /\ Headed'
    BY DEF Progress, Headed
  <2>4. CommittedVerified' /\ Confirmed' /\ ObservationsAreRecords'
    BY DEF CommittedVerified, Confirmed, ObservationsAreRecords
  <2> QED BY <2>2, <2>3, <2>4
<1>5. CASE OpenRejected
  BY <1>5 DEF OpenRejected, vars, TypeOK, Progress, Headed, CommittedVerified,
              Confirmed, ObservationsAreRecords
<1>6. CASE ReplayRecord
  <2> DEFINE r == cache.recs[committed + 1]
  <2>1. /\ call.op = "init" /\ call.step = "replay"
        /\ committed < Len(cache.recs) /\ r # Garbage
        /\ predictor' = IF r.mode \in Learning
                        THEN Update(predictor, r.ctx, r.cand, r.seq) ELSE predictor
        /\ nextSequence' = IF r.seq >= nextSequence THEN r.seq + 1 ELSE nextSequence
        /\ committed' = committed + 1
        /\ UNCHANGED <<cache, disk, initialized, mode, epoch, slab, recoveredTail,
                       call, acked, learnedFrom, faults, crashes>>
    BY <1>6 DEF ReplayRecord, Relearned, fileVars, ghostVars
  <2>2. /\ stats' \in Counters
        /\ stats'.observations = stats.observations + 1
    <3> DEFINE a == stats.observations + 1
               b == IF r.pred # "NONE" THEN stats.predictions + 1 ELSE stats.predictions
               c == IF r.pred = "CORRECT" THEN stats.correct + 1 ELSE stats.correct
               d == IF r.pred = "WRONG" THEN stats.incorrect + 1 ELSE stats.incorrect
    <3>1. stats \in Counters
      BY DEF TypeOK
    <3>2. a \in Nat /\ b \in Nat /\ c \in Nat /\ d \in Nat
      BY <3>1 DEF Counters
    <3>3. stats' = [stats EXCEPT !.observations = a, !.predictions = b,
                                 !.correct = c, !.incorrect = d]
      BY <1>6 DEF ReplayRecord
    <3> HIDE DEF b, c, d
    <3> QED BY <3>1, <3>2, <3>3 DEF Counters
  <2>3. cache.recs \in Seq(Slots) /\ committed + 1 \in 1 .. Len(cache.recs)
    BY <2>1 DEF TypeOK, Files
  <2>4. r \in Records
    BY <2>1, <2>3 DEF Slots
  <2>5. predictor' \in Tables /\ nextSequence' \in Nat
    <3>1. r.ctx \in Contexts /\ r.cand \in Candidates /\ r.seq \in Nat
      BY <2>4 DEF Records
    <3> HIDE DEF r
    <3> QED BY <2>1, <3>1, UpdateType DEF TypeOK
  <2>6. TypeOK'
    BY <2>1, <2>2, <2>5 DEF TypeOK
  <2>7. Progress' /\ Headed'
    BY <2>1 DEF Progress, Headed
  <2>8. CommittedVerified'
    BY <2>1, <2>3 DEF CommittedVerified, TypeOK
  <2>9. Confirmed' /\ ObservationsAreRecords'
    BY <2>1, <2>2 DEF Confirmed, Holds, ObservationsAreRecords, TypeOK, Progress
  <2> QED BY <2>6, <2>7, <2>8, <2>9
<1>7. CASE ReplayEnd
  <2> USE <1>7 DEF ReplayEnd, Idle, fileVars, headVars, ghostVars
  <2>1. TypeOK'
    BY DEF TypeOK, Modes, Ops, Steps
  <2>2. Progress' /\ Headed'
    BY DEF Progress, Headed
  <2>3. Len(acked) <= committed
    <3>1. acked \in Seq(Slots) /\ cache.recs \in Seq(Slots) /\ committed \in Nat
      BY DEF TypeOK, Files
    <3>2. SUFFICES ASSUME committed < Len(acked) PROVE FALSE
      BY <3>1
    <3>3. cache.recs[committed + 1] = acked[committed + 1] /\ committed < Len(cache.recs)
      BY <3>1, <3>2 DEF Confirmed, Holds
    <3>4. acked[committed + 1] # Garbage
      BY <3>1, <3>2 DEF Confirmed
    <3> QED BY <3>3, <3>4
  <2>4. CommittedVerified' /\ Confirmed' /\ ObservationsAreRecords'
    BY <2>3 DEF CommittedVerified, Confirmed, ObservationsAreRecords
  <2> QED BY <2>1, <2>2, <2>4
<1>8. CASE OpenFails
  <2>1. ZeroState /\ faults' \in Nat /\ UNCHANGED <<cache, disk, acked, crashes>>
    BY <1>8 DEF OpenFails, Fault, fileVars, TypeOK
  <2>2. Headed'
    BY <2>1 DEF Headed, ZeroState, Idle
  <2> QED BY <2>1, <2>2, ZeroStateIInv DEF TypeOK, Confirmed
<1> QED BY <1>1, <1>2, <1>3, <1>4, <1>5, <1>6, <1>7, <1>8 DEF Opening
(* A flush moves only the file, the slab and the place of the call; it     *)
(* writes at committed and beyond, above everything that was confirmed.    *)
LEMMA FlushingIInv == IInv /\ Flushing => IInv'
<1> SUFFICES ASSUME IInv, Flushing PROVE IInv'
  OBVIOUS
<1> USE DEF IInv
<1>0. /\ cache.recs \in Seq(Slots) /\ disk.recs \in Seq(Slots) /\ slab \in Seq(Slots)
      /\ cache.hdr \in Headers /\ acked \in Seq(Slots) /\ Garbage \in Slots
      /\ committed \in 0 .. Len(cache.recs)
  BY SeqMonotonic DEF TypeOK, Files, Slots, CommittedVerified
<1>i. call.step \notin {"idle", "headersync", "replay"} => initialized
  BY DEF Progress, TypeOK, Ops
<1>w. \A u \in Seq(Slots) :
        LET w == WriteAt(cache.recs, committed, u) IN
        /\ w \in Seq(Slots) /\ Len(w) >= Len(cache.recs)
        /\ Len(w) >= committed + Len(u)
        /\ \A i \in 1 .. committed : w[i] = cache.recs[i]
        /\ \A i \in committed + 1 .. committed + Len(u) : w[i] = u[i - committed]
  <2> TAKE u \in Seq(Slots)
  <2> DEFINE w == WriteAt(cache.recs, committed, u)
  <2>1. /\ w \in Seq(Slots)
        /\ Len(w) = IF Len(cache.recs) > committed + Len(u) THEN Len(cache.recs)
                    ELSE committed + Len(u)
        /\ \A i \in 1 .. committed : w[i] = cache.recs[i]
        /\ \A i \in committed + 1 .. committed + Len(u) : w[i] = u[i - committed]
    <3> DEFINE r == cache.recs
    <3>1. r \in Seq(Slots) /\ committed \in 0 .. Len(r)
      BY <1>0
    <3> HIDE DEF r
    <3> QED BY ONLY <3>1, WriteAtProperties DEF r
  <2> HIDE DEF w
  <2>2. Len(cache.recs) \in Nat /\ Len(u) \in Nat /\ committed \in Nat
    BY <1>0
  <2> QED BY <2>1, <2>2 DEF w
<1>t. \A j \in 0 .. Len(slab) - 1 :
        LET w == WriteTorn(cache.recs, committed, slab, j) IN
        /\ w \in Seq(Slots) /\ Len(w) >= Len(cache.recs)
        /\ \A i \in 1 .. committed : w[i] = cache.recs[i]
  <2> TAKE j \in 0 .. Len(slab) - 1
  <2> DEFINE r == cache.recs
  <2>1. r \in Seq(Slots) /\ committed \in 0 .. Len(r) /\ slab \in Seq(Slots) /\ Garbage \in Slots
    BY <1>0, SeqMonotonic DEF TypeOK, Slots
  <2> HIDE DEF r
  <2>2. LET w == WriteTorn(r, committed, slab, j) IN
        /\ w \in Seq(Slots) /\ Len(w) >= Len(r)
        /\ \A i \in 1 .. committed : w[i] = r[i]
    BY ONLY <2>1, WriteTornProperties
  <2> QED BY <2>2 DEF r
<1>1. CASE WriteSlab
  <2> USE <1>1 DEF WriteSlab, At, learnVars, ghostVars
  <2>1. initialized /\ call.step = "slab"
    BY <1>i
  <2>t. call' \in [op : Ops, step : Steps, to : Modes, ok : BOOLEAN]
        /\ call'.step = "size" /\ call'.op = call.op
    BY DEF TypeOK, Steps
  <2>2. CASE slab = << >>
    <3>1. TypeOK'
      BY <2>2, <2>t DEF TypeOK
    <3>2. Progress' /\ Headed'
      BY <2>1, <2>2, <2>t DEF Progress, Headed
    <3>3. CommittedVerified' /\ Confirmed' /\ ObservationsAreRecords'
      BY <2>2 DEF CommittedVerified, Confirmed, ObservationsAreRecords
    <3> QED BY <3>1, <3>2, <3>3
  <2>3. CASE slab # << >>
    <3> DEFINE w == WriteAt(cache.recs, committed, slab)
    <3>1. /\ w \in Seq(Slots) /\ Len(w) >= Len(cache.recs)
          /\ Len(w) >= committed + Len(slab)
          /\ \A i \in 1 .. committed : w[i] = cache.recs[i]
          /\ \A i \in committed + 1 .. committed + Len(slab) : w[i] = slab[i - committed]
      BY <1>0, <1>w
    <3>2. /\ cache' = [cache EXCEPT !.recs = w] /\ committed' = committed + Len(slab)
          /\ slab' = << >>
      BY <2>3
    <3> HIDE DEF w
    <3>3. /\ cache' \in Files /\ cache'.recs = w /\ cache'.hdr = cache.hdr
          /\ committed' \in Nat /\ Len(slab) \in Nat
      <4>1. cache \in [hdr : Headers, recs : Seq(Slots)]
        BY DEF TypeOK, Files
      <4>2. committed \in Nat /\ Len(slab) \in Nat
        BY <1>0
      <4> QED BY <3>1, <3>2, <4>1, <4>2 DEF Files
    <3>4. slab' \in Seq(Records) /\ Len(slab') <= RecordsPerSlab
      BY <3>2, StoreAssumption
    <3>5. TypeOK'
      BY <3>3, <3>4, <2>t DEF TypeOK
    <3>6. cache.hdr # NoHeader
      BY <2>1 DEF Headed
    <3>7. Progress' /\ Headed'
      BY <2>1, <2>t, <3>2, <3>3, <3>6 DEF Progress, Headed
    <3>8. \A i \in 1 .. Len(slab) : slab[i] # Garbage
      BY StorageAssumption DEF TypeOK
    <3>9. CommittedVerified'
      <4>1. SUFFICES ASSUME NEW i \in 1 .. committed + Len(slab) PROVE w[i] # Garbage
        BY <3>1, <3>2, <3>3 DEF CommittedVerified
      <4>2. CASE i \in 1 .. committed
        BY <3>1, <4>2 DEF CommittedVerified
      <4>3. CASE i \in committed + 1 .. committed + Len(slab)
        <5>1. i - committed \in 1 .. Len(slab)
          BY <1>0, <3>3, <4>3
        <5> QED BY <3>1, <3>8, <4>3, <5>1
      <4> QED BY <1>0, <3>3, <4>2, <4>3
    <3>10. Confirmed'
      BY <1>0, <2>1, <3>1, <3>2, <3>3 DEF Confirmed, Holds
    <3>11. ObservationsAreRecords'
      BY <1>0, <3>2, <3>3 DEF ObservationsAreRecords
    <3> QED BY <3>5, <3>7, <3>9, <3>10, <3>11
  <2> QED BY <2>2, <2>3
<1>2. CASE WriteSlabFails
  <2> USE <1>2 DEF WriteSlabFails, Done, Fault, headVars, learnVars
  <2>1. initialized /\ call.step = "slab"
    BY <1>i
  <2>2. PICK j \in 0 .. Len(slab) - 1 :
          \/ cache' = [cache EXCEPT !.recs = WriteAt(@, committed, SubSeq(slab, 1, j))]
          \/ cache' = [cache EXCEPT !.recs = WriteTorn(@, committed, slab, j)]
    OBVIOUS
  <2>3. SubSeq(slab, 1, j) \in Seq(Slots)
    BY <1>0, <2>2, SubSeqProperties
  <2>4. PICK w \in Seq(Slots) :
          /\ cache' = [cache EXCEPT !.recs = w] /\ Len(w) >= Len(cache.recs)
          /\ \A i \in 1 .. committed : w[i] = cache.recs[i]
    BY <1>w, <1>t, <2>2, <2>3
  <2>5. cache' \in Files /\ cache'.recs = w /\ cache'.hdr = cache.hdr
    BY <1>0, <2>4 DEF TypeOK, Files
  <2>6. call' \in [op : Ops, step : Steps, to : Modes, ok : BOOLEAN]
        /\ call'.step = "return" /\ ~call'.ok /\ call'.op = call.op
    BY DEF TypeOK, Steps
  <2>7. TypeOK'
    BY <2>5, <2>6 DEF TypeOK
  <2>8. cache.hdr # NoHeader
    BY <2>1 DEF Headed
  <2>9. Progress' /\ Headed'
    BY <2>1, <2>5, <2>6, <2>8 DEF Progress, Headed
  <2>10. CommittedVerified' /\ ObservationsAreRecords'
    BY <1>0, <2>4, <2>5 DEF CommittedVerified, ObservationsAreRecords
  <2>11. Confirmed'
    BY <1>0, <2>1, <2>4, <2>5 DEF Confirmed, Holds
  <2> QED BY <2>7, <2>9, <2>10, <2>11
<1>3. CASE TruncateFile
  <2> USE <1>3 DEF TruncateFile, At, headVars, learnVars, ghostVars
  <2>1. initialized /\ call.step = "size"
    BY <1>i
  <2> DEFINE w == Truncate(cache.recs, committed)
  <2>2. /\ w \in Seq(Slots) /\ Len(w) = committed
        /\ \A i \in 1 .. committed : w[i] = cache.recs[i]
    BY <1>0, TruncateProperties
  <2>3. cache' = [cache EXCEPT !.recs = w]
    OBVIOUS
  <2> HIDE DEF w
  <2>4. cache' \in Files /\ cache'.recs = w /\ cache'.hdr = cache.hdr
    BY <1>0, <2>2, <2>3 DEF TypeOK, Files
  <2>5. call' \in [op : Ops, step : Steps, to : Modes, ok : BOOLEAN]
        /\ call'.step = "header" /\ call'.op = call.op
    BY DEF TypeOK, Steps
  <2>6. TypeOK'
    BY <2>4, <2>5 DEF TypeOK
  <2>7. cache.hdr # NoHeader
    BY <2>1 DEF Headed
  <2>8. Progress' /\ Headed'
    BY <2>1, <2>2, <2>4, <2>5, <2>7 DEF Progress, Headed
  <2>9. CommittedVerified' /\ ObservationsAreRecords'
    BY <1>0, <2>2, <2>4 DEF CommittedVerified, ObservationsAreRecords
  <2>10. Confirmed'
    BY <1>0, <2>1, <2>2, <2>4 DEF Confirmed, Holds
  <2> QED BY <2>6, <2>8, <2>9, <2>10
<1>4. CASE TruncateFails \/ FdatasyncFails
  <2> USE <1>4 DEF TruncateFails, FdatasyncFails, Done, Fault, fileVars, headVars, learnVars
  <2>1. initialized
    BY <1>i
  <2>2. call' \in [op : Ops, step : Steps, to : Modes, ok : BOOLEAN]
        /\ call'.step = "return" /\ ~call'.ok /\ call'.op = call.op
    BY DEF TypeOK, Steps
  <2>3. TypeOK'
    BY <2>2 DEF TypeOK
  <2>4. Progress' /\ Headed'
    BY <2>1, <2>2 DEF Progress, Headed
  <2>5. CommittedVerified' /\ Confirmed' /\ ObservationsAreRecords'
    BY DEF CommittedVerified, Confirmed, ObservationsAreRecords
  <2> QED BY <2>3, <2>4, <2>5
<1>5. CASE WriteHeader \/ FreezeHeader
  <2> USE <1>5 DEF WriteHeader, FreezeHeader, At, Done, headVars, learnVars, ghostVars
  <2>1. initialized /\ call.step \in {"header", "epochheader"}
    BY <1>i
  <2>2. Header(epoch, committed) \in Headers /\ Header(epoch, committed) # NoHeader
    BY StorageAssumption DEF TypeOK, Header, Headers
  <2>3. /\ cache' \in Files /\ cache'.recs = cache.recs /\ cache'.hdr # NoHeader
    BY <1>0, <2>2 DEF TypeOK, Files
  <2>4. /\ call' \in [op : Ops, step : Steps, to : Modes, ok : BOOLEAN]
        /\ call'.op = call.op
        /\ \/ call'.step \in {"sync", "epochsync"}
           \/ call'.step = "return" /\ call.op = "observe"
    <3>1. call \in [op : Ops, step : Steps, to : Modes, ok : BOOLEAN]
      BY DEF TypeOK
    <3>2. \/ call' = [call EXCEPT !.step = "sync"]
          \/ call' = [call EXCEPT !.step = "epochsync"]
          \/ call.op = "observe" /\ call' = [call EXCEPT !.step = "return", !.ok = TRUE]
      <4> HIDE DEF headVars, learnVars, ghostVars
      <4>1. CASE WriteHeader
        BY ONLY <4>1 DEF WriteHeader, At, Done
      <4>2. CASE FreezeHeader
        BY ONLY <4>2 DEF FreezeHeader, At
      <4> QED BY ONLY <1>5, <4>1, <4>2
    <3>3. {"sync", "epochsync", "return"} \subseteq Steps
      BY DEF Steps
    <3>4. CASE call' = [call EXCEPT !.step = "sync"]
      BY ONLY <3>1, <3>3, <3>4
    <3>5. CASE call' = [call EXCEPT !.step = "epochsync"]
      BY ONLY <3>1, <3>3, <3>5
    <3>6. CASE call.op = "observe" /\ call' = [call EXCEPT !.step = "return", !.ok = TRUE]
      BY ONLY <3>1, <3>3, <3>6
    <3> QED BY ONLY <3>2, <3>4, <3>5, <3>6
  <2>5. TypeOK'
    BY <2>3, <2>4 DEF TypeOK
  <2>6. Progress' /\ Headed'
    BY <2>1, <2>3, <2>4 DEF Progress, Headed
  <2>7. CommittedVerified' /\ Confirmed' /\ ObservationsAreRecords'
    BY <2>3 DEF CommittedVerified, Confirmed, ObservationsAreRecords
  <2> QED BY <2>5, <2>6, <2>7
<1>6. CASE WriteHeaderFails
  <2> USE <1>6 DEF WriteHeaderFails, Done, Fault, headVars, learnVars
  <2>1. initialized
    BY <1>i
  <2>2. /\ cache' \in Files /\ cache'.recs = cache.recs /\ cache'.hdr # NoHeader
    BY <1>0, <2>1, StorageAssumption DEF TypeOK, Files, Headers, Headed
  <2>3. call' \in [op : Ops, step : Steps, to : Modes, ok : BOOLEAN]
        /\ call'.step = "return" /\ ~call'.ok /\ call'.op = call.op
    BY DEF TypeOK, Steps
  <2>4. TypeOK'
    BY <2>2, <2>3 DEF TypeOK
  <2>5. Progress' /\ Headed'
    BY <2>1, <2>2, <2>3 DEF Progress, Headed
  <2>6. CommittedVerified' /\ Confirmed' /\ ObservationsAreRecords'
    BY <2>2 DEF CommittedVerified, Confirmed, ObservationsAreRecords
  <2> QED BY <2>4, <2>5, <2>6
<1>7. CASE Fdatasync \/ FreezeSync
  <2> USE <1>7 DEF Fdatasync, FreezeSync, At, Done, headVars, learnVars, ghostVars
  <2>1. initialized /\ call.step \in {"sync", "epochsync"}
    BY <1>i
  <2>2. /\ call' \in [op : Ops, step : Steps, to : Modes, ok : BOOLEAN]
        /\ call'.op = call.op /\ call'.step \in {"epochheader", "return"}
    BY DEF TypeOK, Steps
  <2>3. epoch' \in Nat /\ mode' \in Modes
    BY DEF TypeOK, Modes
  <2>4. /\ disk' = cache
        /\ UNCHANGED <<cache, initialized, committed, slab, predictor, nextSequence,
                       recoveredTail, stats, acked, learnedFrom, faults, crashes>>
    OBVIOUS
  <2>5. TypeOK'
    BY <2>2, <2>3, <2>4 DEF TypeOK
  <2>6. Progress' /\ Headed'
    BY <2>1, <2>2, <2>4 DEF Progress, Headed
  <2>7. CommittedVerified' /\ Confirmed' /\ ObservationsAreRecords'
    BY <2>4 DEF CommittedVerified, Confirmed, ObservationsAreRecords
  <2> QED BY <2>5, <2>6, <2>7
<1> QED BY <1>1, <1>2, <1>3, <1>4, <1>5, <1>6, <1>7 DEF Flushing
(* The calls above the file: observe fills the slab and counts, the others *)
(* enter a flush or take its outcome.                                      *)
LEMMA CallingIInv == IInv /\ Calling => IInv'
<1> SUFFICES ASSUME IInv, Calling PROVE IInv'
  OBVIOUS
<1> USE DEF IInv
<1>c. \A o \in Ops, s \in Steps, m \in Modes :
        Call(o, s, m) \in [op : Ops, step : Steps, to : Modes, ok : BOOLEAN]
  BY DEF Call
<1>d. Idle = Call("none", "idle", "OFF")
  BY DEF Idle, Call
<1>1. ASSUME NEW c \in Contexts, NEW k \in Candidates, Observe(c, k)
      PROVE  IInv'
  <2> DEFINE learning == mode \in Learning
             valid == learning /\ Predictable(predictor, c)
             pred == IF ~valid THEN "NONE"
                     ELSE IF Predict(predictor, c) = k THEN "CORRECT" ELSE "WRONG"
             r == [seq |-> nextSequence, born |-> crashes, ctx |-> c, cand |-> k,
                   mode |-> mode, pred |-> pred]
             full == Len(slab) >= RecordsPerSlab
  <2>1. /\ call = Idle /\ initialized
        /\ predictor' = IF learning THEN Update(predictor, c, k, nextSequence)
                                    ELSE predictor
        /\ slab' = IF full THEN slab ELSE Append(slab, r)
        /\ call' = IF ~full /\ Len(slab) + 1 = RecordsPerSlab
                   THEN Call("observe", "slab", mode) ELSE Idle
        /\ nextSequence' = nextSequence + 1
        /\ UNCHANGED <<cache, disk, initialized, mode, epoch, committed,
                       recoveredTail, acked, learnedFrom, faults, crashes>>
    BY <1>1 DEF Observe, SlabFull, LockFree, fileVars, headVars, ghostVars
  <2>2. /\ stats' \in Counters
        /\ stats'.observations = IF full THEN stats.observations
                                         ELSE stats.observations + 1
    <3> DEFINE b == IF valid THEN stats.predictions + 1 ELSE stats.predictions
               x == IF pred = "CORRECT" THEN stats.correct + 1 ELSE stats.correct
               y == IF pred = "WRONG" THEN stats.incorrect + 1 ELSE stats.incorrect
               z == IF full THEN stats.dropped + 1 ELSE stats.dropped
               o == IF full THEN stats.observations ELSE stats.observations + 1
    <3>1. stats \in Counters
      BY DEF TypeOK
    <3>2. b \in Nat /\ x \in Nat /\ y \in Nat /\ z \in Nat /\ o \in Nat
      BY <3>1 DEF Counters
    <3>3. stats' = [stats EXCEPT !.predictions = b, !.correct = x, !.incorrect = y,
                                 !.dropped = z, !.observations = o]
      BY <1>1 DEF Observe, SlabFull
    <3> HIDE DEF b, x, y, z, o
    <3>4. stats' \in Counters /\ stats'.observations = o
      BY <3>1, <3>2, <3>3 DEF Counters
    <3> QED BY <3>4 DEF o
  <2>3. r \in Records
    <3>1. pred \in {"NONE", "CORRECT", "WRONG"}
      OBVIOUS
    <3> HIDE DEF pred
    <3> QED BY <3>1 DEF TypeOK, Records
  <2> HIDE DEF r
  <2>4. predictor' \in Tables
    BY <2>1, UpdateType DEF TypeOK
  <2>5. /\ slab' \in Seq(Records) /\ Len(slab') <= RecordsPerSlab
        /\ Len(slab') = IF full THEN Len(slab) ELSE Len(slab) + 1
    BY <2>1, <2>3, StoreAssumption, AppendProperties DEF TypeOK
  <2>6. call' \in [op : Ops, step : Steps, to : Modes, ok : BOOLEAN]
    <3>1. mode \in Modes /\ "OFF" \in Modes
      BY DEF TypeOK, Modes
    <3>2. "observe" \in Ops /\ "none" \in Ops /\ "slab" \in Steps /\ "idle" \in Steps
      BY DEF Ops, Steps
    <3>3. CASE ~full /\ Len(slab) + 1 = RecordsPerSlab
      BY <1>c, <2>1, <3>1, <3>2, <3>3
    <3>4. CASE ~(~full /\ Len(slab) + 1 = RecordsPerSlab)
      BY <1>c, <1>d, <2>1, <3>1, <3>2, <3>4
    <3> QED BY <3>3, <3>4
  <2>7. TypeOK'
    BY <2>1, <2>2, <2>4, <2>5, <2>6 DEF TypeOK
  <2>8. \/ call'.op = "none" /\ call'.step = "idle"
        \/ call'.op = "observe" /\ call'.step = "slab"
    BY <2>1 DEF Idle, Call
  <2>9. Progress' /\ Headed'
    BY <2>1, <2>8 DEF Progress, Headed
  <2>10. CommittedVerified' /\ Confirmed'
    BY <2>1 DEF CommittedVerified, Confirmed
  <2>11. ObservationsAreRecords'
    BY <2>1, <2>2, <2>5 DEF ObservationsAreRecords, TypeOK
  <2> QED BY <2>7, <2>9, <2>10, <2>11
<1>2. CASE ReturnObserve
  <2>1. /\ call.op = "observe" /\ call.step = "return" /\ call' = Idle
        /\ stats' = [stats EXCEPT !.dropped = IF call.ok THEN @ ELSE @ + 1]
        /\ UNCHANGED <<cache, disk, initialized, mode, epoch, committed, slab,
                       predictor, nextSequence, recoveredTail, acked, learnedFrom,
                       faults, crashes>>
    BY <1>2 DEF ReturnObserve, fileVars, headVars, ghostVars
  <2>2. stats' \in Counters /\ stats'.observations = stats.observations
    <3>1. stats \in Counters
      BY DEF TypeOK
    <3>2. stats' = stats \/ stats' = [stats EXCEPT !.dropped = @ + 1]
      <4>1. stats = [stats EXCEPT !.dropped = @]
        BY <3>1 DEF Counters
      <4> QED BY <2>1, <4>1
    <3> QED BY ONLY <3>1, <3>2 DEF Counters
  <2>3. TypeOK'
    <3>1. call' \in [op : Ops, step : Steps, to : Modes, ok : BOOLEAN]
      BY <2>1 DEF Idle, Ops, Steps, Modes
    <3> QED BY <2>1, <2>2, <3>1, SMTT(30) DEF TypeOK
  <2>4. Progress' /\ Headed'
    BY <2>1 DEF Progress, Headed, Idle
  <2>5. CommittedVerified' /\ Confirmed' /\ ObservationsAreRecords'
    BY <2>1, <2>2 DEF CommittedVerified, Confirmed, ObservationsAreRecords
  <2> QED BY <2>3, <2>4, <2>5
<1>3. ASSUME NEW m \in CallModes, SetModeRunning(m) PROVE IInv'
  <2>1. /\ epoch' \in Nat /\ mode' \in Modes
        /\ UNCHANGED <<cache, disk, initialized, committed, slab, predictor,
                       nextSequence, recoveredTail, stats, call, acked, learnedFrom,
                       faults, crashes>>
    BY <1>3, StoreAssumption DEF SetModeRunning, fileVars, learnVars, ghostVars, TypeOK
  <2>2. TypeOK' /\ Progress' /\ Headed'
    BY <2>1 DEF TypeOK, Progress, Headed
  <2>3. CommittedVerified' /\ Confirmed' /\ ObservationsAreRecords'
    BY <2>1 DEF CommittedVerified, Confirmed, ObservationsAreRecords
  <2> QED BY <2>2, <2>3
<1>4. CASE (\E m \in CallModes : SetModePaused(m)) \/ Flush \/ Freeze \/ Close
  <2>1. /\ call = Idle /\ initialized
        /\ UNCHANGED <<cache, disk, initialized, mode, epoch, committed, slab,
                       predictor, nextSequence, recoveredTail, stats, acked,
                       learnedFrom, faults, crashes>>
    BY <1>4 DEF SetModePaused, Flush, Freeze, Close, LockFree, fileVars, headVars,
                learnVars, ghostVars
  <2>2. \E o \in {"set_mode", "flush", "freeze", "close"}, m \in Modes :
          call' = Call(o, "slab", m)
    BY <1>4, StoreAssumption DEF SetModePaused, Flush, Freeze, Close, TypeOK, Modes
  <2>3. /\ call' \in [op : Ops, step : Steps, to : Modes, ok : BOOLEAN]
        /\ call'.op \in {"set_mode", "flush", "freeze", "close"} /\ call'.step = "slab"
    BY <2>2 DEF Call, Ops, Steps
  <2>4. TypeOK'
    BY <2>1, <2>3 DEF TypeOK
  <2>5. Progress' /\ Headed'
    BY <2>1, <2>3 DEF Progress, Headed
  <2>6. CommittedVerified' /\ Confirmed' /\ ObservationsAreRecords'
    BY <2>1 DEF CommittedVerified, Confirmed, ObservationsAreRecords
  <2> QED BY <2>4, <2>5, <2>6
<1>r. /\ call.op \in {"set_mode", "flush", "freeze", "close"}
      /\ call.step = "return" /\ call.ok
      => /\ \A i \in 1 .. Len(cache.recs) : cache.recs[i] # Garbage
         /\ disk = cache /\ Len(cache.recs) = committed /\ cache.recs \in Seq(Slots)
  BY DEF Progress, CommittedVerified, TypeOK, Files
<1>5. CASE ReturnSetMode \/ ReturnFlush
  <2>1. /\ call.op \in {"set_mode", "flush", "freeze"} /\ call.step = "return"
        /\ call' = Idle
        /\ acked' = IF call.ok THEN cache.recs ELSE acked
        /\ epoch' \in Nat /\ mode' \in Modes
        /\ UNCHANGED <<cache, disk, initialized, committed, slab, predictor,
                       nextSequence, recoveredTail, stats, learnedFrom, faults, crashes>>
    BY <1>5 DEF ReturnSetMode, ReturnFlush, fileVars, headVars, learnVars, TypeOK
  <2>2. TypeOK'
    <3>1. call' \in [op : Ops, step : Steps, to : Modes, ok : BOOLEAN]
      <4>1. Idle \in [op : Ops, step : Steps, to : Modes, ok : BOOLEAN]
        BY ONLY DEF Idle, Ops, Steps, Modes
      <4> QED BY <2>1, <4>1
    <3>2. acked' \in Seq(Slots)
      BY <2>1 DEF TypeOK, Files
    <3> QED BY <2>1, <3>1, <3>2 DEF TypeOK
  <2>3. Progress' /\ Headed'
    BY <2>1 DEF Progress, Headed, Idle
  <2>4. CommittedVerified' /\ ObservationsAreRecords'
    BY <2>1 DEF CommittedVerified, ObservationsAreRecords
  <2>5. Confirmed'
    BY <2>1, <1>r DEF Confirmed, Holds, TypeOK
  <2> QED BY <2>2, <2>3, <2>4, <2>5
<1>6. CASE ResetVolatile
  <2>1. /\ predictor' = EmptyTable
        /\ stats' = [stats EXCEPT !.predictions = 0, !.correct = 0, !.incorrect = 0]
        /\ epoch' = epoch + 1 /\ learnedFrom' = committed + Len(slab)
        /\ UNCHANGED <<cache, disk, initialized, mode, committed, slab, nextSequence,
                       recoveredTail, call, acked, faults, crashes>>
    BY <1>6 DEF ResetVolatile, ScoreCleared, fileVars
  <2>2. predictor' \in Tables
    BY <2>1 DEF EmptyTable, Tables
  <2>3. stats' \in Counters /\ stats'.observations = stats.observations
    BY <2>1 DEF TypeOK, Counters
  <2>4. TypeOK'
    BY <2>1, <2>2, <2>3 DEF TypeOK
  <2>5. Progress' /\ Headed'
    BY <2>1 DEF Progress, Headed
  <2>6. CommittedVerified' /\ Confirmed' /\ ObservationsAreRecords'
    BY <2>1, <2>3 DEF CommittedVerified, Confirmed, ObservationsAreRecords
  <2> QED BY <2>4, <2>5, <2>6
<1>7. CASE ReturnClose
  <2>1. /\ call.op = "close" /\ call.step = "return" /\ ZeroState
        /\ acked' = IF call.ok THEN cache.recs ELSE acked
        /\ UNCHANGED <<cache, disk, faults, crashes>>
    BY <1>7 DEF ReturnClose, fileVars
  <2>2. Headed'
    BY <2>1 DEF Headed, ZeroState, Idle
  <2>3. /\ acked' \in Seq(Slots) /\ \A i \in 1 .. Len(acked') : acked'[i] # Garbage
        /\ Holds(cache'.recs, acked') /\ Holds(disk'.recs, acked')
    BY <2>1, <1>r DEF Confirmed, Holds, TypeOK
  <2> QED BY <2>1, <2>2, <2>3, ZeroStateIInv DEF TypeOK
<1> QED BY <1>1, <1>2, <1>3, <1>4, <1>5, <1>6, <1>7 DEF Calling

(* A death of the process keeps both images; one of the machine replaces   *)
(* both by an image that agrees with what they agreed on.                  *)
LEMMA DeathIInv == IInv /\ (Crash \/ PowerLoss) => IInv'
<1> SUFFICES ASSUME IInv, Crash \/ PowerLoss PROVE IInv'
  OBVIOUS
<1> USE DEF IInv
<1>1. CASE Crash
  <2>1. ZeroState /\ crashes' \in Nat /\ UNCHANGED <<cache, disk, acked, faults>>
    BY <1>1 DEF Crash, fileVars, TypeOK
  <2>2. Headed'
    BY <2>1 DEF Headed, ZeroState, Idle
  <2> QED BY <2>1, <2>2, ZeroStateIInv DEF TypeOK, Confirmed
<1>2. CASE PowerLoss
  <2>1. /\ ZeroState /\ crashes' \in Nat /\ UNCHANGED <<acked, faults>>
        /\ \E f \in FilesAfterLoss(disk, cache) : cache' = f /\ disk' = f
    BY <1>2 DEF PowerLoss, TypeOK
  <2>2. PICK h \in {disk.hdr, cache.hdr, TornHeader},
             r \in AreasAfterLoss(disk.recs, cache.recs) :
          /\ cache' = [hdr |-> IF h = NoHeader /\ r # << >> THEN TornHeader ELSE h,
                       recs |-> r]
          /\ disk' = cache'
    BY <2>1 DEF FilesAfterLoss, HeadersAfterLoss
  <2>3. disk.recs \in Seq(Slots) /\ cache.recs \in Seq(Slots) /\ acked \in Seq(Slots)
        /\ Garbage \in Slots
    BY DEF TypeOK, Files, Slots
  <2>4. r \in Seq(Slots) /\ Holds(r, acked)
    BY <2>2, <2>3, LossProperties DEF Confirmed
  <2>5. cache' \in Files /\ disk' \in Files
    BY <2>2, <2>4 DEF TypeOK, Files, Headers
  <2>6. Headed'
    BY <2>1, <2>2, StorageAssumption DEF Headed, ZeroState, Idle
  <2>7. /\ acked' \in Seq(Slots) /\ \A i \in 1 .. Len(acked') : acked'[i] # Garbage
        /\ Holds(cache'.recs, acked') /\ Holds(disk'.recs, acked')
    BY <2>1, <2>2, <2>3, <2>4 DEF Confirmed
  <2> QED BY <2>1, <2>5, <2>6, <2>7, ZeroStateIInv DEF TypeOK
<1> QED BY <1>1, <1>2

LEMMA StutterIInv == IInv /\ UNCHANGED vars => IInv'
BY DEF IInv, vars, TypeOK, Progress, Headed, CommittedVerified, Confirmed,
       ObservationsAreRecords

-----------------------------------------------------------------------------
(* The strengthened invariant holds throughout.                            *)
THEOREM Inductive == Spec => []IInv
<1>1. IInv /\ [Next]_vars => IInv'
  BY OpeningIInv, FlushingIInv, CallingIInv, DeathIInv, StutterIInv DEF Next
<1> QED BY <1>1, InitIInv, PTL DEF Spec

(* Every variable keeps its type, slab and predictor their fixed sizes.    *)
THEOREM TypeCorrect == Spec => []TypeOK
BY Inductive, PTL DEF IInv

(* Records that flush, freeze, close or a pause reported as written are on *)
(* the disk for good, whatever fails or dies after the report.             *)
THEOREM AckedRecordsAreDurable == Spec => []AckedDurable
<1>1. IInv => AckedDurable
  BY DEF IInv, Confirmed, Holds, AckedDurable
<1> QED BY <1>1, Inductive, PTL

(* records_committed never runs ahead of verified records in the file.     *)
THEOREM CommittedIsVerified == Spec => []CommittedVerified
BY Inductive, PTL DEF IInv

(* The observation counter and the length of the log never part.           *)
THEOREM ObservationsCountRecords == Spec => []ObservationsAreRecords
BY Inductive, PTL DEF IInv
-----------------------------------------------------------------------------
(* What the log of LearningStore keeps of its numbers, whatever dies, the  *)
(* process or the machine.                                                 *)

(* After a flush that succeeded the slab is empty.                         *)
FlushedIsEmpty ==
  /\ call.step \in {"size", "header", "sync", "epochheader", "epochsync"} => slab = << >>
  /\ call.step = "return" /\ call.ok => slab = << >>

(* No record that counts has the next number, or a higher one.             *)
NextIsFresh ==
  /\ \A i \in 1 .. committed : cache.recs[i].seq < nextSequence
  /\ \A j \in 1 .. Len(slab) : slab[j].seq < nextSequence

FreshInv == FlushedIsEmpty /\ NextIsFresh

(* What a flush, at whichever of its system calls, does to the records     *)
(* that count: they stay where they are, and perhaps the slab follows them.*)
LEMMA FlushingMoves ==
  ASSUME IInv, Flushing
  PROVE  /\ initialized /\ initialized' = initialized
         /\ acked' = acked /\ nextSequence' = nextSequence
         /\ \A i \in 1 .. committed : cache'.recs[i] = cache.recs[i]
         /\ \/ committed' = committed /\ slab' = slab
            \/ /\ committed' = committed + Len(slab) /\ slab' = << >>
               /\ \A i \in 1 .. Len(slab) : cache'.recs[committed + i] = slab[i]
<1>0. /\ cache.recs \in Seq(Slots) /\ slab \in Seq(Slots) /\ Garbage \in Slots
      /\ committed \in 0 .. Len(cache.recs)
  BY SeqMonotonic DEF IInv, TypeOK, Files, CommittedVerified, Slots
<1>i. call.step \notin {"idle", "headersync", "replay"} => initialized
  BY DEF IInv, Progress, TypeOK, Ops
<1> DEFINE f == cache.recs
           g == cache'.recs
<1>1. CASE WriteSlab
  <2>1. initialized /\ UNCHANGED <<initialized, acked, nextSequence>>
    BY <1>1, <1>i DEF WriteSlab, learnVars, ghostVars
  <2>2. CASE slab = << >>
    BY <1>1, <2>1, <2>2 DEF WriteSlab
  <2>3. CASE slab # << >>
    <3>1. g = WriteAt(f, committed, slab) /\ committed' = committed + Len(slab) /\ slab' = << >>
      BY <1>1, <2>3 DEF WriteSlab, IInv, TypeOK, Files
    <3>2. f \in Seq(Slots) /\ slab \in Seq(Slots) /\ committed \in 0 .. Len(f) /\ committed \in Nat
          /\ Len(slab) \in Nat
      BY <1>0
    <3> HIDE DEF f, g
    <3>3. /\ \A i \in 1 .. committed : WriteAt(f, committed, slab)[i] = f[i]
          /\ \A i \in committed + 1 .. committed + Len(slab) :
               WriteAt(f, committed, slab)[i] = slab[i - committed]
      <4> DEFINE w == WriteAt(f, committed, slab)
      <4>1. /\ w \in Seq(Slots)
            /\ \A i \in 1 .. committed : w[i] = f[i]
            /\ \A i \in committed + 1 .. committed + Len(slab) : w[i] = slab[i - committed]
        BY <3>2, WriteAtProperties
      <4> QED BY <4>1
    <3>4. ASSUME NEW i \in 1 .. Len(slab) PROVE g[committed + i] = slab[i]
      <4> DEFINE k == committed + i
      <4>1. k \in committed + 1 .. committed + Len(slab) /\ k - committed = i
        BY <3>2
      <4> HIDE DEF k
      <4>2. g[k] = slab[i]
        BY <3>1, <3>3, <4>1
      <4> QED BY <4>2 DEF k
    <3> QED BY <2>1, <3>1, <3>3, <3>4 DEF f, g
  <2> QED BY <2>2, <2>3
<1>2. CASE WriteSlabFails
  <2>1. initialized /\ UNCHANGED <<initialized, committed, slab, acked, nextSequence>>
    BY <1>2, <1>i DEF WriteSlabFails, learnVars, headVars
  <2>2. PICK j \in 0 .. Len(slab) - 1 :
          \/ cache' = [cache EXCEPT !.recs = WriteAt(@, committed, SubSeq(slab, 1, j))]
          \/ cache' = [cache EXCEPT !.recs = WriteTorn(@, committed, slab, j)]
    BY <1>2 DEF WriteSlabFails
  <2> DEFINE u == SubSeq(slab, 1, j)
  <2>3. g = WriteAt(f, committed, u) \/ g = WriteTorn(f, committed, slab, j)
    BY <2>2 DEF IInv, TypeOK, Files
  <2>4. /\ f \in Seq(Slots) /\ slab \in Seq(Slots) /\ committed \in 0 .. Len(f)
        /\ Garbage \in Slots /\ u \in Seq(Slots)
    BY <1>0, SubSeqProperties
  <2> HIDE DEF f, g, u
  <2>5. \A i \in 1 .. committed : WriteAt(f, committed, u)[i] = f[i]
    BY ONLY <2>4, WriteAtProperties
  <2>6. \A i \in 1 .. committed : WriteTorn(f, committed, slab, j)[i] = f[i]
    BY ONLY <2>4, WriteTornProperties
  <2> QED BY <2>1, <2>3, <2>5, <2>6 DEF f, g
<1>3. CASE TruncateFile
  <2>1. /\ initialized /\ UNCHANGED <<initialized, committed, slab, acked, nextSequence>>
        /\ g = Truncate(f, committed)
    BY <1>3, <1>i DEF TruncateFile, learnVars, headVars, ghostVars, IInv, TypeOK, Files
  <2>2. f \in Seq(Slots) /\ committed \in 0 .. Len(f)
    BY <1>0
  <2> HIDE DEF f, g
  <2>3. \A i \in 1 .. committed : Truncate(f, committed)[i] = f[i]
    BY ONLY <2>2, TruncateProperties
  <2> QED BY <2>1, <2>3 DEF f, g
<1>4. CASE TruncateFails \/ FdatasyncFails \/ Fdatasync \/ FreezeSync
  BY <1>4, <1>i DEF TruncateFails, FdatasyncFails, Fdatasync, FreezeSync, fileVars, headVars,
                    learnVars, ghostVars
<1>5. CASE WriteHeader \/ WriteHeaderFails \/ FreezeHeader
  <2>1. cache'.recs = cache.recs
    BY <1>5 DEF WriteHeader, WriteHeaderFails, FreezeHeader, IInv, TypeOK, Files
  <2> QED BY <1>5, <1>i, <2>1
          DEF WriteHeader, WriteHeaderFails, FreezeHeader, headVars, learnVars, ghostVars
<1> QED BY <1>1, <1>2, <1>3, <1>4, <1>5 DEF Flushing

LEMMA FreshStart == Init => FreshInv
BY DEF Init, EmptyFile, Idle, FreshInv, FlushedIsEmpty, NextIsFresh

LEMMA SameFresh ==
  ASSUME FreshInv, FlushedIsEmpty', UNCHANGED <<cache.recs, committed, slab, nextSequence>>
  PROVE  FreshInv'
BY DEF FreshInv, NextIsFresh

(* A zeroed state counts no records.                                       *)
LEMMA ZeroFresh == ZeroState => FreshInv'
BY DEF ZeroState, Idle, FreshInv, FlushedIsEmpty, NextIsFresh

LEMMA OpeningFresh == ASSUME IInv, IInv', FreshInv, Opening PROVE FreshInv'
<1>0. /\ cache.recs \in Seq(Slots) /\ nextSequence \in Nat
      /\ committed \in Nat /\ committed <= Len(cache.recs)
      /\ \A i \in 1 .. committed : cache.recs[i] # Garbage
      /\ \A i \in 1 .. committed : cache.recs[i].seq < nextSequence
  BY DEF IInv, TypeOK, Files, CommittedVerified, FreshInv, NextIsFresh
<1>1. CASE OpenEmpty \/ OpenEmptyFails
  <2>1. cache'.recs = cache.recs
    BY <1>1 DEF OpenEmpty, OpenEmptyFails, IInv, TypeOK, Files
  <2>2. FlushedIsEmpty'
    BY <1>1 DEF OpenEmpty, OpenEmptyFails, Call, FreshInv, FlushedIsEmpty
  <2> QED BY <1>1, <2>1, <2>2, SameFresh DEF OpenEmpty, OpenEmptyFails, headVars, learnVars
<1>2. CASE OpenExisting \/ OpenRejected
  <2>1. FlushedIsEmpty'
    BY <1>2 DEF OpenExisting, OpenRejected, Call, FreshInv, FlushedIsEmpty, vars
  <2> QED BY <1>2, <2>1, SameFresh DEF OpenExisting, OpenRejected, fileVars, learnVars, vars
<1>3. CASE OpenSync
  BY <1>3 DEF OpenSync, IInv, Progress, Idle, FreshInv, FlushedIsEmpty, NextIsFresh
<1>4. CASE ReplayRecord
  <2> DEFINE r == cache.recs[committed + 1]
  <2>1. /\ committed < Len(cache.recs) /\ r # Garbage
        /\ nextSequence' = IF r.seq >= nextSequence THEN r.seq + 1 ELSE nextSequence
        /\ committed' = committed + 1 /\ slab = << >>
        /\ UNCHANGED <<cache, slab, call>>
    BY <1>4 DEF ReplayRecord, fileVars, IInv, Progress
  <2>2. r \in Records
    BY <2>1, <1>0 DEF Slots
  <2>3. r.seq \in Nat
    BY <2>2 DEF Records
  <2>4. ASSUME NEW i \in 1 .. committed + 1 PROVE cache.recs[i].seq < nextSequence'
    <3>1. CASE i = committed + 1
      BY <3>1, <2>1, <2>3, <1>0
    <3>2. CASE i # committed + 1
      <4>1. i \in 1 .. committed /\ i \in 1 .. Len(cache.recs)
        BY <3>2, <1>0
      <4>2. cache.recs[i] \in Records
        BY <4>1, <1>0 DEF Slots
      <4>3. cache.recs[i].seq \in Nat /\ cache.recs[i].seq < nextSequence
        BY <4>1, <4>2, <1>0 DEF Records
      <4> HIDE DEF r
      <4> QED BY <4>3, <2>1, <2>3, <1>0
    <3> QED BY <3>1, <3>2
  <2>5. NextIsFresh'
    BY <2>1, <2>4 DEF NextIsFresh
  <2> QED BY <2>1, <2>5 DEF FreshInv, FlushedIsEmpty
<1>5. CASE ReplayEnd
  <2>1. /\ nextSequence' = IF nextSequence = 0 THEN committed + 1 ELSE nextSequence
        /\ slab = << >> /\ call' = Idle
        /\ UNCHANGED <<cache, committed, slab>>
    BY <1>5 DEF ReplayEnd, fileVars, headVars, IInv, Progress
  <2>2. ASSUME NEW i \in 1 .. committed PROVE cache.recs[i].seq < nextSequence'
    <3>1. i \in 1 .. Len(cache.recs)
      BY <1>0
    <3>2. cache.recs[i] \in Records
      BY <3>1, <1>0 DEF Slots
    <3>3. cache.recs[i].seq \in Nat /\ cache.recs[i].seq < nextSequence
      BY <3>2, <1>0 DEF Records
    <3> QED BY <3>3, <2>1, <1>0
  <2>3. NextIsFresh'
    BY <2>1, <2>2 DEF NextIsFresh
  <2> QED BY <2>1, <2>3 DEF FreshInv, FlushedIsEmpty, Idle
<1>6. CASE OpenFails
  BY <1>6, ZeroFresh DEF OpenFails
<1> QED BY <1>1, <1>2, <1>3, <1>4, <1>5, <1>6 DEF Opening

LEMMA FlushingFresh == ASSUME IInv, IInv', FreshInv, Flushing PROVE FreshInv'
<1>1. FlushedIsEmpty'
  <2>1. CASE WriteSlab
    <3>1. slab' = << >>
      <4>1. CASE slab = << >>
        BY <2>1, <4>1 DEF WriteSlab
      <4>2. CASE slab # << >>
        BY <2>1, <4>2 DEF WriteSlab
      <4> QED BY <4>1, <4>2
    <3> QED BY <3>1 DEF FlushedIsEmpty
  <2>2. CASE WriteSlabFails \/ TruncateFails \/ FdatasyncFails \/ WriteHeaderFails
    <3>1. call'.ok = FALSE /\ call'.step = "return"
      BY <2>2 DEF WriteSlabFails, TruncateFails, FdatasyncFails, WriteHeaderFails, Done, IInv, TypeOK
    <3> QED BY <3>1 DEF FlushedIsEmpty
  <2>3. CASE TruncateFile \/ WriteHeader \/ FreezeHeader \/ Fdatasync \/ FreezeSync
    <3>1. /\ call.step \in {"size", "header", "sync", "epochheader", "epochsync"}
          /\ slab' = slab
      BY <2>3 DEF TruncateFile, WriteHeader, FreezeHeader, Fdatasync, FreezeSync
    <3> QED BY <3>1 DEF FreshInv, FlushedIsEmpty
  <2> QED BY <2>1, <2>2, <2>3 DEF Flushing
<1>2. NextIsFresh'
  <2>1. /\ nextSequence' = nextSequence /\ committed \in Nat /\ Len(slab) \in Nat
        /\ \A i \in 1 .. committed : cache'.recs[i] = cache.recs[i]
    BY FlushingMoves DEF IInv, TypeOK
  <2>2. CASE committed' = committed /\ slab' = slab
    BY <2>1, <2>2 DEF FreshInv, NextIsFresh
  <2>3. CASE /\ committed' = committed + Len(slab) /\ slab' = << >>
             /\ \A i \in 1 .. Len(slab) : cache'.recs[committed + i] = slab[i]
    <3>1. ASSUME NEW i \in 1 .. committed + Len(slab) PROVE cache'.recs[i].seq < nextSequence
      <4>1. CASE i <= committed
        <5>1. i \in 1 .. committed
          BY <2>1, <4>1
        <5> QED BY <2>1, <5>1 DEF FreshInv, NextIsFresh
      <4>2. CASE i > committed
        <5>1. PICK j \in 1 .. Len(slab) : i = committed + j
          <6>1. i - committed \in 1 .. Len(slab) /\ i = committed + (i - committed)
            BY <2>1, <4>2
          <6> QED BY <6>1
        <5> QED BY <2>3, <5>1 DEF FreshInv, NextIsFresh
      <4> QED BY <2>1, <4>1, <4>2
    <3> QED BY <2>1, <2>3, <3>1 DEF NextIsFresh
  <2> QED BY <2>2, <2>3, FlushingMoves
<1> QED BY <1>1, <1>2 DEF FreshInv

LEMMA CallingFresh == ASSUME IInv, IInv', FreshInv, Calling PROVE FreshInv'
<1>0. /\ slab \in Seq(Records) /\ nextSequence \in Nat
      /\ committed \in 0 .. Len(cache.recs) /\ cache.recs \in Seq(Slots)
      /\ \A i \in 1 .. committed : cache.recs[i] # Garbage
  BY DEF IInv, TypeOK, Files, CommittedVerified
<1>1. ASSUME NEW c \in Contexts, NEW k \in Candidates, Observe(c, k) PROVE FreshInv'
  <2>1. /\ nextSequence' = nextSequence + 1 /\ UNCHANGED <<cache, committed>>
        /\ call'.step \in {"idle", "slab"}
    BY <1>1 DEF Observe, fileVars, headVars, Call, Idle
  <2>2. \/ slab' = slab
        \/ \E r : r.seq = nextSequence /\ slab' = Append(slab, r)
    BY <1>1 DEF Observe
  <2>3. ASSUME NEW j \in 1 .. committed PROVE cache.recs[j].seq < nextSequence'
    <3>1. j \in 1 .. Len(cache.recs)
      BY <1>0
    <3>2. cache.recs[j] \in Records
      BY <3>1, <1>0 DEF Slots
    <3>3. cache.recs[j].seq \in Nat /\ cache.recs[j].seq < nextSequence
      BY <3>2 DEF Records, FreshInv, NextIsFresh
    <3> QED BY <3>3, <2>1, <1>0
  <2>4. ASSUME NEW j \in 1 .. Len(slab) PROVE slab[j].seq < nextSequence'
    <3>1. slab[j] \in Records
      BY <1>0
    <3>2. slab[j].seq \in Nat /\ slab[j].seq < nextSequence
      BY <3>1 DEF Records, FreshInv, NextIsFresh
    <3> QED BY <3>2, <2>1, <1>0
  <2>5. \A j \in 1 .. Len(slab') : slab'[j].seq < nextSequence'
    <3>1. ASSUME NEW r, r.seq = nextSequence, slab' = Append(slab, r),
                 NEW j \in 1 .. Len(slab')
          PROVE  slab'[j].seq < nextSequence'
      <4>1. /\ Len(slab') = Len(slab) + 1 /\ slab'[Len(slab) + 1] = r
            /\ \A m \in 1 .. Len(slab) : slab'[m] = slab[m]
        BY <3>1, <1>0
      <4>2. CASE j = Len(slab) + 1
        BY <3>1, <4>1, <4>2, <2>1, <1>0
      <4>3. CASE j # Len(slab) + 1
        <5>1. j \in 1 .. Len(slab)
          BY <4>1, <4>3, <1>0
        <5> QED BY <5>1, <4>1, <2>4
      <4> QED BY <4>2, <4>3
    <3> QED BY <2>2, <2>4, <3>1
  <2> QED BY <2>1, <2>3, <2>5 DEF FreshInv, FlushedIsEmpty, NextIsFresh
<1>2. CASE ReturnObserve \/ ReturnSetMode \/ ReturnFlush
  <2>1. FlushedIsEmpty'
    BY <1>2 DEF ReturnObserve, ReturnSetMode, ReturnFlush, FlushedIsEmpty, Idle
  <2> QED BY <1>2, <2>1, SameFresh
          DEF ReturnObserve, ReturnSetMode, ReturnFlush, fileVars, headVars, learnVars
<1>3. ASSUME NEW m \in CallModes, SetModeRunning(m) \/ SetModePaused(m) PROVE FreshInv'
  <2>1. FlushedIsEmpty'
    BY <1>3 DEF SetModeRunning, SetModePaused, FreshInv, FlushedIsEmpty, Call
  <2> QED BY <1>3, <2>1, SameFresh
          DEF SetModeRunning, SetModePaused, fileVars, headVars, learnVars
<1>4. CASE Flush \/ Freeze \/ Close \/ ResetVolatile
  <2>1. FlushedIsEmpty'
    BY <1>4 DEF Flush, Freeze, Close, ResetVolatile, FreshInv, FlushedIsEmpty, Call
  <2> QED BY <1>4, <2>1, SameFresh
          DEF Flush, Freeze, Close, ResetVolatile, fileVars, headVars, learnVars
<1>5. CASE ReturnClose
  BY <1>5, ZeroFresh DEF ReturnClose
<1> QED BY <1>1, <1>2, <1>3, <1>4, <1>5 DEF Calling

LEMMA FreshStep == ASSUME IInv, IInv', FreshInv, [Next]_vars PROVE FreshInv'
<1>1. CASE UNCHANGED vars
  BY <1>1, SameFresh DEF vars, FreshInv, FlushedIsEmpty
<1>2. CASE Crash \/ PowerLoss
  BY <1>2, ZeroFresh DEF Crash, PowerLoss
<1> QED BY <1>1, <1>2, OpeningFresh, FlushingFresh, CallingFresh DEF Next

LEMMA NumbersStayFresh == Spec => []FreshInv
<1>1. IInv /\ IInv' /\ FreshInv /\ [Next]_vars => FreshInv'
  BY FreshStep
<1> QED BY <1>1, FreshStart, Inductive, PTL DEF Spec

-----------------------------------------------------------------------------
(* The header of a file that is read or has just been written.             *)

HeaderSound ==
  (\/ call.step \in {"headersync", "replay", "sync", "epochheader", "epochsync"}
   \/ (call.step = "return" /\ call.ok))
    => cache.hdr # TornHeader

LEMMA WrittenIsSound == IInv => Header(epoch, committed) # TornHeader
BY StorageAssumption DEF Header, IInv, TypeOK

LEMMA OpeningSound == ASSUME IInv, HeaderSound, Opening PROVE HeaderSound'
<1>1. CASE OpenEmpty
  <2>1. Header(1, 0) # TornHeader
    BY StorageAssumption DEF Header
  <2> QED BY <1>1, <2>1 DEF OpenEmpty, HeaderSound, IInv, TypeOK, Files
<1>2. CASE OpenEmptyFails \/ OpenRejected \/ OpenFails
  BY <1>2 DEF OpenEmptyFails, OpenRejected, OpenFails, ZeroState, vars, HeaderSound, Idle,
              LockFree
<1>3. CASE OpenExisting
  BY <1>3 DEF OpenExisting, fileVars, HeaderSound, Call
<1>4. CASE ReplayRecord
  BY <1>4 DEF ReplayRecord, fileVars, HeaderSound
<1>5. CASE OpenSync \/ ReplayEnd
  BY <1>5 DEF OpenSync, ReplayEnd, HeaderSound, Idle
<1> QED BY <1>1, <1>2, <1>3, <1>4, <1>5 DEF Opening

LEMMA FlushingSound == ASSUME IInv, HeaderSound, Flushing PROVE HeaderSound'
<1>0. /\ call \in [op : Ops, step : Steps, to : Modes, ok : BOOLEAN]
      /\ cache \in Files /\ Header(epoch, committed) # TornHeader
  BY WrittenIsSound DEF IInv, TypeOK
<1> USE DEF HeaderSound
<1>1. CASE WriteSlab \/ TruncateFile
  <2>1. call'.step \in {"size", "header"}
    BY <1>0, <1>1 DEF WriteSlab, TruncateFile, At
  <2> QED BY <2>1
<1>2. CASE WriteSlabFails \/ TruncateFails \/ WriteHeaderFails \/ FdatasyncFails
  <2>1. call'.step = "return" /\ call'.ok = FALSE
    BY <1>0, <1>2 DEF WriteSlabFails, TruncateFails, WriteHeaderFails, FdatasyncFails, Done
  <2> QED BY <2>1
<1>3. CASE WriteHeader \/ FreezeHeader
  <2>1. cache'.hdr = Header(epoch, committed)
    BY <1>0, <1>3 DEF WriteHeader, FreezeHeader, Files
  <2> QED BY <1>0, <2>1
<1>4. CASE Fdatasync \/ FreezeSync
  BY <1>4 DEF Fdatasync, FreezeSync
<1> QED BY <1>1, <1>2, <1>3, <1>4 DEF Flushing

LEMMA CallingSound == ASSUME IInv, HeaderSound, Calling PROVE HeaderSound'
<1>1. call'.step \in {"idle", "slab"}
  <2>1. ASSUME NEW c \in Contexts, NEW k \in Candidates, Observe(c, k)
        PROVE  call'.step \in {"idle", "slab"}
    BY <2>1 DEF Observe, Call, Idle
  <2>2. ASSUME NEW m \in CallModes, SetModeRunning(m) \/ SetModePaused(m)
        PROVE  call'.step \in {"idle", "slab"}
    BY <2>2 DEF SetModeRunning, SetModePaused, Call, Idle, LockFree
  <2>3. CASE ReturnObserve \/ ReturnSetMode \/ ReturnFlush \/ ReturnClose
    BY <2>3 DEF ReturnObserve, ReturnSetMode, ReturnFlush, ReturnClose, ZeroState, Idle
  <2>4. CASE Flush \/ Freeze \/ Close \/ ResetVolatile
    BY <2>4 DEF Flush, Freeze, Close, ResetVolatile, Call, Idle, LockFree
  <2> QED BY <2>1, <2>2, <2>3, <2>4 DEF Calling
<1> QED BY <1>1 DEF HeaderSound

(* A call reads on, and a flush returns OK, only with a header that is     *)
(* whole.                                                                  *)
LEMMA HeadersStaySound == Spec => []HeaderSound
<1>1. Init => HeaderSound
  BY DEF Init, Idle, HeaderSound
<1>2. IInv /\ HeaderSound /\ [Next]_vars => HeaderSound'
  <2> SUFFICES ASSUME IInv, HeaderSound, [Next]_vars PROVE HeaderSound'
    OBVIOUS
  <2>1. CASE UNCHANGED vars
    BY <2>1 DEF vars, HeaderSound
  <2>2. CASE Crash \/ PowerLoss
    BY <2>2 DEF Crash, PowerLoss, ZeroState, Idle, HeaderSound
  <2> QED BY <2>1, <2>2, OpeningSound, FlushingSound, CallingSound DEF Next
<1> QED BY <1>1, <1>2, Inductive, PTL DEF Spec

-----------------------------------------------------------------------------
(* The log of LearningStore while processes die and storage fails, but the *)
(* machine does not: what the file holds beyond the committed records.     *)

(* Beyond off, f holds the beginning of s and perhaps a torn slot, its     *)
(* last.                                                                   *)
TailOf(f, off, s) ==
  \A i \in off + 1 .. Len(f) : \/ f[i] = Garbage /\ i = Len(f)
                               \/ i - off <= Len(s) /\ f[i] = s[i - off]

(* Writes that failed have left the beginning of a slab that is still      *)
(* there to be written again; no torn slot has anything behind it.         *)
TailIsSlab ==
  /\ \A i \in 1 .. Len(cache.recs) - 1 : cache.recs[i] # Garbage
  /\ initialized => TailOf(cache.recs, committed, slab)

(* Numbers go up along the file and on through the slab, up to the next    *)
(* one.                                                                    *)
NumbersIncrease ==
  /\ \A i, j \in 1 .. Len(cache.recs) :
       i < j /\ cache.recs[j] # Garbage => cache.recs[i].seq < cache.recs[j].seq
  /\ \A i, j \in 1 .. Len(slab) : i < j => slab[i].seq < slab[j].seq
  /\ \A i \in 1 .. committed, j \in 1 .. Len(slab) : cache.recs[i].seq < slab[j].seq
  /\ \A i \in 1 .. committed : cache.recs[i].seq < nextSequence
  /\ \A j \in 1 .. Len(slab) : slab[j].seq < nextSequence

LogInv == TailIsSlab /\ FlushedIsEmpty /\ NumbersIncrease

(* A write that stops half way leaves a tail of the same kind.             *)
LEMMA FailedWriteTail ==
  ASSUME NEW f \in Seq(Slots), NEW s \in Seq(Records), NEW off \in 0 .. Len(f),
         TailOf(f, off, s), NEW j \in 0 .. Len(s) - 1, NEW g,
         \/ g = WriteAt(f, off, SubSeq(s, 1, j))
         \/ g = WriteTorn(f, off, s, j)
  PROVE  /\ g \in Seq(Slots) /\ Len(g) >= Len(f)
         /\ \A i \in 1 .. off : g[i] = f[i]
         /\ TailOf(g, off, s)
<1>1. /\ Len(f) \in Nat /\ Len(s) \in Nat /\ off \in Nat /\ j \in Nat /\ j < Len(s)
      /\ off <= Len(f)
  OBVIOUS
<1>2. s \in Seq(Slots) /\ Garbage \in Slots /\ \A i \in 1 .. Len(s) : s[i] # Garbage
  BY SeqMonotonic, StorageAssumption DEF Slots
<1>3. ASSUME NEW u \in Seq(Slots), g = WriteAt(f, off, u),
             Len(u) \in {j, j + 1}, \A i \in 1 .. j : u[i] = s[i],
             Len(u) = j + 1 => \/ u[j + 1] = s[j + 1]
                               \/ u[j + 1] = Garbage /\ Len(f) <= off + j + 1
      PROVE  /\ g \in Seq(Slots) /\ Len(g) >= Len(f)
             /\ \A i \in 1 .. off : g[i] = f[i]
             /\ TailOf(g, off, s)
  <2>1. /\ g \in Seq(Slots)
        /\ Len(g) = IF Len(f) > off + Len(u) THEN Len(f) ELSE off + Len(u)
        /\ \A i \in 1 .. off : g[i] = f[i]
        /\ \A i \in off + 1 .. off + Len(u) : g[i] = u[i - off]
    <3>1. f \in Seq(Slots) /\ u \in Seq(Slots) /\ off \in 0 .. Len(f)
          /\ g = WriteAt(f, off, u)
      BY <1>3
    <3>2. LET w == WriteAt(f, off, u) IN
          /\ w \in Seq(Slots)
          /\ Len(w) = IF Len(f) > off + Len(u) THEN Len(f) ELSE off + Len(u)
          /\ \A i \in 1 .. off : w[i] = f[i]
          /\ \A i \in off + 1 .. off + Len(u) : w[i] = u[i - off]
      BY ONLY <3>1, WriteAtProperties
    <3> QED BY ONLY <3>1, <3>2
  <2>2. \A i \in off + Len(u) + 1 .. Len(f) : g[i] = f[i]
    BY <1>1, <1>3 DEF WriteAt
  <2>3. Len(g) >= Len(f)
    BY <1>1, <1>3, <2>1
  <2>4. ASSUME NEW i \in off + 1 .. Len(g)
        PROVE  \/ g[i] = Garbage /\ i = Len(g)
               \/ i - off <= Len(s) /\ g[i] = s[i - off]
    <3>1. CASE i <= off + j
      <4>1. g[i] = u[i - off] /\ i - off \in 1 .. j
        BY <3>1, <2>4, <2>1, <1>1, <1>3
      <4> QED BY <4>1, <1>1, <1>3
    <3>2. CASE i = off + j + 1 /\ Len(u) = j + 1
      <4>1. g[i] = u[j + 1]
        <5>1. i \in off + 1 .. off + Len(u) /\ i - off = j + 1
          BY <3>2, <1>1
        <5> QED BY <5>1, <2>1
      <4>2. u[j + 1] = Garbage => i = Len(g) \/ u[j + 1] = s[j + 1]
        BY <3>2, <2>1, <1>1, <1>3
      <4> QED BY <4>1, <4>2, <3>2, <1>1, <1>3
    <3>3. CASE i > off + Len(u)
      <4>1. g[i] = f[i] /\ i \in off + 1 .. Len(f) /\ Len(g) = Len(f)
        BY <3>3, <2>1, <2>2, <2>4, <1>1, <1>3
      <4> QED BY <4>1 DEF TailOf
    <3> QED BY <3>1, <3>2, <3>3, <1>1, <1>3, <2>4
  <2> QED BY <2>1, <2>3, <2>4 DEF TailOf
<1>4. /\ SubSeq(s, 1, j) \in Seq(Slots) /\ Len(SubSeq(s, 1, j)) = j
      /\ \A i \in 1 .. j : SubSeq(s, 1, j)[i] = s[i]
  BY <1>1, <1>2, SubSeqProperties
<1>5. CASE g = WriteAt(f, off, SubSeq(s, 1, j))
  <2> DEFINE u == SubSeq(s, 1, j)
  <2>1. g = WriteAt(f, off, u) /\ u \in Seq(Slots) /\ Len(u) = j /\ \A i \in 1 .. j : u[i] = s[i]
    BY <1>4, <1>5
  <2> HIDE DEF u
  <2> QED BY <1>1, <1>3, <2>1
<1>6. CASE g = WriteTorn(f, off, s, j)
  <2> DEFINE old == IF off + j + 1 <= Len(f) THEN f[off + j + 1] ELSE Garbage
             x == IF old = s[j + 1] THEN old ELSE Garbage
             head == SubSeq(s, 1, j)
             u == Append(head, x)
  <2>1. g = WriteAt(f, off, u)
    BY <1>6 DEF WriteTorn
  <2>2. \/ x = s[j + 1]
        \/ x = Garbage /\ Len(f) <= off + j + 1
    <3>1. CASE off + j + 1 <= Len(f)
      <4>1. off + j + 1 \in off + 1 .. Len(f) /\ off + j + 1 - off = j + 1
        BY <3>1, <1>1
      <4>2. \/ f[off + j + 1] = Garbage /\ off + j + 1 = Len(f)
            \/ f[off + j + 1] = s[j + 1]
        BY <4>1 DEF TailOf
      <4> QED BY <4>2, <3>1
    <3>2. CASE ~(off + j + 1 <= Len(f))
      BY <3>2, <1>1
    <3> QED BY <3>1, <3>2
  <2>3. x \in Slots
    BY <1>1, <1>2, <2>2
  <2> HIDE DEF x, head
  <2>4. /\ u \in Seq(Slots) /\ Len(u) = j + 1 /\ u[j + 1] = x
        /\ \A i \in 1 .. j : u[i] = s[i]
    <3>1. head \in Seq(Slots) /\ Len(head) = j /\ \A i \in 1 .. j : head[i] = s[i]
      BY <1>4 DEF head
    <3> QED BY <3>1, <2>3, <1>1
  <2> HIDE DEF u
  <2> QED BY <2>1, <2>2, <2>4, <1>3
<1> QED BY <1>5, <1>6

(* What holds of a running store's file and slab part by part holds of the *)
(* file as a whole.                                                        *)
LEMMA RunningFile ==
  ASSUME NEW f \in Seq(Slots), NEW s \in Seq(Records), NEW n \in 0 .. Len(f),
         TailOf(f, n, s), \A i \in 1 .. n : f[i] # Garbage,
         \A i, j \in 1 .. n : i < j => f[i].seq < f[j].seq,
         \A i, j \in 1 .. Len(s) : i < j => s[i].seq < s[j].seq,
         \A i \in 1 .. n, j \in 1 .. Len(s) : f[i].seq < s[j].seq
  PROVE  /\ \A i \in 1 .. Len(f) - 1 : f[i] # Garbage
         /\ \A i, j \in 1 .. Len(f) : i < j /\ f[j] # Garbage => f[i].seq < f[j].seq
<1>1. Len(f) \in Nat /\ Len(s) \in Nat /\ n \in Nat /\ n <= Len(f)
  OBVIOUS
<1>2. \A i \in 1 .. Len(s) : s[i] # Garbage
  BY StorageAssumption
<1>3. ASSUME NEW i \in 1 .. Len(f), i < Len(f) \/ f[i] # Garbage
      PROVE  \/ i <= n /\ f[i] # Garbage
             \/ i > n /\ i - n \in 1 .. Len(s) /\ f[i] = s[i - n]
  <2>1. CASE i <= n
    BY <2>1, <1>1
  <2>2. CASE i > n
    <3>1. i \in n + 1 .. Len(f) /\ i - n >= 1
      BY <2>2, <1>1
    <3>2. i - n <= Len(s) /\ f[i] = s[i - n]
      BY <3>1, <1>1, <1>3 DEF TailOf
    <3> QED BY <3>1, <3>2, <2>2, <1>1
  <2> QED BY <2>1, <2>2, <1>1
<1>4. ASSUME NEW i \in 1 .. Len(f) - 1 PROVE f[i] # Garbage
  <2>1. i \in 1 .. Len(f) /\ i < Len(f)
    BY <1>1
  <2> QED BY <2>1, <1>2, <1>3
<1>5. ASSUME NEW i \in 1 .. Len(f), NEW j \in 1 .. Len(f), i < j, f[j] # Garbage
      PROVE  f[i].seq < f[j].seq
  <2>1. i < Len(f)
    BY <1>1, <1>5
  <2>2. CASE j <= n
    <3>1. i \in 1 .. n /\ j \in 1 .. n
      BY <2>2, <1>1, <1>5
    <3> QED BY <3>1, <1>5
  <2>3. CASE j > n
    <3>1. j - n \in 1 .. Len(s) /\ f[j] = s[j - n]
      BY <2>3, <1>3, <1>5, <1>1
    <3>2. CASE i <= n
      <4>1. i \in 1 .. n
        BY <3>2, <1>1
      <4> QED BY <4>1, <3>1
    <3>3. CASE i > n
      <4>1. i - n \in 1 .. Len(s) /\ f[i] = s[i - n] /\ i - n < j - n
        BY <3>3, <2>1, <1>3, <1>5, <1>1
      <4> QED BY <4>1, <3>1
    <3> QED BY <3>2, <3>3, <1>1
  <2> QED BY <2>2, <2>3, <1>1
<1> QED BY <1>4, <1>5

LEMMA LogInvStart == Init => LogInv
BY DEF Init, EmptyFile, Idle, LogInv, TailIsSlab, TailOf, FlushedIsEmpty, NumbersIncrease

(* What changes neither the records, nor the slab, nor whether the store   *)
(* is open, can only disturb what is said of the place of the call.        *)
LEMMA SameLog ==
  ASSUME LogInv, FlushedIsEmpty',
         UNCHANGED <<cache.recs, initialized, committed, slab, nextSequence>>
  PROVE  LogInv'
<1>1. TailIsSlab'
  BY DEF LogInv, TailIsSlab, TailOf
<1>2. NumbersIncrease'
  BY DEF LogInv, NumbersIncrease
<1> QED BY <1>1, <1>2 DEF LogInv

LEMMA OpeningLog == ASSUME IInv, IInv', LogInv, Opening PROVE LogInv'
<1> USE DEF LogInv
<1>0. /\ cache.recs \in Seq(Slots) /\ slab \in Seq(Records) /\ nextSequence \in Nat
      /\ committed \in Nat /\ committed <= Len(cache.recs)
      /\ \A i \in 1 .. committed : cache.recs[i] # Garbage
  BY DEF IInv, TypeOK, Files, CommittedVerified
<1>1. CASE OpenEmpty
  <2>1. cache'.recs = cache.recs
    BY <1>1 DEF OpenEmpty, IInv, TypeOK, Files
  <2> QED BY <1>1, <2>1, SameLog
          DEF OpenEmpty, Call, FlushedIsEmpty, headVars, learnVars
<1>2. CASE OpenEmptyFails
  <2>1. cache'.recs = cache.recs
    BY <1>2 DEF OpenEmptyFails, IInv, TypeOK, Files
  <2> QED BY <1>2, <2>1, SameLog DEF OpenEmptyFails, FlushedIsEmpty, headVars, learnVars
<1>3. CASE OpenSync
  <2>1. /\ cache.recs = << >> /\ slab = << >> /\ committed = 0 /\ committed' = 0
        /\ UNCHANGED <<cache, slab>>
    BY <1>3 DEF OpenSync, IInv, Progress
  <2>2. cache'.recs = << >> /\ slab' = << >>
    BY <2>1
  <2> QED BY <2>2, <2>1, <1>3
          DEF OpenSync, Idle, TailIsSlab, TailOf, NumbersIncrease, FlushedIsEmpty
<1>4. CASE OpenExisting
  BY <1>4, SameLog DEF OpenExisting, Call, FlushedIsEmpty, fileVars, learnVars
<1>5. CASE OpenRejected
  BY <1>5, SameLog DEF OpenRejected, FlushedIsEmpty, vars
<1>6. CASE ReplayRecord
  <2> DEFINE r == cache.recs[committed + 1]
  <2>1. /\ committed < Len(cache.recs) /\ r # Garbage
        /\ nextSequence' = IF r.seq >= nextSequence THEN r.seq + 1 ELSE nextSequence
        /\ committed' = committed + 1 /\ ~initialized
        /\ UNCHANGED <<cache, initialized, slab, call>>
    BY <1>6 DEF ReplayRecord, fileVars, IInv, Progress
  <2>2. slab = << >> /\ r \in Records
    BY <2>1, <1>0 DEF IInv, Progress, Slots
  <2>3. r.seq \in Nat
    BY <2>2 DEF Records
  <2>4. TailIsSlab'
    BY <2>1 DEF TailIsSlab
  <2>5. \A i \in 1 .. committed' : cache'.recs[i].seq < nextSequence'
    <3> SUFFICES ASSUME NEW i \in 1 .. committed + 1 PROVE cache.recs[i].seq < nextSequence'
      BY <2>1
    <3>1. i \in 1 .. Len(cache.recs) /\ cache.recs[i] # Garbage
      BY <1>0, <2>1
    <3>2. cache.recs[i] \in Records
      BY <3>1, <1>0 DEF Slots
    <3>3. cache.recs[i].seq \in Nat
      BY <3>2 DEF Records
    <3>4. CASE i = committed + 1
      BY <3>4, <2>1, <2>3, <1>0
    <3>5. CASE i # committed + 1
      <4>1. i \in 1 .. committed
        BY <3>5, <1>0
      <4>2. cache.recs[i].seq < nextSequence
        BY <4>1 DEF NumbersIncrease
      <4> HIDE DEF r
      <4> QED BY <4>2, <3>3, <2>1, <2>3, <1>0
    <3> QED BY <3>4, <3>5
  <2>6. NumbersIncrease'
    BY <2>1, <2>2, <2>5 DEF NumbersIncrease
  <2> QED BY <2>1, <2>4, <2>6 DEF FlushedIsEmpty
<1>7. CASE ReplayEnd
  <2>1. /\ committed < Len(cache.recs) => cache.recs[committed + 1] = Garbage
        /\ nextSequence' = IF nextSequence = 0 THEN committed + 1 ELSE nextSequence
        /\ ~initialized /\ call' = Idle
        /\ UNCHANGED <<cache, committed, slab>>
    BY <1>7 DEF ReplayEnd, fileVars, headVars, IInv, Progress
  <2>2. slab = << >>
    BY <2>1 DEF IInv, Progress
  <2>3. TailOf(cache.recs, committed, slab)
    <3> SUFFICES ASSUME NEW i \in committed + 1 .. Len(cache.recs)
                 PROVE  cache.recs[i] = Garbage /\ i = Len(cache.recs)
      BY DEF TailOf
    <3>1. committed < Len(cache.recs) /\ committed + 1 \in 1 .. Len(cache.recs)
      BY <1>0
    <3>2. ~(committed + 1 \in 1 .. Len(cache.recs) - 1)
      BY <3>1, <2>1 DEF TailIsSlab
    <3>3. committed + 1 = Len(cache.recs)
      BY <3>1, <3>2, <1>0
    <3> QED BY <3>1, <3>3, <2>1, <1>0
  <2>4. TailIsSlab'
    BY <2>1, <2>3 DEF TailIsSlab, TailOf
  <2>5. \A i \in 1 .. committed : cache.recs[i].seq < nextSequence'
    <3> SUFFICES ASSUME NEW i \in 1 .. committed PROVE cache.recs[i].seq < nextSequence'
      OBVIOUS
    <3>1. i \in 1 .. Len(cache.recs) /\ cache.recs[i] # Garbage
      BY <1>0
    <3>2. cache.recs[i] \in Records
      BY <3>1, <1>0 DEF Slots
    <3>3. cache.recs[i].seq \in Nat /\ cache.recs[i].seq < nextSequence
      BY <3>2 DEF Records, NumbersIncrease
    <3> QED BY <3>3, <2>1, <1>0
  <2>6. NumbersIncrease'
    BY <2>1, <2>2, <2>5 DEF NumbersIncrease
  <2> QED BY <2>1, <2>4, <2>6 DEF FlushedIsEmpty, Idle
<1>8. CASE OpenFails
  <2>1. ZeroState /\ UNCHANGED cache
    BY <1>8 DEF OpenFails, fileVars
  <2> QED BY <2>1 DEF ZeroState, Idle, TailIsSlab, NumbersIncrease, FlushedIsEmpty
<1> QED BY <1>1, <1>2, <1>3, <1>4, <1>5, <1>6, <1>7, <1>8 DEF Opening

LEMMA FlushingLog == ASSUME IInv, IInv', LogInv, Flushing PROVE LogInv'
<1> USE DEF LogInv
<1>0. /\ cache.recs \in Seq(Slots) /\ slab \in Seq(Records) /\ nextSequence \in Nat
      /\ committed \in 0 .. Len(cache.recs) /\ slab \in Seq(Slots)
      /\ \A i \in 1 .. committed : cache.recs[i] # Garbage
  BY SeqMonotonic DEF IInv, TypeOK, Files, CommittedVerified, Slots
<1>i. call.step \notin {"idle", "headersync", "replay"} => initialized
  BY DEF IInv, Progress, TypeOK, Ops
<1>1. CASE WriteSlab
  <2>1. initialized /\ UNCHANGED <<initialized, nextSequence, call.op>> /\ call'.step = "size"
    BY <1>1, <1>i DEF WriteSlab, At, learnVars, IInv, TypeOK
  <2>2. CASE slab = << >>
    BY <1>1, <2>1, <2>2, SameLog DEF WriteSlab, FlushedIsEmpty
  <2>3. CASE slab # << >>
    <3> DEFINE w == WriteAt(cache.recs, committed, slab)
    <3>1. cache'.recs = w /\ committed' = committed + Len(slab) /\ slab' = << >>
      BY <1>1, <2>3 DEF WriteSlab, IInv, TypeOK, Files
    <3>2. /\ w \in Seq(Slots)
          /\ Len(w) = IF Len(cache.recs) > committed + Len(slab) THEN Len(cache.recs)
                      ELSE committed + Len(slab)
          /\ \A i \in 1 .. committed : w[i] = cache.recs[i]
          /\ \A i \in committed + 1 .. committed + Len(slab) : w[i] = slab[i - committed]
      BY <1>0, WriteAtProperties
    <3>3. \A i \in committed + Len(slab) + 1 .. Len(cache.recs) : w[i] = cache.recs[i]
      BY <1>0 DEF WriteAt
    <3> HIDE DEF w
    <3> DEFINE n == committed + Len(slab)
    <3>4. n \in Nat /\ Len(slab) \in Nat /\ committed \in Nat /\ n <= Len(w) /\ Len(cache.recs) \in Nat
      BY <1>0, <3>2
    <3>5. \A i \in 1 .. n : /\ i <= committed => i \in 1 .. committed /\ w[i] = cache.recs[i]
                            /\ i > committed => i - committed \in 1 .. Len(slab) /\ w[i] = slab[i - committed]
      BY <3>2, <3>4
    <3>6. \A i \in 1 .. n : w[i] # Garbage
      <4>1. \A i \in 1 .. Len(slab) : slab[i] # Garbage
        BY <1>0, StorageAssumption
      <4> QED BY <4>1, <3>5, <3>4, <1>0
    <3>7. \A i, j \in 1 .. n : i < j => w[i].seq < w[j].seq
      <4> SUFFICES ASSUME NEW i \in 1 .. n, NEW j \in 1 .. n, i < j PROVE w[i].seq < w[j].seq
        OBVIOUS
      <4>1. CASE j <= committed
        <5>1. i \in 1 .. committed /\ j \in 1 .. committed
          BY <4>1, <3>4
        <5>2. i \in 1 .. Len(cache.recs) /\ j \in 1 .. Len(cache.recs) /\ cache.recs[j] # Garbage
          BY <5>1, <1>0
        <5> QED BY <5>1, <5>2, <3>2 DEF NumbersIncrease
      <4>2. CASE i <= committed /\ j > committed
        BY <4>2, <3>5 DEF NumbersIncrease
      <4>3. CASE i > committed
        <5>0. j > committed /\ i - committed < j - committed
          BY <4>3, <3>4
        <5>1. /\ i - committed \in 1 .. Len(slab) /\ w[i] = slab[i - committed]
              /\ j - committed \in 1 .. Len(slab) /\ w[j] = slab[j - committed]
          BY <4>3, <5>0, <3>5
        <5> QED BY <5>0, <5>1 DEF NumbersIncrease
      <4> QED BY <4>1, <4>2, <4>3, <3>4
    <3>8. \A i \in 1 .. n : w[i].seq < nextSequence
      BY <3>5, <3>4 DEF NumbersIncrease
    <3>9. TailOf(w, n, << >>)
      <4> SUFFICES ASSUME NEW i \in n + 1 .. Len(w) PROVE w[i] = Garbage /\ i = Len(w)
        BY DEF TailOf
      <4>1. /\ i \in committed + 1 .. Len(cache.recs) /\ ~(i - committed <= Len(slab))
            /\ Len(w) = Len(cache.recs) /\ i \in committed + Len(slab) + 1 .. Len(cache.recs)
        BY <3>2, <3>4
      <4>2. cache.recs[i] = Garbage /\ i = Len(cache.recs)
        BY <4>1, <2>1 DEF TailIsSlab, TailOf
      <4> QED BY <4>1, <4>2, <3>3
    <3>10. /\ \A i \in 1 .. Len(w) - 1 : w[i] # Garbage
           /\ \A i, j \in 1 .. Len(w) : i < j /\ w[j] # Garbage => w[i].seq < w[j].seq
      <4> DEFINE empty == << >>
      <4>1. /\ empty \in Seq(Records) /\ n \in 0 .. Len(w)
            /\ \A i \in 1 .. Len(empty) : FALSE
        BY <3>4, <3>2
      <4>2. TailOf(w, n, empty)
        BY <3>9
      <4> HIDE DEF n, empty
      <4> QED BY <4>1, <4>2, <3>2, <3>6, <3>7, RunningFile
    <3>11. TailIsSlab'
      BY <3>1, <3>9, <3>10 DEF TailIsSlab, TailOf
    <3>12. NumbersIncrease'
      BY <3>1, <3>8, <3>10, <2>1 DEF NumbersIncrease
    <3> QED BY <3>1, <3>11, <3>12, <2>1 DEF FlushedIsEmpty
  <2> QED BY <2>2, <2>3
<1>2. CASE WriteSlabFails
  <2>1. /\ initialized /\ call'.ok = FALSE /\ call'.step = "return"
        /\ UNCHANGED <<initialized, nextSequence, committed, slab>>
    BY <1>2, <1>i DEF WriteSlabFails, Done, learnVars, headVars, IInv, TypeOK
  <2>2. PICK j \in 0 .. Len(slab) - 1 :
          \/ cache' = [cache EXCEPT !.recs = WriteAt(@, committed, SubSeq(slab, 1, j))]
          \/ cache' = [cache EXCEPT !.recs = WriteTorn(@, committed, slab, j)]
    BY <1>2 DEF WriteSlabFails
  <2> DEFINE g == cache'.recs
  <2>3. \/ g = WriteAt(cache.recs, committed, SubSeq(slab, 1, j))
        \/ g = WriteTorn(cache.recs, committed, slab, j)
    BY <2>2 DEF IInv, TypeOK, Files
  <2> HIDE DEF g
  <2>4. TailOf(cache.recs, committed, slab)
    BY <2>1 DEF TailIsSlab
  <2>5. /\ g \in Seq(Slots) /\ Len(g) >= Len(cache.recs)
        /\ \A i \in 1 .. committed : g[i] = cache.recs[i]
        /\ TailOf(g, committed, slab)
    BY <2>3, <2>4, <1>0, FailedWriteTail
  <2>6. /\ committed \in 0 .. Len(g)
        /\ \A i \in 1 .. committed : g[i] # Garbage
        /\ \A i, k \in 1 .. committed : i < k => g[i].seq < g[k].seq
        /\ \A i \in 1 .. committed, k \in 1 .. Len(slab) : g[i].seq < slab[k].seq
        /\ \A i \in 1 .. committed : g[i].seq < nextSequence
    <3>1. committed \in 0 .. Len(g) /\ \A i \in 1 .. committed : i \in 1 .. Len(cache.recs)
      BY <2>5, <1>0
    <3> QED BY <3>1, <2>5, <1>0 DEF NumbersIncrease
  <2>7. \A i, k \in 1 .. Len(slab) : i < k => slab[i].seq < slab[k].seq
    BY DEF NumbersIncrease
  <2>8. /\ \A i \in 1 .. Len(g) - 1 : g[i] # Garbage
        /\ \A i, k \in 1 .. Len(g) : i < k /\ g[k] # Garbage => g[i].seq < g[k].seq
    BY <2>5, <2>6, <2>7, <1>0, RunningFile
  <2>9. TailIsSlab'
    BY <2>1, <2>5, <2>8 DEF TailIsSlab, g, TailOf
  <2>10. NumbersIncrease'
    BY <2>1, <2>6, <2>8 DEF NumbersIncrease, g
  <2> QED BY <2>1, <2>9, <2>10 DEF FlushedIsEmpty
<1>3. CASE TruncateFile
  <2>1. /\ initialized /\ call'.step = "header" /\ slab = << >>
        /\ UNCHANGED <<initialized, nextSequence, committed, slab>>
        /\ cache'.recs = Truncate(cache.recs, committed)
    BY <1>3, <1>i DEF TruncateFile, At, learnVars, headVars, IInv, TypeOK, Files, FlushedIsEmpty
  <2>2. /\ Len(cache'.recs) = committed
        /\ \A i \in 1 .. committed : cache'.recs[i] = cache.recs[i]
    BY <2>1, <1>0, TruncateProperties
  <2>3. \A i \in 1 .. committed : i \in 1 .. Len(cache.recs)
    BY <1>0
  <2>4. TailIsSlab'
    BY <2>1, <2>2, <1>0 DEF TailIsSlab, TailOf
  <2>5. NumbersIncrease'
    BY <2>1, <2>2, <2>3, <1>0 DEF NumbersIncrease
  <2> QED BY <2>1, <2>4, <2>5 DEF FlushedIsEmpty
<1>4. CASE TruncateFails \/ FdatasyncFails
  <2>1. FlushedIsEmpty'
    BY <1>4 DEF TruncateFails, FdatasyncFails, Done, FlushedIsEmpty, IInv, TypeOK
  <2> QED BY <1>4, <2>1, SameLog
          DEF TruncateFails, FdatasyncFails, fileVars, headVars, learnVars
<1>5. CASE WriteHeader \/ WriteHeaderFails \/ FreezeHeader
  <2>1. cache'.recs = cache.recs
    BY <1>5 DEF WriteHeader, WriteHeaderFails, FreezeHeader, IInv, TypeOK, Files
  <2>2. slab' = slab /\ call.step \in {"header", "epochheader"}
    BY <1>5 DEF WriteHeader, WriteHeaderFails, FreezeHeader
  <2>3. FlushedIsEmpty'
    BY <2>2 DEF FlushedIsEmpty
  <2> QED BY <1>5, <2>1, <2>3, SameLog
          DEF WriteHeader, WriteHeaderFails, FreezeHeader, headVars, learnVars
<1>6. CASE Fdatasync \/ FreezeSync
  <2>1. slab' = slab /\ call.step \in {"sync", "epochsync"} /\ UNCHANGED cache
    BY <1>6 DEF Fdatasync, FreezeSync
  <2>2. FlushedIsEmpty'
    BY <2>1 DEF FlushedIsEmpty
  <2> QED BY <1>6, <2>1, <2>2, SameLog DEF Fdatasync, FreezeSync, headVars, learnVars
<1> QED BY <1>1, <1>2, <1>3, <1>4, <1>5, <1>6 DEF Flushing

LEMMA CallingLog == ASSUME IInv, IInv', LogInv, Calling PROVE LogInv'
<1> USE DEF LogInv
<1>0. /\ slab \in Seq(Records) /\ nextSequence \in Nat
      /\ committed \in 0 .. Len(cache.recs) /\ cache.recs \in Seq(Slots)
      /\ \A i \in 1 .. committed : cache.recs[i] # Garbage
  BY DEF IInv, TypeOK, Files, CommittedVerified
<1>1. ASSUME NEW c \in Contexts, NEW k \in Candidates, Observe(c, k) PROVE LogInv'
  <2>1. /\ initialized /\ nextSequence' = nextSequence + 1
        /\ UNCHANGED <<cache, initialized, committed>>
        /\ call'.step \in {"idle", "slab"}
    BY <1>1 DEF Observe, fileVars, headVars, Call, Idle
  <2>2. \/ slab' = slab
        \/ \E r : r.seq = nextSequence /\ slab' = Append(slab, r)
    BY <1>1 DEF Observe
  <2>3. \A j \in 1 .. committed : cache.recs[j].seq < nextSequence'
    <3> SUFFICES ASSUME NEW j \in 1 .. committed PROVE cache.recs[j].seq < nextSequence'
      OBVIOUS
    <3>1. j \in 1 .. Len(cache.recs)
      BY <1>0
    <3>2. cache.recs[j] \in Records
      BY <3>1, <1>0 DEF Slots
    <3>3. cache.recs[j].seq \in Nat /\ cache.recs[j].seq < nextSequence
      BY <3>2 DEF Records, NumbersIncrease
    <3> QED BY <3>3, <2>1, <1>0
  <2>4. \A j \in 1 .. Len(slab) : slab[j].seq < nextSequence'
    <3> SUFFICES ASSUME NEW j \in 1 .. Len(slab) PROVE slab[j].seq < nextSequence'
      OBVIOUS
    <3>1. slab[j] \in Records
      BY <1>0
    <3>2. slab[j].seq \in Nat /\ slab[j].seq < nextSequence
      BY <3>1 DEF Records, NumbersIncrease
    <3> QED BY <3>2, <2>1, <1>0
  <2>5. CASE slab' = slab
    BY <2>1, <2>3, <2>4, <2>5 DEF TailIsSlab, TailOf, NumbersIncrease, FlushedIsEmpty
  <2>6. ASSUME NEW r, r.seq = nextSequence, slab' = Append(slab, r) PROVE LogInv'
    <3>1. /\ Len(slab') = Len(slab) + 1 /\ slab'[Len(slab) + 1] = r
          /\ \A j \in 1 .. Len(slab) : slab'[j] = slab[j]
      BY <2>6, <1>0
    <3>2. TailOf(cache.recs, committed, slab')
      <4> SUFFICES ASSUME NEW i \in committed + 1 .. Len(cache.recs),
                          ~(cache.recs[i] = Garbage /\ i = Len(cache.recs))
                   PROVE  i - committed <= Len(slab') /\ cache.recs[i] = slab'[i - committed]
        BY DEF TailOf
      <4>1. i - committed <= Len(slab) /\ cache.recs[i] = slab[i - committed]
        BY <2>1 DEF TailOf, TailIsSlab
      <4>2. i - committed \in 1 .. Len(slab)
        BY <4>1, <1>0
      <4> QED BY <4>1, <4>2, <3>1, <1>0
    <3>3. TailIsSlab'
      BY <3>2, <2>1 DEF TailIsSlab, TailOf
    <3>4. \A j \in 1 .. Len(slab') : j \in 1 .. Len(slab) \/ j = Len(slab) + 1
      BY <3>1, <1>0
    <3>5. \A i, j \in 1 .. Len(slab') : i < j => slab'[i].seq < slab'[j].seq
      <4> SUFFICES ASSUME NEW i \in 1 .. Len(slab'), NEW j \in 1 .. Len(slab'), i < j
                   PROVE  slab'[i].seq < slab'[j].seq
        OBVIOUS
      <4>1. i \in 1 .. Len(slab)
        BY <3>1, <1>0
      <4>2. slab'[i] = slab[i] /\ slab[i].seq < nextSequence
        BY <4>1, <3>1 DEF NumbersIncrease
      <4> QED BY <4>1, <4>2, <3>1, <3>4, <2>6 DEF NumbersIncrease
    <3>6. \A j \in 1 .. Len(slab') : slab'[j].seq < nextSequence'
      BY <3>1, <3>4, <2>4, <2>6, <2>1, <1>0
    <3>7. \A i \in 1 .. committed, j \in 1 .. Len(slab') : cache.recs[i].seq < slab'[j].seq
      BY <3>1, <3>4, <2>6 DEF NumbersIncrease
    <3>8. NumbersIncrease'
      BY <2>1, <2>3, <3>5, <3>6, <3>7 DEF NumbersIncrease
    <3> QED BY <3>3, <3>8, <2>1 DEF FlushedIsEmpty
  <2> QED BY <2>2, <2>5, <2>6
<1>2. CASE ReturnObserve \/ ReturnSetMode \/ ReturnFlush
  <2>1. call' = Idle
    BY <1>2 DEF ReturnObserve, ReturnSetMode, ReturnFlush
  <2>2. FlushedIsEmpty'
    BY <2>1 DEF FlushedIsEmpty, Idle
  <2> QED BY <1>2, <2>2, SameLog
          DEF ReturnObserve, ReturnSetMode, ReturnFlush, fileVars, headVars, learnVars
<1>3. ASSUME NEW m \in CallModes, SetModeRunning(m) \/ SetModePaused(m) PROVE LogInv'
  <2>1. FlushedIsEmpty'
    BY <1>3 DEF SetModeRunning, SetModePaused, FlushedIsEmpty, Call
  <2> QED BY <1>3, <2>1, SameLog
          DEF SetModeRunning, SetModePaused, fileVars, headVars, learnVars
<1>4. CASE Flush \/ Freeze \/ Close
  <2>1. FlushedIsEmpty'
    BY <1>4 DEF Flush, Freeze, Close, FlushedIsEmpty, Call
  <2> QED BY <1>4, <2>1, SameLog DEF Flush, Freeze, Close, fileVars, headVars, learnVars
<1>5. CASE ResetVolatile
  <2>1. FlushedIsEmpty'
    BY <1>5 DEF ResetVolatile, FlushedIsEmpty
  <2> QED BY <1>5, <2>1, SameLog DEF ResetVolatile, fileVars
<1>6. CASE ReturnClose
  <2>1. ZeroState /\ UNCHANGED cache
    BY <1>6 DEF ReturnClose, fileVars
  <2> QED BY <2>1 DEF ZeroState, Idle, TailIsSlab, NumbersIncrease, FlushedIsEmpty
<1> QED BY <1>1, <1>2, <1>3, <1>4, <1>5, <1>6 DEF Calling

LEMMA CrashLog == ASSUME LogInv, Crash PROVE LogInv'
<1>1. ZeroState /\ UNCHANGED cache
  BY DEF Crash, fileVars
<1> QED BY <1>1 DEF LogInv, ZeroState, Idle, TailIsSlab, NumbersIncrease, FlushedIsEmpty

(* The invariant of the log, as long as the machine does not die.          *)
LEMMA LogStep ==
  ASSUME ~PowerLossAllowed, IInv, IInv', LogInv, [Next]_vars
  PROVE  LogInv'
<1>1. CASE UNCHANGED vars
  BY <1>1, SameLog DEF vars, LogInv, FlushedIsEmpty
<1> QED BY <1>1, OpeningLog, FlushingLog, CallingLog, CrashLog DEF Next, PowerLoss

-----------------------------------------------------------------------------
(* What Kept and Log are.                                                  *)

LEMMA VerifiedLenIs ==
  ASSUME NEW f \in Seq(Slots), NEW n \in 0 .. Len(f),
         \A i \in 1 .. n : f[i] # Garbage, n < Len(f) => f[n + 1] = Garbage
  PROVE  VerifiedLen(f) = n
<1> DEFINE P(m) == /\ \A i \in 1 .. m : f[i] # Garbage
                   /\ m < Len(f) => f[m + 1] = Garbage
<1>1. P(n)
  OBVIOUS
<1>2. ASSUME NEW m \in 0 .. Len(f), P(m) PROVE m = n
  <2>1. Len(f) \in Nat /\ m \in Nat /\ n \in Nat /\ m <= Len(f) /\ n <= Len(f)
    OBVIOUS
  <2>2. ~(m < n)
    <3> SUFFICES ASSUME m < n PROVE FALSE
      OBVIOUS
    <3>1. m + 1 \in 1 .. n /\ m < Len(f)
      BY <2>1
    <3> QED BY <3>1, <1>1, <1>2
  <2>3. ~(n < m)
    <3> SUFFICES ASSUME n < m PROVE FALSE
      OBVIOUS
    <3>1. n + 1 \in 1 .. m /\ n < Len(f)
      BY <2>1
    <3> QED BY <3>1, <1>1, <1>2
  <2> QED BY <2>1, <2>2, <2>3
<1>3. VerifiedLen(f) = CHOOSE m \in 0 .. Len(f) : P(m)
  BY DEF VerifiedLen
<1> HIDE DEF P
<1> QED BY <1>1, <1>2, <1>3

(* There is always a verified prefix.                                      *)
LEMMA VerifiedPrefixIs ==
  ASSUME NEW f \in Seq(Slots)
  PROVE  \E n \in 0 .. Len(f) :
           /\ \A i \in 1 .. n : f[i] # Garbage
           /\ n < Len(f) => f[n + 1] = Garbage
           /\ VerifiedPrefix(f) = SubSeq(f, 1, n)
<1>1. PICK n \in 0 .. Len(f) : /\ \A i \in 1 .. n : f[i] # Garbage
                               /\ n < Len(f) => f[n + 1] = Garbage
  <2> DEFINE T == {i \in 1 .. Len(f) : f[i] = Garbage}
  <2>1. CASE T = {}
    <3>1. Len(f) \in 0 .. Len(f) /\ \A i \in 1 .. Len(f) : f[i] # Garbage
      BY <2>1
    <3> QED BY <3>1
  <2>2. CASE T # {}
    <3>1. T \subseteq Nat
      OBVIOUS
    <3>2. PICK g \in T : \A y \in T : g <= y
      <4> HIDE DEF T
      <4> QED BY <2>2, <3>1, LeastExists
    <3>3. g \in 1 .. Len(f) /\ f[g] = Garbage /\ Len(f) \in Nat
      OBVIOUS
    <3>4. ASSUME NEW i \in 1 .. g - 1 PROVE f[i] # Garbage
      <4>1. i \in 1 .. Len(f) /\ ~(g <= i)
        BY <3>3
      <4> QED BY <3>2, <4>1
    <3>5. g - 1 \in 0 .. Len(f) /\ (g - 1) + 1 = g
      BY <3>3
    <3> QED BY <3>3, <3>4, <3>5
  <2> QED BY <2>1, <2>2
<1>2. VerifiedLen(f) = n
  BY <1>1, VerifiedLenIs
<1> QED BY <1>1, <1>2 DEF VerifiedPrefix

LEMMA RunningLogIs ==
  ASSUME IInv, initialized
  PROVE  /\ Kept = SubSeq(cache.recs, 1, committed) \o slab
         /\ Kept \in Seq(Slots) /\ Len(Kept) = committed + Len(slab)
         /\ \A i \in 1 .. committed : Kept[i] = cache.recs[i]
         /\ \A i \in 1 .. Len(slab) : Kept[committed + i] = slab[i]
<1>1. /\ cache.recs \in Seq(Slots) /\ slab \in Seq(Slots)
      /\ committed \in Nat /\ committed <= Len(cache.recs) /\ Len(slab) \in Nat
  BY SeqMonotonic DEF IInv, TypeOK, Files, CommittedVerified, Slots
<1> DEFINE head == SubSeq(cache.recs, 1, committed)
<1>2. /\ head \in Seq(Slots) /\ Len(head) = committed
      /\ \A i \in 1 .. committed : head[i] = cache.recs[i]
  BY <1>1, SubSeqProperties
<1>3. Kept = head \o slab
  BY DEF Kept
<1> HIDE DEF head
<1>4. /\ Kept \in Seq(Slots) /\ Len(Kept) = committed + Len(slab)
      /\ \A i \in 1 .. committed + Len(slab) :
           Kept[i] = IF i <= committed THEN head[i] ELSE slab[i - committed]
  BY <1>1, <1>2, <1>3, ConcatProperties
<1>5. \A i \in 1 .. committed : Kept[i] = cache.recs[i]
  BY <1>1, <1>2, <1>4
<1>6. \A i \in 1 .. Len(slab) : Kept[committed + i] = slab[i]
  <2> SUFFICES ASSUME NEW i \in 1 .. Len(slab) PROVE Kept[committed + i] = slab[i]
    OBVIOUS
  <2> DEFINE k == committed + i
  <2>1. k \in 1 .. committed + Len(slab) /\ ~(k <= committed) /\ k - committed = i
    BY <1>1
  <2>2. Kept[k] = slab[k - committed]
    <3> HIDE DEF k
    <3> QED BY <2>1, <1>4
  <2> QED BY <2>1, <2>2
<1> QED BY <1>3, <1>4, <1>5, <1>6 DEF head

LEMMA LogIs ==
  /\ initialized => Log = Kept
  /\ cache.hdr # TornHeader => Log = Kept
  /\ ~initialized /\ cache.hdr = TornHeader => Log = << >>
BY DEF Log

(* SequencesIncrease, said of the records that a torn header hides too.    *)
KeptIncrease ==
  /\ \A i, j \in 1 .. Len(Kept) : i < j => Kept[i].seq < Kept[j].seq
  /\ initialized => \A i \in 1 .. Len(Kept) : Kept[i].seq < nextSequence

LEMMA KeptIncreases == IInv /\ LogInv => KeptIncrease
<1> SUFFICES ASSUME IInv, LogInv PROVE KeptIncrease
  OBVIOUS
<1>1. /\ cache.recs \in Seq(Slots) /\ slab \in Seq(Records)
      /\ committed \in Nat /\ committed <= Len(cache.recs)
      /\ \A i \in 1 .. committed : cache.recs[i] # Garbage
  BY DEF IInv, TypeOK, Files, CommittedVerified
<1>2. CASE ~initialized
  <2>1. PICK n \in 0 .. Len(cache.recs) :
          /\ \A i \in 1 .. n : cache.recs[i] # Garbage
          /\ VerifiedPrefix(cache.recs) = SubSeq(cache.recs, 1, n)
    BY <1>1, VerifiedPrefixIs
  <2>2. Kept = SubSeq(cache.recs, 1, n)
    BY <1>2, <2>1 DEF Kept
  <2>3. /\ Len(Kept) = n
        /\ \A i \in 1 .. n : i \in 1 .. Len(cache.recs) /\ Kept[i] = cache.recs[i]
    BY <1>1, <2>2, SubSeqProperties
  <2> QED BY <1>2, <2>1, <2>3 DEF KeptIncrease, LogInv, NumbersIncrease
<1>3. CASE initialized
  <2>1. /\ Len(Kept) = committed + Len(slab) /\ Len(slab) \in Nat
        /\ \A i \in 1 .. committed : Kept[i] = cache.recs[i] /\ i \in 1 .. Len(cache.recs)
        /\ \A i \in 1 .. Len(slab) : Kept[committed + i] = slab[i]
    BY <1>1, <1>3, RunningLogIs
  <2>2. ASSUME NEW i \in 1 .. Len(Kept)
        PROVE  \/ i \in 1 .. committed /\ Kept[i] = cache.recs[i]
               \/ \E j \in 1 .. Len(slab) : i = committed + j /\ Kept[i] = slab[j]
    <3>1. CASE i <= committed
      BY <3>1, <2>1, <1>1
    <3>2. CASE i > committed
      <4>1. i - committed \in 1 .. Len(slab) /\ i = committed + (i - committed)
        BY <3>2, <2>1, <1>1
      <4> QED BY <4>1, <2>1
    <3> QED BY <3>1, <3>2, <1>1, <2>1
  <2>3. \A i \in 1 .. Len(Kept) : Kept[i].seq < nextSequence
    BY <2>2 DEF LogInv, NumbersIncrease
  <2>4. ASSUME NEW i \in 1 .. Len(Kept), NEW j \in 1 .. Len(Kept), i < j
        PROVE  Kept[i].seq < Kept[j].seq
    <3>1. CASE j \in 1 .. committed
      <4>1. i \in 1 .. committed
        BY <3>1, <2>4, <1>1
      <4> QED BY <3>1, <4>1, <2>1, <2>4, <1>1 DEF LogInv, NumbersIncrease
    <3>2. CASE i \in 1 .. committed /\ ~(j \in 1 .. committed)
      BY <3>2, <2>2, <2>1 DEF LogInv, NumbersIncrease
    <3>3. CASE ~(i \in 1 .. committed) /\ ~(j \in 1 .. committed)
      <4>1. PICK a \in 1 .. Len(slab) : i = committed + a /\ Kept[i] = slab[a]
        BY <3>3, <2>2
      <4>2. PICK b \in 1 .. Len(slab) : j = committed + b /\ Kept[j] = slab[b]
        BY <3>3, <2>2
      <4>3. a < b
        BY <4>1, <4>2, <2>4, <1>1
      <4> QED BY <4>1, <4>2, <4>3 DEF LogInv, NumbersIncrease
    <3> QED BY <3>1, <3>2, <3>3
  <2> QED BY <2>3, <2>4 DEF KeptIncrease
<1> QED BY <1>2, <1>3

LEMMA LogIncreases == IInv /\ LogInv => SequencesIncrease
<1> SUFFICES ASSUME IInv, LogInv PROVE SequencesIncrease
  OBVIOUS
<1>1. KeptIncrease
  BY KeptIncreases
<1>2. CASE Log = Kept
  BY <1>1, <1>2 DEF KeptIncrease, SequencesIncrease
<1>3. CASE ~initialized /\ Log = << >>
  BY <1>3 DEF SequencesIncrease
<1> QED BY <1>2, <1>3, LogIs

(* No two records of the log have one number and the next number is free,  *)
(* through failed writes, deaths of the process and recoveries that find   *)
(* less than was numbered.  (A power loss can undo a truncation and bring  *)
(* old records back behind newer ones.)                                    *)
THEOREM NumbersAreUnique ==
  ASSUME ~PowerLossAllowed
  PROVE  Spec => []SequencesIncrease
<1>1. Init => LogInv
  BY LogInvStart
<1>2. IInv /\ IInv' /\ LogInv /\ [Next]_vars => LogInv'
  BY LogStep
<1>3. IInv /\ LogInv => SequencesIncrease
  BY LogIncreases
<1> QED BY <1>1, <1>2, <1>3, Inductive, PTL DEF Spec

-----------------------------------------------------------------------------
(* LearningStore implements DurableLog.                                    *)

LEMMA RecordsKept ==
  ASSUME UNCHANGED <<cache.recs, initialized, committed, slab>>
  PROVE  Kept' = Kept
BY DEF Kept

(* What a caller can tell of the store.                                    *)
promised == <<Log, acked, initialized, HeaderState>>

LEMMA PromiseKept ==
  ASSUME UNCHANGED <<cache, disk, initialized, committed, slab, acked>>
  PROVE  UNCHANGED promised
BY DEF promised, Log, Kept, HeaderState

(* Whatever has died: what there is are records, the confirmed ones first  *)
(* and in place.                                                           *)
AckedKept == Kept \in Seq(Records) /\ Holds(Kept, acked)

LEMMA KeptHoldsAcked == IInv => AckedKept
<1> SUFFICES ASSUME IInv PROVE Kept \in Seq(Records) /\ Holds(Kept, acked)
  BY DEF AckedKept
<1>1. /\ cache.recs \in Seq(Slots) /\ slab \in Seq(Records) /\ acked \in Seq(Slots)
      /\ committed \in Nat /\ committed <= Len(cache.recs) /\ Len(slab) \in Nat
      /\ \A i \in 1 .. committed : cache.recs[i] # Garbage
      /\ \A i \in 1 .. Len(acked) : acked[i] # Garbage
      /\ Len(acked) <= Len(cache.recs)
      /\ \A i \in 1 .. Len(acked) : cache.recs[i] = acked[i]
      /\ initialized => Len(acked) <= committed
  BY DEF IInv, TypeOK, Files, CommittedVerified, Confirmed, Holds
<1>2. ASSUME NEW s \in Seq(Slots), \A i \in 1 .. Len(s) : s[i] # Garbage
      PROVE  s \in Seq(Records)
  <2>1. /\ Len(s) \in Nat /\ s = [i \in 1 .. Len(s) |-> s[i]]
        /\ \A i \in 1 .. Len(s) : s[i] \in Records
    BY <1>2 DEF Slots
  <2> QED BY <2>1, IsASeq
<1>3. CASE initialized
  <2>1. /\ Kept \in Seq(Slots) /\ Len(Kept) = committed + Len(slab)
        /\ \A i \in 1 .. committed : Kept[i] = cache.recs[i]
        /\ \A i \in 1 .. Len(slab) : Kept[committed + i] = slab[i]
    BY <1>3, RunningLogIs
  <2>2. ASSUME NEW i \in 1 .. Len(Kept) PROVE Kept[i] # Garbage
    <3>1. CASE i <= committed
      <4>1. i \in 1 .. committed
        BY <3>1, <2>1, <1>1
      <4> QED BY <4>1, <2>1, <1>1
    <3>2. CASE i > committed
      <4> DEFINE j == i - committed
      <4>1. j \in 1 .. Len(slab) /\ committed + j = i
        BY <3>2, <2>1, <1>1
      <4>2. slab[j] # Garbage
        BY <4>1, <1>1, StorageAssumption
      <4> QED BY <4>1, <4>2, <2>1
    <3> QED BY <3>1, <3>2, <2>1, <1>1
  <2>3. Kept \in Seq(Records)
    BY <2>1, <2>2, <1>2
  <2>4. Len(acked) <= Len(Kept) /\ \A i \in 1 .. Len(acked) : Kept[i] = acked[i]
    BY <1>1, <1>3, <2>1
  <2> QED BY <2>3, <2>4 DEF Holds
<1>4. CASE ~initialized
  <2>1. PICK n \in 0 .. Len(cache.recs) :
          /\ \A i \in 1 .. n : cache.recs[i] # Garbage
          /\ n < Len(cache.recs) => cache.recs[n + 1] = Garbage
          /\ VerifiedPrefix(cache.recs) = SubSeq(cache.recs, 1, n)
    BY <1>1, VerifiedPrefixIs
  <2>2. Kept = SubSeq(cache.recs, 1, n)
    BY <1>4, <2>1 DEF Kept
  <2>3. Kept \in Seq(Slots) /\ Len(Kept) = n /\ \A i \in 1 .. n : Kept[i] = cache.recs[i]
    BY <1>1, <2>2, SubSeqProperties
  <2>4. Kept \in Seq(Records)
    BY <2>1, <2>3, <1>2
  <2>5. Len(acked) <= n
    <3> SUFFICES ASSUME n < Len(acked) PROVE FALSE
      BY <1>1
    <3>1. n + 1 \in 1 .. Len(acked) /\ n < Len(cache.recs)
      BY <1>1
    <3> QED BY <3>1, <2>1, <1>1
  <2>6. Len(acked) <= Len(Kept) /\ \A i \in 1 .. Len(acked) : Kept[i] = acked[i]
    BY <1>1, <2>3, <2>5
  <2> QED BY <2>4, <2>6 DEF Holds
<1> QED BY <1>3, <1>4

LEMMA StartImplements == Init => Promise!LogInit
<1> SUFFICES ASSUME Init PROVE Promise!LogInit
  OBVIOUS
<1>1. /\ cache.recs = << >> /\ initialized = FALSE /\ acked = << >>
      /\ cache = EmptyFile /\ disk = EmptyFile
  BY DEF Init, EmptyFile
<1>2. VerifiedLen(cache.recs) = 0
  <2> DEFINE f == cache.recs
  <2>1. f \in Seq(Slots) /\ 0 \in 0 .. Len(f) /\ ~(0 < Len(f)) /\ \A i \in 1 .. 0 : f[i] # Garbage
    BY <1>1
  <2> HIDE DEF f
  <2>2. VerifiedLen(f) = 0
    BY <2>1, VerifiedLenIs
  <2> QED BY <2>2 DEF f
<1>3. Kept = << >>
  BY <1>1, <1>2, SubSeqEmpty DEF Kept, VerifiedPrefix
<1>4. HeaderState = "synced" /\ Log = << >>
  BY <1>1, <1>3, StorageAssumption DEF HeaderState, EmptyFile, Log
<1> QED BY <1>1, <1>4 DEF Promise!LogInit

(* A store is created over a file without a header, which holds nothing    *)
(* and was never confirmed to.                                             *)
LEMMA CreatingImplements ==
  ASSUME IInv, IInv', OpenEmpty \/ OpenEmptyFails
  PROVE  Promise!Create
<1>1. /\ ~initialized /\ UNCHANGED <<initialized, acked>>
      /\ cache.hdr = NoHeader /\ cache'.recs = cache.recs
  BY DEF OpenEmpty, OpenEmptyFails, ghostVars, IInv, TypeOK, Files
<1>2. cache.recs = << >> /\ cache'.recs = << >>
  BY <1>1 DEF IInv, Headed
<1>3. acked = << >>
  <2>1. acked \in Seq(Slots) /\ Len(acked) <= 0
    BY <1>2 DEF IInv, Confirmed, Holds, TypeOK
  <2> QED BY <2>1
<1>4. Kept = << >> /\ Kept' = << >>
  <2>1. /\ << >> \in Seq(Slots) /\ 0 \in 0 .. Len(<< >>) /\ ~(0 < Len(<< >>))
        /\ \A i \in 1 .. 0 : (<< >>)[i] # Garbage
    OBVIOUS
  <2>2. VerifiedLen(<< >>) = 0
    BY ONLY <2>1, VerifiedLenIs
  <2>3. VerifiedPrefix(<< >>) = << >>
    BY <2>2, SubSeqEmpty DEF VerifiedPrefix
  <2> QED BY <1>1, <1>2, <2>3 DEF Kept
<1>5. Log = << >> /\ Log' = << >>
  BY <1>4 DEF Log
<1>6. HeaderState # "torn" /\ HeaderState' \in Promise!HeaderStates
  BY <1>1, StorageAssumption DEF HeaderState, Promise!HeaderStates
<1> QED BY <1>1, <1>3, <1>5, <1>6 DEF Promise!Create

LEMMA OpeningImplements ==
  ASSUME IInv, IInv', HeaderSound, Opening
  PROVE  Promise!Create \/ Promise!Open \/ UNCHANGED promised
<1>1. CASE OpenEmpty \/ OpenEmptyFails
  BY <1>1, CreatingImplements
<1>2. CASE OpenExisting \/ OpenRejected \/ OpenFails \/ ReplayRecord
  <2>1. ~initialized /\ ~initialized' /\ UNCHANGED <<cache, disk, acked>>
    BY <1>2 DEF OpenExisting, OpenRejected, OpenFails, ReplayRecord, ZeroState, fileVars,
                ghostVars, vars, IInv, Progress
  <2>2. Log' = Log /\ HeaderState' = HeaderState
    BY <2>1 DEF Log, Kept, HeaderState
  <2> QED BY <2>1, <2>2 DEF IInv, TypeOK, promised
<1>3. CASE OpenSync \/ ReplayEnd
  <2>1. /\ ~initialized /\ initialized' = TRUE /\ acked' = acked /\ cache' = cache
        /\ disk' \in {disk, cache}
        /\ slab' = slab /\ slab = << >> /\ committed' = committed
        /\ committed < Len(cache.recs) => cache.recs[committed + 1] = Garbage
    BY <1>3 DEF OpenSync, ReplayEnd, fileVars, headVars, ghostVars, IInv, Progress
  <2>2. /\ cache.recs \in Seq(Slots) /\ committed \in 0 .. Len(cache.recs)
        /\ \A i \in 1 .. committed : cache.recs[i] # Garbage
    BY DEF IInv, TypeOK, Files, CommittedVerified
  <2>3. VerifiedLen(cache.recs) = committed
    BY <2>1, <2>2, VerifiedLenIs
  <2>4. Kept = SubSeq(cache.recs, 1, committed)
    BY <2>1, <2>3 DEF Kept, VerifiedPrefix
  <2>5. Kept' = SubSeq(cache.recs, 1, committed) \o << >>
    BY <2>1 DEF Kept
  <2>6. SubSeq(cache.recs, 1, committed) \in Seq(Slots)
    BY <2>2, SubSeqProperties
  <2>7. Kept' = Kept
    BY <2>4, <2>5, <2>6, ConcatEmptySeq
  <2>8. cache.hdr # TornHeader
    BY <1>3 DEF OpenSync, ReplayEnd, HeaderSound
  <2>9. Log = Kept /\ Log' = Kept'
    BY <2>1, <2>8 DEF Log
  <2>10. HeaderState # "torn" /\ HeaderState' \in {HeaderState, "synced"}
    BY <2>1, <2>8 DEF HeaderState
  <2> QED BY <2>1, <2>7, <2>9, <2>10 DEF Promise!Open
<1> QED BY <1>1, <1>2, <1>3 DEF Opening

(* The log of a running store, as RunningLogIs finds it.                   *)
RunningLog ==
  initialized => /\ Kept \in Seq(Slots) /\ Len(Kept) = committed + Len(slab)
                 /\ \A i \in 1 .. committed : Kept[i] = cache.recs[i]
                 /\ \A i \in 1 .. Len(slab) : Kept[committed + i] = slab[i]

LEMMA RunningLogKnown == IInv => RunningLog
BY RunningLogIs DEF RunningLog

(* A flush moves records from the slab to the file, and the log stays.     *)
LEMMA FlushingKeeps ==
  ASSUME IInv, IInv', Flushing
  PROVE  initialized /\ initialized' /\ UNCHANGED <<Kept, acked, initialized>>
<1>0. /\ initialized /\ initialized' /\ UNCHANGED <<initialized, acked>>
      /\ committed \in Nat /\ Len(slab) \in Nat /\ slab \in Seq(Records)
      /\ \A i \in 1 .. committed : cache'.recs[i] = cache.recs[i]
  BY FlushingMoves DEF IInv, TypeOK
<1>1. /\ Kept \in Seq(Slots) /\ Len(Kept) = committed + Len(slab)
      /\ \A i \in 1 .. committed : Kept[i] = cache.recs[i]
      /\ \A i \in 1 .. Len(slab) : Kept[committed + i] = slab[i]
  BY <1>0, RunningLogIs
<1>2. /\ Kept' \in Seq(Slots) /\ Len(Kept') = committed' + Len(slab')
      /\ \A i \in 1 .. committed' : Kept'[i] = cache'.recs[i]
      /\ \A i \in 1 .. Len(slab') : Kept'[committed' + i] = slab'[i]
  <2>1. RunningLog'
    BY RunningLogKnown, PTL
  <2> QED BY <2>1, <1>0 DEF RunningLog
<1>3. Len(Kept') = Len(Kept) /\ \A i \in 1 .. Len(Kept) : Kept'[i] = Kept[i]
  <2>1. ASSUME NEW i \in 1 .. committed + Len(slab)
        PROVE  i \in 1 .. committed \/ \E j \in 1 .. Len(slab) : i = committed + j
    <3>1. CASE i > committed
      <4>1. i - committed \in 1 .. Len(slab) /\ i = committed + (i - committed)
        BY <3>1, <1>0
      <4> QED BY <4>1
    <3> QED BY <3>1, <1>0
  <2>2. CASE committed' = committed /\ slab' = slab
    BY <2>1, <2>2, <1>0, <1>1, <1>2
  <2>3. CASE /\ committed' = committed + Len(slab) /\ slab' = << >>
             /\ \A i \in 1 .. Len(slab) : cache'.recs[committed + i] = slab[i]
    <3>1. /\ Len(Kept') = Len(Kept)
          /\ \A i \in 1 .. committed + Len(slab) : Kept'[i] = cache'.recs[i]
      BY <2>3, <1>0, <1>1, <1>2
    <3> QED BY <2>1, <2>3, <3>1, <1>0, <1>1
  <2> QED BY <2>2, <2>3, FlushingMoves
<1>4. Kept' = Kept
  <2> DEFINE a == Kept
             b == Kept'
  <2>1. a \in Seq(Slots) /\ b \in Seq(Slots) /\ Len(a) = Len(b) /\ \A i \in 1 .. Len(a) : a[i] = b[i]
    BY <1>1, <1>2, <1>3
  <2> HIDE DEF a, b
  <2>2. a = b
    BY <2>1, SeqEqual
  <2> QED BY <2>2 DEF a, b
<1> QED BY <1>0, <1>4

LEMMA FlushingImplements ==
  ASSUME IInv, IInv', Flushing
  PROVE  Promise!Rewrite
<1>1. initialized /\ initialized' /\ UNCHANGED <<Kept, acked, initialized>>
  BY FlushingKeeps
<1>2. Log' = Log
  BY <1>1 DEF Log
<1>3. HeaderState' \in Promise!HeaderStates
  BY DEF HeaderState, Promise!HeaderStates
<1> QED BY <1>1, <1>2, <1>3 DEF Promise!Rewrite

(* Where a durable call returns, everything in the log is in the file.     *)
LEMMA ReturnedIsLogged ==
  ASSUME IInv, FreshInv, HeaderSound, call.step = "return", call.ok,
         call.op \in {"set_mode", "flush", "freeze", "close"}
  PROVE  initialized /\ Kept = cache.recs /\ Log = Kept /\ HeaderState = "synced"
<1>1. initialized /\ slab = << >> /\ Len(cache.recs) = committed
  BY DEF FreshInv, FlushedIsEmpty, IInv, Progress
<1>2. /\ cache.recs \in Seq(Slots) /\ Kept \in Seq(Slots) /\ Len(Kept) = committed
      /\ \A i \in 1 .. committed : Kept[i] = cache.recs[i]
  BY <1>1, RunningLogIs DEF IInv, TypeOK, Files
<1>3. Kept = cache.recs
  BY <1>1, <1>2, SeqEqual
<1>4. Log = Kept /\ HeaderState = "synced"
  BY <1>1 DEF Log, HeaderState, HeaderSound, IInv, Progress
<1> QED BY <1>1, <1>3, <1>4

(* In a running store, numbered or not by the file it was replayed from,   *)
(* the next number is above all that are logged.                           *)
LEMMA LogIsBelowNext ==
  ASSUME IInv, FreshInv, initialized
  PROVE  \A i \in 1 .. Len(Kept) : Kept[i].seq < nextSequence
<1>1. /\ committed \in Nat /\ Len(slab) \in Nat /\ Len(Kept) = committed + Len(slab)
      /\ \A i \in 1 .. committed : Kept[i] = cache.recs[i]
      /\ \A i \in 1 .. Len(slab) : Kept[committed + i] = slab[i]
  BY RunningLogIs DEF IInv, TypeOK
<1> SUFFICES ASSUME NEW i \in 1 .. Len(Kept) PROVE Kept[i].seq < nextSequence
  OBVIOUS
<1>2. CASE i <= committed
  <2>1. i \in 1 .. committed
    BY <1>1, <1>2
  <2> QED BY <2>1, <1>1 DEF FreshInv, NextIsFresh
<1>3. CASE i > committed
  <2>1. PICK j \in 1 .. Len(slab) : i = committed + j
    <3>1. i - committed \in 1 .. Len(slab) /\ i = committed + (i - committed)
      BY <1>1, <1>3
    <3> QED BY <3>1
  <2> QED BY <2>1, <1>1 DEF FreshInv, NextIsFresh
<1> QED BY <1>1, <1>2, <1>3

(* A store that is given up with all its files and confirmations as they   *)
(* are.                                                                    *)
Stops == initialized /\ initialized' = FALSE /\ UNCHANGED <<cache, disk, acked>>

LEMMA CallingImplements ==
  ASSUME IInv, IInv', FreshInv, HeaderSound, Calling
  PROVE  \/ Promise!AppendRecord \/ Promise!Confirm \/ Stops
         \/ UNCHANGED promised
<1>1. ASSUME NEW c \in Contexts, NEW k \in Candidates, Observe(c, k)
      PROVE  Promise!AppendRecord \/ UNCHANGED promised
  <2>1. /\ initialized /\ UNCHANGED <<initialized, cache, disk, committed, acked>>
        /\ SlabFull => slab' = slab
        /\ ~SlabFull => \E r : r.seq = nextSequence /\ slab' = Append(slab, r)
    BY <1>1 DEF Observe, fileVars, headVars, ghostVars
  <2>2. CASE SlabFull
    BY <2>1, <2>2, PromiseKept
  <2>3. CASE ~SlabFull
    <3>1. PICK r : r.seq = nextSequence /\ slab' = Append(slab, r)
      BY <2>1, <2>3
    <3>2. slab \in Seq(Records) /\ slab' \in Seq(Records) /\ committed \in Nat
      BY DEF IInv, TypeOK
    <3>3. Len(slab') = Len(slab) + 1 /\ slab'[Len(slab')] = r /\ r \in Records
      BY <3>1, <3>2
    <3>4. /\ Kept \in Seq(Slots)
          /\ Kept = SubSeq(cache.recs, 1, committed) \o slab
          /\ Kept' = SubSeq(cache.recs, 1, committed) \o slab'
      BY <2>1, RunningLogIs DEF Kept
    <3>5. SubSeq(cache.recs, 1, committed) \in Seq(Slots) /\ slab \in Seq(Slots) /\ r \in Slots
      <4>1. cache.recs \in Seq(Slots) /\ committed <= Len(cache.recs)
        BY DEF IInv, TypeOK, Files, CommittedVerified
      <4>2. SubSeq(cache.recs, 1, committed) \in Seq(Slots)
        BY <4>1, <3>2, SubSeqProperties
      <4> QED BY <4>2, <3>2, <3>3, SeqMonotonic DEF Slots
    <3>6. Kept' = Append(Kept, r)
      <4> DEFINE a == SubSeq(cache.recs, 1, committed)
      <4>1. a \in Seq(Slots) /\ Kept = a \o slab /\ Kept' = a \o Append(slab, r)
        BY <3>1, <3>4, <3>5
      <4> HIDE DEF a
      <4>2. a \o Append(slab, r) = Append(a \o slab, r)
        BY <4>1, <3>5
      <4> QED BY <4>1, <4>2
    <3>7. Len(Kept') = Len(Kept) + 1 /\ Kept'[Len(Kept')] = r
      BY <3>4, <3>6
    <3>8. \A i \in 1 .. Len(Kept) : Kept[i].seq < r.seq
      BY <3>1, <2>1, LogIsBelowNext
    <3>9. Log = Kept /\ Log' = Kept' /\ HeaderState' = HeaderState
      BY <2>1 DEF Log, HeaderState
    <3> QED BY <3>3, <3>6, <3>7, <3>8, <3>9, <2>1 DEF Promise!AppendRecord
  <2> QED BY <2>2, <2>3
<1>2. CASE ReturnObserve \/ Flush \/ Freeze \/ Close \/ ResetVolatile
  BY <1>2, PromiseKept DEF ReturnObserve, Flush, Freeze, Close, ResetVolatile, fileVars,
                           headVars, ghostVars
<1>3. ASSUME NEW m \in CallModes, SetModeRunning(m) \/ SetModePaused(m)
      PROVE  UNCHANGED promised
  BY <1>3, PromiseKept DEF SetModeRunning, SetModePaused, fileVars, headVars, ghostVars
<1>4. CASE ReturnSetMode \/ ReturnFlush
  <2>1. /\ call.step = "return" /\ call.op \in {"set_mode", "flush", "freeze", "close"}
        /\ UNCHANGED <<cache, disk, initialized, committed, slab>>
        /\ acked' = IF call.ok THEN cache.recs ELSE acked
    BY <1>4 DEF ReturnSetMode, ReturnFlush, fileVars, headVars
  <2>2. Log' = Log /\ HeaderState' = HeaderState /\ initialized \in BOOLEAN
    BY <2>1 DEF IInv, TypeOK, Log, Kept, HeaderState
  <2>3. call.ok => Promise!Confirm
    BY <2>1, <2>2, ReturnedIsLogged DEF Promise!Confirm
  <2> QED BY <2>1, <2>2, <2>3 DEF promised
<1>5. CASE ReturnClose
  <2>1. /\ call.step = "return" /\ call.op = "close" /\ cache' = cache /\ disk' = disk
        /\ acked' = IF call.ok THEN cache.recs ELSE acked
        /\ initialized /\ initialized' = FALSE
    BY <1>5 DEF ReturnClose, fileVars, ZeroState, IInv, Progress
  <2>2. CASE ~call.ok
    BY <2>1, <2>2 DEF Stops
  <2>3. CASE call.ok
    <3>1. Kept = cache.recs /\ Log = Kept /\ HeaderState = "synced"
      BY <2>1, <2>3, ReturnedIsLogged
    <3>2. /\ cache.recs \in Seq(Slots) /\ Len(cache.recs) = committed
          /\ \A i \in 1 .. committed : cache.recs[i] # Garbage
      BY <2>1, <2>3 DEF IInv, TypeOK, Files, CommittedVerified, Progress
    <3>3. VerifiedLen(cache.recs) = committed
      <4>1. committed \in 0 .. Len(cache.recs) /\ ~(committed < Len(cache.recs))
        BY <3>2 DEF IInv, TypeOK
      <4> QED BY <4>1, <3>2, VerifiedLenIs
    <3>4. Kept' = SubSeq(cache.recs, 1, Len(cache.recs))
      BY <2>1, <3>2, <3>3 DEF Kept, VerifiedPrefix
    <3>5. Kept' = Kept
      BY <3>1, <3>2, <3>4, SubSeqFull
    <3>6. acked' = Log
      BY <2>1, <2>3, <3>1
    <3>7. Log' = Log /\ HeaderState' = HeaderState
      BY <2>1, <3>1, <3>5 DEF Log, HeaderState
    <3> QED BY <2>1, <3>1, <3>6, <3>7 DEF Promise!Confirm
  <2> QED BY <2>2, <2>3
<1> QED BY <1>1, <1>2, <1>3, <1>4, <1>5 DEF Calling

(* A store that stops, or whose process dies, leaves of its log a          *)
(* beginning, with all that was confirmed.                                 *)
LEMMA StopLeaves ==
  ASSUME IInv, LogInv, Stops
  PROVE  \E n \in Len(acked) .. Len(Kept) : Kept' = SubSeq(Kept, 1, n)
<1>1. /\ cache.recs \in Seq(Slots) /\ slab \in Seq(Records) /\ acked \in Seq(Slots)
      /\ committed \in Nat /\ committed <= Len(cache.recs) /\ Len(acked) <= committed
      /\ \A i \in 1 .. committed : cache.recs[i] # Garbage
  BY DEF IInv, TypeOK, Files, CommittedVerified, Confirmed, Stops
<1>2. PICK n \in 0 .. Len(cache.recs) :
        /\ \A i \in 1 .. n : cache.recs[i] # Garbage
        /\ n < Len(cache.recs) => cache.recs[n + 1] = Garbage
        /\ VerifiedPrefix(cache.recs) = SubSeq(cache.recs, 1, n)
  BY <1>1, VerifiedPrefixIs
<1>3. Kept' = SubSeq(cache.recs, 1, n)
  BY <1>2 DEF Kept, Stops
<1>4. /\ Kept \in Seq(Slots) /\ Len(Kept) = committed + Len(slab) /\ Len(slab) \in Nat
      /\ \A i \in 1 .. committed : Kept[i] = cache.recs[i]
      /\ \A i \in 1 .. Len(slab) : Kept[committed + i] = slab[i]
  BY <1>1, RunningLogIs DEF Stops
<1>5. committed <= n
  <2> SUFFICES ASSUME n < committed PROVE FALSE
    BY <1>1
  <2>1. n + 1 \in 1 .. committed /\ n < Len(cache.recs)
    BY <1>1
  <2> QED BY <2>1, <1>1, <1>2
<1>6. ASSUME NEW i \in 1 .. n
      PROVE  i \in 1 .. Len(Kept) /\ Kept[i] = cache.recs[i]
  <2>1. CASE i <= committed
    BY <2>1, <1>1, <1>4
  <2>2. CASE i > committed
    <3>1. i \in committed + 1 .. Len(cache.recs) /\ cache.recs[i] # Garbage
      BY <2>2, <1>1, <1>2
    <3>2. i - committed <= Len(slab) /\ cache.recs[i] = slab[i - committed]
      BY <3>1 DEF LogInv, TailIsSlab, TailOf, Stops
    <3> DEFINE j == i - committed
    <3>3. j \in 1 .. Len(slab) /\ committed + j = i /\ i \in 1 .. Len(Kept)
      BY <3>1, <3>2, <1>1, <1>4
    <3>4. Kept[committed + j] = slab[j]
      BY <3>3, <1>4
    <3> QED BY <3>2, <3>3, <3>4
  <2> QED BY <2>1, <2>2, <1>1
<1>7. n <= Len(Kept)
  BY <1>1, <1>4, <1>6
<1>8. SubSeq(cache.recs, 1, n) = SubSeq(Kept, 1, n)
  <2>1. /\ SubSeq(cache.recs, 1, n) \in Seq(Slots) /\ Len(SubSeq(cache.recs, 1, n)) = n
        /\ \A i \in 1 .. n : SubSeq(cache.recs, 1, n)[i] = cache.recs[i]
    BY <1>1, SubSeqProperties
  <2>2. /\ SubSeq(Kept, 1, n) \in Seq(Slots) /\ Len(SubSeq(Kept, 1, n)) = n
        /\ \A i \in 1 .. n : SubSeq(Kept, 1, n)[i] = Kept[i]
    BY <1>4, <1>7, SubSeqProperties
  <2> DEFINE a == SubSeq(cache.recs, 1, n)
             b == SubSeq(Kept, 1, n)
  <2>3. a \in Seq(Slots) /\ b \in Seq(Slots) /\ Len(a) = Len(b) /\ \A i \in 1 .. Len(a) : a[i] = b[i]
    BY <2>1, <2>2, <1>6
  <2> HIDE DEF a, b
  <2>4. a = b
    BY <2>3, SeqEqual
  <2> QED BY <2>4 DEF a, b
<1>9. n \in Len(acked) .. Len(Kept)
  BY <1>1, <1>4, <1>5, <1>7
<1> QED BY <1>3, <1>8, <1>9

(* ... for those who can read it.                                          *)
LEMMA StopLoses ==
  ASSUME IInv, LogInv, Stops
  PROVE  Promise!Lose
<1>1. initialized /\ ~initialized' /\ initialized' = FALSE /\ UNCHANGED <<cache, disk, acked>>
  BY DEF Stops
<1>2. Log = Kept /\ HeaderState' = HeaderState
  BY <1>1 DEF Log, HeaderState
<1>3. CASE cache.hdr = TornHeader
  <2>1. Log' = << >> /\ HeaderState = "torn"
    BY <1>1, <1>3 DEF Log, HeaderState
  <2> QED BY <1>1, <1>2, <2>1 DEF Promise!Lose
<1>4. CASE cache.hdr # TornHeader
  <2>1. Log' = Kept' /\ HeaderState # "torn"
    BY <1>1, <1>4 DEF Log, HeaderState
  <2> QED BY <1>1, <1>2, <2>1, StopLeaves DEF Promise!Lose
<1> QED BY <1>3, <1>4

(* What the promise asks of any store that is not open after a step, but   *)
(* for the header.                                                         *)
LEMMA ClosedResurfaces ==
  ASSUME IInv', initialized' = FALSE, acked' = acked,
         HeaderState = "synced" => HeaderState' = "synced"
  PROVE  Promise!Resurface
<1>1. Kept' \in Seq(Records) /\ Holds(Kept', acked')
  <2>1. AckedKept'
    BY KeptHoldsAcked, PTL
  <2> QED BY <2>1 DEF AckedKept
<1>2. HeaderState' \in Promise!HeaderStates
  BY DEF HeaderState, Promise!HeaderStates
<1>3. CASE cache'.hdr = TornHeader
  <2>1. Log' = << >> /\ HeaderState' = "torn"
    BY <1>3 DEF Log, HeaderState
  <2> QED BY <1>2, <2>1 DEF Promise!Resurface
<1>4. CASE cache'.hdr # TornHeader
  <2>1. Log' = Kept' /\ HeaderState' # "torn"
    BY <1>4 DEF Log, HeaderState
  <2> QED BY <1>1, <1>2, <2>1 DEF Promise!Resurface, Promise!Begins, Holds
<1> QED BY <1>3, <1>4

(* A power loss keeps a header that the disk has.                          *)
LEMMA SyncedHeaderSurvives ==
  ASSUME IInv, PowerLoss, HeaderState = "synced"
  PROVE  HeaderState' = "synced"
<1>1. cache.hdr # TornHeader /\ disk.hdr = cache.hdr
  BY DEF HeaderState
<1>2. PICK r \in AreasAfterLoss(disk.recs, cache.recs) :
        /\ cache'.hdr = IF cache.hdr = NoHeader /\ r # << >> THEN TornHeader ELSE cache.hdr
        /\ disk' = cache'
  BY <1>1 DEF PowerLoss, FilesAfterLoss, HeadersAfterLoss
<1>3. cache.hdr = NoHeader => r = << >>
  <2> SUFFICES ASSUME cache.hdr = NoHeader PROVE r = << >>
    OBVIOUS
  <2>1. disk.recs = << >> /\ cache.recs = << >>
    BY <1>1 DEF IInv, Headed
  <2>2. Garbage \in Slots /\ << >> \in Seq(Slots) /\ Holds(<< >>, << >>)
    BY DEF Slots, Holds
  <2>3. r \in AreasAfterLoss(<< >>, << >>)
    BY <2>1
  <2>4. r \in Seq(Slots) /\ Len(r) \in {Len(<< >>), Len(<< >>)}
    BY ONLY <2>2, <2>3, LossProperties
  <2> QED BY <2>4
<1> QED BY <1>1, <1>2, <1>3 DEF HeaderState

(* LearningStore keeps the promise of DurableLog, whatever calls are made, *)
(* storage fails or processes die: records are appended one by one with    *)
(* new numbers while the store is open, opening it brings back what there  *)
(* was, flush, freeze, close and a pause confirm all of it, and what is    *)
(* lost is a suffix without a confirmed record; unless the store ends when *)
(* it has half written its header: such a file is refused, with all that   *)
(* is in it, for good.                                                     *)
THEOREM StoreIsDurableLog ==
  ASSUME ~PowerLossAllowed
  PROVE  Spec => ImplementsDurableLog
<1>1. IInv /\ IInv' /\ LogInv /\ [Next]_vars => LogInv'
  BY LogStep
<1>2. IInv /\ IInv' /\ LogInv /\ FreshInv /\ HeaderSound /\ [Next]_vars
        => [Promise!LogNext]_promised
  <2> SUFFICES ASSUME IInv, IInv', LogInv, FreshInv, HeaderSound, [Next]_vars
               PROVE  Promise!LogNext \/ UNCHANGED promised
    OBVIOUS
  <2>1. CASE UNCHANGED vars
    BY <2>1, PromiseKept DEF vars
  <2>2. CASE Opening \/ Flushing
    BY <2>2, OpeningImplements, FlushingImplements DEF Promise!LogNext
  <2>3. CASE Calling
    BY <2>3, CallingImplements, StopLoses DEF Promise!LogNext
  <2>4. CASE Crash
    <3>1. /\ UNCHANGED <<cache, disk, acked>>
          /\ initialized' = FALSE /\ initialized \in BOOLEAN
      BY <2>4 DEF Crash, ZeroState, fileVars, IInv, TypeOK
    <3>2. CASE ~initialized
      BY <3>1, <3>2 DEF Kept, Log, HeaderState, promised
    <3>3. CASE initialized
      BY <3>1, <3>3, StopLoses DEF Promise!LogNext, Stops
    <3> QED BY <3>2, <3>3
  <2> QED BY <2>1, <2>2, <2>3, <2>4 DEF Next, PowerLoss
<1> QED BY <1>1, <1>2, LogInvStart, StartImplements, Inductive, NumbersStayFresh,
        HeadersStaySound, PTL
        DEF Spec, ImplementsDurableLog, Promise!LogSpec, Promise!promiseVars, promised

(* When the machine may die too, LearningStore keeps the weaker promise:   *)
(* whatever a power loss leaves of the records, a reader is given intact   *)
(* ones, first all those that flush, freeze, close or a pause have         *)
(* confirmed and in their places; and as long as the store is open it only *)
(* appends, above every number it has found.  Only a header that was being *)
(* rewritten, and is not synced, can come out torn; then the reader is     *)
(* given nothing.                                                          *)
THEOREM StoreSurvivesPowerLoss == Spec => SurvivesPowerLoss
<1>1. IInv /\ IInv' /\ FreshInv /\ HeaderSound /\ [Next]_vars
        => [Promise!SurvivalNext]_promised
  <2> SUFFICES ASSUME IInv, IInv', FreshInv, HeaderSound, [Next]_vars
               PROVE  Promise!SurvivalNext \/ UNCHANGED promised
    OBVIOUS
  <2>1. CASE UNCHANGED vars
    BY <2>1, PromiseKept DEF vars
  <2>2. CASE Opening \/ Flushing
    BY <2>2, OpeningImplements, FlushingImplements DEF Promise!SurvivalNext
  <2>3. CASE Calling
    <3>1. CASE Stops
      <4>1. HeaderState' = HeaderState
        BY <3>1 DEF Stops, HeaderState
      <4> QED BY <3>1, <4>1, ClosedResurfaces DEF Promise!SurvivalNext, Stops
    <3> QED BY <2>3, <3>1, CallingImplements DEF Promise!SurvivalNext
  <2>4. CASE Crash \/ PowerLoss
    <3>1. initialized' = FALSE /\ acked' = acked
      BY <2>4 DEF Crash, PowerLoss, ZeroState
    <3>2. Crash => HeaderState' = HeaderState
      BY DEF Crash, fileVars, HeaderState
    <3> QED BY <2>4, <3>1, <3>2, SyncedHeaderSurvives, ClosedResurfaces
            DEF Promise!SurvivalNext
  <2> QED BY <2>1, <2>2, <2>3, <2>4 DEF Next
<1> QED BY <1>1, StartImplements, Inductive, NumbersStayFresh,
        HeadersStaySound, PTL
        DEF Spec, SurvivesPowerLoss, Promise!SurvivalSpec, Promise!promiseVars, promised

(* The next number of a running store is above every number in its log,    *)
(* after any flush that failed, any death and any power loss: a replay     *)
(* goes on above the highest number it reads, not from the record count.   *)
THEOREM NextNumberIsFresh ==
  Spec => [](initialized => \A i \in 1 .. Len(Log) : Log[i].seq < nextSequence)
<1>1. IInv /\ FreshInv
        => (initialized => \A i \in 1 .. Len(Log) : Log[i].seq < nextSequence)
  BY LogIsBelowNext, LogIs
<1> QED BY <1>1, Inductive, NumbersStayFresh, PTL

-----------------------------------------------------------------------------
(* Replaying a log, record by record.                                      *)

(* What learning r makes of table t.                                       *)
Learned(t, r) == IF r.mode \in Learning THEN Update(t, r.ctx, r.cand, r.seq) ELSE t

(* The tables that the records of s lead through, up to the m-th.          *)
ReplayTables(s, m, t) ==
  t = [n \in 0 .. m |-> IF n = 0 THEN EmptyTable ELSE Learned(t[n - 1], s[n])]

LEMMA TablesExist ==
  ASSUME NEW s, NEW n \in Nat
  PROVE  \E t : ReplayTables(s, n, t)
<1> DEFINE S == {m \in Nat : \E t : ReplayTables(s, m, t)}
<1>1. 0 \in S
  <2> DEFINE t == [n1 \in 0 .. 0 |-> EmptyTable]
  <2>1. t = [k \in 0 .. 0 |-> IF k = 0 THEN EmptyTable ELSE Learned(t[k - 1], s[k])]
    OBVIOUS
  <2> QED BY <2>1 DEF ReplayTables
<1>2. ASSUME NEW m \in Nat, m \in S PROVE m + 1 \in S
  <2>1. PICK t : t = [k \in 0 .. m |-> IF k = 0 THEN EmptyTable ELSE Learned(t[k - 1], s[k])]
    BY <1>2 DEF ReplayTables
  <2> DEFINE u == [k \in 0 .. m + 1 |-> IF k = m + 1 THEN Learned(t[m], s[m + 1]) ELSE t[k]]
             v == [k \in 0 .. m + 1 |-> IF k = 0 THEN EmptyTable ELSE Learned(u[k - 1], s[k])]
  <2>2. ASSUME NEW k \in 0 .. m + 1 PROVE u[k] = v[k]
    <3>1. CASE k = m + 1
      <4>1. u[k - 1] = t[m] /\ k # 0
        BY <3>1
      <4> QED BY <3>1, <4>1
    <3>2. CASE k # m + 1
      <4>1. k \in 0 .. m /\ u[k] = t[k] /\ (k # 0 => k - 1 \in 0 .. m + 1 /\ u[k - 1] = t[k - 1])
        BY <3>2
      <4> QED BY <4>1, <2>1
    <3> QED BY <3>1, <3>2
  <2>3. u = v
    <3>1. u = [k \in 0 .. m + 1 |-> u[k]] /\ v = [k \in 0 .. m + 1 |-> v[k]]
      OBVIOUS
    <3> HIDE DEF u, v
    <3> QED BY <3>1, <2>2
  <2>4. ReplayTables(s, m + 1, u)
    <3> HIDE DEF u
    <3> QED BY <2>3 DEF ReplayTables
  <2> QED BY <2>4
<1> HIDE DEF S
<1>3. n \in S
  BY <1>1, <1>2, NaturalsBySteps
<1> QED BY <1>3 DEF S

(* Two logs that agree as far as the shorter one goes lead through the     *)
(* same tables that far.                                                   *)
LEMMA TablesAgree ==
  ASSUME NEW s, NEW r, NEW n \in Nat, NEW m \in Nat, n <= m, Alike(s, r, n),
         NEW t, ReplayTables(s, n, t), NEW u, ReplayTables(r, m, u)
  PROVE  \A k \in 0 .. n : t[k] = u[k]
<1> DEFINE S == {k \in Nat : k <= n => t[k] = u[k]}
<1>1. /\ \A k \in 0 .. n : t[k] = IF k = 0 THEN EmptyTable ELSE Learned(t[k - 1], s[k])
      /\ \A k \in 0 .. m : u[k] = IF k = 0 THEN EmptyTable ELSE Learned(u[k - 1], r[k])
  BY DEF ReplayTables
<1>2. 0 \in S
  BY <1>1
<1>3. ASSUME NEW k \in Nat, k \in S PROVE k + 1 \in S
  <2> SUFFICES ASSUME k + 1 <= n PROVE t[k + 1] = u[k + 1]
    OBVIOUS
  <2>1. k + 1 \in 0 .. n /\ k + 1 \in 0 .. m /\ k + 1 \in 1 .. n /\ k + 1 # 0 /\ k + 1 - 1 = k
    OBVIOUS
  <2>2. t[k + 1] = Learned(t[k], s[k + 1]) /\ u[k + 1] = Learned(u[k], r[k + 1])
    BY <1>1, <2>1
  <2>3. s[k + 1] = r[k + 1]
    BY <2>1 DEF Alike
  <2> QED BY <1>3, <2>1, <2>2, <2>3
<1> HIDE DEF S
<1>4. Nat \subseteq S
  BY <1>2, <1>3, NaturalsBySteps
<1> QED BY <1>4 DEF S

LEMMA ReplayedIs ==
  ASSUME NEW s, Len(s) \in Nat
  PROVE  \E t : ReplayTables(s, Len(s), t) /\ Replayed(s) = t[Len(s)]
<1> DEFINE t == CHOOSE t : ReplayTables(s, Len(s), t)
<1>1. Replayed(s) = t[Len(s)]
  BY DEF Replayed, ReplayTables, Learned
<1>2. ReplayTables(s, Len(s), t)
  BY TablesExist
<1> QED BY <1>1, <1>2

(* Replaying nothing leaves the predictor empty ...                        *)
LEMMA ReplayedNothing == Replayed(<< >>) = EmptyTable
<1> DEFINE s == << >>
<1>1. Len(s) = 0
  OBVIOUS
<1> HIDE DEF s
<1>2. PICK t : ReplayTables(s, Len(s), t) /\ Replayed(s) = t[Len(s)]
  BY <1>1, ReplayedIs
<1> QED BY <1>1, <1>2 DEF ReplayTables, s

(* ... and one record more is learned last.                                *)
LEMMA ReplayedAppend ==
  ASSUME NEW S, NEW s \in Seq(S), NEW r \in S
  PROVE  Replayed(Append(s, r)) = Learned(Replayed(s), r)
<1> DEFINE a == Append(s, r)
           n == Len(s)
<1>1. /\ n \in Nat /\ Len(a) = n + 1 /\ a[n + 1] = r
      /\ \A i \in 1 .. n : s[i] = a[i]
  OBVIOUS
<1> HIDE DEF a, n
<1>2. PICK t : ReplayTables(s, n, t) /\ Replayed(s) = t[n]
  BY <1>1, ReplayedIs DEF n
<1>3. PICK u : ReplayTables(a, n + 1, u) /\ Replayed(a) = u[n + 1]
  BY <1>1, ReplayedIs
<1>4. t[n] = u[n]
  <2>1. n <= n + 1 /\ n + 1 \in Nat /\ n \in 0 .. n
    BY <1>1
  <2>2. Alike(s, a, n)
    BY <1>1 DEF Alike
  <2>3. ReplayTables(s, n, t) /\ ReplayTables(a, n + 1, u)
    BY <1>2, <1>3
  <2>4. \A k \in 0 .. n : t[k] = u[k]
    BY <1>1, <2>1, <2>2, <2>3, TablesAgree
  <2> QED BY <2>1, <2>4
<1>5. u[n + 1] = Learned(u[n], a[n + 1])
  <2>1. \A k \in 0 .. n + 1 :
          u[k] = IF k = 0 THEN EmptyTable ELSE Learned(u[k - 1], a[k])
    BY <1>3 DEF ReplayTables
  <2> DEFINE k == n + 1
  <2>2. k \in 0 .. n + 1 /\ k # 0 /\ k - 1 = n
    BY <1>1
  <2>3. u[k] = Learned(u[k - 1], a[k])
    <3> HIDE DEF k
    <3> QED BY <2>1, <2>2
  <2> QED BY <2>2, <2>3
<1> QED BY <1>1, <1>2, <1>3, <1>4, <1>5 DEF a

LEMMA SubSeqAppend ==
  ASSUME NEW S, NEW s \in Seq(S), NEW m \in 1 .. Len(s) + 1, NEW n \in 0 .. Len(s) - 1,
         m <= n + 1
  PROVE  SubSeq(s, m, n + 1) = Append(SubSeq(s, m, n), s[n + 1])
<1> DEFINE a == SubSeq(s, m, n + 1)
           b == SubSeq(s, m, n)
<1>1. n + 1 \in 1 .. Len(s) /\ m \in Nat /\ n \in Nat /\ m >= 1 /\ Len(s) \in Nat
  OBVIOUS
<1>2. \A i \in m .. n + 1 : s[i] \in S
  BY <1>1
<1>3. /\ a \in Seq(S) /\ Len(a) = n + 2 - m
      /\ \A i \in 1 .. n + 2 - m : a[i] = s[m + i - 1]
  BY <1>1, <1>2, SubSeqProperties
<1>4. /\ b \in Seq(S) /\ Len(b) = n + 1 - m
      /\ \A i \in 1 .. n + 1 - m : b[i] = s[m + i - 1]
  BY <1>1, <1>2, SubSeqProperties
<1> HIDE DEF a, b
<1> DEFINE c == Append(b, s[n + 1])
<1>5. /\ c \in Seq(S) /\ Len(c) = n + 2 - m /\ c[n + 2 - m] = s[n + 1]
      /\ \A i \in 1 .. n + 1 - m : c[i] = s[m + i - 1]
  BY <1>1, <1>2, <1>4
<1> HIDE DEF c
<1>6. ASSUME NEW i \in 1 .. n + 2 - m PROVE a[i] = c[i]
  <2>1. CASE i = n + 2 - m
    <3>1. m + i - 1 = n + 1
      BY <2>1, <1>1
    <3> QED BY <3>1, <2>1, <1>3, <1>5
  <2>2. CASE i # n + 2 - m
    <3>1. i \in 1 .. n + 1 - m
      BY <2>2, <1>1
    <3> QED BY <3>1, <1>3, <1>5
  <2> QED BY <2>1, <2>2
<1>7. a = c
  BY <1>3, <1>5, <1>6, SeqEqual
<1> QED BY <1>7 DEF a, b, c

(* What the predictor has learned: while the log is replayed, the records  *)
(* replayed so far; when the store runs and has dropped nothing, the log   *)
(* since the last reset.                                                   *)
LearnInv ==
  /\ ~initialized => /\ predictor = Replayed(SubSeq(cache.recs, 1, committed))
                     /\ learnedFrom = 0
  /\ initialized =>
       /\ learnedFrom <= Len(Kept)
       /\ stats.dropped = 0 => predictor = Replayed(SubSeq(Kept, learnedFrom + 1, Len(Kept)))

(* A store that has nothing in memory has learned nothing.                 *)
LEMMA ZeroLearned ==
  ASSUME predictor = EmptyTable, committed = 0, learnedFrom = 0, ~initialized
  PROVE  LearnInv
<1>1. SubSeq(cache.recs, 1, 0) = << >>
  BY SubSeqEmpty
<1> QED BY <1>1, ReplayedNothing DEF LearnInv

LEMMA ZeroStateLearned == ZeroState => LearnInv'
<1> SUFFICES ASSUME ZeroState PROVE LearnInv'
  OBVIOUS
<1>1. predictor' = EmptyTable /\ committed' = 0 /\ learnedFrom' = 0 /\ ~initialized'
  BY DEF ZeroState
<1>2. SubSeq(cache'.recs, 1, 0) = << >>
  BY SubSeqEmpty
<1> QED BY <1>1, <1>2, ReplayedNothing DEF LearnInv

LEMMA OpeningLearned == ASSUME IInv, IInv', LearnInv, Opening PROVE LearnInv'
<1> USE DEF LearnInv
<1>0. /\ cache.recs \in Seq(Slots) /\ committed \in 0 .. Len(cache.recs)
      /\ \A i \in 1 .. committed : cache.recs[i] # Garbage
  BY DEF IInv, TypeOK, Files, CommittedVerified
<1>1. CASE OpenEmpty \/ OpenEmptyFails
  <2>1. /\ cache'.recs = cache.recs /\ ~initialized
        /\ UNCHANGED <<initialized, predictor, committed, learnedFrom>>
    BY <1>1 DEF OpenEmpty, OpenEmptyFails, IInv, TypeOK, Files, headVars, learnVars, ghostVars
  <2> QED BY <2>1
<1>2. CASE OpenExisting \/ OpenRejected
  <2>1. /\ cache' = cache /\ ~initialized
        /\ UNCHANGED <<initialized, predictor, committed, learnedFrom>>
    BY <1>2 DEF OpenExisting, OpenRejected, fileVars, learnVars, ghostVars, vars
  <2> QED BY <2>1
<1>3. CASE OpenFails
  BY <1>3, ZeroStateLearned DEF OpenFails
<1>4. CASE ReplayRecord
  <2> DEFINE r == cache.recs[committed + 1]
             s == SubSeq(cache.recs, 1, committed)
  <2>1. /\ ~initialized /\ committed < Len(cache.recs)
        /\ predictor' = Learned(predictor, r) /\ committed' = committed + 1
        /\ UNCHANGED <<cache, initialized, learnedFrom>>
    BY <1>4 DEF ReplayRecord, Relearned, Learned, fileVars, ghostVars, IInv, Progress
  <2>2. s \in Seq(Slots) /\ r \in Slots
    BY <1>0, <2>1, SubSeqProperties
  <2>3. SubSeq(cache.recs, 1, committed + 1) = Append(s, r)
    BY <1>0, <2>1, SubSeqAppend
  <2> HIDE DEF r, s
  <2>4. Replayed(Append(s, r)) = Learned(Replayed(s), r)
    BY <2>2, ReplayedAppend
  <2> QED BY <2>1, <2>3, <2>4 DEF s
<1>5. CASE OpenSync \/ ReplayEnd
  <2>1. /\ ~initialized /\ initialized' /\ UNCHANGED <<cache, slab, committed, predictor, learnedFrom>>
        /\ slab = << >>
    BY <1>5 DEF OpenSync, ReplayEnd, fileVars, headVars, ghostVars, IInv, Progress
  <2> DEFINE s == SubSeq(cache.recs, 1, committed)
  <2>2. s \in Seq(Slots)
    BY <1>0, SubSeqProperties
  <2>3. Kept' = s \o << >>
    BY <2>1 DEF Kept
  <2> HIDE DEF s
  <2>4. Kept' = s /\ SubSeq(s, 1, Len(s)) = s
    BY <2>2, <2>3, ConcatEmptySeq, SubSeqFull
  <2>5. learnedFrom' = 0 /\ predictor' = Replayed(s)
    BY <2>1 DEF s
  <2>6. SubSeq(Kept', learnedFrom' + 1, Len(Kept')) = s /\ learnedFrom' <= Len(Kept')
    <3>1. 0 + 1 = 1 /\ Len(s) \in Nat
      BY <2>2
    <3> QED BY <2>4, <2>5, <3>1
  <2> QED BY <2>1, <2>5, <2>6
<1> QED BY <1>1, <1>2, <1>3, <1>4, <1>5 DEF Opening

(* A step that keeps the log, the predictor and the count of drops.        *)
LEMMA SameLearned ==
  ASSUME LearnInv, initialized, initialized', Kept' = Kept, learnedFrom' = learnedFrom,
         stats'.dropped = 0 => stats.dropped = 0 /\ predictor' = predictor
  PROVE  LearnInv'
BY DEF LearnInv

LEMMA FlushingLearned == ASSUME IInv, IInv', LearnInv, Flushing PROVE LearnInv'
<1>1. initialized /\ initialized'
  BY DEF Flushing, WriteSlab, WriteSlabFails, TruncateFile, TruncateFails, WriteHeader,
         WriteHeaderFails, Fdatasync, FdatasyncFails, FreezeHeader, FreezeSync,
         IInv, Progress, TypeOK, Ops
<1>2. UNCHANGED <<stats, predictor, learnedFrom>>
  BY DEF Flushing, WriteSlab, WriteSlabFails, TruncateFile, TruncateFails, WriteHeader,
         WriteHeaderFails, Fdatasync, FdatasyncFails, FreezeHeader, FreezeSync,
         learnVars, ghostVars
<1> QED BY <1>1, <1>2, FlushingKeeps, SameLearned

LEMMA CallingLearned == ASSUME IInv, IInv', LearnInv, Calling PROVE LearnInv'
<1>1. ASSUME NEW c \in Contexts, NEW k \in Candidates, Observe(c, k) PROVE LearnInv'
  <2>1. /\ initialized /\ initialized' /\ UNCHANGED <<cache, committed, learnedFrom>>
    BY <1>1 DEF Observe, fileVars, headVars, ghostVars
  <2>2. CASE SlabFull
    <3>1. slab' = slab
      BY <1>1, <2>2 DEF Observe
    <3>2. stats'.dropped # 0
      <4>1. stats.dropped \in Nat
        BY DEF IInv, TypeOK, Counters
      <4>2. stats'.dropped = stats.dropped + 1
        BY <1>1, <2>2 DEF Observe, IInv, TypeOK, Counters
      <4> QED BY <4>1, <4>2
    <3>3. Kept' = Kept
      BY <2>1, <3>1, RecordsKept
    <3> QED BY <2>1, <3>2, <3>3, SameLearned
  <2>3. CASE ~SlabFull
    <3>1. PICK r : /\ slab' = Append(slab, r)
                   /\ r.ctx = c /\ r.cand = k /\ r.seq = nextSequence /\ r.mode = mode
      BY <1>1, <2>3 DEF Observe
    <3>2. predictor' = Learned(predictor, r)
      BY <1>1, <3>1 DEF Observe, Learned
    <3>3. stats'.dropped = stats.dropped
      BY <1>1, <2>3 DEF Observe, IInv, TypeOK, Counters
    <3>4. slab \in Seq(Records) /\ slab' \in Seq(Records)
      BY DEF IInv, TypeOK
    <3>5. Kept \in Seq(Slots) /\ r \in Slots /\ Kept' = Append(Kept, r)
      <4>1. Len(slab') = Len(slab) + 1 /\ slab'[Len(slab')] = r
        BY <3>1, <3>4
      <4>2. r \in Slots
        BY <4>1, <3>4 DEF Slots
      <4> DEFINE a == SubSeq(cache.recs, 1, committed)
      <4>3. a \in Seq(Slots)
        BY SubSeqProperties DEF IInv, TypeOK, Files, CommittedVerified
      <4>4. Kept \in Seq(Slots) /\ Kept = a \o slab
        BY <2>1, RunningLogIs
      <4>5. Kept' = a \o Append(slab, r)
        BY <2>1, <3>1 DEF Kept
      <4> HIDE DEF a
      <4>6. slab \in Seq(Slots)
        BY <3>4, SeqMonotonic DEF Slots
      <4>7. a \o Append(slab, r) = Append(a \o slab, r)
        BY <4>2, <4>3, <4>6
      <4> QED BY <4>2, <4>4, <4>5, <4>7
    <3>6. learnedFrom \in Nat /\ learnedFrom <= Len(Kept)
      BY <2>1 DEF LearnInv, IInv, TypeOK
    <3> DEFINE s == SubSeq(Kept, learnedFrom + 1, Len(Kept))
               n == Len(Kept)
               t == Append(Kept, r)
    <3>7. s \in Seq(Slots)
      BY <3>5, <3>6, SubSeqProperties
    <3>8. SubSeq(t, learnedFrom + 1, n + 1) = Append(s, r)
      <4>1. /\ t \in Seq(Slots) /\ Len(t) = n + 1 /\ t[n + 1] = r /\ n \in Nat
            /\ \A i \in 1 .. n : t[i] = Kept[i]
        BY <3>5
      <4>2. SubSeq(t, learnedFrom + 1, n + 1) = Append(SubSeq(t, learnedFrom + 1, n), t[n + 1])
        <5> HIDE DEF t, n
        <5>1. learnedFrom + 1 \in 1 .. Len(t) + 1 /\ n \in 0 .. Len(t) - 1 /\ learnedFrom + 1 <= n + 1
          BY <4>1, <3>6 DEF n
        <5> QED BY <4>1, <5>1, SubSeqAppend
      <4>3. SubSeq(t, learnedFrom + 1, n) = s
        <5> DEFINE p == SubSeq(t, learnedFrom + 1, n)
        <5> HIDE DEF t
        <5>1. /\ p \in Seq(Slots) /\ Len(p) = IF learnedFrom + 1 <= n THEN n - learnedFrom ELSE 0
              /\ \A i \in 1 .. n - learnedFrom : p[i] = t[learnedFrom + i]
          BY <4>1, <3>6, SubSeqProperties
        <5>2. /\ s \in Seq(Slots) /\ Len(s) = IF learnedFrom + 1 <= n THEN n - learnedFrom ELSE 0
              /\ \A i \in 1 .. n - learnedFrom : s[i] = Kept[learnedFrom + i]
          BY <3>5, <3>6, SubSeqProperties
        <5> HIDE DEF p, s, n
        <5>3. ASSUME NEW i \in 1 .. Len(p) PROVE p[i] = s[i]
          <6>1. i \in 1 .. n - learnedFrom /\ learnedFrom + i \in 1 .. n
            BY <5>1, <3>6, <4>1
          <6> QED BY <6>1, <5>1, <5>2, <4>1
        <5>4. p = s
          BY <5>1, <5>2, <5>3, SeqEqual
        <5> QED BY <5>4 DEF p
      <4> QED BY <4>1, <4>2, <4>3
    <3>9. Len(Kept') = n + 1 /\ n \in Nat
      BY <3>5
    <3>10. Replayed(Append(s, r)) = Learned(Replayed(s), r)
      <4> HIDE DEF s
      <4> QED BY <3>5, <3>7, ReplayedAppend
    <3>11. SubSeq(Kept', learnedFrom' + 1, Len(Kept')) = Append(s, r)
      BY <2>1, <3>5, <3>8, <3>9
    <3>12. stats.dropped = 0 => predictor = Replayed(s)
      BY <2>1 DEF LearnInv
    <3>13. learnedFrom' <= Len(Kept')
      BY <2>1, <3>6, <3>9
    <3> HIDE DEF s
    <3> QED BY <2>1, <3>2, <3>3, <3>10, <3>11, <3>12, <3>13 DEF LearnInv
  <2> QED BY <2>2, <2>3
<1>2. CASE ReturnObserve
  <2>1. initialized /\ initialized'
    BY <1>2 DEF ReturnObserve, IInv, Progress
  <2>2. stats'.dropped = 0 => stats.dropped = 0
    <3>1. stats.dropped \in Nat /\ stats'.dropped \in {stats.dropped, stats.dropped + 1}
      BY <1>2 DEF ReturnObserve, IInv, TypeOK, Counters
    <3> QED BY <3>1
  <2> QED BY <1>2, <2>1, <2>2, RecordsKept, SameLearned
          DEF ReturnObserve, fileVars, headVars, ghostVars
<1>3. ASSUME NEW m \in CallModes, SetModeRunning(m) \/ SetModePaused(m) PROVE LearnInv'
  BY <1>3, RecordsKept, SameLearned
     DEF SetModeRunning, SetModePaused, fileVars, headVars, learnVars, ghostVars
<1>4. CASE Flush \/ Freeze \/ Close
  BY <1>4, RecordsKept, SameLearned DEF Flush, Freeze, Close, fileVars, headVars, learnVars, ghostVars
<1>5. CASE ReturnSetMode \/ ReturnFlush
  <2>1. initialized /\ initialized'
    BY <1>5 DEF ReturnSetMode, ReturnFlush, IInv, Progress
  <2> QED BY <1>5, <2>1, RecordsKept, SameLearned
          DEF ReturnSetMode, ReturnFlush, fileVars, headVars, learnVars
<1>6. CASE ResetVolatile
  <2>1. /\ initialized /\ initialized' /\ predictor' = EmptyTable
        /\ learnedFrom' = committed + Len(slab)
        /\ UNCHANGED <<cache, committed, slab>>
    BY <1>6 DEF ResetVolatile, fileVars
  <2>2. Kept' = Kept /\ Len(Kept) = committed + Len(slab) /\ Len(Kept) \in Nat
    BY <2>1, RecordsKept, RunningLogIs
  <2>3. SubSeq(Kept', Len(Kept') + 1, Len(Kept')) = << >>
    BY <2>2, SubSeqEmpty
  <2>4. learnedFrom' = Len(Kept') /\ learnedFrom' <= Len(Kept')
    BY <2>1, <2>2
  <2> QED BY <2>1, <2>3, <2>4, ReplayedNothing DEF LearnInv
<1>7. CASE ReturnClose
  BY <1>7, ZeroStateLearned DEF ReturnClose
<1> QED BY <1>1, <1>2, <1>3, <1>4, <1>5, <1>6, <1>7 DEF Calling

LEMMA LearningStays == Spec => []LearnInv
<1>1. Init => LearnInv
  BY ZeroLearned DEF Init
<1>2. IInv /\ IInv' /\ LearnInv /\ [Next]_vars => LearnInv'
  <2> SUFFICES ASSUME IInv, IInv', LearnInv, [Next]_vars PROVE LearnInv'
    OBVIOUS
  <2>1. CASE UNCHANGED vars
    BY <2>1 DEF vars, LearnInv, Kept
  <2>2. CASE Crash \/ PowerLoss
    BY <2>2, ZeroStateLearned DEF Crash, PowerLoss
  <2> QED BY <2>1, <2>2, OpeningLearned, FlushingLearned, CallingLearned DEF Next
<1> QED BY <1>1, <1>2, Inductive, PTL DEF Spec

(* What the predictor knows is what the log would teach it, record for     *)
(* record, as long as observe has reported no failure: a crash and a       *)
(* replay cannot be noticed by who asks for predictions, whatever has      *)
(* failed before and even when the machine dies.                           *)
THEOREM LearningIsLogged == Spec => []LearnedIsLoggedUnlessDropped
<1>1. LearnInv => LearnedIsLoggedUnlessDropped
  BY LogIs DEF LearnInv, LearnedIsLoggedUnlessDropped, LearnedIsLogged
<1> QED BY <1>1, LearningStays, PTL

-----------------------------------------------------------------------------
(* What the predictor knows, and how it comes to know it.                  *)

(* It changes by an update with a record, or by being emptied.             *)
LEMMA PredictorMoves ==
  ASSUME IInv, [Next]_vars
  PROVE  \/ predictor' = predictor
         \/ predictor' = EmptyTable
         \/ \E c \in Contexts, k \in Candidates, s \in Nat :
              predictor' = Update(predictor, c, k, s)
<1>1. CASE ReplayRecord
  <2> DEFINE r == cache.recs[committed + 1]
  <2>1. /\ committed < Len(cache.recs) /\ r # Garbage /\ predictor' = Relearned(r)
        /\ committed \in Nat /\ cache.recs \in Seq(Slots)
    BY <1>1 DEF ReplayRecord, IInv, TypeOK, Files
  <2>2. r \in Records
    BY <2>1 DEF Slots
  <2>3. r.ctx \in Contexts /\ r.cand \in Candidates /\ r.seq \in Nat
    BY <2>2 DEF Records
  <2> HIDE DEF r
  <2> QED BY <2>1, <2>3 DEF Relearned
<1>2. CASE Opening /\ ~ReplayRecord
  BY <1>2 DEF Opening, OpenEmpty, OpenEmptyFails, OpenSync, OpenExisting, OpenRejected,
              ReplayEnd, OpenFails, ZeroState, learnVars, vars
<1>3. CASE Flushing
  BY <1>3 DEF Flushing, WriteSlab, WriteSlabFails, TruncateFile, TruncateFails, WriteHeader,
              WriteHeaderFails, Fdatasync, FdatasyncFails, FreezeHeader, FreezeSync, learnVars
<1>4. ASSUME NEW c \in Contexts, NEW k \in Candidates, Observe(c, k)
      PROVE  predictor' = predictor \/ predictor' = Update(predictor, c, k, nextSequence)
  BY <1>4 DEF Observe
<1>5. CASE \/ ReturnObserve \/ ReturnSetMode \/ Flush \/ Freeze \/ ReturnFlush
           \/ ResetVolatile \/ Close \/ ReturnClose
  BY <1>5 DEF ReturnObserve, ReturnSetMode, Flush, Freeze, ReturnFlush, ResetVolatile, Close,
              ReturnClose, ZeroState, learnVars
<1>6. ASSUME NEW m \in CallModes, SetModeRunning(m) \/ SetModePaused(m)
      PROVE  predictor' = predictor
  BY <1>6 DEF SetModeRunning, SetModePaused, learnVars
<1>7. CASE Crash \/ PowerLoss
  BY <1>7 DEF Crash, PowerLoss, ZeroState
<1>8. CASE UNCHANGED vars
  BY <1>8 DEF vars
<1>9. nextSequence \in Nat
  BY DEF IInv, TypeOK
<1> QED BY <1>1, <1>2, <1>3, <1>4, <1>5, <1>6, <1>7, <1>8, <1>9 DEF Next, Calling

LearnsSoundly == EntriesAreSound(predictor)

(* The predictor never has two entries for one outcome of a context, so    *)
(* that a support is not split and an update meets at most one; and every  *)
(* entry is where its context is looked for.                               *)
THEOREM EntriesStaySound == Spec => []LearnsSoundly
<1>1. Init => LearnsSoundly
  BY DEF Init, EmptyTable, LearnsSoundly, EntriesAreSound
<1>2. IInv /\ LearnsSoundly /\ [Next]_vars => LearnsSoundly'
  <2> SUFFICES ASSUME IInv, LearnsSoundly, [Next]_vars PROVE EntriesAreSound(predictor')
    BY DEF LearnsSoundly
  <2>1. EntriesAreSound(EmptyTable)
    BY DEF EmptyTable, EntriesAreSound
  <2>2. predictor \in Tables /\ EntriesAreSound(predictor)
    BY DEF IInv, TypeOK, LearnsSoundly
  <2>3. ASSUME NEW c \in Contexts, NEW k \in Candidates, NEW s \in Nat
        PROVE  EntriesAreSound(Update(predictor, c, k, s))
    BY <2>2, UpdateSound, StorageAssumption
  <2> QED BY <2>1, <2>2, <2>3, PredictorMoves
<1> QED BY <1>1, <1>2, Inductive, PTL DEF Spec

PredictsTheBest ==
  \A c \in Contexts : Predictable(predictor, c) => BestOf(predictor, c, Predict(predictor, c))

(* What is predicted of a context is the candidate with the most support   *)
(* in its set, and the lowest one of several.                              *)
THEOREM PredictionsAreBest == Spec => []PredictsTheBest
<1>1. IInv => PredictsTheBest
  BY PredictIs DEF IInv, TypeOK, PredictsTheBest
<1> QED BY <1>1, Inductive, PTL

(* Of an entry that gives way to another outcome.                          *)
Displaced(g, w) ==
  /\ predictor[g][w] # Free /\ predictor'[g][w] # Free
  /\ \/ predictor'[g][w].ctx # predictor[g][w].ctx
     \/ predictor'[g][w].cand # predictor[g][w].cand

WeakestGoes ==
  \A g \in Sets, w \in 1 .. Ways : Displaced(g, w) =>
    \A v \in 1 .. Ways : /\ predictor[g][v] # Free
                         /\ predictor[g][w].count <= predictor[g][v].count

(* An entry gives way to one of another outcome only in a full set, and    *)
(* only when no other entry of the set has less support.                   *)
THEOREM EvictsWeakest == Spec => [][WeakestGoes]_vars
<1>1. IInv /\ [Next]_vars => [WeakestGoes]_vars
  <2> SUFFICES ASSUME IInv, [Next]_vars, NEW g \in Sets, NEW w \in 1 .. Ways, Displaced(g, w),
                      NEW v \in 1 .. Ways
               PROVE  predictor[g][v] # Free /\ predictor[g][w].count <= predictor[g][v].count
    BY DEF WeakestGoes
  <2>1. predictor \in Tables /\ predictor \in [Sets -> [1 .. Ways -> Entries \cup {Free}]]
    BY DEF IInv, TypeOK, Tables
  <2>2. PICK c \in Contexts, k \in Candidates, s \in Nat :
          predictor' = Update(predictor, c, k, s)
    <3>1. predictor' # predictor
      BY DEF Displaced
    <3>2. predictor' # EmptyTable
      <4>1. EmptyTable[g][w] = Free
        BY DEF EmptyTable
      <4> QED BY <4>1 DEF Displaced
    <3> QED BY <3>1, <3>2, PredictorMoves
  <2>3. PICK x, e : UpdatesBy(predictor, predictor', c, k, s, x, e)
    BY <2>1, <2>2, UpdateIs
  <2>4. /\ x \in 1 .. Ways /\ SetOf[c] \in Sets /\ e.ctx = c /\ e.cand = k
        /\ predictor' = [predictor EXCEPT ![SetOf[c]] = [predictor[SetOf[c]] EXCEPT ![x] = e]]
    BY <2>3, PredictorAssumption DEF UpdatesBy
  <2>5. g = SetOf[c] /\ w = x /\ predictor'[g][w] = e
    BY <2>1, <2>4 DEF Displaced
  <2>6. \A u \in 1 .. Ways : predictor[g][u] # Free /\ predictor[g][w].count <= predictor[g][u].count
    BY <2>3, <2>4, <2>5 DEF UpdatesBy, Displaced
  <2> QED BY <2>6
<1> QED BY <1>1, Inductive, PTL DEF Spec

(* The records among the first n of s that taught outcome k of context c.  *)
LearnedAs(s, n, c, k) ==
  {i \in 1 .. n : s[i].mode \in Learning /\ s[i].ctx = c /\ s[i].cand = k}

(* Every entry of p counts at most the records that taught it, and is      *)
(* dated by one of them.                                                   *)
SupportedBy(p, s, n) ==
  \A g \in Sets : \A w \in 1 .. Ways : p[g][w] # Free =>
    /\ p[g][w].count <= Cardinality(LearnedAs(s, n, p[g][w].ctx, p[g][w].cand))
    /\ \E i \in LearnedAs(s, n, p[g][w].ctx, p[g][w].cand) : s[i].seq = p[g][w].seq

LEMMA LearnedAsGrows ==
  ASSUME NEW s, NEW n \in Nat, NEW c, NEW k
  PROVE  /\ LearnedAs(s, n, c, k) \subseteq LearnedAs(s, n + 1, c, k)
         /\ Cardinality(LearnedAs(s, n, c, k)) \in Nat
         /\ Cardinality(LearnedAs(s, n + 1, c, k)) \in Nat
         /\ Cardinality(LearnedAs(s, n, c, k)) <= Cardinality(LearnedAs(s, n + 1, c, k))
         /\ s[n + 1].mode \in Learning /\ s[n + 1].ctx = c /\ s[n + 1].cand = k =>
              /\ n + 1 \in LearnedAs(s, n + 1, c, k)
              /\ Cardinality(LearnedAs(s, n + 1, c, k)) = Cardinality(LearnedAs(s, n, c, k)) + 1
<1> DEFINE A == LearnedAs(s, n, c, k)
           B == LearnedAs(s, n + 1, c, k)
<1>1. A \subseteq B /\ A \subseteq 1 .. n /\ B \subseteq 1 .. n + 1 /\ n + 1 \notin A
  BY DEF LearnedAs
<1>2. s[n + 1].mode \in Learning /\ s[n + 1].ctx = c /\ s[n + 1].cand = k =>
        B = A \cup {n + 1} /\ n + 1 \in B
  BY DEF LearnedAs
<1> HIDE DEF A, B
<1>3. IsFiniteSet(A) /\ IsFiniteSet(B)
  <2>1. IsFiniteSet(1 .. n + 1)
    BY FS_Interval
  <2>2. A \in SUBSET (1 .. n + 1) /\ B \in SUBSET (1 .. n + 1)
    BY <1>1
  <2> QED BY <2>1, <2>2, FS_Subset
<1>4. Cardinality(A) \in Nat /\ Cardinality(B) \in Nat /\ Cardinality(A) <= Cardinality(B)
  BY <1>1, <1>3, FS_CardinalityType, FS_Subset
<1>5. Cardinality(A \cup {n + 1}) = Cardinality(A) + 1
  BY <1>1, <1>3, FS_AddElement
<1> QED BY <1>1, <1>2, <1>4, <1>5 DEF A, B

(* Learning one record more keeps a table supported.                       *)
LEMMA LearnedSupported ==
  ASSUME NEW s \in Seq(Records), NEW n \in 0 .. Len(s) - 1, NEW p \in Tables, SupportedBy(p, s, n)
  PROVE  Learned(p, s[n + 1]) \in Tables /\ SupportedBy(Learned(p, s[n + 1]), s, n + 1)
<1> DEFINE r == s[n + 1]
<1>1. n \in Nat /\ r \in Records
  OBVIOUS
<1>2. r.ctx \in Contexts /\ r.cand \in Candidates /\ r.seq \in Nat
  BY <1>1 DEF Records
<1>3. ASSUME NEW g \in Sets, NEW v \in 1 .. Ways, p[g][v] # Free
      PROVE  /\ p[g][v].count <= Cardinality(LearnedAs(s, n + 1, p[g][v].ctx, p[g][v].cand))
             /\ \E i \in LearnedAs(s, n + 1, p[g][v].ctx, p[g][v].cand) : s[i].seq = p[g][v].seq
  <2> DEFINE x == p[g][v]
             A == LearnedAs(s, n, x.ctx, x.cand)
             B == LearnedAs(s, n + 1, x.ctx, x.cand)
  <2>1. x.count <= Cardinality(A) /\ \E i \in A : s[i].seq = x.seq
    BY <1>3 DEF SupportedBy
  <2>2. A \subseteq B /\ Cardinality(A) \in Nat /\ Cardinality(B) \in Nat
        /\ Cardinality(A) <= Cardinality(B)
    BY <1>1, LearnedAsGrows
  <2>3. x.count \in Nat
    <3>1. x \in Entries
      BY <1>3 DEF Tables
    <3> QED BY <3>1, PredictorAssumption DEF Entries
  <2> HIDE DEF x, A, B
  <2>4. x.count <= Cardinality(B) /\ \E i \in B : s[i].seq = x.seq
    BY <2>1, <2>2, <2>3
  <2> QED BY <2>4 DEF x, B
<1>4. CASE r.mode \notin Learning
  <2>1. Learned(p, r) = p
    BY <1>4 DEF Learned
  <2>2. SupportedBy(p, s, n + 1)
    BY <1>3 DEF SupportedBy
  <2> QED BY <2>1, <2>2
<1>5. CASE r.mode \in Learning
  <2> DEFINE q == Update(p, r.ctx, r.cand, r.seq)
             A == LearnedAs(s, n, r.ctx, r.cand)
             B == LearnedAs(s, n + 1, r.ctx, r.cand)
  <2>1. Learned(p, r) = q
    BY <1>5 DEF Learned
  <2>2. q \in Tables
    BY <1>2, UpdateType
  <2>3. PICK w, e : UpdatesBy(p, q, r.ctx, r.cand, r.seq, w, e)
    <3> HIDE DEF r
    <3> QED BY <1>2, UpdateIs
  <2>4. /\ n + 1 \in B /\ Cardinality(A) \in Nat /\ Cardinality(B) = Cardinality(A) + 1
    BY <1>1, <1>5, LearnedAsGrows
  <2> HIDE DEF q, A, B
  <2>5. /\ w \in 1 .. Ways /\ SetOf[r.ctx] \in Sets
        /\ e \in Entries /\ e.ctx = r.ctx /\ e.cand = r.cand /\ e.seq = r.seq
        /\ q = [p EXCEPT ![SetOf[r.ctx]] = [p[SetOf[r.ctx]] EXCEPT ![w] = e]]
    BY <1>2, <2>3, PredictorAssumption DEF UpdatesBy
  <2>6. e.count <= Cardinality(B)
    <3> DEFINE x == p[SetOf[r.ctx]][w]
    <3>1. \/ /\ x # Free /\ x.ctx = r.ctx /\ x.cand = r.cand
             /\ e.count = x.count \/ e.count = x.count + 1
          \/ e.count = 1
      BY <2>3 DEF UpdatesBy
    <3>2. CASE x # Free /\ x.ctx = r.ctx /\ x.cand = r.cand
      <4>1. x.count <= Cardinality(A)
        BY <2>5, <3>2 DEF SupportedBy, A
      <4>2. x \in Entries
        BY <2>5, <3>2 DEF Tables
      <4>3. x.count \in Nat
        BY <4>2, PredictorAssumption DEF Entries
      <4> HIDE DEF x
      <4> QED BY <2>4, <3>1, <4>1, <4>3
    <3>3. CASE e.count = 1
      BY <2>4, <3>3
    <3> HIDE DEF x
    <3> QED BY <3>1, <3>2, <3>3
  <2>7. ASSUME NEW g \in Sets, NEW v \in 1 .. Ways, q[g][v] # Free
        PROVE  /\ q[g][v].count <= Cardinality(LearnedAs(s, n + 1, q[g][v].ctx, q[g][v].cand))
               /\ \E i \in LearnedAs(s, n + 1, q[g][v].ctx, q[g][v].cand) : s[i].seq = q[g][v].seq
    <3>1. p \in [Sets -> [1 .. Ways -> Entries \cup {Free}]]
      BY DEF Tables
    <3>2. CASE g = SetOf[r.ctx] /\ v = w
      <4>1. q[g][v] = e
        BY <2>5, <3>1, <3>2
      <4>2. LearnedAs(s, n + 1, e.ctx, e.cand) = B
        BY <2>5 DEF B
      <4>3. \E i \in B : s[i].seq = e.seq
        BY <2>4, <2>5
      <4> QED BY <2>6, <4>1, <4>2, <4>3
    <3>3. CASE ~(g = SetOf[r.ctx] /\ v = w)
      <4>1. q[g][v] = p[g][v]
        BY <2>5, <3>1, <3>3
      <4> QED BY <4>1, <1>3, <2>7
    <3> QED BY <3>2, <3>3
  <2>8. SupportedBy(q, s, n + 1)
    BY <2>7 DEF SupportedBy
  <2> QED BY <2>1, <2>2, <2>8
<1> QED BY <1>4, <1>5

LEMMA ReplayIsSupported ==
  ASSUME NEW s \in Seq(Records)
  PROVE  SupportedBy(Replayed(s), s, Len(s))
<1> DEFINE n == Len(s)
<1>1. n \in Nat
  OBVIOUS
<1>2. PICK t : ReplayTables(s, n, t) /\ Replayed(s) = t[n]
  BY <1>1, ReplayedIs
<1> HIDE DEF n
<1>3. \A k \in 0 .. n : t[k] = IF k = 0 THEN EmptyTable ELSE Learned(t[k - 1], s[k])
  BY <1>2 DEF ReplayTables
<1> DEFINE S == {k \in Nat : k <= n => t[k] \in Tables /\ SupportedBy(t[k], s, k)}
<1>4. 0 \in S
  <2>1. t[0] = EmptyTable
    BY <1>1, <1>3
  <2>2. EmptyTable \in Tables /\ SupportedBy(EmptyTable, s, 0)
    BY DEF EmptyTable, Tables, SupportedBy
  <2> QED BY <2>1, <2>2
<1>5. ASSUME NEW k \in Nat, k \in S PROVE k + 1 \in S
  <2> SUFFICES ASSUME k + 1 <= n PROVE t[k + 1] \in Tables /\ SupportedBy(t[k + 1], s, k + 1)
    OBVIOUS
  <2>1. t[k + 1] = Learned(t[k], s[k + 1])
    <3> DEFINE j == k + 1
    <3>1. j \in 0 .. n /\ j # 0 /\ j - 1 = k
      BY <1>1
    <3>2. t[j] = Learned(t[j - 1], s[j])
      <4> HIDE DEF j
      <4> QED BY <1>3, <3>1
    <3> QED BY <3>1, <3>2
  <2>2. t[k] \in Tables /\ SupportedBy(t[k], s, k) /\ k \in 0 .. Len(s) - 1
    BY <1>1, <1>5 DEF n
  <2> QED BY <2>1, <2>2, LearnedSupported
<1> HIDE DEF S
<1>6. n \in S
  BY <1>1, <1>4, <1>5, NaturalsBySteps
<1> QED BY <1>1, <1>2, <1>6 DEF S, n

(* What the predictor claims is backed by the log.                         *)
SupportIsRecorded ==
  initialized /\ stats.dropped = 0 =>
    LET s == SubSeq(Log, learnedFrom + 1, Len(Log)) IN SupportedBy(predictor, s, Len(s))

(* As long as observe has reported no failure, no entry has more support   *)
(* than records since the last reset taught its outcome, and its date is   *)
(* the number of one of them.  (An entry that was displaced starts anew,   *)
(* and a count saturates: support is never exact.)                         *)
THEOREM SupportStaysRecorded == Spec => []SupportIsRecorded
<1>1. IInv /\ LearnInv => SupportIsRecorded
  <2> SUFFICES ASSUME IInv, LearnInv, initialized, stats.dropped = 0
               PROVE  LET s == SubSeq(Kept, learnedFrom + 1, Len(Kept))
                      IN  SupportedBy(predictor, s, Len(s))
    BY LogIs DEF SupportIsRecorded
  <2> DEFINE s == SubSeq(Kept, learnedFrom + 1, Len(Kept))
  <2>1. /\ Kept \in Seq(Records) /\ learnedFrom \in Nat /\ learnedFrom <= Len(Kept)
        /\ predictor = Replayed(s)
    BY KeptHoldsAcked DEF AckedKept, LearnInv, IInv, TypeOK
  <2>2. s \in Seq(Records)
    <3> DEFINE l == Kept
               a == learnedFrom + 1
    <3>1. l \in Seq(Records) /\ a \in 1 .. Len(l) + 1 /\ Len(l) \in Nat
      BY <2>1
    <3> HIDE DEF l, a
    <3>2. SubSeq(l, a, Len(l)) \in Seq(Records)
      <4>1. \A i \in a .. Len(l) : l[i] \in Records
        BY <3>1
      <4> QED BY <3>1, <4>1, SubSeqProperties
    <3> QED BY <3>2 DEF l, a
  <2> HIDE DEF s
  <2>3. SupportedBy(predictor, s, Len(s))
    BY <2>1, <2>2, ReplayIsSupported
  <2> QED BY <2>3 DEF s
<1> QED BY <1>1, LearningStays, Inductive, PTL

-----------------------------------------------------------------------------
(* The runtime over the store (RuntimeOverStore).                          *)

(* Whatever the runtime does is, seen from the store, a step of the store. *)
LEMMA LayersDriveStore ==
  ASSUME "FROZEN" \in CallModes
  PROVE  [LayersNext]_layers => [Next]_vars
<1> SUFFICES ASSUME LayersNext PROVE [Next]_vars
  BY DEF layers
<1>1. CASE RuntimeInit \/ RuntimeInitFails \/ StoreOpened \/ ProbeSucceeds
  BY <1>1 DEF RuntimeInit, RuntimeInitFails, StoreOpened, ProbeSucceeds, Next, Opening
<1>2. CASE ProbeFails \/ RuntimeCloses \/ RuntimeClosed \/ RuntimeFlushes \/ RuntimeResets
  BY <1>2 DEF ProbeFails, RuntimeCloses, RuntimeClosed, RuntimeFlushes, RuntimeResets,
              Next, Calling
<1>3. ASSUME NEW m \in CallModes, RuntimeSetsRunning(m) \/ RuntimeSetsPaused(m)
      PROVE  Calling
  BY <1>3 DEF RuntimeSetsRunning, RuntimeSetsPaused, Calling
<1>4. CASE RuntimeValidates \/ FlushedForValidation \/ RuntimeModeSet \/ RuntimePassesOn
  BY <1>4 DEF RuntimeValidates, FlushedForValidation, RuntimeModeSet, RuntimePassesOn, Next,
              Calling
<1>5. CASE FreezeForValidation
  BY <1>5 DEF FreezeForValidation, Next, Calling
<1>6. ASSUME NEW c \in Contexts, NEW k \in Candidates, RuntimeObserves(c, k) PROVE Calling
  BY <1>6 DEF RuntimeObserves, Calling
<1>7. CASE StoreGoesOn \/ RuntimeDies
  BY <1>7 DEF StoreGoesOn, RuntimeDies, Next, Opening
<1> QED BY <1>1, <1>2, <1>3, <1>4, <1>5, <1>6, <1>7 DEF LayersNext, Next

(* Both layers are open and in one mode.                                   *)
InStep == runtimeOpen = TRUE /\ initialized /\ StoreModeOf(logicalMode) = mode
Unopened == runtimeOpen = FALSE /\ logicalMode = "OFF" /\ mode = "OFF"

(* Where a runtime call can stand, and where the store then stands for it. *)
LayersInv ==
  \/ RuntimeFree /\ LockFree /\ (InStep \/ (Unopened /\ ~initialized))
  \/ Serving("init", "store") /\ call.op = "init" /\ Unopened
  \/ Serving("init", "probe") /\ LockFree /\ Unopened /\ initialized
  \/ Serving("close", "store") /\ call.op = "close"
  \/ Serving("set_mode", "flush") /\ call.op = "flush" /\ InStep
  \/ Serving("set_mode", "freeze") /\ LockFree /\ InStep
  \/ /\ Serving("set_mode", "store") /\ call.op = "set_mode" /\ InStep
     /\ call.to = StoreModeOf(runtimeCall.to)
  \/ Serving("observe", "store") /\ call.op = "observe" /\ InStep
  \/ Serving("flush", "store") /\ call.op = "flush" /\ InStep

LEMMA LayersGoOn ==
  ASSUME IInv, LayersInv, StoreGoesOn
  PROVE  LayersInv'
<1>1. /\ call.op \notin {"none", "freeze"} => /\ call'.op = call.op /\ call'.to = call.to
                                           /\ UNCHANGED <<initialized, mode>>
      /\ UNCHANGED <<runtimeOpen, logicalMode, runtimeCall>>
  <2>1. UNCHANGED <<runtimeOpen, logicalMode, runtimeCall>> /\ (ReplayRecord \/ Flushing)
    BY DEF StoreGoesOn, runtimeVars
  <2>2. call \in [op : Ops, step : Steps, to : Modes, ok : BOOLEAN]
    BY DEF IInv, TypeOK
  <2>3. CASE ReplayRecord
    BY <2>1, <2>3 DEF ReplayRecord
  <2>4. CASE WriteSlab \/ WriteSlabFails \/ TruncateFile \/ TruncateFails
    BY <2>1, <2>2, <2>4 DEF WriteSlab, WriteSlabFails, TruncateFile, TruncateFails, At, Done,
                            headVars
  <2>5. CASE WriteHeader \/ WriteHeaderFails \/ FdatasyncFails \/ FreezeHeader \/ FreezeSync
    BY <2>1, <2>2, <2>5 DEF WriteHeader, WriteHeaderFails, FdatasyncFails, FreezeHeader,
                            FreezeSync, At, Done, headVars
  <2>6. CASE Fdatasync
    BY <2>1, <2>2, <2>6 DEF Fdatasync, At, Done
  <2> QED BY <2>1, <2>3, <2>4, <2>5, <2>6 DEF Flushing
<1>2. ~LockFree
  <2>1. call.step # "idle"
    BY DEF StoreGoesOn, ReplayRecord, Flushing, WriteSlab, WriteSlabFails, TruncateFile,
           TruncateFails, WriteHeader, WriteHeaderFails, Fdatasync, FdatasyncFails,
           FreezeHeader, FreezeSync
  <2> QED BY <2>1 DEF LockFree, Idle
<1> QED BY <1>1, <1>2 DEF LayersInv, Serving, InStep, Unopened

LEMMA BackInStep ==
  ASSUME RuntimeFree', LockFree', InStep'
  PROVE  LayersInv'
BY DEF LayersInv

LEMMA LayersStep ==
  ASSUME IInv, LayersInv, [LayersNext]_layers
  PROVE  LayersInv'
<1> USE DEF Serving, RuntimeIn, RuntimeReturns
<1>1. CASE RuntimeInit
  <2>1. RuntimeFree /\ ~runtimeOpen /\ runtimeOpen' = FALSE /\ logicalMode' = "OFF"
    BY <1>1 DEF RuntimeInit, RuntimeZero
  <2>2. LockFree /\ Unopened /\ ~initialized
    BY <2>1 DEF LayersInv, RuntimeFree, NoRuntimeCall, InStep
  <2>3. CASE (OpenEmpty \/ OpenExisting) /\ RuntimeIn("init", "store", "OFF")
    <3>1. mode' = mode /\ call'.op = "init"
      BY <2>3 DEF OpenEmpty, OpenExisting, headVars, Call
    <3> QED BY <2>1, <2>2, <2>3, <3>1 DEF LayersInv, Unopened
  <2>4. CASE (OpenEmptyFails \/ OpenRejected) /\ RuntimeReturns
    <3>1. UNCHANGED <<mode, call, initialized>>
      BY <2>4 DEF OpenEmptyFails, OpenRejected, headVars, vars
    <3> QED BY <2>1, <2>2, <2>4, <3>1 DEF LayersInv, Unopened, RuntimeFree, LockFree
  <2> QED BY <1>1, <2>3, <2>4 DEF RuntimeInit
<1>2. CASE RuntimeInitFails \/ RuntimeClosed \/ RuntimeDies
  <2>1. ZeroState /\ RuntimeFree'
    BY <1>2 DEF RuntimeInitFails, RuntimeClosed, RuntimeDies, OpenFails, ReturnClose, Crash,
                PowerLoss, RuntimeFree
  <2>2. runtimeOpen' = FALSE /\ logicalMode' = "OFF"
    <3>1. CASE RuntimeInitFails
      BY <3>1 DEF RuntimeInitFails, OpenFails, runtimeVars, LayersInv, LockFree, Idle,
                  Unopened
    <3> QED BY <1>2, <3>1 DEF RuntimeClosed, RuntimeDies, RuntimeZero
  <2> QED BY <2>1, <2>2 DEF ZeroState, LayersInv, Unopened, LockFree
<1>3. CASE StoreOpened
  <2>1. call' = Idle /\ initialized' /\ mode' = "OFF" /\ Unopened
    BY <1>3 DEF StoreOpened, OpenSync, ReplayEnd, headVars, LayersInv, RuntimeFree,
                NoRuntimeCall, Unopened
  <2> QED BY <1>3, <2>1 DEF StoreOpened, runtimeVars, LayersInv, LockFree, Unopened
<1>4. CASE ProbeSucceeds
  <2>1. LockFree /\ initialized /\ mode = "OFF"
    BY <1>4 DEF ProbeSucceeds, LayersInv, RuntimeFree, NoRuntimeCall, Unopened
  <2>2. RuntimeFree' /\ LockFree' /\ InStep'
    BY <1>4, <2>1 DEF ProbeSucceeds, vars, RuntimeFree, LockFree, InStep, StoreModeOf
  <2> QED BY <2>2, BackInStep
<1>5. CASE ProbeFails \/ RuntimeCloses
  BY <1>5 DEF ProbeFails, RuntimeCloses, Close, Call, LayersInv
<1>6. ASSUME NEW m \in CallModes, RuntimeSetsRunning(m)
      PROVE  LayersInv'
  <2>1. /\ RuntimeFree /\ LockFree /\ runtimeOpen /\ initialized /\ mode' = m /\ logicalMode' = m
        /\ UNCHANGED <<runtimeOpen, runtimeCall, initialized, call>>
    BY <1>6 DEF RuntimeSetsRunning, SetModeRunning
  <2>2. m # "VALIDATE_SHADOW"
    BY StoreAssumption DEF Modes
  <2>3. RuntimeFree' /\ LockFree' /\ InStep'
    BY <2>1, <2>2 DEF InStep, StoreModeOf, RuntimeFree, LockFree
  <2> QED BY <2>3, BackInStep
<1>7. ASSUME NEW m \in CallModes, RuntimeSetsPaused(m)
      PROVE  LayersInv'
  <2>1. /\ RuntimeFree /\ LockFree /\ runtimeOpen
        /\ call'.op = "set_mode" /\ call'.to = m
        /\ UNCHANGED <<runtimeOpen, logicalMode, initialized, mode>>
        /\ runtimeCall' = [op |-> "set_mode", step |-> "store", to |-> m]
    BY <1>7 DEF RuntimeSetsPaused, SetModePaused, headVars, runtimeVars, Call
  <2>2. InStep
    BY <2>1 DEF LayersInv, RuntimeFree, NoRuntimeCall, Unopened
  <2>3. m # "VALIDATE_SHADOW"
    BY StoreAssumption DEF Modes
  <2> QED BY <2>1, <2>2, <2>3 DEF LayersInv, InStep, StoreModeOf
<1>8. CASE RuntimeValidates \/ RuntimeFlushes
  <2>1. /\ RuntimeFree /\ runtimeOpen /\ call'.op = "flush"
        /\ UNCHANGED <<runtimeOpen, logicalMode, initialized, mode>>
        /\ \/ runtimeCall' = [op |-> "set_mode", step |-> "flush", to |-> "VALIDATE_SHADOW"]
           \/ runtimeCall' = [op |-> "flush", step |-> "store", to |-> "OFF"]
    BY <1>8 DEF RuntimeValidates, RuntimeFlushes, Flush, headVars, runtimeVars, Call
  <2>2. InStep
    BY <2>1 DEF LayersInv, RuntimeFree, NoRuntimeCall, Unopened
  <2> QED BY <2>1, <2>2 DEF LayersInv, InStep
<1>9. CASE FlushedForValidation
  <2>1. InStep
    BY <1>9 DEF FlushedForValidation, LayersInv, RuntimeFree, NoRuntimeCall
  <2>2. /\ call' = Idle /\ UNCHANGED <<runtimeOpen, logicalMode, initialized, mode>>
        /\ \/ runtimeCall' = [op |-> "set_mode", step |-> "freeze", to |-> "VALIDATE_SHADOW"]
           \/ runtimeCall' = NoRuntimeCall
    BY <1>9 DEF FlushedForValidation, ReturnFlush, headVars, runtimeVars
  <2>3. InStep' /\ LockFree'
    BY <2>1, <2>2 DEF InStep, LockFree
  <2>4. RuntimeFree' \/ Serving("set_mode", "freeze")'
    BY <2>2 DEF RuntimeFree
  <2> QED BY <2>3, <2>4, BackInStep DEF LayersInv
<1>10. CASE FreezeForValidation
  <2>1. InStep
    BY <1>10 DEF FreezeForValidation, LayersInv, RuntimeFree, NoRuntimeCall
  <2>2. /\ call'.op = "set_mode" /\ call'.to = "FROZEN"
        /\ UNCHANGED <<runtimeOpen, logicalMode, initialized, mode>>
        /\ runtimeCall' = [op |-> "set_mode", step |-> "store", to |-> "VALIDATE_SHADOW"]
    BY <1>10 DEF FreezeForValidation, SetModePaused, headVars, runtimeVars, Call
  <2>3. InStep' /\ Serving("set_mode", "store")' /\ call'.to = StoreModeOf(runtimeCall'.to)
    BY <2>1, <2>2 DEF InStep, StoreModeOf
  <2> QED BY <2>2, <2>3 DEF LayersInv
<1>11. CASE RuntimeModeSet
  <2>1. InStep /\ call.to = StoreModeOf(runtimeCall.to)
    BY <1>11 DEF RuntimeModeSet, LayersInv, RuntimeFree, NoRuntimeCall
  <2>2. /\ call' = Idle /\ runtimeCall' = NoRuntimeCall
        /\ UNCHANGED <<runtimeOpen, initialized>>
        /\ IF call.ok THEN mode' = call.to /\ logicalMode' = runtimeCall.to
           ELSE UNCHANGED <<mode, logicalMode>>
    BY <1>11 DEF RuntimeModeSet, ReturnSetMode
  <2>3. RuntimeFree' /\ LockFree' /\ InStep'
    BY <2>1, <2>2 DEF InStep, LockFree, RuntimeFree
  <2> QED BY <2>3, BackInStep
<1>12. ASSUME NEW c \in Contexts, NEW k \in Candidates, RuntimeObserves(c, k)
       PROVE  LayersInv'
  <2>1. /\ RuntimeFree /\ runtimeOpen
        /\ UNCHANGED <<runtimeOpen, logicalMode, initialized, mode>>
        /\ call' = Idle \/ call'.op = "observe"
        /\ IF call' = Idle THEN runtimeCall' = NoRuntimeCall
           ELSE runtimeCall' = [op |-> "observe", step |-> "store", to |-> "OFF"]
    BY <1>12 DEF RuntimeObserves, Observe, headVars, runtimeVars, Call
  <2>2. InStep
    BY <2>1 DEF LayersInv, RuntimeFree, NoRuntimeCall, Unopened
  <2>3. InStep'
    BY <2>1, <2>2 DEF InStep
  <2>4. \/ RuntimeFree' /\ LockFree'
        \/ Serving("observe", "store")' /\ call'.op = "observe"
    BY <2>1 DEF LockFree, RuntimeFree
  <2> QED BY <2>3, <2>4, BackInStep DEF LayersInv
<1>13. CASE RuntimeResets
  <2>1. UNCHANGED <<runtimeOpen, logicalMode, initialized, mode, runtimeCall, call>>
    BY <1>13 DEF RuntimeResets, ResetVolatile, runtimeVars
  <2> QED BY <2>1 DEF LayersInv, InStep, Unopened, LockFree, RuntimeFree
<1>14. CASE RuntimePassesOn
  <2>1. InStep
    BY <1>14 DEF RuntimePassesOn, LayersInv, RuntimeFree, NoRuntimeCall
  <2>2. /\ call' = Idle /\ runtimeCall' = NoRuntimeCall
        /\ UNCHANGED <<runtimeOpen, logicalMode, initialized, mode>>
    BY <1>14 DEF RuntimePassesOn, ReturnObserve, ReturnFlush, headVars, runtimeVars
  <2>3. RuntimeFree' /\ LockFree' /\ InStep'
    BY <2>1, <2>2 DEF InStep, LockFree, RuntimeFree
  <2> QED BY <2>3, BackInStep
<1>15. CASE StoreGoesOn
  BY <1>15, LayersGoOn
<1>16. CASE UNCHANGED layers
  BY <1>16 DEF layers, vars, LayersInv, InStep, Unopened, LockFree, RuntimeFree
<1> QED BY <1>1, <1>2, <1>3, <1>4, <1>5, <1>6, <1>7, <1>8, <1>9, <1>10, <1>11, <1>12, <1>13,
           <1>14, <1>15, <1>16 DEF LayersNext

(* Wherever storage fails under one of the store's calls that serve a      *)
(* runtime call, wherever the process dies and with it the machine: in the *)
(* end the runtime and the store are both open or both closed, and agree   *)
(* on the mode.                                                            *)
THEOREM LayersStayInStep ==
  ASSUME "FROZEN" \in CallModes
  PROVE  LayersSpec => []LayersAgree
<1>1. LayersSpec => Spec
  BY LayersDriveStore, PTL DEF LayersSpec, Spec, LayersInit
<1>2. LayersInit => LayersInv
  BY DEF LayersInit, Init, LayersInv, RuntimeFree, LockFree, Unopened
<1>3. IInv /\ LayersInv /\ [LayersNext]_layers => LayersInv'
  BY LayersStep
<1>4. IInv /\ LayersInv => LayersAgree
  <2> SUFFICES ASSUME IInv, LayersInv, RuntimeFree
               PROVE  LockFree /\ runtimeOpen = initialized /\ StoreModeOf(logicalMode) = mode
    BY DEF LayersAgree
  <2>1. LockFree /\ (InStep \/ (Unopened /\ ~initialized))
    BY DEF LayersInv, RuntimeFree, NoRuntimeCall, Serving
  <2>2. initialized \in BOOLEAN
    BY DEF IInv, TypeOK
  <2> QED BY <2>1, <2>2 DEF InStep, Unopened, StoreModeOf
<1> QED BY <1>1, <1>2, <1>3, <1>4, Inductive, PTL DEF LayersSpec
=============================================================================
