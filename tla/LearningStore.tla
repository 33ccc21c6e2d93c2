---------------------------- MODULE LearningStore ----------------------------
(***************************************************************************)
(* The RFL learning store, src/android/app/native/learning_store.c: an     *)
(* append log of fixed-size records behind a one-slab write buffer, and a  *)
(* predictor that is updated as records are taken and rebuilt from the log *)
(* when the file is opened again.                                          *)
(*                                                                         *)
(* Every entry point runs under the spinlock g_lock from its first line to *)
(* its return, so calls do not interleave with each other; what does       *)
(* happen in the middle of a call is a storage error, the death of the     *)
(* process or a power loss.  A call that reaches the file is therefore a   *)
(* sequence of steps, one per system call, and the variable call says      *)
(* which call holds the lock and where in it the execution is.             *)
(***************************************************************************)
EXTENDS RecordFile, Predictor, FiniteSets, SequencesExt

CONSTANTS RecordsPerSlab,   \* RAFAELIA_RFL_RECORDS_PER_SLAB (64)
          CallModes,        \* modes set_mode is called with
          PowerLossAllowed, \* may the machine, and not only the process, die
          MaxSequence,      \* bound: sequence numbers handed out
          MaxEpoch,         \* bound: value of header.epoch
          MaxFaults,        \* bound: storage errors
          MaxCrashes        \* bound: process deaths and power losses

Modes == {"OFF", "OBSERVE", "LEARN_SHADOW", "PREDICT_SHADOW", "FROZEN"}

ASSUME StoreAssumption ==
  /\ RecordsPerSlab \in Nat \ {0}
  /\ CallModes \subseteq Modes
  /\ PowerLossAllowed \in BOOLEAN
  /\ MaxSequence \in Nat /\ MaxEpoch \in Nat
  /\ MaxFaults \in Nat /\ MaxCrashes \in Nat

(* A CRC-verified record.  born stands for monotonic_ns: it tells apart    *)
(* records that two runs of the process gave the same sequence number.     *)
Records == [seq : Nat, born : Nat, ctx : Contexts, cand : Candidates,
            mode : Modes, pred : {"NONE", "CORRECT", "WRONG"}]

ASSUME StorageAssumption ==
  /\ Garbage \notin Records
  /\ NoHeader # TornHeader
  /\ NoHeader \notin [epoch : Nat, committed : Nat]
  /\ TornHeader \notin [epoch : Nat, committed : Nat]
  /\ Free \notin Entries

VARIABLES
  \* the file
  cache,        \* what the process reads and writes: the page cache
  disk,         \* what a power loss leaves
  \* g_state
  initialized, mode,
  epoch,        \* header.epoch
  committed,    \* header.records_committed
  slab,         \* slab[0 .. slab_used - 1]
  predictor, nextSequence, recoveredTail,
  stats,        \* observations, predictions, correct, incorrect, dropped
  \* control
  call,         \* the API call that holds g_lock
  \* history and bounds
  acked,        \* the log as the last durable call that returned OK left it
  learnedFrom,  \* length of the log at the last reset_volatile of this run
  faults, crashes

fileVars  == <<cache, disk>>
headVars  == <<mode, epoch, committed>>
learnVars == <<predictor, nextSequence, recoveredTail, stats>>
ghostVars == <<acked, learnedFrom, faults, crashes>>
vars == <<cache, disk, initialized, mode, epoch, committed, slab, predictor,
          nextSequence, recoveredTail, stats, call, acked, learnedFrom, faults, crashes>>

Learning == {"LEARN_SHADOW", "PREDICT_SHADOW"}
Paused   == {"OFF", "FROZEN"}

ZeroStats == [observations |-> 0, predictions |-> 0, correct |-> 0,
              incorrect |-> 0, dropped |-> 0]

Idle == [op |-> "none", step |-> "idle", to |-> "OFF", ok |-> TRUE]
Call(o, s, m) == [op |-> o, step |-> s, to |-> m, ok |-> TRUE]
At(s)   == call' = [call EXCEPT !.step = s]
Done(b) == call' = [call EXCEPT !.step = "return", !.ok = b]
(* g_lock is free.                                                         *)
LockFree == call = Idle

(* The records there are: those the running store counts and holds, or     *)
(* else those that a replay of the file would find.                        *)
Kept == IF initialized THEN SubSeq(cache.recs, 1, committed) \o slab
                       ELSE VerifiedPrefix(cache.recs)

(* The log a reader of the running store, or else of the file, would get:  *)
(* a file whose header is torn is not replayed but rejected.               *)
Log == IF ~initialized /\ cache.hdr = TornHeader THEN << >> ELSE Kept

Init ==
  /\ cache = EmptyFile /\ disk = EmptyFile
  /\ initialized = FALSE /\ mode = "OFF" /\ epoch = 0 /\ committed = 0
  /\ slab = << >> /\ predictor = EmptyTable /\ nextSequence = 0
  /\ recoveredTail = FALSE /\ stats = ZeroStats
  /\ call = Idle
  /\ acked = << >> /\ learnedFrom = 0 /\ faults = 0 /\ crashes = 0

(* memset(&g_state, 0, ...) and fd = -1.                                   *)
ZeroState ==
  /\ initialized' = FALSE /\ mode' = "OFF" /\ epoch' = 0 /\ committed' = 0
  /\ slab' = << >> /\ predictor' = EmptyTable /\ nextSequence' = 0
  /\ recoveredTail' = FALSE /\ stats' = ZeroStats /\ call' = Idle
  /\ learnedFrom' = 0

Fault == faults < MaxFaults /\ faults' = faults + 1

-----------------------------------------------------------------------------
(* rafaelia_learning_init.                                                 *)

(* st_size == 0: a header of epoch 1 is written ...                        *)
OpenEmpty ==
  /\ LockFree /\ ~initialized /\ cache.hdr = NoHeader
  /\ cache' = [cache EXCEPT !.hdr = Header(1, 0)]
  /\ call' = Call("init", "headersync", "OFF")
  /\ UNCHANGED <<disk, initialized, headVars, slab, learnVars, ghostVars>>

(* ... or only part of it: the call fails and leaves a damaged header.     *)
OpenEmptyFails ==
  /\ LockFree /\ ~initialized /\ cache.hdr = NoHeader
  /\ Fault
  /\ \E h \in {NoHeader, TornHeader} : cache' = [cache EXCEPT !.hdr = h]
  /\ UNCHANGED <<disk, initialized, headVars, slab, learnVars, call, acked, learnedFrom, crashes>>

(* ... then fdatasync.                                                     *)
OpenSync ==
  /\ call.op = "init" /\ call.step = "headersync"
  /\ disk' = cache
  /\ initialized' = TRUE /\ mode' = "OFF" /\ epoch' = 1 /\ committed' = 0
  /\ nextSequence' = 1
  /\ call' = Idle
  /\ UNCHANGED <<cache, slab, predictor, recoveredTail, stats, ghostVars>>

(* A header is there and passes its checks: replay the records.  From here *)
(* to the end of the replay committed counts the records verified so far.  *)
OpenExisting ==
  /\ LockFree /\ ~initialized
  /\ cache.hdr \notin {NoHeader, TornHeader}
  /\ epoch' = cache.hdr.epoch
  /\ call' = Call("init", "replay", "OFF")
  /\ UNCHANGED <<fileVars, initialized, mode, committed, slab, learnVars, ghostVars>>

(* A damaged header: ERR_IO, ERR_FORMAT or ERR_CRC, and nothing changes.   *)
OpenRejected ==
  /\ LockFree /\ ~initialized /\ cache.hdr = TornHeader
  /\ UNCHANGED vars

(* Faulty form: every record is learned, whatever mode it was made in.     *)
RelearnedAlways(r) == Update(predictor, r.ctx, r.cand, r.seq)

(* What replaying record r makes of the predictor: it learns again what    *)
(* was learned when the record was made.                                   *)
Relearned(r) ==
  IF r.mode \in Learning THEN Update(predictor, r.ctx, r.cand, r.seq) ELSE predictor

(* rfl_replay_record_locked for the next record.                           *)
ReplayRecord ==
  /\ call.op = "init" /\ call.step = "replay"
  /\ committed < Len(cache.recs) /\ cache.recs[committed + 1] # Garbage
  /\ LET r == cache.recs[committed + 1] IN
       /\ predictor' = Relearned(r)
       /\ nextSequence' = IF r.seq >= nextSequence THEN r.seq + 1 ELSE nextSequence
       /\ stats' = [stats EXCEPT
            !.observations = @ + 1,
            !.predictions  = IF r.pred # "NONE" THEN @ + 1 ELSE @,
            !.correct      = IF r.pred = "CORRECT" THEN @ + 1 ELSE @,
            !.incorrect    = IF r.pred = "WRONG" THEN @ + 1 ELSE @]
  /\ committed' = committed + 1
  /\ UNCHANGED <<fileVars, initialized, mode, epoch, slab, recoveredTail, call, ghostVars>>

(* Faulty form: numbering goes on from the record count, which is lower    *)
(* than the last number when observations were dropped.                    *)
ReplayEndRenumbers ==
  /\ call.op = "init" /\ call.step = "replay"
  /\ committed < Len(cache.recs) => cache.recs[committed + 1] = Garbage
  /\ initialized' = TRUE
  /\ recoveredTail' = (committed < Len(cache.recs))
  /\ nextSequence' = committed + 1
  /\ call' = Idle
  /\ UNCHANGED <<fileVars, headVars, slab, predictor, stats, ghostVars>>

(* The file ends, or its next record fails the CRC.  The bytes after the   *)
(* verified prefix stay in the file.                                       *)
ReplayEnd ==
  /\ call.op = "init" /\ call.step = "replay"
  /\ committed < Len(cache.recs) => cache.recs[committed + 1] = Garbage
  /\ initialized' = TRUE
  /\ recoveredTail' = (committed < Len(cache.recs))
  /\ nextSequence' = IF nextSequence = 0 THEN committed + 1 ELSE nextSequence
  /\ call' = Idle
  /\ UNCHANGED <<fileVars, headVars, slab, predictor, stats, ghostVars>>

(* fdatasync of the new header, or a read of the replay, fails: the file   *)
(* is closed and the store stays uninitialized.                            *)
OpenFails ==
  /\ call.op = "init" /\ Fault /\ ZeroState
  /\ UNCHANGED <<fileVars, acked, crashes>>

-----------------------------------------------------------------------------
(* rfl_flush_slab_locked, one step per system call.                        *)

WriteSlab ==
  /\ call.step = "slab"
  /\ IF slab = << >>
     THEN UNCHANGED <<cache, committed, slab>>
     ELSE /\ cache' = [cache EXCEPT !.recs = WriteAt(@, committed, slab)]
          /\ committed' = committed + Len(slab)
          /\ slab' = << >>
  /\ At("size")
  /\ UNCHANGED <<disk, initialized, mode, epoch, learnVars, ghostVars>>

(* Faulty form: the slab is emptied whatever came of its write.            *)
WriteSlabFailsEmptied ==
  /\ call.step = "slab" /\ slab # << >> /\ Fault
  /\ \E j \in 0 .. Len(slab) - 1 :
       \/ cache' = [cache EXCEPT !.recs = WriteAt(@, committed, SubSeq(slab, 1, j))]
       \/ cache' = [cache EXCEPT !.recs = WriteTorn(@, committed, slab, j)]
  /\ slab' = << >>
  /\ Done(FALSE)
  /\ UNCHANGED <<disk, initialized, headVars, learnVars, acked, learnedFrom, crashes>>

(* The write stops after j whole records and perhaps part of another.  The *)
(* slab is kept and nothing is counted as committed.                       *)
WriteSlabFails ==
  /\ call.step = "slab" /\ slab # << >> /\ Fault
  /\ \E j \in 0 .. Len(slab) - 1 :
       \/ cache' = [cache EXCEPT !.recs = WriteAt(@, committed, SubSeq(slab, 1, j))]
       \/ cache' = [cache EXCEPT !.recs = WriteTorn(@, committed, slab, j)]
  /\ Done(FALSE)
  /\ UNCHANGED <<disk, initialized, headVars, slab, learnVars, acked, learnedFrom, crashes>>

TruncateFile ==
  /\ call.step = "size"
  /\ cache' = [cache EXCEPT !.recs = Truncate(@, committed)]
  /\ At("header")
  /\ UNCHANGED <<disk, initialized, headVars, slab, learnVars, ghostVars>>

TruncateFails ==
  /\ call.step = "size" /\ Fault /\ Done(FALSE)
  /\ UNCHANGED <<fileVars, initialized, headVars, slab, learnVars, acked, learnedFrom, crashes>>

(* Faulty form: only freeze asks for a durable header.                     *)
WriteHeaderUnsynced ==
  /\ call.step = "header"
  /\ cache' = [cache EXCEPT !.hdr = Header(epoch, committed)]
  /\ IF call.op # "freeze" THEN Done(TRUE) ELSE At("sync")
  /\ UNCHANGED <<disk, initialized, headVars, slab, learnVars, ghostVars>>

(* rfl_write_header_locked, in place at offset 0.  observe passes          *)
(* durable = 0 and skips the fdatasync.                                    *)
WriteHeader ==
  /\ call.step = "header"
  /\ cache' = [cache EXCEPT !.hdr = Header(epoch, committed)]
  /\ IF call.op = "observe" THEN Done(TRUE) ELSE At("sync")
  /\ UNCHANGED <<disk, initialized, headVars, slab, learnVars, ghostVars>>

(* The second header write of freeze is the same call in another place.    *)
WriteHeaderFails ==
  /\ call.step \in {"header", "epochheader"} /\ Fault
  /\ \E h \in {cache.hdr, TornHeader} : cache' = [cache EXCEPT !.hdr = h]
  /\ Done(FALSE)
  /\ UNCHANGED <<disk, initialized, headVars, slab, learnVars, acked, learnedFrom, crashes>>

(* freeze goes on after a flush that succeeded; the others return.         *)
Fdatasync ==
  /\ call.step = "sync"
  /\ disk' = cache
  /\ IF call.op = "freeze"
     THEN mode' = "FROZEN" /\ epoch' = epoch + 1 /\ At("epochheader")
     ELSE UNCHANGED <<mode, epoch>> /\ Done(TRUE)
  /\ UNCHANGED <<cache, initialized, committed, slab, learnVars, ghostVars>>

FdatasyncFails ==
  /\ call.step \in {"sync", "epochsync"} /\ Fault /\ Done(FALSE)
  /\ UNCHANGED <<fileVars, initialized, headVars, slab, learnVars, acked, learnedFrom, crashes>>

(* freeze writes the header again, with the new epoch, and syncs it.       *)
FreezeHeader ==
  /\ call.step = "epochheader"
  /\ cache' = [cache EXCEPT !.hdr = Header(epoch, committed)]
  /\ At("epochsync")
  /\ UNCHANGED <<disk, initialized, headVars, slab, learnVars, ghostVars>>

FreezeSync ==
  /\ call.step = "epochsync"
  /\ disk' = cache /\ Done(TRUE)
  /\ UNCHANGED <<cache, initialized, headVars, slab, learnVars, ghostVars>>

-----------------------------------------------------------------------------
(* The API calls: what each does before it reaches the file, and what it   *)
(* does with the outcome.                                                  *)

SlabFull == Len(slab) >= RecordsPerSlab

(* rafaelia_learning_observe, up to the flush of a slab it has filled: it  *)
(* predicts, learns, and only then looks for room in the slab.             *)
Observe(c, k) ==
  /\ LockFree /\ initialized /\ mode \notin Paused
  /\ nextSequence <= MaxSequence
  /\ LET learning == mode \in Learning
         valid    == learning /\ Predictable(predictor, c)
         pred     == IF ~valid THEN "NONE"
                     ELSE IF Predict(predictor, c) = k THEN "CORRECT" ELSE "WRONG"
         r    == [seq |-> nextSequence, born |-> crashes, ctx |-> c, cand |-> k,
                  mode |-> mode, pred |-> pred]
     IN  /\ predictor' = IF learning THEN Update(predictor, c, k, nextSequence)
                                     ELSE predictor
         /\ stats' = [stats EXCEPT
              !.predictions  = IF valid THEN @ + 1 ELSE @,
              !.correct      = IF pred = "CORRECT" THEN @ + 1 ELSE @,
              !.incorrect    = IF pred = "WRONG" THEN @ + 1 ELSE @,
              !.dropped      = IF SlabFull THEN @ + 1 ELSE @,
              !.observations = IF SlabFull THEN @ ELSE @ + 1]
         /\ slab' = IF SlabFull THEN slab ELSE Append(slab, r)
         /\ call' = IF ~SlabFull /\ Len(slab) + 1 = RecordsPerSlab
                    THEN Call("observe", "slab", mode) ELSE Idle
  /\ nextSequence' = nextSequence + 1
  /\ UNCHANGED <<fileVars, initialized, headVars, recoveredTail, ghostVars>>

(* An observe whose flush failed counts a drop, kept record or not.        *)
ReturnObserve ==
  /\ call.op = "observe" /\ call.step = "return"
  /\ stats' = [stats EXCEPT !.dropped = IF call.ok THEN @ ELSE @ + 1]
  /\ call' = Idle
  /\ UNCHANGED <<fileVars, initialized, headVars, slab, predictor, nextSequence,
                 recoveredTail, ghostVars>>

(* rafaelia_learning_set_mode: only a pause touches the file.              *)
SetModeRunning(m) ==
  /\ LockFree /\ initialized /\ m \notin Paused
  /\ mode # m => epoch < MaxEpoch
  /\ epoch' = IF mode # m THEN epoch + 1 ELSE epoch
  /\ mode' = m
  /\ UNCHANGED <<fileVars, initialized, committed, slab, learnVars, call, ghostVars>>

SetModePaused(m) ==
  /\ LockFree /\ initialized /\ m \in Paused
  /\ epoch < MaxEpoch
  /\ call' = Call("set_mode", "slab", m)
  /\ UNCHANGED <<fileVars, initialized, headVars, slab, learnVars, ghostVars>>

(* The new epoch is in memory only: the header was written before it.      *)
ReturnSetMode ==
  /\ call.op = "set_mode" /\ call.step = "return"
  /\ IF call.ok
     THEN /\ epoch' = IF mode # call.to THEN epoch + 1 ELSE epoch
          /\ mode' = call.to
          /\ acked' = cache.recs
     ELSE UNCHANGED <<mode, epoch, acked>>
  /\ call' = Idle
  /\ UNCHANGED <<fileVars, initialized, committed, slab, learnVars, learnedFrom, faults, crashes>>

(* rafaelia_learning_flush and rafaelia_learning_freeze.                   *)
Flush ==
  /\ LockFree /\ initialized
  /\ call' = Call("flush", "slab", mode)
  /\ UNCHANGED <<fileVars, initialized, headVars, slab, learnVars, ghostVars>>

Freeze ==
  /\ LockFree /\ initialized /\ epoch < MaxEpoch
  /\ call' = Call("freeze", "slab", mode)
  /\ UNCHANGED <<fileVars, initialized, headVars, slab, learnVars, ghostVars>>

ReturnFlush ==
  /\ call.op \in {"flush", "freeze"} /\ call.step = "return"
  /\ acked' = IF call.ok THEN cache.recs ELSE acked
  /\ call' = Idle
  /\ UNCHANGED <<fileVars, initialized, headVars, slab, learnVars, learnedFrom, faults, crashes>>

(* Faulty form: the observations are cleared too.                          *)
StatsCleared == ZeroStats

(* rafaelia_learning_reset_volatile: the predictor and its score, not the  *)
(* log and not the observation count.                                      *)
ScoreCleared == [stats EXCEPT !.predictions = 0, !.correct = 0, !.incorrect = 0]

ResetVolatile ==
  /\ LockFree /\ initialized /\ mode \in Paused
  /\ epoch < MaxEpoch
  /\ predictor' = EmptyTable
  /\ stats' = ScoreCleared
  /\ epoch' = epoch + 1
  /\ learnedFrom' = committed + Len(slab)
  /\ UNCHANGED <<fileVars, initialized, mode, committed, slab, nextSequence,
                 recoveredTail, call, acked, faults, crashes>>

(* rafaelia_learning_close: the state is zeroed whatever the flush said.   *)
Close ==
  /\ LockFree /\ initialized
  /\ call' = Call("close", "slab", "OFF")
  /\ UNCHANGED <<fileVars, initialized, headVars, slab, learnVars, ghostVars>>

ReturnClose ==
  /\ call.op = "close" /\ call.step = "return"
  /\ acked' = IF call.ok THEN cache.recs ELSE acked
  /\ ZeroState
  /\ UNCHANGED <<fileVars, faults, crashes>>

-----------------------------------------------------------------------------
(* The process dies: the page cache survives it.                           *)
Crash ==
  /\ initialized \/ call # Idle
  /\ crashes < MaxCrashes /\ crashes' = crashes + 1
  /\ ZeroState
  /\ UNCHANGED <<fileVars, acked, faults>>

(* The machine dies: writes since the last fdatasync reach the disk in any *)
(* part.                                                                   *)
PowerLoss ==
  /\ PowerLossAllowed
  /\ crashes < MaxCrashes /\ crashes' = crashes + 1
  /\ ZeroState
  /\ \E f \in FilesAfterLoss(disk, cache) : cache' = f /\ disk' = f
  /\ UNCHANGED <<acked, faults>>

Opening == \/ OpenEmpty \/ OpenEmptyFails \/ OpenSync \/ OpenExisting
           \/ OpenRejected \/ ReplayRecord \/ ReplayEnd \/ OpenFails

Flushing == \/ WriteSlab \/ WriteSlabFails \/ TruncateFile \/ TruncateFails
            \/ WriteHeader \/ WriteHeaderFails \/ Fdatasync \/ FdatasyncFails
            \/ FreezeHeader \/ FreezeSync

Calling == \/ \E c \in Contexts, k \in Candidates : Observe(c, k)
           \/ ReturnObserve
           \/ \E m \in CallModes : SetModeRunning(m) \/ SetModePaused(m)
           \/ ReturnSetMode \/ Flush \/ Freeze \/ ReturnFlush
           \/ ResetVolatile \/ Close \/ ReturnClose

Next == Opening \/ Flushing \/ Calling \/ Crash \/ PowerLoss

Spec == Init /\ [][Next]_vars

-----------------------------------------------------------------------------
Slots == Records \cup {Garbage}
Headers == {NoHeader, TornHeader} \cup [epoch : Nat, committed : Nat]
Files == [hdr : Headers, recs : Seq(Slots)]
Steps == {"idle", "headersync", "replay", "slab", "size", "header", "sync",
          "epochheader", "epochsync", "return"}
Ops == {"none", "init", "observe", "set_mode", "flush", "freeze", "close"}

Counters == [observations : Nat, predictions : Nat, correct : Nat,
             incorrect : Nat, dropped : Nat]

(* Every variable holds a value of its type.                               *)
TypeOK ==
  /\ cache \in Files /\ disk \in Files
  /\ initialized \in BOOLEAN /\ mode \in Modes
  /\ epoch \in Nat /\ committed \in Nat
  /\ slab \in Seq(Records) /\ Len(slab) <= RecordsPerSlab
  /\ predictor \in Tables
  /\ nextSequence \in Nat /\ recoveredTail \in BOOLEAN
  /\ stats \in Counters
  /\ call \in [op : Ops, step : Steps, to : Modes, ok : BOOLEAN]
  /\ acked \in Seq(Slots)
  /\ learnedFrom \in Nat /\ faults \in Nat /\ crashes \in Nat

(* Whatever fails or dies afterwards, the records a durable call confirmed *)
(* are on the disk, intact and at the same place: no later flush, tail     *)
(* truncation or restart writes over them (rfl_flush_slab_locked,          *)
(* rfl_replay_locked).                                                     *)
AckedDurable ==
  /\ Len(acked) <= Len(disk.recs)
  /\ \A i \in 1 .. Len(acked) : acked[i] # Garbage /\ disk.recs[i] = acked[i]

(* A record the running store counts as committed is in the file and       *)
(* passes its CRC: records_committed never runs past what was written.     *)
CommittedVerified ==
  /\ committed <= Len(cache.recs)
  /\ \A i \in 1 .. committed : cache.recs[i] # Garbage

(* The number of observations the snapshot reports is the number of        *)
(* records the log holds, through replays, failed flushes, drops and       *)
(* resets of the predictor.                                                *)
ObservationsAreRecords == stats.observations = committed + Len(slab)

(* The log never gives two records the same number, and the next number is *)
(* above them all, across restarts that recover less than was numbered.    *)
SequencesIncrease ==
  /\ \A i, j \in 1 .. Len(Log) : i < j => Log[i].seq < Log[j].seq
  /\ initialized => \A i \in 1 .. Len(Log) : Log[i].seq < nextSequence

(* The predictor that learning every record of s in order would build.     *)
Replayed(s) ==
  LET t[n \in 0 .. Len(s)] ==
        IF n = 0 THEN EmptyTable
        ELSE IF s[n].mode \in Learning
             THEN Update(t[n - 1], s[n].ctx, s[n].cand, s[n].seq) ELSE t[n - 1]
  IN  t[Len(s)]

(* The predictor is what a replay of the log (of its part since the last   *)
(* reset_volatile) would build: what is learned is logged, record for      *)
(* record and in the same order.                                           *)
LearnedIsLogged ==
  LockFree /\ initialized =>
    predictor = Replayed(SubSeq(Log, learnedFrom + 1, Len(Log)))

(* The same while observe has reported no failure to its caller: then a    *)
(* restart cannot be seen through predict.                                 *)
LearnedIsLoggedUnlessDropped == stats.dropped = 0 => LearnedIsLogged

(* What a crash or a restart leaves of the log is a prefix of it: replay   *)
(* stops at the last complete verified record and brings back nothing that *)
(* an earlier recovery had cut off.                                        *)
LossIsSuffix == [][~initialized' => IsPrefix(Log', Log)]_vars

(* The header of the file, as its readers and a power loss would take it.  *)
HeaderState == IF cache.hdr = TornHeader THEN "torn"
               ELSE IF cache.hdr = disk.hdr THEN "synced" ELSE "written"

(* The store is a durable log: while it is open, records are only ever     *)
(* appended, numbered upwards; initialization brings back what there was;  *)
(* only a suffix is ever lost, and never a record that flush, freeze,      *)
(* close or a pause has confirmed, unless the store ends while its header, *)
(* which every flush rewrites in place, is half written: then the file is  *)
(* rejected from there on.                                                 *)
Promise == INSTANCE DurableLog WITH log <- Log, confirmed <- acked,
                                    open <- initialized, header <- HeaderState,
                                    Record <- Records
ImplementsDurableLog == Promise!LogSpec

(* The same when the machine may lose its power at any step, but for what  *)
(* comes back behind the confirmed records, which may be any (fdatasync is *)
(* called by durable calls only), and for a header that was not synced,    *)
(* which the loss may tear: otherwise the confirmed records stay first and *)
(* in place, and new numbers stay above all that a replay has found.       *)
SurvivesPowerLoss == Promise!SurvivalSpec
=============================================================================
