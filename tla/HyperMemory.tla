----------------------------- MODULE HyperMemory -----------------------------
(***************************************************************************)
(* The bounded runtime memory of                                           *)
(* modules/runtime-learning-engine/hypermemory-runtime.ts: a ring of       *)
(* records in memory (the arena), checkpointed to one file by "write a     *)
(* temporary file, fsync, rename", restored when a process starts.         *)
(*                                                                         *)
(* A checkpoint is two steps, so that the process can die between them.    *)
(* Everything else a method does is one step: JavaScript runs it to        *)
(* completion.  Sizes are whole frames: a record's frame size is one of a  *)
(* small set, the capacity the number of units an arena may hold.          *)
(***************************************************************************)
EXTENDS Integers, Sequences, SequencesExt

CONSTANTS Frames,       \* sizes of a record's frame
          Capacities,   \* capacities a process may be started with
          NoFile,       \* there is no checkpoint
          Corrupt,      \* a checkpoint that does not validate
          MaxAppends,   \* bound: records appended, over all processes
          MaxLives,     \* bound: processes
          MaxCheckpoints, \* bound: checkpoints begun
          MaxFaults     \* bound: storage faults

(* What an arena holds, and what a checkpoint of one does.                 *)
Records == [sequence : Nat \ {0}, bytes : Frames, sha256 : Nat \ {0}, previous : Int]
Arenas == [records : Seq(Records), used : Nat, evictions : Nat, generation : Nat \ {0},
           next : Nat \ {0}]

ASSUME HyperMemoryAssumption ==
  /\ Frames \subseteq Nat \ {0} /\ Capacities \subseteq Nat \ {0}
  /\ MaxAppends \in Nat /\ MaxLives \in Nat /\ MaxCheckpoints \in Nat /\ MaxFaults \in Nat
  /\ NoFile # Corrupt /\ NoFile \notin Arenas /\ Corrupt \notin Arenas

VARIABLES
  capacity,    \* capacityBytes of this process
  arena,       \* records, used, evictions, generation and next sequence
  running,     \* running
  timer,       \* checkpointTimer is set
  recoveryState, \* what the last start found
  writing,     \* who is inside checkpoint(): "nobody", "caller" or "stop"
  checkpoint,  \* the checkpoint file: NoFile, Corrupt, or the arena it holds
  quarantined, \* corrupt checkpoints set aside
  committed,   \* history: the arena of the last checkpoint renamed
  written, life, begun, faults  \* history: what the bounds count

disk == <<checkpoint, quarantined, committed>>
counts == <<written, life, begun, faults>>
vars == <<capacity, arena, running, timer, recoveryState, writing, disk, counts>>

(* A record is a sequence, the bytes of its frame, the sha256 of its       *)
(* payload and what the bridge's envelope says of its predecessor.         *)
(* Payloads carry their time and differ, so the n-th one has digest n.     *)
Plain == -2       \* a record of another kind than the bridge's
EvictedPredecessor == -1   \* TOKEN_VAZIO_EVICTED_PREDECESSOR
Genesis == 0
NewArena == [records |-> << >>, used |-> 0, evictions |-> 0, generation |-> 1, next |-> 1]

Init ==
  /\ capacity \in Capacities /\ arena = NewArena
  /\ running = FALSE /\ timer = FALSE /\ recoveryState = "FRESH" /\ writing = "nobody"
  /\ checkpoint = NoFile /\ quarantined = 0 /\ committed = NoFile
  /\ written = 0 /\ life = 1 /\ begun = 0 /\ faults = 0

-----------------------------------------------------------------------------
(* The ring.                                                               *)

Bytes(records) ==
  LET sum[n \in 0 .. Len(records)] == IF n = 0 THEN 0 ELSE sum[n - 1] + records[n].bytes
  IN sum[Len(records)]

(* The oldest records go while the new one does not fit.                   *)
Evict(a, need) ==
  LET Enough(k) == \/ k = Len(a.records)
                   \/ a.used - Bytes(SubSeq(a.records, 1, k)) + need <= capacity
      k == CHOOSE k \in 0 .. Len(a.records) : Enough(k) /\ \A j \in 0 .. k - 1 : ~Enough(j)
  IN [a EXCEPT !.records = SubSeq(@, k + 1, Len(@)),
               !.used = @ - Bytes(SubSeq(a.records, 1, k)),
               !.evictions = @ + k]

Push(a, r) == [a EXCEPT !.records = Append(@, r), !.used = @ + r.bytes]

(* append: refused unless running and small enough for the arena.          *)
Remember(bytes, previous) ==
  /\ running /\ writing = "nobody"
  /\ bytes <= capacity /\ written < MaxAppends
  /\ written' = written + 1
  /\ LET r == [sequence |-> arena.next, bytes |-> bytes,
               sha256 |-> written + 1, previous |-> previous]
     IN arena' = [Push(Evict(arena, bytes), r) EXCEPT !.next = @ + 1]
  /\ UNCHANGED <<capacity, running, timer, recoveryState, writing, disk, life, begun, faults>>

-----------------------------------------------------------------------------
(* start.  restoreCheckpoint replays the file's records into an empty      *)
(* arena of this process's capacity; a record that can never fit is        *)
(* skipped, after the older ones have made way for it.                     *)

Reinsert(a, r) ==
  LET room == Evict(a, r.bytes) IN IF r.bytes > capacity THEN room ELSE Push(room, r)

(* Arena a after the records of s, one by one.                             *)
Reinserted(a, s) ==
  LET ring[n \in 0 .. Len(s)] == IF n = 0 THEN a ELSE Reinsert(ring[n - 1], s[n])
  IN ring[Len(s)]

(* Faulty form: evictions are counted from the restart.                    *)
RestoredRecounted(file) ==
  Reinserted([file EXCEPT !.records = << >>, !.used = 0, !.evictions = 0,
                          !.generation = @ + 1], file.records)

Restored(file) ==
  Reinserted([file EXCEPT !.records = << >>, !.used = 0, !.generation = @ + 1], file.records)

Started(found) ==
  /\ ~running /\ writing = "nobody"
  /\ running' = TRUE /\ timer' = TRUE
  /\ recoveryState' = found
  /\ UNCHANGED <<capacity, writing, committed, written, life, begun>>

StartFresh ==
  /\ checkpoint = NoFile
  /\ Started("FRESH")
  /\ UNCHANGED <<arena, checkpoint, quarantined, faults>>

StartRestored ==
  /\ checkpoint \notin {NoFile, Corrupt}
  /\ Started("RESTORED")
  /\ arena' = Restored(checkpoint)
  /\ UNCHANGED <<checkpoint, quarantined, faults>>

(* quarantineCorruptCheckpoint renames the file away.                      *)
Quarantine ==
  /\ checkpoint' = NoFile
  /\ quarantined' = quarantined + 1

(* The file does not validate, or cannot be read: a fresh arena.  The      *)
(* rename can fail too; that error is only logged.                         *)
StartQuarantined ==
  /\ checkpoint # NoFile
  /\ Started("QUARANTINED_CORRUPT")
  /\ arena' = NewArena
  /\ \E readError \in BOOLEAN, renameError \in BOOLEAN :
       /\ readError <=> checkpoint # Corrupt
       /\ faults' = faults + (IF readError THEN 1 ELSE 0) + (IF renameError THEN 1 ELSE 0)
       /\ faults' <= MaxFaults
       /\ IF renameError THEN UNCHANGED <<checkpoint, quarantined>> ELSE Quarantine

-----------------------------------------------------------------------------
(* checkpoint and stop.                                                    *)

(* Faulty form: the checkpoint is written in place.                        *)
WriteInPlace ==
  /\ begun < MaxCheckpoints /\ begun' = begun + 1
  /\ checkpoint' = Corrupt
  /\ UNCHANGED <<quarantined, committed>>

(* The snapshot goes to the temporary file, which nothing ever reads.      *)
WriteTemporary ==
  /\ begun < MaxCheckpoints /\ begun' = begun + 1
  /\ UNCHANGED disk

(* checkpoint(), from the interval timer or from a caller.                 *)
BeginCheckpoint ==
  /\ running /\ writing = "nobody"
  /\ writing' = "caller"
  /\ WriteTemporary
  /\ UNCHANGED <<capacity, arena, running, timer, recoveryState, written, life, faults>>

Stop ==
  /\ running /\ writing = "nobody"
  /\ timer' = FALSE
  /\ writing' = "stop"
  /\ WriteTemporary
  /\ UNCHANGED <<capacity, arena, running, recoveryState, written, life, faults>>

(* renameSync; a stop that gets here is complete.                          *)
RenameCheckpoint ==
  /\ writing # "nobody"
  /\ checkpoint' = arena /\ committed' = arena
  /\ running' = (writing # "stop")
  /\ writing' = "nobody"
  /\ UNCHANGED <<capacity, arena, timer, recoveryState, quarantined, counts>>

(* Opening, writing, fsync or rename throws.  The timer's callback logs    *)
(* it; stop is left by the exception, its timer cleared, still running.    *)
CheckpointThrows ==
  /\ writing # "nobody"
  /\ faults < MaxFaults /\ faults' = faults + 1
  /\ writing' = "nobody"
  /\ UNCHANGED <<capacity, arena, running, timer, recoveryState, disk, written, life, begun>>

-----------------------------------------------------------------------------
(* The environment.                                                        *)

(* The process dies at any point; the next is constructed.                 *)
NextProcess ==
  /\ life < MaxLives /\ life' = life + 1
  /\ capacity' \in Capacities
  /\ arena' = NewArena
  /\ running' = FALSE /\ timer' = FALSE /\ recoveryState' = "FRESH" /\ writing' = "nobody"
  /\ UNCHANGED <<disk, written, begun, faults>>

Damage ==
  /\ checkpoint \notin {NoFile, Corrupt}
  /\ faults < MaxFaults /\ faults' = faults + 1
  /\ checkpoint' = Corrupt
  /\ UNCHANGED <<capacity, arena, running, timer, recoveryState, writing, quarantined,
                 committed, written, life, begun>>

Lifecycle ==
  \/ StartFresh \/ StartRestored \/ StartQuarantined
  \/ BeginCheckpoint \/ Stop \/ RenameCheckpoint \/ CheckpointThrows
  \/ NextProcess \/ Damage

Next == Lifecycle \/ \E bytes \in Frames : Remember(bytes, Plain)

Spec == Init /\ [][Next]_vars

-----------------------------------------------------------------------------
(* Properties.                                                             *)

(* The arena never exceeds its capacity and its byte count is that of its  *)
(* records, through evictions, restarts and changes of capacity.           *)
RingFits == arena.used = Bytes(arena.records) /\ arena.used <= capacity

(* What the arena holds is always the newest end of the history, without a *)
(* gap: eviction and restoration drop only from the old end.               *)
TailIsContiguous ==
  LET n == Len(arena.records)
  IN \A i \in 1 .. n : arena.records[i].sequence = arena.next - 1 - (n - i)

(* Every sequence number given out is in the arena or counted as evicted:  *)
(* the evictions counter is what consumers learn of missing history from.  *)
EvictionsAccountForLoss == arena.next - 1 = Len(arena.records) + arena.evictions

(* Through appends, restarts with another capacity and failed checkpoints, *)
(* the ring is the newest end of the history, measured to the byte and     *)
(* with every missing record on the counter.                               *)
RingIsEndOfHistory == RingFits /\ TailIsContiguous /\ EvictionsAccountForLoss

(* Without storage faults the file is the last checkpoint completed,       *)
(* whenever the process dies: a checkpoint never destroys the one before.  *)
LastCheckpointSurvives == faults = 0 => checkpoint = committed

=============================================================================
