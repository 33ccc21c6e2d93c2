----------------------------- MODULE CausalBridge -----------------------------
(***************************************************************************)
(* The causal tail kept in the runtime memory by                           *)
(* modules/runtime-learning-engine/runtime-stability-hypermemory-bridge.ts:*)
(* dumps, diffs and outcomes are appended as envelopes, each with the      *)
(* digest of the envelope before it.  HyperMemory with that one operation  *)
(* more; what appendDump, appendDiff and appendOutcome validate and copy   *)
(* into the payload is left out.                                           *)
(***************************************************************************)
EXTENDS HyperMemory

(* Where the envelopes are among the records.                              *)
EnvelopesIn(records) == {i \in DOMAIN records : records[i].previous # Plain}
Envelopes == EnvelopesIn(arena.records)

(* Faulty form: the oldest envelope is taken for the newest.               *)
PredecessorOldest ==
  IF Envelopes # {} THEN arena.records[Min(Envelopes)].sha256
  ELSE IF arena.evictions > 0 THEN EvictedPredecessor
  ELSE Genesis

(* Faulty form: an empty ring is taken for a new chain.                    *)
PredecessorUnlost ==
  IF Envelopes # {} THEN arena.records[Max(Envelopes)].sha256 ELSE Genesis

(* The newest envelope in the ring, or the reason why there is none.       *)
Predecessor ==
  IF Envelopes # {} THEN arena.records[Max(Envelopes)].sha256
  ELSE IF arena.evictions > 0 THEN EvictedPredecessor
  ELSE Genesis

AppendEnvelope(bytes) == Remember(bytes, Predecessor)

BridgeNext == Next \/ \E bytes \in Frames : AppendEnvelope(bytes)

BridgeSpec == Init /\ [][BridgeNext]_vars

-----------------------------------------------------------------------------
(* Each envelope in the ring names the envelope right before it, across    *)
(* evictions, records of other kinds and restarts.                         *)
Linked(records) ==
  \A i, j \in EnvelopesIn(records) :
    (i < j /\ \A k \in i + 1 .. j - 1 : k \notin EnvelopesIn(records))
      => records[j].previous = records[i].sha256

ChainIsLinked == Linked(arena.records)

(* While the checkpoint on disk holds an envelope of this arena's history, *)
(* no envelope is marked as the beginning of the chain:                    *)
(* docs/runtime-stability-falsifiability.md, "It must not reset the chain  *)
(* to GENESIS, because that would manufacture a false beginning".          *)
EnvelopeOnDisk ==
  /\ recoveryState # "QUARANTINED_CORRUPT" /\ checkpoint \notin {NoFile, Corrupt}
  /\ EnvelopesIn(checkpoint.records) # {}

ChainIsNotRestarted ==
  [][EnvelopeOnDisk /\ written' > written => Last(arena'.records).previous # Genesis]_vars
=============================================================================
