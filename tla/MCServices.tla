----------------------------- MODULE MCServices -----------------------------
(***************************************************************************)
(* The engine's lifecycle and the services it owns, which reach each other *)
(* only through values they hand over: a behaviour is that of one subject, *)
(* and the others stay as they begin.                                      *)
(***************************************************************************)
EXTENDS EngineLifecycle, ConcurrentCapture, RollbackJournals, Observability,
        AutoOptimizer, DiskExhaustion, ProvenanceTracker, EvidenceFiles

CONSTANTS c1, c2, c3

VARIABLE subject

MCCallers == {c1, c2, c3}
Symmetric == Permutations(MCCallers)

(* The latency and the rates may alert again every tick or every other.    *)
MCDebounce == [r \in AlertRules |->
  CASE r = "sla_fix_success_rate" -> 2 [] r = "watchdog_failsafe" -> 0 [] OTHER -> 1]

gauge(latency, storage, errors, free, failsafe) ==
  [capture |-> latency, detection |-> 5 * latency, application |-> 10 * latency,
   storage |-> storage, errors |-> errors, disk |-> free, failsafe |-> failsafe]

(* All is well if near the bounds, all is slow, or the disk is full.       *)
MCGauges == {gauge(80, 900, 20, {}, FALSE), gauge(101, 900, 20, {100}, FALSE),
             gauge(81, 901, 21, {49}, TRUE)}
MCConfig == [confidence |-> 85, occurrences |-> 3]
MCMeasured == {[bug_capture_latency |-> 101, audit_completeness |-> 98], [success_rate |-> 80]}
MCIds == [BUG |-> {"b", "c"}, PATTERN |-> {"p"}, FIX |-> {"f"}, TEST |-> {"t"}, ROLLBACK |-> {"r"}]

services == <<lifecycleVars, captureVars, journalVars, observabilityVars, optimizerVars,
              diskVars, provenanceVars, evidenceVars>>

Init ==
  /\ subject \in {"lifecycle", "capture", "journals", "observability", "optimizer", "disk",
                  "provenance", "evidence"}
  /\ LifecycleInit /\ CaptureInit /\ JournalInit /\ ObservabilityInit /\ OptimizerInit
  /\ DiskInit /\ ProvenanceInit /\ EvidenceInit
  /\ subject = "observability" \/ gauges = gauge(80, 900, 20, {}, FALSE)
  /\ subject = "journals" \/ (writable /\ journalFile = "absent")

Only(name, others) == subject = name /\ UNCHANGED <<subject, others>>

Next ==
  \/ Only("lifecycle", <<captureVars, journalVars, observabilityVars, optimizerVars, diskVars,
          provenanceVars, evidenceVars>>)
     /\ LifecycleNext
  \/ Only("capture", <<lifecycleVars, journalVars, observabilityVars, optimizerVars, diskVars,
          provenanceVars, evidenceVars>>)
     /\ CaptureNext
  \/ Only("journals", <<lifecycleVars, captureVars, observabilityVars, optimizerVars, diskVars,
          provenanceVars, evidenceVars>>)
     /\ JournalNext
  \/ Only("observability", <<lifecycleVars, captureVars, journalVars, optimizerVars, diskVars,
          provenanceVars, evidenceVars>>)
     /\ ObservabilityNext
  \/ Only("optimizer", <<lifecycleVars, captureVars, journalVars, observabilityVars, diskVars,
          provenanceVars, evidenceVars>>)
     /\ OptimizerNext
  \/ Only("disk", <<lifecycleVars, captureVars, journalVars, observabilityVars, optimizerVars,
          provenanceVars, evidenceVars>>)
     /\ DiskNext
  \/ Only("provenance", <<lifecycleVars, captureVars, journalVars, observabilityVars,
          optimizerVars, diskVars, evidenceVars>>)
     /\ ProvenanceNext
  \/ Only("evidence", <<lifecycleVars, captureVars, journalVars, observabilityVars,
          optimizerVars, diskVars, provenanceVars>>)
     /\ EvidenceNext

Spec == Init /\ [][Next]_<<subject, services>>
=============================================================================
