---------------------------- MODULE AutoOptimizer ----------------------------
(***************************************************************************)
(* AutoOptimizer and the FeedbackCollector it reads, of                    *)
(* modules/runtime-learning-engine/auto-optimizer.ts and                   *)
(* feedback-collector.ts.  The optimizer has a collector of its own, which *)
(* reads metrics.json when it is made and never again; the periodic        *)
(* evaluation and a caller's may overlap at the await between the two      *)
(* adjustments.  Confidence is in hundredths.                              *)
(***************************************************************************)
EXTENDS Integers, Sequences, FiniteSetsExt

CONSTANTS Evaluations,      \* evaluations that may be in flight at once
          InitialConfig,    \* initialConfig, [confidence, occurrences]
          MaxAttempts,      \* bound: fixes in the metrics
          MaxAdjustments,   \* bound: entries of the log
          MaxMishaps        \* bound: optimizers after the first, files lost

ASSUME OptimizerAssumption ==
  /\ InitialConfig \in [confidence : 10 .. 99, occurrences : Nat \ {0}]
  /\ {MaxAttempts, MaxAdjustments, MaxMishaps} \subseteq Nat

VARIABLES tally,        \* the recording collector: counts over its fixes
          metricsFile,  \* the counts metrics.json gives to who loads it
          seen,         \* the optimizer's collector
          config,
          optimizationLog, optimizationFile,
          loaded,       \* entries the optimizer found in the file
          evaluation,   \* evaluation -> "idle", or "occurrences" at its await
          mishaps

optimizerVars == <<tally, metricsFile, seen, config, optimizationLog, optimizationFile,
                   loaded, evaluation, mishaps>>

NoFixes == [total |-> 0, successful |-> 0, rolledBack |-> 0]

OptimizerInit ==
  /\ tally = NoFixes /\ metricsFile = NoFixes /\ seen = NoFixes
  /\ config = InitialConfig
  /\ optimizationLog = <<>> /\ optimizationFile = <<>> /\ loaded = 0
  /\ evaluation = [e \in Evaluations |-> "idle"]
  /\ mishaps = 0

Mishap == mishaps < MaxMishaps /\ mishaps' = mishaps + 1

(* recordFixAttempt: the file is written in place at once.  A write cut    *)
(* off leaves a file that loads as nothing, a failed one leaves the old.   *)
RecordFixAttempt(successful, rolledBack) ==
  LET next == [total |-> tally.total + 1,
               successful |-> tally.successful + (IF successful THEN 1 ELSE 0),
               rolledBack |-> tally.rolledBack + (IF rolledBack THEN 1 ELSE 0)]
  IN /\ tally.total < MaxAttempts
     /\ tally' = next
     /\ \/ metricsFile' = next /\ UNCHANGED mishaps
        \/ metricsFile' \in {metricsFile, NoFixes} /\ Mishap
     /\ UNCHANGED <<seen, config, optimizationLog, optimizationFile, loaded, evaluation>>

(* MetricsExporter writes its gauges over the file of the same name: what  *)
(* loads it finds no fixes.                                                *)
ExportToFile ==
  /\ Mishap /\ metricsFile' = NoFixes
  /\ UNCHANGED <<tally, seen, config, optimizationLog, optimizationFile, loaded, evaluation>>

(* getSummary: with no fixes both rates are 0.                             *)
Below(n, percent) == seen.total = 0 \/ 100 * n < percent * seen.total
Above(n, percent) == 100 * n > percent * seen.total

(* deriveOptimizationRiskAdjustment.                                       *)
ConfidenceDelta ==
  IF config.confidence >= 99 THEN 0
  ELSE IF Above(seen.rolledBack, 30) THEN 10
  ELSE IF Below(seen.successful, 70) THEN 5 ELSE 0
OccurrencesDelta ==
  IF Below(seen.successful, 60) \/ Above(seen.rolledBack, 30) THEN 1 ELSE 0

Clamped(c) == IF c > 99 THEN 99 ELSE c
Entry(kind, old, new) == IF old = new THEN <<>> ELSE <<[kind |-> kind, old |-> old, new |-> new]>>

(* saveOptimizationLog, in place; what goes wrong is logged.               *)
SaveLog(log) ==
  /\ optimizationLog' = log
  /\ IF log = optimizationLog THEN UNCHANGED <<optimizationFile, mishaps>>
     ELSE \/ optimizationFile' = log /\ UNCHANGED mishaps
          \/ optimizationFile' \in {optimizationFile, <<>>} /\ Mishap

(* Faulty form: the old value is the one the optimizer started with.       *)
RaiseFromInitial(e, raised) ==
  /\ SaveLog(optimizationLog \o
             Entry("occurrences", InitialConfig.occurrences, InitialConfig.occurrences + 1))
  /\ config' = [raised EXCEPT !.occurrences = InitialConfig.occurrences + 1]
  /\ evaluation' = [evaluation EXCEPT ![e] = "idle"]

AdjustMinOccurrences(e, raised) ==
  /\ SaveLog(optimizationLog \o Entry("occurrences", raised.occurrences, raised.occurrences + 1))
  /\ config' = [raised EXCEPT !.occurrences = @ + 1]
  /\ evaluation' = [evaluation EXCEPT ![e] = "idle"]

AdjustConfidenceThreshold(e) ==
  LET new == Clamped(config.confidence + ConfidenceDelta)
  IN /\ SaveLog(optimizationLog \o Entry("confidence", config.confidence, new))
     /\ config' = [config EXCEPT !.confidence = new]
     /\ evaluation' = [evaluation EXCEPT ![e] = IF OccurrencesDelta > 0 THEN "occurrences" ELSE "idle"]

(* evaluateAndOptimize up to its first await: with no confidence to raise  *)
(* the occurrences are raised at once.                                     *)
EvaluateAndOptimize(e) ==
  /\ evaluation[e] = "idle" /\ Len(optimizationLog) < MaxAdjustments
  /\ \/ ConfidenceDelta > 0 /\ AdjustConfidenceThreshold(e)
     \/ ConfidenceDelta = 0 /\ OccurrencesDelta > 0 /\ AdjustMinOccurrences(e, config)
  /\ UNCHANGED <<tally, metricsFile, seen, loaded>>

ContinueEvaluation(e) ==
  /\ evaluation[e] = "occurrences"
  /\ AdjustMinOccurrences(e, config)
  /\ UNCHANGED <<tally, metricsFile, seen, loaded>>

(* Another optimizer, in this process or, with another collector, in the   *)
(* next: the thresholds start over, the log does not.                      *)
NewOptimizer(restarted) ==
  /\ Mishap
  /\ tally' = IF restarted THEN metricsFile ELSE tally
  /\ seen' = metricsFile
  /\ config' = InitialConfig
  /\ optimizationLog' = optimizationFile /\ loaded' = Len(optimizationFile)
  /\ evaluation' = [e \in Evaluations |-> "idle"]
  /\ UNCHANGED <<metricsFile, optimizationFile>>

OptimizerNext ==
  \/ \E successful, rolledBack \in BOOLEAN : RecordFixAttempt(successful, rolledBack)
  \/ ExportToFile
  \/ \E e \in Evaluations : EvaluateAndOptimize(e) \/ ContinueEvaluation(e)
  \/ \E restarted \in BOOLEAN : NewOptimizer(restarted)

OptimizerSpec == OptimizerInit /\ [][OptimizerNext]_optimizerVars

-----------------------------------------------------------------------------
(* This optimizer's entries for a threshold before the one at i, and where *)
(* they lead.                                                              *)
OwnBefore(kind, i) == {j \in loaded + 1 .. Len(optimizationLog) :
                         j < i /\ optimizationLog[j].kind = kind}
LedTo(kind, i, from) ==
  IF OwnBefore(kind, i) = {} THEN from ELSE optimizationLog[Max(OwnBefore(kind, i))].new

Explains(kind, from, to) ==
  LET last == Len(optimizationLog) + 1
  IN /\ \A i \in OwnBefore(kind, last) :
          /\ optimizationLog[i].old = LedTo(kind, i, from)
          /\ optimizationLog[i].old < optimizationLog[i].new
     /\ to = LedTo(kind, last, from)

(* However the evaluations overlap, each threshold is where this           *)
(* optimizer's entries of the log lead, entry by entry and always upwards, *)
(* from where it started, and the confidence asked for stays below 1.      *)
LogExplainsConfig ==
  /\ Explains("confidence", InitialConfig.confidence, config.confidence)
  /\ Explains("occurrences", InitialConfig.occurrences, config.occurrences)
  /\ config.confidence <= 99
=============================================================================
