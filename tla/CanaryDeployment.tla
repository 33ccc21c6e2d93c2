-------------------------- MODULE CanaryDeployment --------------------------
(***************************************************************************)
(* A staged deployment as tests/canary-deployment.test.ts runs it: the     *)
(* plan of canary-deployment-orchestrator.ts beside the monitor of         *)
(* rollback-automation.ts.  The orchestrator decides and the caller acts;  *)
(* the monitor acts by itself.  Neither reads back what it writes to disk. *)
(***************************************************************************)
EXTENDS Naturals, Sequences, FiniteSets, Functions, SequencesExt

CONSTANTS Stages,      \* the stages' thresholds: minSuccess, maxErrors, maxGrowth
          Metrics,     \* records: success, errors, growth, healthy
          MaxStarts,   \* bound: calls of startCanaryDeployment
          MaxChecks,   \* bound: checks of the monitor
          MaxBadSaves \* bound: writes of the history that throw

ASSUME CanaryAssumption ==
  /\ Len(Stages) \in Nat \ {0}
  /\ \A m \in Metrics : m.success \in Nat /\ m.success <= 100
  /\ {MaxStarts, MaxChecks, MaxBadSaves} \subseteq Nat

VARIABLES plan, deployments,  \* the plan, and how often it was started
          monitor,            \* "off", "on", or "cleared" by a critical trigger
          checking,           \* calls of the metrics provider that have not come back
          executing,          \* of each rollback begun: its steps done; 3: it is over
          history,            \* RollbackHistory: ids of its events, and its statistics
          historyFile, writes \* the history on disk; bad writes, and was the last one bad

canaryVars == <<plan, deployments>>
automationVars == <<monitor, checking, executing, history, historyFile, writes>>

StageNumbers == 1 .. Len(Stages)
Unmeasured == [success |-> 0, decision |-> "none"]

(* Faulty form: a stage that was never measured counts as perfect.         *)
NewStagePerfect == [status |-> "pending", metrics |-> [Unmeasured EXCEPT !.success = 100]]
NewStage == [status |-> "pending", metrics |-> Unmeasured]

CanaryInit ==
  /\ plan = [status |-> "planning", current |-> 1, stages |-> [k \in StageNumbers |-> NewStage]]
  /\ deployments = 0

(* startCanaryDeployment leaves the stages as they are.                    *)
StartCanaryDeployment ==
  /\ deployments < MaxStarts /\ deployments' = deployments + 1
  /\ plan' = [plan EXCEPT !.status = "in_progress", !.current = 1]

(* Nothing in the class completes a stage: the caller does, through the    *)
(* plan it is given.                                                       *)
CompleteStage ==
  /\ plan.status # "planning"
  /\ plan.stages[plan.current].status \in {"pending", "in_progress"}
  /\ plan' = [plan EXCEPT !.stages[plan.current].status = "completed"]
  /\ UNCHANGED deployments

AdvanceToNextStage ==
  /\ plan.stages[plan.current].status = "completed"
  /\ plan' = IF plan.current < Len(Stages)
             THEN [plan EXCEPT !.current = @ + 1, !.stages[plan.current + 1].status = "in_progress"]
             ELSE [plan EXCEPT !.status = "completed"]
  /\ UNCHANGED deployments

Decide(limits, m) ==
  IF m.success < limits.minSuccess \/ m.errors > limits.maxErrors THEN "rollback"
  ELSE IF m.growth > limits.maxGrowth THEN "halt"
  ELSE IF /\ m.success >= limits.minSuccess + 5
          /\ 10 * m.errors < 7 * limits.maxErrors
          /\ m.healthy
  THEN "proceed" ELSE "monitor"

EvaluateStageMetrics(m) ==
  /\ plan' = [plan EXCEPT !.stages[plan.current].metrics =
                [success |-> m.success, decision |-> Decide(Stages[plan.current], m)]]
  /\ UNCHANGED deployments

RollbackPlan ==
  /\ plan' = [plan EXCEPT !.status = "rolled_back", !.stages[plan.current].status = "rolled_back"]
  /\ UNCHANGED deployments

CanaryNext ==
  \/ StartCanaryDeployment \/ CompleteStage \/ AdvanceToNextStage \/ RollbackPlan
  \/ \E m \in Metrics : EvaluateStageMetrics(m)

CanarySpec == CanaryInit /\ [][CanaryNext]_canaryVars

(* calculateSummary: the stages that count, and the recommendation.        *)
Counted == {k \in StageNumbers : plan.stages[k].status \in {"completed", "in_progress"}}
Recommended ==
  /\ plan.status # "rolled_back"
  /\ Counted # {}
  /\ SumFunctionOnSet([k \in Counted |-> plan.stages[k].metrics.success], Counted)
       >= 85 * Cardinality(Counted)
  /\ plan.current = Len(Stages)

-----------------------------------------------------------------------------
(* RollbackAutomation.                                                     *)

NewHistory == [events |-> << >>, checks |-> 0, detected |-> 0,
               executed |-> 0, succeeded |-> 0, failed |-> 0]

AutomationInit ==
  /\ monitor = "off" /\ checking = 0 /\ executing = << >>
  /\ history = NewHistory /\ historyFile = << >>
  /\ writes = [bad |-> 0, lastBad |-> FALSE]

StartMonitoring ==
  /\ monitor = "off" /\ monitor' = "on"
  /\ UNCHANGED <<checking, executing, history, historyFile, writes>>

(* The interval fires whether or not the provider has answered.            *)
Check ==
  /\ monitor = "on" /\ history.checks + checking < MaxChecks
  /\ checking' = checking + 1
  /\ UNCHANGED <<monitor, executing, history, historyFile, writes>>

Answered == checking > 0 /\ checking' = checking - 1 /\ UNCHANGED <<historyFile, writes>>

ProviderFails ==
  Answered /\ UNCHANGED <<monitor, executing, history>>

(* Nothing triggers, or only a warning.                                    *)
CheckPasses(detected) ==
  /\ Answered
  /\ history' = [history EXCEPT !.checks = @ + 1, !.detected = @ + detected]
  /\ UNCHANGED <<monitor, executing>>

(* A critical trigger ends the monitoring and begins a rollback; checks    *)
(* that wait for their provider may still do the same.                     *)
CheckAlarms ==
  /\ Answered
  /\ history' = [history EXCEPT !.checks = @ + 1, !.detected = @ + 1]
  /\ monitor' = "cleared"
  /\ executing' = Append(executing, 0)

(* A caller may execute a rollback itself.                                 *)
ExecuteRollback ==
  /\ Len(executing) < MaxChecks
  /\ executing' = Append(executing, 0)
  /\ UNCHANGED <<monitor, checking, history, historyFile, writes>>

(* Traffic is disabled, the previous version restored.  These steps and    *)
(* the last, to verify the recovery, are left to a deployment adapter.      *)
StepDone(r) ==
  /\ executing[r] < 2
  /\ executing' = [executing EXCEPT ![r] = @ + 1]
  /\ UNCHANGED <<monitor, checking, history, historyFile, writes>>

(* Faulty form: the history is saved before the event is in it.            *)
FinishSavesFirst(r, h) ==
  /\ executing[r] < 3
  /\ executing' = [executing EXCEPT ![r] = 3]
  /\ history' = h
  /\ historyFile' = history.events /\ writes' = [writes EXCEPT !.lastBad = FALSE]
  /\ UNCHANGED <<monitor, checking>>

(* The event joins the history, and the history is written.                *)
Finish(r, h) ==
  /\ executing[r] < 3
  /\ executing' = [executing EXCEPT ![r] = 3]
  /\ history' = h
  /\ \/ historyFile' = h.events /\ writes' = [writes EXCEPT !.lastBad = FALSE]
     \/ /\ writes.bad < MaxBadSaves
        /\ writes' = [bad |-> writes.bad + 1, lastBad |-> TRUE]
        /\ UNCHANGED historyFile
  /\ UNCHANGED <<monitor, checking>>

RollbackSucceeds(r) ==
  /\ executing[r] = 2
  /\ Finish(r, [history EXCEPT !.events = Append(@, r), !.executed = @ + 1, !.succeeded = @ + 1])

(* A step that throws, whichever it is, ends the rollback as failed.       *)
RollbackFails(r) ==
  Finish(r, [history EXCEPT !.events = Append(@, r), !.executed = @ + 1, !.failed = @ + 1])

AutomationNext ==
  \/ StartMonitoring \/ Check \/ ProviderFails \/ CheckAlarms \/ ExecuteRollback
  \/ \E warning \in {0, 1} : CheckPasses(warning)
  \/ \E r \in DOMAIN executing : StepDone(r) \/ RollbackSucceeds(r) \/ RollbackFails(r)

AutomationSpec == AutomationInit /\ [][AutomationNext]_automationVars
-----------------------------------------------------------------------------
(* No deployment is recommended for production with a stage that was never *)
(* measured: such a stage counts with nothing and pulls the average down,  *)
(* through every restart, rollback and stage the caller completes unseen.  *)
ProductionIsMeasured ==
  Recommended => \A k \in StageNumbers : plan.stages[k].metrics.decision # "none"

(* Whichever way overlapping rollbacks end, the history has every one that *)
(* is over once and its statistics count it; the file has them too, unless *)
(* the last write failed.                                                  *)
HistoryIsComplete ==
  LET over == {r \in DOMAIN executing : executing[r] = 3} IN
  /\ ToSet(history.events) = over /\ Len(history.events) = Cardinality(over)
  /\ history.executed = Cardinality(over)
  /\ history.succeeded + history.failed = history.executed
  /\ writes.lastBad \/ historyFile = history.events
=============================================================================
