---------------------------- MODULE Observability ----------------------------
(***************************************************************************)
(* What refreshObservability of modules/runtime-learning-engine/index.ts   *)
(* drives: HealthCheckEndpoint (health-check-endpoint.ts), AlertManager    *)
(* (alert-manager.ts) and the rules of the safety mesh (runtime-safety-    *)
(* mesh.ts, alert-rules-3-2.ts).  Captures and heartbeats refresh side by  *)
(* side: a refresh reads some figures, waits for its files, reads others,  *)
(* waits, and judges by what it read.  The grade healthy, degraded or      *)
(* critical and the mesh's list of past alerts, which nothing here reads,  *)
(* are left out.                                                           *)
(***************************************************************************)
EXTENDS Integers, FiniteSets

CONSTANTS Refreshers,      \* captures and heartbeats that refresh
          Gauges,          \* what the latencies, the files and the disk may measure,
                           \* with whether the watchdog is in FAILSAFE
          Debounce,        \* rule of AlertManager -> its debounce, in ticks
          FirstTick,       \* Date.now() at the start; no debounce reaches back to 0
          LastTick,        \* bound: Date.now()
          MaxFigures,      \* bound: fixes and rollbacks recorded
          MaxAlerts,       \* bound: no judgement once as many were raised
          MaxResolved,     \* bound: alerts resolved at a time
          MaxLosses        \* bound: processes that end and saves that go wrong

AlertRules == {"sla_bug_capture_latency", "sla_pattern_detection_latency",
               "sla_fix_application_latency", "sla_fix_success_rate", "high_memory_usage",
               "high_storage_usage", "watchdog_failsafe", "high_error_rate",
               "rollback_failure"}

ASSUME ObservabilityAssumption ==
  /\ {FirstTick, LastTick, MaxFigures, MaxAlerts, MaxResolved, MaxLosses} \subseteq Nat
  \* the free space is {} when it cannot be observed
  /\ \A g \in Gauges : /\ DOMAIN g = {"capture", "detection", "application", "storage",
                                       "errors", "disk", "failsafe"}
                       /\ {g.capture, g.detection, g.application, g.storage, g.errors}
                            \cup g.disk \subseteq Nat
                       /\ g.failsafe \in BOOLEAN
  /\ DOMAIN Debounce = AlertRules /\ \A r \in AlertRules : Debounce[r] \in 0 .. FirstTick

VARIABLES tick,
          phase,         \* the engine: new until a start, then running or stopped
          figures,        \* of this process: fixes and rollbacks, attempted and done
          gauges,
          refresh,        \* refresher -> the metrics it has read, or NoMetrics
          alerts,         \* AlertManager's map: id -> resolved
          lastAlertTime, alertsFile,
          losses,         \* endings, bad saves and bad loads so far, and whether one of the file's
                          \* went wrong
          raised,         \* history: ids of the alerts raised
          alone,          \* history: rules whose alert the mesh did not second
          judged          \* history: the lowest rate of rollbacks that was judged

observabilityVars == <<tick, phase, figures, gauges, refresh, alerts,
                       lastAlertTime, alertsFile, losses, raised, alone, judged>>

NoMetrics == [at |-> "idle"]
NoAlerts == [id \in {} |-> FALSE]
File(map, torn) == [alerts |-> map, torn |-> torn]
NoFigures == [fixes |-> 0, fixed |-> 0, rollbacks |-> 0, rolledBack |-> 0]

ObservabilityInit ==
  /\ tick = FirstTick /\ phase = "new" /\ figures = NoFigures
  /\ gauges \in Gauges
  /\ refresh = [r \in Refreshers |-> NoMetrics]
  /\ alerts = NoAlerts /\ alertsFile = File(NoAlerts, FALSE)
  /\ lastAlertTime = [r \in AlertRules |-> 0]
  /\ losses = [n |-> 0, badFile |-> FALSE] /\ raised = {} /\ alone = {} /\ judged = 100

Judgement == <<alerts, lastAlertTime, alertsFile, losses, raised, alone, judged>>
World == <<tick, phase, figures, gauges>>

(* calculateSuccessStats: nothing attempted is a success; Math.round.       *)
FixRate ==
  IF figures.fixes = 0 THEN 100
  ELSE (200 * figures.fixed + figures.fixes) \div (2 * figures.fixes)

(* The rate of rollbacks is not rounded: a fraction of a percent above 0   *)
(* counts as 1 here, other fractions as the percent below, which the       *)
(* comparisons with whole numbers cannot tell.                             *)
RollbackRate ==
  IF figures.rollbacks = 0 THEN 100
  ELSE IF figures.rolledBack > 0 /\ 100 * figures.rolledBack < figures.rollbacks THEN 1
  ELSE (100 * figures.rolledBack) \div figures.rollbacks

(* recordSuccess and recordFailure, with the engine's count of rollbacks.  *)
Record(fixed, rollback, rolledBack) ==
  /\ phase # "new" /\ figures.fixes < MaxFigures
  /\ fixed => ~rollback
  /\ rolledBack => rollback
  /\ figures' = [fixes |-> figures.fixes + 1,
                 fixed |-> figures.fixed + (IF fixed THEN 1 ELSE 0),
                 rollbacks |-> figures.rollbacks + (IF rollback THEN 1 ELSE 0),
                 rolledBack |-> figures.rolledBack + (IF rolledBack THEN 1 ELSE 0)]
  /\ UNCHANGED <<tick, phase, gauges, refresh>> /\ UNCHANGED Judgement

(* recordLatency, the audit log, the size of the files, the disk, the      *)
(* watchdog: time passes and the world is another.                         *)
Drift ==
  /\ tick < LastTick /\ tick' = tick + 1
  /\ gauges' \in Gauges
  /\ UNCHANGED <<phase, figures, refresh>> /\ UNCHANGED Judgement

-----------------------------------------------------------------------------
(* What getHealthStatus counts as violations, critical or not.             *)
Violations ==
  Cardinality({v \in {"capture", "success", "storage", "errors", "watchdog", "engine"} :
    CASE v = "capture" -> gauges.capture > 80
      [] v = "success" -> figures.fixes > 0 /\ FixRate < 90
      [] v = "storage" -> gauges.storage > 900
      [] v = "errors" -> gauges.errors > 20
      [] v = "watchdog" -> gauges.failsafe
      [] v = "engine" -> phase # "running"})

(* The watchdog, the disk and getHealthStatus, up to its await.            *)
Observe(r) ==
  /\ phase # "new" /\ refresh[r] = NoMetrics
  /\ refresh' = [refresh EXCEPT ![r] =
       [at |-> "health", failsafe |-> gauges.failsafe, disk |-> gauges.disk,
        storage |-> gauges.storage, errors |-> gauges.errors, violations |-> Violations]]
  /\ UNCHANGED World /\ UNCHANGED Judgement

(* getMetricsSnapshot, up to its await; the figures of the metrics file    *)
(* are not read here.                                                      *)
Snapshot(r) ==
  /\ refresh[r].at = "health"
  /\ refresh' = [refresh EXCEPT ![r] =
       [at |-> "snapshot", health |-> refresh[r], capture |-> gauges.capture,
        detection |-> gauges.detection, application |-> gauges.application,
        fixRate |-> FixRate]]
  /\ UNCHANGED World /\ UNCHANGED Judgement

-----------------------------------------------------------------------------
(* `rate || 100`: a rate of 0 reads as 100.                                *)
OrHundred(rate) == IF rate = 0 THEN 100 ELSE rate

(* No provider of the target's memory is installed: its usage is -1.       *)
TargetMemory == -1

Condition(rule, m) ==
  CASE rule = "sla_bug_capture_latency" -> m.capture > 100
    [] rule = "sla_pattern_detection_latency" -> m.detection > 500
    [] rule = "sla_fix_application_latency" -> m.application > 1000
    [] rule = "sla_fix_success_rate" -> OrHundred(m.fixRate) < 80
    [] rule = "high_memory_usage" -> TargetMemory > 500
    [] rule = "high_storage_usage" -> m.health.storage > 900
    [] rule = "watchdog_failsafe" -> m.health.failsafe
    [] rule = "high_error_rate" -> m.health.errors > 20
    [] rule = "rollback_failure" -> OrHundred(RollbackRate) < 95

CanAlert(rule) == tick - lastAlertTime[rule] >= Debounce[rule]
NewAlerts(m) == {rule \in AlertRules : Condition(rule, m) /\ CanAlert(rule)}
With(map, ids) == [id \in DOMAIN map \cup ids |-> IF id \in ids THEN FALSE ELSE map[id]]

MeshRule(id, metric, operator, threshold) ==
  [id |-> id, metric |-> metric, operator |-> operator, threshold |-> threshold]

MeshRules ==
  {MeshRule("sla_bug_capture_critical", "bug_capture_latency_ms", ">", 100),
   MeshRule("sla_bug_capture_warning", "bug_capture_latency_ms", ">", 80),
   MeshRule("sla_pattern_detection_critical", "pattern_detection_latency_ms", ">", 500),
   MeshRule("sla_pattern_detection_warning", "pattern_detection_latency_ms", ">", 400),
   MeshRule("sla_fix_application_critical", "fix_application_latency_ms", ">", 1000),
   MeshRule("sla_fix_application_warning", "fix_application_latency_ms", ">", 800),
   MeshRule("sla_success_rate_critical", "success_rate", "<", 80),
   MeshRule("sla_success_rate_warning", "success_rate", "<", 90),
   MeshRule("resource_memory_critical", "memory_usage_mb", ">", 300),
   MeshRule("resource_memory_warning", "memory_usage_mb", ">", 250),
   MeshRule("resource_disk_critical", "disk_free_mb", "<", 50),
   MeshRule("resource_disk_warning", "disk_free_mb", "<", 100),
   MeshRule("watchdog_failsafe_critical", "watchdog_state", "==", 4),
   MeshRule("sla_violations_warning", "sla_total_violations", ">", 0)}

CheckCondition(current, rule) ==
  \/ rule.operator = ">" /\ current > rule.threshold
  \/ rule.operator = "<" /\ current < rule.threshold
  \/ rule.operator = "==" /\ current = rule.threshold

(* Faulty form: the latencies as they are now.                             *)
MeshMetricsNow(m) ==
  [bug_capture_latency_ms |-> {gauges.capture},
   pattern_detection_latency_ms |-> {gauges.detection},
   fix_application_latency_ms |-> {gauges.application},
   success_rate |-> {m.fixRate}, memory_usage_mb |-> {TargetMemory},
   disk_free_mb |-> m.health.disk,
   watchdog_state |-> {IF m.health.failsafe THEN 4 ELSE 1},
   sla_total_violations |-> {m.health.violations}]

(* Metric -> its value, none when it is not a number.                      *)
MeshMetrics(m) ==
  [bug_capture_latency_ms |-> {m.capture},
   pattern_detection_latency_ms |-> {m.detection},
   fix_application_latency_ms |-> {m.application},
   success_rate |-> {m.fixRate}, memory_usage_mb |-> {TargetMemory},
   disk_free_mb |-> m.health.disk,
   watchdog_state |-> {IF m.health.failsafe THEN 4 ELSE 1},
   sla_total_violations |-> {m.health.violations}]

EvaluateOperationalMetrics(m) ==
  {rule.id : rule \in {q \in MeshRules :
     \E value \in MeshMetrics(m)[q.metric] : CheckCondition(value, q)}}

(* The mesh's alert for the same condition, or for one that implies it.    *)
Second(rule) ==
  CASE rule = "sla_bug_capture_latency" -> "sla_bug_capture_critical"
    [] rule = "sla_pattern_detection_latency" -> "sla_pattern_detection_critical"
    [] rule = "sla_fix_application_latency" -> "sla_fix_application_critical"
    [] rule = "sla_fix_success_rate" -> "sla_success_rate_critical"
    [] rule = "high_memory_usage" -> "resource_memory_critical"
    [] rule = "watchdog_failsafe" -> "watchdog_failsafe_critical"
    [] rule \in {"high_storage_usage", "high_error_rate"} -> "sla_violations_warning"
    [] rule = "rollback_failure" -> "none"

(* Faulty form: only what is new goes to the file.                         *)
AlertsOfNew(ids) == With(NoAlerts, ids)
SavedAlerts(ids) == With(alerts, ids)

FileGoesWrong == /\ losses.n < MaxLosses
                 /\ losses' = [n |-> losses.n + 1, badFile |-> TRUE]

(* saveAlerts, in place.                                                   *)
SaveAlerts(map) ==
  \/ alertsFile' = File(map, FALSE) /\ UNCHANGED losses
  \/ FileGoesWrong /\ alertsFile' \in {alertsFile, File(NoAlerts, TRUE)}

(* The rate of rollbacks as it is now, evaluateRules, saveAlerts when      *)
(* there is a new alert, and the mesh's rules, with no turn of another     *)
(* refresh that could tell.                                                *)
Evaluate(r) ==
  LET m == refresh[r]
      ids == {[rule |-> rule, at |-> tick] : rule \in NewAlerts(m)}
  IN /\ m.at = "snapshot" /\ Cardinality(raised) < MaxAlerts
     /\ alerts' = With(alerts, ids)
     /\ lastAlertTime' = [rule \in AlertRules |-> IF rule \in NewAlerts(m) THEN tick
                                                 ELSE lastAlertTime[rule]]
     /\ raised' = raised \cup ids
     /\ alone' = alone \cup {rule \in NewAlerts(m) :
                               Second(rule) \notin EvaluateOperationalMetrics(m)}
     /\ judged' = IF RollbackRate < judged THEN RollbackRate ELSE judged
     /\ IF ids = {} THEN UNCHANGED <<alertsFile, losses>> ELSE SaveAlerts(SavedAlerts(ids))
     /\ refresh' = [refresh EXCEPT ![r] = NoMetrics]
     /\ UNCHANGED World

(* resolveAlert stays in memory until the next new alert or the stop.      *)
ResolveAlert(id) ==
  /\ ~alerts[id] /\ Cardinality({a \in DOMAIN alerts : alerts[a]}) < MaxResolved
  /\ alerts' = [alerts EXCEPT ![id] = TRUE]
  /\ UNCHANGED World
  /\ UNCHANGED <<refresh, lastAlertTime, alertsFile, losses, raised, alone, judged>>

-----------------------------------------------------------------------------
(* start: loadAlerts puts what the file has over what the map has, or the  *)
(* map stays as it is, when the file cannot be read.                       *)
LoadAlerts ==
  /\ phase # "running" /\ phase' = "running"
  /\ \/ /\ alerts' = [id \in DOMAIN alerts \cup DOMAIN alertsFile.alerts |->
                        IF id \in DOMAIN alertsFile.alerts THEN alertsFile.alerts[id]
                        ELSE alerts[id]]
        /\ UNCHANGED losses
     \/ FileGoesWrong /\ UNCHANGED alerts
  /\ UNCHANGED <<tick, figures, gauges, refresh, lastAlertTime, alertsFile,
                 raised, alone, judged>>

(* stop saves them; what is under way goes on.                             *)
StopSavesAlerts ==
  /\ phase = "running" /\ phase' = "stopped"
  /\ SaveAlerts(alerts)
  /\ UNCHANGED <<tick, figures, gauges, refresh, alerts, lastAlertTime,
                 raised, alone, judged>>

(* A process ends; the next begins with neither figures nor debounces.     *)
ProcessEnds ==
  /\ phase # "new" /\ phase' = "new"
  /\ losses.n < MaxLosses /\ losses' = [losses EXCEPT !.n = @ + 1]
  /\ alerts' = NoAlerts
  /\ lastAlertTime' = [r \in AlertRules |-> 0]
  /\ figures' = NoFigures
  /\ refresh' = [r \in Refreshers |-> NoMetrics]
  /\ UNCHANGED <<tick, gauges, alertsFile, raised, alone, judged>>

ObservabilityNext ==
  \/ Drift \/ LoadAlerts \/ StopSavesAlerts \/ ProcessEnds
  \/ \E fixed, rollback, rolledBack \in BOOLEAN : Record(fixed, rollback, rolledBack)
  \/ \E r \in Refreshers : Observe(r) \/ Snapshot(r) \/ Evaluate(r)
  \/ \E id \in DOMAIN alerts : ResolveAlert(id)

ObservabilitySpec == ObservabilityInit /\ [][ObservabilityNext]_observabilityVars

-----------------------------------------------------------------------------
(* Whatever refreshes overlap and whenever the engine stops or the process *)
(* ends, an alert that was raised is still there, to be looked at or       *)
(* resolved, unless a save or a load of the file went wrong.               *)
AlertsAreKept == phase # "new" /\ ~losses.badFile => raised \subseteq DOMAIN alerts

(* The two judges of a refresh read figures of different moments, and yet  *)
(* whatever AlertManager alerts of, the mesh alerts of in the same refresh *)
(* (in its count of violations when it has no rule for it): all but failed *)
(* rollbacks, of which it knows nothing.                                   *)
AlertsAreSeconded == alone \subseteq {"rollback_failure"}

(* Once the rules were evaluated on rollbacks that failed, there has been  *)
(* an alert for it.                                                        *)
FailedRollbacksAlert ==
  judged < 95 => \E id \in raised : id.rule = "rollback_failure"
=============================================================================
