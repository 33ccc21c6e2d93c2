--------------------------- MODULE RolloutManager ---------------------------
(***************************************************************************)
(* RolloutManager of modules/runtime-learning-engine/rollout-manager.ts:   *)
(* one rollout in memory and in rollouts.json, its metrics in              *)
(* rollout-metrics.json.  Every change rewrites both files in place, one   *)
(* after the other; what goes wrong there is logged and forgotten.  No     *)
(* method awaits before its last statement: each is one step.              *)
(***************************************************************************)
EXTENDS Naturals

CONSTANTS StageDuration,  \* stageDurationMs
          MaxTime,        \* bound: Date.now()
          MaxRollouts,    \* bound: rollouts started
          MaxBadWrites,   \* bound: saves that fail or are cut off, loads that fail
          MaxRestarts     \* bound: processes after the first

ASSUME ManagerAssumption ==
  {StageDuration, MaxTime, MaxRollouts, MaxBadWrites, MaxRestarts} \subseteq Nat

VARIABLES now, currentRollout,
          rollouts, metrics,  \* the files
          managed  \* counts of the bounded events, whether rollouts.json was ever torn
                   \* or not read, and the rollouts whose rollback reached it

managerVars == <<now, currentRollout, rollouts, metrics, managed>>

NoRollout == [id |-> 0, stage |-> "none", traffic |-> 0, start |-> 0,
              healthy |-> TRUE, status |-> "none"]
Torn == [NoRollout EXCEPT !.status = "torn"]

ManagerInit ==
  /\ now = 0 /\ currentRollout = NoRollout
  /\ rollouts = NoRollout /\ metrics = "absent"
  /\ managed = [started |-> 0, badWrites |-> 0, restarts |-> 0,
                forgot |-> FALSE, rolledBack |-> {}]

(* saveRolloutData: a write that fails, or is cut off by the death of the  *)
(* process, leaves its file as it was or torn; the second is then skipped. *)
SaveRolloutData(r, m) ==
  LET written == [m EXCEPT !.rolledBack =
                    @ \cup IF r.status = "rolled_back" THEN {r.id} ELSE {}]
      bad(c) == [c EXCEPT !.badWrites = @ + 1]
  IN \/ rollouts' = r /\ metrics' = "sound" /\ managed' = written
     \/ /\ m.badWrites < MaxBadWrites
        /\ \/ UNCHANGED <<rollouts, metrics>> /\ managed' = bad(m)
           \/ rollouts' = Torn /\ UNCHANGED metrics
              /\ managed' = [bad(m) EXCEPT !.forgot = TRUE]
           \/ rollouts' = r /\ metrics' \in {metrics, "torn"} /\ managed' = bad(written)

Change(r) == currentRollout' = r /\ SaveRolloutData(r, managed) /\ UNCHANGED now

(* startCanaryRollout asks nobody: a rollout in progress is replaced.      *)
StartCanaryRollout ==
  /\ managed.started < MaxRollouts
  /\ LET r == [id |-> managed.started + 1, stage |-> "canary", traffic |-> 5,
               start |-> now, healthy |-> TRUE, status |-> "in_progress"]
     IN /\ currentRollout' = r
        /\ SaveRolloutData(r, [managed EXCEPT !.started = @ + 1])
  /\ UNCHANGED now

(* recordMetric takes the newest rates, whatever the rollout's status.     *)
RecordMetric(healthy) ==
  /\ currentRollout # NoRollout
  /\ Change([currentRollout EXCEPT !.healthy = healthy])

RolledBack(r) == [r EXCEPT !.stage = "rollback", !.status = "rolled_back", !.traffic = 0]

Rollback == currentRollout # NoRollout /\ Change(RolledBack(currentRollout))

NextStage(r) ==
  IF r.traffic < 25
  THEN [r EXCEPT !.stage = "beta", !.traffic = 25, !.start = now]
  ELSE IF r.traffic < 50
  THEN [r EXCEPT !.traffic = 50, !.start = now]
  ELSE [r EXCEPT !.stage = "stable", !.traffic = 100, !.status = "completed"]

(* Faulty form: the status is not looked at.                               *)
ProgressRolloutAlways ==
  /\ currentRollout # NoRollout /\ now - currentRollout.start >= StageDuration
  /\ Change(IF currentRollout.healthy THEN NextStage(currentRollout)
                                      ELSE RolledBack(currentRollout))

(* progressRollout; before the stage has lasted it changes nothing.        *)
ProgressRollout ==
  /\ currentRollout.status = "in_progress"
  /\ now - currentRollout.start >= StageDuration
  /\ Change(IF currentRollout.healthy THEN NextStage(currentRollout)
                                      ELSE RolledBack(currentRollout))

(* A new process reads the rollouts first: torn metrics do not cost the    *)
(* rollout, torn rollouts cost both, and so does a read that fails, though *)
(* the file stays.                                                         *)
LoadRolloutData ==
  /\ managed.restarts < MaxRestarts
  /\ \/ /\ managed' = [managed EXCEPT !.restarts = @ + 1]
        /\ currentRollout' = IF rollouts = Torn THEN NoRollout ELSE rollouts
     \/ /\ managed.badWrites < MaxBadWrites
        /\ managed' = [managed EXCEPT !.restarts = @ + 1, !.badWrites = @ + 1, !.forgot = TRUE]
        /\ currentRollout' = NoRollout
  /\ UNCHANGED <<now, rollouts, metrics>>

TimePasses == now < MaxTime /\ now' = now + 1
              /\ UNCHANGED <<currentRollout, rollouts, metrics, managed>>

ManagerNext ==
  \/ StartCanaryRollout \/ ProgressRollout \/ Rollback \/ LoadRolloutData \/ TimePasses
  \/ \E healthy \in BOOLEAN : RecordMetric(healthy)

ManagerSpec == ManagerInit /\ [][ManagerNext]_managerVars

CanDeployVersion == currentRollout.status \notin {"in_progress", "rolled_back"}

-----------------------------------------------------------------------------
(* A rollback that reached its file is remembered by every later process:  *)
(* its version gets no traffic again and bars the way until the next start; *)
(* only a file that is torn, or cannot be read, makes the manager forget.  *)
RollbackIsRemembered ==
  \A id \in managed.rolledBack :
    /\ currentRollout.id = id =>
         currentRollout.status = "rolled_back" /\ currentRollout.traffic = 0 /\ ~CanDeployVersion
    /\ currentRollout.id < id => currentRollout = NoRollout /\ managed.forgot
=============================================================================
