-------------------------- MODULE OperationsProofs --------------------------
(***************************************************************************)
(* What surrounds the engine, each part by itself, whatever its bounds.    *)
(***************************************************************************)
EXTENDS RolloutManager, CanaryDeployment, CrashAgent, DumpAgent, Versioning, Dashboard,
        DumpStore, DataLemmas

(***************************************************************************)
(* Rollouts: a rollback that reached rollouts.json is remembered.          *)
(* The argument: the file only ever holds the rollout in memory, whose ids *)
(* go up; so neither memory nor file goes back behind a rollback that was  *)
(* written, and neither has its version but as rolled back.                *)
(***************************************************************************)
RolloutRecords ==
  [id : Nat, stage : {"none", "canary", "beta", "stable", "rollback"}, traffic : Nat,
   start : Nat, healthy : BOOLEAN,
   status : {"none", "torn", "in_progress", "completed", "rolled_back"}]

ManagerTypeOK ==
  /\ now \in Nat
  /\ currentRollout \in RolloutRecords /\ rollouts \in RolloutRecords
  /\ metrics \in {"absent", "sound", "torn"}
  /\ managed \in [started : Nat, badWrites : Nat, restarts : Nat, forgot : BOOLEAN,
                  rolledBack : SUBSET Nat]

(* A rollout r that was started, as memory and file may have it.           *)
Started(r) ==
  /\ r.id \in 1 .. managed.started
  /\ r.status = "rolled_back" => r.traffic = 0
  /\ r.status \in {"in_progress", "completed", "rolled_back"}

(* r comes after the rollback of the rollout id, or is its outcome.        *)
Settled(r, id) == r.id >= id /\ (r.id = id => r.status = "rolled_back")

(* Memory and file have rollouts that were started, if any; the rollbacks  *)
(* written are of such, too.                                               *)
RolloutsWereStarted ==
  /\ \A id \in managed.rolledBack : id \in 1 .. managed.started
  /\ currentRollout = NoRollout \/ Started(currentRollout)
  /\ rollouts \in {NoRollout, Torn} \/ Started(rollouts)
  /\ rollouts = Torn => managed.forgot

RollbacksSettle ==
  \A id \in managed.rolledBack :
    /\ IF currentRollout = NoRollout THEN managed.forgot ELSE Settled(currentRollout, id)
    /\ rollouts = Torn \/ Settled(rollouts, id)

ManagerInv == ManagerTypeOK /\ RolloutsWereStarted /\ RollbacksSettle

LEMMA ManagerStart == ManagerInit => ManagerInv
BY DEF ManagerInit, ManagerInv, ManagerTypeOK, RolloutsWereStarted, RollbacksSettle,
   RolloutRecords, NoRollout, Torn

(* Every change replaces the rollout in memory by one that was started and *)
(* is settled, and may write it: whatever becomes of the files, the        *)
(* invariant stays.                                                        *)
LEMMA SaveKeeps ==
  ASSUME ManagerInv, NEW r \in RolloutRecords, NEW n \in {managed.started, managed.started + 1},
         r.id \in 1 .. n, r.status = "rolled_back" => r.traffic = 0,
         r.status \in {"in_progress", "completed", "rolled_back"},
         \A id \in managed.rolledBack : Settled(r, id),
         currentRollout' = r, now' = now, SaveRolloutData(r, [managed EXCEPT !.started = n])
  PROVE  ManagerInv'
<1> USE DEF ManagerInv
<1> DEFINE ids == managed.rolledBack \cup (IF r.status = "rolled_back" THEN {r.id} ELSE {})
<1>1. /\ managed.started \in Nat /\ n \in Nat /\ managed.started <= n
      /\ managed.rolledBack \subseteq Nat /\ managed.forgot \in BOOLEAN /\ managed.badWrites \in Nat
      /\ managed.restarts \in Nat /\ r.id \in Nat
      /\ \A id \in managed.rolledBack : id \in 1 .. n
  BY DEF ManagerTypeOK, RolloutsWereStarted
<1>2. /\ rollouts' \in {r, rollouts, Torn} /\ metrics' \in {"sound", "torn", metrics}
      /\ managed' \in [started : {n}, badWrites : Nat, restarts : Nat,
                       forgot : BOOLEAN, rolledBack : {managed.rolledBack, ids}]
      /\ managed.forgot => managed'.forgot
      /\ rollouts' = Torn => rollouts = Torn \/ managed'.forgot \/ r = Torn
      /\ managed'.rolledBack = managed.rolledBack \/ rollouts' = r
  <2> DEFINE m == [managed EXCEPT !.started = n]
             written == [m EXCEPT !.rolledBack =
                           @ \cup IF r.status = "rolled_back" THEN {r.id} ELSE {}]
  <2>1. managed = [started |-> managed.started, badWrites |-> managed.badWrites,
                   restarts |-> managed.restarts, forgot |-> managed.forgot,
                   rolledBack |-> managed.rolledBack]
    BY DEF ManagerTypeOK
  <2>2. m = [started |-> n, badWrites |-> managed.badWrites, restarts |-> managed.restarts,
             forgot |-> managed.forgot, rolledBack |-> managed.rolledBack]
    BY <2>1
  <2>3. written = [started |-> n, badWrites |-> managed.badWrites,
                   restarts |-> managed.restarts, forgot |-> managed.forgot, rolledBack |-> ids]
    <3>1. m.rolledBack = managed.rolledBack
      BY <2>2
    <3>2. written = [m EXCEPT !.rolledBack = ids]
      BY <3>1
    <3> HIDE DEF m, written, ids
    <3> QED BY <3>2, <2>2
  <2>4. \/ /\ rollouts' = r /\ metrics' = "sound" /\ managed' = written
        \/ /\ UNCHANGED <<rollouts, metrics>>
           /\ managed' = [m EXCEPT !.badWrites = @ + 1]
        \/ /\ rollouts' = Torn /\ UNCHANGED metrics
           /\ managed' = [[m EXCEPT !.badWrites = @ + 1] EXCEPT !.forgot = TRUE]
        \/ /\ rollouts' = r /\ metrics' \in {metrics, "torn"}
           /\ managed' = [written EXCEPT !.badWrites = @ + 1]
    BY DEF SaveRolloutData
  <2> HIDE DEF m, written, ids
  <2>5. CASE rollouts' = r /\ metrics' = "sound" /\ managed' = written
    BY <2>5, <2>3, <1>1
  <2>6. CASE UNCHANGED <<rollouts, metrics>> /\ managed' = [m EXCEPT !.badWrites = @ + 1]
    <3>1. managed' = [started |-> n, badWrites |-> managed.badWrites + 1,
                      restarts |-> managed.restarts, forgot |-> managed.forgot,
                      rolledBack |-> managed.rolledBack]
      BY <2>6, <2>2
    <3>2. managed.badWrites + 1 \in Nat
      BY <1>1
    <3>3. managed' \in [started : {n}, badWrites : Nat, restarts : Nat,
                        forgot : BOOLEAN, rolledBack : {managed.rolledBack, ids}]
      BY <3>1, <3>2, <1>1
    <3>4. managed'.forgot = managed.forgot /\ managed'.rolledBack = managed.rolledBack
      BY <3>1
    <3> QED BY <2>6, <3>3, <3>4
  <2>7. CASE rollouts' = Torn /\ UNCHANGED metrics
             /\ managed' = [[m EXCEPT !.badWrites = @ + 1] EXCEPT !.forgot = TRUE]
    <3>1. managed' = [started |-> n, badWrites |-> managed.badWrites + 1,
                      restarts |-> managed.restarts, forgot |-> TRUE,
                      rolledBack |-> managed.rolledBack]
      BY <2>7, <2>2
    <3>2. managed.badWrites + 1 \in Nat
      BY <1>1
    <3>3. managed' \in [started : {n}, badWrites : Nat, restarts : Nat,
                        forgot : BOOLEAN, rolledBack : {managed.rolledBack, ids}]
      BY <3>1, <3>2, <1>1
    <3>4. managed'.forgot = TRUE /\ managed'.rolledBack = managed.rolledBack
      BY <3>1
    <3> QED BY <2>7, <3>3, <3>4
  <2>8. CASE rollouts' = r /\ metrics' \in {metrics, "torn"}
             /\ managed' = [written EXCEPT !.badWrites = @ + 1]
    <3>1. managed' = [started |-> n, badWrites |-> managed.badWrites + 1,
                      restarts |-> managed.restarts, forgot |-> managed.forgot, rolledBack |-> ids]
      BY <2>8, <2>3
    <3>2. managed.badWrites + 1 \in Nat
      BY <1>1
    <3>3. managed' \in [started : {n}, badWrites : Nat, restarts : Nat,
                        forgot : BOOLEAN, rolledBack : {managed.rolledBack, ids}]
      BY <3>1, <3>2, <1>1
    <3>4. managed'.forgot = managed.forgot /\ managed'.rolledBack = ids
      BY <3>1
    <3> QED BY <2>8, <3>3, <3>4
  <2> QED BY <2>4, <2>5, <2>6, <2>7, <2>8
<1>3. r # NoRollout /\ r # Torn
  BY DEF NoRollout, Torn
<1>4. ManagerTypeOK'
  <2>1. Torn \in RolloutRecords
    BY DEF Torn, NoRollout, RolloutRecords
  <2>2. ids \subseteq Nat
    BY <1>1
  <2> HIDE DEF ids
  <2> QED BY <1>1, <1>2, <2>1, <2>2 DEF ManagerTypeOK
<1>5. managed'.started = n /\ managed'.rolledBack \in {managed.rolledBack, ids}
  BY <1>2
<1>6. \A q : Started(q) => Started(q)'
  BY <1>1, <1>5 DEF Started
<1>7. RolloutsWereStarted'
  <2>1. Started(r)'
    BY <1>1, <1>5 DEF Started
  <2>2. \A id \in managed'.rolledBack : id \in 1 .. managed'.started
    BY <1>1, <1>5
  <2> HIDE DEF ids
  <2>3. rollouts' \in {NoRollout, Torn} \/ Started(rollouts)'
    BY <1>2, <1>3, <1>6, <2>1 DEF RolloutsWereStarted
  <2>4. rollouts' = Torn => managed'.forgot
    BY <1>2, <1>3, <1>6, <2>1 DEF RolloutsWereStarted
  <2> QED BY <2>1, <2>2, <2>3, <2>4 DEF RolloutsWereStarted
<1>8. RollbacksSettle'
  <2> SUFFICES ASSUME NEW id \in managed'.rolledBack
               PROVE  Settled(r, id) /\ (rollouts' = Torn \/ Settled(rollouts', id))
    BY <1>3 DEF RollbacksSettle, Settled
  <2>1. CASE id \in managed.rolledBack
    BY <2>1, <1>2 DEF RollbacksSettle
  <2>2. CASE id \notin managed.rolledBack
    <3>1. id = r.id /\ r.status = "rolled_back" /\ rollouts' = r
      BY <2>2, <1>2, <1>5
    <3> QED BY <3>1, <1>1 DEF Settled
  <2> QED BY <2>1, <2>2
<1> QED BY <1>4, <1>7, <1>8

LEMMA ManagerStep == ManagerInv /\ [ManagerNext]_managerVars => ManagerInv'
<1> SUFFICES ASSUME ManagerInv, [ManagerNext]_managerVars PROVE ManagerInv'
  OBVIOUS
<1> USE DEF ManagerInv
<1>0. /\ managed.started \in Nat /\ managed.rolledBack \subseteq Nat /\ now \in Nat
      /\ \A id \in managed.rolledBack : id \in 1 .. managed.started
      /\ currentRollout \in RolloutRecords
      /\ managed = [managed EXCEPT !.started = managed.started]
  BY DEF ManagerTypeOK, RolloutsWereStarted
(* A change to a rollout q of the same id, that stays rolled back if it is. *)
<1>1. ASSUME NEW q \in RolloutRecords, currentRollout # NoRollout, q.id = currentRollout.id,
             q.status \in {"in_progress", "completed", "rolled_back"},
             currentRollout.status = "rolled_back" => q.status = "rolled_back",
             q.status = "rolled_back" => q.traffic = 0, Change(q)
      PROVE  ManagerInv'
  <2>1. q.id \in 1 .. managed.started /\ \A id \in managed.rolledBack : Settled(q, id)
    BY <1>1 DEF RolloutsWereStarted, Started, RollbacksSettle, Settled
  <2>2. /\ currentRollout' = q /\ now' = now
        /\ SaveRolloutData(q, [managed EXCEPT !.started = managed.started])
    BY <1>1, <1>0 DEF Change
  <2> HIDE DEF ManagerInv
  <2> QED BY <1>1, <2>1, <2>2, SaveKeeps
<1>2. RolledBack(currentRollout) \in RolloutRecords
      /\ RolledBack(currentRollout).id = currentRollout.id
      /\ RolledBack(currentRollout).status = "rolled_back"
      /\ RolledBack(currentRollout).traffic = 0
  BY <1>0 DEF RolledBack, RolloutRecords
<1>3. CASE StartCanaryRollout
  <2> DEFINE r == [id |-> managed.started + 1, stage |-> "canary", traffic |-> 5,
                   start |-> now, healthy |-> TRUE, status |-> "in_progress"]
             n == managed.started + 1
  <2>1. /\ currentRollout' = r /\ now' = now
        /\ SaveRolloutData(r, [managed EXCEPT !.started = n])
    BY <1>3 DEF StartCanaryRollout
  <2>2. r \in RolloutRecords /\ r.id = n /\ r.status = "in_progress" /\ n \in 1 .. n
    BY <1>0 DEF RolloutRecords
  <2>3. \A id \in managed.rolledBack : Settled(r, id)
    BY <1>0 DEF Settled
  <2> HIDE DEF r, ManagerInv
  <2> QED BY <2>1, <2>2, <2>3, SaveKeeps
<1>4. CASE Rollback
  BY <1>4, <1>1, <1>2 DEF Rollback
<1>5. ASSUME NEW healthy \in BOOLEAN, RecordMetric(healthy) PROVE ManagerInv'
  <2> DEFINE q == [currentRollout EXCEPT !.healthy = healthy]
  <2>1. currentRollout # NoRollout /\ Change(q)
    BY <1>5 DEF RecordMetric
  <2>2. q \in RolloutRecords /\ q.id = currentRollout.id /\ q.status = currentRollout.status
        /\ q.traffic = currentRollout.traffic
    BY <1>0 DEF RolloutRecords
  <2>3. /\ q.status \in {"in_progress", "completed", "rolled_back"}
        /\ q.status = "rolled_back" => q.traffic = 0
    BY <2>1, <2>2 DEF RolloutsWereStarted, Started
  <2> HIDE DEF q, ManagerInv
  <2> QED BY <2>1, <2>2, <2>3, <1>1
<1>6. CASE ProgressRollout
  <2>1. currentRollout.status = "in_progress" /\ currentRollout # NoRollout
    BY <1>6 DEF ProgressRollout, NoRollout
  <2>2. CASE currentRollout.healthy
    <3> DEFINE q == NextStage(currentRollout)
    <3>1. Change(q)
      BY <2>2, <1>6 DEF ProgressRollout
    <3>2. /\ q \in RolloutRecords /\ q.id = currentRollout.id
          /\ q.status \in {"in_progress", "completed"}
      BY <1>0, <2>1 DEF NextStage, RolloutRecords
    <3> HIDE DEF q, ManagerInv
    <3> QED BY <2>1, <3>1, <3>2, <1>1
  <2>3. CASE ~currentRollout.healthy
    <3>1. Change(RolledBack(currentRollout))
      BY <2>3, <1>6 DEF ProgressRollout
    <3> HIDE DEF ManagerInv
    <3> QED BY <2>1, <3>1, <1>2, <1>1
  <2> QED BY <2>2, <2>3
<1>7. CASE LoadRolloutData
  <2>1. /\ now' = now /\ rollouts' = rollouts /\ metrics' = metrics
        /\ \/ /\ managed' = [managed EXCEPT !.restarts = @ + 1]
              /\ currentRollout' = IF rollouts = Torn THEN NoRollout ELSE rollouts
           \/ /\ managed' = [managed EXCEPT !.restarts = @ + 1, !.badWrites = @ + 1,
                                            !.forgot = TRUE]
              /\ currentRollout' = NoRollout
    BY <1>7 DEF LoadRolloutData
  <2>2. /\ managed'.started = managed.started /\ managed'.rolledBack = managed.rolledBack
        /\ managed.forgot => managed'.forgot
        /\ managed' \in [started : Nat, badWrites : Nat, restarts : Nat, forgot : BOOLEAN,
                         rolledBack : SUBSET Nat]
        /\ currentRollout' = rollouts \/ managed'.forgot
    <3>1. managed \in [started : Nat, badWrites : Nat, restarts : Nat, forgot : BOOLEAN,
                       rolledBack : SUBSET Nat]
      BY DEF ManagerTypeOK
    <3>2. CASE /\ managed' = [managed EXCEPT !.restarts = @ + 1]
               /\ currentRollout' = IF rollouts = Torn THEN NoRollout ELSE rollouts
      <4>1. /\ managed'.started = managed.started /\ managed'.rolledBack = managed.rolledBack
            /\ managed'.forgot = managed.forgot
            /\ managed' \in [started : Nat, badWrites : Nat, restarts : Nat, forgot : BOOLEAN,
                             rolledBack : SUBSET Nat]
        BY <3>1, <3>2
      <4>2. rollouts = Torn => managed.forgot
        BY DEF RolloutsWereStarted
      <4> QED BY <3>2, <4>1, <4>2, Zenon
    <3>3. CASE /\ managed' = [managed EXCEPT !.restarts = @ + 1, !.badWrites = @ + 1,
                                             !.forgot = TRUE]
               /\ currentRollout' = NoRollout
      <4>1. /\ managed'.started = managed.started /\ managed'.rolledBack = managed.rolledBack
            /\ managed'.forgot
            /\ managed' \in [started : Nat, badWrites : Nat, restarts : Nat, forgot : BOOLEAN,
                             rolledBack : SUBSET Nat]
        <5> DEFINE R == [started : Nat, badWrites : Nat, restarts : Nat, forgot : BOOLEAN,
                         rolledBack : SUBSET Nat]
        <5>1. ASSUME NEW m \in R, NEW i \in Nat, NEW j \in Nat
              PROVE  /\ [m EXCEPT !.restarts = i, !.badWrites = j, !.forgot = TRUE] \in R
                     /\ [m EXCEPT !.restarts = i, !.badWrites = j, !.forgot = TRUE].started = m.started
                     /\ [m EXCEPT !.restarts = i, !.badWrites = j, !.forgot = TRUE].rolledBack
                          = m.rolledBack
                     /\ [m EXCEPT !.restarts = i, !.badWrites = j, !.forgot = TRUE].forgot
          OBVIOUS
        <5>2. /\ managed.restarts + 1 \in Nat /\ managed.badWrites + 1 \in Nat
              /\ managed' = [managed EXCEPT !.restarts = managed.restarts + 1,
                                           !.badWrites = managed.badWrites + 1, !.forgot = TRUE]
          BY <3>1, <3>3
        <5> HIDE DEF R
        <5>3. managed \in R
          BY <3>1 DEF R
        <5> QED BY <5>1, <5>2, <5>3 DEF R
      <4> QED BY <4>1
    <3> QED BY <2>1, <3>2, <3>3
  <2>3. \/ currentRollout' = NoRollout
        \/ currentRollout' = rollouts /\ rollouts # Torn
    BY <2>1
  <2>4. ManagerTypeOK'
    <3>1. NoRollout \in RolloutRecords
      BY DEF NoRollout, RolloutRecords
    <3> QED BY <2>1, <2>2, <2>3, <3>1 DEF ManagerTypeOK
  <2>5. RolloutsWereStarted'
    BY <2>1, <2>2, <2>3 DEF RolloutsWereStarted, Started
  <2>6. RollbacksSettle'
    <3> SUFFICES ASSUME NEW id \in managed.rolledBack
                 PROVE  /\ IF currentRollout' = NoRollout THEN managed'.forgot
                           ELSE Settled(currentRollout', id)
                        /\ rollouts = Torn \/ Settled(rollouts, id)
      BY <2>1, <2>2 DEF RollbacksSettle, Settled
    <3>1. /\ rollouts = Torn \/ Settled(rollouts, id)
          /\ id \in Nat /\ id >= 1
      BY <1>0 DEF RollbacksSettle
    <3>2. ~Settled(NoRollout, id)
      BY <3>1 DEF Settled, NoRollout
    <3>3. CASE currentRollout' = NoRollout
      <4>1. managed'.forgot
        BY <2>1, <2>2, <3>1, <3>2, <3>3, <1>0 DEF RolloutsWereStarted
      <4> QED BY <3>1, <3>3, <4>1
    <3>4. CASE currentRollout' # NoRollout
      <4>1. currentRollout' = rollouts /\ Settled(rollouts, id)
        BY <2>3, <3>1, <3>4
      <4> QED BY <3>1, <3>4, <4>1
    <3> QED BY <3>3, <3>4
  <2> QED BY <2>4, <2>5, <2>6
<1>8. CASE TimePasses \/ UNCHANGED managerVars
  <2>1. /\ now' \in Nat
        /\ UNCHANGED <<currentRollout, rollouts, metrics, managed>>
    BY <1>8, <1>0 DEF TimePasses, managerVars
  <2> QED BY <2>1 DEF ManagerTypeOK, RolloutsWereStarted, RollbacksSettle, Settled, Started
<1> QED BY <1>3, <1>4, <1>5, <1>6, <1>7, <1>8 DEF ManagerNext

(* A rollback that reached its file bars its version from traffic in every *)
(* later process, unless the file was torn or could not be read.           *)
THEOREM RollbacksAreNotForgotten == ManagerSpec => []RollbackIsRemembered
<1>1. ManagerInv => RollbackIsRemembered
  <2> SUFFICES ASSUME ManagerInv, NEW id \in managed.rolledBack
               PROVE  /\ currentRollout.id = id =>
                           /\ currentRollout.status = "rolled_back" /\ currentRollout.traffic = 0
                           /\ ~CanDeployVersion
                      /\ currentRollout.id < id => currentRollout = NoRollout /\ managed.forgot
    BY DEF RollbackIsRemembered
  <2>1. id \in Nat /\ id >= 1 /\ currentRollout.id \in Nat
    BY DEF ManagerInv, RolloutsWereStarted, ManagerTypeOK, RolloutRecords
  <2>2. CASE currentRollout = NoRollout
    BY <2>1, <2>2 DEF ManagerInv, RollbacksSettle, NoRollout
  <2>3. CASE currentRollout # NoRollout
    <3>1. Settled(currentRollout, id) /\ Started(currentRollout)
      BY <2>3 DEF ManagerInv, RollbacksSettle, RolloutsWereStarted
    <3> QED BY <3>1, <2>1 DEF Settled, Started, CanDeployVersion
  <2> QED BY <2>2, <2>3
<1> QED BY <1>1, ManagerStart, ManagerStep, PTL DEF ManagerSpec

(***************************************************************************)
(* Rollback automation: overlapping rollbacks leave a complete history.    *)
(* The property is inductive once what it speaks of has its type: a        *)
(* rollback ends once, and its end, its event and the statistics are one   *)
(* step.                                                                   *)
(***************************************************************************)
Histories == [events : Seq(Nat), checks : Nat, detected : Nat,
              executed : Nat, succeeded : Nat, failed : Nat]

AutomationTypeOK ==
  /\ executing \in Seq(0 .. 3)
  /\ history \in Histories
  /\ writes \in [bad : Nat, lastBad : BOOLEAN]

Over == {r \in DOMAIN executing : executing[r] = 3}

AutomationInv == AutomationTypeOK /\ HistoryIsComplete

LEMMA OverIsFinite == AutomationTypeOK => IsFiniteSet(Over) /\ DOMAIN executing = 1 .. Len(executing)
<1> SUFFICES ASSUME AutomationTypeOK PROVE IsFiniteSet(Over) /\ DOMAIN executing = 1 .. Len(executing)
  OBVIOUS
<1>1. Len(executing) \in Nat /\ DOMAIN executing = 1 .. Len(executing)
  BY DEF AutomationTypeOK
<1>2. IsFiniteSet(1 .. Len(executing))
  BY <1>1, FS_Interval
<1> QED BY <1>1, <1>2, FS_Subset DEF Over

LEMMA AutomationStart == AutomationInit => AutomationInv
<1> SUFFICES ASSUME AutomationInit PROVE AutomationInv
  OBVIOUS
<1>1. AutomationTypeOK
  BY DEF AutomationInit, AutomationTypeOK, NewHistory, Histories
<1>2. Over = {} /\ Cardinality({}) = 0
  BY FS_EmptySet DEF AutomationInit, Over
<1>3. /\ history.events = << >> /\ history.executed = 0 /\ history.succeeded = 0
      /\ history.failed = 0 /\ historyFile = << >>
  BY DEF AutomationInit, NewHistory
<1>4. ToSet(<< >>) = {}
  <2> DEFINE empty == << >>
  <2>1. DOMAIN empty = {}
    OBVIOUS
  <2> HIDE DEF empty
  <2>2. \A x : x \notin ToSet(empty)
    BY <2>1, Zenon DEF ToSet
  <2>3. ToSet(empty) = {}
    BY <2>2, Zenon
  <2> QED BY <2>3, Zenon DEF empty
<1>5. ToSet(history.events) = Over
  BY <1>2, <1>3, <1>4, Zenon
<1>6. Len(history.events) = 0
  BY <1>3
<1>7. Cardinality(Over) = 0
  BY <1>2, Zenon
<1>8. HistoryIsComplete
  <2> HIDE DEF Over
  <2>1. /\ Len(history.events) = Cardinality(Over) /\ history.executed = Cardinality(Over)
        /\ history.succeeded + history.failed = history.executed
        /\ (writes.lastBad \/ historyFile = history.events)
    BY <1>3, <1>6, <1>7
  <2> QED BY <1>5, <2>1, Zenon DEF HistoryIsComplete, Over
<1> QED BY <1>1, <1>8 DEF AutomationInv

(* What leaves the events and the counts of rollbacks alone.               *)
LEMMA HistoryStays ==
  ASSUME AutomationInv, AutomationTypeOK', Over' = Over, UNCHANGED <<historyFile, writes>>,
         history'.events = history.events, history'.executed = history.executed,
         history'.succeeded = history.succeeded, history'.failed = history.failed
  PROVE  AutomationInv'
BY DEF AutomationInv, HistoryIsComplete, Over

LEMMA AppendToSet ==
  ASSUME NEW S, NEW s \in Seq(S), NEW x \in S
  PROVE  /\ ToSet(Append(s, x)) = ToSet(s) \cup {x}
         /\ Len(Append(s, x)) = Len(s) + 1 /\ Append(s, x) \in Seq(S)
<1>1. /\ Len(Append(s, x)) = Len(s) + 1 /\ Append(s, x) \in Seq(S) /\ Len(s) \in Nat
      /\ DOMAIN s = 1 .. Len(s) /\ DOMAIN Append(s, x) = 1 .. Len(s) + 1
      /\ \A i \in 1 .. Len(s) : Append(s, x)[i] = s[i]
      /\ Append(s, x)[Len(s) + 1] = x
  OBVIOUS
<1>2. 1 .. Len(s) + 1 = (1 .. Len(s)) \cup {Len(s) + 1}
  BY <1>1
<1>3. ToSet(Append(s, x)) = {Append(s, x)[i] : i \in (1 .. Len(s)) \cup {Len(s) + 1}}
  BY <1>1, <1>2 DEF ToSet
<1>4. ToSet(s) = {s[i] : i \in 1 .. Len(s)}
  BY <1>1 DEF ToSet
<1> QED BY <1>1, <1>3, <1>4

LEMMA FinishKeeps ==
  ASSUME AutomationInv, NEW r \in DOMAIN executing, NEW succeeds \in {0, 1},
         NEW h \in Histories,
         h.events = Append(history.events, r), h.executed = history.executed + 1,
         h.succeeded = history.succeeded + succeeds, h.failed = history.failed + 1 - succeeds,
         Finish(r, h)
  PROVE  AutomationInv'
<1> USE DEF AutomationInv
<1>1. /\ executing \in Seq(0 .. 3) /\ r \in Nat /\ executing[r] \in 0 .. 3
      /\ history \in Histories /\ writes \in [bad : Nat, lastBad : BOOLEAN]
  BY DEF AutomationTypeOK
<1>2. /\ executing[r] # 3 /\ executing' = [executing EXCEPT ![r] = 3] /\ history' = h
      /\ writes'.lastBad \/ historyFile' = h.events
      /\ writes' \in [bad : Nat, lastBad : BOOLEAN]
  <2>1. /\ executing[r] < 3 /\ executing' = [executing EXCEPT ![r] = 3] /\ history' = h
        /\ \/ historyFile' = h.events /\ writes' = [writes EXCEPT !.lastBad = FALSE]
           \/ writes' = [bad |-> writes.bad + 1, lastBad |-> TRUE]
    BY DEF Finish
  <2>2. executing[r] # 3
    BY <2>1, <1>1
  <2>3. CASE historyFile' = h.events /\ writes' = [writes EXCEPT !.lastBad = FALSE]
    BY <2>1, <2>2, <2>3, <1>1
  <2>4. CASE writes' = [bad |-> writes.bad + 1, lastBad |-> TRUE]
    <3>1. writes.bad + 1 \in Nat
      BY <1>1
    <3> QED BY <2>1, <2>2, <2>4, <3>1
  <2> QED BY <2>1, <2>3, <2>4
<1>3. /\ history.events \in Seq(Nat) /\ history.executed \in Nat
      /\ history.succeeded \in Nat /\ history.failed \in Nat
  BY <1>1 DEF Histories
<1>4. AutomationTypeOK'
  <2>1. [executing EXCEPT ![r] = 3] \in Seq(0 .. 3)
    BY <1>1
  <2> QED BY <2>1, <1>2 DEF AutomationTypeOK
<1>5. Over' = Over \cup {r} /\ r \notin Over /\ IsFiniteSet(Over)
  BY <1>1, <1>2, OverIsFinite DEF Over
<1>6. Cardinality(Over') = Cardinality(Over) + 1
  BY <1>5, FS_AddElement
<1>7. /\ ToSet(Append(history.events, r)) = ToSet(history.events) \cup {r}
      /\ Len(Append(history.events, r)) = Len(history.events) + 1
  <2>1. r \in Nat /\ history.events \in Seq(Nat)
    BY <1>1, <1>3
  <2> HIDE DEF AutomationInv
  <2> QED BY <2>1, AppendToSet
<1>8. ToSet(h.events) = ToSet(history.events) \cup {r} /\ Len(h.events) = Len(history.events) + 1
  BY <1>7
<1>9. /\ ToSet(history.events) = Over /\ Len(history.events) = Cardinality(Over)
      /\ history.executed = Cardinality(Over)
      /\ history.succeeded + history.failed = history.executed
  BY DEF HistoryIsComplete, Over
<1>10. h.succeeded + h.failed = h.executed
  BY <1>3, <1>9
<1>11. /\ ToSet(history'.events) = Over' /\ Len(history'.events) = Cardinality(Over')
       /\ history'.executed = Cardinality(Over')
       /\ history'.succeeded + history'.failed = history'.executed
       /\ writes'.lastBad \/ historyFile' = history'.events
  BY <1>2, <1>5, <1>6, <1>7, <1>8, <1>9, <1>10
<1> QED BY <1>4, <1>11 DEF HistoryIsComplete, Over

LEMMA AutomationStep == AutomationInv /\ [AutomationNext]_automationVars => AutomationInv'
<1> SUFFICES ASSUME AutomationInv, [AutomationNext]_automationVars PROVE AutomationInv'
  OBVIOUS
<1>0. /\ executing \in Seq(0 .. 3) /\ DOMAIN executing = 1 .. Len(executing)
      /\ history \in Histories
      /\ AutomationTypeOK
  BY DEF AutomationInv, AutomationTypeOK
<1>1. CASE StartMonitoring \/ Check \/ ProviderFails \/ UNCHANGED automationVars
  <2>1. UNCHANGED <<executing, history, historyFile, writes>>
    BY <1>1 DEF StartMonitoring, Check, ProviderFails, Answered, automationVars
  <2>2. AutomationTypeOK' /\ Over' = Over
    BY <2>1, <1>0 DEF AutomationTypeOK, Over
  <2> QED BY <2>1, <2>2, HistoryStays
<1>2. CASE ExecuteRollback \/ CheckAlarms
  <2>1. /\ executing' = Append(executing, 0)
        /\ UNCHANGED <<historyFile, writes>>
        /\ history' \in {history, [history EXCEPT !.checks = @ + 1, !.detected = @ + 1]}
    BY <1>2 DEF ExecuteRollback, CheckAlarms, Answered
  <2>2. Over' = Over
    BY <2>1, <1>0 DEF Over
  <2>3. /\ history' \in Histories
        /\ history'.events = history.events /\ history'.executed = history.executed
        /\ history'.succeeded = history.succeeded /\ history'.failed = history.failed
    <3>1. CASE history' = history
      BY <3>1, <1>0
    <3>2. CASE history' = [history EXCEPT !.checks = @ + 1, !.detected = @ + 1]
      <4> DEFINE a == history.checks + 1
                 b == history.detected + 1
      <4>1. a \in Nat /\ b \in Nat /\ history' = [history EXCEPT !.checks = a, !.detected = b]
        BY <3>2, <1>0 DEF Histories
      <4> HIDE DEF a, b
      <4> QED BY <4>1, <1>0 DEF Histories
    <3> QED BY <2>1, <3>1, <3>2
  <2>4. Append(executing, 0) \in Seq(0 .. 3)
    BY <1>0, AppendToSet
  <2>5. AutomationTypeOK'
    BY <2>1, <2>3, <2>4, <1>0 DEF AutomationTypeOK
  <2> QED BY <2>1, <2>2, <2>3, <2>5, HistoryStays
<1>3. ASSUME NEW warning \in {0, 1}, CheckPasses(warning) PROVE AutomationInv'
  <2>1. /\ UNCHANGED <<executing, historyFile, writes>>
        /\ history' = [history EXCEPT !.checks = @ + 1, !.detected = @ + warning]
    BY <1>3 DEF CheckPasses, Answered
  <2>2. /\ history' \in Histories
        /\ history'.events = history.events /\ history'.executed = history.executed
        /\ history'.succeeded = history.succeeded /\ history'.failed = history.failed
    <3> DEFINE a == history.checks + 1
               b == history.detected + warning
    <3>1. a \in Nat /\ b \in Nat /\ history' = [history EXCEPT !.checks = a, !.detected = b]
      BY <2>1, <1>0 DEF Histories
    <3> HIDE DEF a, b
    <3> QED BY <3>1, <1>0 DEF Histories
  <2>3. AutomationTypeOK' /\ Over' = Over
    BY <2>1, <2>2, <1>0 DEF AutomationTypeOK, Over
  <2> QED BY <2>1, <2>2, <2>3, HistoryStays
<1>4. ASSUME NEW r \in DOMAIN executing, StepDone(r) PROVE AutomationInv'
  <2>1. /\ UNCHANGED <<history, historyFile, writes>>
        /\ executing[r] \in {0, 1}
        /\ executing' = [executing EXCEPT ![r] = executing[r] + 1]
    BY <1>4, <1>0 DEF StepDone
  <2>2. Over' = Over /\ executing' \in Seq(0 .. 3)
    BY <2>1, <1>0 DEF Over
  <2>3. AutomationTypeOK'
    BY <2>1, <2>2, <1>0 DEF AutomationTypeOK
  <2> QED BY <2>1, <2>2, <2>3, HistoryStays
<1>5. ASSUME NEW r \in DOMAIN executing, RollbackSucceeds(r) PROVE AutomationInv'
  <2> DEFINE e == Append(history.events, r)
             a == history.executed + 1
             b == history.succeeded + 1
             h == [history EXCEPT !.events = e, !.executed = a, !.succeeded = b]
  <2>1. Finish(r, h)
    BY <1>5 DEF RollbackSucceeds
  <2>2. /\ a \in Nat /\ b \in Nat /\ e \in Seq(Nat)
        /\ history.succeeded \in Nat /\ history.failed \in Nat
    <3>1. /\ history.succeeded \in Nat /\ history.failed \in Nat /\ history.executed \in Nat
          /\ history.events \in Seq(Nat) /\ r \in Nat
      BY <1>0 DEF Histories
    <3> QED BY <3>1
  <2>3. a = history.executed + 1 /\ b = history.succeeded + 1 /\ e = Append(history.events, r)
    OBVIOUS
  <2> HIDE DEF a, b, e
  <2>4. /\ h \in Histories /\ h.events = e /\ h.executed = a
        /\ h.succeeded = b /\ h.failed = history.failed
    BY <2>2, <1>0 DEF Histories
  <2> HIDE DEF h
  <2>5. h.succeeded = history.succeeded + 1 /\ h.failed = history.failed + 1 - 1
    BY <2>2, <2>3, <2>4
  <2> QED BY <2>1, <2>3, <2>4, <2>5, FinishKeeps
<1>6. ASSUME NEW r \in DOMAIN executing, RollbackFails(r) PROVE AutomationInv'
  <2> DEFINE e == Append(history.events, r)
             a == history.executed + 1
             b == history.failed + 1
             h == [history EXCEPT !.events = e, !.executed = a, !.failed = b]
  <2>1. Finish(r, h)
    BY <1>6 DEF RollbackFails
  <2>2. /\ a \in Nat /\ b \in Nat /\ e \in Seq(Nat)
        /\ history.succeeded \in Nat /\ history.failed \in Nat
    <3>1. /\ history.succeeded \in Nat /\ history.failed \in Nat /\ history.executed \in Nat
          /\ history.events \in Seq(Nat) /\ r \in Nat
      BY <1>0 DEF Histories
    <3> QED BY <3>1
  <2>3. a = history.executed + 1 /\ b = history.failed + 1 /\ e = Append(history.events, r)
    OBVIOUS
  <2> HIDE DEF a, b, e
  <2>4. /\ h \in Histories /\ h.events = e /\ h.executed = a
        /\ h.failed = b /\ h.succeeded = history.succeeded
    BY <2>2, <1>0 DEF Histories
  <2> HIDE DEF h
  <2>5. h.succeeded = history.succeeded + 0 /\ h.failed = history.failed + 1 - 0
    BY <2>2, <2>3, <2>4
  <2> QED BY <2>1, <2>3, <2>4, <2>5, FinishKeeps
<1> QED BY <1>1, <1>2, <1>3, <1>4, <1>5, <1>6 DEF AutomationNext

(* However rollbacks overlap and end, the history has each of them once.   *)
THEOREM HistoriesAreComplete == AutomationSpec => []HistoryIsComplete
<1>1. AutomationInv => HistoryIsComplete
  BY DEF AutomationInv
<1> QED BY <1>1, AutomationStart, AutomationStep, PTL DEF AutomationSpec

(***************************************************************************)
(* The crash agent: the ring it sends out is the end of what returned.     *)
(* The argument: the k-th of the readable slots, counted back from the     *)
(* write index, has the k-th of the last calls; a crash takes the slots in *)
(* that order, and what returns later changes no past.                     *)
(***************************************************************************)
Operations == [op : {"connect", "send", "sendto"}, fd : Fds, endpoint : Endpoints \cup {NoEndpoint},
               seq : Nat, crash : BOOLEAN]
HookedCalls == [op : {"connect", "send", "sendto"}, fd : Fds, endpoint : Endpoints \cup {NoEndpoint}]
RingSlots == 0 .. RingCapacity - 1

AgentTypeOK ==
  /\ netRing \in [RingSlots -> Operations \cup {NoOperation}]
  /\ netWriteIndex \in RingSlots /\ netSequence \in Nat
  /\ netCount = IF netSequence < RingCapacity THEN netSequence ELSE RingCapacity
  /\ crashTriggered \in BOOLEAN
  /\ endpointByFd \in [Fds -> Endpoints \cup {NoEndpoint}]
  /\ call \in [Threads -> HookedCalls \cup {NoCall}]
  /\ returned \in Seq(Operations) /\ Len(returned) = netSequence

(* The slot of the i-th readable operation, without remainders.            *)
PlaceOf(write, count, i) ==
  LET place == write - count + i - 1 IN IF place < 0 THEN place + RingCapacity ELSE place

RingIsTail ==
  \A i \in 1 .. netCount :
    netRing[PlaceOf(netWriteIndex, netCount, i)] = returned[netSequence - netCount + i]

SequenceCounts == \A i \in 1 .. netSequence : returned[i].seq = i

(* What a crash at operation n is to send.                                 *)
TailAt(n) == LastOf(SubSeq(returned, 1, n), Fewer(n, RingCapacity))

CrashesAreMarked ==
  /\ crashTriggered <=> crashEvents # {}
  /\ \A e \in crashEvents : e.at \in 0 .. netSequence /\ e.tail = TailAt(e.at)
  /\ \A i \in 1 .. netSequence : returned[i].crash <=> \E e \in crashEvents : e.at < i

AgentInv == AgentTypeOK /\ RingIsTail /\ SequenceCounts /\ CrashesAreMarked

LEMMA AgentStart == AgentInit => AgentInv
<1> SUFFICES ASSUME AgentInit PROVE AgentInv
  OBVIOUS
<1>1. RingCapacity \in Nat \ {0}
  BY AgentAssumption
<1>2. AgentTypeOK
  <2>1. 0 \in RingSlots /\ 0 < RingCapacity
    BY <1>1 DEF RingSlots
  <2>2. netRing \in [RingSlots -> Operations \cup {NoOperation}]
    BY DEF AgentInit, RingSlots
  <2>3. /\ endpointByFd \in [Fds -> Endpoints \cup {NoEndpoint}]
        /\ call \in [Threads -> HookedCalls \cup {NoCall}]
    BY DEF AgentInit
  <2>4. returned \in Seq(Operations) /\ Len(returned) = 0
    BY DEF AgentInit
  <2>5. netWriteIndex = 0 /\ netCount = 0 /\ netSequence = 0 /\ crashTriggered = FALSE
    BY DEF AgentInit
  <2> QED BY <2>1, <2>2, <2>3, <2>4, <2>5 DEF AgentTypeOK
<1>3. netCount = 0 /\ netSequence = 0 /\ crashEvents = {} /\ crashTriggered = FALSE
  BY DEF AgentInit
<1>4. RingIsTail /\ SequenceCounts /\ CrashesAreMarked
  BY <1>3 DEF RingIsTail, SequenceCounts, CrashesAreMarked
<1> QED BY <1>2, <1>4 DEF AgentInv

(* A remainder of what lies below twice the ring.                          *)
LEMMA RingWraps ==
  ASSUME NEW x \in 0 .. 2 * RingCapacity - 1
  PROVE  x % RingCapacity = IF x < RingCapacity THEN x ELSE x - RingCapacity
BY AgentAssumption, SMTT(30)

(* The remainders of outboundTail find the places.                         *)
LEMMA TailIsPlain ==
  ASSUME AgentTypeOK, NEW i \in 1 .. netCount
  PROVE  (TailStart + i - 1) % RingCapacity = PlaceOf(netWriteIndex, netCount, i)
<1> DEFINE w == netWriteIndex
           n == netCount
           C == RingCapacity
           s == TailStart
<1>1. C \in Nat \ {0} /\ w \in 0 .. C - 1 /\ n \in 0 .. C
  BY AgentAssumption DEF AgentTypeOK, RingSlots
<1>2. s = IF w + C - n < C THEN w + C - n ELSE w + C - n - C
  BY <1>1, RingWraps DEF TailStart
<1>3. s \in 0 .. C - 1 /\ s + i - 1 \in 0 .. 2 * C - 1
  BY <1>1, <1>2
<1> HIDE DEF s, w, n, C
<1>4. (s + i - 1) % C = IF s + i - 1 < C THEN s + i - 1 ELSE s + i - 1 - C
  <2> DEFINE x == s + i - 1
  <2>1. x \in 0 .. 2 * RingCapacity - 1
    BY <1>3 DEF C
  <2> HIDE DEF x
  <2>2. x % RingCapacity = IF x < RingCapacity THEN x ELSE x - RingCapacity
    BY <2>1, RingWraps
  <2>3. x % C = IF x < C THEN x ELSE x - C
    BY <2>2 DEF C
  <2> QED BY <1>1, <1>3, <2>3 DEF x
<1>5. i \in 1 .. n
  BY DEF n
<1>6. PlaceOf(w, n, i) = IF w - n + i - 1 < 0 THEN w - n + i - 1 + C ELSE w - n + i - 1
  BY DEF PlaceOf, C
<1>7. (s + i - 1) % C = PlaceOf(w, n, i)
  BY <1>1, <1>2, <1>4, <1>5, <1>6
<1> QED BY <1>7 DEF s, w, n, C

(* So what a crash sends is the tail of what has returned.                 *)
LEMMA OutboundIsTail ==
  ASSUME AgentInv
  PROVE  OutboundTail = TailAt(netSequence)
<1> USE DEF AgentInv
<1>1. /\ returned \in Seq(Operations) /\ Len(returned) = netSequence /\ netSequence \in Nat
      /\ netCount \in 0 .. netSequence /\ netCount = Fewer(netSequence, RingCapacity)
      /\ netCount \in Nat
  BY AgentAssumption DEF AgentTypeOK, Fewer
<1>2. SubSeq(returned, 1, netSequence) = returned
  BY <1>1
<1>3. TailAt(netSequence) = SubSeq(returned, netSequence - netCount + 1, netSequence)
  BY <1>1, <1>2 DEF TailAt, LastOf
<1>4. OutboundTail = [i \in 1 .. netCount |-> returned[netSequence - netCount + i]]
  BY TailIsPlain DEF OutboundTail, RingIsTail
<1>5. SubSeq(returned, netSequence - netCount + 1, netSequence)
        = [i \in 1 .. netCount |-> returned[netSequence - netCount + i]]
  BY <1>1
<1> QED BY <1>3, <1>4, <1>5

(* An operation joins the ring and the record of what returned.            *)
LEMMA PushKeeps ==
  ASSUME AgentInv, NEW op \in {"connect", "send", "sendto"}, NEW fd \in Fds,
         NEW endpoint \in Endpoints \cup {NoEndpoint}, PushNetworkOperation(op, fd, endpoint),
         UNCHANGED <<crashTriggered, crashEvents>>,
         endpointByFd' \in [Fds -> Endpoints \cup {NoEndpoint}],
         call' \in [Threads -> HookedCalls \cup {NoCall}]
  PROVE  AgentInv'
<1> USE DEF AgentInv
<1> DEFINE o == [op |-> op, fd |-> fd, endpoint |-> endpoint, seq |-> netSequence + 1,
                 crash |-> crashTriggered]
           w == netWriteIndex
           n == netCount
           k == netSequence
<1>1. /\ RingCapacity \in Nat \ {0} /\ w \in 0 .. RingCapacity - 1 /\ k \in Nat
      /\ n = IF k < RingCapacity THEN k ELSE RingCapacity
      /\ n \in 0 .. RingCapacity /\ returned \in Seq(Operations) /\ Len(returned) = k
      /\ netRing \in [RingSlots -> Operations \cup {NoOperation}]
  BY AgentAssumption DEF AgentTypeOK, RingSlots
<1>2. /\ netSequence' = k + 1 /\ netRing' = [netRing EXCEPT ![w] = o]
      /\ netCount' = IF n < RingCapacity THEN n + 1 ELSE n
      /\ returned' = Append(returned, o)
      /\ netWriteIndex' = (w + 1) % RingCapacity
  BY DEF PushNetworkOperation
<1>3. netWriteIndex' = IF w + 1 < RingCapacity THEN w + 1 ELSE 0
  <2> DEFINE x == w + 1
  <2>1. x \in 0 .. 2 * RingCapacity - 1
    BY <1>1
  <2>2. x % RingCapacity = IF x < RingCapacity THEN x ELSE x - RingCapacity
    BY <2>1, RingWraps
  <2> QED BY <2>2, <1>1, <1>2
<1>4. o \in Operations /\ o.seq = k + 1 /\ o.crash = crashTriggered
  <2>1. k + 1 \in Nat
    BY <1>1
  <2> QED BY <2>1 DEF Operations, AgentTypeOK
<1> HIDE DEF o
<1>5. /\ Len(returned') = k + 1 /\ returned' \in Seq(Operations) /\ returned'[k + 1] = o
      /\ \A i \in 1 .. k : returned'[i] = returned[i]
  BY <1>1, <1>2, <1>4
<1>6. netWriteIndex' \in RingSlots
  BY <1>1, <1>3 DEF RingSlots
<1>7. netCount' = IF k + 1 < RingCapacity THEN k + 1 ELSE RingCapacity
  BY <1>1, <1>2
<1>8. netRing' \in [RingSlots -> Operations \cup {NoOperation}]
      /\ \A p \in RingSlots : netRing'[p] = IF p = w THEN o ELSE netRing[p]
  BY <1>1, <1>2, <1>4
<1>9. AgentTypeOK'
  BY <1>1, <1>2, <1>5, <1>6, <1>7, <1>8 DEF AgentTypeOK
<1>10. RingIsTail'
  <2> DEFINE v == netWriteIndex'
  <2>1. v = IF w + 1 < RingCapacity THEN w + 1 ELSE 0
    BY <1>3
  <2> HIDE DEF v
  <2>2. CASE n < RingCapacity
    <3>1. netCount' = n + 1 /\ n = k
      BY <2>2, <1>1, <1>2
    <3>2. PlaceOf(v, n + 1, n + 1) = w
      BY <1>1, <2>1, <2>2 DEF PlaceOf
    <3>3. \A i \in 1 .. n : PlaceOf(v, n + 1, i) = PlaceOf(w, n, i) /\ PlaceOf(w, n, i) # w
      BY <1>1, <2>1, <2>2 DEF PlaceOf
    <3>8. \A i \in 1 .. n : PlaceOf(w, n, i) \in RingSlots
      BY <1>1 DEF PlaceOf, RingSlots
    <3>9. \A i \in 1 .. n : netRing[PlaceOf(w, n, i)] = returned[i]
      <4>1. \A i \in 1 .. n : k - n + i = i
        BY <3>1, <1>1
      <4> QED BY <4>1 DEF RingIsTail
    <3>4. \A i \in 1 .. n : netRing'[PlaceOf(v, n + 1, i)] = returned'[i]
      BY <3>1, <3>3, <3>8, <3>9, <1>5, <1>8
    <3>5. netRing'[PlaceOf(v, n + 1, n + 1)] = returned'[n + 1]
      BY <3>1, <3>2, <1>1, <1>5, <1>8 DEF RingSlots
    <3>6. \A i \in 1 .. n + 1 : netRing'[PlaceOf(v, n + 1, i)] = returned'[i]
      BY <3>4, <3>5, <1>1
    <3>7. \A i \in 1 .. n + 1 : netSequence' - netCount' + i = i
      BY <3>1, <1>1, <1>2
    <3>10. \A i \in 1 .. netCount' :
             netRing'[PlaceOf(v, netCount', i)] = returned'[netSequence' - netCount' + i]
      BY <3>1, <3>6, <3>7
    <3> QED BY <3>10 DEF RingIsTail, PlaceOf, v
  <2>3. CASE n = RingCapacity
    <3>1. netCount' = n /\ k >= n
      <4>1. k >= RingCapacity
        BY <2>3, <1>1
      <4>2. n \in Nat /\ k \in Nat /\ ~(k + 1 < RingCapacity)
        BY <4>1, <1>1
      <4> QED BY <4>1, <4>2, <2>3, <1>7
    <3>2. PlaceOf(v, n, n) = w
      BY <1>1, <2>1, <2>3 DEF PlaceOf
    <3>3. \A i \in 1 .. n - 1 : /\ PlaceOf(v, n, i) = PlaceOf(w, n, i + 1)
                                /\ PlaceOf(w, n, i + 1) # w
      BY <1>1, <2>1, <2>3 DEF PlaceOf
    <3>4. \A i \in 1 .. n : PlaceOf(w, n, i) \in RingSlots
      BY <1>1, <2>3 DEF PlaceOf, RingSlots
    <3>5. ASSUME NEW i \in 1 .. n - 1
          PROVE  netRing'[PlaceOf(v, n, i)] = returned'[k + 1 - n + i]
      <4>1. i + 1 \in 1 .. n /\ k - n + (i + 1) = k + 1 - n + i /\ k + 1 - n + i \in 1 .. k
        BY <3>1, <1>1
      <4>2. netRing[PlaceOf(w, n, i + 1)] = returned[k - n + (i + 1)]
        BY <4>1 DEF RingIsTail
      <4>3. netRing'[PlaceOf(w, n, i + 1)] = netRing[PlaceOf(w, n, i + 1)]
        BY <4>1, <3>3, <3>4, <1>8
      <4> QED BY <4>1, <4>2, <4>3, <3>3, <1>5
    <3>6. netRing'[PlaceOf(v, n, n)] = returned'[k + 1 - n + n]
      BY <3>2, <1>1, <1>5, <1>8 DEF RingSlots
    <3>7. \A i \in 1 .. n : netRing'[PlaceOf(v, n, i)] = returned'[k + 1 - n + i]
      BY <3>5, <3>6, <1>1
    <3>8. \A i \in 1 .. netCount' :
            netRing'[PlaceOf(v, netCount', i)] = returned'[netSequence' - netCount' + i]
      <4>1. netSequence' = k + 1
        BY <1>2
      <4> QED BY <3>1, <3>7, <4>1, <1>1
    <3> QED BY <3>8 DEF RingIsTail, PlaceOf, v
  <2> QED BY <2>2, <2>3, <1>1
<1>11. SequenceCounts'
  BY <1>1, <1>2, <1>4, <1>5 DEF SequenceCounts
<1>12. \A e \in crashEvents : e.at \in 0 .. k
  BY DEF CrashesAreMarked
<1>13. CrashesAreMarked'
  <2>1. \A m \in 0 .. k : TailAt(m)' = TailAt(m)
    <3> SUFFICES ASSUME NEW m \in 0 .. k PROVE TailAt(m)' = TailAt(m)
      OBVIOUS
    <3>1. SubSeq(returned', 1, m) = SubSeq(returned, 1, m)
      BY <1>1, <1>5
    <3> QED BY <3>1 DEF TailAt, LastOf
  <2>2. \A e \in crashEvents : e.at \in 0 .. k + 1 /\ e.tail = TailAt(e.at)'
    BY <2>1, <1>1, <1>12 DEF CrashesAreMarked
  <2>3. \A i \in 1 .. k : returned'[i].crash <=> \E e \in crashEvents : e.at < i
    BY <1>5 DEF CrashesAreMarked
  <2>4. returned'[k + 1].crash <=> \E e \in crashEvents : e.at < k + 1
    <3>1. \A e \in crashEvents : e.at < k + 1
      BY <1>1, <1>12
    <3>2. returned'[k + 1].crash = crashTriggered
      BY <1>4, <1>5
    <3> QED BY <3>1, <3>2 DEF CrashesAreMarked
  <2>5. \A i \in 1 .. k + 1 : returned'[i].crash <=> \E e \in crashEvents : e.at < i
    BY <2>3, <2>4, <1>1
  <2>6. crashTriggered <=> crashEvents # {}
    BY DEF CrashesAreMarked
  <2> QED BY <1>2, <2>2, <2>5, <2>6 DEF CrashesAreMarked
<1> QED BY <1>9, <1>10, <1>11, <1>13

LEMMA AgentStep == AgentInv /\ [AgentNext]_agentVars => AgentInv'
<1> SUFFICES ASSUME AgentInv, [AgentNext]_agentVars PROVE AgentInv'
  OBVIOUS
<1>0. /\ endpointByFd \in [Fds -> Endpoints \cup {NoEndpoint}]
      /\ call \in [Threads -> HookedCalls \cup {NoCall}]
      /\ NoEndpoint \notin Endpoints
  BY AgentAssumption DEF AgentInv, AgentTypeOK
(* What touches neither the ring nor the crashes.                          *)
<1>1. ASSUME UNCHANGED ring, UNCHANGED <<crashTriggered, crashEvents>>,
             endpointByFd' = endpointByFd, call' \in [Threads -> HookedCalls \cup {NoCall}]
      PROVE  AgentInv'
  BY <1>1 DEF ring, AgentInv, AgentTypeOK, RingIsTail, SequenceCounts, CrashesAreMarked, TailAt,
     LastOf
<1>2. ASSUME NEW t \in Threads, NEW fd \in Fds, EnterSend(t, fd) PROVE AgentInv'
  <2>1. [op |-> "send", fd |-> fd, endpoint |-> endpointByFd[fd]] \in HookedCalls
    BY <1>0 DEF HookedCalls
  <2>2. call' \in [Threads -> HookedCalls \cup {NoCall}]
    BY <1>0, <1>2, <2>1 DEF EnterSend
  <2> QED BY <1>1, <1>2, <2>2 DEF EnterSend
<1>3. ASSUME NEW t \in Threads, NEW fd \in Fds, NEW e \in Endpoints,
             EnterConnect(t, fd, e) \/ EnterSendto(t, fd, e)
      PROVE  AgentInv'
  <2>1. \A op \in {"connect", "sendto"} : [op |-> op, fd |-> fd, endpoint |-> e] \in HookedCalls
    BY DEF HookedCalls
  <2>2. call' \in [Threads -> HookedCalls \cup {NoCall}]
    BY <1>0, <1>3, <2>1 DEF EnterConnect, EnterSendto
  <2> QED BY <1>1, <1>3, <2>2 DEF EnterConnect, EnterSendto
<1>4. \A t \in Threads : call[t].op # "none" =>
        call[t].op \in {"connect", "send", "sendto"} /\ call[t].fd \in Fds
        /\ call[t].endpoint \in Endpoints \cup {NoEndpoint}
  BY <1>0 DEF HookedCalls, NoCall
<1>5. ASSUME NEW t \in Threads, NEW result \in {0, -1}, LeaveConnect(t, result) PROVE AgentInv'
  <2>1. /\ call[t].op = "connect" /\ PushNetworkOperation("connect", call[t].fd, call[t].endpoint)
        /\ UNCHANGED <<crashTriggered, crashEvents>>
        /\ call' = [call EXCEPT ![t] = NoCall]
        /\ endpointByFd' \in {endpointByFd, [endpointByFd EXCEPT ![call[t].fd] = call[t].endpoint]}
    BY <1>5 DEF LeaveConnect
  <2>2. call[t].fd \in Fds /\ call[t].endpoint \in Endpoints \cup {NoEndpoint}
    BY <1>4, <2>1
  <2>3. /\ endpointByFd' \in [Fds -> Endpoints \cup {NoEndpoint}]
        /\ call' \in [Threads -> HookedCalls \cup {NoCall}]
    BY <1>0, <2>1, <2>2
  <2> QED BY <2>1, <2>2, <2>3, PushKeeps
<1>6. ASSUME NEW t \in Threads, LeaveSend(t) PROVE AgentInv'
  <2>1. /\ call[t].op \in {"send", "sendto"}
        /\ PushNetworkOperation(call[t].op, call[t].fd, call[t].endpoint)
        /\ UNCHANGED <<crashTriggered, crashEvents>>
        /\ call' = [call EXCEPT ![t] = NoCall] /\ endpointByFd' = endpointByFd
    BY <1>6 DEF LeaveSend
  <2>2. call[t].fd \in Fds /\ call[t].endpoint \in Endpoints \cup {NoEndpoint}
        /\ call[t].op \in {"connect", "send", "sendto"}
    BY <1>4, <2>1
  <2>3. /\ endpointByFd' \in [Fds -> Endpoints \cup {NoEndpoint}]
        /\ call' \in [Threads -> HookedCalls \cup {NoCall}]
    BY <1>0, <2>1
  <2> QED BY <2>1, <2>2, <2>3, PushKeeps
<1>7. ASSUME NEW fd \in Fds, Close(fd) PROVE AgentInv'
  BY <1>0, <1>1, <1>7 DEF Close
<1>8. ASSUME NEW kind, Exception(kind) PROVE AgentInv'
  <2> DEFINE new == [kind |-> kind, at |-> netSequence, tail |-> OutboundTail]
  <2>1. /\ crashTriggered' = TRUE /\ crashEvents' = crashEvents \cup {new}
        /\ UNCHANGED <<endpointByFd, call>> /\ UNCHANGED ring
    BY <1>8 DEF Exception
  <2>2. AgentTypeOK' /\ RingIsTail' /\ SequenceCounts'
    BY <2>1 DEF ring, AgentInv, AgentTypeOK, RingIsTail, SequenceCounts
  <2>3. new.at = netSequence /\ new.tail = TailAt(netSequence) /\ netSequence \in 0 .. netSequence
        /\ netSequence \in Nat
    BY OutboundIsTail DEF AgentInv, AgentTypeOK
  <2> HIDE DEF new
  <2>4. \A m : TailAt(m)' = TailAt(m)
    BY <2>1 DEF ring, TailAt, LastOf
  <2>5. \A i \in 1 .. netSequence : ~(new.at < i)
    BY <2>3
  <2>6. \A i \in 1 .. netSequence : returned[i].crash <=> \E e \in crashEvents \cup {new} : e.at < i
    BY <2>5 DEF AgentInv, CrashesAreMarked
  <2>7. \A e \in crashEvents \cup {new} : e.at \in 0 .. netSequence /\ e.tail = TailAt(e.at)
    BY <2>3 DEF AgentInv, CrashesAreMarked
  <2>8. CrashesAreMarked'
    BY <2>1, <2>4, <2>6, <2>7 DEF ring, CrashesAreMarked
  <2> QED BY <2>2, <2>8 DEF AgentInv
<1>9. CASE UNCHANGED agentVars
  BY <1>0, <1>1, <1>9 DEF agentVars, ring
<1> QED BY <1>2, <1>3, <1>5, <1>6, <1>7, <1>8, <1>9 DEF AgentNext

(* For every capacity of the ring and however the threads and the wrap fall, *)
(* a crash sends exactly the last calls that had returned.                 *)
THEOREM CrashesSendTheTail == AgentSpec => []TailIsWhatReturned
<1>1. AgentInv => TailIsWhatReturned
  <2> SUFFICES ASSUME AgentInv PROVE TailIsWhatReturned
    OBVIOUS
  <2>1. DOMAIN returned = 1 .. netSequence
    BY DEF AgentInv, AgentTypeOK
  <2>2. \A i \in 1 .. netSequence : returned[i].seq = i
    BY DEF AgentInv, SequenceCounts
  <2> QED BY <2>1, <2>2 DEF AgentInv, CrashesAreMarked, TailIsWhatReturned, TailAt
<1> QED BY <1>1, AgentStart, AgentStep, PTL DEF AgentSpec

(***************************************************************************)
(* Versioning: every version is explained by its changelog.                *)
(* The argument: an upgrade extends an explained changelog by a later      *)
(* version, and only a breaking one leaves the major of those before it;   *)
(* memory, file and what is put aside only ever exchange what they have.   *)
(***************************************************************************)
Versions == [major : Nat, minor : Nat, patch : Nat]
Upgrades == [version : Versions, type : {"breaking", "feature", "fix"}]
AllMetadata == [current : Versions, schema : {1, 2}, changelog : Seq(Upgrades)]

VersioningTypeOK ==
  /\ metadata \in AllMetadata
  /\ metadataFile \in [state : {"absent", "corrupt", "sound"}, was : AllMetadata]
  /\ quarantined \subseteq AllMetadata
  /\ temporary \in BOOLEAN /\ forgotten \in BOOLEAN /\ damage \in Nat

(* What a damaged file had is still explained: it may be put aside.        *)
EverythingIsExplained ==
  /\ Explained(metadata) /\ Explained(metadataFile.was)
  /\ \A m \in quarantined : Explained(m)

VersioningInv == VersioningTypeOK /\ EverythingIsExplained

LEMMA DefaultIsExplained == DefaultMetadata \in AllMetadata /\ Explained(DefaultMetadata)
<1>1. V(1, 0, 0) \in Versions
  BY DEF V, Versions
<1>2. DefaultMetadata \in AllMetadata
  BY <1>1 DEF DefaultMetadata, AllMetadata
<1>3. /\ DefaultMetadata.changelog = << >> /\ DefaultMetadata.current = V(1, 0, 0)
      /\ DOMAIN << >> = {} /\ 2 .. Len(<< >>) = {}
  BY DEF DefaultMetadata
<1> QED BY <1>2, <1>3 DEF Explained

(* What is not explained by the schema is not disturbed by its migration.  *)
LEMMA SchemaIsAside ==
  ASSUME NEW m \in AllMetadata, Explained(m), NEW to \in {1, 2}
  PROVE  [m EXCEPT !.schema = to] \in AllMetadata /\ Explained([m EXCEPT !.schema = to])
<1> DEFINE n == [m EXCEPT !.schema = to]
<1>1. n \in AllMetadata /\ n.current = m.current /\ n.changelog = m.changelog
  BY DEF AllMetadata
<1> HIDE DEF n
<1>2. Explained(n)
  BY <1>1 DEF Explained, Breaking
<1> QED BY <1>1, <1>2 DEF n

(* The next version is later; its major is the next if and only if the     *)
(* change is breaking.                                                     *)
LEMMA NextIsLater ==
  ASSUME NEW v \in Versions, NEW type \in {"breaking", "feature", "fix"}
  PROVE  /\ NextVersion(v, type) \in Versions /\ Later(NextVersion(v, type), v)
         /\ NextVersion(v, type).major = IF type = "breaking" THEN v.major + 1 ELSE v.major
<1>1. v.major \in Nat /\ v.minor \in Nat /\ v.patch \in Nat
  BY DEF Versions
<1>2. CASE type = "breaking"
  BY <1>1, <1>2 DEF NextVersion, V, Later, Versions
<1>3. CASE type = "feature"
  BY <1>1, <1>3 DEF NextVersion, V, Later, Versions
<1>4. CASE type = "fix"
  BY <1>1, <1>4 DEF NextVersion, V, Later, Versions
<1> QED BY <1>2, <1>3, <1>4

LEMMA UpgradeIsExplained ==
  ASSUME NEW m \in AllMetadata, Explained(m), NEW type \in {"breaking", "feature", "fix"}, NEW n,
         n = [m EXCEPT !.current = NextVersion(m.current, type),
                       !.changelog = Append(@, [version |-> NextVersion(m.current, type),
                                                type |-> type])]
  PROVE  n \in AllMetadata /\ Explained(n)
<1> DEFINE next == NextVersion(m.current, type)
           entry == [version |-> next, type |-> type]
           log == Append(m.changelog, entry)
           k == Len(m.changelog)
<1>1. m.current \in Versions /\ m.changelog \in Seq(Upgrades) /\ k \in Nat
  BY DEF AllMetadata
<1>2. /\ next \in Versions /\ Later(next, m.current)
      /\ next.major = IF type = "breaking" THEN m.current.major + 1 ELSE m.current.major
  BY <1>1, NextIsLater
<1>3. n = [m EXCEPT !.current = next, !.changelog = log]
  OBVIOUS
<1> HIDE DEF next
<1>4. entry \in Upgrades /\ entry.version = next /\ entry.type = type
  BY <1>2 DEF Upgrades
<1> HIDE DEF entry
<1>5. /\ log \in Seq(Upgrades) /\ Len(log) = k + 1 /\ log[k + 1] = entry
      /\ \A i \in 1 .. k : log[i] = m.changelog[i]
      /\ DOMAIN log = 1 .. k + 1 /\ DOMAIN m.changelog = 1 .. k /\ log # << >>
  BY <1>1, <1>4
<1> HIDE DEF log, k
<1>6. n \in AllMetadata /\ n.current = next /\ n.changelog = log
  BY <1>2, <1>3, <1>5 DEF AllMetadata
<1>7. n.current = n.changelog[Len(n.changelog)].version
  BY <1>4, <1>5, <1>6
<1>8. \A i \in 1 .. k : m.changelog[i].version \in Versions /\ m.changelog[i].version.major \in Nat
                        /\ m.changelog[i] \in Upgrades
  <2> SUFFICES ASSUME NEW i \in 1 .. k
               PROVE  /\ m.changelog[i].version \in Versions
                      /\ m.changelog[i].version.major \in Nat /\ m.changelog[i] \in Upgrades
    OBVIOUS
  <2>1. m.changelog[i] \in Upgrades
    BY <1>1, <1>5
  <2>2. m.changelog[i].version \in Versions
    BY <2>1 DEF Upgrades
  <2> QED BY <2>1, <2>2 DEF Versions
<1>9. ASSUME NEW i \in 2 .. k + 1 PROVE Later(log[i].version, log[i - 1].version)
  <2>1. CASE i \in 2 .. k
    <3>1. log[i] = m.changelog[i] /\ log[i - 1] = m.changelog[i - 1]
      BY <2>1, <1>1, <1>5
    <3> QED BY <3>1, <2>1 DEF Explained, k
  <2>2. CASE i = k + 1
    <3>1. k \in 1 .. k /\ i - 1 = k /\ m.changelog # << >>
      BY <2>2, <1>1, <1>5
    <3>2. m.current = m.changelog[k].version
      BY <3>1 DEF Explained, k
    <3> QED BY <2>2, <3>1, <3>2, <1>2, <1>4, <1>5
  <2> QED BY <2>1, <2>2, <1>1
<1>10. m.current.major \in Nat
  BY <1>1 DEF Versions
<1>11. ASSUME NEW i \in 1 .. k + 1, next.major > log[i].version.major
       PROVE  Breaking(n, log[i].version, next) # {}
  <2>1. i \in 1 .. k
    <3>1. next.major \in Nat
      BY <1>2 DEF Versions
    <3> QED BY <1>1, <1>4, <1>5, <1>11, <3>1
  <2>2. log[i] = m.changelog[i] /\ log[i].version.major \in Nat
    BY <2>1, <1>5, <1>8
  <2>3. CASE type = "breaking"
    <3>1. k + 1 \in 1 .. k + 1 /\ log[k + 1].type = "breaking" /\ log[k + 1].version = next
      BY <2>3, <1>1, <1>4, <1>5
    <3>2. next.major <= next.major
      BY <1>2, <1>10
    <3> QED BY <3>1, <3>2, <1>5, <1>6, <1>11 DEF Breaking
  <2>4. CASE type # "breaking"
    <3>1. m.current.major > m.changelog[i].version.major
      BY <2>2, <2>4, <1>2, <1>11
    <3>2. Breaking(m, m.changelog[i].version, m.current) # {}
      BY <3>1, <2>1, <1>5 DEF Explained
    <3>3. PICK j \in 1 .. k : /\ m.changelog[j].type = "breaking"
                              /\ m.changelog[j].version.major > m.changelog[i].version.major
                              /\ m.changelog[j].version.major <= m.current.major
      BY <3>2, <1>5 DEF Breaking
    <3>4. j \in 1 .. k + 1 /\ log[j] = m.changelog[j]
      BY <1>1, <1>5
    <3>5. next.major = m.current.major
      BY <1>2, <2>4
    <3> QED BY <3>3, <3>4, <3>5, <2>2, <1>5, <1>6 DEF Breaking
  <2> QED BY <2>3, <2>4
<1>12. Explained(n)
  <2>1. n.current = IF n.changelog = << >> THEN V(1, 0, 0)
                    ELSE n.changelog[Len(n.changelog)].version
    BY <1>5, <1>6, <1>7
  <2>2. \A i \in 2 .. Len(n.changelog) :
          Later(n.changelog[i].version, n.changelog[i - 1].version)
    BY <1>5, <1>6, <1>9
  <2>3. \A i \in DOMAIN n.changelog :
          n.current.major > n.changelog[i].version.major =>
            Breaking(n, n.changelog[i].version, n.current) # {}
    BY <1>5, <1>6, <1>11
  <2> QED BY <2>1, <2>2, <2>3, Zenon DEF Explained
<1> QED BY <1>6, <1>12

LEMMA VersioningStart == VersioningInit => VersioningInv
<1> SUFFICES ASSUME VersioningInit PROVE VersioningInv
  OBVIOUS
<1>1. /\ Sound(DefaultMetadata) \in [state : {"absent", "corrupt", "sound"}, was : AllMetadata]
      /\ Sound(DefaultMetadata).was = DefaultMetadata
  BY DefaultIsExplained DEF Sound
<1>2. VersioningTypeOK
  BY <1>1, DefaultIsExplained DEF VersioningInit, VersioningTypeOK
<1>3. EverythingIsExplained
  BY <1>1, DefaultIsExplained DEF VersioningInit, EverythingIsExplained
<1> QED BY <1>2, <1>3 DEF VersioningInv

(* A new content m of the memory, which is saved or is not.                *)
LEMMA SavedIsExplained ==
  ASSUME VersioningInv, NEW m \in AllMetadata, Explained(m), metadata' = m, SaveMetadata(m),
         UNCHANGED <<quarantined, forgotten>>
  PROVE  VersioningInv'
<1>1. CASE metadataFile' = Sound(m) /\ temporary' = FALSE /\ UNCHANGED damage
  <2>1. Sound(m) \in [state : {"absent", "corrupt", "sound"}, was : AllMetadata] /\ Sound(m).was = m
    BY DEF Sound
  <2> QED BY <1>1, <2>1 DEF VersioningInv, VersioningTypeOK, EverythingIsExplained
<1>2. CASE UNCHANGED metadataFile /\ temporary' = TRUE /\ Damaging(1)
  BY <1>2 DEF Damaging, VersioningInv, VersioningTypeOK, EverythingIsExplained
<1> QED BY <1>1, <1>2 DEF SaveMetadata

LEMMA VersioningStep == VersioningInv /\ [VersioningNext]_versioningVars => VersioningInv'
<1> SUFFICES ASSUME VersioningInv, [VersioningNext]_versioningVars PROVE VersioningInv'
  OBVIOUS
<1>0. /\ metadata \in AllMetadata /\ Explained(metadata)
      /\ metadataFile \in [state : {"absent", "corrupt", "sound"}, was : AllMetadata]
      /\ Explained(metadataFile.was) /\ damage \in Nat
      /\ NoMetadata \in [state : {"absent", "corrupt", "sound"}, was : AllMetadata]
      /\ Explained(NoMetadata.was)
  BY DefaultIsExplained DEF VersioningInv, VersioningTypeOK, EverythingIsExplained, NoMetadata
<1>1. ASSUME NEW type \in {"breaking", "feature", "fix"}, RecordUpgrade(type) PROVE VersioningInv'
  <2> DEFINE m == [metadata EXCEPT
                     !.current = NextVersion(metadata.current, type),
                     !.changelog = Append(@, [version |-> NextVersion(metadata.current, type),
                                              type |-> type])]
  <2>1. metadata' = m /\ SaveMetadata(m) /\ UNCHANGED <<quarantined, forgotten>>
    BY <1>1 DEF RecordUpgrade
  <2>2. m \in AllMetadata /\ Explained(m)
    BY <1>0, UpgradeIsExplained
  <2> HIDE DEF m
  <2> QED BY <2>1, <2>2, SavedIsExplained
<1>2. ASSUME NEW from \in {1, 2}, NEW to \in {1, 2}, MigrateSchema(from, to) PROVE VersioningInv'
  <2> DEFINE m == [metadata EXCEPT !.schema = to]
  <2>1. metadata' = m /\ SaveMetadata(m) /\ UNCHANGED <<quarantined, forgotten>>
    BY <1>2 DEF MigrateSchema
  <2>2. m \in AllMetadata /\ Explained(m)
    BY <1>0, SchemaIsAside
  <2> HIDE DEF m
  <2> QED BY <2>1, <2>2, SavedIsExplained
<1>3. CASE DamageMetadata
  <2>1. [metadataFile EXCEPT !.state = "corrupt"]
           \in [state : {"absent", "corrupt", "sound"}, was : AllMetadata]
        /\ [metadataFile EXCEPT !.state = "corrupt"].was = metadataFile.was
    BY <1>0
  <2> QED BY <1>0, <1>3, <2>1
       DEF DamageMetadata, Damaging, VersioningInv, VersioningTypeOK, EverythingIsExplained
<1>4. CASE LoadMetadata
  <2>1. /\ metadata' \in {metadataFile.was, DefaultMetadata}
        /\ metadataFile' \in {metadataFile, Sound(DefaultMetadata), NoMetadata}
        /\ quarantined' \in {quarantined, quarantined \cup {metadataFile.was}}
        /\ temporary' \in {temporary, FALSE} /\ forgotten' \in {forgotten, TRUE}
        /\ damage' \in {damage + 1, damage + 2}
    BY <1>4 DEF LoadMetadata, Damaging
  <2>2. /\ Sound(DefaultMetadata) \in [state : {"absent", "corrupt", "sound"}, was : AllMetadata]
        /\ Sound(DefaultMetadata).was = DefaultMetadata
    BY DefaultIsExplained DEF Sound
  <2>3. metadata' \in AllMetadata /\ Explained(metadata')
    BY <2>1, <1>0, DefaultIsExplained
  <2>4. /\ metadataFile' \in [state : {"absent", "corrupt", "sound"}, was : AllMetadata]
        /\ Explained(metadataFile'.was)
    BY <2>1, <2>2, <1>0, DefaultIsExplained
  <2>5. quarantined' \subseteq AllMetadata /\ \A m \in quarantined' : Explained(m)
    BY <2>1, <1>0 DEF VersioningInv, VersioningTypeOK, EverythingIsExplained
  <2>6. temporary' \in BOOLEAN /\ forgotten' \in BOOLEAN /\ damage' \in Nat
    <3>1. temporary \in BOOLEAN /\ forgotten \in BOOLEAN
      BY DEF VersioningInv, VersioningTypeOK
    <3>2. temporary' \in BOOLEAN /\ forgotten' \in BOOLEAN
      BY <2>1, <3>1, Zenon
    <3>3. damage' \in Nat
      BY <2>1, <1>0
    <3> QED BY <3>2, <3>3
  <2>7. Explained(metadata)' /\ Explained(metadataFile.was)' /\ \A m \in quarantined' : Explained(m)'
    BY <2>3, <2>4, <2>5 DEF Explained, Breaking
  <2> QED BY <2>3, <2>4, <2>5, <2>6, <2>7 DEF VersioningInv, VersioningTypeOK, EverythingIsExplained
<1>5. CASE UNCHANGED versioningVars
  BY <1>5 DEF versioningVars, VersioningInv, VersioningTypeOK, EverythingIsExplained
<1> QED BY <1>1, <1>2, <1>3, <1>4, <1>5 DEF VersioningNext

(* Through any number of upgrades, failed saves, damages and restarts,     *)
(* every version is the last of a changelog that explains it.              *)
THEOREM VersionsStayExplained == VersioningSpec => []VersionsAreExplained
<1>1. VersioningInv => VersionsAreExplained
  BY DEF VersioningInv, EverythingIsExplained, VersionsAreExplained
<1> QED BY <1>1, VersioningStart, VersioningStep, PTL DEF VersioningSpec

(***************************************************************************)
(* The dashboard: what is shown or promised is stored.                     *)
(* The argument: a statement is answered with success only when the        *)
(* database has executed it; nothing is ever taken out of the tables; and  *)
(* a run whose insert is still under way has no completion yet, which the  *)
(* insert could undo.                                                      *)
(***************************************************************************)
Numbers == db.snapshots \cup {0}
PagesOf(numbers) ==
  [mounted : BOOLEAN, socket : {"none", "connecting", "open", "closing", "waiting"},
   wire : Seq(numbers), fetch : [at : {"none", "asked", "read"}, latest : numbers],
   shown : numbers]

DashboardTypeOK ==
  /\ posted \in Nat /\ db.snapshots \subseteq 1 .. posted
  /\ db = [snapshots |-> db.snapshots, runs |-> db.runs]
  /\ pages \in [Pages -> PagesOf(Numbers)]
  /\ \A s \in statements : /\ s = [of |-> s.of, at |-> s.at]
                           /\ s.of = [kind |-> s.of.kind, id |-> s.of.id]
                           /\ s.at \in {"handed", "done", "failed"}
                           /\ s.of.kind \in {"snapshot", "run", "complete"}
                           /\ s.of.kind = "snapshot" => s.of.id \in 1 .. posted

(* What a request asks for is in the database.                             *)
Kept(q) ==
  /\ q.kind = "snapshot" => q.id \in db.snapshots
  /\ q.kind = "run" => q.id \in DOMAIN db.runs
  /\ q.kind = "complete" /\ q.id \in DOMAIN db.runs => db.runs[q.id] = "COMPLETE"

AnsweredIsKept ==
  /\ \A s \in statements : s.at = "done" => Kept(s.of)
  /\ \A q \in promised : Kept(q)

(* The run that is to be inserted has not been completed.                  *)
RunsComeFirst ==
  \A s \in statements : s.of.kind = "run" =>
    \A q \in Requests : q.kind = "complete" => q.id # s.of.id

DashboardInv == DashboardTypeOK /\ AnsweredIsKept /\ RunsComeFirst

(* A set of naturals with a bound has a maximum, the bound less the        *)
(* smallest distance from it.                                              *)
LEMMA MaxIsMember ==
  ASSUME NEW n \in Nat, NEW S, S \subseteq 0 .. n, S # {}
  PROVE  Max(S) \in S
<1> DEFINE less == OpToRel(<, Nat)
           distances == {n - x : x \in S}
<1>1. \A x, y \in Nat : x < y => <<x, y>> \in less
  BY DEF OpToRel
<1>2. IsWellFoundedOn(less, Nat)
  BY NatLessThanWellFounded
<1> HIDE DEF less
<1>3. distances \subseteq Nat /\ distances # {}
  <2>1. \A x \in S : n - x \in Nat
    OBVIOUS
  <2>2. PICK x \in S : TRUE
    OBVIOUS
  <2>3. n - x \in distances
    OBVIOUS
  <2> QED BY <2>1, <2>3
<1>4. IsWellFoundedOn(less, Nat) /\ distances \subseteq Nat /\ distances # {}
  BY <1>2, <1>3
<1>5. \E d \in distances : \A e \in distances : <<e, d>> \notin less
  <2> HIDE DEF distances
  <2> QED BY <1>4, WFMin
<1>6. PICK d \in distances : \A e \in distances : <<e, d>> \notin less
  BY <1>5
<1>7. \A e \in distances : d <= e
  <2> HIDE DEF distances
  <2>1. \A e \in distances : e \in Nat /\ d \in Nat
    BY <1>3
  <2>2. \A e \in distances : ~(e < d)
    BY <2>1, <1>1, <1>6
  <2> QED BY <2>1, <2>2
<1>8. PICK x \in S : d = n - x
  BY <1>6
<1>9. \A y \in S : n - y \in distances
  OBVIOUS
<1> HIDE DEF distances
<1>10. \A y \in S : x >= y
  BY <1>7, <1>8, <1>9
<1> QED BY <1>8, <1>10 DEF Max

(* A page goes on when the tables grow.                                    *)
LEMMA PagesWiden ==
  ASSUME NEW A, NEW B, A \subseteq B, NEW page \in PagesOf(A)
  PROVE  page \in PagesOf(B)
<1>1. page.wire \in Seq(A) /\ page.fetch \in [at : {"none", "asked", "read"}, latest : A]
  BY DEF PagesOf
<1>2. page.wire \in Seq(B)
  BY <1>1
<1>3. page.fetch \in [at : {"none", "asked", "read"}, latest : B]
  BY <1>1
<1> QED BY <1>2, <1>3 DEF PagesOf

LEMMA DashboardStart == DashboardInit => DashboardInv
<1> SUFFICES ASSUME DashboardInit PROVE DashboardInv
  OBVIOUS
<1>1. Unmounted \in PagesOf({0})
  BY DEF Unmounted, NoFetch, PagesOf
<1>2. Numbers = {0} /\ pages \in [Pages -> PagesOf(Numbers)]
  BY <1>1 DEF Numbers, DashboardInit
<1> QED BY <1>2 DEF DashboardInit, DashboardInv, DashboardTypeOK, AnsweredIsKept, RunsComeFirst

(* A page becomes another.                                                 *)
LEMMA PageMoves ==
  ASSUME DashboardInv, NEW p \in Pages, NEW page \in PagesOf(Numbers), Becomes(p, page)
  PROVE  DashboardInv'
BY DEF Becomes, DashboardInv, DashboardTypeOK, AnsweredIsKept, RunsComeFirst, Kept, Numbers, Requests

(* A new statement, of a kind and for an id that the others allow.         *)
LEMMA HandedKeeps ==
  ASSUME DashboardInv, NEW kind \in {"snapshot", "run", "complete"}, NEW id,
         HandToDatabase(Handed(kind, id)), posted' \in Nat, posted <= posted',
         kind = "snapshot" => id \in 1 .. posted',
         kind = "run" => \A q \in Requests : q.id # id,
         kind = "complete" => \A s \in statements : s.of # [kind |-> "run", id |-> id]
  PROVE  DashboardInv'
<1> DEFINE new == Handed(kind, id)
<1>1. /\ new = [of |-> new.of, at |-> new.at] /\ new.at = "handed"
      /\ new.of = [kind |-> kind, id |-> id] /\ new.of.kind = kind /\ new.of.id = id
  BY DEF Handed
<1>2. /\ statements' = statements \cup {new}
      /\ UNCHANGED <<serverUp, db, promised, pages, outages>>
  BY DEF HandToDatabase
<1> HIDE DEF new
<1>3. posted \in Nat /\ 1 .. posted \subseteq 1 .. posted'
  BY DEF DashboardInv, DashboardTypeOK
<1>4. DashboardTypeOK'
  BY <1>1, <1>2, <1>3 DEF DashboardInv, DashboardTypeOK, Numbers
<1>5. AnsweredIsKept'
  BY <1>1, <1>2 DEF DashboardInv, AnsweredIsKept, Kept
<1>6. Requests' = Requests \cup {new.of}
  BY <1>2 DEF Requests
<1>7. RunsComeFirst'
  <2> SUFFICES ASSUME NEW s \in statements \cup {new}, s.of.kind = "run",
                      NEW q \in Requests \cup {new.of}, q.kind = "complete"
               PROVE  q.id # s.of.id
    BY <1>2, <1>6 DEF RunsComeFirst
  <2>1. CASE s \in statements /\ q \in Requests
    BY <2>1 DEF DashboardInv, RunsComeFirst
  <2>2. CASE s = new /\ q \in Requests
    BY <2>2, <1>1
  <2>3. CASE s \in statements /\ q = new.of
    BY <2>3, <1>1 DEF DashboardInv, DashboardTypeOK
  <2>4. CASE s = new /\ q = new.of
    BY <2>4, <1>1
  <2> QED BY <2>1, <2>2, <2>3, <2>4
<1> QED BY <1>4, <1>5, <1>7 DEF DashboardInv

(* A request that is executed is kept, and so is what was kept before,     *)
(* unless it is the completion of a run that is inserted now.              *)
LEMMA ExecutedKeeps ==
  ASSUME DashboardTypeOK, NEW s \in statements, db' = Executed(s.of)
  PROVE  /\ db' = [snapshots |-> db'.snapshots, runs |-> db'.runs]
         /\ db.snapshots \subseteq db'.snapshots /\ db'.snapshots \subseteq db.snapshots \cup 1 .. posted
         /\ Kept(s.of)'
         /\ \A q : /\ Kept(q)
                   /\ s.of.kind = "run" /\ q.kind = "complete" => q.id # s.of.id
                   => Kept(q)'
<1> DEFINE r == s.of
<1>1. /\ db = [snapshots |-> db.snapshots, runs |-> db.runs]
      /\ r.kind \in {"snapshot", "run", "complete"}
      /\ r.kind = "snapshot" => r.id \in 1 .. posted
  BY DEF DashboardTypeOK
<1>2. CASE r.kind = "snapshot"
  <2>1. db' = [snapshots |-> db.snapshots \cup {r.id}, runs |-> db.runs]
    BY <1>1, <1>2 DEF Executed
  <2> QED BY <1>1, <1>2, <2>1 DEF Kept
<1>3. CASE r.kind = "run"
  <2> DEFINE new == [x \in DOMAIN db.runs \cup {r.id} |-> IF x = r.id THEN "RUNNING" ELSE db.runs[x]]
  <2>1. db' = [snapshots |-> db.snapshots, runs |-> new]
    BY <1>1, <1>3 DEF Executed
  <2> QED BY <1>1, <1>3, <2>1 DEF Kept
<1>4. CASE r.kind = "complete"
  <2> DEFINE new == [x \in DOMAIN db.runs |-> IF x = r.id THEN "COMPLETE" ELSE db.runs[x]]
  <2>1. db' = [snapshots |-> db.snapshots, runs |-> new]
    BY <1>1, <1>4 DEF Executed
  <2> QED BY <1>1, <1>4, <2>1 DEF Kept
<1> QED BY <1>1, <1>2, <1>3, <1>4

LEMMA DatabaseKeeps ==
  ASSUME DashboardInv, NEW s \in statements, DatabaseExecutes(s)
  PROVE  DashboardInv'
<1> DEFINE to == IF db' = db /\ statements' = (statements \ {s}) \cup {[s EXCEPT !.at = "failed"]}
                 THEN "failed" ELSE "done"
           t == [s EXCEPT !.at = to]
<1> USE DEF DashboardInv
<1>1. /\ s = [of |-> s.of, at |-> s.at] /\ s.at = "handed"
      /\ s.of = [kind |-> s.of.kind, id |-> s.of.id]
      /\ s.of.kind \in {"snapshot", "run", "complete"}
      /\ s.of.kind = "snapshot" => s.of.id \in 1 .. posted
  BY DEF DatabaseExecutes, DashboardTypeOK
<1>2. /\ statements' = (statements \ {s}) \cup {t}
      /\ UNCHANGED <<serverUp, posted, promised, pages>>
      /\ to = "failed" => db' = db
      /\ to = "done" => db' = Executed(s.of)
      /\ to \in {"done", "failed"}
  BY DEF DatabaseExecutes
<1> HIDE DEF to
<1>3. t = [of |-> s.of, at |-> to] /\ t.of = s.of /\ t.at = to
  BY <1>1
<1> HIDE DEF t
<1>4. Requests' = Requests
  BY <1>2, <1>3 DEF Requests
<1>5. RunsComeFirst'
  BY <1>2, <1>3, <1>4 DEF RunsComeFirst
<1>6. /\ db' = [snapshots |-> db'.snapshots, runs |-> db'.runs]
      /\ db.snapshots \subseteq db'.snapshots /\ db'.snapshots \subseteq 1 .. posted
      /\ to = "done" => Kept(s.of)'
      /\ \A q \in Requests : Kept(q) => Kept(q)'
  <2>1. CASE to = "failed"
    BY <2>1, <1>2 DEF DashboardTypeOK, Kept
  <2>2. CASE to = "done"
    <3>1. \A q \in Requests : s.of.kind = "run" /\ q.kind = "complete" => q.id # s.of.id
      BY DEF RunsComeFirst
    <3>2. db' = Executed(s.of) /\ DashboardTypeOK
      BY <2>2, <1>2
    <3>3. /\ db' = [snapshots |-> db'.snapshots, runs |-> db'.runs]
          /\ db.snapshots \subseteq db'.snapshots /\ db'.snapshots \subseteq db.snapshots \cup 1 .. posted
          /\ Kept(s.of)'
          /\ \A q : /\ Kept(q)
                    /\ s.of.kind = "run" /\ q.kind = "complete" => q.id # s.of.id
                    => Kept(q)'
      BY <3>2, ExecutedKeeps
    <3> QED BY <3>1, <3>3 DEF DashboardTypeOK
  <2> QED BY <2>1, <2>2, <1>2
<1>7. DashboardTypeOK'
  <2>1. pages' \in [Pages -> PagesOf(Numbers')]
    <3>1. Numbers \subseteq Numbers' /\ pages' = pages /\ pages \in [Pages -> PagesOf(Numbers)]
      BY <1>2, <1>6 DEF Numbers, DashboardTypeOK
    <3>2. \A p \in Pages : pages[p] \in PagesOf(Numbers')
      BY <3>1, PagesWiden
    <3> QED BY <3>1, <3>2
  <2>2. \A q \in statements' : /\ q = [of |-> q.of, at |-> q.at]
                               /\ q.of = [kind |-> q.of.kind, id |-> q.of.id]
                               /\ q.at \in {"handed", "done", "failed"}
                               /\ q.of.kind \in {"snapshot", "run", "complete"}
                               /\ q.of.kind = "snapshot" => q.of.id \in 1 .. posted
    BY <1>1, <1>2, <1>3 DEF DashboardTypeOK
  <2> QED BY <2>1, <2>2, <1>2, <1>6 DEF DashboardTypeOK, Numbers
<1>8. AnsweredIsKept'
  <2>1. \A q \in statements : q.of \in Requests
    BY DEF Requests
  <2>2. \A q \in promised : q \in Requests
    BY DEF Requests
  <2>3. ASSUME NEW q \in statements', q.at = "done" PROVE Kept(q.of)'
    <3>1. CASE q = t
      BY <3>1, <2>3, <1>3, <1>6
    <3>2. CASE q \in statements
      BY <3>2, <2>3, <2>1, <1>6 DEF AnsweredIsKept
    <3> QED BY <3>1, <3>2, <1>2
  <2>4. ASSUME NEW q \in promised PROVE Kept(q)'
    BY <2>2, <1>6 DEF AnsweredIsKept
  <2> QED BY <2>3, <2>4, <1>2 DEF AnsweredIsKept
<1> QED BY <1>5, <1>7, <1>8

(* An answer: what was executed is promised, and broadcast.                *)
LEMMA CallbackKeeps ==
  ASSUME DashboardInv, NEW s \in statements, Callback(s)
  PROVE  DashboardInv'
<1> USE DEF DashboardInv
<1>1. /\ s.at # "handed" /\ statements' = statements \ {s}
      /\ UNCHANGED <<serverUp, posted, db, outages>>
      /\ s.at \in {"handed", "done", "failed"}
      /\ s.of.kind = "snapshot" => s.of.id \in 1 .. posted
  BY DEF Callback, DashboardTypeOK
<1>2. promised' \in {promised, promised \cup {s.of}} /\ pages' \in [Pages -> PagesOf(Numbers)]
      /\ (promised' # promised => s.at = "done")
  <2>1. CASE s.at = "failed"
    BY <2>1, <1>1 DEF Callback, DashboardTypeOK
  <2>2. CASE s.at = "done"
    <3>1. Tell(s.of)
      BY <2>2 DEF Callback
    <3>2. CASE s.of.kind = "snapshot"
      <4> DEFINE n == s.of.id
      <4>1. n \in Numbers
        BY <2>2, <3>2 DEF AnsweredIsKept, Kept, Numbers
      <4>2. pages' = BroadcastSnapshot(n)
        BY <3>1, <3>2 DEF Tell
      <4> HIDE DEF n
      <4>3. ASSUME NEW p \in Pages
            PROVE  [pages[p] EXCEPT !.wire = Append(@, n)] \in PagesOf(Numbers)
        <5>1. pages[p] \in PagesOf(Numbers)
          BY DEF DashboardTypeOK
        <5>2. Append(pages[p].wire, n) \in Seq(Numbers)
          BY <4>1, <5>1 DEF PagesOf
        <5> QED BY <5>1, <5>2 DEF PagesOf
      <4> QED BY <3>1, <4>2, <4>3, <2>2 DEF Tell, BroadcastSnapshot, DashboardTypeOK
    <3>3. CASE s.of.kind # "snapshot"
      BY <2>2, <3>1, <3>3 DEF Tell, DashboardTypeOK
    <3> QED BY <3>2, <3>3
  <2> QED BY <2>1, <2>2, <1>1
<1>3. DashboardTypeOK'
  BY <1>1, <1>2 DEF DashboardTypeOK, Numbers
<1>4. AnsweredIsKept'
  BY <1>1, <1>2 DEF AnsweredIsKept, Kept
<1>5. Requests' \subseteq Requests
  BY <1>1, <1>2 DEF Requests
<1>6. RunsComeFirst'
  BY <1>1, <1>5 DEF RunsComeFirst
<1> QED BY <1>3, <1>4, <1>6

(* The server ends: what it had under way is lost, the tables are not.     *)
LEMMA EndKeepsTables ==
  ASSUME DashboardInv, ServerEnds
  PROVE  DashboardInv'
<1> USE DEF DashboardInv
<1>1. /\ statements' = {} /\ UNCHANGED <<posted, db, promised>>
      /\ pages' = [p \in Pages |-> IF pages[p].socket = "open"
                                   THEN [pages[p] EXCEPT !.socket = "closing"] ELSE pages[p]]
  BY DEF ServerEnds
<1>2. \A p \in Pages : /\ pages[p] \in PagesOf(Numbers)
                       /\ [pages[p] EXCEPT !.socket = "closing"] \in PagesOf(Numbers)
  <2> SUFFICES ASSUME NEW p \in Pages, NEW page, page = pages[p]
               PROVE  /\ page \in PagesOf(Numbers)
                      /\ [page EXCEPT !.socket = "closing"] \in PagesOf(Numbers)
    OBVIOUS
  <2>1. page \in PagesOf(Numbers)
    BY DEF DashboardTypeOK
  <2> QED BY <2>1 DEF PagesOf
<1>3. pages' \in [Pages -> PagesOf(Numbers)]
  BY <1>1, <1>2
<1>4. DashboardTypeOK'
  BY <1>1, <1>3 DEF DashboardTypeOK, Numbers
<1> QED BY <1>1, <1>4 DEF AnsweredIsKept, Kept, RunsComeFirst

(* The steps of a page.                                                    *)
LEMMA PageSteps ==
  ASSUME DashboardInv, NEW p \in Pages,
         \/ Mount(p) \/ Unmount(p) \/ LatestRead(p) \/ LatestArrives(p) \/ LatestFails(p)
         \/ SocketOpens(p) \/ SocketCut(p) \/ Message(p) \/ SocketCloses(p) \/ ConnectWebSocket(p)
  PROVE  DashboardInv'
<1> DEFINE page == pages[p]
<1>1. /\ page \in PagesOf(Numbers) /\ posted \in Nat /\ db.snapshots \subseteq 1 .. posted
      /\ 0 \in Numbers
  BY DEF DashboardInv, DashboardTypeOK, Numbers
<1>2. /\ page.wire \in Seq(Numbers) /\ page.fetch.latest \in Numbers
      /\ page.fetch \in [at : {"none", "asked", "read"}, latest : Numbers]
      /\ NoFetch \in [at : {"none", "asked", "read"}, latest : Numbers]
  BY <1>1 DEF PagesOf, NoFetch
<1>3. \A q \in PagesOf(Numbers), n \in Numbers : Shows(q, n) \in PagesOf(Numbers)
  BY DEF Shows, PagesOf
<1>4. SUFFICES \E next \in PagesOf(Numbers) : Becomes(p, next)
  BY PageMoves
<1>5. CASE Mount(p)
  <2>1. [Unmounted EXCEPT !.mounted = TRUE, !.socket = "connecting", !.fetch.at = "asked"]
           \in PagesOf(Numbers)
    <3>1. Unmounted \in PagesOf(Numbers)
      BY <1>1, <1>2 DEF PagesOf, Unmounted
    <3> SUFFICES ASSUME NEW idle \in PagesOf(Numbers), NEW mounted, mounted = TRUE,
                        NEW socket, socket = "connecting", NEW fetch, fetch = "asked"
                 PROVE  [idle EXCEPT !.mounted = mounted, !.socket = socket, !.fetch.at = fetch]
                          \in PagesOf(Numbers)
      BY <3>1
    <3> QED BY DEF PagesOf
  <2> QED BY <1>5, <2>1 DEF Mount
<1>6. CASE Unmount(p)
  <2>1. [page EXCEPT !.mounted = FALSE] \in PagesOf(Numbers)
    BY <1>1 DEF PagesOf
  <2> QED BY <1>6, <2>1 DEF Unmount
<1>7. CASE LatestRead(p)
  <2>1. Numbers \subseteq 0 .. posted /\ Numbers # {}
    BY <1>1 DEF Numbers
  <2>2. Max(Numbers) \in Numbers
    BY <1>1, <2>1, MaxIsMember
  <2>3. [page EXCEPT !.fetch = [at |-> "read", latest |-> Max(Numbers)]] \in PagesOf(Numbers)
    BY <1>1, <2>2 DEF PagesOf
  <2> QED BY <1>7, <2>3 DEF LatestRead, Numbers
<1>8. [page EXCEPT !.fetch = NoFetch] \in PagesOf(Numbers)
  BY <1>1, <1>2 DEF PagesOf
<1>9. CASE LatestArrives(p)
  BY <1>2, <1>3, <1>8, <1>9 DEF LatestArrives
<1>10. CASE LatestFails(p)
  BY <1>8, <1>10 DEF LatestFails
<1>11. \A socket \in {"none", "connecting", "open", "closing", "waiting"} :
         [page EXCEPT !.socket = socket] \in PagesOf(Numbers)
  BY <1>1 DEF PagesOf
<1>12. CASE SocketOpens(p) \/ SocketCut(p) \/ ConnectWebSocket(p)
  BY <1>11, <1>12 DEF SocketOpens, SocketCut, ConnectWebSocket
<1>13. CASE Message(p)
  <2>1. page.wire # << >> /\ Becomes(p, Shows([page EXCEPT !.wire = Tail(@)], Head(page.wire)))
    BY <1>13 DEF Message
  <2>2. Head(page.wire) \in Numbers /\ Tail(page.wire) \in Seq(Numbers)
    BY <2>1, <1>2
  <2>3. [page EXCEPT !.wire = Tail(@)] \in PagesOf(Numbers)
    BY <1>1, <2>2 DEF PagesOf
  <2> QED BY <1>3, <2>1, <2>2, <2>3
<1>14. CASE SocketCloses(p)
  <2>1. [page EXCEPT !.socket = "waiting", !.wire = << >>] \in PagesOf(Numbers)
    <3>1. << >> \in Seq(Numbers)
      OBVIOUS
    <3> QED BY <3>1, <1>1 DEF PagesOf
  <2> QED BY <1>14, <2>1 DEF SocketCloses
<1> QED BY <1>5, <1>6, <1>7, <1>9, <1>10, <1>12, <1>13, <1>14

LEMMA DashboardStep == DashboardInv /\ [DashboardNext]_dashboardVars => DashboardInv'
<1> SUFFICES ASSUME DashboardInv, [DashboardNext]_dashboardVars PROVE DashboardInv'
  OBVIOUS
<1>0. posted \in Nat
  BY DEF DashboardInv, DashboardTypeOK
<1>1. CASE PostSnapshot
  <2>1. /\ posted' = posted + 1 /\ HandToDatabase(Handed("snapshot", posted + 1))
        /\ posted' \in Nat /\ posted <= posted' /\ posted + 1 \in 1 .. posted'
    BY <1>0, <1>1 DEF PostSnapshot
  <2> QED BY <2>1, HandedKeeps
<1>2. ASSUME NEW r \in Runs, PostRun(r) PROVE DashboardInv'
  <2>1. /\ posted' = posted /\ posted' \in Nat /\ posted <= posted'
        /\ HandToDatabase(Handed("run", r)) /\ \A q \in Requests : q.id # r
    BY <1>0, <1>2 DEF PostRun
  <2> QED BY <2>1, HandedKeeps
<1>3. ASSUME NEW r \in Runs, PostComplete(r) PROVE DashboardInv'
  <2>1. /\ posted' = posted /\ posted' \in Nat /\ posted <= posted'
        /\ HandToDatabase(Handed("complete", r))
        /\ \A s \in statements : s.of # [kind |-> "run", id |-> r]
    BY <1>0, <1>3 DEF PostComplete, Handed
  <2> QED BY <2>1, HandedKeeps
<1>4. ASSUME NEW s \in statements, DatabaseExecutes(s) \/ Callback(s) PROVE DashboardInv'
  BY <1>4, DatabaseKeeps, CallbackKeeps
<1>5. CASE ServerEnds
  BY <1>5, EndKeepsTables
<1>6. CASE ServerStarts \/ UNCHANGED dashboardVars
  BY <1>6 DEF ServerStarts, dashboardVars, DashboardInv, DashboardTypeOK, AnsweredIsKept,
     RunsComeFirst, Kept, Numbers, Requests
<1>7. ASSUME NEW p \in Pages,
             \/ Mount(p) \/ Unmount(p) \/ LatestRead(p) \/ LatestArrives(p) \/ LatestFails(p)
             \/ SocketOpens(p) \/ SocketCut(p) \/ Message(p) \/ SocketCloses(p) \/ ConnectWebSocket(p)
      PROVE  DashboardInv'
  BY <1>7, PageSteps
<1> QED BY <1>1, <1>2, <1>3, <1>4, <1>5, <1>6, <1>7 DEF DashboardNext

(* For any number of pages, runs, snapshots and ends of the server, what   *)
(* is shown or was promised is in the database.                            *)
THEOREM ShownStaysStored == DashboardSpec => []ShownIsStored
<1>1. DashboardInv => ShownIsStored
  <2> SUFFICES ASSUME DashboardInv PROVE ShownIsStored
    OBVIOUS
  <2>1. ASSUME NEW p \in Pages PROVE Seen(pages[p]) \subseteq db.snapshots \cup {0}
    <3>1. pages[p] \in PagesOf(Numbers)
      BY DEF DashboardInv, DashboardTypeOK
    <3>2. /\ pages[p].wire \in Seq(Numbers) /\ pages[p].shown \in Numbers
          /\ pages[p].fetch.latest \in Numbers
      BY <3>1 DEF PagesOf
    <3>3. \A i \in DOMAIN pages[p].wire : pages[p].wire[i] \in Numbers
      BY <3>2
    <3> QED BY <3>2, <3>3 DEF Seen, Numbers
  <2> QED BY <2>1 DEF DashboardInv, AnsweredIsKept, Kept, ShownIsStored
<1> QED BY <1>1, DashboardStart, DashboardStep, PTL DEF DashboardSpec
-----------------------------------------------------------------------------
(***************************************************************************)
(* The dump store: for any number of writers of either kind, deaths,       *)
(* losses of power and full disks the chained dumps stay one chain, what   *)
(* was reported published is durable, nothing is published over the        *)
(* remains of a dead writer, and the ledger has no gaps.                   *)
(* The argument: a dump that a power loss could still take has its         *)
(* temporary file beside it, and nobody goes on who sees one; so whoever   *)
(* follows a dump follows one that will stay, and nobody else works on the *)
(* directory between his last look and his link.                           *)
(***************************************************************************)
Kinds == {"dump", "side"}
Four == {"dump", "side", "dumptmp", "sidetmp"}
Names == (Writers \X Four) \cup {Ledger}
Publishing == {"write", "link", "sync", "unlink"} \X Kinds
Holding == {<<"locked", "none">>, <<"fits", "none">>} \cup Publishing
StorerPlaces == {Begin, <<"observed", "none">>, Refused, Published} \cup Holding
ControllerPlaces == {Begin, Refused, Published, <<"append", "none">>}
                      \cup ({"create", "fill"} \X Kinds)

DumpTypeOK ==
  /\ dir \subseteq Names /\ synced \subseteq Names
  /\ partial \subseteq Controllers \X Kinds
  /\ order \in Seq(Controllers)
  /\ DOMAIN previous = Storers /\ previous = [s \in Storers |-> previous[s]]
  /\ ledger \in Seq(Lines)
  /\ at \in [Writers -> StorerPlaces \cup ControllerPlaces]
  /\ \A s \in Storers : at[s] \in StorerPlaces
  /\ \A c \in Controllers : at[c] \in ControllerPlaces
  /\ lock \in Storers \cup {Genesis}
  /\ accidents \in Nat

(* Who is between taking the lock and giving it back holds it.             *)
LockIsHeld == \A s \in Storers : at[s] \in Holding => lock = s

NoNames(s) == \A kind \in Four : <<s, kind>> \notin dir \cup synced

(* What a storer's place says of the files it has made so far.             *)
FilesOf(s) ==
  /\ at[s] \in {Begin, <<"observed", "none">>, <<"locked", "none">>, <<"fits", "none">>,
                <<"write", "dump">>} => NoNames(s)
  /\ at[s] = <<"link", "dump">> => <<s, "dump">> \notin dir \cup synced /\ <<s, "dumptmp">> \in dir
  /\ at[s] = <<"sync", "dump">> => <<s, "dump">> \in dir
  /\ at[s] \in {<<"link", "dump">>, <<"sync", "dump">>} => <<s, "side">> \notin dir
  /\ at[s] \in {<<"unlink", "dump">>, <<"write", "side">>, <<"link", "side">>, <<"sync", "side">>}
       => <<s, "dump">> \in dir \cap synced
  /\ at[s] = <<"sync", "side">> => <<s, "side">> \in dir
  /\ at[s] \in {<<"unlink", "side">>, Published}
       => <<s, "dump">> \in dir \cap synced /\ <<s, "side">> \in dir \cap synced

(* A dump that a loss of power may take has its temporary file beside it   *)
(* or no sidecar, and none that the disk knows of is removed.              *)
UnsyncedIsSeen(s) ==
  /\ <<s, "dump">> \in dir \ synced => <<s, "dumptmp">> \in dir \/ <<s, "side">> \notin dir
  /\ <<s, "dump">> \in synced => <<s, "dump">> \in dir

FilesMatchPlaces == \A s \in Storers : FilesOf(s) /\ UnsyncedIsSeen(s)

Clean(s) == /\ <<s, "dump">> \in dir <=> <<s, "side">> \in dir
            /\ <<s, "dumptmp">> \notin dir /\ <<s, "sidetmp">> \notin dir

Publishes(s) == at[s] \in {<<"write", "dump">>, <<"link", "dump">>}

(* Between its last look at the directory and the link of its dump, what   *)
(* a storer has seen stays true: the others left no remains, none of them  *)
(* follows it, and none follows the dump that it will follow.              *)
PublisherIsRight ==
  \A s \in Storers : Publishes(s) =>
    /\ \A t \in Storers \ {s} : Clean(t)
    /\ \A t \in Chained : previous[t] # s /\ previous[t] # previous[s]
    /\ Chained # {} => previous[s] \in Chained

(* The chain: nothing is followed twice, one dump at most follows none     *)
(* that is there, and a dump that another one follows will stay.           *)
ChainHolds ==
  /\ \A s, t \in Chained : previous[s] = previous[t] => s = t
  /\ \A s, t \in Chained : previous[s] \notin Chained /\ previous[t] \notin Chained => s = t
  /\ \A s \in Chained : previous[s] \in Chained \ {s} => <<previous[s], "dump">> \in synced

(* A step touches none of a storer's files.                                *)
Untouched(s) ==
  \A kind \in Four : /\ <<s, kind>> \in dir' <=> <<s, kind>> \in dir
                     /\ <<s, kind>> \in synced' <=> <<s, kind>> \in synced

ChainInv == DumpTypeOK /\ LockIsHeld /\ FilesMatchPlaces /\ PublisherIsRight /\ ChainHolds
DumpInv == ChainInv /\ LedgerIsLinked

-----------------------------------------------------------------------------
(* Nobody has begun.                                                       *)
LEMMA StoreStart == DumpInit => DumpInv
<1> SUFFICES ASSUME DumpInit PROVE DumpInv
  OBVIOUS
<1> USE DEF DumpInit
<1>1. ledger \in Seq(Lines) /\ LedgerIsLinked
  BY LedgerAssumption DEF LedgerIsLinked
<1>2. dir \subseteq {Ledger}
  OBVIOUS
<1>3. \A s \in Storers : \A kind : <<s, kind>> # Ledger
  BY DumpAssumption DEF Ledger
<1>4. DumpTypeOK
  <2>1. \A w \in Writers : at[w] = Begin
    OBVIOUS
  <2>2. at \in [Writers -> StorerPlaces \cup ControllerPlaces]
    BY DEF StorerPlaces
  <2> QED BY <1>1, <1>2, <2>1, <2>2, DumpAssumption
    DEF DumpTypeOK, Names, StorerPlaces, ControllerPlaces, Writers
<1>5. \A s \in Storers : at[s] = Begin
  BY DEF Writers
<1>6. LockIsHeld
  BY <1>5 DEF LockIsHeld, Holding, Publishing, Begin
<1>7. \A s \in Storers : NoNames(s)
  BY <1>2, <1>3 DEF NoNames, Four
<1>8. FilesMatchPlaces
  <2>1. ASSUME NEW s \in Storers PROVE FilesOf(s)
    <3>1. at[s] = Begin /\ NoNames(s)
      BY <1>5, <1>7
    <3>2. Begin \notin Publishing \cup {Published}
      BY DEF Begin, Published, Publishing, Kinds
    <3>3. \A step \in {"write", "link", "sync", "unlink"} : \A kind \in Kinds : <<step, kind>> \in Publishing
      BY DEF Publishing
    <3> QED BY <3>1, <3>2, <3>3 DEF FilesOf, Kinds
  <2>2. ASSUME NEW s \in Storers PROVE UnsyncedIsSeen(s)
    BY <1>7 DEF UnsyncedIsSeen, NoNames, Four
  <2> QED BY <2>1, <2>2 DEF FilesMatchPlaces
<1>9. PublisherIsRight
  BY <1>5 DEF PublisherIsRight, Publishes, Begin
<1>10. Chained = {}
  BY <1>7 DEF NoNames, Four, Chained, Dumps
<1>11. ChainHolds
  BY <1>10 DEF ChainHolds
<1> QED
  BY <1>1, <1>4, <1>6, <1>8, <1>9, <1>11 DEF DumpInv, ChainInv

-----------------------------------------------------------------------------
(* A step moves one writer.                                                *)
LEMMA OneMoves ==
  ASSUME DumpTypeOK, NEW w \in Writers, NEW from, NEW to, Goes(w, from, to),
         w \in Storers => to \in StorerPlaces, w \in Controllers => to \in ControllerPlaces
  PROVE  /\ at' \in [Writers -> StorerPlaces \cup ControllerPlaces]
         /\ \A s \in Storers : at'[s] \in StorerPlaces
         /\ \A c \in Controllers : at'[c] \in ControllerPlaces
         /\ at[w] = from /\ at'[w] = to
         /\ \A v \in Writers \ {w} : at'[v] = at[v]
BY DEF DumpTypeOK, Goes, Writers

(* What a storer's files say of it holds while nobody touches them, and    *)
(* when the disk learns of them.                                           *)
LEMMA FilesStay ==
  ASSUME NEW s \in Storers, FilesOf(s), UnsyncedIsSeen(s), at'[s] \in {at[s], Refused},
         \A kind \in Four : /\ <<s, kind>> \in dir' <=> <<s, kind>> \in dir
                            /\ <<s, kind>> \in synced => <<s, kind>> \in synced'
                            /\ <<s, kind>> \in synced' => <<s, kind>> \in dir \cup synced
  PROVE  FilesOf(s)' /\ UnsyncedIsSeen(s)'
<1> USE DEF Four
<1>1. UnsyncedIsSeen(s)'
  BY DEF UnsyncedIsSeen
<1>2. CASE at'[s] = at[s]
  <2>1. NoNames(s) => NoNames(s)'
    BY DEF NoNames, Four
  <2> QED BY <1>1, <1>2, <2>1 DEF FilesOf
<1>3. CASE at'[s] = Refused
  <2>1. Refused \notin Publishing \cup {Published, Begin, <<"observed", "none">>,
                                        <<"locked", "none">>, <<"fits", "none">>}
    BY DEF Refused, Begin, Published, Publishing, Kinds
  <2>2. \A step \in {"write", "link", "sync", "unlink"} : \A kind \in Kinds : <<step, kind>> \in Publishing
    BY DEF Publishing
  <2> QED BY <1>1, <1>3, <2>1, <2>2 DEF FilesOf, Kinds
<1> QED BY <1>2, <1>3

(* The chain holds while no dump comes or goes and nobody begins to        *)
(* publish.                                                                *)
LEMMA ChainStays ==
  ASSUME PublisherIsRight, ChainHolds, Chained' = Chained,
         \A s \in Chained : /\ previous'[s] = previous[s]
                            /\ <<s, "dump">> \in synced => <<s, "dump">> \in synced',
         \A s \in Storers : Publishes(s)' =>
           /\ Publishes(s) /\ previous'[s] = previous[s]
           /\ \A t \in Storers \ {s} : Clean(t) => Clean(t)'
  PROVE  PublisherIsRight' /\ ChainHolds'
<1>1. ChainHolds'
  BY DEF ChainHolds
<1>2. PublisherIsRight'
  BY DEF PublisherIsRight, Publishes
<1> QED BY <1>1, <1>2

(* A step that touches no storer's file, but may end storers.              *)
LEMMA QuietStep ==
  ASSUME ChainInv, DumpTypeOK', LockIsHeld', previous' = previous,
         \A s \in Storers : at'[s] \in {at[s], Refused},
         \A s \in Storers : Untouched(s)
  PROVE  ChainInv'
<1>0. ASSUME NEW s \in Storers
      PROVE  /\ <<s, "dump">> \in dir' <=> <<s, "dump">> \in dir
             /\ <<s, "side">> \in dir' <=> <<s, "side">> \in dir
             /\ <<s, "dumptmp">> \in dir' <=> <<s, "dumptmp">> \in dir
             /\ <<s, "sidetmp">> \in dir' <=> <<s, "sidetmp">> \in dir
             /\ <<s, "dump">> \in synced' <=> <<s, "dump">> \in synced
  <2>1. Untouched(s)
    OBVIOUS
  <2> QED BY <2>1 DEF Untouched, Four
<1>1. FilesMatchPlaces'
  <2>1. ASSUME NEW s \in Storers PROVE FilesOf(s)' /\ UnsyncedIsSeen(s)'
    <3>1. FilesOf(s) /\ UnsyncedIsSeen(s) /\ Untouched(s) /\ at'[s] \in {at[s], Refused}
      BY DEF FilesMatchPlaces, ChainInv
    <3> QED BY <3>1, FilesStay DEF Untouched
  <2> QED BY <2>1 DEF FilesMatchPlaces
<1>2. Chained' = Chained
  BY <1>0 DEF Chained, Dumps, Writers
<1>3. ASSUME NEW s \in Storers, Publishes(s)' PROVE Publishes(s)
  <2>1. Refused \notin {<<"write", "dump">>, <<"link", "dump">>}
    BY DEF Refused
  <2> QED BY <1>3, <2>1 DEF Publishes
<1>4. \A t \in Storers : Clean(t) => Clean(t)'
  BY <1>0 DEF Clean
<1>5. \A s \in Chained : <<s, "dump">> \in synced => <<s, "dump">> \in synced'
  BY <1>0 DEF Chained
<1>6. PublisherIsRight' /\ ChainHolds'
  BY <1>2, <1>3, <1>4, <1>5, ChainStays DEF ChainInv
<1> QED BY <1>1, <1>6 DEF ChainInv

(* A step of a storer while nobody else holds the lock, in which its dump  *)
(* neither comes nor goes and no file of another one is touched.           *)
LEMMA HolderStep ==
  ASSUME ChainInv, DumpTypeOK', LockIsHeld', NEW s \in Storers,
         lock \in {s, Genesis}, ~Publishes(s)',
         FilesOf(s)', UnsyncedIsSeen(s)', previous' = previous,
         <<s, "dump">> \in dir' <=> <<s, "dump">> \in dir,
         \A v \in Storers \ {s} : at'[v] = at[v],
         \A v \in Storers \ {s}, kind \in Four : <<v, kind>> \in dir' <=> <<v, kind>> \in dir,
         synced' \in {synced, dir}
  PROVE  ChainInv'
<1>0. \A v \in Storers : <<v, "dump">> \in dir' <=> <<v, "dump">> \in dir
  BY DEF Four
<1>1. \A v \in Storers \ {s} : at[v] \notin Holding
  BY DumpAssumption DEF ChainInv, LockIsHeld
<1>2. ASSUME NEW v \in Storers \ {s} PROVE FilesOf(v)' /\ UnsyncedIsSeen(v)'
  <2>1. /\ NoNames(v) => <<v, "dumptmp">> \notin dir
        /\ FilesOf(v) /\ UnsyncedIsSeen(v)
    BY DEF ChainInv, FilesMatchPlaces, NoNames, Four
  <2>2. CASE synced' = synced
    BY <2>1, <2>2, FilesStay
  <2>3. CASE synced' = dir
    <3>1. at[v] \notin Publishing
      BY <1>1 DEF Holding
    <3>2. \A step \in {"write", "link", "sync", "unlink"} : \A kind \in Kinds : <<step, kind>> \in Publishing
      BY DEF Publishing
    <3>3. UnsyncedIsSeen(v)'
      BY <1>0, <2>3 DEF UnsyncedIsSeen
    <3>4. NoNames(v) => NoNames(v)'
      BY <2>3 DEF NoNames, Four
    <3>5. <<v, "side">> \in dir' <=> <<v, "side">> \in dir
      BY DEF Four
    <3> QED BY <1>0, <2>1, <2>3, <3>1, <3>2, <3>3, <3>4, <3>5 DEF FilesOf, Kinds
  <2> QED BY <2>2, <2>3
<1>3. FilesMatchPlaces'
  BY <1>2 DEF FilesMatchPlaces
<1>4. Chained' = Chained
  BY <1>0 DEF Chained, Dumps, Writers
<1>5. ASSUME NEW v \in Storers PROVE ~Publishes(v)'
  <2>1. \A step \in {"write", "link", "sync", "unlink"} : \A kind \in Kinds : <<step, kind>> \in Holding
    BY DEF Holding, Publishing
  <2> QED BY <1>1, <2>1 DEF Publishes, Kinds
<1>6. \A v \in Chained : <<v, "dump">> \in synced => <<v, "dump">> \in synced'
  BY DEF Chained, Dumps
<1>7. PublisherIsRight' /\ ChainHolds'
  BY <1>4, <1>5, <1>6, ChainStays DEF ChainInv
<1> QED BY <1>3, <1>7 DEF ChainInv

-----------------------------------------------------------------------------
(* What a storer observes is changed only before it has made a file.       *)
LEMMA ObserveKeeps ==
  ASSUME ChainInv, NEW s \in Storers, ObservePrevious(s)
  PROVE  ChainInv'
<1> DEFINE to == <<"observed", "none">>
<1>1. DumpTypeOK /\ Goes(s, Begin, to) /\ s \in Writers
  BY DEF ChainInv, ObservePrevious, Writers
<1>2. to \in StorerPlaces /\ s \notin Controllers
  BY DumpAssumption DEF StorerPlaces
<1>3. /\ at' \in [Writers -> StorerPlaces \cup ControllerPlaces]
      /\ \A v \in Storers : at'[v] \in StorerPlaces
      /\ \A v \in Controllers : at'[v] \in ControllerPlaces
      /\ at[s] = Begin /\ at'[s] = to
      /\ \A v \in Writers \ {s} : at'[v] = at[v]
  BY <1>1, <1>2, OneMoves
<1>4. DumpTypeOK'
  BY <1>3 DEF DumpTypeOK, ChainInv, ObservePrevious
<1>5. LockIsHeld'
  BY <1>3 DEF LockIsHeld, ChainInv, ObservePrevious, Holding, Publishing, Writers
<1>6. NoNames(s)
  BY <1>3 DEF ChainInv, FilesMatchPlaces, FilesOf
<1>7. FilesMatchPlaces'
  <2>1. ASSUME NEW v \in Storers \ {s} PROVE FilesOf(v)' /\ UnsyncedIsSeen(v)'
    <3>1. FilesOf(v) /\ UnsyncedIsSeen(v) /\ at'[v] = at[v] /\ dir' = dir /\ synced' = synced
      BY <1>3 DEF ChainInv, FilesMatchPlaces, ObservePrevious, Writers
    <3> QED BY <3>1, FilesStay
  <2>2. FilesOf(s)' /\ UnsyncedIsSeen(s)'
    BY <1>3, <1>6 DEF FilesOf, UnsyncedIsSeen, NoNames, Four, ObservePrevious, Begin, Published
  <2> QED BY <2>1, <2>2 DEF FilesMatchPlaces
<1>8. Chained' = Chained
  BY DEF Chained, Dumps, ObservePrevious
<1>9. s \notin Chained
  BY <1>6 DEF Chained, Dumps, NoNames, Four
<1>10. \A v \in Storers \ {s} : previous'[v] = previous[v]
  BY DEF ObservePrevious, ChainInv, DumpTypeOK
<1>11. ASSUME NEW v \in Storers, Publishes(v)' PROVE v # s /\ Publishes(v)
  BY <1>3, <1>11 DEF Publishes, Writers
<1>12. PublisherIsRight' /\ ChainHolds'
  <2>1. synced' = synced /\ dir' = dir /\ Chained \subseteq Storers
    BY DEF ObservePrevious, Chained
  <2>2. \A t \in Storers : Clean(t) => Clean(t)'
    BY <2>1 DEF Clean
  <2> QED BY <1>8, <1>9, <1>10, <1>11, <2>1, <2>2, ChainStays DEF ChainInv
<1> QED BY <1>4, <1>5, <1>7, <1>12 DEF ChainInv

LEMMA LockKeeps ==
  ASSUME ChainInv, NEW s \in Storers, LockDirectory(s)
  PROVE  ChainInv'
<1> DEFINE from == <<"observed", "none">>
           to   == <<"locked", "none">>
<1> USE DEF LockDirectory
<1>1. DumpTypeOK /\ Goes(s, from, to) /\ s \in Writers /\ s \notin Controllers
  BY DumpAssumption DEF ChainInv, Writers
<1>2. to \in StorerPlaces
  BY DEF StorerPlaces, Holding
<1>3. /\ at' \in [Writers -> StorerPlaces \cup ControllerPlaces]
      /\ \A v \in Storers : at'[v] \in StorerPlaces
      /\ \A v \in Controllers : at'[v] \in ControllerPlaces
      /\ at[s] = from /\ at'[s] = to
      /\ \A v \in Writers \ {s} : at'[v] = at[v]
  BY <1>1, <1>2, OneMoves
<1>4. DumpTypeOK'
  BY <1>3 DEF DumpTypeOK, ChainInv
<1>5. LockIsHeld'
  BY <1>3, DumpAssumption DEF LockIsHeld, ChainInv, Writers
<1>6. NoNames(s) /\ dir' = dir /\ synced' = synced
  BY <1>3 DEF ChainInv, FilesMatchPlaces, FilesOf
<1>7. FilesOf(s)' /\ UnsyncedIsSeen(s)'
  BY <1>3, <1>6 DEF FilesOf, UnsyncedIsSeen, NoNames, Four, Published
<1>8. ~Publishes(s)'
  BY <1>3 DEF Publishes
<1> QED BY <1>3, <1>4, <1>5, <1>6, <1>7, <1>8, HolderStep DEF Writers

LEMMA PreflightKeeps ==
  ASSUME ChainInv, NEW s \in Storers, RetentionPreflight(s)
  PROVE  ChainInv'
<1> DEFINE from == <<"locked", "none">>
           to   == <<"fits", "none">>
<1> USE DEF RetentionPreflight
<1>1. DumpTypeOK /\ Goes(s, from, to) /\ s \in Writers /\ s \notin Controllers
  BY DumpAssumption DEF ChainInv, Writers
<1>2. to \in StorerPlaces /\ from \in Holding
  BY DEF StorerPlaces, Holding
<1>3. /\ at' \in [Writers -> StorerPlaces \cup ControllerPlaces]
      /\ \A v \in Storers : at'[v] \in StorerPlaces
      /\ \A v \in Controllers : at'[v] \in ControllerPlaces
      /\ at[s] = from /\ at'[s] = to
      /\ \A v \in Writers \ {s} : at'[v] = at[v]
  BY <1>1, <1>2, OneMoves
<1>4. DumpTypeOK'
  BY <1>3 DEF DumpTypeOK, ChainInv
<1>5. LockIsHeld' /\ lock = s
  BY <1>2, <1>3 DEF LockIsHeld, ChainInv, Writers
<1>6. NoNames(s) /\ dir' = dir /\ synced' = synced
  BY <1>3 DEF ChainInv, FilesMatchPlaces, FilesOf
<1>7. FilesOf(s)' /\ UnsyncedIsSeen(s)'
  BY <1>3, <1>6 DEF FilesOf, UnsyncedIsSeen, NoNames, Four, Published
<1>8. ~Publishes(s)'
  BY <1>3 DEF Publishes
<1> QED BY <1>3, <1>4, <1>5, <1>6, <1>7, <1>8, HolderStep DEF Writers

LEMMA RefuseKeeps ==
  ASSUME ChainInv, NEW s \in Storers, Refuse(s)
  PROVE  ChainInv'
<1> USE DEF Refuse
<1>1. DumpTypeOK /\ s \in Writers /\ s \notin Controllers
  BY DumpAssumption DEF ChainInv, Writers
<1>2. Refused \in StorerPlaces /\ Refused \notin Holding
  BY DEF StorerPlaces, Holding, Publishing, Refused
<1>3. PICK from \in {<<"locked", "none">>, <<"fits", "none">>} : Goes(s, from, Refused)
  OBVIOUS
<1>4. /\ at' \in [Writers -> StorerPlaces \cup ControllerPlaces]
      /\ \A v \in Storers : at'[v] \in StorerPlaces
      /\ \A v \in Controllers : at'[v] \in ControllerPlaces
      /\ at[s] = from /\ at'[s] = Refused
      /\ \A v \in Writers \ {s} : at'[v] = at[v]
  BY <1>1, <1>2, <1>3, OneMoves
<1>5. DumpTypeOK'
  BY <1>4 DEF DumpTypeOK, ChainInv
<1>6. lock = s
  BY <1>4 DEF LockIsHeld, ChainInv, Holding
<1>7. LockIsHeld'
  BY <1>2, <1>4, <1>6 DEF LockIsHeld, ChainInv, Writers
<1>8. \A v \in Storers : at'[v] \in {at[v], Refused} /\ Untouched(v)
  BY <1>4 DEF Untouched, Writers
<1> QED BY <1>5, <1>7, <1>8, QuietStep

(* The newest dump of a sound chain is followed by none.                   *)
LEMMA HeadOfChain ==
  ASSUME DirectoryIsSound, Chained # {}
  PROVE  LatestDump \in Chained /\ \A t \in Chained : previous[t] # LatestDump
<1> DEFINE Heads == Chained \ {previous[t] : t \in Chained}
<1>1. Cardinality(Heads) = 1
  BY DEF DirectoryIsSound
<1>2. Heads # {}
  BY <1>1, FS_EmptySet
<1>3. \E h \in Chained : \A t \in Chained : previous[t] # h
  BY <1>2
<1> QED BY <1>3 DEF LatestDump

(* What the storer saw under the lock is what it will publish over.        *)
LEMMA PredecessorKeeps ==
  ASSUME ChainInv, NEW s \in Storers, PredecessorIsCurrent(s)
  PROVE  ChainInv'
<1> DEFINE from == <<"fits", "none">>
           to   == <<"write", "dump">>
<1> USE DEF PredecessorIsCurrent
<1>1. DumpTypeOK /\ Goes(s, from, to) /\ s \in Writers /\ s \notin Controllers
  BY DumpAssumption DEF ChainInv, Writers
<1>2. to \in StorerPlaces /\ from \in Holding
  BY DEF StorerPlaces, Holding, Publishing, Kinds
<1>3. /\ at' \in [Writers -> StorerPlaces \cup ControllerPlaces]
      /\ \A v \in Storers : at'[v] \in StorerPlaces
      /\ \A v \in Controllers : at'[v] \in ControllerPlaces
      /\ at[s] = from /\ at'[s] = to
      /\ \A v \in Writers \ {s} : at'[v] = at[v]
  BY <1>1, <1>2, OneMoves
<1>4. DumpTypeOK'
  BY <1>3 DEF DumpTypeOK, ChainInv
<1>5. LockIsHeld' /\ lock = s
  BY <1>2, <1>3 DEF LockIsHeld, ChainInv, Writers
<1>6. NoNames(s) /\ dir' = dir /\ synced' = synced
  BY <1>3 DEF ChainInv, FilesMatchPlaces, FilesOf
<1>7. FilesOf(s)' /\ UnsyncedIsSeen(s)'
  BY <1>3, <1>6 DEF FilesOf, UnsyncedIsSeen, NoNames, Four, Published
<1>8. FilesMatchPlaces'
  <2>1. ASSUME NEW v \in Storers \ {s} PROVE FilesOf(v)' /\ UnsyncedIsSeen(v)'
    <3>1. FilesOf(v) /\ UnsyncedIsSeen(v) /\ at'[v] = at[v]
      BY <1>3 DEF ChainInv, FilesMatchPlaces, Writers
    <3> QED BY <1>6, <3>1, FilesStay
  <2> QED BY <1>7, <2>1 DEF FilesMatchPlaces
<1>9. Chained' = Chained /\ previous' = previous
  BY DEF Chained, Dumps
<1>10. ChainHolds'
  BY <1>6, <1>9 DEF ChainInv, ChainHolds
<1>11. \A t \in Storers : Clean(t)'
  BY <1>6 DEF DirectoryIsSound, NothingIsLeft, Clean, Writers
<1>12. \A t \in Chained : previous[t] # s
  <2>1. s \notin Dumps \cup {Genesis}
    BY <1>6, DumpAssumption DEF Dumps, NoNames, Four
  <2> QED BY <2>1 DEF DirectoryIsSound
<1>13. Chained # {} => previous[s] \in Chained /\ \A t \in Chained : previous[t] # previous[s]
  BY HeadOfChain
<1>14. PublisherIsRight'
  <2>1. ASSUME NEW v \in Storers, Publishes(v)' PROVE v = s
    <3>1. \A step \in {"write", "link", "sync", "unlink"} : \A kind \in Kinds : <<step, kind>> \in Holding
      BY DEF Holding, Publishing
    <3> QED BY <1>3, <1>5, <2>1, <3>1 DEF Publishes, Kinds, ChainInv, LockIsHeld, Writers
  <2> QED BY <1>9, <1>11, <1>12, <1>13, <2>1 DEF PublisherIsRight, Publishes
<1> QED BY <1>4, <1>5, <1>8, <1>10, <1>14 DEF ChainInv

-----------------------------------------------------------------------------
(* Whoever publishes holds the lock.                                       *)
LEMMA PublisherMoves ==
  ASSUME ChainInv, NEW s \in Storers, NEW from \in Publishing, NEW to \in StorerPlaces,
         Goes(s, from, to),
         \/ to \in Holding /\ lock' = lock
         \/ to \notin Holding /\ lock' = Genesis
  PROVE  /\ at' \in [Writers -> StorerPlaces \cup ControllerPlaces]
         /\ \A v \in Storers : at'[v] \in StorerPlaces
         /\ \A v \in Controllers : at'[v] \in ControllerPlaces
         /\ at[s] = from /\ at'[s] = to
         /\ \A v \in Writers \ {s} : at'[v] = at[v]
         /\ lock = s /\ lock' \in Storers \cup {Genesis} /\ LockIsHeld'
         /\ s \in Writers /\ s \notin Controllers
<1>1. DumpTypeOK /\ s \in Writers /\ s \notin Controllers
  BY DumpAssumption DEF ChainInv, Writers
<1>2. /\ at' \in [Writers -> StorerPlaces \cup ControllerPlaces]
      /\ \A v \in Storers : at'[v] \in StorerPlaces
      /\ \A v \in Controllers : at'[v] \in ControllerPlaces
      /\ at[s] = from /\ at'[s] = to
      /\ \A v \in Writers \ {s} : at'[v] = at[v]
  BY <1>1, OneMoves
<1>3. lock = s
  BY <1>2 DEF LockIsHeld, ChainInv, Holding
<1>4. LockIsHeld'
  BY <1>2, <1>3 DEF LockIsHeld, ChainInv, Writers
<1> QED BY <1>1, <1>2, <1>3, <1>4

LEMMA PublishingPlaces ==
  ASSUME NEW step \in {"write", "link", "sync", "unlink"}, NEW kind \in Kinds
  PROVE  <<step, kind>> \in Publishing /\ <<step, kind>> \in Holding /\ <<step, kind>> \in StorerPlaces
BY DEF Publishing, Holding, StorerPlaces

LEMMA EndPlaces ==
  /\ Refused \in StorerPlaces \cap ControllerPlaces /\ Published \in StorerPlaces
  /\ Refused \notin Holding /\ Published \notin Holding
BY DEF StorerPlaces, ControllerPlaces, Holding, Publishing, Refused, Published

LEMMA WriteKeeps ==
  ASSUME ChainInv, NEW s \in Storers, NEW kind \in Kinds, WriteTemporary(s, kind)
  PROVE  ChainInv'
<1> DEFINE from == <<"write", kind>>
           to   == <<"link", kind>>
           new  == Temporary(s, kind)
<1> USE DEF WriteTemporary
<1>1. from \in Publishing /\ to \in StorerPlaces /\ to \in Holding
  BY PublishingPlaces
<1>2. /\ at' \in [Writers -> StorerPlaces \cup ControllerPlaces]
      /\ \A v \in Storers : at'[v] \in StorerPlaces
      /\ \A v \in Controllers : at'[v] \in ControllerPlaces
      /\ at[s] = from /\ at'[s] = to
      /\ \A v \in Writers \ {s} : at'[v] = at[v]
      /\ lock = s /\ lock' \in Storers \cup {Genesis} /\ LockIsHeld'
      /\ s \in Writers /\ s \notin Controllers
  BY <1>1, PublisherMoves
<1>3. new \in {<<s, "dumptmp">>, <<s, "sidetmp">>} /\ dir' = dir \cup {new} /\ synced' = synced
  BY DEF Temporary
<1>4. DumpTypeOK'
  BY <1>2, <1>3 DEF DumpTypeOK, ChainInv, Names, Four
<1>5. \A v \in Storers \ {s} : \A k \in Four : <<v, k>> \in dir' <=> <<v, k>> \in dir
  BY <1>3
<1>6. <<s, "dump">> \in dir' <=> <<s, "dump">> \in dir
  BY <1>3
<1>7. FilesOf(s) /\ UnsyncedIsSeen(s)
  BY DEF ChainInv, FilesMatchPlaces
<1>8. UnsyncedIsSeen(s)'
  BY <1>3, <1>7 DEF UnsyncedIsSeen
<1>9. CASE kind = "side"
  <2>1. FilesOf(s)'
    BY <1>2, <1>3, <1>7, <1>9 DEF FilesOf, Begin, Published
  <2>2. ~Publishes(s)'
    BY <1>2, <1>9 DEF Publishes
  <2> QED BY <1>2, <1>3, <1>4, <1>5, <1>6, <1>8, <2>1, <2>2, HolderStep DEF Writers
<1>10. CASE kind = "dump"
  <2>1. FilesOf(s)'
    <3>1. NoNames(s) /\ new = <<s, "dumptmp">>
      BY <1>2, <1>7, <1>10 DEF FilesOf, Temporary
    <3> QED BY <1>2, <1>3, <1>10, <3>1 DEF FilesOf, NoNames, Four, Begin, Published
  <2>2. ASSUME NEW v \in Storers \ {s} PROVE FilesOf(v)' /\ UnsyncedIsSeen(v)' /\ (Clean(v) => Clean(v)')
    <3>1. FilesOf(v) /\ UnsyncedIsSeen(v) /\ at'[v] = at[v]
      BY <1>2 DEF ChainInv, FilesMatchPlaces, Writers
    <3>2. FilesOf(v)' /\ UnsyncedIsSeen(v)'
      BY <1>3, <1>5, <3>1, FilesStay
    <3>3. Clean(v) => Clean(v)'
      BY <1>5 DEF Clean, Four
    <3> QED BY <3>2, <3>3
  <2>3. FilesMatchPlaces'
    BY <1>8, <2>1, <2>2 DEF FilesMatchPlaces
  <2>4. Chained' = Chained /\ previous' = previous
    BY <1>3 DEF Chained, Dumps
  <2>5. ASSUME NEW v \in Storers, Publishes(v)' PROVE v = s
    BY <1>2, <2>5, PublishingPlaces DEF Publishes, Kinds, LockIsHeld
  <2>6. Publishes(s)
    BY <1>2, <1>10 DEF Publishes
  <2>7. PublisherIsRight' /\ ChainHolds'
    BY <1>3, <2>2, <2>4, <2>5, <2>6, ChainStays DEF ChainInv
  <2> QED BY <1>2, <1>4, <2>3, <2>7 DEF ChainInv
<1> QED BY <1>9, <1>10 DEF Kinds

(* A dump is linked where it belongs: it follows the head of a chain that  *)
(* the disk knows of.                                                      *)
LEMMA LinkKeeps ==
  ASSUME ChainInv, NEW s \in Storers, NEW kind \in Kinds, LinkFile(s, kind)
  PROVE  ChainInv'
<1> DEFINE from == <<"link", kind>>
           to   == <<"sync", kind>>
<1> USE DEF LinkFile
<1>1. from \in Publishing /\ to \in StorerPlaces /\ to \in Holding
  BY PublishingPlaces
<1>2. /\ at' \in [Writers -> StorerPlaces \cup ControllerPlaces]
      /\ \A v \in Storers : at'[v] \in StorerPlaces
      /\ \A v \in Controllers : at'[v] \in ControllerPlaces
      /\ at[s] = from /\ at'[s] = to
      /\ \A v \in Writers \ {s} : at'[v] = at[v]
      /\ lock = s /\ lock' \in Storers \cup {Genesis} /\ LockIsHeld'
      /\ s \in Writers /\ s \notin Controllers
  BY <1>1, PublisherMoves
<1>3. dir' = dir \cup {<<s, kind>>} /\ synced' = synced /\ previous' = previous
  OBVIOUS
<1>4. DumpTypeOK'
  BY <1>2, <1>3 DEF DumpTypeOK, ChainInv, Names, Four, Kinds
<1>5. \A v \in Storers \ {s} : \A k \in Four : <<v, k>> \in dir' <=> <<v, k>> \in dir
  BY <1>3
<1>6. FilesOf(s) /\ UnsyncedIsSeen(s)
  BY DEF ChainInv, FilesMatchPlaces
<1>7. ~Publishes(s)'
  BY <1>2 DEF Publishes
<1>8. CASE kind = "side"
  <2>1. FilesOf(s)' /\ UnsyncedIsSeen(s)'
    BY <1>2, <1>3, <1>6, <1>8 DEF FilesOf, UnsyncedIsSeen, Begin, Published
  <2>2. <<s, "dump">> \in dir' <=> <<s, "dump">> \in dir
    BY <1>3, <1>8
  <2> QED BY <1>2, <1>3, <1>4, <1>5, <1>7, <2>1, <2>2, HolderStep DEF Writers
<1>9. CASE kind = "dump"
  <2>1. FilesOf(s)' /\ UnsyncedIsSeen(s)'
    BY <1>2, <1>3, <1>6, <1>9 DEF FilesOf, UnsyncedIsSeen, Begin, Published
  <2>2. ASSUME NEW v \in Storers \ {s} PROVE FilesOf(v)' /\ UnsyncedIsSeen(v)'
    <3>1. FilesOf(v) /\ UnsyncedIsSeen(v) /\ at'[v] = at[v]
      BY <1>2 DEF ChainInv, FilesMatchPlaces, Writers
    <3> QED BY <1>3, <1>5, <3>1, FilesStay
  <2>3. FilesMatchPlaces'
    BY <2>1, <2>2 DEF FilesMatchPlaces
  <2>4. Chained' = Chained \cup {s}
    BY <1>3, <1>9 DEF Chained, Dumps, Writers
  <2>5. ASSUME NEW v \in Storers PROVE ~Publishes(v)'
    <3>1. at'[v] \in Holding => v = s
      BY <1>2 DEF LockIsHeld
    <3> QED BY <1>7, <3>1, PublishingPlaces DEF Publishes, Kinds
  <2>6. PublisherIsRight'
    BY <2>5 DEF PublisherIsRight, Publishes
  <2>7. /\ \A t \in Storers \ {s} : Clean(t)
        /\ \A t \in Chained : previous[t] # s /\ previous[t] # previous[s]
        /\ Chained # {} => previous[s] \in Chained
    BY <1>2, <1>9 DEF ChainInv, PublisherIsRight, Publishes
  <2>8. s \notin Chained
    BY <1>2, <1>6, <1>9 DEF FilesOf, Chained, Dumps
  <2>9. \A t \in Chained : <<t, "dump">> \in synced
    <3>1. ASSUME NEW t \in Chained
          PROVE  /\ <<t, "dump">> \in dir /\ <<t, "side">> \in dir
                 /\ <<t, "dumptmp">> \notin dir /\ UnsyncedIsSeen(t)
      BY <2>7, <2>8 DEF Chained, Dumps, Clean, ChainInv, FilesMatchPlaces
    <3> QED BY <3>1 DEF UnsyncedIsSeen
  <2>10. ChainHolds'
    <3>1. \A u, t \in Chained' : previous'[u] = previous'[t] => u = t
      BY <1>3, <2>4, <2>7 DEF ChainInv, ChainHolds
    <3>2. \A u, t \in Chained' : previous'[u] \notin Chained' /\ previous'[t] \notin Chained' => u = t
      BY <1>3, <2>4, <2>7 DEF ChainInv, ChainHolds
    <3>3. \A u \in Chained' : previous'[u] \in Chained' \ {u} => <<previous'[u], "dump">> \in synced'
      BY <1>3, <2>4, <2>7, <2>9 DEF ChainInv, ChainHolds
    <3> QED BY <3>1, <3>2, <3>3 DEF ChainHolds
  <2> QED BY <1>2, <1>4, <2>3, <2>6, <2>10 DEF ChainInv
<1> QED BY <1>8, <1>9 DEF Kinds

LEMMA FsyncKeeps ==
  ASSUME ChainInv, NEW s \in Storers, NEW kind \in Kinds, FsyncDirectory(s, kind)
  PROVE  ChainInv'
<1> DEFINE from == <<"sync", kind>>
           to   == <<"unlink", kind>>
<1> USE DEF FsyncDirectory
<1>1. from \in Publishing /\ to \in StorerPlaces /\ to \in Holding
  BY PublishingPlaces
<1>2. /\ at' \in [Writers -> StorerPlaces \cup ControllerPlaces]
      /\ \A v \in Storers : at'[v] \in StorerPlaces
      /\ \A v \in Controllers : at'[v] \in ControllerPlaces
      /\ at[s] = from /\ at'[s] = to
      /\ \A v \in Writers \ {s} : at'[v] = at[v]
      /\ lock = s /\ lock' \in Storers \cup {Genesis} /\ LockIsHeld'
      /\ s \in Writers /\ s \notin Controllers
  BY <1>1, PublisherMoves
<1>3. dir' = dir /\ synced' = dir /\ previous' = previous
  OBVIOUS
<1>4. DumpTypeOK'
  BY <1>2, <1>3 DEF DumpTypeOK, ChainInv
<1>5. FilesOf(s)
  BY DEF ChainInv, FilesMatchPlaces
<1>6. UnsyncedIsSeen(s)'
  BY <1>3 DEF UnsyncedIsSeen
<1>7. FilesOf(s)'
  <2>1. CASE kind = "dump"
    BY <1>2, <1>3, <1>5, <2>1 DEF FilesOf, Begin, Published
  <2>2. CASE kind = "side"
    BY <1>2, <1>3, <1>5, <2>2 DEF FilesOf, Begin, Published
  <2> QED BY <2>1, <2>2 DEF Kinds
<1>8. ~Publishes(s)'
  BY <1>2 DEF Publishes
<1> QED BY <1>2, <1>3, <1>4, <1>6, <1>7, <1>8, HolderStep DEF Writers

LEMMA UnlinkKeeps ==
  ASSUME ChainInv, NEW s \in Storers, NEW kind \in Kinds, UnlinkTemporary(s, kind)
  PROVE  ChainInv'
<1> DEFINE from == <<"unlink", kind>>
           to   == IF kind = "dump" THEN <<"write", "side">> ELSE Published
           old  == Temporary(s, kind)
<1> USE DEF UnlinkTemporary
<1>1. from \in Publishing /\ to \in StorerPlaces
  BY PublishingPlaces, EndPlaces DEF Kinds
<1>2. \/ to \in Holding /\ lock' = lock
      \/ to \notin Holding /\ lock' = Genesis
  BY PublishingPlaces, EndPlaces DEF Kinds
<1>3. /\ at' \in [Writers -> StorerPlaces \cup ControllerPlaces]
      /\ \A v \in Storers : at'[v] \in StorerPlaces
      /\ \A v \in Controllers : at'[v] \in ControllerPlaces
      /\ at[s] = from /\ at'[s] = to
      /\ \A v \in Writers \ {s} : at'[v] = at[v]
      /\ lock = s /\ lock' \in Storers \cup {Genesis} /\ LockIsHeld'
      /\ s \in Writers /\ s \notin Controllers
  <2>1. Goes(s, from, to)
    OBVIOUS
  <2> HIDE DEF to, UnlinkTemporary
  <2> QED BY <1>1, <1>2, <2>1, PublisherMoves
<1>4. /\ old \in {<<s, "dumptmp">>, <<s, "sidetmp">>} /\ dir' = dir \ {old}
      /\ synced' = synced /\ previous' = previous
  BY DEF Temporary
<1>5. DumpTypeOK'
  BY <1>3, <1>4 DEF DumpTypeOK, ChainInv
<1>6. FilesOf(s) /\ UnsyncedIsSeen(s)
  BY DEF ChainInv, FilesMatchPlaces
<1>7. \A v \in Storers \ {s} : \A k \in Four : <<v, k>> \in dir' <=> <<v, k>> \in dir
  BY <1>4
<1>8. <<s, "dump">> \in dir' <=> <<s, "dump">> \in dir
  BY <1>4
<1>9. FilesOf(s)' /\ UnsyncedIsSeen(s)' /\ ~Publishes(s)'
  <2>1. CASE kind = "dump"
    BY <1>3, <1>4, <1>6, <2>1 DEF FilesOf, UnsyncedIsSeen, Begin, Published, Publishes
  <2>2. CASE kind = "side"
    BY <1>3, <1>4, <1>6, <2>2 DEF FilesOf, UnsyncedIsSeen, Begin, Published, Publishes
  <2> QED BY <2>1, <2>2 DEF Kinds
<1> QED BY <1>3, <1>4, <1>5, <1>7, <1>8, <1>9, HolderStep DEF Writers

(* An error takes the temporary file away; a dump that a loss of power may *)
(* take has no sidecar then, and one whose sidecar fails is known to the   *)
(* disk.                                                                   *)
LEMMA FailKeeps ==
  ASSUME ChainInv, NEW s \in Storers, NEW kind \in Kinds, PublishFails(s, kind)
  PROVE  ChainInv'
<1> DEFINE old == Temporary(s, kind)
           to  == Refused
<1> USE DEF PublishFails
<1>1. PICK from \in {<<"write", kind>>, <<"link", kind>>, <<"sync", kind>>} : Goes(s, from, to)
  OBVIOUS
<1>2. from \in Publishing /\ to \in StorerPlaces /\ to \notin Holding /\ lock' = Genesis
  BY PublishingPlaces, EndPlaces
<1>3. /\ at' \in [Writers -> StorerPlaces \cup ControllerPlaces]
      /\ \A v \in Storers : at'[v] \in StorerPlaces
      /\ \A v \in Controllers : at'[v] \in ControllerPlaces
      /\ at[s] = from /\ at'[s] = to
      /\ \A v \in Writers \ {s} : at'[v] = at[v]
      /\ lock = s /\ lock' \in Storers \cup {Genesis} /\ LockIsHeld'
      /\ s \in Writers /\ s \notin Controllers
  BY <1>1, <1>2, PublisherMoves
<1>4. /\ old \in {<<s, "dumptmp">>, <<s, "sidetmp">>} /\ dir' = dir \ {old}
      /\ synced' = synced /\ previous' = previous
  BY DEF Temporary
<1>5. DumpTypeOK'
  BY <1>3, <1>4 DEF DumpTypeOK, ChainInv, Accident
<1>6. FilesOf(s) /\ UnsyncedIsSeen(s)
  BY DEF ChainInv, FilesMatchPlaces
<1>7. \A v \in Storers \ {s} : \A k \in Four : <<v, k>> \in dir' <=> <<v, k>> \in dir
  BY <1>4
<1>8. <<s, "dump">> \in dir' <=> <<s, "dump">> \in dir
  BY <1>4
<1>9. UnsyncedIsSeen(s)'
  <2>1. CASE kind = "dump"
    <3>1. <<s, "dump">> \in synced => <<s, "dump">> \in dir
      BY <1>6 DEF UnsyncedIsSeen
    <3>2. <<s, "side">> \notin dir
      BY <1>1, <1>3, <1>6, <2>1 DEF FilesOf, NoNames, Four
    <3> QED BY <1>4, <1>8, <3>1, <3>2 DEF UnsyncedIsSeen
  <2>2. CASE kind = "side"
    BY <1>1, <1>3, <1>4, <1>6, <2>2 DEF FilesOf, UnsyncedIsSeen
  <2> QED BY <2>1, <2>2 DEF Kinds
<1>10. FilesOf(s)' /\ ~Publishes(s)'
  BY <1>3 DEF FilesOf, Publishes, Refused, Begin, Published
<1> QED BY <1>3, <1>4, <1>5, <1>7, <1>8, <1>9, <1>10, HolderStep DEF Writers

-----------------------------------------------------------------------------
(* A controller's files and places are its own.                            *)
LEMMA ControllerStep ==
  ASSUME ChainInv, NEW c \in Controllers, NEW from, NEW to \in ControllerPlaces, Goes(c, from, to),
         lock' = lock, synced' = synced, previous' = previous,
         dir' \in {dir, dir \cup {Ledger}, dir \cup {<<c, "dump">>}, dir \cup {<<c, "side">>}},
         partial' \subseteq partial \cup {<<c, "dump">>, <<c, "side">>},
         order' \in {order, Append(order, c)}, ledger' \in Seq(Lines),
         accidents' \in {accidents, accidents + 1}
  PROVE  ChainInv'
<1>1. DumpTypeOK /\ c \in Writers /\ c \notin Storers /\ DumpTypeOK
  BY DumpAssumption DEF ChainInv, Writers
<1>2. /\ at' \in [Writers -> StorerPlaces \cup ControllerPlaces]
      /\ \A v \in Storers : at'[v] \in StorerPlaces
      /\ \A v \in Controllers : at'[v] \in ControllerPlaces
      /\ at[c] = from /\ at'[c] = to
      /\ \A v \in Writers \ {c} : at'[v] = at[v]
  BY <1>1, OneMoves
<1>3. DumpTypeOK'
  <2>1. dir' \subseteq Names /\ partial' \subseteq Controllers \X Kinds
    BY <1>1 DEF DumpTypeOK, Names, Four, Kinds
  <2>2. order' \in Seq(Controllers)
    <3>1. order \in Seq(Controllers)
      BY <1>1 DEF DumpTypeOK
    <3>2. Append(order, c) \in Seq(Controllers)
      BY <3>1
    <3> QED BY <3>1, <3>2
  <2> QED BY <1>1, <1>2, <2>1, <2>2 DEF DumpTypeOK
<1>4. \A s \in Storers : at'[s] = at[s]
  BY <1>1, <1>2 DEF Writers
<1>5. LockIsHeld'
  BY <1>4 DEF LockIsHeld, ChainInv
<1>6. \A s \in Storers : Untouched(s)
  <2>1. ASSUME NEW s \in Storers, NEW k PROVE <<s, k>> \notin {Ledger, <<c, "dump">>, <<c, "side">>}
    BY <1>1, DumpAssumption DEF Ledger
  <2> QED BY <2>1 DEF Untouched
<1> QED BY <1>3, <1>4, <1>5, <1>6, QuietStep

LEMMA CheckRetentionKeeps ==
  ASSUME ChainInv, NEW c \in Controllers, CheckRetention(c) \/ CaptureFails(c)
  PROVE  ChainInv'
<1>1. \E from, to : /\ to \in {<<"create", "dump">>, Refused} /\ Goes(c, from, to)
                   /\ UNCHANGED <<dir, synced, partial, order, previous, ledger, lock, accidents>>
  BY DEF CheckRetention, CaptureFails
<1>2. {<<"create", "dump">>, Refused} \subseteq ControllerPlaces
  BY EndPlaces DEF ControllerPlaces, Kinds
<1>3. ledger \in Seq(Lines)
  BY DEF ChainInv, DumpTypeOK
<1> QED BY <1>1, <1>2, <1>3, ControllerStep

LEMMA CreateKeeps ==
  ASSUME ChainInv, NEW c \in Controllers, NEW kind \in Kinds, CreateFile(c, kind)
  PROVE  ChainInv'
<1> USE DEF CreateFile
<1>1. <<"fill", kind>> \in ControllerPlaces
  BY DEF ControllerPlaces
<1>2. ledger' \in Seq(Lines)
  BY DEF ChainInv, DumpTypeOK
<1> QED BY <1>1, <1>2, ControllerStep DEF Kinds

LEMMA FillKeeps ==
  ASSUME ChainInv, NEW c \in Controllers, NEW kind \in Kinds, FillFile(c, kind)
  PROVE  ChainInv'
<1> USE DEF FillFile
<1>1. \E to \in {<<"create", "side">>, <<"append", "none">>, Refused} : Goes(c, <<"fill", kind>>, to)
  OBVIOUS
<1>2. {<<"create", "side">>, <<"append", "none">>, Refused} \subseteq ControllerPlaces
  BY EndPlaces DEF ControllerPlaces, Kinds
<1>3. ledger' \in Seq(Lines) /\ accidents' \in {accidents, accidents + 1} /\ partial' \subseteq partial
  BY DEF ChainInv, DumpTypeOK, Accident
<1> QED BY <1>1, <1>2, <1>3, ControllerStep

(* What the next line says of the one before it is so.                     *)
LEMMA WrittenLinks ==
  ASSUME ledger \in Seq(Lines), Linked(ledger), NEW c \in Controllers, NEW text \in {"record", "torn"},
         NEW p, p = LedgerHead, NEW lines, lines = Written(text, c, p)
  PROVE  lines \in Seq(Lines) /\ Linked(lines)
<1> DEFINE last == ledger[Len(ledger)]
<1>1. ledger # << >> => last \in Lines
  OBVIOUS
<1>2. p \in Controllers \cup {Genesis, "TOKEN_VAZIO_LEDGER_PARSE"}
  BY <1>1 DEF LedgerHead, Lines, Last
<1>3. ledger # << >> => p = IF last.text = "record" THEN last.dump ELSE "TOKEN_VAZIO_LEDGER_PARSE"
  BY DEF LedgerHead, Last
<1>4. CASE ledger # << >> /\ Last(ledger).text = "torn"
  <2> DEFINE line == Line(IF text = "torn" THEN "torn" ELSE "garbage", c, p)
  <2>1. lines = SubSeq(ledger, 1, Len(ledger) - 1) \o <<line>>
    BY <1>4 DEF Written, Front
  <2>2. line \in Lines /\ line.text # "record"
    BY <1>2 DEF Line, Lines
  <2> HIDE DEF line
  <2>3. /\ lines \in Seq(Lines) /\ Len(lines) = Len(ledger) /\ lines[Len(lines)] = line
        /\ \A i \in 1 .. Len(lines) - 1 : lines[i] = ledger[i]
    BY <1>4, <2>1, <2>2
  <2> QED BY <2>2, <2>3 DEF Linked
<1>5. CASE ~(ledger # << >> /\ Last(ledger).text = "torn")
  <2> DEFINE line == Line(text, c, p)
  <2>1. lines = Append(ledger, line)
    BY <1>5 DEF Written
  <2>2. line \in Lines /\ line.previous = p
    BY <1>2 DEF Line, Lines
  <2> HIDE DEF line
  <2>3. /\ lines \in Seq(Lines) /\ Len(lines) = Len(ledger) + 1 /\ lines[Len(lines)] = line
        /\ \A i \in 1 .. Len(lines) - 1 : lines[i] = ledger[i]
    BY <2>1, <2>2
  <2>4. Len(lines) \in 2 .. Len(lines) => lines[Len(lines) - 1] = last /\ ledger # << >>
    BY <2>3
  <2>5. ASSUME NEW i \in 2 .. Len(lines), lines[i].text = "record"
        PROVE  lines[i].previous = IF lines[i-1].text = "record" THEN lines[i-1].dump
                                                       ELSE "TOKEN_VAZIO_LEDGER_PARSE"
    <3>1. CASE i = Len(lines)
      BY <1>3, <2>2, <2>3, <2>4, <3>1
    <3>2. CASE i # Len(lines)
      <4>1. i \in 2 .. Len(ledger) /\ i - 1 \in 1 .. Len(lines) - 1 /\ i \in 1 .. Len(lines) - 1
        BY <2>3, <3>2
      <4>2. lines[i] = ledger[i] /\ lines[i - 1] = ledger[i - 1]
        BY <2>3, <4>1
      <4> QED BY <2>5, <4>1, <4>2 DEF Linked
    <3> QED BY <3>1, <3>2
  <2> QED BY <2>3, <2>5 DEF Linked
<1> QED BY <1>4, <1>5

LEMMA AppendKeeps ==
  ASSUME DumpInv, NEW c \in Controllers, AppendHashChain(c)
  PROVE  DumpInv'
<1> USE DEF AppendHashChain
<1>1. \E text \in {"record", "torn"} : ledger' = Written(text, c, LedgerHead)
  OBVIOUS
<1>2. ledger' \in Seq(Lines) /\ Linked(ledger')
  BY <1>1, WrittenLinks DEF DumpInv, ChainInv, DumpTypeOK, LedgerIsLinked
<1>3. Published \in ControllerPlaces /\ accidents' \in {accidents, accidents + 1}
  BY DEF ControllerPlaces, Accident
<1>4. ChainInv'
  BY <1>2, <1>3, ControllerStep DEF DumpInv
<1> QED BY <1>2, <1>4 DEF DumpInv, LedgerIsLinked

-----------------------------------------------------------------------------
(* The files of the dead stay.                                             *)
LEMMA DieKeeps ==
  ASSUME ChainInv, NEW w \in Writers, Die(w)
  PROVE  ChainInv'
<1> USE DEF Die
<1>1. DumpTypeOK /\ Goes(w, at[w], Refused)
  BY DEF ChainInv, Goes
<1>2. /\ at' \in [Writers -> StorerPlaces \cup ControllerPlaces]
      /\ \A v \in Storers : at'[v] \in StorerPlaces
      /\ \A v \in Controllers : at'[v] \in ControllerPlaces
      /\ at'[w] = Refused
      /\ \A v \in Writers \ {w} : at'[v] = at[v]
  BY <1>1, OneMoves, EndPlaces
<1>3. DumpTypeOK'
  BY <1>1, <1>2 DEF DumpTypeOK, Accident
<1>4. LockIsHeld'
  BY <1>2, EndPlaces DEF LockIsHeld, ChainInv, Writers
<1>5. \A s \in Storers : at'[s] \in {at[s], Refused} /\ Untouched(s)
  BY <1>2 DEF Untouched, Writers
<1> QED BY <1>3, <1>4, <1>5, QuietStep

(* A loss of power takes no dump that another one follows.                 *)
LEMMA PowerLossKeeps ==
  ASSUME ChainInv, PowerLoss
  PROVE  ChainInv'
<1> USE DEF PowerLoss
<1>1. DumpTypeOK /\ dir \cap synced \subseteq dir' /\ dir' \subseteq dir \cup synced /\ synced' = dir'
  BY DEF ChainInv
<1>2. /\ \A w \in Writers : at'[w] \in {at[w], Refused}
      /\ \A w \in Writers : at'[w] \in {Refused, Published, Begin}
      /\ at' \in [Writers -> StorerPlaces \cup ControllerPlaces]
  BY <1>1, EndPlaces DEF Stopped, Finished, DumpTypeOK
<1>3. DumpTypeOK'
  <2>1. ledger' \in Seq(Lines)
    BY <1>1 DEF DumpTypeOK
  <2> QED BY <1>1, <1>2, <2>1, EndPlaces DEF DumpTypeOK, Accident, Writers
<1>4. LockIsHeld'
  BY <1>2, EndPlaces DEF LockIsHeld, Writers, Begin, Holding, Publishing
<1>5. ASSUME NEW s \in Storers PROVE <<s, "dump">> \in dir' => <<s, "dump">> \in dir
  BY <1>1 DEF ChainInv, FilesMatchPlaces, UnsyncedIsSeen
<1>6. FilesMatchPlaces'
  <2>1. ASSUME NEW s \in Storers PROVE FilesOf(s)'
    <3>1. FilesOf(s)
      BY DEF ChainInv, FilesMatchPlaces
    <3>2. CASE at'[s] = Begin
      <4>1. at[s] = Begin
        BY <1>2, <3>2 DEF Writers, Begin, Refused
      <4>2. NoNames(s)'
        BY <1>1, <3>1, <4>1 DEF FilesOf, NoNames, Four
      <4> QED BY <3>2, <4>2 DEF FilesOf, Begin, Published
    <3>3. CASE at'[s] = Refused
      BY <3>3 DEF FilesOf, Refused, Begin, Published
    <3>4. CASE at'[s] = Published
      <4>1. at[s] = Published
        BY <1>2, <3>4 DEF Writers, Published, Refused
      <4> QED BY <1>1, <3>1, <3>4, <4>1 DEF FilesOf, Begin, Published
    <3> QED BY <1>2, <3>2, <3>3, <3>4 DEF Writers
  <2>2. ASSUME NEW s \in Storers PROVE UnsyncedIsSeen(s)'
    BY <1>1 DEF UnsyncedIsSeen
  <2> QED BY <2>1, <2>2 DEF FilesMatchPlaces
<1>7. PublisherIsRight'
  <2>1. \A s \in Storers : ~Publishes(s)'
    BY <1>2 DEF Publishes, Writers, Begin, Refused, Published
  <2> QED BY <2>1 DEF PublisherIsRight, Publishes
<1>8. Chained' \subseteq Chained /\ previous' = previous
  BY <1>5 DEF Chained, Dumps
<1>9. ASSUME NEW s \in Chained', previous[s] \in Chained PROVE previous[s] \in Chained'
  <2>1. CASE previous[s] = s
    BY <2>1
  <2>2. CASE previous[s] # s
    <3>1. <<previous[s], "dump">> \in synced /\ <<previous[s], "dump">> \in dir
      BY <1>8, <1>9, <2>2 DEF ChainInv, ChainHolds, Chained, Dumps
    <3> QED BY <1>1, <1>9, <3>1 DEF Chained, Dumps
  <2> QED BY <2>1, <2>2
<1>10. ChainHolds'
  <2>1. \A s, t \in Chained' : previous'[s] = previous'[t] => s = t
    BY <1>8 DEF ChainInv, ChainHolds
  <2>2. \A s, t \in Chained' : previous'[s] \notin Chained' /\ previous'[t] \notin Chained' => s = t
    BY <1>8, <1>9 DEF ChainInv, ChainHolds
  <2>3. \A s \in Chained' : <<s, "dump">> \in synced'
    BY <1>1 DEF Chained, Dumps
  <2> QED BY <1>8, <2>1, <2>2, <2>3 DEF ChainHolds
<1> QED BY <1>3, <1>4, <1>6, <1>7, <1>10 DEF ChainInv

-----------------------------------------------------------------------------
(* Whoever moves, and if nothing does, all of this stays so.               *)
LEMMA DumpStep == DumpInv /\ [DumpNext]_dumpVars => DumpInv'
<1> SUFFICES ASSUME DumpInv, [DumpNext]_dumpVars PROVE DumpInv'
  OBVIOUS
<1>0. ChainInv /\ LedgerIsLinked
  BY DEF DumpInv
<1>1. CASE UNCHANGED dumpVars
  <2> USE <1>1 DEF dumpVars
  <2>1. ChainInv'
    <3>1. DumpTypeOK'
      BY <1>0 DEF ChainInv, DumpTypeOK
    <3>2. LockIsHeld'
      BY <1>0 DEF ChainInv, LockIsHeld
    <3>3. \A s \in Storers : Untouched(s)
      BY DEF Untouched
    <3> QED BY <1>0, <3>1, <3>2, <3>3, QuietStep
  <2> QED BY <1>0, <2>1 DEF DumpInv, LedgerIsLinked
<1>2. ASSUME NEW s \in Storers, ObservePrevious(s) PROVE DumpInv'
  BY <1>0, <1>2, ObserveKeeps DEF DumpInv, LedgerIsLinked, ObservePrevious
<1>3. ASSUME NEW s \in Storers, LockDirectory(s) PROVE DumpInv'
  BY <1>0, <1>3, LockKeeps DEF DumpInv, LedgerIsLinked, LockDirectory
<1>4. ASSUME NEW s \in Storers, RetentionPreflight(s) PROVE DumpInv'
  BY <1>0, <1>4, PreflightKeeps DEF DumpInv, LedgerIsLinked, RetentionPreflight
<1>5. ASSUME NEW s \in Storers, Refuse(s) PROVE DumpInv'
  BY <1>0, <1>5, RefuseKeeps DEF DumpInv, LedgerIsLinked, Refuse
<1>6. ASSUME NEW s \in Storers, PredecessorIsCurrent(s) PROVE DumpInv'
  BY <1>0, <1>6, PredecessorKeeps DEF DumpInv, LedgerIsLinked, PredecessorIsCurrent
<1>7. ASSUME NEW s \in Storers, NEW kind \in Kinds, WriteTemporary(s, kind) PROVE DumpInv'
  BY <1>0, <1>7, WriteKeeps DEF DumpInv, LedgerIsLinked, WriteTemporary
<1>8. ASSUME NEW s \in Storers, NEW kind \in Kinds, LinkFile(s, kind) PROVE DumpInv'
  BY <1>0, <1>8, LinkKeeps DEF DumpInv, LedgerIsLinked, LinkFile
<1>9. ASSUME NEW s \in Storers, NEW kind \in Kinds, FsyncDirectory(s, kind) PROVE DumpInv'
  BY <1>0, <1>9, FsyncKeeps DEF DumpInv, LedgerIsLinked, FsyncDirectory
<1>10. ASSUME NEW s \in Storers, NEW kind \in Kinds, UnlinkTemporary(s, kind) PROVE DumpInv'
  BY <1>0, <1>10, UnlinkKeeps DEF DumpInv, LedgerIsLinked, UnlinkTemporary
<1>11. ASSUME NEW s \in Storers, NEW kind \in Kinds, PublishFails(s, kind) PROVE DumpInv'
  BY <1>0, <1>11, FailKeeps DEF DumpInv, LedgerIsLinked, PublishFails
<1>12. ASSUME NEW c \in Controllers, CheckRetention(c) \/ CaptureFails(c) PROVE DumpInv'
  BY <1>0, <1>12, CheckRetentionKeeps DEF DumpInv, LedgerIsLinked, CheckRetention, CaptureFails
<1>13. ASSUME NEW c \in Controllers, AppendHashChain(c) PROVE DumpInv'
  BY <1>13, AppendKeeps
<1>14. ASSUME NEW c \in Controllers, NEW kind \in Kinds, CreateFile(c, kind) PROVE DumpInv'
  BY <1>0, <1>14, CreateKeeps DEF DumpInv, LedgerIsLinked, CreateFile
<1>15. ASSUME NEW c \in Controllers, NEW kind \in Kinds, FillFile(c, kind) PROVE DumpInv'
  BY <1>0, <1>15, FillKeeps DEF DumpInv, LedgerIsLinked, FillFile
<1>16. ASSUME NEW w \in Writers, Die(w) PROVE DumpInv'
  BY <1>0, <1>16, DieKeeps DEF DumpInv, LedgerIsLinked, Die
<1>17. ASSUME PowerLoss PROVE DumpInv'
  <2>1. Linked(ledger')
    BY <1>0, <1>17 DEF PowerLoss, LedgerIsLinked, Linked
  <2> QED BY <1>0, <1>17, <2>1, PowerLossKeeps DEF DumpInv, LedgerIsLinked
<1>18. CASE DumpNext
  BY <1>18, <1>2, <1>3, <1>4, <1>5, <1>6, <1>7, <1>8, <1>9, <1>10, <1>11, <1>12, <1>13, <1>14,
     <1>15, <1>16, <1>17 DEF DumpNext, Kinds
<1> QED BY <1>1, <1>18

(* The invariant holds in every state: of whatever writers, however often  *)
(* they die and the power fails.                                           *)
THEOREM DumpsInductive == DumpSpec => []DumpInv
<1> QED BY StoreStart, DumpStep, PTL DEF DumpSpec

(* No variable of the directory leaves its type.                           *)
THEOREM DumpTypeCorrect == DumpSpec => []DumpTypeOK
<1>1. DumpInv => DumpTypeOK
  BY DEF DumpInv, ChainInv
<1> QED BY <1>1, DumpsInductive, PTL

(* A set with one element at most.                                         *)
LEMMA AtMostOne ==
  ASSUME NEW S, \A x, y \in S : x = y
  PROVE  Cardinality(S) <= 1
<1>1. CASE S = {}
  BY <1>1, FS_EmptySet
<1>2. CASE S # {}
  <2>1. PICK x \in S : S = {x}
    BY <1>2
  <2> QED BY <2>1, FS_Singleton
<1> QED BY <1>1, <1>2

(* The chained dumps form one chain: two captures that observe the same    *)
(* predecessor never both publish, whoever dies and where the power fails. *)
THEOREM DumpsFormOneChain == DumpSpec => []ChainIsOne
<1>1. ASSUME DumpInv PROVE ChainIsOne
  <2>1. ChainHolds
    BY <1>1 DEF DumpInv, ChainInv
  <2>2. Cardinality({s \in Chained : previous[s] \notin Chained}) <= 1
    BY <2>1, AtMostOne DEF ChainHolds
  <2> QED BY <2>1, <2>2 DEF ChainIsOne, ChainHolds
<1> QED BY <1>1, DumpsInductive, PTL

(* What write_append_only has reported survives a loss of power.           *)
THEOREM PublishedDumpsAreDurable == DumpSpec => []PublishedIsDurable
<1>1. ASSUME DumpInv PROVE PublishedIsDurable
  <2>1. ASSUME NEW s \in Storers, at[s] = Published
        PROVE  {<<s, "dump">>, <<s, "side">>} \subseteq (dir \cap synced) \ partial
    <3>1. FilesOf(s) /\ partial \subseteq Controllers \X Kinds
      BY <1>1 DEF DumpInv, ChainInv, FilesMatchPlaces, DumpTypeOK
    <3>2. <<s, "dump">> \notin partial /\ <<s, "side">> \notin partial
      BY <3>1, DumpAssumption
    <3> QED BY <2>1, <3>1, <3>2 DEF FilesOf
  <2> QED BY <2>1 DEF PublishedIsDurable
<1> QED BY <1>1, DumpsInductive, PTL

(* The ledger has no gaps, though lines are cut off in it.                 *)
THEOREM LedgerHasNoGaps == DumpSpec => []LedgerIsLinked
<1>1. DumpInv => LedgerIsLinked
  BY DEF DumpInv
<1> QED BY <1>1, DumpsInductive, PTL

(* Who is at the directory's fsync after its dump's link comes from there. *)
LEMMA LinkComesBeforeSync ==
  ASSUME DumpTypeOK, DumpNext, NEW s \in Storers, at'[s] = <<"sync", "dump">>, at[s] # at'[s]
  PROVE  at[s] = <<"link", "dump">>
<1> DEFINE Moves(w, to) == \E from : Goes(w, from, to)
                           /\ (to = <<"sync", "dump">> => from = <<"link", "dump">>)
           Moved == \E w \in Writers : \E to : Moves(w, to)
<1>1. at \in [Writers -> StorerPlaces \cup ControllerPlaces] /\ s \in Writers
  BY DEF DumpTypeOK, Writers
<1>2. ASSUME NEW w \in Writers, NEW to, Moves(w, to) PROVE at[s] = <<"link", "dump">>
  <2>1. CASE w = s
    BY <1>1, <1>2, <2>1 DEF Goes
  <2>2. CASE w # s
    BY <1>1, <1>2, <2>2 DEF Goes
  <2> QED BY <2>1, <2>2
<1>3. ASSUME NEW w \in Writers, NEW to, NEW from, to # <<"sync", "dump">>, Goes(w, from, to)
      PROVE  Moved
  BY <1>3
<1>4. ASSUME NEW w \in Writers, NEW from, Goes(w, from, Refused) PROVE Moved
  BY <1>3, <1>4 DEF Refused
<1>5. ASSUME NEW w \in Writers, NEW from, Goes(w, from, Published) PROVE Moved
  BY <1>3, <1>5 DEF Published
<1>6. ASSUME NEW w \in Storers, ObservePrevious(w) \/ LockDirectory(w) \/ RetentionPreflight(w) PROVE Moved
  BY <1>3, <1>6 DEF ObservePrevious, LockDirectory, RetentionPreflight, Writers
<1>7. ASSUME NEW w \in Storers, Refuse(w) PROVE Moved
  BY <1>4, <1>7 DEF Refuse, Writers
<1>8. ASSUME NEW w \in Storers, PredecessorIsCurrent(w) PROVE Moved
  BY <1>3, <1>8 DEF PredecessorIsCurrent, Writers
<1>9. ASSUME NEW w \in Storers, NEW kind \in Kinds, WriteTemporary(w, kind) PROVE Moved
  BY <1>3, <1>9 DEF WriteTemporary, Writers
<1>10. ASSUME NEW w \in Storers, NEW kind \in Kinds, LinkFile(w, kind) PROVE Moved
  <2>1. Moves(w, <<"sync", kind>>)
    BY <1>10 DEF LinkFile
  <2> QED BY <2>1 DEF Writers
<1>11. ASSUME NEW w \in Storers, NEW kind \in Kinds, FsyncDirectory(w, kind) PROVE Moved
  BY <1>3, <1>11 DEF FsyncDirectory, Writers
<1>12. ASSUME NEW w \in Storers, NEW kind \in Kinds, UnlinkTemporary(w, kind) PROVE Moved
  <2>1. CASE kind = "dump"
    BY <1>3, <1>12, <2>1 DEF UnlinkTemporary, Writers
  <2>2. CASE kind = "side"
    BY <1>5, <1>12, <2>2 DEF UnlinkTemporary, Writers
  <2> QED BY <2>1, <2>2 DEF Kinds
<1>13. ASSUME NEW w \in Storers, NEW kind \in Kinds, PublishFails(w, kind) PROVE Moved
  BY <1>4, <1>13 DEF PublishFails, Writers
<1>14. ASSUME NEW c \in Controllers, CheckRetention(c) PROVE Moved
  BY <1>3, <1>4, <1>14 DEF CheckRetention, Writers
<1>15. ASSUME NEW c \in Controllers, CaptureFails(c) \/ AppendHashChain(c) PROVE Moved
  BY <1>4, <1>5, <1>15 DEF CaptureFails, AppendHashChain, Writers
<1>16. ASSUME NEW c \in Controllers, NEW kind \in Kinds, CreateFile(c, kind) PROVE Moved
  BY <1>3, <1>16 DEF CreateFile, Writers
<1>17. ASSUME NEW c \in Controllers, NEW kind \in Kinds, FillFile(c, kind) PROVE Moved
  <2>1. CASE Goes(c, <<"fill", kind>>, Refused)
    BY <1>4, <2>1 DEF Writers
  <2>2. CASE Goes(c, <<"fill", kind>>, <<"create", "side">>)
    BY <1>3, <2>2 DEF Writers
  <2>3. CASE Goes(c, <<"fill", kind>>, <<"append", "none">>)
    BY <1>3, <2>3 DEF Writers
  <2> QED BY <1>17, <2>1, <2>2, <2>3 DEF FillFile
<1>18. ASSUME NEW w \in Writers, Die(w) PROVE Moved
  <2>1. Goes(w, at[w], Refused)
    BY <1>18 DEF Die, Goes
  <2> QED BY <1>4, <2>1
<1>19. ASSUME PowerLoss PROVE FALSE
  BY <1>1, <1>19 DEF PowerLoss, Stopped, Refused
<1>20. Moved
  BY <1>6, <1>7, <1>8, <1>9, <1>10, <1>11, <1>12, <1>13, <1>14, <1>15, <1>16, <1>17, <1>18, <1>19
    DEF DumpNext, Kinds
<1> QED BY <1>2, <1>20

(* Nobody publishes over what a dead writer left behind.                   *)
THEOREM NothingIsPublishedOverDamage == DumpSpec => NothingOverDamage
<1>1. ASSUME DumpInv, [DumpNext]_dumpVars,
             NEW s \in Storers, <<s, "dump">> \in dir' \ dir, at'[s] = <<"sync", "dump">>,
             NEW t \in Storers \ {s}
      PROVE  Clean(t)
  <2>1. DumpTypeOK /\ PublisherIsRight /\ FilesOf(s)
    BY <1>1 DEF DumpInv, ChainInv, FilesMatchPlaces
  <2>2. DumpNext
    BY <1>1 DEF dumpVars
  <2>3. at[s] # at'[s]
    BY <1>1, <2>1 DEF FilesOf
  <2>4. at[s] = <<"link", "dump">>
    BY <1>1, <2>1, <2>2, <2>3, LinkComesBeforeSync
  <2> QED BY <2>1, <2>4 DEF PublisherIsRight, Publishes
<1>2. DumpInv /\ [DumpNext]_dumpVars =>
        [\A s \in Storers : <<s, "dump">> \in dir' \ dir /\ at'[s] = <<"sync", "dump">> =>
           \A t \in Storers \ {s} :
             /\ <<t, "dump">> \in dir <=> <<t, "side">> \in dir
             /\ <<t, "dumptmp">> \notin dir /\ <<t, "sidetmp">> \notin dir]_dumpVars
  BY <1>1 DEF Clean
<1> QED BY <1>2, DumpsInductive, PTL DEF DumpSpec, NothingOverDamage

(***************************************************************************)
(* Canary deployments: what is recommended for production was measured.    *)
(* The argument: the current stage is reached through completed ones only, *)
(* so on the last stage all of them count; one without a measurement adds  *)
(* nothing, and with at most six stages the others, each at most 100 per   *)
(* cent, cannot make up for it: 100 (n - 1) < 85 n.                        *)
(***************************************************************************)
PlanStatuses == {"planning", "in_progress", "completed", "rolled_back"}
Percents == {p \in Nat : p <= 100}
StageRecords ==
  [status : {"pending", "in_progress", "completed", "rolled_back"},
   metrics : [success : Percents,
              decision : {"none", "rollback", "halt", "monitor", "proceed"}]]

PlanTypeOK ==
  /\ deployments \in Nat
  /\ plan \in [status : PlanStatuses, current : StageNumbers,
               stages : [StageNumbers -> StageRecords]]

UnmeasuredAddsNothing ==
  \A k \in StageNumbers :
    plan.stages[k].metrics.decision = "none" => plan.stages[k].metrics.success = 0

(* The stages before the current one are completed; the current one counts *)
(* as well, unless the plan is rolled back or at its beginning.            *)
ReachedThroughCompleted ==
  /\ \A k \in StageNumbers : k < plan.current => plan.stages[k].status = "completed"
  /\ \/ plan.current = 1 \/ plan.status = "rolled_back"
     \/ plan.stages[plan.current].status \in {"in_progress", "completed"}

PlanInv == PlanTypeOK /\ UnmeasuredAddsNothing /\ ReachedThroughCompleted

LEMMA StagesAreNumbered ==
  /\ 1 \in StageNumbers
  /\ \A k \in StageNumbers : k \in Nat /\ k >= 1
  /\ \A k \in StageNumbers : k < Len(Stages) => k + 1 \in StageNumbers
BY CanaryAssumption DEF StageNumbers

LEMMA PlanStart == CanaryInit => PlanInv
<1> SUFFICES ASSUME CanaryInit PROVE PlanInv
  OBVIOUS
<1>1. NewStage \in StageRecords /\ NewStage.metrics.success = 0
  BY DEF NewStage, Unmeasured, StageRecords, Percents
<1>2. \A k \in StageNumbers : k >= 1
  BY StagesAreNumbered
<1> QED BY <1>1, <1>2, StagesAreNumbered
        DEF CanaryInit, PlanInv, PlanTypeOK, UnmeasuredAddsNothing, ReachedThroughCompleted,
            PlanStatuses

(* What an action makes of the plan, and what it must not break.           *)
LEMMA PlanKeeps ==
  ASSUME PlanInv, deployments' \in Nat, NEW s \in PlanStatuses, NEW c \in StageNumbers,
         NEW t \in [StageNumbers -> StageRecords],
         plan' = [status |-> s, current |-> c, stages |-> t],
         \A k \in StageNumbers : t[k].metrics.decision = "none" => t[k].metrics.success = 0,
         \A k \in StageNumbers : k < c => t[k].status = "completed",
         c = 1 \/ s = "rolled_back" \/ t[c].status \in {"in_progress", "completed"}
  PROVE  PlanInv'
BY DEF PlanInv, PlanTypeOK, UnmeasuredAddsNothing, ReachedThroughCompleted

(* The status of the stage k becomes x, and what the other stages keep.    *)
WithStatus(t, k, x) == [t EXCEPT ![k].status = x]

LEMMA StatusSet ==
  ASSUME NEW t \in [StageNumbers -> StageRecords], NEW k \in StageNumbers,
         NEW x \in {"pending", "in_progress", "completed", "rolled_back"}
  PROVE  /\ WithStatus(t, k, x) \in [StageNumbers -> StageRecords]
         /\ WithStatus(t, k, x)[k].status = x
         /\ \A j \in StageNumbers \ {k} : WithStatus(t, k, x)[j] = t[j]
         /\ \A j \in StageNumbers : WithStatus(t, k, x)[j].metrics = t[j].metrics
<1>1. t[k] \in StageRecords
  OBVIOUS
<1> DEFINE r == [t[k] EXCEPT !.status = x]
<1>2. r \in StageRecords /\ r.status = x /\ r.metrics = t[k].metrics
  BY <1>1 DEF StageRecords
<1>3. WithStatus(t, k, x) = [t EXCEPT ![k] = r]
  BY DEF WithStatus
<1> HIDE DEF r
<1> QED BY <1>2, <1>3

LEMMA PlanStep == PlanInv /\ [CanaryNext]_canaryVars => PlanInv'
<1> SUFFICES ASSUME PlanInv, [CanaryNext]_canaryVars PROVE PlanInv'
  OBVIOUS
<1> DEFINE k == plan.current
           t == plan.stages
<1>1. /\ plan.status \in PlanStatuses /\ k \in StageNumbers
      /\ t \in [StageNumbers -> StageRecords] /\ deployments \in Nat
      /\ plan = [status |-> plan.status, current |-> k, stages |-> t]
  BY DEF PlanInv, PlanTypeOK
<1>2. /\ \A j \in StageNumbers : t[j].metrics.decision = "none" => t[j].metrics.success = 0
      /\ \A j \in StageNumbers : j < k => t[j].status = "completed"
      /\ k = 1 \/ plan.status = "rolled_back" \/ t[k].status \in {"in_progress", "completed"}
  BY DEF PlanInv, UnmeasuredAddsNothing, ReachedThroughCompleted
<1>3. 1 \in StageNumbers /\ \A j \in StageNumbers : j \in Nat /\ j >= 1
  BY StagesAreNumbered
<1>4. CASE StartCanaryDeployment
  <2>1. /\ plan' = [status |-> "in_progress", current |-> 1, stages |-> t]
        /\ deployments' \in Nat /\ "in_progress" \in PlanStatuses
    <3>1. plan' = [plan EXCEPT !.status = "in_progress", !.current = 1]
      BY <1>4 DEF StartCanaryDeployment
    <3>2. deployments' \in Nat
      BY <1>1, <1>4 DEF StartCanaryDeployment
    <3> QED BY <1>1, <3>1, <3>2 DEF PlanStatuses
  <2>2. \A j \in StageNumbers : j < 1 => t[j].status = "completed"
    BY <1>3
  <2> HIDE DEF k, t
  <2> QED BY <1>1, <1>2, <1>3, <2>1, <2>2, PlanKeeps
<1>5. CASE CompleteStage
  <2> DEFINE u == WithStatus(t, k, "completed")
  <2>1. plan' = [status |-> plan.status, current |-> k, stages |-> u] /\ deployments' \in Nat
    BY <1>1, <1>5 DEF CompleteStage, WithStatus
  <2>2. /\ u \in [StageNumbers -> StageRecords] /\ u[k].status = "completed"
        /\ \A j \in StageNumbers : u[j].metrics = t[j].metrics
        /\ \A j \in StageNumbers \ {k} : u[j] = t[j]
    <3> HIDE DEF k, t
    <3> QED BY <1>1, StatusSet
  <2> HIDE DEF k, t, u
  <2> QED BY <1>1, <1>2, <1>3, <2>1, <2>2, PlanKeeps
<1>6. CASE AdvanceToNextStage
  <2>1. t[k].status = "completed"
    BY <1>6 DEF AdvanceToNextStage
  <2>2. CASE k < Len(Stages)
    <3> DEFINE u == WithStatus(t, k + 1, "in_progress")
    <3>1. /\ plan' = [status |-> plan.status, current |-> k + 1, stages |-> u]
          /\ deployments' \in Nat /\ k + 1 \in StageNumbers
      BY <1>1, StagesAreNumbered, <1>6, <2>2 DEF AdvanceToNextStage, WithStatus
    <3>2. /\ u \in [StageNumbers -> StageRecords] /\ u[k + 1].status = "in_progress"
          /\ \A j \in StageNumbers : u[j].metrics = t[j].metrics
          /\ \A j \in StageNumbers \ {k + 1} : u[j] = t[j]
      <4> HIDE DEF k, t
      <4> QED BY <1>1, <3>1, StatusSet
    <3> HIDE DEF k, t, u
    <3>3. \A j \in StageNumbers : j < k + 1 => u[j].status = "completed"
      <4>1. \A j \in StageNumbers : j < k + 1 => (j < k \/ j = k) /\ j # k + 1
        BY <1>1, <1>3
      <4> QED BY <1>2, <2>1, <3>2, <4>1
    <3>4. \A j \in StageNumbers : u[j].metrics.decision = "none" => u[j].metrics.success = 0
      BY <1>2, <3>2
    <3> QED BY <1>1, <3>1, <3>2, <3>3, <3>4, PlanKeeps
  <2>3. CASE ~(k < Len(Stages))
    <3>1. /\ plan' = [status |-> "completed", current |-> k, stages |-> t]
          /\ deployments' \in Nat /\ "completed" \in PlanStatuses
      BY <1>1, <1>6, <2>3 DEF AdvanceToNextStage, PlanStatuses
    <3> HIDE DEF k, t
    <3> QED BY <1>1, <1>2, <2>1, <3>1, PlanKeeps
  <2> QED BY <2>2, <2>3
<1>7. CASE RollbackPlan
  <2> DEFINE u == WithStatus(t, k, "rolled_back")
  <2>1. /\ plan' = [status |-> "rolled_back", current |-> k, stages |-> u]
        /\ deployments' \in Nat /\ "rolled_back" \in PlanStatuses
    BY <1>1, <1>7 DEF RollbackPlan, PlanStatuses, WithStatus
  <2>2. /\ u \in [StageNumbers -> StageRecords]
        /\ \A j \in StageNumbers : u[j].metrics = t[j].metrics
        /\ \A j \in StageNumbers \ {k} : u[j] = t[j]
    <3> HIDE DEF k, t
    <3> QED BY <1>1, StatusSet
  <2> HIDE DEF k, t, u
  <2>3. \A j \in StageNumbers : j < k => j # k
    BY <1>1, <1>3
  <2> QED BY <1>1, <1>2, <2>1, <2>2, <2>3, PlanKeeps
<1>8. ASSUME NEW m \in Metrics, EvaluateStageMetrics(m) PROVE PlanInv'
  <2> DEFINE d == Decide(Stages[k], m)
             n == [success |-> m.success, decision |-> d]
             r == [t[k] EXCEPT !.metrics = n]
             u == [t EXCEPT ![k] = r]
  <2>1. d \in {"rollback", "halt", "monitor", "proceed"} /\ m.success \in Percents
    BY CanaryAssumption DEF Decide, Percents
  <2>2. /\ plan' = [status |-> plan.status, current |-> k, stages |-> u]
        /\ deployments' \in Nat
    BY <1>1, <1>8 DEF EvaluateStageMetrics
  <2>3. t[k] \in StageRecords
    BY <1>1
  <2>4. n.decision # "none"
    <3> HIDE DEF d
    <3> QED BY <2>1
  <2>5. /\ r \in StageRecords /\ r.status = t[k].status /\ r.metrics = n
    <3> HIDE DEF k, t, d
    <3> QED BY <2>1, <2>3 DEF StageRecords
  <2> HIDE DEF r, n
  <2>6. /\ u \in [StageNumbers -> StageRecords] /\ u[k] = r
        /\ \A j \in StageNumbers \ {k} : u[j] = t[j]
    BY <1>1, <2>5
  <2> HIDE DEF u, k, t
  <2>7. \A j \in StageNumbers : u[j].status = t[j].status
    BY <1>1, <2>5, <2>6
  <2>8. \A j \in StageNumbers : u[j].metrics.decision = "none" => u[j].metrics.success = 0
    BY <1>1, <1>2, <2>4, <2>5, <2>6
  <2> QED BY <1>1, <1>2, <2>2, <2>6, <2>7, <2>8, PlanKeeps
<1>9. CASE UNCHANGED canaryVars
  <2>1. plan' = [status |-> plan.status, current |-> k, stages |-> t] /\ deployments' \in Nat
    BY <1>1, <1>9 DEF canaryVars
  <2> HIDE DEF k, t
  <2> QED BY <1>1, <1>2, <2>1, PlanKeeps
<1> QED BY <1>4, <1>5, <1>6, <1>7, <1>8, <1>9 DEF CanaryNext

(* On the last stage, every stage counts, or none does.                    *)
LEMMA LastStageCountsAll ==
  ASSUME PlanInv, plan.status # "rolled_back", plan.current = Len(Stages), Counted # {}
  PROVE  Counted = StageNumbers
<1>1. plan.current \in StageNumbers
  BY DEF PlanInv, PlanTypeOK
<1>2. \A k \in StageNumbers : k # plan.current => plan.stages[k].status = "completed"
  BY CanaryAssumption DEF PlanInv, ReachedThroughCompleted, StageNumbers
<1>3. CASE plan.current = 1
  <2>1. StageNumbers = {plan.current}
    BY <1>3, CanaryAssumption DEF StageNumbers
  <2> QED BY <2>1 DEF Counted
<1>4. CASE plan.current # 1
  <2>1. plan.stages[plan.current].status \in {"in_progress", "completed"}
    BY <1>4 DEF PlanInv, ReachedThroughCompleted
  <2> QED BY <1>1, <1>2, <2>1 DEF Counted
<1> QED BY <1>3, <1>4

LEMMA UnmeasuredHoldsBack ==
  ASSUME PlanInv, Len(Stages) <= 6, Recommended, NEW k \in StageNumbers
  PROVE  plan.stages[k].metrics.decision # "none"
<1> SUFFICES ASSUME plan.stages[k].metrics.decision = "none" PROVE FALSE
  OBVIOUS
<1> DEFINE f == [j \in Counted |-> plan.stages[j].metrics.success]
<1> DEFINE n == Len(Stages)
<1>1. Counted = StageNumbers /\ n \in Nat /\ 1 <= n /\ n <= 6
  <2>1. Counted = StageNumbers
    BY LastStageCountsAll DEF Recommended
  <2> QED BY <2>1, CanaryAssumption
<1>2. IsFiniteSet(StageNumbers) /\ Cardinality(StageNumbers) = n
  <2>1. StageNumbers = 1 .. n
    BY DEF StageNumbers
  <2>2. IsFiniteSet(1 .. n) /\ Cardinality(1 .. n) = IF 1 > n THEN 0 ELSE (n - 1) + 1
    BY <1>1, FS_Interval
  <2> HIDE DEF n
  <2> QED BY <1>1, <2>1, <2>2
<1>3. \A j \in StageNumbers : f[j] \in Nat /\ f[j] <= 100
  BY <1>1 DEF PlanInv, PlanTypeOK, StageRecords, Percents
<1>4. f[k] = 0
  BY <1>1 DEF PlanInv, UnmeasuredAddsNothing
<1>5. SumFunctionOnSet(f, StageNumbers) >= 85 * n
  BY <1>1, <1>2 DEF Recommended
<1> HIDE DEF f
<1>6. /\ SumFunctionOnSet(f, StageNumbers) = f[k] + SumFunctionOnSet(f, StageNumbers \ {k})
      /\ SumFunctionOnSet(f, StageNumbers \ {k}) \in Int
  <2>1. \A j \in StageNumbers : f[j] \in Int
    BY <1>3
  <2> QED BY <1>2, <2>1, SumSplit
<1> DEFINE others == StageNumbers \ {k}
<1>7. IsFiniteSet(others) /\ Cardinality(others) = n - 1 /\ \A j \in others : f[j] \in Nat /\ f[j] <= 100
  BY <1>2, <1>3, FS_RemoveElement
<1> HIDE DEF others
<1>8. SumFunctionOnSet(f, others) <= 100 * Cardinality(others)
  BY <1>7, SumIsBounded
<1>9. SumFunctionOnSet(f, others) <= 100 * (n - 1)
  BY <1>7, <1>8
<1> HIDE DEF n
<1> QED BY <1>1, <1>4, <1>5, <1>6, <1>9 DEF others

(* For any stages, up to six, and any measurements: no deployment is       *)
(* recommended for production with a stage that was never measured.  With  *)
(* seven stages six perfect ones would outweigh it.                        *)
THEOREM RecommendedIsMeasured ==
  ASSUME Len(Stages) <= 6
  PROVE  CanarySpec => []ProductionIsMeasured
<1>1. PlanInv => ProductionIsMeasured
  BY UnmeasuredHoldsBack DEF ProductionIsMeasured
<1> QED BY <1>1, PlanStart, PlanStep, PTL DEF CanarySpec

(***************************************************************************)
(* The dump agent: a dump and the events since the start tell what is      *)
(* loaded.  The argument: what an observer has yet to tell of a module     *)
(* ends in what is so now; therefore the last event told of a module is    *)
(* right or an observer has more to tell of it, and a module of which      *)
(* nothing was told and nothing is awaited is as the dump found it.        *)
(***************************************************************************)
Notices == [type : {"MODULE_ADDED", "MODULE_REMOVED"}, module : Modules]
RuntimeEvents ==
  [type : {"MODULE_ADDED", "MODULE_REMOVED"}, module : Modules, event_seq : Nat]

StreamTypeOK ==
  /\ loaded \in SUBSET Modules
  /\ starts \in Nat /\ startedAt \in Nat /\ startedAt <= eventSequence
  /\ events \in Seq(RuntimeEvents) /\ eventSequence = Len(events)
  /\ \A i \in 1 .. Len(events) : events[i].event_seq = i
  /\ attached = [o \in DOMAIN attached |-> attached[o]]
  /\ \A o \in DOMAIN attached : attached[o] \in Seq(Notices)
  /\ observersActive => moduleObserver \in DOMAIN attached

(* No dump, sent or about to be, knows of more starts than there were.     *)
StartsAreCounted ==
  /\ \A d \in dumps : d.since \in Nat /\ d.since <= starts
  /\ capture = [c \in Captures |-> capture[c]]
  /\ \A c \in Captures : capture[c].at = "clock_again" =>
       capture[c].since \in Nat /\ capture[c].since <= starts

TypeNow(m) == IF m \in loaded THEN "MODULE_ADDED" ELSE "MODULE_REMOVED"

(* An observer has something to tell of m; something was told since the    *)
(* start.                                                                  *)
Awaited(m) ==
  \E o \in DOMAIN attached : \E i \in 1 .. Len(attached[o]) : attached[o][i].module = m
WasTold(m) == \E i \in 1 .. Len(events) : i > startedAt /\ events[i].module = m

NoticesEndInNow ==
  \A m \in Modules : \A o \in DOMAIN attached : \A i \in 1 .. Len(attached[o]) :
    attached[o][i].module = m =>
      \/ attached[o][i].type = TypeNow(m)
      \/ \E j \in 1 .. Len(attached[o]) : j > i /\ attached[o][j].module = m

EventsEndInNow ==
  observersActive =>
    \A m \in Modules : \A i \in 1 .. Len(events) :
      i > startedAt /\ events[i].module = m =>
        \/ events[i].type = TypeNow(m)
        \/ \E j \in 1 .. Len(events) : j > i /\ events[j].module = m
        \/ Awaited(m)

(* The modules S as some dump since the start has them.                    *)
UntoldAreAs(S) == \A m \in Modules : (m \in S <=> m \in loaded) \/ Awaited(m) \/ WasTold(m)

SurfacesHold ==
  observersActive =>
    /\ \A d \in dumps : d.since = starts /\ d.modules # Unknown => UntoldAreAs(d.modules)
    /\ \A c \in Captures :
         capture[c].at = "clock_again" /\ capture[c].since = starts /\ capture[c].end # Unknown
           => UntoldAreAs(capture[c].end)

StreamInv ==
  StreamTypeOK /\ StartsAreCounted /\ NoticesEndInNow /\ EventsEndInNow /\ SurfacesHold

LEMMA StreamStart == DumpAgentInit => StreamInv
<1> SUFFICES ASSUME DumpAgentInit PROVE StreamInv
  OBVIOUS
<1> DEFINE none == << >>
<1>1. none \in Seq(RuntimeEvents) /\ Len(none) = 0
  OBVIOUS
<1> HIDE DEF none
<1>2. events = none /\ DOMAIN attached = {} /\ attached = [o \in {} |-> none]
  BY DEF DumpAgentInit, none
<1>3. StreamTypeOK
  BY <1>1, <1>2 DEF DumpAgentInit, StreamTypeOK
<1>4. StartsAreCounted
  BY DEF DumpAgentInit, StartsAreCounted, NotBegun
<1>5. NoticesEndInNow
  BY <1>2 DEF NoticesEndInNow
<1>6. ~observersActive
  BY DEF DumpAgentInit
<1> QED BY <1>3, <1>4, <1>5, <1>6 DEF StreamInv, EventsEndInNow, SurfacesHold

(* While the modules, the observers and the events stay, so does all but   *)
(* what is said of dumps.                                                  *)
LEMMA CapturesKeep ==
  ASSUME StreamInv, UNCHANGED <<loaded, attached, observers, sent>>
  PROVE  /\ StreamTypeOK' /\ NoticesEndInNow' /\ EventsEndInNow'
         /\ \A S : UntoldAreAs(S)' <=> UntoldAreAs(S)
<1>1. StreamTypeOK'
  BY DEF StreamInv, StreamTypeOK, observers, sent
<1>2. \A m : TypeNow(m)' = TypeNow(m) /\ (Awaited(m)' <=> Awaited(m))
             /\ (WasTold(m)' <=> WasTold(m))
  BY DEF TypeNow, Awaited, WasTold, observers, sent
<1>3. NoticesEndInNow'
  BY <1>2 DEF StreamInv, NoticesEndInNow
<1>4. EventsEndInNow'
  BY <1>2 DEF StreamInv, EventsEndInNow, observers, sent
<1>5. \A S : UntoldAreAs(S)' <=> UntoldAreAs(S)
  BY <1>2 DEF UntoldAreAs
<1> QED BY <1>1, <1>3, <1>4, <1>5

(* A module is loaded or unloaded.                                         *)
LEMMA LinkerKeeps == ASSUME StreamInv, NEW m \in Modules, LinkerChanges(m) PROVE StreamInv'
<1> DEFINE new == [type |-> IF m \in loaded THEN "MODULE_REMOVED" ELSE "MODULE_ADDED",
                   module |-> m]
<1>1. /\ loaded' = IF m \in loaded THEN loaded \ {m} ELSE loaded \cup {m}
      /\ attached' = [o \in DOMAIN attached |-> Append(attached[o], new)]
      /\ UNCHANGED <<observersActive, moduleObserver, threadObserver, starts, startedAt>>
      /\ UNCHANGED <<captureSequence, capture, dumps, eventSequence, events>>
  BY DEF LinkerChanges, observers, captures, sent
<1>2. new \in Notices /\ new.module = m /\ new.type = TypeNow(m)'
  BY <1>1 DEF Notices, TypeNow
<1>3. \A k \in Modules \ {m} : TypeNow(k)' = TypeNow(k) /\ (k \in loaded' <=> k \in loaded)
  BY <1>1 DEF TypeNow
<1> HIDE DEF new
<1>4. DOMAIN attached' = DOMAIN attached
  BY <1>1
<1>5. ASSUME NEW o \in DOMAIN attached
      PROVE  /\ attached[o] \in Seq(Notices) /\ attached'[o] \in Seq(Notices)
             /\ Len(attached'[o]) = Len(attached[o]) + 1 /\ Len(attached[o]) \in Nat
             /\ \A i \in 1 .. Len(attached[o]) : attached'[o][i] = attached[o][i]
             /\ attached'[o][Len(attached[o]) + 1] = new
  <2>1. attached[o] \in Seq(Notices) /\ attached'[o] = Append(attached[o], new)
    BY <1>1 DEF StreamInv, StreamTypeOK
  <2>2. Len(attached[o]) \in Nat
    BY <2>1
  <2> QED BY <1>2, <2>1, <2>2, AppendProperties
<1>6. StreamTypeOK'
  <2>1. loaded' \in SUBSET Modules
    BY <1>1 DEF StreamInv, StreamTypeOK
  <2>2. attached' = [o \in DOMAIN attached' |-> attached'[o]]
    BY <1>1
  <2>3. \A o \in DOMAIN attached' : attached'[o] \in Seq(Notices)
    BY <1>4, <1>5
  <2> QED BY <1>1, <1>4, <2>1, <2>2, <2>3 DEF StreamInv, StreamTypeOK
<1>7. StartsAreCounted'
  BY <1>1 DEF StreamInv, StartsAreCounted
<1>8. NoticesEndInNow'
  <2> SUFFICES ASSUME NEW k \in Modules, NEW o \in DOMAIN attached,
                      NEW i \in 1 .. Len(attached'[o]), attached'[o][i].module = k
               PROVE  \/ attached'[o][i].type = TypeNow(k)'
                      \/ \E j \in 1 .. Len(attached'[o]) : j > i /\ attached'[o][j].module = k
    BY <1>4 DEF NoticesEndInNow
  <2> DEFINE n == Len(attached[o])
  <2>1. /\ n \in Nat /\ Len(attached'[o]) = n + 1 /\ attached'[o][n + 1] = new
        /\ \A j \in 1 .. n : attached'[o][j] = attached[o][j]
    BY <1>5
  <2>2. n + 1 \in 1 .. Len(attached'[o])
    BY <2>1
  <2>3. CASE i = n + 1
    BY <1>2, <2>1, <2>3
  <2>4. CASE i # n + 1
    <3>1. i \in 1 .. n
      BY <2>1, <2>4
    <3>2. \A j \in 1 .. n : j \in 1 .. Len(attached'[o])
      BY <2>1
    <3>3. attached'[o][i] = attached[o][i]
      BY <2>1, <3>1
    <3>4. CASE k = m
      <4>1. n + 1 > i
        BY <2>1, <3>1
      <4> QED BY <1>2, <2>1, <2>2, <3>4, <4>1
    <3>5. CASE k # m
      <4>1. TypeNow(k)' = TypeNow(k)
        BY <1>3, <3>5
      <4>2. \/ attached[o][i].type = TypeNow(k)
            \/ \E j \in 1 .. n : j > i /\ attached[o][j].module = k
        BY <3>1, <3>3 DEF StreamInv, NoticesEndInNow
      <4> HIDE DEF n
      <4> QED BY <2>1, <3>2, <3>3, <4>1, <4>2
    <3> QED BY <3>4, <3>5
  <2> QED BY <2>3, <2>4
<1>9. ASSUME NEW k, Awaited(k) PROVE Awaited(k)'
  <2>1. PICK o \in DOMAIN attached :
          \E i \in 1 .. Len(attached[o]) : attached[o][i].module = k
    BY <1>9 DEF Awaited
  <2>2. PICK i \in 1 .. Len(attached[o]) : attached[o][i].module = k
    BY <2>1
  <2>3. attached'[o][i] = attached[o][i] /\ i \in 1 .. Len(attached'[o])
    BY <1>5, <2>1
  <2> QED BY <1>4, <2>1, <2>2, <2>3 DEF Awaited
<1>10. observersActive => Awaited(m)'
  <2> SUFFICES ASSUME observersActive PROVE Awaited(m)'
    OBVIOUS
  <2>1. moduleObserver \in DOMAIN attached
    BY DEF StreamInv, StreamTypeOK
  <2>2. Len(attached[moduleObserver]) + 1 \in 1 .. Len(attached'[moduleObserver])
    BY <1>5, <2>1
  <2> QED BY <1>2, <1>4, <1>5, <2>1, <2>2 DEF Awaited
<1>11. EventsEndInNow'
  <2> SUFFICES ASSUME observersActive, NEW k \in Modules, NEW i \in 1 .. Len(events),
                      i > startedAt, events[i].module = k
               PROVE  \/ events[i].type = TypeNow(k)'
                      \/ \E j \in 1 .. Len(events) : j > i /\ events[j].module = k
                      \/ Awaited(k)'
    BY <1>1 DEF EventsEndInNow
  <2>1. \/ events[i].type = TypeNow(k)
        \/ \E j \in 1 .. Len(events) : j > i /\ events[j].module = k
        \/ Awaited(k)
    BY DEF StreamInv, EventsEndInNow
  <2>2. CASE k = m
    BY <1>10, <2>2
  <2>3. CASE k # m
    BY <1>3, <1>9, <2>1, <2>3
  <2> QED BY <2>2, <2>3
<1>12. ASSUME observersActive, NEW S, UntoldAreAs(S) PROVE UntoldAreAs(S)'
  <2>1. \A k : WasTold(k)' <=> WasTold(k)
    BY <1>1 DEF WasTold
  <2> SUFFICES ASSUME NEW k \in Modules
               PROVE  (k \in S <=> k \in loaded') \/ Awaited(k)' \/ WasTold(k)'
    BY DEF UntoldAreAs
  <2>2. CASE k = m
    BY <1>10, <1>12, <2>2
  <2>3. CASE k # m
    BY <1>3, <1>9, <1>12, <2>1, <2>3 DEF UntoldAreAs
  <2> QED BY <2>2, <2>3
<1>13. SurfacesHold'
  BY <1>1, <1>12 DEF StreamInv, SurfacesHold
<1> QED BY <1>6, <1>7, <1>8, <1>11, <1>13 DEF StreamInv

(* What sending adds to the events.                                        *)
LEMMA SendsTell ==
  ASSUME StreamTypeOK, NEW told \in Seq(Notices), SendRuntimeEvents(told)
  PROVE  /\ events' \in Seq(RuntimeEvents) /\ Len(events) \in Nat /\ Len(told) \in Nat
         /\ Len(events') = Len(events) + Len(told) /\ eventSequence' = Len(events')
         /\ \A i \in 1 .. Len(events) : events'[i] = events[i]
         /\ \A i \in 1 .. Len(events') : events'[i].event_seq = i
         /\ \A i \in 1 .. Len(told) : /\ events'[Len(events) + i].type = told[i].type
                                      /\ events'[Len(events) + i].module = told[i].module
<1> DEFINE n == Len(events)
           t == [i \in 1 .. Len(told) |->
                   [type |-> told[i].type, module |-> told[i].module, event_seq |-> n + i]]
<1>1. Len(told) \in Nat /\ n \in Nat /\ DOMAIN told = 1 .. Len(told)
  BY DEF StreamTypeOK
<1>2. events' = events \o t /\ eventSequence' = n + Len(told)
  BY <1>1 DEF SendRuntimeEvents, StreamTypeOK
<1>3. ASSUME NEW i \in 1 .. Len(told)
      PROVE  t[i] \in RuntimeEvents /\ t[i].type = told[i].type /\ t[i].module = told[i].module
             /\ t[i].event_seq = n + i
  <2>1. told[i] \in Notices
    BY ElementOfSeq
  <2>2. n + i \in Nat
    BY <1>1
  <2> HIDE DEF n
  <2> QED BY <2>1, <2>2 DEF Notices, RuntimeEvents
<1>4. t \in Seq(RuntimeEvents) /\ Len(t) = Len(told)
  <2>1. t = [i \in 1 .. Len(told) |-> t[i]]
    OBVIOUS
  <2> HIDE DEF t
  <2>2. t \in [1 .. Len(told) -> RuntimeEvents]
    BY <1>3, <2>1
  <2> QED BY <1>1, <2>2
<1> HIDE DEF t
<1>5. /\ events \o t \in Seq(RuntimeEvents) /\ Len(events \o t) = n + Len(told)
      /\ \A i \in 1 .. n + Len(told) :
           (events \o t)[i] = IF i <= n THEN events[i] ELSE t[i - n]
  BY <1>4, ConcatProperties DEF StreamTypeOK
<1>6. \A i \in 1 .. n : events[i].event_seq = i
  BY DEF StreamTypeOK
<1> HIDE DEF n
<1>7. \A i \in 1 .. n : events'[i] = events[i]
  <2> SUFFICES ASSUME NEW i \in 1 .. n PROVE events'[i] = events[i]
    OBVIOUS
  <2>1. i \in 1 .. n + Len(told) /\ i <= n
    BY <1>1
  <2> QED BY <1>2, <1>5, <2>1
<1>8. \A i \in 1 .. Len(told) : events'[n + i] = t[i]
  <2> SUFFICES ASSUME NEW i \in 1 .. Len(told) PROVE events'[n + i] = t[i]
    OBVIOUS
  <2>1. n + i \in 1 .. n + Len(told) /\ ~(n + i <= n) /\ (n + i) - n = i
    BY <1>1
  <2> QED BY <1>2, <1>5, <2>1
<1>9. \A i \in 1 .. Len(events') : events'[i].event_seq = i
  <2> SUFFICES ASSUME NEW i \in 1 .. Len(events') PROVE events'[i].event_seq = i
    OBVIOUS
  <2>1. CASE i <= n
    <3>1. i \in 1 .. n
      BY <1>1, <2>1
    <3> QED BY <1>6, <1>7, <3>1
  <2>2. CASE ~(i <= n)
    <3>1. PICK j \in 1 .. Len(told) : i = n + j
      <4>1. i - n \in 1 .. Len(told) /\ i = n + (i - n)
        BY <1>1, <1>2, <1>5, <2>2
      <4> QED BY <4>1
    <3> QED BY <1>3, <1>8, <3>1
  <2> QED BY <2>1, <2>2
<1> QED BY <1>1, <1>2, <1>3, <1>5, <1>7, <1>8, <1>9 DEF n

(* An observer tells what it has had to tell for longest.                  *)
LEMMA TellingKeeps ==
  ASSUME StreamInv, NEW o \in DOMAIN attached, OnModule(o) PROVE StreamInv'
<1> DEFINE s == attached[o]
           n == Len(events)
<1>h. PICK h : h = Head(attached[o])
  OBVIOUS
<1> DEFINE told == <<h>>
<1>1. /\ s # << >> /\ attached' = [attached EXCEPT ![o] = Tail(@)]
      /\ SendRuntimeEvents(told)
      /\ UNCHANGED <<loaded, changes, observersActive, moduleObserver, threadObserver, starts,
                     startedAt, captureSequence, capture, dumps>>
  BY <1>h DEF OnModule, observers, captures
<1>2. StreamTypeOK /\ s \in Seq(Notices)
  BY DEF StreamInv, StreamTypeOK
<1>3. /\ h \in Notices /\ h = s[1] /\ Tail(s) \in Seq(Notices) /\ Len(s) \in Nat /\ Len(s) >= 1
      /\ Len(Tail(s)) = Len(s) - 1 /\ \A i \in 1 .. Len(Tail(s)) : Tail(s)[i] = s[i + 1]
  <2>1. Len(s) \in Nat /\ Len(s) # 0
    BY <1>1, <1>2
  <2> QED BY <1>1, <1>2, <1>h, <2>1, HeadTailProperties
<1>4. h.module \in Modules
  BY <1>3 DEF Notices
<1>5. DOMAIN attached' = DOMAIN attached /\ attached'[o] = Tail(s)
      /\ \A p \in DOMAIN attached \ {o} : attached'[p] = attached[p]
  BY <1>1, <1>2 DEF StreamTypeOK
<1>6. told \in Seq(Notices) /\ Len(told) = 1 /\ told[1] = h
  BY <1>3
<1> HIDE DEF told
<1>7. /\ events' \in Seq(RuntimeEvents) /\ n \in Nat
      /\ Len(events') = n + 1 /\ eventSequence' = Len(events')
      /\ \A i \in 1 .. n : events'[i] = events[i]
      /\ \A i \in 1 .. Len(events') : events'[i].event_seq = i
      /\ events'[n + 1].type = h.type /\ events'[n + 1].module = h.module
  <2>1. 1 \in 1 .. Len(told)
    BY <1>6
  <2> QED BY <1>1, <1>2, <1>6, <2>1, SendsTell
<1> HIDE DEF s, n
<1>8. StreamTypeOK'
  <2>1. attached' = [p \in DOMAIN attached' |-> attached'[p]]
    BY <1>1
  <2>2. \A p \in DOMAIN attached' : attached'[p] \in Seq(Notices)
    BY <1>2, <1>3, <1>5 DEF StreamTypeOK
  <2>3. startedAt' <= eventSequence'
    BY <1>1, <1>2, <1>7 DEF StreamTypeOK, n
  <2> QED BY <1>1, <1>2, <1>5, <1>7, <2>1, <2>2, <2>3 DEF StreamTypeOK
<1>9. StartsAreCounted'
  BY <1>1 DEF StreamInv, StartsAreCounted
<1>10. \A m : TypeNow(m)' = TypeNow(m)
  BY <1>1 DEF TypeNow
<1>11. ASSUME NEW m \in Modules, NEW i \in 1 .. Len(s), s[i].module = m
       PROVE  s[i].type = TypeNow(m) \/ \E j \in 1 .. Len(s) : j > i /\ s[j].module = m
  BY <1>11 DEF s, StreamInv, NoticesEndInNow
<1>12. \A i \in 1 .. Len(Tail(s)) : i + 1 \in 1 .. Len(s) /\ Tail(s)[i] = s[i + 1]
  BY <1>3
<1>13. \A i \in 1 .. Len(s) : i = 1 \/ (i - 1 \in 1 .. Len(Tail(s)) /\ s[i] = Tail(s)[i - 1])
  <2> SUFFICES ASSUME NEW i \in 1 .. Len(s), i # 1
               PROVE  i - 1 \in 1 .. Len(Tail(s)) /\ s[i] = Tail(s)[i - 1]
    OBVIOUS
  <2>1. i - 1 \in 1 .. Len(Tail(s)) /\ (i - 1) + 1 = i
    BY <1>3
  <2> QED BY <1>3, <2>1
<1>14. NoticesEndInNow'
  <2> SUFFICES ASSUME NEW m \in Modules, NEW p \in DOMAIN attached,
                      NEW i \in 1 .. Len(attached'[p]), attached'[p][i].module = m
               PROVE  \/ attached'[p][i].type = TypeNow(m)
                      \/ \E j \in 1 .. Len(attached'[p]) : j > i /\ attached'[p][j].module = m
    BY <1>5, <1>10 DEF NoticesEndInNow
  <2>1. CASE p # o
    BY <1>5, <2>1 DEF StreamInv, NoticesEndInNow
  <2>2. CASE p = o
    <3> DEFINE t == Tail(s)
    <3>1. attached'[p] = t
      BY <1>5, <2>2
    <3>2. i \in 1 .. Len(t) /\ t[i].module = m
      BY <3>1
    <3>3. i + 1 \in 1 .. Len(s) /\ t[i] = s[i + 1]
      BY <1>12, <3>2
    <3>4. CASE s[i + 1].type = TypeNow(m)
      BY <3>1, <3>3, <3>4
    <3>5. ASSUME NEW j \in 1 .. Len(s), j > i + 1, s[j].module = m
          PROVE  \E k \in 1 .. Len(attached'[p]) : k > i /\ attached'[p][k].module = m
      <4>1. j # 1 /\ j - 1 > i
        BY <3>3, <3>5, <1>3
      <4>2. j - 1 \in 1 .. Len(t) /\ s[j] = t[j - 1]
        BY <1>13, <4>1
      <4> QED BY <3>1, <3>5, <4>1, <4>2
    <3> QED BY <1>11, <3>2, <3>3, <3>4, <3>5
  <2> QED BY <2>1, <2>2
<1>15. ASSUME NEW m \in Modules, Awaited(m), m # h.module PROVE Awaited(m)'
  <2>1. PICK p \in DOMAIN attached :
          \E i \in 1 .. Len(attached[p]) : attached[p][i].module = m
    BY <1>15 DEF Awaited
  <2>2. CASE p # o
    BY <1>5, <2>1, <2>2 DEF Awaited
  <2>3. CASE p = o
    <3>1. PICK i \in 1 .. Len(s) : s[i].module = m
      BY <2>1, <2>3 DEF s
    <3>2. i # 1
      BY <1>3, <1>15, <3>1
    <3>3. i - 1 \in 1 .. Len(Tail(s)) /\ Tail(s)[i - 1].module = m
      BY <1>13, <3>1, <3>2
    <3> QED BY <1>5, <3>3 DEF Awaited
  <2> QED BY <2>2, <2>3
<1>16. h.type = TypeNow(h.module) \/ Awaited(h.module)'
  <2>1. 1 \in 1 .. Len(s)
    BY <1>3
  <2>2. CASE s[1].type = TypeNow(h.module)
    BY <1>3, <2>2
  <2>3. ASSUME NEW j \in 1 .. Len(s), j > 1, s[j].module = h.module
        PROVE  Awaited(h.module)'
    <3>1. j - 1 \in 1 .. Len(Tail(s)) /\ Tail(s)[j - 1] = s[j]
      BY <1>13, <2>3
    <3>2. \E i \in 1 .. Len(attached'[o]) : attached'[o][i].module = h.module
      BY <1>5, <2>3, <3>1
    <3> QED BY <1>5, <3>2 DEF Awaited
  <2> QED BY <1>3, <1>4, <1>11, <2>1, <2>2, <2>3
<1>17. EventsEndInNow'
  <2> SUFFICES ASSUME observersActive, NEW m \in Modules, NEW i \in 1 .. n + 1,
                      i > startedAt, events'[i].module = m
               PROVE  \/ events'[i].type = TypeNow(m)
                      \/ \E j \in 1 .. n + 1 : j > i /\ events'[j].module = m
                      \/ Awaited(m)'
    BY <1>1, <1>7, <1>10 DEF EventsEndInNow
  <2>1. n + 1 \in 1 .. n + 1
    BY <1>7
  <2>2. CASE m = h.module
    <3>1. CASE i = n + 1
      BY <1>7, <1>16, <2>2, <3>1
    <3>2. CASE i # n + 1
      <4>1. n + 1 > i
        BY <1>7, <3>2
      <4> QED BY <1>7, <2>1, <2>2, <4>1
    <3> QED BY <3>1, <3>2
  <2>3. CASE m # h.module
    <3>1. i \in 1 .. n /\ \A j \in 1 .. n : j \in 1 .. n + 1
      BY <1>7, <2>3
    <3>2. events[i].module = m
      BY <1>7, <3>1
    <3>3. \/ events[i].type = TypeNow(m)
          \/ \E j \in 1 .. n : j > i /\ events[j].module = m
          \/ Awaited(m)
      BY <3>1, <3>2 DEF StreamInv, EventsEndInNow, n
    <3> QED BY <1>7, <1>15, <2>3, <3>1, <3>3
  <2> QED BY <2>2, <2>3
<1>18. ASSUME NEW m \in Modules, Awaited(m) \/ WasTold(m) PROVE Awaited(m)' \/ WasTold(m)'
  <2>1. n + 1 \in 1 .. Len(events') /\ n + 1 > startedAt
    BY <1>2, <1>7 DEF StreamTypeOK, n
  <2>2. CASE m = h.module
    BY <1>1, <1>7, <2>1, <2>2 DEF WasTold
  <2>3. CASE m # h.module /\ Awaited(m)
    BY <1>15, <2>3
  <2>4. CASE WasTold(m)
    <3>1. PICK i \in 1 .. n : i > startedAt /\ events[i].module = m
      BY <2>4 DEF WasTold, n
    <3>2. i \in 1 .. Len(events')
      BY <1>7
    <3> QED BY <1>1, <1>7, <3>1, <3>2 DEF WasTold
  <2> QED BY <1>18, <2>2, <2>3, <2>4
<1>19. ASSUME NEW S, UntoldAreAs(S) PROVE UntoldAreAs(S)'
  BY <1>1, <1>18, <1>19 DEF UntoldAreAs
<1>20. SurfacesHold'
  BY <1>1, <1>19 DEF StreamInv, SurfacesHold
<1> QED BY <1>8, <1>9, <1>14, <1>17, <1>20 DEF StreamInv

LEMMA SurfaceIsListed ==
  ASSUME loaded \in SUBSET Modules
  PROVE  /\ Cardinality(loaded) \in Nat
         /\ \A i \in 1 .. Cardinality(loaded) : SetToSeq(loaded)[i] \in loaded
<1>1. IsFiniteSet(loaded)
  BY DumpAgentAssumption, FS_Subset
<1>2. Cardinality(loaded) \in Nat /\ ExistsBijection(1 .. Cardinality(loaded), loaded)
  BY <1>1, FS_CardinalityType
<1>3. PICK f \in [1 .. Cardinality(loaded) -> loaded] : IsInjective(f)
  BY <1>2 DEF ExistsBijection, Bijection, Injection
<1>4. SetToSeq(loaded) \in [1 .. Cardinality(loaded) -> loaded]
  BY <1>3 DEF SetToSeq
<1> QED BY <1>2, <1>4

(* Observers are started: what they tell at once is of modules loaded, and *)
(* no dump is of this start yet.                                           *)
LEMMA StartingKeeps ==
  ASSUME StreamInv, NEW includeInitial \in BOOLEAN, StartObservers(includeInitial)
  PROVE  StreamInv'
<1> DEFINE surface == [i \in 1 .. Cardinality(loaded) |->
                         [type |-> "MODULE_ADDED", module |-> SetToSeq(loaded)[i]]]
           none == << >>
           new == starts + 1
           n == Len(events)
<1>1. /\ ~observersActive /\ starts' = new /\ startedAt' = eventSequence
      /\ moduleObserver' = new /\ UNCHANGED <<loaded, changes, captureSequence, capture, dumps>>
      /\ attached' = [o \in DOMAIN attached \cup {new} |-> IF o = new THEN none ELSE attached[o]]
      /\ SendRuntimeEvents(IF includeInitial THEN surface ELSE none)
  BY DEF StartObservers, captures
<1>2. StreamTypeOK /\ starts \in Nat
  BY DEF StreamInv, StreamTypeOK
<1>3. /\ surface \in Seq(Notices)
      /\ \A i \in 1 .. Len(surface) : surface[i].type = "MODULE_ADDED" /\ surface[i].module \in loaded
  <2>1. /\ Cardinality(loaded) \in Nat
        /\ \A i \in 1 .. Cardinality(loaded) : SetToSeq(loaded)[i] \in loaded
    BY <1>2, SurfaceIsListed DEF StreamTypeOK
  <2>2. \A i \in 1 .. Cardinality(loaded) :
          /\ surface[i] \in Notices /\ surface[i].type = "MODULE_ADDED"
          /\ surface[i].module \in loaded
    BY <1>2, <2>1 DEF Notices, StreamTypeOK
  <2>3. surface = [i \in 1 .. Cardinality(loaded) |-> surface[i]]
    OBVIOUS
  <2> HIDE DEF surface
  <2>4. surface \in [1 .. Cardinality(loaded) -> Notices]
    BY <2>2, <2>3
  <2>5. surface \in Seq(Notices) /\ Len(surface) = Cardinality(loaded)
    BY <2>1, <2>4
  <2> QED BY <2>2, <2>5
<1>4. none \in Seq(Notices) /\ Len(none) = 0
  OBVIOUS
<1> HIDE DEF surface, none
<1>5. PICK told \in Seq(Notices) :
        /\ SendRuntimeEvents(told)
        /\ \A i \in 1 .. Len(told) : told[i].type = "MODULE_ADDED" /\ told[i].module \in loaded
  <2>1. CASE includeInitial
    BY <1>1, <1>3, <2>1
  <2>2. CASE ~includeInitial
    <3>1. SendRuntimeEvents(none)
      BY <1>1, <2>2
    <3>2. \A i \in 1 .. Len(none) : FALSE
      BY <1>4
    <3> QED BY <1>4, <3>1, <3>2
  <2> QED BY <2>1, <2>2
<1>6. /\ events' \in Seq(RuntimeEvents) /\ n \in Nat /\ Len(told) \in Nat
      /\ Len(events') = n + Len(told) /\ eventSequence' = Len(events')
      /\ \A i \in 1 .. n : events'[i] = events[i]
      /\ \A i \in 1 .. Len(events') : events'[i].event_seq = i
      /\ \A i \in 1 .. Len(told) : /\ events'[n + i].type = told[i].type
                                   /\ events'[n + i].module = told[i].module
  BY <1>2, <1>5, SendsTell
<1>7. /\ DOMAIN attached' = DOMAIN attached \cup {new} /\ attached'[new] = none
      /\ \A o \in DOMAIN attached \ {new} : attached'[o] = attached[o]
      /\ attached' = [o \in DOMAIN attached' |-> attached'[o]]
  BY <1>1
<1>8. observersActive' \in BOOLEAN
  BY DEF StartObservers
<1>9. startedAt' = n
  BY <1>1, <1>2 DEF StreamTypeOK
<1>10. StreamTypeOK'
  <2>1. \A o \in DOMAIN attached' : attached'[o] \in Seq(Notices)
    BY <1>2, <1>4, <1>7 DEF StreamTypeOK
  <2>2. startedAt' \in Nat /\ startedAt' <= eventSequence'
    BY <1>6, <1>9
  <2>3. starts' \in Nat /\ loaded' \in SUBSET Modules /\ moduleObserver' \in DOMAIN attached'
    BY <1>1, <1>2, <1>7 DEF StreamTypeOK
  <2> QED BY <1>6, <1>7, <2>1, <2>2, <2>3 DEF StreamTypeOK
<1>c. /\ \A d \in dumps : d.since \in Nat /\ d.since <= starts
      /\ \A c \in Captures : capture[c].at = "clock_again" =>
           capture[c].since \in Nat /\ capture[c].since <= starts
  BY DEF StreamInv, StartsAreCounted
<1>11. StartsAreCounted'
  <2>1. /\ \A d \in dumps : d.since \in Nat /\ d.since <= starts + 1
        /\ \A c \in Captures : capture[c].at = "clock_again" =>
             capture[c].since \in Nat /\ capture[c].since <= starts + 1
    BY <1>2, <1>c
  <2>2. capture = [c \in Captures |-> capture[c]]
    BY DEF StreamInv, StartsAreCounted
  <2> QED BY <1>1, <2>1, <2>2 DEF StartsAreCounted
<1>12. \A m : TypeNow(m)' = TypeNow(m)
  BY <1>1 DEF TypeNow
<1>13. NoticesEndInNow'
  <2> SUFFICES ASSUME NEW m \in Modules, NEW o \in DOMAIN attached', o # new,
                      NEW i \in 1 .. Len(attached'[o]), attached'[o][i].module = m
               PROVE  \/ attached'[o][i].type = TypeNow(m)
                      \/ \E j \in 1 .. Len(attached'[o]) : j > i /\ attached'[o][j].module = m
    BY <1>4, <1>7, <1>12 DEF NoticesEndInNow
  <2> QED BY <1>7 DEF StreamInv, NoticesEndInNow
<1>14. EventsEndInNow'
  <2> SUFFICES ASSUME NEW m \in Modules, NEW i \in 1 .. Len(events'),
                      i > n, events'[i].module = m
               PROVE  events'[i].type = TypeNow(m)
    BY <1>9, <1>12 DEF EventsEndInNow
  <2>1. i - n \in 1 .. Len(told) /\ n + (i - n) = i
    BY <1>6
  <2>2. events'[i].type = "MODULE_ADDED" /\ m \in loaded
    BY <1>5, <1>6, <2>1
  <2> QED BY <2>2 DEF TypeNow
<1>15. SurfacesHold'
  <2>1. \A d \in dumps : d.since # new
    BY <1>2, <1>c
  <2>2. \A c \in Captures : capture[c].at = "clock_again" => capture[c].since # new
    BY <1>2, <1>c
  <2> HIDE DEF new
  <2> QED BY <1>1, <2>1, <2>2 DEF SurfacesHold
<1> QED BY <1>10, <1>11, <1>13, <1>14, <1>15 DEF StreamInv

LEMMA StoppingKeeps == ASSUME StreamInv, StopObservers PROVE StreamInv'
<1>1. /\ attached' = [o \in DOMAIN attached \ {moduleObserver} |-> attached[o]]
      /\ observersActive' = FALSE
      /\ UNCHANGED <<loaded, changes, captureSequence, capture, dumps, eventSequence, events,
                     starts, startedAt>>
  BY DEF StopObservers, captures, sent
<1>2. /\ DOMAIN attached' \subseteq DOMAIN attached
      /\ \A o \in DOMAIN attached' : attached'[o] = attached[o]
      /\ attached' = [o \in DOMAIN attached' |-> attached'[o]]
  BY <1>1
<1>3. StreamTypeOK'
  BY <1>1, <1>2 DEF StreamInv, StreamTypeOK
<1>4. StartsAreCounted'
  BY <1>1 DEF StreamInv, StartsAreCounted
<1>5. \A m : TypeNow(m)' = TypeNow(m)
  BY <1>1 DEF TypeNow
<1>6. NoticesEndInNow'
  BY <1>2, <1>5 DEF StreamInv, NoticesEndInNow
<1> QED BY <1>1, <1>3, <1>4, <1>6 DEF StreamInv, EventsEndInNow, SurfacesHold

(* A capture takes a step that reads no modules for the dump, or ends.     *)
LEMMA CapturingKeeps ==
  ASSUME StreamInv, UNCHANGED <<loaded, attached, observers, sent>>,
         NEW c \in Captures, NEW new, new.at # "clock_again",
         capture' = [capture EXCEPT ![c] = new],
         \/ dumps' = dumps
         \/ capture[c].at = "clock_again" /\ dumps' = dumps \cup {Dump(capture[c])}
  PROVE  StreamInv'
<1>1. /\ StreamTypeOK' /\ NoticesEndInNow' /\ EventsEndInNow'
      /\ \A S : UntoldAreAs(S)' <=> UntoldAreAs(S)
  BY CapturesKeep
<1>2. /\ capture'[c] = new /\ \A b \in Captures \ {c} : capture'[b] = capture[b]
      /\ capture' = [b \in Captures |-> capture'[b]]
  BY DEF StreamInv, StartsAreCounted
<1>3. UNCHANGED <<observersActive, starts>>
  BY DEF observers
<1>4. Dump(capture[c]).modules = capture[c].end /\ Dump(capture[c]).since = capture[c].since
  BY DEF Dump
<1>5. StartsAreCounted'
  BY <1>2, <1>3, <1>4 DEF StreamInv, StartsAreCounted
<1>6. SurfacesHold'
  <2> SUFFICES ASSUME observersActive
               PROVE  /\ \A d \in dumps' : d.since = starts /\ d.modules # Unknown
                           => UntoldAreAs(d.modules)
                      /\ \A b \in Captures :
                           /\ capture'[b].at = "clock_again" /\ capture'[b].since = starts
                           /\ capture'[b].end # Unknown
                           => UntoldAreAs(capture'[b].end)
    <3>1. \A S : UntoldAreAs(S)' <=> UntoldAreAs(S)
      BY <1>1
    <3> QED BY <1>3, <3>1 DEF SurfacesHold
  <2> QED BY <1>2, <1>4 DEF StreamInv, SurfacesHold
<1> QED BY <1>1, <1>5, <1>6 DEF StreamInv

(* A capture reads the modules that its dump will show.                    *)
LEMMA FencingKeeps == ASSUME StreamInv, NEW c \in Captures, FenceEnd(c) PROVE StreamInv'
<1>1. /\ StreamTypeOK' /\ NoticesEndInNow' /\ EventsEndInNow'
      /\ \A S : UntoldAreAs(S)' <=> UntoldAreAs(S)
  BY CapturesKeep DEF FenceEnd
<1>2. PICK modules \in {loaded, Unknown} :
        capture' = [capture EXCEPT ![c] = [at |-> "clock_again", seq |-> capture[c].seq,
                                           start |-> capture[c].start, end |-> modules,
                                           since |-> starts]]
  BY DEF FenceEnd, CollectModules
<1>3. /\ capture'[c].since = starts /\ capture'[c].end = modules
      /\ \A b \in Captures \ {c} : capture'[b] = capture[b]
      /\ capture' = [b \in Captures |-> capture'[b]]
  BY <1>2 DEF StreamInv, StartsAreCounted
<1>4. UNCHANGED <<observersActive, starts, dumps>> /\ starts \in Nat
  BY DEF FenceEnd, observers, StreamInv, StreamTypeOK
<1>5. StartsAreCounted'
  <2>1. /\ \A d \in dumps : d.since \in Nat /\ d.since <= starts
        /\ \A b \in Captures : capture[b].at = "clock_again" =>
             capture[b].since \in Nat /\ capture[b].since <= starts
    BY DEF StreamInv, StartsAreCounted
  <2>2. \A b \in Captures : capture'[b].at = "clock_again" =>
          capture'[b].since \in Nat /\ capture'[b].since <= starts
    BY <1>3, <1>4, <2>1
  <2> QED BY <1>3, <1>4, <2>1, <2>2 DEF StartsAreCounted
<1>6. UntoldAreAs(loaded)
  BY DEF UntoldAreAs
<1>7. SurfacesHold'
  <2> SUFFICES ASSUME observersActive
               PROVE  /\ \A d \in dumps : d.since = starts /\ d.modules # Unknown
                           => UntoldAreAs(d.modules)
                      /\ \A b \in Captures :
                           /\ capture'[b].at = "clock_again" /\ capture'[b].since = starts
                           /\ capture'[b].end # Unknown
                           => UntoldAreAs(capture'[b].end)
    <3>1. \A S : UntoldAreAs(S)' <=> UntoldAreAs(S)
      BY <1>1
    <3> QED BY <1>4, <3>1 DEF SurfacesHold
  <2> QED BY <1>2, <1>3, <1>6 DEF StreamInv, SurfacesHold
<1> QED BY <1>1, <1>5, <1>7 DEF StreamInv

LEMMA StreamStep == StreamInv /\ [DumpAgentNext]_dumpAgentVars => StreamInv'
<1> SUFFICES ASSUME StreamInv, [DumpAgentNext]_dumpAgentVars PROVE StreamInv'
  OBVIOUS
<1>1. ASSUME NEW c \in Captures,
             BeginCapture(c) \/ FenceStart(c) \/ EmitSnapshot(c) \/ CaptureGap(c)
      PROVE  StreamInv'
  <2>1. UNCHANGED <<loaded, attached, observers, sent>>
    BY <1>1 DEF BeginCapture, FenceStart, EmitSnapshot, CaptureGap
  <2>2. ASSUME NEW new, new.at # "clock_again", capture' = [capture EXCEPT ![c] = new],
               \/ dumps' = dumps
               \/ capture[c].at = "clock_again" /\ dumps' = dumps \cup {Dump(capture[c])}
        PROVE  StreamInv'
    BY <2>1, <2>2, CapturingKeeps
  <2>3. CASE BeginCapture(c)
    <3> DEFINE new == [at |-> "clock", seq |-> captureSequence + 1]
    <3>1. capture' = [capture EXCEPT ![c] = new] /\ dumps' = dumps /\ new.at # "clock_again"
      BY <2>3 DEF BeginCapture
    <3> HIDE DEF new
    <3> QED BY <2>2, <3>1
  <2>4. CASE FenceStart(c)
    <3>1. PICK modules : capture' = [capture EXCEPT ![c] = [at |-> "java", seq |-> capture[c].seq,
                                                            start |-> modules]]
      BY <2>4 DEF FenceStart
    <3> DEFINE new == [at |-> "java", seq |-> capture[c].seq, start |-> modules]
    <3>2. capture' = [capture EXCEPT ![c] = new] /\ dumps' = dumps /\ new.at # "clock_again"
      BY <2>4, <3>1 DEF FenceStart
    <3> HIDE DEF new
    <3> QED BY <2>2, <3>2
  <2>5. CASE EmitSnapshot(c) \/ CaptureGap(c)
    <3> DEFINE new == [at |-> "done"]
    <3>1. /\ capture' = [capture EXCEPT ![c] = new] /\ new.at # "clock_again"
          /\ \/ dumps' = dumps
             \/ capture[c].at = "clock_again" /\ dumps' = dumps \cup {Dump(capture[c])}
      BY <2>5 DEF EmitSnapshot, CaptureGap
    <3> HIDE DEF new
    <3> QED BY <2>2, <3>1
  <2> QED BY <1>1, <2>3, <2>4, <2>5
<1>2. CASE UNCHANGED dumpAgentVars
  <2>1. UNCHANGED <<loaded, attached, observers, sent>>
    BY <1>2 DEF dumpAgentVars, observers, sent
  <2>2. UNCHANGED <<capture, dumps, starts, observersActive>>
    BY <1>2 DEF dumpAgentVars
  <2>3. /\ StreamTypeOK' /\ NoticesEndInNow' /\ EventsEndInNow'
        /\ \A S : UntoldAreAs(S)' <=> UntoldAreAs(S)
    BY <2>1, CapturesKeep
  <2>4. StartsAreCounted'
    BY <2>2 DEF StreamInv, StartsAreCounted
  <2>5. SurfacesHold'
    BY <2>2, <2>3 DEF StreamInv, SurfacesHold
  <2> QED BY <2>3, <2>4, <2>5 DEF StreamInv
<1> QED BY <1>1, <1>2, LinkerKeeps, TellingKeeps, StartingKeeps, StoppingKeeps, FencingKeeps
        DEF DumpAgentNext

(* For any modules, captures and observers, also such as a failed start    *)
(* left behind: once the active observers have nothing left to tell, each  *)
(* dump since the start gives, with the events since, what is loaded.      *)
THEOREM DumpsAndEventsTellSurface == DumpAgentSpec => []StreamTellsSurface
<1>1. ASSUME StreamInv, observersActive, \A o \in DOMAIN attached : attached[o] = <<>>,
             NEW d \in dumps, d.since = starts, d.modules # Unknown
      PROVE  Reading(d) = loaded
  <2> DEFINE told(m) == {i \in DOMAIN events : /\ events[i].event_seq > startedAt
                                               /\ events[i].module = m}
             last(m) == CHOOSE i \in told(m) : \A j \in told(m) : j <= i
  <2>1. /\ DOMAIN events = 1 .. Len(events) /\ Len(events) \in Nat /\ loaded \subseteq Modules
        /\ \A i \in 1 .. Len(events) : events[i].event_seq = i
    BY <1>1 DEF StreamInv, StreamTypeOK
  <2>2. \A m : ~Awaited(m)
    <3>1. \A o \in DOMAIN attached : Len(attached[o]) = 0
      BY <1>1
    <3> QED BY <3>1 DEF Awaited
  <2>3. UntoldAreAs(d.modules)
    BY <1>1 DEF StreamInv, SurfacesHold
  <2>4. ASSUME NEW m \in Modules, told(m) = {} PROVE m \in d.modules <=> m \in loaded
    <3>1. ~WasTold(m)
      BY <2>1, <2>4 DEF WasTold
    <3> QED BY <2>2, <2>3, <3>1 DEF UntoldAreAs
  <2>5. ASSUME NEW m \in Modules, told(m) # {}
        PROVE  events[last(m)].type = "MODULE_ADDED" <=> m \in loaded
    <3>1. told(m) \subseteq 1 .. Len(events)
      BY <2>1
    <3>2. \E i \in told(m) : \A j \in told(m) : j <= i
      <4> HIDE DEF told
      <4>1. Max(told(m)) \in told(m) /\ \A j \in told(m) : j <= Max(told(m))
        BY <2>1, <2>5, <3>1, MaxExists
      <4> QED BY <4>1
    <3>3. last(m) \in told(m) /\ \A j \in told(m) : j <= last(m)
      <4> HIDE DEF told
      <4> QED BY <3>2, Zenon
    <3>4. PICK i : i = last(m)
      OBVIOUS
    <3> HIDE DEF last
    <3>5. i \in 1 .. Len(events) /\ i > startedAt /\ events[i].module = m
      BY <2>1, <3>3, <3>4
    <3>6. ~\E j \in 1 .. Len(events) : j > i /\ events[j].module = m
      <4> SUFFICES ASSUME NEW j \in 1 .. Len(events), j > i, events[j].module = m PROVE FALSE
        OBVIOUS
      <4>1. j > startedAt
        BY <1>1, <2>1, <3>5 DEF StreamInv, StreamTypeOK
      <4>2. j \in told(m)
        BY <2>1, <4>1
      <4> QED BY <2>1, <3>3, <3>4, <3>5, <4>2
    <3>7. events[i].type = TypeNow(m)
      BY <1>1, <2>2, <3>5, <3>6 DEF StreamInv, EventsEndInNow
    <3> QED BY <3>4, <3>7 DEF TypeNow
  <2>6. Reading(d) = {m \in Modules : IF told(m) = {} THEN m \in d.modules
                                      ELSE events[last(m)].type = "MODULE_ADDED"}
    BY DEF Reading
  <2> HIDE DEF told, last
  <2> QED BY <2>1, <2>4, <2>5, <2>6
<1>2. StreamInv => StreamTellsSurface
  BY <1>1 DEF StreamTellsSurface
<1> QED BY <1>2, StreamStart, StreamStep, PTL DEF DumpAgentSpec
=============================================================================
