---------------------------- MODULE EvidenceFiles ----------------------------
(***************************************************************************)
(* The evidence modules/runtime-learning-engine keeps on disk: the trail   *)
(* of AuditLogger (audit-logger.ts), the checks of IntegrityVerifier       *)
(* (integrity-verifier.ts), which reads that trail while it is written,    *)
(* and the reports of ContractVerifier (contract-verifier.ts).  Of the     *)
(* files the checks read only the trail matters here; entries are          *)
(* numbered in the order of log().                                         *)
(***************************************************************************)
EXTENDS Integers, Sequences, FiniteSets, SequencesExt

CONSTANTS Verifiers,    \* calls of verifyIntegrity under way, a monitor's among them
          FileLimit,    \* maxFileSize, in lines
          KeptReports,  \* the 100 reports of a file
          Measured,     \* what verifyCompliance may be given: metric -> value
          MaxEntries, MaxReports, \* bounds: entries logged, reports saved in a file
          MaxFaults     \* bound: writes, renames and reads of reports that fail, deaths
                        \* of the process

ASSUME EvidenceAssumption ==
  /\ {MaxEntries, MaxReports, MaxFaults} \subseteq Nat
  /\ FileLimit \in Nat \ {0} /\ KeptReports \in Nat \ {0}

VARIABLES auditLog,   \* its lines
          rotated,    \* the files rotateIfNeeded renamed, oldest first
          logged,     \* entries so far
          verifying,  \* verifier -> what it has found
          reportFile, \* of integrity and of compliance: the reports, or a torn file
          faults,     \* so far, and those that cut a line
          reported    \* history: the reports saved since the file was torn, or last not read

evidenceVars == <<auditLog, rotated, logged, verifying, reportFile, faults, reported>>
trail == <<auditLog, rotated, logged>>

Kinds == {"integrity", "compliance"}
NotVerifying == [at |-> "idle"]
ReportsOf(reports) == [torn |-> FALSE, reports |-> reports]
TornReports == [torn |-> TRUE, reports |-> <<>>]

EvidenceInit ==
  /\ auditLog = <<>> /\ rotated = <<>> /\ logged = 0
  /\ verifying = [v \in Verifiers |-> NotVerifying]
  /\ reportFile = [k \in Kinds |-> ReportsOf(<<>>)] /\ reported = [k \in Kinds |-> <<>>]
  /\ faults = [n |-> 0, cuts |-> 0]

Fault(cuts) == /\ faults.n < MaxFaults
               /\ faults' = [n |-> faults.n + 1, cuts |-> faults.cuts + cuts]

-----------------------------------------------------------------------------
(* appendFileSync: what was cut off before takes the next entry with it.   *)
(* A line that lacks only its end still reads well until then.             *)
WithLine(lines, whole, ended) ==
  IF lines # <<>> /\ ~Last(lines).ended
  THEN [lines EXCEPT ![Len(lines)] = [entry |-> logged + 1, whole |-> FALSE, ended |-> ended]]
  ELSE Append(lines, [entry |-> logged + 1, whole |-> whole, ended |-> ended])

RotateIfNeeded(lines) == auditLog' = <<>> /\ rotated' = Append(rotated, lines)

(* log: the entry is written, or not or in part when that fails, of which  *)
(* the caller is told nothing; then a log beyond its limit is renamed,     *)
(* unless that fails or the process dies before.                           *)
Log ==
  /\ logged < MaxEntries /\ logged' = logged + 1
  /\ \E lines \in {auditLog, WithLine(auditLog, FALSE, FALSE), WithLine(auditLog, TRUE, FALSE),
                   WithLine(auditLog, TRUE, TRUE)} :
       LET well == lines = WithLine(auditLog, TRUE, TRUE)
       IN \/ /\ Len(lines) > FileLimit /\ RotateIfNeeded(lines)
             /\ IF well THEN UNCHANGED faults ELSE Fault(1)
          \/ /\ auditLog' = lines /\ UNCHANGED rotated
             /\ IF well /\ Len(lines) <= FileLimit THEN UNCHANGED faults
                ELSE Fault(IF well THEN 0 ELSE 1)
  /\ UNCHANGED <<verifying, reportFile, reported>>

(* readAuditTrail: of the last lines those that parse, with their entries. *)
ReadAuditTrail(lines, limit) ==
  [i \in {j \in DOMAIN lines : j + limit > Len(lines) /\ lines[j].whole} |-> lines[i].entry]

-----------------------------------------------------------------------------
(* Faulty form: the first reports are kept.                                *)
FirstReports(reports) ==
  SubSeq(reports, 1, IF Len(reports) > KeptReports THEN KeptReports ELSE Len(reports))

Trimmed(reports) ==
  SubSeq(reports, IF Len(reports) > KeptReports THEN 2 ELSE 1, Len(reports))

(* saveReport, in place, over what the file has now: nothing if it is torn *)
(* or cannot be read, and then the report stands alone.                    *)
SaveReport(kind, report) ==
  /\ Len(reported[kind]) < MaxReports
  /\ \/ /\ reportFile' = [reportFile EXCEPT ![kind] = ReportsOf(Trimmed(Append(@.reports, report)))]
        /\ reported' = [reported EXCEPT ![kind] = Append(@, report)]
        /\ UNCHANGED faults
     \/ /\ Fault(0) /\ reportFile' = [reportFile EXCEPT ![kind] = ReportsOf(<<report>>)]
        /\ reported' = [reported EXCEPT ![kind] = <<report>>]
     \/ Fault(0) /\ UNCHANGED <<reportFile, reported>>
     \/ /\ Fault(0) /\ reportFile' = [reportFile EXCEPT ![kind] = TornReports]
        /\ reported' = [reported EXCEPT ![kind] = <<>>]

(* verifyIntegrity, an await after each file.                              *)
BeginVerification(v) ==
  /\ verifying[v] = NotVerifying
  /\ verifying' = [verifying EXCEPT ![v] = [at |-> "begun"]]
  /\ UNCHANGED trail /\ UNCHANGED <<reportFile, faults, reported>>

(* validateFileFormat: every line of a log must parse.                     *)
ValidateFileFormat(lines) == \A i \in DOMAIN lines : lines[i].whole

CheckFile(v) ==
  /\ verifying[v].at = "begun"
  /\ verifying' = [verifying EXCEPT ![v] =
       [at |-> "checked",
        status |-> IF auditLog = <<>> THEN "missing"
                   ELSE IF ValidateFileFormat(auditLog) THEN "valid" ELSE "invalid"]]
  /\ UNCHANGED trail /\ UNCHANGED <<reportFile, faults, reported>>

(* A monitor then waits and begins again, unless it was stopped.           *)
EndVerification(v) ==
  /\ verifying[v].at = "checked"
  /\ SaveReport("integrity", verifying[v].status)
  /\ verifying' = [verifying EXCEPT ![v] = NotVerifying]
  /\ UNCHANGED trail

Sla(metric, breaks, bound, severity) ==
  [metric |-> metric, breaks |-> breaks, bound |-> bound, severity |-> severity]

(* data_integrity_valid is 1 or 0.                                         *)
Slas == {Sla("bug_capture_latency", "above", 100, "critical"),
         Sla("pattern_detection_latency", "above", 500, "critical"),
         Sla("fix_application_latency", "above", 1000, "critical"),
         Sla("rollback_latency", "above", 500, "critical"),
         Sla("success_rate", "below", 80, "critical"),
         Sla("data_integrity_valid", "below", 1, "critical"),
         Sla("audit_completeness", "below", 99, "warning"),
         Sla("regression_rate", "above", 10, "warning"),
         Sla("rollback_success_rate", "below", 95, "critical")}

ComplianceReport(metrics) ==
  LET broken == {s \in Slas : /\ s.metric \in DOMAIN metrics
                              /\ IF s.breaks = "above" THEN metrics[s.metric] > s.bound
                                 ELSE metrics[s.metric] < s.bound}
  IN [passed |-> Cardinality(DOMAIN metrics) - Cardinality(broken),
      failed |-> Cardinality(broken),
      critical |-> Cardinality({s \in broken : s.severity = "critical"})]

(* verifyCompliance runs to the end of saveReport without an await.        *)
VerifyCompliance(metrics) ==
  /\ SaveReport("compliance", ComplianceReport(metrics))
  /\ UNCHANGED trail /\ UNCHANGED verifying

(* The process ends: the files stay.                                       *)
EvidenceProcessEnds ==
  /\ Fault(0)
  /\ verifying' = [v \in Verifiers |-> NotVerifying]
  /\ UNCHANGED trail /\ UNCHANGED <<reportFile, reported>>

EvidenceNext ==
  \/ Log \/ EvidenceProcessEnds
  \/ \E v \in Verifiers : BeginVerification(v) \/ CheckFile(v) \/ EndVerification(v)
  \/ \E metrics \in Measured : VerifyCompliance(metrics)

EvidenceSpec == EvidenceInit /\ [][EvidenceNext]_evidenceVars

-----------------------------------------------------------------------------
(* What the trail says, rotated files included, is in the order of the     *)
(* actions, and a write that fails costs at most its own entry and one     *)
(* other, the one before it or the one after: nothing else of what was     *)
(* logged is lost, however often the log is rotated.                       *)
TrailLosesLittle ==
  LET files == Append(rotated, auditLog)
      read(f) == ReadAuditTrail(files[f], MaxEntries)
      told == UNION {Range(read(f)) : f \in DOMAIN files}
  IN /\ \A f, g \in DOMAIN files : \A i \in DOMAIN read(f), j \in DOMAIN read(g) :
          f < g \/ (f = g /\ i < j) => read(f)[i] < read(g)[j]
     /\ Cardinality((1 .. logged) \ told) <= 2 * faults.cuts

(* A report file that is not torn has the last reports saved since it was, *)
(* or since a save could not read it, each once and in the order of saving.*)
ReportsAreLatest ==
  \A kind \in Kinds :
    ~reportFile[kind].torn =>
      LET n == Len(reported[kind])
      IN reportFile[kind].reports =
           SubSeq(reported[kind], IF n > KeptReports THEN n - KeptReports + 1 ELSE 1, n)

(* However logging, verifications, failing writes and deaths of the        *)
(* process interleave, the evidence on disk is what was recorded, but for  *)
(* what the failures themselves account for.                               *)
EvidenceIsKept == TrailLosesLittle /\ ReportsAreLatest
=============================================================================
