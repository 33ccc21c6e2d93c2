-------------------------- MODULE RollbackJournals --------------------------
(***************************************************************************)
(* RollbackEngineImpl of modules/runtime-learning-engine/                  *)
(* rollback-engine.ts: the journal of one patched region, its counter of   *)
(* attempts, and the journal file.  Callers share the counter: an attempt  *)
(* is one step up to the await on verifyRollback, whose answer is looked   *)
(* at a step later.                                                        *)
(***************************************************************************)
EXTENDS Naturals

CONSTANTS Rollers,              \* callers of rollback
          MaxRollbackAttempts,  \* maxRollbackAttempts
          MaxCalls              \* bound: calls of rollback

ASSUME JournalAssumption == MaxRollbackAttempts \in Nat \ {0} /\ MaxCalls \in Nat

VARIABLES region,            \* the target's bytes: "original", "fixed" or "garbled"
          writable,          \* Frida's Memory can write
          journal,           \* "none", or the journal's verification_passed
          journalFile,       \* what the file says of it, or "absent" or "torn"
          rollbackAttempts,
          roller,            \* caller -> its frame
          writes, calls      \* attempts begun; calls made

journalVars == <<region, writable, journal, journalFile, rollbackAttempts, roller, writes, calls>>

AtRest == [at |-> "idle", attempts |-> 0, success |-> FALSE, answer |-> "none"]

JournalInit ==
  /\ region = "original" /\ writable \in BOOLEAN
  /\ journal = "none" /\ journalFile \in {"absent", "torn"}
  /\ rollbackAttempts = 0 /\ writes = 0 /\ calls = 0
  /\ roller = [r \in Rollers |-> AtRest]

(* persistJournal: a file that cannot be parsed is left alone, a write     *)
(* that fails is logged.                                                   *)
PersistJournal(verdict) ==
  IF journalFile = "torn" THEN UNCHANGED journalFile
                          ELSE journalFile' \in {verdict, journalFile, "torn"}

JournalBefore ==
  /\ journal = "none"
  /\ journal' = "unverified" /\ PersistJournal("unverified")
  /\ UNCHANGED <<region, writable, rollbackAttempts, roller, writes, calls>>

(* commitFix: a checksum equal to the one before is no mutation.           *)
CommitFix ==
  /\ journal # "none"
  /\ LET verdict == IF region = "original" THEN "failed" ELSE "passed"
     IN journal' = verdict /\ PersistJournal(verdict)
  /\ UNCHANGED <<region, writable, rollbackAttempts, roller, writes, calls>>

(* The fix, or the target's own code, writes the region.                   *)
Target == /\ journal # "none" /\ region' \in {"fixed", "garbled"} \ {region}
          /\ UNCHANGED <<writable, journal, journalFile, rollbackAttempts, roller, writes, calls>>

Answer(r, ok) ==
  roller' = [roller EXCEPT ![r] = [AtRest EXCEPT !.answer = IF ok THEN "true" ELSE "false"]]

RefuseRollback(r) ==
  /\ rollbackAttempts >= MaxRollbackAttempts \/ ~writable
  /\ Answer(r, FALSE) /\ UNCHANGED <<region, rollbackAttempts, writes>>

AttemptsLeft == MaxRollbackAttempts - rollbackAttempts

(* Faulty form: the counter is raised once for all the frames of a call.   *)
AttemptCountedOnce(r, throws, verified) ==
  /\ writable /\ throws < AttemptsLeft
  /\ rollbackAttempts' = rollbackAttempts + 1
  /\ writes' = writes + throws + 1
  /\ region' = "original"
  /\ roller' = [roller EXCEPT ![r] = [@ EXCEPT !.at = "verifying", !.success = verified,
                                               !.attempts = rollbackAttempts + throws]]

(* rollback up to its await on a verification.  An exception of Memory is  *)
(* caught and tried again at once, so that some attempts may have thrown   *)
(* before; the read-back may fail or differ.                               *)
Attempt(r, throws, verified) ==
  /\ writable /\ throws < AttemptsLeft
  /\ rollbackAttempts' = rollbackAttempts + throws + 1
  /\ writes' = writes + throws + 1
  /\ region' = "original"
  /\ roller' = [roller EXCEPT ![r] = [@ EXCEPT !.at = "verifying", !.success = verified,
                                               !.attempts = rollbackAttempts + throws]]

(* All the attempts left throw, before or after the bytes were written.    *)
AllThrow(r) ==
  /\ writable /\ AttemptsLeft > 0
  /\ rollbackAttempts' = MaxRollbackAttempts
  /\ writes' = writes + AttemptsLeft
  /\ region' \in {region, "original"}
  /\ Answer(r, FALSE)

Enter(r) ==
  \/ \E throws \in 0 .. MaxRollbackAttempts - 1, verified \in BOOLEAN : Attempt(r, throws, verified)
  \/ AllThrow(r)
  \/ RefuseRollback(r)

CallRollback(r) ==
  /\ journal # "none" /\ roller[r].at = "idle" /\ calls < MaxCalls /\ calls' = calls + 1
  /\ Enter(r) /\ UNCHANGED <<writable, journal, journalFile>>

(* The frame's own count, not the shared one, says whether to go again.    *)
GoesAgain(r) == roller[r].attempts < MaxRollbackAttempts - 1

Retry(r) ==
  /\ roller[r].at = "verifying" /\ ~roller[r].success /\ GoesAgain(r)
  /\ Enter(r) /\ UNCHANGED <<writable, journal, journalFile, calls>>

(* The verdict of the last frame to end is the journal's.                  *)
Conclude(r) ==
  /\ roller[r].at = "verifying" /\ (roller[r].success \/ ~GoesAgain(r))
  /\ LET verdict == IF roller[r].success THEN "passed" ELSE "failed"
     IN journal' = verdict /\ PersistJournal(verdict)
  /\ Answer(r, roller[r].success)
  /\ UNCHANGED <<region, writable, rollbackAttempts, writes, calls>>

JournalNext ==
  \/ JournalBefore \/ CommitFix \/ Target
  \/ \E r \in Rollers : CallRollback(r) \/ Retry(r) \/ Conclude(r)

JournalSpec == JournalInit /\ [][JournalNext]_journalVars

-----------------------------------------------------------------------------
(* However many callers roll a journal back at once, the region is written *)
(* at most maxRollbackAttempts times, and where it can be written nobody   *)
(* is told FALSE before all attempts have been made.                       *)
AttemptsAreUsedUp ==
  /\ writes <= MaxRollbackAttempts
  /\ writable => \A r \in Rollers : roller[r].answer = "false" => writes = MaxRollbackAttempts
=============================================================================
