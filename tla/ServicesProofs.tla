--------------------------- MODULE ServicesProofs ---------------------------
(***************************************************************************)
(* The services of the engine, each by itself, for any number of callers   *)
(* and whatever their bounds: concurrent captures, rollback journals, the  *)
(* fix engine's corrections, alerts, the engine's lifecycle, evictions,    *)
(* the optimizer, the evidence files and the record of provenance.         *)
(***************************************************************************)
EXTENDS ConcurrentCapture, RollbackJournals, FixEngine, Observability, EngineLifecycle,
        DiskExhaustion, AutoOptimizer, EvidenceFiles, ProvenanceTracker,
        DataLemmas

(***************************************************************************)
(* Concurrent captures: whatever is reset or audited meanwhile, captures   *)
(* that were in one bug at once never both return.                         *)
(* The argument: of such a pair the older one has lost its entry to the    *)
(* younger one's, entries are only ever made with fresh tokens, and a      *)
(* capture returns only over its own entry.                                *)
(***************************************************************************)
Tokens == 1 .. tokens

(* Tokens are handed out in order, and nothing holds one not handed out.   *)
CaptureTypeOK ==
  /\ tokens \in Nat
  /\ activeBugCaptures \in [BugIds -> Tokens \cup {NoToken}]
  /\ capture \in [Capturers -> [at : {"idle", "locking", "capturing"},
                                bug : BugIds \cup {NoToken},
                                token : Tokens \cup {NoToken}]]
  /\ \A c \in Capturers : capture[c].at # "idle" => capture[c].bug \in BugIds
  /\ \A c \in Capturers : capture[c].at = "capturing" => capture[c].token \in Tokens
  /\ won \subseteq Tokens

Capturing == {c \in Capturers : capture[c].at = "capturing"}

(* A capture in progress has a token of its own, has not returned, and is  *)
(* entered under no other bug than its own.                                *)
TokensAreOwn ==
  \A c \in Capturing :
    /\ capture[c].token \notin won
    /\ \A d \in Capturing \ {c} : capture[d].token # capture[c].token
    /\ \A b \in BugIds \ {capture[c].bug} : activeBugCaptures[b] # capture[c].token

(* Token t can no longer be verified: it is no entry, and has not returned. *)
Displaced(t) == t \notin won /\ \A b \in BugIds : activeBugCaptures[b] # t

(* One of two captures that met in a bug is displaced for good.            *)
OneIsDisplaced == \A pair \in beside : \E t \in Tokens : t \in pair /\ Displaced(t)

CInv == CaptureTypeOK /\ TokensAreOwn /\ OneIsDisplaced

-----------------------------------------------------------------------------
(* Nothing is captured at first.                                           *)
LEMMA CaptureStart == CaptureInit => CInv
<1> SUFFICES ASSUME CaptureInit PROVE CInv
  OBVIOUS
<1> USE DEF CaptureInit, NoCapture
<1>1. CaptureTypeOK
  BY DEF CaptureTypeOK, Tokens
<1>2. TokensAreOwn
  BY DEF TokensAreOwn, Capturing
<1>3. OneIsDisplaced
  BY DEF OneIsDisplaced
<1> QED
  BY <1>1, <1>2, <1>3 DEF CInv

(* A step that hands out no token and makes no entry disturbs nothing, if  *)
(* no capture begins or changes in it: the entry of a bug may go, and so   *)
(* may captures.                                                           *)
LEMMA QuietStep ==
  ASSUME CInv, CaptureTypeOK', tokens' = tokens, beside' = beside, won' = won,
         \A b \in BugIds : activeBugCaptures'[b] \in {activeBugCaptures[b], NoToken},
         \A c \in Capturing' : c \in Capturing /\ capture'[c] = capture[c]
  PROVE  CInv'
<1> USE DEF CInv
<1>1. \A t \in Tokens, b \in BugIds : activeBugCaptures'[b] = t => activeBugCaptures[b] = t
  BY CaptureAssumption DEF Tokens, CaptureTypeOK
<1>2. \A c \in Capturing : capture[c].token \in Tokens
  BY DEF CaptureTypeOK, Capturing
<1>3. TokensAreOwn'
  BY <1>1, <1>2 DEF TokensAreOwn
<1>4. Tokens' = Tokens
  BY DEF Tokens
<1>5. OneIsDisplaced'
  BY <1>1, <1>4 DEF OneIsDisplaced, Displaced
<1> QED
  BY <1>3, <1>5

(* A call that is refused changes a counter; one that is not waits for the *)
(* lock.                                                                   *)
LEMMA BeginKeeps ==
  ASSUME CInv, NEW c \in Capturers, NEW b \in BugIds, BeginCapture(c, b)
  PROVE  CInv'
<1> USE DEF BeginCapture
<1>1. CaptureTypeOK'
  BY DEF CInv, CaptureTypeOK, Tokens, NoCapture
<1>2. \A d \in Capturing' : d \in Capturing /\ capture'[d] = capture[d]
  BY DEF CInv, CaptureTypeOK, Capturing
<1> QED
  BY <1>1, <1>2, QuietStep

(* The token of a capture that enters is new: it displaces the entry of    *)
(* every capture that is in the same bug.                                  *)
LEMMA EnterKeeps ==
  ASSUME CInv, NEW c \in Capturers, NEW delayed \in BOOLEAN, EnterCapture(c, delayed)
  PROVE  CInv'
<1> DEFINE b == capture[c].bug
           fresh == tokens + 1
<1> USE DEF CInv
<1>1. /\ b \in BugIds /\ tokens \in Nat /\ fresh \in Tokens' /\ fresh \notin Tokens
      /\ Tokens' = Tokens \cup {fresh} /\ tokens' = fresh
      /\ capture[c].at = "locking"
  <2>1. /\ tokens \in Nat /\ tokens' = fresh /\ capture[c].at = "locking"
        /\ capture[c].at # "idle" => b \in BugIds
    BY DEF EnterCapture, CaptureTypeOK
  <2>2. /\ fresh \in 1 .. fresh /\ fresh \notin 1 .. tokens
        /\ 1 .. fresh = (1 .. tokens) \cup {fresh}
    BY <2>1
  <2> QED
    BY <2>1, <2>2 DEF Tokens
<1>2. beside' = beside \cup {{fresh, t} : t \in Together(b)}
  BY DEF EnterCapture
<1>3. \A t \in Together(b) : \E d \in Capturing : capture[d].bug = b /\ capture[d].token = t
  BY DEF Together, Capturing
<1>4. \A d \in Capturing : capture[d].token \in Tokens /\ d # c
  BY <1>1 DEF CaptureTypeOK, Capturing
<1>5. NoToken # fresh /\ NoToken \notin Tokens
  BY <1>1, CaptureAssumption DEF Tokens
<1>6. \A t \in Tokens : Displaced(t) =>
        t \notin won' /\ \A x \in BugIds : activeBugCaptures'[x] # t
  BY <1>1, <1>5 DEF Displaced, EnterCapture, CaptureTypeOK
<1>7. \A t \in Together(b) : t \in Tokens /\ t \notin won'
                             /\ \A x \in BugIds : activeBugCaptures'[x] # t
  <2> TAKE t \in Together(b)
  <2>1. PICK d \in Capturing : capture[d].bug = b /\ capture[d].token = t
    BY <1>3
  <2>2. t \in Tokens /\ t \notin won /\ \A x \in BugIds \ {b} : activeBugCaptures[x] # t
    BY <2>1, <1>4 DEF TokensAreOwn
  <2> QED
    BY <2>2, <1>1, <1>5 DEF EnterCapture, CaptureTypeOK
<1>8. OneIsDisplaced'
  <2>1. \A pair \in beside : \E t \in Tokens : t \in pair /\ Displaced(t)
    BY DEF OneIsDisplaced
  <2>2. \A pair \in beside' : \E t \in Tokens' : t \in pair /\ Displaced(t)'
    BY <2>1, <1>1, <1>2, <1>6, <1>7 DEF Displaced
  <2> QED
    BY <2>2 DEF OneIsDisplaced
<1>9. CASE delayed
  <2>1. /\ activeBugCaptures' = [activeBugCaptures EXCEPT ![b] = fresh]
        /\ capture' = [capture EXCEPT ![c] = [@ EXCEPT !.at = "capturing", !.token = fresh]]
        /\ won' = won
    BY <1>9 DEF EnterCapture
  <2>2. CaptureTypeOK'
    <3>1. activeBugCaptures' \in [BugIds -> Tokens' \cup {NoToken}]
      BY <2>1, <1>1 DEF CaptureTypeOK
    <3>2. \A d \in Capturers : capture'[d] =
            IF d = c THEN [capture[d] EXCEPT !.at = "capturing", !.token = fresh]
                     ELSE capture[d]
      BY <2>1 DEF CaptureTypeOK
    <3>3. capture' \in [Capturers -> [at : {"idle", "locking", "capturing"},
                                      bug : BugIds \cup {NoToken},
                                      token : Tokens' \cup {NoToken}]]
      BY <2>1, <1>1 DEF CaptureTypeOK
    <3>4. \A d \in Capturers : /\ capture'[d].bug = capture[d].bug
                               /\ d # c => capture'[d] = capture[d]
      BY <3>2 DEF CaptureTypeOK
    <3>5. capture'[c].token = fresh
      BY <3>2 DEF CaptureTypeOK
    <3>6. \A d \in Capturers : /\ capture[d].at # "idle" => capture[d].bug \in BugIds
                               /\ capture[d].at = "capturing" => capture[d].token \in Tokens
      BY DEF CaptureTypeOK
    <3>7. \A d \in Capturers : capture'[d].at # "idle" => capture'[d].bug \in BugIds
      BY <3>6, <3>4, <1>1
    <3>8. \A d \in Capturers : capture'[d].at = "capturing" => capture'[d].token \in Tokens'
      BY <3>6, <3>5, <3>4, <1>1
    <3>9. won' \subseteq Tokens' /\ tokens' \in Nat
      BY <2>1, <1>1 DEF CaptureTypeOK
    <3> QED
      BY <3>1, <3>3, <3>7, <3>8, <3>9 DEF CaptureTypeOK
  <2>3. Capturing' = Capturing \cup {c} /\ capture'[c].token = fresh /\ capture'[c].bug = b
        /\ \A d \in Capturing : capture'[d] = capture[d]
    BY <2>1, <1>4 DEF CaptureTypeOK, Capturing
  <2>4. TokensAreOwn'
    <3>1. fresh \notin won /\ \A x \in BugIds : activeBugCaptures[x] # fresh
      BY <1>1, <1>5 DEF CaptureTypeOK
    <3>2. \A d \in Capturing : /\ capture[d].token # fresh
                               /\ capture[d].token \notin won
                               /\ \A e \in Capturing \ {d} : capture[e].token # capture[d].token
                               /\ \A x \in BugIds \ {capture[d].bug} :
                                    activeBugCaptures[x] # capture[d].token
      BY <1>1, <1>4 DEF TokensAreOwn
    <3>3. \A x \in BugIds : activeBugCaptures'[x] = IF x = b THEN fresh ELSE activeBugCaptures[x]
      BY <2>1 DEF CaptureTypeOK
    <3> QED
      BY <2>1, <2>3, <3>1, <3>2, <3>3 DEF TokensAreOwn
  <2> QED
    BY <2>2, <2>4, <1>8
<1>10. CASE ~delayed
  <2>1. /\ activeBugCaptures' = [activeBugCaptures EXCEPT ![b] = NoToken]
        /\ capture' = [capture EXCEPT ![c] = NoCapture]
        /\ won' = won \cup {fresh}
    BY <1>10 DEF EnterCapture
  <2>2. CaptureTypeOK'
    BY <2>1, <1>1 DEF CaptureTypeOK, NoCapture
  <2>3. Capturing' = Capturing /\ \A d \in Capturing : capture'[d] = capture[d]
    BY <2>1, <1>4, <1>1 DEF CaptureTypeOK, Capturing, NoCapture
  <2>4. TokensAreOwn'
    BY <2>1, <2>3, <1>1, <1>4, <1>5 DEF TokensAreOwn, CaptureTypeOK
  <2> QED
    BY <2>2, <2>4, <1>8
<1> QED
  BY <1>9, <1>10

(* A capture that returns was entered: it is in no pair as the displaced   *)
(* one.  One that fails, or returns, may delete the entry of another.      *)
LEMMA EndKeeps ==
  ASSUME CInv, NEW c \in Capturers, EndCapture(c)
  PROVE  CInv'
<1> DEFINE b == capture[c].bug
           mine == capture[c].token
<1> USE DEF CInv
<1>1. /\ c \in Capturing /\ b \in BugIds /\ mine \in Tokens
      /\ activeBugCaptures' = [activeBugCaptures EXCEPT ![b] = NoToken]
      /\ capture' = [capture EXCEPT ![c] = NoCapture]
      /\ tokens' = tokens /\ beside' = beside /\ Tokens' = Tokens
      /\ NoToken \notin Tokens
  BY CaptureAssumption DEF EndCapture, CaptureTypeOK, Capturing, Tokens
<1>2. won' = won \/ (won' = won \cup {mine} /\ activeBugCaptures[b] = mine)
  BY DEF EndCapture, Verified
<1>3. CaptureTypeOK'
  BY <1>1, <1>2 DEF CaptureTypeOK, NoCapture
<1>4. Capturing' = Capturing \ {c} /\ \A d \in Capturing' : capture'[d] = capture[d]
  BY <1>1 DEF CaptureTypeOK, Capturing, NoCapture
<1>5. \A d \in Capturing : capture[d].token \in Tokens
  BY DEF CaptureTypeOK, Capturing
<1>6. \A t \in Tokens, x \in BugIds : activeBugCaptures'[x] = t => activeBugCaptures[x] = t
  BY <1>1 DEF CaptureTypeOK
<1>7. TokensAreOwn'
  BY <1>1, <1>2, <1>4, <1>5, <1>6 DEF TokensAreOwn
<1>8. OneIsDisplaced'
  BY <1>1, <1>2, <1>6 DEF OneIsDisplaced, Displaced
<1> QED
  BY <1>3, <1>7, <1>8

(* reset, and the start of a test, drop entries at most.                   *)
LEMMA ResetKeeps ==
  ASSUME CInv, NEW clears \in BOOLEAN, ResetCaptures(clears)
  PROVE  CInv'
<1> USE DEF ResetCaptures
<1>1. CaptureTypeOK'
  BY DEF CInv, CaptureTypeOK, Tokens
<1>2. \A d \in Capturing' : d \in Capturing /\ capture'[d] = capture[d]
  BY DEF Capturing
<1>3. \A b \in BugIds : activeBugCaptures'[b] \in {activeBugCaptures[b], NoToken}
  OBVIOUS
<1> QED
  BY <1>1, <1>2, <1>3, QuietStep

(* Every step keeps the invariant.                                         *)
LEMMA CaptureStep == CInv /\ [CaptureNext]_captureVars => CInv'
<1> SUFFICES ASSUME CInv, [CaptureNext]_captureVars PROVE CInv'
  OBVIOUS
<1>1. CASE \E c \in Capturers, b \in BugIds : BeginCapture(c, b)
  BY <1>1, BeginKeeps
<1>2. CASE \E c \in Capturers, delayed \in BOOLEAN : EnterCapture(c, delayed)
  BY <1>2, EnterKeeps
<1>3. CASE \E c \in Capturers : EndCapture(c)
  BY <1>3, EndKeeps
<1>4. CASE \E clears \in BOOLEAN : ResetCaptures(clears)
  BY <1>4, ResetKeeps
<1>5. CASE ValidateDataIntegrity
  BY <1>5 DEF ValidateDataIntegrity, CInv, CaptureTypeOK, Tokens, TokensAreOwn, Capturing,
     OneIsDisplaced, Displaced
<1>6. CASE UNCHANGED captureVars
  BY <1>6 DEF captureVars, CInv, CaptureTypeOK, Tokens, TokensAreOwn, Capturing,
     OneIsDisplaced, Displaced
<1> QED
  BY <1>1, <1>2, <1>3, <1>4, <1>5, <1>6 DEF CaptureNext

(* Captures of one bug that overlapped never both return, for any number   *)
(* of callers, bugs, captures and resets.                                  *)
THEOREM AtMostOneReturns == CaptureSpec => []OneWinner
<1>1. CInv => OneWinner
  BY DEF CInv, OneIsDisplaced, Displaced, OneWinner
<1> QED
  BY <1>1, CaptureStart, CaptureStep, PTL DEF CaptureSpec

(***************************************************************************)
(* Rollback journals: the attempts of all callers together are limited.    *)
(* The argument: every write of the region is counted by the shared        *)
(* counter, and the count a frame keeps of its own is below that: a frame  *)
(* that gives up has the shared counter at the limit.                      *)
(***************************************************************************)
Frames == [at : {"idle", "verifying"}, attempts : Nat, success : BOOLEAN,
           answer : {"none", "true", "false"}]

JournalTypeOK ==
  /\ region \in {"original", "fixed", "garbled"} /\ writable \in BOOLEAN
  /\ journal \in {"none", "unverified", "passed", "failed"}
  /\ journalFile \in {"absent", "torn", "unverified", "passed", "failed"}
  /\ rollbackAttempts \in 0 .. MaxRollbackAttempts
  /\ roller \in [Rollers -> Frames]
  /\ writes \in Nat /\ calls \in Nat

EveryWriteCounts == writes = rollbackAttempts

FramesAreBehind ==
  \A r \in Rollers : roller[r].at = "verifying" => roller[r].attempts < rollbackAttempts

JInv == JournalTypeOK /\ EveryWriteCounts /\ FramesAreBehind /\ AttemptsAreUsedUp

LEMMA JournalStart == JournalInit => JInv
BY JournalAssumption DEF JournalInit, JInv, JournalTypeOK, EveryWriteCounts, FramesAreBehind,
     AttemptsAreUsedUp, AtRest, Frames

(* What a step of one frame may do: raise the counter with the writes, and *)
(* leave behind a frame that is below the counter, or that answers FALSE   *)
(* only with the counter at the limit.                                     *)
LEMMA FrameMoves ==
  ASSUME JInv, NEW r \in Rollers, NEW frame \in Frames,
         roller' = [roller EXCEPT ![r] = frame],
         rollbackAttempts' \in rollbackAttempts .. MaxRollbackAttempts,
         writes' = rollbackAttempts',
         frame.at = "verifying" => frame.attempts < rollbackAttempts',
         writable /\ frame.answer = "false" => rollbackAttempts' = MaxRollbackAttempts,
         writable' = writable, region' \in {"original", "fixed", "garbled"},
         journal' \in {"none", "unverified", "passed", "failed"},
         journalFile' \in {"absent", "torn", "unverified", "passed", "failed"}, calls' \in Nat
  PROVE  JInv'
<1> USE DEF JInv
<1>1. MaxRollbackAttempts \in Nat /\ rollbackAttempts \in 0 .. MaxRollbackAttempts
  BY JournalAssumption DEF JournalTypeOK
<1>2. /\ rollbackAttempts' \in 0 .. MaxRollbackAttempts
      /\ rollbackAttempts' >= rollbackAttempts /\ writes' \in Nat
  BY <1>1
<1>3. \A q \in Rollers : roller'[q] = IF q = r THEN frame ELSE roller[q]
  BY DEF JournalTypeOK
<1>4. JournalTypeOK'
  BY <1>2 DEF JournalTypeOK
<1>5. FramesAreBehind'
  <2>1. \A q \in Rollers : roller[q].attempts \in Nat
    BY DEF JournalTypeOK, Frames
  <2> QED BY <2>1, <1>1, <1>2, <1>3 DEF FramesAreBehind
<1>6. AttemptsAreUsedUp'
  <2>1. writes' <= MaxRollbackAttempts
    BY <1>1, <1>2
  <2>2. ASSUME NEW q \in Rollers, writable, roller'[q].answer = "false"
        PROVE  writes' = MaxRollbackAttempts
    <3>1. CASE q = r
      BY <3>1, <1>3, <2>2
    <3>2. CASE q # r
      <4>1. rollbackAttempts = MaxRollbackAttempts
        BY <3>2, <1>3, <2>2 DEF AttemptsAreUsedUp, EveryWriteCounts
      <4> QED BY <4>1, <1>1, <1>2
    <3> QED BY <3>1, <3>2
  <2> QED BY <2>1, <2>2 DEF AttemptsAreUsedUp
<1>7. EveryWriteCounts'
  BY DEF EveryWriteCounts
<1> QED BY <1>4, <1>5, <1>6, <1>7

(* An entry of rollback, first or again: an attempt, all of them, or none. *)
LEMMA RollerEnters ==
  ASSUME JInv, NEW r \in Rollers, Enter(r), UNCHANGED <<writable, journal, journalFile>>, calls' \in Nat
  PROVE  JInv'
<1>1. /\ MaxRollbackAttempts \in Nat /\ rollbackAttempts \in 0 .. MaxRollbackAttempts
      /\ rollbackAttempts \in Nat /\ writes = rollbackAttempts /\ roller[r] \in Frames
      /\ region \in {"original", "fixed", "garbled"}
      /\ journal' \in {"none", "unverified", "passed", "failed"}
      /\ journalFile' \in {"absent", "torn", "unverified", "passed", "failed"}
  BY JournalAssumption DEF JInv, JournalTypeOK, EveryWriteCounts
<1>2. ASSUME NEW throws \in 0 .. MaxRollbackAttempts - 1, NEW verified \in BOOLEAN,
             Attempt(r, throws, verified)
      PROVE  JInv'
  <2> DEFINE frame == [roller[r] EXCEPT !.at = "verifying", !.success = verified,
                                        !.attempts = rollbackAttempts + throws]
  <2>1. throws \in Nat /\ rollbackAttempts + throws \in Nat /\ throws < MaxRollbackAttempts - rollbackAttempts
    BY <1>1, <1>2 DEF Attempt, AttemptsLeft
  <2>2. /\ rollbackAttempts' = rollbackAttempts + throws + 1
        /\ writes' = writes + throws + 1
        /\ region' = "original" /\ writable
        /\ roller' = [roller EXCEPT ![r] = frame]
    BY <1>2 DEF Attempt
  <2>3. frame \in Frames /\ frame.attempts = rollbackAttempts + throws
        /\ frame.answer = roller[r].answer
    BY <1>1, <2>1 DEF Frames
  <2>4. /\ rollbackAttempts' \in rollbackAttempts .. MaxRollbackAttempts
        /\ writes' = rollbackAttempts' /\ rollbackAttempts + throws < rollbackAttempts'
        /\ rollbackAttempts < MaxRollbackAttempts
    BY <1>1, <2>1, <2>2
  <2>5. roller[r].answer # "false"
    BY <1>1, <2>2, <2>4 DEF JInv, AttemptsAreUsedUp
  <2> HIDE DEF frame
  <2> QED BY <1>1, <2>2, <2>3, <2>4, <2>5, FrameMoves
<1>3. ASSUME AllThrow(r) PROVE JInv'
  <2> DEFINE frame == [AtRest EXCEPT !.answer = "false"]
  <2>1. /\ rollbackAttempts' = MaxRollbackAttempts
        /\ writes' = writes + (MaxRollbackAttempts - rollbackAttempts)
        /\ region' \in {region, "original"}
        /\ roller' = [roller EXCEPT ![r] = frame]
    BY <1>3 DEF AllThrow, AttemptsLeft, Answer
  <2>2. frame \in Frames /\ frame.at = "idle"
    BY DEF Frames, AtRest
  <2>3. rollbackAttempts' \in rollbackAttempts .. MaxRollbackAttempts /\ writes' = rollbackAttempts'
    BY <1>1, <2>1
  <2> HIDE DEF frame
  <2> QED BY <1>1, <2>1, <2>2, <2>3, FrameMoves
<1>4. ASSUME RefuseRollback(r) PROVE JInv'
  <2> DEFINE frame == [AtRest EXCEPT !.answer = "false"]
  <2>1. /\ rollbackAttempts >= MaxRollbackAttempts \/ ~writable
        /\ roller' = [roller EXCEPT ![r] = frame]
        /\ region' = region /\ rollbackAttempts' = rollbackAttempts /\ writes' = writes
    BY <1>4 DEF RefuseRollback, Answer
  <2>2. frame \in Frames /\ frame.at = "idle"
    BY DEF Frames, AtRest
  <2>3. /\ rollbackAttempts' \in rollbackAttempts .. MaxRollbackAttempts /\ writes' = rollbackAttempts'
        /\ writable => rollbackAttempts' = MaxRollbackAttempts
    BY <1>1, <2>1
  <2> HIDE DEF frame
  <2> QED BY <1>1, <2>1, <2>2, <2>3, FrameMoves
<1> QED BY <1>2, <1>3, <1>4 DEF Enter

LEMMA JournalStep == JInv /\ [JournalNext]_journalVars => JInv'
<1> SUFFICES ASSUME JInv, [JournalNext]_journalVars PROVE JInv'
  OBVIOUS
<1>1. CASE UNCHANGED journalVars
  BY <1>1 DEF journalVars, JInv, JournalTypeOK, EveryWriteCounts, FramesAreBehind, AttemptsAreUsedUp
<1>2. CASE JournalBefore \/ CommitFix \/ Target
  BY <1>2 DEF JournalBefore, CommitFix, Target, PersistJournal,
     JInv, JournalTypeOK, EveryWriteCounts, FramesAreBehind, AttemptsAreUsedUp
<1>3. ASSUME NEW r \in Rollers, CallRollback(r) \/ Retry(r) PROVE JInv'
  <2>1. Enter(r) /\ UNCHANGED <<writable, journal, journalFile>> /\ calls' \in Nat
    BY <1>3 DEF CallRollback, Retry, JInv, JournalTypeOK
  <2> QED BY <2>1, RollerEnters
<1>4. ASSUME NEW r \in Rollers, Conclude(r) PROVE JInv'
  <2> DEFINE frame == [AtRest EXCEPT !.answer = IF roller[r].success THEN "true" ELSE "false"]
  <2>1. /\ roller' = [roller EXCEPT ![r] = frame]
        /\ region' = region /\ rollbackAttempts' = rollbackAttempts /\ writes' = writes
        /\ writable' = writable /\ calls' = calls
        /\ roller[r].at = "verifying" /\ (roller[r].success \/ ~GoesAgain(r))
    BY <1>4 DEF Conclude, Answer
  <2>2. journal' \in {"passed", "failed"} /\ journalFile' \in {journal', journalFile, "torn"}
    BY <1>4 DEF Conclude, PersistJournal
  <2>3. /\ frame \in Frames /\ frame.at = "idle"
        /\ frame.answer = "false" => ~roller[r].success
    BY DEF Frames, AtRest
  <2>4. /\ MaxRollbackAttempts \in Nat /\ rollbackAttempts \in 0 .. MaxRollbackAttempts
        /\ writes = rollbackAttempts /\ roller[r].attempts \in Nat
        /\ roller[r].attempts < rollbackAttempts
        /\ region \in {"original", "fixed", "garbled"} /\ calls \in Nat
        /\ journalFile \in {"absent", "torn", "unverified", "passed", "failed"}
    BY <2>1, JournalAssumption DEF JInv, JournalTypeOK, EveryWriteCounts, FramesAreBehind, Frames
  <2>5. ~GoesAgain(r) => rollbackAttempts = MaxRollbackAttempts
    BY <2>4 DEF GoesAgain
  <2>6. rollbackAttempts' \in rollbackAttempts .. MaxRollbackAttempts /\ writes' = rollbackAttempts'
    BY <2>1, <2>4
  <2>7. frame.answer = "false" => rollbackAttempts' = MaxRollbackAttempts
    BY <2>1, <2>3, <2>5
  <2>8. /\ journal' \in {"none", "unverified", "passed", "failed"}
        /\ journalFile' \in {"absent", "torn", "unverified", "passed", "failed"}
    BY <2>2, <2>4
  <2> HIDE DEF frame
  <2> QED BY <2>1, <2>3, <2>4, <2>6, <2>7, <2>8, FrameMoves
<1> QED BY <1>1, <1>2, <1>3, <1>4 DEF JournalNext

(* No variable of the journal leaves its type.                             *)
THEOREM JournalTypeCorrect == JournalSpec => []JournalTypeOK
<1>1. JInv => JournalTypeOK
  BY DEF JInv
<1> QED BY <1>1, JournalStart, JournalStep, PTL DEF JournalSpec

(* However many callers roll back at once, the region is written at most   *)
(* maxRollbackAttempts times, and nobody is told FALSE before that.        *)
THEOREM AttemptsAreShared == JournalSpec => []AttemptsAreUsedUp
<1>1. JInv => AttemptsAreUsedUp
  BY DEF JInv
<1> QED BY <1>1, JournalStart, JournalStep, PTL DEF JournalSpec

(***************************************************************************)
(* The correction path: failed fixes are undone or wait to be.             *)
(* The argument: a fix is in the hands of one capture at a time or waits,  *)
(* never both, and the watchdog's turn never overlaps a capture's.         *)
(***************************************************************************)
Records == [status : {"none", "applied", "failed", "rolled_back"},
            tests : {"none", "passed", "failed"}, verified : BOOLEAN]
Positions == [at : {"idle", "attempted", "rolling", "unverified"},
              fix : Fixes \cup {0}, verified : BOOLEAN]

FixTypes ==
  /\ nextFix \in 1 .. MaxFixes + 1
  /\ fix \in [Fixes -> Records]
  /\ pending \in Seq(Fixes) /\ todo \in Seq(Fixes)
  /\ flow \in [Actors -> Positions]

Waits(s, x) == \E i \in 1 .. Len(s) : s[i] = x
Distinct(s) == \A i, j \in 1 .. Len(s) : s[i] = s[j] => i = j

(* A capture works on a fix of its own, which does not wait; the watchdog  *)
(* on one that waits, when no capture works.                               *)
InHand ==
  /\ CapturesQuiet \/ WatchdogQuiet
  /\ \A a \in Captures : flow[a].at # "idle" =>
       /\ flow[a].fix \in 1 .. nextFix - 1 /\ ~Waits(pending, flow[a].fix)
       /\ ~fix[flow[a].fix].verified
       /\ \A b \in Captures : flow[b].at # "idle" /\ flow[b].fix = flow[a].fix => b = a
       /\ flow[a].at = "attempted" => fix[flow[a].fix].tests = "none"
       /\ flow[a].at # "attempted" => fix[flow[a].fix].tests = "failed"
  /\ flow["watchdog"].at \in {"idle", "rolling"}
  /\ flow["watchdog"].at = "rolling" =>
       Waits(pending, flow["watchdog"].fix) /\ ~Waits(todo, flow["watchdog"].fix)

(* What waits has failed, and what failed and is not undone waits or is in *)
(* the hands of a capture.                                                 *)
Tracked ==
  /\ \A x \in Fixes : x >= nextFix => fix[x] = NewFix
  /\ \A x \in Fixes : fix[x].verified <=> fix[x].status = "rolled_back"
  /\ \A x \in Fixes : Waits(pending, x) => fix[x].tests = "failed" /\ ~fix[x].verified
  /\ \A x \in Fixes : fix[x].tests = "failed" /\ ~fix[x].verified =>
       \/ Waits(pending, x)
       \/ \E a \in Captures : flow[a].at \in {"rolling", "unverified"} /\ flow[a].fix = x
  /\ \A x \in Fixes : Waits(todo, x) => Waits(pending, x)
  /\ Distinct(pending) /\ Distinct(todo)

FixInv == FixTypes /\ InHand /\ Tracked

(* What deleting a key leaves.                                             *)
LEMMA WithoutIs ==
  ASSUME NEW S, NEW s \in Seq(S), NEW x \in S, Distinct(s)
  PROVE  /\ Without(s, x) \in Seq(S) /\ Distinct(Without(s, x))
         /\ \A y \in S : Waits(Without(s, x), y) <=> Waits(s, y) /\ y # x
<1>1. CASE ~Waits(s, x)
  <2>1. ~\E i \in DOMAIN s : s[i] = x
    BY <1>1 DEF Waits
  <2>2. Without(s, x) = s
    BY <2>1 DEF Without
  <2> QED BY <1>1, <2>2 DEF Waits
<1>2. CASE Waits(s, x)
  <2> DEFINE k == CHOOSE i \in DOMAIN s : s[i] = x
  <2>1. k \in 1 .. Len(s) /\ s[k] = x
    BY <1>2 DEF Waits
  <2>2. Without(s, x) = SubSeq(s, 1, k - 1) \o SubSeq(s, k + 1, Len(s))
    <3>1. \E i \in DOMAIN s : s[i] = x
      BY <1>2 DEF Waits
    <3>2. Without(s, x) = RemoveAt(s, k)
      BY <3>1, Zenon DEF Without
    <3> QED BY <3>2, Zenon DEF RemoveAt
  <2> DEFINE t == SubSeq(s, 1, k - 1) \o SubSeq(s, k + 1, Len(s))
  <2> HIDE DEF k
  <2>3. /\ t \in Seq(S) /\ Len(t) = Len(s) - 1
        /\ \A i \in 1 .. Len(t) : t[i] = IF i < k THEN s[i] ELSE s[i + 1]
    <3> DEFINE u == SubSeq(s, 1, k - 1)
    <3> DEFINE w == SubSeq(s, k + 1, Len(s))
    <3>1. u \in Seq(S) /\ Len(u) = k - 1 /\ \A i \in 1 .. k - 1 : u[i] = s[i]
      BY <2>1
    <3>2. /\ w \in Seq(S) /\ Len(w) = Len(s) - k
          /\ \A i \in 1 .. Len(s) - k : w[i] = s[i + k]
      BY <2>1
    <3>3. t = u \o w
      OBVIOUS
    <3> HIDE DEF u, w, t
    <3>4. t \in Seq(S) /\ Len(t) = Len(s) - 1
      <4>1. u \in Seq(S) /\ w \in Seq(S)
        BY <3>1, <3>2
      <4>2. t \in Seq(S) /\ Len(t) = Len(u) + Len(w)
        BY <3>3, <4>1
      <4>3. Len(u) = k - 1 /\ Len(w) = Len(s) - k /\ Len(s) \in Nat /\ k \in Nat
        BY <2>1, <3>1, <3>2
      <4> QED BY <4>2, <4>3
    <3>5. ASSUME NEW i \in 1 .. Len(t)
          PROVE  t[i] = IF i < k THEN s[i] ELSE s[i + 1]
      <4>1. CASE i < k
        BY <2>1, <3>1, <3>2, <3>3, <3>4, <4>1
      <4>2. CASE i >= k
        <5>1. t[i] = w[i - (k - 1)]
          BY <2>1, <3>1, <3>2, <3>3, <3>4, <4>2
        <5>2. i - (k - 1) \in 1 .. Len(s) - k /\ i - (k - 1) + k = i + 1
          BY <2>1, <3>4, <4>2
        <5> QED BY <2>1, <3>2, <4>2, <5>1, <5>2
      <4> QED BY <2>1, <3>4, <4>1, <4>2
    <3> QED BY <3>4, <3>5
  <2> HIDE DEF t
  <2>4. Distinct(t)
    <3> SUFFICES ASSUME NEW i \in 1 .. Len(t), NEW j \in 1 .. Len(t), t[i] = t[j] PROVE i = j
      BY DEF Distinct
    <3>1. Len(s) \in Nat /\ k \in Nat /\ Len(t) \in Nat
      BY <2>1, <2>3
    <3> DEFINE to(l) == IF l < k THEN l ELSE l + 1
    <3>2. t[i] = s[to(i)] /\ t[j] = s[to(j)]
      BY <2>3
    <3>3. to(i) \in 1 .. Len(s) /\ to(j) \in 1 .. Len(s)
      BY <2>3, <3>1
    <3>4. to(i) = to(j) => i = j
      BY <3>1
    <3> HIDE DEF to
    <3> QED BY <3>2, <3>3, <3>4 DEF Distinct
  <2>5. ASSUME NEW y \in S, Waits(t, y)
        PROVE  Waits(s, y) /\ y # x
    BY <2>1, <2>3, <2>5 DEF Waits, Distinct
  <2>6. ASSUME NEW y \in S, Waits(s, y), y # x
        PROVE  Waits(t, y)
    <3>1. PICK i \in 1 .. Len(s) : s[i] = y
      BY <2>6 DEF Waits
    <3>2. CASE i < k
      BY <2>1, <2>3, <3>1, <3>2 DEF Waits
    <3>3. CASE i > k
      <4>1. i - 1 \in 1 .. Len(t) /\ t[i - 1] = y
        BY <2>1, <2>3, <3>1, <3>3
      <4> QED BY <4>1 DEF Waits
    <3> QED BY <2>1, <2>6, <3>1, <3>2, <3>3
  <2> QED BY <2>2, <2>3, <2>4, <2>5, <2>6 DEF t
<1> QED BY <1>1, <1>2

(* The initial state.                                                      *)
LEMMA FixInitially == Init => FixInv
<1> SUFFICES ASSUME Init PROVE FixInv
  OBVIOUS
<1> USE EngineAssumption DEF Init
<1>1. FixTypes
  BY DEF FixTypes, Records, Positions, NewFix, Resting, Fixes
<1>2. InHand
  BY DEF InHand, CapturesQuiet, WatchdogQuiet, Resting, Actors
<1>3. Tracked
  BY DEF Tracked, Waits, Distinct, NewFix
<1> QED BY <1>1, <1>2, <1>3 DEF FixInv

(* How a capture or the watchdog moves: everything else stands still.      *)
LEMMA Moves ==
  ASSUME FixTypes, NEW a \in Actors, NEW to \in Positions, Go(a, to)
  PROVE  /\ flow' \in [Actors -> Positions] /\ flow'[a] = to
         /\ \A b \in Actors : b # a => flow'[b] = flow[b]
BY DEF FixTypes, Go

(* A fix is attempted, with wrappers on its hooks or without.              *)
LEMMA AttemptStep ==
  ASSUME FixInv, NEW a \in Captures, NEW status \in {"applied", "failed"},
         NewAttempt(a, status)
  PROVE  FixInv'
<1> USE EngineAssumption
<1> DEFINE to == Standing("attempted", nextFix, FALSE)
<1>1. /\ WatchdogQuiet /\ flow[a].at = "idle" /\ nextFix \in Fixes /\ nextFix' = nextFix + 1
      /\ fix' = [fix EXCEPT ![nextFix].status = status]
      /\ Go(a, to) /\ UNCHANGED <<pending, todo>>
  <2>1. nextFix \in Fixes
    BY DEF NewAttempt, Fixes, FixInv, FixTypes
  <2> QED BY <2>1 DEF NewAttempt
<1>2. /\ to \in Positions /\ to.at = "attempted" /\ to.fix = nextFix /\ a \in Actors
      /\ a # "watchdog" /\ "watchdog" \in Actors
  BY <1>1 DEF Positions, Standing, Actors
<1> HIDE DEF to
<1>3. /\ flow' \in [Actors -> Positions] /\ flow'[a] = to
      /\ \A b \in Actors : b # a => flow'[b] = flow[b]
  BY <1>1, <1>2, Moves DEF FixInv
<1>4. fix[nextFix] = NewFix
  BY <1>1 DEF FixInv, FixTypes, Tracked, Fixes
<1>5. /\ fix'[nextFix].tests = "none" /\ fix'[nextFix].verified = FALSE
      /\ fix'[nextFix].status = status /\ fix'[nextFix] \in Records
      /\ \A x \in Fixes : x # nextFix => fix'[x] = fix[x]
      /\ fix' \in [Fixes -> Records]
  <2> DEFINE new == [NewFix EXCEPT !.status = status]
  <2>1. /\ new.tests = "none" /\ new.verified = FALSE /\ new.status = status
        /\ new \in Records
    BY DEF NewFix, Records
  <2> HIDE DEF new
  <2>2. fix \in [Fixes -> Records]
    BY DEF FixInv, FixTypes
  <2>3. fix' = [fix EXCEPT ![nextFix] = new]
    BY <1>1, <1>4 DEF new
  <2> QED BY <1>1, <2>1, <2>2, <2>3
<1>6. \A x \in Fixes : Waits(pending, x) => x # nextFix
  BY <1>4 DEF FixInv, Tracked, NewFix
<1>7. FixTypes'
  BY <1>1, <1>3, <1>5 DEF FixInv, FixTypes, Fixes
<1>8. InHand'
  <2>1. WatchdogQuiet'
    BY <1>1, <1>2, <1>3 DEF WatchdogQuiet
  <2>2. flow'["watchdog"].at = "idle"
    BY <1>1, <1>2, <1>3 DEF WatchdogQuiet
  <2>3. ASSUME NEW b \in Captures, flow'[b].at # "idle"
        PROVE  /\ flow'[b].fix \in 1 .. nextFix' - 1 /\ ~Waits(pending, flow'[b].fix)
               /\ ~fix'[flow'[b].fix].verified
               /\ \A c \in Captures : flow'[c].at # "idle" /\ flow'[c].fix = flow'[b].fix => c = b
               /\ flow'[b].at = "attempted" => fix'[flow'[b].fix].tests = "none"
               /\ flow'[b].at # "attempted" => fix'[flow'[b].fix].tests = "failed"
    <3>1. nextFix \in Nat /\ b \in Actors /\ \A c \in Captures : c \in Actors
      BY <1>1 DEF Fixes, Actors
    <3>2. \A c \in Captures : c # a /\ flow'[c].at # "idle" =>
            flow'[c].fix \in 1 .. nextFix - 1 /\ flow'[c].fix # nextFix
      BY <1>3, <3>1 DEF FixInv, InHand
    <3>3. CASE b = a
      <4>1. flow'[b].fix = nextFix /\ flow'[b].at = "attempted"
        BY <1>2, <1>3, <3>3
      <4>2. flow'[b].fix \in 1 .. nextFix' - 1
        BY <1>1, <4>1 DEF Fixes
      <4>3. ~Waits(pending, nextFix)
        BY <1>1, <1>6
      <4>4. \A c \in Captures : flow'[c].at # "idle" /\ flow'[c].fix = nextFix => c = b
        BY <3>2, <3>3
      <4> QED BY <1>5, <4>1, <4>2, <4>3, <4>4
    <3>4. CASE b # a
      <4>1. flow'[b].fix \in Fixes /\ flow'[b].fix # nextFix
        BY <1>1, <2>3, <3>1, <3>2, <3>4 DEF Fixes
      <4>2. fix'[flow'[b].fix] = fix[flow[b].fix]
        BY <1>3, <1>5, <3>1, <3>4, <4>1
      <4> QED BY <1>1, <1>2, <1>3, <2>3, <3>1, <3>2, <3>4, <4>1, <4>2 DEF FixInv, InHand
    <3> QED BY <3>3, <3>4
  <2> QED BY <1>1, <2>1, <2>2, <2>3 DEF InHand
<1>9. Tracked'
  <2>1. \A x \in Fixes : x >= nextFix' => fix'[x] = NewFix
    BY <1>1, <1>5 DEF FixInv, Tracked, Fixes
  <2>2. ASSUME NEW x \in Fixes, fix'[x].tests = "failed", ~fix'[x].verified
        PROVE  \/ Waits(pending, x)
               \/ \E b \in Captures : flow'[b].at \in {"rolling", "unverified"} /\ flow'[b].fix = x
    <3>1. x # nextFix /\ fix[x].tests = "failed" /\ ~fix[x].verified
      BY <1>5, <2>2
    <3>2. CASE Waits(pending, x)
      BY <3>2
    <3>3. ASSUME NEW b \in Captures, flow[b].at \in {"rolling", "unverified"}, flow[b].fix = x
          PROVE  flow'[b].at \in {"rolling", "unverified"} /\ flow'[b].fix = x
      BY <1>1, <1>3, <3>3 DEF Actors
    <3> QED BY <3>1, <3>2, <3>3 DEF FixInv, Tracked
  <2>3. \A x \in Fixes : fix'[x].verified <=> fix'[x].status = "rolled_back"
    BY <1>5 DEF FixInv, Tracked
  <2>4. \A x \in Fixes : Waits(pending, x) => fix'[x].tests = "failed" /\ ~fix'[x].verified
    BY <1>5, <1>6 DEF FixInv, Tracked
  <2> QED BY <1>1, <2>1, <2>2, <2>3, <2>4 DEF FixInv, Tracked
<1> QED BY <1>7, <1>8, <1>9 DEF FixInv

(* The next step of a capture that works on x: the fix becomes new, and    *)
(* either the capture keeps it or it is at rest; a fix that failed then    *)
(* waits.                                                                  *)
LEMMA FixOfCapture ==
  ASSUME FixInv, NEW a \in Captures, flow[a].at # "idle", NEW x, x = flow[a].fix,
         NEW new \in Records, NEW to \in Positions, Go(a, to),
         fix' \in [Fixes -> Records], fix'[x] = new,
         \A y \in Fixes : y # x => fix'[y] = fix[y],
         new.verified <=> new.status = "rolled_back",
         \/ /\ to.at \in {"rolling", "unverified"} /\ to.fix = x
            /\ new.tests = "failed" /\ ~new.verified /\ pending' = pending
         \/ /\ to.at = "idle"
            /\ IF new.tests = "failed" /\ ~new.verified
               THEN pending' = Append(pending, x) ELSE pending' = pending,
         UNCHANGED <<nextFix, todo>>
  PROVE  FixInv'
<1> USE EngineAssumption
<1>1. /\ a \in Actors /\ a # "watchdog" /\ "watchdog" \in Actors
      /\ \A c \in Captures : c \in Actors
  BY DEF Actors
<1>2. /\ flow' \in [Actors -> Positions] /\ flow'[a] = to
      /\ \A b \in Actors : b # a => flow'[b] = flow[b]
  BY <1>1, Moves DEF FixInv
<1>3. /\ x \in 1 .. nextFix - 1 /\ ~Waits(pending, x) /\ x \in Fixes
      /\ nextFix \in 1 .. MaxFixes + 1
  BY DEF FixInv, FixTypes, InHand, Fixes
<1>4. /\ WatchdogQuiet /\ flow'["watchdog"] = flow["watchdog"]
  BY <1>1, <1>2 DEF FixInv, InHand, CapturesQuiet
<1>5. /\ pending' \in Seq(Fixes) /\ Distinct(pending')
      /\ \A y \in Fixes : Waits(pending, y) => Waits(pending', y)
      /\ \A y \in Fixes : Waits(pending', y) =>
           \/ Waits(pending, y)
           \/ y = x /\ to.at = "idle" /\ new.tests = "failed" /\ ~new.verified
  <2>1. CASE pending' = pending
    BY <2>1 DEF FixInv, FixTypes, Tracked
  <2>2. CASE /\ pending' = Append(pending, x) /\ to.at = "idle"
             /\ new.tests = "failed" /\ ~new.verified
    <3>1. pending \in Seq(Fixes) /\ Distinct(pending)
      BY DEF FixInv, FixTypes, Tracked
    <3>2. /\ pending' \in Seq(Fixes) /\ Len(pending') = Len(pending) + 1
          /\ pending'[Len(pending) + 1] = x
          /\ \A i \in 1 .. Len(pending) : pending'[i] = pending[i]
      BY <1>3, <2>2, <3>1
    <3>3. Distinct(pending')
      BY <1>3, <3>1, <3>2 DEF Distinct, Waits
    <3> QED BY <2>2, <3>1, <3>2, <3>3 DEF Waits
  <2> QED BY <2>1, <2>2
<1>6. to.at = "idle" /\ new.tests = "failed" /\ ~new.verified => Waits(pending', x)
  <2>1. ASSUME pending' = Append(pending, x)
        PROVE  Waits(pending', x)
    <3>1. Len(pending) + 1 \in 1 .. Len(pending') /\ pending'[Len(pending) + 1] = x
      BY <1>3, <2>1 DEF FixInv, FixTypes
    <3> QED BY <3>1 DEF Waits
  <2> QED BY <2>1
<1>7. FixTypes'
  BY <1>2, <1>5 DEF FixInv, FixTypes
<1>8. InHand'
  <2>1. WatchdogQuiet'
    BY <1>4 DEF WatchdogQuiet
  <2>2. ASSUME NEW b \in Captures, flow'[b].at # "idle"
        PROVE  /\ flow'[b].fix \in 1 .. nextFix' - 1 /\ ~Waits(pending', flow'[b].fix)
               /\ ~fix'[flow'[b].fix].verified
               /\ \A c \in Captures : flow'[c].at # "idle" /\ flow'[c].fix = flow'[b].fix => c = b
               /\ flow'[b].at = "attempted" => fix'[flow'[b].fix].tests = "none"
               /\ flow'[b].at # "attempted" => fix'[flow'[b].fix].tests = "failed"
    <3>1. flow'[b].fix = flow[b].fix /\ flow[b].at # "idle"
      BY <1>1, <1>2, <2>2
    <3>2. flow[b].fix \in 1 .. nextFix - 1 /\ flow[b].fix \in Fixes
      BY <1>3, <3>1 DEF FixInv, InHand, Fixes
    <3>3. \A c \in Captures : flow'[c].at # "idle" /\ flow'[c].fix = flow'[b].fix => c = b
      <4>1. ASSUME NEW c \in Captures, flow'[c].at # "idle"
            PROVE  flow'[c].fix = flow[c].fix /\ flow[c].at # "idle"
        BY <1>1, <1>2, <4>1
      <4> QED BY <3>1, <4>1 DEF FixInv, InHand
    <3>4. CASE b = a
      BY <1>2, <1>3, <1>5, <2>2, <3>1, <3>2, <3>3, <3>4
    <3>5. CASE b # a
      <4>1. flow[b].fix # x
        BY <3>1, <3>5 DEF FixInv, InHand
      <4>2. fix'[flow'[b].fix] = fix[flow[b].fix] /\ flow'[b] = flow[b]
        BY <1>1, <1>2, <3>1, <3>2, <3>5, <4>1
      <4>3. ~Waits(pending', flow[b].fix)
        BY <1>5, <3>1, <3>2, <4>1 DEF FixInv, InHand
      <4>4. /\ ~fix[flow[b].fix].verified
            /\ flow[b].at = "attempted" => fix[flow[b].fix].tests = "none"
            /\ flow[b].at # "attempted" => fix[flow[b].fix].tests = "failed"
        BY <3>1 DEF FixInv, InHand
      <4> QED BY <3>1, <3>2, <3>3, <4>2, <4>3, <4>4
    <3> QED BY <3>4, <3>5
  <2> QED BY <1>4, <2>1, <2>2 DEF InHand, WatchdogQuiet
<1>9. Tracked'
  <2>1. \A y \in Fixes : y >= nextFix' => fix'[y] = NewFix
    BY <1>3 DEF FixInv, Tracked, Fixes
  <2>2. ASSUME NEW y \in Fixes, fix'[y].tests = "failed", ~fix'[y].verified
        PROVE  \/ Waits(pending', y)
               \/ \E b \in Captures : flow'[b].at \in {"rolling", "unverified"} /\ flow'[b].fix = y
    <3>1. CASE y = x
      BY <1>2, <1>6, <2>2, <3>1
    <3>2. CASE y # x
      <4>1. fix[y].tests = "failed" /\ ~fix[y].verified
        BY <2>2, <3>2
      <4>2. ASSUME NEW b \in Captures, flow[b].at \in {"rolling", "unverified"}, flow[b].fix = y
            PROVE  flow'[b].at \in {"rolling", "unverified"} /\ flow'[b].fix = y
        BY <1>1, <1>2, <3>2, <4>2
      <4> QED BY <1>5, <4>1, <4>2 DEF FixInv, Tracked
    <3> QED BY <3>1, <3>2
  <2>3. \A y \in Fixes : fix'[y].verified <=> fix'[y].status = "rolled_back"
    BY <1>3 DEF FixInv, Tracked
  <2>4. \A y \in Fixes : Waits(pending', y) => fix'[y].tests = "failed" /\ ~fix'[y].verified
    BY <1>3, <1>5 DEF FixInv, Tracked
  <2>5. \A y \in Fixes : Waits(todo', y) => Waits(pending', y)
    BY <1>5 DEF FixInv, Tracked
  <2> QED BY <1>5, <2>1, <2>2, <2>3, <2>4, <2>5 DEF FixInv, Tracked
<1> QED BY <1>7, <1>8, <1>9 DEF FixInv

(* What a capture does to its fix.                                         *)
LEMMA FixBecomes ==
  ASSUME FixTypes, NEW x \in Fixes, NEW new \in Records, fix' = [fix EXCEPT ![x] = new]
  PROVE  /\ fix' \in [Fixes -> Records] /\ fix'[x] = new
         /\ \A y \in Fixes : y # x => fix'[y] = fix[y]
BY DEF FixTypes

(* What is left of a position that is at rest.                             *)
LEMMA RestingIs == Resting \in Positions /\ Resting.at = "idle"
BY DEF Resting, Positions

LEMMA CaptureAction ==
  ASSUME FixInv, NEW a \in Captures, Continue(a)
  PROVE  FixInv'
<1> USE EngineAssumption
<1> DEFINE x == flow[a].fix
<1>1. a \in Actors /\ flow[a] \in Positions /\ flow[a].at # "idle"
  <2>1. a \in Actors /\ flow[a] \in Positions
    BY DEF FixInv, FixTypes, Actors
  <2> QED BY <2>1 DEF Continue, AttemptFailed, TestsPass, TestsFail, RollbackReturns,
                      FinishRollback, KeepPending
<1>2. x \in Fixes /\ ~Waits(pending, x) /\ ~fix[x].verified /\ fix[x] \in Records
  BY <1>1 DEF FixInv, FixTypes, InHand, Fixes
<1>3. /\ fix[x].verified <=> fix[x].status = "rolled_back"
      /\ flow[a].at = "attempted" => fix[x].tests = "none"
      /\ flow[a].at # "attempted" => fix[x].tests = "failed"
  BY <1>1, <1>2 DEF FixInv, InHand, Tracked
<1>4. fix \in [Fixes -> Records] /\ pending \in Seq(Fixes) /\ Distinct(pending) /\ FixTypes
  BY DEF FixInv, FixTypes, Tracked
<1> HIDE DEF x
<1>5. CASE AttemptFailed(a)
  <2>1. /\ flow[a].at = "attempted" /\ Go(a, Resting)
        /\ UNCHANGED <<fix, pending, todo, nextFix>>
    BY <1>5 DEF AttemptFailed
  <2> QED BY <1>1, <1>2, <1>3, <1>4, <2>1, RestingIs, FixOfCapture DEF x
<1>6. CASE TestsPass(a)
  <2> DEFINE new == [fix[x] EXCEPT !.tests = "passed"]
  <2>1. /\ flow[a].at = "attempted" /\ fix[x].status = "applied" /\ Go(a, Resting)
        /\ fix' = [fix EXCEPT ![x] = new]
        /\ UNCHANGED <<pending, todo, nextFix>>
    BY <1>6 DEF TestsPass, x
  <2>2. /\ new \in Records /\ new.tests = "passed" /\ new.verified = fix[x].verified
        /\ new.status = fix[x].status
    BY <1>2 DEF Records
  <2> HIDE DEF new
  <2>3. /\ fix' \in [Fixes -> Records] /\ fix'[x] = new
        /\ \A y \in Fixes : y # x => fix'[y] = fix[y]
    BY <1>2, <1>4, <2>1, <2>2, FixBecomes
  <2> QED BY <1>1, <1>2, <1>3, <2>1, <2>2, <2>3, RestingIs, FixOfCapture DEF x
<1>7. CASE TestsFail(a)
  <2> DEFINE new == [fix[x] EXCEPT !.tests = "failed"]
  <2>1. /\ flow[a].at = "attempted" /\ fix' = [fix EXCEPT ![x] = new]
        /\ UNCHANGED <<pending, todo, nextFix>>
        /\ \E stuck \in SUBSET Hooks : StartRollback(a, x, stuck)
    BY <1>7 DEF TestsFail, x
  <2>2. PICK v \in BOOLEAN : Go(a, Standing("rolling", x, v))
    BY <2>1 DEF StartRollback
  <2> DEFINE to == Standing("rolling", x, v)
  <2>3. to \in Positions /\ to.at = "rolling" /\ to.fix = x
    BY <1>2 DEF Positions, Standing
  <2>4. /\ new \in Records /\ new.tests = "failed" /\ new.verified = fix[x].verified
        /\ new.status = fix[x].status
    BY <1>2 DEF Records
  <2> HIDE DEF new, to
  <2>5. /\ fix' \in [Fixes -> Records] /\ fix'[x] = new
        /\ \A y \in Fixes : y # x => fix'[y] = fix[y]
    BY <1>2, <1>4, <2>1, <2>4, FixBecomes
  <2>6. Go(a, to)
    BY <2>2 DEF to
  <2> QED BY <1>1, <1>2, <1>3, <2>1, <2>3, <2>4, <2>5, <2>6, FixOfCapture DEF x
<1>8. CASE RollbackReturns(a)
  <2> DEFINE v == flow[a].verified
  <2> DEFINE new == [fix[x] EXCEPT !.verified = v,
                                   !.status = IF v THEN "rolled_back" ELSE @]
  <2> DEFINE to == IF v THEN Resting ELSE Standing("unverified", x, FALSE)
  <2>1. v \in BOOLEAN
    BY <1>1 DEF Positions
  <2>2. /\ flow[a].at = "rolling"
        /\ fix' = [fix EXCEPT ![x].verified = v,
                              ![x].status = IF v THEN "rolled_back" ELSE @]
        /\ pending' = IF v THEN Without(pending, x) ELSE pending
        /\ Go(a, to) /\ UNCHANGED <<nextFix, todo>>
    BY <1>8 DEF RollbackReturns, FinishRollback, x
  <2>3. pending' = pending
    BY <1>2, <1>4, <2>1, <2>2 DEF Without, Waits
  <2>4. fix' = [fix EXCEPT ![x] = new]
    BY <1>2, <1>4, <2>2
  <2>5. /\ new \in Records /\ new.tests = fix[x].tests /\ new.verified = v
        /\ new.status = IF v THEN "rolled_back" ELSE fix[x].status
    BY <1>2, <2>1 DEF Records
  <2>6. /\ to \in Positions
        /\ v => to.at = "idle"
        /\ ~v => to.at = "unverified" /\ to.fix = x
    BY <1>2, <2>1, RestingIs DEF Positions, Standing
  <2> HIDE DEF new, to, v
  <2>7. /\ fix' \in [Fixes -> Records] /\ fix'[x] = new
        /\ \A y \in Fixes : y # x => fix'[y] = fix[y]
    BY <1>2, <1>4, <2>4, <2>5, FixBecomes
  <2>8. new.verified <=> new.status = "rolled_back"
    BY <1>2, <1>3, <2>1, <2>5
  <2>9. new.tests = "failed"
    BY <1>3, <2>2, <2>5
  <2>10. Go(a, to) /\ UNCHANGED <<nextFix, todo>>
    BY <2>2
  <2>11. new \in Records /\ to \in Positions
    BY <2>5, <2>6
  <2>12. CASE v
    <3>1. to.at = "idle" /\ new.verified
      BY <2>5, <2>6, <2>12
    <3> QED BY <1>1, <2>3, <2>7, <2>8, <2>10, <2>11, <3>1, FixOfCapture DEF x
  <2>13. CASE ~v
    <3>1. to.at = "unverified" /\ to.fix = x /\ ~new.verified
      BY <2>5, <2>6, <2>13
    <3> QED BY <1>1, <2>3, <2>7, <2>8, <2>9, <2>10, <2>11, <3>1, FixOfCapture DEF x
  <2> QED BY <2>12, <2>13
<1>9. CASE KeepPending(a)
  <2>1. /\ flow[a].at = "unverified" /\ Go(a, Resting)
        /\ pending' = Append(pending, x) /\ UNCHANGED <<fix, todo, nextFix>>
    BY <1>9 DEF KeepPending, x
  <2> QED BY <1>1, <1>2, <1>3, <1>4, <2>1, RestingIs, FixOfCapture DEF x
<1> QED BY <1>5, <1>6, <1>7, <1>8, <1>9 DEF Continue

(* The turn of the watchdog.                                               *)
LEMMA WatchdogAction ==
  ASSUME FixInv, EpochTimeout \/ WatchdogRollsBack \/ WatchdogReturns
  PROVE  FixInv'
<1> USE EngineAssumption
<1> DEFINE w == "watchdog"
<1>1. /\ w \in Actors /\ flow[w] \in Positions
      /\ \A a \in Captures : a \in Actors /\ a # w
  BY DEF FixInv, FixTypes, Actors
<1>2. /\ pending \in Seq(Fixes) /\ todo \in Seq(Fixes) /\ Distinct(pending) /\ Distinct(todo)
      /\ fix \in [Fixes -> Records] /\ FixTypes /\ InHand /\ Tracked
  BY DEF FixInv, FixTypes, Tracked
<1>3. CapturesQuiet
  BY <1>2 DEF EpochTimeout, WatchdogRollsBack, WatchdogReturns, FinishRollback,
              InHand, WatchdogQuiet
<1>4. CASE EpochTimeout
  <2>1. /\ flow[w].at = "idle" /\ todo' = pending /\ UNCHANGED <<fix, pending, flow, nextFix>>
    BY <1>4 DEF EpochTimeout, WatchdogQuiet
  <2>2. FixTypes'
    BY <1>2, <2>1 DEF FixTypes
  <2>3. InHand'
    BY <1>3, <2>1 DEF InHand, CapturesQuiet
  <2>4. Tracked'
    BY <1>2, <2>1 DEF Tracked
  <2> QED BY <2>2, <2>3, <2>4 DEF FixInv
<1>5. CASE WatchdogRollsBack
  <2> DEFINE x == Head(todo)
  <2>1. /\ flow[w].at = "idle" /\ todo # << >> /\ todo' = Tail(todo)
        /\ UNCHANGED <<fix, pending, nextFix>>
        /\ \E stuck \in SUBSET Hooks : StartRollback(w, x, stuck)
    BY <1>5 DEF WatchdogRollsBack
  <2>2. PICK v \in BOOLEAN : Go(w, Standing("rolling", x, v))
    BY <2>1 DEF StartRollback
  <2>3. /\ x \in Fixes /\ Len(todo) >= 1 /\ x = todo[1]
        /\ todo' \in Seq(Fixes) /\ Len(todo') = Len(todo) - 1
        /\ \A i \in 1 .. Len(todo') : todo'[i] = todo[i + 1] /\ i + 1 \in 1 .. Len(todo)
    BY <1>2, <2>1
  <2> HIDE DEF x
  <2>4. Distinct(todo') /\ ~Waits(todo', x) /\ Waits(todo, x)
    <3>1. Len(todo) \in Nat
      BY <1>2
    <3>2. Distinct(todo')
      BY <1>2, <2>3, <3>1 DEF Distinct
    <3>3. ~Waits(todo', x)
      <4> SUFFICES ASSUME NEW i \in 1 .. Len(todo'), todo'[i] = x
                   PROVE  FALSE
        BY DEF Waits
      <4>1. todo[i + 1] = todo[1] /\ i + 1 \in 1 .. Len(todo) /\ 1 \in 1 .. Len(todo)
        BY <2>3, <3>1
      <4>2. i + 1 = 1
        BY <1>2, <4>1 DEF Distinct
      <4> QED BY <2>3, <4>2
    <3> QED BY <2>3, <3>1, <3>2, <3>3 DEF Waits
  <2>5. \A y \in Fixes : Waits(todo', y) => Waits(todo, y)
    BY <2>3 DEF Waits
  <2> DEFINE to == Standing("rolling", x, v)
  <2>6. to \in Positions /\ to.at = "rolling" /\ to.fix = x
    BY <2>3 DEF Positions, Standing
  <2>7. Go(w, to)
    BY <2>2
  <2> HIDE DEF to
  <2>8. /\ flow' \in [Actors -> Positions] /\ flow'[w] = to
        /\ \A b \in Actors : b # w => flow'[b] = flow[b]
    BY <1>1, <1>2, <2>6, <2>7, Moves
  <2>9. CapturesQuiet'
    BY <1>1, <1>3, <2>8 DEF CapturesQuiet
  <2>10. FixTypes'
    BY <1>2, <2>1, <2>3, <2>8 DEF FixTypes
  <2>11. Waits(pending, x)
    BY <1>2, <2>3, <2>4 DEF Tracked
  <2>12. InHand'
    BY <2>1, <2>4, <2>6, <2>8, <2>9, <2>11 DEF InHand, CapturesQuiet
  <2>13. Tracked'
    <3>1. \A y \in Fixes : fix[y].tests = "failed" /\ ~fix[y].verified => Waits(pending, y)
      BY <1>2, <1>3 DEF Tracked, CapturesQuiet
    <3> QED BY <1>2, <2>1, <2>4, <2>5, <3>1 DEF Tracked
  <2> QED BY <2>10, <2>12, <2>13 DEF FixInv
<1>6. CASE WatchdogReturns
  <2> DEFINE x == flow[w].fix
  <2> DEFINE v == flow[w].verified
  <2> DEFINE new == [fix[x] EXCEPT !.verified = v,
                                   !.status = IF v THEN "rolled_back" ELSE @]
  <2>1. /\ flow[w].at = "rolling"
        /\ fix' = [fix EXCEPT ![x].verified = v,
                              ![x].status = IF v THEN "rolled_back" ELSE @]
        /\ pending' = IF v THEN Without(pending, x) ELSE pending
        /\ Go(w, Resting) /\ UNCHANGED <<nextFix, todo>>
    BY <1>6 DEF WatchdogReturns, FinishRollback
  <2>2. v \in BOOLEAN /\ Waits(pending, x) /\ ~Waits(todo, x)
    BY <1>1, <1>2, <2>1 DEF Positions, InHand
  <2>3. x \in Fixes /\ fix[x] \in Records
    BY <1>2, <2>2 DEF Waits
  <2>4. fix[x].tests = "failed" /\ ~fix[x].verified /\ fix[x].status # "rolled_back"
    BY <1>2, <2>2, <2>3 DEF Tracked
  <2>5. fix' = [fix EXCEPT ![x] = new]
    BY <1>2, <2>1, <2>3
  <2>6. /\ new \in Records /\ new.tests = fix[x].tests /\ new.verified = v
        /\ new.status = IF v THEN "rolled_back" ELSE fix[x].status
    BY <2>2, <2>3 DEF Records
  <2> HIDE DEF new, v, x
  <2>7. /\ fix' \in [Fixes -> Records] /\ fix'[x] = new
        /\ \A y \in Fixes : y # x => fix'[y] = fix[y]
    BY <1>2, <2>3, <2>5, <2>6, FixBecomes
  <2>8. /\ pending' \in Seq(Fixes) /\ Distinct(pending')
        /\ \A y \in Fixes : Waits(pending', y) <=> Waits(pending, y) /\ (v => y # x)
    <3>1. CASE v
      BY <1>2, <2>1, <2>3, <3>1, WithoutIs
    <3>2. CASE ~v
      BY <1>2, <2>1, <3>2
    <3> QED BY <3>1, <3>2
  <2>9. /\ flow' \in [Actors -> Positions] /\ flow'[w] = Resting
        /\ \A b \in Actors : b # w => flow'[b] = flow[b]
    BY <1>1, <1>2, <2>1, RestingIs, Moves
  <2>10. CapturesQuiet'
    BY <1>1, <1>3, <2>9 DEF CapturesQuiet
  <2>11. FixTypes'
    BY <1>2, <2>1, <2>7, <2>8, <2>9 DEF FixTypes
  <2>12. InHand'
    BY <2>9, <2>10, RestingIs DEF InHand, CapturesQuiet
  <2>13. Tracked'
    <3>1. \A y \in Fixes : fix[y].tests = "failed" /\ ~fix[y].verified => Waits(pending, y)
      BY <1>2, <1>3 DEF Tracked, CapturesQuiet
    <3>2. \A y \in Fixes : y >= nextFix => fix'[y] = NewFix
      BY <1>2, <2>4, <2>7 DEF Tracked, NewFix
    <3>3. \A y \in Fixes : fix'[y].verified <=> fix'[y].status = "rolled_back"
      BY <1>2, <2>2, <2>3, <2>4, <2>6, <2>7 DEF Tracked
    <3>4. \A y \in Fixes : Waits(pending', y) => fix'[y].tests = "failed" /\ ~fix'[y].verified
      BY <1>2, <2>4, <2>6, <2>7, <2>8 DEF Tracked
    <3>5. \A y \in Fixes : fix'[y].tests = "failed" /\ ~fix'[y].verified => Waits(pending', y)
      BY <2>2, <2>3, <2>4, <2>6, <2>7, <2>8, <3>1
    <3>6. \A y \in Fixes : Waits(todo, y) => Waits(pending', y)
      BY <1>2, <2>2, <2>8 DEF Tracked
    <3> QED BY <1>2, <2>1, <2>8, <3>2, <3>3, <3>4, <3>5, <3>6 DEF Tracked
  <2> QED BY <2>11, <2>12, <2>13 DEF FixInv
<1> QED BY <1>4, <1>5, <1>6

LEMMA FixStep == FixInv /\ [Next]_vars => FixInv'
<1> SUFFICES ASSUME FixInv, [Next]_vars PROVE FixInv'
  OBVIOUS
<1>1. ASSUME NEW a \in Captures, GateBlocks(a)
      PROVE  FixInv'
  <2>1. UNCHANGED <<fix, pending, flow, todo, nextFix>>
    BY <1>1 DEF GateBlocks
  <2> QED BY <2>1 DEF FixInv, FixTypes, InHand, Tracked, CapturesQuiet, WatchdogQuiet
<1>2. ASSUME NEW a \in Captures, ApplyFix(a)
      PROVE  FixInv'
  <2>1. NewAttempt(a, "applied") \/ NewAttempt(a, "failed")
    BY <1>2 DEF ApplyFix, RestartComponent, ApplyHooks, ApplyHooksFails
  <2> QED BY <2>1, AttemptStep
<1>3. ASSUME UNCHANGED vars
      PROVE  FixInv'
  <2>1. UNCHANGED <<fix, pending, flow, todo, nextFix>>
    BY <1>3 DEF vars
  <2> QED BY <2>1 DEF FixInv, FixTypes, InHand, Tracked, CapturesQuiet, WatchdogQuiet
<1> QED BY <1>1, <1>2, <1>3, CaptureAction, WatchdogAction DEF Next

(* At rest, the fixes that failed their tests and are not undone are the   *)
(* ones that wait for the watchdog, each once: no rollback is lost,        *)
(* however many captures and timeouts there are.                           *)
THEOREM FailedFixesWait == Spec => []FailedFixesAreTracked
<1>1. FixInv => FailedFixesAreTracked
  <2> SUFFICES ASSUME FixInv, Quiet PROVE FailedFixesAreTracked
    BY DEF FailedFixesAreTracked
  <2>1. pending \in Seq(Fixes) /\ Distinct(pending) /\ CapturesQuiet
    BY DEF FixInv, FixTypes, Tracked, Quiet
  <2>2. PendingFixes = {x \in Fixes : Waits(pending, x)}
    BY <2>1 DEF PendingFixes, Waits
  <2>3. \A x \in Fixes : Waits(pending, x) <=> fix[x].tests = "failed" /\ ~fix[x].verified
    BY <2>1 DEF FixInv, Tracked, CapturesQuiet
  <2>4. IsInjective(pending)
    BY <2>1 DEF IsInjective, Distinct
  <2>5. \A x \in Fixes : fix[x].verified <=> fix[x].status = "rolled_back"
    BY DEF FixInv, Tracked
  <2> QED BY <2>2, <2>3, <2>4, <2>5 DEF FailedFixesAreTracked
<1> QED BY <1>1, FixInitially, FixStep, PTL DEF Spec

(* A fix is in the hands of one capture at a time, or waits for the        *)
(* watchdog, never both, and the watchdog's turn overlaps no capture's: no *)
(* wrapper is rolled back twice at once, whoever comes first.              *)
THEOREM FixesAreInOneHand == Spec => []InHand
<1>1. FixInv => InHand
  BY DEF FixInv
<1> QED BY <1>1, FixInitially, FixStep, PTL DEF Spec

ObservedIsTried == state = "OBSERVE" => \E a \in Captures : flow[a].at # "idle"

(* OBSERVE is never left behind: while the watchdog's state says so, a     *)
(* capture is in the middle of an attempt, whatever other captures and the *)
(* watchdog have set the state to meanwhile.  (That the attempt ends needs *)
(* fairness; ObservationEnds states both together.)                        *)
THEOREM ObservingIsTrying == Spec => []ObservedIsTried
<1>1. Init => ObservedIsTried
  BY DEF Init, ObservedIsTried
<1>2. FixInv /\ ObservedIsTried /\ [Next]_vars => ObservedIsTried'
  <2> SUFFICES ASSUME FixInv, ObservedIsTried, [Next]_vars, state' = "OBSERVE"
               PROVE  \E a \in Captures : flow'[a].at # "idle"
    BY DEF ObservedIsTried
  <2>1. flow \in [Actors -> Positions] /\ "watchdog" \notin Captures /\ Captures \subseteq Actors
    BY EngineAssumption DEF FixInv, FixTypes, Actors
  <2>2. CASE UNCHANGED <<state, flow>>
    BY <2>2 DEF ObservedIsTried
  <2>3. ASSUME NEW a \in Captures, NewAttempt(a, "applied") \/ NewAttempt(a, "failed")
        PROVE  flow'[a].at # "idle"
    BY <2>1, <2>3 DEF NewAttempt, Go, Standing
  <2>4. ASSUME NEW a \in Captures, TestsFail(a)
        PROVE  flow'[a].at # "idle"
    <3>1. \E x, b : flow' = [flow EXCEPT ![a] = Standing("rolling", x, b)]
      BY <2>4 DEF TestsFail, StartRollback, Go
    <3> QED BY <2>1, <3>1 DEF Standing
  <2>5. ASSUME NEW a \in Captures, RollbackReturns(a)
        PROVE  flow'[a].at # "idle"
    <3>1. ~flow[a].verified
      BY <2>5 DEF RollbackReturns, FinishRollback
    <3>2. flow' = [flow EXCEPT ![a] = Standing("unverified", flow[a].fix, FALSE)]
      BY <2>5, <3>1 DEF RollbackReturns, FinishRollback, Go
    <3> QED BY <2>1, <3>2 DEF Standing
  <2>6. CASE WatchdogReturns
    <3>1. state' = state /\ flow' = [flow EXCEPT !["watchdog"] = Resting]
      BY <2>6 DEF WatchdogReturns, FinishRollback, Go
    <3>2. \A a \in Captures : flow'[a] = flow[a]
      BY <2>1, <3>1
    <3> QED BY <3>1, <3>2 DEF ObservedIsTried
  <2>7. ASSUME NEW a \in Captures, GateBlocks(a) \/ AttemptFailed(a) \/ TestsPass(a) \/ KeepPending(a)
        PROVE  FALSE
    BY <2>7 DEF GateBlocks, AttemptFailed, TestsPass, KeepPending
  <2>8. CASE EpochTimeout \/ WatchdogRollsBack
    BY <2>8 DEF EpochTimeout, WatchdogRollsBack
  <2>9. ASSUME NEW a \in Captures, ApplyFix(a)
        PROVE  NewAttempt(a, "applied") \/ NewAttempt(a, "failed")
    BY <2>9 DEF ApplyFix, RestartComponent, ApplyHooks, ApplyHooksFails
  <2> QED BY <2>2, <2>3, <2>4, <2>5, <2>6, <2>7, <2>8, <2>9 DEF Next, Continue, vars
<1> QED BY <1>1, <1>2, FixInitially, FixStep, PTL DEF Spec

(***************************************************************************)
(* Alerts: what the two judges of a refresh read, and what the file keeps. *)
(***************************************************************************)

(* What the count of violations that was read says of the figures that     *)
(* were read with it.                                                      *)
Counted(health) ==
  /\ health.violations \in Nat
  /\ health.storage > 900 \/ health.errors > 20 => health.violations > 0

RefreshesCount ==
  /\ DOMAIN refresh = Refreshers /\ gauges \in Gauges
  /\ \A r \in Refreshers : /\ refresh[r].at = "health" => Counted(refresh[r])
                           /\ refresh[r].at = "snapshot" => Counted(refresh[r].health)
                           /\ phase = "new" => refresh[r].at = "idle"

(* The file has what was raised before the map has it again.               *)
FileKeeps ==
  /\ losses \in [n : Nat, badFile : BOOLEAN]
  /\ phase \in {"new", "running", "stopped"}
  /\ ~losses.badFile => raised \subseteq DOMAIN alertsFile.alerts

AlertInv == RefreshesCount /\ FileKeeps /\ AlertsAreKept /\ AlertsAreSeconded

(* A full disk or many errors are a violation, counted where both are read.*)
LEMMA ViolationsCount ==
  ASSUME gauges \in Gauges
  PROVE  /\ Violations \in Nat
         /\ gauges.storage > 900 \/ gauges.errors > 20 => Violations > 0
<1> DEFINE All == {"capture", "success", "storage", "errors", "watchdog", "engine"}
<1> DEFINE Is(v) == CASE v = "capture" -> gauges.capture > 80
                      [] v = "success" -> figures.fixes > 0 /\ FixRate < 90
                      [] v = "storage" -> gauges.storage > 900
                      [] v = "errors" -> gauges.errors > 20
                      [] v = "watchdog" -> gauges.failsafe
                      [] v = "engine" -> phase # "running"
<1> DEFINE Found == {v \in All : Is(v)}
<1>1. Violations = Cardinality(Found)
  BY DEF Violations
<1>2. IsFiniteSet(All)
  <2>1. All = {"capture"} \cup ({"success"} \cup ({"storage"} \cup ({"errors"} \cup
              ({"watchdog"} \cup {"engine"}))))
    OBVIOUS
  <2> HIDE DEF All
  <2> QED BY <2>1, FS_Singleton, FS_Union
<1>3. (gauges.storage > 900 => Is("storage")) /\ (gauges.errors > 20 => Is("errors"))
  OBVIOUS
<1>4. "storage" \in All /\ "errors" \in All
  OBVIOUS
<1> HIDE DEF All, Is
<1>5. IsFiniteSet(Found)
  BY <1>2, FS_Subset
<1>6. Cardinality(Found) \in Nat /\ (Cardinality(Found) = 0 <=> Found = {})
  BY <1>5, FS_CardinalityType, FS_EmptySet
<1>7. gauges.storage > 900 \/ gauges.errors > 20 => Found # {}
  <2>1. CASE gauges.storage > 900
    <3>1. Is("storage")
      BY <1>3, <2>1
    <3>2. "storage" \in Found
      BY <1>4, <3>1
    <3> QED BY <3>2
  <2>2. CASE gauges.errors > 20
    <3>1. Is("errors")
      BY <1>3, <2>2
    <3>2. "errors" \in Found
      BY <1>4, <3>1
    <3> QED BY <3>2
  <2> QED BY <2>1, <2>2
<1> QED BY <1>1, <1>6, <1>7

(* Which rule of the mesh seconds an alert.                                *)
LEMMA AlertIsSeconded ==
  ASSUME NEW m, Counted(m.health), NEW rule \in AlertRules, Condition(rule, m),
         rule # "rollback_failure"
  PROVE  Second(rule) \in EvaluateOperationalMetrics(m)
<1>1. \A q \in MeshRules : \A value \in MeshMetrics(m)[q.metric] :
        CheckCondition(value, q) => q.id \in EvaluateOperationalMetrics(m)
  BY DEF EvaluateOperationalMetrics
<1> DEFINE Fires(id, metric, operator, threshold) ==
      \A value \in MeshMetrics(m)[metric] :
        CheckCondition(value, MeshRule(id, metric, operator, threshold)) =>
          id \in EvaluateOperationalMetrics(m)
<1>2. /\ Fires("sla_bug_capture_critical", "bug_capture_latency_ms", ">", 100)
      /\ Fires("sla_pattern_detection_critical", "pattern_detection_latency_ms", ">", 500)
      /\ Fires("sla_fix_application_critical", "fix_application_latency_ms", ">", 1000)
      /\ Fires("sla_success_rate_critical", "success_rate", "<", 80)
      /\ Fires("watchdog_failsafe_critical", "watchdog_state", "==", 4)
      /\ Fires("sla_violations_warning", "sla_total_violations", ">", 0)
  <2>1. ASSUME NEW id, NEW metric, NEW operator, NEW threshold,
               MeshRule(id, metric, operator, threshold) \in MeshRules
        PROVE  Fires(id, metric, operator, threshold)
    <3>1. /\ MeshRule(id, metric, operator, threshold).id = id
          /\ MeshRule(id, metric, operator, threshold).metric = metric
      BY DEF MeshRule
    <3> QED BY <1>1, <2>1, <3>1
  <2>2. /\ MeshRule("sla_bug_capture_critical", "bug_capture_latency_ms", ">", 100) \in MeshRules
        /\ MeshRule("sla_pattern_detection_critical", "pattern_detection_latency_ms", ">", 500) \in MeshRules
        /\ MeshRule("sla_fix_application_critical", "fix_application_latency_ms", ">", 1000) \in MeshRules
        /\ MeshRule("sla_success_rate_critical", "success_rate", "<", 80) \in MeshRules
        /\ MeshRule("watchdog_failsafe_critical", "watchdog_state", "==", 4) \in MeshRules
        /\ MeshRule("sla_violations_warning", "sla_total_violations", ">", 0) \in MeshRules
    BY DEF MeshRules
  <2> HIDE DEF Fires
  <2> QED BY <2>1, <2>2
<1>3. /\ m.capture \in MeshMetrics(m).bug_capture_latency_ms
      /\ m.detection \in MeshMetrics(m).pattern_detection_latency_ms
      /\ m.application \in MeshMetrics(m).fix_application_latency_ms
      /\ m.fixRate \in MeshMetrics(m).success_rate
      /\ m.health.failsafe => 4 \in MeshMetrics(m).watchdog_state
      /\ m.health.violations \in MeshMetrics(m).sla_total_violations
  BY DEF MeshMetrics
<1>4. \A value, id, metric, operator, threshold :
        CheckCondition(value, MeshRule(id, metric, operator, threshold)) <=>
          \/ operator = ">" /\ value > threshold
          \/ operator = "<" /\ value < threshold
          \/ operator = "==" /\ value = threshold
  BY DEF CheckCondition, MeshRule
<1>5. CASE rule = "sla_bug_capture_latency"
  BY <1>2, <1>3, <1>4, <1>5 DEF Condition, Second
<1>6. CASE rule = "sla_pattern_detection_latency"
  BY <1>2, <1>3, <1>4, <1>6 DEF Condition, Second
<1>7. CASE rule = "sla_fix_application_latency"
  BY <1>2, <1>3, <1>4, <1>7 DEF Condition, Second
<1>8. CASE rule = "sla_fix_success_rate"
  <2>1. m.fixRate < 80
    BY <1>8 DEF Condition, OrHundred
  <2> QED BY <1>2, <1>3, <1>4, <1>8, <2>1 DEF Second
<1>9. CASE rule = "high_memory_usage"
  BY <1>9 DEF Condition, TargetMemory
<1>10. CASE rule = "watchdog_failsafe"
  BY <1>2, <1>3, <1>4, <1>10 DEF Condition, Second
<1>11. CASE rule \in {"high_storage_usage", "high_error_rate"}
  <2>1. m.health.storage > 900 \/ m.health.errors > 20
    <3>1. CASE rule = "high_storage_usage"
      BY <3>1 DEF Condition
    <3>2. CASE rule = "high_error_rate"
      BY <3>2 DEF Condition
    <3> QED BY <1>11, <3>1, <3>2
  <2>2. m.health.violations > 0
    BY <2>1 DEF Counted
  <2> QED BY <1>2, <1>3, <1>4, <1>11, <2>2 DEF Second
<1> QED BY <1>5, <1>6, <1>7, <1>8, <1>9, <1>10, <1>11 DEF AlertRules

(* What a save of the map leaves in the file.                              *)
LEMMA SaveKeeps ==
  ASSUME FileKeeps, NEW map, SaveAlerts(map)
  PROVE  /\ losses' \in [n : Nat, badFile : BOOLEAN]
         /\ ~losses'.badFile => ~losses.badFile /\ alertsFile'.alerts = map
<1>1. losses.n \in Nat /\ losses \in [n : Nat, badFile : BOOLEAN]
  BY DEF FileKeeps
<1>2. CASE alertsFile' = File(map, FALSE) /\ UNCHANGED losses
  BY <1>1, <1>2 DEF File
<1>3. CASE losses' = [n |-> losses.n + 1, badFile |-> TRUE]
  <2>1. losses.n + 1 \in Nat
    BY <1>1
  <2>2. losses' \in [n : Nat, badFile : BOOLEAN]
    BY <1>3, <2>1
  <2> QED BY <1>3, <2>2
<1> QED BY <1>2, <1>3 DEF SaveAlerts, FileGoesWrong

LEMMA AlertStart == ObservabilityInit => AlertInv
<1> SUFFICES ASSUME ObservabilityInit PROVE AlertInv
  OBVIOUS
<1> USE DEF ObservabilityInit
<1>1. RefreshesCount
  BY DEF RefreshesCount, NoMetrics
<1>2. FileKeeps
  <2>1. losses \in [n : Nat, badFile : BOOLEAN]
    OBVIOUS
  <2> QED BY <2>1 DEF FileKeeps
<1>3. AlertsAreKept /\ AlertsAreSeconded
  BY DEF AlertsAreKept, AlertsAreSeconded
<1> QED BY <1>1, <1>2, <1>3 DEF AlertInv

(* What a refresh reads.                                                   *)
LEMMA RefreshReads ==
  ASSUME AlertInv, NEW r \in Refreshers, Observe(r) \/ Snapshot(r)
  PROVE  AlertInv'
<1>1. /\ DOMAIN refresh = Refreshers /\ gauges \in Gauges
      /\ \A q \in Refreshers : /\ refresh[q].at = "health" => Counted(refresh[q])
                               /\ refresh[q].at = "snapshot" => Counted(refresh[q].health)
                               /\ phase = "new" => refresh[q].at = "idle"
  BY DEF AlertInv, RefreshesCount
<1>2. UNCHANGED World /\ UNCHANGED Judgement
  BY DEF Observe, Snapshot
<1>3. UNCHANGED <<phase, gauges, alerts, alertsFile, losses, raised, alone>>
  BY <1>2 DEF World, Judgement
<1>4. FileKeeps' /\ AlertsAreKept' /\ AlertsAreSeconded'
  BY <1>3 DEF AlertInv, FileKeeps, AlertsAreKept, AlertsAreSeconded
<1>5. phase # "new"
  BY <1>1 DEF Observe, Snapshot
<1>6. \E m : /\ refresh' = [refresh EXCEPT ![r] = m]
             /\ m.at = "health" => Counted(m)
             /\ m.at = "snapshot" => Counted(m.health)
  <2>1. CASE Observe(r)
    <3> DEFINE m == [at |-> "health", failsafe |-> gauges.failsafe, disk |-> gauges.disk,
                     storage |-> gauges.storage, errors |-> gauges.errors,
                     violations |-> Violations]
    <3>1. refresh' = [refresh EXCEPT ![r] = m]
      BY <2>1 DEF Observe
    <3>2. m.at = "health" /\ Counted(m)
      BY <1>1, ViolationsCount DEF Counted
    <3> HIDE DEF m
    <3> QED BY <3>1, <3>2
  <2>2. CASE Snapshot(r)
    <3> DEFINE m == [at |-> "snapshot", health |-> refresh[r], capture |-> gauges.capture,
                     detection |-> gauges.detection, application |-> gauges.application,
                     fixRate |-> FixRate]
    <3>1. refresh' = [refresh EXCEPT ![r] = m] /\ refresh[r].at = "health"
      BY <2>2 DEF Snapshot
    <3>2. m.at = "snapshot" /\ m.health = refresh[r]
      OBVIOUS
    <3>3. Counted(m.health)
      BY <1>1, <3>1, <3>2
    <3> HIDE DEF m
    <3> QED BY <3>1, <3>2, <3>3
  <2> QED BY <2>1, <2>2
<1>7. RefreshesCount'
  <2>1. PICK m : /\ refresh' = [refresh EXCEPT ![r] = m]
                 /\ m.at = "health" => Counted(m)
                 /\ m.at = "snapshot" => Counted(m.health)
    BY <1>6
  <2>2. /\ DOMAIN refresh' = Refreshers /\ refresh'[r] = m
        /\ \A q \in Refreshers : q # r => refresh'[q] = refresh[q]
    BY <1>1, <2>1
  <2>3. ASSUME NEW q \in Refreshers
        PROVE  /\ refresh'[q].at = "health" => Counted(refresh'[q])
               /\ refresh'[q].at = "snapshot" => Counted(refresh'[q].health)
               /\ phase' = "new" => refresh'[q].at = "idle"
    BY <1>1, <1>3, <1>5, <2>1, <2>2
  <2>4. \A h : Counted(h)' <=> Counted(h)
    BY DEF Counted
  <2> QED BY <1>1, <1>3, <2>2, <2>3 DEF RefreshesCount, Counted
<1> QED BY <1>4, <1>7 DEF AlertInv

(* A judgement: what is raised is in the map, and in the file unless the   *)
(* save went wrong.                                                        *)
LEMMA JudgementKeeps ==
  ASSUME AlertInv, NEW r \in Refreshers, Evaluate(r)
  PROVE  AlertInv'
<1> DEFINE m == refresh[r]
<1> DEFINE ids == {[rule |-> rule, at |-> tick] : rule \in NewAlerts(m)}
<1>1. /\ m.at = "snapshot" /\ alerts' = With(alerts, ids) /\ raised' = raised \cup ids
      /\ alone' = alone \cup {rule \in NewAlerts(m) :
                               Second(rule) \notin EvaluateOperationalMetrics(m)}
      /\ IF ids = {} THEN UNCHANGED <<alertsFile, losses>> ELSE SaveAlerts(SavedAlerts(ids))
      /\ refresh' = [refresh EXCEPT ![r] = NoMetrics]
      /\ UNCHANGED <<phase, gauges>>
  BY DEF Evaluate, World
<1>2. /\ DOMAIN refresh = Refreshers /\ gauges \in Gauges
      /\ \A q \in Refreshers : /\ refresh[q].at = "health" => Counted(refresh[q])
                               /\ refresh[q].at = "snapshot" => Counted(refresh[q].health)
                               /\ phase = "new" => refresh[q].at = "idle"
  BY DEF AlertInv, RefreshesCount
<1>3. Counted(m.health) /\ phase # "new"
  BY <1>1, <1>2
<1> HIDE DEF ids
<1>4. DOMAIN alerts' = DOMAIN alerts \cup ids
  BY <1>1 DEF With
<1>5. RefreshesCount'
  <2>1. /\ DOMAIN refresh' = Refreshers /\ refresh'[r] = NoMetrics
        /\ \A q \in Refreshers : q # r => refresh'[q] = refresh[q]
    BY <1>1, <1>2
  <2>2. NoMetrics.at = "idle"
    BY DEF NoMetrics
  <2>3. ASSUME NEW q \in Refreshers
        PROVE  /\ refresh'[q].at = "health" => Counted(refresh'[q])
               /\ refresh'[q].at = "snapshot" => Counted(refresh'[q].health)
               /\ phase' = "new" => refresh'[q].at = "idle"
    BY <1>1, <1>2, <2>1, <2>2
  <2> QED BY <1>1, <1>2, <2>1, <2>3 DEF RefreshesCount, Counted
<1>6. FileKeeps' /\ AlertsAreKept'
  <2>1. /\ losses \in [n : Nat, badFile : BOOLEAN] /\ phase \in {"new", "running", "stopped"}
        /\ ~losses.badFile => raised \subseteq DOMAIN alertsFile.alerts
        /\ ~losses.badFile => raised \subseteq DOMAIN alerts
    BY <1>3 DEF AlertInv, FileKeeps, AlertsAreKept
  <2>2. CASE ids = {}
    BY <1>1, <1>4, <2>1, <2>2 DEF FileKeeps, AlertsAreKept
  <2>3. CASE SaveAlerts(SavedAlerts(ids))
    <3>1. /\ losses' \in [n : Nat, badFile : BOOLEAN]
          /\ ~losses'.badFile => ~losses.badFile /\ alertsFile'.alerts = With(alerts, ids)
      BY <2>3, SaveKeeps DEF AlertInv, SavedAlerts
    <3> QED BY <1>1, <1>4, <2>1, <3>1 DEF FileKeeps, AlertsAreKept
  <2> QED BY <1>1, <2>2, <2>3
<1>7. AlertsAreSeconded'
  <2>1. \A rule \in NewAlerts(m) : rule # "rollback_failure" =>
          Second(rule) \in EvaluateOperationalMetrics(m)
    BY <1>3, AlertIsSeconded DEF NewAlerts
  <2> QED BY <1>1, <2>1 DEF AlertInv, AlertsAreSeconded
<1> QED BY <1>5, <1>6, <1>7 DEF AlertInv

LEMMA AlertStep == AlertInv /\ [ObservabilityNext]_observabilityVars => AlertInv'
<1> SUFFICES ASSUME AlertInv, [ObservabilityNext]_observabilityVars PROVE AlertInv'
  OBVIOUS
<1>1. /\ RefreshesCount /\ FileKeeps /\ AlertsAreKept /\ AlertsAreSeconded
      /\ losses \in [n : Nat, badFile : BOOLEAN]
  BY DEF AlertInv, FileKeeps
<1>2. CASE Drift
  <2>1. /\ gauges' \in Gauges
        /\ UNCHANGED <<phase, refresh, alerts, alertsFile, losses, raised, alone>>
    BY <1>2 DEF Drift, Judgement
  <2> QED BY <1>1, <2>1 DEF AlertInv, RefreshesCount, FileKeeps, AlertsAreKept,
                            AlertsAreSeconded, Counted
<1>3. ASSUME NEW fixed \in BOOLEAN, NEW rollback \in BOOLEAN, NEW rolledBack \in BOOLEAN,
             Record(fixed, rollback, rolledBack)
      PROVE  AlertInv'
  <2>1. UNCHANGED <<phase, gauges, refresh, alerts, alertsFile, losses, raised, alone>>
    BY <1>3 DEF Record, Judgement
  <2> QED BY <1>1, <2>1 DEF AlertInv, RefreshesCount, FileKeeps, AlertsAreKept,
                            AlertsAreSeconded, Counted
<1>4. ASSUME NEW id \in DOMAIN alerts, ResolveAlert(id)
      PROVE  AlertInv'
  <2>1. /\ DOMAIN alerts' = DOMAIN alerts
        /\ UNCHANGED <<phase, gauges, refresh, alertsFile, losses, raised, alone>>
    BY <1>4 DEF ResolveAlert, World
  <2> QED BY <1>1, <2>1 DEF AlertInv, RefreshesCount, FileKeeps, AlertsAreKept,
                            AlertsAreSeconded, Counted
<1>5. CASE LoadAlerts
  <2>1. phase' = "running" /\ UNCHANGED <<gauges, refresh, alertsFile, raised, alone>>
    BY <1>5 DEF LoadAlerts
  <2>2. CASE /\ DOMAIN alerts' = DOMAIN alerts \cup DOMAIN alertsFile.alerts
             /\ UNCHANGED losses
    BY <1>1, <2>1, <2>2 DEF AlertInv, RefreshesCount, FileKeeps, AlertsAreKept,
                            AlertsAreSeconded, Counted
  <2>3. CASE losses' = [n |-> losses.n + 1, badFile |-> TRUE] /\ UNCHANGED alerts
    <3>1. losses' \in [n : Nat, badFile : BOOLEAN] /\ losses'.badFile
      BY <1>1, <2>3
    <3> QED BY <1>1, <2>1, <2>3, <3>1 DEF AlertInv, RefreshesCount, FileKeeps, AlertsAreKept,
                                          AlertsAreSeconded, Counted
  <2> QED BY <1>5, <2>2, <2>3 DEF LoadAlerts, FileGoesWrong
<1>6. CASE StopSavesAlerts
  <2>1. /\ phase = "running" /\ phase' = "stopped" /\ SaveAlerts(alerts)
        /\ UNCHANGED <<gauges, refresh, alerts, raised, alone>>
    BY <1>6 DEF StopSavesAlerts
  <2>2. /\ losses' \in [n : Nat, badFile : BOOLEAN]
        /\ ~losses'.badFile => ~losses.badFile /\ alertsFile'.alerts = alerts
    BY <1>1, <2>1, SaveKeeps
  <2>3. RefreshesCount' /\ AlertsAreSeconded'
    BY <1>1, <2>1 DEF RefreshesCount, AlertsAreSeconded, Counted
  <2>4. FileKeeps' /\ AlertsAreKept'
    BY <1>1, <2>1, <2>2 DEF FileKeeps, AlertsAreKept
  <2> QED BY <2>3, <2>4 DEF AlertInv
<1>7. CASE ProcessEnds
  <2>1. /\ phase' = "new" /\ refresh' = [r \in Refreshers |-> NoMetrics]
        /\ losses' = [losses EXCEPT !.n = @ + 1]
        /\ UNCHANGED <<gauges, alertsFile, raised, alone>>
    BY <1>7 DEF ProcessEnds
  <2>2. losses' \in [n : Nat, badFile : BOOLEAN] /\ losses'.badFile = losses.badFile
    BY <1>1, <2>1
  <2>3. RefreshesCount'
    BY <1>1, <2>1 DEF RefreshesCount, NoMetrics
  <2>4. FileKeeps' /\ AlertsAreKept' /\ AlertsAreSeconded'
    BY <1>1, <2>1, <2>2 DEF FileKeeps, AlertsAreKept, AlertsAreSeconded
  <2> QED BY <2>3, <2>4 DEF AlertInv
<1>8. CASE UNCHANGED observabilityVars
  <2>1. UNCHANGED <<phase, gauges, refresh, alerts, alertsFile, losses, raised, alone>>
    BY <1>8 DEF observabilityVars
  <2> QED BY <1>1, <2>1 DEF AlertInv, RefreshesCount, FileKeeps, AlertsAreKept,
                            AlertsAreSeconded, Counted
<1> QED BY <1>2, <1>3, <1>4, <1>5, <1>6, <1>7, <1>8, RefreshReads, JudgementKeeps
        DEF ObservabilityNext

(* No overlap of refreshes, no stop and no end of the process loses an     *)
(* alert that was raised, unless a save of the file went wrong.            *)
THEOREM AlertsOutliveProcesses == ObservabilitySpec => []AlertsAreKept
<1>1. AlertInv => AlertsAreKept
  BY DEF AlertInv
<1> QED BY <1>1, AlertStart, AlertStep, PTL DEF ObservabilitySpec

(* Whatever is measured, whenever it is read and however the two judges    *)
(* are debounced, what AlertManager alerts of the mesh alerts of too,      *)
(* except of rollbacks.                                                    *)
THEOREM JudgesAgree == ObservabilitySpec => []AlertsAreSeconded
<1>1. AlertInv => AlertsAreSeconded
  BY DEF AlertInv
<1> QED BY <1>1, AlertStart, AlertStep, PTL DEF ObservabilitySpec

(***************************************************************************)
(* The bug history: what was saved is there until newer bugs displace it.  *)
(* The argument: bugs are appended in the order of their numbers, whatever *)
(* calls are queued between, so what Newest drops has Capacity newer ones; *)
(* and a store that was loaded lacks nothing that was saved.               *)
(***************************************************************************)
Rises(s) == \A i, j \in 1 .. Len(s) : i < j => s[i] < s[j]
IdsBelow(s, b) == \A i \in 1 .. Len(s) : s[i] < b
Outnumbered(b) == Cardinality({d \in Bugs : d > b /\ d < nextBug}) >= Capacity
Places == {"idle", "append", "saved", "captured", "patterns", "checked", "alerts", "hooking",
           "hooked", "watched", "loaded", "uncaptured", "exporting", "exported", "stopped",
           "ending"}
Standings == [at : Places, bug : 0 .. MaxBugs, n : Nat]

StoreTypes ==
  /\ nextBug \in 1 .. MaxBugs + 1 /\ saved \subseteq Bugs
  /\ store \in [loaded : BOOLEAN, events : Seq(Bugs)]
  /\ history \in [state : {"absent", "sound", "corrupt"}, events : Seq(Bugs)]

(* A caller has at most one job; bugs wait to be appended in the order of  *)
(* their numbers, behind those that were.                                  *)
QueueInOrder ==
  /\ jobs \in Seq(Callers) /\ call \in [Callers -> Standings]
  /\ \A i \in 1 .. Len(jobs) : call[jobs[i]].at # "idle"
  /\ \A i, j \in 1 .. Len(jobs) : jobs[i] = jobs[j] => i = j
  /\ \A i \in 1 .. Len(jobs) : call[jobs[i]].at = "append" =>
       /\ store.loaded /\ call[jobs[i]].bug \in 1 .. nextBug - 1
       /\ IdsBelow(store.events, call[jobs[i]].bug)
  /\ \A i, j \in 1 .. Len(jobs) :
       i < j /\ call[jobs[i]].at = "append" /\ call[jobs[j]].at = "append" =>
         call[jobs[i]].bug < call[jobs[j]].bug

StoreInOrder ==
  /\ Rises(store.events) /\ IdsBelow(store.events, nextBug)
  /\ Rises(history.events) /\ IdsBelow(history.events, nextBug)

StoreKeeps ==
  /\ history.state = "corrupt" => saved \subseteq quarantine /\ history.events = << >>
  /\ \A b \in saved : b \in ToSet(history.events) \cup quarantine \/ Outnumbered(b)
  /\ store.loaded => \A b \in saved : b \in ToSet(store.events) \cup quarantine \/ Outnumbered(b)

HistoryInv == StoreTypes /\ QueueInOrder /\ StoreInOrder /\ StoreKeeps

(* What Newest keeps.                                                      *)
LEMMA NewestIs ==
  ASSUME NEW S, NEW s \in Seq(S)
  PROVE  /\ Newest(s) \in Seq(S) /\ Len(Newest(s)) <= Len(s)
         /\ Len(s) > Len(Newest(s)) => Len(Newest(s)) >= Capacity
         /\ \A i \in 1 .. Len(Newest(s)) : Newest(s)[i] = s[Len(s) - Len(Newest(s)) + i]
<1> DEFINE k == IF Len(s) < Capacity THEN Len(s) ELSE Capacity
<1>1. k \in Nat /\ k <= Len(s) /\ (k < Len(s) => k = Capacity) /\ Len(s) \in Nat
  BY LifecycleAssumption
<1>2. Newest(s) = SubSeq(s, Len(s) - k + 1, Len(s))
  BY DEF Newest
<1> HIDE DEF k
<1>3. Len(Newest(s)) = k /\ Newest(s) \in Seq(S)
  BY <1>1, <1>2
<1>4. ASSUME NEW i \in 1 .. k
      PROVE  Newest(s)[i] = s[Len(s) - k + i]
  <2> DEFINE m == Len(s) - k + 1
  <2>3. m \in 1 .. Len(s) + 1 /\ Len(s) \in Nat /\ i \in 1 .. Len(s) - m + 1
    BY <1>1
  <2>4. Newest(s) = SubSeq(s, m, Len(s))
    BY <1>2
  <2> HIDE DEF m
  <2>5. Newest(s)[i] = s[m + i - 1]
    BY <2>3, <2>4
  <2>1. Newest(s)[i] = s[(Len(s) - k + 1) + i - 1]
    BY <2>5 DEF m
  <2>2. (Len(s) - k + 1) + i - 1 = Len(s) - k + i
    BY <1>1
  <2> QED BY <2>1, <2>2
<1> QED BY <1>1, <1>3, <1>4

(* What a rising sequence has Capacity members behind is displaced.        *)
LEMMA DroppedIsDisplaced ==
  ASSUME StoreTypes, NEW s \in Seq(Bugs), Rises(s), IdsBelow(s, nextBug),
         NEW i \in 1 .. Len(s), Len(s) - i >= Capacity
  PROVE  Outnumbered(s[i])
<1> DEFINE D == {d \in Bugs : d > s[i] /\ d < nextBug}
<1> DEFINE f == [j \in 1 .. Capacity |-> s[i + j]]
<1>1. Capacity \in Nat /\ nextBug \in Nat /\ MaxBugs \in Nat /\ Len(s) \in Nat
  BY LifecycleAssumption DEF StoreTypes
<1>2. IsFiniteSet(D) /\ Cardinality(D) \in Nat
  <2>1. IsFiniteSet(Bugs)
    BY <1>1, FS_Interval DEF Bugs
  <2> QED BY <2>1, FS_Subset, FS_CardinalityType
<1>3. ASSUME NEW j \in 1 .. Capacity
      PROVE  i + j \in 1 .. Len(s) /\ s[i + j] \in D
  <2>1. i + j \in 1 .. Len(s) /\ i < i + j
    BY <1>1
  <2>2. s[i + j] \in Bugs /\ s[i] < s[i + j] /\ s[i + j] < nextBug /\ s[i] \in Bugs
    BY <2>1 DEF Rises, IdsBelow
  <2> QED BY <2>1, <2>2 DEF Bugs
<1>4. f \in [1 .. Capacity -> D]
  BY <1>3
<1>5. \A j, k \in 1 .. Capacity : j < k => f[j] # f[k]
  <2> SUFFICES ASSUME NEW j \in 1 .. Capacity, NEW k \in 1 .. Capacity, j < k
               PROVE  s[i + j] # s[i + k]
    OBVIOUS
  <2>1. i + j \in 1 .. Len(s) /\ i + k \in 1 .. Len(s) /\ i + j < i + k
    BY <1>1, <1>3
  <2>2. s[i + j] < s[i + k] /\ s[i + j] \in Bugs /\ s[i + k] \in Bugs
    BY <2>1 DEF Rises
  <2> QED BY <2>2 DEF Bugs
<1>6. IsFiniteSet(1 .. Capacity) /\ Cardinality(1 .. Capacity) = Capacity
  BY <1>1, FS_Interval, LifecycleAssumption
<1> HIDE DEF D, f
<1>7. ~(Cardinality(D) < Capacity)
  <2> SUFFICES ASSUME Cardinality(D) < Capacity PROVE FALSE
    OBVIOUS
  <2>1. \E j, k \in 1 .. Capacity : j # k /\ f[j] = f[k]
    BY <1>2, <1>4, <1>6, FS_PigeonHole
  <2> QED BY <1>1, <1>5, <2>1
<1> QED BY <1>1, <1>2, <1>7 DEF Outnumbered, D

(* Displacement is for good.                                               *)
LEMMA DisplacedForGood ==
  ASSUME StoreTypes, nextBug' \in Nat, nextBug' >= nextBug, NEW b \in Bugs, Outnumbered(b)
  PROVE  Outnumbered(b)'
<1> DEFINE D == {d \in Bugs : d > b /\ d < nextBug}
<1> DEFINE E == {d \in Bugs : d > b /\ d < nextBug'}
<1>1. IsFiniteSet(Bugs) /\ Bugs \subseteq Nat /\ Capacity \in Nat
  <2>1. MaxBugs \in Int /\ 1 \in Int /\ Capacity \in Nat
    BY LifecycleAssumption
  <2>2. Bugs \subseteq Nat
    BY <2>1 DEF Bugs
  <2>3. IsFiniteSet(Bugs)
    BY <2>1, FS_Interval DEF Bugs
  <2> QED BY <2>1, <2>2, <2>3
<1>2. D \subseteq E
  <2>1. nextBug \in Nat
    BY LifecycleAssumption DEF StoreTypes
  <2>2. ASSUME NEW d \in Bugs, d < nextBug
        PROVE  d < nextBug'
    BY <1>1, <2>1, <2>2
  <2> QED BY <2>2
<1>3. IsFiniteSet(E)
  BY <1>1, FS_Subset
<1>4. IsFiniteSet(D) /\ Cardinality(D) <= Cardinality(E)
  BY <1>2, <1>3, FS_Subset
<1>5. Cardinality(D) \in Nat /\ Cardinality(E) \in Nat
  BY <1>3, <1>4, FS_CardinalityType
<1>6. Cardinality(D) >= Capacity
  BY DEF Outnumbered
<1> HIDE DEF D, E
<1>7. Cardinality(E) >= Capacity
  BY <1>1, <1>4, <1>5, <1>6
<1> QED BY <1>7 DEF Outnumbered, E

(* The oldest job is done, and has queued its continuation or not.         *)
LEMMA QueueMoves ==
  ASSUME HistoryInv, NEW c \in Callers, jobs # << >>, Head(jobs) = c,
         \/ jobs' = Tail(jobs)
         \/ jobs' = Append(Tail(jobs), c) /\ call'[c].at \notin {"append", "idle"},
         call' \in [Callers -> Standings],
         \A b \in Callers : b # c => call'[b] = call[b],
         nextBug' = nextBug,
         \A i \in 2 .. Len(jobs) : call[jobs[i]].at = "append" =>
           store'.loaded /\ IdsBelow(store'.events, call[jobs[i]].bug)
  PROVE  QueueInOrder'
<1>1. /\ jobs \in Seq(Callers) /\ call \in [Callers -> Standings]
      /\ \A i \in 1 .. Len(jobs) : call[jobs[i]].at # "idle"
      /\ \A i, j \in 1 .. Len(jobs) : jobs[i] = jobs[j] => i = j
      /\ \A i \in 1 .. Len(jobs) : call[jobs[i]].at = "append" =>
           call[jobs[i]].bug \in 1 .. nextBug - 1
      /\ \A i, j \in 1 .. Len(jobs) :
           i < j /\ call[jobs[i]].at = "append" /\ call[jobs[j]].at = "append" =>
             call[jobs[i]].bug < call[jobs[j]].bug
  BY DEF HistoryInv, QueueInOrder
<1> DEFINE n == Len(jobs) - 1
<1>2. Len(jobs) \in Nat /\ Len(jobs) >= 1 /\ n \in Nat /\ jobs[1] = c
  BY <1>1
<1>3. /\ Tail(jobs) \in Seq(Callers) /\ Len(Tail(jobs)) = n
      /\ \A i \in 1 .. n : Tail(jobs)[i] = jobs[i + 1]
  BY <1>1, <1>2
<1>4. /\ jobs' \in Seq(Callers)
      /\ \/ Len(jobs') = n
         \/ /\ Len(jobs') = n + 1 /\ jobs'[n + 1] = c
            /\ call'[c].at \notin {"append", "idle"}
      /\ \A i \in 1 .. n : jobs'[i] = jobs[i + 1]
  <2> DEFINE t == Tail(jobs)
  <2>1. t \in Seq(Callers) /\ Len(t) = n /\ \A i \in 1 .. n : t[i] = jobs[i + 1]
    BY <1>3
  <2> HIDE DEF n, t
  <2>2. CASE jobs' = t
    BY <2>1, <2>2
  <2>3. CASE jobs' = Append(t, c) /\ call'[c].at \notin {"append", "idle"}
    <3>1. /\ jobs' \in Seq(Callers) /\ Len(jobs') = n + 1 /\ jobs'[n + 1] = c
          /\ \A i \in 1 .. n : jobs'[i] = t[i]
      BY <1>2, <2>1, <2>3
    <3> QED BY <2>1, <2>3, <3>1
  <2> QED BY <2>2, <2>3 DEF t
<1> HIDE DEF n
<1>5. \A i \in 1 .. n : /\ i + 1 \in 2 .. Len(jobs) /\ i + 1 \in 1 .. Len(jobs) /\ i + 1 # 1
  BY <1>2 DEF n
<1>6. ASSUME NEW i \in 1 .. n
      PROVE  /\ jobs'[i] # c /\ jobs'[i] \in Callers /\ call'[jobs'[i]] = call[jobs[i + 1]]
  <2>1. jobs[i + 1] # c /\ jobs[i + 1] \in Callers
    BY <1>1, <1>2, <1>5
  <2> QED BY <1>4, <2>1
<1>7. \A i \in 1 .. Len(jobs') :
        \/ i \in 1 .. n
        \/ i = n + 1 /\ jobs'[i] = c /\ call'[c].at \notin {"append", "idle"}
  BY <1>2, <1>4
<1>8. \A i \in 1 .. Len(jobs') : call'[jobs'[i]].at # "idle"
  BY <1>1, <1>5, <1>6, <1>7
<1>9. \A i \in 1 .. Len(jobs') : call'[jobs'[i]].at = "append" =>
        /\ i \in 1 .. n /\ call'[jobs'[i]] = call[jobs[i + 1]]
  BY <1>6, <1>7
<1>10. \A i \in 1 .. Len(jobs') : call'[jobs'[i]].at = "append" =>
         /\ store'.loaded /\ call'[jobs'[i]].bug \in 1 .. nextBug' - 1
         /\ IdsBelow(store'.events, call'[jobs'[i]].bug)
  BY <1>1, <1>5, <1>9
<1>11. ASSUME NEW i \in 1 .. Len(jobs'), NEW j \in 1 .. Len(jobs'), i < j,
              call'[jobs'[i]].at = "append", call'[jobs'[j]].at = "append"
       PROVE  call'[jobs'[i]].bug < call'[jobs'[j]].bug
  <2>1. /\ i \in 1 .. n /\ call'[jobs'[i]] = call[jobs[i + 1]]
        /\ j \in 1 .. n /\ call'[jobs'[j]] = call[jobs[j + 1]]
    BY <1>9, <1>11
  <2>2. i + 1 < j + 1 /\ i + 1 \in 1 .. Len(jobs) /\ j + 1 \in 1 .. Len(jobs)
    BY <1>2, <1>5, <1>11, <2>1
  <2> QED BY <1>1, <1>11, <2>1, <2>2
<1>12. ASSUME NEW i \in 1 .. Len(jobs'), NEW j \in 1 .. Len(jobs'), jobs'[i] = jobs'[j]
       PROVE  i = j
  <2>1. CASE i \in 1 .. n /\ j \in 1 .. n
    <3>1. jobs[i + 1] = jobs[j + 1]
      BY <1>4, <1>12, <2>1
    <3>2. i + 1 = j + 1
      BY <1>1, <1>5, <2>1, <3>1
    <3> QED BY <1>2, <2>1, <3>2
  <2> QED BY <1>6, <1>7, <1>12, <2>1
<1> QED BY <1>4, <1>8, <1>10, <1>11, <1>12 DEF QueueInOrder, IdsBelow

(* A new call is queued, perhaps with the next bug.                        *)
LEMMA QueueEnters ==
  ASSUME HistoryInv, NEW c \in Callers, call[c].at = "idle", jobs' = Append(jobs, c),
         call' \in [Callers -> Standings], call'[c].at # "idle",
         \A b \in Callers : b # c => call'[b] = call[b],
         nextBug' \in Nat, nextBug' >= nextBug,
         store.loaded => store'.loaded /\ store'.events = store.events,
         call'[c].at = "append" =>
           /\ store'.loaded /\ call'[c].bug \in nextBug .. nextBug' - 1
           /\ IdsBelow(store'.events, call'[c].bug)
  PROVE  QueueInOrder'
<1>1. /\ jobs \in Seq(Callers) /\ call \in [Callers -> Standings]
      /\ \A i \in 1 .. Len(jobs) : call[jobs[i]].at # "idle"
      /\ \A i, j \in 1 .. Len(jobs) : jobs[i] = jobs[j] => i = j
      /\ \A i \in 1 .. Len(jobs) : call[jobs[i]].at = "append" =>
           /\ store.loaded /\ call[jobs[i]].bug \in 1 .. nextBug - 1
           /\ IdsBelow(store.events, call[jobs[i]].bug)
      /\ \A i, j \in 1 .. Len(jobs) :
           i < j /\ call[jobs[i]].at = "append" /\ call[jobs[j]].at = "append" =>
             call[jobs[i]].bug < call[jobs[j]].bug
      /\ nextBug \in Nat /\ nextBug >= 1
  <2>1. nextBug \in Nat /\ nextBug >= 1
    BY LifecycleAssumption DEF HistoryInv, StoreTypes
  <2> QED BY <2>1 DEF HistoryInv, QueueInOrder
<1> DEFINE n == Len(jobs)
<1>2. /\ jobs' \in Seq(Callers) /\ Len(jobs') = n + 1 /\ jobs'[n + 1] = c /\ n \in Nat
      /\ \A i \in 1 .. n : jobs'[i] = jobs[i]
  BY <1>1
<1>3. \A i \in 1 .. n : jobs[i] # c /\ jobs[i] \in Callers
  BY <1>1
<1>4. \A i \in 1 .. n : jobs'[i] # c /\ call'[jobs'[i]] = call[jobs[i]]
  BY <1>2, <1>3
<1>5. \A i \in 1 .. Len(jobs') : i \in 1 .. n \/ i = n + 1
  BY <1>2
<1> HIDE DEF n
<1>6. \A i \in 1 .. Len(jobs') : call'[jobs'[i]].at # "idle"
  BY <1>1, <1>2, <1>4, <1>5 DEF n
<1>7. ASSUME NEW i \in 1 .. Len(jobs'), call'[jobs'[i]].at = "append"
      PROVE  /\ store'.loaded /\ call'[jobs'[i]].bug \in 1 .. nextBug' - 1
             /\ IdsBelow(store'.events, call'[jobs'[i]].bug)
  <2>1. CASE i \in 1 .. n
    <3>1. /\ store.loaded /\ call'[jobs'[i]].bug \in 1 .. nextBug - 1
          /\ IdsBelow(store.events, call'[jobs'[i]].bug)
      BY <1>1, <1>4, <1>7, <2>1 DEF n
    <3> QED BY <1>1, <3>1
  <2>2. CASE i = n + 1
    BY <1>1, <1>2, <1>7, <2>2
  <2> QED BY <1>5, <2>1, <2>2
<1>8. ASSUME NEW i \in 1 .. Len(jobs'), NEW j \in 1 .. Len(jobs'), i < j,
             call'[jobs'[i]].at = "append", call'[jobs'[j]].at = "append"
      PROVE  call'[jobs'[i]].bug < call'[jobs'[j]].bug
  <2>1. i \in 1 .. n
    BY <1>2, <1>8
  <2>2. CASE j \in 1 .. n
    BY <1>1, <1>4, <1>8, <2>1, <2>2 DEF n
  <2>3. CASE j = n + 1
    <3>1. call'[jobs'[i]].bug \in 1 .. nextBug - 1
      BY <1>1, <1>4, <1>8, <2>1 DEF n
    <3>2. call'[jobs'[j]].bug \in nextBug .. nextBug' - 1
      BY <1>2, <1>8, <2>3
    <3> QED BY <1>1, <3>1, <3>2
  <2> QED BY <1>5, <2>2, <2>3
<1>9. ASSUME NEW i \in 1 .. Len(jobs'), NEW j \in 1 .. Len(jobs'), jobs'[i] = jobs'[j]
      PROVE  i = j
  BY <1>1, <1>2, <1>4, <1>5, <1>9 DEF n
<1> QED BY <1>2, <1>6, <1>7, <1>8, <1>9 DEF QueueInOrder, IdsBelow

(* loadHistory gives a store that lacks nothing of what was saved, but for *)
(* what it set aside.                                                      *)
LEMMA LoadKeeps ==
  ASSUME HistoryInv, LoadHistory
  PROVE  /\ store' \in [loaded : BOOLEAN, events : Seq(Bugs)] /\ store'.loaded
         /\ history' \in [state : {"absent", "sound", "corrupt"}, events : Seq(Bugs)]
         /\ saved' \subseteq saved
         /\ store.loaded => store'.events = store.events
         /\ Rises(store'.events) /\ IdsBelow(store'.events, nextBug)
         /\ Rises(history'.events) /\ IdsBelow(history'.events, nextBug)
         /\ history'.state = "corrupt" => saved' \subseteq quarantine' /\ history'.events = << >>
         /\ \A b \in saved' : b \in ToSet(history'.events) \cup quarantine' \/ Outnumbered(b)
         /\ \A b \in saved' : b \in ToSet(store'.events) \cup quarantine' \/ Outnumbered(b)
<1> DEFINE empty == << >>
<1>1. empty \in Seq(Bugs) /\ Rises(empty) /\ IdsBelow(empty, nextBug)
  BY DEF Rises, IdsBelow
<1>2. /\ store.events \in Seq(Bugs) /\ history.events \in Seq(Bugs)
      /\ store \in [loaded : BOOLEAN, events : Seq(Bugs)]
      /\ history \in [state : {"absent", "sound", "corrupt"}, events : Seq(Bugs)]
      /\ Rises(store.events) /\ IdsBelow(store.events, nextBug)
      /\ Rises(history.events) /\ IdsBelow(history.events, nextBug)
      /\ history.state = "corrupt" => saved \subseteq quarantine /\ history.events = empty
      /\ \A b \in saved : b \in ToSet(history.events) \cup quarantine \/ Outnumbered(b)
      /\ store.loaded =>
           \A b \in saved : b \in ToSet(store.events) \cup quarantine \/ Outnumbered(b)
  BY DEF HistoryInv, StoreTypes, StoreInOrder, StoreKeeps
<1>3. Absent.state = "absent" /\ Absent.events = empty
      /\ Absent \in [state : {"absent", "sound", "corrupt"}, events : Seq(Bugs)]
  BY <1>1 DEF Absent
<1> HIDE DEF empty
<1>4. CASE store.loaded /\ UNCHANGED <<store, history, quarantine, saved>>
  BY <1>2, <1>4 DEF empty
<1>5. CASE /\ ~store.loaded /\ history.state # "corrupt"
           /\ store' = [loaded |-> TRUE, events |-> history.events]
           /\ UNCHANGED <<history, quarantine, saved>>
  <2>1. /\ store' \in [loaded : BOOLEAN, events : Seq(Bugs)] /\ store'.loaded
        /\ store'.events = history.events
    BY <1>2, <1>5
  <2> QED BY <1>2, <1>5, <2>1 DEF empty
<1>6. ASSUME ~store.loaded, store' = [loaded |-> TRUE, events |-> empty]
      PROVE  /\ store' \in [loaded : BOOLEAN, events : Seq(Bugs)] /\ store'.loaded
             /\ store'.events = empty
             /\ Rises(store'.events) /\ IdsBelow(store'.events, nextBug)
  <2>1. /\ store' \in [loaded : BOOLEAN, events : Seq(Bugs)] /\ store'.loaded
        /\ store'.events = empty
    BY <1>1, <1>6
  <2> QED BY <1>1, <2>1
<1>7. CASE /\ ~store.loaded /\ history.state = "corrupt"
           /\ store' = [loaded |-> TRUE, events |-> empty]
           /\ history' = Absent \/ UNCHANGED history
           /\ UNCHANGED <<quarantine, saved>>
  <2>1. /\ history' \in [state : {"absent", "sound", "corrupt"}, events : Seq(Bugs)]
        /\ history'.events = empty
    BY <1>2, <1>3, <1>7
  <2>2. Rises(history'.events) /\ IdsBelow(history'.events, nextBug)
    BY <1>1, <2>1
  <2>3. saved' \subseteq quarantine' /\ saved' = saved
    BY <1>2, <1>7
  <2> QED BY <1>6, <1>7, <2>1, <2>2, <2>3 DEF empty
<1>8. CASE /\ ~store.loaded /\ store' = [loaded |-> TRUE, events |-> empty]
           /\ history' = Absent /\ UNCHANGED saved
           /\ quarantine' = quarantine \cup ToSet(history.events)
  <2>1. /\ history' \in [state : {"absent", "sound", "corrupt"}, events : Seq(Bugs)]
        /\ history'.events = empty /\ history'.state # "corrupt"
    BY <1>3, <1>8
  <2>2. Rises(history'.events) /\ IdsBelow(history'.events, nextBug)
    BY <1>1, <2>1
  <2>3. \A b \in saved' : b \in quarantine' \/ Outnumbered(b)
    BY <1>2, <1>8
  <2> QED BY <1>6, <1>8, <2>1, <2>2, <2>3
<1>9. CASE /\ ~store.loaded /\ history.state = "sound"
           /\ store' = [loaded |-> TRUE, events |-> empty]
           /\ UNCHANGED <<history, quarantine>> /\ saved' = saved \ ToSet(history.events)
  <2>1. saved' \subseteq saved /\ \A b \in saved' : b \in quarantine' \/ Outnumbered(b)
    BY <1>2, <1>9
  <2> QED BY <1>2, <1>6, <1>9, <2>1
<1> QED BY <1>4, <1>5, <1>7, <1>8, <1>9 DEF LoadHistory, empty

(* Where a caller stands next.                                             *)
LEMMA CallMoves ==
  ASSUME call \in [Callers -> Standings], NEW c \in Callers, NEW to \in Standings,
         call' = [call EXCEPT ![c] = to]
  PROVE  /\ call' \in [Callers -> Standings] /\ call'[c] = to
         /\ \A b \in Callers : b # c => call'[b] = call[b]
OBVIOUS

LEMMA StandingMoves ==
  ASSUME NEW here \in Standings, NEW to \in Places
  PROVE  /\ [here EXCEPT !.at = to] \in Standings
         /\ [here EXCEPT !.at = to].at = to
BY DEF Standings

LEMMA AwaitMoves ==
  ASSUME call \in [Callers -> Standings], NEW c \in Callers, NEW to \in Places,
         call' = [call EXCEPT ![c].at = to]
  PROVE  /\ call' \in [Callers -> Standings] /\ call'[c].at = to
         /\ \A b \in Callers : b # c => call'[b] = call[b]
<1> DEFINE next == [call[c] EXCEPT !.at = to]
<1>1. next \in Standings /\ next.at = to
  BY StandingMoves
<1>2. call' = [call EXCEPT ![c] = next]
  OBVIOUS
<1> HIDE DEF next
<1> QED BY <1>1, <1>2, CallMoves

LEMMA IdleIs == Idle \in Standings /\ Idle.at = "idle"
<1>1. 0 \in 0 .. MaxBugs
  <2>1. MaxBugs \in Nat
    BY LifecycleAssumption
  <2> QED BY <2>1
<1> QED BY <1>1 DEF Idle, Standings, Places

(* A job of a call, whatever it did to the store, leaves the queue as it   *)
(* should be.                                                              *)
LEMMA JobDone ==
  ASSUME HistoryInv, NEW c \in Callers, NEW at, Runs(c, at),
         Returns(c) \/ \E to \in Places : to \notin {"append", "idle"} /\ Awaits(c, to),
         nextBug' = nextBug,
         \A i \in 2 .. Len(jobs) : call[jobs[i]].at = "append" =>
           store'.loaded /\ IdsBelow(store'.events, call[jobs[i]].bug)
  PROVE  QueueInOrder'
<1>1. jobs # << >> /\ Head(jobs) = c /\ call \in [Callers -> Standings]
  BY DEF Runs, HistoryInv, QueueInOrder
<1>2. CASE Returns(c)
  <2>1. jobs' = Tail(jobs) /\ call' = [call EXCEPT ![c] = Idle]
    BY <1>2 DEF Returns
  <2>2. /\ call' \in [Callers -> Standings]
        /\ \A b \in Callers : b # c => call'[b] = call[b]
    BY <1>1, <2>1, IdleIs, CallMoves
  <2> QED BY <1>1, <2>1, <2>2, QueueMoves
<1>3. ASSUME NEW to \in Places, to \notin {"append", "idle"}, Awaits(c, to)
      PROVE  QueueInOrder'
  <2>1. jobs' = Append(Tail(jobs), c) /\ call' = [call EXCEPT ![c].at = to]
    BY <1>3 DEF Awaits
  <2>2. /\ call' \in [Callers -> Standings] /\ call'[c].at = to
        /\ \A b \in Callers : b # c => call'[b] = call[b]
    BY <1>1, <2>1, AwaitMoves
  <2> QED BY <1>1, <1>3, <2>1, <2>2, QueueMoves
<1> QED BY <1>2, <1>3

(* The jobs that wait find the store as it was.                            *)
LEMMA WaitingJobs ==
  ASSUME HistoryInv, store.loaded => store'.loaded /\ store'.events = store.events
  PROVE  \A i \in 2 .. Len(jobs) : call[jobs[i]].at = "append" =>
           store'.loaded /\ IdsBelow(store'.events, call[jobs[i]].bug)
<1> SUFFICES ASSUME NEW i \in 2 .. Len(jobs), call[jobs[i]].at = "append"
             PROVE  store'.loaded /\ IdsBelow(store'.events, call[jobs[i]].bug)
  OBVIOUS
<1>1. i \in 1 .. Len(jobs)
  BY DEF HistoryInv, QueueInOrder
<1>2. store.loaded /\ IdsBelow(store.events, call[jobs[i]].bug)
  BY <1>1 DEF HistoryInv, QueueInOrder
<1> QED BY <1>2

(* Whatever else happens: the store and the history stand still.           *)
LEMMA StoreStands ==
  ASSUME HistoryInv, UNCHANGED <<store, history, quarantine, saved, nextBug>>
  PROVE  StoreTypes' /\ StoreInOrder' /\ StoreKeeps'
<1>1. StoreTypes' /\ StoreInOrder'
  BY DEF HistoryInv, StoreTypes, StoreInOrder, Rises, IdsBelow
<1>2. \A b : Outnumbered(b)' <=> Outnumbered(b)
  BY DEF Outnumbered
<1> QED BY <1>1, <1>2 DEF HistoryInv, StoreKeeps

(* A new bug, first in memory, then in the file.                           *)
LEMMA AppendKeeps ==
  ASSUME HistoryInv, NEW c \in Callers, AppendEvent(c)
  PROVE  HistoryInv'
<1> DEFINE bug == call[c].bug
<1> DEFINE all == Append(store.events, bug)
<1> DEFINE events == Newest(all)
<1>1. /\ Runs(c, "append") /\ store' = [store EXCEPT !.events = events]
      /\ SaveHistory(events) /\ Awaits(c, "saved") /\ nextBug' = nextBug
      /\ quarantine' = quarantine
  BY DEF AppendEvent
<1>2. /\ StoreTypes /\ StoreInOrder /\ StoreKeeps /\ QueueInOrder
      /\ Len(jobs) \in Nat /\ Len(jobs) >= 1 /\ jobs[1] = c /\ call[c].at = "append"
  BY <1>1 DEF HistoryInv, QueueInOrder, Runs
<1>3. nextBug \in Nat /\ nextBug <= MaxBugs + 1 /\ MaxBugs \in Nat
  BY <1>2, LifecycleAssumption DEF StoreTypes
<1>4. store.loaded /\ bug \in 1 .. nextBug - 1 /\ IdsBelow(store.events, bug)
  BY <1>2 DEF QueueInOrder
<1>5. bug \in Bugs /\ bug < nextBug /\ store.events \in Seq(Bugs)
  BY <1>2, <1>3, <1>4 DEF Bugs, StoreTypes
<1>6. \A i \in 2 .. Len(jobs) : call[jobs[i]].at = "append" =>
        bug < call[jobs[i]].bug /\ IdsBelow(store.events, call[jobs[i]].bug)
  BY <1>2 DEF QueueInOrder
<1> HIDE DEF bug
<1>7. /\ all \in Seq(Bugs) /\ Len(all) = Len(store.events) + 1
      /\ all[Len(store.events) + 1] = bug
      /\ \A i \in 1 .. Len(store.events) : all[i] = store.events[i]
      /\ Len(store.events) \in Nat
  BY <1>5
<1> HIDE DEF all
<1>8. Rises(all)
  <2> SUFFICES ASSUME NEW i \in 1 .. Len(all), NEW j \in 1 .. Len(all), i < j
               PROVE  all[i] < all[j]
    BY DEF Rises
  <2>1. i \in 1 .. Len(store.events) /\ all[i] = store.events[i]
    BY <1>7
  <2>2. CASE j \in 1 .. Len(store.events)
    <3>1. store.events[i] < store.events[j]
      BY <1>2, <2>1, <2>2 DEF StoreInOrder, Rises
    <3> QED BY <1>7, <2>1, <2>2, <3>1
  <2>3. CASE j = Len(store.events) + 1
    BY <1>4, <1>7, <2>1, <2>3 DEF IdsBelow
  <2> QED BY <1>7, <2>2, <2>3
<1>9. ASSUME NEW limit \in Nat, IdsBelow(store.events, limit), bug < limit
      PROVE  IdsBelow(all, limit)
  BY <1>7, <1>9 DEF IdsBelow
<1>10. /\ events \in Seq(Bugs) /\ Len(events) <= Len(all) /\ Len(events) \in Nat
       /\ Len(all) > Len(events) => Len(events) >= Capacity
       /\ \A i \in 1 .. Len(events) : events[i] = all[Len(all) - Len(events) + i]
  BY <1>7, NewestIs
<1> HIDE DEF events
<1>11. \A i \in 1 .. Len(events) : Len(all) - Len(events) + i \in 1 .. Len(all)
  BY <1>7, <1>10
<1>12. Rises(events)
  <2> SUFFICES ASSUME NEW i \in 1 .. Len(events), NEW j \in 1 .. Len(events), i < j
               PROVE  events[i] < events[j]
    BY DEF Rises
  <2> DEFINE k == Len(all) - Len(events)
  <2>1. k + i \in 1 .. Len(all) /\ k + j \in 1 .. Len(all) /\ k + i < k + j
    BY <1>7, <1>10, <1>11
  <2> QED BY <1>8, <1>10, <2>1 DEF Rises
<1>13. \A limit : IdsBelow(all, limit) => IdsBelow(events, limit)
  BY <1>10, <1>11 DEF IdsBelow
<1>14. IdsBelow(all, nextBug)
  BY <1>2, <1>3, <1>5, <1>9 DEF StoreInOrder
<1>15. /\ store' \in [loaded : BOOLEAN, events : Seq(Bugs)] /\ store'.loaded
       /\ store'.events = events
  BY <1>1, <1>2, <1>4, <1>10 DEF StoreTypes
<1>16. \A b \in saved : b \in ToSet(events) \cup quarantine \/ Outnumbered(b)
  <2> SUFFICES ASSUME NEW b \in saved, ~Outnumbered(b), b \notin quarantine
               PROVE  b \in ToSet(events)
    OBVIOUS
  <2>1. b \in ToSet(store.events)
    BY <1>2, <1>4 DEF StoreKeeps
  <2>2. PICK i \in 1 .. Len(store.events) : store.events[i] = b
    BY <1>5, <2>1 DEF ToSet
  <2>3. i \in 1 .. Len(all) /\ all[i] = b
    BY <1>7, <2>2
  <2>6. Len(all) \in Nat /\ Len(events) \in Nat /\ i \in Nat /\ i <= Len(all)
    BY <1>7, <1>10, <2>3
  <2> DEFINE k == i - (Len(all) - Len(events))
  <2>4. CASE k >= 1
    <3>1. k \in 1 .. Len(events) /\ Len(all) - Len(events) + k = i
      BY <2>4, <2>6
    <3>2. events[k] = b
      BY <1>10, <2>3, <3>1
    <3> QED BY <1>10, <3>1, <3>2 DEF ToSet
  <2>5. CASE k < 1
    <3>1. Len(all) - i >= Len(events) /\ Len(all) > Len(events)
      BY <2>5, <2>6
    <3>2. Len(all) - i >= Capacity
      BY <1>7, <1>10, <2>3, <3>1, LifecycleAssumption
    <3> QED BY <1>2, <1>7, <1>8, <1>14, <2>3, <3>2, DroppedIsDisplaced
  <2>7. k >= 1 \/ k < 1
    BY <2>6
  <2> QED BY <2>4, <2>5, <2>7
<1>17. \A b : Outnumbered(b)' <=> Outnumbered(b)
  BY <1>1 DEF Outnumbered
<1>18. QueueInOrder'
  <2>1. \A i \in 2 .. Len(jobs) : call[jobs[i]].at = "append" =>
          store'.loaded /\ IdsBelow(store'.events, call[jobs[i]].bug)
    <3> SUFFICES ASSUME NEW i \in 2 .. Len(jobs), call[jobs[i]].at = "append"
                 PROVE  IdsBelow(events, call[jobs[i]].bug)
      BY <1>15
    <3>1. call[jobs[i]].bug \in Nat
      BY <1>2 DEF QueueInOrder
    <3> QED BY <1>6, <1>9, <1>13, <3>1
  <2>2. \E to \in Places : to \notin {"append", "idle"} /\ Awaits(c, to)
    <3>1. "saved" \in Places /\ "saved" \notin {"append", "idle"}
      BY DEF Places
    <3> QED BY <1>1, <3>1
  <2>3. Runs(c, "append") /\ nextBug' = nextBug
    BY <1>1
  <2> QED BY <2>1, <2>2, <2>3, JobDone
<1>19. CASE /\ history' = [state |-> "sound", events |-> events]
            /\ saved' = saved \cup ToSet(events)
  <2>1. /\ history' \in [state : {"absent", "sound", "corrupt"}, events : Seq(Bugs)]
        /\ history'.state = "sound" /\ history'.events = events
    BY <1>10, <1>19
  <2>2. ToSet(events) \subseteq Bugs
    BY <1>10 DEF ToSet
  <2>3. StoreTypes'
    BY <1>1, <1>2, <1>15, <1>19, <2>1, <2>2 DEF StoreTypes, Bugs
  <2>4. StoreInOrder'
    BY <1>1, <1>12, <1>13, <1>14, <1>15, <2>1 DEF StoreInOrder, Rises, IdsBelow
  <2>5. \A b \in saved' : b \in ToSet(events) \cup quarantine' \/ Outnumbered(b)'
    BY <1>1, <1>16, <1>17, <1>19
  <2>6. ToSet(history.events)' = ToSet(events) /\ ToSet(store.events)' = ToSet(events)
    BY <1>15, <2>1
  <2>7. StoreKeeps'
    BY <2>1, <2>5, <2>6 DEF StoreKeeps
  <2> QED BY <1>18, <2>3, <2>4, <2>7 DEF HistoryInv
<1>20. CASE UNCHANGED <<history, saved>>
  <2>1. StoreTypes'
    BY <1>1, <1>2, <1>15, <1>20 DEF StoreTypes, Bugs
  <2>2. StoreInOrder'
    BY <1>1, <1>2, <1>12, <1>13, <1>14, <1>15, <1>20 DEF StoreInOrder, Rises, IdsBelow
  <2>3. ToSet(history.events)' = ToSet(history.events) /\ ToSet(store.events)' = ToSet(events)
    BY <1>15, <1>20
  <2>4. StoreKeeps'
    BY <1>1, <1>2, <1>16, <1>17, <1>20, <2>3 DEF StoreKeeps
  <2> QED BY <1>18, <2>1, <2>2, <2>4 DEF HistoryInv
<1> QED BY <1>1, <1>19, <1>20 DEF SaveHistory

LEMMA HistoryStart == LifecycleInit => HistoryInv
<1> SUFFICES ASSUME LifecycleInit PROVE HistoryInv
  OBVIOUS
<1> USE LifecycleAssumption DEF LifecycleInit
<1> DEFINE empty == << >>
<1>1. empty \in Seq(Bugs) /\ empty \in Seq(Callers) /\ Len(empty) = 0
  OBVIOUS
<1>2. store.events = empty /\ history.events = empty /\ jobs = empty /\ saved = {}
  BY DEF NotLoaded, Absent
<1>3. StoreTypes
  <2>1. /\ store \in [loaded : BOOLEAN, events : Seq(Bugs)]
        /\ history \in [state : {"absent", "sound", "corrupt"}, events : Seq(Bugs)]
    BY <1>1 DEF NotLoaded, Absent
  <2> QED BY <2>1 DEF StoreTypes
<1>4. call \in [Callers -> Standings]
  BY IdleIs
<1> HIDE DEF empty
<1>5. StoreInOrder
  BY <1>1, <1>2 DEF StoreInOrder, Rises, IdsBelow
<1>6. QueueInOrder
  BY <1>1, <1>2, <1>4 DEF QueueInOrder
<1>7. StoreKeeps
  BY <1>1, <1>2 DEF StoreKeeps, Absent
<1> QED BY <1>3, <1>5, <1>6, <1>7 DEF HistoryInv

(* A job that is no matter of the store.                                   *)
LEMMA OtherJobs ==
  ASSUME HistoryInv, NEW c \in Callers, NEW at, Runs(c, at),
         Returns(c) \/ \E to \in Places : to \notin {"append", "idle"} /\ Awaits(c, to),
         UNCHANGED <<store, history, quarantine, saved, nextBug>>
  PROVE  HistoryInv'
<1>1. nextBug' = nextBug /\ (store.loaded => store'.loaded /\ store'.events = store.events)
  OBVIOUS
<1>2. \A i \in 2 .. Len(jobs) : call[jobs[i]].at = "append" =>
        store'.loaded /\ IdsBelow(store'.events, call[jobs[i]].bug)
  BY <1>1, WaitingJobs
<1>3. QueueInOrder'
  BY <1>1, <1>2, JobDone
<1> QED BY <1>3, StoreStands DEF HistoryInv

(* A new call.                                                             *)
LEMMA NewStanding ==
  ASSUME HistoryInv, NEW c \in Callers, NEW to \in Places, NEW b \in 0 .. MaxBugs, Enters(c, to, b)
  PROVE  /\ jobs' = Append(jobs, c) /\ call' \in [Callers -> Standings]
         /\ call'[c].at = to /\ call'[c].bug = b
         /\ \A d \in Callers : d # c => call'[d] = call[d]
<1> DEFINE here == [at |-> to, bug |-> b, n |-> 0]
<1>1. here \in Standings /\ here.at = to /\ here.bug = b
  BY DEF Standings
<1>2. jobs' = Append(jobs, c) /\ call' = [call EXCEPT ![c] = here]
  BY DEF Enters
<1>3. call \in [Callers -> Standings]
  BY DEF HistoryInv, QueueInOrder
<1> HIDE DEF here
<1> QED BY <1>1, <1>2, <1>3, CallMoves

LEMMA OtherCalls ==
  ASSUME HistoryInv, NEW c \in Callers, call[c].at = "idle",
         NEW to \in Places, to \notin {"append", "idle"}, Enters(c, to, 0),
         UNCHANGED <<store, history, quarantine, saved, nextBug>>
  PROVE  HistoryInv'
<1>1. 0 \in 0 .. MaxBugs
  <2>1. MaxBugs \in Nat
    BY LifecycleAssumption
  <2> QED BY <2>1
<1>2. /\ jobs' = Append(jobs, c) /\ call' \in [Callers -> Standings]
      /\ call'[c].at = to
      /\ \A d \in Callers : d # c => call'[d] = call[d]
  BY <1>1, NewStanding
<1>3. nextBug' \in Nat /\ nextBug' >= nextBug
  <2>1. nextBug \in Nat
    BY LifecycleAssumption DEF HistoryInv, StoreTypes
  <2> QED BY <2>1
<1>4. store.loaded => store'.loaded /\ store'.events = store.events
  OBVIOUS
<1>5. QueueInOrder'
  BY <1>2, <1>3, <1>4, QueueEnters
<1> QED BY <1>5, StoreStands DEF HistoryInv

(* A report of a bug, which may load the history.                          *)
LEMMA CaptureKeeps ==
  ASSUME HistoryInv, NEW c \in Callers, CaptureBug(c)
  PROVE  HistoryInv'
<1>1. /\ call[c].at = "idle" /\ nextBug <= MaxBugs /\ nextBug' = nextBug + 1
      /\ LoadHistory /\ Enters(c, "append", nextBug)
  BY DEF CaptureBug
<1>2. nextBug \in Nat /\ MaxBugs \in Nat /\ nextBug >= 1
  BY LifecycleAssumption DEF HistoryInv, StoreTypes
<1>3. /\ store' \in [loaded : BOOLEAN, events : Seq(Bugs)] /\ store'.loaded
      /\ history' \in [state : {"absent", "sound", "corrupt"}, events : Seq(Bugs)]
      /\ saved' \subseteq saved
      /\ store.loaded => store'.events = store.events
      /\ Rises(store'.events) /\ IdsBelow(store'.events, nextBug)
      /\ Rises(history'.events) /\ IdsBelow(history'.events, nextBug)
      /\ history'.state = "corrupt" => saved' \subseteq quarantine' /\ history'.events = << >>
      /\ \A b \in saved' : b \in ToSet(history'.events) \cup quarantine' \/ Outnumbered(b)
      /\ \A b \in saved' : b \in ToSet(store'.events) \cup quarantine' \/ Outnumbered(b)
  BY <1>1, LoadKeeps
<1>4. /\ jobs' = Append(jobs, c) /\ call' \in [Callers -> Standings]
      /\ call'[c].at = "append" /\ call'[c].bug = nextBug
      /\ \A d \in Callers : d # c => call'[d] = call[d]
  <2>1. "append" \in Places /\ nextBug \in 0 .. MaxBugs
    BY <1>1, <1>2 DEF Places
  <2> QED BY <1>1, <2>1, NewStanding
<1>5. QueueInOrder'
  <2>1. nextBug' \in Nat /\ nextBug' >= nextBug /\ nextBug \in nextBug .. nextBug' - 1
    BY <1>1, <1>2
  <2>2. IdsBelow(store'.events, call'[c].bug) /\ call'[c].bug \in nextBug .. nextBug' - 1
    BY <1>3, <1>4, <2>1
  <2> QED BY <1>1, <1>3, <1>4, <2>1, <2>2, QueueEnters
<1>6. \A b \in saved : Outnumbered(b) => Outnumbered(b)'
  <2>1. StoreTypes /\ nextBug' \in Nat /\ nextBug' >= nextBug /\ saved \subseteq Bugs
    BY <1>1, <1>2 DEF HistoryInv, StoreTypes
  <2> QED BY <2>1, DisplacedForGood
<1>7. \A s \in Seq(Bugs) : IdsBelow(s, nextBug) => IdsBelow(s, nextBug + 1)
  <2> SUFFICES ASSUME NEW s \in Seq(Bugs), IdsBelow(s, nextBug) PROVE IdsBelow(s, nextBug + 1)
    OBVIOUS
  <2>1. ASSUME NEW i \in 1 .. Len(s)
        PROVE  s[i] < nextBug + 1
    <3>1. s[i] \in Bugs /\ s[i] < nextBug
      BY DEF IdsBelow
    <3> QED BY <1>2, <3>1 DEF Bugs
  <2> QED BY <2>1 DEF IdsBelow
<1>8. store'.events \in Seq(Bugs) /\ history'.events \in Seq(Bugs)
  BY <1>3
<1>9. StoreTypes'
  BY <1>1, <1>2, <1>3 DEF HistoryInv, StoreTypes, Bugs
<1>10. StoreInOrder'
  <2>1. IdsBelow(store'.events, nextBug') /\ IdsBelow(history'.events, nextBug')
    BY <1>1, <1>3, <1>7, <1>8
  <2> QED BY <1>3, <2>1 DEF StoreInOrder, Rises, IdsBelow
<1>11. StoreKeeps'
  <2>1. ToSet(history.events)' = ToSet(history'.events) /\ ToSet(store.events)' = ToSet(store'.events)
    OBVIOUS
  <2> QED BY <1>3, <1>6, <2>1 DEF StoreKeeps
<1> QED BY <1>5, <1>9, <1>10, <1>11 DEF HistoryInv

(* start loads the history, when no capture has.                           *)
LEMMA StartKeeps ==
  ASSUME HistoryInv, NEW c \in Callers, StartLoads(c)
  PROVE  HistoryInv'
<1>1. Runs(c, "watched") /\ LoadHistory /\ Awaits(c, "loaded") /\ nextBug' = nextBug
  BY DEF StartLoads
<1>2. /\ store' \in [loaded : BOOLEAN, events : Seq(Bugs)] /\ store'.loaded
      /\ history' \in [state : {"absent", "sound", "corrupt"}, events : Seq(Bugs)]
      /\ saved' \subseteq saved
      /\ store.loaded => store'.events = store.events
      /\ Rises(store'.events) /\ IdsBelow(store'.events, nextBug)
      /\ Rises(history'.events) /\ IdsBelow(history'.events, nextBug)
      /\ history'.state = "corrupt" => saved' \subseteq quarantine' /\ history'.events = << >>
      /\ \A b \in saved' : b \in ToSet(history'.events) \cup quarantine' \/ Outnumbered(b)
      /\ \A b \in saved' : b \in ToSet(store'.events) \cup quarantine' \/ Outnumbered(b)
  BY <1>1, LoadKeeps
<1>3. QueueInOrder'
  <2>1. \A i \in 2 .. Len(jobs) : call[jobs[i]].at = "append" =>
          store'.loaded /\ IdsBelow(store'.events, call[jobs[i]].bug)
    BY <1>2, WaitingJobs
  <2>2. "loaded" \in Places /\ "loaded" \notin {"append", "idle"}
    BY DEF Places
  <2> QED BY <1>1, <2>1, <2>2, JobDone
<1>4. \A b : Outnumbered(b)' <=> Outnumbered(b)
  BY <1>1 DEF Outnumbered
<1>5. StoreTypes'
  BY <1>1, <1>2 DEF HistoryInv, StoreTypes, Bugs
<1>6. StoreInOrder'
  BY <1>1, <1>2 DEF StoreInOrder, Rises, IdsBelow
<1>7. StoreKeeps'
  <2>1. ToSet(history.events)' = ToSet(history'.events) /\ ToSet(store.events)' = ToSet(store'.events)
    OBVIOUS
  <2> QED BY <1>2, <1>4, <2>1 DEF StoreKeeps
<1> QED BY <1>3, <1>5, <1>6, <1>7 DEF HistoryInv

(* One hook more.                                                          *)
LEMMA HookKeeps ==
  ASSUME HistoryInv, NEW c \in Callers, InstallHook(c)
  PROVE  HistoryInv'
<1> DEFINE to == IF call[c].n + 1 = HookPoints THEN "hooked" ELSE call[c].at
<1> DEFINE here == [call[c] EXCEPT !.n = @ + 1, !.at = to]
<1>1. /\ jobs # << >> /\ Head(jobs) = c /\ jobs' = Append(Tail(jobs), c)
      /\ call[c].at = "hooking" /\ UNCHANGED <<store, history, quarantine, saved, nextBug>>
      /\ call' = [call EXCEPT ![c].n = @ + 1, ![c].at = to]
  BY DEF InstallHook, Runs, process, disk
<1>2. call \in [Callers -> Standings] /\ call[c] \in Standings
  BY DEF HistoryInv, QueueInOrder
<1>3. call' = [call EXCEPT ![c] = here]
  BY <1>1, <1>2
<1>4. here \in Standings /\ here.at = to
  <2>1. to \in Places /\ call[c].n + 1 \in Nat
    BY <1>1, <1>2 DEF Places, Standings
  <2>2. ASSUME NEW from \in Standings, NEW m \in Nat, NEW p \in Places
        PROVE  /\ [from EXCEPT !.n = m, !.at = p] \in Standings
               /\ [from EXCEPT !.n = m, !.at = p].at = p
    BY DEF Standings
  <2> HIDE DEF to
  <2> QED BY <1>2, <2>1, <2>2
<1>5. to \notin {"append", "idle"}
  BY <1>1
<1> HIDE DEF to, here
<1>6. /\ call' \in [Callers -> Standings] /\ call'[c].at \notin {"append", "idle"}
      /\ \A b \in Callers : b # c => call'[b] = call[b]
  BY <1>2, <1>3, <1>4, <1>5, CallMoves
<1>7. \A i \in 2 .. Len(jobs) : call[jobs[i]].at = "append" =>
        store'.loaded /\ IdsBelow(store'.events, call[jobs[i]].bug)
  BY <1>1, WaitingJobs
<1>8. QueueInOrder'
  BY <1>1, <1>6, <1>7, QueueMoves
<1> QED BY <1>1, <1>8, StoreStands DEF HistoryInv

(* The process dies, or the file is damaged while no process has it.       *)
LEMMA MishapKeeps ==
  ASSUME HistoryInv, Crash \/ DamageHistory
  PROVE  HistoryInv'
<1> DEFINE empty == << >>
<1>1. empty \in Seq(Bugs) /\ empty \in Seq(Callers) /\ Len(empty) = 0
  OBVIOUS
<1>2. StoreTypes /\ QueueInOrder /\ StoreInOrder /\ StoreKeeps
  BY DEF HistoryInv
<1>3. CASE Crash
  <2>1. /\ store' = NotLoaded /\ jobs' = empty /\ call' = [c \in Callers |-> Idle]
        /\ UNCHANGED <<history, quarantine, saved, nextBug>>
    BY <1>3 DEF Crash
  <2>2. store' \in [loaded : BOOLEAN, events : Seq(Bugs)] /\ ~store'.loaded /\ store'.events = empty
    BY <1>1, <2>1 DEF NotLoaded
  <2>3. call' \in [Callers -> Standings]
    BY <2>1, IdleIs
  <2> HIDE DEF empty
  <2>4. StoreTypes'
    BY <1>2, <2>1, <2>2 DEF StoreTypes, Bugs
  <2>5. QueueInOrder'
    BY <1>1, <2>1, <2>3 DEF QueueInOrder
  <2>6. StoreInOrder'
    BY <1>1, <1>2, <2>1, <2>2 DEF StoreInOrder, Rises, IdsBelow
  <2>7. \A b : Outnumbered(b)' <=> Outnumbered(b)
    BY <2>1 DEF Outnumbered
  <2>8. StoreKeeps'
    BY <1>2, <2>1, <2>2, <2>7 DEF StoreKeeps
  <2> QED BY <2>4, <2>5, <2>6, <2>8 DEF HistoryInv
<1>4. CASE DamageHistory
  <2>1. /\ ~store.loaded /\ history' = [state |-> "corrupt", events |-> empty]
        /\ saved' = saved \cap quarantine /\ UNCHANGED <<store, quarantine, jobs, call, nextBug>>
    BY <1>4 DEF DamageHistory, process
  <2>2. /\ history' \in [state : {"absent", "sound", "corrupt"}, events : Seq(Bugs)]
        /\ history'.events = empty
    BY <1>1, <2>1
  <2>3. QueueInOrder'
    BY <1>2, <2>1 DEF QueueInOrder, IdsBelow
  <2>4. StoreKeeps'
    BY <2>1, <2>2 DEF StoreKeeps
  <2> HIDE DEF empty
  <2>5. StoreTypes'
    BY <1>2, <2>1, <2>2 DEF StoreTypes, Bugs
  <2>6. StoreInOrder'
    BY <1>1, <1>2, <2>1, <2>2 DEF StoreInOrder, Rises, IdsBelow
  <2> QED BY <2>3, <2>4, <2>5, <2>6 DEF HistoryInv
<1> QED BY <1>3, <1>4

LEMMA HistoryStep == HistoryInv /\ [LifecycleNext]_lifecycleVars => HistoryInv'
<1> SUFFICES ASSUME HistoryInv, [LifecycleNext]_lifecycleVars PROVE HistoryInv'
  OBVIOUS
<1>1. ASSUME UNCHANGED <<store, history, quarantine, saved, nextBug, jobs, call>>
      PROVE  HistoryInv'
  <2>1. QueueInOrder'
    BY <1>1 DEF HistoryInv, QueueInOrder, IdsBelow
  <2> QED BY <1>1, <2>1, StoreStands DEF HistoryInv
<1>2. ASSUME NEW c \in Callers, Start(c)
      PROVE  HistoryInv'
  <2>1. call[c].at = "idle" /\ UNCHANGED <<store, history, quarantine, saved, nextBug>>
    BY <1>2 DEF Start, process, disk
  <2>2. UNCHANGED <<jobs, call>> \/ Enters(c, "checked", 0)
    BY <1>2 DEF Start
  <2>3. "checked" \in Places
    BY DEF Places
  <2> QED BY <1>1, <2>1, <2>2, <2>3, OtherCalls
<1>3. ASSUME NEW c \in Callers, Stop(c)
      PROVE  HistoryInv'
  <2>1. /\ call[c].at = "idle" /\ UNCHANGED <<store, history, quarantine, saved, nextBug>>
        /\ Enters(c, "uncaptured", 0)
    BY <1>3 DEF Stop, disk
  <2>2. "uncaptured" \in Places
    BY DEF Places
  <2> QED BY <2>1, <2>2, OtherCalls
<1>4. ASSUME NEW c \in Callers, Resume(c), ~StartLoads(c), ~AppendEvent(c), ~InstallHook(c)
      PROVE  HistoryInv'
  <2>1. UNCHANGED <<store, history, quarantine, saved, nextBug>>
    BY <1>4 DEF Resume, StartChecked, StartRefused, StartCapture, StartWatchdog,
                StartFillsWorkingSet, StopWatchdog, StopReports, StopEnds, EventSaved,
                DetectPatterns, MutationBlocked, AttemptFix, process, disk
  <2>2. \E at : /\ Runs(c, at)
                /\ \/ Returns(c)
                   \/ \E to \in Places : to \notin {"append", "idle"} /\ Awaits(c, to)
    <3> USE DEF Places
    <3>1. CASE StartChecked(c)
      BY <3>1 DEF StartChecked
    <3>2. CASE StartRefused(c)
      BY <3>2 DEF StartRefused
    <3>3. CASE StartCapture(c)
      <4>1. Runs(c, "alerts") /\ (Awaits(c, "hooked") \/ Awaits(c, "hooking"))
        BY <3>3 DEF StartCapture
      <4> QED BY <4>1
    <3>4. CASE StartWatchdog(c)
      BY <3>4 DEF StartWatchdog
    <3>5. CASE StartFillsWorkingSet(c)
      BY <3>5 DEF StartFillsWorkingSet
    <3>6. CASE StopWatchdog(c)
      BY <3>6 DEF StopWatchdog
    <3>7. CASE StopReports(c)
      BY <3>7 DEF StopReports
    <3>8. CASE StopEnds(c)
      BY <3>8 DEF StopEnds
    <3>9. CASE EventSaved(c)
      BY <3>9 DEF EventSaved
    <3>10. CASE DetectPatterns(c)
      BY <3>10 DEF DetectPatterns
    <3>11. CASE MutationBlocked(c)
      BY <3>11 DEF MutationBlocked
    <3>12. CASE AttemptFix(c)
      BY <3>12 DEF AttemptFix
    <3> QED BY <1>4, <3>1, <3>2, <3>3, <3>4, <3>5, <3>6, <3>7, <3>8, <3>9, <3>10, <3>11,
               <3>12 DEF Resume
  <2> QED BY <2>1, <2>2, OtherJobs
<1>5. CASE Heartbeat
  BY <1>1, <1>5 DEF Heartbeat, process
<1>6. CASE UNCHANGED lifecycleVars
  BY <1>1, <1>6 DEF lifecycleVars
<1> QED BY <1>2, <1>3, <1>4, <1>5, <1>6, CaptureKeeps, StartKeeps, HookKeeps, AppendKeeps,
           MishapKeeps DEF LifecycleNext

(* No order of captures, starts, stops, crashes, failed writes, failed     *)
(* reads and quarantines loses a saved bug before Capacity newer ones were *)
(* reported: it is in the history or in one that was set aside, unless a   *)
(* load could neither read nor rename its file.                            *)
THEOREM HistoryKeepsTheNewest == LifecycleSpec => []SavedBugsSurvive
<1>1. HistoryInv => SavedBugsSurvive
  BY DEF HistoryInv, StoreKeeps, SavedBugsSurvive, Outnumbered
<1> QED BY <1>1, HistoryStart, HistoryStep, PTL DEF LifecycleSpec

(***************************************************************************)
(* A running engine has its hooks and its watchdog.                        *)
(* The argument: what a stop takes away it takes before it ends, and its   *)
(* end says that the engine does not run; so while no stop is under way,   *)
(* what a start has given since is there.                                  *)
(***************************************************************************)
Stopping(c) == call[c].at \in {"uncaptured", "exporting", "exported", "stopped", "ending"}
Hooking(c) == call[c].at \in {"hooking", "hooked"}

(* Who is not at rest has a job.                                           *)
CallsHaveJobs ==
  \A c \in Callers : call[c].at # "idle" => \E i \in 1 .. Len(jobs) : jobs[i] = c

WatchedOrWorkedOn ==
  /\ engine \in [running : BOOLEAN, capturing : BOOLEAN, monitoring : BOOLEAN]
  /\ engine.running =>
       \/ \E c \in Callers : Stopping(c)
       \/ engine.capturing /\ (engine.monitoring \/ \E c \in Callers : Hooking(c))

WatchInv == CallsHaveJobs /\ WatchedOrWorkedOn

(* The first job goes, or goes to the end.                                 *)
LEMMA JobsMove ==
  ASSUME HistoryInv, CallsHaveJobs, NEW c \in Callers, NEW at, Runs(c, at),
         \A b \in Callers : b # c => call'[b] = call[b],
         \/ jobs' = Tail(jobs) /\ call'[c].at = "idle"
         \/ jobs' = Append(Tail(jobs), c)
  PROVE  CallsHaveJobs'
<1> SUFFICES ASSUME NEW b \in Callers, call'[b].at # "idle"
             PROVE  \E i \in 1 .. Len(jobs') : jobs'[i] = b
  BY DEF CallsHaveJobs
<1> DEFINE n == Len(jobs) - 1
<1> DEFINE t == Tail(jobs)
<1>1. /\ jobs \in Seq(Callers) /\ Len(jobs) \in Nat /\ n \in Nat /\ jobs[1] = c
      /\ t \in Seq(Callers) /\ Len(t) = n /\ \A i \in 1 .. n : t[i] = jobs[i + 1]
  BY DEF HistoryInv, QueueInOrder, Runs
<1>2. \/ jobs' = t /\ call'[c].at = "idle"
      \/ Len(jobs') = n + 1 /\ jobs'[n + 1] = c /\ \A i \in 1 .. n : jobs'[i] = t[i]
  BY <1>1
<1>3. CASE b = c
  <2>1. Len(jobs') = n + 1 /\ jobs'[n + 1] = c
    BY <1>2, <1>3
  <2>2. n + 1 \in 1 .. Len(jobs')
    BY <1>1, <2>1
  <2> QED BY <1>3, <2>1, <2>2
<1>4. CASE b # c
  <2>1. PICK i \in 1 .. Len(jobs) : jobs[i] = b
    BY <1>4 DEF CallsHaveJobs
  <2> DEFINE j == i - 1
  <2>2. j \in 1 .. n /\ j + 1 = i
    BY <1>1, <1>4, <2>1
  <2> HIDE DEF n, t, j
  <2>3. t[j] = b
    BY <1>1, <2>1, <2>2
  <2>4. j \in 1 .. Len(jobs') /\ jobs'[j] = t[j]
    BY <1>1, <1>2, <2>2
  <2> QED BY <2>3, <2>4
<1> QED BY <1>3, <1>4

LEMMA CallEnters ==
  ASSUME HistoryInv, CallsHaveJobs, NEW c \in Callers, jobs' = Append(jobs, c),
         \A b \in Callers : b # c => call'[b] = call[b]
  PROVE  CallsHaveJobs'
<1>1. /\ jobs \in Seq(Callers) /\ Len(jobs) \in Nat /\ Len(jobs') = Len(jobs) + 1
      /\ jobs'[Len(jobs) + 1] = c /\ \A i \in 1 .. Len(jobs) : jobs'[i] = jobs[i]
  BY DEF HistoryInv, QueueInOrder
<1>2. Len(jobs) + 1 \in 1 .. Len(jobs') /\ \A i \in 1 .. Len(jobs) : i \in 1 .. Len(jobs')
  BY <1>1
<1> QED BY <1>1, <1>2 DEF CallsHaveJobs

(* What a step of c may change of the engine, and how the others stand.    *)
LEMMA EngineMoves ==
  ASSUME WatchedOrWorkedOn, NEW c \in Callers,
         engine' \in [running : BOOLEAN, capturing : BOOLEAN, monitoring : BOOLEAN],
         \A b \in Callers : b # c => call'[b] = call[b],
         \/ ~engine'.running
         \/ Stopping(c)'
         \/ engine'.capturing /\ (engine'.monitoring \/ Hooking(c)')
         \/ /\ engine' = engine
            /\ Stopping(c) => Stopping(c)'
            /\ Hooking(c) => Hooking(c)'
  PROVE  WatchedOrWorkedOn'
<1>1. CASE ~engine'.running
  BY <1>1 DEF WatchedOrWorkedOn
<1>2. CASE Stopping(c)' \/ (engine'.capturing /\ (engine'.monitoring \/ Hooking(c)'))
  BY <1>2 DEF WatchedOrWorkedOn
<1>3. CASE /\ engine' = engine
           /\ Stopping(c) => Stopping(c)'
           /\ Hooking(c) => Hooking(c)'
  <2>1. ASSUME NEW b \in Callers, Stopping(b) \/ Hooking(b)
        PROVE  /\ Stopping(b) => Stopping(b)'
               /\ Hooking(b) => Hooking(b)'
    BY <1>3, <2>1 DEF Stopping, Hooking
  <2> QED BY <1>3, <2>1 DEF WatchedOrWorkedOn
<1> QED BY <1>1, <1>2, <1>3

(* Where a call stands after its job.                                      *)
LEMMA JobLeaves ==
  ASSUME HistoryInv, CallsHaveJobs, NEW c \in Callers, NEW at, Runs(c, at),
         NEW to \in Places, (Returns(c) /\ to = "idle") \/ Awaits(c, to)
  PROVE  /\ CallsHaveJobs' /\ call'[c].at = to
         /\ \A b \in Callers : b # c => call'[b] = call[b]
<1>1. call \in [Callers -> Standings]
  BY DEF HistoryInv, QueueInOrder
<1>2. CASE Returns(c) /\ to = "idle"
  <2>1. jobs' = Tail(jobs) /\ call' = [call EXCEPT ![c] = Idle]
    BY <1>2 DEF Returns
  <2>2. /\ call'[c] = Idle /\ Idle.at = "idle"
        /\ \A b \in Callers : b # c => call'[b] = call[b]
    BY <1>1, <2>1, IdleIs, CallMoves
  <2>3. call'[c].at = "idle"
    BY <2>2
  <2> QED BY <1>2, <2>1, <2>2, <2>3, JobsMove
<1>3. CASE Awaits(c, to)
  <2>1. jobs' = Append(Tail(jobs), c) /\ call' = [call EXCEPT ![c].at = to]
    BY <1>3 DEF Awaits
  <2>2. /\ call'[c].at = to
        /\ \A b \in Callers : b # c => call'[b] = call[b]
    BY <1>1, <2>1, AwaitMoves
  <2> QED BY <2>1, <2>2, JobsMove
<1> QED BY <1>2, <1>3

(* A job of start or stop.                                                 *)
LEMMA EngineJobs ==
  ASSUME HistoryInv, WatchInv, NEW c \in Callers,
         \/ StartRefused(c) \/ StartCapture(c) \/ StartWatchdog(c)
         \/ StopWatchdog(c) \/ StopReports(c) \/ StopEnds(c)
  PROVE  WatchInv'
<1> USE DEF Places
<1>1. /\ CallsHaveJobs /\ WatchedOrWorkedOn
      /\ engine \in [running : BOOLEAN, capturing : BOOLEAN, monitoring : BOOLEAN]
  BY DEF WatchInv, WatchedOrWorkedOn
<1>2. CASE StartRefused(c) \/ StopEnds(c)
  <2>1. PICK at \in {"checked", "ending"} : Runs(c, at) /\ Returns(c)
    BY <1>2 DEF StartRefused, StopEnds
  <2>2. engine' = [engine EXCEPT !.running = FALSE]
    BY <1>2 DEF StartRefused, StopEnds
  <2>3. CallsHaveJobs'
    BY <1>1, <2>1, JobLeaves
  <2>4. WatchedOrWorkedOn'
    BY <1>1, <2>2 DEF WatchedOrWorkedOn
  <2> QED BY <2>3, <2>4 DEF WatchInv
<1>3. CASE StartCapture(c)
  <2>1. PICK to \in {"hooked", "hooking"} : Runs(c, "alerts") /\ Awaits(c, to)
    BY <1>3 DEF StartCapture
  <2>2. engine' = [engine EXCEPT !.running = TRUE, !.capturing = TRUE]
    BY <1>3 DEF StartCapture
  <2>3. /\ engine' \in [running : BOOLEAN, capturing : BOOLEAN, monitoring : BOOLEAN]
        /\ engine'.capturing
    BY <1>1, <2>2
  <2>4. /\ CallsHaveJobs' /\ call'[c].at = to
        /\ \A b \in Callers : b # c => call'[b] = call[b]
    BY <1>1, <2>1, JobLeaves
  <2>5. Hooking(c)'
    BY <2>4 DEF Hooking
  <2> QED BY <1>1, <2>3, <2>4, <2>5, EngineMoves DEF WatchInv
<1>4. CASE StartWatchdog(c)
  <2>1. Runs(c, "hooked") /\ Awaits(c, "watched") /\ call[c].at = "hooked"
    BY <1>4 DEF StartWatchdog, Runs
  <2>2. engine' = [engine EXCEPT !.monitoring = TRUE]
    BY <1>4 DEF StartWatchdog
  <2>3. /\ engine' \in [running : BOOLEAN, capturing : BOOLEAN, monitoring : BOOLEAN]
        /\ engine'.monitoring /\ engine'.capturing = engine.capturing
        /\ engine'.running = engine.running
    BY <1>1, <2>2
  <2>4. /\ CallsHaveJobs' /\ call'[c].at = "watched"
        /\ \A b \in Callers : b # c => call'[b] = call[b]
    BY <1>1, <2>1, JobLeaves
  <2>5. ASSUME NEW b \in Callers, Stopping(b)
        PROVE  Stopping(b)'
    BY <2>1, <2>4, <2>5 DEF Stopping
  <2>6. WatchedOrWorkedOn'
    BY <1>1, <2>3, <2>5 DEF WatchedOrWorkedOn
  <2> QED BY <2>4, <2>6 DEF WatchInv
<1>5. CASE StopWatchdog(c) \/ StopReports(c)
  <2>1. PICK at \in {"uncaptured", "exporting", "exported", "stopped"},
             to \in {"exporting", "exported", "stopped", "ending"} : Runs(c, at) /\ Awaits(c, to)
    <3>1. CASE StopWatchdog(c)
      BY <3>1 DEF StopWatchdog
    <3>2. CASE StopReports(c)
      BY <3>2 DEF StopReports
    <3> QED BY <1>5, <3>1, <3>2
  <2>2. engine' = [engine EXCEPT !.monitoring = FALSE] \/ engine' = engine
    BY <1>5 DEF StopWatchdog, StopReports, process
  <2>3. engine' \in [running : BOOLEAN, capturing : BOOLEAN, monitoring : BOOLEAN]
    BY <1>1, <2>2
  <2>4. /\ CallsHaveJobs' /\ call'[c].at = to
        /\ \A b \in Callers : b # c => call'[b] = call[b]
    BY <1>1, <2>1, JobLeaves
  <2>5. Stopping(c)'
    BY <2>4 DEF Stopping
  <2> QED BY <1>1, <2>3, <2>4, <2>5, EngineMoves DEF WatchInv
<1> QED BY <1>2, <1>3, <1>4, <1>5

(* A job that leaves the engine alone.                                     *)
LEMMA QuietJobs ==
  ASSUME HistoryInv, WatchInv, NEW c \in Callers,
         \/ StartChecked(c) \/ StartLoads(c) \/ StartFillsWorkingSet(c) \/ AppendEvent(c)
         \/ EventSaved(c) \/ DetectPatterns(c) \/ MutationBlocked(c) \/ AttemptFix(c)
  PROVE  WatchInv'
<1> USE DEF Places
<1>1. /\ CallsHaveJobs /\ WatchedOrWorkedOn
      /\ engine \in [running : BOOLEAN, capturing : BOOLEAN, monitoring : BOOLEAN]
  BY DEF WatchInv, WatchedOrWorkedOn
<1>2. engine' = engine
  BY DEF StartChecked, StartLoads, StartFillsWorkingSet, AppendEvent, EventSaved,
         DetectPatterns, MutationBlocked, AttemptFix, process
<1>3. \E at \in {"checked", "watched", "loaded", "append", "saved", "captured", "patterns"} :
        \E to \in Places : Runs(c, at) /\ ((Returns(c) /\ to = "idle") \/ Awaits(c, to))
  <2>1. CASE StartChecked(c)
    BY <2>1 DEF StartChecked
  <2>2. CASE StartLoads(c)
    BY <2>2 DEF StartLoads
  <2>3. CASE StartFillsWorkingSet(c)
    BY <2>3 DEF StartFillsWorkingSet
  <2>4. CASE AppendEvent(c)
    BY <2>4 DEF AppendEvent
  <2>5. CASE EventSaved(c)
    BY <2>5 DEF EventSaved
  <2>6. CASE DetectPatterns(c)
    BY <2>6 DEF DetectPatterns
  <2>7. CASE MutationBlocked(c)
    BY <2>7 DEF MutationBlocked
  <2>8. CASE AttemptFix(c)
    BY <2>8 DEF AttemptFix
  <2> QED BY <2>1, <2>2, <2>3, <2>4, <2>5, <2>6, <2>7, <2>8
<1>4. PICK at \in {"checked", "watched", "loaded", "append", "saved", "captured", "patterns"},
           to \in Places : Runs(c, at) /\ ((Returns(c) /\ to = "idle") \/ Awaits(c, to))
  BY <1>3
<1>5. /\ CallsHaveJobs' /\ \A b \in Callers : b # c => call'[b] = call[b]
  BY <1>1, <1>4, JobLeaves
<1>6. ~Stopping(c) /\ ~Hooking(c)
  BY <1>4 DEF Runs, Stopping, Hooking
<1> QED BY <1>1, <1>2, <1>5, <1>6, EngineMoves DEF WatchInv

LEMMA WatchStep == HistoryInv /\ WatchInv /\ [LifecycleNext]_lifecycleVars => WatchInv'
<1> SUFFICES ASSUME HistoryInv, WatchInv, [LifecycleNext]_lifecycleVars PROVE WatchInv'
  OBVIOUS
<1> USE DEF Places
<1>1. /\ CallsHaveJobs /\ WatchedOrWorkedOn
      /\ engine \in [running : BOOLEAN, capturing : BOOLEAN, monitoring : BOOLEAN]
      /\ call \in [Callers -> Standings]
  BY DEF WatchInv, WatchedOrWorkedOn, HistoryInv, QueueInOrder
<1>2. ASSUME UNCHANGED <<engine, jobs, call>>
      PROVE  WatchInv'
  BY <1>1, <1>2 DEF WatchInv, CallsHaveJobs, WatchedOrWorkedOn, Stopping, Hooking
<1>3. ASSUME NEW c \in Callers, Start(c) \/ Stop(c) \/ CaptureBug(c)
      PROVE  WatchInv'
  <2>1. CASE UNCHANGED <<engine, jobs, call>>
    BY <1>2, <2>1
  <2>2. CASE ~UNCHANGED <<engine, jobs, call>>
    <3>1. /\ call[c].at = "idle"
          /\ \/ engine' = engine /\ \E b \in 0 .. MaxBugs, to \in {"checked", "append"} : Enters(c, to, b)
             \/ engine' = [engine EXCEPT !.capturing = FALSE] /\ Enters(c, "uncaptured", 0)
      <4>1. CASE Start(c)
        <5>1. 0 \in 0 .. MaxBugs
          BY LifecycleAssumption
        <5> QED BY <2>2, <4>1, <5>1 DEF Start, process
      <4>2. CASE Stop(c)
        BY <4>2 DEF Stop
      <4>3. CASE CaptureBug(c)
        <5>1. nextBug \in 0 .. MaxBugs
          <6>1. nextBug \in 1 .. MaxBugs + 1 /\ nextBug <= MaxBugs /\ MaxBugs \in Nat
            BY <4>3, LifecycleAssumption DEF CaptureBug, HistoryInv, StoreTypes
          <6> QED BY <6>1
        <5> QED BY <4>3, <5>1 DEF CaptureBug
      <4> QED BY <1>3, <4>1, <4>2, <4>3
    <3>2. 0 \in 0 .. MaxBugs
      BY LifecycleAssumption
    <3>3. PICK b \in 0 .. MaxBugs, to \in {"checked", "append", "uncaptured"} : Enters(c, to, b)
      BY <3>1, <3>2
    <3>4. /\ jobs' = Append(jobs, c) /\ call'[c].at = to
          /\ \A d \in Callers : d # c => call'[d] = call[d]
      BY <3>3, NewStanding
    <3>5. CallsHaveJobs'
      BY <1>1, <3>4, CallEnters
    <3>6. CASE engine' = engine
      <4>1. ~Stopping(c) /\ ~Hooking(c)
        BY <3>1 DEF Stopping, Hooking
      <4> QED BY <1>1, <3>4, <3>5, <3>6, <4>1, EngineMoves DEF WatchInv
    <3>7. CASE engine' = [engine EXCEPT !.capturing = FALSE] /\ Enters(c, "uncaptured", 0)
      <4>1. call'[c].at = "uncaptured"
        BY <3>2, <3>7, NewStanding
      <4>2. Stopping(c)'
        BY <4>1 DEF Stopping
      <4>3. engine' \in [running : BOOLEAN, capturing : BOOLEAN, monitoring : BOOLEAN]
        BY <1>1, <3>7
      <4> QED BY <1>1, <3>4, <3>5, <4>2, <4>3, EngineMoves DEF WatchInv
    <3> QED BY <3>1, <3>6, <3>7
  <2> QED BY <2>1, <2>2
<1>4. ASSUME NEW c \in Callers, InstallHook(c)
      PROVE  WatchInv'
  <2>1. /\ Runs(c, "hooking") /\ jobs' = Append(Tail(jobs), c) /\ engine' = engine
        /\ call' = [call EXCEPT ![c].n = @ + 1,
                                ![c].at = IF call[c].n + 1 = HookPoints THEN "hooked" ELSE @]
    BY <1>4 DEF InstallHook, process
  <2>2. /\ \A b \in Callers : b # c => call'[b] = call[b]
        /\ Hooking(c)' /\ ~Stopping(c)
    <3>1. /\ \A b \in Callers : b # c => call'[b] = call[b]
          /\ call'[c] = [call[c] EXCEPT !.n = @ + 1,
                           !.at = IF call[c].n + 1 = HookPoints THEN "hooked" ELSE @]
      BY <1>1, <2>1
    <3>2. call[c].at = "hooking" /\ call[c] \in Standings
      BY <1>1, <2>1 DEF Runs
    <3>3. call'[c].at \in {"hooking", "hooked"}
      BY <3>1, <3>2 DEF Standings
    <3> QED BY <3>1, <3>2, <3>3 DEF Hooking, Stopping
  <2>3. CallsHaveJobs'
    BY <1>1, <2>1, <2>2, JobsMove
  <2> QED BY <1>1, <2>1, <2>2, <2>3, EngineMoves DEF WatchInv
<1>5. CASE Crash
  <2>1. call' = [c \in Callers |-> Idle] /\ engine' = NewEngine
    BY <1>5 DEF Crash
  <2> QED BY <2>1, IdleIs DEF WatchInv, CallsHaveJobs, WatchedOrWorkedOn, NewEngine
<1>6. CASE Heartbeat \/ DamageHistory
  BY <1>2, <1>6 DEF Heartbeat, DamageHistory, process
<1>7. CASE UNCHANGED lifecycleVars
  BY <1>2, <1>7 DEF lifecycleVars
<1> QED BY <1>3, <1>4, <1>5, <1>6, <1>7, EngineJobs, QuietJobs DEF LifecycleNext, Resume

(* Once every call has come back, an engine that says it runs has its      *)
(* hooks and its watchdog, however many starts and stops overlapped.       *)
THEOREM RunningEnginesWatch == LifecycleSpec => []RunningIsWatched
<1>1. LifecycleInit => WatchInv
  BY IdleIs DEF LifecycleInit, WatchInv, CallsHaveJobs, WatchedOrWorkedOn, NewEngine
<1>2. HistoryInv /\ WatchInv => RunningIsWatched
  <2> SUFFICES ASSUME HistoryInv, WatchInv, jobs = << >>, engine.running
               PROVE  engine.capturing /\ engine.monitoring
    BY DEF RunningIsWatched
  <2>1. \A c \in Callers : call[c].at = "idle"
    BY DEF WatchInv, CallsHaveJobs
  <2> QED BY <2>1 DEF WatchInv, WatchedOrWorkedOn, Stopping, Hooking
<1> QED BY <1>1, <1>2, HistoryStart, HistoryStep, WatchStep, PTL DEF LifecycleSpec

(***************************************************************************)
(* Disk exhaustion: an eviction takes what it needs and no more.  Items    *)
(* that are evicted come first in an order of the evictable ones; the      *)
(* shortest such beginning that is enough is not enough without its last.  *)
(***************************************************************************)
ItemRecords == [size : Sizes, accessed : 0 .. LastAccess, priority : Priorities]

DiskTypeOK ==
  /\ accessClock \in 0 .. LastAccess
  /\ items \in [DOMAIN items -> ItemRecords] /\ IsFiniteSet(DOMAIN items)

DiskInv == DiskTypeOK /\ EvictsJustEnough

LEMMA DiskStart == DiskInit => DiskInv
<1> SUFFICES ASSUME DiskInit PROVE DiskInv
  OBVIOUS
<1>1. DOMAIN items = {} /\ items = NoItems /\ eviction.gone = NoItems /\ eviction.kept = NoItems
  BY DEF DiskInit, NoItems
<1>2. accessClock \in 0 .. LastAccess
  BY DiskAssumption DEF DiskInit
<1>3. items \in [DOMAIN items -> ItemRecords]
  BY <1>1 DEF NoItems
<1>4. DiskTypeOK
  BY <1>1, <1>2, <1>3, FS_EmptySet DEF DiskTypeOK
<1>5. EvictsJustEnough
  BY <1>1 DEF EvictsJustEnough, NoItems
<1> QED BY <1>4, <1>5 DEF DiskInv

(* An order of the evictable items has each of them once.                  *)
LEMMA OrderHasAll ==
  ASSUME DiskTypeOK, NEW order \in Orders
  PROVE  /\ order \in [1 .. Cardinality(Evictable) -> Evictable] /\ Len(order) \in Nat
         /\ Len(order) = Cardinality(Evictable)
         /\ \A i, j \in 1 .. Len(order) : order[i] = order[j] => i = j
         /\ FirstOf(order, Len(order)) = Evictable
<1> DEFINE c == Cardinality(Evictable)
<1>1. IsFiniteSet(Evictable)
  <2>1. Evictable \subseteq DOMAIN items
    BY DEF Evictable
  <2> QED BY <2>1, FS_Subset DEF DiskTypeOK
<1>2. c \in Nat
  BY <1>1, FS_CardinalityType
<1>3. order \in [1 .. c -> Evictable] /\ \A i, j \in 1 .. c : i # j => order[i] # order[j]
  BY DEF Orders, SetToSeqs
<1> HIDE DEF c
<1>4. order \in Seq(Evictable) /\ Len(order) = c
  BY <1>2, <1>3
<1>5. order \in Injection(1 .. c, Evictable)
  BY <1>3 DEF Injection, IsInjective
<1>6. IsFiniteSet(1 .. c) /\ Cardinality(1 .. c) = c
  <2>1. IsFiniteSet(1 .. c) /\ Cardinality(1 .. c) = IF 1 > c THEN 0 ELSE (c - 1) + 1
    BY <1>2, FS_Interval
  <2> QED BY <1>2, <2>1
<1>7. order \in Surjection(1 .. c, Evictable)
  <2>1. Cardinality(1 .. c) = Cardinality(Evictable)
    BY <1>6 DEF c
  <2> QED BY <1>1, <1>5, <2>1, FS_Injection
<1>8. FirstOf(order, c) = Evictable
  BY <1>3, <1>7 DEF FirstOf, Surjection
<1> QED BY <1>2, <1>3, <1>4, <1>8 DEF c

(* Where the eviction stops: at the first item after which it may.         *)
LEMMA EvictionStops ==
  ASSUME DiskTypeOK, NEW order \in Orders, NEW free, NEW target
  PROVE  \E n \in 0 .. Len(order) :
           /\ Evicted(order, free, target) = FirstOf(order, n)
           /\ Stops(order, n, free, target)
           /\ \A k \in 0 .. n - 1 : ~Stops(order, k, free, target)
<1> DEFINE T == {n \in 0 .. Len(order) : Stops(order, n, free, target)}
           P(n) == /\ Stops(order, n, free, target)
                   /\ \A k \in 0 .. n - 1 : ~Stops(order, k, free, target)
<1>1. Len(order) \in Nat
  BY OrderHasAll
<1>2. Len(order) \in T
  BY <1>1 DEF Stops
<1>3. T \subseteq Nat /\ T # {}
  BY <1>1, <1>2
<1>4. PICK n \in T : \A k \in T : n <= k
  <2> HIDE DEF T
  <2> QED BY <1>3, LeastExists
<1>5. n \in 0 .. Len(order) /\ P(n)
  <2>1. n \in 0 .. Len(order) /\ Stops(order, n, free, target)
    BY <1>4
  <2>2. ASSUME NEW k \in 0 .. n - 1, Stops(order, k, free, target) PROVE FALSE
    <3>1. k \in 0 .. Len(order) /\ ~(n <= k)
      BY <1>1, <2>1
    <3>2. k \in T
      BY <2>2, <3>1
    <3> QED BY <1>4, <3>1, <3>2
  <2> QED BY <2>1, <2>2
<1> DEFINE m == CHOOSE i \in 0 .. Len(order) : P(i)
<1>6. m \in 0 .. Len(order) /\ P(m)
  <2> HIDE DEF P
  <2> QED BY <1>5, Zenon
<1>7. Evicted(order, free, target) = FirstOf(order, m)
  BY DEF Evicted
<1> HIDE DEF m
<1> QED BY <1>6, <1>7

LEMMA SizesAdd ==
  ASSUME DiskTypeOK, NEW gone \in SUBSET DOMAIN items, NEW set \in SUBSET gone
  PROVE  SizeOf(set, Restrict(items, gone)) = SizeOf(set, items)
<1> DEFINE f == [i \in DOMAIN items |-> items[i].size]
           r == Restrict(items, gone)
           g == [i \in DOMAIN r |-> r[i].size]
<1>1. IsFiniteSet(set)
  BY FS_Subset DEF DiskTypeOK
<1>2. DOMAIN r = gone /\ \A x \in gone : r[x] = items[x]
  BY DEF Restrict
<1>3. \A x \in set : g[x] = f[x]
  BY <1>2
<1> HIDE DEF f, g
<1>4. SumFunctionOnSet(g, set) = SumFunctionOnSet(f, set)
  BY <1>1, <1>3, SumAgrees
<1> QED BY <1>4 DEF SizeOf, f, g

LEMMA EvictingKeeps ==
  ASSUME DiskInv, NEW free \in Readings, NEW target \in Nat, EvictLRU(free, target)
  PROVE  DiskInv'
<1>1. PICK order \in Orders :
        LET gone == Evicted(order, free, target)
            kept == Restrict(items, DOMAIN items \ gone)
        IN /\ items' = kept
           /\ eviction' = [free |-> free, target |-> target,
                           gone |-> Restrict(items, gone), kept |-> kept]
  BY DEF EvictLRU
<1>2. PICK n \in 0 .. Len(order) :
        /\ Evicted(order, free, target) = FirstOf(order, n)
        /\ Stops(order, n, free, target)
        /\ \A k \in 0 .. n - 1 : ~Stops(order, k, free, target)
  BY EvictionStops DEF DiskInv
<1>3. /\ order \in [1 .. Cardinality(Evictable) -> Evictable] /\ Len(order) \in Nat
      /\ Len(order) = Cardinality(Evictable)
      /\ \A i, j \in 1 .. Len(order) : order[i] = order[j] => i = j
      /\ FirstOf(order, Len(order)) = Evictable
  BY OrderHasAll DEF DiskInv
<1>4. PICK gone : gone = FirstOf(order, n)
  OBVIOUS
<1>5. /\ gone \subseteq Evictable
      /\ n = Len(order) => gone = Evictable
  <2>1. 1 .. n \subseteq 1 .. Len(order)
    BY <1>2, <1>3
  <2> QED BY <1>3, <1>4, <2>1 DEF FirstOf
<1>6. Evictable \subseteq DOMAIN items /\ gone \subseteq DOMAIN items
  BY <1>5 DEF Evictable
<1>7. /\ items' = Restrict(items, DOMAIN items \ gone)
      /\ eviction'.free = free /\ eviction'.target = target
      /\ eviction'.gone = Restrict(items, gone)
      /\ eviction'.kept = Restrict(items, DOMAIN items \ gone)
  BY <1>1, <1>2, <1>4
<1>8. /\ DOMAIN items' = DOMAIN items \ gone
      /\ \A i \in DOMAIN items \ gone : items'[i] = items[i]
      /\ items' = [i \in DOMAIN items' |-> items'[i]]
  BY <1>7 DEF Restrict
<1>9. DiskTypeOK'
  <2>1. IsFiniteSet(DOMAIN items')
    BY <1>8, FS_Subset DEF DiskInv, DiskTypeOK
  <2>2. \A i \in DOMAIN items' : items'[i] \in ItemRecords
    BY <1>8 DEF DiskInv, DiskTypeOK
  <2>3. items' \in [DOMAIN items' -> ItemRecords]
    BY <1>8, <2>2
  <2> QED BY <2>1, <2>3 DEF EvictLRU, DiskInv, DiskTypeOK
<1>10. DOMAIN eviction'.gone = gone /\ \A i \in gone : eviction'.gone[i] = items[i]
  BY <1>7 DEF Restrict
<1>11. \A i \in DOMAIN eviction'.gone : eviction'.gone[i].priority # "critical"
  BY <1>5, <1>10 DEF Evictable
<1>12. \A set \in SUBSET gone : SizeOf(set, eviction'.gone) = SizeOf(set, items)
  BY <1>6, <1>7, SizesAdd DEF DiskInv
<1>13. eviction'.gone = NoItems
       \/ \E last \in DOMAIN eviction'.gone :
            eviction'.free + SizeOf(DOMAIN eviction'.gone \ {last}, eviction'.gone) < eviction'.target
  <2>1. CASE n = 0
    <3>1. gone = {}
      BY <1>4, <2>1 DEF FirstOf
    <3> QED BY <1>7, <3>1 DEF Restrict, NoItems
  <2>2. CASE n # 0
    <3>1. /\ n - 1 \in 0 .. n - 1 /\ n - 1 # Len(order) /\ n \in 1 .. n
          /\ 1 .. n = 1 .. n - 1 \cup {n} /\ n \in 1 .. Len(order)
          /\ 1 .. n - 1 \subseteq 1 .. Len(order) /\ n \notin 1 .. n - 1
      BY <1>2, <1>3, <2>2
    <3>2. order[n] \in gone /\ gone \ {order[n]} = FirstOf(order, n - 1)
      BY <1>3, <1>4, <3>1 DEF FirstOf
    <3>3. ~Enough(SizeOf(gone \ {order[n]}, items), free, target)
      BY <1>2, <3>1, <3>2 DEF Stops
    <3>4. SizeOf(gone \ {order[n]}, items) \in Int
      <4> DEFINE f == [i \in DOMAIN items |-> items[i].size]
                 set == gone \ {order[n]}
      <4>1. IsFiniteSet(set)
        BY <1>6, FS_Subset DEF DiskInv, DiskTypeOK
      <4>2. \A x \in set : f[x] \in Int
        <5>1. \A x \in DOMAIN items : items[x].size \in Nat
          BY DiskAssumption DEF DiskInv, DiskTypeOK, ItemRecords
        <5> QED BY <1>6, <5>1
      <4> HIDE DEF f, set
      <4>3. SumFunctionOnSet(f, set) \in Int
        BY <4>1, <4>2, SumSplit
      <4> QED BY <4>3 DEF f, set, SizeOf
    <3>5. free + SizeOf(gone \ {order[n]}, items) < target
      <4>1. free \in Int
        BY DiskAssumption
      <4> QED BY <3>3, <3>4, <4>1 DEF Enough
    <3>6. SizeOf(gone \ {order[n]}, eviction'.gone) = SizeOf(gone \ {order[n]}, items)
      BY <1>12
    <3> QED BY <1>7, <1>10, <3>2, <3>5, <3>6
  <2> QED BY <2>1, <2>2
<1>14. eviction'.free + SizeOf(DOMAIN eviction'.gone, eviction'.gone) >= eviction'.target
       \/ \A i \in DOMAIN eviction'.kept : eviction'.kept[i].priority = "critical"
  <2>1. CASE n = Len(order)
    <3>1. gone = Evictable
      BY <1>5, <2>1
    <3>2. DOMAIN eviction'.kept = DOMAIN items \ gone
          /\ \A i \in DOMAIN items \ gone : eviction'.kept[i] = items[i]
      BY <1>7 DEF Restrict
    <3> QED BY <3>1, <3>2 DEF Evictable
  <2>2. CASE Enough(SizeOf(gone, items), free, target)
    <3>1. SizeOf(gone, eviction'.gone) = SizeOf(gone, items)
      BY <1>12
    <3>2. SizeOf(gone, items) \in Int /\ free \in Int
      <4> DEFINE f == [i \in DOMAIN items |-> items[i].size]
      <4>1. IsFiniteSet(gone)
        BY <1>6, FS_Subset DEF DiskInv, DiskTypeOK
      <4>2. \A x \in gone : f[x] \in Int
        <5>1. \A x \in DOMAIN items : items[x].size \in Nat
          BY DiskAssumption DEF DiskInv, DiskTypeOK, ItemRecords
        <5> QED BY <1>6, <5>1
      <4> HIDE DEF f
      <4>3. SumFunctionOnSet(f, gone) \in Int
        BY <4>1, <4>2, SumSplit
      <4> QED BY <4>3, DiskAssumption DEF f, SizeOf
    <3>3. free + SizeOf(gone, items) >= target
      BY <2>2, <3>2 DEF Enough
    <3> QED BY <1>7, <1>10, <3>1, <3>3
  <2> QED BY <1>2, <1>4, <2>1, <2>2 DEF Stops
<1> QED BY <1>9, <1>11, <1>13, <1>14 DEF DiskInv, EvictsJustEnough

LEMMA DiskStep == DiskInv /\ [DiskNext]_diskVars => DiskInv'
<1> SUFFICES ASSUME DiskInv, [DiskNext]_diskVars PROVE DiskInv'
  OBVIOUS
<1>1. /\ accessClock \in 0 .. LastAccess /\ items \in [DOMAIN items -> ItemRecords]
      /\ IsFiniteSet(DOMAIN items)
  BY DEF DiskInv, DiskTypeOK
<1>2. UNCHANGED eviction => EvictsJustEnough'
  BY DEF DiskInv, EvictsJustEnough
<1>3. ASSUME NEW i \in Items, NEW size \in Sizes, NEW priority \in Priorities,
             RegisterItem(i, size, priority)
      PROVE  DiskInv'
  <2> DEFINE r == [size |-> size, accessed |-> accessClock, priority |-> priority]
  <2>1. /\ items' = [j \in DOMAIN items \cup {i} |-> IF j = i THEN r ELSE items[j]]
        /\ UNCHANGED <<accessClock, eviction>>
    BY <1>3 DEF RegisterItem
  <2>2. r \in ItemRecords
    BY <1>1 DEF ItemRecords
  <2> HIDE DEF r
  <2>3. DOMAIN items' = DOMAIN items \cup {i} /\ items' \in [DOMAIN items \cup {i} -> ItemRecords]
    BY <1>1, <2>1, <2>2
  <2>4. IsFiniteSet(DOMAIN items')
    BY <1>1, <2>3, FS_AddElement
  <2> QED BY <1>1, <1>2, <2>1, <2>3, <2>4 DEF DiskInv, DiskTypeOK
<1>4. ASSUME NEW i \in DOMAIN items, TouchItem(i) PROVE DiskInv'
  <2> DEFINE r == [items[i] EXCEPT !.accessed = accessClock]
  <2>1. items' = [items EXCEPT ![i] = r] /\ UNCHANGED <<accessClock, eviction>>
    BY <1>4 DEF TouchItem
  <2>2. items[i] \in ItemRecords
    BY <1>1
  <2>3. r \in ItemRecords
    BY <1>1, <2>2 DEF ItemRecords
  <2> HIDE DEF r
  <2>4. DOMAIN items' = DOMAIN items /\ items' \in [DOMAIN items -> ItemRecords]
    BY <1>1, <2>1, <2>3
  <2> QED BY <1>1, <1>2, <2>1, <2>4 DEF DiskInv, DiskTypeOK
<1>5. CASE ClockTicks
  <2>1. accessClock' \in 0 .. LastAccess /\ UNCHANGED <<items, eviction>>
    BY <1>1, <1>5, DiskAssumption DEF ClockTicks
  <2> QED BY <1>1, <1>2, <2>1 DEF DiskInv, DiskTypeOK
<1>6. CASE ResetItems
  <2>1. DOMAIN items' = {} /\ items' \in [DOMAIN items' -> ItemRecords] /\ IsFiniteSet(DOMAIN items')
    BY <1>6, FS_EmptySet DEF ResetItems, NoItems
  <2> QED BY <1>1, <1>2, <1>6, <2>1 DEF ResetItems, DiskInv, DiskTypeOK
<1>7. ASSUME NEW free \in Readings, MonitorAndEvict(free) PROVE DiskInv'
  <2>1. EvictLRU(free, EvictionTarget(PressureLevel(free)))
    BY <1>7 DEF MonitorAndEvict
  <2>2. EvictionTarget(PressureLevel(free)) \in Nat
    BY DEF EvictionTarget
  <2> QED BY <2>1, <2>2, EvictingKeeps
<1>8. CASE UNCHANGED diskVars
  BY <1>1, <1>2, <1>8 DEF diskVars, DiskInv, DiskTypeOK
<1> QED BY <1>3, <1>4, <1>5, <1>6, <1>7, <1>8 DEF DiskNext

(* For any items, sizes and readings: an eviction takes no critical item,  *)
(* could do without none of those it took, and stops short of the target   *)
(* only when nothing but critical items is left.                           *)
THEOREM EvictionsAreMinimal == DiskSpec => []EvictsJustEnough
<1>1. DiskInv => EvictsJustEnough
  BY DEF DiskInv
<1> QED BY <1>1, DiskStart, DiskStep, PTL DEF DiskSpec

(***************************************************************************)
(* The optimizer: its log explains its thresholds.  Evaluations overlap    *)
(* between two adjustments, but an adjustment reads the threshold that it  *)
(* replaces in the step that logs it, and no other optimizer's entries     *)
(* come between, as each has the log to itself once it has loaded it.      *)
(***************************************************************************)
LogEntries == [kind : {"confidence", "occurrences"}, old : Nat, new : Nat]

OptimizerTypeOK ==
  /\ config \in [confidence : Nat, occurrences : Nat]
  /\ optimizationLog \in Seq(LogEntries) /\ optimizationFile \in Seq(LogEntries)
  /\ loaded \in Nat /\ loaded <= Len(optimizationLog)

OptimizerInv == OptimizerTypeOK /\ LogExplainsConfig

LEMMA InitialConfigIs ==
  /\ InitialConfig \in [confidence : Nat, occurrences : Nat]
  /\ InitialConfig.confidence <= 99
<1>1. /\ InitialConfig.confidence \in 10 .. 99 /\ InitialConfig.occurrences \in Nat
      /\ InitialConfig = [confidence |-> InitialConfig.confidence,
                          occurrences |-> InitialConfig.occurrences]
  BY OptimizerAssumption
<1>2. InitialConfig.confidence \in Nat /\ InitialConfig.confidence <= 99
  BY <1>1
<1> QED BY <1>1, <1>2

(* A log of which nothing is the optimizer's own leads nowhere.            *)
LEMMA NothingIsOwn ==
  ASSUME optimizationLog \in Seq(LogEntries), loaded = Len(optimizationLog), NEW kind, NEW from
  PROVE  Explains(kind, from, from)
<1>1. Len(optimizationLog) \in Nat
  OBVIOUS
<1>2. \A i : OwnBefore(kind, i) = {}
  BY <1>1 DEF OwnBefore
<1> QED BY <1>2 DEF Explains, LedTo

(* An entry joins the log.                                                 *)
LEMMA EntryExplains ==
  ASSUME OptimizerTypeOK, NEW x \in LogEntries, optimizationLog' = Append(optimizationLog, x),
         loaded' = loaded, NEW kind, NEW from, NEW to, Explains(kind, from, to),
         x.kind = kind => x.old = to /\ x.old < x.new
  PROVE  Explains(kind, from, IF x.kind = kind THEN x.new ELSE to)'
<1>n. PICK n : n = Len(optimizationLog)
  OBVIOUS
<1>1. /\ n \in Nat /\ Len(optimizationLog') = n + 1 /\ optimizationLog'[n + 1] = x
      /\ \A j \in 1 .. n : optimizationLog'[j] = optimizationLog[j]
  <2>1. optimizationLog \in Seq(LogEntries) /\ n \in Nat
    BY <1>n DEF OptimizerTypeOK
  <2> QED BY <1>n, <2>1, AppendProperties
<1>2. loaded \in Nat /\ loaded <= n
  BY <1>n DEF OptimizerTypeOK
<1>3. \A i \in 1 .. n + 1 : OwnBefore(kind, i)' = OwnBefore(kind, i)
  <2> SUFFICES ASSUME NEW i \in 1 .. n + 1 PROVE OwnBefore(kind, i)' = OwnBefore(kind, i)
    OBVIOUS
  <2>1. \A j \in loaded + 1 .. n + 1 : j < i => j \in loaded + 1 .. n /\ j \in 1 .. n
    BY <1>1, <1>2
  <2>2. \A j \in loaded + 1 .. n : j \in loaded + 1 .. n + 1
    BY <1>1, <1>2
  <2>3. OwnBefore(kind, i)' = {j \in loaded + 1 .. n + 1 : j < i /\ optimizationLog'[j].kind = kind}
    BY <1>1 DEF OwnBefore
  <2>4. OwnBefore(kind, i) = {j \in loaded + 1 .. n : j < i /\ optimizationLog[j].kind = kind}
    BY <1>n DEF OwnBefore
  <2> QED BY <1>1, <2>1, <2>2, <2>3, <2>4
<1>4. \A i \in 1 .. n + 1 : LedTo(kind, i, from)' = LedTo(kind, i, from)
  <2> SUFFICES ASSUME NEW i \in 1 .. n + 1 PROVE LedTo(kind, i, from)' = LedTo(kind, i, from)
    OBVIOUS
  <2>1. OwnBefore(kind, i)' = OwnBefore(kind, i)
    BY <1>3
  <2>2. CASE OwnBefore(kind, i) = {}
    BY <2>1, <2>2 DEF LedTo
  <2>3. CASE OwnBefore(kind, i) # {}
    <3>1. OwnBefore(kind, i) \subseteq 1 .. n
      BY <1>n, <1>1, <1>2 DEF OwnBefore
    <3> DEFINE own == OwnBefore(kind, i)
    <3>2. Max(own) \in own
      <4> HIDE DEF own
      <4> QED BY <1>1, <2>3, <3>1, MaxExists DEF own
    <3>3. optimizationLog'[Max(own)] = optimizationLog[Max(own)]
      BY <1>1, <3>1, <3>2
    <3> QED BY <2>1, <2>3, <3>3 DEF LedTo
  <2> QED BY <2>2, <2>3
<1>5. OwnBefore(kind, n + 2)' = OwnBefore(kind, n + 1) \cup (IF x.kind = kind THEN {n + 1} ELSE {})
  <2>1. OwnBefore(kind, n + 2)' =
          {j \in loaded + 1 .. n + 1 : j < n + 2 /\ optimizationLog'[j].kind = kind}
    BY <1>1 DEF OwnBefore
  <2>2. OwnBefore(kind, n + 1) = {j \in loaded + 1 .. n : j < n + 1 /\ optimizationLog[j].kind = kind}
    BY <1>n DEF OwnBefore
  <2>3. /\ \A j \in loaded + 1 .. n + 1 : j < n + 2 /\ (j = n + 1 \/ (j \in loaded + 1 .. n /\ j \in 1 .. n))
        /\ \A j \in loaded + 1 .. n : j < n + 1 /\ j \in loaded + 1 .. n + 1 /\ j \in 1 .. n
        /\ n + 1 \in loaded + 1 .. n + 1
    BY <1>1, <1>2
  <2> QED BY <1>1, <2>1, <2>2, <2>3
<1>6. /\ \A i \in OwnBefore(kind, n + 1) :
           /\ optimizationLog[i].old = LedTo(kind, i, from)
           /\ optimizationLog[i].old < optimizationLog[i].new
      /\ to = LedTo(kind, n + 1, from)
  BY <1>n DEF Explains
<1>7. OwnBefore(kind, n + 1) \subseteq 1 .. n /\ n + 1 \in 1 .. n + 1 /\ 1 .. n \subseteq 1 .. n + 1
  BY <1>n, <1>1, <1>2 DEF OwnBefore
<1>8. ASSUME NEW i \in OwnBefore(kind, n + 2)'
      PROVE  /\ optimizationLog'[i].old = LedTo(kind, i, from)'
             /\ optimizationLog'[i].old < optimizationLog'[i].new
  <2>1. CASE i \in OwnBefore(kind, n + 1)
    <3>1. i \in 1 .. n /\ i \in 1 .. n + 1
      BY <1>7, <2>1
    <3>2. optimizationLog'[i] = optimizationLog[i] /\ LedTo(kind, i, from)' = LedTo(kind, i, from)
      BY <1>1, <1>4, <3>1
    <3> QED BY <1>6, <2>1, <3>2
  <2>2. CASE i = n + 1 /\ x.kind = kind
    <3>1. LedTo(kind, n + 1, from)' = LedTo(kind, n + 1, from)
      BY <1>4, <1>7
    <3> QED BY <1>1, <1>6, <2>2, <3>1
  <2> QED BY <1>5, <2>1, <2>2
<1>9. (IF x.kind = kind THEN x.new ELSE to) = LedTo(kind, n + 2, from)'
  <2>1. CASE x.kind = kind
    <3> DEFINE own == OwnBefore(kind, n + 2)'
    <3>1. own = OwnBefore(kind, n + 1) \cup {n + 1} /\ own \subseteq 1 .. n + 1
      BY <1>5, <1>7, <2>1
    <3>2. Max(own) = n + 1
      <4> HIDE DEF own
      <4>1. n + 1 \in Nat /\ own # {}
        BY <1>1, <3>1
      <4>2. Max(own) \in own /\ \A y \in own : y <= Max(own)
        BY <3>1, <4>1, MaxExists
      <4>3. PICK m : m = Max(own)
        OBVIOUS
      <4>4. n + 1 \in own /\ m \in 1 .. n + 1
        BY <3>1, <4>2, <4>3
      <4>5. n + 1 <= m
        BY <4>2, <4>3, <4>4
      <4> QED BY <1>1, <4>3, <4>4, <4>5
    <3>3. own # {} /\ optimizationLog'[Max(own)].new = x.new
      BY <1>1, <3>1, <3>2
    <3> QED BY <2>1, <3>3 DEF LedTo
  <2>2. CASE x.kind # kind
    <3>1. OwnBefore(kind, n + 2)' = OwnBefore(kind, n + 1)'
      BY <1>3, <1>5, <1>7, <2>2
    <3>2. LedTo(kind, n + 2, from)' = LedTo(kind, n + 1, from)'
      BY <3>1 DEF LedTo
    <3>3. LedTo(kind, n + 1, from)' = LedTo(kind, n + 1, from)
      BY <1>4, <1>7
    <3> QED BY <1>6, <2>2, <3>2, <3>3
  <2> QED BY <2>1, <2>2
<1>10. Len(optimizationLog') + 1 = n + 2
  BY <1>1
<1> QED BY <1>8, <1>9, <1>10 DEF Explains

(* An adjustment: the threshold changes as its entry says, if it does.     *)
LEMMA AdjustingKeeps ==
  ASSUME OptimizerInv, loaded' = loaded, optimizationFile' \in Seq(LogEntries),
         NEW c \in Nat, c <= 99, NEW o \in Nat,
         config' = [confidence |-> c, occurrences |-> o],
         NEW x \in LogEntries, optimizationLog' = Append(optimizationLog, x),
         \/ /\ x = [kind |-> "confidence", old |-> config.confidence, new |-> c]
            /\ config.confidence < c /\ o = config.occurrences
         \/ /\ x = [kind |-> "occurrences", old |-> config.occurrences, new |-> o]
            /\ config.occurrences < o /\ c = config.confidence
  PROVE  OptimizerInv'
<1>1. OptimizerTypeOK /\ config.confidence \in Nat /\ config.occurrences \in Nat
  BY DEF OptimizerInv, OptimizerTypeOK
<1>2. OptimizerTypeOK'
  <2>1. config' \in [confidence : Nat, occurrences : Nat]
    OBVIOUS
  <2>2. optimizationLog \in Seq(LogEntries) /\ loaded \in Nat /\ loaded <= Len(optimizationLog)
    BY <1>1 DEF OptimizerTypeOK
  <2>3. /\ optimizationLog' \in Seq(LogEntries)
        /\ Len(optimizationLog') = Len(optimizationLog) + 1 /\ Len(optimizationLog) \in Nat
    BY <2>2, AppendProperties
  <2>4. loaded <= Len(optimizationLog')
    BY <2>2, <2>3
  <2> QED BY <2>1, <2>2, <2>3, <2>4 DEF OptimizerTypeOK
<1>3. PICK from : from = InitialConfig
  OBVIOUS
<1>4. PICK oldc, oldo : oldc = config.confidence /\ oldo = config.occurrences
  OBVIOUS
<1>5. /\ Explains("confidence", from.confidence, oldc)
      /\ Explains("occurrences", from.occurrences, oldo)
  BY <1>3, <1>4 DEF OptimizerInv, LogExplainsConfig
<1>6. /\ x.kind = "confidence" => x.old = oldc /\ x.old < x.new /\ x.new = c /\ o = oldo
      /\ x.kind = "occurrences" => x.old = oldo /\ x.old < x.new /\ x.new = o /\ c = oldc
      /\ x.kind \in {"confidence", "occurrences"}
  BY <1>1, <1>4
<1>7. Explains("confidence", from.confidence, c)'
  <2>1. PICK to : to = IF x.kind = "confidence" THEN x.new ELSE oldc
    OBVIOUS
  <2>2. Explains("confidence", from.confidence, to)'
    BY <1>1, <1>5, <1>6, <2>1, EntryExplains
  <2>3. to = c
    BY <1>6, <2>1
  <2> QED BY <2>2, <2>3
<1>8. Explains("occurrences", from.occurrences, o)'
  <2>1. PICK to : to = IF x.kind = "occurrences" THEN x.new ELSE oldo
    OBVIOUS
  <2>2. Explains("occurrences", from.occurrences, to)'
    BY <1>1, <1>5, <1>6, <2>1, EntryExplains
  <2>3. to = o
    BY <1>6, <2>1
  <2> QED BY <2>2, <2>3
<1>9. config'.confidence = c /\ config'.occurrences = o
  OBVIOUS
<1>10. LogExplainsConfig'
  BY <1>3, <1>7, <1>8, <1>9 DEF LogExplainsConfig
<1> QED BY <1>2, <1>10 DEF OptimizerInv

(* Nothing but the optimizer's own variables matters.                      *)
LEMMA OthersKeep ==
  ASSUME OptimizerInv, UNCHANGED <<config, optimizationLog, optimizationFile, loaded>>
  PROVE  OptimizerInv'
<1>1. \A kind, i : OwnBefore(kind, i)' = OwnBefore(kind, i)
  BY DEF OwnBefore
<1>2. \A kind, i, from : LedTo(kind, i, from)' = LedTo(kind, i, from)
  BY <1>1, Zenon DEF LedTo
<1>3. \A kind, from, to : Explains(kind, from, to)' <=> Explains(kind, from, to)
  <2>1. Len(optimizationLog)' + 1 = Len(optimizationLog) + 1
    OBVIOUS
  <2> QED BY <2>1, <1>1, <1>2, Zenon DEF Explains
<1>4. PICK c, o, c0, o0 : /\ c = config.confidence /\ o = config.occurrences
                          /\ c0 = InitialConfig.confidence /\ o0 = InitialConfig.occurrences
  OBVIOUS
<1>5. Explains("confidence", c0, c)' /\ Explains("occurrences", o0, o)' /\ c <= 99
  BY <1>3, <1>4 DEF OptimizerInv, LogExplainsConfig
<1>6. LogExplainsConfig'
  <2>1. /\ config.confidence' = c /\ config.occurrences' = o
        /\ InitialConfig.confidence = c0 /\ InitialConfig.occurrences = o0
    BY <1>4
  <2> QED BY <2>1, <1>5, Zenon DEF LogExplainsConfig
<1>7. OptimizerTypeOK'
  BY DEF OptimizerInv, OptimizerTypeOK
<1> QED BY <1>6, <1>7 DEF OptimizerInv

LEMMA SavingLog ==
  ASSUME OptimizerTypeOK, NEW x \in LogEntries, SaveLog(optimizationLog \o <<x>>)
  PROVE  optimizationLog' = Append(optimizationLog, x) /\ optimizationFile' \in Seq(LogEntries)
<1> DEFINE more == optimizationLog \o <<x>>
           none == << >>
<1>1. optimizationLog \in Seq(LogEntries) /\ optimizationFile \in Seq(LogEntries)
  BY DEF OptimizerTypeOK
<1>2. more = Append(optimizationLog, x)
  BY <1>1, AppendIsConcat
<1>3. more \in Seq(LogEntries) /\ none \in Seq(LogEntries)
  BY <1>1, <1>2, AppendProperties
<1>4. optimizationLog' = more /\ optimizationFile' \in {more, optimizationFile, none}
  BY DEF SaveLog
<1> HIDE DEF more, none
<1> QED BY <1>1, <1>2, <1>3, <1>4

LEMMA OccurrencesKeep ==
  ASSUME OptimizerInv, NEW e, AdjustMinOccurrences(e, config), loaded' = loaded
  PROVE  OptimizerInv'
<1> DEFINE c == config.confidence
           o == config.occurrences
           x == [kind |-> "occurrences", old |-> o, new |-> o + 1]
<1>1. /\ OptimizerTypeOK /\ c \in Nat /\ c <= 99 /\ o \in Nat
      /\ config = [confidence |-> c, occurrences |-> o]
  BY DEF OptimizerInv, OptimizerTypeOK, LogExplainsConfig
<1>2. o # o + 1 /\ o < o + 1 /\ o + 1 \in Nat
  BY <1>1
<1>3. Entry("occurrences", o, o + 1) = <<x>>
  BY <1>2 DEF Entry
<1>4. SaveLog(optimizationLog \o <<x>>) /\ config' = [config EXCEPT !.occurrences = @ + 1]
  BY <1>3 DEF AdjustMinOccurrences
<1>5. config' = [confidence |-> c, occurrences |-> o + 1]
  BY <1>1, <1>4
<1>6. x \in LogEntries
  BY <1>1, <1>2 DEF LogEntries
<1>7. optimizationLog' = Append(optimizationLog, x) /\ optimizationFile' \in Seq(LogEntries)
  BY <1>1, <1>4, <1>6, SavingLog
<1> QED BY <1>1, <1>2, <1>5, <1>6, <1>7, AdjustingKeeps

LEMMA ConfidenceKeeps ==
  ASSUME OptimizerInv, NEW e, ConfidenceDelta > 0, AdjustConfidenceThreshold(e), loaded' = loaded
  PROVE  OptimizerInv'
<1> DEFINE c == config.confidence
           o == config.occurrences
           n == Clamped(c + ConfidenceDelta)
           x == [kind |-> "confidence", old |-> c, new |-> n]
<1>1. /\ OptimizerTypeOK /\ c \in Nat /\ c <= 99 /\ o \in Nat
      /\ config = [confidence |-> c, occurrences |-> o]
  BY DEF OptimizerInv, OptimizerTypeOK, LogExplainsConfig
<1>2. c < 99 /\ ConfidenceDelta \in {5, 10}
  BY <1>1 DEF ConfidenceDelta
<1>3. n \in Nat /\ c < n /\ n <= 99
  BY <1>1, <1>2 DEF Clamped
<1>4. /\ SaveLog(optimizationLog \o Entry("confidence", c, n))
      /\ config' = [config EXCEPT !.confidence = n]
  BY DEF AdjustConfidenceThreshold
<1> HIDE DEF n
<1>5. Entry("confidence", c, n) = <<x>>
  BY <1>1, <1>3 DEF Entry
<1>6. config' = [confidence |-> n, occurrences |-> o]
  BY <1>1, <1>4
<1>7. x \in LogEntries
  BY <1>1, <1>3 DEF LogEntries
<1>8. optimizationLog' = Append(optimizationLog, x) /\ optimizationFile' \in Seq(LogEntries)
  BY <1>1, <1>4, <1>5, <1>7, SavingLog
<1> QED BY <1>1, <1>3, <1>6, <1>7, <1>8, AdjustingKeeps

LEMMA OptimizerStart == OptimizerInit => OptimizerInv
<1> SUFFICES ASSUME OptimizerInit PROVE OptimizerInv
  OBVIOUS
<1> DEFINE none == << >>
<1>1. none \in Seq(LogEntries) /\ Len(none) = 0
  OBVIOUS
<1>2. optimizationLog = none /\ optimizationFile = none /\ loaded = 0 /\ config = InitialConfig
  BY DEF OptimizerInit
<1> HIDE DEF none
<1>3. OptimizerTypeOK
  BY <1>1, <1>2, InitialConfigIs DEF OptimizerTypeOK
<1>4. LogExplainsConfig
  BY <1>1, <1>2, InitialConfigIs, NothingIsOwn DEF LogExplainsConfig
<1> QED BY <1>3, <1>4 DEF OptimizerInv

LEMMA OptimizerStep == OptimizerInv /\ [OptimizerNext]_optimizerVars => OptimizerInv'
<1> SUFFICES ASSUME OptimizerInv, [OptimizerNext]_optimizerVars PROVE OptimizerInv'
  OBVIOUS
<1>1. ASSUME NEW successful \in BOOLEAN, NEW rolledBack \in BOOLEAN,
             RecordFixAttempt(successful, rolledBack)
      PROVE  OptimizerInv'
  BY <1>1, OthersKeep DEF RecordFixAttempt
<1>2. CASE ExportToFile
  BY <1>2, OthersKeep DEF ExportToFile
<1>3. ASSUME NEW e \in Evaluations, EvaluateAndOptimize(e) \/ ContinueEvaluation(e)
      PROVE  OptimizerInv'
  BY <1>3, OccurrencesKeep, ConfidenceKeeps DEF EvaluateAndOptimize, ContinueEvaluation
<1>4. ASSUME NEW restarted \in BOOLEAN, NewOptimizer(restarted) PROVE OptimizerInv'
  <2>1. /\ config' = InitialConfig /\ optimizationLog' = optimizationFile
        /\ loaded' = Len(optimizationFile) /\ optimizationFile' = optimizationFile
    BY <1>4 DEF NewOptimizer
  <2>2. optimizationFile \in Seq(LogEntries) /\ Len(optimizationFile) \in Nat
    BY DEF OptimizerInv, OptimizerTypeOK
  <2>3. OptimizerTypeOK'
    BY <2>1, <2>2, InitialConfigIs DEF OptimizerTypeOK
  <2>4. PICK from : from = InitialConfig
    OBVIOUS
  <2>5. optimizationLog' \in Seq(LogEntries) /\ loaded' = Len(optimizationLog')
    BY <2>1, <2>2
  <2>6. \A kind, origin : Explains(kind, origin, origin)'
    <3>1. Len(optimizationLog') \in Nat
      BY <2>1, <2>2
    <3>2. \A kind, i : OwnBefore(kind, i)' = {}
      BY <2>5, <3>1 DEF OwnBefore
    <3> QED BY <3>2 DEF Explains, LedTo
  <2>7. LogExplainsConfig'
    BY <2>1, <2>4, <2>6, InitialConfigIs DEF LogExplainsConfig
  <2> QED BY <2>3, <2>7 DEF OptimizerInv
<1>5. CASE UNCHANGED optimizerVars
  BY <1>5, OthersKeep DEF optimizerVars
<1> QED BY <1>1, <1>2, <1>3, <1>4, <1>5 DEF OptimizerNext

(* For any number of overlapping evaluations, failed writes and optimizers *)
(* in turn, the thresholds in force are where this optimizer's entries of  *)
(* the log lead from the initial ones, always upwards and below 1.         *)
THEOREM LogsExplainThresholds == OptimizerSpec => []LogExplainsConfig
<1>1. OptimizerInv => LogExplainsConfig
  BY DEF OptimizerInv
<1> QED BY <1>1, OptimizerStart, OptimizerStep, PTL DEF OptimizerSpec


-----------------------------------------------------------------------------
(***************************************************************************)
(* The evidence on disk.  The argument for the trail: only its last line   *)
(* can be spoilt by a later write, and only when it lacks its end; what it *)
(* may cost is counted with what is lost already.                          *)
(***************************************************************************)
Lines == [entry : Nat, whole : BOOLEAN, ended : BOOLEAN]

Open(lines) == lines # <<>> /\ ~lines[Len(lines)].ended

(* What the next entry may still cost: its own line and the one before.    *)
AtStake(lines) == IF ~Open(lines) THEN 0 ELSE IF lines[Len(lines)].whole THEN 2 ELSE 1

(* The entries that no file tells of.                                      *)
Untold(files, n) ==
  {e \in 1 .. n : \A f \in 1 .. Len(files) : \A i \in 1 .. Len(files[f]) :
                    ~(files[f][i].whole /\ files[f][i].entry = e)}

InOrder(files) ==
  \A f, g \in 1 .. Len(files) : \A i \in 1 .. Len(files[f]), j \in 1 .. Len(files[g]) :
    (f < g \/ (f = g /\ i < j)) => files[f][i].entry < files[g][j].entry

(* n entries were logged, and c lines were cut.                            *)
FilesOK(files, n, c) ==
  /\ files \in Seq(Seq(Lines)) /\ Len(files) > 0 /\ n \in Nat /\ c \in Nat
  /\ \A f \in 1 .. Len(files) :
       /\ Len(files[f]) <= n
       /\ \A i \in 1 .. Len(files[f]) : files[f][i].entry \in 1 .. n
  /\ InOrder(files)
  /\ Cardinality(Untold(files, n)) + AtStake(files[Len(files)]) <= 2 * c

(* A sequence of lines, and what WithLine makes of it.                     *)
LEMMA LinesAre ==
  ASSUME NEW l \in Seq(Lines)
  PROVE  /\ Len(l) \in Nat
         /\ \A i \in 1 .. Len(l) : /\ l[i] \in Lines /\ l[i].entry \in Nat
                                   /\ l[i].whole \in BOOLEAN /\ l[i].ended \in BOOLEAN
         /\ l # <<>> => Len(l) > 0
         /\ AtStake(l) \in 0 .. 2
<1>1. Len(l) \in Nat /\ (l # <<>> => Len(l) > 0)
  BY EmptySeq
<1>2. \A i \in 1 .. Len(l) : l[i] \in Lines
  BY ElementOfSeq
<1>3. \A x \in Lines : x.entry \in Nat /\ x.whole \in BOOLEAN /\ x.ended \in BOOLEAN
  BY DEF Lines
<1>4. AtStake(l) \in 0 .. 2
  BY DEF AtStake
<1> QED BY <1>1, <1>2, <1>3, <1>4

Takes(l, w, whole, ended) ==
  /\ w \in Seq(Lines) /\ Len(w) > 0 /\ w[Len(w)].entry = logged + 1
  /\ w[Len(w)].ended = ended
  /\ Len(w) = IF Open(l) THEN Len(l) ELSE Len(l) + 1
  /\ w[Len(w)].whole = IF Open(l) THEN FALSE ELSE whole
  /\ \A i \in 1 .. Len(w) - 1 : i \in 1 .. Len(l) /\ w[i] = l[i]

LEMMA WithLineIs ==
  ASSUME logged \in Nat, NEW l \in Seq(Lines), NEW whole \in BOOLEAN, NEW ended \in BOOLEAN,
         NEW w, w = WithLine(l, whole, ended)
  PROVE  Takes(l, w, whole, ended)
<1> DEFINE n == Len(l)
<1>0. n \in Nat /\ (l # <<>> => n > 0) /\ \A i \in 1 .. n : l[i] \in Lines
  BY LinesAre
<1>1. CASE Open(l)
  <2> DEFINE x == [entry |-> logged + 1, whole |-> FALSE, ended |-> ended]
  <2>1. x \in Lines
    BY DEF Lines
  <2>2. w = [l EXCEPT ![n] = x]
    BY <1>1 DEF WithLine, Open, Last
  <2>3. x.entry = logged + 1 /\ x.whole = FALSE /\ x.ended = ended
    OBVIOUS
  <2>4. n \in 1 .. n
    BY <1>0, <1>1 DEF Open
  <2> HIDE DEF x
  <2>5. w \in Seq(Lines) /\ Len(w) = n /\ w[n] = x /\ \A i \in 1 .. n : i # n => w[i] = l[i]
    BY <2>1, <2>2, <2>4, ExceptSeq
  <2>6. w[Len(w)] = x
    BY <2>5
  <2>7. \A i \in 1 .. Len(w) - 1 : i \in 1 .. Len(l) /\ w[i] = l[i]
    BY <1>0, <2>5
  <2>8. Len(w) > 0 /\ w \in Seq(Lines) /\ Len(w) = Len(l)
    BY <1>0, <2>4, <2>5
  <2>9. w[Len(w)].entry = logged + 1 /\ w[Len(w)].whole = FALSE /\ w[Len(w)].ended = ended
    BY <2>3, <2>6
  <2> HIDE DEF n
  <2> QED BY <1>1, <2>7, <2>8, <2>9 DEF Takes
<1>2. CASE ~Open(l)
  <2> DEFINE x == [entry |-> logged + 1, whole |-> whole, ended |-> ended]
  <2>1. x \in Lines
    BY DEF Lines
  <2>2. w = Append(l, x)
    BY <1>2 DEF WithLine, Open, Last
  <2>3. x.entry = logged + 1 /\ x.whole = whole /\ x.ended = ended
    OBVIOUS
  <2> HIDE DEF x
  <2>5. /\ w \in Seq(Lines) /\ Len(w) = n + 1 /\ w[n + 1] = x
        /\ \A i \in 1 .. n : w[i] = l[i]
    BY <2>1, <2>2, AppendProperties
  <2>6. w[Len(w)] = x
    BY <2>5
  <2>7. \A i \in 1 .. Len(w) - 1 : i \in 1 .. Len(l) /\ w[i] = l[i]
    BY <1>0, <2>5
  <2>8. Len(w) > 0 /\ w \in Seq(Lines) /\ Len(w) = Len(l) + 1
    BY <1>0, <2>5
  <2>9. w[Len(w)].entry = logged + 1 /\ w[Len(w)].whole = whole /\ w[Len(w)].ended = ended
    BY <2>3, <2>6
  <2> HIDE DEF n
  <2> QED BY <1>2, <2>7, <2>8, <2>9 DEF Takes
<1> QED BY <1>1, <1>2

LEMMA FewMore ==
  ASSUME NEW A, IsFiniteSet(A), NEW B, NEW a, NEW b
  PROVE  /\ B \subseteq A => Cardinality(B) <= Cardinality(A)
         /\ B \subseteq A \cup {a} => Cardinality(B) <= Cardinality(A) + 1
         /\ B \subseteq A \cup {a, b} => Cardinality(B) <= Cardinality(A) + 2
         /\ Cardinality(A) \in Nat
<1> DEFINE C == A \cup {a}
           D == C \cup {b}
<1>1. IsFiniteSet(C) /\ Cardinality(C) <= Cardinality(A) + 1 /\ Cardinality(A) \in Nat
  BY FS_AddElement, FS_CardinalityType
<1>2. Cardinality(C) \in Nat
  BY <1>1, FS_CardinalityType
<1>3. A \cup {a, b} = D
  OBVIOUS
<1> HIDE DEF C
<1>4. IsFiniteSet(D) /\ Cardinality(D) <= Cardinality(C) + 1
  BY <1>1, <1>2, FS_AddElement
<1>5. Cardinality(D) \in Nat
  BY <1>4, FS_CardinalityType
<1> HIDE DEF D
<1>6. B \subseteq A => Cardinality(B) <= Cardinality(A)
  BY FS_Subset
<1>7. B \subseteq C => Cardinality(B) <= Cardinality(C) /\ Cardinality(B) \in Nat
  BY <1>1, FS_Subset, FS_CardinalityType
<1>8. B \subseteq D => Cardinality(B) <= Cardinality(D) /\ Cardinality(B) \in Nat
  BY <1>4, FS_Subset, FS_CardinalityType
<1>9. B \subseteq C => Cardinality(B) <= Cardinality(A) + 1
  BY <1>1, <1>2, <1>7
<1>10. B \subseteq D => Cardinality(B) <= Cardinality(A) + 2
  BY <1>1, <1>2, <1>4, <1>5, <1>8
<1> QED BY <1>1, <1>3, <1>6, <1>9, <1>10 DEF C

LEMMA UntoldIsFinite ==
  ASSUME NEW files, NEW n \in Nat PROVE IsFiniteSet(Untold(files, n))
<1>1. IsFiniteSet(1 .. n)
  BY FS_Interval
<1>2. Untold(files, n) \subseteq 1 .. n
  BY DEF Untold
<1> QED BY <1>1, <1>2, FS_Subset

LEMMA NothingWritten ==
  ASSUME NEW files, NEW n, NEW c, FilesOK(files, n, c)
  PROVE  FilesOK(files, n + 1, c + 1)
<1> DEFINE l == files[Len(files)]
           k == AtStake(l)
<1>1. /\ files \in Seq(Seq(Lines)) /\ Len(files) > 0 /\ n \in Nat /\ c \in Nat
      /\ InOrder(files) /\ Cardinality(Untold(files, n)) + k <= 2 * c
  BY DEF FilesOK
<1>2. \A f \in 1 .. Len(files) :
        /\ Len(files[f]) <= n + 1
        /\ \A i \in 1 .. Len(files[f]) : files[f][i].entry \in 1 .. n + 1
  <2> SUFFICES ASSUME NEW f \in 1 .. Len(files)
               PROVE  /\ Len(files[f]) <= n + 1
                      /\ \A i \in 1 .. Len(files[f]) : files[f][i].entry \in 1 .. n + 1
    OBVIOUS
  <2>1. files[f] \in Seq(Lines)
    BY <1>1, ElementOfSeq
  <2>2. Len(files[f]) \in Nat
    BY <2>1, LinesAre
  <2>3. Len(files[f]) <= n /\ \A i \in 1 .. Len(files[f]) : files[f][i].entry \in 1 .. n
    BY DEF FilesOK
  <2>4. Len(files[f]) <= n + 1
    BY <1>1, <2>2, <2>3
  <2>5. \A x \in 1 .. n : x \in 1 .. n + 1
    BY <1>1
  <2> QED BY <2>3, <2>4, <2>5
<1>3. Untold(files, n + 1) \subseteq Untold(files, n) \cup {n + 1}
  <2>1. \A x \in 1 .. n + 1 : x \in 1 .. n \/ x = n + 1
    BY <1>1
  <2> QED BY <2>1 DEF Untold
<1>4. /\ Cardinality(Untold(files, n + 1)) <= Cardinality(Untold(files, n)) + 1
      /\ Cardinality(Untold(files, n)) \in Nat /\ Cardinality(Untold(files, n + 1)) \in Nat
  <2>1. IsFiniteSet(Untold(files, n)) /\ IsFiniteSet(Untold(files, n + 1))
    BY <1>1, UntoldIsFinite
  <2> QED BY <1>3, <2>1, FewMore
<1>5. k \in 0 .. 2
  <2>1. l \in Seq(Lines)
    BY <1>1, ElementOfSeq
  <2> QED BY <2>1, LinesAre
<1> HIDE DEF k
<1>6. Cardinality(Untold(files, n + 1)) + k <= 2 * (c + 1)
  BY <1>1, <1>4, <1>5
<1> QED BY <1>1, <1>2, <1>6 DEF FilesOK, k

(* The newest of the files becomes w.                                      *)
NewestFileIs(files, w, news) ==
  LET k == Len(files)
  IN  /\ news \in Seq(Seq(Lines)) /\ Len(news) = k /\ news[k] = w
      /\ \A f \in 1 .. k : f # k => news[f] = files[f]

LEMMA SomethingWritten ==
  ASSUME NEW c, NEW files, FilesOK(files, logged, c),
         NEW whole \in BOOLEAN, NEW ended \in BOOLEAN, NEW news,
         NewestFileIs(files, WithLine(files[Len(files)], whole, ended), news),
         NEW d \in {0, 1}, d = 0 => whole /\ ended
  PROVE  FilesOK(news, logged + 1, c + d)
<1> SUFFICES ASSUME NEW k, k = Len(files), NEW l, l = files[k],
                    NEW w, w = WithLine(l, whole, ended),
                    news \in Seq(Seq(Lines)), Len(news) = k, news[k] = w,
                    \A f \in 1 .. k : f # k => news[f] = files[f]
             PROVE  FilesOK(news, logged + 1, c + d)
  BY DEF NewestFileIs
<1> DEFINE n == logged
           m == Len(l)
           u == Cardinality(Untold(files, n))
           v == Cardinality(Untold(news, n + 1))
<1>1. /\ files \in Seq(Seq(Lines)) /\ k \in Nat /\ k > 0 /\ k \in 1 .. k /\ n \in Nat /\ c \in Nat
      /\ InOrder(files) /\ u + AtStake(l) <= 2 * c
  BY DEF FilesOK
<1>2. \A f \in 1 .. k : /\ files[f] \in Seq(Lines) /\ Len(files[f]) \in Nat
                        /\ Len(files[f]) <= n
                        /\ \A i \in 1 .. Len(files[f]) : files[f][i].entry \in 1 .. n
  <2> SUFFICES ASSUME NEW f \in 1 .. k
               PROVE  /\ files[f] \in Seq(Lines) /\ Len(files[f]) \in Nat
                      /\ Len(files[f]) <= n
                      /\ \A i \in 1 .. Len(files[f]) : files[f][i].entry \in 1 .. n
    OBVIOUS
  <2>1. files[f] \in Seq(Lines)
    BY <1>1, ElementOfSeq
  <2>2. /\ Len(files[f]) <= n
        /\ \A i \in 1 .. Len(files[f]) : files[f][i].entry \in 1 .. n
    BY DEF FilesOK
  <2> QED BY <2>1, <2>2, LinesAre
<1>3. l \in Seq(Lines) /\ m \in Nat /\ m <= n /\ \A i \in 1 .. m : l[i].entry \in 1 .. n
  BY <1>1, <1>2
<1>4. /\ w \in Seq(Lines) /\ Len(w) > 0 /\ w[Len(w)].entry = n + 1
      /\ w[Len(w)].ended = ended
      /\ Len(w) = IF Open(l) THEN m ELSE m + 1
      /\ w[Len(w)].whole = IF Open(l) THEN FALSE ELSE whole
      /\ \A i \in 1 .. Len(w) - 1 : i \in 1 .. m /\ w[i] = l[i]
  <2>1. logged \in Nat
    BY <1>1
  <2> HIDE DEF n
  <2>2. l \in Seq(Lines)
    BY <1>3
  <2>3. Takes(l, w, whole, ended)
    BY <2>1, <2>2, WithLineIs, Zenon
  <2> QED BY <2>3, Zenon DEF Takes, n, m
<1>5. Len(w) \in Nat /\ Len(w) <= n + 1
  <2>1. Len(w) = m \/ Len(w) = m + 1
    BY <1>4
  <2> HIDE DEF m, n
  <2> QED BY <1>1, <1>3, <2>1
<1> DEFINE last == Len(w)
<1> HIDE DEF n, m, u, v, last
<1>6. ASSUME NEW f \in 1 .. k, NEW i \in 1 .. Len(news[f])
      PROVE  \/ f = k /\ i = last /\ news[f][i].entry = n + 1
             \/ /\ i \in 1 .. Len(files[f]) /\ news[f][i] = files[f][i]
                /\ ~(f = k /\ i = last) /\ files[f][i].entry \in 1 .. n
  <2>1. CASE f # k
    <3>1. news[f] = files[f]
      BY <2>1
    <3> QED BY <1>2, <2>1, <3>1
  <2>2. CASE f = k /\ i = Len(w)
    BY <1>4, <2>2 DEF last
  <2>3. CASE f = k /\ i # Len(w)
    <3>1. i \in 1 .. Len(w) - 1
      BY <1>5, <2>3
    <3>2. i \in 1 .. m /\ w[i] = l[i]
      BY <1>4, <3>1
    <3> QED BY <1>2, <2>3, <3>2 DEF m, last
  <2> QED BY <2>1, <2>2, <2>3
<1>7. ASSUME NEW f \in 1 .. k
      PROVE  /\ Len(news[f]) <= n + 1
             /\ \A i \in 1 .. Len(news[f]) : news[f][i].entry \in 1 .. n + 1
  <2>1. Len(news[f]) <= n + 1
    BY <1>1, <1>2, <1>5
  <2>2. \A x \in 1 .. n : x \in 1 .. n + 1
    BY <1>1
  <2>3. n + 1 \in 1 .. n + 1
    BY <1>1
  <2> QED BY <1>6, <2>1, <2>2, <2>3
<1>8. InOrder(news)
  <2> SUFFICES ASSUME NEW f \in 1 .. k, NEW g \in 1 .. k,
                      NEW i \in 1 .. Len(news[f]), NEW j \in 1 .. Len(news[g]),
                      f < g \/ (f = g /\ i < j)
               PROVE  news[f][i].entry < news[g][j].entry
    BY DEF InOrder
  <2>1. ~(f = k /\ i = last)
    <3>1. f = k /\ i = last => g = k /\ j \in 1 .. last
      BY DEF last
    <3> QED BY <1>5, <3>1 DEF last
  <2>2. /\ i \in 1 .. Len(files[f]) /\ news[f][i] = files[f][i]
        /\ files[f][i].entry \in 1 .. n
    BY <1>6, <2>1
  <2>3. CASE g = k /\ j = last /\ news[g][j].entry = n + 1
    <3> DEFINE a == files[f][i].entry
    <3>1. a \in 1 .. n
      BY <2>2
    <3> HIDE DEF a
    <3>2. a < n + 1
      BY <1>1, <3>1
    <3> QED BY <2>2, <2>3, <3>2 DEF a
  <2>4. CASE j \in 1 .. Len(files[g]) /\ news[g][j] = files[g][j]
    BY <1>1, <2>2, <2>4 DEF InOrder
  <2> QED BY <1>6, <2>3, <2>4
<1>9. ASSUME NEW e \in Untold(news, n + 1), e # n + 1, e \notin Untold(files, n)
      PROVE  Open(l) /\ l[m].whole /\ e = l[m].entry
  <2>1. e \in 1 .. n
    <3>1. e \in 1 .. n + 1
      BY DEF Untold
    <3> QED BY <1>1, <1>9, <3>1
  <2>2. PICK f \in 1 .. k : \E i \in 1 .. Len(files[f]) :
               files[f][i].whole /\ files[f][i].entry = e
    BY <1>9, <2>1 DEF Untold
  <2>3. PICK i \in 1 .. Len(files[f]) : files[f][i].whole /\ files[f][i].entry = e
    BY <2>2
  <2>4. ~(i \in 1 .. Len(news[f]) /\ news[f][i] = files[f][i])
    BY <2>3 DEF Untold
  <2>5. f = k
    BY <2>4
  <2>6. i \in 1 .. m
    BY <2>5 DEF m
  <2>7. ~(i \in 1 .. Len(w) - 1)
    <3>1. i \in 1 .. Len(w) - 1 => i \in 1 .. Len(w)
      BY <1>5
    <3> QED BY <1>4, <2>4, <2>5, <3>1
  <2>8. Open(l) /\ i = m
    BY <1>3, <1>4, <2>6, <2>7
  <2> QED BY <2>3, <2>5, <2>8
<1>10. w[last].whole => n + 1 \notin Untold(news, n + 1)
  <2>1. last \in 1 .. Len(news[k])
    BY <1>4, <1>5 DEF last
  <2> QED BY <1>1, <1>4, <2>1 DEF Untold, last
<1>11. /\ IsFiniteSet(Untold(files, n)) /\ u \in Nat /\ v \in Nat
       /\ v <= u \/ ~(Untold(news, n + 1) \subseteq Untold(files, n))
       /\ v <= u + 1 \/ ~(Untold(news, n + 1) \subseteq Untold(files, n) \cup {n + 1})
       /\ v <= u + 2 \/ ~(Untold(news, n + 1) \subseteq Untold(files, n) \cup {n + 1, l[m].entry})
  <2>1. IsFiniteSet(Untold(files, n)) /\ IsFiniteSet(Untold(news, n + 1))
    BY <1>1, UntoldIsFinite
  <2> QED BY <2>1, FewMore DEF u, v
<1>12. v + AtStake(w) <= u + AtStake(l) + 2 * d
  <2> DEFINE a == AtStake(w)
             b == AtStake(l)
  <2>1. a = IF ended THEN 0 ELSE IF w[last].whole THEN 2 ELSE 1
    <3>1. w # <<>>
      BY <1>4, EmptySeq
    <3>2. ended \in BOOLEAN /\ w[Len(w)].ended = ended
      BY <1>4
    <3> QED BY <3>1, <3>2 DEF AtStake, Open, last
  <2>2. w[last].whole = IF Open(l) THEN FALSE ELSE whole
    BY <1>4 DEF last
  <2>3. CASE Open(l) /\ l[m].whole
    <3>1. b = 2
      BY <2>3 DEF AtStake, m
    <3>2. a <= 2 * d
      BY <2>1, <2>2, <2>3
    <3>3. v <= u + 2
      BY <1>9, <1>11
    <3>4. a \in Nat
      BY <2>1
    <3> HIDE DEF a, b
    <3>5. v + a <= u + b + 2 * d
      BY <1>11, <3>1, <3>2, <3>3, <3>4
    <3> QED BY <3>5 DEF a, b
  <2>4. CASE Open(l) /\ ~l[m].whole
    <3>1. b = 1
      BY <2>4 DEF AtStake, m
    <3>2. a <= 2 * d
      BY <2>1, <2>2, <2>4
    <3>3. v <= u + 1
      BY <1>9, <1>11, <2>4
    <3>4. a \in Nat
      BY <2>1
    <3> HIDE DEF a, b
    <3>5. v + a <= u + b + 2 * d
      BY <1>11, <3>1, <3>2, <3>3, <3>4
    <3> QED BY <3>5 DEF a, b
  <2>5. CASE ~Open(l) /\ whole
    <3>1. b = 0
      BY <2>5 DEF AtStake
    <3>2. a <= 2 * d
      BY <2>1, <2>2, <2>5
    <3>3. v <= u
      BY <1>9, <1>10, <1>11, <2>2, <2>5
    <3>4. a \in Nat
      BY <2>1
    <3> HIDE DEF a, b
    <3>5. v + a <= u + b + 2 * d
      BY <1>11, <3>1, <3>2, <3>3, <3>4
    <3> QED BY <3>5 DEF a, b
  <2>6. CASE ~Open(l) /\ ~whole
    <3>1. b = 0 /\ d = 1
      BY <2>6 DEF AtStake
    <3>2. a <= 1
      BY <2>1, <2>2, <2>6
    <3>3. v <= u + 1
      BY <1>9, <1>11, <2>6
    <3>4. a \in Nat
      BY <2>1
    <3> HIDE DEF a, b
    <3>5. v + a <= u + b + 2 * d
      BY <1>11, <3>1, <3>2, <3>3, <3>4
    <3> QED BY <3>5 DEF a, b
  <2> QED BY <2>3, <2>4, <2>5, <2>6
<1>13. v + AtStake(news[Len(news)]) <= 2 * (c + d)
  <2> DEFINE a == AtStake(w)
             b == AtStake(l)
  <2>1. a \in 0 .. 2 /\ b \in 0 .. 2 /\ news[Len(news)] = w
    BY <1>3, <1>4, LinesAre
  <2>2. u + b <= 2 * c /\ v + a <= u + b + 2 * d
    BY <1>1, <1>12 DEF u
  <2> HIDE DEF a, b
  <2>3. v + a <= 2 * (c + d)
    BY <1>1, <1>11, <2>1, <2>2
  <2> QED BY <2>1, <2>3 DEF a
<1>14. n + 1 \in Nat /\ c + d \in Nat /\ Len(news) > 0
  BY <1>1
<1> QED BY <1>7, <1>8, <1>13, <1>14 DEF FilesOK, n, v

LEMMA NewFileKeeps ==
  ASSUME NEW n, NEW c, NEW files, FilesOK(files, n, c),
         NEW none, none = << >>, NEW news, news = Append(files, none)
  PROVE  FilesOK(news, n, c)
<1> DEFINE k == Len(files)
           l == files[k]
<1>1. /\ files \in Seq(Seq(Lines)) /\ k \in Nat /\ k > 0 /\ n \in Nat /\ c \in Nat
      /\ InOrder(files) /\ Cardinality(Untold(files, n)) + AtStake(l) <= 2 * c
  BY DEF FilesOK
<1>2. none \in Seq(Lines) /\ Len(none) = 0
  OBVIOUS
<1>3. /\ news \in Seq(Seq(Lines)) /\ Len(news) = k + 1 /\ news[k + 1] = none
      /\ \A f \in 1 .. k : news[f] = files[f]
  BY <1>1, <1>2, AppendProperties
<1>4. \A f \in 1 .. k + 1 : f \in 1 .. k \/ f = k + 1
  BY <1>1
<1>5. \A f \in 1 .. k + 1 : \A i \in 1 .. Len(news[f]) : f \in 1 .. k
  <2>1. \A i \in 1 .. Len(none) : FALSE
    BY <1>2
  <2> QED BY <1>3, <1>4, <2>1
<1>6. \A f \in 1 .. k : f \in 1 .. k + 1
  BY <1>1
<1>7. ASSUME NEW f \in 1 .. k + 1
      PROVE  /\ Len(news[f]) <= n
             /\ \A i \in 1 .. Len(news[f]) : news[f][i].entry \in 1 .. n
  <2>1. CASE f \in 1 .. k
    BY <1>3, <2>1 DEF FilesOK
  <2>2. CASE f = k + 1
    BY <1>1, <1>2, <1>3, <2>2
  <2> QED BY <1>4, <2>1, <2>2
<1>8. InOrder(news)
  BY <1>1, <1>3, <1>5 DEF InOrder
<1>9. Untold(news, n) = Untold(files, n)
  <2>1. ASSUME NEW e \in Untold(news, n) PROVE e \in Untold(files, n)
    <3>1. e \in 1 .. n
      BY DEF Untold
    <3>2. ASSUME NEW f \in 1 .. k, NEW i \in 1 .. Len(files[f])
          PROVE  ~(files[f][i].whole /\ files[f][i].entry = e)
      <4>1. f \in 1 .. Len(news) /\ news[f] = files[f]
        BY <1>3, <1>6
      <4> QED BY <4>1 DEF Untold
    <3> QED BY <3>1, <3>2 DEF Untold
  <2>2. ASSUME NEW e \in Untold(files, n) PROVE e \in Untold(news, n)
    <3>1. e \in 1 .. n
      BY DEF Untold
    <3>2. ASSUME NEW f \in 1 .. Len(news), NEW i \in 1 .. Len(news[f])
          PROVE  ~(news[f][i].whole /\ news[f][i].entry = e)
      <4>1. f \in 1 .. k /\ news[f] = files[f]
        BY <1>3, <1>5
      <4> QED BY <4>1 DEF Untold
    <3> QED BY <3>1, <3>2 DEF Untold
  <2> QED BY <2>1, <2>2
<1>10. Cardinality(Untold(news, n)) + AtStake(none) <= 2 * c
  <2>1. AtStake(none) = 0
    BY DEF AtStake, Open
  <2>2. l \in Seq(Lines)
    BY <1>1, ElementOfSeq
  <2>3. AtStake(l) \in 0 .. 2
    BY <2>2, LinesAre
  <2>4. Cardinality(Untold(files, n)) \in Nat
    BY <1>1, UntoldIsFinite, FS_CardinalityType
  <2> HIDE DEF l
  <2> QED BY <1>1, <1>9, <2>1, <2>3, <2>4
<1> QED BY <1>1, <1>3, <1>7, <1>8, <1>10 DEF FilesOK

-----------------------------------------------------------------------------
TrailOK ==
  /\ rotated \in Seq(Seq(Lines)) /\ auditLog \in Seq(Lines)
  /\ logged \in 0 .. MaxEntries
  /\ faults \in [n : Nat, cuts : Nat]
  /\ FilesOK(Append(rotated, auditLog), logged, faults.cuts)

LEMMA FaultCounts ==
  ASSUME faults \in [n : Nat, cuts : Nat], NEW k \in Nat, Fault(k)
  PROVE  faults' \in [n : Nat, cuts : Nat] /\ faults.cuts' = faults.cuts + k
<1>1. faults.n \in Nat /\ faults.cuts \in Nat
  OBVIOUS
<1> DEFINE a == faults.n + 1
           b == faults.cuts + k
<1>2. a \in Nat /\ b \in Nat
  BY <1>1
<1>3. faults' = [n |-> a, cuts |-> b]
  BY DEF Fault
<1> HIDE DEF a, b
<1>4. faults' \in [n : Nat, cuts : Nat] /\ faults.cuts' = b
  BY <1>2, <1>3
<1> QED BY <1>4 DEF b

LEMMA LogKeeps == ASSUME TrailOK, Log PROVE TrailOK'
<1> DEFINE files == Append(rotated, auditLog)
           well == WithLine(auditLog, TRUE, TRUE)
           k == Len(rotated) + 1
<1>1. /\ rotated \in Seq(Seq(Lines)) /\ auditLog \in Seq(Lines) /\ logged \in Nat
      /\ faults \in [n : Nat, cuts : Nat] /\ FilesOK(files, logged, faults.cuts)
  BY DEF TrailOK
<1>2. logged' = logged + 1 /\ logged' \in 0 .. MaxEntries
  BY EvidenceAssumption DEF Log, TrailOK
<1>3. PICK lines \in {auditLog, WithLine(auditLog, FALSE, FALSE), WithLine(auditLog, TRUE, FALSE), well} :
        \/ /\ Len(lines) > FileLimit /\ RotateIfNeeded(lines)
           /\ IF lines = well THEN UNCHANGED faults ELSE Fault(1)
        \/ /\ auditLog' = lines /\ UNCHANGED rotated
           /\ IF lines = well /\ Len(lines) <= FileLimit THEN UNCHANGED faults
              ELSE Fault(IF lines = well THEN 0 ELSE 1)
  BY DEF Log
<1>4. PICK d \in {0, 1} : d = IF lines = well THEN 0 ELSE 1
  OBVIOUS
<1>5. faults' \in [n : Nat, cuts : Nat] /\ faults.cuts' = faults.cuts + d
  <2>1. faults.cuts \in Nat
    BY <1>1
  <2>2. CASE UNCHANGED faults /\ lines = well
    BY <1>1, <1>4, <2>1, <2>2
  <2>3. CASE Fault(d)
    BY <1>1, <2>3, FaultCounts
  <2> QED BY <1>3, <1>4, <2>2, <2>3
<1> DEFINE mid == Append(rotated, lines)
<1>6. \A l \in Seq(Lines) :
        /\ Append(rotated, l) \in Seq(Seq(Lines)) /\ Len(Append(rotated, l)) = k
        /\ Append(rotated, l)[k] = l
        /\ \A f \in 1 .. k : f # k => Append(rotated, l)[f] = rotated[f]
  <2> SUFFICES ASSUME NEW l \in Seq(Lines)
               PROVE  /\ Append(rotated, l) \in Seq(Seq(Lines)) /\ Len(Append(rotated, l)) = k
                      /\ Append(rotated, l)[k] = l
                      /\ \A f \in 1 .. k : f # k => Append(rotated, l)[f] = rotated[f]
    OBVIOUS
  <2>1. \A f \in 1 .. k : f # k => f \in 1 .. Len(rotated)
    BY <1>1, LenProperties
  <2>2. /\ Append(rotated, l) \in Seq(Seq(Lines)) /\ Len(Append(rotated, l)) = k
        /\ Append(rotated, l)[k] = l
        /\ \A f \in 1 .. Len(rotated) : Append(rotated, l)[f] = rotated[f]
    BY <1>1, AppendProperties
  <2> QED BY <2>1, <2>2
<1>7. lines \in Seq(Lines) /\ FilesOK(mid, logged + 1, faults.cuts + d)
  <2>1. CASE lines = auditLog /\ lines # well
    <3>1. FilesOK(files, logged + 1, faults.cuts + 1)
      BY <1>1, NothingWritten
    <3> QED BY <1>1, <1>4, <2>1, <3>1
  <2>2. CASE \E whole, ended \in BOOLEAN :
               lines = WithLine(auditLog, whole, ended) /\ (d = 0 => whole /\ ended)
    <3>1. PICK whole \in BOOLEAN, ended \in BOOLEAN :
            lines = WithLine(auditLog, whole, ended) /\ (d = 0 => whole /\ ended)
      BY <2>2
    <3>2. lines \in Seq(Lines)
      <4>1. Takes(auditLog, lines, whole, ended)
        BY <1>1, <3>1, WithLineIs, Zenon
      <4> QED BY <4>1, Zenon DEF Takes
    <3> HIDE DEF files, mid, k
    <3>3. /\ files[k] = auditLog /\ Len(files) = k
          /\ mid \in Seq(Seq(Lines)) /\ Len(mid) = k /\ mid[k] = lines
          /\ \A f \in 1 .. k : f # k => mid[f] = files[f]
      BY <1>1, <1>6, <3>2 DEF files, mid
    <3>4. FilesOK(mid, logged + 1, faults.cuts + d)
      <4>1. NewestFileIs(files, WithLine(files[Len(files)], whole, ended), mid)
        BY <3>1, <3>3, Zenon DEF NewestFileIs
      <4> QED BY <1>1, <3>1, <4>1, SomethingWritten
    <3> QED BY <3>2, <3>4 DEF mid
  <2>3. CASE lines = well
    <3>1. TRUE \in BOOLEAN /\ lines = WithLine(auditLog, TRUE, TRUE)
      BY <2>3
    <3> HIDE DEF well
    <3> QED BY <2>2, <3>1
  <2>4. CASE lines # well
    <3>1. d # 0
      BY <1>4, <2>4
    <3>2. CASE lines = WithLine(auditLog, FALSE, FALSE)
      BY <2>2, <3>1, <3>2
    <3>3. CASE lines = WithLine(auditLog, TRUE, FALSE)
      BY <2>2, <3>1, <3>3
    <3> HIDE DEF well
    <3> QED BY <1>3, <2>1, <2>4, <3>2, <3>3
  <2> QED BY <2>3, <2>4
<1> HIDE DEF files
<1>8. CASE auditLog' = lines /\ UNCHANGED rotated
  <2>1. Append(rotated, auditLog)' = mid
    BY <1>8
  <2> QED BY <1>1, <1>2, <1>5, <1>7, <1>8, <2>1 DEF TrailOK
<1>9. CASE RotateIfNeeded(lines)
  <2> DEFINE none == << >>
  <2>1. auditLog' = none /\ rotated' = mid /\ none \in Seq(Lines)
    BY <1>9 DEF RotateIfNeeded
  <2>2. mid \in Seq(Seq(Lines))
    BY <1>6, <1>7
  <2>3. none = << >>
    OBVIOUS
  <2> HIDE DEF none, mid
  <2>4. FilesOK(Append(mid, none), logged + 1, faults.cuts + d)
    BY <1>7, <2>3, NewFileKeeps
  <2> QED BY <1>2, <1>5, <2>1, <2>2, <2>4 DEF TrailOK
<1> QED BY <1>3, <1>8, <1>9

-----------------------------------------------------------------------------
(* The reports: the file's are always the end of what was saved.           *)
Reports == {"missing", "valid", "invalid"} \cup {ComplianceReport(m) : m \in Measured}

EndOf(s) ==
  SubSeq(s, IF Len(s) > KeptReports THEN Len(s) - KeptReports + 1 ELSE 1, Len(s))

ReportsOK ==
  /\ reportFile \in [Kinds -> [torn : BOOLEAN, reports : Seq(Reports)]]
  /\ reported \in [Kinds -> Seq(Reports)]
  /\ \A kind \in Kinds : reportFile[kind].reports = EndOf(reported[kind])
  /\ verifying \in [Verifiers ->
       {NotVerifying, [at |-> "begun"]}
         \cup {[at |-> "checked", status |-> s] : s \in {"missing", "valid", "invalid"}}]

LEMMA TrimmedIsEnd ==
  ASSUME NEW S, NEW s \in Seq(S), NEW x \in S
  PROVE  Append(s, x) \in Seq(S) /\ Trimmed(Append(EndOf(s), x)) = EndOf(Append(s, x))
<1> DEFINE t == Append(s, x)
           n == Len(s)
<1>a. PICK d : d = IF n > KeptReports THEN n - KeptReports ELSE 0
  OBVIOUS
<1>b. PICK k : k = IF n >= KeptReports THEN 1 ELSE 0
  OBVIOUS
<1> DEFINE a == SubSeq(t, d + 1, n + 1)
           e == SubSeq(s, d + 1, n)
           f == SubSeq(t, d + 1, n)
<1>1. n \in Nat /\ KeptReports \in Nat /\ KeptReports > 0
  BY LenProperties, EvidenceAssumption
<1>2. /\ d \in 0 .. n /\ d \in Nat /\ k \in 0 .. (n + 1) - d /\ k \in Nat
      /\ d + 1 = IF n > KeptReports THEN (n - KeptReports) + 1 ELSE 1
      /\ d + k + 1 = IF n + 1 > KeptReports THEN ((n + 1) - KeptReports) + 1 ELSE 1
      /\ k + 1 = IF (n + 1) - d > KeptReports THEN 2 ELSE 1
  <2> HIDE DEF n
  <2>1. CASE n > KeptReports
    BY <1>1, <1>a, <1>b, <2>1
  <2>2. CASE n = KeptReports
    BY <1>1, <1>a, <1>b, <2>2
  <2>3. CASE n < KeptReports
    BY <1>1, <1>a, <1>b, <2>3
  <2> QED BY <1>1, <2>1, <2>2, <2>3
<1>3. /\ t \in Seq(S) /\ Len(t) = n + 1 /\ t[n + 1] = x
      /\ \A i \in 1 .. n : t[i] = s[i]
  BY AppendProperties
<1>4. EndOf(s) = e
  BY <1>2 DEF EndOf
<1>5. EndOf(t) = SubSeq(t, d + k + 1, n + 1)
  <2> HIDE DEF t
  <2> QED BY <1>2, <1>3 DEF EndOf
<1> HIDE DEF t
<1>6. e = f
  <2>0. n \in 0 .. Len(s) /\ 0 \in 0 .. n - d
    BY <1>1, <1>2
  <2>1. \A i \in 1 .. n - d : e[i] = s[d + i]
    BY <1>2, <2>0, CutOfCut
  <2>2. e \in Seq(S) /\ Len(e) = n - d
    BY <1>2, <2>0, CutOfCut
  <2>3. n \in 0 .. Len(t) /\ 0 \in 0 .. n - d
    BY <1>1, <1>2, <1>3
  <2>4. /\ f \in Seq(S) /\ Len(f) = n - d
        /\ \A i \in 1 .. n - d : f[i] = t[d + i]
    BY <1>2, <1>3, <2>3, CutOfCut
  <2> HIDE DEF e, f
  <2>5. ASSUME NEW i \in 1 .. n - d PROVE e[i] = f[i]
    <3>1. d + i \in 1 .. n
      BY <1>1, <1>2
    <3> QED BY <1>3, <2>1, <2>4, <3>1
  <2> QED BY <2>2, <2>4, <2>5, SeqEqual
<1>7. Append(e, x) = a
  <2>1. n < Len(t)
    BY <1>1, <1>3
  <2>2. Append(f, t[n + 1]) = a
    BY <1>1, <1>2, <1>3, <2>1, CutGrows
  <2> HIDE DEF a, e, f
  <2> QED BY <1>3, <1>6, <2>2
<1>8. /\ Len(a) = (n + 1) - d
      /\ SubSeq(a, k + 1, (n + 1) - d) = SubSeq(t, d + k + 1, n + 1)
  <2> DEFINE p == n + 1
  <2>1. p \in 0 .. Len(t) /\ d \in 0 .. p /\ k \in 0 .. p - d /\ t \in Seq(S)
    BY <1>1, <1>2, <1>3
  <2> HIDE DEF p
  <2>2. /\ Len(SubSeq(t, d + 1, p)) = p - d
        /\ SubSeq(SubSeq(t, d + 1, p), k + 1, p - d) = SubSeq(t, d + k + 1, p)
    BY ONLY <2>1, CutOfCut
  <2> QED BY <2>2 DEF p
<1>9. Trimmed(a) = SubSeq(a, k + 1, (n + 1) - d)
  <2> HIDE DEF a
  <2> QED BY <1>2, <1>8 DEF Trimmed
<1> HIDE DEF a, e
<1> QED BY <1>3, <1>4, <1>5, <1>7, <1>8, <1>9 DEF t

LEMMA EndOfNone == ASSUME NEW none, none = << >> PROVE EndOf(none) = none /\ Len(none) = 0
<1>1. Len(none) = 0
  OBVIOUS
<1>2. SubSeq(none, 1, 0) = none
  OBVIOUS
<1> QED BY <1>1, <1>2, EvidenceAssumption DEF EndOf

LEMMA SavingKeeps ==
  ASSUME ReportsOK, NEW kind \in Kinds, NEW x \in Reports, SaveReport(kind, x)
  PROVE  /\ reportFile' \in [Kinds -> [torn : BOOLEAN, reports : Seq(Reports)]]
         /\ reported' \in [Kinds -> Seq(Reports)]
         /\ \A k \in Kinds : reportFile[k].reports' = EndOf(reported[k]')
<1> DEFINE FileOf == [torn : BOOLEAN, reports : Seq(Reports)]
           Paired(file, kept) == /\ file \in [Kinds -> FileOf]
                                  /\ kept \in [Kinds -> Seq(Reports)]
                                  /\ \A k \in Kinds : file[k].reports = EndOf(kept[k])
<1>0. Paired(reportFile, reported)
  BY DEF ReportsOK
<1>1. ASSUME NEW s \in Seq(Reports), NEW r \in Seq(Reports), r = EndOf(s), NEW b \in BOOLEAN,
             NEW file, file = [torn |-> b, reports |-> r],
             reportFile' = [reportFile EXCEPT ![kind] = file],
             reported' = [reported EXCEPT ![kind] = s]
      PROVE  Paired(reportFile', reported')
  <2>1. file \in FileOf /\ file.reports = r
    BY <1>1
  <2> HIDE DEF FileOf
  <2>2. reportFile' \in [Kinds -> FileOf] /\ reported' \in [Kinds -> Seq(Reports)]
    BY <1>0, <1>1, <2>1
  <2>3. ASSUME NEW k \in Kinds PROVE reportFile'[k].reports = EndOf(reported'[k])
    <3>1. CASE k = kind
      BY <1>0, <1>1, <2>1, <3>1
    <3>2. CASE k # kind
      BY <1>0, <1>1, <3>2
    <3> QED BY <3>1, <3>2
  <2> QED BY <2>2, <2>3
<1>2. Paired(reportFile', reported')
  <2>1. CASE /\ reportFile' = [reportFile EXCEPT ![kind] =
                                 ReportsOf(Trimmed(Append(reportFile[kind].reports, x)))]
             /\ reported' = [reported EXCEPT ![kind] = Append(reported[kind], x)]
    <3> DEFINE s == Append(reported[kind], x)
               r == Trimmed(Append(reportFile[kind].reports, x))
               file == ReportsOf(r)
    <3>1. reported[kind] \in Seq(Reports) /\ reportFile[kind].reports = EndOf(reported[kind])
      BY <1>0
    <3>2. s \in Seq(Reports) /\ r = EndOf(s)
      BY <3>1, TrimmedIsEnd
    <3>3. r \in Seq(Reports)
      <4>1. Len(s) \in Nat /\ \A i \in 1 .. Len(s) : s[i] \in Reports
        <5> HIDE DEF s
        <5> QED BY <3>2, ElementOfSeq, LenProperties
      <4> DEFINE m == IF Len(s) > KeptReports THEN Len(s) - KeptReports + 1 ELSE 1
      <4>2. m \in Nat /\ m > 0
        BY <4>1, EvidenceAssumption
      <4>3. EndOf(s) = SubSeq(s, m, Len(s))
        BY DEF EndOf
      <4> HIDE DEF s, m
      <4>4. \A i \in m .. Len(s) : s[i] \in Reports
        BY <4>1, <4>2
      <4>5. SubSeq(s, m, Len(s)) \in Seq(Reports)
        BY <3>2, <4>1, <4>2, <4>4, SubSeqProperties
      <4> QED BY <3>2, <4>3, <4>5
    <3>4. file = [torn |-> FALSE, reports |-> r]
      BY DEF ReportsOf
    <3>5. /\ reportFile' = [reportFile EXCEPT ![kind] = file]
          /\ reported' = [reported EXCEPT ![kind] = s]
      BY <2>1
    <3> HIDE DEF s, r, file, Paired
    <3> QED BY <1>1, <3>2, <3>3, <3>4, <3>5
  <2>2. CASE UNCHANGED <<reportFile, reported>>
    BY <1>0, <2>2
  <2>4. CASE /\ reportFile' = [reportFile EXCEPT ![kind] = ReportsOf(<<x>>)]
             /\ reported' = [reported EXCEPT ![kind] = <<x>>]
    <3> DEFINE s == <<x>>
               file == ReportsOf(s)
    <3>1. s \in Seq(Reports) /\ Len(s) = 1
      OBVIOUS
    <3>2. file = [torn |-> FALSE, reports |-> s]
      BY DEF ReportsOf
    <3>3. /\ reportFile' = [reportFile EXCEPT ![kind] = file]
          /\ reported' = [reported EXCEPT ![kind] = s]
      BY <2>4
    <3> HIDE DEF s, file, Paired
    <3>4. s = EndOf(s)
      <4>1. EndOf(s) = SubSeq(s, 1, 1)
        BY <3>1, EvidenceAssumption DEF EndOf
      <4> DEFINE t == SubSeq(s, 1, 1)
      <4>2. 1 \in Nat /\ \A i \in 1 .. 1 : s[i] \in Reports
        BY <3>1, ElementOfSeq
      <4>3. /\ t \in Seq(Reports) /\ Len(t) = (1 - 1) + 1
            /\ \A i \in 1 .. (1 - 1) + 1 : t[i] = s[(1 + i) - 1]
        BY <3>1, <4>2, SubSeqProperties
      <4> HIDE DEF t
      <4>4. Len(t) = 1 /\ \A i \in 1 .. 1 : t[i] = s[i]
        BY <4>3
      <4> QED BY <3>1, <4>1, <4>3, <4>4, SeqEqual DEF t
    <3> QED BY <1>1, <3>1, <3>2, <3>3, <3>4
  <2>3. CASE /\ reportFile' = [reportFile EXCEPT ![kind] = TornReports]
             /\ reported' = [reported EXCEPT ![kind] = <<>>]
    <3> DEFINE none == << >>
               file == TornReports
    <3>1. none \in Seq(Reports) /\ none = EndOf(none)
      BY EndOfNone
    <3>2. file = [torn |-> TRUE, reports |-> none]
      BY DEF TornReports
    <3>3. /\ reportFile' = [reportFile EXCEPT ![kind] = file]
          /\ reported' = [reported EXCEPT ![kind] = none]
      BY <2>3
    <3> HIDE DEF none, file, Paired
    <3> QED BY <1>1, <3>1, <3>2, <3>3
  <2> QED BY <2>1, <2>2, <2>3, <2>4 DEF SaveReport
<1> QED BY <1>2

-----------------------------------------------------------------------------
EvidenceInv == TrailOK /\ ReportsOK

LEMMA EvidenceStarts == ASSUME EvidenceInit PROVE EvidenceInv
<1> DEFINE none == << >>
           files == Append(none, none)
<1>1. /\ none \in Seq(Lines) /\ none \in Seq(Seq(Lines)) /\ none \in Seq(Reports)
      /\ Len(none) = 0 /\ AtStake(none) = 0
  BY DEF AtStake, Open
<1>2. files \in Seq(Seq(Lines)) /\ Len(files) = 1 /\ files[1] = none
  <2> HIDE DEF none
  <2> QED BY <1>1, AppendProperties
<1>3. none = EndOf(none)
  BY EndOfNone
<1>4. auditLog = none /\ rotated = none
  BY DEF EvidenceInit
<1> HIDE DEF none, files
<1>5. FilesOK(files, 0, 0)
  <2>1. \A f \in 1 .. Len(files) : files[f] = none
    BY <1>2
  <2>2. InOrder(files)
    BY <1>1, <2>1 DEF InOrder
  <2>3. Untold(files, 0) = {}
    BY DEF Untold
  <2>4. Cardinality(Untold(files, 0)) = 0
    BY <2>3, FS_EmptySet
  <2>5. Cardinality(Untold(files, 0)) + AtStake(files[Len(files)]) <= 2 * 0
    BY <1>1, <1>2, <2>4
  <2> QED BY <1>1, <1>2, <2>1, <2>2, <2>5 DEF FilesOK
<1>6. TrailOK
  <2>1. logged = 0 /\ faults = [n |-> 0, cuts |-> 0] /\ Append(rotated, auditLog) = files
    BY <1>4 DEF EvidenceInit, files
  <2> QED BY <1>1, <1>4, <1>5, <2>1, EvidenceAssumption DEF TrailOK
<1>7. ReportsOK
  <2> DEFINE file == ReportsOf(none)
  <2>1. file = [torn |-> FALSE, reports |-> none]
    BY DEF ReportsOf
  <2>2. file \in [torn : BOOLEAN, reports : Seq(Reports)] /\ file.reports = none
    BY <1>1, <2>1
  <2>3. /\ reportFile = [k \in Kinds |-> file] /\ reported = [k \in Kinds |-> none]
        /\ verifying = [v \in Verifiers |-> NotVerifying]
    BY DEF EvidenceInit, none
  <2> HIDE DEF file
  <2> QED BY <1>1, <1>3, <2>2, <2>3 DEF ReportsOK
<1> QED BY <1>6, <1>7 DEF EvidenceInv

LEMMA TrailStays ==
  ASSUME TrailOK, UNCHANGED trail, UNCHANGED faults \/ Fault(0)
  PROVE  TrailOK'
<1>1. /\ rotated' = rotated /\ auditLog' = auditLog /\ logged' = logged
      /\ faults \in [n : Nat, cuts : Nat]
  BY DEF trail, TrailOK
<1>2. faults' \in [n : Nat, cuts : Nat] /\ faults'.cuts = faults.cuts
  <2>1. faults.cuts \in Nat
    BY <1>1
  <2> QED BY <1>1, <2>1, FaultCounts
<1> QED BY <1>1, <1>2 DEF TrailOK

(* A verification's step and the reports.                                  *)
LEMMA VerifyingKeeps ==
  ASSUME ReportsOK, UNCHANGED <<reportFile, reported>>, NEW v \in Verifiers, NEW s,
         s \in {NotVerifying, [at |-> "begun"]}
                 \cup {[at |-> "checked", status |-> t] : t \in {"missing", "valid", "invalid"}},
         verifying' = [verifying EXCEPT ![v] = s]
  PROVE  ReportsOK'
BY DEF ReportsOK

LEMMA EvidenceKeeps == ASSUME EvidenceInv, [EvidenceNext]_evidenceVars PROVE EvidenceInv'
<1>0. TrailOK /\ ReportsOK
  BY DEF EvidenceInv
<1>1. CASE Log
  <2>1. TrailOK'
    BY <1>0, <1>1, LogKeeps
  <2>2. ReportsOK'
    BY <1>0, <1>1 DEF Log, ReportsOK
  <2> QED BY <2>1, <2>2 DEF EvidenceInv
<1>2. CASE EvidenceProcessEnds
  <2>1. TrailOK'
    BY <1>0, <1>2, TrailStays DEF EvidenceProcessEnds
  <2>2. ReportsOK'
    BY <1>0, <1>2 DEF EvidenceProcessEnds, ReportsOK
  <2> QED BY <2>1, <2>2 DEF EvidenceInv
<1>3. ASSUME NEW v \in Verifiers, BeginVerification(v) PROVE EvidenceInv'
  <2>1. TrailOK'
    BY <1>0, <1>3, TrailStays DEF BeginVerification
  <2>2. ReportsOK'
    <3> DEFINE s == [at |-> "begun"]
    <3>1. /\ s \in {NotVerifying, [at |-> "begun"]}
                \cup {[at |-> "checked", status |-> t] : t \in {"missing", "valid", "invalid"}}
          /\ verifying' = [verifying EXCEPT ![v] = s]
      BY <1>3 DEF BeginVerification
    <3>2. UNCHANGED <<reportFile, reported>>
      BY <1>3 DEF BeginVerification
    <3> HIDE DEF s
    <3> QED BY <1>0, <3>1, <3>2, VerifyingKeeps
  <2> QED BY <2>1, <2>2 DEF EvidenceInv
<1>4. ASSUME NEW v \in Verifiers, CheckFile(v) PROVE EvidenceInv'
  <2>1. TrailOK'
    BY <1>0, <1>4, TrailStays DEF CheckFile
  <2>2. ReportsOK'
    <3> DEFINE t == IF auditLog = <<>> THEN "missing"
                    ELSE IF ValidateFileFormat(auditLog) THEN "valid" ELSE "invalid"
               s == [at |-> "checked", status |-> t]
    <3>1. t \in {"missing", "valid", "invalid"}
      OBVIOUS
    <3>2. /\ verifying' = [verifying EXCEPT ![v] = s] /\ UNCHANGED <<reportFile, reported>>
      BY <1>4 DEF CheckFile
    <3> HIDE DEF t
    <3>3. s \in {NotVerifying, [at |-> "begun"]}
                \cup {[at |-> "checked", status |-> x] : x \in {"missing", "valid", "invalid"}}
      BY <3>1
    <3> HIDE DEF s
    <3> QED BY <1>0, <3>2, <3>3, VerifyingKeeps
  <2> QED BY <2>1, <2>2 DEF EvidenceInv
<1>5. ASSUME NEW v \in Verifiers, EndVerification(v) PROVE EvidenceInv'
  <2>1. TrailOK'
    BY <1>0, <1>5, TrailStays DEF EndVerification, SaveReport
  <2>2. PICK x : x = verifying[v].status
    OBVIOUS
  <2>3. x \in Reports
    <3>1. verifying[v].at = "checked"
      BY <1>5 DEF EndVerification
    <3>2. verifying[v] \in {NotVerifying, [at |-> "begun"]}
            \cup {[at |-> "checked", status |-> s] : s \in {"missing", "valid", "invalid"}}
      BY <1>0 DEF ReportsOK
    <3>3. PICK s \in {"missing", "valid", "invalid"} : verifying[v] = [at |-> "checked", status |-> s]
      BY <3>1, <3>2 DEF NotVerifying
    <3> QED BY <2>2, <3>3 DEF Reports
  <2>4. SaveReport("integrity", x) /\ "integrity" \in Kinds
    BY <1>5, <2>2 DEF EndVerification, Kinds
  <2>5. /\ reportFile' \in [Kinds -> [torn : BOOLEAN, reports : Seq(Reports)]]
        /\ reported' \in [Kinds -> Seq(Reports)]
        /\ \A k \in Kinds : reportFile[k].reports' = EndOf(reported[k]')
    BY <1>0, <2>3, <2>4, SavingKeeps
  <2>6. verifying' \in [Verifiers ->
          {NotVerifying, [at |-> "begun"]}
            \cup {[at |-> "checked", status |-> s] : s \in {"missing", "valid", "invalid"}}]
    BY <1>0, <1>5 DEF EndVerification, ReportsOK
  <2>7. ReportsOK'
    BY <2>5, <2>6 DEF ReportsOK
  <2> QED BY <2>1, <2>7 DEF EvidenceInv
<1>6. ASSUME NEW metrics \in Measured, VerifyCompliance(metrics) PROVE EvidenceInv'
  <2>1. TrailOK'
    BY <1>0, <1>6, TrailStays DEF VerifyCompliance, SaveReport
  <2>2. PICK x : x = ComplianceReport(metrics)
    OBVIOUS
  <2>3. x \in Reports /\ SaveReport("compliance", x) /\ "compliance" \in Kinds
    BY <1>6, <2>2 DEF VerifyCompliance, Kinds, Reports
  <2>4. /\ reportFile' \in [Kinds -> [torn : BOOLEAN, reports : Seq(Reports)]]
        /\ reported' \in [Kinds -> Seq(Reports)]
        /\ \A k \in Kinds : reportFile[k].reports' = EndOf(reported[k]')
    BY <1>0, <2>3, SavingKeeps
  <2>5. ReportsOK'
    BY <1>0, <1>6, <2>4 DEF VerifyCompliance, ReportsOK
  <2> QED BY <2>1, <2>5 DEF EvidenceInv
<1>7. CASE UNCHANGED evidenceVars
  BY <1>0, <1>7, TrailStays DEF evidenceVars, trail, EvidenceInv, ReportsOK
<1> QED BY <1>1, <1>2, <1>3, <1>4, <1>5, <1>6, <1>7 DEF EvidenceNext

LEMMA EvidenceSuffices == EvidenceInv => EvidenceIsKept
<1> SUFFICES ASSUME EvidenceInv PROVE EvidenceIsKept
  OBVIOUS
<1>1. TrailLosesLittle
  <2> DEFINE files == Append(rotated, auditLog)
             read(f) == ReadAuditTrail(files[f], MaxEntries)
             told == UNION {Range(read(f)) : f \in DOMAIN files}
             u == Cardinality(Untold(files, logged))
             a == AtStake(files[Len(files)])
  <2>1. FilesOK(files, logged, faults.cuts) /\ logged <= MaxEntries /\ MaxEntries \in Nat
    BY EvidenceAssumption DEF EvidenceInv, TrailOK
  <2> HIDE DEF files
  <2>2. /\ files \in Seq(Seq(Lines)) /\ DOMAIN files = 1 .. Len(files) /\ logged \in Nat
        /\ Len(files) \in 1 .. Len(files) /\ InOrder(files) /\ u + a <= 2 * faults.cuts
        /\ faults.cuts \in Nat
    BY <2>1 DEF FilesOK
  <2>3. ASSUME NEW f \in DOMAIN files
        PROVE  /\ DOMAIN read(f) = {j \in 1 .. Len(files[f]) : files[f][j].whole}
               /\ \A j \in DOMAIN read(f) : read(f)[j] = files[f][j].entry
    <3>1. files[f] \in Seq(Lines) /\ Len(files[f]) \in Nat
      BY <2>2, ElementOfSeq, LenProperties
    <3>2. Len(files[f]) <= MaxEntries
      BY <2>1, <2>2, <3>1 DEF FilesOK
    <3>3. DOMAIN files[f] = 1 .. Len(files[f])
      BY <3>1
    <3>4. \A j \in 1 .. Len(files[f]) : j + MaxEntries > Len(files[f])
      BY <2>1, <3>1, <3>2
    <3> QED BY <3>3, <3>4 DEF ReadAuditTrail
  <2> HIDE DEF read
  <2>4. ASSUME NEW f \in DOMAIN files, NEW g \in DOMAIN files,
               NEW i \in DOMAIN read(f), NEW j \in DOMAIN read(g), f < g \/ (f = g /\ i < j)
        PROVE  read(f)[i] < read(g)[j]
    <3>1. i \in 1 .. Len(files[f]) /\ j \in 1 .. Len(files[g])
      BY <2>3
    <3>2. files[f][i].entry < files[g][j].entry
      BY <2>2, <2>4, <3>1 DEF InOrder
    <3> QED BY <2>3, <3>2
  <2>5. (1 .. logged) \ told \subseteq Untold(files, logged)
    <3> SUFFICES ASSUME NEW e \in 1 .. logged, e \notin told PROVE e \in Untold(files, logged)
      OBVIOUS
    <3>1. ASSUME NEW f \in 1 .. Len(files), NEW i \in 1 .. Len(files[f]),
                 files[f][i].whole, files[f][i].entry = e
          PROVE  FALSE
      <4>1. i \in DOMAIN read(f) /\ read(f)[i] = e
        BY <2>2, <2>3, <3>1
      <4>2. e \in Range(read(f))
        BY <4>1 DEF Range
      <4> QED BY <2>2, <4>2
    <3> QED BY <3>1 DEF Untold
  <2>6. Cardinality((1 .. logged) \ told) <= u /\ Cardinality((1 .. logged) \ told) \in Nat /\ u \in Nat
    <3>1. IsFiniteSet(Untold(files, logged))
      BY <2>2, UntoldIsFinite
    <3>2. IsFiniteSet((1 .. logged) \ told)
      BY <2>5, <3>1, FS_Subset
    <3> HIDE DEF told
    <3> QED BY <2>5, <3>1, <3>2, FewMore, FS_CardinalityType
  <2>7. a \in 0 .. 2
    BY <2>2, ElementOfSeq, LinesAre
  <2> HIDE DEF told, u, a
  <2>8. Cardinality((1 .. logged) \ told) <= 2 * faults.cuts
    BY <2>2, <2>6, <2>7
  <2> QED BY <2>4, <2>8 DEF TrailLosesLittle, files, read, told
<1>2. ReportsAreLatest
  BY DEF EvidenceInv, ReportsOK, ReportsAreLatest, EndOf
<1> QED BY <1>1, <1>2 DEF EvidenceIsKept

(* For any number of verifications, files, failures and deaths, what the   *)
(* trail's files tell is in the order it was logged, each write that was   *)
(* cut cost at most two entries, and a report file holds the latest.       *)
THEOREM EvidenceStays == EvidenceSpec => []EvidenceIsKept
<1>1. EvidenceInit => EvidenceInv
  BY EvidenceStarts
<1>2. EvidenceInv /\ [EvidenceNext]_evidenceVars => EvidenceInv'
  BY EvidenceKeeps
<1> QED BY <1>1, <1>2, EvidenceSuffices, PTL DEF EvidenceSpec

(***************************************************************************)
(* The record of provenance.  Lineages follow the names that nodes give    *)
(* their parents, descendants the edges; the store keeps that the two say  *)
(* the same.  That a traversal's rounds suffice is counted: each but the   *)
(* last one finds another recorded id.                                     *)
(***************************************************************************)
NodeTypes == {"BUG", "PATTERN", "FIX", "TEST", "ROLLBACK"}
AllIds == UNION {Ids[type] : type \in NodeTypes}
Nodes == [id : AllIds, type : NodeTypes, parentIds : Seq(AllIds)]
Edges == [from : AllIds, to : AllIds,
          relationship : {"originates_from", "detects", "fixes", "validates", "reverts"}]

(* Node i names p as a parent.                                             *)
Names(nodes, i, p) ==
  \E k \in 1 .. Len(nodes[i].parentIds) : nodes[i].parentIds[k] = p

LinksAgree(nodes, edges) ==
  /\ \A e \in 1 .. Len(edges) : \E i \in 1 .. Len(nodes) :
       nodes[i].id = edges[e].to /\ Names(nodes, i, edges[e].from)
  /\ \A i \in 1 .. Len(nodes) : \A p \in AllIds : Names(nodes, i, p) =>
       \E e \in 1 .. Len(edges) : edges[e].from = p /\ edges[e].to = nodes[i].id

StoreOK(kept) ==
  /\ kept \in [nodes : Seq(Nodes), edges : Seq(Edges)]
  /\ Len(kept.nodes) <= MaxNodes
  /\ LinksAgree(kept.nodes, kept.edges)

ProvenanceInv == StoreOK(provenance) /\ StoreOK(provenanceFile)

LEMMA EmptyStoreOK == StoreOK(EmptyStore)
<1> DEFINE none == << >>
<1>1. none \in Seq(Nodes) /\ none \in Seq(Edges) /\ Len(none) = 0
  OBVIOUS
<1>2. EmptyStore = [nodes |-> none, edges |-> none]
  BY DEF EmptyStore
<1> HIDE DEF none
<1>3. LinksAgree(none, none)
  BY <1>1 DEF LinksAgree
<1> QED BY <1>1, <1>2, <1>3, ProvenanceAssumption DEF StoreOK

Leads(links, parents, id) ==
  /\ Len(links) = Len(parents)
  /\ \A k \in 1 .. Len(parents) : links[k].from = parents[k] /\ links[k].to = id

Joined(b, s, t) ==
  /\ Len(b) = Len(s) + Len(t)
  /\ \A i \in 1 .. Len(s) + Len(t) : b[i] = IF i <= Len(s) THEN s[i] ELSE t[i - Len(s)]

LEMMA NewNodeLinks ==
  ASSUME NEW nodes \in Seq(Nodes), NEW edges \in Seq(Edges), LinksAgree(nodes, edges),
         NEW n \in Nodes, NEW links \in Seq(Edges), NEW parents \in Seq(AllIds),
         parents = n.parentIds, Leads(links, parents, n.id), NEW b, Joined(b, edges, links)
  PROVE  LinksAgree(Append(nodes, n), b)
<1> DEFINE a == Append(nodes, n)
           k == Len(nodes)
           l == Len(edges)
<1>1. /\ a \in Seq(Nodes) /\ Len(a) = k + 1 /\ a[k + 1] = n /\ \A i \in 1 .. k : a[i] = nodes[i]
      /\ k \in Nat /\ l \in Nat /\ Len(links) \in Nat
  BY AppendProperties, LenProperties
<1>2. /\ Len(b) = l + Len(links)
      /\ \A i \in 1 .. Len(b) : b[i] = IF i <= l THEN edges[i] ELSE links[i - l]
  BY DEF Joined
<1>0. /\ Len(links) = Len(parents)
      /\ \A j \in 1 .. Len(parents) : links[j].from = parents[j] /\ links[j].to = n.id
  BY DEF Leads
<1> HIDE DEF a, k, l
<1>3. ASSUME NEW i \in 1 .. k, NEW p PROVE Names(a, i, p) <=> Names(nodes, i, p)
  <2>1. a[i] = nodes[i]
    BY <1>1
  <2> QED BY <2>1 DEF Names
<1>4. ASSUME NEW p PROVE Names(a, k + 1, p) <=> \E j \in 1 .. Len(parents) : parents[j] = p
  BY <1>1 DEF Names
<1>5. ASSUME NEW e \in 1 .. Len(b)
      PROVE  \E i \in 1 .. Len(a) : a[i].id = b[e].to /\ Names(a, i, b[e].from)
  <2>1. CASE e <= l
    <3>1. e \in 1 .. l /\ b[e] = edges[e]
      BY <1>1, <1>2, <2>1
    <3>2. PICK i \in 1 .. k : nodes[i].id = edges[e].to /\ Names(nodes, i, edges[e].from)
      BY <3>1 DEF LinksAgree, k, l
    <3>3. i \in 1 .. Len(a) /\ a[i] = nodes[i]
      BY <1>1
    <3> QED BY <1>3, <3>1, <3>2, <3>3
  <2>2. CASE ~(e <= l)
    <3>1. e - l \in 1 .. Len(parents) /\ b[e] = links[e - l]
      BY <1>0, <1>1, <1>2, <2>2
    <3>2. b[e].to = n.id /\ b[e].from = parents[e - l]
      BY <1>0, <3>1
    <3>3. k + 1 \in 1 .. Len(a) /\ a[k + 1].id = n.id
      BY <1>1
    <3> QED BY <1>4, <3>1, <3>2, <3>3
  <2> QED BY <2>1, <2>2
<1>6. ASSUME NEW i \in 1 .. Len(a), NEW p \in AllIds, Names(a, i, p)
      PROVE  \E e \in 1 .. Len(b) : b[e].from = p /\ b[e].to = a[i].id
  <2>1. CASE i \in 1 .. k
    <3>1. a[i] = nodes[i] /\ Names(nodes, i, p)
      BY <1>1, <1>3, <1>6, <2>1
    <3>2. PICK e \in 1 .. l : edges[e].from = p /\ edges[e].to = nodes[i].id
      BY <2>1, <3>1 DEF LinksAgree, k, l
    <3>3. e \in 1 .. Len(b) /\ e <= l
      BY <1>1, <1>2
    <3>4. b[e] = edges[e]
      BY <1>2, <3>3
    <3> QED BY <3>1, <3>2, <3>3, <3>4
  <2>2. CASE i = k + 1
    <3>1. PICK j \in 1 .. Len(parents) : parents[j] = p
      BY <1>4, <1>6, <2>2
    <3>2. l + j \in 1 .. Len(b) /\ b[l + j] = links[j]
      <4>1. l + j \in 1 .. Len(b) /\ ~(l + j <= l) /\ (l + j) - l = j
        BY <1>0, <1>1, <1>2
      <4> QED BY <1>2, <4>1
    <3> QED BY <1>0, <1>1, <2>2, <3>1, <3>2
  <2> QED BY <1>1, <2>1, <2>2
<1>7. LinksAgree(a, b)
  BY <1>5, <1>6 DEF LinksAgree
<1> QED BY <1>7 DEF a

LEMMA NewNodeKeeps ==
  ASSUME NEW kept, StoreOK(kept), Len(kept.nodes) < MaxNodes,
         NEW id \in AllIds, NEW type \in NodeTypes, NEW parents \in Seq(AllIds),
         NEW relationship \in {"originates_from", "detects", "fixes", "validates", "reverts"}
  PROVE  StoreOK(WithNode(kept, id, type, parents, relationship))
<1> DEFINE n == [id |-> id, type |-> type, parentIds |-> parents]
           link(k) == [from |-> parents[k], to |-> id, relationship |-> relationship]
           links == [k \in DOMAIN parents |-> link(k)]
           nodes == kept.nodes
           edges == kept.edges
           a == Append(nodes, n)
           b == edges \o links
<1>1. /\ nodes \in Seq(Nodes) /\ edges \in Seq(Edges) /\ Len(nodes) < MaxNodes
      /\ LinksAgree(nodes, edges)
  BY DEF StoreOK
<1>2. n \in Nodes /\ n.parentIds = parents /\ n.id = id
  BY DEF Nodes
<1>3. DOMAIN parents = 1 .. Len(parents) /\ Len(parents) \in Nat
  BY LenProperties
<1>4. \A k \in 1 .. Len(parents) : link(k) \in Edges /\ link(k).from = parents[k] /\ link(k).to = id
  BY ElementOfSeq DEF Edges
<1>5. links \in Seq(Edges) /\ Len(links) = Len(parents) /\ \A k \in 1 .. Len(parents) : links[k] = link(k)
  <2> HIDE DEF link
  <2>1. links = [k \in 1 .. Len(parents) |-> link(k)]
    BY <1>3
  <2> HIDE DEF links
  <2>2. links \in [1 .. Len(parents) -> Edges]
    BY <1>4, <2>1
  <2>3. links \in Seq(Edges) /\ Len(links) = Len(parents)
    BY <1>3, <2>2
  <2> QED BY <2>1, <2>3
<1> HIDE DEF n, link, links
<1>6. WithNode(kept, id, type, parents, relationship) = [nodes |-> a, edges |-> b]
  BY DEF WithNode, n, links, link
<1> HIDE DEF nodes, edges
<1>7. /\ b \in Seq(Edges) /\ Len(b) = Len(edges) + Len(links)
      /\ \A i \in 1 .. Len(edges) + Len(links) :
           b[i] = IF i <= Len(edges) THEN edges[i] ELSE links[i - Len(edges)]
  BY <1>1, <1>5, ConcatProperties
<1>8. a \in Seq(Nodes) /\ Len(a) = Len(nodes) + 1
  BY <1>1, <1>2, AppendProperties
<1> HIDE DEF b
<1>9. LinksAgree(a, b)
  <2>1. Leads(links, parents, n.id)
    BY <1>2, <1>4, <1>5 DEF Leads
  <2>2. Joined(b, edges, links)
    BY <1>7 DEF Joined
  <2> QED BY <1>1, <1>2, <1>5, <2>1, <2>2, NewNodeLinks
<1>10. Len(a) <= MaxNodes
  BY <1>1, <1>8, ProvenanceAssumption
<1> HIDE DEF a
<1> QED BY <1>6, <1>7, <1>8, <1>9, <1>10 DEF StoreOK

LEMMA SetToSeqIs ==
  ASSUME NEW S, IsFiniteSet(S), NEW T, S \subseteq T PROVE SetToSeq(S) \in Seq(T)
<1> DEFINE n == Cardinality(S)
           P(f) == f \in [1 .. n -> S] /\ IsInjective(f)
           f == CHOOSE f : P(f)
<1>1. n \in Nat /\ ExistsBijection(1 .. n, S)
  BY FS_CardinalityType
<1>2. \E g : P(g)
  BY <1>1 DEF ExistsBijection, Bijection, Injection, IsInjective
<1>3. SetToSeq(S) = f
  BY DEF SetToSeq
<1>4. P(f)
  <2> HIDE DEF P
  <2> QED BY <1>2
<1>5. f \in [1 .. n -> T]
  BY <1>4
<1> HIDE DEF f, n
<1> QED BY <1>1, <1>3, <1>5

LEMMA ProvenanceStarts == ProvenanceInit => ProvenanceInv
BY EmptyStoreOK DEF ProvenanceInit, ProvenanceInv

LEMMA RecordingKeeps ==
  ASSUME ProvenanceInv, NEW id \in AllIds, NEW type \in NodeTypes, NEW parents \in Seq(AllIds),
         NEW relationship \in {"originates_from", "detects", "fixes", "validates", "reverts"},
         RecordNode(id, type, parents, relationship)
  PROVE  ProvenanceInv'
<1> DEFINE kept == WithNode(provenance, id, type, parents, relationship)
<1>1. StoreOK(kept)
  BY NewNodeKeeps DEF ProvenanceInv, RecordNode
<1>2. provenance' = kept /\ provenanceFile' \in {kept, provenanceFile, EmptyStore}
  BY DEF RecordNode, SaveStore
<1> HIDE DEF kept
<1> QED BY <1>1, <1>2, EmptyStoreOK DEF ProvenanceInv

LEMMA ProvenanceKeeps ==
  ASSUME ProvenanceInv, [ProvenanceNext]_provenanceVars PROVE ProvenanceInv'
<1>0. ASSUME NEW x \in AllIds PROVE <<x>> \in Seq(AllIds)
  OBVIOUS
<1>1. ASSUME NEW id \in Ids.BUG, RecordBugCapture(id) PROVE ProvenanceInv'
  <2> DEFINE none == << >>
  <2>1. id \in AllIds /\ none \in Seq(AllIds)
    BY DEF AllIds, NodeTypes
  <2>2. RecordNode(id, "BUG", none, "originates_from")
    BY <1>1 DEF RecordBugCapture
  <2> HIDE DEF none
  <2> QED BY <2>1, <2>2, RecordingKeeps DEF NodeTypes
<1>2. ASSUME NEW id \in Ids.PATTERN, NEW bugs \in SUBSET Ids.BUG,
             RecordPatternDetection(id, SetToSeq(bugs))
      PROVE  ProvenanceInv'
  <2>1. id \in AllIds /\ bugs \subseteq AllIds
    BY DEF AllIds, NodeTypes
  <2>2. SetToSeq(bugs) \in Seq(AllIds)
    <3>1. IsFiniteSet(bugs)
      BY FS_Subset, ProvenanceAssumption
    <3> QED BY <2>1, <3>1, SetToSeqIs
  <2>3. RecordNode(id, "PATTERN", SetToSeq(bugs), "detects")
    BY <1>2 DEF RecordPatternDetection
  <2> QED BY <2>1, <2>2, <2>3, RecordingKeeps DEF NodeTypes
<1>3. ASSUME NEW id \in Ids.FIX, NEW pattern \in Ids.PATTERN, RecordFixApplication(id, pattern)
      PROVE  ProvenanceInv'
  <2>1. id \in AllIds /\ <<pattern>> \in Seq(AllIds)
    BY <1>0 DEF AllIds, NodeTypes
  <2>2. RecordNode(id, "FIX", <<pattern>>, "fixes")
    BY <1>3 DEF RecordFixApplication
  <2> QED BY <2>1, <2>2, RecordingKeeps DEF NodeTypes
<1>4. ASSUME NEW id \in Ids.TEST, NEW mend \in Ids.FIX, RecordTestExecution(id, mend)
      PROVE  ProvenanceInv'
  <2>1. id \in AllIds /\ <<mend>> \in Seq(AllIds)
    BY <1>0 DEF AllIds, NodeTypes
  <2>2. RecordNode(id, "TEST", <<mend>>, "validates")
    BY <1>4 DEF RecordTestExecution
  <2> QED BY <2>1, <2>2, RecordingKeeps DEF NodeTypes
<1>5. ASSUME NEW id \in Ids.ROLLBACK, NEW mend \in Ids.FIX, RecordRollback(id, mend)
      PROVE  ProvenanceInv'
  <2>1. id \in AllIds /\ <<mend>> \in Seq(AllIds)
    BY <1>0 DEF AllIds, NodeTypes
  <2>2. RecordNode(id, "ROLLBACK", <<mend>>, "reverts")
    BY <1>5 DEF RecordRollback
  <2> QED BY <2>1, <2>2, RecordingKeeps DEF NodeTypes
<1>6. CASE LoadStore
  BY <1>6 DEF LoadStore, ProvenanceInv
<1>7. CASE UNCHANGED provenanceVars
  BY <1>7 DEF provenanceVars, ProvenanceInv
<1> QED BY <1>1, <1>2, <1>3, <1>4, <1>5, <1>6, <1>7 DEF ProvenanceNext

(***************************************************************************)
(* A traversal, round by round.                                            *)
(***************************************************************************)
Rounds(v, id, links) ==
  v = [n \in 0 .. MaxNodes |-> IF n = 0 THEN {id} ELSE v[n - 1] \cup After(v[n - 1], links)]

LEMMA RoundsExist ==
  ASSUME NEW id, NEW links
  PROVE  \E v : Rounds(v, id, links)
<1> DEFINE Upto(m, v) == v = [n \in 0 .. m |->
                               IF n = 0 THEN {id} ELSE v[n - 1] \cup After(v[n - 1], links)]
           N == {m \in Nat : \E v : Upto(m, v)}
<1>1. 0 \in N
  <2> DEFINE v == [n \in 0 .. 0 |-> {id}]
             u == [n \in 0 .. 0 |-> IF n = 0 THEN {id} ELSE v[n - 1] \cup After(v[n - 1], links)]
  <2>1. v = u
    OBVIOUS
  <2> HIDE DEF v
  <2> QED BY <2>1
<1>2. ASSUME NEW m \in Nat, m \in N PROVE m + 1 \in N
  <2>1. PICK v : Upto(m, v)
    BY <1>2
  <2> DEFINE Step(w, n) == IF n = 0 THEN {id} ELSE w[n - 1] \cup After(w[n - 1], links)
             u == [n \in 0 .. m + 1 |-> Step(v, n)]
             w == [n \in 0 .. m + 1 |-> Step(u, n)]
  <2>2. ASSUME NEW n \in 0 .. m PROVE u[n] = v[n]
    <3>1. v[n] = Step(v, n)
      BY <2>1
    <3>2. n \in 0 .. m + 1
      OBVIOUS
    <3> HIDE DEF Step
    <3> QED BY <3>1, <3>2
  <2>3. ASSUME NEW n \in 0 .. m + 1 PROVE Step(u, n) = Step(v, n)
    <3>1. n # 0 => n - 1 \in 0 .. m
      OBVIOUS
    <3>2. n # 0 => u[n - 1] = v[n - 1]
      BY <2>2, <3>1
    <3> HIDE DEF u
    <3> QED BY <3>2
  <2>4. u = w
    <3> HIDE DEF Step
    <3> QED BY <2>3
  <2> HIDE DEF u
  <2>5. Upto(m + 1, u)
    BY <2>4
  <2> QED BY <2>5
<1> HIDE DEF Upto
<1>3. Nat \subseteq N
  <2>1. \A m \in Nat : m \in N => m + 1 \in N
    BY <1>2
  <2> HIDE DEF N
  <2> QED BY <1>1, <2>1, NaturalsBySteps
<1>4. MaxNodes \in N
  BY <1>3, ProvenanceAssumption
<1>5. PICK v : Upto(MaxNodes, v)
  BY <1>4
<1> QED BY <1>5 DEF Upto, Rounds

InRounds(v, id, links) ==
  /\ Visited(id, links) = v[MaxNodes]
  /\ v[0] = {id}
  /\ \A n \in Nat : n < MaxNodes => v[n + 1] = v[n] \cup After(v[n], links)

LEMMA VisitedInRounds ==
  ASSUME NEW id, NEW links
  PROVE  \E v : InRounds(v, id, links)
<1> DEFINE v == CHOOSE v : Rounds(v, id, links)
<1>1. Visited(id, links) = v[MaxNodes]
  BY DEF Visited, Rounds
<1>2. Rounds(v, id, links)
  BY RoundsExist
<1> HIDE DEF v
<1>3. MaxNodes \in Nat
  BY ProvenanceAssumption
<1>4. v[0] = {id}
  BY <1>2, <1>3 DEF Rounds
<1>5. ASSUME NEW n \in Nat, n < MaxNodes PROVE v[n + 1] = v[n] \cup After(v[n], links)
  <2>1. n + 1 \in 0 .. MaxNodes /\ n + 1 # 0 /\ (n + 1) - 1 = n
    BY <1>3, <1>5
  <2> QED BY <1>2, <2>1 DEF Rounds
<1>6. InRounds(v, id, links)
  BY <1>1, <1>4, <1>5 DEF InRounds
<1> QED BY <1>6

(* An id is visited, what is visited was led to, and where every link sets *)
(* out from one of at most MaxNodes ids, a visit leads nowhere new.        *)
LEMMA VisitedStarts ==
  ASSUME NEW id, NEW links
  PROVE  id \in Visited(id, links)
<1>1. PICK v : InRounds(v, id, links)
  BY VisitedInRounds
<1> DEFINE N == {n \in Nat : n <= MaxNodes => id \in v[n]}
<1>2. 0 \in N
  BY <1>1 DEF InRounds
<1>3. \A n \in Nat : n \in N => n + 1 \in N
  <2> SUFFICES ASSUME NEW n \in Nat, n \in N, n + 1 <= MaxNodes PROVE id \in v[n + 1]
    OBVIOUS
  <2>1. n < MaxNodes /\ n <= MaxNodes
    BY ProvenanceAssumption
  <2>2. v[n + 1] = v[n] \cup After(v[n], links)
    BY <1>1, <2>1 DEF InRounds
  <2> QED BY <2>1, <2>2
<1>4. Nat \subseteq N
  <2> HIDE DEF N
  <2> QED BY <1>2, <1>3, NaturalsBySteps
<1>5. MaxNodes \in N /\ MaxNodes <= MaxNodes
  BY <1>4, ProvenanceAssumption
<1> QED BY <1>1, <1>5 DEF InRounds

Closed(ids, links) == After(ids, links) \subseteq ids

LEMMA VisitedAreLedTo ==
  ASSUME NEW id, NEW links, NEW y \in Visited(id, links), y # id
  PROVE  y \in After(Visited(id, links), links)
<1>1. PICK v : InRounds(v, id, links)
  BY VisitedInRounds
<1> DEFINE N == {n \in Nat : n <= MaxNodes => \A z \in v[n] : z = id \/ z \in After(v[n], links)}
<1>2. 0 \in N
  BY <1>1 DEF InRounds
<1>3. \A n \in Nat : n \in N => n + 1 \in N
  <2> SUFFICES ASSUME NEW n \in Nat, n \in N, n + 1 <= MaxNodes, NEW z \in v[n + 1], z # id
               PROVE  z \in After(v[n + 1], links)
    OBVIOUS
  <2>1. n < MaxNodes /\ n <= MaxNodes
    BY ProvenanceAssumption
  <2>2. v[n + 1] = v[n] \cup After(v[n], links)
    BY <1>1, <2>1 DEF InRounds
  <2>3. z \in After(v[n], links)
    BY <2>1, <2>2
  <2> QED BY <2>2, <2>3 DEF After
<1>4. Nat \subseteq N
  <2> HIDE DEF N
  <2> QED BY <1>2, <1>3, NaturalsBySteps
<1>5. MaxNodes \in N /\ MaxNodes <= MaxNodes
  BY <1>4, ProvenanceAssumption
<1> QED BY <1>1, <1>5 DEF InRounds

(* Backwards along a set that holds what leads into it.                    *)
LEMMA VisitedFrom ==
  ASSUME NEW id, NEW links, NEW S, NEW y \in S, y \in Visited(id, links),
         \A l \in links : l[2] \in S => l[1] \in S
  PROVE  id \in S
<1>1. PICK v : InRounds(v, id, links)
  BY VisitedInRounds
<1> DEFINE N == {n \in Nat : n <= MaxNodes /\ v[n] \cap S # {} => id \in S}
<1>2. 0 \in N
  BY <1>1 DEF InRounds
<1>3. \A n \in Nat : n \in N => n + 1 \in N
  <2> SUFFICES ASSUME NEW n \in Nat, n \in N, n + 1 <= MaxNodes, NEW z \in v[n + 1], z \in S
               PROVE  id \in S
    OBVIOUS
  <2>1. n < MaxNodes /\ n <= MaxNodes
    BY ProvenanceAssumption
  <2>2. v[n + 1] = v[n] \cup After(v[n], links)
    BY <1>1, <2>1 DEF InRounds
  <2>3. CASE z \in v[n]
    BY <2>1, <2>3
  <2>4. CASE z \in After(v[n], links)
    <3>1. PICK l \in links : l[1] \in v[n] /\ z = l[2]
      BY <2>4 DEF After
    <3> QED BY <2>1, <3>1
  <2> QED BY <2>2, <2>3, <2>4
<1>4. Nat \subseteq N
  <2> HIDE DEF N
  <2> QED BY <1>2, <1>3, NaturalsBySteps
<1>5. MaxNodes \in N /\ MaxNodes <= MaxNodes
  BY <1>4, ProvenanceAssumption
<1> QED BY <1>1, <1>5 DEF InRounds

LEMMA VisitedIsClosed ==
  ASSUME NEW id, NEW links, NEW A, IsFiniteSet(A), Cardinality(A) <= MaxNodes,
         id \in A, \A k, l \in links : k[2] = l[1] => l[1] \in A
  PROVE  Closed(Visited(id, links), links)
<1>1. PICK v : InRounds(v, id, links)
  BY VisitedInRounds
<1>0. MaxNodes \in Nat
  BY ProvenanceAssumption
<1> DEFINE N == {n \in Nat : n <= MaxNodes /\ ~Closed(v[n], links)
                               => Cardinality(v[n] \cap A) >= n + 1}
<1>2. ASSUME NEW s PROVE /\ IsFiniteSet(s \cap A) /\ Cardinality(s \cap A) \in Nat
                         /\ Cardinality(s \cap A) <= Cardinality(A)
  <2> DEFINE t == s \cap A
  <2>1. t \subseteq A
    OBVIOUS
  <2> HIDE DEF t
  <2>2. IsFiniteSet(t) /\ Cardinality(t) <= Cardinality(A) /\ Cardinality(t) \in Nat
    BY <2>1, FS_Subset, FS_CardinalityType
  <2> QED BY <2>2 DEF t
<1>3. 0 \in N
  <2> SUFFICES ASSUME ~Closed(v[0], links) PROVE Cardinality(v[0] \cap A) >= 1
    BY <1>0
  <2>1. PICK l \in links : l[1] \in v[0]
    BY DEF Closed, After
  <2> DEFINE t == v[0] \cap A
  <2>2. l[1] \in t
    BY <1>1, <2>1 DEF InRounds
  <2>3. IsFiniteSet(t) /\ Cardinality(t) \in Nat
    BY <1>2
  <2> HIDE DEF t
  <2>4. Cardinality(t) # 0
    BY <2>2, <2>3, FS_EmptySet
  <2> QED BY <2>3, <2>4 DEF t
<1>4. \A n \in Nat : n \in N => n + 1 \in N
  <2> SUFFICES ASSUME NEW n \in Nat, n \in N, n + 1 <= MaxNodes, ~Closed(v[n + 1], links)
               PROVE  Cardinality(v[n + 1] \cap A) >= (n + 1) + 1
    <3> DEFINE P(k) == k <= MaxNodes /\ ~Closed(v[k], links) => Cardinality(v[k] \cap A) >= k + 1
    <3>1. N = {k \in Nat : P(k)}
      OBVIOUS
    <3>2. \A n \in Nat : n \in N /\ n + 1 <= MaxNodes /\ ~Closed(v[n + 1], links)
                          => Cardinality(v[n + 1] \cap A) >= (n + 1) + 1
      OBVIOUS
    <3>3. \A n \in Nat : n \in N => P(n + 1)
      BY <3>2
    <3> HIDE DEF P, N
    <3> QED BY <3>1, <3>3
  <2>1. n < MaxNodes /\ n <= MaxNodes
    BY <1>0
  <2>2. v[n + 1] = v[n] \cup After(v[n], links)
    BY <1>1, <2>1 DEF InRounds
  <2> DEFINE a == v[n] \cap A
             b == v[n + 1] \cap A
  <2>3. ~Closed(v[n], links)
    <3>1. SUFFICES ASSUME Closed(v[n], links) PROVE FALSE
      OBVIOUS
    <3>2. v[n + 1] = v[n]
      BY <2>2, <3>1 DEF Closed
    <3> QED BY <3>1, <3>2
  <2>4. Cardinality(a) >= n + 1
    BY <2>1, <2>3
  <2>5. PICK l \in links : l[1] \in v[n + 1] /\ l[2] \notin v[n + 1]
    BY DEF Closed, After
  <2>6. l[1] \notin v[n]
    BY <2>2, <2>5 DEF After
  <2>7. a \subseteq b /\ l[1] \in b /\ l[1] \notin a
    <3>1. PICK k \in links : k[2] = l[1]
      BY <2>2, <2>5, <2>6 DEF After
    <3>2. l[1] \in A
      BY <3>1
    <3> QED BY <2>2, <2>5, <2>6, <3>2
  <2>8. IsFiniteSet(a) /\ IsFiniteSet(b) /\ Cardinality(a) \in Nat /\ Cardinality(b) \in Nat
    BY <1>2
  <2> HIDE DEF a, b
  <2>9. Cardinality(a) < Cardinality(b)
    <3>1. a # b
      BY <2>7
    <3>2. Cardinality(a) <= Cardinality(b) /\ (Cardinality(a) = Cardinality(b) => a = b)
      BY <2>7, <2>8, FS_Subset
    <3> QED BY <2>8, <3>1, <3>2
  <2> QED BY <2>4, <2>8, <2>9 DEF b
<1>5. Nat \subseteq N
  <2> HIDE DEF N
  <2> QED BY <1>3, <1>4, NaturalsBySteps
<1>6. MaxNodes \in N
  BY <1>0, <1>5
<1>7. SUFFICES ASSUME ~Closed(v[MaxNodes], links) PROVE FALSE
  BY <1>1 DEF InRounds
<1>8. Cardinality(v[MaxNodes] \cap A) >= MaxNodes + 1
  BY <1>0, <1>6, <1>7
<1>9. Cardinality(v[MaxNodes] \cap A) <= Cardinality(A) /\ Cardinality(v[MaxNodes] \cap A) \in Nat
  BY <1>2
<1>10. Cardinality(A) \in Nat
  BY FS_CardinalityType
<1> QED BY <1>0, <1>8, <1>9, <1>10

LEMMA FewRecorded ==
  ASSUME ProvenanceInv
  PROVE  IsFiniteSet(Recorded) /\ Cardinality(Recorded) <= MaxNodes
<1> DEFINE n == Len(provenance.nodes)
           f == [i \in 1 .. n |-> provenance.nodes[i].id]
<1>1. n \in Nat /\ n <= MaxNodes /\ DOMAIN provenance.nodes = 1 .. n
  BY LenProperties DEF ProvenanceInv, StoreOK
<1> HIDE DEF n
<1>2. IsFiniteSet(1 .. n) /\ Cardinality(1 .. n) = n
  <2>1. IsFiniteSet(1 .. n) /\ Cardinality(1 .. n) = IF 1 > n THEN 0 ELSE (n - 1) + 1
    BY <1>1, FS_Interval
  <2> QED BY <1>1, <2>1
<1>3. f \in Surjection(1 .. n, Recorded)
  BY <1>1 DEF Surjection, Recorded
<1> HIDE DEF f
<1>4. IsFiniteSet(Recorded) /\ Cardinality(Recorded) <= Cardinality(1 .. n)
  BY <1>2, <1>3, FS_Surjection DEF ExistsSurjection
<1>5. Cardinality(Recorded) \in Nat
  BY <1>4, FS_CardinalityType
<1> QED BY <1>1, <1>2, <1>4, <1>5, ProvenanceAssumption

LEMMA LeastIsMember ==
  ASSUME NEW T, T \subseteq Nat, T # {} PROVE Min(T) \in T
<1>1. \E x \in T : \A y \in T : x <= y
  BY LeastExists
<1> QED BY <1>1 DEF Min

LEMMA FindFinds ==
  ASSUME ProvenanceInv, NEW id \in Recorded
  PROVE  /\ Min(PlacesOf(id)) \in 1 .. Len(provenance.nodes)
         /\ provenance.nodes[Min(PlacesOf(id))].id = id
<1>1. PlacesOf(id) \subseteq 1 .. Len(provenance.nodes) /\ PlacesOf(id) # {}
  BY LenProperties DEF PlacesOf, Recorded, ProvenanceInv, StoreOK
<1>2. Min(PlacesOf(id)) \in PlacesOf(id)
  BY <1>1, LeastIsMember
<1> QED BY <1>1, <1>2 DEF PlacesOf

(* Names and edges say the same.                                           *)
LEMMA ParentIsLinked ==
  ASSUME ProvenanceInv, NEW l \in ParentLinks
  PROVE  l[1] \in Recorded /\ <<l[2], l[1]>> \in ChildLinks
<1>1. PICK id \in Recorded : l \in {<<id, parent>> : parent \in ToSet(Find(id).parentIds)}
  BY DEF ParentLinks
<1>2. PICK p \in ToSet(Find(id).parentIds) : l = <<id, p>>
  BY <1>1
<1> DEFINE i == Min(PlacesOf(id))
           nodes == provenance.nodes
           edges == provenance.edges
<1>3. i \in 1 .. Len(nodes) /\ nodes[i].id = id /\ Find(id) = nodes[i]
  BY FindFinds DEF Find
<1>4. nodes \in Seq(Nodes) /\ edges \in Seq(Edges) /\ LinksAgree(nodes, edges)
  BY DEF ProvenanceInv, StoreOK
<1> HIDE DEF i, nodes, edges
<1>5. nodes[i] \in Nodes
  BY <1>3, <1>4, ElementOfSeq
<1>6. nodes[i].parentIds \in Seq(AllIds)
  BY <1>5 DEF Nodes
<1>7. PICK k \in 1 .. Len(nodes[i].parentIds) : p = nodes[i].parentIds[k]
  BY <1>2, <1>3, <1>6, LenProperties DEF ToSet
<1>8. p \in AllIds
  BY <1>6, <1>7, ElementOfSeq
<1>9. Names(nodes, i, p)
  BY <1>7 DEF Names
<1>10. PICK e \in 1 .. Len(edges) : edges[e].from = p /\ edges[e].to = id
  BY <1>3, <1>4, <1>8, <1>9 DEF LinksAgree
<1>11. edges[e] \in ToSet(edges)
  BY <1>4, LenProperties DEF ToSet
<1>12. <<p, id>> \in ChildLinks
  BY <1>10, <1>11 DEF ChildLinks, edges
<1> QED BY <1>2, <1>12

RecordedOnce ==
  \A i, j \in DOMAIN provenance.nodes : provenance.nodes[i].id = provenance.nodes[j].id => i = j

LEMMA LinkedTargets ==
  ASSUME NEW l \in ChildLinks PROVE l[2] \in Recorded
BY DEF ChildLinks

LEMMA ChildIsNamed ==
  ASSUME ProvenanceInv, RecordedOnce, NEW l \in ChildLinks
  PROVE  <<l[2], l[1]>> \in ParentLinks
<1> DEFINE nodes == provenance.nodes
           edges == provenance.edges
<1>1. nodes \in Seq(Nodes) /\ edges \in Seq(Edges) /\ LinksAgree(nodes, edges)
  BY DEF ProvenanceInv, StoreOK
<1>2. PICK x \in ToSet(edges) : l = <<x.from, x.to>> /\ x.to \in Recorded
  BY DEF ChildLinks
<1>3. PICK e \in 1 .. Len(edges) : x = edges[e]
  BY <1>1, <1>2, LenProperties DEF ToSet
<1>4. PICK i \in 1 .. Len(nodes) : nodes[i].id = x.to /\ Names(nodes, i, x.from)
  BY <1>1, <1>3 DEF LinksAgree
<1>5. DOMAIN nodes = 1 .. Len(nodes)
  BY <1>1, LenProperties
<1>6. Min(PlacesOf(x.to)) = i /\ Find(x.to) = nodes[i]
  <2>1. Min(PlacesOf(x.to)) \in 1 .. Len(nodes) /\ nodes[Min(PlacesOf(x.to))].id = x.to
    BY <1>2, FindFinds
  <2> QED BY <1>4, <1>5, <2>1 DEF RecordedOnce, Find
<1> HIDE DEF nodes, edges
<1>7. nodes[i] \in Nodes
  BY <1>1, ElementOfSeq
<1>8. nodes[i].parentIds \in Seq(AllIds)
  BY <1>7 DEF Nodes
<1>9. x.from \in ToSet(nodes[i].parentIds)
  BY <1>4, <1>8, LenProperties DEF ToSet, Names
<1> QED BY <1>2, <1>6, <1>9 DEF ParentLinks

LEMMA AncestorHasDescendant ==
  ASSUME ProvenanceInv, NEW x \in Recorded, NEW y \in Recorded, x # y, y \in GetLineage(x)
  PROVE  x \in GetDescendants(y)
<1> DEFINE S == Visited(y, ChildLinks)
<1>1. Closed(S, ChildLinks)
  <2>1. \A k, l \in ChildLinks : k[2] = l[1] => l[1] \in Recorded
    BY LinkedTargets
  <2> QED BY <2>1, FewRecorded, VisitedIsClosed
<1>2. y \in S
  BY VisitedStarts
<1> HIDE DEF S
<1>3. ASSUME NEW l \in ParentLinks, l[2] \in S PROVE l[1] \in S
  <2>1. <<l[2], l[1]>> \in ChildLinks
    BY ParentIsLinked
  <2>2. l[1] \in After(S, ChildLinks)
    BY <1>3, <2>1 DEF After
  <2> QED BY <1>1, <2>2 DEF Closed
<1>4. x \in S
  BY <1>2, <1>3, VisitedFrom DEF GetLineage
<1> QED BY <1>4, VisitedAreLedTo DEF GetDescendants, S

LEMMA DescendantHasAncestor ==
  ASSUME ProvenanceInv, RecordedOnce, NEW x \in Recorded, NEW y \in Recorded, x # y,
         x \in Visited(y, ChildLinks)
  PROVE  y \in GetLineage(x)
<1> DEFINE S == Visited(x, ParentLinks)
<1>1. Closed(S, ParentLinks)
  <2>1. \A k, l \in ParentLinks : k[2] = l[1] => l[1] \in Recorded
    BY ParentIsLinked
  <2> QED BY <2>1, FewRecorded, VisitedIsClosed
<1>2. x \in S
  BY VisitedStarts
<1> HIDE DEF S
<1>3. ASSUME NEW l \in ChildLinks, l[2] \in S PROVE l[1] \in S
  <2>1. <<l[2], l[1]>> \in ParentLinks
    BY ChildIsNamed
  <2>2. l[1] \in After(S, ParentLinks)
    BY <1>3, <2>1 DEF After
  <2> QED BY <1>1, <2>2 DEF Closed
<1>4. y \in S
  BY <1>2, <1>3, VisitedFrom
<1> QED BY <1>4 DEF GetLineage, S

LEMMA DescendantsAreVisited ==
  ASSUME ProvenanceInv, NEW y \in Recorded
  PROVE  Closed(Visited(y, ChildLinks), ChildLinks)
<1>1. \A k, l \in ChildLinks : k[2] = l[1] => l[1] \in Recorded
  BY LinkedTargets
<1> QED BY <1>1, FewRecorded, VisitedIsClosed

LEMMA FirstNodeIs ==
  ASSUME ProvenanceInv, NEW id, NEW type, FirstNode(id, type) # Missing
  PROVE  \E i \in 1 .. Len(provenance.nodes) :
           FirstNode(id, type) = provenance.nodes[i] /\ provenance.nodes[i].id = id
<1> DEFINE places == {i \in PlacesOf(id) : provenance.nodes[i].type = type}
<1>1. places # {} /\ FirstNode(id, type) = provenance.nodes[Min(places)]
  BY DEF FirstNode
<1>2. places \subseteq 1 .. Len(provenance.nodes)
  BY LenProperties DEF PlacesOf, ProvenanceInv, StoreOK
<1>3. \A i \in places : provenance.nodes[i].id = id
  BY DEF PlacesOf
<1>4. Min(places) \in places
  <2>1. places \subseteq Nat
    BY <1>2
  <2> HIDE DEF places
  <2> QED BY <1>1, <2>1, LeastIsMember
<1> HIDE DEF places
<1> QED BY <1>1, <1>2, <1>3, <1>4

LEMMA FollowedIsLinked ==
  ASSUME ProvenanceInv, NEW node, NEW relationship, NEW type,
         Follow(node, relationship, type) # Missing
  PROVE  /\ node # Missing
         /\ <<node.id, Follow(node, relationship, type).id>> \in ChildLinks
<1> DEFINE edges == provenance.edges
           nodes == provenance.nodes
           places == {i \in DOMAIN edges : /\ edges[i].from = node.id
                                           /\ edges[i].relationship = relationship}
           e == Min(places)
<1>1. node # Missing /\ places # {}
  BY DEF Follow
<1>2. Follow(node, relationship, type) = FirstNode(edges[e].to, type)
  BY <1>1 DEF Follow
<1>3. nodes \in Seq(Nodes) /\ edges \in Seq(Edges) /\ DOMAIN edges = 1 .. Len(edges)
  BY LenProperties DEF ProvenanceInv, StoreOK
<1>4. e \in places
  <2>1. places \subseteq Nat
    BY <1>3
  <2> HIDE DEF places
  <2> QED BY <1>1, <2>1, LeastIsMember
<1> HIDE DEF e
<1>5. e \in DOMAIN edges /\ edges[e].from = node.id
  BY <1>4
<1>6. PICK i \in 1 .. Len(nodes) :
        FirstNode(edges[e].to, type) = nodes[i] /\ nodes[i].id = edges[e].to
  BY <1>2, FirstNodeIs
<1>7. edges[e].to \in Recorded
  BY <1>3, <1>6, LenProperties DEF Recorded
<1>8. <<edges[e].from, edges[e].to>> \in ChildLinks
  BY <1>5, <1>7 DEF ChildLinks, ToSet
<1> QED BY <1>1, <1>2, <1>5, <1>6, <1>8

LEMMA TestIsLinked ==
  ASSUME ProvenanceInv, NEW n \in ToSet(provenance.nodes), NEW p \in ToSet(n.parentIds)
  PROVE  <<p, n.id>> \in ChildLinks
<1> DEFINE nodes == provenance.nodes
           edges == provenance.edges
<1>1. nodes \in Seq(Nodes) /\ edges \in Seq(Edges) /\ LinksAgree(nodes, edges)
  BY DEF ProvenanceInv, StoreOK
<1>2. PICK i \in 1 .. Len(nodes) : n = nodes[i]
  BY <1>1, LenProperties DEF ToSet
<1>3. n.id \in Recorded
  BY <1>1, <1>2, LenProperties DEF Recorded
<1> HIDE DEF nodes, edges
<1>4. nodes[i] \in Nodes
  BY <1>1, ElementOfSeq
<1>5. nodes[i].parentIds \in Seq(AllIds)
  BY <1>4 DEF Nodes
<1>6. PICK k \in 1 .. Len(nodes[i].parentIds) : p = nodes[i].parentIds[k]
  BY <1>2, <1>5, LenProperties DEF ToSet
<1>7. p \in AllIds /\ Names(nodes, i, p)
  BY <1>5, <1>6, ElementOfSeq DEF Names
<1>8. PICK e \in 1 .. Len(edges) : edges[e].from = p /\ edges[e].to = n.id
  BY <1>1, <1>2, <1>7 DEF LinksAgree
<1>9. edges[e] \in ToSet(edges)
  BY <1>1, LenProperties DEF ToSet
<1> QED BY <1>3, <1>8, <1>9 DEF ChildLinks, edges

LEMMA ChainIsVisited ==
  ASSUME ProvenanceInv, NEW y \in Recorded, NEW n \in GetFullChain(y)
  PROVE  n.id \in Visited(y, ChildLinks)
<1> DEFINE V == Visited(y, ChildLinks)
           bug == FirstNode(y, "BUG")
           pattern == Follow(bug, "detects", "PATTERN")
           mend == Follow(pattern, "fixes", "FIX")
           back == Follow(mend, "reverts", "ROLLBACK")
<1>1. y \in V /\ Closed(V, ChildLinks)
  BY VisitedStarts, DescendantsAreVisited
<1> HIDE DEF V
<1>2. ASSUME NEW a, NEW b, a \in V, <<a, b>> \in ChildLinks PROVE b \in V
  <2>1. b \in After(V, ChildLinks)
    BY <1>2 DEF After
  <2> QED BY <1>1, <2>1 DEF Closed
<1>3. bug # Missing => bug.id \in V
  BY <1>1, FirstNodeIs
<1> HIDE DEF bug
<1>4. pattern # Missing => pattern.id \in V
  BY <1>2, <1>3, FollowedIsLinked
<1> HIDE DEF pattern
<1>5. mend # Missing => mend.id \in V
  BY <1>2, <1>4, FollowedIsLinked
<1> HIDE DEF mend
<1>6. back # Missing => back.id \in V
  BY <1>2, <1>5, FollowedIsLinked
<1> HIDE DEF back
<1>7. n # Missing
  BY DEF GetFullChain
<1>8. \/ n \in {pattern, mend, back}
      \/ n \in ToSet(provenance.nodes) /\ mend # Missing /\ mend.id \in ToSet(n.parentIds)
  BY DEF GetFullChain, bug, pattern, mend, back
<1>9. CASE n \in {pattern, mend, back}
  BY <1>4, <1>5, <1>6, <1>7, <1>9 DEF V
<1>10. CASE n \in ToSet(provenance.nodes) /\ mend # Missing /\ mend.id \in ToSet(n.parentIds)
  BY <1>2, <1>5, <1>10, TestIsLinked DEF V
<1> QED BY <1>8, <1>9, <1>10

LEMMA StoryHolds == ProvenanceInv => StoryIsOne
<1> SUFFICES ASSUME ProvenanceInv, NEW x \in Recorded, NEW y \in Recorded, x # y
             PROVE  /\ y \in GetLineage(x) => x \in GetDescendants(y)
                    /\ RecordedOnce /\ x \in GetDescendants(y) => y \in GetLineage(x)
                    /\ RecordedOnce => \A n \in GetFullChain(y) : n.id = x => y \in GetLineage(x)
  BY DEF StoryIsOne, RecordedOnce
<1>1. y \in GetLineage(x) => x \in GetDescendants(y)
  BY AncestorHasDescendant
<1>2. ASSUME RecordedOnce, x \in GetDescendants(y) PROVE y \in GetLineage(x)
  <2>1. x \in Visited(y, ChildLinks)
    BY <1>2, DescendantsAreVisited DEF GetDescendants, Closed
  <2> QED BY <1>2, <2>1, DescendantHasAncestor
<1>3. ASSUME RecordedOnce, NEW n \in GetFullChain(y), n.id = x PROVE y \in GetLineage(x)
  <2>1. x \in Visited(y, ChildLinks)
    BY <1>3, ChainIsVisited
  <2> QED BY <1>3, <2>1, DescendantHasAncestor
<1> QED BY <1>1, <1>2, <1>3

(* However saves fail and processes restart, lineages, descendants and     *)
(* chains of the record agree.                                             *)
THEOREM StoriesAgree == ProvenanceSpec => []StoryIsOne
<1>1. ProvenanceInit => ProvenanceInv
  BY ProvenanceStarts
<1>2. ProvenanceInv /\ [ProvenanceNext]_provenanceVars => ProvenanceInv'
  BY ProvenanceKeeps
<1>3. ProvenanceInv => StoryIsOne
  BY StoryHolds
<1> QED BY <1>1, <1>2, <1>3, PTL DEF ProvenanceSpec
=============================================================================
