-------------------------- MODULE ConcurrentCapture --------------------------
(***************************************************************************)
(* ConcurrentBugCaptureHandler of modules/runtime-learning-engine/         *)
(* concurrent-bug-capture.ts.  Its lock never holds anyone (lockHeld is    *)
(* false): what keeps two captures of a bug apart is the entry of          *)
(* activeBugCaptures and the token in it.  A step is the code between two  *)
(* awaits.                                                                 *)
(***************************************************************************)
EXTENDS Integers, FiniteSets

CONSTANTS Capturers, BugIds,
          NoToken,       \* the bug has no entry
          MaxCaptures,   \* bound: tokens handed out
          MaxAudits      \* bound: refusals, resets, tests, integrity checks

ASSUME CaptureAssumption == MaxCaptures \in Nat /\ MaxAudits \in Nat /\ NoToken \notin Nat

VARIABLES activeBugCaptures,  \* bug -> token of the capture in progress
          capture,            \* caller -> where it is, its bug and its token
          captureStats,       \* the counters of getStats
          tokens,             \* tokens handed out
          audits,
          beside, won         \* history: tokens in a capture of one bug at once;
                              \* tokens of the captures that returned

captureVars == <<activeBugCaptures, capture, captureStats, tokens, audits, beside, won>>

NoCapture == [at |-> "idle", bug |-> NoToken, token |-> NoToken]
NoStats == [total_bugs |-> 0, peak |-> 0, raceConditions |-> 0, corruptions |-> 0]

CaptureInit ==
  /\ activeBugCaptures = [b \in BugIds |-> NoToken]
  /\ capture = [c \in Capturers |-> NoCapture]
  /\ captureStats = NoStats
  /\ tokens = 0 /\ audits = 0 /\ beside = {} /\ won = {}

(* captureBugConcurrent up to its first await: an entry refuses the call.  *)
BeginCapture(c, b) ==
  /\ capture[c] = NoCapture /\ tokens < MaxCaptures
  /\ IF activeBugCaptures[b] # NoToken
     THEN /\ audits < MaxAudits /\ audits' = audits + 1
          /\ captureStats' = [captureStats EXCEPT !.raceConditions = @ + 1]
          /\ UNCHANGED capture
     ELSE /\ capture' = [capture EXCEPT ![c] = [at |-> "locking", bug |-> b, token |-> NoToken]]
          /\ UNCHANGED <<captureStats, audits>>
  /\ UNCHANGED <<activeBugCaptures, tokens, beside, won>>

Together(b) == {capture[o].token : o \in {d \in Capturers : /\ capture[d].at = "capturing"
                                                           /\ capture[d].bug = b}}
Peak(s, n) == [s EXCEPT !.peak = IF n > @ THEN n ELSE @]
Held(captures) == Cardinality({b \in BugIds : captures[b] # NoToken})

(* The lock is had at once; with delayMs = 0 the token is verified, and the *)
(* entry removed, before anybody else runs.                                *)
EnterCapture(c, delayed) ==
  LET b == capture[c].bug
      token == tokens + 1
      entered == [activeBugCaptures EXCEPT ![b] = token]
      counted == Peak(captureStats, Held(entered))
  IN /\ capture[c].at = "locking" /\ tokens < MaxCaptures
     /\ tokens' = token
     /\ beside' = beside \cup {{token, t} : t \in Together(b)}
     /\ IF delayed
        THEN /\ activeBugCaptures' = entered
             /\ capture' = [capture EXCEPT ![c] = [@ EXCEPT !.at = "capturing", !.token = token]]
             /\ captureStats' = counted
             /\ UNCHANGED won
        ELSE /\ activeBugCaptures' = [activeBugCaptures EXCEPT ![b] = NoToken]
             /\ capture' = [capture EXCEPT ![c] = NoCapture]
             /\ captureStats' = [counted EXCEPT !.total_bugs = @ + 1]
             /\ won' = won \cup {token}
     /\ UNCHANGED audits

(* Faulty form: the entry is there, whoever made it.                       *)
VerifiedAny(c) == activeBugCaptures[capture[c].bug] # NoToken
Verified(c) == activeBugCaptures[capture[c].bug] = capture[c].token

(* The delay is over.  The finally block deletes the entry of the bug even *)
(* when it is another capture's.                                           *)
EndCapture(c) ==
  /\ capture[c].at = "capturing"
  /\ captureStats' = IF Verified(c) THEN [captureStats EXCEPT !.total_bugs = @ + 1]
                                    ELSE [captureStats EXCEPT !.raceConditions = @ + 1]
  /\ won' = IF Verified(c) THEN won \cup {capture[c].token} ELSE won
  /\ activeBugCaptures' = [activeBugCaptures EXCEPT ![capture[c].bug] = NoToken]
  /\ capture' = [capture EXCEPT ![c] = NoCapture]
  /\ UNCHANGED <<tokens, audits, beside>>

(* reset, and the first lines of runConcurrencyTest, which leave the       *)
(* entries: neither waits for the captures in flight, and the test itself  *)
(* goes on to its next level when one capture of a level has failed.       *)
ResetCaptures(clears) ==
  /\ audits < MaxAudits /\ audits' = audits + 1
  /\ captureStats' = NoStats
  /\ activeBugCaptures' = IF clears THEN [b \in BugIds |-> NoToken] ELSE activeBugCaptures
  /\ UNCHANGED <<capture, tokens, beside, won>>

ValidateDataIntegrity ==
  /\ audits < MaxAudits /\ audits' = audits + 1
  /\ captureStats' = IF Held(activeBugCaptures) > 0
                     THEN [captureStats EXCEPT !.corruptions = @ + 1] ELSE captureStats
  /\ UNCHANGED <<activeBugCaptures, capture, tokens, beside, won>>

CaptureNext ==
  \/ \E c \in Capturers :
       \/ \E b \in BugIds : BeginCapture(c, b)
       \/ \E delayed \in BOOLEAN : EnterCapture(c, delayed)
       \/ EndCapture(c)
  \/ \E clears \in BOOLEAN : ResetCaptures(clears)
  \/ ValidateDataIntegrity

CaptureSpec == CaptureInit /\ [][CaptureNext]_captureVars

-----------------------------------------------------------------------------
(* Two captures that were in one bug at the same time never both return:   *)
(* the bug is recorded at most once, whoever overwrote or deleted whose    *)
(* entry in between, and whatever was reset meanwhile.                     *)
OneWinner == \A pair \in beside : ~(pair \subseteq won)
=============================================================================
