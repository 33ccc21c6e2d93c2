------------------------------ MODULE FixEngine ------------------------------
(***************************************************************************)
(* The correction path of the runtime learning engine:                     *)
(* modules/runtime-learning-engine/index.ts (processBugEvent,              *)
(* applyFixWithRollback, executeRollback, the watchdog's callback) with    *)
(* the parts of auto-fixer.ts and watchdog-monitor.ts that it calls.       *)
(*                                                                         *)
(* A fix installs wrappers on hook points of the instrumented class and    *)
(* keeps what each wrapper replaced; the post-fix tests decide whether it  *)
(* stays.  JavaScript runs to completion between awaits, so an action is   *)
(* the code from one await to the next.  The captures of one turn of the   *)
(* event loop interleave at their awaits (Promise.all over captureBug);    *)
(* the watchdog's interval timer runs in a turn of its own, when every     *)
(* capture has run out, and captures wait for its turn to end.             *)
(***************************************************************************)
EXTENDS Naturals, Sequences, FiniteSets, SequencesExt

CONSTANTS Hooks,        \* hook points: the overloads of the target classes
          Strategies,   \* what a pattern may ask for: see ApplyFix
          Captures,     \* bug captures that run at the same time
          MaxFixes,     \* bound: fixes attempted
          MaxTimeouts   \* bound: epoch timeouts

Reversible == {"try_catch_with_fallback", "monkey_patch_from_journal"}

ASSUME EngineAssumption ==
  /\ Strategies \subseteq Reversible \cup {"component_restart"}
  /\ "watchdog" \notin Captures
  /\ MaxFixes \in Nat /\ MaxTimeouts \in Nat

Fixes == 1 .. MaxFixes
Original == 0
Actors == Captures \cup {"watchdog"}

VARIABLES
  state,           \* watchdogMonitor.current_state
  implementation,  \* overload.implementation: Original, or the fix whose wrapper it is
  activePatches,   \* of each fix: a function from hooks to what they had before
  fix,             \* the FixEvents
  pending,         \* keys of pendingRollbacks, in order of insertion
  flow,            \* where each capture and the watchdog's callback stands
  todo,            \* fixes the callback has still to roll back
  total,           \* rollbacksTriggered, rollbackFailures, fixesApplied
  nextFix, timeouts

vars == <<state, implementation, activePatches, fix, pending, flow, todo, total,
          nextFix, timeouts>>

NoPatch == [h \in {} |-> Original]
NewFix == [status |-> "none", tests |-> "none", verified |-> FALSE]
Resting == [at |-> "idle", fix |-> 0, verified |-> FALSE]
Standing(at, x, v) == [at |-> at, fix |-> x, verified |-> v]

Init ==
  /\ state = "STABLE"
  /\ implementation = [h \in Hooks |-> Original]
  /\ activePatches = [x \in Fixes |-> NoPatch]
  /\ fix = [x \in Fixes |-> NewFix]
  /\ pending = << >>
  /\ flow = [a \in Actors |-> Resting] /\ todo = << >>
  /\ total = [triggered |-> 0, failures |-> 0, applied |-> 0]
  /\ nextFix = 1 /\ timeouts = 0

WatchdogQuiet == flow["watchdog"].at = "idle" /\ todo = << >>
CapturesQuiet == \A a \in Captures : flow[a].at = "idle"

(* pendingRollbacks.delete(x): a Map holds a key at most once.             *)
Without(s, x) ==
  IF \E i \in DOMAIN s : s[i] = x
  THEN RemoveAt(s, CHOOSE i \in DOMAIN s : s[i] = x) ELSE s

Go(a, to) == flow' = [flow EXCEPT ![a] = to]

-----------------------------------------------------------------------------
(* processBugEvent, for a pattern that is to be fixed.                     *)

(* The safety mesh reports a memory, disk or file problem: no mutation.    *)
GateBlocks(a) ==
  /\ WatchdogQuiet /\ flow[a].at = "idle"
  /\ state' = "FAILSAFE"
  /\ UNCHANGED <<implementation, activePatches, fix, pending, flow, todo, total,
                 nextFix, timeouts>>

NewAttempt(a, status) ==
  /\ WatchdogQuiet /\ flow[a].at = "idle" /\ nextFix <= MaxFixes
  /\ state' = "OBSERVE"
  /\ nextFix' = nextFix + 1
  /\ fix' = [fix EXCEPT ![nextFix].status = status]
  /\ Go(a, Standing("attempted", nextFix, FALSE))
  /\ UNCHANGED <<pending, todo, total, timeouts>>

Installed(targets) ==
  [h \in Hooks |-> IF h \in targets THEN nextFix ELSE implementation[h]]

(* tryCatchFallbackInternal and monkeyPatchInternal wrap every overload of *)
(* the target and record the wrapped implementations.                      *)
ApplyHooks(a, targets) ==
  /\ targets # {}
  /\ NewAttempt(a, "applied")
  /\ activePatches' = [activePatches EXCEPT
                         ![nextFix] = [h \in targets |-> implementation[h]]]
  /\ implementation' = Installed(targets)

(* The target has no overloads, or an overload refuses its wrapper after   *)
(* some have taken theirs: nothing is recorded.                            *)
ApplyHooksFails(a, wrapped) ==
  /\ NewAttempt(a, "failed")
  /\ implementation' = Installed(wrapped)
  /\ UNCHANGED activePatches

(* restartComponent: a patch with nothing to restore, or no patch.         *)
RestartComponent(a) ==
  /\ NewAttempt(a, "applied") \/ NewAttempt(a, "failed")
  /\ UNCHANGED <<implementation, activePatches>>

ApplyFix(a) ==
  \E s \in Strategies :
    IF s = "component_restart" THEN RestartComponent(a)
    ELSE \E targets \in SUBSET Hooks : ApplyHooks(a, targets) \/ ApplyHooksFails(a, targets)

-----------------------------------------------------------------------------
(* executeRollback up to its await.  Every restore of the patch is tried;  *)
(* the hooks in stuck are those whose restore throws.  The rollback        *)
(* engine's journals are the second resort, but nothing in the engine ever *)
(* creates one.                                                            *)
StartRollback(a, x, stuck) ==
  LET saved == activePatches[x]
      ok    == DOMAIN saved # {} /\ stuck = {}
  IN  /\ stuck \subseteq DOMAIN saved
      /\ total' = [total EXCEPT !.triggered = @ + 1]
      /\ implementation' = [h \in Hooks |-> IF h \in DOMAIN saved \ stuck
                                            THEN saved[h] ELSE implementation[h]]
      /\ activePatches' = IF ok THEN [activePatches EXCEPT ![x] = NoPatch] ELSE activePatches
      /\ Go(a, Standing("rolling", x, ok))

(* ... and after it.                                                       *)
FinishRollback(a, to) ==
  LET x == flow[a].fix
      v == flow[a].verified
  IN  /\ flow[a].at = "rolling"
      /\ fix' = [fix EXCEPT ![x].verified = v,
                            ![x].status = IF v THEN "rolled_back" ELSE @]
      /\ pending' = IF v THEN Without(pending, x) ELSE pending
      /\ state' = IF v THEN "STABLE" ELSE state
      /\ total' = [total EXCEPT !.failures = IF v THEN @ ELSE @ + 1]
      /\ Go(a, to)
      /\ UNCHANGED <<implementation, activePatches, nextFix, timeouts>>

-----------------------------------------------------------------------------
(* applyFixWithRollback after applyFix has come back.                      *)

(* Faulty form: an attempt that failed leaves the state alone.             *)
AttemptFailedSilently(a) ==
  /\ flow[a].at = "attempted" /\ fix[flow[a].fix].status = "failed"
  /\ Go(a, Resting)
  /\ UNCHANGED <<state, implementation, activePatches, fix, pending, todo, total, nextFix,
                 timeouts>>

AttemptFailed(a) ==
  /\ flow[a].at = "attempted" /\ fix[flow[a].fix].status = "failed"
  /\ state' = "FAILSAFE"
  /\ Go(a, Resting)
  /\ UNCHANGED <<implementation, activePatches, fix, pending, todo, total, nextFix, timeouts>>

TestsPass(a) ==
  LET x == flow[a].fix IN
  /\ flow[a].at = "attempted" /\ fix[x].status = "applied"
  /\ fix' = [fix EXCEPT ![x].tests = "passed"]
  /\ total' = [total EXCEPT !.applied = @ + 1]
  /\ state' = "STABLE"
  /\ Go(a, Resting)
  /\ UNCHANGED <<implementation, activePatches, pending, todo, nextFix, timeouts>>

TestsFail(a) ==
  LET x == flow[a].fix IN
  /\ flow[a].at = "attempted" /\ fix[x].status = "applied"
  /\ fix' = [fix EXCEPT ![x].tests = "failed"]
  /\ \E stuck \in SUBSET Hooks : StartRollback(a, x, stuck)
  /\ UNCHANGED <<state, pending, todo, nextFix, timeouts>>

RollbackReturns(a) ==
  /\ a \in Captures
  /\ FinishRollback(a, IF flow[a].verified THEN Resting
                       ELSE Standing("unverified", flow[a].fix, FALSE))
  /\ UNCHANGED todo

(* Faulty form: one pending fix displaces another.                         *)
KeepLatest(a) ==
  /\ flow[a].at = "unverified"
  /\ pending' = <<flow[a].fix>>
  /\ state' = "FAILSAFE"
  /\ Go(a, Resting)
  /\ UNCHANGED <<implementation, activePatches, fix, todo, total, nextFix, timeouts>>

(* The rollback was not verified: leave it to the watchdog.                *)
KeepPending(a) ==
  /\ flow[a].at = "unverified"
  /\ pending' = Append(pending, flow[a].fix)
  /\ state' = "FAILSAFE"
  /\ Go(a, Resting)
  /\ UNCHANGED <<implementation, activePatches, fix, todo, total, nextFix, timeouts>>

-----------------------------------------------------------------------------
(* checkEpochTimeout: the heartbeat is late.                               *)
EpochTimeout ==
  /\ CapturesQuiet /\ WatchdogQuiet /\ timeouts < MaxTimeouts
  /\ state' = "FAILSAFE"
  /\ todo' = pending
  /\ timeouts' = timeouts + 1
  /\ UNCHANGED <<implementation, activePatches, fix, pending, flow, total, nextFix>>

(* The callback takes the pending fixes one after the other.               *)
WatchdogRollsBack ==
  /\ flow["watchdog"].at = "idle" /\ todo # << >>
  /\ \E stuck \in SUBSET Hooks : StartRollback("watchdog", Head(todo), stuck)
  /\ todo' = Tail(todo)
  /\ state' = "FAILSAFE"
  /\ UNCHANGED <<fix, pending, nextFix, timeouts>>

WatchdogReturns == FinishRollback("watchdog", Resting) /\ UNCHANGED todo

Continue(a) == \/ AttemptFailed(a) \/ TestsPass(a) \/ TestsFail(a)
               \/ RollbackReturns(a) \/ KeepPending(a)

Next ==
  \/ \E a \in Captures : GateBlocks(a) \/ ApplyFix(a) \/ Continue(a)
  \/ EpochTimeout \/ WatchdogRollsBack \/ WatchdogReturns

(* The event loop runs every promise that has resolved: a flow that is not *)
(* at rest goes on.  Nothing obliges bugs or timeouts to happen.           *)
Fairness == /\ \A a \in Captures : WF_vars(Continue(a))
            /\ WF_vars(WatchdogRollsBack) /\ WF_vars(WatchdogReturns)

Spec == Init /\ [][Next]_vars /\ Fairness

-----------------------------------------------------------------------------
Quiet == CapturesQuiet /\ WatchdogQuiet
PendingFixes == {pending[i] : i \in 1 .. Len(pending)}

(* No failed fix is forgotten: once the engine has come to rest, a fix     *)
(* that failed its tests has been rolled back with verification, or waits  *)
(* in pendingRollbacks exactly once, and nothing else waits there.         *)
FailedFixesAreTracked ==
  Quiet =>
    /\ PendingFixes = {x \in Fixes : fix[x].tests = "failed" /\ ~fix[x].verified}
    /\ IsInjective(pending)
    /\ \A x \in Fixes : fix[x].verified <=> fix[x].status = "rolled_back"

(* OBSERVE means that a fix is being tried: it never outlasts the attempt. *)
ObservationEnds == (state = "OBSERVE") ~> (state # "OBSERVE")

(* A fix whose rollback was verified has no wrapper installed.             *)
RolledBackIsGone ==
  \A h \in Hooks : LET x == implementation[h] IN
    x # Original => fix[x].status # "rolled_back"

=============================================================================
