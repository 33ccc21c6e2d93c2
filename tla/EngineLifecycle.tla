--------------------------- MODULE EngineLifecycle ---------------------------
(***************************************************************************)
(* The life of the runtime learning engine around its correction path:     *)
(* start, stop and captureBug of                                           *)
(* modules/runtime-learning-engine/index.ts, the hooks of bug-capture.ts,  *)
(* the bug history of bug-store.ts and the heartbeats of                   *)
(* watchdog-monitor.ts, over the two files they keep.                      *)
(*                                                                         *)
(* The program is one JavaScript thread.  A call runs to its first await   *)
(* and queues its continuation; jobs is that queue, taken in order, and a  *)
(* step of the module is one job.  A call may be made between any two jobs *)
(* (by the code of another promise); timers fire when the queue is empty.  *)
(* What a fix does is the matter of FixEngine: here it is counted.         *)
(***************************************************************************)
EXTENDS Naturals, Sequences, FiniteSets, SequencesExt

CONSTANTS Callers,         \* promise chains that call the engine
          HookPoints,      \* number of hooks that startCapture installs
          Capacity,        \* config.bug_capacity
          MinOccurrences,  \* config.min_occurrences_before_fix
          MaxBugs,         \* bound: bugs reported
          MaxStarts, MaxStops, MaxCrashes,  \* bounds: calls of start and stop, deaths
          MaxFailures,     \* bound: operations on the history that fail: a read, a
                           \* write, a rename
          MaxDamages       \* bound: corruptions of the history from outside

ASSUME LifecycleAssumption ==
  /\ Capacity \in Nat \ {0} /\ MinOccurrences \in Nat \ {0} /\ HookPoints \in Nat \ {0}
  /\ {MaxBugs, MaxStarts, MaxStops, MaxCrashes, MaxFailures, MaxDamages} \subseteq Nat

Bugs == 1 .. MaxBugs

VARIABLES
  engine,      \* its flags: running, capturing (hooks), monitoring (watchdog)
  store,       \* the bug store's memory: whether it was loaded, and its events
  recentBugs,  \* the engine's working set
  history,     \* bug-history.json
  quarantine,  \* the bugs in sound histories that were set aside, each under a name of its own
  heartbeats,  \* watchdog-events.json
  jobs, call,  \* the queue of continuations, and where each caller stands
  saved,       \* the bugs in a history that was written, but for those that damage took, or
               \* a load whose read failed and whose rename failed as well
  nextBug,     \* the next bug to be reported
  counts       \* of each bounded event, how often it happened; fixes attempted

lifecycleVars == <<engine, store, recentBugs, history, quarantine, heartbeats, jobs, call, saved,
                   nextBug, counts>>
process == <<engine, store, recentBugs>>
disk == <<history, quarantine, heartbeats>>

Idle == [at |-> "idle", bug |-> 0, n |-> 0]
NewEngine == [running |-> FALSE, capturing |-> FALSE, monitoring |-> FALSE]
NotLoaded == [loaded |-> FALSE, events |-> << >>]
Absent == [state |-> "absent", events |-> << >>]

LifecycleInit ==
  /\ engine = NewEngine /\ store = NotLoaded /\ recentBugs = << >>
  /\ history = Absent /\ quarantine = {} /\ heartbeats = "absent"
  /\ jobs = << >> /\ call = [c \in Callers |-> Idle]
  /\ saved = {} /\ nextBug = 1
  /\ counts = [starts |-> 0, stops |-> 0, crashes |-> 0, failures |-> 0, damages |-> 0,
               fixes |-> 0]

Newest(s) == SubSeq(s, Len(s) - (IF Len(s) < Capacity THEN Len(s) ELSE Capacity) + 1, Len(s))
Count(what) == counts' = [counts EXCEPT ![what] = @ + 1]
Fails(times) == /\ counts.failures + times <= MaxFailures
                /\ counts' = [counts EXCEPT !.failures = @ + times]

(* c runs: its job is the oldest of the queue and it stands at "at".       *)
Runs(c, at) == jobs # << >> /\ Head(jobs) = c /\ call[c].at = at
(* ... and awaits, to go on at "to", or returns.                           *)
Awaits(c, to) == /\ jobs' = Append(Tail(jobs), c)
                 /\ call' = [call EXCEPT ![c].at = to]
Returns(c) == /\ jobs' = Tail(jobs)
              /\ call' = [call EXCEPT ![c] = Idle]
(* A new call runs to its first await.                                     *)
Enters(c, to, b) == /\ jobs' = Append(jobs, c)
                    /\ call' = [call EXCEPT ![c] = [at |-> to, bug |-> b, n |-> 0]]

-----------------------------------------------------------------------------
(* BugStoreImpl.                                                           *)

(* loadHistory: once per process.  A history that cannot be read is taken  *)
(* for one that cannot be trusted: either is renamed away, and the store   *)
(* starts empty.  When the rename fails the history stays where it is, and *)
(* the next save replaces it.                                              *)
LoadHistory ==
  \/ /\ store.loaded
     /\ UNCHANGED <<store, history, quarantine, saved, counts>>
  \/ /\ ~store.loaded /\ history.state # "corrupt"
     /\ store' = [loaded |-> TRUE, events |-> history.events]
     /\ UNCHANGED <<history, quarantine, saved, counts>>
  \/ /\ ~store.loaded /\ history.state = "corrupt"
     /\ store' = [loaded |-> TRUE, events |-> << >>]
     /\ \/ history' = Absent /\ UNCHANGED counts
        \/ UNCHANGED history /\ Fails(1)
     /\ UNCHANGED <<quarantine, saved>>
  \/ /\ ~store.loaded /\ history.state = "sound"
     /\ store' = [loaded |-> TRUE, events |-> << >>]
     /\ \/ /\ Fails(1) /\ history' = Absent
           /\ quarantine' = quarantine \cup ToSet(history.events)
           /\ UNCHANGED saved
        \/ /\ Fails(2) /\ saved' = saved \ ToSet(history.events)
           /\ UNCHANGED <<history, quarantine>>

(* Faulty form: the history is written in place, and a failure tears it.   *)
SaveHistoryInPlace(events) ==
  \/ /\ history' = [state |-> "sound", events |-> events]
     /\ saved' = saved \cup ToSet(events)
     /\ UNCHANGED counts
  \/ /\ Fails(1)
     /\ history' = [state |-> "corrupt", events |-> << >>]
     /\ UNCHANGED saved

(* saveHistory writes a temporary file and renames it over the history.    *)
SaveHistory(events) ==
  \/ /\ history' = [state |-> "sound", events |-> events]
     /\ saved' = saved \cup ToSet(events)
     /\ UNCHANGED counts
  \/ Fails(1) /\ UNCHANGED <<history, saved>>

(* appendEvent after its loadHistory has come back.                        *)
AppendEvent(c) ==
  /\ Runs(c, "append")
  /\ LET events == Newest(Append(store.events, call[c].bug)) IN
       store' = [store EXCEPT !.events = events] /\ SaveHistory(events)
  /\ Awaits(c, "saved")
  /\ UNCHANGED <<engine, recentBugs, quarantine, heartbeats, nextBug>>

-----------------------------------------------------------------------------
(* start.                                                                  *)

(* The compatibility check runs in the first job.                          *)
Start(c) ==
  /\ call[c].at = "idle" /\ counts.starts < MaxStarts /\ Count("starts")
  /\ IF engine.running THEN UNCHANGED <<jobs, call>> ELSE Enters(c, "checked", 0)
  /\ UNCHANGED <<process, disk, saved, nextBug>>

(* The environment is compatible: the saved alerts are loaded next.        *)
StartChecked(c) ==
  /\ Runs(c, "checked") /\ Awaits(c, "alerts")
  /\ UNCHANGED <<process, disk, saved, nextBug, counts>>

(* It is not: start gives up.                                              *)
StartRefused(c) ==
  /\ Runs(c, "checked") /\ Returns(c)
  /\ engine' = [engine EXCEPT !.running = FALSE]
  /\ UNCHANGED <<store, recentBugs, disk, saved, nextBug, counts>>

(* running is set before startCapture installs its first hook.             *)
StartCapture(c) ==
  /\ Runs(c, "alerts")
  /\ engine' = [engine EXCEPT !.running = TRUE, !.capturing = TRUE]
  /\ Awaits(c, IF engine.capturing THEN "hooked" ELSE "hooking")
  /\ UNCHANGED <<store, recentBugs, disk, saved, nextBug, counts>>

(* One hook after the other, each awaited; the return is awaited too.      *)
InstallHook(c) ==
  /\ Runs(c, "hooking")
  /\ jobs' = Append(Tail(jobs), c)
  /\ call' = [call EXCEPT ![c].n = @ + 1,
                          ![c].at = IF call[c].n + 1 = HookPoints THEN "hooked" ELSE @]
  /\ UNCHANGED <<process, disk, saved, nextBug, counts>>

StartWatchdog(c) ==
  /\ Runs(c, "hooked")
  /\ engine' = [engine EXCEPT !.monitoring = TRUE]
  /\ Awaits(c, "watched")
  /\ UNCHANGED <<store, recentBugs, disk, saved, nextBug, counts>>

StartLoads(c) ==
  /\ Runs(c, "watched") /\ LoadHistory /\ Awaits(c, "loaded")
  /\ UNCHANGED <<engine, recentBugs, heartbeats, nextBug>>

(* Faulty form: a start that has come this far says once more that it runs. *)
StartConfirms(c) ==
  /\ Runs(c, "loaded") /\ Returns(c)
  /\ recentBugs' = IF store.events = << >> THEN recentBugs ELSE Newest(store.events)
  /\ engine' = [engine EXCEPT !.running = TRUE]
  /\ UNCHANGED <<store, disk, saved, nextBug, counts>>

(* The working set becomes the history.                                    *)
StartFillsWorkingSet(c) ==
  /\ Runs(c, "loaded") /\ Returns(c)
  /\ recentBugs' = IF store.events = << >> THEN recentBugs ELSE Newest(store.events)
  /\ UNCHANGED <<engine, store, disk, saved, nextBug, counts>>

-----------------------------------------------------------------------------
(* stop.  The hooks are functions and have no detach: they stay in the     *)
(* target, and their reports are turned away while running is FALSE.       *)

Stop(c) ==
  /\ call[c].at = "idle" /\ counts.stops < MaxStops /\ Count("stops")
  /\ engine.running
  /\ engine' = [engine EXCEPT !.capturing = FALSE]
  /\ Enters(c, "uncaptured", 0)
  /\ UNCHANGED <<store, recentBugs, disk, saved, nextBug>>

StopWatchdog(c) ==
  /\ Runs(c, "uncaptured")
  /\ engine' = [engine EXCEPT !.monitoring = FALSE]
  /\ Awaits(c, "exporting")
  /\ UNCHANGED <<store, recentBugs, disk, saved, nextBug, counts>>

(* exportMetrics awaits the exporter, then the alerts are saved.           *)
StopReports(c) ==
  /\ \/ Runs(c, "exporting") /\ Awaits(c, "exported")
     \/ Runs(c, "exported") /\ Awaits(c, "stopped")
     \/ Runs(c, "stopped") /\ Awaits(c, "ending")
  /\ UNCHANGED <<process, disk, saved, nextBug, counts>>

StopEnds(c) ==
  /\ Runs(c, "ending") /\ Returns(c)
  /\ engine' = [engine EXCEPT !.running = FALSE]
  /\ UNCHANGED <<store, recentBugs, disk, saved, nextBug, counts>>

-----------------------------------------------------------------------------
(* captureBug.                                                             *)

(* A hook fires, or a caller reports a bug itself.  The first capture of a *)
(* process may be the one that loads the history.                          *)
CaptureBug(c) ==
  /\ call[c].at = "idle" /\ nextBug <= MaxBugs
  /\ engine.running
  /\ nextBug' = nextBug + 1
  /\ LoadHistory
  /\ Enters(c, "append", nextBug)
  /\ UNCHANGED <<engine, recentBugs, heartbeats>>

(* appendEvent returns to captureBug.                                      *)
EventSaved(c) ==
  /\ Runs(c, "saved") /\ Awaits(c, "captured")
  /\ UNCHANGED <<process, disk, saved, nextBug, counts>>

(* The event joins the working set, and the patterns are looked for there. *)
(* All bugs are of one cluster; it is a pattern if there are enough of     *)
(* them, and they are confident enough.                                    *)
DetectPatterns(c) ==
  /\ Runs(c, "captured")
  /\ recentBugs' = Newest(Append(recentBugs, call[c].bug))
  /\ \/ Len(recentBugs') >= MinOccurrences /\ Awaits(c, "patterns")
     \/ Returns(c)
  /\ UNCHANGED <<engine, store, disk, saved, nextBug, counts>>

(* The gate in front of a fix: the safety mesh finds a critical file that  *)
(* is no JSON, or the memory or the disk short.                            *)
MutationBlocked(c) ==
  /\ Runs(c, "patterns") /\ Returns(c)
  /\ UNCHANGED <<process, disk, saved, nextBug, counts>>

AttemptFix(c) ==
  /\ Runs(c, "patterns") /\ Returns(c) /\ Count("fixes")
  /\ history.state # "corrupt" /\ heartbeats # "torn"
  /\ UNCHANGED <<process, disk, saved, nextBug>>

-----------------------------------------------------------------------------
(* WatchdogMonitorImpl: the heartbeat's timer, in a turn of its own.       *)

(* recordEvent rewrites the file in place, but not one it cannot read.     *)
Heartbeat ==
  /\ jobs = << >> /\ engine.monitoring
  /\ heartbeats' = IF heartbeats = "torn" THEN "torn" ELSE "sound"
  /\ UNCHANGED <<process, history, quarantine, jobs, call, saved, nextBug, counts>>

(* The process dies, perhaps in the middle of recordEvent's write; a write *)
(* of the history that is cut off leaves only its temporary file behind.   *)
Crash ==
  /\ counts.crashes < MaxCrashes /\ Count("crashes")
  /\ engine' = NewEngine /\ store' = NotLoaded /\ recentBugs' = << >>
  /\ jobs' = << >> /\ call' = [c \in Callers |-> Idle]
  /\ \/ UNCHANGED heartbeats
     \/ jobs = << >> /\ engine.monitoring /\ heartbeats' = "torn"
  /\ UNCHANGED <<history, quarantine, saved, nextBug>>

(* The history is damaged from outside, where no process has it loaded (a  *)
(* process that has writes it anew with its next bug).                     *)
DamageHistory ==
  /\ ~store.loaded
  /\ counts.damages < MaxDamages /\ Count("damages")
  /\ history.state = "sound"
  /\ history' = [state |-> "corrupt", events |-> << >>]
  /\ saved' = saved \cap quarantine
  /\ UNCHANGED <<process, quarantine, heartbeats, jobs, call, nextBug>>

Resume(c) ==
  \/ StartChecked(c) \/ StartRefused(c) \/ StartCapture(c) \/ InstallHook(c)
  \/ StartWatchdog(c) \/ StartLoads(c) \/ StartFillsWorkingSet(c)
  \/ StopWatchdog(c) \/ StopReports(c) \/ StopEnds(c)
  \/ AppendEvent(c) \/ EventSaved(c) \/ DetectPatterns(c)
  \/ MutationBlocked(c) \/ AttemptFix(c)

LifecycleNext ==
  \/ \E c \in Callers : Start(c) \/ Stop(c) \/ CaptureBug(c) \/ Resume(c)
  \/ Heartbeat \/ Crash \/ DamageHistory

LifecycleSpec == LifecycleInit /\ [][LifecycleNext]_lifecycleVars

-----------------------------------------------------------------------------
(* A bug that was once saved is in the history, or in one that was set     *)
(* aside because it could not be read, until Capacity later bugs have      *)
(* displaced it: no order of captures, restarts, crashes, failed writes    *)
(* and failed reads loses it.                                              *)
SavedBugsSurvive ==
  \A b \in saved : \/ b \in ToSet(history.events) \cup quarantine
                   \/ Cardinality({d \in Bugs : d > b /\ d < nextBug}) >= Capacity

(* Once every call has come back, an engine that says it runs has its      *)
(* hooks and its watchdog: no overlap of starts and stops leaves it blind. *)
RunningIsWatched ==
  jobs = << >> /\ engine.running => engine.capturing /\ engine.monitoring

=============================================================================
