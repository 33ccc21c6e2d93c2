# Specifications of the runtime learning system

TLA+ models of the parts of this repository that keep state across calls,
crashes and concurrent activities, TLC configurations that check them on small
instances, and TLAPS proofs of the results that matter most. Paths below are
relative to the repository; those without a directory are under
`modules/runtime-learning-engine/`.

To check a model: `tlc -config MCLearningStore.cfg MCLearningStore.tla`. To
check proofs: `tlapm LearningStoreProofs.tla`.

## The system

| Part | State it keeps | Operations | What is hard |
|---|---|---|---|
| learning store, `android/app/native/learning_store.c` | append log in a file, one-slab buffer, predictor, counters, mode, epoch | init, observe, predict, set_mode, flush, freeze, reset_volatile, close | storage errors and death between system calls; predictor and log must agree after replay |
| learning runtime, `learning_runtime.c` | logical mode, validation table and score | init, set_mode, observe, predict, flush, reset, close, snapshot | two layers with a mode each; validation must not train |
| L0 routines, `rafaelia_freestanding_l0.c` | none | ratio, CRC, saturating increment, spin lock | machine-word overflow |
| fix engine, `index.ts`, `auto-fixer.ts`, `watchdog-monitor.ts` | flags, watchdog state, installed wrappers, patches, fix events, pending rollbacks | start, stop, captureBug -> applyFix -> tests -> rollback; heartbeats, timeout | calls overlapping at awaits; restores that fail; rollbacks out of order |
| bug capture, `bug-capture.ts`, `concurrent-bug-capture.ts` | hooks; entries and tokens of captures | startCapture, stopCapture, captureBugConcurrently, reset | an await between every check and its use |
| bug store, pattern detector | the history, in memory and in a file | load, append, save, detect | a save that fails or is cut off, a file that cannot be trusted |
| rollback journals, `rollback-engine.ts` | journal, counter of attempts, file | journalBefore, rollback, verify | callers share the counter of attempts |
| alerts, health, safety mesh, `alert-manager.ts`, `health-check-endpoint.ts`, `runtime-safety-mesh.ts`, `alert-rules-3-2.ts` | figures, alerts, debounce, file | refresh, resolve, save, load | a refresh reads at different moments and judges twice |
| rollout control, `rollout-manager.ts`, `canary-deployment-orchestrator.ts`, `rollback-automation.ts` | rollout, plan, stages, history of rollbacks, files | start, progress, roll back, monitor | late timers, ticks that overlap, restarts with torn files |
| tuning, `auto-optimizer.ts`, `feedback-collector.ts` | thresholds, log of adjustments | evaluateAndOptimize | evaluations that overlap at an await |
| disk exhaustion, `disk-exhaustion-handler.ts` | items with size, age, priority | register, touch, monitorAndEvict | when to stop, what never to take |
| evidence, `provenance-tracker.ts`, `versioning.ts`, `audit-logger.ts`, `integrity-verifier.ts`, `contract-verifier.ts` | graph, version, log and report files | record, bump, log, verify | torn lines, rotation under readers, ids recorded twice |
| hypermemory, `hypermemory-runtime.ts` | ring of records, checkpoint file | start, append, checkpoint, stop | death before the rename; smaller capacity after a restart; corrupt checkpoints |
| stability bridge, `runtime-stability-hypermemory-bridge.ts` | (the ring) | appendDump, appendDiff, appendOutcome | the predecessor may have been evicted |
| stability recorder, `tools/frida-runtime-stability-recorder.c` | smoothed pressures, baseline, trigger counters, ring of records | init, observe, drain, make_dca_signal, reset_epoch | overwriting what is not drained; two counters with different resets |
| aided adapter, `tools/frida-runtime-aided-adapter.c` | none | translate a hook's event | what it must refuse |
| route planner, `tools/frida-debugger-class-a-autotune.c` | none | plan, mitigate | wrapping comparisons, rounding |
| dump store, `tools/runtime_stability_storage.py`, `tools/capture-runtime-stability-dump.py` | a directory of dumps and sidecars, a ledger | observe predecessor, publish; capture, append to the ledger | two kinds of writers, death and power loss between system calls |
| crash agent, `agents/android-crash-observer.js` | ring of calls, endpoints | hooks, exception | calls of several threads around a crash |
| dump agent, `agents/android-runtime-stability-dump.js` | captures under way, observers, event numbers | captureOnce, startObservers, stopObservers | modules come and go during a capture |
| dashboard, `dashboard/backend/server.js`, `dashboard/web/.../Dashboard.tsx` | SQLite tables, sockets, pages | POST run, snapshot, complete; broadcast; fetch | answers of the database and of the net in any order |
| crash observer (C), evidence tools, validators, front end, CI | see Not modelled | | |

How they interact: the Android application calls the learning runtime through
JNI; the runtime calls the store, and both call the L0 routines. In the
TypeScript engine `index.ts` owns the fixer, the watchdog, the test suite, the
bug store, the safety mesh, the health endpoint and the alerts and calls them;
the watchdog calls back into it. What the services tell each other are values
(rates, states), and each has files of its own. The bridge appends to the
hypermemory. A native hook passes events through the adapter to the stability
recorder; a caller drains the recorder and turns its state into a signal for the
route planner. The dump agent runs in the target; the controller writes what it
sends into the dump store. PROJECT.json lists every component with what is
modelled of it, and `hazards` what is hard to test, at its line.

What makes each part correct, in one line each. Store: what a durable call
confirmed survives; a restart loses only a suffix, unless the header is torn; the predictor is what the
log says. Runtime: the layers agree on the mode; the model under validation is
frozen. Ratio: exact. Fix engine: a failed fix is undone or remembered; an
attempt ends; an engine that says it runs is watched. Captures: one winner per
bug. Bug store: what was saved stays. Journals: attempts are bounded and used
up. Alerts: none is lost, and the two judges of a refresh agree. Rollouts: a
rollback is remembered; production is measured; the history is complete.
Optimizer: its log explains its thresholds. Eviction: just enough, nothing
critical. Evidence: what is on disk is what was recorded, but for what a
failure itself cost. Hypermemory: the newest end of the history, all loss
counted, the last checkpoint never destroyed. Bridge: the chain stays linked
and never pretends to begin anew. Recorder: it dumps exactly what the policy
asks for, and a drain delivers the newest dumps in order, each once. Route
planner: a fault from anywhere ends in the known-good route. Dump store: one
chain, no fork, nothing published before it is durable. Agents: the tail of a
crash is the last calls that returned; dumps and events together tell the
modules. Dashboard: what is shown is stored.

## Modules

Composition: `LearningStore` EXTENDS `RecordFile` and `Predictor` and
instantiates `DurableLog`; `RuntimeOverStore` EXTENDS `LearningStore`;
`LearningRuntime` EXTENDS `Predictor`;
`CausalBridge` EXTENDS `HyperMemory`; `StabilityRecorder` EXTENDS `EventAdapter`
and `RecordBank` and instantiates `LossyQueue`, and `RecorderAdvice` composes it
with `Autotune`. The MC modules give the constants values. `MCServices`,
`MCOperations` and `MCRuntimes` check several components which share
nothing: a variable `subject` says whose behaviour it is, and the others keep
their initial values, so that a run's states are the sum of the components'
and not their product.

**RecordFile** - a file of fixed-size records as the store uses it: a header and
a sequence of slots, each a record that passes its CRC or `Garbage`. Writes can
stop after any slot or inside one. `FilesAfterLoss` is what a power loss can
leave: each slot, and the length, old or new, and of a header that was being
rewritten the old one, the new one or a torn one (`HeadersAfterLoss`). Torn bytes never form a valid
record that was not written there (CRC32C taken as an ideal check).

**Predictor** - `rfl_predict_locked` and `rfl_update_predictor_locked`: a
set-associative table with saturating counts, replacement of the least
supported entry, ties by age and position.

**LearningStore** - every entry point that changes the store. `g_lock` is held
through a call, so calls do not interleave; a call that touches the file is a
sequence of steps, one per system call, and `call` says where it stands.
`cache` is what the process sees, `disk` what a power loss leaves. `born` tells
records of different process lives apart, as their timestamps do. `acked` and
`learnedFrom` are history.

**DurableLog** - what the store promises: while it is open, entries are appended
one by one in the order of their numbers; opening it changes nothing; what a
durable call has confirmed stays; when it closes, fails or its process dies, a
suffix goes (`LogSpec`). Where the machine may lose its power the promise is
weaker (`SurvivalSpec`): behind the confirmed entries any intact ones may be
found again. The promise has one hole, which is in it because it is in the code:
every flush rewrites the header in place, and a store that ends while the header
is half written leaves a file that init refuses, so the log is gone for its
reader, confirmed entries and all. `header` says when that can happen: only
while the header is "torn" or, to a loss of power, "written" and not yet
"synced"; a confirmation needs it synced. The refinement maps `log` to what a
reader gets (`Log`): the committed part of the file followed by the slab while
the store is open, nothing of a file whose header is torn, and otherwise the
verified prefix of the file; `confirmed` to `acked`; `open` to `initialized`;
`header` to `HeaderState`, which compares the header in the cache with the one
on the disk.

**LearningRuntime** - `learning_runtime.c` in one action per call (it holds
`g_runtime_lock` throughout), for what the runtime adds: the validation table and
its score. Of the store it keeps what the runtime can see, any call that flushes
may fail, and both layers' modes change in one step. Opening may find any of
`RecoveredTables`. **RuntimeOverStore** shows that this step may be taken for one:
the same calls over LearningStore, with the one or two store calls that each
makes going system call by system call, any of which fails or is the last of the
process; a probe that fails after the store was opened closes it again.

**L0Ratio** - `rafaelia_l0_ratio_scaled`, one action per round of the loop, all
sums taken modulo the word.

**FixEngine** - from a delivered bug to the end of its fix, one action from an
await to the next. Captures running at the same time interleave at awaits. The
watchdog's interval callback is a turn of its own: it starts when the captures
have run out and they wait for it. Restores that throw, overloads that refuse a
wrapper, absent targets and failing tests are choices.

**EngineLifecycle** - start, stop and captureBug with the hooks, the bug history
and the heartbeats. `jobs` is the queue of continuations of the JavaScript
thread: an await appends, a step takes the oldest. Calls may come between any
two jobs. Saves that fail, deaths and a damaged history are faults.

**ConcurrentCapture** - `captureBugConcurrently` between its awaits: the entry in
`activeBugCaptures`, its token, the check at the end and the deletion in
`finally`; resets at any time. Without a delay there is no await between entry
and check.

**RollbackJournals** - the journal of one region, the attempts shared by its
callers, a page that may refuse writes, the journal file.

**Observability** - one refresh from its first reading to its alerts, with the
health endpoint's figures, the alert rules and the mesh's rules; figures drift
while it waits. **AutoOptimizer** - the two adjustments of an evaluation around
its await, and what its collector has seen. **DiskExhaustion** - items and an
eviction at a stale reading. **ProvenanceTracker** - nodes, edges, lineages from
both ends. **Versioning** - version, changelog and their file. **EvidenceFiles** -
the audit trail with torn lines and rotation, integrity checks that read it,
contract reports that are trimmed.

**RolloutManager**, **CanaryDeployment** (orchestrator and automation) - one
action per method, ticks split at the call of the metrics provider and rollbacks
at their steps; saves that fail or tear, restarts.

**HyperMemory** - every method that changes the arena or the checkpoint; each is
one step except a checkpoint, which is split before the rename. Faults: a
checkpoint that throws, a damaged file, an unreadable file, a quarantine whose
rename fails. **CausalBridge** - HyperMemory with `appendEnvelope`.

**Q16, EventAdapter** - the sixteen-bit fractions with their rounding, and the
adapter as a function from a hook's event to the recorder's input, with its
refusals.

**RecordBank** - the circular array with its write index and its count of
readable records: commit and drain. **LossyQueue** is what it promises: a queue
that only ever loses its oldest entries. The refinement maps `queue` to what a
drain into a large buffer would copy.

**StabilityRecorder** - one action per call (the recorder is used by one thread).
`trail`, the history of the epoch's observations, is the only variable that is
not in `frida_rs_state`; the properties count over it what the code keeps in two
counters. Times are in microseconds; the FNV chain is the number of records in
it.

**Autotune, RecorderAdvice** - the planner as operators on a signal, the signal
that the recorder makes, and their composition. The recorder's `expected` tag
and the risk policy are parameters. `Word` is the width of the comparison.

**DumpStore** - each writer is a process with one dump; one action per link,
fsync, unlink or write. `synced` is what a power loss leaves of the directory.
A controller takes no lock and chains nothing; its ledger line names the line
before. **CrashAgent** - a call enters and leaves in two steps; a hook under the
agent's own `send` is skipped. **DumpAgent** - a capture between its awaits;
observers with what they have yet to tell. **Dashboard** - a statement is handed
over, executed in any order and answered in a callback; pages fetch, listen,
lose their sockets and come back.

The theorems are in eight modules: **LearningStoreProofs**,
**LearningRuntimeProofs** (with the ratio), **HyperMemoryProofs** (with the
bridge), **StabilityRecorderProofs**, **ServicesProofs** (what MCServices
composes, and FixEngine), **OperationsProofs** (what MCOperations composes), and
their lemmas in **PredictorProofs** and **DataLemmas**.

A definition whose comment begins "Faulty form" is a wrong version of the
definition below it. It belongs to no specification: each is used to see that a
property fails when the code is wrong in that way.

## Runs

| Run | States | What it shows |
|---|---|---|
| store_process_crash | 3.61 M | One storage error and one process death at any system call, three modes, resets, two candidates for one way, records appended after a restart: numbering, counts, predictor and log agree; the store implements DurableLog, so a restart loses only a suffix, or, with its header torn, the file. |
| store_power_loss | 2.51 M | The store under its runtime (RuntimeOverStore). Two losses of power, each leaving any mixture of slots, and an error: confirmed records stay (AckedDurable), and what is appended after a restart is numbered above all that the replay found (SurvivesPowerLoss); wherever a call failed, the layers are open or closed together and agree on the mode (LayersAgree). |
| runtimes | 2.55 M | LearningRuntime: three contexts in a two-way set, every order of calls. L0Ratio: every pair of 5-bit operands and every 4-bit scale. CausalBridge: three processes with changing capacity, four appends, three checkpoints, two faults. |
| engine_rollback | 0.68 M | Two captures, three fixes, two hook points, two timeouts; liveness of an attempt. |
| recorder_pipeline | 0.47 M | Five reported events and three refused or ignored ones in every order, seven observations an epoch, drains of one and three records from a bank of two, resets, refused starts, three risk policies, one of them with a known-good route that wraps in the range check and one just below. |
| engine_services | 1.39 M | EngineLifecycle, ConcurrentCapture, RollbackJournals, Observability, AutoOptimizer, DiskExhaustion, ProvenanceTracker, EvidenceFiles. |
| operations | 2.49 M | RolloutManager, CanaryDeployment, DumpStore, CrashAgent, DumpAgent, Versioning, Dashboard. |
| store_stale_tail, engine_rollback_order, bridge_false_genesis, alerts_zero_rate, advice_out_of_range | | Each finds the violation described under Findings. |

Each property is stated in a comment above it in its module; each has a mutant
in PROJECT.json, a plausible bug in the code that it finds.

Why the bounds are enough. Every bound is a constant, and its guard the only
place where it is used. The store: a slab of two records shows a full, a
half-full and an empty buffer, and `MaxSequence` lets the file hold a whole
slab and a partial one; one error and one death already reach every pair of
"failed in step x, died in step y". The interesting power-loss cases need two
losses: one to leave a mixture, one after recovery from it; `MaxEpoch` lets a
store that has been paused and restarted learn again. The predictor's
behaviour depends on the set being over-full, which two candidates and one
way give; counts saturate at `CountMax` as in the code. The store under any
caller (store_process_crash) includes freeze, which the runtime never calls. The ratio's word is one
bit wider than its operands' scale needs, so that sums that would wrap occur.
The engine needs two fixes of one hook for the order of rollbacks and a third
for the pending map. Hypermemory needs frames of two sizes, so that one append
evicts two records.

`TooSmall` (bridge_false_genesis) lets a process start with less capacity than
one frame; the other run (`Enough`) does not, which is the condition under which
the chain properties hold.

The recorder: a bank of two overflows after three dumps; seven observations
reach a quota of two, its renewal by a release and the dumps after it. The
events are far enough apart to give intervals of every class. Of `Word` only
that it is more than four times the scale matters; 2^20 stands for 2^32, and
half of it, and four, for the first known-good route that wraps.

The services: three callers overlap two starts and a stop with captures of three
bugs for a history of two, so that eviction, a restart and a failed write meet; two failures
reach a read of the history that fails and then the rename that would set it aside.
Three capturers of one bug are what a deleted entry takes to let a second one
in. Two rollers with three attempts in all run into the limit in the middle of
each other's. The alert rules have debounces of no, one and two ticks within
three. Refreshers: one in the run, since the step that judges is a single one;
two refreshers and one figure give 1,257,689 states without a violation. Two
evaluations of the optimizer overlap up to four adjustments. Four nodes give a
provenance graph with a pattern of two bugs and an id recorded twice. A file
limit of one lets the trail rotate between any two entries.

The operations: three stages with durations of two ticks, two rollouts, two
restarts and two bad writes; two storers and two controllers with three dumps
allowed, so that retention refuses the fourth, and three accidents (deaths,
failures, power losses); a ring of two calls with three operations on two
threads wraps and is read by two crashes; two module changes around two captures
with two starts of the observers; three upgrades with three damages; two
snapshots, one page, two outages.

Symmetry is used for callers, storers and controllers, over runs that check
invariants and one action property that all treat them alike.

Deadlock is checked except where the system may stop: a runtime, a service or a
subject whose bounds are used up does nothing, and the ratio returns.

Fairness. Only FixEngine has any: a capture that has started goes on
(`Continue`), and so does the watchdog's callback. The event loop runs every
promise that has resolved and each await in this path is on work that finishes.
Bugs, timeouts and captures need not happen. `ObservationEnds` rests on it.

## Proofs

TLAPS, for every value of the constants that the assumptions allow. Every
invariant that a passing run checks is a theorem here, and so are five of its
six action and refinement properties. A component's specification is named in
its module (`BridgeSpec`, `DumpSpec`, ...); where a run composes several, its
behaviours are, subject by subject, those of these specifications.

**PredictorProofs**: `UpdateIs` says what an update does without its CHOOSEs: one
way of the set changes, to the entry of that outcome counted up, or to a first
entry in a free way or in that of a least supported entry (`VictimIs`: in a full
set the choice exists). `PredictIs`: so does the best candidate, whenever there is
an entry to report. From these, of the running store: `EntriesStaySound`,
`PredictionsAreBest`, `EvictsWeakest`. **DataLemmas** is what the
other modules share: induction, least and greatest elements, parts of
sequences, sums over finite sets. The library's induction theorems take an
operator as a parameter, which the provers cannot instantiate; `NaturalsBySteps`
says it of a set instead (one that holds 0 and each successor holds Nat), from
the well-foundedness of `<`. What a recursive function computes is proved with
it: a replay, the size of a ring, a sum, the rounds of a traversal.

**LearningStoreProofs**. `IInv` = types, `Progress` (where a call can stand and
what it has established there), `Headed` (a file without header is empty and
closed), `CommittedVerified`, `Confirmed`, `ObservationsAreRecords`. AckedDurable
alone is not inductive: that the next flush does not overwrite a confirmed
record needs `Len(acked) <= committed` while open, and that `acked` becomes the
cache needs to know, at the return of a durable call, that the cache has been
synced and cut to length, which is `Progress`. Recovery re-establishes the bound
because a verified prefix covers whatever is confirmed. The lemmas on `WriteAt`,
`WriteTorn`, `Truncate` and `AreasAfterLoss` say what file operations keep.
- `FreshInv` says that no record that counts has the next number or a higher one
  (a replay takes the highest it reads, a flush only moves records) and that a
  flush which succeeded has emptied the slab. With `IInv` it makes every step one
  of DurableLog's `SurvivalSpec`, with no hypothesis on the power
  (`StoreSurvivesPowerLoss`): a flush, at each of its system calls, leaves the log
  as it is (`FlushingMoves`); and the verified prefix of whatever file is left
  begins with the confirmed records (`KeptHoldsAcked`, of `Kept`, what is there
  whether or not its reader gets to it). `HeaderSound` says that the
  header in the cache is whole wherever a sync of it, a replay or a successful
  return follows, so that a durable call never confirms under a torn one.
- `LogInv` adds where the numbers of the records are: those beyond the committed
  part are a beginning of the slab (`TailIsSlab`), so a replay that goes on into
  them finds nothing new; from it SequencesIncrease and the refinement of
  DurableLog's `LogSpec`, step by step. Both assume `~PowerLossAllowed`: a power
  loss leaves any mixture of old and new slots, and when one is allowed TLC finds
  a log whose numbers do not rise (finding 1).
- `LearnInv` says of a replay under way that the predictor is what the records
  replayed so far build, and afterwards that it is what the log since the last
  reset builds. The replay of a prefix and one more record is one more update.
  What any replayed log supports, by induction over it (`ReplayIsSupported`), the
  predictor then supports too (`SupportStaysRecorded`).
- RuntimeOverStore's steps are LearningStore's (`LayersDriveStore`), so what is
  proved of the store holds under the runtime too. `LayersInv` says for each place
  where a runtime call can stand what the layers have in common there: between the
  calls all (`InStep`), while the store is opened or closed nothing yet. From it
  `LayersStayInStep`, which assumes that FROZEN is among the modes the callers use
  (`CallModes`), since VALIDATE_SHADOW puts the store into it.

**LearningRuntimeProofs**. `IInv` = TypeOK, ModesAgree, ScoreAddsUp,
ModelUnderTestIsFrozen. The last needs ModesAgree: in VALIDATE_SHADOW the store
is frozen, so it does not train. (ModesAgree holds here because each call is one
step; that the calls are so in the code is `LayersStayInStep`.) NothingForgotten adds that every entry of the
validation table is of a context which the frozen model has an entry for in the
same set (`EntriesAreTested`): a set full of other contexts would be one the
model cannot hold either, so no entry is ever displaced, and the sums over the
table are the totals.
The ratio: `RatioInv` says what the loop has computed. With the bits of the scale
above the current one read as a number p, `quotient * denominator + remainder =
numerator * p` and `remainder < denominator`; every sum that would wrap is shown
equal to the unbounded one. Proved for every word, not only 64 bits.

**HyperMemoryProofs** (both modules). `BridgeInv` says of the arena and of the
checkpoint that the records are numbered without a gap up to the last number
given out and that envelopes are linked (`Sound`); of a process that it knows of
the checkpoint's envelopes (`Knows`). The properties alone are not inductive, as a
restart takes the arena from a file which they say nothing of. `Bytes` and
`Restored` are recursive functions; what they compute, also where a record
exceeds the capacity, is proved first. Two theorems assume `AllFit` (no process
starts with less capacity than one frame needs); without it ChainIsNotRestarted
is violated by what the code does (finding 3), and RingIsEndOfHistory by the
same uncounted loss.

**StabilityRecorderProofs**. `IInv` = TypeOK, the bank holds records where they
will be read (`BankIsFilled`), time zero marks an epoch without observations
(`EpochIsMarked`), the run counts the newest crossings and never the first
observation (`RunIsNewest`), the quota counts the dumps since the last release
(`QuotaIsCounted`), and the two parts of DumpsAreJustified, which need the two
counters to mean what they say. `CommitAppends` and `DrainTakesFirst` say what
commit and drain do to the queue, without remainders; from them
BankIsLossyQueue, the full refinement of LossyQueue. `AtLeastIsExact` shows where
the wrapping comparison is right, and `KnownGoodIs` what it does to a known-good
route that may be any word; AdviceSafety follows from these and the types.

**ServicesProofs**, one part for each service.
- Captures: OneWinner speaks of captures that have returned. `TokensAreOwn` and
  `OneIsDisplaced` say of those under way that one of two which met will fail at
  its check; tokens are fresh, so a lost entry never becomes its own again.
- Journals: the shared counter counts every write (`EveryWriteCounts`) and no
  frame's own count is ahead of it (`FramesAreBehind`); a frame that gives up at
  its limit therefore finds the shared one there too.
- FixEngine: a failed fix is in the hands of one capture or waits in the map,
  never both (`InHand`, `Tracked`); the watchdog's turn and the captures exclude
  each other, which the property, stated for rest only, does not say
  (`FixesAreInOneHand`). OBSERVE stands only while a capture is at work
  (`ObservingIsTrying`).
- Observability: AlertsAreKept needs that the file holds whatever was ever raised
  unless a save or a load went wrong (`FileKeeps`). AlertsAreSeconded compares the two judges' rules
  on the figures each has read.
- EngineLifecycle, the history: the queue of continuations delivers bugs in the
  order of their numbers (`QueueInOrder`, `StoreInOrder`), so a bug that was
  evicted has `Capacity` newer ones, in memory and in the file (`StoreKeeps`).
  A sound history that could not be read is set aside, and its bugs are looked for
  there (`quarantine`).
  Running engines: one that runs is being stopped, or has its hooks and either its
  watchdog or a start that is still hooking (`WatchedOrWorkedOn`).
- DiskExhaustion: the items evicted are the shortest beginning of an order of the
  evictable ones that is enough; that it is not enough without its last one is
  the property. Nothing is assumed of the sizes but that they are naturals.
- AutoOptimizer: the log's entries of this optimizer lead from the first
  threshold to the one in force, although evaluations overlap.
- EvidenceFiles: the entries that no file tells (`Untold`), with those that an
  unfinished last line still puts at stake (`AtStake`), are at most two for each
  cut; the property alone does not know of the line that the next entry will spoil.
  A report file is the end of what was saved.
- ProvenanceTracker: names and edges say the same (`LinksAgree`), in memory and in
  the file. That a traversal's rounds suffice is counted: each before the last
  finds one more of at most `MaxNodes` recorded ids (`VisitedIsClosed`). What leads
  from x to y along the names then leads back along the edges.

**OperationsProofs**, likewise.
- RolloutManager: the file holds the rollout in memory or an earlier state of it
  (`RolloutsWereStarted`, `RollbacksSettle`), so a restart does not go back behind a
  rollback that was written.
- CanaryDeployment: the history's property is inductive with its types. For
  ProductionIsMeasured: the stages before the current one are completed, and a
  stage without measurement adds nothing to the average
  (`ReachedThroughCompleted`, `UnmeasuredAddsNothing`). The theorem assumes
  `Len(Stages) <= 6`: with n stages the measured ones give at most 100 (n - 1),
  less than the 85 n asked for only up to six. The default has four; a
  constructor call with seven stages can recommend an unmeasured production.
- CrashAgent: the ring, read back from its write index, is the end of the calls
  that returned (`RingIsTail`), and a crash changes no past.
- DumpAgent: what an observer has yet to tell of a module ends in what is so now;
  so the last event told of it is right, or more is to come.
- Versioning: memory, file and quarantine hold explained changelogs only
  (`EverythingIsExplained`). Dashboard: what was answered with success is in the
  tables and stays (`AnsweredIsKept`), and a run's insert precedes its completion
  (`RunsComeFirst`).
- DumpStore: `ChainInv` = types, one holder of the lock, the files each writer
  should have where it stands (`FilesMatchPlaces`), what a publisher has seen
  (`PublisherIsRight`) and `ChainHolds`. ChainIsOne alone is not inductive: a dump
  that a power loss could still take has its temporary file beside it or no
  sidecar, and nobody goes on who sees that, so whoever follows a dump follows one that will stay. Of
  `previous` the types say only for whom it is defined; what it names is
  `ChainHolds`.

The assumptions are the named ASSUMEs of the modules, which TLC evaluates in
every run, and the hypotheses above: `~PowerLossAllowed`, `AllFit`,
`Len(Stages) <= 6`, and FROZEN in `CallModes`. `LedgerAssumption` says that every
ledger a controller may find is linked as far as it can be read.

Only model-checked: `ObservationEnds`, since liveness under fairness and ENABLED
are beyond the prover (`ObservingIsTrying` is its safety half); and the properties that the code violates (Findings),
which have no proof. The alternatives the theorems exclude by hypothesis are
shown by runs: TLC finds store_stale_tail with power losses and
bridge_false_genesis without AllFit.

## Findings

1. `learning_store.c:317`: the tail behind a bad record stays in the file after
   recovery. When the bad place is rewritten and the process dies before the
   truncation, the next replay continues into records that the earlier recovery
   had cut off (LossIsSuffix; here with power losses).
2. `auto-fixer.ts:106`: rolling back two fixes of one overload in the order they
   were made re-installs the first one's wrapper (RolledBackIsGone).
3. `hypermemory-runtime.ts:335`: a restart with too small a capacity loses records
   without counting them and the next envelope is marked GENESIS
   (ChainIsNotRestarted).
4. `alert-manager.ts:124`: a rollback success rate of exactly 0 is falsy, read as
   100, and the worst rate is the one without an alert (FailedRollbacksAlert). The
   fix rate is read the same way (line 79): when every fix has failed, the mesh's
   rule fires and AlertManager's does not. AlertsAreSeconded, the other way round,
   holds.
5. `tools/frida-debugger-class-a-autotune.c:67`: a `known_good_route` of 2^31 + 4 or
   more is below 3 in the wrapping comparison, passes the range check and is
   advised, although there is no such route (AdvisedRouteExists). AdviceIsSafe
   says what is advised otherwise.

### Observations

Met while modelling; no run is kept for them. Where the model shows one, the
module contains it as the code does.

Learning store and runtime.

- `observe` learns before it finds the slab full, so an observation refused after
  a failed flush is in the predictor and nowhere else (`learning_store.c:490`,
  against `android/app/LEARNING_ARCHITECTURE_V1.md:250`); hence
  LearnedIsLoggedUnlessDropped.
- The validation score is reset only on entering VALIDATE_SHADOW, so a snapshot
  reports the score of a model that has since been trained
  (`learning_runtime.c:145`, against `LEARNING_ARCHITECTURE_V1.md:384`).
- `rafaelia_learning_reset_volatile` empties the predictor in memory only
  (`learning_store.c:626`); the next restart replays every record. The epoch that
  `set_mode` raises is not in the header it has written (`learning_store.c:419`).
- The header is rewritten in place by every flush (`learning_store.c:250`): a write
  that stops half-way in a process that then ends, or a loss of power before
  fdatasync, leaves a file that init refuses from there on
  (`learning_store.c:385`), with every confirmed record in it. DurableLog has this
  case as the one in which a log is lost whole.

Fix engine.

- A fix is applied in FAILSAFE like in any other state (`index.ts:228`, against
  `EDGE_CASE_GUIDE.md:301`, "No new fixes applied").
- A passing fix, or a verified rollback of another one, sets STABLE while
  rollbacks are pending (`index.ts:265`, `index.ts:309`).
- `stop()` during a start in flight ends in an engine with running FALSE and the
  watchdog's timers going (`index.ts:115`, against `OPERATIONAL_GUIDE.md:458`);
  the hooks never detach (`bug-capture.ts:21`); a capture in flight over a stop
  still applies its fix; one that overlaps a start is twice in `recentBugs`.
- A heartbeat file torn by a crash is never overwritten (`watchdog-monitor.ts:110`),
  so the gate in front of fixes stays closed until someone removes it. After a
  stall the late heartbeat can run before the timeout check and hide it
  (`watchdog-monitor.ts:73`).
- A read of the history that fails is taken for corruption (`bug-store.ts:58`): a
  sound history is renamed away and the store starts empty. A history whose
  quarantine fails is overwritten by the next save. Its integrity
  hash covers the counts and the last id.
- With the default confidence of 0.75 a pattern needs seven occurrences: the
  `min_occurrences` of 3 has no effect. Another occurrence of the same bug may
  lower the confidence (the frequency boost is lost). Events of hooks are all
  OBSERVATION_ONLY and are never fixed.
- Of concurrent captures of one bug all may fail, and the bug is lost
  (`concurrent-bug-capture.ts:84`); reset and test do not wait for those in flight.
- `journalBefore` of `rollback-engine.ts` has no caller in the engine; journals are
  written to a file and never loaded; a page stays writable when a write throws.

Services.

- What holds for the history holds for the other files: versions that cannot be
  read are put aside like corrupt ones, and rollouts, alerts and contract reports
  are forgotten; the next save then replaces the sound file. The properties make
  these cases explicit (`forgotten`, `forgot`, `badFile`, `reported`).
- `resolveAlert` is saved with the next alert or at stop; a restart forgets the
  debounce. The mesh's `alertHistory` grows without bound and `duration_seconds`
  is not looked at.
- FeedbackCollector and MetricsExporter write the same metrics.json
  (`metrics-exporter.ts:192`); `health-check.ts` reads keys that neither writes and
  reports zeros and a success of 100.
- The optimizer loads its collector at construction only; without fixes the
  success rate is 0 and every evaluation raises the thresholds again;
  `min_occurrences` has no limit.
- `evictLRU` sorts by age and priority ascending, so that the most recently used
  item goes first (`disk-exhaustion-handler.ts:101`, against its lines 82 and
  88-89). `monitorAndEvict` again on a stale reading evicts again. The memory
  handler's emergency mode is never chosen.
- Receipts never verify: `receipt-generator.ts:68` hashes another object than
  `verifyReceipt` at 126.
- The audit trail is empty right after a rotation; a torn line swallows the next
  entry; `log()` resolves when the write has failed; `readAuditTrail` slices before
  it drops lines it cannot parse. The integrity monitor does not announce an
  invalid file when the check before it found none; `getLatestReport` is the one
  saved last, not begun last. The compliance trend divides by nine.
- A pattern that was recorded twice is reached from the bugs of both records, and
  its lineage names those of the first.

Rollouts.

- `startCanaryRollout` replaces a rollout in progress and does not call
  `canDeployVersion`; a finished rollout may be rolled back
  (`rollout-manager.ts:172`).
- The monitor stops for good after one critical trigger; ticks in flight may start
  several rollbacks, whose ids collide within a millisecond; a new process with
  such an id overwrites the history's entry. Starting a deployment does not reset
  its stages and nothing in the orchestrator completes one.
- The recommendation averages the success over the stages
  (`canary-deployment-orchestrator.ts:308`), while line 385 says "All metrics
  passing. Safe to proceed to production."

Hypermemory and recorder.

- When the rename into quarantine fails, the runtime still reports
  QUARANTINED_CORRUPT and its next checkpoint replaces the corrupt file
  (`hypermemory-runtime.ts:441`, against `docs/hypermemory-runtime-v1.md:42`).
  Sequence numbers handed out after the last checkpoint are handed out again
  after a crash (`hypermemory-runtime.ts:314`).
- A refused `frida_rs_init` leaves the storage alone: a recorder that ran goes on
  running, and `frida_rs_reset_epoch` makes even a never initialized one run
  (`tools/frida-runtime-stability-recorder.c:374`, against
  `docs/runtime-stability-recorder.md:74`, "A configured mismatch moves
  initialization to FAILSAFE").
- The signal's UNSTABLE fault is measured against the default trigger
  (`tools/frida-runtime-stability-recorder.c:355`, against
  `profiles/runtime-stability-recorder.json:86`, "delta greater than or equal to
  the configured trigger"). AdviceIsSafe states what the code does.
- A run is released at half the trigger too, where the documentation says below
  (`docs/runtime-stability-recorder.md:70`); the distance is absolute, so a sudden
  gain of stability is dumped as well.

Dumps, agents, dashboard.

- Controllers that start together may keep more than 256 dumps
  (`docs/runtime-stability-falsifiability.md:235`).
- The crash agent keeps a descriptor's endpoint when it is closed and does not see
  a connect that ends with EINPROGRESS.
- A start of the dump agent whose thread observer fails leaves the module observer
  attached, and the next start one more. Events between a dump's end fence and its
  sending precede it in the stream.
- On the page, a late answer of the first fetch takes the display back behind a
  broadcast; refreshes of the list come out of order; what is broadcast while the
  socket is down is never fetched; an empty database answers `{}`, on which
  `Dashboard.tsx:104` calls `toFixed`; a page that is gone goes on reconnecting.
- The server answers the completion of an unknown run with success and takes
  snapshots of unknown and complete runs; its "average within bin" is
  `(a + b) / 2` (`server.js:178`).

## Not modelled

The spin locks themselves (calls are taken as serial), CRC32C bit by bit, hash
functions mapping contexts to sets (`SetOf` is a parameter), the clock (timers
fire when they may), the contents of payloads, and what only formats or reports.
In the components that are modelled in part: the count of validation candidates
and the NEON baseline in the runtime's snapshot; confidence and the grouping of
bugs into patterns, which are a choice; what a hook reads of its target; the
mesh's reading of memory, disk and critical files, which is the gate's choice;
the grade of a health report; receipts; the memory-pressure table and the
corruption recovery's copying, which nothing calls; the dump's fields other than
its modules; the dashboard's comparison and distribution queries; the planner's
failover and rollback entry points.

Not modelled at all, with the reason in PROJECT.json: the fix test suite (its
10 s timeout never fires, since `waitForProcess` blocks, and it ignores the exit
status), the native crash observer (its ring is the agent's with the recorder's
chain, and only its self-test calls it), evidence tools, validators, NEON and
hash plug-ins, the Android front end, build and release.

The outer catch of `applyFixWithRollback` (`index.ts:267`) is reached by no
awaited call in the model.

## Plan

Done: the store, the runtime and L0; FixEngine; HyperMemory and CausalBridge; the
recorder with adapter and planner; the engine's lifecycle, captures, journals,
observability, tuning, eviction, provenance, evidence files; rollouts, dump
store, agents, versions, dashboard; the proofs of all their invariants.

Next, in order of importance:

1. FixEngine with EngineLifecycle in one specification: fixes in flight over stop
   and restart.
2. Theorems: what LearningRuntime sees of the predictor and of refused calls, as
   RuntimeOverStore has it for the modes; type correctness of the services as theorems of their own.
3. The native crash observer over RecordBank and LossyQueue.
4. The grouping of bugs into patterns with their confidence, and the corruption
   recovery.
