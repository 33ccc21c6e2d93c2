-------------------------- MODULE RuntimeOverStore --------------------------
(***************************************************************************)
(* The learning runtime (learning_runtime.c) on top of the learning store, *)
(* of which it makes one or more calls to serve one of its own.  Both keep *)
(* a mode and whether they are open; LearningRuntime takes it that the two *)
(* never part, and here the store is the real one: its calls go system     *)
(* call by system call, any of which may fail or be the last one that the  *)
(* process makes.                                                          *)
(*                                                                         *)
(* A runtime call holds g_runtime_lock from its first line to its return,  *)
(* and the store's calls come from the runtime only.  What a call does to  *)
(* the validation table is in LearningRuntime and left out here, and with  *)
(* it the calls that do nothing else (observe while validating, get_mode,  *)
(* snapshot) and those that are refused at once.                           *)
(***************************************************************************)
EXTENDS LearningStore

LogicalModes == Modes \cup {"VALIDATE_SHADOW"}

VARIABLES
  runtimeOpen, logicalMode,  \* g_runtime.initialized, g_runtime.logical_mode
  runtimeCall                \* the call that holds g_runtime_lock

runtimeVars == <<runtimeOpen, logicalMode>>
layers == <<vars, runtimeOpen, logicalMode, runtimeCall>>

NoRuntimeCall == [op |-> "none", step |-> "idle", to |-> "OFF"]
RuntimeFree == runtimeCall = NoRuntimeCall
(* From here on the call stands in step s of serving op.                   *)
RuntimeIn(o, s, m) == runtimeCall' = [op |-> o, step |-> s, to |-> m]
RuntimeReturns == runtimeCall' = NoRuntimeCall
Serving(o, s) == runtimeCall.op = o /\ runtimeCall.step = s

LayersInit ==
  /\ Init
  /\ runtimeOpen = FALSE /\ logicalMode = "OFF" /\ runtimeCall = NoRuntimeCall

(* rafaelia_l0_zero(&g_runtime).                                           *)
RuntimeZero == runtimeOpen' = FALSE /\ logicalMode' = "OFF"

-----------------------------------------------------------------------------
(* rafaelia_learning_runtime_init: the store is opened ...                 *)
RuntimeInit ==
  /\ RuntimeFree /\ ~runtimeOpen
  /\ RuntimeZero
  /\ \/ (OpenEmpty \/ OpenExisting) /\ RuntimeIn("init", "store", "OFF")
     \/ (OpenEmptyFails \/ OpenRejected) /\ RuntimeReturns

RuntimeInitFails == OpenFails /\ RuntimeReturns /\ UNCHANGED runtimeVars

(* ... NEON4096 is probed ...                                              *)
StoreOpened ==
  /\ Serving("init", "store") /\ (OpenSync \/ ReplayEnd)
  /\ RuntimeIn("init", "probe", "OFF")
  /\ UNCHANGED runtimeVars

ProbeSucceeds ==
  /\ Serving("init", "probe")
  /\ runtimeOpen' = TRUE /\ logicalMode' = "OFF" /\ RuntimeReturns
  /\ UNCHANGED vars

(* ... and if the probe fails, the store is closed again.                  *)
ProbeFails ==
  /\ Serving("init", "probe")
  /\ Close /\ RuntimeIn("close", "store", "OFF")
  /\ UNCHANGED runtimeVars

-----------------------------------------------------------------------------
(* rafaelia_learning_runtime_set_mode.                                     *)

(* A mode that the store enters without touching the file.                 *)
RuntimeSetsRunning(m) ==
  /\ RuntimeFree /\ runtimeOpen
  /\ SetModeRunning(m) /\ logicalMode' = m
  /\ UNCHANGED <<runtimeOpen, runtimeCall>>

RuntimeSetsPaused(m) ==
  /\ RuntimeFree /\ runtimeOpen
  /\ SetModePaused(m) /\ RuntimeIn("set_mode", "store", m)
  /\ UNCHANGED runtimeVars

(* VALIDATE_SHADOW: the store is flushed ...                               *)
RuntimeValidates ==
  /\ RuntimeFree /\ runtimeOpen /\ epoch < MaxEpoch
  /\ Flush /\ RuntimeIn("set_mode", "flush", "VALIDATE_SHADOW")
  /\ UNCHANGED runtimeVars

FlushedForValidation ==
  /\ Serving("set_mode", "flush") /\ ReturnFlush
  /\ IF call.ok THEN RuntimeIn("set_mode", "freeze", "VALIDATE_SHADOW") ELSE RuntimeReturns
  /\ UNCHANGED runtimeVars

(* ... and then put into FROZEN.                                           *)
FreezeForValidation ==
  /\ Serving("set_mode", "freeze")
  /\ SetModePaused("FROZEN") /\ RuntimeIn("set_mode", "store", "VALIDATE_SHADOW")
  /\ UNCHANGED runtimeVars

(* Faulty form: the mode is noted whatever the store has returned.         *)
RuntimeNotesMode ==
  /\ Serving("set_mode", "store") /\ ReturnSetMode
  /\ logicalMode' = runtimeCall.to
  /\ RuntimeReturns
  /\ UNCHANGED runtimeOpen

(* The logical mode follows when the store has returned OK.                *)
RuntimeModeSet ==
  /\ Serving("set_mode", "store") /\ ReturnSetMode
  /\ logicalMode' = IF call.ok THEN runtimeCall.to ELSE logicalMode
  /\ RuntimeReturns
  /\ UNCHANGED runtimeOpen

-----------------------------------------------------------------------------
(* rafaelia_learning_runtime_observe outside VALIDATE_SHADOW.              *)
RuntimeObserves(c, k) ==
  /\ RuntimeFree /\ runtimeOpen
  /\ logicalMode \notin {"OFF", "FROZEN", "VALIDATE_SHADOW"}
  /\ Observe(c, k)
  /\ IF call' = Idle THEN RuntimeReturns ELSE RuntimeIn("observe", "store", "OFF")
  /\ UNCHANGED runtimeVars

RuntimeFlushes ==
  /\ RuntimeFree /\ runtimeOpen
  /\ Flush /\ RuntimeIn("flush", "store", "OFF")
  /\ UNCHANGED runtimeVars

RuntimeResets ==
  /\ RuntimeFree /\ runtimeOpen /\ logicalMode \in {"OFF", "FROZEN"}
  /\ ResetVolatile
  /\ UNCHANGED <<runtimeVars, runtimeCall>>

(* What observe and flush pass on is the store's own answer.               *)
RuntimePassesOn ==
  \/ Serving("observe", "store") /\ ReturnObserve /\ RuntimeReturns /\ UNCHANGED runtimeVars
  \/ Serving("flush", "store") /\ ReturnFlush /\ RuntimeReturns /\ UNCHANGED runtimeVars

RuntimeCloses ==
  /\ RuntimeFree /\ runtimeOpen
  /\ Close /\ RuntimeIn("close", "store", "OFF")
  /\ UNCHANGED runtimeVars

(* Closed, whatever the store's last flush came to.                        *)
RuntimeClosed ==
  /\ Serving("close", "store") /\ ReturnClose
  /\ RuntimeZero /\ RuntimeReturns

-----------------------------------------------------------------------------
(* The store goes on with the call that the runtime waits for.             *)
StoreGoesOn == (ReplayRecord \/ Flushing) /\ UNCHANGED <<runtimeVars, runtimeCall>>

RuntimeDies == (Crash \/ PowerLoss) /\ RuntimeZero /\ RuntimeReturns

LayersNext ==
  \/ RuntimeInit \/ RuntimeInitFails \/ StoreOpened \/ ProbeSucceeds \/ ProbeFails
  \/ \E m \in CallModes : RuntimeSetsRunning(m) \/ RuntimeSetsPaused(m)
  \/ RuntimeValidates \/ FlushedForValidation \/ FreezeForValidation \/ RuntimeModeSet
  \/ \E c \in Contexts, k \in Candidates : RuntimeObserves(c, k)
  \/ RuntimeFlushes \/ RuntimeResets \/ RuntimePassesOn \/ RuntimeCloses \/ RuntimeClosed
  \/ StoreGoesOn \/ RuntimeDies

LayersSpec == LayersInit /\ [][LayersNext]_layers

-----------------------------------------------------------------------------
(* The mode of the store under a logical mode.                             *)
StoreModeOf(m) == IF m = "VALIDATE_SHADOW" THEN "FROZEN" ELSE m

(* Whatever its last call came to, and wherever in it the storage failed   *)
(* or the process died: when no call is under way the runtime is open      *)
(* exactly when the store is, and its mode names the store's, VALIDATE_    *)
(* SHADOW meaning FROZEN (rafaelia_learning_runtime_set_mode makes two     *)
(* calls for it).  This is what lets observe count on a store that takes   *)
(* records, or on one that does not learn from what is being validated.    *)
LayersAgree ==
  RuntimeFree => /\ LockFree
                 /\ runtimeOpen = initialized
                 /\ StoreModeOf(logicalMode) = mode
=============================================================================
