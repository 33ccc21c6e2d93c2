------------------------------ MODULE DumpAgent ------------------------------
(***************************************************************************)
(* agents/android-runtime-stability-dump.js inside the target: captures    *)
(* that wait for Java between two readings of the modules, and observers   *)
(* of the modules and threads.  Modules come and go on other threads; what *)
(* an attached observer has to tell of them waits until the agent's        *)
(* JavaScript is free.  A row is a module's name and size, which a reload  *)
(* at another base keeps.                                                  *)
(***************************************************************************)
EXTENDS Integers, Sequences, FiniteSets, SequencesExt

CONSTANTS Modules,     \* rows: a name and a size
          Captures,    \* calls of collectSnapshot
          Unknown,     \* TOKEN_VAZIO
          MaxChanges,  \* bound: modules loaded or unloaded
          MaxObserved  \* bound: observers attached

ASSUME DumpAgentAssumption == {MaxChanges, MaxObserved} \subseteq Nat /\ IsFiniteSet(Modules)

VARIABLES loaded, changes,
          captureSequence, eventSequence,
          observersActive,
          moduleObserver,  \* its number, 0 for null
          threadObserver,  \* whether there is one
          attached,        \* observer of modules -> what it has yet to tell, in order
          starts,          \* observers of modules attached so far
          capture,         \* call -> where its collectSnapshot has come to
          events, dumps,   \* what was sent, in order
          startedAt        \* history: the event_seq before the last start

dumpAgentVars == <<loaded, changes, captureSequence, eventSequence, observersActive,
                   moduleObserver, threadObserver, attached, starts, capture, events, dumps,
                   startedAt>>

observers == <<observersActive, moduleObserver, threadObserver, starts, startedAt>>
captures == <<captureSequence, capture, dumps>>
sent == <<eventSequence, events>>

NotBegun == [at |-> "idle"]

DumpAgentInit ==
  /\ loaded \in SUBSET Modules /\ changes = 0
  /\ captureSequence = 0 /\ eventSequence = 0
  /\ observersActive = FALSE /\ moduleObserver = 0 /\ threadObserver = FALSE
  /\ attached = [o \in {} |-> <<>>] /\ starts = 0 /\ startedAt = 0
  /\ capture = [c \in Captures |-> NotBegun]
  /\ events = <<>> /\ dumps = {}

(* The dynamic linker: a module is loaded or unloaded, and every attached  *)
(* observer has it to tell.                                                *)
LinkerChanges(m) ==
  LET type == IF m \in loaded THEN "MODULE_REMOVED" ELSE "MODULE_ADDED"
  IN /\ changes < MaxChanges /\ changes' = changes + 1
     /\ loaded' = IF m \in loaded THEN loaded \ {m} ELSE loaded \cup {m}
     /\ attached' = [o \in DOMAIN attached |->
                       Append(attached[o], [type |-> type, module |-> m])]
     /\ UNCHANGED <<observers, captures, sent>>

-----------------------------------------------------------------------------
(* collectModules, which may fail.                                         *)
CollectModules == {loaded, Unknown}

ModuleSurfaceEqual(a, b) == IF Unknown \in {a, b} THEN Unknown ELSE a = b

BeginCapture(c) ==
  /\ capture[c] = NotBegun
  /\ captureSequence' = captureSequence + 1
  /\ capture' = [capture EXCEPT ![c] = [at |-> "clock", seq |-> captureSequence + 1]]
  /\ UNCHANGED <<loaded, changes, attached, observers, sent, dumps>>

(* The clock has answered: the fence at the start, and Java is asked.      *)
FenceStart(c) ==
  /\ capture[c].at = "clock"
  /\ \E modules \in CollectModules :
       capture' = [capture EXCEPT ![c] = [at |-> "java", seq |-> capture[c].seq,
                                          start |-> modules]]
  /\ UNCHANGED <<loaded, changes, attached, observers, sent, captureSequence, dumps>>

(* Java has answered: the fence at the end, and the clock is asked again.  *)
FenceEnd(c) ==
  /\ capture[c].at = "java"
  /\ \E modules \in CollectModules :
       capture' = [capture EXCEPT ![c] = [at |-> "clock_again", seq |-> capture[c].seq,
                                          start |-> capture[c].start, end |-> modules,
                                          since |-> starts]]
  /\ UNCHANGED <<loaded, changes, attached, observers, sent, captureSequence, dumps>>

(* Faulty form: the dump shows the modules of the fence at its start.      *)
DumpOfStart(a) ==
  [capture_seq |-> a.seq, modules |-> a.start,
   authoritative |-> ModuleSurfaceEqual(a.start, a.end), since |-> a.since]

(* The dump; "since", the start after which its modules were read, is      *)
(* history.                                                                *)
Dump(a) ==
  [capture_seq |-> a.seq, modules |-> a.end,
   authoritative |-> ModuleSurfaceEqual(a.start, a.end), since |-> a.since]

EmitSnapshot(c) ==
  /\ capture[c].at = "clock_again"
  /\ dumps' = dumps \cup {Dump(capture[c])}
  /\ capture' = [capture EXCEPT ![c] = [at |-> "done"]]
  /\ UNCHANGED <<loaded, changes, attached, observers, sent, captureSequence>>

(* Java rejects: no dump has the number; a gap is told when the capture is *)
(* the agent's own, an error to the caller otherwise.                      *)
CaptureGap(c) ==
  /\ capture[c].at \in {"clock", "java", "clock_again"}
  /\ capture' = [capture EXCEPT ![c] = [at |-> "done"]]
  /\ UNCHANGED <<loaded, changes, attached, observers, sent, captureSequence, dumps>>

-----------------------------------------------------------------------------
(* sendRuntimeEvent, for each of what there is to tell.                    *)
SendRuntimeEvents(told) ==
  /\ eventSequence' = eventSequence + Len(told)
  /\ events' = events \o [i \in DOMAIN told |->
                            [type |-> told[i].type, module |-> told[i].module,
                             event_seq |-> eventSequence + i]]

(* startObservers: the module observer's handle replaces the one that a    *)
(* start may have left; when the thread observer cannot be attached, it    *)
(* stays attached and the observers stay inactive.                         *)
StartObservers(includeInitial) ==
  LET surface == [i \in 1 .. Cardinality(loaded) |->
                    [type |-> "MODULE_ADDED", module |-> SetToSeq(loaded)[i]]]
  IN /\ ~observersActive /\ starts < MaxObserved
     /\ starts' = starts + 1 /\ startedAt' = eventSequence
     /\ moduleObserver' = starts + 1
     /\ attached' = [o \in DOMAIN attached \cup {starts + 1} |->
                       IF o = starts + 1 THEN <<>> ELSE attached[o]]
     /\ SendRuntimeEvents(IF includeInitial THEN surface ELSE <<>>)
     /\ observersActive' \in BOOLEAN
     /\ threadObserver' = (threadObserver \/ observersActive')
     /\ UNCHANGED <<loaded, changes, captures>>

StopObservers ==
  /\ observersActive \/ moduleObserver # 0 \/ threadObserver
  /\ attached' = [o \in DOMAIN attached \ {moduleObserver} |-> attached[o]]
  /\ moduleObserver' = 0 /\ threadObserver' = FALSE /\ observersActive' = FALSE
  /\ UNCHANGED <<loaded, changes, captures, sent, starts, startedAt>>

(* onAdded and onRemoved.                                                  *)
OnModule(o) ==
  /\ attached[o] # <<>>
  /\ attached' = [attached EXCEPT ![o] = Tail(@)]
  /\ SendRuntimeEvents(<<Head(attached[o])>>)
  /\ UNCHANGED <<loaded, changes, observers, captures>>

DumpAgentNext ==
  \/ \E m \in Modules : LinkerChanges(m)
  \/ \E c \in Captures : \/ BeginCapture(c) \/ FenceStart(c) \/ FenceEnd(c)
                         \/ EmitSnapshot(c) \/ CaptureGap(c)
  \/ \E includeInitial \in BOOLEAN : StartObservers(includeInitial)
  \/ StopObservers
  \/ \E o \in DOMAIN attached : OnModule(o)

DumpAgentSpec == DumpAgentInit /\ [][DumpAgentNext]_dumpAgentVars

-----------------------------------------------------------------------------
(* What a reader knows of a module: what the last event since the start    *)
(* told of it, and what the dump shows when there was none.                *)
Reading(d) ==
  LET told(m) == {i \in DOMAIN events : events[i].event_seq > startedAt /\ events[i].module = m}
      last(m) == CHOOSE i \in told(m) : \A j \in told(m) : j <= i
  IN {m \in Modules : IF told(m) = {} THEN m \in d.modules
                      ELSE events[last(m)].type = "MODULE_ADDED"}

(* With the observers active and nothing left to tell, any dump whose      *)
(* modules were read since the start gives, with the events since the      *)
(* start, the modules loaded now: however captures overlap, whenever       *)
(* modules come and go between a dump's fences and its sending, and with   *)
(* observers that an earlier start left attached.                          *)
StreamTellsSurface ==
  observersActive /\ (\A o \in DOMAIN attached : attached[o] = <<>>) =>
    \A d \in dumps : d.since = starts /\ d.modules # Unknown => Reading(d) = loaded
=============================================================================
