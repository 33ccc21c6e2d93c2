------------------------- MODULE StabilityRecorder -------------------------
(***************************************************************************)
(* The runtime stability recorder, tools/frida-runtime-stability-          *)
(* recorder.c, fed through the adapter: every observation moves smoothed   *)
(* pressures and a rolling baseline, and those that lie far from the       *)
(* baseline often enough in a row go into a circular bank, which another   *)
(* party drains.  A call runs to its end alone.  Times are in              *)
(* microseconds.  The caller's storage is zero before frida_rs_init.       *)
(***************************************************************************)
EXTENDS EventAdapter, RecordBank, FiniteSets

CONSTANTS Events,        \* what hooks report, see EventAdapter
          Tags,          \* silicon tags of measured profiles
          AnyTag,        \* a policy that expects no particular tag
          Policy,        \* frida_rs_policy; a zero selects the default
          DrainSizes,    \* capacities of the buffers that drains bring
          MaxEvents      \* bound: observations of one epoch

Kinds == {"NET_READ", "NET_WRITE", "GC_BEGIN", "GC_END", "ALLOC_PRESSURE",
          "WEB_ENTER", "WEB_EXIT", "IPC_READ", "IPC_WRITE", "DYNAMIC_LOAD"}
Flags == {"IO_ERROR", "GC_NEARBY", "WEB_BOUNDARY", "IPC_BOUNDARY",
          "DYNAMIC_LOAD", "DIRECTION_CHANGE"}

ASSUME EventsAssumption ==
  \A e \in Events : /\ e.time \in Nat /\ e.descriptor \in Int
                    /\ e.latency \in Nat /\ e.pressure \in Nat
                    /\ e.flags \subseteq Flags

ASSUME PolicyAssumption ==
  /\ Policy.trigger \in Fraction /\ Policy.release \in Fraction
  /\ Policy.minEvents \in Nat /\ Policy.maxDumps \in Nat
  /\ Policy.allowed \subseteq Kinds
  /\ Policy.expected \in Tags \cup {AnyTag} /\ AnyTag \notin Tags
  /\ DrainSizes \subseteq Nat \ {0}
  /\ MaxEvents \in Nat

VARIABLES
  initialized, siliconTag,
  initResult,                      \* of the last frida_rs_init
  alternation, burst, gcPressure,  \* smoothed pressures
  stability, baseline, delta,
  lastTime, lastDirection,
  unstableRun, dumpRun,
  decision,                        \* of the last frida_rs_observe
  bank,                            \* records, write_index, readable_count, ...
  output,                          \* what the epoch's last drain copied
  trail                            \* history: the epoch's observations

sensorVars == <<alternation, burst, gcPressure, stability, baseline, delta,
                lastTime, lastDirection>>
runVars == <<unstableRun, dumpRun, decision>>
vars == <<initialized, siliconTag, initResult, sensorVars, runVars, bank,
          output, trail>>

Default(value, default) == IF value # 0 THEN value ELSE default

DefaultTrigger == 11796
Trigger   == Default(Policy.trigger, DefaultTrigger)
Release   == Default(Policy.release, Trigger \div 2)
MinEvents == Default(Policy.minEvents, 2)
MaxDumps  == Default(Policy.maxDumps, Capacity)

FastBurst    == 1000
MediumBurst  == 10000
LatencyLimit == 5000
GCFloor      == 49152

EventAllowed(kind) == Policy.allowed = {} \/ kind \in Policy.allowed

Direction(kind) == CASE kind \in {"NET_READ", "IPC_READ"}   -> "read"
                     [] kind \in {"NET_WRITE", "IPC_WRITE"} -> "write"
                     [] OTHER                               -> "none"

AlternationSample(kind) ==
  IF /\ "none" \notin {Direction(kind), lastDirection}
     /\ Direction(kind) # lastDirection
  THEN One ELSE 0

BurstSample(time) ==
  CASE lastTime = 0 \/ time <= lastTime -> 0
    [] lastTime # 0 /\ time > lastTime /\ time - lastTime <= FastBurst -> One
    [] lastTime # 0 /\ time - lastTime > FastBurst
                    /\ time - lastTime <= MediumBurst -> 32768
    [] OTHER -> 0

GCSample(in) ==
  IF "GC_NEARBY" \in in.flags /\ in.pressure < GCFloor THEN GCFloor
                                                       ELSE in.pressure

LatencyPressure(latency) ==
  IF latency >= LatencyLimit THEN One ELSE (latency * One) \div LatencyLimit

FlagPressure(flags) ==
  LET count == Cardinality(flags \cap {"IO_ERROR", "WEB_BOUNDARY",
                                       "IPC_BOUNDARY", "DYNAMIC_LOAD"})
  IN  IF count >= 4 THEN One ELSE count * 16384

Instability(alternating, bursting, gc, latency, flagged) ==
  (2 * Mean(alternating, bursting) + 2 * gc + latency + flagged) \div 6

ClearSensor ==
  /\ alternation' = 0 /\ burst' = 0 /\ gcPressure' = 0
  /\ stability' = One /\ baseline' = One /\ delta' = 0
  /\ lastTime' = 0 /\ lastDirection' = "none"
  /\ unstableRun' = 0 /\ dumpRun' = 0

Init ==
  /\ initialized = FALSE /\ siliconTag = AnyTag /\ initResult = "none"
  /\ alternation = 0 /\ burst = 0 /\ gcPressure = 0
  /\ stability = 0 /\ baseline = 0 /\ delta = 0
  /\ lastTime = 0 /\ lastDirection = "none"
  /\ unstableRun = 0 /\ dumpRun = 0 /\ decision = "STABLE"
  /\ bank = BlankBank(0) /\ output = << >> /\ trail = << >>

(* frida_rs_init.  A refusal leaves the storage alone.                     *)
Start(tag) ==
  /\ Policy.expected \in {AnyTag, tag}
  /\ initialized' = TRUE /\ siliconTag' = tag /\ initResult' = "ok"
  /\ ClearSensor
  /\ bank' = BlankBank(0) /\ output' = << >> /\ trail' = << >>
  /\ UNCHANGED decision

StartRefused(tag) ==
  /\ Policy.expected \notin {AnyTag, tag}
  /\ initResult' = "refused"
  /\ UNCHANGED <<initialized, siliconTag, sensorVars, runVars, bank, output,
                 trail>>

(* frida_rs_reset_epoch, which does not ask whether the recorder is        *)
(* initialized.  Nobody resets before the first frida_rs_init.             *)
ResetEpoch ==
  /\ initResult # "none"
  /\ initialized' = TRUE
  /\ ClearSensor
  /\ bank' = BlankBank(0) /\ output' = << >> /\ trail' = << >>
  /\ UNCHANGED <<siliconTag, initResult, decision>>

(* The first observation of an epoch is its own baseline.                  *)
BaselineAfter(sample) ==
  IF lastTime = 0 THEN sample ELSE Smooth(baseline, sample, 16)

RunAfter(d) == IF d >= Trigger THEN unstableRun + 1 ELSE 0

(* Faulty form: any quiet observation renews the quota.                    *)
DumpsUntilQuiet(d) == IF d < Trigger THEN 0 ELSE dumpRun

DumpsAfter(d) == IF d < Trigger /\ d <= Release THEN 0 ELSE dumpRun

Body(in) ==
  [input |-> in, stability |-> stability', baseline |-> baseline',
   delta |-> delta', alternation |-> alternation', burst |-> burst',
   gcPressure |-> gcPressure']

(* frida_rs_observe, of an event that the policy allows.                   *)
Observe(in) ==
  /\ alternation' = Smooth(alternation, AlternationSample(in.kind), 4)
  /\ burst' = Smooth(burst, BurstSample(in.time), 4)
  /\ gcPressure' = Smooth(gcPressure, GCSample(in), 4)
  /\ stability' = One - Instability(alternation', burst', gcPressure',
                                    LatencyPressure(in.latency),
                                    FlagPressure(in.flags))
  /\ baseline' = BaselineAfter(stability')
  /\ delta' = Distance(stability', baseline')
  /\ unstableRun' = RunAfter(delta')
  /\ LET dump == unstableRun' >= MinEvents /\ DumpsAfter(delta') < MaxDumps
     IN  /\ dumpRun' = DumpsAfter(delta') + (IF dump THEN 1 ELSE 0)
         /\ bank' = IF dump THEN Commit(bank, Body(in)) ELSE bank
         /\ decision' = CASE dump -> "DUMP"
                          [] ~dump /\ delta' >= Trigger -> "OBSERVE"
                          [] OTHER -> "STABLE"
         /\ trail' = Append(trail, [delta |-> delta', dumped |-> dump])
  /\ lastDirection' = IF Direction(in.kind) = "none" THEN lastDirection
                                                     ELSE Direction(in.kind)
  /\ lastTime' = in.time
  /\ UNCHANGED <<initialized, siliconTag, initResult, output>>

Report ==
  /\ initialized /\ Len(trail) < MaxEvents
  /\ \E e \in Events : /\ Translatable(e)
                       /\ EventAllowed(Translated(e).kind)
                       /\ Observe(Translated(e))

ReportIgnored ==
  /\ initialized
  /\ \E e \in Events : Translatable(e) /\ ~EventAllowed(Translated(e).kind)
  /\ decision' = "STABLE"
  /\ UNCHANGED <<initialized, siliconTag, initResult, sensorVars, unstableRun,
                 dumpRun, bank, output, trail>>

ReportUninitialized ==
  /\ ~initialized
  /\ \E e \in Events : Translatable(e)
  /\ decision' = "FAILSAFE"
  /\ UNCHANGED <<initialized, siliconTag, initResult, sensorVars, unstableRun,
                 dumpRun, bank, output, trail>>

(* frida_rs_drain.                                                         *)
Drain ==
  /\ \E size \in DrainSizes :
       LET count == IF bank.readable > size THEN size ELSE bank.readable
       IN  /\ output' = Copied(bank, count)
           /\ bank' = Drained(bank, count)
  /\ UNCHANGED <<initialized, siliconTag, initResult, sensorVars, runVars,
                 trail>>

Next == \/ \E tag \in Tags : Start(tag) \/ StartRefused(tag)
        \/ ResetEpoch
        \/ Report \/ ReportIgnored \/ ReportUninitialized
        \/ Drain

Spec == Init /\ [][Next]_vars
-----------------------------------------------------------------------------
Bodies == [input : [time : Nat, kind : Kinds, latency : Nat,
                    flags : SUBSET Flags, pressure : Fraction],
           stability : Fraction, baseline : Fraction, delta : Fraction,
           alternation : Fraction, burst : Fraction, gcPressure : Fraction]
Records == [body : Bodies, chain : Nat \ {0}]

(* Every variable has its type; in particular the pressures, the stability *)
(* and the baseline stay sixteen-bit fractions, so that no cast of the C   *)
(* code cuts anything off.                                                 *)
TypeOK ==
  /\ initialized \in BOOLEAN /\ siliconTag \in Tags \cup {AnyTag}
  /\ initResult \in {"none", "ok", "refused"}
  /\ {alternation, burst, gcPressure, stability, baseline, delta} \subseteq Fraction
  /\ lastTime \in Nat /\ lastDirection \in {"none", "read", "write"}
  /\ unstableRun \in Nat /\ dumpRun \in 0 .. MaxDumps
  /\ decision \in {"STABLE", "OBSERVE", "DUMP", "FAILSAFE"}
  /\ bank \in [records : [Slots -> Records \cup {Blank}], write : Slots,
                readable : 0 .. Capacity, chain : Nat]
  /\ output \in Seq(Records)
  /\ trail \in Seq([delta : Fraction, dumped : BOOLEAN])

Crossed(i)  == trail[i].delta >= Trigger
Released(i) == ~Crossed(i) /\ trail[i].delta <= Release

Sustained(i) == /\ i >= MinEvents
                /\ \A j \in i - MinEvents + 1 .. i : Crossed(j)
DumpsSinceRelease(i) ==
  Cardinality({j \in 1 .. i - 1 : /\ trail[j].dumped
                                  /\ \A k \in j + 1 .. i : ~Released(k)})

(* The recorder dumps an observation exactly when it ends a row of         *)
(* MinEvents that crossed the trigger, and fewer than MaxDumps were dumped *)
(* since an observation last fell to the release threshold; counted over   *)
(* the history and not by the two counters of frida_rs_observe.            *)
DumpsFollowPolicy ==
  \A i \in DOMAIN trail :
    trail[i].dumped <=> Sustained(i) /\ DumpsSinceRelease(i) < MaxDumps

(* Only disturbances of a known state are kept: an epoch's first           *)
(* observation is its baseline, so nothing is dumped before as many others *)
(* as a run takes have followed it, however wild they are.                 *)
NothingDumpedUnlearned ==
  \A i \in DOMAIN trail : trail[i].dumped => i > MinEvents

(* What the evidence in the bank is worth: every dump is one the policy    *)
(* asks for, none the policy asks for is missing, and each is a departure  *)
(* from a baseline that had time to settle.                                *)
DumpsAreJustified == DumpsFollowPolicy /\ NothingDumpedUnlearned

(* Within an epoch one observation, however extreme, moves the baseline by *)
(* no more than a sixteenth of the scale: a single spike cannot drag along *)
(* what the next ones are measured against.  It needs the adapter, which   *)
(* refuses the time zero that the recorder takes for a new epoch.          *)
BaselineStep ==
  trail # << >> /\ Len(trail') > Len(trail)
    => Distance(baseline, baseline') <= One \div 16 + 1
BaselineIsInert == [][BaselineStep]_vars

Queue == INSTANCE LossyQueue WITH Entry <- Records, queue <- Pending(bank),
                                  taken <- output

(* The bank, with its wrapping index and its count, is the queue of        *)
(* LossyQueue: drains of any size deliver in order, and only an overflow   *)
(* gives up records, the oldest ones.                                      *)
ImplementsLossyQueue == Queue!QueueSpec
=============================================================================
