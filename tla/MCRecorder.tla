----------------------------- MODULE MCRecorder -----------------------------
(***************************************************************************)
(* A calm read, a storm and a garbage collection at times that make        *)
(* intervals of every class and clocks that run backwards; an event that   *)
(* the policy does not allow and two that the adapter refuses.  Of the     *)
(* risk policies one gives a known-good route that exists, the other two   *)
(* the numbers on both sides of where the range check begins to wrap.      *)
(***************************************************************************)
EXTENDS RecorderAdvice

Calm(t)  == [time |-> t, operation |-> "READ", descriptor |-> 7,
             latency |-> 18, flags |-> {}, pressure |-> 0]
Storm(t) == [time |-> t, operation |-> "IPC_WRITE", descriptor |-> 7,
             latency |-> 4500, flags |-> {"IO_ERROR", "GC_NEARBY"},
             pressure |-> 70000]
Collection(t) == [time |-> t, operation |-> "GC_BEGIN", descriptor |-> -1,
                  latency |-> 9000, flags |-> {}, pressure |-> 20000]

MCEvents == {Calm(1000), Calm(9000), Storm(1000), Storm(1800),
             Collection(60000), [Calm(1000) EXCEPT !.operation = "WEB_EXIT"],
             Calm(0), [Storm(1000) EXCEPT !.descriptor = -1]}

MCPolicy == [trigger |-> 0, release |-> 4096, minEvents |-> 2, maxDumps |-> 2,
             allowed |-> {"NET_READ", "IPC_WRITE", "GC_BEGIN"},
             expected |-> "measured"]

Lenient == [minStability |-> 0, minAccuracy |-> 0, maxFriction |-> One,
            maxEntropy |-> One, maxOverhead |-> One, minConfidence |-> 0,
            allowed |-> Routes, knownGood |-> FirstWrapped - 1]
Strict  == [minStability |-> 32768, minAccuracy |-> 32768,
            maxFriction |-> 49152, maxEntropy |-> 49152,
            maxOverhead |-> 49152, minConfidence |-> 50000,
            allowed |-> {0, 1}, knownGood |-> 2]
MCRiskPolicies == {Lenient, Strict, [Strict EXCEPT !.knownGood = FirstWrapped]}

MCCallers == {[arch |-> {"ARM32", "NEON"}, budget |-> 512, lastRoute |-> 0],
              [arch |-> {}, budget |-> 1600, lastRoute |-> 3]}
=============================================================================
