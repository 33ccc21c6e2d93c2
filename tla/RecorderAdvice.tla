--------------------------- MODULE RecorderAdvice ---------------------------
(***************************************************************************)
(* The recorder composed with the route planner: frida_rs_make_dca_signal  *)
(* maps the recorder's state to a signal, of which Autotune makes a        *)
(* decision under the risk policy of the caller.                           *)
(***************************************************************************)
EXTENDS StabilityRecorder, Autotune

CONSTANTS RiskPolicies,  \* frida_dca_risk_policy
          Callers        \* arch, budget and lastRoute as a caller passes them

(* A policy's known-good route is a whole word: the caller may write any.  *)
ASSUME AdviceAssumption ==
  /\ \A p \in RiskPolicies :
       /\ {p.minStability, p.minAccuracy, p.maxFriction, p.maxEntropy,
           p.maxOverhead, p.minConfidence} \subseteq Fraction
       /\ p.allowed \subseteq Routes
       /\ p.knownGood \in 0 .. Word - 1
  /\ \A c \in Callers : /\ c.arch \subseteq {"ARM32", "NEON"}
                        /\ c.budget \in 0 .. Word - 1 /\ c.lastRoute \in Routes

(* The fault is measured against the default trigger, not the policy's.    *)
Signal(c) ==
  [stability |-> stability, accuracy |-> One - delta,
   friction |-> burst, entropy |-> alternation, overhead |-> gcPressure,
   arch |-> c.arch, budget |-> c.budget, lastRoute |-> c.lastRoute,
   faults |-> When(delta >= DefaultTrigger, {"UNSTABLE"})
                \cup When(gcPressure >= GCFloor, {"OVERHEAD"})]

(* The routes from here up are below 3 in the wrapping comparison, and the *)
(* range check on the known-good route lets them pass.                     *)
FirstWrapped == Word \div 2 + 4

(* Every advice that the recorder's state leads to is one of two: the      *)
(* known-good route, or the generic one if the range check refuses it,     *)
(* with all three fallback flags; or a route the policy allows, and then   *)
(* every pressure, the distance and the confidence are within the policy's *)
(* limits and the distance below the default trigger.  Which of the two is *)
(* decided in wrapping arithmetic, and the range check is wrong from       *)
(* FirstWrapped up: AdvisedRouteExists.                                    *)
AdviceIsSafe ==
  \A c \in Callers, p \in RiskPolicies :
    LET m == Mitigate(Signal(c), p)
    IN  \/ /\ m.route = IF p.knownGood \in Routes \/ p.knownGood >= FirstWrapped
                         THEN p.knownGood ELSE Generic
           /\ Fallback \subseteq m.flags
        \/ /\ "ROLLBACK" \notin m.flags
           /\ m.route \in p.allowed /\ m.confidence >= p.minConfidence
           /\ stability >= p.minStability /\ One - delta >= p.minAccuracy
           /\ burst <= p.maxFriction /\ alternation <= p.maxEntropy
           /\ gcPressure <= p.maxOverhead
           /\ delta < DefaultTrigger /\ gcPressure < GCFloor

(* The route of an advice made of an initialized recorder is one of the    *)
(* four there are, whatever number the policy gives as known-good: what    *)
(* the range check of frida_dca_known_good_route is there for.             *)
AdvisedRouteExists ==
  initialized =>
    \A c \in Callers, p \in RiskPolicies :
      Mitigate(Signal(c), p).route \in Routes
=============================================================================
