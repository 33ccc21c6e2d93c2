------------------------------ MODULE Autotune ------------------------------
(***************************************************************************)
(* The route planner, tools/frida-debugger-class-a-autotune.c.  It keeps   *)
(* no state: a decision is a function of a signal, and a mitigation of a   *)
(* signal and a policy.  Flag words are sets of flags.  The rollback       *)
(* token, a checksum for the caller's log, is left out.                    *)
(***************************************************************************)
EXTENDS Q16

CONSTANT Word  \* 2^32

ASSUME WordAssumption == Word \in Nat /\ Word % 2 = 0 /\ Word > 4 * One

Routes == 0 .. 3
Generic == 0

MinStability == 32768
MinAccuracy  == 32768
MaxFriction  == 49152
MaxOverhead  == 49152
LowBudget    == 700

Fallback == {"FAILSAFE", "FAILOVER", "ROLLBACK"}

(* The branchless comparison: the sign of a difference that wraps.  It is  *)
(* >= only as long as the two are less than half a word apart.             *)
AtLeast(left, right) == (left - right) % Word < Word \div 2

SaturatingAdd(left, right) ==
  IF AtLeast(left + right, One) THEN One ELSE left + right

When(condition, set) == IF condition THEN set ELSE {}

Coherence(s) ==
  LET trusted == Mean(s.stability, s.accuracy)
      cheap   == Mean(Complement(s.friction), Complement(s.overhead))
  IN  Smooth(trusted, Mean(trusted, cheap), 4)

GenericScore(s) ==
  Mean(Mean(Coherence(s), Complement(s.friction)), Complement(s.overhead))

NeonScore(s) ==
  SaturatingAdd(Mean(Coherence(s), Complement(s.overhead)),
                IF {"ARM32", "NEON"} \subseteq s.arch THEN 12288 ELSE 0)

CacheScore(s) ==
  SaturatingAdd(Mean(Coherence(s), Complement(s.friction)),
                IF "SMALL_CACHE" \in s.arch \/ AtLeast(LowBudget, s.budget)
                THEN 8192 ELSE 0)

RollbackScore(s) ==
  SaturatingAdd(Mean(Complement(s.entropy), Complement(Coherence(s))),
                IF s.faults # {} THEN 24576 ELSE 0)

Scores(s) ==
  [r \in Routes |-> CASE r = 0 -> GenericScore(s)
                      [] r = 1 -> NeonScore(s)
                      [] r = 2 -> CacheScore(s)
                      [] r = 3 -> RollbackScore(s)]

(* The highest score, and of equal ones the first.                         *)
BestRoute(s) ==
  LET score == Scores(s)
  IN  CHOOSE r \in Routes :
        \A q \in Routes : score[r] >= score[q] /\ (q < r => score[r] > score[q])

(* The planner's own thresholds; a value on the threshold is a fault.      *)
PlanFaults(s) ==
       When(AtLeast(MinStability, s.stability), {"UNSTABLE"})
  \cup When(AtLeast(MinAccuracy, s.accuracy), {"INACCURATE"})
  \cup When(AtLeast(s.friction, MaxFriction), {"FRICTION"})
  \cup When(AtLeast(s.overhead, MaxOverhead), {"OVERHEAD"})
  \cup s.faults

Plan(s) ==
  LET route == BestRoute(s)
  IN  [route      |-> route,
       flags      |-> When(PlanFaults(s) # {}, {"FAILSAFE", "FAILOVER"})
                        \cup When(route # s.lastRoute, {"MORPHED"}),
       confidence |-> Scores(s)[route],
       faults     |-> PlanFaults(s)]

KnownGood(policy) ==
  IF AtLeast(3, policy.knownGood) THEN policy.knownGood ELSE Generic

(* The policy's thresholds; a value on the threshold is accepted.          *)
Risks(s, policy, planned) ==
       When(AtLeast(policy.minStability, s.stability + 1), {"UNSTABLE"})
  \cup When(AtLeast(policy.minAccuracy, s.accuracy + 1), {"INACCURATE"})
  \cup When(AtLeast(s.friction, policy.maxFriction + 1), {"FRICTION"})
  \cup When(AtLeast(s.entropy, policy.maxEntropy + 1), {"ENTROPY"})
  \cup When(AtLeast(s.overhead, policy.maxOverhead + 1), {"OVERHEAD"})
  \cup When(AtLeast(policy.minConfidence, planned.confidence + 1),
          {"LOW_CONFIDENCE"})
  \cup When(planned.route \notin policy.allowed, {"DISALLOWED_ROUTE"})
  \cup s.faults

(* Faulty form: only what the policy itself finds is a risk.               *)
MitigateUnsignalled(s, policy) ==
  LET planned == Plan(s)
      risks   == Risks([s EXCEPT !.faults = {}], policy, planned)
  IN  [route      |-> IF risks # {} THEN KnownGood(policy) ELSE planned.route,
       flags      |-> planned.flags \cup When(risks # {}, Fallback),
       confidence |-> IF risks # {} THEN Smooth(planned.confidence, One, 4)
                                    ELSE planned.confidence,
       faults     |-> planned.faults \cup risks]

Mitigate(s, policy) ==
  LET planned == Plan(s)
      risks   == Risks(s, policy, planned)
  IN  [route      |-> IF risks # {} THEN KnownGood(policy) ELSE planned.route,
       flags      |-> planned.flags \cup When(risks # {}, Fallback),
       confidence |-> IF risks # {} THEN Smooth(planned.confidence, One, 4)
                                    ELSE planned.confidence,
       faults     |-> planned.faults \cup risks]
=============================================================================
