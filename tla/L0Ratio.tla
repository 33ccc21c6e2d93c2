------------------------------- MODULE L0Ratio -------------------------------
(***************************************************************************)
(* rafaelia_l0_ratio_scaled, android/app/native/rafaelia_freestanding_l0.c:*)
(* numerator * scale / denominator by shift and subtract, without the      *)
(* 128-bit product or the library division that a freestanding build does  *)
(* not have.  It is behind both promotion gates of the learning runtime    *)
(* and the confidence of the predictor.  All arithmetic wraps: remainder   *)
(* at 2^64, quotient at 2^32.                                              *)
(***************************************************************************)
EXTENDS Integers

CONSTANTS Word,        \* 2^64
          BitValues,   \* the values of bit: the powers of two below 2^32
          TopBit,      \* 1u << 31
          Scales       \* what the callers pass for scale: 1000000 and 65535

Word32 == 2 * TopBit

ASSUME RatioAssumption ==
  /\ Word \in Nat \ {0}
  /\ BitValues \subseteq Nat \ {0}
  /\ \A b \in BitValues : b = 1 \/ (b \div 2 \in BitValues /\ b = 2 * (b \div 2))
  /\ TopBit \in BitValues
  /\ Scales \subseteq 0 .. Word32 - 1

VARIABLES numerator, denominator, scale,  \* the arguments
          bit, remainder, quotient, pc

args == <<numerator, denominator, scale>>
ratioVars == <<numerator, denominator, scale, bit, remainder, quotient, pc>>

Plus(a, b)  == (a + b) % Word
Minus(a, b) == (a - b) % Word
Incremented(q) == (q + 1) % Word32

RatioInit ==
  /\ numerator \in 0 .. Word - 1 /\ denominator \in 0 .. Word - 1
  /\ scale \in Scales
  /\ bit = TopBit /\ remainder = 0 /\ quotient = 0 /\ pc = "call"

(* The degenerate arguments return at once.                                *)
Return(r) == /\ pc = "call" /\ quotient' = r /\ pc' = "done"
             /\ UNCHANGED <<args, bit, remainder>>

ReturnZero == (denominator = 0 \/ numerator = 0 \/ scale = 0) /\ Return(0)

ReturnScale ==
  /\ denominator # 0 /\ numerator # 0 /\ scale # 0
  /\ numerator >= denominator
  /\ Return(scale)

Enter ==
  /\ pc = "call" /\ numerator # 0 /\ scale # 0 /\ numerator < denominator
  /\ pc' = "skip"
  /\ UNCHANGED <<args, bit, remainder, quotient>>

BitSet == (scale \div bit) % 2 = 1

(* The first loop: down to the highest bit of scale.                       *)
Skip ==
  /\ pc = "skip"
  /\ IF bit # 0 /\ ~BitSet THEN bit' = bit \div 2 /\ pc' = pc
                           ELSE pc' = "loop" /\ bit' = bit
  /\ UNCHANGED <<args, remainder, quotient>>

(* The remainder and the quotient after the doubling, ...                  *)
Room == Minus(denominator, remainder)

Doubled ==
  IF remainder >= Room
  THEN [r |-> Minus(remainder, Room), q |-> Incremented((2 * quotient) % Word32)]
  ELSE [r |-> Plus(remainder, remainder), q |-> (2 * quotient) % Word32]

(* Faulty form: the sum is compared, after it has wrapped.                 *)
AddedFirst(x) ==
  LET sum == Plus(x.r, numerator)
  IN  IF sum >= denominator THEN [r |-> Minus(sum, denominator), q |-> Incremented(x.q)]
                            ELSE [r |-> sum, q |-> x.q]

(* ... and after numerator has been added to x, for a bit that is set.     *)
Added(x) ==
  LET room == Minus(denominator, numerator)
  IN  IF x.r >= room THEN [r |-> Minus(x.r, room), q |-> Incremented(x.q)]
                     ELSE [r |-> Plus(x.r, numerator), q |-> x.q]

(* One round of the second loop.                                           *)
Round ==
  /\ pc = "loop" /\ bit # 0
  /\ LET y == IF BitSet THEN Added(Doubled) ELSE Doubled
     IN  remainder' = y.r /\ quotient' = y.q
  /\ bit' = bit \div 2
  /\ UNCHANGED <<args, pc>>

Finish ==
  /\ pc = "loop" /\ bit = 0
  /\ pc' = "done"
  /\ UNCHANGED <<args, bit, remainder, quotient>>

RatioNext == ReturnZero \/ ReturnScale \/ Enter \/ Skip \/ Round \/ Finish

RatioSpec == RatioInit /\ [][RatioNext]_ratioVars

-----------------------------------------------------------------------------
(* Every variable holds a value of its type.                               *)
RatioTypeOK ==
  /\ numerator \in 0 .. Word - 1 /\ denominator \in 0 .. Word - 1
  /\ scale \in Scales
  /\ bit \in BitValues \cup {0}
  /\ quotient \in 0 .. Word32 - 1
  /\ remainder \in 0 .. Word - 1
  /\ pc \in {"call", "skip", "loop", "done"}

(* The bits of scale the loop has consumed, as a number.                   *)
Prefix == IF bit = 0 THEN scale ELSE scale \div (2 * bit)

(* The loop divides exactly, at every round: what it has divided so far is *)
(* quotient times denominator, and a remainder too small to divide.        *)
Exact ==
  pc \in {"skip", "loop"} =>
    /\ remainder < denominator
    /\ quotient * denominator + remainder = Prefix * numerator

(* The ratio it is meant to compute, rounded down and clipped to scale.    *)
Ratio(n, d, s) ==
  IF d = 0 THEN 0 ELSE IF n >= d THEN (IF n = 0 THEN 0 ELSE s) ELSE (s * n) \div d

(* The function returns the exact ratio, for arguments of the full width   *)
(* of a word: no product or sum on the way there overflows.                *)
ReturnsRatio == pc = "done" => quotient = Ratio(numerator, denominator, scale)
=============================================================================
