-------------------------------- MODULE Q16 --------------------------------
(***************************************************************************)
(* The sixteen-bit fractions of the native recorder and of the autotuner:  *)
(* 65535 stands for one.  Every operator rounds down, as the C code does.  *)
(***************************************************************************)
EXTENDS Integers

One == 65535
Fraction == 0 .. One

Mean(left, right) == (left + right) \div 2

Complement(value) == One - value

(* An exponential smoother: one part of input, the others of current.      *)
Smooth(current, input, parts) == (current * (parts - 1) + input) \div parts

Distance(left, right) == IF left >= right THEN left - right ELSE right - left
=============================================================================
