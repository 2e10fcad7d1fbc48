----------------------------- MODULE ShareTarget -----------------------------
(***************************************************************************)
(* The target of a share: from the pool's difficulty or the notify's own   *)
(* target, scaled by the work one candidate stands for                     *)
(* (stratum_session.py, mining_config.py); and the two ways a digest is    *)
(* compared with it, as one number (candidate_search.py) and word by word  *)
(* (jackpot_gpu.py, jackpot_vk.cpp, jackpot_coopmat.comp).                 *)
(*                                                                         *)
(* A digest is a number of four words.  A difficulty is counted in halves, *)
(* 0 for one that is missing or not positive.                              *)
(***************************************************************************)
EXTENDS Integers

CONSTANTS
  DigitMod,     \* values of a word of a digest (2^64)
  Diff1Target,  \* DIFF1_TARGET (0xFFFF << 208)
  Quantum       \* the MMA quantum of the common dimension (128)

ASSUME TargetAssumption ==
  DigitMod \in Nat \ {0} /\ Diff1Target \in Nat \ {0} /\ Quantum \in Nat \ {0}

TargetMax == DigitMod * DigitMod * DigitMod * DigitMod - 1
NoTarget  == -1               \* a notify without a target

\* k floored to the quantum: zero for a k below it.
dot_product_length(k) == (k \div Quantum) * Quantum

difficulty_adjustment_factor(rows, cols, k) == rows * cols * dot_product_length(k)

\* int(float(D)) of a difficulty below one is a division by zero: no Work.
NoShareTarget(halves) == halves = 1

\* set_difficulty before the notify's target, and difficulty one without both.
DiffTarget(halves, explicit) ==
  IF halves > 0 THEN LET t == Diff1Target \div (halves \div 2) IN IF t < 1 THEN 1 ELSE t
  ELSE IF explicit # NoTarget THEN explicit ELSE Diff1Target

\* Fault: the scaled target is not cut to a digest's size.
ClampNone(t) == t

Clamp(t) == IF t > TargetMax THEN TargetMax ELSE t

share_target(halves, explicit, daf) == Clamp(DiffTarget(halves, explicit) * daf)

-----------------------------------------------------------------------------

\* Word i of a number, from the low end.
Weight == <<1, DigitMod, DigitMod * DigitMod, DigitMod * DigitMod * DigitMod>>
Digit(v, i) == (v \div Weight[i + 1]) % DigitMod

\* From the high word down; the next word counts when the higher are equal.
\* The words are those of a target of four: what is above is cut off.
BelowByWords(v, target) ==
  \E i \in 0..3 : /\ Digit(v, i) < Digit(target, i)
                  /\ \A j \in i + 1..3 : Digit(v, j) = Digit(target, j)

Below(v, target) == v < target
=============================================================================
