-------------------------- MODULE AverageTinyMemory --------------------------
(***************************************************************************)
(* The average of the potentiometer: AverageTinyMemory keeps no window but *)
(* a mean, the last value and for how many samples it has not changed (its *)
(* weight, one byte).  The arithmetic is that of the processor: the weight *)
(* counts modulo WeightMod, int modulo IntMod, division truncates.         *)
(*                                                                         *)
(* `same', `low' and `high' are the model's: the number of last samples    *)
(* that agree, up to FactorMax, and the bounds of all samples since the    *)
(* factor was set.                                                         *)
(***************************************************************************)
EXTENDS Integers

CONSTANTS
  FactorMax,   \* AverageTinyMemory_FACTOR_MAX
  ValueMax,    \* the greatest sample, 1023
  WeightMod,   \* 2^8
  IntMod       \* 2^16

\* 32 * 1023 is below 2^15.  The header allows factors to 63, which are not.
ASSUME AverageAssumption ==
  /\ FactorMax \in Nat \ {0} /\ ValueMax \in Nat
  /\ WeightMod \in Nat /\ FactorMax < WeightMod
  /\ IntMod \in Nat /\ 2 * FactorMax * ValueMax < IntMod

VARIABLES m_mean, m_value_prev, m_factor, m_len, m_value_weight, same, low, high

averageVars == <<m_mean, m_value_prev, m_factor, m_len, m_value_weight, same, low, high>>

Values == 0..ValueMax
Factors == 0..FactorMax

AverageTypeOK ==
  /\ m_mean \in Values
  /\ m_value_prev \in Values
  /\ m_factor \in Factors
  /\ m_len \in Factors
  /\ m_value_weight \in 0..(WeightMod - 1)
  /\ same \in Factors
  /\ low \in Values /\ high \in Values

\* The constructor; a factor above the maximum is FATAL.
AverageInit(factor) ==
  /\ m_mean = 0 /\ m_value_prev = 0
  /\ m_factor = factor
  /\ m_len = 0 /\ m_value_weight = 0
  /\ same = 0 /\ low = ValueMax /\ high = 0

-----------------------------------------------------------------------------
\* int arithmetic: the sum as the register holds it, and C's division.
AsInt(x) ==
  LET r == x % IntMod IN IF 2 * r < IntMod THEN r ELSE r - IntMod
DivC(x, n) == IF x >= 0 THEN x \div n ELSE -((-x) \div n)

\* factorSet starts anew but for the mean.
factorSet(factor) ==
  /\ factor \in Factors
  /\ m_factor' = factor
  /\ m_value_prev' = 0 /\ m_len' = 0 /\ m_value_weight' = 0
  /\ same' = 0 /\ low' = ValueMax /\ high' = 0
  /\ UNCHANGED m_mean

Weight(value) ==
  IF value = m_value_prev THEN (m_value_weight + 1) % WeightMod ELSE 1

Length == IF m_len < m_factor THEN m_len + 1 ELSE m_len

\* Mutant: the old mean keeps the whole weight of the window.
Mean_OldInFull(value) ==
  DivC(AsInt(m_mean * Length + value * Weight(value)), Length)

\* The new mean: the value counts for as long as it lasts.
Mean(value) ==
  DivC(AsInt(m_mean * (Length - Weight(value)) + value * Weight(value)), Length)

\* appendValue; a factor of 0 switches the averaging off.
appendValue(value) ==
  /\ IF m_factor = 0
     THEN /\ m_mean' = value
          /\ m_len' = 0
          /\ UNCHANGED <<m_value_prev, m_value_weight>>
     ELSE /\ m_mean' = Mean(value)
          /\ m_len' = Length
          /\ m_value_weight' = Weight(value)
          /\ m_value_prev' = value
  /\ same' = IF value # m_value_prev THEN 1
             ELSE IF same < FactorMax THEN same + 1 ELSE same
  /\ low' = IF value < low THEN value ELSE low
  /\ high' = IF value > high THEN value ELSE high
  /\ UNCHANGED m_factor

AverageNext ==
  \/ \E value \in Values : appendValue(value)
  \/ \E factor \in Factors : factorSet(factor)

-----------------------------------------------------------------------------
\* The mean stays between the least and the greatest sample: neither the
\* overflow of the products, for a weight far above the length, nor the wrap of
\* the weight carries it outside.
MeanBetween == low <= high => low <= m_mean /\ m_mean <= high

\* A value that has lasted for the whole window is the mean, exactly, and stays
\* so when its weight goes past the length and wraps.
MeanSettles == m_factor > 0 /\ same >= m_factor => m_mean = m_value_prev

\* The potentiometer's mean follows the samples: never outside them, and
\* exactly at the last one in the end.
MeanFollows == AverageTypeOK /\ MeanBetween /\ MeanSettles
=============================================================================
