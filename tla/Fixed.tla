-------------------------------- MODULE Fixed ---------------------------------
(***************************************************************************)
(* nostd::FixedPoint, a number in a signed integer whose unit is           *)
(* 1/FracUnit: 16.16 in 32 bits in the firmware.  A value is the raw       *)
(* integer.  What does not fit is cut to the width, as the casts do and as *)
(* the sums and products of the processor do (in C++ they are undefined).  *)
(* Also the words and bytes a value is sent and stored as.                 *)
(***************************************************************************)
EXTENDS Integers

CONSTANTS
  Byte,      \* 256: the values of a byte
  FracUnit   \* 2^16: FIXED_FRACUNIT

ASSUME FixedAssumption == Byte \in Nat \ {0, 1} /\ FracUnit \in Nat \ {0}

Half == Byte * Byte        \* the values of a word, uint16_t
FixedMod == Half * Half    \* of an int32_t
FixedMin == -(FixedMod \div 2)
Fixeds == FixedMin..(FixedMin + FixedMod - 1)

ToFixed(x) == ((x - FixedMin) % FixedMod) + FixedMin

\* Division in C drops the fraction, for negative numbers too.
Truncated(a, b) == IF a >= 0 THEN a \div b ELSE -((-a) \div b)

FIXED_FROM_INT(n) == ToFixed(n * FracUnit)
FIXED_INT(a) == a \div FracUnit
FIXED_ADD(a, b) == ToFixed(a + b)
FIXED_SUB(a, b) == ToFixed(a - b)
FIXED_MUL(a, b) == ToFixed((a * b) \div FracUnit)
FIXED_MUL_BY_INT(a, n) == ToFixed(a * n)
FIXED_DIV(a, b) == ToFixed(Truncated(a * FracUnit, b))
FIXED_DIV_BY_INT(a, n) == ToFixed(Truncated(a, n))

-----------------------------------------------------------------------------
SPLIT32_HI(x) == (x % FixedMod) \div Half
SPLIT32_LO(x) == (x % FixedMod) % Half

BUILD_32(hi, lo) == ToFixed(hi * Half + lo)

\* The i-th of the four bytes of a value, the lowest first, and the value of four.
BytePlaces == <<1, Byte, Byte * Byte, Byte * Byte * Byte>>
ByteOf(x, i) == ((x % FixedMod) \div BytePlaces[i + 1]) % Byte
OfBytes(b) == ToFixed(b[0] + Byte * b[1] + Byte * Byte * b[2] + Byte * Byte * Byte * b[3])
=============================================================================
