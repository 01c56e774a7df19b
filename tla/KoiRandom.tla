------------------------------ MODULE KoiRandom ------------------------------
(***************************************************************************)
(* Lcg32 of rpng.h.  It belongs to the state of a game that all peers      *)
(* compute for themselves, so it has to yield the same numbers everywhere. *)
(* It multiplies modulo 2^31 - 1 without a division.                       *)
(***************************************************************************)
EXTENDS Integers

CONSTANTS
  SignBit,     \* 2^31, the highest bit of a seed
  Multiplier,  \* 48271
  Seeds,       \* seeds that an Lcg32 may be given
  MaxDraws     \* how many numbers are drawn

Modulus == SignBit - 1

ASSUME RandomAssumption ==
  /\ SignBit \in Nat /\ SignBit > 2
  /\ Multiplier \in 2 .. SignBit - 1
  /\ Seeds \subseteq 0 .. 2 * SignBit - 1
  /\ MaxDraws \in Nat

\* 2147483647 is a prime that does not divide 48271.
ASSUME MultiplierAssumption ==
  \A y \in 1 .. Modulus - 1 : (y * Multiplier) % Modulus # 0

VARIABLES
  seed,  \* Lcg32::seed
  drawn  \* how many numbers were drawn

randomVars == <<seed, drawn>>

U32(x) == x % (2 * SignBit)
Sign(x) == IF x < SignBit THEN 0 ELSE SignBit
Low31(x) == x % SignBit
OrSign(x, sign) == IF sign = 0 THEN x ELSE Low31(x) + sign

\* seed1 without its carry
Uncarried(x) == U32(Low31(x) + x \div SignBit)

\* Mutation of Next32: the sign is part of what is multiplied.
Next32Signed(x) ==
  LET mul == x * Multiplier
  IN OrSign(Uncarried(U32(U32(mul \div SignBit) + Low31(mul))), Sign(x))

\* Lcg32::Next
Next32(x) ==
  LET mul == Low31(x) * Multiplier
      hi33 == U32(mul \div SignBit)
      lo31 == Low31(mul)
  IN OrSign(Uncarried(U32(hi33 + lo31)), Sign(x))

RandomInit == seed \in Seeds /\ drawn = 0

Draw ==
  /\ drawn < MaxDraws
  /\ seed' = Next32(seed)
  /\ drawn' = drawn + 1

RandomSpec == RandomInit /\ [][Draw]_randomVars

-----------------------------------------------------------------------------
\* rpng.h:11-14: std::minstd_rand, with 0 and the modulus fixed, on the seed
\* without its sign, which is kept.
Documented(x) ==
  IF Low31(x) \in {0, Modulus} THEN x
  ELSE Sign(x) + ((Low31(x) * Multiplier) % Modulus)

(***************************************************************************)
(* Lcg32::Next, which adds the two halves of a product and the carry of    *)
(* that sum, is the division by 2147483647 it replaces: no sum runs over,  *)
(* one carry is enough, and neither fixed point is reached from elsewhere. *)
(***************************************************************************)
DrawsAsDocumented == [][seed' = Documented(seed)]_<<seed, drawn>>
=============================================================================
