-------------------------- MODULE KoiRandomProofs ---------------------------
(***************************************************************************)
(* Lcg32 computes the remainder it is documented to compute, for every     *)
(* width of the seed and every multiplier that meets the assumptions, the  *)
(* 2^31 and 48271 of the code among them, which TLC's integers are too     *)
(* small for.                                                              *)
(***************************************************************************)
EXTENDS KoiRandom, TLAPS

\* A quotient and a remainder that fit are the quotient and the remainder.
LEMMA DivModUnique ==
  ASSUME NEW n \in Nat \ {0}, NEW q \in Nat, NEW r \in 0 .. n - 1
  PROVE  (q * n + r) \div n = q /\ (q * n + r) % n = r
  OBVIOUS

LEMMA DivMod ==
  ASSUME NEW n \in Nat \ {0}, NEW a \in Nat
  PROVE  /\ a \div n \in Nat /\ a % n \in 0 .. n - 1
         /\ a = (a \div n) * n + (a % n)
  OBVIOUS

\* A product is less than another one whose factors are greater.
LEMMA ProductBound ==
  ASSUME NEW a \in Nat, NEW b \in Nat, NEW c \in Nat, a < b, c > 0
  PROVE  a * c < b * c
  OBVIOUS

LEMMA FactorBound ==
  ASSUME NEW a \in Nat, NEW b \in Nat, NEW c \in Nat, a * c < b * c
  PROVE  a < b
  OBVIOUS

(***************************************************************************)
(* The sum of the two halves differs from the product by a multiple of the *)
(* modulus, and so does what is left when its carry is taken off.          *)
(***************************************************************************)
Halves(mul) == mul \div SignBit + Low31(mul)

LEMMA SumOfHalves ==
  ASSUME NEW y \in 0 .. Modulus
  PROVE  LET mul == y * Multiplier
             hi == mul \div SignBit
         IN /\ mul \in Nat /\ hi \in 0 .. Multiplier - 1 /\ Low31(mul) \in 0 .. Modulus
            /\ mul = hi * Modulus + Halves(mul)
            /\ U32(hi) = hi
            /\ U32(hi + Low31(mul)) = Halves(mul)
            /\ Halves(mul) \in 0 .. SignBit + Multiplier - 2
<1> DEFINE mul == y * Multiplier
           hi == mul \div SignBit
<1>0. /\ SignBit \in Nat \ {0} /\ SignBit > 2 /\ Multiplier \in 2 .. SignBit - 1
      /\ Modulus = SignBit - 1 /\ Modulus \in Nat \ {0}
  BY RandomAssumption DEF Modulus
<1>1. mul \in Nat
  BY <1>0
<1>2. hi \in Nat /\ mul % SignBit \in 0 .. Modulus
      /\ mul = hi * SignBit + (mul % SignBit)
  BY <1>0, <1>1, DivMod
<1> HIDE DEF mul, hi
<1>3. hi < Multiplier
  <2>1. mul < SignBit * Multiplier
    BY <1>0, ProductBound DEF mul
  <2>2. hi * SignBit < Multiplier * SignBit
    <3>1. hi * SignBit <= mul
      BY <1>0, <1>1, <1>2
    <3>2. hi * SignBit \in Nat /\ SignBit * Multiplier = Multiplier * SignBit
          /\ Multiplier * SignBit \in Nat
      BY <1>0, <1>2
    <3> QED
      BY <2>1, <3>1, <3>2, <1>1
  <2> QED
    BY <1>0, <1>2, <2>2, FactorBound
<1>4. mul = hi * Modulus + (hi + (mul % SignBit))
  <2>1. hi * SignBit = hi * Modulus + hi
    BY <1>0, <1>2
  <2> QED
    BY <1>0, <1>2, <2>1
<1>5. hi + (mul % SignBit) \in 0 .. SignBit + Multiplier - 2
  BY <1>0, <1>2, <1>3
<1>6. U32(hi) = hi /\ U32(hi + (mul % SignBit)) = hi + (mul % SignBit)
  <2>1. \A a \in 0 .. 2 * SignBit - 1 : U32(a) = a
    BY <1>0 DEF U32
  <2> QED
    BY <1>0, <1>2, <1>3, <1>5, <2>1
<1>7. Low31(mul) = mul % SignBit /\ Halves(mul) = hi + (mul % SignBit)
  BY DEF Halves, Low31, hi
<1>8. hi \in 0 .. Multiplier - 1
  BY <1>0, <1>2, <1>3
<1>9. /\ mul \in Nat /\ hi \in 0 .. Multiplier - 1 /\ Low31(mul) \in 0 .. Modulus
      /\ mul = hi * Modulus + Halves(mul)
      /\ U32(hi) = hi /\ U32(hi + Low31(mul)) = Halves(mul)
      /\ Halves(mul) \in 0 .. SignBit + Multiplier - 2
  BY <1>1, <1>2, <1>4, <1>5, <1>6, <1>7, <1>8
<1> QED
  BY <1>9, Zenon DEF mul, hi

LEMMA CarryTaken ==
  ASSUME NEW s \in 0 .. SignBit + Multiplier - 2
  PROVE  /\ Uncarried(s) \in 0 .. Modulus
         /\ \/ s = Uncarried(s)
            \/ s = Modulus + Uncarried(s) /\ Uncarried(s) # 0
<1>0. /\ SignBit \in Nat \ {0} /\ SignBit > 2 /\ Multiplier \in 2 .. SignBit - 1
      /\ Modulus = SignBit - 1 /\ Modulus \in Nat \ {0}
  BY RandomAssumption DEF Modulus
<1>1. \A a \in 0 .. 2 * SignBit - 1 : U32(a) = a
  BY <1>0 DEF U32
<1>2. CASE s < SignBit
  <2>1. s \div SignBit = 0 /\ s % SignBit = s
    BY <1>0, <1>2
  <2> QED
    BY <1>0, <1>1, <1>2, <2>1 DEF Uncarried, Low31
<1>3. CASE s >= SignBit
  <2>1. s - SignBit \in 0 .. SignBit - 1 /\ s = 1 * SignBit + (s - SignBit)
    BY <1>0, <1>3
  <2>2. s \div SignBit = 1 /\ s % SignBit = s - SignBit
    BY <1>0, <2>1, DivModUnique
  <2>3. Uncarried(s) = s - SignBit + 1
    BY <1>0, <1>1, <2>1, <2>2 DEF Uncarried, Low31
  <2> QED
    BY <1>0, <1>3, <2>1, <2>3
<1> QED
  BY <1>0, <1>2, <1>3

\* What Next32 makes of the lower bits is what is documented.
LowNext(y) == Uncarried(Halves(y * Multiplier))

LEMMA LowNextDocumented ==
  ASSUME NEW y \in 0 .. Modulus
  PROVE  LowNext(y) = IF y \in {0, Modulus} THEN y ELSE (y * Multiplier) % Modulus
<1>0. /\ SignBit \in Nat \ {0} /\ SignBit > 2 /\ Multiplier \in 2 .. SignBit - 1
      /\ Modulus = SignBit - 1 /\ Modulus \in Nat \ {0}
  BY RandomAssumption DEF Modulus
<1> DEFINE mul == y * Multiplier
           hi == mul \div SignBit
           s == Halves(mul)
           r == Uncarried(s)
<1>1. /\ mul \in Nat /\ hi \in 0 .. Multiplier - 1
      /\ mul = hi * Modulus + s /\ s \in 0 .. SignBit + Multiplier - 2
      /\ Low31(mul) \in 0 .. Modulus
  BY SumOfHalves
<1>2. r \in 0 .. Modulus /\ (s = r \/ (s = Modulus + r /\ r # 0))
  BY <1>1, CarryTaken
<1>3. CASE y = 0
  <2>1. mul = 0
    BY <1>0, <1>3
  <2>2. mul \div SignBit = 0 /\ mul % SignBit = 0
    BY <1>0, <2>1
  <2>3. s = 0
    BY <2>2 DEF Halves, Low31
  <2> QED
    BY <1>0, <1>2, <1>3, <2>3 DEF LowNext
<1>4. CASE y = Modulus
  <2>1. mul = (Multiplier - 1) * SignBit + (SignBit - Multiplier)
    BY <1>0, <1>4
  <2>2. mul \div SignBit = Multiplier - 1 /\ mul % SignBit = SignBit - Multiplier
    <3>1. Multiplier - 1 \in Nat /\ SignBit - Multiplier \in 0 .. SignBit - 1
      BY <1>0
    <3> HIDE DEF mul
    <3> QED
      BY <1>0, <2>1, <3>1, DivModUnique
  <2>3. s = Modulus
    BY <1>0, <2>2 DEF Halves, Low31
  <2> QED
    BY <1>0, <1>2, <1>4, <2>3 DEF LowNext
<1>5. CASE y \in 1 .. Modulus - 1
  <2> HIDE DEF s, r, hi
  <2>1. mul % Modulus # 0
    BY <1>5, MultiplierAssumption
  <2>2. PICK q \in Nat : mul = q * Modulus + r
    <3>1. CASE s = r
      BY <1>1, <3>1
    <3>2. CASE s = Modulus + r
      <4>1. hi * Modulus + (Modulus + r) = (hi + 1) * Modulus + r
        BY <1>0, <1>1, <1>2
      <4>2. mul = (hi + 1) * Modulus + r
        BY <1>1, <3>2, <4>1
      <4>3. hi + 1 \in Nat
        BY <1>0, <1>1
      <4> HIDE DEF mul
      <4> QED
        BY <4>2, <4>3
    <3> QED
      BY <1>2, <3>1, <3>2
  <2> HIDE DEF mul
  <2>3. r # 0
    <3>1. SUFFICES ASSUME r = 0 PROVE FALSE
      OBVIOUS
    <3>2. (q * Modulus + 0) % Modulus = 0
      BY <1>0, DivModUnique
    <3> QED
      BY <2>1, <2>2, <3>1, <3>2
  <2>4. r # Modulus
    <3>1. SUFFICES ASSUME r = Modulus PROVE FALSE
      OBVIOUS
    <3>2. q * Modulus + Modulus = (q + 1) * Modulus + 0
      BY <1>0
    <3>3. ((q + 1) * Modulus + 0) % Modulus = 0
      BY <1>0, DivModUnique
    <3> QED
      BY <2>1, <2>2, <3>1, <3>2, <3>3
  <2>5. r \in 0 .. Modulus - 1
    BY <1>0, <1>2, <2>4
  <2>6. mul % Modulus = r
    BY <1>0, <2>2, <2>5, DivModUnique
  <2> QED
    BY <1>0, <1>5, <2>6 DEF LowNext, mul, r, s
<1> QED
  BY <1>0, <1>3, <1>4, <1>5

LEMMA LowNextBound ==
  ASSUME NEW y \in 0 .. Modulus
  PROVE  LowNext(y) \in 0 .. Modulus
  BY SumOfHalves, CarryTaken DEF LowNext

Seed32 == 0 .. 2 * SignBit - 1

\* The two parts of a seed
LEMMA SignAndLow ==
  ASSUME NEW x \in Seed32
  PROVE  /\ Low31(x) \in 0 .. Modulus /\ x = Low31(x) + Sign(x)
         /\ Sign(x) \in {0, SignBit}
<1>0. SignBit \in Nat \ {0} /\ SignBit > 2
  BY RandomAssumption
<1>1. CASE x < SignBit
  BY <1>0, <1>1 DEF Seed32, Low31, Sign, Modulus
<1>2. CASE x >= SignBit
  <2>1. x - SignBit \in 0 .. SignBit - 1 /\ x = 1 * SignBit + (x - SignBit)
    BY <1>0, <1>2 DEF Seed32
  <2>2. (1 * SignBit + (x - SignBit)) % SignBit = x - SignBit
    BY <1>0, <2>1, DivModUnique
  <2>3. x % SignBit = x - SignBit
    BY <2>1, <2>2
  <2> QED
    BY <1>0, <1>2, <2>1, <2>3 DEF Seed32, Low31, Sign, Modulus
<1> QED
  BY <1>0, <1>1, <1>2 DEF Seed32

LEMMA OrSignAdds ==
  ASSUME NEW y \in 0 .. Modulus, NEW sign \in {0, SignBit}
  PROVE  OrSign(y, sign) = y + sign /\ y + sign \in Seed32
<1>0. SignBit \in Nat \ {0} /\ SignBit > 2
  BY RandomAssumption
<1>1. Low31(y) = y
  BY <1>0 DEF Low31, Modulus
<1> QED
  BY <1>0, <1>1 DEF OrSign, Seed32, Modulus

LEMMA NextDocumented ==
  ASSUME NEW x \in Seed32
  PROVE  Next32(x) = Documented(x) /\ Next32(x) \in Seed32
<1> DEFINE y == Low31(x)
<1>1. y \in 0 .. Modulus /\ x = y + Sign(x) /\ Sign(x) \in {0, SignBit}
  BY SignAndLow
<1>2. Next32(x) = OrSign(LowNext(y), Sign(x))
  <2> DEFINE mul == y * Multiplier
  <2>1. /\ U32(mul \div SignBit) = mul \div SignBit
        /\ U32(mul \div SignBit + Low31(mul)) = Halves(mul)
    BY <1>1, SumOfHalves
  <2> QED
    BY <2>1 DEF Next32, LowNext
<1>3. LowNext(y) \in 0 .. Modulus
  BY <1>1, LowNextBound
<1>4. Next32(x) = LowNext(y) + Sign(x) /\ Next32(x) \in Seed32
  BY <1>1, <1>2, <1>3, OrSignAdds
<1>5. LowNext(y) = IF y \in {0, Modulus} THEN y ELSE (y * Multiplier) % Modulus
  BY <1>1, LowNextDocumented
<1>6. CASE y \in {0, Modulus}
  BY <1>1, <1>4, <1>5, <1>6 DEF Documented
<1>7. CASE y \notin {0, Modulus}
  <2>1. (y * Multiplier) % Modulus \in Int /\ Sign(x) \in Int
    BY <1>1, <1>3, <1>5, <1>7, RandomAssumption
  <2> QED
    BY <1>4, <1>5, <1>7, <2>1 DEF Documented
<1> QED
  BY <1>4, <1>6, <1>7

(***************************************************************************)
(* Every number an Lcg32 yields, from whatever seed, is the documented     *)
(* successor of the one before (Lcg32::Next).                              *)
(***************************************************************************)
THEOREM Lcg32IsDocumented == RandomSpec => DrawsAsDocumented
<1>1. RandomInit => seed \in Seed32
  BY RandomAssumption DEF RandomInit, Seed32
<1>2. seed \in Seed32 /\ [Draw]_randomVars => (seed \in Seed32)'
  BY NextDocumented DEF Draw, randomVars
<1>3. seed \in Seed32 /\ [Draw]_randomVars
        => [seed' = Documented(seed)]_<<seed, drawn>>
  BY NextDocumented DEF Draw, randomVars
<1> QED
  BY <1>1, <1>2, <1>3, PTL DEF RandomSpec, DrawsAsDocumented
=============================================================================
