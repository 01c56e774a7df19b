--------------------------- MODULE MCKoiGamestate ---------------------------
(***************************************************************************)
(* Instances of KoiGamestate for TLC: seeds of Lcg32 have 6 bits, an       *)
(* element has 4 bits and a word two elements.                             *)
(***************************************************************************)
EXTENDS KoiGamestate

CONSTANTS p1, p2  \* platforms

\* A seed of either sign on the long cycle, and a fixed point
SomeSeeds == {1, 33, 63}
\* A negative element has a sign bit to extend.
SomeValues == {-1, 3}
=============================================================================
