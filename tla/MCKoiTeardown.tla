--------------------------- MODULE MCKoiTeardown ----------------------------
(***************************************************************************)
(* Instances of KoiTeardown for TLC.                                       *)
(***************************************************************************)
EXTENDS KoiTeardown, TLC

CONSTANTS c1, c2, c3  \* connections

Symmetry == Permutations(ConnId)
=============================================================================
