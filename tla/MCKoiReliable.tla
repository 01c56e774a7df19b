--------------------------- MODULE MCKoiReliable ----------------------------
(***************************************************************************)
(* Instances of KoiReliable for TLC: headers of two bytes, so that an      *)
(* event can end inside one.                                               *)
(***************************************************************************)
EXTENDS KoiReliable

CONSTANTS t1, t2  \* sending threads

\* A message without data, and messages of different lengths.
SmallSizes == <<1, 0, 1>>
TwoSizes == <<1, 2>>
OneSize == <<1>>
=============================================================================
