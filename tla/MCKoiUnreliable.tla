-------------------------- MODULE MCKoiUnreliable ---------------------------
(***************************************************************************)
(* Instances of KoiUnreliable for TLC.  MaxSendLength is 10 bytes.         *)
(***************************************************************************)
EXTENDS KoiUnreliable

CONSTANTS t1, t2  \* sending threads

\* The second packet is too long, the last one only with its number.
FiveLengths == <<3, 11, 5, 0, 8>>
=============================================================================
