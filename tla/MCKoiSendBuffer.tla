-------------------------- MODULE MCKoiSendBuffer ---------------------------
(***************************************************************************)
(* Instances of KoiSendBuffer for TLC.                                     *)
(***************************************************************************)
EXTENDS KoiSendBuffer

CONSTANTS r, u, v  \* packets
=============================================================================
