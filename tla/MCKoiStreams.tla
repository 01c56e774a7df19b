---------------------------- MODULE MCKoiStreams ----------------------------
(***************************************************************************)
(* KoiStreams for TLC.                                                     *)
(***************************************************************************)
EXTENDS KoiStreams
=============================================================================
