---------------------------- MODULE MCKoiContext ----------------------------
(***************************************************************************)
(* Instances of KoiContext for TLC.                                        *)
(***************************************************************************)
EXTENDS KoiContext

CONSTANTS
  r1, r2,  \* remotes
  c1, c2   \* connections

\* Values of CallsBack
None == {}
FromDisconnect == {"OnDisconnect"}
FromReceive == {"OnUnreliableReceive"}
FromReliable == {"OnReliableReceive"}
=============================================================================
