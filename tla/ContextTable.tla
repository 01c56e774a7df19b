---------------------------- MODULE ContextTable ----------------------------
(***************************************************************************)
(* What the table connectionContexts of a KoiSession promises, without the *)
(* handshake that fills it: every slot serves at most one remote sentinel, *)
(* a slot is handed out only while it is free, and no remote is given two  *)
(* slots.  KoiHandshake implements this specification.                     *)
(***************************************************************************)

CONSTANTS Endpoint, \* the sessions, named by their sentinel
          Slot,     \* indices into connectionContexts
          None      \* "no remote": a zeroed RemoteSentinel

VARIABLE peerOf     \* peerOf[e][i]: the remote that slot i of e serves

Init == peerOf = [e \in Endpoint |-> [i \in Slot |-> None]]

\* A free slot is reserved for a remote that no other slot serves.
Reserve(e, i, r) ==
  /\ peerOf[e][i] = None
  /\ \A j \in Slot : peerOf[e][j] # r
  /\ peerOf' = [peerOf EXCEPT ![e][i] = r]

\* The slot is cleaned.
Release(e, i) ==
  /\ peerOf[e][i] # None
  /\ peerOf' = [peerOf EXCEPT ![e][i] = None]

\* A step changes the table, in one of the two ways.
Next ==
  /\ peerOf' # peerOf
  /\ \E e \in Endpoint, i \in Slot :
       \/ \E r \in Endpoint \ {e} : Reserve(e, i, r)
       \/ Release(e, i)

Spec == Init /\ [][Next]_peerOf
=============================================================================
