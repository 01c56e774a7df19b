--------------------------- MODULE MessageChannel ---------------------------
(***************************************************************************)
(* What a reliable channel promises to the application ("TCP-like channel  *)
(* that is reliable", koichan.h): the receiver is given the messages that  *)
(* were accepted for sending, each once, whole and in order.               *)
(***************************************************************************)
EXTENDS Sequences, Naturals

CONSTANT Payload     \* what can be sent

VARIABLES accepted,  \* the payloads accepted so far
          delivered  \* the payloads handed to the receiver so far

Init == accepted = <<>> /\ delivered = <<>>

Accept ==
  /\ \E d \in Payload : accepted' = Append(accepted, d)
  /\ UNCHANGED delivered

Deliver ==
  /\ Len(delivered) < Len(accepted)
  /\ delivered' = Append(delivered, accepted[Len(delivered) + 1])
  /\ UNCHANGED accepted

Next == Accept \/ Deliver

Spec == Init /\ [][Next]_<<accepted, delivered>>
=============================================================================
