--------------------------- MODULE PacketChannel ----------------------------
(***************************************************************************)
(* What an unreliable channel promises to the application ("UDP-like       *)
(* channel that is unreliable", koichan.h): packets may be lost, but a     *)
(* packet that is handed over was sent, is handed over once, and never     *)
(* after a newer one.                                                      *)
(***************************************************************************)
EXTENDS Naturals

VARIABLES calls,  \* packets the sender was called with: 1, 2, ..., calls
          last    \* the newest packet handed to the receiver, 0 if none

Init == calls = 0 /\ last = 0

Send == calls' = calls + 1 /\ UNCHANGED last

Deliver ==
  /\ last' \in last + 1 .. calls
  /\ UNCHANGED calls

Next == Send \/ Deliver

Spec == Init /\ [][Next]_<<calls, last>>
=============================================================================
