--------------------------- MODULE KoiSendBuffer ----------------------------
(***************************************************************************)
(* The RawBuffer of a packet, koichan.h: allocated by a send, lent to      *)
(* MsQuic once for every connection it is sent on, counted in RefCount,    *)
(* and deleted by whoever is last.  The sender is still in its loop when   *)
(* MsQuic, on threads of its own, is already done with the first loan.     *)
(***************************************************************************)
EXTENDS Integers, FiniteSets

CONSTANTS
  Packet,      \* packets; each is sent once, with a RawBuffer of its own
  Reliable,    \* those that ReliablePacketSend sends, over streams; the others
               \* are sent by UnreliablePacketSend, over connections
  Failing,     \* those whose StreamSend or DatagramSend may fail
  Cancelable   \* those that MsQuic may cancel after it has taken them

Handle == {"peer", "self"}

ASSUME SendBufferAssumption ==
  /\ Reliable \subseteq Packet /\ Failing \subseteq Packet
  /\ Cancelable \subseteq Packet \ Reliable   \* SEND_COMPLETE ends every loan

VARIABLES
  pc,      \* pc[p]: where the thread is that sends p
  to,      \* to[p]: the handles p is still to be sent on
  lent,    \* lent[p]: the handles MsQuic has p from and will report about
  refs,    \* refs[p]: RefCount
  sent,    \* sent[p]: a send of p succeeded
  frees    \* frees[p]: how often the RawBuffer was deleted

vars == <<pc, to, lent, refs, sent, frees>>

Init ==
  /\ pc = [p \in Packet |-> "idle"]
  /\ to = [p \in Packet |-> {}] /\ lent = [p \in Packet |-> {}]
  /\ refs = [p \in Packet |-> 0]
  /\ sent = [p \in Packet |-> FALSE]
  /\ frees = [p \in Packet |-> 0]

\* Mutation of CountAll: RefCount is incremented once, not for every handle.
CountOne(H) == IF H = {} THEN 0 ELSE 1

\* The first loop
CountAll(H) == Cardinality(H)

\* The buffer is made and the handles that are not null are counted; nobody
\* else knows of it yet.
Begin(p) ==
  /\ pc[p] = "idle"
  /\ \E H \in SUBSET Handle :
       /\ to' = [to EXCEPT ![p] = H]
       /\ refs' = [refs EXCEPT ![p] = CountAll(H)]
  /\ pc' = [pc EXCEPT ![p] = "sending"]
  /\ UNCHANGED <<lent, sent, frees>>

\* One round of the second loop: StreamSend or DatagramSend on h.
SendOn(p, h) ==
  /\ pc[p] = "sending"
  /\ h \in to[p] /\ (h = "peer" \/ "peer" \notin to[p])
  /\ to' = [to EXCEPT ![p] = @ \ {h}]
  /\ \/ /\ lent' = [lent EXCEPT ![p] = @ \cup {h}]
        /\ sent' = [sent EXCEPT ![p] = TRUE]
     \/ /\ p \in Failing
        /\ UNCHANGED <<lent, sent>>
  /\ UNCHANGED <<pc, refs, frees>>

\* Mutation of Unsent: the sender always deletes the buffer.
UnsentAlways(p) == TRUE

\* Mutation of Unsent: the sender relies on the handlers to delete the buffer.
UnsentNever(p) == FALSE

Unsent(p) == ~sent[p]

End(p) ==
  /\ pc[p] = "sending" /\ to[p] = {}
  /\ pc' = [pc EXCEPT ![p] = "done"]
  /\ frees' = [frees EXCEPT ![p] = IF Unsent(p) THEN @ + 1 ELSE @]
  /\ UNCHANGED <<to, lent, refs, sent>>

\* Mutation of Last: a reference too few is waited for.
LastButOne(p) == refs[p] = 2

Last(p) == refs[p] = 1

\* --RefCount == 0
Drop(p) ==
  /\ refs' = [refs EXCEPT ![p] = @ - 1]
  /\ frees' = [frees EXCEPT ![p] = IF Last(p) THEN @ + 1 ELSE @]

\* SEND_COMPLETE, once for every StreamSend that succeeded, or
\* DATAGRAM_SEND_STATE_CHANGED with the state QUIC_DATAGRAM_SEND_SENT
SendComplete(p, h) ==
  /\ h \in lent[p]
  /\ lent' = [lent EXCEPT ![p] = @ \ {h}]
  /\ Drop(p)
  /\ UNCHANGED <<pc, to, sent>>

\* DATAGRAM_SEND_STATE_CHANGED with the state QUIC_DATAGRAM_SEND_CANCELED
Canceled(p, h) ==
  /\ p \in Cancelable
  /\ h \in lent[p]
  /\ lent' = [lent EXCEPT ![p] = @ \ {h}]
  /\ UNCHANGED <<pc, to, refs, sent, frees>>

Next ==
  \E p \in Packet :
    \/ Begin(p) \/ End(p)
    \/ \E h \in Handle : SendOn(p, h) \/ SendComplete(p, h) \/ Canceled(p, h)

Spec == Init /\ [][Next]_vars

(***************************************************************************)
(* A send goes on once it has begun, and MsQuic reports about every buffer *)
(* it took.                                                                *)
(***************************************************************************)
Fairness ==
  \A p \in Packet :
    /\ WF_vars(End(p) \/ \E h \in Handle : SendOn(p, h))
    /\ WF_vars(\E h \in Handle : SendComplete(p, h) \/ Canceled(p, h))

FairSpec == Spec /\ Fairness

-----------------------------------------------------------------------------
TypeOK ==
  /\ pc \in [Packet -> {"idle", "sending", "done"}]
  /\ to \in [Packet -> SUBSET Handle]
  /\ lent \in [Packet -> SUBSET Handle]
  /\ refs \in [Packet -> 0 .. 2]
  /\ sent \in [Packet -> BOOLEAN]
  /\ frees \in [Packet -> Nat]

(***************************************************************************)
(* A buffer is not deleted while the sender's loop still has to hand it    *)
(* out or MsQuic still has it, though the first loan may be over before    *)
(* the second send is made (ReliablePacketSend, UnreliablePacketSend and   *)
(* the two handlers that delete).                                          *)
(***************************************************************************)
NoUseAfterFree ==
  \A p \in Packet :
    (pc[p] = "sending" /\ to[p] # {}) \/ lent[p] # {} => frees[p] = 0

(***************************************************************************)
(* No buffer is deleted twice, by the sender that found every send failing *)
(* and by a handler, or by the handlers of both connections.               *)
(***************************************************************************)
FreedOnce == \A p \in Packet : frees[p] <= 1

(***************************************************************************)
(* A buffer that neither the sender nor MsQuic has any more is deleted:    *)
(* whichever of them was last saw that it was.  This is so of those whose  *)
(* sends all failed, or all succeeded and were not cancelled               *)
(* (ReliablePacketSend, UnreliablePacketSend and the two handlers).        *)
(***************************************************************************)
DoneMeansFreed ==
  \A p \in Packet :
    pc[p] = "done" /\ lent[p] = {} /\ (sent[p] => p \notin Failing \cup Cancelable)
      => frees[p] = 1

(***************************************************************************)
(* Every buffer is deleted in the end, whichever of the sender, the two    *)
(* handlers and their loans comes last, unless one of its sends may fail   *)
(* or a datagram may be cancelled: koichan.h:194 "We delete it in the      *)
(* handler of QUIC_STREAM_EVENT_SEND_COMPLETE", koichan.h:244 "We delete   *)
(* it in the handler of QUIC_CONNECTION_EVENT_DATAGRAM_SEND_STATE_CHANGED".*)
(* Those that may fail or be cancelled need not be: their counts are not   *)
(* taken back.                                                             *)
(***************************************************************************)
FreedUnlessLeaked ==
  \A p \in Packet \ (Failing \cup Cancelable) :
    pc[p] # "idle" ~> frees[p] = 1
=============================================================================
