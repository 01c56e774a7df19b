--------------------------- MODULE KoiUnreliable ----------------------------
(***************************************************************************)
(* One direction of the unreliable channel of koichan.h.  A packet gets a  *)
(* number and is sent as a QUIC datagram on both connections of the pair;  *)
(* MsQuic may lose and reorder datagrams.  The receiver hands a packet to  *)
(* the application if its number is the one it waits for.                  *)
(*                                                                         *)
(* The events of the two connections run on different threads, and the     *)
(* application sends and disconnects on threads of its own.  A step is     *)
(* what a thread does between two points where another may come in.        *)
(***************************************************************************)
EXTENDS Integers, Sequences

CONSTANTS
  Sender,         \* threads that call UnreliablePacketSend
  NumPackets,     \* UnreliablePacketSend is called with 1, 2, ..., NumPackets
  NumMod,         \* packet numbers count modulo this (2^32 in the code)
  MaxSendLength,  \* what DATAGRAM_STATE_CHANGED reported
  Length,         \* Length[p]: data.size() of packet p
  MayFail,        \* whether memory, a handle or a send may be missing or fail
  MayDisconnect   \* whether the receiver may call Disconnect

Packet == 1 .. NumPackets
Conn == {"peer", "self"}
Number == 0 .. NumMod - 1
HeaderLen == 4    \* bytes of the number before the data

ASSUME UnreliableAssumption ==
  /\ NumPackets \in Nat
  /\ NumMod \in Nat \ {0}
  /\ MaxSendLength \in Nat
  /\ Length \in [Packet -> Nat]
  /\ MayFail \in BOOLEAN /\ MayDisconnect \in BOOLEAN

VARIABLES
  called,    \* how many packets UnreliablePacketSend was called with
  nextSend,  \* NextSendPacket
  sending,   \* sending[t]: the packet of thread t, its number, where to send
  net,       \* net[c]: datagrams under way on connection c, <<number, packet>>
  ev,        \* ev[c]: the DATAGRAM_RECEIVED event under way on c, or NoEvent
  nextRecv,  \* NextRecvPacket
  delivered, \* the packets OnUnreliableReceive was called with
  chan       \* how far a Disconnect got: "open", "cleared", "expired"

senderVars == <<called, nextSend, sending>>
receiverVars == <<ev, nextRecv, delivered, chan>>
vars == <<senderVars, net, receiverVars>>

NotSending == [pc |-> "idle", pkt |-> 0, num |-> 0, to |-> {}]
NoEvent == <<>>

Init ==
  /\ called = 0 /\ nextSend = 0 /\ sending = [t \in Sender |-> NotSending]
  /\ net = [c \in Conn |-> {}]
  /\ ev = [c \in Conn |-> NoEvent] /\ nextRecv = 0
  /\ delivered = <<>> /\ chan = "open"

-----------------------------------------------------------------------------
(***************************************************************************)
(* UnreliablePacketSend.  NextSendPacket is neither locked nor atomic: two *)
(* threads may read it before either writes it back.                       *)
(***************************************************************************)
\* A packet that is too long is refused and takes no number.
Refuse(t) ==
  /\ sending[t].pc = "idle" /\ called < NumPackets
  /\ Length[called + 1] > MaxSendLength
  /\ called' = called + 1
  /\ UNCHANGED <<nextSend, sending, net, receiverVars>>

ReadNumber(t) ==
  /\ sending[t].pc = "idle" /\ called < NumPackets
  /\ Length[called + 1] <= MaxSendLength
  /\ called' = called + 1
  /\ sending' = [sending EXCEPT ![t] =
       [pc |-> "numbered", pkt |-> called + 1, num |-> nextSend, to |-> {}]]
  /\ UNCHANGED <<nextSend, net, receiverVars>>

\* Mutation of Succ: a wider counter.
SuccWider(n) == n + 1

\* uint32_t arithmetic on the counters
Succ(n) == (n + 1) % NumMod

\* NextSendPacket is written; then MakeBuffer, which may fail, and the copies
\* of the handles, which may be null.
WriteNumber(t) ==
  /\ sending[t].pc = "numbered"
  /\ nextSend' = Succ(sending[t].num)
  /\ \E H \in SUBSET Conn :
       /\ MayFail \/ H = Conn
       /\ sending' = [sending EXCEPT ![t].pc = "sending", ![t].to = H]
  /\ UNCHANGED <<called, net, receiverVars>>

\* DatagramSend on c: the datagram is the number and the data, and MsQuic
\* takes no more than MaxSendLength.
SendOn(t, c) ==
  LET d == <<sending[t].num, sending[t].pkt>>
  IN /\ sending[t].pc = "sending" /\ c \in sending[t].to
     /\ c = "peer" \/ "peer" \notin sending[t].to
     /\ sending' = [sending EXCEPT ![t].to = @ \ {c}]
     /\ \/ /\ Length[sending[t].pkt] + HeaderLen <= MaxSendLength
           /\ net' = [net EXCEPT ![c] = @ \cup {d}]
        \/ /\ MayFail \/ Length[sending[t].pkt] + HeaderLen > MaxSendLength
           /\ UNCHANGED net
     /\ UNCHANGED <<called, nextSend, receiverVars>>

EndSend(t) ==
  /\ sending[t].pc = "sending" /\ sending[t].to = {}
  /\ sending' = [sending EXCEPT ![t] = NotSending]
  /\ UNCHANGED <<called, nextSend, net, receiverVars>>

-----------------------------------------------------------------------------
Lose(c) ==
  /\ \E d \in net[c] : net' = [net EXCEPT ![c] = @ \ {d}]
  /\ UNCHANGED <<senderVars, receiverVars>>

(***************************************************************************)
(* DATAGRAM_RECEIVED.  The events of one connection come one by one.       *)
(***************************************************************************)
\* Up to recvLock, with a channel context that has not expired.
Arrive(c) ==
  /\ ev[c] = NoEvent /\ chan # "expired"
  /\ \E d \in net[c] : /\ ev' = [ev EXCEPT ![c] = d]
                       /\ net' = [net EXCEPT ![c] = @ \ {d}]
  /\ UNCHANGED <<senderVars, nextRecv, delivered, chan>>

\* With an expired one the connection is dropped: Reset.
ArriveExpired(c) ==
  /\ ev[c] = NoEvent /\ chan = "expired"
  /\ \E d \in net[c] : net' = [net EXCEPT ![c] = @ \ {d}]
  /\ nextRecv' = 0
  /\ UNCHANGED <<senderVars, ev, delivered, chan>>

\* Mutation of Awaited: whatever is not older than expected is taken.
AwaitedOrNewer(c) == ev[c][1] >= nextRecv

\* NextRecvPacket == packetNumber
Awaited(c) == ev[c][1] = nextRecv

\* Under recvLock; the application is called with it.
Take(c) ==
  /\ ev[c] # NoEvent /\ Awaited(c)
  /\ nextRecv' = Succ(nextRecv)
  /\ delivered' = Append(delivered, ev[c][2])
  /\ ev' = [ev EXCEPT ![c] = NoEvent]
  /\ UNCHANGED <<senderVars, net, chan>>

Drop(c) ==
  /\ ev[c] # NoEvent /\ ~Awaited(c)
  /\ ev' = [ev EXCEPT ![c] = NoEvent]
  /\ UNCHANGED <<senderVars, net, nextRecv, delivered, chan>>

\* Disconnect at the receiver: Reset clears the channels, then lets go of
\* ChannelContext.
ClearChannel ==
  /\ MayDisconnect /\ chan = "open"
  /\ nextRecv' = 0 /\ chan' = "cleared"
  /\ UNCHANGED <<senderVars, net, ev, delivered>>

\* The end of Reset, or the application destroys what ChannelContext points to.
ExpireContext ==
  /\ chan = "cleared" \/ (MayDisconnect /\ chan = "open")
  /\ chan' = "expired"
  /\ UNCHANGED <<senderVars, net, ev, nextRecv, delivered>>

-----------------------------------------------------------------------------
Send(t) ==
  \/ Refuse(t) \/ ReadNumber(t) \/ WriteNumber(t) \/ EndSend(t)
  \/ \E c \in Conn : SendOn(t, c)

Receive(c) == Arrive(c) \/ ArriveExpired(c) \/ Take(c) \/ Drop(c)

Next ==
  \/ \E t \in Sender : Send(t)
  \/ \E c \in Conn : Lose(c) \/ Receive(c)
  \/ ClearChannel \/ ExpireContext

Spec == Init /\ [][Next]_vars

-----------------------------------------------------------------------------
TypeOK ==
  /\ called \in 0 .. NumPackets
  /\ nextSend \in Number /\ nextRecv \in Number
  /\ sending \in [Sender -> [pc : {"idle", "numbered", "sending"},
                             pkt : 0 .. NumPackets, num : Number,
                             to : SUBSET Conn]]
  /\ net \in [Conn -> SUBSET (Number \X Packet)]
  /\ ev \in [Conn -> {NoEvent} \cup (Number \X Packet)]
  /\ delivered \in Seq(Packet)
  /\ chan \in {"open", "cleared", "expired"}

(***************************************************************************)
(* With one sending thread, and until the receiver resets its channel, it  *)
(* is handed what was sent, once and in the order it was sent, though      *)
(* every packet arrives on two connections, early, late or not at all, and *)
(* some took a number and were never sent (DATAGRAM_RECEIVED).             *)
(***************************************************************************)
Newest == IF delivered = <<>> THEN 0 ELSE delivered[Len(delivered)]

Channel == INSTANCE PacketChannel WITH calls <- called, last <- Newest

ChannelUntilReset ==
  Channel!Init /\ [][chan' = "open" => [Channel!Next]_<<called, Newest>>]_vars

(***************************************************************************)
(* No packet is handed over twice before the receiver resets its channel,  *)
(* though it comes on two connections and whichever threads send: two of   *)
(* them may give two packets one number, of which then one is taken, but   *)
(* no packet has two numbers (UnreliablePacketSend, DATAGRAM_RECEIVED).    *)
(***************************************************************************)
EachOnce ==
  chan = "open" =>
    \A i, j \in 1 .. Len(delivered) : i # j => delivered[i] # delivered[j]

(***************************************************************************)
(* koichan.h:14: "UDP-like channel that is unreliable. The data sent from  *)
(* this channel will not re-transmit when drop packet".  So a packet that  *)
(* arrives, newer than all that were delivered and with no older one under *)
(* way, is handed over.                                                    *)
(***************************************************************************)
UnderWay == UNION {net[c] \cup ({ev[c]} \ {NoEvent}) : c \in Conn}

NewerIsDelivered ==
  [][\A c \in Conn :
       /\ ev[c] # NoEvent /\ ev'[c] = NoEvent
       /\ chan = "open"
       /\ Newest < ev[c][2]
       /\ \A d \in UnderWay : d[2] >= ev[c][2]
       => delivered' # delivered]_vars
=============================================================================
