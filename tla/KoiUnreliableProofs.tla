------------------------- MODULE KoiUnreliableProofs ------------------------
(***************************************************************************)
(* Proofs about KoiUnreliable: its types, and that with one sending thread *)
(* and fewer packets than there are numbers it implements PacketChannel    *)
(* until the receiver is reset, whatever the connections lose, delay and   *)
(* reorder and whichever sends fail.                                       *)
(***************************************************************************)
EXTENDS KoiUnreliable, TLAPS

Datagram == Number \X Packet
Sending == [pc : {"idle", "numbered", "sending"}, pkt : 0 .. NumPackets,
            num : Number, to : SUBSET Conn]

LEMMA SuccRange ==
  ASSUME NEW n \in Number
  PROVE  Succ(n) \in Number
  BY UnreliableAssumption DEF Number, Succ

LEMMA SuccSmall ==
  ASSUME NEW n \in Nat, n + 1 < NumMod
  PROVE  Succ(n) = n + 1
  BY UnreliableAssumption DEF Succ

\* A sender that is not idle has a packet.
HasPacket == \A t \in Sender : sending[t].pc # "idle" => sending[t].pkt \in Packet

Typed == TypeOK /\ HasPacket

LEMMA InitTyped == Init => Typed
<1> SUFFICES ASSUME Init PROVE Typed
  OBVIOUS
<1>1. 0 \in Number /\ 0 \in 0 .. NumPackets
  BY UnreliableAssumption DEF Number
<1>2. NotSending \in Sending
  BY <1>1 DEF NotSending, Sending
<1> QED
  BY <1>1, <1>2 DEF Init, Typed, TypeOK, HasPacket, Sending, NotSending

LEMMA SendTyped ==
  ASSUME Typed, NEW t \in Sender, Send(t)
  PROVE  Typed'
<1> USE DEF Typed, HasPacket
<1>0. NumPackets \in Nat /\ sending \in [Sender -> Sending]
  BY UnreliableAssumption DEF TypeOK, Sending
<1>1. CASE Refuse(t)
  BY <1>0, <1>1 DEF Refuse, TypeOK, receiverVars
<1>2. CASE ReadNumber(t)
  <2>1. called' \in 0 .. NumPackets /\ called + 1 \in Packet
    BY <1>0, <1>2 DEF ReadNumber, TypeOK, Packet
  <2>2. [pc |-> "numbered", pkt |-> called + 1, num |-> nextSend, to |-> {}] \in Sending
    BY <2>1 DEF Sending, TypeOK, Packet
  <2>3. sending' \in [Sender -> Sending]
    BY <1>0, <1>2, <2>2 DEF ReadNumber
  <2> QED
    BY <1>0, <1>2, <2>1, <2>3 DEF ReadNumber, TypeOK, receiverVars, Sending
<1>3. CASE WriteNumber(t)
  <2>1. PICK H \in SUBSET Conn :
          sending' = [sending EXCEPT ![t].pc = "sending", ![t].to = H]
    BY <1>3 DEF WriteNumber
  <2>2. sending' \in [Sender -> Sending]
    BY <1>0, <2>1 DEF Sending
  <2>3. nextSend' \in Number
    BY <1>0, <1>3, SuccRange DEF WriteNumber, Sending
  <2>4. HasPacket'
    BY <1>0, <1>3, <2>1 DEF WriteNumber, Sending
  <2> QED
    BY <1>3, <2>2, <2>3, <2>4 DEF WriteNumber, TypeOK, receiverVars, Sending
<1>4. ASSUME NEW c \in Conn, SendOn(t, c) PROVE Typed'
  <2>1. sending' = [sending EXCEPT ![t].to = @ \ {c}]
    BY <1>4 DEF SendOn
  <2>2. sending' \in [Sender -> Sending] /\ HasPacket'
    BY <1>0, <2>1 DEF Sending
  <2>3. <<sending[t].num, sending[t].pkt>> \in Datagram
    BY <1>0, <1>4 DEF SendOn, Sending, Datagram
  <2>4. net' \in [Conn -> SUBSET Datagram]
    BY <1>4, <2>3, SMTT(30) DEF SendOn, TypeOK, Datagram
  <2> QED
    BY <1>4, <2>2, <2>4 DEF SendOn, TypeOK, receiverVars, Sending, Datagram
<1>5. CASE EndSend(t)
  <2>1. NotSending \in Sending
    BY UnreliableAssumption DEF NotSending, Sending, Number
  <2>2. sending' \in [Sender -> Sending] /\ HasPacket'
    BY <1>0, <1>5, <2>1 DEF EndSend, NotSending
  <2> QED
    BY <1>5, <2>2 DEF EndSend, TypeOK, receiverVars, Sending
<1> QED
  BY <1>1, <1>2, <1>3, <1>4, <1>5 DEF Send

LEMMA ReceiveTyped ==
  ASSUME Typed, NEW c \in Conn, Lose(c) \/ Receive(c)
  PROVE  Typed'
<1> USE DEF Typed, HasPacket, TypeOK, senderVars
<1>1. CASE Lose(c)
  BY <1>1 DEF Lose, receiverVars
<1>2. CASE Arrive(c)
  BY <1>2 DEF Arrive
<1>3. CASE ArriveExpired(c)
  BY <1>3, UnreliableAssumption DEF ArriveExpired, Number
<1>4. CASE Take(c)
  <2>1. ev[c][2] \in Packet /\ nextRecv' \in Number
    BY <1>4, SuccRange DEF Take
  <2> QED
    BY <1>4, <2>1 DEF Take
<1>5. CASE Drop(c)
  BY <1>5 DEF Drop
<1> QED
  BY <1>1, <1>2, <1>3, <1>4, <1>5 DEF Receive

LEMMA NextTyped == Typed /\ [Next]_vars => Typed'
<1> SUFFICES ASSUME Typed, [Next]_vars PROVE Typed'
  OBVIOUS
<1>1. CASE ClearChannel \/ ExpireContext
  BY <1>1, UnreliableAssumption
     DEF ClearChannel, ExpireContext, Typed, TypeOK, HasPacket, senderVars, Number
<1>2. CASE UNCHANGED vars
  BY <1>2 DEF vars, senderVars, receiverVars, Typed, TypeOK, HasPacket
<1> QED
  BY <1>1, <1>2, SendTyped, ReceiveTyped DEF Next

(***************************************************************************)
(* The variables keep their types; the counters wrap around                *)
(* (UnreliablePacketSend, DATAGRAM_RECEIVED).                              *)
(***************************************************************************)
THEOREM TypeCorrect == Spec => []TypeOK
<1>1. Typed => TypeOK
  BY DEF Typed
<1> QED
  BY <1>1, InitTyped, NextTyped, PTL DEF Spec

-----------------------------------------------------------------------------
(***************************************************************************)
(* The refinement.  Two threads may take one number, and numbers that wrap *)
(* around come back, so it needs a single sender and few packets.          *)
(***************************************************************************)
OneSender == \A s, t \in Sender : s = t
FewPackets == NumPackets < NumMod

InHand(t) == <<sending[t].num, sending[t].pkt>>

\* The datagrams that may still reach the application.
Out == {d \in Datagram :
          \/ \E c \in Conn : d \in net[c] \/ ev[c] = d
          \/ \E t \in Sender : sending[t].pc # "idle" /\ d = InHand(t)}

\* Numbers grow with packets.
Ordered == \A d, e \in Out : /\ d[1] < e[1] => d[2] < e[2]
                             /\ d[1] = e[1] => d[2] = e[2]

\* The numbers that are taken are those below NextSendPacket, and the one
\* of a thread that did not write it back yet.
Taken == \A d \in Out :
  /\ d[2] <= called
  /\ \/ d[1] < nextSend
     \/ /\ d[1] = nextSend
        /\ \E t \in Sender : sending[t].pc = "numbered"

Counted ==
  /\ nextSend <= called
  /\ \A t \in Sender : sending[t].pc = "numbered" =>
       sending[t].num = nextSend /\ nextSend < called

\* What the application was handed is older than what it may yet be handed.
Ahead == chan = "open" =>
  /\ Newest \in 0 .. called
  /\ \A d \in Out : d[1] >= nextRecv => Newest < d[2]

Inv == Typed /\ Ordered /\ Taken /\ Counted /\ Ahead

LEMMA NewestRange ==
  ASSUME Typed
  PROVE  Newest \in 0 .. NumPackets
  BY UnreliableAssumption DEF Typed, TypeOK, Newest, Packet

LEMMA InitInv == Init => Inv
<1> SUFFICES ASSUME Init PROVE Inv
  OBVIOUS
<1>1. Out = {}
  BY DEF Init, Out, Datagram, NotSending, NoEvent
<1>2. Newest = 0
  BY DEF Init, Newest
<1> QED
  BY <1>1, <1>2, InitTyped DEF Init, Inv, Ordered, Taken, Counted, Ahead, NotSending

\* A step that adds no datagram, no number and no packet, and is no Take.
Quiet ==
  /\ Out' \subseteq Out
  /\ UNCHANGED <<called, nextSend>>
  /\ \A t \in Sender : /\ sending'[t].pc = "numbered" <=> sending[t].pc = "numbered"
                       /\ sending'[t].num = sending[t].num
                          \/ sending[t].pc # "numbered"
  /\ chan' = "open" => chan = "open" /\ UNCHANGED <<nextRecv, delivered>>

LEMMA QuietInv ==
  ASSUME Inv, Typed', Quiet
  PROVE  Inv'
<1>1. Ordered' /\ Taken' /\ Counted'
  BY DEF Inv, Quiet, Ordered, Taken, Counted
<1>2. Ahead'
  BY DEF Inv, Quiet, Ahead, Newest
<1> QED
  BY <1>1, <1>2 DEF Inv

LEMMA ReadNumberInv ==
  ASSUME Inv, Typed', OneSender, FewPackets, NEW t \in Sender, ReadNumber(t)
  PROVE  Inv'
<1> DEFINE new == <<nextSend, called + 1>>
<1>0. called \in Nat /\ nextSend \in Nat /\ nextRecv \in Nat /\ Sender = {t}
  BY UnreliableAssumption DEF Inv, Typed, TypeOK, Number, OneSender
<1>1. sending' = [sending EXCEPT ![t] =
         [pc |-> "numbered", pkt |-> called + 1, num |-> nextSend, to |-> {}]]
      /\ called' = called + 1 /\ UNCHANGED <<nextSend, net, receiverVars>>
      /\ sending[t].pc = "idle" /\ sending \in [Sender -> Sending]
  BY DEF ReadNumber, Inv, Typed, TypeOK, Sending
<1>2. sending'[t].pc = "numbered" /\ sending'[t].num = nextSend /\ InHand(t)' = new
  BY <1>1 DEF InHand
<1>3. \A d \in Out' : d \in Out \/ d = new
  BY <1>0, <1>1, <1>2 DEF Out, receiverVars
<1>4. \A d \in Out : d \in Datagram /\ d[1] < nextSend /\ d[2] <= called
  BY <1>0, <1>1 DEF Inv, Taken, Out
<1>5. \A d \in Out : d[1] \in Nat /\ d[2] \in Nat
  BY <1>4, UnreliableAssumption DEF Datagram, Number, Packet
<1>6. Ordered'
  BY <1>0, <1>3, <1>4, <1>5 DEF Inv, Ordered
<1>7. Taken'
  BY <1>0, <1>1, <1>2, <1>3, <1>4, <1>5 DEF Taken
<1>8. Counted'
  BY <1>0, <1>1, <1>2 DEF Inv, Counted
<1>9. Ahead'
  BY <1>0, <1>1, <1>3 DEF Inv, Ahead, Newest, receiverVars
<1> QED
  BY <1>6, <1>7, <1>8, <1>9 DEF Inv

LEMMA WriteNumberInv ==
  ASSUME Inv, Typed', OneSender, FewPackets, NEW t \in Sender, WriteNumber(t)
  PROVE  Inv' /\ UNCHANGED <<called, Newest, chan>>
<1>0. called \in 0 .. NumPackets /\ nextSend \in Nat /\ Sender = {t}
      /\ sending \in [Sender -> Sending] /\ NumPackets \in Nat /\ NumMod \in Nat
  BY UnreliableAssumption DEF Inv, Typed, TypeOK, Number, OneSender, Sending
<1>1. PICK H \in SUBSET Conn :
        sending' = [sending EXCEPT ![t].pc = "sending", ![t].to = H]
  BY DEF WriteNumber
<1>2. sending[t].pc = "numbered" /\ nextSend' = Succ(sending[t].num)
      /\ UNCHANGED <<called, net, receiverVars>>
  BY DEF WriteNumber
<1>3. sending'[t].pc = "sending" /\ InHand(t)' = InHand(t)
  BY <1>0, <1>1 DEF InHand, Sending
<1>4. Out' = Out
  BY <1>0, <1>2, <1>3 DEF Out, receiverVars
<1>5. nextSend' = nextSend + 1 /\ nextSend + 1 <= called
  <2>1. sending[t].num = nextSend /\ nextSend + 1 <= called
    BY <1>0, <1>2 DEF Inv, Counted
  <2>2. nextSend + 1 < NumMod
    BY <1>0, <2>1 DEF FewPackets
  <2> QED
    BY <1>0, <1>2, <2>1, <2>2, SuccSmall
<1>6. \A d \in Out : d[1] \in Nat /\ d[2] \in Nat
  BY UnreliableAssumption DEF Out, Datagram, Number, Packet
<1>7. Ordered' /\ Taken'
  BY <1>0, <1>2, <1>4, <1>5, <1>6 DEF Inv, Ordered, Taken
<1>8. Counted'
  BY <1>0, <1>2, <1>3, <1>5 DEF Counted
<1>9. Ahead' /\ UNCHANGED <<called, Newest, chan>>
  BY <1>2, <1>4 DEF Inv, Ahead, Newest, receiverVars
<1> QED
  BY <1>7, <1>8, <1>9 DEF Inv

LEMMA TakeInv ==
  ASSUME Inv, Typed', FewPackets, NEW c \in Conn, Take(c)
  PROVE  Inv' /\ (chan' = "open" => Channel!Deliver)
<1> DEFINE e == ev[c]
<1>0. called \in 0 .. NumPackets /\ nextSend \in Nat /\ nextRecv \in Nat
      /\ NumPackets \in Nat /\ NumMod \in Nat
  BY UnreliableAssumption DEF Inv, Typed, TypeOK, Number
<1>1. e \in Out /\ e[1] = nextRecv
  BY DEF Inv, Typed, TypeOK, Take, Awaited, Out, Datagram
<1>2. \A d \in Out : d[1] \in Nat /\ d[2] \in Nat
  BY UnreliableAssumption DEF Out, Datagram, Number, Packet
<1>3. Out' \subseteq Out
  BY DEF Take, Out, senderVars, Inv, Typed, TypeOK, InHand, Datagram, NoEvent
<1>4. Newest' = e[2]
  BY <1>1 DEF Take, Newest, Inv, Typed, TypeOK
<1>5. nextRecv' = nextRecv + 1
  <2>1. nextRecv + 1 <= called
    BY <1>0, <1>1, <1>2 DEF Inv, Taken, Counted
  <2> QED
    BY <1>0, <2>1, SuccSmall DEF Take, FewPackets
<1>6. Ordered' /\ Taken' /\ Counted'
  BY <1>3 DEF Inv, Ordered, Taken, Counted, Take, senderVars
<1>7. ASSUME chan = "open"
      PROVE  Newest < e[2] /\ e[2] <= called /\ Newest \in 0 .. called
  BY <1>0, <1>1, <1>7 DEF Inv, Ahead, Taken
<1>8. Ahead'
  <2> SUFFICES ASSUME chan = "open"
               PROVE  /\ e[2] \in 0 .. called
                      /\ \A d \in Out : d[1] >= nextRecv + 1 => e[2] < d[2]
    BY <1>3, <1>4, <1>5 DEF Ahead, Take, senderVars
  <2>1. e[2] \in 0 .. called
    BY <1>0, <1>1, <1>2, <1>7
  <2>2. \A d \in Out : d[1] >= nextRecv + 1 => e[2] < d[2]
    BY <1>0, <1>1, <1>2 DEF Inv, Ordered
  <2> QED
    BY <2>1, <2>2
<1>9. chan' = "open" => Channel!Deliver
  BY <1>0, <1>1, <1>2, <1>4, <1>7 DEF Channel!Deliver, Take, senderVars
<1> QED
  BY <1>6, <1>8, <1>9 DEF Inv

\* The steps of the implementation are steps of the channel, or no steps.
Step == chan' = "open" => [Channel!Next]_<<called, Newest>>

LEMMA QuietStep ==
  ASSUME Quiet
  PROVE  Step
  BY DEF Quiet, Step, Newest

LEMMA SendStep ==
  ASSUME Inv, Typed', OneSender, FewPackets, NEW t \in Sender, Send(t)
  PROVE  Inv' /\ Step
<1>1. CASE Refuse(t)
  <2>1. Out' = Out /\ called' = called + 1 /\ UNCHANGED <<nextSend, sending, receiverVars>>
    BY <1>1 DEF Refuse, Out, InHand, receiverVars
  <2>2. called \in Nat /\ nextSend \in Nat
    BY UnreliableAssumption DEF Inv, Typed, TypeOK, Number
  <2>3. \A d \in Out : d[1] \in Nat /\ d[2] \in Nat
    BY UnreliableAssumption DEF Out, Datagram, Number, Packet
  <2>4. Inv'
    BY <2>1, <2>2, <2>3
       DEF Inv, Ordered, Taken, Counted, Ahead, Newest, receiverVars
  <2> QED
    BY <2>1, <2>4 DEF Step, Channel!Next, Channel!Send, Newest, receiverVars
<1>2. CASE ReadNumber(t)
  <2>1. Inv'
    BY <1>2, ReadNumberInv
  <2> QED
    BY <1>2, <2>1 DEF ReadNumber, Step, Channel!Next, Channel!Send, Newest, receiverVars
<1>3. CASE WriteNumber(t)
  BY <1>3, WriteNumberInv DEF Step
<1>4. ASSUME NEW c \in Conn, SendOn(t, c) PROVE Inv' /\ Step
  <2>0. sending \in [Sender -> Sending] /\ net \in [Conn -> SUBSET Datagram]
    BY DEF Inv, Typed, TypeOK, Sending, Datagram
  <2>1. sending' = [sending EXCEPT ![t].to = @ \ {c}] /\ sending[t].pc = "sending"
        /\ UNCHANGED <<called, nextSend, receiverVars>>
    BY <1>4 DEF SendOn
  <2>2. \A s \in Sender : /\ sending'[s].pc = sending[s].pc
                          /\ sending'[s].num = sending[s].num
                          /\ sending'[s].pkt = sending[s].pkt
    BY <2>0, <2>1 DEF Sending
  <2>3. \A k \in Conn : net'[k] \subseteq net[k] \cup {InHand(t)}
    BY <1>4, <2>0 DEF SendOn, InHand
  <2>4. Out' \subseteq Out
    BY <2>1, <2>2, <2>3 DEF Out, InHand, receiverVars
  <2>5. Quiet
    BY <2>1, <2>2, <2>4 DEF Quiet, receiverVars
  <2> QED
    BY <2>5, QuietInv, QuietStep
<1>5. CASE EndSend(t)
  <2>0. sending \in [Sender -> Sending]
    BY DEF Inv, Typed, TypeOK, Sending
  <2>1. \A s \in Sender : \/ sending'[s] = sending[s]
                          \/ s = t /\ sending'[s].pc = "idle" /\ sending[s].pc = "sending"
    BY <1>5, <2>0 DEF EndSend, NotSending
  <2>2. Out' \subseteq Out
    BY <1>5, <2>1 DEF EndSend, Out, InHand, receiverVars
  <2>3. Quiet
    BY <1>5, <2>1, <2>2 DEF EndSend, Quiet, receiverVars
  <2> QED
    BY <2>3, QuietInv, QuietStep
<1> QED
  BY <1>1, <1>2, <1>3, <1>4, <1>5 DEF Send

LEMMA ReceiveStep ==
  ASSUME Inv, Typed', FewPackets, NEW c \in Conn, Lose(c) \/ Receive(c)
  PROVE  Inv' /\ Step
<1>0. net \in [Conn -> SUBSET Datagram] /\ ev \in [Conn -> {NoEvent} \cup Datagram]
  BY DEF Inv, Typed, TypeOK, Datagram
<1>1. CASE Take(c)
  BY <1>1, TakeInv DEF Step, Channel!Next
<1>2. CASE Lose(c) \/ Arrive(c) \/ ArriveExpired(c) \/ Drop(c)
  <2>1. UNCHANGED <<called, nextSend, sending, delivered, chan>>
        /\ (chan = "open" => UNCHANGED nextRecv)
    BY <1>2 DEF Lose, Arrive, ArriveExpired, Drop, senderVars, receiverVars
  <2>2. \A k \in Conn, d \in Datagram :
          (d \in net'[k] \/ ev'[k] = d) => (d \in net[k] \/ ev[k] = d)
    BY <1>0, <1>2
       DEF Lose, Arrive, ArriveExpired, Drop, receiverVars, NoEvent, Datagram
  <2>3. Out' \subseteq Out
    BY <2>1, <2>2 DEF Out, InHand
  <2>4. Quiet
    BY <2>1, <2>3 DEF Quiet
  <2> QED
    BY <2>4, QuietInv, QuietStep
<1> QED
  BY <1>1, <1>2 DEF Receive

LEMMA NextStep ==
  ASSUME OneSender, FewPackets
  PROVE  Inv /\ [Next]_vars => Inv' /\ Step
<1> SUFFICES ASSUME Inv, [Next]_vars PROVE Inv' /\ Step
  OBVIOUS
<1>1. Typed'
  BY NextTyped DEF Inv
<1>2. CASE ClearChannel \/ ExpireContext
  <2>1. Quiet
    BY <1>2 DEF ClearChannel, ExpireContext, Quiet, Out, InHand, senderVars
  <2> QED
    BY <1>1, <2>1, QuietInv, QuietStep
<1>3. CASE UNCHANGED vars
  <2>1. Quiet
    BY <1>3 DEF vars, senderVars, receiverVars, Quiet, Out, InHand
  <2> QED
    BY <1>1, <2>1, QuietInv, QuietStep
<1> QED
  BY <1>1, <1>2, <1>3, SendStep, ReceiveStep DEF Next

(***************************************************************************)
(* With a single sender that sends fewer packets than there are numbers,   *)
(* the channel is a PacketChannel until the receiver is reset: what is     *)
(* handed over was sent, once, never after a newer packet                  *)
(* (UnreliablePacketSend, DATAGRAM_RECEIVED).                              *)
(***************************************************************************)
THEOREM ImplementsPacketChannel ==
  ASSUME OneSender, FewPackets
  PROVE  Spec => ChannelUntilReset
<1>1. Init => Channel!Init
  BY DEF Init, Channel!Init, Newest
<1>2. Inv /\ [Next]_vars => Inv'
  BY NextStep
<1>3. Inv /\ [Next]_vars => [Step]_vars
  BY NextStep
<1>4. Spec => [][Step]_vars
  BY <1>2, <1>3, InitInv, PTL DEF Spec
<1> QED
  BY <1>1, <1>4, PTL DEF Spec, ChannelUntilReset, Step
-----------------------------------------------------------------------------
(***************************************************************************)
(* Each once, for any number of senders.  What is under way of one packet  *)
(* has one number, and that is behind once the packet was handed over.     *)
(***************************************************************************)
OneNumber == \A d, e \in Out : d[2] = e[2] => d[1] = e[1]

\* No packet has a number as high as its own place; so no number wraps around.
Low == nextSend <= called /\ \A d \in Out : d[1] < d[2] /\ d[2] <= called

Behind == chan = "open" =>
  \A i \in 1 .. Len(delivered) :
    /\ delivered[i] <= called
    /\ \A d \in Out : d[2] = delivered[i] => d[1] < nextRecv

OnceInv == Typed /\ OneNumber /\ Low /\ Behind /\ EachOnce

LEMMA OutNat ==
  ASSUME NEW d \in Out
  PROVE  d[1] \in Nat /\ d[2] \in Nat
  BY UnreliableAssumption DEF Out, Datagram, Number, Packet

LEMMA DeliveredNat ==
  ASSUME Typed
  PROVE  Len(delivered) \in Nat /\ \A i \in 1 .. Len(delivered) : delivered[i] \in Nat
<1>1. delivered \in Seq(Packet)
  BY DEF Typed, TypeOK
<1>2. Len(delivered) \in Nat /\ \A i \in 1 .. Len(delivered) : delivered[i] \in Packet
  BY <1>1
<1> QED
  BY <1>2, UnreliableAssumption DEF Packet

LEMMA InitOnce == Init => OnceInv
<1> SUFFICES ASSUME Init PROVE OnceInv
  OBVIOUS
<1>1. Out = {}
  BY DEF Init, Out, Datagram, NotSending, NoEvent
<1>2. Len(delivered) = 0
  BY DEF Init
<1> QED
  BY <1>1, <1>2, InitTyped DEF Init, OnceInv, OneNumber, Low, Behind, EachOnce

\* The steps but ReadNumber and Take: no datagram is new, the senders' counters
\* stay low, and the receiver is as before or was reset.
Passive ==
  /\ Out' \subseteq Out
  /\ called' \in Nat /\ called' >= called /\ nextSend' <= called'
  /\ chan' = "open" => chan = "open" /\ UNCHANGED <<nextRecv, delivered>>

LEMMA PassiveOnce ==
  ASSUME OnceInv, Typed', Passive
  PROVE  OnceInv'
<1>0. called \in Nat
  BY UnreliableAssumption DEF OnceInv, Typed, TypeOK
<1>1. OneNumber'
  BY DEF OnceInv, Passive, OneNumber
<1>2. Low'
  BY <1>0, OutNat DEF OnceInv, Passive, Low
<1>3. Behind'
  BY <1>0, DeliveredNat DEF OnceInv, Passive, Behind
<1>4. EachOnce'
  BY DEF OnceInv, Passive, EachOnce
<1> QED
  BY <1>1, <1>2, <1>3, <1>4 DEF OnceInv

LEMMA ReadNumberOnce ==
  ASSUME OnceInv, Typed', NEW t \in Sender, ReadNumber(t)
  PROVE  OnceInv'
<1> DEFINE new == <<nextSend, called + 1>>
<1>0. called \in Nat /\ nextSend \in Nat /\ sending \in [Sender -> Sending]
  BY UnreliableAssumption DEF OnceInv, Typed, TypeOK, Number, Sending
<1>1. sending' = [sending EXCEPT ![t] =
         [pc |-> "numbered", pkt |-> called + 1, num |-> nextSend, to |-> {}]]
      /\ called' = called + 1 /\ UNCHANGED <<nextSend, net, receiverVars>>
  BY DEF ReadNumber
<1>2. \A s \in Sender : InHand(s)' = new \/ sending'[s] = sending[s]
  BY <1>0, <1>1 DEF InHand
<1>3. \A d \in Out' : d \in Out \/ d = new
  BY <1>1, <1>2 DEF Out, receiverVars, InHand
<1>4. \A d \in Out : d[1] < d[2] /\ d[2] <= called
  BY DEF OnceInv, Low
<1>5. OneNumber'
  BY <1>0, <1>3, <1>4, OutNat DEF OnceInv, OneNumber
<1>6. Low'
  BY <1>0, <1>1, <1>3, <1>4, OutNat DEF OnceInv, Low
<1>7. Behind'
  BY <1>0, <1>1, <1>3, DeliveredNat DEF OnceInv, Behind, receiverVars
<1>8. EachOnce'
  BY <1>1 DEF OnceInv, EachOnce, receiverVars
<1> QED
  BY <1>5, <1>6, <1>7, <1>8 DEF OnceInv

LEMMA TakeOnce ==
  ASSUME OnceInv, Typed', FewPackets, NEW c \in Conn, Take(c)
  PROVE  OnceInv'
<1> DEFINE e == ev[c]
<1>0. called \in 0 .. NumPackets /\ nextRecv \in Nat /\ NumPackets \in Nat /\ NumMod \in Nat
      /\ delivered \in Seq(Packet)
  BY UnreliableAssumption DEF OnceInv, Typed, TypeOK, Number
<1>1. e \in Out /\ e[1] = nextRecv /\ e[2] \in Packet
  BY DEF OnceInv, Typed, TypeOK, Take, Awaited, Out, Datagram
<1>2. Out' \subseteq Out
  BY DEF Take, Out, senderVars, OnceInv, Typed, TypeOK, InHand, Datagram, NoEvent
<1>3. e[1] < e[2] /\ e[2] <= called
  BY <1>1 DEF OnceInv, Low
<1>4. nextRecv' = nextRecv + 1
  <2>1. nextRecv + 1 < NumMod
    BY <1>0, <1>1, <1>3, OutNat DEF FewPackets
  <2> QED
    BY <1>0, <2>1, SuccSmall DEF Take
<1>5. /\ Len(delivered') = Len(delivered) + 1 /\ Len(delivered) \in Nat
      /\ \A i \in 1 .. Len(delivered) : delivered'[i] = delivered[i]
      /\ delivered'[Len(delivered) + 1] = e[2]
  BY <1>0, <1>1 DEF Take
<1>6. OneNumber' /\ Low'
  BY <1>2 DEF OnceInv, OneNumber, Low, Take, senderVars
<1>7. ASSUME chan' = "open" PROVE chan = "open"
  BY <1>7 DEF Take
<1>8. Behind'
  <2> SUFFICES ASSUME chan = "open", NEW i \in 1 .. Len(delivered) + 1
               PROVE  /\ delivered'[i] <= called
                      /\ \A d \in Out : d[2] = delivered'[i] => d[1] < nextRecv + 1
    BY <1>2, <1>4, <1>5, <1>7 DEF Behind, Take, senderVars
  <2>1. CASE i = Len(delivered) + 1
    BY <1>0, <1>1, <1>3, <1>5, <2>1 DEF OnceInv, OneNumber
  <2>2. CASE i \in 1 .. Len(delivered)
    BY <1>0, <1>5, <2>2, OutNat DEF OnceInv, Behind
  <2> QED
    BY <1>5, <2>1, <2>2
<1>9. EachOnce'
  <2> SUFFICES ASSUME chan = "open",
                      NEW i \in 1 .. Len(delivered) + 1, NEW j \in 1 .. Len(delivered) + 1,
                      i < j
               PROVE  delivered'[i] # delivered'[j]
    BY <1>5, <1>7 DEF EachOnce
  <2>1. CASE j = Len(delivered) + 1
    <3>1. i \in 1 .. Len(delivered)
      BY <1>5, <2>1
    <3>2. delivered[i] = e[2] => e[1] < nextRecv
      BY <1>1, <3>1 DEF OnceInv, Behind
    <3> QED
      BY <1>0, <1>1, <1>5, <2>1, <3>1, <3>2
  <2>2. CASE j \in 1 .. Len(delivered)
    <3>1. i \in 1 .. Len(delivered)
      BY <1>5, <2>2
    <3> QED
      BY <1>5, <2>2, <3>1 DEF OnceInv, EachOnce
  <2> QED
    BY <1>5, <2>1, <2>2
<1> QED
  BY <1>6, <1>8, <1>9 DEF OnceInv

\* All steps but ReadNumber, WriteNumber and Take: nothing is added to Out, and
\* no packet but one that is refused is called with.
LEMMA NothingAdded ==
  ASSUME Typed,
         \/ \E t \in Sender : Refuse(t) \/ EndSend(t) \/ \E c \in Conn : SendOn(t, c)
         \/ \E c \in Conn : Lose(c) \/ Arrive(c) \/ ArriveExpired(c) \/ Drop(c)
         \/ ClearChannel \/ ExpireContext \/ UNCHANGED vars
  PROVE  /\ Out' \subseteq Out
         /\ UNCHANGED nextSend
         /\ \A s \in Sender : sending'[s].pc = "numbered" <=> sending[s].pc = "numbered"
         /\ chan' = "open" => chan = "open" /\ UNCHANGED <<nextRecv, delivered>>
         /\ \/ called' = called
            \/ called' = called + 1 /\ called < NumPackets /\ Length[called + 1] > MaxSendLength
<1>0. net \in [Conn -> SUBSET Datagram] /\ ev \in [Conn -> {NoEvent} \cup Datagram]
      /\ sending \in [Sender -> Sending]
  BY DEF Typed, TypeOK, Datagram, Sending
<1>1. ASSUME NEW t \in Sender, Refuse(t) \/ EndSend(t) \/ \E c \in Conn : SendOn(t, c)
      PROVE  /\ UNCHANGED <<nextSend, receiverVars>>
             /\ \A s \in Sender :
                  \/ sending'[s].pc = "idle" /\ sending[s].pc # "numbered"
                  \/ /\ sending'[s].pc = sending[s].pc /\ InHand(s)' = InHand(s)
             /\ \A k \in Conn : net'[k] \subseteq
                  net[k] \cup {InHand(s) : s \in {r \in Sender : sending[r].pc # "idle"}}
  <2>1. CASE Refuse(t)
    BY <2>1 DEF Refuse, InHand
  <2>2. CASE EndSend(t)
    BY <1>0, <2>2 DEF EndSend, InHand, NotSending
  <2>3. ASSUME NEW c \in Conn, SendOn(t, c)
        PROVE  /\ \A s \in Sender : sending'[s].pc = sending[s].pc /\ InHand(s)' = InHand(s)
               /\ \A k \in Conn : net'[k] \subseteq net[k] \cup {InHand(t)}
               /\ sending[t].pc # "idle" /\ UNCHANGED <<nextSend, receiverVars>>
    <3>1. sending' = [sending EXCEPT ![t].to = @ \ {c}]
      BY <2>3 DEF SendOn
    <3>2. \A s \in Sender : sending'[s].pc = sending[s].pc /\ InHand(s)' = InHand(s)
      BY <1>0, <3>1 DEF InHand, Sending
    <3>3. \A k \in Conn : net'[k] \subseteq net[k] \cup {InHand(t)}
      BY <1>0, <2>3 DEF SendOn, InHand
    <3> QED
      BY <2>3, <3>2, <3>3 DEF SendOn
  <2> QED
    BY <1>1, <2>1, <2>2, <2>3
<1>2. ASSUME NEW c \in Conn, Lose(c) \/ Arrive(c) \/ ArriveExpired(c) \/ Drop(c)
      PROVE  /\ UNCHANGED <<called, nextSend, sending, delivered, chan>>
             /\ chan = "open" => UNCHANGED nextRecv
             /\ \A k \in Conn, d \in Datagram :
                  (d \in net'[k] \/ ev'[k] = d) => \E j \in Conn : d \in net[j] \/ ev[j] = d
  BY <1>0, <1>2 DEF Lose, Arrive, ArriveExpired, Drop, receiverVars, senderVars, NoEvent, Datagram
<1>3. CASE \E t \in Sender : Refuse(t) \/ EndSend(t) \/ \E c \in Conn : SendOn(t, c)
  <2>1. Out' \subseteq Out
    BY <1>1, <1>3 DEF Out, receiverVars
  <2>2. \/ called' = called
        \/ called' = called + 1 /\ called < NumPackets /\ Length[called + 1] > MaxSendLength
    BY <1>3 DEF Refuse, EndSend, SendOn
  <2> QED
    BY <1>1, <1>3, <2>1, <2>2 DEF receiverVars
<1>4. CASE \E c \in Conn : Lose(c) \/ Arrive(c) \/ ArriveExpired(c) \/ Drop(c)
  <2>1. Out' \subseteq Out
    BY <1>2, <1>4 DEF Out, InHand
  <2> QED
    BY <1>2, <1>4, <2>1
<1>5. CASE ClearChannel \/ ExpireContext \/ UNCHANGED vars
  BY <1>5 DEF ClearChannel, ExpireContext, vars, senderVars, receiverVars, Out, InHand
<1> QED
  BY <1>3, <1>4, <1>5

LEMMA OnceStep ==
  ASSUME FewPackets, OnceInv, [Next]_vars
  PROVE  OnceInv'
<1>0. Typed' /\ called \in Nat
  BY NextTyped, UnreliableAssumption DEF OnceInv, Typed, TypeOK
<1>1. ASSUME NEW t \in Sender, WriteNumber(t) PROVE OnceInv'
  <2>0. sending \in [Sender -> Sending] /\ NumPackets \in Nat /\ NumMod \in Nat
        /\ called \in 0 .. NumPackets
    BY UnreliableAssumption DEF OnceInv, Typed, TypeOK, Sending
  <2>1. PICK H \in SUBSET Conn :
          sending' = [sending EXCEPT ![t].pc = "sending", ![t].to = H]
    BY <1>1 DEF WriteNumber
  <2>2. \A s \in Sender : InHand(s)' = InHand(s)
                          /\ (sending'[s].pc # "idle" => sending[s].pc # "idle")
    BY <1>1, <2>0, <2>1 DEF InHand, Sending, WriteNumber
  <2>3. Out' = Out
    <3>1. UNCHANGED <<net, ev>> /\ sending'[t].pc = "sending"
          /\ \A s \in Sender \ {t} : sending'[s].pc = sending[s].pc
      BY <1>1, <2>0, <2>1 DEF WriteNumber, receiverVars, Sending
    <3> QED
      BY <1>1, <2>2, <3>1 DEF Out, WriteNumber
  <2>4. InHand(t) \in Out
    BY <1>1, <2>0 DEF WriteNumber, Out, InHand, Datagram, Sending, OnceInv, Typed, HasPacket
  <2>5. sending[t].num < called /\ sending[t].num \in Nat
    BY <2>0, <2>4, OutNat DEF InHand, OnceInv, Low
  <2>6. nextSend' <= called
    <3>1. sending[t].num + 1 < NumMod
      BY <2>0, <2>5 DEF FewPackets
    <3> QED
      BY <1>1, <2>0, <2>5, <3>1, SuccSmall DEF WriteNumber
  <2>7. Passive
    BY <1>0, <1>1, <2>3, <2>6 DEF Passive, WriteNumber, receiverVars
  <2> QED
    BY <1>0, <2>7, PassiveOnce
<1>2. ASSUME \/ \E t \in Sender : Refuse(t) \/ EndSend(t) \/ \E c \in Conn : SendOn(t, c)
             \/ \E c \in Conn : Lose(c) \/ Arrive(c) \/ ArriveExpired(c) \/ Drop(c)
             \/ ClearChannel \/ ExpireContext \/ UNCHANGED vars
      PROVE  OnceInv'
  <2>1. nextSend <= called /\ nextSend \in Nat
    BY UnreliableAssumption DEF OnceInv, Low, Typed, TypeOK, Number
  <2>2. Typed
    BY DEF OnceInv
  <2>3. Passive
    BY <1>0, <1>2, <2>1, <2>2, NothingAdded DEF Passive
  <2> QED
    BY <1>0, <2>3, PassiveOnce
<1> QED
  BY <1>0, <1>1, <1>2, ReadNumberOnce, TakeOnce DEF Next, Send, Receive

(***************************************************************************)
(* Whatever number of threads send, fewer packets than there are numbers   *)
(* are handed over once each, until the receiver is reset                  *)
(* (UnreliablePacketSend, DATAGRAM_RECEIVED).                              *)
(***************************************************************************)
THEOREM HandedOverOnce == FewPackets /\ Spec => []EachOnce
<1>1. SUFFICES ASSUME FewPackets PROVE Spec => []EachOnce
  OBVIOUS
<1>2. OnceInv /\ [Next]_vars => OnceInv'
  BY <1>1, OnceStep
<1>3. OnceInv => EachOnce
  BY DEF OnceInv
<1> QED
  BY <1>2, <1>3, InitOnce, PTL DEF Spec
=============================================================================
