-------------------------- MODULE KoiReliableProofs --------------------------
(***************************************************************************)
(* Proofs about KoiReliable, for any number of sending threads and         *)
(* messages, and for all the ways events may be cut: its offsets, its      *)
(* types, and that it implements MessageChannel while the streams are      *)
(* mirrored.                                                               *)
(***************************************************************************)
EXTENDS KoiReliable, SequenceTheorems, TLAPS

(***************************************************************************)
(* As long as nothing was reset no stream has been read beyond             *)
(* NextRecvByte, and whoever holds RecvMutex put NextRecvByte to the end   *)
(* of its event.                                                           *)
(***************************************************************************)
OffsetsTyped ==
  /\ pos \in [Stream -> Nat] /\ ev \in [Stream -> Nat] /\ next \in Nat

NobodyAhead ==
  chan = "open" => holder # "deadlock" /\ \A s \in Stream : pos[s] <= next

IInv == OffsetsTyped /\ NobodyAhead /\ OffsetStands

LEMMA InitIInv == Init => IInv
  BY DEF Init, IInv, OffsetsTyped, NobodyAhead, OffsetStands, Stream, Idle

\* The steps that leave the receiver's state alone.
LEMMA ReceiverUnchanged ==
  ASSUME IInv, UNCHANGED receiverVars
  PROVE  IInv'
  BY DEF receiverVars, IInv, OffsetsTyped, NobodyAhead, OffsetStands

LEMMA ReceiveIInv ==
  ASSUME IInv, NEW s \in Stream, Receive(s)
  PROVE  IInv'
<1> USE DEF IInv, OffsetsTyped, NobodyAhead, OffsetStands, Idle
<1> "nobody" \notin Stream /\ "deadlock" \notin Stream
  BY DEF Stream
<1>1. CASE Indicate(s)
  <2>1. PICK n \in pos[s] + 1 .. Len(out[s]) : ev' = [ev EXCEPT ![s] = n]
    BY <1>1 DEF Indicate
  <2>2. n \in Nat /\ ev[s] = 0
    BY <1>1, <2>1 DEF Indicate
  <2>3. ASSUME holder \in Stream PROVE holder # s
    BY <2>2, <2>3
  <2> QED BY <1>1, <2>1, <2>2, <2>3 DEF Indicate
<1>2. CASE IndicateExpired(s)
  BY <1>2 DEF IndicateExpired
<1>3. CASE Skip(s)
  BY <1>3 DEF Skip, Done
<1>4. CASE Read(s)
  BY <1>4 DEF Read, NextAfter
<1>5. CASE ReadTooLate(s)
  BY <1>5 DEF ReadTooLate
<1>6. CASE Deliver(s)
  BY <1>6 DEF Deliver
<1>7. CASE EndReceive(s)
  BY <1>7 DEF EndReceive, Done
<1> QED BY <1>1, <1>2, <1>3, <1>4, <1>5, <1>6, <1>7 DEF Receive

LEMMA NextIInv == IInv /\ [Next]_vars => IInv'
<1> SUFFICES ASSUME IInv, [Next]_vars PROVE IInv'
  OBVIOUS
<1>1. CASE Send
  BY <1>1, ReceiverUnchanged DEF Send, BeginSend, SendOn, EndSend, receiverVars
<1>2. CASE PeerStreamStarted
  BY <1>2, ReceiverUnchanged DEF PeerStreamStarted
<1>3. ASSUME NEW s \in Stream, StreamLost(s) PROVE IInv'
  BY <1>3, ReceiverUnchanged DEF StreamLost
<1>4. ASSUME NEW s \in Stream, Receive(s) PROVE IInv'
  BY <1>4, ReceiveIInv
<1>5. CASE ClearChannel
  BY <1>5 DEF ClearChannel, IInv, OffsetsTyped, NobodyAhead, OffsetStands, Stream
<1>6. CASE ExpireContext
  BY <1>6 DEF ExpireContext, IInv, OffsetsTyped, NobodyAhead, OffsetStands
<1>7. CASE UNCHANGED vars
  BY <1>7, ReceiverUnchanged DEF vars
<1> QED BY <1>1, <1>2, <1>3, <1>4, <1>5, <1>6, <1>7 DEF Next

LEMMA Inductive == Spec => []IInv
  BY InitIInv, NextIInv, PTL DEF Spec

(***************************************************************************)
(* RECEIVE finds its bytes behind a gap, and locks itself out, only after  *)
(* the channel was reset.                                                  *)
(***************************************************************************)
THEOREM GapsOnlyAfterReset == Spec => []TooLateOnlyAfterReset
<1>1. IInv => TooLateOnlyAfterReset
  BY DEF IInv, OffsetsTyped, NobodyAhead, TooLateOnlyAfterReset, TooLate
<1> QED BY <1>1, Inductive, PTL

(***************************************************************************)
(* NextRecvByte stands still while a thread works on Buffer.               *)
(***************************************************************************)
THEOREM OffsetsStand == Spec => []OffsetStands
<1>1. IInv => OffsetStands
  BY DEF IInv
<1> QED BY <1>1, Inductive, PTL

-----------------------------------------------------------------------------
Byte == Message \X (Nat \ {0})
Sending == [msg : 0 .. NumMessages, to : SUBSET Stream, sent : BOOLEAN]

LEMMA EncodingIsBytes ==
  ASSUME NEW m \in Message
  PROVE  Encoding(m) \in Seq(Byte)
<1>1. HeaderLen + Size[m] \in Nat
  BY ReliableAssumption
<1>2. Encoding(m) \in [1 .. HeaderLen + Size[m] -> Byte]
  BY <1>1 DEF Encoding, Byte
<1> QED
  BY <1>1, <1>2, SeqDef

\* A thread that is to send on a stream has a message.
HasMessage == \A t \in Sender : sending[t].to # {} => sending[t].msg \in Message

Typed == TypeOK /\ HasMessage

LEMMA InitTyped == Init => Typed
<1> SUFFICES ASSUME Init PROVE Typed
  OBVIOUS
<1>1. \A S : <<>> \in Seq(S) /\ Len(<<>>) = 0
  BY EmptySeq
<1> QED
  BY <1>1, ReliableAssumption
     DEF Init, Typed, TypeOK, HasMessage, NotSending, Idle

LEMMA SendTyped ==
  ASSUME Typed, NEW t \in Sender,
         BeginSend(t) \/ EndSend(t) \/ \E s \in Stream : SendOn(t, s)
  PROVE  Typed'
<1> USE DEF Typed, HasMessage
<1>0. NumMessages \in Nat /\ sending \in [Sender -> Sending]
  BY ReliableAssumption DEF TypeOK, Sending
<1>1. CASE BeginSend(t)
  <2>1. started' \in 0 .. NumMessages /\ started + 1 \in Message
    BY <1>0, <1>1 DEF BeginSend, TypeOK, Message
  <2>2. [msg |-> started + 1, to |-> known, sent |-> FALSE] \in Sending
    BY <2>1 DEF Sending, TypeOK, Message
  <2>3. sending' = [sending EXCEPT ![t] =
                      [msg |-> started + 1, to |-> known, sent |-> FALSE]]
    BY <1>1 DEF BeginSend, Handles
  <2>4. sending' \in [Sender -> Sending] /\ HasMessage'
    BY <1>0, <2>1, <2>2, <2>3
  <2> QED
    BY <1>1, <2>1, <2>4 DEF BeginSend, TypeOK, receiverVars, Sending
<1>2. CASE EndSend(t)
  <2>1. NotSending \in Sending
    BY <1>0 DEF NotSending, Sending
  <2>2. sending' \in [Sender -> Sending] /\ HasMessage'
    BY <1>0, <1>2, <2>1 DEF EndSend, NotSending
  <2> QED
    BY <1>2, <2>2 DEF EndSend, TypeOK, receiverVars, Sending
<1>3. ASSUME NEW s \in Stream, SendOn(t, s) PROVE Typed'
  <2> DEFINE m == sending[t].msg
  <2>1. m \in Message
    BY <1>3 DEF SendOn
  <2>2. sending' \in [Sender -> Sending] /\ HasMessage'
    <3>1. \/ sending' = [sending EXCEPT ![t].to = @ \ {s}]
          \/ sending' = [sending EXCEPT ![t].to = @ \ {s}, ![t].sent = TRUE]
      BY <1>3 DEF SendOn
    <3>2. sending[t].to # {} /\ sending[t] \in Sending
      BY <1>0, <1>3 DEF SendOn
    <3>3. sending'[t] \in Sending /\ sending'[t].msg = sending[t].msg
      BY <1>0, <3>1, <3>2 DEF Sending
    <3>4. \A u \in Sender \ {t} : sending'[u] = sending[u]
      BY <1>0, <3>1
    <3>5. sending' \in [Sender -> Sending]
      BY <1>0, <3>1, <3>3, <3>4
    <3> QED
      BY <2>1, <3>3, <3>4, <3>5
  <2>3. UNCHANGED <<known, down, started, receiverVars>>
    BY <1>3 DEF SendOn
  <2>4. CASE UNCHANGED <<log, out>>
    BY <2>2, <2>3, <2>4 DEF TypeOK, receiverVars, Sending
  <2>5. CASE /\ out' = [out EXCEPT ![s] = @ \o Encoding(m)]
             /\ log' = IF sending[t].sent THEN log ELSE Append(log, m)
    <3>1. log' \in Seq(Message)
      BY <2>1, <2>5, AppendProperties DEF TypeOK
    <3>2. out[s] \in Seq(Byte) /\ Encoding(m) \in Seq(Byte)
      BY <2>1, EncodingIsBytes DEF TypeOK, Byte
    <3>3. /\ out[s] \o Encoding(m) \in Seq(Byte)
          /\ Len(out[s] \o Encoding(m)) = Len(out[s]) + Len(Encoding(m))
      BY <3>2, ConcatProperties
    <3>4. Len(out[s]) \in Nat /\ Len(Encoding(m)) \in Nat
      BY <3>2, LenProperties
    <3>5. out' \in [Stream -> Seq(Byte)]
      BY <2>5, <3>3 DEF TypeOK, Byte
    <3>6. \A r \in Stream : Len(out[r]) \in Nat /\ Len(out[r]) <= Len(out'[r])
      <4> SUFFICES ASSUME NEW r \in Stream
                   PROVE  Len(out[r]) \in Nat /\ Len(out[r]) <= Len(out'[r])
        OBVIOUS
      <4>1. Len(out[r]) \in Nat
        BY LenProperties DEF TypeOK
      <4> QED
        BY <2>5, <3>3, <3>4, <4>1 DEF TypeOK
    <3>7. \A r \in Stream : /\ pos'[r] <= Len(out'[r])
                            /\ ev'[r] \in {Idle} \cup pos'[r] + 1 .. Len(out'[r])
      <4> SUFFICES ASSUME NEW r \in Stream
                   PROVE  /\ pos[r] <= Len(out'[r])
                          /\ ev[r] \in {Idle} \cup pos[r] + 1 .. Len(out'[r])
        BY <2>3 DEF receiverVars
      <4>1. pos[r] \in Nat /\ pos[r] <= Len(out[r])
            /\ ev[r] \in {Idle} \cup pos[r] + 1 .. Len(out[r])
        BY DEF TypeOK
      <4>2. Len(out[r]) \in Nat /\ Len(out'[r]) \in Nat /\ Len(out[r]) <= Len(out'[r])
        BY <3>5, <3>6, LenProperties
      <4> QED
        BY <4>1, <4>2
    <3> QED
      BY <2>2, <2>3, <3>1, <3>5, <3>7 DEF TypeOK, receiverVars, Sending, Byte
  <2> QED
    BY <1>3, <2>4, <2>5 DEF SendOn
<1> QED
  BY <1>1, <1>2, <1>3

LEMMA ReceiveTyped ==
  ASSUME Typed, IInv, NEW s \in Stream, Receive(s)
  PROVE  Typed'
<1> USE DEF Typed, HasMessage, senderVars, Idle
<1>0. /\ out[s] \in Seq(Byte) /\ vec \in Seq(Byte) /\ next \in Nat
      /\ pos[s] \in Nat /\ ev[s] \in Nat
      /\ Len(out[s]) \in Nat /\ Len(vec) \in Nat
      /\ pos[s] <= Len(out[s]) /\ ev[s] \in {0} \cup pos[s] + 1 .. Len(out[s])
  BY LenProperties DEF TypeOK, Byte
<1>1. CASE Indicate(s)
  <2>1. PICK n \in pos[s] + 1 .. Len(out[s]) : ev' = [ev EXCEPT ![s] = n]
    BY <1>1 DEF Indicate
  <2>2. n \in Nat
    BY <1>0, <2>1
  <2> QED
    BY <1>1, <2>1, <2>2 DEF Indicate, TypeOK
<1>2. CASE IndicateExpired(s)
  BY <1>2, EmptySeq DEF IndicateExpired, TypeOK
<1>3. ASSUME Done(s), ev[s] # 0
      PROVE  /\ pos' \in [Stream -> Nat] /\ ev' \in [Stream -> Nat]
             /\ \A r \in Stream : /\ pos'[r] <= Len(out[r])
                                  /\ ev'[r] \in {0} \cup pos'[r] + 1 .. Len(out[r])
  BY <1>0, <1>3, SMTT(30) DEF Done, TypeOK
<1>4. CASE Skip(s)
  BY <1>3, <1>4 DEF Skip, TypeOK
<1>5. CASE Read(s)
  <2>1. \A i \in next + 1 .. ev[s] : out[s][i] \in Byte
    BY <1>0, ElementOfSeq
  <2>2. NewBytes(s) \in Seq(Byte)
    BY <1>0, <2>1, SubSeqProperties DEF NewBytes
  <2>3. vec' \in Seq(Byte)
    BY <1>0, <1>5, <2>2, ConcatProperties DEF Read
  <2> QED
    BY <1>0, <1>5, <2>3 DEF Read, NextAfter, TypeOK, Byte
<1>6. CASE ReadTooLate(s)
  BY <1>6 DEF ReadTooLate, TypeOK
<1>7. CASE Deliver(s)
  <2>1. PICK n \in MsgLen :
          /\ Len(vec) >= HeaderLen + n
          /\ delivered' = Append(delivered, SubSeq(vec, HeaderLen + 1, HeaderLen + n))
          /\ vec' = SubSeq(vec, HeaderLen + n + 1, Len(vec))
    BY <1>7 DEF Deliver
  <2>2. HeaderLen \in Nat \ {0} /\ n \in Nat
    BY <2>1, ReliableAssumption DEF MsgLen
  <2>3. \A i \in 1 .. Len(vec) : vec[i] \in Byte
    BY <1>0, ElementOfSeq
  <2>4. SubSeq(vec, HeaderLen + 1, HeaderLen + n) \in Seq(Byte)
    <3>1. \A i \in HeaderLen + 1 .. HeaderLen + n : vec[i] \in Byte
      BY <1>0, <2>1, <2>2, <2>3
    <3> QED
      BY <2>2, <3>1, SubSeqProperties
  <2>5. vec' \in Seq(Byte)
    <3>1. \A i \in HeaderLen + n + 1 .. Len(vec) : vec[i] \in Byte
      BY <1>0, <2>2, <2>3
    <3> QED
      BY <1>0, <2>1, <2>2, <3>1, SubSeqProperties
  <2>6. delivered' \in Seq(Seq(Byte))
    BY <2>1, <2>4, AppendProperties DEF TypeOK, Byte
  <2> QED
    BY <1>7, <2>5, <2>6 DEF Deliver, TypeOK, Byte
<1>8. CASE EndReceive(s)
  <2>1. ev[s] # 0
    BY <1>0, <1>8 DEF EndReceive, IInv, OffsetStands
  <2> QED
    BY <1>3, <1>8, <2>1 DEF EndReceive, TypeOK
<1> QED
  BY <1>1, <1>2, <1>4, <1>5, <1>6, <1>7, <1>8 DEF Receive

LEMMA NextTyped == Typed /\ IInv /\ [Next]_vars => Typed'
<1> SUFFICES ASSUME Typed, IInv, [Next]_vars PROVE Typed'
  OBVIOUS
<1> USE DEF Typed, HasMessage
<1>1. CASE Send
  BY <1>1, SendTyped DEF Send
<1>2. CASE PeerStreamStarted
  BY <1>2 DEF PeerStreamStarted, TypeOK, receiverVars, Stream
<1>3. ASSUME NEW s \in Stream, StreamLost(s) PROVE Typed'
  BY <1>3 DEF StreamLost, TypeOK, receiverVars
<1>4. ASSUME NEW s \in Stream, Receive(s) PROVE Typed'
  BY <1>4, ReceiveTyped
<1>5. CASE ClearChannel
  <2>1. vec' \in Seq(Message \X (Nat \ {0})) /\ next' \in Nat
    BY <1>5, EmptySeq DEF ClearChannel
  <2> QED
    BY <1>5, <2>1 DEF ClearChannel, TypeOK, senderVars
<1>6. CASE ExpireContext
  BY <1>6 DEF ExpireContext, TypeOK, senderVars
<1>7. CASE UNCHANGED vars
  BY <1>7 DEF vars, senderVars, receiverVars, TypeOK
<1> QED
  BY <1>1, <1>2, <1>3, <1>4, <1>5, <1>6, <1>7 DEF Next

(***************************************************************************)
(* The variables keep their types: no event ends behind what was sent, and *)
(* what is handed over is made of bytes of messages, also when they are    *)
(* read as something else (ReliablePacketSend and RECEIVE).                *)
(***************************************************************************)
THEOREM TypeCorrect == Spec => []TypeOK
<1>1. Typed => TypeOK
  BY DEF Typed
<1>2. Typed /\ IInv /\ [Next]_vars => Typed'
  BY NextTyped
<1> QED
  BY <1>1, <1>2, InitTyped, Inductive, PTL DEF Spec

-----------------------------------------------------------------------------
(***************************************************************************)
(* The refinement of MessageChannel.                                       *)
(*                                                                         *)
(* What the senders are at: a message belongs to one thread, is in log as  *)
(* soon as one StreamSend accepted it and not before, and is not yet on a  *)
(* stream that its thread still has to send it on.                         *)
(***************************************************************************)
MessagesApart ==
  /\ \A t \in Sender : sending[t].msg <= started
  /\ \A t, u \in Sender :
       t # u /\ sending[t].msg # 0 => sending[t].msg # sending[u].msg

OnlyStarted ==
  /\ \A i \in 1 .. Len(log) : log[i] <= started
  /\ \A s \in Stream : \A p \in 1 .. Len(out[s]) : out[s][p][1] <= started

LoggedWhenSent ==
  \A t \in Sender :
    /\ ~sending[t].sent => \A i \in 1 .. Len(log) : log[i] # sending[t].msg
    /\ sending[t].sent => \E i \in 1 .. Len(log) : log[i] = sending[t].msg

NotYetOn ==
  \A t \in Sender : \A s \in sending[t].to :
    \A p \in 1 .. Len(out[s]) : out[s][p][1] # sending[t].msg

SInv == MessagesApart /\ OnlyStarted /\ LoggedWhenSent /\ NotYetOn

(***************************************************************************)
(* While the streams are mirrored there is one sequence of bytes, of which *)
(* the streams carry a part each: that of the messages of log, with        *)
(* message i between off[i - 1] and off[i].  Stream s carries the first    *)
(* reach[s] messages, and one stream carries all.                          *)
(***************************************************************************)
MLen(m) == HeaderLen + Size[m]

Layout(off, q) ==
  /\ off \in [0 .. Len(q) -> Nat] /\ off[0] = 0
  /\ \A i \in 1 .. Len(q) : off[i] = off[i - 1] + MLen(q[i])
  /\ \A i, j \in 0 .. Len(q) : i < j => off[i] < off[j]

Carries(off, reach, q, o) ==
  /\ reach \in [Stream -> 0 .. Len(q)]
  /\ \E s \in Stream : reach[s] = Len(q)
  /\ \A s \in Stream :
       /\ Len(o[s]) = off[reach[s]]
       /\ \A i \in 1 .. reach[s] : \A k \in 1 .. MLen(q[i]) :
            o[s][off[i - 1] + k] = <<q[i], k>>

\* The messages before off[Len(dl)] are handed over, and Buffer is what comes
\* after them up to NextRecvByte.
Received(off, q, v, nx, dl) ==
  LET d == Len(dl)
  IN /\ d <= Len(q)
     /\ \A i \in 1 .. d : dl[i] = Data(q[i])
     /\ off[d] <= nx /\ nx <= off[Len(q)] /\ Len(v) = nx - off[d]
     /\ \A i \in d + 1 .. Len(q) : \A k \in 1 .. MLen(q[i]) :
          off[i - 1] + k <= nx => v[off[i - 1] + k - off[d]] = <<q[i], k>>

ByteInv ==
  (Mirrored /\ chan = "open") =>
    \E off, reach : /\ Layout(off, log) /\ Carries(off, reach, log, out)
                    /\ Received(off, log, vec, next, delivered)

LEMMA EncodingAt ==
  ASSUME NEW m \in Message
  PROVE  /\ MLen(m) \in Nat \ {0} /\ HeaderLen \in Nat \ {0} /\ Size[m] \in Nat
         /\ Encoding(m) \in Seq(Byte) /\ Len(Encoding(m)) = MLen(m)
         /\ \A k \in 1 .. MLen(m) : Encoding(m)[k] = <<m, k>>
<1>1. HeaderLen \in Nat \ {0} /\ Size[m] \in Nat /\ MLen(m) \in Nat \ {0}
  BY ReliableAssumption DEF MLen
<1>2. Encoding(m) \in Seq(Byte)
  BY EncodingIsBytes
<1>3. DOMAIN Encoding(m) = 1 .. MLen(m)
  BY DEF Encoding, MLen
<1>4. Len(Encoding(m)) \in Nat /\ DOMAIN Encoding(m) = 1 .. Len(Encoding(m))
  BY <1>2, LenProperties
<1>5. Len(Encoding(m)) = MLen(m)
  BY <1>1, <1>3, <1>4
<1>6. \A k \in 1 .. MLen(m) : Encoding(m)[k] = <<m, k>>
  BY DEF Encoding, MLen
<1> QED
  BY <1>1, <1>2, <1>5, <1>6

LEMMA OutTyped ==
  ASSUME TypeOK, NEW s \in Stream
  PROVE  /\ out[s] \in Seq(Byte) /\ Len(out[s]) \in Nat
         /\ DOMAIN out[s] = 1 .. Len(out[s])
         /\ \A p \in 1 .. Len(out[s]) : out[s][p] \in Byte /\ out[s][p][1] \in Message
<1>1. out[s] \in Seq(Byte)
  BY DEF TypeOK, Byte
<1>2. \A p \in 1 .. Len(out[s]) : out[s][p] \in Byte
  BY <1>1, ElementOfSeq
<1> QED
  BY <1>1, <1>2, LenProperties DEF Byte

LEMMA LogTyped ==
  ASSUME TypeOK
  PROVE  /\ log \in Seq(Message) /\ Len(log) \in Nat
         /\ DOMAIN log = 1 .. Len(log)
         /\ \A i \in 1 .. Len(log) : log[i] \in Message
  BY ElementOfSeq, LenProperties DEF TypeOK

LEMMA ConcatAt ==
  ASSUME NEW S, NEW a \in Seq(S), NEW c \in Seq(S), NEW k \in Nat, Len(c) = k
  PROVE  /\ a \o c \in Seq(S) /\ Len(a \o c) = Len(a) + k
         /\ DOMAIN (a \o c) = 1 .. Len(a) + k
         /\ \A p \in 1 .. Len(a) : (a \o c)[p] = a[p]
         /\ \A j \in 1 .. k : (a \o c)[Len(a) + j] = c[j]
<1>1. Len(a) \in Nat
  BY LenProperties
<1>2. /\ a \o c \in Seq(S) /\ Len(a \o c) = Len(a) + k
      /\ \A p \in 1 .. Len(a) + k :
           (a \o c)[p] = IF p <= Len(a) THEN a[p] ELSE c[p - Len(a)]
  BY ConcatProperties
<1>3. DOMAIN (a \o c) = 1 .. Len(a) + k
  BY <1>2, LenProperties
<1>4. \A p \in 1 .. Len(a) : (a \o c)[p] = a[p]
  BY <1>1, <1>2
<1>5. ASSUME NEW j \in 1 .. k PROVE (a \o c)[Len(a) + j] = c[j]
  <2>1. Len(a) + j \in 1 .. Len(a) + k /\ ~(Len(a) + j <= Len(a)) /\ (Len(a) + j) - Len(a) = j
    BY <1>1
  <2> QED
    BY <1>2, <2>1
<1> QED
  BY <1>2, <1>3, <1>4, <1>5

LEMMA SubSeqAt ==
  ASSUME NEW S, NEW a \in Seq(S), NEW i \in Nat, NEW j \in Nat, i <= j, j <= Len(a)
  PROVE  /\ SubSeq(a, i + 1, j) \in Seq(S) /\ Len(SubSeq(a, i + 1, j)) = j - i
         /\ \A k \in 1 .. j - i : SubSeq(a, i + 1, j)[k] = a[i + k]
<1> DEFINE b == SubSeq(a, i + 1, j)
<1>1. Len(a) \in Nat
  BY LenProperties
<1>2. \A k \in i + 1 .. j : a[k] \in S
  BY <1>1, ElementOfSeq
<1>3. /\ b \in Seq(S)
      /\ Len(b) = IF i + 1 <= j THEN j - (i + 1) + 1 ELSE 0
      /\ \A k \in 1 .. j - (i + 1) + 1 : b[k] = a[(i + 1) + k - 1]
  BY <1>2, SubSeqProperties
<1> HIDE DEF b
<1>4. Len(b) = j - i
  BY <1>3
<1>5. ASSUME NEW k \in 1 .. j - i PROVE b[k] = a[i + k]
  <2>1. k \in 1 .. j - (i + 1) + 1 /\ (i + 1) + k - 1 = i + k
    OBVIOUS
  <2> QED
    BY <1>3, <2>1
<1>6. b \in Seq(S) /\ Len(b) = j - i /\ \A k \in 1 .. j - i : b[k] = a[i + k]
  BY <1>3, <1>4, <1>5
<1> QED
  BY <1>6 DEF b

LEMMA PrefixAt ==
  ASSUME NEW S, NEW a \in Seq(S), NEW j \in Nat, j <= Len(a)
  PROVE  /\ SubSeq(a, 1, j) \in Seq(S) /\ Len(SubSeq(a, 1, j)) = j
         /\ \A k \in 1 .. j : SubSeq(a, 1, j)[k] = a[k]
<1>1. /\ SubSeq(a, 0 + 1, j) \in Seq(S) /\ Len(SubSeq(a, 0 + 1, j)) = j - 0
      /\ \A k \in 1 .. j - 0 : SubSeq(a, 0 + 1, j)[k] = a[0 + k]
  BY SubSeqAt
<1>2. 0 + 1 = 1 /\ j - 0 = j /\ \A k \in 1 .. j : 0 + k = k
  OBVIOUS
<1> QED
  BY <1>1, <1>2

\* What StreamSend, when it accepts a message, does to the stream and to log.
Accepts(t, s) ==
  /\ s \notin down /\ s \in sending[t].to
  /\ sending' = [sending EXCEPT ![t].to = @ \ {s}, ![t].sent = TRUE]
  /\ out' = [out EXCEPT ![s] = @ \o Encoding(sending[t].msg)]
  /\ log' = IF sending[t].sent THEN log ELSE Append(log, sending[t].msg)

LEMMA AcceptsOut ==
  ASSUME Typed, NEW t \in Sender, NEW s \in Stream, Accepts(t, s)
  PROVE  LET m == sending[t].msg
             n == Len(out[s])
         IN /\ m \in Message /\ n \in Nat
            /\ Len(out'[s]) = n + MLen(m)
            /\ \A p \in 1 .. n : out'[s][p] = out[s][p]
            /\ \A k \in 1 .. MLen(m) : out'[s][n + k] = <<m, k>>
            /\ \A p \in 1 .. n + MLen(m) : p <= n \/ (p - n) \in 1 .. MLen(m)
            /\ \A r \in Stream \ {s} : out'[r] = out[r]
            /\ DOMAIN out'[s] = 1 .. n + MLen(m)
<1> DEFINE m == sending[t].msg
           n == Len(out[s])
           b == out[s] \o Encoding(m)
<1>1. m \in Message
  BY DEF Accepts, Typed, HasMessage
<1>2. out[s] \in Seq(Byte) /\ n \in Nat
  BY OutTyped DEF Typed
<1>3. /\ MLen(m) \in Nat /\ Encoding(m) \in Seq(Byte) /\ Len(Encoding(m)) = MLen(m)
      /\ \A k \in 1 .. MLen(m) : Encoding(m)[k] = <<m, k>>
  BY <1>1, EncodingAt
<1>4. out' = [out EXCEPT ![s] = b]
  BY DEF Accepts
<1>5. out'[s] = b /\ \A r \in Stream \ {s} : out'[r] = out[r]
  <2>1. out \in [Stream -> Seq(Byte)]
    BY DEF Typed, TypeOK, Byte
  <2> HIDE DEF b
  <2> QED
    BY <1>4, <2>1
<1>6. /\ Len(b) = n + MLen(m) /\ DOMAIN b = 1 .. n + MLen(m)
      /\ \A p \in 1 .. n : b[p] = out[s][p]
      /\ \A k \in 1 .. MLen(m) : b[n + k] = Encoding(m)[k]
  <2> HIDE DEF m
  <2> QED
    BY <1>2, <1>3, ConcatAt
<1>7. \A p \in 1 .. n + MLen(m) : p <= n \/ (p - n) \in 1 .. MLen(m)
  BY <1>2, <1>3
<1>8. /\ Len(out'[s]) = n + MLen(m) /\ DOMAIN out'[s] = 1 .. n + MLen(m)
      /\ \A p \in 1 .. n : out'[s][p] = out[s][p]
      /\ \A k \in 1 .. MLen(m) : out'[s][n + k] = <<m, k>>
  <2> HIDE DEF b
  <2> QED
    BY <1>3, <1>5, <1>6
<1> HIDE DEF b
<1> QED
  BY <1>1, <1>2, <1>5, <1>7, <1>8

LEMMA AcceptsLog ==
  ASSUME Typed, NEW t \in Sender, NEW s \in Stream, Accepts(t, s)
  PROVE  LET m == sending[t].msg
         IN /\ sending[t].sent => log' = log
            /\ ~sending[t].sent =>
                 /\ log' = Append(log, m) /\ Len(log') = Len(log) + 1
                 /\ log'[Len(log) + 1] = m
            /\ \A i \in 1 .. Len(log) : log'[i] = log[i]
            /\ Len(log') \in Nat /\ Len(log) <= Len(log')
            /\ \A i \in 1 .. Len(log') : i <= Len(log) \/ (i = Len(log) + 1 /\ ~sending[t].sent)
<1>1. sending[t].msg \in Message
  BY DEF Accepts, Typed, HasMessage
<1>2. log \in Seq(Message) /\ Len(log) \in Nat
  BY LogTyped DEF Typed
<1>3. sending[t].sent \in BOOLEAN
  BY DEF Typed, TypeOK
<1> QED
  BY <1>1, <1>2, <1>3, AppendProperties DEF Accepts

\* What a step of a sender does to its entry of sending.
LEMMA SendingAfter ==
  ASSUME Typed, NEW t \in Sender, NEW s \in Stream,
         Accepts(t, s) \/ sending' = [sending EXCEPT ![t].to = @ \ {s}]
  PROVE  /\ sending'[t].msg = sending[t].msg
         /\ sending'[t].to = sending[t].to \ {s}
         /\ sending'[t].sent = (Accepts(t, s) \/ sending[t].sent)
         /\ \A u \in Sender \ {t} : sending'[u] = sending[u]
<1>0. sending \in [Sender -> Sending]
  BY DEF Typed, TypeOK, Sending
<1>1. CASE Accepts(t, s)
  <2>1. sending' = [sending EXCEPT ![t].to = @ \ {s}, ![t].sent = TRUE]
    BY <1>1 DEF Accepts
  <2>2. /\ sending'[t].msg = sending[t].msg
        /\ sending'[t].to = sending[t].to \ {s}
        /\ sending'[t].sent = TRUE
        /\ \A u \in Sender \ {t} : sending'[u] = sending[u]
    BY <1>0, <2>1 DEF Sending
  <2> QED
    BY <1>1, <2>2
<1>2. CASE ~Accepts(t, s)
  <2>1. sending' = [sending EXCEPT ![t].to = @ \ {s}]
    BY <1>2
  <2>2. /\ sending'[t].msg = sending[t].msg
        /\ sending'[t].to = sending[t].to \ {s}
        /\ sending'[t].sent = sending[t].sent
        /\ \A u \in Sender \ {t} : sending'[u] = sending[u]
    BY <1>0, <2>1 DEF Sending
  <2>3. sending[t].sent \in BOOLEAN
    BY <1>0 DEF Sending
  <2> QED
    BY <1>2, <2>2, <2>3
<1> QED
  BY <1>1, <1>2

LEMMA InitSInv == Init => SInv
  BY EmptySeq DEF Init, SInv, MessagesApart, OnlyStarted, LoggedWhenSent,
                  NotYetOn, NotSending

LEMMA SInvUnchanged ==
  ASSUME SInv, UNCHANGED <<started, sending, log, out>>
  PROVE  SInv'
  BY DEF SInv, MessagesApart, OnlyStarted, LoggedWhenSent, NotYetOn

LEMMA BeginSendSInv ==
  ASSUME Typed, SInv, NEW t \in Sender, BeginSend(t)
  PROVE  SInv'
<1> DEFINE y == [msg |-> started + 1, to |-> known, sent |-> FALSE]
<1>1. /\ started' = started + 1 /\ UNCHANGED <<log, out>>
      /\ sending' = [sending EXCEPT ![t] = y]
  BY DEF BeginSend, Handles
<1>2. started \in Nat /\ sending'[t] = y /\ \A u \in Sender \ {t} : sending'[u] = sending[u]
  BY <1>1, ReliableAssumption DEF Typed, TypeOK
<1>3. \A u \in Sender : sending[u].msg \in Nat
  BY ReliableAssumption DEF Typed, TypeOK
<1>4. /\ \A i \in 1 .. Len(log) : log[i] \in Nat
      /\ \A s \in Stream : \A p \in 1 .. Len(out[s]) : out[s][p][1] \in Nat
  BY LogTyped, OutTyped DEF Typed, Message
<1>5. MessagesApart'
  BY <1>1, <1>2, <1>3 DEF SInv, MessagesApart
<1>6. OnlyStarted'
  BY <1>1, <1>2, <1>4 DEF SInv, OnlyStarted
<1>7. LoggedWhenSent'
  BY <1>1, <1>2, <1>4 DEF SInv, OnlyStarted, LoggedWhenSent
<1>8. NotYetOn'
  <2> SUFFICES ASSUME NEW u \in Sender, NEW s \in sending'[u].to,
                      NEW p \in 1 .. Len(out[s])
               PROVE  out[s][p][1] # sending'[u].msg
    BY <1>1 DEF NotYetOn
  <2>1. CASE u = t
    <3>1. s \in Stream /\ sending'[u].msg = started + 1
      BY <1>2, <2>1 DEF Typed, TypeOK
    <3>2. out[s][p][1] <= started /\ out[s][p][1] \in Nat
      BY <1>4, <3>1 DEF SInv, OnlyStarted
    <3> QED
      BY <1>2, <3>1, <3>2
  <2>2. CASE u # t
    BY <1>2, <2>2 DEF SInv, NotYetOn
  <2> QED
    BY <2>1, <2>2
<1> QED
  BY <1>5, <1>6, <1>7, <1>8 DEF SInv

LEMMA EndSendSInv ==
  ASSUME Typed, SInv, NEW t \in Sender, EndSend(t)
  PROVE  SInv'
<1>1. sending' = [sending EXCEPT ![t] = NotSending] /\ UNCHANGED <<started, log, out>>
  BY DEF EndSend
<1>2. /\ sending'[t] = NotSending
      /\ NotSending.msg = 0 /\ NotSending.to = {} /\ ~NotSending.sent
      /\ \A u \in Sender \ {t} : sending'[u] = sending[u]
  BY <1>1 DEF Typed, TypeOK, NotSending
<1>3. \A i \in 1 .. Len(log) : log[i] # 0
  BY LogTyped DEF Typed, Message
<1>4. started \in Nat
  BY ReliableAssumption DEF Typed, TypeOK
<1>5. MessagesApart'
  BY <1>1, <1>2, <1>4 DEF SInv, MessagesApart
<1>6. OnlyStarted' /\ LoggedWhenSent' /\ NotYetOn'
  BY <1>1, <1>2, <1>3 DEF SInv, OnlyStarted, LoggedWhenSent, NotYetOn
<1> QED
  BY <1>5, <1>6 DEF SInv

LEMMA FailedSendSInv ==
  ASSUME Typed, SInv, NEW t \in Sender, NEW s \in Stream, ~Accepts(t, s),
         sending' = [sending EXCEPT ![t].to = @ \ {s}],
         UNCHANGED <<started, log, out>>
  PROVE  SInv'
<1>1. /\ sending'[t].msg = sending[t].msg
      /\ sending'[t].to \subseteq sending[t].to
      /\ sending'[t].sent = sending[t].sent
      /\ \A u \in Sender \ {t} : sending'[u] = sending[u]
  BY SendingAfter DEF Typed, TypeOK
<1>2. \A u \in Sender : /\ sending'[u].msg = sending[u].msg
                        /\ sending'[u].to \subseteq sending[u].to
                        /\ sending'[u].sent = sending[u].sent
  BY <1>1
<1> QED
  BY <1>2 DEF SInv, MessagesApart, OnlyStarted, LoggedWhenSent, NotYetOn

LEMMA AcceptsSInv ==
  ASSUME Typed, SInv, NEW t \in Sender, NEW s \in Stream, Accepts(t, s),
         UNCHANGED started
  PROVE  SInv'
<1> DEFINE m == sending[t].msg
           n == Len(out[s])
<1>1. /\ m \in Message /\ n \in Nat /\ Len(out'[s]) = n + MLen(m)
      /\ \A p \in 1 .. n : out'[s][p] = out[s][p]
      /\ \A k \in 1 .. MLen(m) : out'[s][n + k] = <<m, k>>
      /\ \A p \in 1 .. n + MLen(m) : p <= n \/ (p - n) \in 1 .. MLen(m)
      /\ \A r \in Stream \ {s} : out'[r] = out[r]
  BY AcceptsOut
<1>2. /\ \A u \in Sender : sending'[u].msg = sending[u].msg
      /\ sending'[t].to = sending[t].to \ {s} /\ sending'[t].sent
      /\ \A u \in Sender \ {t} : sending'[u] = sending[u]
  BY SendingAfter
<1>3. \A r \in Stream : \A p \in 1 .. Len(out'[r]) :
        \/ r = s /\ out'[r][p][1] = m
        \/ p \in 1 .. Len(out[r]) /\ out'[r][p] = out[r][p]
  <2> SUFFICES ASSUME NEW p \in 1 .. n + MLen(m)
               PROVE  \/ out'[s][p][1] = m
                      \/ p \in 1 .. n /\ out'[s][p] = out[s][p]
    BY <1>1
  <2>0. MLen(m) \in Nat
    BY <1>1, EncodingAt
  <2>1. CASE p <= n
    BY <1>1, <2>0, <2>1
  <2>2. CASE (p - n) \in 1 .. MLen(m)
    <3>1. out'[s][n + (p - n)] = <<m, p - n>> /\ n + (p - n) = p
      BY <1>1, <2>0, <2>2
    <3> QED
      BY <3>1
  <2> QED
    BY <1>1, <2>1, <2>2
<1>4. /\ \A i \in 1 .. Len(log') :
           \/ i \in 1 .. Len(log) /\ log'[i] = log[i]
           \/ ~sending[t].sent /\ log'[i] = m
      /\ \A i \in 1 .. Len(log) : i \in 1 .. Len(log') /\ log'[i] = log[i]
      /\ ~sending[t].sent => \E i \in 1 .. Len(log') : log'[i] = m
  BY AcceptsLog, LogTyped DEF Typed
<1>5. MessagesApart'
  BY <1>2 DEF SInv, MessagesApart
<1>6. OnlyStarted'
  BY <1>1, <1>3, <1>4 DEF SInv, MessagesApart, OnlyStarted
<1>7. LoggedWhenSent'
  <2> SUFFICES ASSUME NEW u \in Sender
               PROVE  /\ ~sending'[u].sent =>
                           \A i \in 1 .. Len(log') : log'[i] # sending[u].msg
                      /\ sending'[u].sent =>
                           \E i \in 1 .. Len(log') : log'[i] = sending[u].msg
    BY <1>2 DEF LoggedWhenSent
  <2>1. CASE u = t
    BY <1>2, <1>4, <2>1 DEF SInv, LoggedWhenSent
  <2>2. CASE u # t
    <3>1. m # sending[u].msg
      BY <1>1, <2>2 DEF SInv, MessagesApart, Message
    <3> QED
      BY <1>2, <1>4, <2>2, <3>1 DEF SInv, LoggedWhenSent
  <2> QED
    BY <2>1, <2>2
<1>8. NotYetOn'
  <2> SUFFICES ASSUME NEW u \in Sender, NEW r \in sending'[u].to,
                      NEW p \in 1 .. Len(out'[r])
               PROVE  out'[r][p][1] # sending[u].msg
    BY <1>2 DEF NotYetOn
  <2>1. r \in sending[u].to /\ r \in Stream
    BY <1>2 DEF Typed, TypeOK
  <2>2. CASE r = s /\ out'[r][p][1] = m
    <3>1. u # t
      BY <1>2, <2>2
    <3> QED
      BY <1>1, <2>2, <3>1 DEF SInv, MessagesApart, Message
  <2>3. CASE p \in 1 .. Len(out[r]) /\ out'[r][p] = out[r][p]
    BY <2>1, <2>3 DEF SInv, NotYetOn
  <2> QED
    BY <1>3, <2>1, <2>2, <2>3
<1> QED
  BY <1>5, <1>6, <1>7, <1>8 DEF SInv

\* StreamSend fails on a stream that is lost, and is accepted on another one.
LEMMA SendOnCases ==
  ASSUME NEW t \in Sender, NEW s \in Stream, SendOn(t, s)
  PROVE  /\ UNCHANGED <<known, down, started, receiverVars>>
         /\ \/ Accepts(t, s)
            \/ /\ ~Accepts(t, s) /\ UNCHANGED <<log, out>>
               /\ sending' = [sending EXCEPT ![t].to = @ \ {s}]
  BY DEF SendOn, Accepts

LEMMA NextSInv == Typed /\ SInv /\ [Next]_vars => SInv'
<1> SUFFICES ASSUME Typed, SInv, [Next]_vars PROVE SInv'
  OBVIOUS
<1>1. CASE UNCHANGED senderVars
  BY <1>1, SInvUnchanged DEF senderVars
<1>2. ASSUME NEW t \in Sender, NEW s \in Stream, SendOn(t, s) PROVE SInv'
  BY <1>2, SendOnCases, AcceptsSInv, FailedSendSInv
<1>3. CASE Send
  BY <1>2, <1>3, BeginSendSInv, EndSendSInv DEF Send
<1>4. CASE PeerStreamStarted \/ \E s \in Stream : StreamLost(s)
  BY <1>4, SInvUnchanged DEF PeerStreamStarted, StreamLost
<1>5. ASSUME NEW s \in Stream, Receive(s) PROVE UNCHANGED senderVars
  BY <1>5 DEF Receive, Indicate, IndicateExpired, Skip, Read, ReadTooLate, Deliver,
              EndReceive
<1>6. CASE ClearChannel \/ ExpireContext
  BY <1>1, <1>6 DEF ClearChannel, ExpireContext
<1>7. CASE UNCHANGED vars
  BY <1>1, <1>7 DEF vars
<1> QED
  BY <1>1, <1>3, <1>4, <1>5, <1>6, <1>7 DEF Next

-----------------------------------------------------------------------------
(***************************************************************************)
(* The bytes.  Streams that are mirrored after a send were before: nothing *)
(* that was sent is taken back.                                            *)
(***************************************************************************)
LEMMA MirroredBefore ==
  ASSUME Typed, NEW t \in Sender, NEW s \in Stream, Accepts(t, s), Mirrored'
  PROVE  Mirrored
<1>1. \A r \in Stream : \A p \in DOMAIN out[r] :
        p \in DOMAIN out'[r] /\ out'[r][p] = out[r][p]
  <2> SUFFICES ASSUME NEW r \in Stream, NEW p \in DOMAIN out[r]
               PROVE  p \in DOMAIN out'[r] /\ out'[r][p] = out[r][p]
    OBVIOUS
  <2>1. CASE r = s
    <3>1. p \in 1 .. Len(out[s]) /\ MLen(sending[t].msg) \in Nat
      BY <2>1, OutTyped, AcceptsOut, EncodingAt DEF Typed
    <3>2. DOMAIN out'[s] = 1 .. Len(out[s]) + MLen(sending[t].msg)
      BY AcceptsOut
    <3>3. out'[s][p] = out[s][p] /\ Len(out[s]) \in Nat
      BY <3>1, AcceptsOut
    <3> QED
      BY <2>1, <3>1, <3>2, <3>3
  <2>2. CASE r # s
    BY <2>2, AcceptsOut
  <2> QED
    BY <2>1, <2>2
<1> QED
  BY <1>1 DEF Mirrored, Stream

\* Where message k + 1 would begin on s, another stream has log[k + 1].
LEMMA NextInLog ==
  ASSUME Typed, NEW t \in Sender, NEW s \in Stream, Accepts(t, s), Mirrored',
         NEW off, NEW reach, Layout(off, log), Carries(off, reach, log, out),
         reach[s] # Len(log)
  PROVE  log[reach[s] + 1] = sending[t].msg
<1> DEFINE m == sending[t].msg
           n == Len(out[s])
           k == reach[s]
<1>1. PICK r \in Stream : reach[r] = Len(log)
  BY DEF Carries
<1>2. Len(log) \in Nat /\ k \in 0 .. Len(log) - 1 /\ r # s /\ k + 1 \in 1 .. Len(log)
  BY <1>1, LogTyped DEF Typed, Carries
<1>3. n = off[k] /\ Len(out[r]) = off[Len(log)]
  BY <1>1 DEF Carries
<1>4. off[k] < off[Len(log)] /\ off[k] \in Nat /\ off[Len(log)] \in Nat
  BY <1>2 DEF Layout
<1>5. m \in Message /\ log[k + 1] \in Message
  BY <1>2, LogTyped, AcceptsOut DEF Typed
<1>6. 1 \in 1 .. MLen(m) /\ 1 \in 1 .. MLen(log[k + 1])
  BY <1>5, EncodingAt
<1>7. out[r][n + 1] = <<log[k + 1], 1>>
  <2>1. (k + 1) - 1 = k /\ k + 1 \in 1 .. reach[r]
    BY <1>1, <1>2
  <2>2. out[r][off[(k + 1) - 1] + 1] = <<log[k + 1], 1>>
    BY <1>6, <2>1 DEF Carries
  <2> QED
    BY <1>3, <2>1, <2>2
<1>8. out'[s][n + 1] = <<m, 1>> /\ out'[r] = out[r]
  BY <1>2, <1>6, AcceptsOut
<1>9. n + 1 \in DOMAIN out'[r] /\ n + 1 \in DOMAIN out'[s]
  <2>1. DOMAIN out'[r] = 1 .. Len(out[r])
    BY <1>8, OutTyped DEF Typed
  <2>2. DOMAIN out'[s] = 1 .. n + MLen(m) /\ MLen(m) \in Nat \ {0} /\ n \in Nat
    BY <1>5, AcceptsOut, EncodingAt
  <2> QED
    BY <1>3, <1>4, <2>1, <2>2
<1>10. out'[r][n + 1] = out'[s][n + 1]
  BY <1>2, <1>9 DEF Mirrored, Stream
<1> QED
  BY <1>7, <1>8, <1>10

\* A stream that has all of log does not have the message to be sent.
LEMMA NotAllOn ==
  ASSUME Typed, SInv, NEW t \in Sender, NEW s \in Stream, Accepts(t, s),
         sending[t].sent,
         NEW off, NEW reach, Layout(off, log), Carries(off, reach, log, out)
  PROVE  reach[s] # Len(log)
<1> SUFFICES ASSUME reach[s] = Len(log) PROVE FALSE
  OBVIOUS
<1> DEFINE m == sending[t].msg
<1>1. PICK i \in 1 .. Len(log) : log[i] = m
  BY DEF SInv, LoggedWhenSent
<1>2. m \in Message /\ MLen(m) \in Nat \ {0} /\ Len(log) \in Nat /\ Len(out[s]) \in Nat
  BY AcceptsOut, EncodingAt, LogTyped, OutTyped DEF Typed
<1>3. out[s][off[i - 1] + 1] = <<m, 1>>
  <2>1. i \in 1 .. reach[s] /\ 1 \in 1 .. MLen(log[i])
    BY <1>1, <1>2
  <2>2. out[s][off[i - 1] + 1] = <<log[i], 1>>
    BY <2>1 DEF Carries
  <2> QED
    BY <1>1, <2>2
<1>4. off[i - 1] + 1 \in 1 .. Len(out[s])
  <2>1. i - 1 \in 0 .. Len(log) /\ Len(log) \in 0 .. Len(log) /\ i - 1 < Len(log)
    BY <1>2
  <2>2. off[i - 1] \in Nat /\ off[i - 1] < off[Len(log)] /\ off[Len(log)] = Len(out[s])
    BY <2>1 DEF Layout, Carries
  <2> QED
    BY <1>2, <2>2
<1>5. s \in sending[t].to
  BY DEF Accepts
<1>6. out[s][off[i - 1] + 1][1] # m
  BY <1>4, <1>5 DEF SInv, NotYetOn
<1> QED
  BY <1>3, <1>6

\* A message of log that another stream brought before.
LEMMA SendAgain ==
  ASSUME Typed, NEW t \in Sender, NEW s \in Stream, Accepts(t, s),
         NEW off, NEW reach, Layout(off, log), Carries(off, reach, log, out),
         log' = log, reach[s] # Len(log), log[reach[s] + 1] = sending[t].msg
  PROVE  Carries(off, [reach EXCEPT ![s] = @ + 1], log, out')
<1> DEFINE m == sending[t].msg
           n == Len(out[s])
           k == reach[s]
           reach2 == [reach EXCEPT ![s] = k + 1]
<1>1. /\ reach \in [Stream -> 0 .. Len(log)] /\ Len(log) \in Nat
      /\ k \in 0 .. Len(log) - 1 /\ k + 1 \in 1 .. Len(log)
  BY LogTyped DEF Typed, Carries
<1>2. reach2 \in [Stream -> 0 .. Len(log)] /\ reach2[s] = k + 1
      /\ \A r \in Stream \ {s} : reach2[r] = reach[r]
  BY <1>1
<1>3. n = off[k] /\ n \in Nat /\ m \in Message /\ MLen(m) \in Nat
  BY AcceptsOut, EncodingAt DEF Carries
<1>4. off[k + 1] = off[k] + MLen(m) /\ (k + 1) - 1 = k
  BY <1>1 DEF Layout
<1>5. Len(out'[s]) = off[reach2[s]]
  BY <1>2, <1>3, <1>4, AcceptsOut
<1>6. ASSUME NEW i \in 1 .. reach2[s], NEW j \in 1 .. MLen(log[i])
      PROVE  out'[s][off[i - 1] + j] = <<log[i], j>>
  <2>1. CASE i = k + 1
    <3>1. j \in 1 .. MLen(m) /\ off[i - 1] + j = n + j
      BY <1>3, <1>4, <2>1
    <3> QED
      BY <2>1, <3>1, AcceptsOut
  <2>2. CASE i # k + 1
    <3>1. i \in 1 .. k /\ i - 1 \in 0 .. Len(log) /\ i \in 0 .. Len(log)
          /\ i \in 1 .. Len(log)
      BY <1>1, <1>2, <2>2
    <3>2. out[s][off[i - 1] + j] = <<log[i], j>>
      BY <3>1 DEF Carries
    <3>3. off[i] = off[i - 1] + MLen(log[i]) /\ off[i - 1] \in Nat /\ off[i] \in Nat
      BY <3>1 DEF Layout
    <3>4. off[i] <= n
      <4>1. k \in 0 .. Len(log) /\ (i = k \/ i < k)
        BY <1>1, <3>1
      <4>2. i < k => off[i] < off[k]
        BY <3>1, <4>1 DEF Layout
      <4> QED
        BY <1>3, <3>3, <4>1, <4>2
    <3>5. MLen(log[i]) \in Nat
      BY <3>1, LogTyped, EncodingAt DEF Typed
    <3>6. off[i - 1] + j \in 1 .. n
      BY <1>3, <3>3, <3>4, <3>5
    <3> QED
      BY <3>2, <3>6, AcceptsOut
  <2> QED
    BY <2>1, <2>2
<1>7. PICK r \in Stream : reach[r] = Len(log)
  BY DEF Carries
<1>8. reach2[r] = Len(log)
  BY <1>2, <1>7
<1>9. \A q \in Stream :
        /\ Len(out'[q]) = off[reach2[q]]
        /\ \A i \in 1 .. reach2[q] : \A j \in 1 .. MLen(log[i]) :
             out'[q][off[i - 1] + j] = <<log[i], j>>
  <2> TAKE q \in Stream
  <2>1. CASE q = s
    BY <1>5, <1>6, <2>1
  <2>2. CASE q # s
    <3>1. out'[q] = out[q] /\ reach2[q] = reach[q]
      BY <1>2, <2>2, AcceptsOut
    <3> HIDE DEF reach2
    <3> QED
      BY <3>1 DEF Carries
  <2> QED
    BY <2>1, <2>2
<1> HIDE DEF reach2
<1>10. Carries(off, reach2, log, out')
  BY <1>2, <1>8, <1>9 DEF Carries
<1> QED
  BY <1>10 DEF reach2

\* The offsets after message m was appended to log.
Longer(off, m) ==
  [i \in 0 .. Len(log) + 1 |-> IF i <= Len(log) THEN off[i]
                               ELSE off[Len(log)] + MLen(m)]

LEMMA LongerLayout ==
  ASSUME Typed, NEW t \in Sender, NEW s \in Stream, Accepts(t, s),
         ~sending[t].sent, NEW off, Layout(off, log)
  PROVE  /\ Layout(Longer(off, sending[t].msg), log')
         /\ \A i \in 0 .. Len(log) : Longer(off, sending[t].msg)[i] = off[i]
<1> DEFINE m == sending[t].msg
           l == Len(log)
           off2 == Longer(off, m)
<1>1. /\ m \in Message /\ MLen(m) \in Nat \ {0} /\ l \in Nat
      /\ l \in 0 .. l /\ off[l] \in Nat /\ Len(log') = l + 1
  <2>1. m \in Message /\ MLen(m) \in Nat \ {0}
    <3>1. m \in Message
      BY DEF Accepts, Typed, HasMessage
    <3> QED
      BY <3>1, EncodingAt
  <2>2. l \in Nat
    BY LogTyped DEF Typed
  <2>3. Len(log') = l + 1
    BY AcceptsLog
  <2>4. l \in 0 .. l /\ off[l] \in Nat
    BY <2>2 DEF Layout
  <2> QED
    BY <2>1, <2>2, <2>3, <2>4
<1>2. /\ \A i \in 0 .. l : off2[i] = off[i] /\ off[i] \in Nat
      /\ off2[l + 1] = off[l] + MLen(m)
  BY <1>1 DEF Longer, Layout
<1>3. off2 \in [0 .. l + 1 -> Nat]
  <2>1. \A i \in 0 .. l + 1 : off2[i] \in Nat
    BY <1>1, <1>2
  <2> QED
    BY <2>1 DEF Longer
<1> HIDE DEF off2
<1>4. off2[0] = 0
  BY <1>1, <1>2 DEF Layout
<1>5. ASSUME NEW i \in 1 .. l + 1 PROVE off2[i] = off2[i - 1] + MLen(log'[i])
  <2>1. CASE i <= l
    <3>1. i \in 1 .. l /\ i \in 0 .. l /\ i - 1 \in 0 .. l
      BY <1>1, <2>1
    <3>2. log'[i] = log[i]
      BY <3>1, AcceptsLog
    <3> QED
      BY <1>2, <3>1, <3>2 DEF Layout
  <2>2. CASE i = l + 1
    <3>1. i - 1 = l /\ log'[i] = m
      BY <1>1, <2>2, AcceptsLog
    <3> QED
      BY <1>1, <1>2, <2>2, <3>1
  <2> QED
    BY <1>1, <2>1, <2>2
<1>6. ASSUME NEW i \in 0 .. l + 1, NEW j \in 0 .. l + 1, i < j PROVE off2[i] < off2[j]
  <2>1. i \in 0 .. l /\ (i = l \/ off[i] < off[l])
    BY <1>1, <1>6 DEF Layout
  <2>2. CASE j <= l
    <3>1. j \in 0 .. l
      BY <2>2
    <3> QED
      BY <1>2, <1>6, <2>1, <3>1 DEF Layout
  <2>3. CASE j = l + 1
    BY <1>1, <1>2, <2>1, <2>3
  <2> QED
    BY <1>1, <2>2, <2>3
<1>7. Layout(off2, log')
  BY <1>1, <1>3, <1>4, <1>5, <1>6 DEF Layout
<1> QED
  BY <1>2, <1>7 DEF off2

\* A message that no stream has brought yet.
LEMMA SendNew ==
  ASSUME Typed, NEW t \in Sender, NEW s \in Stream, Accepts(t, s), ~sending[t].sent,
         NEW off, NEW reach, Layout(off, log), Carries(off, reach, log, out),
         reach[s] = Len(log)
  PROVE  Carries(Longer(off, sending[t].msg), [reach EXCEPT ![s] = @ + 1], log', out')
<1> DEFINE m == sending[t].msg
           n == Len(out[s])
           l == Len(log)
           off2 == Longer(off, m)
           reach2 == [reach EXCEPT ![s] = l + 1]
<1>1. /\ l \in Nat /\ Len(log') = l + 1 /\ reach \in [Stream -> 0 .. l]
      /\ m \in Message /\ MLen(m) \in Nat /\ n = off[l] /\ n \in Nat
  BY AcceptsOut, AcceptsLog, EncodingAt, LogTyped DEF Typed, Carries
<1>2. reach2 \in [Stream -> 0 .. l + 1] /\ reach2[s] = l + 1
      /\ \A r \in Stream \ {s} : reach2[r] = reach[r]
  BY <1>1
<1>3. /\ Layout(off2, log')
      /\ \A i \in 0 .. l : off2[i] = off[i]
  BY LongerLayout
<1> HIDE DEF off2, reach2
<1>4. off2[l + 1] = n + MLen(m) /\ off2[l] = n
  <2>1. l + 1 \in 1 .. l + 1 /\ (l + 1) - 1 = l /\ l \in 0 .. l
    BY <1>1
  <2>2. off2[l + 1] = off2[l] + MLen(log'[l + 1])
    BY <1>1, <1>3, <2>1 DEF Layout
  <2> QED
    BY <1>1, <1>3, <2>1, <2>2, AcceptsLog
<1>5. Len(out'[s]) = off2[reach2[s]]
  BY <1>2, <1>4, AcceptsOut
<1>6. ASSUME NEW r \in Stream, NEW i \in 1 .. l, i <= reach[r], NEW j \in 1 .. MLen(log'[i])
      PROVE  out[r][off2[i - 1] + j] = <<log'[i], j>>
  <2>1. i \in 1 .. reach[r] /\ i - 1 \in 0 .. l /\ log'[i] = log[i]
    BY <1>1, <1>6, AcceptsLog
  <2>2. out[r][off[i - 1] + j] = <<log[i], j>>
    BY <2>1 DEF Carries
  <2> QED
    BY <1>3, <2>1, <2>2
<1>7. ASSUME NEW i \in 1 .. reach2[s], NEW j \in 1 .. MLen(log'[i])
      PROVE  out'[s][off2[i - 1] + j] = <<log'[i], j>>
  <2>1. CASE i = l + 1
    <3>1. i - 1 = l /\ log'[i] = m
      BY <1>1, <2>1, AcceptsLog
    <3>2. j \in 1 .. MLen(m)
      BY <3>1
    <3>3. out'[s][n + j] = <<m, j>>
      BY <3>2, AcceptsOut
    <3> QED
      BY <1>4, <3>1, <3>3
  <2>2. CASE i # l + 1
    <3>1. i \in 1 .. l /\ i <= reach[s] /\ i - 1 \in 0 .. l /\ i \in 0 .. l /\ i \in 1 .. l + 1
      BY <1>1, <1>2, <2>2
    <3>2. out[s][off2[i - 1] + j] = <<log'[i], j>>
      BY <1>6, <3>1
    <3>3. off2[i] = off2[i - 1] + MLen(log'[i]) /\ off2[i - 1] \in Nat /\ off2[i] \in Nat
      BY <1>1, <1>3, <3>1 DEF Layout
    <3>4. off2[i] <= n
      <4>1. i = l \/ i < l
        BY <3>1
      <4>2. i < l => off[i] < off[l]
        BY <1>1, <3>1 DEF Layout
      <4> QED
        BY <1>1, <1>3, <1>4, <3>1, <3>3, <4>1, <4>2
    <3>5. MLen(log'[i]) \in Nat
      BY <3>1, AcceptsLog, LogTyped, EncodingAt DEF Typed
    <3>6. off2[i - 1] + j \in 1 .. n
      BY <1>1, <3>3, <3>4, <3>5
    <3> QED
      BY <3>2, <3>6, AcceptsOut
  <2> QED
    BY <2>1, <2>2
<1>8. \A q \in Stream :
        /\ Len(out'[q]) = off2[reach2[q]]
        /\ \A i \in 1 .. reach2[q] : \A j \in 1 .. MLen(log'[i]) :
             out'[q][off2[i - 1] + j] = <<log'[i], j>>
  <2> TAKE q \in Stream
  <2>1. CASE q = s
    BY <1>5, <1>7, <2>1
  <2>2. CASE q # s
    <3>1. out'[q] = out[q] /\ reach2[q] = reach[q] /\ reach[q] \in 0 .. l
      BY <1>1, <1>2, <2>2, AcceptsOut
    <3>2. Len(out[q]) = off2[reach[q]]
      BY <1>3, <3>1 DEF Carries
    <3>3. \A i \in 1 .. reach[q] : i \in 1 .. l /\ i <= reach[q]
      BY <1>1, <3>1
    <3> QED
      BY <1>6, <3>1, <3>2, <3>3
  <2> QED
    BY <2>1, <2>2
<1>9. Carries(off2, reach2, log', out')
  BY <1>1, <1>2, <1>8 DEF Carries
<1> QED
  BY <1>9 DEF off2, reach2

\* What was received stays what it is when a message is appended to log.
LEMMA ReceivedStill ==
  ASSUME Typed, NEW t \in Sender, NEW s \in Stream, Accepts(t, s), ~sending[t].sent,
         NEW off, Layout(off, log), Received(off, log, vec, next, delivered)
  PROVE  Received(Longer(off, sending[t].msg), log', vec, next, delivered)
<1> DEFINE l == Len(log)
           d == Len(delivered)
           off2 == Longer(off, sending[t].msg)
<1>1. /\ l \in Nat /\ Len(log') = l + 1 /\ d \in Nat /\ d <= l /\ next \in Nat
      /\ off \in [0 .. l -> Nat] /\ d \in 0 .. l /\ l \in 0 .. l
  BY AcceptsLog, LogTyped, LenProperties, SMTT(30) DEF Typed, TypeOK, Received, Layout
<1>2. /\ Layout(off2, log')
      /\ \A i \in 0 .. l : off2[i] = off[i]
  BY LongerLayout
<1> HIDE DEF off2
<1>3. \A i \in 1 .. d : delivered[i] = Data(log'[i])
  BY <1>1, AcceptsLog DEF Received
<1>4. off2[d] <= next /\ next <= off2[l + 1] /\ Len(vec) = next - off2[d]
  <2>1. off[d] <= next /\ next <= off[l] /\ Len(vec) = next - off[d]
    BY DEF Received
  <2>2. off2[l] < off2[l + 1] /\ off2[l + 1] \in Nat
    BY <1>1, <1>2 DEF Layout
  <2> QED
    BY <1>1, <1>2, <2>1, <2>2
<1>5. ASSUME NEW i \in d + 1 .. l + 1, NEW k \in 1 .. MLen(log'[i]),
             off2[i - 1] + k <= next
      PROVE  vec[off2[i - 1] + k - off2[d]] = <<log'[i], k>>
  <2>1. CASE i <= l
    <3>1. i \in d + 1 .. l /\ i - 1 \in 0 .. l /\ i \in 1 .. l
      BY <1>1, <2>1
    <3>2. log'[i] = log[i] /\ off2[i - 1] = off[i - 1] /\ off2[d] = off[d]
      BY <1>1, <1>2, <3>1, AcceptsLog
    <3> QED
      BY <1>5, <3>1, <3>2 DEF Received
  <2>2. CASE i = l + 1
    <3>1. off2[i - 1] = off[l] /\ next <= off[l] /\ off[l] \in Nat
      BY <1>1, <1>2, <2>2 DEF Received
    <3> QED
      BY <1>1, <1>5, <3>1
  <2> QED
    BY <1>1, <2>1, <2>2
<1>6. /\ d <= Len(log') /\ next <= off2[Len(log')]
      /\ \A i \in d + 1 .. Len(log') : \A k \in 1 .. MLen(log'[i]) :
           off2[i - 1] + k <= next => vec[off2[i - 1] + k - off2[d]] = <<log'[i], k>>
  <2>1. d + 1 .. Len(log') = d + 1 .. l + 1 /\ d <= l + 1
    BY <1>1
  <2>2. \A i \in d + 1 .. l + 1 : \A k \in 1 .. MLen(log'[i]) :
           off2[i - 1] + k <= next => vec[off2[i - 1] + k - off2[d]] = <<log'[i], k>>
    BY <1>5
  <2> HIDE DEF l, d
  <2> QED
    BY <1>1, <1>4, <2>1, <2>2
<1>7. off2[d] <= next /\ Len(vec) = next - off2[d]
  BY <1>4
<1>8. Received(off2, log', vec, next, delivered)
  BY <1>3, <1>6, <1>7 DEF Received
<1> QED
  BY <1>8 DEF off2

\* Offsets do not decrease.
LEMMA OffsetsGrow ==
  ASSUME NEW off, NEW q, Layout(off, q),
         NEW i \in 0 .. Len(q), NEW j \in 0 .. Len(q), i <= j
  PROVE  off[i] \in Nat /\ off[j] \in Nat /\ off[i] <= off[j]
<1>1. i = j \/ i < j
  OBVIOUS
<1>2. off[i] \in Nat /\ off[j] \in Nat /\ (i < j => off[i] < off[j])
  BY DEF Layout
<1> QED
  BY <1>1, <1>2

\* Byte k behind offset a, in Buffer from offset o to nx or in what is read up to e.
LEMMA OldOrNew ==
  ASSUME NEW o \in Nat, NEW a \in Nat, NEW nx \in Nat, NEW e \in Nat, NEW v \in Nat,
         NEW k \in Nat \ {0}, o <= a, o <= nx, v = nx - o, nx < e, a + k <= e
  PROVE  \/ a + k <= nx /\ a + k - o \in 1 .. v
         \/ \E j \in 1 .. e - nx : v + j = a + k - o /\ nx + j = a + k
<1>1. CASE a + k <= nx
  BY <1>1
<1>2. CASE a + k > nx
  <2>1. /\ a + k - nx \in 1 .. e - nx
        /\ v + (a + k - nx) = a + k - o /\ nx + (a + k - nx) = a + k
    BY <1>2
  <2> QED
    BY <2>1
<1> QED
  BY <1>1, <1>2

\* What Read appends to Buffer continues it.
LEMMA ReadContinues ==
  ASSUME Typed, NEW s \in Stream, Read(s), NEW off, NEW reach,
         Layout(off, log), Carries(off, reach, log, out),
         Received(off, log, vec, next, delivered)
  PROVE  Received(off, log, vec', next', delivered)
<1> DEFINE l == Len(log)
           d == Len(delivered)
           e == ev[s]
           new == NewBytes(s)
<1>1. /\ vec' = vec \o new /\ next' = e /\ e > next
      /\ vec \in Seq(Byte) /\ next \in Nat /\ e \in Nat /\ d \in Nat /\ l \in Nat
      /\ out[s] \in Seq(Byte) /\ Len(out[s]) \in Nat /\ e <= Len(out[s])
      /\ Len(vec) \in Nat
  <2>1. vec' = vec \o new /\ next' = e /\ e > next
    BY DEF Read, NextAfter, Idle
  <2>2. vec \in Seq(Byte) /\ next \in Nat /\ e \in Nat /\ delivered \in Seq(Seq(Byte))
    BY DEF Typed, TypeOK, Byte
  <2>3. d \in Nat /\ Len(vec) \in Nat
    BY <2>2, LenProperties
  <2>4. l \in Nat /\ out[s] \in Seq(Byte) /\ Len(out[s]) \in Nat
    BY LenProperties, LogTyped, OutTyped DEF Typed
  <2>5. e <= Len(out[s])
    BY DEF Read, Typed, TypeOK, Idle
  <2> QED
    BY <2>1, <2>2, <2>3, <2>4, <2>5
<1>2. new \in Seq(Byte) /\ Len(new) = e - next
      /\ \A j \in 1 .. e - next : new[j] = out[s][next + j]
  <2>1. next <= e
    BY <1>1
  <2> QED
    BY <1>1, <2>1, SubSeqAt, SMTT(30) DEF NewBytes
<1> HIDE DEF new
<1>3. /\ Len(vec') = Len(vec) + (e - next)
      /\ \A p \in 1 .. Len(vec) : vec'[p] = vec[p]
      /\ \A j \in 1 .. e - next : vec'[Len(vec) + j] = out[s][next + j]
  <2>1. e - next \in Nat
    BY <1>1
  <2> QED
    BY <1>1, <1>2, <2>1, ConcatAt, SMTT(30)
<1>4. /\ d <= l /\ off[d] <= next /\ next <= off[l] /\ Len(vec) = next - off[d]
      /\ off[d] \in Nat /\ off[l] \in Nat /\ d \in 0 .. l
  BY <1>1, SMTT(30) DEF Received, Layout
<1>5. /\ reach[s] \in 0 .. l /\ Len(out[s]) = off[reach[s]]
      /\ off[reach[s]] \in Nat /\ off[reach[s]] <= off[l]
  <2>1. reach[s] \in 0 .. l /\ l \in 0 .. l
    BY <1>1 DEF Carries
  <2>2. off[reach[s]] \in Nat /\ off[reach[s]] <= off[l]
    BY <2>1, OffsetsGrow
  <2> QED
    BY <2>1, <2>2 DEF Carries
<1> HIDE DEF l, d, e
<1>6. ASSUME NEW i \in d + 1 .. l, NEW k \in 1 .. MLen(log[i]), off[i - 1] + k <= e
      PROVE  vec'[off[i - 1] + k - off[d]] = <<log[i], k>>
  <2>1. i \in 1 .. l /\ i - 1 \in 0 .. l /\ d <= i - 1 /\ log[i] \in Message
    BY <1>1, <1>4, LogTyped DEF Typed, l
  <2>2. off[i - 1] \in Nat /\ off[d] <= off[i - 1]
    BY <1>4, <2>1, OffsetsGrow DEF l
  <2>3. k \in Nat \ {0}
    BY <2>1, EncodingAt
  <2>4. \/ /\ off[i - 1] + k <= next
           /\ off[i - 1] + k - off[d] \in 1 .. Len(vec)
        \/ \E j \in 1 .. e - next : /\ Len(vec) + j = off[i - 1] + k - off[d]
                                    /\ next + j = off[i - 1] + k
    <3> DEFINE o == off[d]
               a == off[i - 1]
               v == Len(vec)
    <3>1. /\ o \in Nat /\ next \in Nat /\ e \in Nat /\ v \in Nat
          /\ o <= next /\ v = next - o /\ next < e
      BY <1>1, <1>4
    <3>2. a \in Nat /\ o <= a /\ a + k <= e
      BY <1>6, <2>2
    <3> HIDE DEF o, a, v
    <3>3. \/ a + k <= next /\ a + k - o \in 1 .. v
          \/ \E j \in 1 .. e - next : v + j = a + k - o /\ next + j = a + k
      BY <2>3, <3>1, <3>2, OldOrNew
    <3> QED
      BY <3>3 DEF o, a, v
  <2>5. CASE off[i - 1] + k <= next /\ off[i - 1] + k - off[d] \in 1 .. Len(vec)
    <3>1. vec[off[i - 1] + k - off[d]] = <<log[i], k>>
      BY <2>5 DEF Received, l, d
    <3> QED
      BY <1>3, <2>5, <3>1
  <2>6. ASSUME NEW j \in 1 .. e - next, Len(vec) + j = off[i - 1] + k - off[d],
               next + j = off[i - 1] + k
        PROVE  vec'[off[i - 1] + k - off[d]] = <<log[i], k>>
    <3>1. i \in 1 .. reach[s]
      <4> SUFFICES ASSUME reach[s] <= i - 1 PROVE FALSE
        BY <1>5, <2>1
      <4>1. off[reach[s]] <= off[i - 1]
        BY <1>5, <2>1, OffsetsGrow DEF l
      <4>2. e <= off[reach[s]] /\ e \in Nat /\ off[reach[s]] \in Nat
        BY <1>1, <1>5
      <4> QED
        BY <1>6, <2>2, <2>3, <4>1, <4>2
    <3>2. out[s][off[i - 1] + k] = <<log[i], k>>
      BY <3>1 DEF Carries
    <3>3. vec'[Len(vec) + j] = out[s][next + j]
      BY <1>3
    <3> QED
      BY <2>6, <3>2, <3>3
  <2> QED
    BY <2>4, <2>5, <2>6
<1>7. off[d] <= e /\ e <= off[l] /\ Len(vec') = e - off[d]
  BY <1>1, <1>3, <1>4, <1>5, SMTT(30)
<1>8. Received(off, log, vec', e, delivered)
  BY <1>4, <1>6, <1>7 DEF Received, l, d
<1> QED
  BY <1>1, <1>8 DEF e

\* The header in Buffer is that of the next message, so that one is handed over.
LEMMA DeliverNext ==
  ASSUME Typed, NEW s \in Stream, Deliver(s), NEW off,
         Layout(off, log), Received(off, log, vec, next, delivered)
  PROVE  LET m == log[Len(delivered) + 1]
         IN /\ Len(delivered) + 1 \in 1 .. Len(log)
            /\ Len(vec) >= MLen(m)
            /\ \A k \in 1 .. MLen(m) : vec[k] = <<m, k>>
            /\ delivered' = Append(delivered, SubSeq(vec, HeaderLen + 1, MLen(m)))
            /\ vec' = SubSeq(vec, MLen(m) + 1, Len(vec))
<1> DEFINE l == Len(log)
           d == Len(delivered)
           m == log[d + 1]
<1>1. /\ vec \in Seq(Byte) /\ Len(vec) \in Nat /\ next \in Nat /\ d \in Nat /\ l \in Nat
      /\ HeaderLen \in Nat \ {0} /\ Len(vec) >= HeaderLen
  BY LenProperties, LogTyped, ReliableAssumption DEF Deliver, Typed, TypeOK, Byte
<1>2. /\ d <= l /\ off[d] <= next /\ next <= off[l] /\ Len(vec) = next - off[d]
      /\ off[d] \in Nat /\ off[l] \in Nat
  BY <1>1, SMTT(30) DEF Received, Layout
<1>3. d + 1 \in 1 .. l /\ d + 1 \in d + 1 .. l /\ (d + 1) - 1 = d
  <2>1. d # l
    BY <1>1, <1>2
  <2> QED
    BY <1>1, <1>2, <2>1
<1>4. /\ m \in Message /\ MLen(m) \in Nat /\ Size[m] \in Nat
      /\ MLen(m) = HeaderLen + Size[m]
  BY <1>3, LogTyped, EncodingAt DEF Typed, MLen
<1>5. ASSUME NEW k \in 1 .. MLen(m), k <= Len(vec)
      PROVE  vec[k] = <<m, k>>
  <2>1. off[(d + 1) - 1] + k <= next /\ off[(d + 1) - 1] + k - off[d] = k
    BY <1>1, <1>2, <1>3, <1>4, <1>5
  <2>2. vec[off[(d + 1) - 1] + k - off[d]] = <<m, k>>
    BY <1>3, <2>1 DEF Received
  <2> QED
    BY <2>1, <2>2
<1>6. \A k \in 1 .. HeaderLen : k \in 1 .. MLen(m) /\ k <= Len(vec)
  BY <1>1, <1>4
<1>7. ASSUME NEW a \in Message
      PROVE  /\ Header(a) \in Seq(Byte) /\ Len(Header(a)) = HeaderLen
             /\ \A k \in 1 .. HeaderLen : Header(a)[k] = <<a, k>>
  <2>1. /\ MLen(a) \in Nat /\ MLen(a) >= HeaderLen /\ Encoding(a) \in Seq(Byte)
        /\ Len(Encoding(a)) = MLen(a)
        /\ \A k \in 1 .. MLen(a) : Encoding(a)[k] = <<a, k>>
    BY <1>1, EncodingAt DEF MLen
  <2> DEFINE x == Encoding(a)
  <2> HIDE DEF x
  <2>2. /\ SubSeq(x, 1, HeaderLen) \in Seq(Byte)
        /\ Len(SubSeq(x, 1, HeaderLen)) = HeaderLen
        /\ \A k \in 1 .. HeaderLen : SubSeq(x, 1, HeaderLen)[k] = x[k]
    BY <1>1, <2>1, PrefixAt DEF x
  <2>3. \A k \in 1 .. HeaderLen : k \in 1 .. MLen(a)
    BY <1>1, <2>1
  <2> QED
    BY <2>1, <2>2, <2>3 DEF Header, x
<1> DEFINE h == SubSeq(vec, 1, HeaderLen)
<1>8. h \in Seq(Byte) /\ Len(h) = HeaderLen /\ \A k \in 1 .. HeaderLen : h[k] = vec[k]
  BY <1>1, PrefixAt
<1> HIDE DEF h
<1>9. \A a \in Message : Header(a) = h <=> a = m
  <2> TAKE a \in Message
  <2>1. ASSUME Header(a) = h PROVE a = m
    <3>1. 1 \in 1 .. HeaderLen
      BY <1>1
    <3>2. Header(a)[1] = <<a, 1>> /\ h[1] = vec[1] /\ vec[1] = <<m, 1>>
      BY <1>5, <1>6, <1>7, <1>8, <3>1
    <3> QED
      BY <2>1, <3>2
  <2>2. Header(m) = h
    <3>1. \A k \in 1 .. HeaderLen : Header(m)[k] = h[k]
      BY <1>4, <1>5, <1>6, <1>7, <1>8
    <3>2. Header(m) \in Seq(Byte) /\ Len(Header(m)) = HeaderLen
      BY <1>4, <1>7
    <3> QED
      BY <1>8, <3>1, <3>2, SeqEqual
  <2> QED
    BY <2>1, <2>2
<1>10. MsgLen = {Size[m]}
  <2>1. {a \in Message : Header(a) = SubSeq(vec, 1, HeaderLen)} = {m}
    BY <1>4, <1>9 DEF h
  <2> QED
    BY <2>1 DEF MsgLen
<1>11. /\ Len(vec) >= MLen(m)
       /\ delivered' = Append(delivered, SubSeq(vec, HeaderLen + 1, MLen(m)))
       /\ vec' = SubSeq(vec, MLen(m) + 1, Len(vec))
  BY <1>4, <1>10 DEF Deliver
<1>12. ASSUME NEW k \in 1 .. MLen(m) PROVE vec[k] = <<m, k>>
  <2>1. k <= Len(vec)
    <3>1. MLen(m) \in Nat /\ Len(vec) \in Nat /\ Len(vec) >= MLen(m)
      BY <1>1, <1>4, <1>11
    <3> HIDE DEF m
    <3> QED
      BY <3>1
  <2> QED
    BY <1>5, <2>1
<1> QED
  BY <1>3, <1>11, <1>12

\* Handing a message over leaves in Buffer what comes after it.
LEMMA DeliverContinues ==
  ASSUME Typed, NEW s \in Stream, Deliver(s), NEW off,
         Layout(off, log), Received(off, log, vec, next, delivered)
  PROVE  /\ Len(delivered) + 1 \in 1 .. Len(log)
         /\ delivered' = Append(delivered, Data(log[Len(delivered) + 1]))
         /\ Received(off, log, vec', next, delivered')
<1> DEFINE l == Len(log)
           d == Len(delivered)
           m == log[d + 1]
           ml == MLen(m)
           b == SubSeq(vec, HeaderLen + 1, ml)
<1>1. /\ d + 1 \in 1 .. l /\ Len(vec) >= ml
      /\ \A k \in 1 .. ml : vec[k] = <<m, k>>
      /\ delivered' = Append(delivered, b)
      /\ vec' = SubSeq(vec, ml + 1, Len(vec))
  BY DeliverNext
<1>2. /\ vec \in Seq(Byte) /\ Len(vec) \in Nat /\ next \in Nat /\ d \in Nat /\ l \in Nat
      /\ delivered \in Seq(Seq(Byte))
  BY LenProperties, LogTyped DEF Typed, TypeOK, Byte
<1>3. /\ m \in Message /\ ml \in Nat \ {0} /\ HeaderLen \in Nat /\ HeaderLen <= ml
      /\ ml = HeaderLen + Size[m]
      /\ Encoding(m) \in Seq(Byte) /\ Len(Encoding(m)) = ml
      /\ \A k \in 1 .. ml : Encoding(m)[k] = <<m, k>>
  <2>1. m \in Message
    BY <1>1, LogTyped DEF Typed
  <2>2. ml \in Nat \ {0} /\ HeaderLen \in Nat /\ Size[m] \in Nat /\ ml = HeaderLen + Size[m]
    BY <2>1, EncodingAt DEF MLen
  <2> QED
    BY <2>1, <2>2, EncodingAt
<1>4. b = Data(m) /\ b \in Seq(Byte)
  <2> DEFINE x == Encoding(m)
             y == SubSeq(x, HeaderLen + 1, ml)
  <2>1. /\ b \in Seq(Byte) /\ Len(b) = ml - HeaderLen
        /\ \A k \in 1 .. ml - HeaderLen : b[k] = vec[HeaderLen + k]
    <3> HIDE DEF ml
    <3>1. ml \in Nat /\ HeaderLen \in Nat /\ HeaderLen <= ml /\ ml <= Len(vec)
      BY <1>1, <1>2, <1>3
    <3> QED
      BY <1>2, <3>1, SubSeqAt
  <2>2. /\ y \in Seq(Byte) /\ Len(y) = ml - HeaderLen
        /\ \A k \in 1 .. ml - HeaderLen : y[k] = x[HeaderLen + k]
    <3> HIDE DEF x, ml
    <3> QED
      BY <1>3, SubSeqAt, SMTT(30) DEF x
  <2>3. y = Data(m)
    BY <1>3 DEF Data
  <2> HIDE DEF x, y, b, ml, m
  <2>4. ASSUME NEW k \in 1 .. ml - HeaderLen PROVE b[k] = y[k]
    <3>1. HeaderLen + k \in 1 .. ml
      BY <1>3
    <3>2. vec[HeaderLen + k] = x[HeaderLen + k]
      BY <1>1, <1>3, <3>1 DEF x
    <3> QED
      BY <2>1, <2>2, <3>2
  <2>5. b = y
    BY <2>1, <2>2, <2>4, SeqEqual
  <2> QED
    BY <2>1, <2>3, <2>5
<1> HIDE DEF b
<1>5. /\ Len(vec') = Len(vec) - ml
      /\ \A k \in 1 .. Len(vec) - ml : vec'[k] = vec[ml + k]
  <2> HIDE DEF ml
  <2>1. ml \in Nat /\ ml <= Len(vec) /\ vec' = SubSeq(vec, ml + 1, Len(vec))
    BY <1>1, <1>2, <1>3
  <2> QED
    BY <1>2, <2>1, SubSeqAt
<1>6. /\ Len(delivered') = d + 1
      /\ \A i \in 1 .. d : delivered'[i] = delivered[i]
      /\ delivered'[d + 1] = Data(m)
  BY <1>1, <1>2, <1>4, AppendProperties
<1>7. /\ d \in 0 .. l /\ d + 1 \in 0 .. l /\ l \in 0 .. l /\ (d + 1) - 1 = d
      /\ off[d + 1] = off[d] + ml /\ off[d] \in Nat /\ off[d + 1] \in Nat /\ off[l] \in Nat
  <2>1. d \in 0 .. l /\ d + 1 \in 0 .. l /\ l \in 0 .. l /\ (d + 1) - 1 = d
    BY <1>1, <1>2
  <2> QED
    BY <1>1, <2>1 DEF Layout
<1>8. off[d] <= next /\ next <= off[l] /\ Len(vec) = next - off[d]
  BY DEF Received
<1>9. \A i \in 1 .. d + 1 : delivered'[i] = Data(log[i])
  <2> SUFFICES ASSUME NEW i \in 1 .. d + 1 PROVE delivered'[i] = Data(log[i])
    OBVIOUS
  <2>1. CASE i = d + 1
    BY <1>6, <2>1
  <2>2. CASE i # d + 1
    <3>1. i \in 1 .. d
      BY <1>2, <2>2
    <3> QED
      BY <1>6, <3>1 DEF Received
  <2> QED
    BY <2>1, <2>2
<1> HIDE DEF ml, m
<1>10. off[d + 1] <= next /\ Len(vec') = next - off[d + 1]
  <2> DEFINE o == off[d]
             o2 == off[d + 1]
             v == Len(vec)
  <2>1. /\ o \in Nat /\ o2 = o + ml /\ v = next - o /\ ml <= v /\ ml \in Nat
        /\ v \in Nat /\ next \in Nat /\ Len(vec') = v - ml
    BY <1>1, <1>2, <1>3, <1>5, <1>7, <1>8
  <2> HIDE DEF o, o2, v
  <2>2. o2 <= next /\ Len(vec') = next - o2
    BY <2>1
  <2> QED
    BY <2>2 DEF o2
<1>11. ASSUME NEW i \in (d + 1) + 1 .. l, NEW k \in 1 .. MLen(log[i]), off[i - 1] + k <= next
       PROVE  vec'[off[i - 1] + k - off[d + 1]] = <<log[i], k>>
  <2>1. i \in d + 1 .. l /\ i \in 1 .. l /\ i - 1 \in 0 .. l /\ d + 1 <= i - 1
    BY <1>2
  <2>2. off[i - 1] \in Nat /\ off[d + 1] <= off[i - 1]
    BY <1>7, <2>1, OffsetsGrow
  <2>3. k \in Nat \ {0}
    BY <2>1, LogTyped, EncodingAt, SMTT(30) DEF Typed
  <2>4. vec[off[i - 1] + k - off[d]] = <<log[i], k>>
    BY <1>11, <2>1 DEF Received
  <2>5. /\ off[i - 1] + k - off[d + 1] \in 1 .. Len(vec) - ml
        /\ ml + (off[i - 1] + k - off[d + 1]) = off[i - 1] + k - off[d]
    <3> DEFINE o == off[d]
               o2 == off[d + 1]
               a == off[i - 1]
               v == Len(vec)
    <3>1. /\ o \in Nat /\ o2 \in Nat /\ a \in Nat /\ ml \in Nat /\ o2 = o + ml /\ o2 <= a
          /\ next \in Nat /\ v = next - o /\ a + k <= next
      BY <1>2, <1>3, <1>7, <1>8, <1>11, <2>2
    <3> HIDE DEF o, o2, a, v
    <3>2. a + k - o2 \in 1 .. v - ml /\ ml + (a + k - o2) = a + k - o
      BY <2>3, <3>1
    <3> QED
      BY <3>2 DEF o, o2, a, v
  <2> DEFINE p == off[i - 1] + k - off[d + 1]
  <2> HIDE DEF p
  <2>6. vec'[p] = vec[ml + p]
    BY <1>5, <2>5 DEF p
  <2>7. ml + p = off[i - 1] + k - off[d]
    BY <2>5 DEF p
  <2> QED
    BY <2>4, <2>6, <2>7 DEF p
<1>12. Received(off, log, vec', next, delivered')
  <2>1. Len(delivered') = d + 1 /\ d + 1 <= l
    BY <1>1, <1>2, <1>6
  <2> HIDE DEF d, l
  <2> QED
    BY <1>8, <1>9, <1>10, <1>11, <2>1 DEF Received, l
<1> QED
  BY <1>1, <1>4, <1>12 DEF m

LEMMA InitByteInv == Init => ByteInv
<1> SUFFICES ASSUME Init PROVE ByteInv
  OBVIOUS
<1> DEFINE off == [i \in 0 .. 0 |-> 0]
           reach == [s \in Stream |-> 0]
<1>1. /\ log = <<>> /\ out = [s \in Stream |-> <<>>] /\ vec = <<>> /\ next = 0
      /\ delivered = <<>>
  BY DEF Init
<1>2. Layout(off, log)
  BY <1>1, EmptySeq DEF Layout
<1>3. Carries(off, reach, log, out)
  BY <1>1, EmptySeq DEF Carries, Stream
<1>4. Received(off, log, vec, next, delivered)
  BY <1>1, EmptySeq DEF Received
<1> HIDE DEF off, reach
<1> QED
  BY <1>2, <1>3, <1>4 DEF ByteInv

LEMMA AcceptsByteInv ==
  ASSUME Typed, SInv, ByteInv, NEW t \in Sender, NEW s \in Stream, Accepts(t, s),
         UNCHANGED receiverVars
  PROVE  ByteInv'
<1> SUFFICES ASSUME Mirrored', chan' = "open"
             PROVE  \E off, reach : /\ Layout(off, log')
                                    /\ Carries(off, reach, log', out')
                                    /\ Received(off, log', vec', next', delivered')
  BY DEF ByteInv
<1>1. UNCHANGED <<vec, next, delivered, chan>>
  BY DEF receiverVars
<1>2. Mirrored /\ chan = "open"
  BY <1>1, MirroredBefore
<1>3. PICK off, reach : /\ Layout(off, log) /\ Carries(off, reach, log, out)
                        /\ Received(off, log, vec, next, delivered)
  BY <1>2 DEF ByteInv
<1>4. CASE sending[t].sent
  <2>1. log' = log
    BY <1>4 DEF Accepts
  <2>2. reach[s] # Len(log)
    BY <1>3, <1>4, NotAllOn
  <2>3. log[reach[s] + 1] = sending[t].msg
    BY <1>3, <2>2, NextInLog
  <2>4. Carries(off, [reach EXCEPT ![s] = @ + 1], log, out')
    BY <1>3, <2>1, <2>2, <2>3, SendAgain
  <2> QED
    BY <1>1, <1>3, <2>1, <2>4
<1>5. CASE ~sending[t].sent
  <2>1. reach[s] = Len(log)
    <3> SUFFICES ASSUME reach[s] # Len(log) PROVE FALSE
      OBVIOUS
    <3>1. log[reach[s] + 1] = sending[t].msg
      BY <1>3, NextInLog
    <3>2. reach[s] + 1 \in 1 .. Len(log)
      BY <1>3, LogTyped DEF Typed, Carries
    <3> QED
      BY <1>5, <3>1, <3>2 DEF SInv, LoggedWhenSent
  <2>2. Layout(Longer(off, sending[t].msg), log')
    BY <1>3, <1>5, LongerLayout
  <2>3. Carries(Longer(off, sending[t].msg), [reach EXCEPT ![s] = @ + 1], log', out')
    BY <1>3, <1>5, <2>1, SendNew
  <2>4. Received(Longer(off, sending[t].msg), log', vec, next, delivered)
    BY <1>3, <1>5, ReceivedStill
  <2> QED
    BY <1>1, <2>2, <2>3, <2>4
<1> QED
  BY <1>4, <1>5

LEMMA ByteInvUnchanged ==
  ASSUME ByteInv, UNCHANGED <<log, out, vec, next, delivered>>,
         chan' = "open" => chan = "open"
  PROVE  ByteInv'
<1>1. Mirrored' => Mirrored
  BY DEF Mirrored
<1>2. CASE Mirrored' /\ chan' = "open"
  <2>1. PICK off, reach : /\ Layout(off, log) /\ Carries(off, reach, log, out)
                          /\ Received(off, log, vec, next, delivered)
    BY <1>1, <1>2 DEF ByteInv
  <2> QED
    BY <2>1 DEF ByteInv
<1> QED
  BY <1>2 DEF ByteInv

LEMMA ReceiveByteInv ==
  ASSUME Typed, ByteInv, NEW s \in Stream, Receive(s)
  PROVE  ByteInv'
<1>1. CASE Indicate(s) \/ Skip(s) \/ ReadTooLate(s) \/ EndReceive(s)
  BY <1>1, ByteInvUnchanged
     DEF Indicate, Skip, ReadTooLate, EndReceive, senderVars
<1>2. CASE IndicateExpired(s)
  BY <1>2 DEF IndicateExpired, ByteInv
<1>3. ASSUME Read(s) \/ Deliver(s), Mirrored', chan' = "open"
      PROVE  \E off, reach : /\ Layout(off, log') /\ Carries(off, reach, log', out')
                             /\ Received(off, log', vec', next', delivered')
  <2>1. UNCHANGED <<log, out, chan>>
    BY <1>3 DEF Read, Deliver, senderVars
  <2>2. Mirrored /\ chan = "open"
    BY <1>3, <2>1 DEF Mirrored
  <2>3. PICK off, reach : /\ Layout(off, log) /\ Carries(off, reach, log, out)
                          /\ Received(off, log, vec, next, delivered)
    BY <2>2 DEF ByteInv
  <2>4. CASE Read(s)
    <3>1. delivered' = delivered
      BY <2>4 DEF Read
    <3> QED
      BY <2>1, <2>3, <2>4, <3>1, ReadContinues
  <2>5. CASE Deliver(s)
    <3>1. next' = next
      BY <2>5 DEF Deliver
    <3> QED
      BY <2>1, <2>3, <2>5, <3>1, DeliverContinues
  <2> QED
    BY <1>3, <2>4, <2>5
<1> QED
  BY <1>1, <1>2, <1>3 DEF Receive, ByteInv

LEMMA NextByteInv == Typed /\ SInv /\ ByteInv /\ [Next]_vars => ByteInv'
<1> SUFFICES ASSUME Typed, SInv, ByteInv, [Next]_vars PROVE ByteInv'
  OBVIOUS
<1>1. ASSUME NEW t \in Sender, NEW s \in Stream, SendOn(t, s) PROVE ByteInv'
  <2>1. CASE Accepts(t, s)
    BY <1>1, <2>1, SendOnCases, AcceptsByteInv
  <2>2. CASE ~Accepts(t, s)
    BY <1>1, <2>2, SendOnCases, ByteInvUnchanged DEF receiverVars
  <2> QED
    BY <2>1, <2>2
<1>2. ASSUME NEW t \in Sender, BeginSend(t) \/ EndSend(t) PROVE ByteInv'
  BY <1>2, ByteInvUnchanged DEF BeginSend, EndSend, receiverVars
<1>3. CASE PeerStreamStarted \/ \E s \in Stream : StreamLost(s)
  BY <1>3, ByteInvUnchanged DEF PeerStreamStarted, StreamLost, receiverVars
<1>4. CASE ClearChannel
  BY <1>4 DEF ClearChannel, ByteInv
<1>5. CASE ExpireContext
  BY <1>5 DEF ExpireContext, ByteInv
<1>6. CASE UNCHANGED vars
  BY <1>6, ByteInvUnchanged DEF vars, senderVars, receiverVars
<1> QED
  BY <1>1, <1>2, <1>3, <1>4, <1>5, <1>6, ReceiveByteInv DEF Next, Send

LEMMA StepImplements ==
  ASSUME Typed, ByteInv, [Next]_vars, Mirrored', chan' = "open"
  PROVE  [Channel!Next]_<<accepted, delivered>>
<1>1. CASE UNCHANGED <<log, delivered>>
  BY <1>1 DEF accepted
<1>2. ASSUME NEW t \in Sender, NEW s \in Stream, SendOn(t, s)
      PROVE  [Channel!Next]_<<accepted, delivered>>
  <2>1. delivered' = delivered
    BY <1>2, SendOnCases DEF receiverVars
  <2>2. CASE Accepts(t, s) /\ ~sending[t].sent
    <3> DEFINE m == sending[t].msg
               d == Data(m)
    <3>1. /\ m \in Message /\ Len(log) \in Nat /\ Len(log') = Len(log) + 1
          /\ \A i \in 1 .. Len(log) : log'[i] = log[i]
          /\ log'[Len(log) + 1] = m
      BY <2>2, AcceptsOut, AcceptsLog, LogTyped DEF Typed
    <3>2. /\ accepted' = [i \in 1 .. Len(log') |-> Data(log'[i])]
          /\ DOMAIN accepted' = 1 .. Len(log) + 1
          /\ accepted = [i \in 1 .. Len(log) |-> Data(log[i])]
      BY <3>1 DEF accepted
    <3> HIDE DEF d
    <3>3. accepted' = Append(accepted, d)
      <4>1. accepted \in Seq({Data(a) : a \in Message}) /\ Len(accepted) = Len(log)
        BY <3>1, <3>2, LogTyped DEF Typed
      <4> QED
        BY <3>1, <3>2, <4>1 DEF d
    <3>4. d \in {Data(a) : a \in Message}
      BY <3>1 DEF d
    <3> QED
      BY <2>1, <3>3, <3>4 DEF Channel!Next, Channel!Accept
  <2>3. CASE ~(Accepts(t, s) /\ ~sending[t].sent)
    <3>1. log' = log
      BY <1>2, <2>3, SendOnCases DEF Accepts
    <3> QED
      BY <1>1, <2>1, <3>1
  <2> QED
    BY <2>2, <2>3
<1>3. ASSUME NEW s \in Stream, Deliver(s)
      PROVE  [Channel!Next]_<<accepted, delivered>>
  <2>1. UNCHANGED <<log, out, chan>>
    BY <1>3 DEF Deliver, senderVars
  <2>2. PICK off, reach : /\ Layout(off, log) /\ Carries(off, reach, log, out)
                          /\ Received(off, log, vec, next, delivered)
    BY <2>1 DEF ByteInv, Mirrored
  <2>3. /\ Len(delivered) + 1 \in 1 .. Len(log)
        /\ delivered' = Append(delivered, Data(log[Len(delivered) + 1]))
    BY <1>3, <2>2, DeliverContinues
  <2>4. Len(accepted) = Len(log) /\ Len(log) \in Nat /\ Len(delivered) \in Nat
    BY LogTyped, LenProperties DEF accepted, Typed, TypeOK
  <2>5. accepted[Len(delivered) + 1] = Data(log[Len(delivered) + 1])
    BY <2>3 DEF accepted
  <2>6. Len(delivered) < Len(accepted) /\ accepted' = accepted
    BY <2>1, <2>3, <2>4 DEF accepted
  <2> QED
    BY <2>3, <2>5, <2>6 DEF Channel!Next, Channel!Deliver
<1>4. ASSUME NEW s \in Stream, Receive(s), ~Deliver(s)
      PROVE  [Channel!Next]_<<accepted, delivered>>
  BY <1>1, <1>4 DEF Receive, Indicate, IndicateExpired, Skip, Read, ReadTooLate,
                    EndReceive, senderVars
<1>5. ASSUME NEW t \in Sender, BeginSend(t) \/ EndSend(t)
      PROVE  [Channel!Next]_<<accepted, delivered>>
  BY <1>1, <1>5 DEF BeginSend, EndSend, receiverVars
<1>6. CASE \/ PeerStreamStarted \/ (\E s \in Stream : StreamLost(s))
           \/ ClearChannel \/ ExpireContext \/ UNCHANGED vars
  BY <1>1, <1>6 DEF PeerStreamStarted, StreamLost, ClearChannel, ExpireContext, vars,
                    senderVars, receiverVars
<1> QED
  BY <1>2, <1>3, <1>4, <1>5, <1>6 DEF Next, Send

(***************************************************************************)
(* While the streams carry the same bytes and nothing is reset, accepting  *)
(* and handing over are the steps of one reliable channel                  *)
(* (ReliablePacketSend and the RECEIVE handler).                           *)
(***************************************************************************)
THEOREM ImplementsMessageChannel == Spec => ChannelWhileMirrored
<1>1. Init => Channel!Init
  BY DEF Init, accepted, Channel!Init
<1>2. Typed /\ ByteInv /\ [Next]_vars =>
        [Mirrored' /\ chan' = "open" => [Channel!Next]_<<accepted, delivered>>]_vars
  BY StepImplements
<1>3. Typed /\ IInv /\ [Next]_vars => Typed'
  BY NextTyped
<1> QED
  BY <1>1, <1>2, <1>3, InitTyped, Inductive, InitSInv, NextSInv, InitByteInv, NextByteInv,
     PTL DEF Spec, ChannelWhileMirrored

-----------------------------------------------------------------------------
(***************************************************************************)
(* Whenever no RECEIVE handler is at work the loop has left less than a    *)
(* header in Buffer.                                                       *)
(***************************************************************************)
Drained == holder = "nobody" => Len(vec) < HeaderLen

LEMMA NextDrained ==
  ASSUME Drained, [Next]_vars
  PROVE  Drained'
<1> USE DEF Drained
<1>n. "nobody" \notin Stream /\ Len(<<>>) < HeaderLen
  BY EmptySeq, ReliableAssumption DEF Stream
<1>1. CASE UNCHANGED receiverVars
  BY <1>1 DEF receiverVars
<1>2. CASE Send \/ PeerStreamStarted \/ \E s \in Stream : StreamLost(s)
  BY <1>1, <1>2 DEF Send, BeginSend, EndSend, SendOn, PeerStreamStarted, StreamLost
<1>3. ASSUME NEW s \in Stream, Receive(s) PROVE Drained'
  <2>1. CASE Indicate(s) \/ Skip(s)
    BY <2>1 DEF Indicate, Skip
  <2>2. CASE IndicateExpired(s)
    BY <1>n, <2>2 DEF IndicateExpired
  <2>3. CASE Read(s) \/ ReadTooLate(s)
    BY <1>n, <2>3 DEF Read, ReadTooLate
  <2>4. CASE Deliver(s)
    BY <1>n, <2>4 DEF Deliver
  <2>5. CASE EndReceive(s)
    BY <2>5 DEF EndReceive
  <2> QED
    BY <1>3, <2>1, <2>2, <2>3, <2>4, <2>5 DEF Receive
<1>4. CASE ClearChannel \/ ExpireContext
  BY <1>n, <1>4 DEF ClearChannel, ExpireContext
<1>5. CASE UNCHANGED vars
  BY <1>1, <1>5 DEF vars
<1> QED
  BY <1>2, <1>3, <1>4, <1>5 DEF Next

LEMMA AllHandedOver ==
  ASSUME Typed, IInv, ByteInv, Drained
  PROVE  NothingHeldBack
<1> SUFFICES ASSUME Mirrored, chan = "open", holder = "nobody", NEW s \in Stream,
                    HasAllBytes(s), pos[s] = Len(out[s])
             PROVE  Len(delivered) = Len(log)
  BY DEF NothingHeldBack
<1> DEFINE l == Len(log)
           d == Len(delivered)
<1>1. PICK off, reach : /\ Layout(off, log) /\ Carries(off, reach, log, out)
                        /\ Received(off, log, vec, next, delivered)
  BY DEF ByteInv
<1>2. /\ l \in Nat /\ d \in Nat /\ d <= l /\ next \in Nat /\ Len(vec) \in Nat
      /\ HeaderLen \in Nat /\ Len(vec) < HeaderLen
  BY <1>1, LogTyped, LenProperties, ReliableAssumption
  DEF Typed, TypeOK, Received, Drained
<1>3. /\ d \in 0 .. l /\ l \in 0 .. l /\ off[d] \in Nat /\ off[l] \in Nat
      /\ next <= off[l] /\ Len(vec) = next - off[d] /\ off[d] <= next
  BY <1>1, <1>2 DEF Layout, Received
<1>4. off[l] <= next
  <2>1. PICK r \in Stream : reach[r] = l
    BY <1>1 DEF Carries
  <2>2. Len(out[r]) = off[l]
    BY <1>1, <2>1 DEF Carries
  <2>3. off[l] <= pos[s]
    BY <2>2 DEF HasAllBytes
  <2>4. pos[s] <= next /\ pos[s] \in Nat
    BY DEF IInv, NobodyAhead, OffsetsTyped
  <2> QED
    BY <1>2, <1>3, <2>3, <2>4
<1>5. ASSUME d # l PROVE FALSE
  <2>1. d + 1 \in 1 .. l /\ d + 1 \in 0 .. l /\ (d + 1) - 1 = d /\ d + 1 <= l
    BY <1>2, <1>5
  <2>2. log[d + 1] \in Message
    BY <2>1, LogTyped DEF Typed
  <2>3. MLen(log[d + 1]) \in Nat /\ MLen(log[d + 1]) >= HeaderLen
    BY <2>2, EncodingAt DEF MLen
  <2>4. off[d + 1] = off[d] + MLen(log[d + 1])
    BY <1>1, <2>1 DEF Layout
  <2>5. off[d + 1] \in Nat /\ off[d + 1] <= off[l]
    BY <1>1, <1>3, <2>1, OffsetsGrow
  <2> DEFINE ml == MLen(log[d + 1])
  <2> HIDE DEF ml
  <2>6. off[d + 1] = off[d] + ml /\ ml \in Nat /\ ml >= HeaderLen
    BY <2>3, <2>4 DEF ml
  <2> QED
    BY <1>2, <1>3, <1>4, <2>5, <2>6
<1> QED
  BY <1>5

(***************************************************************************)
(* While the streams carry the same bytes and nothing is reset, a stream   *)
(* that has them all and was read to its end means that all messages were  *)
(* handed over (the loop of the RECEIVE handler).                          *)
(***************************************************************************)
THEOREM ReadIsHandedOver == Spec => []NothingHeldBack
<1>1. Init => Drained
  BY EmptySeq, ReliableAssumption DEF Init, Drained
<1>2. Drained /\ [Next]_vars => Drained'
  BY NextDrained
<1>3. Typed /\ IInv /\ [Next]_vars => Typed'
  BY NextTyped
<1>4. Typed /\ IInv /\ ByteInv /\ Drained => NothingHeldBack
  BY AllHandedOver
<1> QED
  BY <1>1, <1>2, <1>3, <1>4, InitTyped, Inductive, InitSInv, NextSInv, InitByteInv,
     NextByteInv, PTL DEF Spec
=============================================================================
