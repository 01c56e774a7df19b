---------------------------- MODULE KoiReliable -----------------------------
(***************************************************************************)
(* One direction of one reliable channel of koichan.h.  Every message goes *)
(* over two QUIC streams, the one the sender opened (its Self) and the one *)
(* the receiver opened (its Peer), in the hope that one of them gets       *)
(* through; the receiver tells by the byte offset what it has seen.        *)
(*                                                                         *)
(* The two streams belong to two connections, whose events MsQuic runs on  *)
(* different threads; the application sends and disconnects on threads of  *)
(* its own.  A step is what a thread does between two points where another *)
(* may come in: a lock, an unlock, a call of MsQuic.                       *)
(***************************************************************************)
EXTENDS Integers, Sequences, FiniteSets

CONSTANTS
  Sender,         \* threads that call ReliablePacketSend
  NumMessages,    \* messages are sent in the order 1, 2, ...
  Size,           \* Size[m]: data.size() of message m
  HeaderLen,      \* bytes of the length before the data (4 in the code)
  GarbledLength,  \* lengths that bytes which are no header may be read as
  KnownAtStart,   \* the sender's streams that exist when it begins to send
  SplitMessages,  \* whether a RECEIVE event may end inside a message
  MayDisconnect   \* whether the receiver may call Disconnect

Stream == {"peer", "self"}
Message == 1 .. NumMessages
Idle == 0

ASSUME ReliableAssumption ==
  /\ NumMessages \in Nat
  /\ Size \in [Message -> Nat]
  /\ HeaderLen \in Nat \ {0}
  /\ GarbledLength \subseteq Nat
  /\ KnownAtStart \subseteq Stream
  /\ SplitMessages \in BOOLEAN /\ MayDisconnect \in BOOLEAN

VARIABLES
  known,     \* the sender's stream handles that are not null
  down,      \* streams whose connection is lost
  started,   \* how many messages ReliablePacketSend was called with
  sending,   \* sending[t]: the message thread t is sending, and where to
  log,       \* messages that at least one StreamSend accepted
  out,       \* out[s]: the bytes sent on stream s
  pos,       \* pos[s]: AbsoluteOffset of the next RECEIVE event of s
  ev,        \* ev[s]: end of the RECEIVE event under way, or Idle
  holder,    \* the thread of which stream holds RecvMutex, or "nobody"
  vec,       \* Buffer
  next,      \* NextRecvByte
  delivered, \* what OnReliableReceive was called with
  chan       \* how far a Disconnect got: "open", "cleared", "expired"

senderVars == <<known, started, sending, log, out>>
receiverVars == <<pos, ev, holder, vec, next, delivered, chan>>
vars == <<senderVars, receiverVars, down>>

\* The bytes of a message: <<m, k>> is byte k of the header and the data.
Encoding(m) == [k \in 1 .. HeaderLen + Size[m] |-> <<m, k>>]
Header(m) == SubSeq(Encoding(m), 1, HeaderLen)
Data(m) == SubSeq(Encoding(m), HeaderLen + 1, HeaderLen + Size[m])

NotSending == [msg |-> 0, to |-> {}, sent |-> FALSE]

Init ==
  /\ known = KnownAtStart /\ down = {}
  /\ started = 0 /\ sending = [t \in Sender |-> NotSending]
  /\ log = <<>> /\ out = [s \in Stream |-> <<>>]
  /\ pos = [s \in Stream |-> 0] /\ ev = [s \in Stream |-> Idle]
  /\ holder = "nobody" /\ vec = <<>> /\ next = 0
  /\ delivered = <<>> /\ chan = "open"

-----------------------------------------------------------------------------
\* PEER_STREAM_STARTED at the sender: the receiver's stream becomes known.
PeerStreamStarted ==
  /\ known' = known \cup {"peer"}
  /\ known' # known /\ "peer" \notin down
  /\ UNCHANGED <<down, started, sending, log, out, receiverVars>>

\* A connection is lost, and SHUTDOWN_COMPLETE drops its streams' handles.
StreamLost(s) ==
  /\ s \notin down
  /\ down' = down \cup {s}
  /\ known' = known \ {s}
  /\ UNCHANGED <<started, sending, log, out, receiverVars>>

\* The streams a message is sent on: copies of the handles that are not null.
Handles(S) == S

\* ReliablePacketSend, up to its second loop
BeginSend(t) ==
  /\ sending[t] = NotSending
  /\ started < NumMessages
  /\ started' = started + 1
  /\ sending' = [sending EXCEPT ![t] =
                   [msg |-> started + 1, to |-> Handles(known), sent |-> FALSE]]
  /\ UNCHANGED <<known, down, log, out, receiverVars>>

\* StreamSend on a stream that is lost fails.
SendOn(t, s) ==
  LET m == sending[t].msg
  IN /\ s \in sending[t].to
     /\ s = "peer" \/ "peer" \notin sending[t].to
     /\ \/ /\ s \in down
           /\ sending' = [sending EXCEPT ![t].to = @ \ {s}]
           /\ UNCHANGED <<log, out>>
        \/ /\ s \notin down
           /\ sending' = [sending EXCEPT ![t].to = @ \ {s}, ![t].sent = TRUE]
           /\ out' = [out EXCEPT ![s] = @ \o Encoding(m)]
           /\ log' = IF sending[t].sent THEN log ELSE Append(log, m)
     /\ UNCHANGED <<known, down, started, receiverVars>>

EndSend(t) ==
  /\ sending[t].msg # 0 /\ sending[t].to = {}
  /\ sending' = [sending EXCEPT ![t] = NotSending]
  /\ UNCHANGED <<known, down, started, log, out, receiverVars>>

-----------------------------------------------------------------------------
\* n is where a message ends in the bytes of s.
EndsMessage(s, n) ==
  n = Len(out[s]) \/ (n < Len(out[s]) /\ out[s][n + 1][2] = 1)

(***************************************************************************)
(* QUIC_STREAM_EVENT_RECEIVE.  MsQuic indicates the bytes of a stream in   *)
(* order.  An event of several buffers is several events here: the code    *)
(* reads one buffer after the other, and the model only allows the other   *)
(* stream to come in between.                                              *)
(***************************************************************************)

\* Up to recvLock, with a channel context that has not expired.
Indicate(s) ==
  /\ ev[s] = Idle /\ s \notin down
  /\ chan # "expired"
  /\ \E n \in pos[s] + 1 .. Len(out[s]) :
       /\ SplitMessages \/ EndsMessage(s, n)
       /\ ev' = [ev EXCEPT ![s] = n]
  /\ UNCHANGED <<senderVars, down, pos, holder, vec, next, delivered, chan>>

\* With an expired one the connection is dropped: Reset.
IndicateExpired(s) ==
  /\ ev[s] = Idle /\ s \notin down
  /\ chan = "expired" /\ holder = "nobody"
  /\ pos[s] < Len(out[s])
  /\ vec' = <<>> /\ next' = 0
  /\ UNCHANGED <<senderVars, down, pos, ev, holder, delivered, chan>>

\* Mutation of Done: the event's end is taken for its length.
DoneAddsEnd(s) ==
  /\ pos' = [pos EXCEPT ![s] = @ + ev[s]]
  /\ ev' = [ev EXCEPT ![s] = Idle]

Done(s) ==
  /\ pos' = [pos EXCEPT ![s] = ev[s]]
  /\ ev' = [ev EXCEPT ![s] = Idle]

\* "We received newer data from another stream."
Skip(s) ==
  /\ ev[s] # Idle /\ holder = "nobody"
  /\ ev[s] <= next
  /\ Done(s)
  /\ UNCHANGED <<senderVars, down, holder, vec, next, delivered, chan>>

\* Mutation of NewBytes: bytes that were read before are not skipped.
NewBytesAll(s) == SubSeq(out[s], pos[s] + 1, ev[s])

\* The event's bytes from desiredByte on
NewBytes(s) == SubSeq(out[s], next + 1, ev[s])

\* Mutation of NextAfter: NextRecvByte stays.
NextAfterStays(s) == next

\* Mutation of NextAfter: one byte too many is taken as read.
NextAfterOneMore(s) == ev[s] + 1

\* bufEndOffset
NextAfter(s) == ev[s]

Read(s) ==
  /\ ev[s] # Idle /\ holder = "nobody"
  /\ ev[s] > next /\ next >= pos[s]
  /\ vec' = vec \o NewBytes(s)
  /\ next' = NextAfter(s)
  /\ holder' = s
  /\ UNCHANGED <<senderVars, down, pos, ev, delivered, chan>>

\* desiredByte is before the event's first byte.  Reset locks the RecvMutex
\* that this thread holds, and never returns.
ReadTooLate(s) ==
  /\ ev[s] # Idle /\ holder = "nobody"
  /\ ev[s] > next /\ next < pos[s]
  /\ holder' = "deadlock"
  /\ UNCHANGED <<senderVars, down, pos, ev, vec, next, delivered, chan>>

\* The values msglen may have.
MsgLen ==
  LET first == {m \in Message : Header(m) = SubSeq(vec, 1, HeaderLen)}
  IN IF first = {} THEN GarbledLength ELSE {Size[m] : m \in first}

(***************************************************************************)
(* One round of the loop that calls OnReliableReceive.  With a header but  *)
(* not all of its data in the buffer there is no next step: the loop runs  *)
(* on without changing anything, and keeps RecvMutex.                      *)
(***************************************************************************)
Deliver(s) ==
  /\ holder = s
  /\ Len(vec) >= HeaderLen
  /\ \E n \in MsgLen :
       /\ Len(vec) >= HeaderLen + n
       /\ delivered' = Append(delivered, SubSeq(vec, HeaderLen + 1, HeaderLen + n))
       /\ vec' = SubSeq(vec, HeaderLen + n + 1, Len(vec))
  /\ UNCHANGED <<senderVars, down, pos, ev, holder, next, chan>>

\* Mutation of EndReceive: the loop is left with a header alone in Buffer.
EndReceiveEarly(s) ==
  /\ holder = s
  /\ Len(vec) <= HeaderLen
  /\ holder' = "nobody"
  /\ Done(s)
  /\ UNCHANGED <<senderVars, down, vec, next, delivered, chan>>

EndReceive(s) ==
  /\ holder = s
  /\ Len(vec) < HeaderLen
  /\ holder' = "nobody"
  /\ Done(s)
  /\ UNCHANGED <<senderVars, down, vec, next, delivered, chan>>

(***************************************************************************)
(* Disconnect at the receiver.  Reset clears the channels first and lets   *)
(* go of ChannelContext after that.                                        *)
(***************************************************************************)
\* Mutation of ClearChannel: StreamChannel::Reset does not take RecvMutex.
ClearChannelUnlocked ==
  /\ MayDisconnect /\ chan = "open"
  /\ vec' = <<>> /\ next' = 0 /\ chan' = "cleared"
  /\ UNCHANGED <<senderVars, down, pos, ev, holder, delivered>>

ClearChannel ==
  /\ MayDisconnect /\ chan = "open" /\ holder = "nobody"
  /\ vec' = <<>> /\ next' = 0 /\ chan' = "cleared"
  /\ UNCHANGED <<senderVars, down, pos, ev, holder, delivered>>

\* The end of Reset, or the application destroys what ChannelContext points to.
ExpireContext ==
  /\ chan = "cleared" \/ (MayDisconnect /\ chan = "open")
  /\ chan' = "expired"
  /\ UNCHANGED <<senderVars, down, pos, ev, holder, vec, next, delivered>>

-----------------------------------------------------------------------------
Send == \E t \in Sender : \/ BeginSend(t) \/ EndSend(t)
                          \/ \E s \in Stream : SendOn(t, s)

Receive(s) ==
  \/ Indicate(s) \/ IndicateExpired(s) \/ Skip(s) \/ Read(s) \/ ReadTooLate(s)
  \/ Deliver(s) \/ EndReceive(s)

Next ==
  \/ Send
  \/ PeerStreamStarted
  \/ \E s \in Stream : StreamLost(s) \/ Receive(s)
  \/ ClearChannel \/ ExpireContext

Spec == Init /\ [][Next]_vars

(***************************************************************************)
(* ReliablePacketSend goes on once it has begun, and MsQuic indicates what *)
(* a stream that is not lost has received.                                 *)
(***************************************************************************)
Fairness ==
  /\ \A t \in Sender : WF_vars(EndSend(t) \/ \E s \in Stream : SendOn(t, s))
  /\ \A s \in Stream : WF_vars(Receive(s))

FairSpec == Spec /\ Fairness

-----------------------------------------------------------------------------
TypeOK ==
  /\ known \subseteq Stream /\ down \subseteq Stream
  /\ started \in 0 .. NumMessages
  /\ sending \in [Sender -> [msg : 0 .. NumMessages, to : SUBSET Stream, sent : BOOLEAN]]
  /\ log \in Seq(Message)
  /\ out \in [Stream -> Seq(Message \X (Nat \ {0}))]
  /\ pos \in [Stream -> Nat] /\ ev \in [Stream -> Nat]
  /\ \A s \in Stream : /\ pos[s] <= Len(out[s])
                       /\ ev[s] \in {Idle} \cup pos[s] + 1 .. Len(out[s])
  /\ holder \in Stream \cup {"nobody", "deadlock"}
  /\ vec \in Seq(Message \X (Nat \ {0})) /\ next \in Nat
  /\ delivered \in Seq(Seq(Message \X (Nat \ {0})))
  /\ chan \in {"open", "cleared", "expired"}

\* The streams carry the same bytes, as far as both go.  They do not once the
\* peer's stream has become known after a message was sent.
Mirrored ==
  \A i \in DOMAIN out["peer"] \cap DOMAIN out["self"] : out["peer"][i] = out["self"][i]

(***************************************************************************)
(* While they do and nothing is reset, the two streams together are one    *)
(* reliable channel: what a stream brings that the other brought before is *)
(* skipped, whichever is ahead, wherever the events are cut, and if one of *)
(* them is lost (ReliablePacketSend and the RECEIVE handler).              *)
(***************************************************************************)
accepted == [i \in 1 .. Len(log) |-> Data(log[i])]

Channel == INSTANCE MessageChannel WITH Payload <- {Data(m) : m \in Message}

ChannelWhileMirrored ==
  /\ Channel!Init
  /\ [][Mirrored' /\ chan' = "open" => [Channel!Next]_<<accepted, delivered>>]_vars

(***************************************************************************)
(* Then nothing is held back either: once a stream that has all the bytes  *)
(* was read to its end and no RECEIVE handler is at work, every message    *)
(* that was accepted has been handed over, the last one and empty ones     *)
(* too.  It need not be the stream they were handed over from.             *)
(***************************************************************************)
HasAllBytes(s) == \A r \in Stream : Len(out[r]) <= Len(out[s])

NothingHeldBack ==
  Mirrored /\ chan = "open" /\ holder = "nobody" =>
    \A s \in Stream :
      HasAllBytes(s) /\ pos[s] = Len(out[s]) => Len(delivered) = Len(log)

(***************************************************************************)
(* A RECEIVE event starts behind NextRecvByte only because Reset put that  *)
(* back: neither the other stream nor where events are cut, nor a stream   *)
(* that became known late, can bring it about (the RECEIVE handler).       *)
(***************************************************************************)
TooLate(s) == ev[s] > next /\ next < pos[s]

TooLateOnlyAfterReset ==
  chan = "open" => holder # "deadlock" /\ ~ \E s \in Stream : TooLate(s)

(***************************************************************************)
(* While a thread works on Buffer, which it does without looking at the    *)
(* offset again, no other stream and no Reset moves NextRecvByte away from *)
(* the end of its event (RecvMutex in RECEIVE and in StreamChannel::Reset).*)
(***************************************************************************)
OffsetStands ==
  holder \in Stream => next = ev[holder] /\ pos[holder] < next

(***************************************************************************)
(* Every message a StreamSend accepted is handed to the receiver if one    *)
(* stream that is left carries all of them, unless the streams differ, the *)
(* receiver resets, or a RECEIVE handler is in its endless loop: a lost    *)
(* connection, or one stream ahead of the other, is no obstacle            *)
(* (ReliablePacketSend and RECEIVE).                                       *)
(***************************************************************************)
Looping ==
  \E s \in Stream : /\ holder = s /\ Len(vec) >= HeaderLen
                    /\ \A n \in MsgLen : Len(vec) < HeaderLen + n

CarriesAll(s) ==
  \A i \in DOMAIN log : \E k \in DOMAIN out[s] : out[s][k] = <<log[i], 1>>

AllDeliveredOrNoStream ==
  Len(delivered) = Len(log) \/ ~ \E s \in Stream \ down : CarriesAll(s)

DeliveredUnlessLooping ==
  []<>(AllDeliveredOrNoStream \/ ~ Mirrored \/ chan # "open" \/ Looping)

-----------------------------------------------------------------------------
(***************************************************************************)
(* What comments of the source say and the code does not do.               *)
(***************************************************************************)

\* koichan.h:37: "TCP-like channel that is reliable."  So what was delivered
\* is a prefix of what was accepted.
InOrder ==
  /\ Len(delivered) <= Len(log)
  /\ \A i \in 1 .. Len(delivered) : delivered[i] = Data(log[i])

\* koichan.h:37 again: what was accepted is delivered while a connection is left.
AllDelivered == []<>AllDeliveredOrNoStream
=============================================================================
