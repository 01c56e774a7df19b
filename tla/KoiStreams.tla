----------------------------- MODULE KoiStreams -----------------------------
(***************************************************************************)
(* The streams of one QUIC connection at its two ends: the channels they   *)
(* belong to, and the lives of their handles.  The client opens a stream   *)
(* for each of its channels (Reliable[c].Self) and starts them one by one; *)
(* the server keeps a stream of the peer (Reliable[c].Peer) for the        *)
(* channel that the stream's id tells.  Both send on what they hold.       *)
(*                                                                         *)
(* StartClient, a thread that sends, a thread that disconnects and         *)
(* MsQuic's worker run at either end.  A step is what one of them does     *)
(* between two points where another may come in.                           *)
(***************************************************************************)
EXTENDS Integers, FiniteSets

CONSTANTS
  NumChannels,  \* reliable channels of a context (4 in the code)
  NumSends,     \* StreamSend is called at most this often
  OpenMayFail,  \* whether StreamOpen may fail
  MayLose       \* whether the connection may go down

Chan == 0 .. NumChannels - 1
End == {"client", "server"}
None == -1

ASSUME StreamsAssumption ==
  /\ NumChannels \in Nat \ {0} /\ NumSends \in Nat
  /\ OpenMayFail \in BOOLEAN /\ MayLose \in BOOLEAN

\* A stream is named by the client's channel it was opened for.
VARIABLES
  starting,  \* the stream StartClient is to start next; None before it opens
             \* them, NumChannels after the last
  id,        \* id[i]: the id of stream i without its two lowest bits, or None
  held,      \* held[e][c]: the stream in Reliable[c] of end e, or None
  copy,      \* copy[e]: the stream a sender at e has a copy of, and its channel
  st,        \* st[e][i]: what became of the handle of stream i at e
  net,       \* net[e]: messages under way to e, <<stream, channel>>
  sends,     \* how often StreamSend was called
  got,       \* got[e]: the channel the last message to e was sent on, and the
             \* one it was received on
  reset,     \* reset[e]: the channel the Reset at e is at, or None
  down,      \* the connection is shut down
  gone       \* the ends that had SHUTDOWN_COMPLETE of the connection

vars == <<starting, id, held, copy, st, net, sends, got, reset, down, gone>>

NoCopy == [strm |-> None, chan |-> None]
NoMessage == <<>>

Init ==
  /\ starting = None /\ id = [i \in Chan |-> None]
  /\ held = [e \in End |-> [c \in Chan |-> None]]
  /\ copy = [e \in End |-> NoCopy]
  /\ st = [e \in End |-> [i \in Chan |-> "none"]]
  /\ net = [e \in End |-> {}] /\ sends = 0 /\ got = [e \in End |-> NoMessage]
  /\ reset = [e \in End |-> None]
  /\ down = FALSE /\ gone = {}

Other(e) == CHOOSE x \in End : x # e

-----------------------------------------------------------------------------
(***************************************************************************)
(* Handles are shared: the deleter runs when the last copy goes, and calls *)
(* StreamShutdown.                                                         *)
(***************************************************************************)
InUse(e, i) == copy[e].strm = i \/ \E c \in Chan : held[e][c] = i

\* Mutation of Deleted: the handle the sender copied is not counted.
DeletedThoughCopied(e) ==
  [i \in Chan |-> IF /\ st[e][i] = "open"
                     /\ \E c \in Chan : held[e][c] = i
                     /\ ~ \E c \in Chan : held'[e][c] = i
                  THEN "shut" ELSE st[e][i]]

\* The handles at e after a step that let go of some.
Deleted(e) ==
  [i \in Chan |-> IF st[e][i] = "open" /\ InUse(e, i) /\ ~InUse(e, i)'
                  THEN "shut" ELSE st[e][i]]

-----------------------------------------------------------------------------
\* StartClient opens the streams with ModifyMutex held; StreamOpen may fail.
Open ==
  /\ starting = None /\ starting' = 0
  /\ \E failed \in SUBSET Chan :
       /\ OpenMayFail \/ failed = {}
       /\ held' = [held EXCEPT !["client"] =
            [c \in Chan |-> IF c \in failed THEN None ELSE c]]
       /\ st' = [st EXCEPT !["client"] =
            [i \in Chan |-> IF i \in failed THEN "none" ELSE "open"]]
  /\ UNCHANGED <<id, copy, net, sends, got, reset, down, gone>>

\* MsQuic gives streams their ids in the order of StreamStart.
NextId == Cardinality({k \in Chan : id[k] # None})

\* The loop of StreamStart runs without ModifyMutex.  A null handle, and one
\* that is shut down, is not started.
Start ==
  LET i == starting
  IN /\ i \in Chan /\ starting' = i + 1
     /\ id' = IF held["client"][i] = i /\ st["client"][i] = "open" /\ ~down
              THEN [id EXCEPT ![i] = NextId] ELSE id
     /\ UNCHANGED <<held, copy, st, net, sends, got, reset, down, gone>>

\* Mutation of ChannelOf: a bit too many is taken off the id.
ChannelOfShifted(i) == id[i] \div 2

\* Mutation of ChannelOf: the two bits are not taken off.
ChannelOfId(i) == 4 * id[i]

\* streamIndex >> 2
ChannelOf(i) == id[i]

\* QUIC_CONNECTION_EVENT_PEER_STREAM_STARTED, in the order of the ids
PeerStreamStarted(i) ==
  /\ id[i] # None /\ st["server"][i] = "none"
  /\ \A k \in Chan : id[k] \in 0 .. id[i] - 1 => st["server"][k] # "none"
  /\ ~down /\ "server" \notin gone
  /\ held' = [held EXCEPT !["server"][ChannelOf(i)] = i]
  /\ st' = [st EXCEPT !["server"][i] = "open"]
  /\ UNCHANGED <<starting, id, copy, net, sends, got, reset, down, gone>>

-----------------------------------------------------------------------------
(***************************************************************************)
(* ReliablePacketSend on channel c copies the handle, sends, and lets go   *)
(* of the copy.  A stream that is shut down takes no data; one that is not *)
(* started yet keeps them.                                                 *)
(***************************************************************************)
CopyHandle(e, c) ==
  /\ copy[e] = NoCopy /\ held[e][c] # None
  /\ copy' = [copy EXCEPT ![e] = [strm |-> held[e][c], chan |-> c]]
  /\ UNCHANGED <<starting, id, held, st, net, sends, got, reset, down, gone>>

Send(e) ==
  LET m == <<copy[e].strm, copy[e].chan>>
  IN /\ copy[e] # NoCopy /\ st[e][copy[e].strm] = "open" /\ ~down
     /\ sends < NumSends /\ sends' = sends + 1
     /\ net' = [net EXCEPT ![Other(e)] = @ \cup {m}]
     /\ UNCHANGED <<starting, id, held, copy, st, got, reset, down, gone>>

DropCopy(e) ==
  /\ copy[e] # NoCopy
  /\ copy' = [copy EXCEPT ![e] = NoCopy]
  /\ UNCHANGED held
  /\ st' = [st EXCEPT ![e] = Deleted(e)]
  /\ UNCHANGED <<starting, id, net, sends, got, reset, down, gone>>

\* QUIC_STREAM_EVENT_RECEIVE: the channel is the one of the stream's id.
Receive(e, m) ==
  /\ m \in net[e] /\ st[e][m[1]] = "open" /\ id[m[1]] # None
  /\ ~down /\ e \notin gone
  /\ net' = [net EXCEPT ![e] = @ \ {m}]
  /\ got' = [got EXCEPT ![e] = <<m[2], ChannelOf(m[1])>>]
  /\ UNCHANGED <<starting, id, held, copy, st, sends, reset, down, gone>>

-----------------------------------------------------------------------------
(***************************************************************************)
(* ConnectionContext::Reset lets go of the streams, one channel after the  *)
(* other, and of the connection last, whose deleter shuts it down.         *)
(***************************************************************************)
BeginReset(e) ==
  /\ starting # None /\ reset[e] = None
  /\ reset' = [reset EXCEPT ![e] = 0]
  /\ UNCHANGED <<starting, id, held, copy, st, net, sends, got, down, gone>>

ResetChannel(e) ==
  /\ reset[e] \in Chan
  /\ reset' = [reset EXCEPT ![e] = @ + 1]
  /\ held' = [held EXCEPT ![e][reset[e]] = None]
  /\ UNCHANGED copy
  /\ st' = [st EXCEPT ![e] = Deleted(e)]
  /\ UNCHANGED <<starting, id, net, sends, got, down, gone>>

\* The end of Reset, or the network takes the connection down, and what was
\* under way on it.
ConnectionLost ==
  /\ MayLose /\ starting # None
  /\ ~down /\ down' = TRUE
  /\ net' = [e \in End |-> {}]
  /\ UNCHANGED <<starting, id, held, copy, st, sends, got, reset, gone>>

-----------------------------------------------------------------------------
\* QUIC_STREAM_EVENT_PEER_RECEIVE_ABORTED: the other end has shut the stream;
\* the handler calls StreamShutdown.
PeerReceiveAborted(e, i) ==
  /\ st[e][i] = "open" /\ id[i] # None
  /\ st[Other(e)][i] \in {"shut", "closed"}
  /\ ~down /\ e \notin gone
  /\ st' = [st EXCEPT ![e][i] = "shut"]
  /\ UNCHANGED <<starting, id, held, copy, net, sends, got, reset, down, gone>>

\* Mutation of AfterSendShutdown: StreamClose is left to SHUTDOWN_COMPLETE of
\* the stream, which does nothing.
AfterSendShutdownLeft == "shut"

\* StreamClose
AfterSendShutdown == "closed"

(***************************************************************************)
(* QUIC_STREAM_EVENT_SEND_SHUTDOWN_COMPLETE, of a stream that was shut     *)
(* down or whose connection was.  The handler calls StreamClose, whoever   *)
(* still holds the handle.                                                 *)
(***************************************************************************)
SendShutdownComplete(e, i) ==
  /\ id[i] # None /\ e \notin gone
  /\ st[e][i] = "shut" \/ (st[e][i] = "open" /\ down)
  /\ st' = [st EXCEPT ![e][i] = AfterSendShutdown]
  /\ UNCHANGED <<starting, id, held, copy, net, sends, got, reset, down, gone>>

\* QUIC_CONNECTION_EVENT_SHUTDOWN_COMPLETE, after the events of the streams
ShutdownComplete(e) ==
  /\ down /\ e \notin gone
  /\ \A i \in Chan : id[i] # None => st[e][i] \in {"none", "closed"}
  /\ gone' = gone \cup {e}
  /\ held' = [held EXCEPT ![e] = [c \in Chan |-> None]]
  /\ UNCHANGED copy
  /\ st' = [st EXCEPT ![e] = Deleted(e)]
  /\ UNCHANGED <<starting, id, net, sends, got, reset, down>>

-----------------------------------------------------------------------------
Work(e) ==
  \/ \E i \in Chan : PeerReceiveAborted(e, i) \/ SendShutdownComplete(e, i)
  \/ ShutdownComplete(e)

Next ==
  \/ Open \/ Start \/ ConnectionLost
  \/ \E i \in Chan : PeerStreamStarted(i)
  \/ \E e \in End :
       \/ \E c \in Chan : CopyHandle(e, c)
       \/ Send(e) \/ DropCopy(e)
       \/ \E m \in net[e] : Receive(e, m)
       \/ BeginReset(e) \/ ResetChannel(e)
       \/ Work(e)

Spec == Init /\ [][Next]_vars

\* MsQuic reports the end of a stream, and of a connection.
Fairness == \A e \in End : WF_vars(Work(e))

FairSpec == Spec /\ Fairness

-----------------------------------------------------------------------------
TypeOK ==
  /\ starting \in {None} \cup 0 .. NumChannels
  /\ id \in [Chan -> Chan \cup {None}]
  /\ held \in [End -> [Chan -> Chan \cup {None}]]
  /\ copy \in [End -> [strm : Chan, chan : Chan] \cup {NoCopy}]
  /\ st \in [End -> [Chan -> {"none", "open", "shut", "closed"}]]
  /\ net \in [End -> SUBSET (Chan \X Chan)] /\ sends \in 0 .. NumSends
  /\ got \in [End -> (Chan \X Chan) \cup {NoMessage}]
  /\ reset \in [End -> {None} \cup 0 .. NumChannels]
  /\ down \in BOOLEAN /\ gone \subseteq End

(***************************************************************************)
(* A message is received on the channel it was sent on, though only the    *)
(* id of its stream tells the channel: always what the server sends, and   *)
(* what the client sends if it started the streams of all lower channels.  *)
(* Streams of higher channels may be missing, and what was started may be  *)
(* reset and aborted meanwhile (StartClient, PEER_STREAM_STARTED,          *)
(* RECEIVE).                                                               *)
(***************************************************************************)
OwnChannel ==
  /\ LET m == got["client"] IN m # NoMessage => m[2] = m[1]
  /\ LET m == got["server"]
     IN m # NoMessage /\ (\A k \in Chan : k < m[1] => id[k] # None) => m[2] = m[1]

(***************************************************************************)
(* A stream that both ends use, in a context or with a copy, stays open    *)
(* while its connection does: neither a Reset in the middle of a send nor  *)
(* the events of other streams end it (SharedStream, PEER_RECEIVE_ABORTED, *)
(* SEND_SHUTDOWN_COMPLETE).                                                *)
(***************************************************************************)
OpenWhileBothUse ==
  \A i \in Chan : (~down /\ \A e \in End : InUse(e, i)) => \A e \in End : st[e][i] = "open"

(***************************************************************************)
(* Every started stream is closed once its connection is down, also one    *)
(* whose handle was dropped before or is still copied (SHUTDOWN_COMPLETE   *)
(* of the connection only lets go of the handles).                         *)
(***************************************************************************)
AllClosed ==
  down ~> \A e \in End, i \in Chan :
            id[i] # None => st[e][i] \in {"none", "closed"}

-----------------------------------------------------------------------------
(***************************************************************************)
(* QUIC_STREAM_EVENT_SHUTDOWN_COMPLETE: "Because we close it at the        *)
(* destructor, don't close it at this event."  So a stream is not closed   *)
(* while the context holds it.                                             *)
(***************************************************************************)
HeldIsOpen ==
  \A e \in End, c \in Chan : held[e][c] # None => st[e][held[e][c]] # "closed"

(***************************************************************************)
(* koisession.h:811: "We ignore the lease 2 bits so that we can get the    *)
(* index."  The index, of the channel the stream was opened for, whichever *)
(* lower streams were started.                                             *)
(***************************************************************************)
SameChannel ==
  \A e \in End : got[e] # NoMessage => got[e][2] = got[e][1]
=============================================================================
