----------------------------- MODULE KoiContext -----------------------------
(***************************************************************************)
(* One ConnectionContext at the grain of its locks.  KoiHandshake takes a  *)
(* handler for one step; here it is what its thread does, one access after *)
(* the other, while others do the same:                                    *)
(*                                                                         *)
(*   - the sentinel's thread handles packets with connCtxCreationMutex     *)
(*     held, writes a context in Receive1st without its ModifyMutex, and   *)
(*     goes on with StartClient after it has unlocked it;                  *)
(*   - the application calls ConnectTo, which writes without ModifyMutex   *)
(*     as well, Disconnect, and sends with copies of the handles;          *)
(*   - the daemon resets the context with its ModifyMutex held;            *)
(*   - MsQuic's workers report the events of a connection and its streams  *)
(*     each; the handlers of what was received reset without ModifyMutex,  *)
(*     that of a stream perhaps with the mutex held that Reset locks.      *)
(*                                                                         *)
(* The table is this one context.  The ports are abstracted to whether the *)
(* local ones are set, and to whose the remote ones are; the four reliable *)
(* channels to one, whose streams come and go with their connections.      *)
(***************************************************************************)
EXTENDS Integers

CONSTANTS
  Remote,         \* sentinels of other sessions
  ConnId,         \* QUIC connections, each with a worker of its own
  Nobody,         \* no thread, no remote, null handle
  RefMod,         \* RefCount counts modulo this (2^32 in the code)
  NumRequests,    \* packets that arrive and calls of ConnectTo, together
  NumDatagrams,   \* calls of UnreliablePacketSend, datagrams that arrive and
                  \* RECEIVE events of streams, together
  CallsBack,      \* callbacks of the application that call Disconnect
  MayLoop,        \* whether a RECEIVE event may end inside a message
  ConfigMayFail   \* whether ConnectionSetConfiguration may fail

Callback == {"OnDisconnect", "OnUnreliableReceive", "OnReliableReceive"}

ASSUME ContextAssumption ==
  /\ Nobody \notin Remote \cup ConnId
  /\ {"net", "app", "sender", "daemon"} \cap (ConnId \cup {Nobody}) = {}
  /\ RefMod \in Nat \ {0}
  /\ NumRequests \in Nat /\ NumDatagrams \in Nat
  /\ CallsBack \subseteq Callback
  /\ MayLoop \in BOOLEAN /\ ConfigMayFail \in BOOLEAN

\* The threads that look for a context and give it to a remote
Creator == {"net", "app"}
Thread == Creator \cup {"sender", "daemon"} \cup ConnId

Kind == {"connect", "first", "second", "third"}

VARIABLES
  creation,  \* the thread that holds connCtxCreationMutex
  modify,    \* the thread that holds ModifyMutex
  recv,      \* the thread that holds Unreliable.RecvMutex
  strm,      \* the thread that holds the RecvMutex of a reliable channel
  at,        \* at[t]: where thread t is
  ret,       \* ret[t]: where it goes on after the Reset it is in
  req,       \* req[t]: the request a creator is at work on
  ctx,       \* the context
  conns,     \* conns[c]: side, state and remote of a connection
  down,      \* connections ConnectionShutdown was called for
  copied,    \* handles the sender holds copies of
  known,     \* the application was asked about the channel and not told of
             \* its end
  left       \* requests and datagrams still to come

lockVars == <<creation, modify, recv, strm>>
vars == <<lockVars, at, ret, req, ctx, conns, down, copied, known, left>>

Opt(S) == S \cup {Nobody}

(***************************************************************************)
(* remote: RemoteSentinel; begin: HandshakeBegin is set; local: LocalServer*)
(* and LocalClient are set; ports: whose RemoteServer and RemoteClient are;*)
(* self, peer: Unreliable.Self and Peer; chan: ChannelContext has not      *)
(* expired; refs: RefCount.                                                *)
(***************************************************************************)
Context ==
  [remote : Opt(Remote), begin : BOOLEAN, local : BOOLEAN, ports : Opt(Remote),
   self : Opt(ConnId), peer : Opt(ConnId), chan : BOOLEAN, refs : 0 .. RefMod - 1]

NoRequest == [from |-> Nobody, kind |-> "none", matching |-> FALSE]
NoConnection == [side |-> "none", st |-> "none", of |-> Nobody]

Init ==
  /\ creation = Nobody /\ modify = Nobody /\ recv = Nobody /\ strm = Nobody
  /\ at = [t \in Thread |-> "idle"] /\ ret = [t \in Thread |-> "idle"]
  /\ req = [t \in Creator |-> NoRequest]
  /\ ctx = [remote |-> Nobody, begin |-> FALSE, local |-> FALSE, ports |-> Nobody,
            self |-> Nobody, peer |-> Nobody, chan |-> FALSE, refs |-> 0]
  /\ conns = [c \in ConnId |-> NoConnection]
  /\ down = {} /\ copied = {} /\ known = FALSE
  /\ left = [requests |-> NumRequests, datagrams |-> NumDatagrams]

\* The connection that is made next, if any is left
NextConn ==
  LET fresh == {c \in ConnId : conns[c] = NoConnection}
  IN IF fresh = {} THEN {} ELSE {CHOOSE c \in fresh : TRUE}

-----------------------------------------------------------------------------
Go(t, place) == at' = [at EXCEPT ![t] = place]

Released(lock, t) == IF lock = t THEN Nobody ELSE lock

\* The end of a handler: its guards unlock what they locked.
Leave(t) ==
  /\ Go(t, "idle")
  /\ creation' = Released(creation, t)
  /\ modify' = Released(modify, t)
  /\ recv' = Released(recv, t)
  /\ strm' = Released(strm, t)
  /\ req' = [u \in Creator |-> IF u = t THEN NoRequest ELSE req[u]]

Stay == UNCHANGED <<lockVars, req>>

\* The deleter of a handle runs when its last copy goes.
Dropped(S) == down \cup (S \ (copied \cup {Nobody}))

(***************************************************************************)
(* ConnectionContext::Reset, in the order of its statements.  Threads get  *)
(* here at "handles" and go on at ret[t]; some hold ModifyMutex, some do   *)
(* not.  Whoever holds a RecvMutex already does not get past it.           *)
(***************************************************************************)
\* The RecvMutex of each reliable channel is locked and unlocked, then the
\* handles of the connections go.
DropHandles(t) ==
  /\ at[t] = "handles" /\ Go(t, "unhandled")
  /\ strm = Nobody
  /\ ctx' = [ctx EXCEPT !.self = Nobody, !.peer = Nobody]
  /\ down' = Dropped({ctx.self, ctx.peer})
  /\ UNCHANGED <<lockVars, ret, req, conns, copied, known, left>>

\* Unreliable.RecvMutex is locked and unlocked, then ChannelContext goes.
ForgetChannel(t) ==
  /\ at[t] = "unhandled" /\ Go(t, "unowned")
  /\ recv = Nobody
  /\ ctx' = [ctx EXCEPT !.chan = FALSE]
  /\ UNCHANGED <<lockVars, ret, req, conns, down, copied, known, left>>

ForgetRemote(t) ==
  /\ at[t] = "unowned" /\ Go(t, "remoteless")
  /\ ctx' = [ctx EXCEPT !.remote = Nobody]
  /\ UNCHANGED <<lockVars, ret, req, conns, down, copied, known, left>>

ForgetBegin(t) ==
  /\ at[t] = "remoteless" /\ Go(t, "unbegun")
  /\ ctx' = [ctx EXCEPT !.begin = FALSE]
  /\ UNCHANGED <<lockVars, ret, req, conns, down, copied, known, left>>

\* The handler of SHUTDOWN_COMPLETE unlocks before it calls ConnectionClose.
ForgetPorts(t) ==
  /\ at[t] = "unbegun"
  /\ ctx' = [ctx EXCEPT !.local = FALSE, !.ports = Nobody]
  /\ \/ ret[t] = "idle" /\ Leave(t)
     \/ ret[t] = "tell" /\ Go(t, "tell") /\ Stay
     \/ /\ ret[t] = "close" /\ Go(t, "close")
        /\ modify' = Released(modify, t)
        /\ UNCHANGED <<creation, recv, strm, req>>
  /\ ret' = [ret EXCEPT ![t] = "idle"]
  /\ UNCHANGED <<conns, down, copied, known, left>>

Reset(t) ==
  \/ DropHandles(t) \/ ForgetChannel(t) \/ ForgetRemote(t) \/ ForgetBegin(t)
  \/ ForgetPorts(t)

\* Thread t enters Reset, and is to go on at place r.
BeginReset(t, r) ==
  Go(t, "handles") /\ ret' = [ret EXCEPT ![t] = r]

-----------------------------------------------------------------------------
(***************************************************************************)
(* ConsumeRawUdpData and ConnectTo.                                        *)
(***************************************************************************)
\* Mutation of LockCreation: ConnectTo does not take connCtxCreationMutex.
LockCreationInPacketsOnly(t) ==
  IF t = "net" THEN creation = Nobody /\ creation' = t ELSE UNCHANGED creation

LockCreation(t) == creation = Nobody /\ creation' = t

\* A request of remote r gets connCtxCreationMutex.
BeginRequest(t, r, kind) ==
  /\ at[t] = "idle" /\ Go(t, "scan")
  /\ left.requests > 0 /\ left' = [left EXCEPT !.requests = @ - 1]
  /\ LockCreation(t)
  /\ req' = [req EXCEPT ![t] = [from |-> r, kind |-> kind, matching |-> FALSE]]
  /\ UNCHANGED <<modify, recv, strm, ret, ctx, conns, down, copied, known>>

ReceivePacket(r, kind) == BeginRequest("net", r, kind)

ConnectTo(r) == BeginRequest("app", r, "connect")

Empty == ctx.refs = 0 /\ ~ctx.local /\ ctx.ports = Nobody

\* FindMatchingEntry: a context somebody has locked is passed over.
Scan(t) ==
  LET matching == ctx.remote = req[t].from
  IN /\ at[t] = "scan"
     /\ IF modify = Nobody /\ (matching \/ Empty)
        THEN /\ Go(t, "found") /\ UNCHANGED lockVars
             /\ req' = [req EXCEPT ![t].matching = matching]
        ELSE Leave(t)
     /\ UNCHANGED <<ret, ctx, conns, down, copied, known, left>>

\* Whether the request is for this context; HandshakeBegin is read without a
\* lock.
Decide(t) ==
  LET place ==
        CASE req[t].kind = "connect" ->
               IF req[t].matching THEN "leave" ELSE "reserve"
          [] req[t].kind = "first" ->
               IF req[t].matching /\ ~ctx.begin THEN "leave" ELSE "first"
          [] req[t].kind = "second" ->
               IF req[t].matching /\ ctx.begin THEN "second" ELSE "leave"
          [] OTHER ->
               IF req[t].matching /\ ctx.begin THEN "open" ELSE "leave"
  IN /\ at[t] = "found"
     /\ IF place = "leave" THEN Leave(t) ELSE Go(t, place) /\ Stay
     /\ UNCHANGED <<ret, ctx, conns, down, copied, known, left>>

\* Receive1st writes without ModifyMutex.
SaveFirst(t) ==
  /\ at[t] = "first" /\ Go(t, "saved")
  /\ ctx' = [ctx EXCEPT !.ports = req[t].from]
  /\ UNCHANGED <<lockVars, ret, req, conns, down, copied, known, left>>

\* Without a handshake under way Receive1st reserves the context as ConnectTo
\* does; otherwise it only answers.
AnswerFirst(t) ==
  /\ at[t] = "saved"
  /\ IF ctx.begin THEN Leave(t) ELSE Go(t, "reserve") /\ Stay
  /\ UNCHANGED <<ret, ctx, conns, down, copied, known, left>>

\* Bind may fail.
ReservePorts(t) ==
  /\ at[t] = "reserve"
  /\ \/ Leave(t) /\ UNCHANGED ctx
     \/ /\ Go(t, "reserved") /\ Stay
        /\ ctx' = [ctx EXCEPT !.local = TRUE]
  /\ UNCHANGED <<ret, conns, down, copied, known, left>>

BeginHandshake(t) ==
  /\ at[t] = "reserved" /\ Go(t, "begun")
  /\ ctx' = [ctx EXCEPT !.begin = TRUE]
  /\ UNCHANGED <<lockVars, ret, req, conns, down, copied, known, left>>

SaveRemote(t) ==
  /\ at[t] = "begun"
  /\ ctx' = [ctx EXCEPT !.remote = req[t].from]
  /\ Leave(t)
  /\ UNCHANGED <<ret, conns, down, copied, known, left>>

\* Mutation of SaveSecond: Receive2nd keeps ModifyMutex when it goes on.
SaveSecondLocked(t) ==
  /\ at[t] = "second" /\ Go(t, "open")
  /\ modify = Nobody /\ modify' = t
  /\ ctx' = [ctx EXCEPT !.ports = req[t].from]
  /\ UNCHANGED <<creation, recv, strm, ret, req, conns, down, copied, known, left>>

\* Receive2nd writes with ModifyMutex held, and goes on to StartClient.
SaveSecond(t) ==
  /\ at[t] = "second" /\ Go(t, "open")
  /\ modify = Nobody
  /\ ctx' = [ctx EXCEPT !.ports = req[t].from]
  /\ UNCHANGED <<lockVars, ret, req, conns, down, copied, known, left>>

-----------------------------------------------------------------------------
(***************************************************************************)
(* StartClient: ModifyMutex is held while the handles are made, not in     *)
(* OnAccept nor after it.                                                  *)
(***************************************************************************)
\* Mutation of LockToOpen: Receive2nd has not unlocked before StartClient locks.
LockToOpenAgain(t) == modify = Nobody /\ req[t].kind # "second"

LockToOpen(t) == modify = Nobody

Open(t) ==
  /\ at[t] = "open"
  /\ LockToOpen(t)
  /\ \/ /\ Leave(t)    \* started before, or ConnectionOpen fails
        /\ UNCHANGED <<ctx, conns>>
     \/ /\ ctx.self = Nobody
        /\ \E c \in NextConn :
             /\ conns' = [conns EXCEPT ![c] =
                  [side |-> "self", st |-> "opened", of |-> req[t].from]]
             /\ ctx' = [ctx EXCEPT !.self = c]
        /\ Go(t, "accept") /\ Stay
  /\ UNCHANGED <<ret, down, copied, known, left>>

\* OnAccept; the application may refuse.
Accept(t) ==
  /\ at[t] = "accept"
  /\ \/ BeginReset(t, "idle") /\ UNCHANGED <<ctx, known>>
     \/ /\ Go(t, "accepted") /\ UNCHANGED ret
        /\ ctx' = [ctx EXCEPT !.chan = TRUE] /\ known' = TRUE
  /\ UNCHANGED <<lockVars, req, conns, down, copied, left>>

CheckAccepted(t) ==
  /\ at[t] = "accepted"
  /\ IF ctx.chan THEN Go(t, "start") /\ UNCHANGED ret ELSE BeginReset(t, "idle")
  /\ UNCHANGED <<lockVars, req, ctx, conns, down, copied, known, left>>

\* ConnectionStart of whatever Unreliable.Self is by now
StartConnection(t) ==
  /\ at[t] = "start"
  /\ conns' = IF ctx.self = Nobody THEN conns
                                   ELSE [conns EXCEPT ![ctx.self].st = "started"]
  /\ Leave(t)
  /\ UNCHANGED <<ret, ctx, down, copied, known, left>>

Create(t) ==
  \/ Scan(t) \/ Decide(t) \/ SaveFirst(t) \/ AnswerFirst(t) \/ ReservePorts(t)
  \/ BeginHandshake(t) \/ SaveRemote(t) \/ SaveSecond(t) \/ Open(t) \/ Accept(t)
  \/ CheckAccepted(t) \/ StartConnection(t)

-----------------------------------------------------------------------------
(***************************************************************************)
(* DoCheck, with ModifyMutex held.  Any handshake may be found too old but *)
(* one that a creator has set the time of just now; one whose peer's ports *)
(* are known is ended with a call of OnDisconnect.                         *)
(***************************************************************************)
JustBegun == \E t \in Creator : at[t] = "begun"

\* Mutation of Expires: a handshake without the peer's ports is not timed out.
ExpiresIfKnown == ctx.begin /\ ~JustBegun /\ ctx.ports # Nobody

Expires == ctx.begin /\ ~JustBegun

DoCheck ==
  /\ at["daemon"] = "idle" /\ modify = Nobody
  /\ Expires
  /\ modify' = "daemon"
  /\ \/ BeginReset("daemon", "idle")
     \/ ctx.ports # Nobody /\ BeginReset("daemon", "tell")
  /\ UNCHANGED <<creation, recv, strm, req, ctx, conns, down, copied, known, left>>

\* A callback returns, or waits for the ModifyMutex in Disconnect.
EndCallback(t, callback, next) ==
  IF callback \in CallsBack THEN Go(t, "disconnect") /\ Stay ELSE next

\* OnDisconnect by the daemon, after the Reset
TellExpired ==
  /\ at["daemon"] = "tell"
  /\ known' = FALSE
  /\ EndCallback("daemon", "OnDisconnect", Leave("daemon"))
  /\ UNCHANGED <<ret, ctx, conns, down, copied, left>>

\* The application calls Disconnect of a channel it has not been told the end of.
BeginDisconnect ==
  /\ at["app"] = "idle" /\ Go("app", "disconnect")
  /\ known /\ known' = FALSE
  /\ UNCHANGED <<lockVars, ret, req, ctx, conns, down, copied, left>>

Disconnect(t) ==
  /\ at[t] = "disconnect"
  /\ modify = Nobody /\ modify' = t
  /\ BeginReset(t, "idle")
  /\ UNCHANGED <<creation, recv, strm, req, ctx, conns, down, copied, known, left>>

\* The application destroys what ChannelContext points to.
ExpireContext ==
  /\ ctx.chan /\ ctx' = [ctx EXCEPT !.chan = FALSE]
  /\ UNCHANGED <<lockVars, at, ret, req, conns, down, copied, known, left>>

-----------------------------------------------------------------------------
(***************************************************************************)
(* UnreliablePacketSend copies the handles, sends, and drops the copies.   *)
(***************************************************************************)
CopyHandles ==
  /\ at["sender"] = "idle" /\ Go("sender", "send")
  /\ known
  /\ left.datagrams > 0 /\ left' = [left EXCEPT !.datagrams = @ - 1]
  /\ copied' = {ctx.self, ctx.peer} \ {Nobody}
  /\ UNCHANGED <<lockVars, ret, req, ctx, conns, down, known>>

DropCopies ==
  /\ at["sender"] = "send" /\ Go("sender", "idle")
  /\ copied' = {}
  /\ down' = down \cup (copied \ {ctx.self, ctx.peer})
  /\ UNCHANGED <<lockVars, ret, req, ctx, conns, known, left>>

-----------------------------------------------------------------------------
(***************************************************************************)
(* MsQuic's events.  A worker takes one event after the other.             *)
(***************************************************************************)
\* QUIC_LISTENER_EVENT_NEW_CONNECTION, from the client port of remote r
NewConnection(c, r) ==
  /\ c \in NextConn /\ modify = Nobody
  /\ ctx.remote = r /\ ctx.ports = r
  /\ ctx' = [ctx EXCEPT !.peer = c]
  /\ down' = Dropped({ctx.peer})
  /\ \E st \in {"started"} \cup (IF ConfigMayFail THEN {"closed"} ELSE {}) :
       conns' = [conns EXCEPT ![c] = [side |-> "peer", st |-> st, of |-> r]]
  /\ UNCHANGED <<lockVars, at, ret, req, copied, known, left>>

\* uint32_t arithmetic on RefCount
Incr(n) == (n + 1) % RefMod

\* Mutation of Decr: a signed counter.
DecrNoWrap(n) == n - 1

Decr(n) == IF n = 0 THEN RefMod - 1 ELSE n - 1

\* QUIC_CONNECTION_EVENT_CONNECTED
Connected(c) ==
  /\ at[c] = "idle" /\ conns[c].st = "started" /\ modify = Nobody
  /\ conns' = [conns EXCEPT ![c].st = "connected"]
  /\ ctx' = [ctx EXCEPT !.begin = FALSE, !.refs = Incr(@)]
  /\ UNCHANGED <<lockVars, at, ret, req, down, copied, known, left>>

\* Mutation of CleanSide: the handle is left to the Reset of the last reference.
CleanSideLast(x, c, n) ==
  IF n = 0 THEN [x EXCEPT !.self = Nobody, !.peer = Nobody] ELSE x

\* "We only clean the handles of the side ... this connection represents."
CleanSide(x, c, n) ==
  IF conns[c].side = "self" THEN [x EXCEPT !.self = Nobody]
                            ELSE [x EXCEPT !.peer = Nobody]

(***************************************************************************)
(* QUIC_CONNECTION_EVENT_SHUTDOWN_COMPLETE of a connection that ended, or  *)
(* that was dropped before it was started.  The last reference tells the   *)
(* application and resets, still with ModifyMutex held; the others unlock. *)
(***************************************************************************)
ShutdownComplete(c) ==
  LET n == Decr(ctx.refs)
      x == CleanSide(ctx, c, n)
  IN /\ at[c] = "idle" /\ modify = Nobody
     /\ \/ conns[c].st \in {"started", "connected"}
        \/ conns[c].st = "opened" /\ c \in down
     /\ conns' = [conns EXCEPT ![c].st = "ended"]
     /\ ctx' = [x EXCEPT !.refs = n]
     /\ down' = Dropped({ctx.self, ctx.peer} \ {x.self, x.peer})
     /\ \/ n = 0 /\ Go(c, "goodbye") /\ modify' = c
        \/ n # 0 /\ Go(c, "close") /\ UNCHANGED modify
     /\ UNCHANGED <<creation, recv, strm, ret, req, copied, known, left>>

Goodbye(c) ==
  /\ at[c] = "goodbye"
  /\ known' = FALSE
  /\ IF "OnDisconnect" \in CallsBack THEN Go(c, "disconnect") /\ UNCHANGED ret
                                     ELSE BeginReset(c, "close")
  /\ UNCHANGED <<lockVars, req, ctx, conns, down, copied, left>>

\* ConnectionClose, without ModifyMutex
Close(c) ==
  /\ at[c] = "close"
  /\ conns' = [conns EXCEPT ![c].st = "closed"]
  /\ Leave(c)
  /\ UNCHANGED <<ret, ctx, down, copied, known, left>>

\* QUIC_CONNECTION_EVENT_DATAGRAM_RECEIVED resets without ModifyMutex, or calls
\* OnUnreliableReceive with RecvMutex held.
DatagramReceived(c) ==
  /\ at[c] = "idle" /\ conns[c].st = "connected"
  /\ left.datagrams > 0 /\ left' = [left EXCEPT !.datagrams = @ - 1]
  /\ \/ ~ctx.chan /\ BeginReset(c, "idle") /\ UNCHANGED recv
     \/ /\ ctx.chan /\ recv = Nobody /\ recv' = c
        /\ Go(c, "receive") /\ UNCHANGED ret
  /\ UNCHANGED <<creation, modify, strm, req, ctx, conns, down, copied, known>>

EndReceive(c) ==
  /\ at[c] = "receive"
  /\ EndCallback(c, "OnUnreliableReceive", Leave(c))
  /\ UNCHANGED <<ret, ctx, conns, down, copied, known, left>>

(***************************************************************************)
(* QUIC_STREAM_EVENT_RECEIVE of a stream of c, perhaps a late one: like a  *)
(* datagram, but ChannelContext is looked at before RecvMutex is locked.   *)
(***************************************************************************)
StreamReceive(c) ==
  /\ at[c] = "idle" /\ conns[c].st = "connected"
  /\ left.datagrams > 0 /\ left' = [left EXCEPT !.datagrams = @ - 1]
  /\ \/ ~ctx.chan /\ BeginReset(c, "idle")
     \/ ctx.chan /\ Go(c, "stream") /\ UNCHANGED ret
  /\ UNCHANGED <<lockVars, req, ctx, conns, down, copied, known>>

LockStream(c) ==
  /\ at[c] = "stream" /\ Go(c, "read")
  /\ strm = Nobody /\ strm' = c
  /\ UNCHANGED <<creation, modify, recv, ret, req, ctx, conns, down, copied, known, left>>

\* A Reset has dropped the stream and set NextRecvByte back; or, which is more
\* than the code does, another connection has taken the place of c.
BehindGap(c) == c \notin {ctx.self, ctx.peer}

(***************************************************************************)
(* The handler is done, with or without a call of OnReliableReceive; or it *)
(* loops when the event ends inside a message; or it finds a gap and calls *)
(* Reset, which locks the RecvMutex that it holds.                         *)
(***************************************************************************)
ReadStream(c) ==
  /\ at[c] = "read"
  /\ \/ EndCallback(c, "OnReliableReceive", Leave(c)) /\ UNCHANGED ret
     \/ MayLoop /\ Go(c, "loop") /\ Stay /\ UNCHANGED ret
     \/ BehindGap(c) /\ BeginReset(c, "idle") /\ Stay
  /\ UNCHANGED <<ctx, conns, down, copied, known, left>>

Work(c) ==
  Goodbye(c) \/ Close(c) \/ EndReceive(c) \/ LockStream(c) \/ ReadStream(c)

QuicEvent(c) ==
  \/ \E r \in Remote : NewConnection(c, r)
  \/ Connected(c) \/ ShutdownComplete(c) \/ DatagramReceived(c) \/ StreamReceive(c)

-----------------------------------------------------------------------------
\* What thread t does once it has begun.
GoOn(t) ==
  \/ Reset(t) \/ Disconnect(t)
  \/ t \in Creator /\ Create(t)
  \/ t = "daemon" /\ TellExpired
  \/ t = "sender" /\ DropCopies
  \/ t \in ConnId /\ Work(t)

Next ==
  \/ \E t \in Thread : GoOn(t)
  \/ \E r \in Remote : \/ ConnectTo(r)
                       \/ \E k \in Kind \ {"connect"} : ReceivePacket(r, k)
  \/ DoCheck \/ BeginDisconnect \/ ExpireContext \/ CopyHandles
  \/ \E c \in ConnId : QuicEvent(c)

Spec == Init /\ [][Next]_vars

(***************************************************************************)
(* Threads go on; the daemon looks at the context again and again, and     *)
(* finds in the end that a handshake is too old.                           *)
(***************************************************************************)
Fairness == WF_vars(DoCheck) /\ \A t \in Thread : WF_vars(GoOn(t))

FairSpec == Spec /\ Fairness

-----------------------------------------------------------------------------
Place ==
  {"idle", "scan", "found", "first", "saved", "reserve", "reserved", "begun",
   "second", "open", "accept", "accepted", "start",
   "handles", "unhandled", "unowned", "remoteless", "unbegun",
   "tell", "disconnect", "send", "goodbye", "close", "receive",
   "stream", "read", "loop"}

TypeOK ==
  /\ creation \in Opt(Thread) /\ modify \in Opt(Thread) /\ recv \in Opt(Thread)
  /\ strm \in Opt(Thread)
  /\ at \in [Thread -> Place] /\ ret \in [Thread -> {"idle", "tell", "close"}]
  /\ req \in [Creator -> [from : Opt(Remote), kind : Kind \cup {"none"},
                          matching : BOOLEAN]]
  /\ ctx \in Context
  /\ conns \in [ConnId -> [side : {"none", "self", "peer"},
                           st : {"none", "opened", "started", "connected", "ended",
                                 "closed"},
                           of : Opt(Remote)]]
  /\ down \subseteq ConnId /\ copied \subseteq ConnId
  /\ known \in BOOLEAN
  /\ left \in [requests : Nat, datagrams : Nat]
-----------------------------------------------------------------------------
\* What a thread is at work on with the context found for its request
AtWork == {"first", "saved", "reserve", "reserved", "begun", "second", "open",
           "accept", "accepted", "start"}

(***************************************************************************)
(* While a request is worked on with the context found for it, nobody else *)
(* gives that context to a remote: Receive1st, ConnectTo and StartClient   *)
(* do not hold ModifyMutex and only risk that somebody empties it          *)
(* (connCtxCreationMutex, "Lock when creating a new connection context").  *)
(***************************************************************************)
NotGivenAway ==
  [][\A t \in Creator :
       at[t] \in AtWork /\ at'[t] \in AtWork => ctx'.remote \in {ctx.remote, Nobody}]_vars

(***************************************************************************)
(* A closed connection is never reached through the context: the handler   *)
(* of SHUTDOWN_COMPLETE has cleaned its side before it calls               *)
(* ConnectionClose, whatever was reset or reopened meanwhile.              *)
(***************************************************************************)
ContextHoldsOnlyOpen ==
  \A c \in {ctx.self, ctx.peer} \ {Nobody} : conns[c].st # "closed"

(***************************************************************************)
(* A RECEIVE handler that does not end any more: it loops on a part of a   *)
(* message, or it has found a gap and waits in Reset for the RecvMutex it  *)
(* holds itself.                                                           *)
(***************************************************************************)
LockedOut(c) ==
  \/ at[c] = "loop"
  \/ at[c] = "handles" /\ strm = c /\ modify # c

(***************************************************************************)
(* Nobody waits in a circle.  connCtxCreationMutex, ModifyMutex and a      *)
(* RecvMutex are taken in this order: who waits for one waits for a thread *)
(* at work, or for one that waits for a third, which is at work; the only  *)
(* thread that waits for itself is a RECEIVE handler behind a gap.  No     *)
(* mutex is left locked by a thread that is done (Receive2nd, StartClient, *)
(* Disconnect, the handlers that Reset).                                   *)
(***************************************************************************)
\* The thread that t cannot go on without
WaitsFor(t) ==
  CASE at[t] \in {"handles", "stream"} -> strm
    [] at[t] = "unhandled" -> recv
    [] at[t] \in {"second", "open", "disconnect"} -> modify
    [] OTHER -> Nobody

EndOfWaits(t) == WaitsFor(t) = Nobody \/ LockedOut(t)

WaitsEnd ==
  /\ \A u \in {creation, modify, recv, strm} \ {Nobody} : at[u] # "idle"
  /\ \A t \in Thread :
       \/ EndOfWaits(t)
       \/ EndOfWaits(WaitsFor(t))
       \/ EndOfWaits(WaitsFor(WaitsFor(t)))

(***************************************************************************)
(* Whoever has begun ends, unless a RECEIVE handler does not.              *)
(***************************************************************************)
SomeLockedOut == \E c \in ConnId : LockedOut(c)

NoThreadStuck ==
  \A t \in Thread : at[t] # "idle" ~> at[t] = "idle" \/ SomeLockedOut

(***************************************************************************)
(* A handshake does not last, even when Receive1st or ConnectTo were       *)
(* interleaved with a Reset and left a context that is half of each: the   *)
(* daemon finds it by HandshakeBegin alone (DoCheck), and resets it unless *)
(* a RECEIVE handler keeps the RecvMutex.                                  *)
(***************************************************************************)
HandshakeEnds == ctx.begin ~> ~ctx.begin \/ SomeLockedOut

-----------------------------------------------------------------------------
(***************************************************************************)
(* "Close both client (send) side and server (receive) side." (Reset): a   *)
(* context that is free for another remote holds no connection, once every *)
(* thread is done.                                                         *)
(***************************************************************************)
FreeHoldsNothing ==
  /\ \A t \in Thread : at[t] = "idle"
  /\ Empty /\ ~ctx.begin /\ ctx.remote = Nobody
  => ctx.self = Nobody /\ ctx.peer = Nobody

(***************************************************************************)
(* What the context holds is of the remote it is for, or it is for nobody. *)
(***************************************************************************)
HoldsItsRemotes ==
  \A c \in {ctx.self, ctx.peer} \ {Nobody} : ctx.remote \in {conns[c].of, Nobody}

(***************************************************************************)
(* ConnectionClose is called when nobody uses the handle any more          *)
(* (SHUTDOWN_COMPLETE, UnreliablePacketSend).                              *)
(***************************************************************************)
NoUseOfClosed == \A c \in copied : conns[c].st # "closed"

(***************************************************************************)
(* "desiredByte never less than bufBeginOffset" (RECEIVE), and a channel   *)
(* that is "TCP-like" gives its mutex back.                                *)
(***************************************************************************)
NobodyLockedOut == ~SomeLockedOut
=============================================================================
