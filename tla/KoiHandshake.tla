---------------------------- MODULE KoiHandshake ----------------------------
(***************************************************************************)
(* The UDP handshake of koisession.h and the life of a connection context. *)
(*                                                                         *)
(* Every endpoint runs one KoiSession: a sentinel socket that exchanges    *)
(* 8-byte packets of four ports, a QUIC listener, and a fixed table of     *)
(* ConnectionContexts.  After the handshake each side starts a QUIC        *)
(* connection of its own to the other side's listener, from the client     *)
(* port it announced, so that an established pair shares two connections.  *)
(*                                                                         *)
(* Every handler is one step here, but for Receive1st, which holds no      *)
(* ModifyMutex and reads HandshakeBegin a second time: it takes two.       *)
(* MsQuic and the network are modelled from how the session uses them:     *)
(* packets may be lost, duplicated and reordered, a connection may fail at *)
(* any time, ConnectionShutdown takes effect later, at the                 *)
(* SHUTDOWN_COMPLETE event.                                                *)
(***************************************************************************)
EXTENDS Integers

CONSTANTS
  Endpoint,    \* the sessions; also the address of their sentinel and listener
  Host,        \* IP addresses
  HostOf,      \* the host an endpoint runs on
  NumSlots,    \* maxConnections
  ClientPort,  \* ephemeral ports of one host (each is given out once)
  ConnId,      \* QUIC connections; every one is opened once
  None,        \* zero port, zero address, null handle
  Retry, ShortStop, LongStop,  \* the three timeouts, in ticks
  RefMod,      \* RefCount counts modulo this (2^32 in the code)
  Wants,       \* <<e, r>>: the application of e calls ConnectTo(r)
  BusySets,    \* the sets of slots whose ModifyMutex others may hold in a scan
  BindMayFail  \* whether UdpSocket::Bind may fail

Slot == 1 .. NumSlots
Unset == -1    \* HandshakeBegin has its default value

ASSUME ConstantsAssumption ==
  /\ None \notin Endpoint \cup ClientPort \cup ConnId \cup (Endpoint \X Endpoint)
  /\ HostOf \in [Endpoint -> Host]
  /\ NumSlots \in Nat \ {0}
  /\ RefMod \in Nat \ {0}
  /\ Retry \in Nat \ {0} /\ ShortStop \in Nat /\ LongStop \in Nat
  /\ Retry <= ShortStop /\ ShortStop <= LongStop
  /\ Wants \subseteq {w \in Endpoint \X Endpoint : w[1] # w[2]}
  /\ BusySets \subseteq SUBSET Slot
  /\ BindMayFail \in BOOLEAN

VARIABLES
  ctx,    \* ctx[e][i]: the ConnectionContext at index i of connectionContexts
  bound,  \* bound[h][p]: <<endpoint, remote>> that port p of host h was bound for
  net,    \* packets of four ports sent between sentinels, never removed
  conns,  \* conns[c]: the two ends of a QUIC connection
  app,    \* app[e]: slots whose KoiChan the application of e holds
  first   \* first[e]: the first packet that Receive1st of e is at work on

vars == <<ctx, bound, net, conns, app, first>>

Opt(S) == S \cup {None}

(***************************************************************************)
(* remote: RemoteSentinel; age: time since HandshakeBegin, or Unset;       *)
(* ls, lc, rs, rc: Ports.LocalServer, LocalClient, RemoteServer and        *)
(* RemoteClient; transient: the socket that holds the client port is open; *)
(* self, peer: Unreliable.Self and Unreliable.Peer; chan: ChannelContext   *)
(* is not expired; refs: RefCount.                                         *)
(***************************************************************************)
Context ==
  [remote : Opt(Endpoint), age : {Unset} \cup 0 .. LongStop,
   ls : Opt(Endpoint), lc : Opt(ClientPort),
   rs : Opt(Endpoint), rc : Opt(ClientPort),
   transient : BOOLEAN, self : Opt(ConnId), peer : Opt(ConnId),
   chan : BOOLEAN, refs : 0 .. RefMod - 1]

\* uint32_t arithmetic on RefCount
Incr(n) == IF n = RefMod - 1 THEN 0 ELSE n + 1
DecrNoWrap(n) == n - 1  \* mutation of Decr: a signed counter
Decr(n) == IF n = 0 THEN RefMod - 1 ELSE n - 1

\* The context of a connection that has none of its fields but RefCount set.
Blank(n) ==
  [remote |-> None, age |-> Unset, ls |-> None, lc |-> None, rs |-> None,
   rc |-> None, transient |-> FALSE, self |-> None, peer |-> None,
   chan |-> FALSE, refs |-> n]

\* ConnectionContext::Reset
Reset(x) == Blank(x.refs)

(***************************************************************************)
(* A packet carries the sender's ports, then the receiver's.  Which ports  *)
(* are zero tells the first packet from the second and the third.          *)
(***************************************************************************)
Packet ==
  [src : Endpoint, dst : Endpoint, ls : Opt(Endpoint), lc : Opt(ClientPort),
   rs : Opt(Endpoint), rc : Opt(ClientPort)]

Ports(e, r, ls, lc, rs, rc) ==
  [src |-> e, dst |-> r, ls |-> ls, lc |-> lc, rs |-> rs, rc |-> rc]

KnowsSender(m) == m.ls # None \/ m.lc # None
KnowsReceiver(m) == m.rs # None \/ m.rc # None

(***************************************************************************)
(* owner, slot, port, dst: who opened the connection for which context,    *)
(* from which port and to whose listener (None: it was never started).     *)
(* cs and ss are the client's and the server's end; "failed" is a client   *)
(* end that closed without ever being connected; sslot is the context that *)
(* the listener attached to the server's end.                              *)
(***************************************************************************)
ClientState == {"none", "opened", "started", "connected", "closed", "failed"}
ServerState == {"none", "pending", "connected", "closed"}

Connection ==
  [owner : Opt(Endpoint), slot : Slot \cup {0}, port : Opt(ClientPort),
   dst : Opt(Endpoint), cs : ClientState, sslot : Slot \cup {0},
   ss : ServerState]

NoConnection ==
  [owner |-> None, slot |-> 0, port |-> None, dst |-> None, cs |-> "none",
   sslot |-> 0, ss |-> "none"]

(***************************************************************************)
(* pkt: the packet; slot: foundIndex; begun: the context was in its        *)
(* handshake when ConsumeRawUdpData tested it.                             *)
(***************************************************************************)
FirstPacket == [pkt : Packet, slot : Slot, begun : BOOLEAN]

Init ==
  /\ ctx = [e \in Endpoint |-> [i \in Slot |-> Blank(0)]]
  /\ bound = [h \in Host |-> [p \in ClientPort |-> None]]
  /\ net = {}
  /\ conns = [c \in ConnId |-> NoConnection]
  /\ app = [e \in Endpoint |-> {}]
  /\ first = [e \in Endpoint |-> None]

-----------------------------------------------------------------------------
(***************************************************************************)
(* FindMatchingEntry.  Slots in busy are locked by someone else; try_lock  *)
(* fails and the scan passes over them.                                    *)
(***************************************************************************)
\* Mutation of Matches: only entries that are handshaking match.
MatchesHandshaking(e, r, busy) ==
  {i \in Slot \ busy : ctx[e][i].remote = r /\ ctx[e][i].age # Unset}

Matches(e, r, busy) == {i \in Slot \ busy : ctx[e][i].remote = r}

\* Mutation of Empties: the ports are not looked at.
EmptiesByCount(e, busy) == {i \in Slot \ busy : ctx[e][i].refs = 0}

Empties(e, busy) ==
  {i \in Slot \ busy :
     /\ ctx[e][i].refs = 0
     /\ ctx[e][i].ls = None /\ ctx[e][i].lc = None
     /\ ctx[e][i].rs = None /\ ctx[e][i].rc = None}

IsFirst(i, S) == i \in S /\ \A j \in S : i <= j

Matching(e, r, busy, i) == IsFirst(i, Matches(e, r, busy))

\* foundIndex: the matching entry, or else the first empty one
Found(e, r, busy, i) ==
  IF Matches(e, r, busy) # {} THEN Matching(e, r, busy, i)
                              ELSE IsFirst(i, Empties(e, busy))

FreePort(h, p) == bound[h][p] = None

\* Bind a client port and enter the handshake.
Begin(x, e, r, p) ==
  [x EXCEPT !.ls = e, !.lc = p, !.age = 0, !.transient = TRUE, !.remote = r]

\* No packet of e is being consumed: connCtxCreationMutex is free.
NothingFirst(e) == first[e] = None

ConnectTo(e, r) ==
  /\ NothingFirst(e)
  /\ <<e, r>> \in Wants
  /\ \E busy \in BusySets, i \in Slot, p \in ClientPort :
       /\ Matches(e, r, busy) = {}
       /\ IsFirst(i, Empties(e, busy))
       /\ FreePort(HostOf[e], p)
       /\ ctx' = [ctx EXCEPT ![e][i] = Begin(@, e, r, p)]
       /\ bound' = [bound EXCEPT ![HostOf[e]][p] = <<e, r>>]
       /\ net' = net \cup {Ports(e, r, e, p, None, None)}
  /\ UNCHANGED <<conns, app, first>>

\* A client connection of slot i of e, not known to any server.
Client(e, i, port, dst, state) ==
  [owner |-> e, slot |-> i, port |-> port, dst |-> dst, cs |-> state,
   sslot |-> 0, ss |-> "none"]

(***************************************************************************)
(* StartClient on slot i of e, whose context is x.  Nothing happens when a *)
(* client was opened before or ConnectionOpen fails.  Otherwise OnAccept   *)
(* decides: a rejected channel is reset, which drops the connection just   *)
(* opened; an accepted one gives its port over to the connection.  A       *)
(* connection to port 0 is not started by MsQuic.                          *)
(***************************************************************************)
StartClient(e, i, x) ==
  \/ /\ ctx' = [ctx EXCEPT ![e][i] = x]
     /\ UNCHANGED <<conns, app>>
  \/ \E c \in ConnId :
       /\ x.self = None
       /\ conns[c].cs = "none"
       /\ \/ /\ ctx' = [ctx EXCEPT ![e][i] =
                         [x EXCEPT !.self = c, !.transient = FALSE, !.chan = TRUE]]
             /\ conns' = [conns EXCEPT ![c] =
                  Client(e, i, x.lc, x.rs,
                         IF x.rs = None THEN "opened" ELSE "started")]
             /\ app' = [app EXCEPT ![e] = @ \cup {i}]
          \/ /\ ctx' = [ctx EXCEPT ![e][i] = Reset(x)]
             /\ conns' = [conns EXCEPT ![c] = Client(e, i, x.lc, None, "opened")]
             /\ UNCHANGED app

(***************************************************************************)
(* ConsumeRawUdpData: one action per packet.  An established connection    *)
(* (a matching entry whose HandshakeBegin is unset) ignores all of them.   *)
(***************************************************************************)

Established(e, r, busy, i) ==
  Matching(e, r, busy, i) /\ ctx[e][i].age = Unset

(***************************************************************************)
(* Receive1st saves the peer's ports on the context it was given ...       *)
(***************************************************************************)
ReceiveFirst(e, m) ==
  /\ NothingFirst(e)
  /\ m.dst = e /\ KnowsSender(m) /\ ~KnowsReceiver(m)
  /\ \E busy \in BusySets, i \in Slot :
       /\ Found(e, m.src, busy, i)
       /\ ~Established(e, m.src, busy, i)
       /\ ctx' = [ctx EXCEPT ![e][i] = [@ EXCEPT !.rs = m.ls, !.rc = m.lc]]
       /\ first' = [first EXCEPT ![e] =
                      [pkt |-> m, slot |-> i, begun |-> ctx[e][i].age # Unset]]
  /\ UNCHANGED <<bound, net, conns, app>>

(***************************************************************************)
(* ... and then tests HandshakeBegin again: a context that is not in its   *)
(* handshake (any more) begins one with a new client port.                 *)
(***************************************************************************)
AnswerFirst(e) ==
  /\ ~NothingFirst(e)
  /\ LET m == first[e].pkt
         i == first[e].slot
         x == ctx[e][i]
     IN \/ /\ x.age # Unset
           /\ net' = net \cup {Ports(e, m.src, x.ls, x.lc, m.ls, m.lc)}
           /\ UNCHANGED <<ctx, bound>>
        \/ \E p \in ClientPort :
             /\ x.age = Unset
             /\ FreePort(HostOf[e], p)
             /\ ctx' = [ctx EXCEPT ![e][i] = Begin(@, e, m.src, p)]
             /\ bound' = [bound EXCEPT ![HostOf[e]][p] = <<e, m.src>>]
             /\ net' = net \cup {Ports(e, m.src, e, p, m.ls, m.lc)}
        \/ /\ x.age = Unset
           /\ BindMayFail
           /\ UNCHANGED <<ctx, bound, net>>
  /\ first' = [first EXCEPT ![e] = None]
  /\ UNCHANGED <<conns, app>>

ReceiveSecond(e, m) ==
  /\ NothingFirst(e)
  /\ m.dst = e /\ KnowsSender(m) /\ KnowsReceiver(m)
  /\ \E busy \in BusySets, i \in Slot :
       /\ Matching(e, m.src, busy, i)
       /\ ctx[e][i].age # Unset
       /\ net' = net \cup {Ports(e, m.src, None, None, m.ls, m.lc)}
       /\ StartClient(e, i, [ctx[e][i] EXCEPT !.rs = m.ls, !.rc = m.lc])
  /\ UNCHANGED <<bound, first>>

ReceiveThird(e, m) ==
  /\ NothingFirst(e)
  /\ m.dst = e /\ ~KnowsSender(m) /\ KnowsReceiver(m)
  /\ \E busy \in BusySets, i \in Slot :
       /\ Matching(e, m.src, busy, i)
       /\ ctx[e][i].age # Unset
       /\ StartClient(e, i, ctx[e][i])
  /\ UNCHANGED <<bound, net, first>>

-----------------------------------------------------------------------------
(***************************************************************************)
(* DoCheck, called by the daemon for every slot every retryTimeout.        *)
(***************************************************************************)
KnowsPeerPorts(x) == x.rs # None \/ x.rc # None

LongStopExpires(e, i) ==
  /\ ctx[e][i].age = LongStop
  /\ ctx' = [ctx EXCEPT ![e][i] = Reset(@)]
  /\ UNCHANGED <<bound, net, conns, app, first>>

ShortStopExpires(e, i) ==
  /\ ctx[e][i].age >= ShortStop /\ ctx[e][i].age < LongStop
  /\ KnowsPeerPorts(ctx[e][i])
  /\ ctx' = [ctx EXCEPT ![e][i] = Reset(@)]
  /\ app' = [app EXCEPT ![e] = @ \ {i}]      \* OnDisconnect
  /\ UNCHANGED <<bound, net, conns, first>>

Resend(e, i) ==
  LET x == ctx[e][i]
  IN /\ x.age >= Retry /\ x.age < LongStop
     /\ KnowsPeerPorts(x) => x.age < ShortStop
     /\ net' = net \cup {Ports(e, x.remote, x.ls, x.lc, x.rs, x.rc)}
     /\ UNCHANGED <<ctx, bound, conns, app, first>>

\* Mutation of DoCheck: without the long stop.
DoCheckNoLongStop(e, i) == ShortStopExpires(e, i) \/ Resend(e, i)

DoCheck(e, i) ==
  LongStopExpires(e, i) \/ ShortStopExpires(e, i) \/ Resend(e, i)

\* Time passes at e; ages above LongStop make no difference.
Older(x) ==
  IF x.age \in {Unset, LongStop} THEN x ELSE [x EXCEPT !.age = @ + 1]

Tick(e) ==
  /\ \E i \in Slot : ctx[e][i].age \notin {Unset, LongStop}
  /\ ctx' = [ctx EXCEPT ![e] = [i \in Slot |-> Older(ctx[e][i])]]
  /\ UNCHANGED <<bound, net, conns, app, first>>

\* The application calls Disconnect on a KoiChan it still holds.
Disconnect(e, i) ==
  /\ i \in app[e]
  /\ ctx' = [ctx EXCEPT ![e][i] = Reset(@)]
  /\ UNCHANGED <<bound, net, conns, app, first>>

\* The application destroys the object ChannelContext points to.
ForgetChannel(e, i) ==
  /\ ctx[e][i].chan
  /\ ctx' = [ctx EXCEPT ![e][i].chan = FALSE]
  /\ UNCHANGED <<bound, net, conns, app, first>>

-----------------------------------------------------------------------------
(***************************************************************************)
(* QUIC events.  The handler's context is the slot the connection was      *)
(* opened for, or attached to, whatever that slot holds by now.            *)
(***************************************************************************)

\* Mutation of Expecting: the port is not compared.
ExpectingAnyPort(e, p, h) ==
  {i \in Slot : ctx[e][i].remote # None /\ HostOf[ctx[e][i].remote] = h}

\* The slots the listener of e takes a connection from port p of host h for.
Expecting(e, p, h) ==
  {i \in Slot : /\ ctx[e][i].rc = p
                /\ ctx[e][i].remote # None
                /\ HostOf[ctx[e][i].remote] = h}

\* QUIC_LISTENER_EVENT_NEW_CONNECTION; without a slot the client end fails.
NewConnection(c) ==
  LET e == conns[c].dst
  IN /\ conns[c].cs \in {"started", "failed"}
     /\ e # None
     /\ conns[c].ss = "none"
     /\ \E i \in Slot :
          /\ IsFirst(i, Expecting(e, conns[c].port, HostOf[conns[c].owner]))
          /\ ctx' = [ctx EXCEPT ![e][i].peer = c]
          /\ conns' = [conns EXCEPT ![c].ss = "pending", ![c].sslot = i]
     /\ UNCHANGED <<bound, net, app, first>>

\* Mutation of Connected: HandshakeBegin is not cleared.
ConnectedKeepsTime(x) == [x EXCEPT !.refs = Incr(@)]

\* QUIC_CONNECTION_EVENT_CONNECTED on a context
Connected(x) == [x EXCEPT !.age = Unset, !.refs = Incr(@)]

ClientConnected(c) ==
  /\ conns[c].cs = "started" /\ conns[c].ss # "none"
  /\ conns' = [conns EXCEPT ![c].cs = "connected"]
  /\ ctx' = [ctx EXCEPT ![conns[c].owner][conns[c].slot] = Connected(@)]
  /\ UNCHANGED <<bound, net, app, first>>

ServerConnected(c) ==
  /\ conns[c].ss = "pending" /\ conns[c].cs \in {"connected", "closed"}
  /\ conns' = [conns EXCEPT ![c].ss = "connected"]
  /\ ctx' = [ctx EXCEPT ![conns[c].dst][conns[c].sslot] = Connected(@)]
  /\ UNCHANGED <<bound, net, app, first>>

(***************************************************************************)
(* The end of SHUTDOWN_COMPLETE on slot i of e, whose context is x once    *)
(* the handles of one side are cleaned: the last reference reports         *)
(* OnDisconnect and cleans the context.                                    *)
(***************************************************************************)
Release(e, i, x) ==
  LET n == Decr(x.refs)
  IN IF n = 0
       THEN /\ ctx' = [ctx EXCEPT ![e][i] = Blank(0)]
            /\ app' = [app EXCEPT ![e] = @ \ {i}]
       ELSE /\ ctx' = [ctx EXCEPT ![e][i] = [x EXCEPT !.refs = n]]
            /\ UNCHANGED app

ClientShutdownComplete(c) ==
  LET e == conns[c].owner
      i == conns[c].slot
  IN /\ \/ conns[c].cs \in {"started", "connected"}
        \/ conns[c].cs = "opened" /\ ctx[e][i].self # c
     /\ conns' = [conns EXCEPT ![c].cs =
                    IF @ = "connected" THEN "closed" ELSE "failed"]
     /\ Release(e, i, [ctx[e][i] EXCEPT !.self = None])
     /\ UNCHANGED <<bound, net, first>>

ServerShutdownComplete(c) ==
  LET e == conns[c].dst
      i == conns[c].sslot
  IN /\ conns[c].ss \in {"pending", "connected"}
     /\ conns' = [conns EXCEPT ![c].ss = "closed"]
     /\ Release(e, i, [ctx[e][i] EXCEPT !.peer = None])
     /\ UNCHANGED <<bound, net, first>>

\* DATAGRAM_RECEIVED or stream RECEIVE: the channel context has expired.
DropOnReceive(e, i) ==
  /\ ~ctx[e][i].chan
  /\ ctx' = [ctx EXCEPT ![e][i] = Reset(@)]
  /\ UNCHANGED <<bound, net, conns, app, first>>

ReceiveWithoutContext(c) ==
  \/ conns[c].cs = "connected" /\ DropOnReceive(conns[c].owner, conns[c].slot)
  \/ conns[c].ss = "connected" /\ DropOnReceive(conns[c].dst, conns[c].sslot)

-----------------------------------------------------------------------------
ReceivePacket ==
  \E m \in net : \/ ReceiveFirst(m.dst, m)
                 \/ ReceiveSecond(m.dst, m)
                 \/ ReceiveThird(m.dst, m)

QuicEvent ==
  \E c \in ConnId : \/ NewConnection(c)
                    \/ ClientConnected(c)
                    \/ ServerConnected(c)
                    \/ ClientShutdownComplete(c)
                    \/ ServerShutdownComplete(c)
                    \/ ReceiveWithoutContext(c)

Next ==
  \/ \E e, r \in Endpoint : ConnectTo(e, r)
  \/ ReceivePacket
  \/ \E e \in Endpoint : AnswerFirst(e)
  \/ \E e \in Endpoint, i \in Slot :
       DoCheck(e, i) \/ Disconnect(e, i) \/ ForgetChannel(e, i)
  \/ \E e \in Endpoint : Tick(e)
  \/ QuicEvent

Spec == Init /\ [][Next]_vars

(***************************************************************************)
(* The daemon thread looks at every slot again and again while time goes   *)
(* on.  Nothing is assumed of the network, of MsQuic or of the application.*)
(***************************************************************************)
Fairness ==
  \A e \in Endpoint : WF_vars(Tick(e)) /\ \A i \in Slot : WF_vars(DoCheck(e, i))

FairSpec == Spec /\ Fairness

-----------------------------------------------------------------------------
TypeOK ==
  /\ ctx \in [Endpoint -> [Slot -> Context]]
  /\ bound \in [Host -> [ClientPort -> Opt(Endpoint \X Endpoint)]]
  /\ net \subseteq Packet
  /\ conns \in [ConnId -> Connection]
  /\ app \in [Endpoint -> SUBSET Slot]
  /\ first \in [Endpoint -> Opt(FirstPacket)]

(***************************************************************************)
(* The peer ports a context works with are the ones its remote bound for   *)
(* this very endpoint, however late, often or out of order the packets     *)
(* arrive and whoever used the slot before (Receive1st, Receive2nd, Reset).*)
(***************************************************************************)
GenuinePorts ==
  \A e \in Endpoint, i \in Slot :
    LET x == ctx[e][i]
    IN x.remote # None =>
         /\ x.rs \in {None, x.remote}
         /\ x.rc # None => bound[HostOf[x.remote]][x.rc] = <<x.remote, e>>

(***************************************************************************)
(* A context never holds a connection of anyone but its remote: the client *)
(* it started goes to the remote's listener, and the connection the        *)
(* listener attached to it (NEW_CONNECTION matches port and IP only) comes *)
(* from the remote, even if several remotes share a host.                  *)
(***************************************************************************)
RightPeer ==
  \A e \in Endpoint, i \in Slot :
    LET x == ctx[e][i]
    IN /\ x.self # None =>
            /\ conns[x.self].owner = e /\ conns[x.self].slot = i
            /\ conns[x.self].dst \in {None, x.remote}
       /\ x.peer # None =>
            /\ conns[x.peer].owner = x.remote
            /\ conns[x.peer].dst = e /\ conns[x.peer].sslot = i

\* Slot i of e holds a connection that is connected ...
HoldsConnected(e, i) ==
  \E c \in ConnId :
    \/ ctx[e][i].self = c /\ conns[c].cs = "connected"
    \/ ctx[e][i].peer = c /\ conns[c].ss = "connected"

\* ... and is in a handshake that the daemon will give up.
Overdue(e, i) == ctx[e][i].age # Unset /\ HoldsConnected(e, i)

(***************************************************************************)
(* An established context stays out of the handshake, so that the daemon   *)
(* never times it out, though retried packets and a second CONNECTED keep  *)
(* arriving.  Nothing brings it back but a first packet that Receive1st    *)
(* took up while the handshake was on: CONNECTED came between its two      *)
(* tests of HandshakeBegin.                                                *)
(***************************************************************************)
EstablishedStays ==
  [][\A e \in Endpoint, i \in Slot :
       Overdue(e, i)' /\ ~Overdue(e, i) =>
         /\ HoldsConnected(e, i)
         /\ ~NothingFirst(e) /\ first[e].slot = i /\ first[e].begun]_vars

(***************************************************************************)
(* The table of contexts does what ContextTable promises: a slot is        *)
(* reserved only when free, for a remote that has no other slot, whichever *)
(* of ConnectTo and Receive1st comes first (FindMatchingEntry).            *)
(***************************************************************************)
PeerOf == [e \in Endpoint |-> [i \in Slot |-> ctx[e][i].remote]]

Table == INSTANCE ContextTable WITH peerOf <- PeerOf

TableSpec == Table!Spec

(***************************************************************************)
(* A slot passes to a remote only when nobody has it: it serves no remote  *)
(* and holds no connection of either side, though FindMatchingEntry looks  *)
(* only at the ports and RefCount, before Receive1st reserves the slot,    *)
(* and whichever slots it could not lock.                                  *)
(***************************************************************************)
Free(x) == x.remote = None /\ x.self = None /\ x.peer = None

ReservesFree ==
  [][\A e \in Endpoint, i \in Slot :
       ctx'[e][i].remote \notin {None, ctx[e][i].remote} => Free(ctx[e][i])]_vars

(***************************************************************************)
(* Every handshake ends: connected, or given up at the long stop, even if  *)
(* the peer never answers (DoCheck).                                       *)
(***************************************************************************)
HandshakeEnds ==
  \A e \in Endpoint, i \in Slot :
    ctx[e][i].age # Unset ~> ctx[e][i].age = Unset

-----------------------------------------------------------------------------
(***************************************************************************)
(* What comments of the source say and the code does not do.               *)
(***************************************************************************)

\* c is connected and reports its events to slot i of e.
ConnectedOn(c, e, i) ==
  \/ conns[c].cs = "connected" /\ conns[c].owner = e /\ conns[c].slot = i
  \/ conns[c].ss = "connected" /\ conns[c].dst = e /\ conns[c].sslot = i

\* c is closed, and reported that to slot i of e.
ClosedOn(c, e, i) ==
  \/ conns[c].cs \in {"closed", "failed"} /\ conns[c].owner = e /\ conns[c].slot = i
  \/ conns[c].ss = "closed" /\ conns[c].dst = e /\ conns[c].sslot = i

\* c is open at the end that reports to slot i of e.
OpenOn(c, e, i) ==
  \/ /\ conns[c].cs \in {"opened", "started", "connected"}
     /\ conns[c].owner = e /\ conns[c].slot = i
  \/ /\ conns[c].ss \in {"pending", "connected"}
     /\ conns[c].dst = e /\ conns[c].sslot = i

\* koichan.h:78, of Transient: "only available before connection establishing".
TransientOnlyBeforeEstablished ==
  \A e \in Endpoint, i \in Slot :
    ctx[e][i].transient => ~ \E c \in ConnId : ConnectedOn(c, e, i)

\* koisession.h:774: "If both side are closed, we clean the context."  After
\* that no reference is counted that would keep the slot from being used.
BothClosedMeansClean ==
  \A e \in Endpoint, i \in Slot :
    /\ \E c \in ConnId : ClosedOn(c, e, i)
    /\ ~ \E c \in ConnId : OpenOn(c, e, i)
    => ctx[e][i].refs = 0

\* koisession.h:752: "We only clean the handles of the side (client/server)
\* this connection represents."
OwnHandleOnly ==
  [][\A c \in ConnId :
       conns[c].cs # conns'[c].cs /\ conns'[c].cs \in {"closed", "failed"} =>
         ctx[conns[c].owner][conns[c].slot].self \in {None, c}]_vars

\* koisession.h:394: "already connected and the begin time of handshake was
\* reset"; so a context that is connected is in no handshake.
NoTimeoutWhenConnected == \A e \in Endpoint, i \in Slot : ~Overdue(e, i)

\* koichan.h:74: "If the time of handshake is default value, we consider it is
\* not hanshakeing. (connected or idle)"; idle is what FindMatchingEntry takes
\* for an empty space, connected what ConsumeRawUdpData takes for connected.
UnsetMeansConnectedOrIdle ==
  \A e \in Endpoint, i \in Slot :
    ctx[e][i].age = Unset => ctx[e][i].remote # None \/ i \in Empties(e, {})

\* koisession.h:321: "If there is an matching entry, return (true, index)";
\* so no remote is given a second entry.
OneContextPerRemote ==
  \A e \in Endpoint : \A i, j \in Slot :
    ctx[e][i].remote # None /\ ctx[e][i].remote = ctx[e][j].remote => i = j
=============================================================================
