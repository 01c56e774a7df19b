------------------------- MODULE KoiHandshakeProofs -------------------------
(***************************************************************************)
(* TypeOK, GenuinePorts, RightPeer and EstablishedStays hold of every      *)
(* behaviour of KoiHandshake, whatever the endpoints, hosts, slots, ports, *)
(* connections and timeouts are.                                           *)
(*                                                                         *)
(* None of them is inductive: a context's peer ports come from a packet, a *)
(* packet's ports from its sender's context, and a connection's port from  *)
(* its owner's context.  Good says of all three that the port was bound by *)
(* that endpoint, which stays true because no port is bound twice, and     *)
(* that only a context with a remote holds connections.  FirstGood says    *)
(* what becomes of a slot between the two steps of Receive1st.             *)
(***************************************************************************)
EXTENDS KoiHandshake, TLAPS

\* A client port in a packet was bound by the sender for the receiver.
PacketGood(m, bd) ==
  /\ m.src # m.dst
  /\ m.ls \in {None, m.src}
  /\ m.lc # None => bd[HostOf[m.src]][m.lc] = <<m.src, m.dst>>

(***************************************************************************)
(* Slot i of e holds x.  Q is any set of slots that are not overdue: what  *)
(* follows shows that they stay so, but for one case of AnswerFirst.       *)
(***************************************************************************)
ContextGood(Q, e, i, x, bd, cn) ==
  /\ x.remote # e
  /\ x.age # Unset => x.remote # None
  /\ x.remote # None => x.ls # None /\ x.lc # None
  /\ x.remote = None => x.ls = None /\ x.lc = None /\ x.self = None /\ x.peer = None
  /\ x.ls \in {None, e}
  /\ x.lc # None => bd[HostOf[e]][x.lc] = <<e, x.remote>>
  /\ x.remote # None =>
       /\ x.rs \in {None, x.remote}
       /\ x.rc # None => bd[HostOf[x.remote]][x.rc] = <<x.remote, e>>
  /\ x.self # None =>
       /\ cn[x.self].owner = e /\ cn[x.self].slot = i
       /\ cn[x.self].dst \in {None, x.remote}
       /\ <<e, i>> \in Q /\ cn[x.self].cs = "connected" => x.age = Unset
  /\ x.peer # None =>
       /\ cn[x.peer].owner = x.remote
       /\ cn[x.peer].dst = e /\ cn[x.peer].sslot = i
       /\ <<e, i>> \in Q /\ cn[x.peer].ss = "connected" => x.age = Unset

\* A connection that was opened has an owner, which bound its port.
ConnectionGood(k, bd) ==
  /\ k.cs = "none" => k = NoConnection
  /\ k.cs # "none" =>
       /\ k.owner \in Endpoint /\ k.slot \in Slot /\ k.port \in ClientPort
       /\ bd[HostOf[k.owner]][k.port] # None
       /\ bd[HostOf[k.owner]][k.port][1] = k.owner
  /\ k.ss = "none" => k.sslot = 0
  /\ k.ss # "none" => k.dst \in Endpoint /\ k.sslot \in Slot

Typed ==
  /\ ctx \in [Endpoint -> [Slot -> Context]]
  /\ bound \in [Host -> [ClientPort -> Opt(Endpoint \X Endpoint)]]
  /\ net \subseteq Packet
  /\ conns \in [ConnId -> Connection]
  /\ app \in [Endpoint -> SUBSET Slot]

Good(Q) ==
  /\ Typed
  /\ \A m \in net : PacketGood(m, bound)
  /\ \A e \in Endpoint, i \in Slot : ContextGood(Q, e, i, ctx[e][i], bound, conns)
  /\ \A c \in ConnId : ConnectionGood(conns[c], bound)

(***************************************************************************)
(* A first packet that is being worked on stays in the network, and the    *)
(* slot it was given serves its sender or nobody.  If it serves nobody it  *)
(* has no peer's ports but the packet's, and if it was empty to begin with *)
(* it still serves nobody.  No other slot serves the sender, unless scans  *)
(* may pass over locked slots.                                             *)
(***************************************************************************)
FirstGood(e) ==
  LET f == first[e]
      x == ctx[e][f.slot]
  IN first[e] # None =>
       /\ f.pkt \in net /\ f.pkt.dst = e
       /\ x.remote \in {None, f.pkt.src}
       /\ x.remote = None => x.rs \in {None, f.pkt.ls} /\ x.rc \in {None, f.pkt.lc}
       /\ ~f.begun => x.remote = None
       /\ BusySets = {{}} => \A j \in Slot \ {f.slot} : ctx[e][j].remote # f.pkt.src

AllFirstGood ==
  /\ first \in [Endpoint -> Opt(FirstPacket)]
  /\ \A e \in Endpoint : FirstGood(e)

FirstInv == AllFirstGood /\ (BusySets = {{}} => OneContextPerRemote)

IInv == Good({}) /\ FirstInv

-----------------------------------------------------------------------------
\* The parts of the assumption on the constants that most steps need.
LEMMA ConstantsTyped ==
  /\ HostOf \in [Endpoint -> Host]
  /\ None \notin Endpoint /\ None \notin ClientPort /\ None \notin ConnId
  BY ConstantsAssumption

\* What a step may do to the ports: a free one may be bound.
PortsGrow(bd, bd2) ==
  \A h \in Host, p \in ClientPort : bd[h][p] # None => bd2[h][p] = bd[h][p]

\* What a step on slot i of e may do to the connections.
ConnsGrow(cn, cn2, e, i) ==
  \A c \in ConnId :
    /\ cn[c].cs # "none" =>
         /\ cn2[c].owner = cn[c].owner /\ cn2[c].slot = cn[c].slot
         /\ cn2[c].dst = cn[c].dst
    /\ cn[c].ss # "none" => cn2[c].sslot = cn[c].sslot
    /\ cn2[c].cs = "connected" =>
         cn[c].cs = "connected" \/ (cn2[c].owner = e /\ cn2[c].slot = i)
    /\ cn2[c].ss = "connected" =>
         cn[c].ss = "connected" \/ (cn2[c].dst = e /\ cn2[c].sslot = i)

PortMap == [Host -> [ClientPort -> Opt(Endpoint \X Endpoint)]]

\* Binding a free port leaves the bound ones alone.
LEMMA BindGrows ==
  ASSUME NEW bd \in PortMap, NEW h \in Host, NEW p \in ClientPort,
         NEW v \in Endpoint \X Endpoint, bd[h][p] = None
  PROVE  /\ [bd EXCEPT ![h][p] = v] \in PortMap
         /\ PortsGrow(bd, [bd EXCEPT ![h][p] = v])
  BY DEF PortMap, Opt, PortsGrow

\* A bound port is told from a free one.
LEMMA PairIsNotNone ==
  ASSUME NEW e \in Endpoint, NEW r \in Endpoint
  PROVE  <<e, r>> # None
<1>1. <<e, r>> \in Endpoint \X Endpoint
  OBVIOUS
<1> QED
  BY ConstantsAssumption, <1>1

\* A packet stays good.
LEMMA PacketStable ==
  ASSUME NEW m \in Packet, NEW bd, NEW bd2,
         PortsGrow(bd, bd2), PacketGood(m, bd)
  PROVE  PacketGood(m, bd2)
  BY ConstantsTyped, PairIsNotNone DEF Packet, Opt, PortsGrow, PacketGood

\* A connection stays good.
LEMMA ConnectionStable ==
  ASSUME NEW k \in Connection, NEW bd, NEW bd2,
         PortsGrow(bd, bd2), ConnectionGood(k, bd)
  PROVE  ConnectionGood(k, bd2)
  BY ConstantsTyped DEF Connection, Opt, PortsGrow, ConnectionGood

\* A context that a step does not touch stays good.
LEMMA ContextStable ==
  ASSUME NEW Q, NEW f \in Endpoint, NEW j \in Slot, NEW x \in Context,
         NEW bd, NEW bd2, NEW cn \in [ConnId -> Connection], NEW cn2,
         NEW e, NEW i, <<f, j>> # <<e, i>>,
         PortsGrow(bd, bd2), ConnsGrow(cn, cn2, e, i),
         \A c \in ConnId : ConnectionGood(cn[c], bd),
         ContextGood(Q, f, j, x, bd, cn)
  PROVE  ContextGood(Q, f, j, x, bd2, cn2)
<1> USE ConstantsTyped
<1>1. x.remote \in Opt(Endpoint) /\ x.lc \in Opt(ClientPort) /\ x.rc \in Opt(ClientPort)
      /\ x.self \in Opt(ConnId) /\ x.peer \in Opt(ConnId)
  BY DEF Context
<1>2. x.lc # None => bd2[HostOf[f]][x.lc] = <<f, x.remote>>
  BY <1>1, PairIsNotNone, ZenonT(30) DEF ContextGood, PortsGrow, Opt
<1>3. x.remote # None /\ x.rc # None =>
        bd2[HostOf[x.remote]][x.rc] = <<x.remote, f>>
  BY <1>1, PairIsNotNone, ZenonT(30) DEF ContextGood, PortsGrow, Opt
<1>4. x.self # None =>
        /\ cn2[x.self].owner = f /\ cn2[x.self].slot = j
        /\ cn2[x.self].dst \in {None, x.remote}
        /\ <<f, j>> \in Q /\ cn2[x.self].cs = "connected" => x.age = Unset
  <2> SUFFICES ASSUME x.self # None PROVE
        /\ cn2[x.self].owner = f /\ cn2[x.self].slot = j
        /\ cn2[x.self].dst \in {None, x.remote}
        /\ <<f, j>> \in Q /\ cn2[x.self].cs = "connected" => x.age = Unset
    OBVIOUS
  <2>1. x.self \in ConnId /\ cn[x.self].owner = f /\ cn[x.self].slot = j
    BY <1>1 DEF ContextGood, Opt
  <2>2. cn[x.self].cs # "none"
    BY <2>1 DEF ConnectionGood, NoConnection
  <2> QED
    BY <2>1, <2>2 DEF ContextGood, ConnsGrow
<1>5. x.peer # None =>
        /\ cn2[x.peer].owner = x.remote
        /\ cn2[x.peer].dst = f /\ cn2[x.peer].sslot = j
        /\ <<f, j>> \in Q /\ cn2[x.peer].ss = "connected" => x.age = Unset
  <2> SUFFICES ASSUME x.peer # None PROVE
        /\ cn2[x.peer].owner = x.remote
        /\ cn2[x.peer].dst = f /\ cn2[x.peer].sslot = j
        /\ <<f, j>> \in Q /\ cn2[x.peer].ss = "connected" => x.age = Unset
    OBVIOUS
  <2>1. x.peer \in ConnId /\ cn[x.peer].dst = f /\ cn[x.peer].sslot = j
    BY <1>1 DEF ContextGood, Opt
  <2>2. cn[x.peer].cs # "none" /\ cn[x.peer].ss # "none"
    BY <2>1 DEF ConnectionGood, NoConnection, Slot
  <2> QED
    BY <2>1, <2>2 DEF ContextGood, ConnsGrow
<1> QED
  BY <1>2, <1>3, <1>4, <1>5 DEF ContextGood

\* A step on one context that keeps it good keeps Good(Q).
LEMMA ContextStep ==
  ASSUME NEW Q, Good(Q),
         NEW e \in Endpoint, NEW i \in Slot, NEW y \in Context,
         ctx' = [ctx EXCEPT ![e][i] = y],
         bound' \in PortMap, PortsGrow(bound, bound'),
         conns' \in [ConnId -> Connection], ConnsGrow(conns, conns', e, i),
         net' \subseteq Packet, app' \in [Endpoint -> SUBSET Slot],
         ContextGood(Q, e, i, y, bound', conns'),
         \A c \in ConnId : ConnectionGood(conns'[c], bound'),
         \A m \in net' : m \notin net => PacketGood(m, bound')
  PROVE  Good(Q)'
<1> USE DEF Good
<1>1. Typed'
  BY DEF Typed, PortMap
<1>2. \A m \in net' : PacketGood(m, bound')
  BY PacketStable DEF Typed
<1>3. ASSUME NEW f \in Endpoint, NEW j \in Slot
      PROVE  ContextGood(Q, f, j, ctx'[f][j], bound', conns')
  <2>1. CASE f = e /\ j = i
    BY <2>1 DEF Typed
  <2>2. CASE f # e \/ j # i
    <3>1. ctx'[f][j] = ctx[f][j] /\ ctx[f][j] \in Context
      BY <2>2 DEF Typed
    <3>2. ContextGood(Q, f, j, ctx[f][j], bound, conns)
      OBVIOUS
    <3>3. conns \in [ConnId -> Connection] /\ \A c \in ConnId : ConnectionGood(conns[c], bound)
      BY DEF Typed
    <3> HIDE DEF Good
    <3> QED
      BY <2>2, <3>1, <3>2, <3>3, ContextStable
  <2> QED
    BY <2>1, <2>2
<1> QED
  BY <1>1, <1>2, <1>3

\* When no port is bound and no connection changes, Good(Q)'s parts stay.
LEMMA NothingGrows ==
  ASSUME NEW Q, Good(Q), NEW e \in Endpoint, NEW i \in Slot
  PROVE  /\ bound \in PortMap /\ PortsGrow(bound, bound)
         /\ conns \in [ConnId -> Connection] /\ ConnsGrow(conns, conns, e, i)
         /\ \A c \in ConnId : ConnectionGood(conns[c], bound)
         /\ net \subseteq Packet /\ app \in [Endpoint -> SUBSET Slot]
  BY DEF Good, Typed, PortMap, PortsGrow, ConnsGrow

\* What Good(Q) says of one context.
LEMMA ContextIn ==
  ASSUME NEW Q, Good(Q), NEW e \in Endpoint, NEW i \in Slot
  PROVE  ctx[e][i] \in Context /\ ContextGood(Q, e, i, ctx[e][i], bound, conns)
  BY DEF Good, Typed

\* A reset context is good.
LEMMA BlankGood ==
  ASSUME NEW Q, NEW e \in Endpoint, NEW i \in Slot,
         NEW n \in 0 .. RefMod - 1, NEW bd, NEW cn
  PROVE  Blank(n) \in Context /\ ContextGood(Q, e, i, Blank(n), bd, cn)
  BY ConstantsAssumption DEF Blank, Context, Opt, ContextGood

\* A step that resets one context and touches no connection keeps Good(Q).
LEMMA ResetStep ==
  ASSUME NEW Q, Good(Q), NEW e \in Endpoint, NEW i \in Slot,
         ctx' = [ctx EXCEPT ![e][i] = Reset(ctx[e][i])],
         UNCHANGED <<bound, net, conns>>, app' \in [Endpoint -> SUBSET Slot]
  PROVE  Good(Q)'
<1>1. ctx[e][i].refs \in 0 .. RefMod - 1
  BY ContextIn DEF Context
<1>2. /\ Reset(ctx[e][i]) \in Context
      /\ ContextGood(Q, e, i, Reset(ctx[e][i]), bound', conns')
  BY <1>1, BlankGood DEF Reset
<1>3. /\ bound' \in PortMap /\ PortsGrow(bound, bound')
      /\ conns' \in [ConnId -> Connection] /\ ConnsGrow(conns, conns', e, i)
      /\ \A c \in ConnId : ConnectionGood(conns'[c], bound')
      /\ net' = net /\ net' \subseteq Packet
  BY NothingGrows
<1> QED
  BY <1>2, <1>3, ContextStep

-----------------------------------------------------------------------------
(***************************************************************************)
(* The handlers of the UDP handshake                                       *)
(***************************************************************************)

\* A slot that FindMatchingEntry takes for empty serves nobody.
LEMMA EmptyServesNobody ==
  ASSUME NEW Q, Good(Q), NEW e \in Endpoint, NEW busy, NEW i \in Empties(e, busy)
  PROVE  /\ i \in Slot
         /\ ctx[e][i].remote = None
         /\ ctx[e][i].self = None /\ ctx[e][i].peer = None
         /\ ctx[e][i].ls = None /\ ctx[e][i].lc = None
         /\ ctx[e][i].rs = None /\ ctx[e][i].rc = None
<1>1. i \in Slot /\ ctx[e][i].ls = None
  BY DEF Empties
<1>2. ContextGood(Q, e, i, ctx[e][i], bound, conns)
  BY <1>1, ContextIn
<1> QED
  BY <1>1, <1>2 DEF Empties, ContextGood

\* The connections that x, in slot i of e, holds are r's and may go on into a
\* new handshake.
HeldFor(Q, e, i, r, x, cn) ==
  /\ x.self # None =>
       /\ cn[x.self].owner = e /\ cn[x.self].slot = i
       /\ cn[x.self].dst \in {None, r}
       /\ <<e, i>> \in Q => cn[x.self].cs # "connected"
  /\ x.peer # None =>
       /\ cn[x.peer].owner = r /\ cn[x.peer].dst = e /\ cn[x.peer].sslot = i
       /\ <<e, i>> \in Q => cn[x.peer].ss # "connected"

(***************************************************************************)
(* A context that begins a handshake with a freshly bound port is good, if *)
(* its connections are the remote's and, for a slot of Q, not connected.   *)
(***************************************************************************)
LEMMA BeginGood ==
  ASSUME NEW Q, NEW e \in Endpoint, NEW r \in Endpoint, e # r, NEW i \in Slot,
         NEW p \in ClientPort, NEW x \in Context, NEW bd, NEW cn,
         HeldFor(Q, e, i, r, x, cn),
         x.rs \in {None, r},
         x.rc # None => bd[HostOf[r]][x.rc] = <<r, e>>,
         bd[HostOf[e]][p] = <<e, r>>
  PROVE  /\ Begin(x, e, r, p) \in Context
         /\ ContextGood(Q, e, i, Begin(x, e, r, p), bd, cn)
<1>1. Begin(x, e, r, p) \in Context
  <2>1. 0 \in {Unset} \cup 0 .. LongStop
    BY ConstantsAssumption
  <2>2. [x EXCEPT !.age = 0, !.ls = e, !.lc = p] \in Context
    BY <2>1 DEF Context, Opt
  <2>3. [[x EXCEPT !.age = 0, !.ls = e, !.lc = p]
            EXCEPT !.transient = TRUE, !.remote = r] \in Context
    BY <2>2 DEF Context, Opt
  <2>4. Begin(x, e, r, p) =
          [[x EXCEPT !.age = 0, !.ls = e, !.lc = p]
             EXCEPT !.transient = TRUE, !.remote = r]
    BY DEF Begin, Context
  <2> QED
    BY <2>3, <2>4
<1>2. ContextGood(Q, e, i, Begin(x, e, r, p), bd, cn)
  BY ConstantsTyped DEF Begin, Context, Opt, ContextGood, HeldFor
<1> QED
  BY <1>1, <1>2

\* A bind for r enters the map of ports.
LEMMA BindStep ==
  ASSUME NEW Q, Good(Q), NEW e \in Endpoint, NEW r \in Endpoint,
         NEW p \in ClientPort, FreePort(HostOf[e], p),
         bound' = [bound EXCEPT ![HostOf[e]][p] = <<e, r>>]
  PROVE  /\ bound' \in PortMap /\ PortsGrow(bound, bound')
         /\ bound'[HostOf[e]][p] = <<e, r>>
         /\ \A c \in ConnId : ConnectionGood(conns[c], bound')
<1>1. bound \in PortMap /\ HostOf[e] \in Host /\ <<e, r>> \in Endpoint \X Endpoint
  BY ConstantsTyped DEF Good, Typed, PortMap
<1>2. bound' \in PortMap /\ PortsGrow(bound, bound')
  BY <1>1, BindGrows DEF FreePort
<1>3. bound'[HostOf[e]][p] = <<e, r>>
  BY <1>1 DEF PortMap
<1>4. \A c \in ConnId : ConnectionGood(conns[c], bound')
  BY <1>2, ConnectionStable DEF Good, Typed
<1> QED
  BY <1>2, <1>3, <1>4

LEMMA ConnectToKeeps ==
  ASSUME NEW Q, Good(Q), NEW e \in Endpoint, NEW r \in Endpoint,
         ConnectTo(e, r)
  PROVE  Good(Q)'
<1>1. PICK busy \in BusySets, i \in Slot, p \in ClientPort :
         /\ IsFirst(i, Empties(e, busy))
         /\ FreePort(HostOf[e], p)
         /\ ctx' = [ctx EXCEPT ![e][i] = Begin(ctx[e][i], e, r, p)]
         /\ bound' = [bound EXCEPT ![HostOf[e]][p] = <<e, r>>]
         /\ net' = net \cup {Ports(e, r, e, p, None, None)}
  <2>1. ctx \in [Endpoint -> [Slot -> Context]]
    BY DEF Good, Typed
  <2> QED
    BY <2>1 DEF ConnectTo
<1>2. e # r
  BY ConstantsAssumption DEF ConnectTo
<1>3. /\ ctx[e][i].remote = None /\ ctx[e][i].self = None
      /\ ctx[e][i].peer = None /\ ctx[e][i].rs = None /\ ctx[e][i].rc = None
  BY <1>1, EmptyServesNobody DEF IsFirst
<1>4. /\ bound' \in PortMap /\ PortsGrow(bound, bound')
      /\ bound'[HostOf[e]][p] = <<e, r>>
      /\ \A c \in ConnId : ConnectionGood(conns[c], bound')
  BY <1>1, BindStep
<1>5. /\ Begin(ctx[e][i], e, r, p) \in Context
      /\ ContextGood(Q, e, i, Begin(ctx[e][i], e, r, p), bound', conns')
  <2>1. ctx[e][i] \in Context
    BY ContextIn
  <2>2. HeldFor(Q, e, i, r, ctx[e][i], conns')
    BY <1>3 DEF HeldFor
  <2> QED
    BY <1>2, <1>3, <1>4, <2>1, <2>2, BeginGood
<1>6. /\ conns' = conns /\ app' = app
      /\ conns \in [ConnId -> Connection] /\ ConnsGrow(conns, conns, e, i)
      /\ app \in [Endpoint -> SUBSET Slot]
  BY NothingGrows DEF ConnectTo
<1>7. /\ net' \subseteq Packet
      /\ \A m \in net' : m \notin net => PacketGood(m, bound')
  <2>1. Ports(e, r, e, p, None, None) \in Packet
    BY DEF Ports, Packet, Opt
  <2>2. PacketGood(Ports(e, r, e, p, None, None), bound')
    BY <1>2, <1>4 DEF Ports, PacketGood
  <2> QED
    BY <1>1, <2>1, <2>2, NothingGrows
<1> QED
  BY <1>1, <1>4, <1>5, <1>6, <1>7, ContextStep

\* What Good(Q) says of a packet on its way to e.
LEMMA PacketIn ==
  ASSUME NEW Q, Good(Q), NEW m \in net
  PROVE  m \in Packet /\ PacketGood(m, bound)
  BY DEF Good, Typed

\* Saving the ports of a packet from the context's own remote keeps it good.
LEMMA SavePortsGood ==
  ASSUME NEW Q, Good(Q),
         NEW e \in Endpoint, NEW i \in Slot, NEW m \in net,
         m.dst = e, ctx[e][i].remote \in {None, m.src}
  PROVE  /\ [ctx[e][i] EXCEPT !.rs = m.ls, !.rc = m.lc] \in Context
         /\ ContextGood(Q, e, i, [ctx[e][i] EXCEPT !.rs = m.ls, !.rc = m.lc],
                        bound, conns)
<1>1. m \in Packet /\ PacketGood(m, bound)
  BY PacketIn
<1>2. ctx[e][i] \in Context /\ ContextGood(Q, e, i, ctx[e][i], bound, conns)
  BY ContextIn
<1>3. [ctx[e][i] EXCEPT !.rs = m.ls, !.rc = m.lc] \in Context
  BY <1>1, <1>2 DEF Context, Packet
<1>4. ContextGood(Q, e, i, [ctx[e][i] EXCEPT !.rs = m.ls, !.rc = m.lc], bound, conns)
  <2> DEFINE x == ctx[e][i]
             y == [x EXCEPT !.rs = m.ls, !.rc = m.lc]
  <2>1. /\ y.remote = x.remote /\ y.age = x.age /\ y.ls = x.ls /\ y.lc = x.lc
        /\ y.self = x.self /\ y.peer = x.peer /\ y.rs = m.ls /\ y.rc = m.lc
    BY <1>2 DEF Context
  <2>2. y.remote # None =>
          /\ y.rs \in {None, y.remote}
          /\ y.rc # None => bound[HostOf[y.remote]][y.rc] = <<y.remote, e>>
    BY <2>1, <1>1 DEF PacketGood
  <2> HIDE DEF x, y
  <2>3. ContextGood(Q, e, i, x, bound, conns)
    BY <1>2 DEF x
  <2>4. ContextGood(Q, e, i, y, bound, conns)
    BY <2>1, <2>2, <2>3 DEF ContextGood
  <2> QED
    BY <2>4 DEF x, y
<1> QED
  BY <1>3, <1>4

\* The slot that FindMatchingEntry returns serves the packet's sender or nobody.
LEMMA FoundServes ==
  ASSUME NEW Q, Good(Q), NEW e \in Endpoint, NEW r, NEW busy, NEW i \in Slot,
         Found(e, r, busy, i)
  PROVE  /\ ctx[e][i].remote \in {None, r}
         /\ Matches(e, r, busy) = {} => ctx[e][i].remote = None
<1>1. CASE Matches(e, r, busy) # {}
  BY <1>1 DEF Found, Matching, IsFirst, Matches
<1>2. CASE Matches(e, r, busy) = {}
  BY <1>2, EmptyServesNobody DEF Found, IsFirst
<1> QED
  BY <1>1, <1>2

LEMMA ReceiveFirstKeeps ==
  ASSUME NEW Q, Good(Q), NEW m \in net, ReceiveFirst(m.dst, m)
  PROVE  Good(Q)'
<1> DEFINE e == m.dst
<1>1. m \in Packet /\ e \in Endpoint
  BY PacketIn DEF Packet
<1>2. PICK busy \in BusySets, i \in Slot :
        /\ Found(e, m.src, busy, i)
        /\ ctx' = [ctx EXCEPT ![e][i] = [ctx[e][i] EXCEPT !.rs = m.ls, !.rc = m.lc]]
  BY <1>1 DEF ReceiveFirst, Good, Typed
<1>3. ctx[e][i].remote \in {None, m.src}
  BY <1>1, <1>2, FoundServes
<1> DEFINE x == [ctx[e][i] EXCEPT !.rs = m.ls, !.rc = m.lc]
<1>4. x \in Context /\ ContextGood(Q, e, i, x, bound, conns)
  BY <1>1, <1>3, SavePortsGood
<1>5. ctx' = [ctx EXCEPT ![e][i] = x]
  BY <1>2
<1>6. UNCHANGED <<bound, net, conns, app>>
  BY DEF ReceiveFirst
<1>7. /\ bound' \in PortMap /\ PortsGrow(bound, bound')
      /\ conns' \in [ConnId -> Connection] /\ ConnsGrow(conns, conns', e, i)
      /\ \A c \in ConnId : ConnectionGood(conns'[c], bound')
      /\ net' = net /\ net' \subseteq Packet /\ app' \in [Endpoint -> SUBSET Slot]
  BY <1>1, <1>6, NothingGrows
<1>8. ContextGood(Q, e, i, x, bound', conns')
  BY <1>4, <1>6
<1> HIDE DEF x
<1> QED
  BY <1>1, <1>4, <1>5, <1>7, <1>8, ContextStep

\* AnswerFirst answers from a context whose handshake goes on.
LEMMA AnswerKeeps ==
  ASSUME NEW Q, Good(Q),
         NEW m \in net, NEW i \in Slot,
         ctx[m.dst][i].remote \in {None, m.src},
         ctx[m.dst][i].age # Unset,
         net' = net \cup {Ports(m.dst, m.src, ctx[m.dst][i].ls,
                                ctx[m.dst][i].lc, m.ls, m.lc)},
         UNCHANGED <<ctx, bound, conns, app>>
  PROVE  Good(Q)'
<1> DEFINE e == m.dst
           q == Ports(e, m.src, ctx[e][i].ls, ctx[e][i].lc, m.ls, m.lc)
<1>1. m \in Packet /\ PacketGood(m, bound) /\ e \in Endpoint
  BY PacketIn DEF Packet
<1>2. ctx[e][i] \in Context /\ ContextGood(Q, e, i, ctx[e][i], bound, conns)
  BY <1>1, ContextIn
<1>3. ctx[e][i].remote = m.src
  BY <1>2 DEF ContextGood
<1>4. q \in Packet
  BY <1>1, <1>2 DEF Ports, Packet, Context
<1>5. PacketGood(q, bound)
  BY <1>1, <1>2, <1>3 DEF Ports, PacketGood, ContextGood
<1>6. net' = net \cup {q}
  OBVIOUS
<1> HIDE DEF q
<1>7. Typed'
  BY <1>4, <1>6 DEF Good, Typed
<1> QED
  BY <1>5, <1>6, <1>7 DEF Good

\* What FirstInv says of the packet that AnswerFirst answers.
LEMMA FirstIn ==
  ASSUME NEW Q, Good(Q), FirstInv, NEW e \in Endpoint, ~NothingFirst(e)
  PROVE  /\ first[e].pkt \in net /\ first[e].pkt.dst = e
         /\ first[e].pkt.src \in Endpoint /\ first[e].pkt.src # e
         /\ first[e].slot \in Slot
         /\ ctx[e][first[e].slot].remote \in {None, first[e].pkt.src}
         /\ ctx[e][first[e].slot].remote = None =>
              /\ ctx[e][first[e].slot].rs \in {None, first[e].pkt.ls}
              /\ ctx[e][first[e].slot].rc \in {None, first[e].pkt.lc}
         /\ ~first[e].begun => ctx[e][first[e].slot].remote = None
<1>1. first[e] \in FirstPacket
  BY DEF FirstInv, AllFirstGood, NothingFirst, Opt
<1>2. first[e].pkt \in Packet /\ first[e].slot \in Slot
  BY <1>1 DEF FirstPacket
<1>3. FirstGood(e) /\ first[e] # None
  BY DEF FirstInv, AllFirstGood, NothingFirst
<1>4. first[e].pkt \in net /\ first[e].pkt.dst = e
  BY <1>3 DEF FirstGood
<1>5. first[e].pkt.src \in Endpoint /\ first[e].pkt.src # e
  BY <1>2, <1>4, PacketIn DEF Packet, PacketGood
<1> QED
  BY <1>2, <1>3, <1>4, <1>5 DEF FirstGood

\* AnswerFirst begins a handshake, perhaps on a context that has ended one.
LEMMA RestartKeeps ==
  ASSUME NEW Q, Good(Q), NEW m \in net, NEW e, e = m.dst,
         NEW i \in Slot, NEW p \in ClientPort,
         ctx[e][i].remote \in {None, m.src},
         ctx[e][i].remote = None =>
           ctx[e][i].rs \in {None, m.ls} /\ ctx[e][i].rc \in {None, m.lc},
         <<e, i>> \in Q => ~HoldsConnected(e, i),
         FreePort(HostOf[e], p),
         ctx' = [ctx EXCEPT ![e][i] = Begin(ctx[e][i], e, m.src, p)],
         bound' = [bound EXCEPT ![HostOf[e]][p] = <<e, m.src>>],
         net' = net \cup {Ports(e, m.src, e, p, m.ls, m.lc)},
         UNCHANGED <<conns, app>>
  PROVE  Good(Q)'
<1> DEFINE x == ctx[e][i]
           q == Ports(e, m.src, e, p, m.ls, m.lc)
<1>1. /\ m \in Packet /\ PacketGood(m, bound)
      /\ e \in Endpoint /\ m.src \in Endpoint /\ e # m.src /\ m.src # None
  BY PacketIn, ConstantsTyped DEF Packet, PacketGood
<1>2. x \in Context /\ ContextGood(Q, e, i, x, bound, conns)
  BY <1>1, ContextIn
<1>4. /\ bound' \in PortMap /\ PortsGrow(bound, bound')
      /\ bound'[HostOf[e]][p] = <<e, m.src>>
      /\ \A c \in ConnId : ConnectionGood(conns[c], bound')
  BY <1>1, BindStep
<1>5. PacketGood(m, bound')
  BY <1>1, <1>4, PacketStable
<1>6. m.ls \in {None, m.src} /\ (m.lc # None => bound'[HostOf[m.src]][m.lc] = <<m.src, e>>)
  BY <1>5 DEF PacketGood
<1>7. /\ x.rs \in {None, m.src}
      /\ x.rc # None => bound'[HostOf[m.src]][x.rc] = <<m.src, e>>
  <2>1. CASE x.remote = None
    BY <1>6, <2>1
  <2>2. CASE x.remote = m.src
    <3>1. /\ x.rs \in {None, m.src}
          /\ x.rc # None => bound[HostOf[m.src]][x.rc] = <<m.src, e>>
      BY <1>1, <1>2, <2>2 DEF ContextGood
    <3>2. x.rc # None => x.rc \in ClientPort
      BY <1>2 DEF Context, Opt
    <3>3. HostOf[m.src] \in Host /\ <<m.src, e>> # None
      BY <1>1, ConstantsTyped, PairIsNotNone
    <3> HIDE DEF x
    <3> QED
      BY <1>4, <3>1, <3>2, <3>3 DEF PortsGrow
  <2> QED
    BY <2>1, <2>2
<1>8. HeldFor(Q, e, i, m.src, x, conns)
  <2>1. x.self # None \/ x.peer # None => x.remote = m.src
    BY <1>2 DEF ContextGood
  <2>2. (x.self # None => x.self \in ConnId) /\ (x.peer # None => x.peer \in ConnId)
    BY <1>2 DEF Context, Opt
  <2>3. <<e, i>> \in Q => /\ x.self # None => conns[x.self].cs # "connected"
                          /\ x.peer # None => conns[x.peer].ss # "connected"
    BY <2>2 DEF HoldsConnected
  <2> HIDE DEF x
  <2> QED
    BY <1>2, <2>1, <2>3 DEF ContextGood, HeldFor
<1> DEFINE y == Begin(x, e, m.src, p)
<1>9. y \in Context /\ ContextGood(Q, e, i, y, bound', conns)
  <2> DEFINE bd == bound'
             r == m.src
  <2>1. /\ x.rs \in {None, r} /\ (x.rc # None => bd[HostOf[r]][x.rc] = <<r, e>>)
        /\ bd[HostOf[e]][p] = <<e, r>>
        /\ x \in Context /\ e \in Endpoint /\ r \in Endpoint /\ e # r
    BY <1>1, <1>2, <1>4, <1>7
  <2>2. HeldFor(Q, e, i, r, x, conns)
    BY <1>8
  <2> HIDE DEF x, bd, r
  <2>3. /\ Begin(x, e, r, p) \in Context
        /\ ContextGood(Q, e, i, Begin(x, e, r, p), bd, conns)
    BY <2>1, <2>2, BeginGood
  <2> QED
    BY <2>3 DEF bd, r
<1>10. net' \subseteq Packet /\ \A n \in net' : n \notin net => PacketGood(n, bound')
  <2>1. q \in Packet
    BY <1>1 DEF Ports, Packet, Opt
  <2>2. PacketGood(q, bound')
    BY <1>1, <1>4 DEF Ports, PacketGood
  <2> QED
    BY <1>1, <2>1, <2>2, NothingGrows
<1>11. /\ conns' = conns
       /\ conns' \in [ConnId -> Connection] /\ ConnsGrow(conns, conns', e, i)
       /\ \A c \in ConnId : ConnectionGood(conns'[c], bound')
       /\ app' \in [Endpoint -> SUBSET Slot]
  BY <1>1, <1>4, NothingGrows
<1>12. ctx' = [ctx EXCEPT ![e][i] = y]
  OBVIOUS
<1>13. ContextGood(Q, e, i, y, bound', conns')
  BY <1>9, <1>11
<1> HIDE DEF x, y
<1> QED
  BY <1>1, <1>4, <1>9, <1>10, <1>11, <1>12, <1>13, ContextStep

LEMMA AnswerFirstKeeps ==
  ASSUME NEW Q, Good(Q), FirstInv, NEW e \in Endpoint, AnswerFirst(e),
         <<e, first[e].slot>> \in Q => ~HoldsConnected(e, first[e].slot)
  PROVE  Good(Q)'
<1> DEFINE m == first[e].pkt
           i == first[e].slot
<1>1. /\ m \in net /\ e = m.dst /\ i \in Slot
      /\ ctx[e][i].remote \in {None, m.src}
      /\ ctx[e][i].remote = None =>
           ctx[e][i].rs \in {None, m.ls} /\ ctx[e][i].rc \in {None, m.lc}
  BY FirstIn DEF AnswerFirst
<1>2. CASE /\ ctx[e][i].age # Unset
           /\ net' = net \cup {Ports(e, m.src, ctx[e][i].ls, ctx[e][i].lc, m.ls, m.lc)}
           /\ UNCHANGED <<ctx, bound>>
  <2>1. UNCHANGED <<conns, app>>
    BY DEF AnswerFirst
  <2> HIDE DEF m, i
  <2> QED
    BY <1>1, <1>2, <2>1, AnswerKeeps
<1>3. CASE \E p \in ClientPort :
             /\ FreePort(HostOf[e], p)
             /\ ctx' = [ctx EXCEPT ![e][i] = Begin(ctx[e][i], e, m.src, p)]
             /\ bound' = [bound EXCEPT ![HostOf[e]][p] = <<e, m.src>>]
             /\ net' = net \cup {Ports(e, m.src, e, p, m.ls, m.lc)}
  <2>1. UNCHANGED <<conns, app>> /\ (<<e, i>> \in Q => ~HoldsConnected(e, i))
    BY DEF AnswerFirst
  <2> HIDE DEF m, i
  <2> QED
    BY <1>1, <1>3, <2>1, RestartKeeps
<1>4. CASE UNCHANGED <<ctx, bound, net>>
  BY <1>4 DEF AnswerFirst, Good, Typed
<1>5. ctx \in [Endpoint -> [Slot -> Context]]
  BY DEF Good, Typed
<1> QED
  BY <1>1, <1>2, <1>3, <1>4, <1>5 DEF AnswerFirst

\* The connection StartClient opens is good, and nothing held it before.
LEMMA OpenGood ==
  ASSUME NEW Q, Good(Q), NEW e \in Endpoint, NEW i \in Slot, NEW x \in Context,
         ContextGood(Q, e, i, x, bound, conns), x.remote # None,
         NEW c \in ConnId, conns[c].cs = "none",
         NEW dst, dst \in {None, x.rs}, NEW state \in {"opened", "started"},
         conns' = [conns EXCEPT ![c] = Client(e, i, x.lc, dst, state)]
  PROVE  /\ conns' \in [ConnId -> Connection]
         /\ ConnsGrow(conns, conns', e, i)
         /\ \A d \in ConnId : ConnectionGood(conns'[d], bound)
         /\ x.peer # c
<1>1. conns \in [ConnId -> Connection] /\ \A d \in ConnId : ConnectionGood(conns[d], bound)
  BY DEF Good, Typed
<1>2. x.lc \in ClientPort /\ x.rs \in Opt(Endpoint) /\ x.remote \in Endpoint
  BY DEF ContextGood, Context, Opt
<1> DEFINE k == Client(e, i, x.lc, dst, state)
<1>3. k \in Connection
  <2>1. dst \in Opt(Endpoint)
    BY <1>2 DEF Opt
  <2> QED
    BY <1>2, <2>1 DEF Client, Connection, Opt, ClientState, ServerState
<1>10. /\ k.owner = e /\ k.slot = i /\ k.port = x.lc /\ k.cs \in {"opened", "started"}
       /\ k.ss = "none" /\ k.sslot = 0
  BY DEF Client
<1> HIDE DEF k
<1>11. conns' = [conns EXCEPT ![c] = k]
  BY DEF k
<1>4. conns' \in [ConnId -> Connection]
  BY <1>1, <1>3, <1>11
<1>5. conns[c] = NoConnection
  BY <1>1 DEF ConnectionGood
<1>6. ConnsGrow(conns, conns', e, i)
  BY <1>1, <1>5, <1>10, <1>11 DEF ConnsGrow, NoConnection
<1>7. ConnectionGood(k, bound)
  <2>2. bound[HostOf[e]][x.lc] = <<e, x.remote>>
    BY <1>2, ConstantsTyped DEF ContextGood
  <2>3. <<e, x.remote>> # None /\ <<e, x.remote>>[1] = e
    BY <1>2, PairIsNotNone
  <2> QED
    BY <1>2, <1>10, <2>2, <2>3 DEF ConnectionGood
<1>8. \A d \in ConnId : ConnectionGood(conns'[d], bound)
  BY <1>1, <1>7, <1>11
<1>9. x.peer # c
  BY <1>2, <1>5, ConstantsTyped DEF ContextGood, NoConnection
<1> QED
  BY <1>4, <1>6, <1>8, <1>9

LEMMA StartClientKeeps ==
  ASSUME NEW Q, Good(Q), NEW e \in Endpoint, NEW i \in Slot, NEW x \in Context,
         ContextGood(Q, e, i, x, bound, conns), x.remote # None,
         StartClient(e, i, x), bound' = bound, net' \subseteq Packet,
         \A m \in net' : m \notin net => PacketGood(m, bound)
  PROVE  Good(Q)'
<1>1. /\ bound' \in PortMap /\ PortsGrow(bound, bound')
      /\ conns \in [ConnId -> Connection] /\ ConnsGrow(conns, conns, e, i)
      /\ \A c \in ConnId : ConnectionGood(conns[c], bound')
      /\ app \in [Endpoint -> SUBSET Slot]
      /\ \A m \in net' : m \notin net => PacketGood(m, bound')
  BY NothingGrows
<1>2. CASE ctx' = [ctx EXCEPT ![e][i] = x] /\ UNCHANGED <<conns, app>>
  <2>1. /\ ContextGood(Q, e, i, x, bound', conns')
        /\ conns' \in [ConnId -> Connection] /\ ConnsGrow(conns, conns', e, i)
        /\ \A c \in ConnId : ConnectionGood(conns'[c], bound')
        /\ app' \in [Endpoint -> SUBSET Slot]
    BY <1>1, <1>2
  <2> QED
    BY <1>1, <1>2, <2>1, ContextStep
<1>3. ASSUME NEW c \in ConnId, x.self = None, conns[c].cs = "none",
             ctx' = [ctx EXCEPT ![e][i] =
                       [x EXCEPT !.self = c, !.transient = FALSE, !.chan = TRUE]],
             conns' = [conns EXCEPT ![c] =
                         Client(e, i, x.lc, x.rs,
                                IF x.rs = None THEN "opened" ELSE "started")],
             app' = [app EXCEPT ![e] = @ \cup {i}]
      PROVE  Good(Q)'
  <2> DEFINE state == IF x.rs = None THEN "opened" ELSE "started"
             k == Client(e, i, x.lc, x.rs, state)
             y == [x EXCEPT !.self = c, !.transient = FALSE, !.chan = TRUE]
  <2>1. /\ k.dst = x.rs /\ k.cs \in {"opened", "started"}
        /\ k.owner = e /\ k.slot = i /\ k.ss = "none"
    BY DEF Client
  <2>2. conns' = [conns EXCEPT ![c] = k] /\ state \in {"opened", "started"}
    BY <1>3
  <2> HIDE DEF state
  <2>3. /\ conns' \in [ConnId -> Connection] /\ ConnsGrow(conns, conns', e, i)
        /\ \A d \in ConnId : ConnectionGood(conns'[d], bound)
        /\ x.peer # c
    <3> DEFINE dst == x.rs
    <3>1. conns' = [conns EXCEPT ![c] = Client(e, i, x.lc, dst, state)]
      BY <1>3 DEF state
    <3>2. dst \in {None, x.rs} /\ state \in {"opened", "started"} /\ conns[c].cs = "none"
      BY <1>3 DEF state
    <3> HIDE DEF dst, k, y
    <3> QED
      BY <3>1, <3>2, OpenGood
  <2> HIDE DEF k
  <2>4. y \in Context
    BY DEF Context, Opt
  <2>5. /\ y.remote = x.remote /\ y.age = x.age /\ y.ls = x.ls /\ y.lc = x.lc
        /\ y.rs = x.rs /\ y.rc = x.rc /\ y.self = c /\ y.peer = x.peer
    BY DEF Context
  <2>6. conns'[c] = k /\ \A d \in ConnId \ {c} : conns'[d] = conns[d]
    BY <1>1, <2>2
  <2>7. y.peer # None => conns'[y.peer] = conns[y.peer]
    <3>1. x.peer \in Opt(ConnId)
      BY DEF Context
    <3> QED
      BY <2>3, <2>5, <2>6, <3>1 DEF Opt
  <2>8. ContextGood(Q, e, i, y, bound', conns')
    <3>1. ContextGood(Q, e, i, x, bound', conns)
      OBVIOUS
    <3>2. /\ conns'[y.self].owner = e /\ conns'[y.self].slot = i
          /\ conns'[y.self].dst \in {None, x.remote}
          /\ conns'[y.self].cs # "connected"
      BY <2>1, <2>5, <2>6 DEF ContextGood
    <3> HIDE DEF y
    <3> QED
      BY <2>5, <2>7, <3>1, <3>2 DEF ContextGood
  <2>9. app' \in [Endpoint -> SUBSET Slot]
    BY <1>1, <1>3
  <2>10. ctx' = [ctx EXCEPT ![e][i] = y] /\ \A d \in ConnId : ConnectionGood(conns'[d], bound')
    BY <1>3, <2>3
  <2> HIDE DEF y
  <2> QED
    BY <1>1, <2>3, <2>4, <2>8, <2>9, <2>10, ContextStep
<1>4. ASSUME NEW c \in ConnId, x.self = None, conns[c].cs = "none",
             ctx' = [ctx EXCEPT ![e][i] = Reset(x)],
             conns' = [conns EXCEPT ![c] =
                         Client(e, i, x.lc, None, "opened")],
             UNCHANGED app
      PROVE  Good(Q)'
  <2>3. /\ conns' \in [ConnId -> Connection] /\ ConnsGrow(conns, conns', e, i)
        /\ \A d \in ConnId : ConnectionGood(conns'[d], bound)
    BY <1>4, OpenGood
  <2>4. Reset(x) \in Context /\ ContextGood(Q, e, i, Reset(x), bound', conns')
    <3>1. x.refs \in 0 .. RefMod - 1
      BY DEF Context
    <3> QED
      BY <3>1, BlankGood DEF Reset
  <2>5. /\ \A d \in ConnId : ConnectionGood(conns'[d], bound')
        /\ app' \in [Endpoint -> SUBSET Slot]
    BY <1>1, <1>4, <2>3
  <2> QED
    BY <1>1, <1>4, <2>3, <2>4, <2>5, ContextStep
<1> QED
  BY <1>2, <1>3, <1>4 DEF StartClient

\* The entry that matches a packet's sender, while it handshakes.
LEMMA MatchingServes ==
  ASSUME NEW Q, Good(Q), NEW e \in Endpoint, NEW m \in net, NEW busy, NEW i,
         Matching(e, m.src, busy, i)
  PROVE  i \in Slot /\ ctx[e][i].remote = m.src /\ m.src \in Endpoint
  BY PacketIn DEF Matching, IsFirst, Matches, Packet

LEMMA ReceiveSecondKeeps ==
  ASSUME NEW Q, Good(Q), NEW m \in net, ReceiveSecond(m.dst, m)
  PROVE  Good(Q)'
<1> DEFINE e == m.dst
           q == Ports(e, m.src, None, None, m.ls, m.lc)
<1>1. m \in Packet /\ PacketGood(m, bound) /\ e \in Endpoint
  BY PacketIn DEF Packet
<1>2. PICK i \in Slot : \E busy \in BusySets :
        /\ Matching(e, m.src, busy, i)
        /\ net' = net \cup {q}
        /\ StartClient(e, i, [ctx[e][i] EXCEPT !.rs = m.ls, !.rc = m.lc])
  BY DEF ReceiveSecond
<1>3. ctx[e][i].remote = m.src /\ m.src \in Endpoint
  BY <1>1, <1>2, MatchingServes, ZenonT(30)
<1> DEFINE x == [ctx[e][i] EXCEPT !.rs = m.ls, !.rc = m.lc]
<1>4. x \in Context /\ ContextGood(Q, e, i, x, bound, conns)
  BY <1>1, <1>3, SavePortsGood
<1>5. x.remote # None
  BY <1>1, <1>3, ContextIn, ConstantsTyped DEF Context
<1>6. net' \subseteq Packet /\ \A n \in net' : n \notin net => PacketGood(n, bound)
  <2>1. q \in Packet
    BY <1>1, <1>3 DEF Ports, Packet, Opt
  <2>2. PacketGood(q, bound)
    BY <1>1 DEF Ports, PacketGood
  <2> QED
    BY <1>1, <1>2, <2>1, <2>2, NothingGrows
<1>7. bound' = bound /\ StartClient(e, i, x)
  BY <1>2 DEF ReceiveSecond
<1> HIDE DEF x, e, q
<1> QED
  BY <1>1, <1>4, <1>5, <1>6, <1>7, StartClientKeeps

LEMMA ReceiveThirdKeeps ==
  ASSUME NEW Q, Good(Q), NEW m \in net, ReceiveThird(m.dst, m)
  PROVE  Good(Q)'
<1> DEFINE e == m.dst
<1>1. e \in Endpoint
  BY PacketIn DEF Packet
<1>2. PICK i \in Slot : \E busy \in BusySets :
        Matching(e, m.src, busy, i) /\ StartClient(e, i, ctx[e][i])
  BY DEF ReceiveThird
<1>3. ctx[e][i].remote = m.src /\ m.src \in Endpoint
  BY <1>1, <1>2, MatchingServes
<1>4. ctx[e][i] \in Context /\ ContextGood(Q, e, i, ctx[e][i], bound, conns)
  BY <1>1, ContextIn
<1>5. /\ ctx[e][i].remote # None /\ bound' = bound /\ net' = net
      /\ net' \subseteq Packet /\ \A n \in net' : n \notin net => PacketGood(n, bound)
  BY <1>1, <1>3, ConstantsTyped, NothingGrows DEF ReceiveThird
<1> DEFINE x == ctx[e][i]
<1>6. /\ x \in Context /\ ContextGood(Q, e, i, x, bound, conns) /\ x.remote # None
      /\ StartClient(e, i, x)
  BY <1>2, <1>4, <1>5
<1> HIDE DEF x, e
<1> QED
  BY <1>1, <1>5, <1>6, StartClientKeeps

-----------------------------------------------------------------------------
(***************************************************************************)
(* The daemon and the application                                          *)
(***************************************************************************)

LEMMA DoCheckKeeps ==
  ASSUME NEW Q, Good(Q), NEW e \in Endpoint, NEW i \in Slot, DoCheck(e, i)
  PROVE  Good(Q)'
<1>1. app \in [Endpoint -> SUBSET Slot]
  BY DEF Good, Typed
<1>2. CASE LongStopExpires(e, i)
  <2>1. /\ ctx' = [ctx EXCEPT ![e][i] = Reset(ctx[e][i])]
        /\ UNCHANGED <<bound, net, conns>> /\ app' \in [Endpoint -> SUBSET Slot]
    BY <1>1, <1>2 DEF LongStopExpires, Good, Typed
  <2> QED
    BY <2>1, ResetStep
<1>3. CASE ShortStopExpires(e, i)
  <2>1. /\ ctx' = [ctx EXCEPT ![e][i] = Reset(ctx[e][i])]
        /\ UNCHANGED <<bound, net, conns>> /\ app' \in [Endpoint -> SUBSET Slot]
    BY <1>1, <1>3 DEF ShortStopExpires, Good, Typed
  <2> QED
    BY <2>1, ResetStep
<1>4. CASE Resend(e, i)
  <2> DEFINE x == ctx[e][i]
             q == Ports(e, x.remote, x.ls, x.lc, x.rs, x.rc)
  <2>1. x \in Context /\ ContextGood(Q, e, i, x, bound, conns)
    BY ContextIn
  <2>2. x.age # Unset
    BY <1>4, ConstantsAssumption DEF Resend, Unset
  <2>3. x.remote \in Endpoint
    BY <2>1, <2>2 DEF ContextGood, Context, Opt
  <2>4. q \in Packet
    BY <2>1, <2>3 DEF Ports, Packet, Context
  <2>5. PacketGood(q, bound)
    BY <2>1, <2>2 DEF Ports, PacketGood, ContextGood
  <2>6. net' = net \cup {q} /\ UNCHANGED <<ctx, bound, conns, app>>
    BY <1>4 DEF Resend
  <2>7. Typed'
    BY <2>4, <2>6 DEF Good, Typed
  <2> HIDE DEF q, x
  <2> QED
    BY <2>5, <2>6, <2>7 DEF Good
<1> QED
  BY <1>2, <1>3, <1>4 DEF DoCheck

\* Time does not touch what ContextGood speaks of.
LEMMA TickKeeps ==
  ASSUME NEW Q, Good(Q), NEW e \in Endpoint, Tick(e)
  PROVE  Good(Q)'
<1>1. ctx \in [Endpoint -> [Slot -> Context]]
  BY DEF Good, Typed
<1>2. UNCHANGED <<bound, net, conns, app>>
  BY DEF Tick
<1> DEFINE row == [i \in Slot |-> Older(ctx[e][i])]
<1>3. ctx' = [ctx EXCEPT ![e] = row]
  BY <1>1 DEF Tick
<1>6. \A i \in Slot : row[i] = Older(ctx[e][i])
  OBVIOUS
<1>7. \A f \in Endpoint \ {e} : ctx'[f] = ctx[f]
  BY <1>1, <1>3
<1>8. \A i \in Slot : ctx'[e][i] = Older(ctx[e][i])
  <2> HIDE DEF row
  <2>1. ctx'[e] = row
    BY <1>1, <1>3
  <2> QED
    BY <1>6, <2>1
<1>4. ASSUME NEW f \in Endpoint, NEW i \in Slot
      PROVE  /\ ctx'[f][i] \in Context
             /\ ContextGood(Q, f, i, ctx'[f][i], bound', conns')
  <2>1. ctx[f][i] \in Context /\ ContextGood(Q, f, i, ctx[f][i], bound, conns)
    BY ContextIn
  <2>2. CASE ctx'[f][i] = ctx[f][i]
    BY <1>2, <2>1, <2>2
  <2>3. CASE /\ ctx[f][i].age # Unset /\ ctx[f][i].age # LongStop
             /\ ctx'[f][i] = [ctx[f][i] EXCEPT !.age = ctx[f][i].age + 1]
    <3> DEFINE x == ctx[f][i]
               y == [x EXCEPT !.age = x.age + 1]
    <3>1. x.age \in 0 .. LongStop - 1 /\ LongStop \in Nat
      BY <2>1, <2>3, ConstantsAssumption DEF Context
    <3>2. y \in Context
      BY <2>1, <3>1 DEF Context
    <3>3. /\ y.remote = x.remote /\ y.ls = x.ls /\ y.lc = x.lc /\ y.rs = x.rs
          /\ y.rc = x.rc /\ y.self = x.self /\ y.peer = x.peer
      BY <2>1 DEF Context
    <3>4. ContextGood(Q, f, i, x, bound', conns') /\ x.age # Unset
      BY <1>2, <2>1, <2>3
    <3>5. ctx'[f][i] = y
      BY <2>3
    <3> HIDE DEF x, y
    <3>6. ContextGood(Q, f, i, y, bound', conns')
      BY <3>3, <3>4 DEF ContextGood
    <3> QED
      BY <3>2, <3>5, <3>6
  <2>4. CASE f = e
    BY <1>8, <2>2, <2>3, <2>4 DEF Older
  <2> QED
    BY <1>7, <2>2, <2>4
<1>5. Typed'
  <2>1. ctx' \in [Endpoint -> [Slot -> Context]]
    <3>1. row \in [Slot -> Context]
      <4>1. \A i \in Slot : Older(ctx[e][i]) \in Context
        BY <1>4, <1>8
      <4> QED
        BY <4>1
    <3> HIDE DEF row
    <3> QED
      BY <1>1, <1>3, <3>1
  <2> QED
    BY <1>2, <2>1 DEF Good, Typed
<1> QED
  BY <1>2, <1>4, <1>5 DEF Good

LEMMA DisconnectKeeps ==
  ASSUME NEW Q, Good(Q), NEW e \in Endpoint, NEW i \in Slot, Disconnect(e, i)
  PROVE  Good(Q)'
<1>1. /\ ctx' = [ctx EXCEPT ![e][i] = Reset(ctx[e][i])]
      /\ UNCHANGED <<bound, net, conns>> /\ app' \in [Endpoint -> SUBSET Slot]
  BY DEF Disconnect, Good, Typed
<1> QED
  BY <1>1, ResetStep

LEMMA ForgetChannelKeeps ==
  ASSUME NEW Q, Good(Q), NEW e \in Endpoint, NEW i \in Slot, ForgetChannel(e, i)
  PROVE  Good(Q)'
<1> DEFINE x == ctx[e][i]
           y == [x EXCEPT !.chan = FALSE]
<1>1. x \in Context /\ ContextGood(Q, e, i, x, bound, conns)
  BY ContextIn
<1>2. /\ y \in Context
      /\ y.remote = x.remote /\ y.age = x.age /\ y.ls = x.ls /\ y.lc = x.lc
      /\ y.rs = x.rs /\ y.rc = x.rc /\ y.self = x.self /\ y.peer = x.peer
  BY <1>1 DEF Context
<1>3. ctx' = [ctx EXCEPT ![e][i] = y] /\ UNCHANGED <<bound, net, conns, app>>
  BY DEF ForgetChannel
<1> HIDE DEF x, y
<1>4. ContextGood(Q, e, i, y, bound', conns')
  <2>1. ContextGood(Q, e, i, y, bound, conns)
    BY <1>1, <1>2 DEF ContextGood
  <2> QED
    BY <1>3, <2>1
<1>5. /\ bound' \in PortMap /\ PortsGrow(bound, bound')
      /\ conns' \in [ConnId -> Connection] /\ ConnsGrow(conns, conns', e, i)
      /\ \A c \in ConnId : ConnectionGood(conns'[c], bound')
      /\ net' = net /\ net' \subseteq Packet /\ app' \in [Endpoint -> SUBSET Slot]
  BY <1>3, NothingGrows
<1> QED
  BY <1>2, <1>3, <1>4, <1>5, ContextStep

-----------------------------------------------------------------------------
(***************************************************************************)
(* The events of QUIC connections                                          *)
(***************************************************************************)

\* A context that gives up handles or its handshake stays good.
LEMMA ContextShrinks ==
  ASSUME NEW Q, NEW e \in Endpoint, NEW i \in Slot,
         NEW x \in Context, NEW y \in Context, NEW bd,
         NEW cn \in [ConnId -> Connection], NEW cn2,
         ConnsGrow(cn, cn2, e, i),
         \A c \in ConnId : ConnectionGood(cn[c], bd),
         ContextGood(Q, e, i, x, bd, cn),
         y.remote = x.remote, y.ls = x.ls, y.lc = x.lc, y.rs = x.rs, y.rc = x.rc,
         y.self \in {None, x.self}, y.peer \in {None, x.peer},
         \/ y.age = Unset
         \/ /\ y.age = x.age
            /\ \A c \in ConnId :
                 /\ cn2[c].cs = "connected" => cn[c].cs = "connected"
                 /\ cn2[c].ss = "connected" => cn[c].ss = "connected"
  PROVE  ContextGood(Q, e, i, y, bd, cn2)
<1>1. y.self # None =>
        /\ cn2[y.self].owner = e /\ cn2[y.self].slot = i
        /\ cn2[y.self].dst \in {None, y.remote}
        /\ <<e, i>> \in Q /\ cn2[y.self].cs = "connected" => y.age = Unset
  <2> SUFFICES ASSUME y.self # None PROVE
        /\ cn2[y.self].owner = e /\ cn2[y.self].slot = i
        /\ cn2[y.self].dst \in {None, y.remote}
        /\ <<e, i>> \in Q /\ cn2[y.self].cs = "connected" => y.age = Unset
    OBVIOUS
  <2>1. y.self = x.self /\ y.self \in ConnId /\ cn[y.self].owner = e /\ cn[y.self].slot = i
    BY DEF ContextGood, Context, Opt
  <2>2. cn[y.self].cs # "none"
    BY <2>1, ConstantsTyped DEF ConnectionGood, NoConnection
  <2> QED
    BY <2>1, <2>2 DEF ContextGood, ConnsGrow
<1>2. y.peer # None =>
        /\ cn2[y.peer].owner = y.remote
        /\ cn2[y.peer].dst = e /\ cn2[y.peer].sslot = i
        /\ <<e, i>> \in Q /\ cn2[y.peer].ss = "connected" => y.age = Unset
  <2> SUFFICES ASSUME y.peer # None PROVE
        /\ cn2[y.peer].owner = y.remote
        /\ cn2[y.peer].dst = e /\ cn2[y.peer].sslot = i
        /\ <<e, i>> \in Q /\ cn2[y.peer].ss = "connected" => y.age = Unset
    OBVIOUS
  <2>1. y.peer = x.peer /\ y.peer \in ConnId /\ cn[y.peer].dst = e /\ cn[y.peer].sslot = i
    BY DEF ContextGood, Context, Opt
  <2>2. cn[y.peer].cs # "none" /\ cn[y.peer].ss # "none"
    BY <2>1, ConstantsTyped DEF ConnectionGood, NoConnection, Slot
  <2> QED
    BY <2>1, <2>2 DEF ContextGood, ConnsGrow
<1> QED
  BY <1>1, <1>2 DEF ContextGood

\* An event that changes one connection and the context it reports to.
LEMMA EventStep ==
  ASSUME NEW Q, Good(Q), NEW e \in Endpoint, NEW i \in Slot, NEW c \in ConnId,
         NEW y \in Context, NEW k \in Connection,
         ctx' = [ctx EXCEPT ![e][i] = y],
         conns' = [conns EXCEPT ![c] = k], ConnsGrow(conns, conns', e, i),
         UNCHANGED <<bound, net>>, app' \in [Endpoint -> SUBSET Slot],
         ConnectionGood(k, bound), ContextGood(Q, e, i, y, bound, conns')
  PROVE  Good(Q)'
<1>1. /\ bound' = bound /\ net' = net
      /\ bound' \in PortMap /\ PortsGrow(bound, bound') /\ net' \subseteq Packet
      /\ conns \in [ConnId -> Connection]
      /\ \A d \in ConnId : ConnectionGood(conns[d], bound)
  BY NothingGrows
<1>2. conns' \in [ConnId -> Connection]
  BY <1>1
<1>3. \A d \in ConnId : ConnectionGood(conns'[d], bound')
  BY <1>1
<1>4. ContextGood(Q, e, i, y, bound', conns')
  BY <1>1
<1> QED
  BY <1>1, <1>2, <1>3, <1>4, ContextStep

\* What Good(Q) says of one connection.
LEMMA ConnectionIn ==
  ASSUME NEW Q, Good(Q), NEW c \in ConnId
  PROVE  /\ conns \in [ConnId -> Connection]
         /\ conns[c] \in Connection /\ ConnectionGood(conns[c], bound)
         /\ \A d \in ConnId : ConnectionGood(conns[d], bound)
  BY DEF Good, Typed

\* The port a context expects was bound by its remote, so its owner is that.
LEMMA ExpectedFromRemote ==
  ASSUME NEW Q, Good(Q), NEW c \in ConnId, conns[c].cs # "none",
         NEW e \in Endpoint,
         NEW i \in Expecting(e, conns[c].port, HostOf[conns[c].owner])
  PROVE  i \in Slot /\ conns[c].owner = ctx[e][i].remote
<1> DEFINE x == ctx[e][i]
           k == conns[c]
<1>1. i \in Slot /\ x.rc = k.port /\ x.remote # None /\ HostOf[x.remote] = HostOf[k.owner]
  BY DEF Expecting
<1>2. k.port \in ClientPort /\ bound[HostOf[k.owner]][k.port][1] = k.owner
  BY ConnectionIn DEF ConnectionGood
<1>5. ContextGood(Q, e, i, x, bound, conns)
  BY <1>1, ContextIn
<1> HIDE DEF x, k
<1>3. bound[HostOf[x.remote]][x.rc] = <<x.remote, e>>
  BY <1>1, <1>2, <1>5, ConstantsTyped DEF ContextGood
<1>4. k.owner = x.remote
  BY <1>1, <1>2, <1>3
<1> QED
  BY <1>1, <1>4 DEF x, k

LEMMA NewConnectionKeeps ==
  ASSUME NEW Q, Good(Q), NEW c \in ConnId, NewConnection(c)
  PROVE  Good(Q)'
<1> DEFINE e == conns[c].dst
           k(i) == [conns[c] EXCEPT !.ss = "pending", !.sslot = i]
<1>1. conns \in [ConnId -> Connection] /\ conns[c] \in Connection /\ ConnectionGood(conns[c], bound)
  BY ConnectionIn
<1>2. /\ conns[c].cs \in {"started", "failed"} /\ e \in Endpoint /\ conns[c].ss = "none"
      /\ UNCHANGED <<bound, net, app>>
  BY <1>1 DEF NewConnection, Connection, Opt
<1>3. ctx \in [Endpoint -> [Slot -> Context]]
  BY DEF Good, Typed
<1>4. PICK i \in Slot :
        /\ i \in Expecting(e, conns[c].port, HostOf[conns[c].owner])
        /\ ctx' = [ctx EXCEPT ![e][i] = [ctx[e][i] EXCEPT !.peer = c]]
        /\ conns' = [conns EXCEPT ![c] = k(i)]
  BY <1>1, <1>2, <1>3 DEF NewConnection, IsFirst
<1> DEFINE x == ctx[e][i]
           y == [x EXCEPT !.peer = c]
           z == [x EXCEPT !.peer = None]
<1>5. conns[c].owner = x.remote
  BY <1>2, <1>4, ExpectedFromRemote
<1>6. /\ k(i) \in Connection
      /\ k(i).owner = conns[c].owner /\ k(i).slot = conns[c].slot /\ k(i).dst = conns[c].dst
      /\ k(i).port = conns[c].port /\ k(i).cs = conns[c].cs
      /\ k(i).ss = "pending" /\ k(i).sslot = i
  BY <1>1 DEF Connection, ServerState
<1>7. x \in Context /\ ContextGood(Q, e, i, x, bound, conns)
  BY <1>2, ContextIn
<1>8. /\ y \in Context /\ z \in Context
      /\ y.remote = x.remote /\ y.age = x.age /\ y.ls = x.ls /\ y.lc = x.lc
      /\ y.rs = x.rs /\ y.rc = x.rc /\ y.self = x.self /\ y.peer = c
      /\ z.remote = x.remote /\ z.age = x.age /\ z.ls = x.ls /\ z.lc = x.lc
      /\ z.rs = x.rs /\ z.rc = x.rc /\ z.self = x.self /\ z.peer = None
  BY <1>7 DEF Context, Opt
<1>9. ConnectionGood(k(i), bound)
  BY <1>1, <1>2, <1>6 DEF ConnectionGood
<1> HIDE DEF k
<1>10. conns'[c] = k(i) /\ \A d \in ConnId \ {c} : conns'[d] = conns[d]
  BY <1>1, <1>4
<1>11. ConnsGrow(conns, conns', e, i)
  BY <1>2, <1>6, <1>10 DEF ConnsGrow
<1>12. \A d \in ConnId : /\ conns'[d].cs = "connected" => conns[d].cs = "connected"
                         /\ conns'[d].ss = "connected" => conns[d].ss = "connected"
  BY <1>6, <1>10
<1>13. ContextGood(Q, e, i, z, bound, conns')
  <2>1. \A d \in ConnId : ConnectionGood(conns[d], bound)
    BY ConnectionIn
  <2> HIDE DEF x, z, e
  <2> QED
    BY <1>1, <1>2, <1>7, <1>8, <1>11, <1>12, <2>1, ContextShrinks
<1>14. ContextGood(Q, e, i, y, bound, conns')
  <2>1. /\ conns'[c].owner = y.remote /\ conns'[c].dst = e /\ conns'[c].sslot = i
        /\ conns'[c].ss # "connected" /\ y.remote # None
    BY <1>1, <1>2, <1>5, <1>6, <1>8, <1>10, ConstantsTyped DEF ConnectionGood
  <2> HIDE DEF x, y, z, e
  <2> QED
    BY <1>8, <1>13, <2>1 DEF ContextGood
<1>15. ctx' = [ctx EXCEPT ![e][i] = y] /\ app' \in [Endpoint -> SUBSET Slot]
  BY <1>2, <1>4, NothingGrows
<1> HIDE DEF x, y, z, e
<1> QED
  BY <1>2, <1>4, <1>6, <1>8, <1>9, <1>11, <1>14, <1>15, EventStep

\* CONNECTED clears the time of the handshake, so any context stays good.
LEMMA ConnectedGood ==
  ASSUME NEW Q, Good(Q), NEW e \in Endpoint, NEW i \in Slot, NEW cn2,
         ConnsGrow(conns, cn2, e, i)
  PROVE  /\ Connected(ctx[e][i]) \in Context
         /\ ContextGood(Q, e, i, Connected(ctx[e][i]), bound, cn2)
<1> DEFINE x == ctx[e][i]
           y == Connected(x)
<1>1. x \in Context /\ ContextGood(Q, e, i, x, bound, conns)
  BY ContextIn
<1>2. Incr(x.refs) \in 0 .. RefMod - 1
  BY <1>1, ConstantsAssumption DEF Context, Incr
<1>3. /\ y \in Context /\ y.age = Unset
      /\ y.remote = x.remote /\ y.ls = x.ls /\ y.lc = x.lc /\ y.rs = x.rs
      /\ y.rc = x.rc /\ y.self = x.self /\ y.peer = x.peer
  BY <1>1, <1>2 DEF Connected, Context
<1>4. /\ conns \in [ConnId -> Connection]
      /\ \A c \in ConnId : ConnectionGood(conns[c], bound)
  BY DEF Good, Typed
<1> HIDE DEF x, y
<1>5. ContextGood(Q, e, i, y, bound, cn2)
  BY <1>1, <1>3, <1>4, ContextShrinks
<1> QED
  BY <1>3, <1>5 DEF x, y

LEMMA ClientConnectedKeeps ==
  ASSUME NEW Q, Good(Q), NEW c \in ConnId, ClientConnected(c)
  PROVE  Good(Q)'
<1> DEFINE e == conns[c].owner
           i == conns[c].slot
           k == [conns[c] EXCEPT !.cs = "connected"]
<1>1. conns \in [ConnId -> Connection] /\ conns[c] \in Connection /\ ConnectionGood(conns[c], bound)
  BY ConnectionIn
<1>2. conns[c].cs = "started" /\ conns' = [conns EXCEPT ![c] = k]
  BY <1>1 DEF ClientConnected
<1>3. e \in Endpoint /\ i \in Slot
  BY <1>1, <1>2 DEF ConnectionGood
<1>4. /\ k \in Connection /\ k.owner = e /\ k.slot = i /\ k.port = conns[c].port
      /\ k.dst = conns[c].dst /\ k.cs = "connected"
      /\ k.ss = conns[c].ss /\ k.sslot = conns[c].sslot
  BY <1>1 DEF Connection, ClientState
<1>5. ConnectionGood(k, bound)
  BY <1>1, <1>2, <1>4 DEF ConnectionGood
<1>6. ctx \in [Endpoint -> [Slot -> Context]]
  BY DEF Good, Typed
<1>7. ctx' = [ctx EXCEPT ![e][i] = Connected(ctx[e][i])] /\ UNCHANGED <<bound, net, app>>
  BY <1>3, <1>6 DEF ClientConnected
<1>8. app' \in [Endpoint -> SUBSET Slot]
  BY <1>3, <1>7, NothingGrows
<1> HIDE DEF k
<1>9. ConnsGrow(conns, conns', e, i)
  BY <1>1, <1>2, <1>4 DEF ConnsGrow
<1> HIDE DEF e, i
<1>10. /\ Connected(ctx[e][i]) \in Context
       /\ ContextGood(Q, e, i, Connected(ctx[e][i]), bound, conns')
  BY <1>3, <1>9, ConnectedGood
<1> QED
  BY <1>2, <1>3, <1>4, <1>5, <1>7, <1>8, <1>9, <1>10, EventStep

LEMMA ServerConnectedKeeps ==
  ASSUME NEW Q, Good(Q), NEW c \in ConnId, ServerConnected(c)
  PROVE  Good(Q)'
<1> DEFINE e == conns[c].dst
           i == conns[c].sslot
           k == [conns[c] EXCEPT !.ss = "connected"]
<1>1. conns \in [ConnId -> Connection] /\ conns[c] \in Connection /\ ConnectionGood(conns[c], bound)
  BY ConnectionIn
<1>2. conns[c].ss = "pending" /\ conns[c].cs # "none" /\ conns' = [conns EXCEPT ![c] = k]
  BY <1>1 DEF ServerConnected
<1>3. e \in Endpoint /\ i \in Slot
  BY <1>1, <1>2 DEF ConnectionGood
<1>4. /\ k \in Connection /\ k.owner = conns[c].owner /\ k.slot = conns[c].slot
      /\ k.port = conns[c].port /\ k.dst = e /\ k.cs = conns[c].cs
      /\ k.ss = "connected" /\ k.sslot = i
  BY <1>1 DEF Connection, ServerState
<1>5. ConnectionGood(k, bound)
  BY <1>1, <1>2, <1>3, <1>4 DEF ConnectionGood
<1>6. ctx \in [Endpoint -> [Slot -> Context]]
  BY DEF Good, Typed
<1>7. ctx' = [ctx EXCEPT ![e][i] = Connected(ctx[e][i])] /\ UNCHANGED <<bound, net, app>>
  BY <1>3, <1>6 DEF ServerConnected
<1>8. app' \in [Endpoint -> SUBSET Slot]
  BY <1>3, <1>7, NothingGrows
<1> HIDE DEF k
<1>9. ConnsGrow(conns, conns', e, i)
  BY <1>1, <1>2, <1>4 DEF ConnsGrow
<1> HIDE DEF e, i
<1>10. /\ Connected(ctx[e][i]) \in Context
       /\ ContextGood(Q, e, i, Connected(ctx[e][i]), bound, conns')
  BY <1>3, <1>9, ConnectedGood
<1> QED
  BY <1>2, <1>3, <1>4, <1>5, <1>7, <1>8, <1>9, <1>10, EventStep

\* Giving up a reference keeps a context good once the handles of side c,
\* which the step closes, are gone from x.
LEMMA ReleaseKeeps ==
  ASSUME NEW Q, Good(Q), NEW e \in Endpoint, NEW i \in Slot,
         NEW c \in ConnId, NEW k \in Connection, NEW x \in Context,
         x.remote = ctx[e][i].remote, x.ls = ctx[e][i].ls, x.lc = ctx[e][i].lc,
         x.rs = ctx[e][i].rs, x.rc = ctx[e][i].rc, x.age = ctx[e][i].age,
         x.self \in {None, ctx[e][i].self}, x.peer \in {None, ctx[e][i].peer},
         x.refs = ctx[e][i].refs,
         conns' = [conns EXCEPT ![c] = k],
         k.owner = conns[c].owner, k.slot = conns[c].slot, k.dst = conns[c].dst,
         k.sslot = conns[c].sslot, ConnectionGood(k, bound),
         k.cs \in {conns[c].cs, "closed", "failed"},
         k.ss \in {conns[c].ss, "closed"},
         Release(e, i, x), UNCHANGED <<bound, net>>
  PROVE  Good(Q)'
<1> DEFINE n == Decr(x.refs)
           y == [x EXCEPT !.refs = n]
<1>1. /\ ctx[e][i] \in Context /\ ContextGood(Q, e, i, ctx[e][i], bound, conns)
      /\ conns \in [ConnId -> Connection]
      /\ \A d \in ConnId : ConnectionGood(conns[d], bound)
      /\ app \in [Endpoint -> SUBSET Slot]
  BY ContextIn, ConnectionIn, NothingGrows
<1>2. n \in 0 .. RefMod - 1
  <2>1. x.refs \in 0 .. RefMod - 1
    BY DEF Context
  <2> QED
    BY <2>1, ConstantsAssumption DEF Decr
<1>3. ConnsGrow(conns, conns', e, i)
  BY <1>1 DEF ConnsGrow
<1>4. \A d \in ConnId : /\ conns'[d].cs = "connected" => conns[d].cs = "connected"
                        /\ conns'[d].ss = "connected" => conns[d].ss = "connected"
  BY <1>1
<1>5. app' \in [Endpoint -> SUBSET Slot]
  BY <1>1 DEF Release
<1> HIDE DEF n
<1>6. CASE ctx' = [ctx EXCEPT ![e][i] = Blank(0)]
  <2>1. 0 \in 0 .. RefMod - 1
    BY ConstantsAssumption
  <2>2. Blank(0) \in Context /\ ContextGood(Q, e, i, Blank(0), bound, conns')
    BY <2>1, BlankGood
  <2> QED
    BY <1>3, <1>5, <1>6, <2>2, EventStep
<1>7. CASE ctx' = [ctx EXCEPT ![e][i] = y]
  <2> DEFINE x0 == ctx[e][i]
  <2>1. /\ y \in Context /\ y.remote = x.remote /\ y.ls = x.ls /\ y.lc = x.lc
        /\ y.rs = x.rs /\ y.rc = x.rc /\ y.age = x.age
        /\ y.self = x.self /\ y.peer = x.peer
    BY <1>2 DEF Context
  <2>2. /\ y \in Context /\ y.remote = x0.remote /\ y.ls = x0.ls /\ y.lc = x0.lc
        /\ y.rs = x0.rs /\ y.rc = x0.rc /\ y.age = x0.age
        /\ y.self \in {None, x0.self} /\ y.peer \in {None, x0.peer}
    BY <2>1
  <2>3. x0 \in Context /\ ContextGood(Q, e, i, x0, bound, conns)
    BY <1>1
  <2>5. /\ conns \in [ConnId -> Connection]
        /\ \A d \in ConnId : ConnectionGood(conns[d], bound)
    BY <1>1
  <2>6. \/ y.age = Unset
        \/ /\ y.age = x0.age
           /\ \A d \in ConnId :
                /\ conns'[d].cs = "connected" => conns[d].cs = "connected"
                /\ conns'[d].ss = "connected" => conns[d].ss = "connected"
    BY <1>4, <2>2
  <2> HIDE DEF y, x0
  <2>4. ContextGood(Q, e, i, y, bound, conns')
    <3> DEFINE cn2 == conns'
    <3>1. ConnsGrow(conns, cn2, e, i)
      BY <1>3
    <3>2. \/ y.age = Unset
          \/ /\ y.age = x0.age
             /\ \A d \in ConnId :
                  /\ cn2[d].cs = "connected" => conns[d].cs = "connected"
                  /\ cn2[d].ss = "connected" => conns[d].ss = "connected"
      BY <2>6
    <3> HIDE DEF cn2
    <3>3. ContextGood(Q, e, i, y, bound, cn2)
      BY <2>5, <2>2, <2>3, <3>1, <3>2, ContextShrinks
    <3> QED
      BY <3>3 DEF cn2
  <2> QED
    BY <1>3, <1>5, <1>7, <2>1, <2>4, EventStep
<1> QED
  BY <1>6, <1>7 DEF Release, n

LEMMA ClientShutdownCompleteKeeps ==
  ASSUME NEW Q, Good(Q), NEW c \in ConnId, ClientShutdownComplete(c)
  PROVE  Good(Q)'
<1> DEFINE e == conns[c].owner
           i == conns[c].slot
           cs == IF conns[c].cs = "connected" THEN "closed" ELSE "failed"
           k == [conns[c] EXCEPT !.cs = cs]
           x == [ctx[e][i] EXCEPT !.self = None]
<1>1. conns \in [ConnId -> Connection] /\ conns[c] \in Connection /\ ConnectionGood(conns[c], bound)
  BY ConnectionIn
<1>2. /\ conns[c].cs # "none" /\ conns' = [conns EXCEPT ![c] = k]
      /\ UNCHANGED <<bound, net>> /\ Release(e, i, x)
  BY <1>1 DEF ClientShutdownComplete
<1>3. e \in Endpoint /\ i \in Slot
  BY <1>1, <1>2 DEF ConnectionGood
<1>4. /\ k \in Connection /\ k.owner = e /\ k.slot = i /\ k.port = conns[c].port
      /\ k.dst = conns[c].dst /\ k.cs = cs
      /\ k.ss = conns[c].ss /\ k.sslot = conns[c].sslot
  BY <1>1 DEF Connection, ClientState
<1>5. cs \in {"closed", "failed"}
  OBVIOUS
<1>6. ctx[e][i] \in Context
  BY <1>3, ContextIn
<1>7. /\ x \in Context
      /\ x.remote = ctx[e][i].remote /\ x.ls = ctx[e][i].ls /\ x.lc = ctx[e][i].lc
      /\ x.rs = ctx[e][i].rs /\ x.rc = ctx[e][i].rc /\ x.age = ctx[e][i].age
      /\ x.self = None /\ x.peer = ctx[e][i].peer /\ x.refs = ctx[e][i].refs
  BY <1>6 DEF Context, Opt
<1> HIDE DEF k, cs, x
<1>8. ConnectionGood(k, bound)
  BY <1>1, <1>2, <1>4, <1>5 DEF ConnectionGood
<1>9. /\ k.cs \in {conns[c].cs, "closed", "failed"} /\ k.ss \in {conns[c].ss, "closed"}
      /\ k.owner = conns[c].owner /\ k.slot = conns[c].slot
      /\ x.self \in {None, ctx[e][i].self} /\ x.peer \in {None, ctx[e][i].peer}
  BY <1>4, <1>5, <1>7
<1> HIDE DEF e, i
<1> QED
  BY <1>2, <1>3, <1>4, <1>7, <1>8, <1>9, ReleaseKeeps

LEMMA ServerShutdownCompleteKeeps ==
  ASSUME NEW Q, Good(Q), NEW c \in ConnId, ServerShutdownComplete(c)
  PROVE  Good(Q)'
<1> DEFINE e == conns[c].dst
           i == conns[c].sslot
           k == [conns[c] EXCEPT !.ss = "closed"]
           x == [ctx[e][i] EXCEPT !.peer = None]
<1>1. conns \in [ConnId -> Connection] /\ conns[c] \in Connection /\ ConnectionGood(conns[c], bound)
  BY ConnectionIn
<1>2. /\ conns[c].ss \in {"pending", "connected"} /\ conns' = [conns EXCEPT ![c] = k]
      /\ UNCHANGED <<bound, net>> /\ Release(e, i, x)
  BY <1>1 DEF ServerShutdownComplete
<1>3. e \in Endpoint /\ i \in Slot /\ conns[c].cs # "none"
  BY <1>1, <1>2 DEF ConnectionGood, NoConnection
<1>4. /\ k \in Connection /\ k.owner = conns[c].owner /\ k.slot = conns[c].slot
      /\ k.port = conns[c].port /\ k.dst = e /\ k.cs = conns[c].cs
      /\ k.ss = "closed" /\ k.sslot = i
  BY <1>1 DEF Connection, ServerState
<1>6. ctx[e][i] \in Context
  BY <1>3, ContextIn
<1>7. /\ x \in Context
      /\ x.remote = ctx[e][i].remote /\ x.ls = ctx[e][i].ls /\ x.lc = ctx[e][i].lc
      /\ x.rs = ctx[e][i].rs /\ x.rc = ctx[e][i].rc /\ x.age = ctx[e][i].age
      /\ x.self = ctx[e][i].self /\ x.peer = None /\ x.refs = ctx[e][i].refs
  BY <1>6 DEF Context, Opt
<1> HIDE DEF k, x
<1>8. ConnectionGood(k, bound)
  BY <1>1, <1>2, <1>3, <1>4 DEF ConnectionGood
<1>9. /\ k.cs \in {conns[c].cs, "closed", "failed"} /\ k.ss \in {conns[c].ss, "closed"}
      /\ k.dst = conns[c].dst /\ k.sslot = conns[c].sslot
      /\ x.self \in {None, ctx[e][i].self} /\ x.peer \in {None, ctx[e][i].peer}
  BY <1>4, <1>7
<1> HIDE DEF e, i
<1> QED
  BY <1>2, <1>3, <1>4, <1>7, <1>8, <1>9, ReleaseKeeps

LEMMA ReceiveWithoutContextKeeps ==
  ASSUME NEW Q, Good(Q), NEW c \in ConnId, ReceiveWithoutContext(c)
  PROVE  Good(Q)'
<1>1. conns[c] \in Connection /\ ConnectionGood(conns[c], bound)
  BY ConnectionIn
<1>2. ASSUME NEW e \in Endpoint, NEW i \in Slot, DropOnReceive(e, i)
      PROVE  Good(Q)'
  <2>1. /\ ctx' = [ctx EXCEPT ![e][i] = Reset(ctx[e][i])]
        /\ UNCHANGED <<bound, net, conns>> /\ app' \in [Endpoint -> SUBSET Slot]
    BY <1>2 DEF DropOnReceive, Good, Typed
  <2> QED
    BY <2>1, ResetStep
<1>3. CASE conns[c].cs = "connected" /\ DropOnReceive(conns[c].owner, conns[c].slot)
  <2>1. conns[c].owner \in Endpoint /\ conns[c].slot \in Slot
    BY <1>1, <1>3 DEF ConnectionGood
  <2> QED
    BY <1>2, <1>3, <2>1
<1>4. CASE conns[c].ss = "connected" /\ DropOnReceive(conns[c].dst, conns[c].sslot)
  <2>1. conns[c].dst \in Endpoint /\ conns[c].sslot \in Slot
    BY <1>1, <1>4 DEF ConnectionGood
  <2> QED
    BY <1>2, <1>4, <2>1
<1> QED
  BY <1>3, <1>4 DEF ReceiveWithoutContext

-----------------------------------------------------------------------------
(***************************************************************************)
(* All steps together                                                      *)
(***************************************************************************)

LEMMA InitGood ==
  ASSUME NEW Q, Init
  PROVE  Good(Q)
<1>1. /\ ctx = [e \in Endpoint |-> [i \in Slot |-> Blank(0)]]
      /\ bound = [h \in Host |-> [p \in ClientPort |-> None]]
      /\ net = {} /\ conns = [c \in ConnId |-> NoConnection]
      /\ app = [e \in Endpoint |-> {}]
  BY DEF Init
<1>2. 0 \in 0 .. RefMod - 1
  BY ConstantsAssumption
<1>3. \A e \in Endpoint, i \in Slot :
        Blank(0) \in Context /\ ContextGood(Q, e, i, Blank(0), bound, conns)
  BY <1>2, BlankGood
<1>4. NoConnection \in Connection /\ ConnectionGood(NoConnection, bound)
  BY DEF NoConnection, Connection, Opt, ClientState, ServerState, ConnectionGood
<1>5. \A e \in Endpoint, i \in Slot : ctx[e][i] = Blank(0)
  BY <1>1
<1>6. ctx \in [Endpoint -> [Slot -> Context]]
  <2> DEFINE b == Blank(0)
  <2>1. ctx = [e \in Endpoint |-> [i \in Slot |-> b]]
    BY <1>1
  <2>2. Endpoint # {} /\ Slot # {} => b \in Context
    BY <1>3
  <2> HIDE DEF b
  <2> QED
    BY <2>1, <2>2
<1>7. Typed
  BY <1>1, <1>4, <1>6 DEF Typed, Opt
<1> QED
  BY <1>1, <1>3, <1>4, <1>5, <1>7 DEF Good

\* The steps that reserve no slot and do not concern a first packet.
Elsewhere ==
  \/ \E m \in net : ReceiveSecond(m.dst, m) \/ ReceiveThird(m.dst, m)
  \/ \E e \in Endpoint, i \in Slot :
       DoCheck(e, i) \/ Disconnect(e, i) \/ ForgetChannel(e, i)
  \/ \E e \in Endpoint : Tick(e)
  \/ QuicEvent

LEMMA NextCases ==
  ASSUME [Next]_vars
  PROVE  \/ \E e, r \in Endpoint : ConnectTo(e, r)
         \/ \E m \in net : ReceiveFirst(m.dst, m)
         \/ \E e \in Endpoint : AnswerFirst(e)
         \/ Elsewhere
         \/ UNCHANGED vars
<1>1. CASE ReceivePacket
  BY <1>1 DEF ReceivePacket, Elsewhere
<1>2. CASE \/ \E e \in Endpoint, i \in Slot :
                DoCheck(e, i) \/ Disconnect(e, i) \/ ForgetChannel(e, i)
           \/ \E e \in Endpoint : Tick(e)
           \/ QuicEvent
  BY <1>2 DEF Elsewhere
<1> QED
  BY <1>1, <1>2 DEF Next

LEMMA ElsewhereKeeps ==
  ASSUME NEW Q, Good(Q), Elsewhere
  PROVE  Good(Q)'
<1>1. CASE \E m \in net : ReceiveSecond(m.dst, m) \/ ReceiveThird(m.dst, m)
  BY <1>1, ReceiveSecondKeeps, ReceiveThirdKeeps
<1>2. CASE \E e \in Endpoint, i \in Slot :
             DoCheck(e, i) \/ Disconnect(e, i) \/ ForgetChannel(e, i)
  BY <1>2, DoCheckKeeps, DisconnectKeeps, ForgetChannelKeeps
<1>3. CASE \E e \in Endpoint : Tick(e)
  BY <1>3, TickKeeps
<1>4. CASE QuicEvent
  BY <1>4, NewConnectionKeeps, ClientConnectedKeeps, ServerConnectedKeeps,
     ClientShutdownCompleteKeeps, ServerShutdownCompleteKeeps,
     ReceiveWithoutContextKeeps DEF QuicEvent
<1> QED
  BY <1>1, <1>2, <1>3, <1>4 DEF Elsewhere

(***************************************************************************)
(* Every step keeps Good(Q), except that AnswerFirst may make a slot of Q  *)
(* overdue, which holds a connected connection already.                    *)
(***************************************************************************)
LEMMA NextKeeps ==
  ASSUME NEW Q, Good(Q), FirstInv, [Next]_vars,
         \A e \in Endpoint :
           AnswerFirst(e) /\ <<e, first[e].slot>> \in Q =>
             ~HoldsConnected(e, first[e].slot)
  PROVE  Good(Q)'
<1>1. CASE \E e, r \in Endpoint : ConnectTo(e, r)
  BY <1>1, ConnectToKeeps
<1>2. CASE \E m \in net : ReceiveFirst(m.dst, m)
  BY <1>2, ReceiveFirstKeeps
<1>3. CASE \E e \in Endpoint : AnswerFirst(e)
  BY <1>3, AnswerFirstKeeps
<1>4. CASE UNCHANGED vars
  BY <1>4 DEF vars, Good, Typed
<1> QED
  BY <1>1, <1>2, <1>3, <1>4, NextCases, ElsewhereKeeps

-----------------------------------------------------------------------------
\* Dropping a handle keeps the type and the remote of a context.
LEMMA DropsHandle ==
  ASSUME NEW x \in Context
  PROVE  /\ [x EXCEPT !.self = None] \in Context
         /\ [x EXCEPT !.peer = None] \in Context
         /\ [x EXCEPT !.self = None].remote = x.remote
         /\ [x EXCEPT !.peer = None].remote = x.remote
  BY DEF Context, Opt

(***************************************************************************)
(* What the steps that reserve no slot may do to a context, whatever slots *)
(* the scans could not lock: give it up, or go on with its remote.         *)
(***************************************************************************)
Cleared(y) == y.remote = None /\ y.rs = None /\ y.rc = None

Stays(x, y) ==
  \/ Cleared(y)
  \/ /\ y.remote = x.remote
     /\ x.remote # None \/ (y.rs = x.rs /\ y.rc = x.rc)

AllStay == \A e \in Endpoint, i \in Slot : Stays(ctx[e][i], ctx'[e][i])

LEMMA OneStays ==
  ASSUME NEW Q, Good(Q), NEW e \in Endpoint, NEW i \in Slot, NEW y,
         ctx' = [ctx EXCEPT ![e][i] = y], Stays(ctx[e][i], y)
  PROVE  AllStay
<1>1. ctx \in [Endpoint -> [Slot -> Context]]
  BY DEF Good, Typed
<1>2. ASSUME NEW f \in Endpoint, NEW j \in Slot
      PROVE  Stays(ctx[f][j], ctx'[f][j])
  <2>1. CASE f = e /\ j = i
    BY <1>1, <2>1
  <2>2. CASE f # e \/ j # i
    <3>1. ctx'[f][j] = ctx[f][j]
      BY <1>1, <2>2
    <3> QED
      BY <3>1 DEF Stays
  <2> QED
    BY <2>1, <2>2
<1> QED
  BY <1>2 DEF AllStay

\* A step that changes neither remotes nor the ports of peers.
LEMMA NoneStay ==
  ASSUME \A e \in Endpoint, i \in Slot :
           /\ ctx'[e][i].remote = ctx[e][i].remote
           /\ ctx'[e][i].rs = ctx[e][i].rs /\ ctx'[e][i].rc = ctx[e][i].rc
  PROVE  AllStay
  BY DEF AllStay, Stays

LEMMA BlankClears ==
  ASSUME NEW n
  PROVE  Cleared(Blank(n))
  BY DEF Cleared, Blank

LEMMA ResetStays ==
  ASSUME NEW Q, Good(Q), NEW e \in Endpoint, NEW i \in Slot, NEW n,
         ctx' = [ctx EXCEPT ![e][i] = Blank(n)]
  PROVE  AllStay
<1>1. Stays(ctx[e][i], Blank(n))
  BY BlankClears DEF Stays
<1> QED
  BY <1>1, OneStays

\* StartClient keeps the remote and the ports of the context or resets it.
LEMMA StartClientStays ==
  ASSUME NEW Q, Good(Q), NEW e \in Endpoint, NEW i \in Slot, NEW x \in Context,
         ctx[e][i].remote # None, x.remote = ctx[e][i].remote, StartClient(e, i, x)
  PROVE  AllStay
<1>1. PICK y : /\ ctx' = [ctx EXCEPT ![e][i] = y]
               /\ y.remote = x.remote \/ Cleared(y)
  <2>1. \A c \in ConnId :
          [x EXCEPT !.self = c, !.transient = FALSE, !.chan = TRUE].remote = x.remote
    BY DEF Context
  <2>2. Cleared(Reset(x))
    BY BlankClears DEF Reset
  <2> QED
    BY <2>1, <2>2 DEF StartClient
<1>2. Stays(ctx[e][i], y)
  BY <1>1 DEF Stays
<1> QED
  BY <1>1, <1>2, OneStays

LEMMA ReceiveLaterStays ==
  ASSUME NEW Q, Good(Q), NEW m \in net, ReceiveSecond(m.dst, m) \/ ReceiveThird(m.dst, m)
  PROVE  AllStay
<1>0. PICK e \in Endpoint : e = m.dst
  BY PacketIn DEF Packet
<1>1. m.src # None
  BY PacketIn, ConstantsTyped DEF Packet
<1>2. PICK busy \in BusySets, i \in Slot :
        /\ Matching(e, m.src, busy, i)
        /\ \/ StartClient(e, i, [ctx[e][i] EXCEPT !.rs = m.ls, !.rc = m.lc])
           \/ StartClient(e, i, ctx[e][i])
  BY <1>0 DEF ReceiveSecond, ReceiveThird
<1>3. ctx[e][i].remote = m.src
  BY <1>2, MatchingServes
<1> DEFINE x == [ctx[e][i] EXCEPT !.rs = m.ls, !.rc = m.lc]
<1>4. /\ x \in Context /\ ctx[e][i] \in Context
      /\ x.remote = ctx[e][i].remote
  BY <1>0, <1>3, SavePortsGood, ContextIn DEF Context
<1> HIDE DEF x
<1>5. StartClient(e, i, x) \/ StartClient(e, i, ctx[e][i])
  BY <1>2 DEF x
<1> QED
  BY <1>1, <1>3, <1>4, <1>5, StartClientStays

LEMMA ApplicationStays ==
  ASSUME NEW Q, Good(Q), NEW e \in Endpoint, NEW i \in Slot,
         DoCheck(e, i) \/ Disconnect(e, i) \/ ForgetChannel(e, i)
  PROVE  AllStay
<1>1. ctx \in [Endpoint -> [Slot -> Context]]
  BY DEF Good, Typed
<1>2. CASE LongStopExpires(e, i) \/ ShortStopExpires(e, i) \/ Disconnect(e, i)
  <2>1. ctx' = [ctx EXCEPT ![e][i] = Blank(ctx[e][i].refs)]
    BY <1>1, <1>2 DEF LongStopExpires, ShortStopExpires, Disconnect, Reset
  <2> QED
    BY <2>1, ResetStays
<1>3. CASE Resend(e, i)
  BY <1>3, NoneStay DEF Resend
<1>4. CASE ForgetChannel(e, i)
  <2>1. \A f \in Endpoint, j \in Slot :
          /\ ctx'[f][j].remote = ctx[f][j].remote
          /\ ctx'[f][j].rs = ctx[f][j].rs /\ ctx'[f][j].rc = ctx[f][j].rc
    BY <1>1, <1>4 DEF ForgetChannel, Context
  <2> QED
    BY <2>1, NoneStay
<1> QED
  BY <1>2, <1>3, <1>4 DEF DoCheck

LEMMA TickStays ==
  ASSUME NEW Q, Good(Q), NEW e \in Endpoint, Tick(e)
  PROVE  AllStay
<1> DEFINE row == [i \in Slot |-> Older(ctx[e][i])]
<1>1. ctx \in [Endpoint -> [Slot -> Context]] /\ ctx' = [ctx EXCEPT ![e] = row]
  BY DEF Good, Typed, Tick
<1>2. \A i \in Slot : row[i] = Older(ctx[e][i])
  OBVIOUS
<1>3. \A i \in Slot : /\ Older(ctx[e][i]).remote = ctx[e][i].remote
                      /\ Older(ctx[e][i]).rs = ctx[e][i].rs
                      /\ Older(ctx[e][i]).rc = ctx[e][i].rc
  BY <1>1 DEF Older, Context
<1> HIDE DEF row
<1>4. \A f \in Endpoint, j \in Slot :
        /\ ctx'[f][j].remote = ctx[f][j].remote
        /\ ctx'[f][j].rs = ctx[f][j].rs /\ ctx'[f][j].rc = ctx[f][j].rc
  BY <1>1, <1>2, <1>3
<1> QED
  BY <1>4, NoneStay

\* An event changes of a context neither the remote nor the peer's ports, or
\* resets it.
LEMMA QuicEventStays ==
  ASSUME NEW Q, Good(Q), NEW c \in ConnId,
         \/ NewConnection(c) \/ ClientConnected(c) \/ ServerConnected(c)
         \/ ClientShutdownComplete(c) \/ ServerShutdownComplete(c)
         \/ ReceiveWithoutContext(c)
  PROVE  AllStay
<1>1. ctx \in [Endpoint -> [Slot -> Context]]
  BY DEF Good, Typed
<1>2. conns[c] \in Connection
  BY ConnectionIn
<1>3. /\ conns[c].cs # "none" => conns[c].owner \in Endpoint /\ conns[c].slot \in Slot
      /\ conns[c].ss # "none" => conns[c].dst \in Endpoint /\ conns[c].sslot \in Slot
  BY ConnectionIn DEF ConnectionGood
<1>4. ASSUME NEW e \in Endpoint, NEW i \in Slot, NEW y,
             ctx' = [ctx EXCEPT ![e][i] = y],
             y.remote = ctx[e][i].remote, y.rs = ctx[e][i].rs, y.rc = ctx[e][i].rc
      PROVE  AllStay
  BY <1>4, OneStays DEF Stays
<1>5. ASSUME NEW e \in Endpoint, NEW i \in Slot, NEW x \in Context, Release(e, i, x),
             x.remote = ctx[e][i].remote, x.rs = ctx[e][i].rs, x.rc = ctx[e][i].rc
      PROVE  AllStay
  <2> DEFINE y == [x EXCEPT !.refs = Decr(x.refs)]
  <2>1. y.remote = x.remote /\ y.rs = x.rs /\ y.rc = x.rc
    BY DEF Context
  <2>2. ctx' = [ctx EXCEPT ![e][i] = Blank(0)] \/ ctx' = [ctx EXCEPT ![e][i] = y]
    BY <1>5 DEF Release
  <2> HIDE DEF y
  <2> QED
    BY <1>4, <1>5, <2>1, <2>2, ResetStays
<1>6. ASSUME NEW e \in Endpoint, NEW i \in Slot
      PROVE  /\ [ctx[e][i] EXCEPT !.self = None] \in Context
             /\ [ctx[e][i] EXCEPT !.peer = None] \in Context
             /\ \A y \in {[ctx[e][i] EXCEPT !.self = None],
                         [ctx[e][i] EXCEPT !.peer = None],
                         [ctx[e][i] EXCEPT !.peer = c], Connected(ctx[e][i])} :
                  y.remote = ctx[e][i].remote /\ y.rs = ctx[e][i].rs /\ y.rc = ctx[e][i].rc
  <2>1. ctx[e][i] \in Context
    BY <1>1
  <2>2. \A x \in Context, n \in Opt(ConnId) :
          /\ [x EXCEPT !.peer = n].remote = x.remote /\ [x EXCEPT !.self = n].remote = x.remote
          /\ [x EXCEPT !.peer = n].rs = x.rs /\ [x EXCEPT !.self = n].rs = x.rs
          /\ [x EXCEPT !.peer = n].rc = x.rc /\ [x EXCEPT !.self = n].rc = x.rc
    BY DEF Context
  <2>3. \A x \in Context : /\ Connected(x).remote = x.remote
                           /\ Connected(x).rs = x.rs /\ Connected(x).rc = x.rc
    BY DEF Context, Connected
  <2>4. c \in Opt(ConnId) /\ None \in Opt(ConnId)
    BY DEF Opt
  <2> QED
    BY <2>1, <2>2, <2>3, <2>4, DropsHandle
<1>7. CASE NewConnection(c)
  <2>1. PICK e \in Endpoint, i \in Slot :
          ctx' = [ctx EXCEPT ![e][i] = [ctx[e][i] EXCEPT !.peer = c]]
    BY <1>1, <1>2, <1>7 DEF NewConnection, Connection, Opt
  <2> QED
    BY <1>4, <1>6, <2>1
<1>8. CASE ClientConnected(c) \/ ServerConnected(c)
  <2>1. PICK e \in Endpoint, i \in Slot : ctx' = [ctx EXCEPT ![e][i] = Connected(ctx[e][i])]
    BY <1>1, <1>3, <1>8 DEF ClientConnected, ServerConnected
  <2> QED
    BY <1>4, <1>6, <2>1
<1>9. CASE ClientShutdownComplete(c)
  <2>1. PICK e \in Endpoint, i \in Slot : Release(e, i, [ctx[e][i] EXCEPT !.self = None])
    BY <1>3, <1>9 DEF ClientShutdownComplete
  <2> QED
    BY <1>5, <1>6, <2>1
<1>10. CASE ServerShutdownComplete(c)
  <2>1. PICK e \in Endpoint, i \in Slot : Release(e, i, [ctx[e][i] EXCEPT !.peer = None])
    BY <1>3, <1>10 DEF ServerShutdownComplete
  <2> QED
    BY <1>5, <1>6, <2>1
<1>11. CASE ReceiveWithoutContext(c)
  <2>1. PICK e \in Endpoint, i \in Slot :
          ctx' = [ctx EXCEPT ![e][i] = Blank(ctx[e][i].refs)]
    BY <1>1, <1>3, <1>11 DEF ReceiveWithoutContext, DropOnReceive, Reset
  <2> QED
    BY <2>1, ResetStays
<1> QED
  BY <1>7, <1>8, <1>9, <1>10, <1>11

LEMMA ElsewhereStays ==
  ASSUME NEW Q, Good(Q), Elsewhere \/ UNCHANGED vars
  PROVE  AllStay /\ first' = first /\ net \subseteq net'
<1>1. AllStay
  <2>1. CASE \E m \in net : ReceiveSecond(m.dst, m) \/ ReceiveThird(m.dst, m)
    BY <2>1, ReceiveLaterStays
  <2>2. CASE \E e \in Endpoint, i \in Slot :
               DoCheck(e, i) \/ Disconnect(e, i) \/ ForgetChannel(e, i)
    BY <2>2, ApplicationStays
  <2>3. CASE \E e \in Endpoint : Tick(e)
    BY <2>3, TickStays
  <2>4. CASE QuicEvent
    BY <2>4, QuicEventStays DEF QuicEvent
  <2>5. CASE UNCHANGED vars
    BY <2>5, NoneStay DEF vars
  <2> QED
    BY <2>1, <2>2, <2>3, <2>4, <2>5 DEF Elsewhere
<1>2. first' = first /\ net \subseteq net'
  BY DEF Elsewhere, vars, ReceiveSecond, ReceiveThird, DoCheck, LongStopExpires,
         ShortStopExpires, Resend, Disconnect, ForgetChannel, Tick, QuicEvent,
         NewConnection, ClientConnected, ServerConnected,
         ClientShutdownComplete, ServerShutdownComplete,
         ReceiveWithoutContext, DropOnReceive
<1> QED
  BY <1>1, <1>2

-----------------------------------------------------------------------------
(***************************************************************************)
(* The first packet that Receive1st is at work on                          *)
(***************************************************************************)

\* A step that leaves the contexts of e and its first packet alone.
LEMMA FirstUntouched ==
  ASSUME NEW e \in Endpoint, FirstGood(e), ctx'[e] = ctx[e],
         first'[e] = first[e], net \subseteq net'
  PROVE  FirstGood(e)'
  BY DEF FirstGood

\* A slot that another handler gives up, or goes on with, is as good.
LEMMA FirstStays ==
  ASSUME FirstInv, AllStay, first' = first, net \subseteq net'
  PROVE  AllFirstGood'
<1>1. ASSUME NEW e \in Endpoint, first[e] # None
      PROVE  FirstGood(e)'
  <2> DEFINE f == first[e]
             x == ctx[e][f.slot]
             y == ctx'[e][f.slot]
  <2>1. FirstGood(e) /\ f \in FirstPacket
    BY <1>1 DEF FirstInv, AllFirstGood, Opt
  <2>2. f.slot \in Slot
    BY <2>1 DEF FirstPacket
  <2>3. /\ f.pkt \in net /\ f.pkt.dst = e
        /\ x.remote \in {None, f.pkt.src}
        /\ x.remote = None => x.rs \in {None, f.pkt.ls} /\ x.rc \in {None, f.pkt.lc}
        /\ ~f.begun => x.remote = None
        /\ BusySets = {{}} => \A j \in Slot \ {f.slot} : ctx[e][j].remote # f.pkt.src
    BY <1>1, <2>1 DEF FirstGood
  <2>4. Stays(x, y) /\ \A j \in Slot : Stays(ctx[e][j], ctx'[e][j])
    BY <2>2 DEF AllStay
  <2>5. f.pkt.src # None
    BY ConstantsTyped, <2>1 DEF FirstPacket, Packet
  <2>6. /\ y.remote \in {None, f.pkt.src}
        /\ y.remote = None => y.rs \in {None, f.pkt.ls} /\ y.rc \in {None, f.pkt.lc}
        /\ ~f.begun => y.remote = None
    BY <2>3, <2>4 DEF Stays, Cleared
  <2>7. \A j \in Slot \ {f.slot} : ctx[e][j].remote # f.pkt.src => ctx'[e][j].remote # f.pkt.src
    BY <2>4, <2>5 DEF Stays, Cleared
  <2> QED
    BY <2>3, <2>6, <2>7 DEF FirstGood
<1>2. ASSUME NEW e \in Endpoint, first[e] = None
      PROVE  FirstGood(e)'
  BY <1>2 DEF FirstGood
<1> QED
  BY <1>1, <1>2 DEF FirstInv, AllFirstGood

\* Receive1st takes up a packet for the slot it was given.
LEMMA FirstBegins ==
  ASSUME NEW Q, Good(Q), FirstInv, NEW m \in net, ReceiveFirst(m.dst, m)
  PROVE  AllFirstGood'
<1>1. PICK e \in Endpoint : e = m.dst /\ m \in Packet
  BY PacketIn DEF Packet
<1>2. ctx \in [Endpoint -> [Slot -> Context]]
  BY DEF Good, Typed
<1>3. PICK busy \in BusySets, i \in Slot :
        /\ Found(e, m.src, busy, i)
        /\ ~Established(e, m.src, busy, i)
        /\ ctx' = [ctx EXCEPT ![e][i] = [ctx[e][i] EXCEPT !.rs = m.ls, !.rc = m.lc]]
        /\ first' = [first EXCEPT ![e] =
                       [pkt |-> m, slot |-> i, begun |-> ctx[e][i].age # Unset]]
  BY <1>1, <1>2 DEF ReceiveFirst
<1> DEFINE f == [pkt |-> m, slot |-> i, begun |-> ctx[e][i].age # Unset]
<1>4. /\ f \in FirstPacket
      /\ f.pkt = m /\ f.slot = i /\ (f.begun <=> ctx[e][i].age # Unset)
  BY <1>1 DEF FirstPacket
<1>5. first' = [first EXCEPT ![e] = f] /\ first \in [Endpoint -> Opt(FirstPacket)]
  BY <1>3 DEF FirstInv, AllFirstGood
<1> HIDE DEF f
<1>6. net' = net
  BY DEF ReceiveFirst
<1> DEFINE y == [ctx[e][i] EXCEPT !.rs = m.ls, !.rc = m.lc]
<1>7. y.remote = ctx[e][i].remote /\ y.rs = m.ls /\ y.rc = m.lc
  BY <1>2 DEF Context
<1> HIDE DEF y
<1>8. ctx'[e][i] = y /\ \A j \in Slot \ {i} : ctx'[e][j] = ctx[e][j]
  BY <1>2, <1>3 DEF y
<1>9. /\ ctx[e][i].remote \in {None, m.src}
      /\ Matches(e, m.src, busy) = {} => ctx[e][i].remote = None
  BY <1>3, FoundServes
<1>10. ctx[e][i].age = Unset => ctx[e][i].remote = None
  BY <1>3, <1>9 DEF Found, Established
<1>11. BusySets = {{}} => \A j \in Slot \ {i} : ctx[e][j].remote # m.src
  <2> SUFFICES ASSUME BusySets = {{}}, NEW j \in Slot \ {i}, ctx[e][j].remote = m.src
               PROVE  FALSE
    OBVIOUS
  <2>1. j \in Matches(e, m.src, {}) /\ Found(e, m.src, {}, i)
    BY <1>3 DEF Matches
  <2>2. i \in Matches(e, m.src, {})
    BY <2>1 DEF Found, Matching, IsFirst
  <2>3. ctx[e][i].remote = m.src /\ m.src # None
    BY <1>1, <2>2, ConstantsTyped DEF Matches, Packet
  <2> QED
    BY <1>1, <2>3 DEF FirstInv, OneContextPerRemote
<1>12. FirstGood(e)'
  BY <1>1, <1>4, <1>5, <1>6, <1>7, <1>8, <1>9, <1>10, <1>11 DEF FirstGood
<1>13. ASSUME NEW g \in Endpoint, g # e
       PROVE  FirstGood(g)'
  <2>1. ctx'[g] = ctx[g] /\ first'[g] = first[g]
    BY <1>2, <1>3, <1>5, <1>13
  <2> QED
    BY <1>6, <2>1, FirstUntouched DEF FirstInv, AllFirstGood
<1>14. first' \in [Endpoint -> Opt(FirstPacket)]
  BY <1>4, <1>5 DEF Opt
<1> QED
  BY <1>12, <1>13, <1>14 DEF FirstInv, AllFirstGood

\* A step of e that touches nobody else's contexts and leaves no packet open.
LEMMA FirstEnds ==
  ASSUME FirstInv, NEW e \in Endpoint, first'[e] = None,
         first' \in [Endpoint -> Opt(FirstPacket)], net \subseteq net',
         \A g \in Endpoint \ {e} : ctx'[g] = ctx[g] /\ first'[g] = first[g]
  PROVE  AllFirstGood'
<1>1. FirstGood(e)'
  BY DEF FirstGood
<1>2. \A g \in Endpoint \ {e} : FirstGood(g)'
  BY FirstUntouched DEF FirstInv, AllFirstGood
<1> QED
  BY <1>1, <1>2 DEF AllFirstGood

LEMMA AllFirstGoodKept ==
  ASSUME NEW Q, Good(Q), FirstInv, [Next]_vars
  PROVE  AllFirstGood'
<1>1. ctx \in [Endpoint -> [Slot -> Context]] /\ first \in [Endpoint -> Opt(FirstPacket)]
  BY DEF Good, Typed, FirstInv, AllFirstGood
<1>2. ASSUME NEW e \in Endpoint, NEW r \in Endpoint, ConnectTo(e, r)
      PROVE  AllFirstGood'
  <2>1. /\ first' = first /\ first[e] = None /\ net \subseteq net'
        /\ \A g \in Endpoint \ {e} : ctx'[g] = ctx[g]
    BY <1>1, <1>2 DEF ConnectTo, NothingFirst
  <2> QED
    BY <1>1, <2>1, FirstEnds
<1>3. ASSUME NEW e \in Endpoint, AnswerFirst(e)
      PROVE  AllFirstGood'
  <2>1. /\ first' = [first EXCEPT ![e] = None] /\ net \subseteq net'
        /\ \A g \in Endpoint \ {e} : ctx'[g] = ctx[g]
    BY <1>1, <1>3 DEF AnswerFirst
  <2>2. /\ first'[e] = None /\ first' \in [Endpoint -> Opt(FirstPacket)]
        /\ \A g \in Endpoint \ {e} : first'[g] = first[g]
    BY <1>1, <2>1 DEF Opt
  <2> QED
    BY <2>1, <2>2, FirstEnds
<1> QED
  BY <1>2, <1>3, NextCases, FirstBegins, ElsewhereStays, FirstStays

-----------------------------------------------------------------------------
(***************************************************************************)
(* KoiHandshake implements ContextTable as long as nobody holds the        *)
(* ModifyMutex of a context while FindMatchingEntry scans the table.  The  *)
(* assumption is needed: a scan that passes over a locked context may give *)
(* its remote a second one (OneContextPerRemote).                          *)
(*                                                                         *)
(* Every step maps to a step of the table: a handler that begins a         *)
(* handshake reserves a slot, one that resets a context releases it, and   *)
(* the others leave the remotes alone.                                     *)
(***************************************************************************)
\* Two tables that agree on every slot are equal.
LEMMA TableExtensional ==
  ASSUME NEW V, NEW t \in [Endpoint -> [Slot -> V]],
         NEW u \in [Endpoint -> [Slot -> V]],
         \A f \in Endpoint, j \in Slot : t[f][j] = u[f][j]
  PROVE  t = u
<1>1. \A f \in Endpoint : t[f] = u[f]
  <2> TAKE f \in Endpoint
  <2>1. t[f] \in [Slot -> V] /\ u[f] \in [Slot -> V]
    OBVIOUS
  <2> QED
    BY <2>1
<1> QED
  BY <1>1

Remotes == [Endpoint -> [Slot -> Opt(Endpoint)]]

LEMMA PeerOfTyped ==
  ASSUME NEW Q, Good(Q)
  PROVE  PeerOf \in Remotes /\ ctx \in [Endpoint -> [Slot -> Context]]
<1>1. ctx \in [Endpoint -> [Slot -> Context]]
  BY DEF Good, Typed
<1>2. \A f \in Endpoint, j \in Slot : ctx[f][j].remote \in Opt(Endpoint)
  BY <1>1 DEF Context
<1> QED
  BY <1>1, <1>2 DEF PeerOf, Remotes

\* A step that keeps all remotes is a stutter of the table.
LEMMA SameTable ==
  ASSUME NEW Q, Good(Q), \A f \in Endpoint, j \in Slot : ctx'[f][j].remote = ctx[f][j].remote
  PROVE  PeerOf' = PeerOf
  BY DEF PeerOf

\* Table u is table t with r in slot i of e.
Replaced(t, u, e, i, r) == u = [t EXCEPT ![e][i] = r]

\* What a step that changes one context does to the table.
LEMMA TableChange ==
  ASSUME NEW Q, Good(Q), NEW e \in Endpoint, NEW i \in Slot, NEW y, NEW r \in Opt(Endpoint),
         ctx' = [ctx EXCEPT ![e][i] = y], y.remote = r
  PROVE  Replaced(PeerOf, PeerOf', e, i, r)
<1>1. ctx \in [Endpoint -> [Slot -> Context]] /\ PeerOf \in Remotes
  BY PeerOfTyped
<1>2. \A f \in Endpoint, j \in Slot :
        ctx'[f][j].remote = IF f = e /\ j = i THEN r ELSE ctx[f][j].remote
  BY <1>1
<1> DEFINE t == PeerOf'
           u == [PeerOf EXCEPT ![e][i] = r]
<1>3. /\ t \in [Endpoint -> [Slot -> Opt(Endpoint)]]
      /\ \A f \in Endpoint, j \in Slot : t[f][j] = ctx'[f][j].remote
  <2>1. \A f \in Endpoint, j \in Slot : ctx[f][j].remote \in Opt(Endpoint)
    BY <1>1 DEF Context
  <2>2. \A f \in Endpoint, j \in Slot : ctx'[f][j].remote \in Opt(Endpoint)
    BY <1>2, <2>1
  <2> QED
    BY <2>2 DEF PeerOf
<1>4. u \in [Endpoint -> [Slot -> Opt(Endpoint)]]
  BY <1>1 DEF Remotes
<1>5. \A f \in Endpoint, j \in Slot : PeerOf[f][j] = ctx[f][j].remote
  BY DEF PeerOf
<1>6. \A f \in Endpoint, j \in Slot :
           u[f][j] = IF f = e /\ j = i THEN r ELSE PeerOf[f][j]
  BY <1>1 DEF Remotes
<1>7. \A f \in Endpoint, j \in Slot : t[f][j] = u[f][j]
  <2> HIDE DEF t, u
  <2> QED
    BY <1>2, <1>3, <1>5, <1>6
<1> HIDE DEF t, u
<1>8. t = u
  BY <1>3, <1>4, <1>7, TableExtensional
<1> QED
  BY <1>8 DEF t, u, Replaced

\* A step that cleans one context, or leaves its remote, is a step of the table.
LEMMA CleanStep ==
  ASSUME NEW Q, Good(Q), NEW e \in Endpoint, NEW i \in Slot, NEW y,
         ctx' = [ctx EXCEPT ![e][i] = y], y.remote \in {None, ctx[e][i].remote}
  PROVE  [Table!Next]_PeerOf
<1>1. ctx \in [Endpoint -> [Slot -> Context]] /\ PeerOf[e][i] = ctx[e][i].remote
  BY PeerOfTyped DEF PeerOf
<1>2. CASE y.remote = ctx[e][i].remote
  <2>1. \A f \in Endpoint, j \in Slot : ctx'[f][j].remote = ctx[f][j].remote
    BY <1>1, <1>2
  <2> QED
    BY <2>1, SameTable
<1>3. CASE y.remote = None /\ ctx[e][i].remote # None
  <2>1. None \in Opt(Endpoint)
    BY DEF Opt
  <2>2. Replaced(PeerOf, PeerOf', e, i, None)
    BY <1>3, <2>1, TableChange
  <2>3. Table!Release(e, i)
    BY <1>1, <1>3, <2>2 DEF Table!Release, Replaced
  <2> QED
    BY <2>3 DEF Table!Next
<1> QED
  BY <1>2, <1>3

\* No slot of e but i serves r.
NoOther(e, i, r) == \A j \in Slot \ {i} : ctx[e][j].remote # r

\* A step that begins a handshake with a remote that has no slot reserves one.
LEMMA ReserveStep ==
  ASSUME NEW Q, Good(Q), NEW e \in Endpoint, NEW i \in Slot, NEW y,
         y.remote \in Endpoint \ {e},
         ctx' = [ctx EXCEPT ![e][i] = y],
         ctx[e][i].remote = None, NoOther(e, i, y.remote)
  PROVE  [Table!Next]_PeerOf
<1> DEFINE r == y.remote
<1>1. r \in Endpoint /\ r # e
  OBVIOUS
<1>2. \A j \in Slot : ctx[e][j].remote # r
  BY ConstantsTyped DEF NoOther
<1>3. r \in Opt(Endpoint)
  BY DEF Opt
<1>4. Replaced(PeerOf, PeerOf', e, i, r)
  BY <1>3, TableChange
<1> HIDE DEF r
<1>5. \A j \in Slot : PeerOf[e][j] = ctx[e][j].remote
  BY DEF PeerOf
<1>6. Table!Reserve(e, i, r)
  BY <1>1, <1>2, <1>4, <1>5 DEF Table!Reserve, Replaced
<1> QED
  BY <1>1, <1>6 DEF Table!Next

-----------------------------------------------------------------------------
\* StartClient keeps the remote of the context or resets it.
LEMMA StartClientMaps ==
  ASSUME NEW Q, Good(Q), NEW e \in Endpoint, NEW i \in Slot, NEW x \in Context,
         x.remote = ctx[e][i].remote, StartClient(e, i, x)
  PROVE  [Table!Next]_PeerOf
<1>1. PICK y : ctx' = [ctx EXCEPT ![e][i] = y] /\ y.remote \in {None, x.remote}
  <2>1. CASE ctx' = [ctx EXCEPT ![e][i] = x]
    BY <2>1
  <2>2. CASE \E c \in ConnId : ctx' = [ctx EXCEPT ![e][i] =
                  [x EXCEPT !.self = c, !.transient = FALSE, !.chan = TRUE]]
    <3>1. \A c \in ConnId :
            [x EXCEPT !.self = c, !.transient = FALSE, !.chan = TRUE].remote = x.remote
      BY DEF Context
    <3> QED
      BY <2>2, <3>1
  <2>3. CASE ctx' = [ctx EXCEPT ![e][i] = Reset(x)]
    <3>1. Reset(x).remote = None
      BY DEF Reset, Blank
    <3> QED
      BY <2>3, <3>1
  <2> QED
    BY <2>1, <2>2, <2>3 DEF StartClient
<1>2. y.remote \in {None, ctx[e][i].remote}
  BY <1>1
<1> QED
  BY <1>1, <1>2, CleanStep

LEMMA ConnectToMaps ==
  ASSUME NEW Q, Good(Q), BusySets = {{}}, NEW e \in Endpoint, NEW r \in Endpoint,
         ConnectTo(e, r)
  PROVE  [Table!Next]_PeerOf
<1>1. PICK i \in Slot, p \in ClientPort :
         /\ \A j \in Slot : ctx[e][j].remote # r
         /\ i \in Empties(e, {})
         /\ ctx' = [ctx EXCEPT ![e][i] = Begin(ctx[e][i], e, r, p)]
  <2>1. ctx \in [Endpoint -> [Slot -> Context]]
    BY DEF Good, Typed
  <2> QED
    BY <2>1 DEF ConnectTo, IsFirst, Matches
<1>2. e # r
  BY ConstantsAssumption DEF ConnectTo
<1>3. Begin(ctx[e][i], e, r, p).remote = r
  BY ContextIn DEF Begin, Context
<1> DEFINE y == Begin(ctx[e][i], e, r, p)
<1>4. ctx' = [ctx EXCEPT ![e][i] = y] /\ y.remote = r
  BY <1>1, <1>3
<1>5. ctx[e][i].remote = None
  BY <1>1, EmptyServesNobody
<1>6. \A j \in Slot \ {i} : ctx[e][j].remote # r
  BY <1>1
<1>7. y.remote \in Endpoint \ {e} /\ NoOther(e, i, y.remote)
  BY <1>2, <1>4, <1>6 DEF NoOther
<1> HIDE DEF y
<1> QED
  BY <1>4, <1>5, <1>7, ReserveStep

LEMMA ReceiveFirstMaps ==
  ASSUME NEW Q, Good(Q), NEW m \in net, ReceiveFirst(m.dst, m)
  PROVE  [Table!Next]_PeerOf
<1> DEFINE e == m.dst
<1>1. e \in Endpoint
  BY PacketIn DEF Packet
<1>2. PICK i \in Slot :
        ctx' = [ctx EXCEPT ![e][i] = [ctx[e][i] EXCEPT !.rs = m.ls, !.rc = m.lc]]
  BY <1>1 DEF ReceiveFirst, Good, Typed
<1> DEFINE y == [ctx[e][i] EXCEPT !.rs = m.ls, !.rc = m.lc]
<1>3. ctx' = [ctx EXCEPT ![e][i] = y] /\ y.remote = ctx[e][i].remote
  BY <1>1, <1>2, ContextIn DEF Context
<1> HIDE DEF y, e
<1> QED
  BY <1>1, <1>3, CleanStep

LEMMA AnswerFirstMaps ==
  ASSUME NEW Q, Good(Q), FirstInv, BusySets = {{}}, NEW e \in Endpoint, AnswerFirst(e)
  PROVE  [Table!Next]_PeerOf
<1> DEFINE r == first[e].pkt.src
           i == first[e].slot
<1>1. ctx \in [Endpoint -> [Slot -> Context]]
  BY DEF Good, Typed
<1>2. i \in Slot /\ r \in Endpoint /\ r # e /\ ctx[e][i].remote \in {None, r}
  BY FirstIn DEF AnswerFirst
<1>3. CASE ctx' = ctx
  BY <1>3, SameTable
<1>4. ASSUME NEW p \in ClientPort,
             ctx' = [ctx EXCEPT ![e][i] = Begin(ctx[e][i], e, r, p)]
      PROVE  [Table!Next]_PeerOf
  <2> DEFINE y == Begin(ctx[e][i], e, r, p)
  <2>1. ctx' = [ctx EXCEPT ![e][i] = y] /\ y.remote = r
    BY <1>1, <1>2, <1>4 DEF Begin, Context
  <2>2. \A j \in Slot \ {i} : ctx[e][j].remote # r
    BY DEF FirstInv, AllFirstGood, FirstGood, AnswerFirst, NothingFirst
  <2> HIDE DEF y, r, i
  <2>3. CASE ctx[e][i].remote = None
    <3>1. y.remote \in Endpoint \ {e}
      BY <1>2, <2>1
    <3>2. NoOther(e, i, y.remote)
      BY <2>1, <2>2 DEF NoOther
    <3> QED
      BY <1>2, <2>1, <2>3, <3>1, <3>2, ReserveStep
  <2>4. CASE ctx[e][i].remote = r
    BY <1>2, <2>1, <2>4, CleanStep
  <2> QED
    BY <1>2, <2>3, <2>4
<1> QED
  BY <1>1, <1>3, <1>4 DEF AnswerFirst

LEMMA ReceiveSecondMaps ==
  ASSUME NEW Q, Good(Q), NEW m \in net, ReceiveSecond(m.dst, m)
  PROVE  [Table!Next]_PeerOf
<1> DEFINE e == m.dst
<1>1. m \in Packet /\ PacketGood(m, bound) /\ e \in Endpoint
  BY PacketIn DEF Packet
<1>2. PICK i \in Slot : \E busy \in BusySets :
        /\ Matching(e, m.src, busy, i)
        /\ StartClient(e, i, [ctx[e][i] EXCEPT !.rs = m.ls, !.rc = m.lc])
  BY DEF ReceiveSecond
<1>3. ctx[e][i].remote = m.src
  BY <1>1, <1>2, MatchingServes, SMTT(30)
<1> DEFINE x == [ctx[e][i] EXCEPT !.rs = m.ls, !.rc = m.lc]
<1>4. x \in Context
  BY <1>1, <1>3, SavePortsGood
<1>5. x.remote = ctx[e][i].remote /\ StartClient(e, i, x)
  BY <1>1, <1>2, ContextIn DEF Context
<1> HIDE DEF x, e
<1> QED
  BY <1>1, <1>4, <1>5, StartClientMaps

LEMMA ReceiveThirdMaps ==
  ASSUME NEW Q, Good(Q), NEW m \in net, ReceiveThird(m.dst, m)
  PROVE  [Table!Next]_PeerOf
<1> DEFINE e == m.dst
<1>1. e \in Endpoint
  BY PacketIn DEF Packet
<1>2. PICK i \in Slot : StartClient(e, i, ctx[e][i])
  BY DEF ReceiveThird
<1> DEFINE x == ctx[e][i]
<1>3. x \in Context /\ x.remote = ctx[e][i].remote /\ StartClient(e, i, x)
  BY <1>1, <1>2, ContextIn
<1> HIDE DEF x, e
<1> QED
  BY <1>1, <1>3, StartClientMaps

\* Reset releases the slot, if it was in use.
LEMMA ResetMaps ==
  ASSUME NEW Q, Good(Q), NEW e \in Endpoint, NEW i \in Slot,
         ctx' = [ctx EXCEPT ![e][i] = Reset(ctx[e][i])]
  PROVE  [Table!Next]_PeerOf
<1>1. Reset(ctx[e][i]).remote = None
  BY DEF Reset, Blank
<1> QED
  BY <1>1, CleanStep

LEMMA ApplicationMaps ==
  ASSUME NEW Q, Good(Q), NEW e \in Endpoint, NEW i \in Slot,
         DoCheck(e, i) \/ Disconnect(e, i) \/ ForgetChannel(e, i)
  PROVE  [Table!Next]_PeerOf
<1>1. ctx \in [Endpoint -> [Slot -> Context]]
  BY DEF Good, Typed
<1>2. CASE LongStopExpires(e, i) \/ ShortStopExpires(e, i) \/ Disconnect(e, i)
  BY <1>1, <1>2, ResetMaps DEF LongStopExpires, ShortStopExpires, Disconnect
<1>3. CASE Resend(e, i)
  BY <1>3, SameTable DEF Resend
<1>4. CASE ForgetChannel(e, i)
  <2>1. \A f \in Endpoint, j \in Slot : ctx'[f][j].remote = ctx[f][j].remote
    BY <1>1, <1>4 DEF ForgetChannel, Context
  <2> QED
    BY <2>1, SameTable
<1> QED
  BY <1>2, <1>3, <1>4 DEF DoCheck

LEMMA TickMaps ==
  ASSUME NEW Q, Good(Q), NEW e \in Endpoint, Tick(e)
  PROVE  [Table!Next]_PeerOf
<1> DEFINE row == [i \in Slot |-> Older(ctx[e][i])]
<1>1. ctx \in [Endpoint -> [Slot -> Context]] /\ ctx' = [ctx EXCEPT ![e] = row]
  BY DEF Good, Typed, Tick
<1>2. \A i \in Slot : row[i] = Older(ctx[e][i])
  OBVIOUS
<1>3. \A i \in Slot : Older(ctx[e][i]).remote = ctx[e][i].remote
  BY <1>1 DEF Older, Context
<1> HIDE DEF row
<1>4. \A f \in Endpoint, j \in Slot : ctx'[f][j].remote = ctx[f][j].remote
  BY <1>1, <1>2, <1>3
<1> QED
  BY <1>4, SameTable

\* CONNECTED and SHUTDOWN_COMPLETE keep the remote or clean the context.
LEMMA ReleaseMaps ==
  ASSUME NEW Q, Good(Q), NEW e \in Endpoint, NEW i \in Slot, NEW x \in Context,
         x.remote = ctx[e][i].remote, Release(e, i, x)
  PROVE  [Table!Next]_PeerOf
<1> DEFINE y == [x EXCEPT !.refs = Decr(x.refs)]
<1>1. y.remote = x.remote /\ Blank(0).remote = None
  BY DEF Context, Blank
<1>2. CASE ctx' = [ctx EXCEPT ![e][i] = Blank(0)]
  BY <1>1, <1>2, CleanStep
<1>3. CASE ctx' = [ctx EXCEPT ![e][i] = y]
  <2>1. y.remote \in {None, ctx[e][i].remote}
    BY <1>1
  <2> HIDE DEF y
  <2> QED
    BY <1>3, <2>1, CleanStep
<1> QED
  BY <1>2, <1>3 DEF Release

LEMMA QuicEventMaps ==
  ASSUME NEW Q, Good(Q), NEW c \in ConnId,
         \/ NewConnection(c) \/ ClientConnected(c) \/ ServerConnected(c)
         \/ ClientShutdownComplete(c) \/ ServerShutdownComplete(c)
         \/ ReceiveWithoutContext(c)
  PROVE  [Table!Next]_PeerOf
<1>1. ctx \in [Endpoint -> [Slot -> Context]]
  BY DEF Good, Typed
<1>2. conns[c] \in Connection /\ ConnectionGood(conns[c], bound)
  BY ConnectionIn
<1>3. /\ conns[c].cs # "none" => conns[c].owner \in Endpoint /\ conns[c].slot \in Slot
      /\ conns[c].ss # "none" => conns[c].dst \in Endpoint /\ conns[c].sslot \in Slot
  BY <1>2 DEF ConnectionGood
<1>4. CASE NewConnection(c) \/ ClientConnected(c) \/ ServerConnected(c)
  <2>1. ASSUME NEW e \in Endpoint, NEW i \in Slot
        PROVE  /\ [ctx[e][i] EXCEPT !.peer = c].remote = ctx[e][i].remote
               /\ Connected(ctx[e][i]).remote = ctx[e][i].remote
    BY <1>1 DEF Context, Connected
  <2>2. \A f \in Endpoint, j \in Slot : ctx'[f][j].remote = ctx[f][j].remote
    <3>1. CASE NewConnection(c)
      <4>1. PICK e \in Endpoint, i \in Slot :
              ctx' = [ctx EXCEPT ![e][i] = [ctx[e][i] EXCEPT !.peer = c]]
        BY <1>1, <1>2, <3>1 DEF NewConnection, Connection, Opt
      <4> QED
        BY <1>1, <2>1, <4>1
    <3>2. CASE ClientConnected(c)
      <4>1. PICK e \in Endpoint, i \in Slot :
              ctx' = [ctx EXCEPT ![e][i] = Connected(ctx[e][i])]
        BY <1>1, <1>3, <3>2 DEF ClientConnected
      <4> QED
        BY <1>1, <2>1, <4>1
    <3>3. CASE ServerConnected(c)
      <4>1. PICK e \in Endpoint, i \in Slot :
              ctx' = [ctx EXCEPT ![e][i] = Connected(ctx[e][i])]
        BY <1>1, <1>3, <3>3 DEF ServerConnected
      <4> QED
        BY <1>1, <2>1, <4>1
    <3> QED
      BY <1>4, <3>1, <3>2, <3>3
  <2> QED
    BY <2>2, SameTable
<1>5. CASE ClientShutdownComplete(c)
  <2> DEFINE e == conns[c].owner
             i == conns[c].slot
             x == [ctx[e][i] EXCEPT !.self = None]
  <2>1. e \in Endpoint /\ i \in Slot /\ Release(e, i, x)
    BY <1>3, <1>5 DEF ClientShutdownComplete
  <2>2. x \in Context /\ x.remote = ctx[e][i].remote
    BY <1>1, <2>1, DropsHandle
  <2> HIDE DEF e, i, x
  <2> QED
    BY <2>1, <2>2, ReleaseMaps
<1>6. CASE ServerShutdownComplete(c)
  <2> DEFINE e == conns[c].dst
             i == conns[c].sslot
             x == [ctx[e][i] EXCEPT !.peer = None]
  <2>1. e \in Endpoint /\ i \in Slot /\ Release(e, i, x)
    BY <1>3, <1>6 DEF ServerShutdownComplete
  <2>2. x \in Context /\ x.remote = ctx[e][i].remote
    BY <1>1, <2>1, DropsHandle
  <2> HIDE DEF e, i, x
  <2> QED
    BY <2>1, <2>2, ReleaseMaps
<1>7. CASE ReceiveWithoutContext(c)
  <2>1. PICK e \in Endpoint, i \in Slot :
          ctx' = [ctx EXCEPT ![e][i] = Reset(ctx[e][i])]
    BY <1>1, <1>3, <1>7 DEF ReceiveWithoutContext, DropOnReceive
  <2> QED
    BY <2>1, ResetMaps
<1> QED
  BY <1>4, <1>5, <1>6, <1>7

LEMMA ElsewhereMaps ==
  ASSUME NEW Q, Good(Q), Elsewhere
  PROVE  [Table!Next]_PeerOf
<1>1. CASE \E m \in net : ReceiveSecond(m.dst, m) \/ ReceiveThird(m.dst, m)
  BY <1>1, ReceiveSecondMaps, ReceiveThirdMaps
<1>2. CASE \E e \in Endpoint, i \in Slot :
             DoCheck(e, i) \/ Disconnect(e, i) \/ ForgetChannel(e, i)
  BY <1>2, ApplicationMaps
<1>3. CASE \E e \in Endpoint : Tick(e)
  BY <1>3, TickMaps
<1>4. CASE QuicEvent
  BY <1>4, QuicEventMaps DEF QuicEvent
<1> QED
  BY <1>1, <1>2, <1>3, <1>4 DEF Elsewhere

LEMMA StepMaps ==
  ASSUME NEW Q, Good(Q), FirstInv, BusySets = {{}}, [Next]_vars
  PROVE  [Table!Next]_PeerOf
<1>1. CASE UNCHANGED vars
  BY <1>1, SameTable DEF vars
<1> QED
  BY <1>1, NextCases, ConnectToMaps, ReceiveFirstMaps, AnswerFirstMaps, ElsewhereMaps

LEMMA InitMaps ==
  ASSUME Init
  PROVE  Table!Init
  BY DEF Init, Table!Init, PeerOf, Blank

\* A step of the table gives no remote a second slot.
LEMMA TableStepOneSlot ==
  ASSUME OneContextPerRemote, [Table!Next]_PeerOf, PeerOf \in Remotes
  PROVE  OneContextPerRemote'
<1>1. \A f \in Endpoint, j \in Slot :
        PeerOf[f][j] = ctx[f][j].remote /\ PeerOf'[f][j] = ctx'[f][j].remote
  BY DEF PeerOf
<1> DEFINE One(t) == \A f \in Endpoint : \A j, k \in Slot :
                       t[f][j] # None /\ t[f][j] = t[f][k] => j = k
<1>2. One(PeerOf)
  BY <1>1 DEF OneContextPerRemote
<1>3. One(PeerOf')
  <2>1. CASE PeerOf' = PeerOf
    BY <1>2, <2>1
  <2>2. ASSUME NEW e \in Endpoint, NEW i \in Slot, NEW r \in Endpoint,
               Table!Reserve(e, i, r)
        PROVE  One(PeerOf')
    <3> HIDE DEF One
    <3>1. /\ \A f \in Endpoint, j \in Slot :
               PeerOf'[f][j] = IF f = e /\ j = i THEN r ELSE PeerOf[f][j]
          /\ \A j \in Slot : PeerOf[e][j] # r
      BY <2>2 DEF Table!Reserve, Remotes
    <3> QED
      BY <1>2, <3>1 DEF One
  <2>3. ASSUME NEW e \in Endpoint, NEW i \in Slot, Table!Release(e, i)
        PROVE  One(PeerOf')
    <3> HIDE DEF One
    <3>1. \A f \in Endpoint, j \in Slot :
            PeerOf'[f][j] = IF f = e /\ j = i THEN None ELSE PeerOf[f][j]
      BY <2>3 DEF Table!Release, Remotes
    <3> QED
      BY <1>2, <3>1 DEF One
  <2> QED
    BY <2>1, <2>2, <2>3 DEF Table!Next
<1> QED
  BY <1>1, <1>3 DEF OneContextPerRemote

-----------------------------------------------------------------------------
(***************************************************************************)
(* The invariant and what follows from it                                  *)
(***************************************************************************)

LEMMA InitIInv ==
  ASSUME Init
  PROVE  IInv
<1>1. Good({})
  BY InitGood
<1>2. \A e \in Endpoint : first[e] = None /\ \A i \in Slot : ctx[e][i].remote = None
  BY DEF Init, Blank
<1>3. first \in [Endpoint -> Opt(FirstPacket)]
  BY DEF Init, Opt
<1> QED
  BY <1>1, <1>2, <1>3 DEF IInv, FirstInv, AllFirstGood, FirstGood, OneContextPerRemote

LEMMA FirstKept ==
  ASSUME NEW Q, Good(Q), FirstInv, [Next]_vars
  PROVE  FirstInv'
<1>1. AllFirstGood'
  BY AllFirstGoodKept
<1>2. BusySets = {{}} => OneContextPerRemote'
  BY StepMaps, PeerOfTyped, TableStepOneSlot DEF FirstInv
<1> QED
  BY <1>1, <1>2 DEF FirstInv

\* The strengthening is inductive.
THEOREM Inductive == Spec => []IInv
<1>1. Init => IInv
  BY InitIInv
<1>2. IInv /\ [Next]_vars => IInv'
  BY NextKeeps, FirstKept DEF IInv
<1> QED
  BY <1>1, <1>2, PTL DEF Spec

\* Every variable keeps its type; in particular the reference count, which
\* the code decrements more often than it increments it, never leaves its range
\* because it wraps around.
THEOREM TypeCorrect == Spec => []TypeOK
<1>1. IInv => TypeOK
  BY DEF IInv, Good, Typed, FirstInv, AllFirstGood, TypeOK
<1> QED
  BY <1>1, Inductive, PTL

\* The peer ports of a context are those its remote bound for this endpoint,
\* for any number of endpoints, losses, repetitions and reorderings.
THEOREM PortsAreGenuine == Spec => []GenuinePorts
<1>1. IInv => GenuinePorts
  <2>1. IInv => \A e \in Endpoint, i \in Slot : ContextGood({}, e, i, ctx[e][i], bound, conns)
    BY ContextIn DEF IInv
  <2>2. ASSUME NEW e, NEW i, NEW x, ContextGood({}, e, i, x, bound, conns)
        PROVE  x.remote # None =>
                 /\ x.rs \in {None, x.remote}
                 /\ x.rc # None => bound[HostOf[x.remote]][x.rc] = <<x.remote, e>>
    BY <2>2 DEF ContextGood
  <2> QED
    BY <2>1, <2>2 DEF GenuinePorts
<1> QED
  BY <1>1, Inductive, PTL

\* No context ever holds a connection from or to anyone but its remote.
THEOREM PeersAreRight == Spec => []RightPeer
<1>1. IInv => RightPeer
  <2>1. IInv => \A e \in Endpoint, i \in Slot : ContextGood({}, e, i, ctx[e][i], bound, conns)
    BY ContextIn DEF IInv
  <2>2. ASSUME NEW e, NEW i, NEW x, ContextGood({}, e, i, x, bound, conns)
        PROVE  /\ x.self # None =>
                    /\ conns[x.self].owner = e /\ conns[x.self].slot = i
                    /\ conns[x.self].dst \in {None, x.remote}
               /\ x.peer # None =>
                    /\ conns[x.peer].owner = x.remote
                    /\ conns[x.peer].dst = e /\ conns[x.peer].sslot = i
    BY <2>2 DEF ContextGood
  <2> QED
    BY <2>1, <2>2 DEF RightPeer
<1> QED
  BY <1>1, Inductive, PTL

\* A step brings an established slot back into the handshake only if it is
\* AnswerFirst with a packet taken up while the handshake was on.
LEMMA StepStays ==
  ASSUME IInv, [Next]_vars, NEW e \in Endpoint, NEW i \in Slot,
         ~Overdue(e, i), Overdue(e, i)'
  PROVE  /\ HoldsConnected(e, i)
         /\ ~NothingFirst(e) /\ first[e].slot = i /\ first[e].begun
<1> DEFINE Q == {<<e, i>>}
<1>1. Good(Q)
  <2>1. ContextGood({}, e, i, ctx[e][i], bound, conns) /\ ctx[e][i] \in Context
    BY ContextIn DEF IInv
  <2>2. ctx[e][i].age # Unset =>
          /\ ctx[e][i].self # None => conns[ctx[e][i].self].cs # "connected"
          /\ ctx[e][i].peer # None => conns[ctx[e][i].peer].ss # "connected"
    BY <2>1 DEF Overdue, HoldsConnected, Context, Opt
  <2>3. ASSUME NEW f \in Endpoint, NEW j \in Slot
        PROVE  ContextGood(Q, f, j, ctx[f][j], bound, conns)
    <3>1. ContextGood({}, f, j, ctx[f][j], bound, conns)
      BY ContextIn DEF IInv
    <3>2. <<f, j>> \in Q => f = e /\ j = i
      OBVIOUS
    <3> HIDE DEF Q
    <3> QED
      BY <2>2, <3>1, <3>2 DEF ContextGood
  <2> HIDE DEF Q
  <2> QED
    BY <2>3 DEF IInv, Good
<1>2. ~Good(Q)'
  <2> SUFFICES ASSUME Good(Q)' PROVE FALSE
    OBVIOUS
  <2>1. ContextGood(Q, e, i, ctx[e][i], bound, conns)'
    BY DEF Good
  <2>2. <<e, i>> \in Q
    OBVIOUS
  <2> HIDE DEF Q
  <2>3. \A c \in ConnId : c # None
    BY ConstantsTyped
  <2> QED
    BY <2>1, <2>2, <2>3 DEF ContextGood, Overdue, HoldsConnected
<1>3. PICK g \in Endpoint : /\ AnswerFirst(g) /\ <<g, first[g].slot>> \in Q
                            /\ HoldsConnected(g, first[g].slot)
  <2> HIDE DEF Q
  <2> QED
    BY <1>1, <1>2, NextKeeps DEF IInv
<1>4. g = e /\ first[e].slot = i
  BY <1>3
<1>5. HoldsConnected(e, i) /\ ~NothingFirst(e)
  BY <1>3, <1>4 DEF AnswerFirst
<1>6. first[e].begun
  <2>1. ctx[e][i].self # None \/ ctx[e][i].peer # None
    BY <1>5, ConstantsTyped DEF HoldsConnected
  <2>2. ContextGood({}, e, i, ctx[e][i], bound, conns)
    BY ContextIn DEF IInv
  <2>3. ctx[e][i].remote # None
    BY <2>1, <2>2 DEF ContextGood
  <2> QED
    BY <1>4, <1>5, <2>3, FirstIn DEF IInv
<1> QED
  BY <1>4, <1>5, <1>6

(***************************************************************************)
(* An established context stays out of the handshake, but for a first      *)
(* packet that was taken up before CONNECTED and answered after it, for    *)
(* any number of endpoints, slots, connections and repeated packets.       *)
(***************************************************************************)
THEOREM EstablishedContextStays == Spec => EstablishedStays
<1> DEFINE Stay == \A e \in Endpoint, i \in Slot :
             Overdue(e, i)' /\ ~Overdue(e, i) =>
               /\ HoldsConnected(e, i)
               /\ ~NothingFirst(e) /\ first[e].slot = i /\ first[e].begun
<1>1. IInv /\ [Next]_vars => [Stay]_vars
  BY StepStays
<1> HIDE DEF Stay
<1>2. Spec => [][Stay]_vars
  BY <1>1, Inductive, PTL DEF Spec
<1> QED
  BY <1>2 DEF Stay, EstablishedStays

-----------------------------------------------------------------------------
\* If no scan of the table is disturbed, a slot is only ever reserved for a
\* remote that has none, by ConnectTo and by Receive1st alike.
THEOREM TableImplemented ==
  ASSUME BusySets = {{}}
  PROVE  Spec => TableSpec
<1>1. Init => Table!Init
  BY InitMaps
<1>2. IInv /\ [Next]_vars => [Table!Next]_PeerOf
  BY StepMaps DEF IInv
<1> QED
  BY <1>1, <1>2, Inductive, PTL DEF Spec, TableSpec, Table!Spec

(***************************************************************************)
(* No remote ever has two entries of the table, if no scan meets a locked  *)
(* one: what FindMatchingEntry says at koisession.h:321 is true of every   *)
(* reachable table then, and only the failing try_lock makes it false.     *)
(***************************************************************************)
THEOREM OneEntryEach ==
  ASSUME BusySets = {{}}
  PROVE  Spec => []OneContextPerRemote
<1>1. IInv => OneContextPerRemote
  BY DEF IInv, FirstInv
<1> QED
  BY <1>1, Inductive, PTL
-----------------------------------------------------------------------------
\* The slot that AnswerFirst reserves is free, or serves the sender already.
LEMMA StepReserves ==
  ASSUME NEW Q, Good(Q), FirstInv, [Next]_vars, NEW e \in Endpoint, NEW i \in Slot,
         ctx'[e][i].remote \notin {None, ctx[e][i].remote}
  PROVE  Free(ctx[e][i])
<1>1. ctx \in [Endpoint -> [Slot -> Context]] /\ ContextGood(Q, e, i, ctx[e][i], bound, conns)
  BY ContextIn DEF Good, Typed
<1>2. ctx[e][i].remote = None => Free(ctx[e][i])
  BY <1>1 DEF ContextGood, Free
<1>3. CASE Elsewhere \/ UNCHANGED vars
  BY <1>3, ElsewhereStays DEF AllStay, Stays, Cleared
<1>4. ASSUME NEW f \in Endpoint, NEW r \in Endpoint, ConnectTo(f, r)
      PROVE  ctx[e][i].remote = None
  <2>1. PICK busy \in BusySets, j \in Slot, p \in ClientPort :
          /\ j \in Empties(f, busy)
          /\ ctx' = [ctx EXCEPT ![f][j] = Begin(ctx[f][j], f, r, p)]
    BY <1>1, <1>4 DEF ConnectTo, IsFirst
  <2>2. f = e /\ j = i
    BY <1>1, <2>1
  <2> QED
    BY <2>1, <2>2, EmptyServesNobody
<1>5. ASSUME NEW m \in net, ReceiveFirst(m.dst, m)
      PROVE  FALSE
  <2>1. PICK j \in Slot :
          ctx' = [ctx EXCEPT ![m.dst][j] = [ctx[m.dst][j] EXCEPT !.rs = m.ls, !.rc = m.lc]]
    BY <1>1, <1>5, PacketIn DEF ReceiveFirst, Packet
  <2> QED
    BY <1>1, <2>1 DEF Context
<1>6. ASSUME NEW f \in Endpoint, AnswerFirst(f)
      PROVE  ctx[e][i].remote = None
  <2> DEFINE r == first[f].pkt.src
             j == first[f].slot
  <2>1. j \in Slot /\ r \in Endpoint /\ ctx[f][j].remote \in {None, r}
    BY <1>6, FirstIn DEF AnswerFirst
  <2>2. PICK p \in ClientPort : ctx' = [ctx EXCEPT ![f][j] = Begin(ctx[f][j], f, r, p)]
    BY <1>1, <1>6 DEF AnswerFirst
  <2>3. Begin(ctx[f][j], f, r, p).remote = r
    BY <1>1, <2>1 DEF Begin, Context
  <2> HIDE DEF r, j
  <2>4. f = e /\ j = i
    BY <1>1, <2>2
  <2> QED
    BY <1>1, <2>1, <2>2, <2>3, <2>4
<1> QED
  BY <1>2, <1>3, <1>4, <1>5, <1>6, NextCases

(***************************************************************************)
(* A slot is only ever reserved free, and so never changes from one remote *)
(* to another at once, whichever slots are locked while FindMatchingEntry  *)
(* scans the table: the second slot that a failing try_lock gives a remote *)
(* (OneContextPerRemote) was at least nobody's.                            *)
(***************************************************************************)
THEOREM ReservedFree == Spec => ReservesFree
<1> DEFINE Reserves == \A e \in Endpoint, i \in Slot :
             ctx'[e][i].remote \notin {None, ctx[e][i].remote} => Free(ctx[e][i])
<1>1. IInv /\ [Next]_vars => [Reserves]_vars
  BY StepReserves DEF IInv
<1> HIDE DEF Reserves
<1>2. Spec => [][Reserves]_vars
  BY <1>1, Inductive, PTL DEF Spec
<1> QED
  BY <1>2 DEF Reserves, ReservesFree
=============================================================================
