-------------------------- MODULE KoiContextProofs --------------------------
(***************************************************************************)
(* Proofs about KoiContext, for any number of remotes and connections, any *)
(* number of requests and datagrams, and, unless a theorem assumes         *)
(* otherwise, every set of callbacks that call Disconnect.                 *)
(***************************************************************************)
EXTENDS KoiContext, TLAPS

ConnType ==
  [side : {"none", "self", "peer"},
   st : {"none", "opened", "started", "connected", "ended", "closed"},
   of : Opt(Remote)]

ReqType == [from : Opt(Remote), kind : Kind \cup {"none"}, matching : BOOLEAN]

LEMMA InitTypeOK == Init => TypeOK
<1> SUFFICES ASSUME Init PROVE TypeOK
  OBVIOUS
<1>1. ctx \in Context
  BY ContextAssumption DEF Init, Context, Opt
<1>2. at \in [Thread -> Place] /\ ret \in [Thread -> {"idle", "tell", "close"}]
  BY DEF Init, Place
<1>3. req \in [Creator -> ReqType] /\ conns \in [ConnId -> ConnType]
  BY DEF Init, NoRequest, NoConnection, ReqType, ConnType, Opt
<1>4. left \in [requests : Nat, datagrams : Nat]
  BY ContextAssumption DEF Init
<1> QED BY <1>1, <1>2, <1>3, <1>4 DEF Init, TypeOK, Opt, ReqType, ConnType

LEMMA LeaveTypes ==
  ASSUME TypeOK, NEW t \in Thread, Leave(t)
  PROVE  /\ at' \in [Thread -> Place]
         /\ creation' \in Opt(Thread) /\ modify' \in Opt(Thread)
         /\ recv' \in Opt(Thread) /\ strm' \in Opt(Thread)
         /\ req' \in [Creator -> ReqType]
<1>1. at' \in [Thread -> Place]
  BY DEF TypeOK, Leave, Go, Place
<1>2. /\ creation' \in Opt(Thread) /\ modify' \in Opt(Thread)
      /\ recv' \in Opt(Thread) /\ strm' \in Opt(Thread)
  BY DEF TypeOK, Leave, Released, Opt
<1>3. NoRequest \in ReqType
  BY DEF NoRequest, ReqType, Opt
<1>4. req' \in [Creator -> ReqType]
  BY <1>3 DEF TypeOK, Leave, ReqType
<1> QED
  BY <1>1, <1>2, <1>4

LEMMA GoTypes ==
  ASSUME TypeOK, NEW t \in Thread, NEW p \in Place, Go(t, p)
  PROVE  at' \in [Thread -> Place]
  BY DEF TypeOK, Go

LEMMA ResetTypes ==
  ASSUME TypeOK, NEW t \in Thread, Reset(t)
  PROVE  TypeOK'
<1>1. CASE DropHandles(t)
  <2>1. at' \in [Thread -> Place]
    BY <1>1, GoTypes DEF DropHandles, Place
  <2>2. ctx' \in Context
    BY <1>1 DEF DropHandles, TypeOK, Context, Opt
  <2>3. down' \subseteq ConnId
    BY <1>1 DEF DropHandles, TypeOK, Context, Opt, Dropped
  <2> QED
    BY <1>1, <2>1, <2>2, <2>3 DEF DropHandles, TypeOK, lockVars
<1>2. CASE ForgetChannel(t)
  BY <1>2, GoTypes DEF ForgetChannel, TypeOK, Context, lockVars, Place
<1>3. CASE ForgetRemote(t)
  BY <1>3, GoTypes DEF ForgetRemote, TypeOK, Context, Opt, lockVars, Place
<1>4. CASE ForgetBegin(t)
  BY <1>4, GoTypes DEF ForgetBegin, TypeOK, Context, lockVars, Place
<1>5. CASE ForgetPorts(t)
  <2>1. ret[t] \in Place
    BY DEF TypeOK, Place
  <2>2. CASE ret[t] = "idle"
    BY <1>5, <2>2, LeaveTypes DEF ForgetPorts, TypeOK, Context, Opt, ReqType
  <2>3. CASE ret[t] = "tell"
    BY <1>5, <2>1, <2>3, GoTypes
    DEF ForgetPorts, TypeOK, Context, Opt, Stay, lockVars
  <2>4. CASE ret[t] = "close"
    BY <1>5, <2>1, <2>4, GoTypes
    DEF ForgetPorts, TypeOK, Context, Opt, Released
  <2> QED BY <1>5, <2>2, <2>3, <2>4 DEF ForgetPorts
<1> QED BY <1>1, <1>2, <1>3, <1>4, <1>5 DEF Reset

LEMMA CreateTypes ==
  ASSUME TypeOK, NEW t \in Creator, Create(t)
  PROVE  TypeOK'
<1> t \in Thread
  BY DEF Thread
<1>r. req[t] \in ReqType /\ req[t].from \in Opt(Remote)
  BY DEF TypeOK, ReqType
<1>1. CASE Scan(t)
  <2>1. CASE modify = Nobody /\ (ctx.remote = req[t].from \/ Empty)
    <3>a. PICK m \in BOOLEAN : req' = [req EXCEPT ![t].matching = m]
      BY <1>1, <2>1, Zenon DEF Scan
    <3>1. req' \in [Creator -> ReqType]
      BY <3>a, <1>r DEF TypeOK, ReqType
    <3>2. at' \in [Thread -> Place]
      BY <1>1, <2>1, GoTypes DEF Scan, Place
    <3> QED BY <1>1, <2>1, <3>1, <3>2 DEF Scan, TypeOK, lockVars, ReqType
  <2>2. CASE ~(modify = Nobody /\ (ctx.remote = req[t].from \/ Empty))
    BY <1>1, <2>2, LeaveTypes DEF Scan, TypeOK, ReqType
  <2> QED BY <2>1, <2>2
<1>2. CASE Decide(t)
  <2>1. CASE Leave(t)
    BY <1>2, <2>1, LeaveTypes DEF Decide, TypeOK, ReqType
  <2>2. CASE ~Leave(t)
    <3>1. PICK p \in {"reserve", "first", "second", "open"} : Go(t, p) /\ Stay
      BY <1>2, <2>2 DEF Decide
    <3>2. at' \in [Thread -> Place]
      BY <3>1, GoTypes DEF Place
    <3> QED BY <1>2, <3>1, <3>2 DEF Decide, TypeOK, Stay, lockVars
  <2> QED BY <2>1, <2>2
<1>3. CASE SaveFirst(t)
  BY <1>3, <1>r, GoTypes DEF SaveFirst, TypeOK, Context, lockVars, Place
<1>4. CASE AnswerFirst(t)
  <2>1. CASE ctx.begin
    BY <1>4, <2>1, LeaveTypes DEF AnswerFirst, TypeOK, ReqType
  <2>2. CASE ~ctx.begin
    BY <1>4, <2>2, GoTypes DEF AnswerFirst, TypeOK, Stay, lockVars, Place
  <2> QED BY <2>1, <2>2
<1>5. CASE ReservePorts(t)
  <2>1. CASE Leave(t) /\ UNCHANGED ctx
    BY <1>5, <2>1, LeaveTypes DEF ReservePorts, TypeOK, ReqType
  <2>2. CASE Go(t, "reserved") /\ Stay /\ ctx' = [ctx EXCEPT !.local = TRUE]
    BY <1>5, <2>2, GoTypes DEF ReservePorts, TypeOK, Context, Stay, lockVars, Place
  <2> QED BY <1>5, <2>1, <2>2 DEF ReservePorts
<1>6. CASE BeginHandshake(t)
  BY <1>6, GoTypes DEF BeginHandshake, TypeOK, Context, lockVars, Place
<1>7. CASE SaveRemote(t)
  BY <1>7, <1>r, LeaveTypes DEF SaveRemote, TypeOK, Context, ReqType
<1>8. CASE SaveSecond(t)
  BY <1>8, <1>r, GoTypes DEF SaveSecond, TypeOK, Context, lockVars, Place
<1>9. CASE Open(t)
  <2>1. CASE Leave(t) /\ UNCHANGED <<ctx, conns>>
    BY <1>9, <2>1, LeaveTypes DEF Open, TypeOK, ReqType
  <2>2. ASSUME NEW c \in NextConn,
               conns' = [conns EXCEPT ![c] =
                 [side |-> "self", st |-> "opened", of |-> req[t].from]],
               ctx' = [ctx EXCEPT !.self = c],
               Go(t, "accept"), Stay
        PROVE  TypeOK'
    <3>1. c \in ConnId
      BY DEF NextConn
    <3>2. conns' \in [ConnId -> ConnType]
      BY <2>2, <3>1, <1>r DEF TypeOK, ConnType
    <3>3. at' \in [Thread -> Place]
      BY <2>2, GoTypes DEF Place
    <3>4. ctx' \in Context
      BY <2>2, <3>1 DEF TypeOK, Context, Opt
    <3> QED BY <1>9, <2>2, <3>2, <3>3, <3>4 DEF Open, TypeOK, ConnType, Stay, lockVars
  <2> QED BY <1>9, <2>1, <2>2 DEF Open
<1>10. CASE Accept(t)
  BY <1>10, GoTypes, ZenonT(30) DEF Accept, BeginReset, TypeOK, Context, lockVars, Place
<1>11. CASE CheckAccepted(t)
  BY <1>11, GoTypes DEF CheckAccepted, BeginReset, TypeOK, lockVars, Place
<1>12. CASE StartConnection(t)
  <2>1. conns' \in [ConnId -> ConnType]
    BY <1>12 DEF StartConnection, TypeOK, Context, Opt, ConnType
  <2> QED BY <1>12, <2>1, LeaveTypes DEF StartConnection, TypeOK, ConnType, ReqType
<1> QED
  BY <1>1, <1>2, <1>3, <1>4, <1>5, <1>6, <1>7, <1>8, <1>9, <1>10, <1>11, <1>12
  DEF Create

LEMMA RequestTypes ==
  ASSUME TypeOK, NEW t \in Creator, NEW r \in Remote, NEW k \in Kind,
         BeginRequest(t, r, k)
  PROVE  TypeOK'
<1> t \in Thread
  BY DEF Thread
<1>1. req' \in [Creator -> ReqType]
  BY DEF BeginRequest, TypeOK, ReqType, Opt
<1>2. at' \in [Thread -> Place]
  BY GoTypes DEF BeginRequest, Place
<1>3. creation' \in Opt(Thread)
  BY DEF BeginRequest, LockCreation, Opt
<1> QED BY <1>1, <1>2, <1>3 DEF BeginRequest, TypeOK, ReqType

LEMMA CallTypes ==
  ASSUME TypeOK,
         \/ DoCheck \/ TellExpired \/ BeginDisconnect \/ ExpireContext
         \/ CopyHandles \/ DropCopies \/ \E t \in Thread : Disconnect(t)
  PROVE  TypeOK'
<1> {"app", "daemon", "sender"} \subseteq Thread
  BY DEF Thread, Creator
<1>1. CASE DoCheck
  <2>1. PICK r \in {"idle", "tell"} : BeginReset("daemon", r)
    BY <1>1 DEF DoCheck
  <2> QED BY <1>1, <2>1, GoTypes DEF DoCheck, BeginReset, TypeOK, Place, Opt
<1>2. CASE TellExpired
  <2>1. CASE Leave("daemon")
    BY <1>2, <2>1, LeaveTypes DEF TellExpired, TypeOK, ReqType
  <2>2. CASE Go("daemon", "disconnect") /\ Stay
    BY <1>2, <2>2, GoTypes DEF TellExpired, TypeOK, Stay, lockVars, Place
  <2> QED BY <1>2, <2>1, <2>2 DEF TellExpired, EndCallback
<1>3. CASE BeginDisconnect
  BY <1>3, GoTypes DEF BeginDisconnect, TypeOK, lockVars, Place
<1>4. CASE ExpireContext
  BY <1>4 DEF ExpireContext, TypeOK, Context, lockVars
<1>5. CASE CopyHandles
  BY <1>5, GoTypes DEF CopyHandles, TypeOK, Context, Opt, lockVars, Place
<1>6. CASE DropCopies
  BY <1>6, GoTypes DEF DropCopies, TypeOK, lockVars, Place
<1>7. ASSUME NEW t \in Thread, Disconnect(t) PROVE TypeOK'
  BY <1>7, GoTypes DEF Disconnect, BeginReset, TypeOK, Place, Opt
<1> QED BY <1>1, <1>2, <1>3, <1>4, <1>5, <1>6, <1>7

LEMMA EventTypes ==
  ASSUME TypeOK, NEW c \in ConnId, QuicEvent(c) \/ Work(c)
  PROVE  TypeOK'
<1> c \in Thread
  BY DEF Thread
<1>c. conns[c] \in ConnType /\ ctx \in Context
  BY DEF TypeOK, ConnType
<1>1. ASSUME NEW r \in Remote, NewConnection(c, r) PROVE TypeOK'
  <2>1. PICK st \in {"started", "closed"} :
          conns' = [conns EXCEPT ![c] = [side |-> "peer", st |-> st, of |-> r]]
    BY <1>1 DEF NewConnection
  <2>2. conns' \in [ConnId -> ConnType]
    BY <2>1 DEF TypeOK, ConnType, Opt
  <2>3. ctx' \in Context /\ down' \subseteq ConnId
    BY <1>1, <1>c DEF NewConnection, TypeOK, Context, Opt, Dropped
  <2> QED BY <1>1, <2>2, <2>3 DEF NewConnection, TypeOK, ConnType, lockVars
<1>2. CASE Connected(c)
  <2>1. conns' \in [ConnId -> ConnType]
    BY <1>2, <1>c DEF Connected, TypeOK, ConnType
  <2>2. (ctx.refs + 1) % RefMod \in 0 .. RefMod - 1
    BY <1>c, ContextAssumption DEF Context
  <2>3. ctx' \in Context
    BY <1>2, <1>c, <2>2 DEF Connected, Context, Incr
  <2> QED BY <1>2, <2>1, <2>3 DEF Connected, TypeOK, ConnType, lockVars
<1>3. CASE ShutdownComplete(c)
  <2> DEFINE x == CleanSide(ctx, c, Decr(ctx.refs))
  <2>1. conns' \in [ConnId -> ConnType]
    BY <1>3, <1>c DEF ShutdownComplete, TypeOK, ConnType
  <2>2. Decr(ctx.refs) \in 0 .. RefMod - 1
    BY <1>c, ContextAssumption DEF Context, Decr
  <2>3. x \in Context
    BY <1>c DEF CleanSide, Context, Opt
  <2>4. ctx' \in Context
    BY <1>3, <2>2, <2>3 DEF ShutdownComplete, Context
  <2>5. down' \subseteq ConnId
    BY <1>3, <1>c DEF ShutdownComplete, Dropped, TypeOK, Context, Opt
  <2>6. at' \in [Thread -> Place]
    BY <1>3, GoTypes DEF ShutdownComplete, Place
  <2> QED BY <1>3, <2>1, <2>4, <2>5, <2>6 DEF ShutdownComplete, TypeOK, ConnType, Opt
<1>4. CASE DatagramReceived(c)
  <2>1. PICK p \in {"handles", "receive"} : Go(c, p)
    BY <1>4 DEF DatagramReceived, BeginReset
  <2>2. at' \in [Thread -> Place]
    BY <2>1, GoTypes DEF Place
  <2> QED BY <1>4, <2>2 DEF DatagramReceived, BeginReset, TypeOK, Opt
<1>5. CASE Goodbye(c)
  BY <1>5, GoTypes DEF Goodbye, BeginReset, TypeOK, lockVars, Place
<1>6. CASE Close(c)
  <2>1. conns' \in [ConnId -> ConnType]
    BY <1>6, <1>c DEF Close, TypeOK, ConnType
  <2> QED BY <1>6, <2>1, LeaveTypes DEF Close, TypeOK, ConnType, ReqType
<1>7. CASE EndReceive(c)
  <2>1. CASE Leave(c)
    BY <1>7, <2>1, LeaveTypes DEF EndReceive, TypeOK, ReqType
  <2>2. CASE Go(c, "disconnect") /\ Stay
    BY <1>7, <2>2, GoTypes DEF EndReceive, TypeOK, Stay, lockVars, Place
  <2> QED BY <1>7, <2>1, <2>2 DEF EndReceive, EndCallback
<1>8. CASE StreamReceive(c)
  <2>1. PICK p \in {"handles", "stream"} : Go(c, p)
    BY <1>8 DEF StreamReceive, BeginReset
  <2>2. at' \in [Thread -> Place]
    BY <2>1, GoTypes DEF Place
  <2> QED BY <1>8, <2>2 DEF StreamReceive, BeginReset, TypeOK, lockVars
<1>9. CASE LockStream(c)
  BY <1>9, GoTypes DEF LockStream, TypeOK, Opt, Place
<1>10. CASE ReadStream(c)
  <2>1. CASE Leave(c) /\ UNCHANGED ret
    BY <1>10, <2>1, LeaveTypes DEF ReadStream, TypeOK, ReqType
  <2>2. ASSUME NEW p \in {"disconnect", "loop"}, Go(c, p), Stay, UNCHANGED ret
        PROVE  TypeOK'
    BY <1>10, <2>2, GoTypes DEF ReadStream, TypeOK, Stay, lockVars, Place
  <2>3. CASE BeginReset(c, "idle") /\ Stay
    BY <1>10, <2>3, GoTypes DEF ReadStream, BeginReset, TypeOK, Stay, lockVars, Place
  <2> QED BY <1>10, <2>1, <2>2, <2>3 DEF ReadStream, EndCallback
<1> QED
  BY <1>1, <1>2, <1>3, <1>4, <1>5, <1>6, <1>7, <1>8, <1>9, <1>10 DEF QuicEvent, Work

\* The actions of Next, one level down.
LEMMA Steps ==
  ASSUME Next
  PROVE  \/ \E t \in Thread : Reset(t)
         \/ \E t \in Creator : Create(t)
         \/ \E t \in Creator, r \in Remote, k \in Kind : BeginRequest(t, r, k)
         \/ DoCheck \/ TellExpired \/ BeginDisconnect \/ ExpireContext
         \/ CopyHandles \/ DropCopies \/ \E t \in Thread : Disconnect(t)
         \/ \E c \in ConnId : QuicEvent(c) \/ Work(c)
<1>1. ASSUME NEW r \in Remote, ConnectTo(r)
      PROVE  \E t \in Creator, s \in Remote, k \in Kind : BeginRequest(t, s, k)
  BY <1>1 DEF ConnectTo, Creator, Kind
<1>2. ASSUME NEW r \in Remote, NEW k \in Kind, ReceivePacket(r, k)
      PROVE  \E t \in Creator, s \in Remote, l \in Kind : BeginRequest(t, s, l)
  BY <1>2 DEF ReceivePacket, Creator
<1> QED BY <1>1, <1>2 DEF Next, GoOn

LEMMA NextTypeOK == TypeOK /\ [Next]_vars => TypeOK'
<1> SUFFICES ASSUME TypeOK, [Next]_vars PROVE TypeOK'
  OBVIOUS
<1>1. CASE UNCHANGED vars
  BY <1>1 DEF vars, lockVars, TypeOK
<1>2. CASE Next
  BY <1>2, Steps, ResetTypes, CreateTypes, RequestTypes, CallTypes, EventTypes
<1> QED BY <1>1, <1>2

(***************************************************************************)
(* Every variable keeps its type; in particular RefCount stays a number of *)
(* its width, whatever order CONNECTED and SHUTDOWN_COMPLETE come in.      *)
(***************************************************************************)
THEOREM TypeCorrect == Spec => []TypeOK
  BY InitTypeOK, NextTypeOK, PTL DEF Spec

-----------------------------------------------------------------------------
(***************************************************************************)
(* Who works on a request holds connCtxCreationMutex.                      *)
(***************************************************************************)
CreationHeld ==
  \A t \in Creator : at[t] \in {"scan", "found"} \cup AtWork => creation = t

\* A step that is thread u's own
StepOf(u) ==
  \/ Reset(u) \/ Disconnect(u)
  \/ u \in Creator /\ (Create(u) \/ \E r \in Remote, k \in Kind : BeginRequest(u, r, k))
  \/ u = "daemon" /\ (DoCheck \/ TellExpired)
  \/ u = "app" /\ BeginDisconnect
  \/ u = "sender" /\ (CopyHandles \/ DropCopies)
  \/ u \in ConnId /\ (QuicEvent(u) \/ Work(u))

LEMMA StepsOfThreads ==
  ASSUME Next
  PROVE  ExpireContext \/ \E u \in Thread : StepOf(u)
<1>1. \E u \in {"app", "daemon", "sender"} \cup Creator \cup ConnId : u \in Thread
  BY DEF Thread, Creator
<1> QED BY <1>1, Steps DEF StepOf, Thread, Creator

LEMMA CreateElsewhere ==
  ASSUME TypeOK, NEW u \in Creator, Create(u)
  PROVE  /\ \A t \in Thread \ {u} : at'[t] = at[t]
         /\ creation' = creation \/ creation = u
<1> u \in Thread
  BY DEF Thread
<1> USE DEF TypeOK, Go, Leave, Released, Stay, lockVars, BeginReset
<1>1. CASE Scan(u) BY <1>1 DEF Scan
<1>2. CASE Decide(u) BY <1>2 DEF Decide
<1>3. CASE SaveFirst(u) BY <1>3 DEF SaveFirst
<1>4. CASE AnswerFirst(u) BY <1>4 DEF AnswerFirst
<1>5. CASE ReservePorts(u) BY <1>5 DEF ReservePorts
<1>6. CASE BeginHandshake(u) BY <1>6 DEF BeginHandshake
<1>7. CASE SaveRemote(u) BY <1>7 DEF SaveRemote
<1>8. CASE SaveSecond(u) BY <1>8 DEF SaveSecond
<1>9. CASE Open(u) BY <1>9 DEF Open
<1>10. CASE Accept(u) BY <1>10 DEF Accept
<1>11. CASE CheckAccepted(u) BY <1>11 DEF CheckAccepted
<1>12. CASE StartConnection(u) BY <1>12 DEF StartConnection
<1> QED
  BY <1>1, <1>2, <1>3, <1>4, <1>5, <1>6, <1>7, <1>8, <1>9, <1>10, <1>11, <1>12
  DEF Create

LEMMA Elsewhere ==
  ASSUME TypeOK, NEW u \in Thread, StepOf(u)
  PROVE  /\ \A t \in Thread \ {u} : at'[t] = at[t]
         /\ creation' = creation \/ creation \in {u, Nobody}
<1> USE DEF TypeOK, Go, Leave, Released, Stay, lockVars, BeginReset
<1>1. CASE Reset(u)
  BY <1>1 DEF Reset, DropHandles, ForgetChannel, ForgetRemote, ForgetBegin, ForgetPorts
<1>2. CASE Disconnect(u)
  BY <1>2 DEF Disconnect
<1>3. CASE u \in Creator /\ Create(u)
  BY <1>3, CreateElsewhere
<1>4. ASSUME NEW r \in Remote, NEW k \in Kind, BeginRequest(u, r, k)
      PROVE  (\A t \in Thread \ {u} : at'[t] = at[t]) /\ creation = Nobody
  BY <1>4 DEF BeginRequest, LockCreation
<1>5. CASE u = "daemon" /\ (DoCheck \/ TellExpired)
  BY <1>5 DEF DoCheck, TellExpired, EndCallback
<1>6. CASE u = "app" /\ BeginDisconnect
  BY <1>6 DEF BeginDisconnect
<1>7. CASE u = "sender" /\ (CopyHandles \/ DropCopies)
  BY <1>7 DEF CopyHandles, DropCopies
<1>8. CASE u \in ConnId /\ QuicEvent(u)
  BY <1>8 DEF QuicEvent, NewConnection, Connected, ShutdownComplete, DatagramReceived,
     StreamReceive
<1>9. CASE u \in ConnId /\ Work(u)
  BY <1>9 DEF Work, Goodbye, Close, EndReceive, EndCallback, LockStream, ReadStream
<1> QED BY <1>1, <1>2, <1>3, <1>4, <1>5, <1>6, <1>7, <1>8, <1>9 DEF StepOf

\* A creator that is at work after its step was so, or has just begun.
LEMMA StillHeld ==
  ASSUME TypeOK, CreationHeld, NEW u \in Creator, StepOf(u),
         at'[u] \in {"scan", "found"} \cup AtWork
  PROVE  creation' = u
<1> u \in Thread
  BY DEF Thread
<1>u. u \notin ConnId /\ u # "daemon" /\ u # "sender"
  BY ContextAssumption DEF Creator
<1> USE DEF TypeOK, Go, Leave, Released, Stay, lockVars, BeginReset, AtWork, CreationHeld
<1>1. CASE Reset(u)
  BY <1>1 DEF Reset, DropHandles, ForgetChannel, ForgetRemote, ForgetBegin, ForgetPorts
<1>2. CASE Disconnect(u)
  BY <1>2 DEF Disconnect
<1>3. CASE Create(u)
  <2>1. at[u] \in {"scan", "found"} \cup AtWork
    BY <1>3 DEF Create, Scan, Decide, SaveFirst, AnswerFirst, ReservePorts,
         BeginHandshake, SaveRemote, SaveSecond, Open, Accept, CheckAccepted,
         StartConnection
  <2>2. creation = u /\ ~Leave(u)
    BY <2>1
  <2> QED
    BY <1>3, <2>2
    DEF Create, Scan, Decide, SaveFirst, AnswerFirst, ReservePorts, BeginHandshake,
        SaveRemote, SaveSecond, Open, Accept, CheckAccepted, StartConnection
<1>4. ASSUME NEW r \in Remote, NEW k \in Kind, BeginRequest(u, r, k)
      PROVE  creation' = u
  BY <1>4 DEF BeginRequest, LockCreation
<1>6. CASE u = "app" /\ BeginDisconnect
  BY <1>6 DEF BeginDisconnect
<1> QED BY <1>u, <1>1, <1>2, <1>3, <1>4, <1>6 DEF StepOf

LEMMA NextCreationHeld ==
  ASSUME TypeOK, CreationHeld, [Next]_vars
  PROVE  CreationHeld'
<1>1. CASE UNCHANGED vars
  BY <1>1 DEF vars, lockVars, CreationHeld
<1>2. CASE ExpireContext
  BY <1>2 DEF ExpireContext, lockVars, CreationHeld
<1>3. ASSUME NEW u \in Thread, StepOf(u) PROVE CreationHeld'
  <2> SUFFICES ASSUME NEW t \in Creator, at'[t] \in {"scan", "found"} \cup AtWork
               PROVE  creation' = t
    BY DEF CreationHeld
  <2>1. CASE t = u
    BY <1>3, <2>1, StillHeld
  <2>2. CASE t # u
    <3>1. creation = t
      BY <1>3, <2>2, Elsewhere DEF CreationHeld, Thread
    <3>2. t # Nobody
      BY ContextAssumption DEF Creator
    <3> QED BY <1>3, <2>2, <3>1, <3>2, Elsewhere
  <2> QED BY <2>1, <2>2
<1> QED BY <1>1, <1>2, <1>3, StepsOfThreads

\* Only the end of a reservation gives the context to a remote.
LEMMA RemoteChanges ==
  ASSUME TypeOK, NEW u \in Thread, StepOf(u)
  PROVE  \/ ctx'.remote \in {ctx.remote, Nobody}
         \/ u \in Creator /\ SaveRemote(u)
<1> USE DEF TypeOK, Context
<1>1. CASE Reset(u)
  BY <1>1 DEF Reset, DropHandles, ForgetChannel, ForgetRemote, ForgetBegin, ForgetPorts
<1>2. CASE Disconnect(u)
  BY <1>2 DEF Disconnect
<1>3. CASE u \in Creator /\ Create(u)
  BY <1>3 DEF Create, Scan, Decide, SaveFirst, AnswerFirst, ReservePorts,
     BeginHandshake, SaveSecond, Open, Accept, CheckAccepted, StartConnection
<1>4. ASSUME NEW r \in Remote, NEW k \in Kind, BeginRequest(u, r, k)
      PROVE  ctx' = ctx
  BY <1>4 DEF BeginRequest
<1>5. CASE u = "daemon" /\ (DoCheck \/ TellExpired)
  BY <1>5 DEF DoCheck, TellExpired
<1>6. CASE u = "app" /\ BeginDisconnect
  BY <1>6 DEF BeginDisconnect
<1>7. CASE u = "sender" /\ (CopyHandles \/ DropCopies)
  BY <1>7 DEF CopyHandles, DropCopies
<1>8. CASE u \in ConnId /\ QuicEvent(u)
  BY <1>8 DEF QuicEvent, NewConnection, Connected, ShutdownComplete, CleanSide,
     DatagramReceived, StreamReceive
<1>9. CASE u \in ConnId /\ Work(u)
  BY <1>9 DEF Work, Goodbye, Close, EndReceive, LockStream, ReadStream
<1> QED BY <1>1, <1>2, <1>3, <1>4, <1>5, <1>6, <1>7, <1>8, <1>9 DEF StepOf

LEMMA NextNotGivenAway ==
  ASSUME TypeOK, CreationHeld, [Next]_vars,
         NEW t \in Creator, at[t] \in AtWork, at'[t] \in AtWork
  PROVE  ctx'.remote \in {ctx.remote, Nobody}
<1>1. CASE UNCHANGED vars
  BY <1>1 DEF vars
<1>2. CASE ExpireContext
  BY <1>2 DEF ExpireContext, TypeOK, Context
<1>3. ASSUME NEW u \in Creator, SaveRemote(u) PROVE FALSE
  <2>1. creation = u /\ creation = t
    BY <1>3 DEF SaveRemote, CreationHeld, AtWork
  <2>2. at'[u] = "idle"
    BY <1>3 DEF SaveRemote, Leave, Go, TypeOK, Thread
  <2> QED BY <2>1, <2>2 DEF AtWork
<1> QED BY <1>1, <1>2, <1>3, StepsOfThreads, RemoteChanges

(***************************************************************************)
(* A context is not given away under a request that is worked on, by       *)
(* however many threads and remotes it is asked for (NotGivenAway).        *)
(***************************************************************************)
THEOREM ContextNotGivenAway == Spec => NotGivenAway
<1>1. Init => CreationHeld
  BY DEF Init, CreationHeld, AtWork, Thread
<1>2. TypeOK /\ CreationHeld /\ [Next]_vars => CreationHeld'
  BY NextCreationHeld
<1>3. TypeOK /\ CreationHeld /\ [Next]_vars
      => [\A t \in Creator :
            at[t] \in AtWork /\ at'[t] \in AtWork
            => ctx'.remote \in {ctx.remote, Nobody}]_vars
  BY NextNotGivenAway
<1> QED BY <1>1, <1>2, <1>3, TypeCorrect, PTL DEF Spec, NotGivenAway

-----------------------------------------------------------------------------
(***************************************************************************)
(* A handle is where its side belongs, and is gone once its connection has *)
(* ended; whoever is about to close a connection has seen it end.          *)
(***************************************************************************)
Over == {"ended", "closed"}

HandlesRight ==
  /\ ctx.self # Nobody => conns[ctx.self].side = "self" /\ conns[ctx.self].st \notin Over
  /\ ctx.peer # Nobody => conns[ctx.peer].side = "peer" /\ conns[ctx.peer].st \notin Over

InReset == {"handles", "unhandled", "unowned", "remoteless", "unbegun"}

Closing(c) ==
  at[c] \in {"goodbye", "close"} \/ (at[c] \in InReset /\ ret[c] = "close")

ClosesEnded == \A c \in ConnId : Closing(c) => conns[c].st = "ended"

HInv == HandlesRight /\ ClosesEnded

\* A step that makes and ends no connection, and at most drops handles.
Quiet ==
  /\ conns' = conns
  /\ ctx'.self \in {ctx.self, Nobody} /\ ctx'.peer \in {ctx.peer, Nobody}
  /\ \A c \in ConnId : Closing(c)' => Closing(c)

LEMMA QuietHInv == HInv /\ Quiet => HInv'
  BY DEF HInv, HandlesRight, ClosesEnded, Quiet, Closing

LEMMA QuietCreate ==
  ASSUME TypeOK, NEW t \in Creator, Create(t), ~Open(t), ~StartConnection(t)
  PROVE  Quiet
<1> \A c \in ConnId : c \in Thread /\ c # t
  BY ContextAssumption DEF Creator, Thread
<1> USE DEF TypeOK, Context, Quiet, Closing, InReset, Go, Leave, BeginReset
<1>1. CASE Scan(t) BY <1>1 DEF Scan
<1>2. CASE Decide(t) BY <1>2 DEF Decide
<1>3. CASE SaveFirst(t) BY <1>3 DEF SaveFirst
<1>4. CASE AnswerFirst(t) BY <1>4 DEF AnswerFirst
<1>5. CASE ReservePorts(t) BY <1>5 DEF ReservePorts
<1>6. CASE BeginHandshake(t) BY <1>6 DEF BeginHandshake
<1>7. CASE SaveRemote(t) BY <1>7 DEF SaveRemote
<1>8. CASE SaveSecond(t) BY <1>8 DEF SaveSecond
<1>10. CASE Accept(t) BY <1>10 DEF Accept
<1>11. CASE CheckAccepted(t) BY <1>11 DEF CheckAccepted
<1> QED
  BY <1>1, <1>2, <1>3, <1>4, <1>5, <1>6, <1>7, <1>8, <1>10, <1>11 DEF Create

LEMMA QuietReset ==
  ASSUME TypeOK, NEW t \in Thread, Reset(t)
  PROVE  Quiet
<1> ConnId \subseteq Thread
  BY DEF Thread
<1> USE DEF TypeOK, Context, Quiet, Closing, InReset, Go, Leave
<1>1. CASE DropHandles(t) BY <1>1 DEF DropHandles
<1>2. CASE ForgetChannel(t) BY <1>2 DEF ForgetChannel
<1>3. CASE ForgetRemote(t) BY <1>3 DEF ForgetRemote
<1>4. CASE ForgetBegin(t) BY <1>4 DEF ForgetBegin
<1>5. CASE ForgetPorts(t)
  <2>1. \A c \in ConnId \ {t} : at'[c] = at[c] /\ ret'[c] = ret[c]
    BY <1>5 DEF ForgetPorts
  <2>2. at'[t] = ret[t] /\ ret'[t] = "idle"
    BY <1>5 DEF ForgetPorts
  <2>3. ret[t] \in {"idle", "tell", "close"}
    OBVIOUS
  <2> QED BY <1>5, <2>1, <2>2, <2>3 DEF ForgetPorts
<1> QED BY <1>1, <1>2, <1>3, <1>4, <1>5 DEF Reset

LEMMA QuietCall ==
  ASSUME TypeOK,
         \/ DoCheck \/ TellExpired \/ BeginDisconnect \/ ExpireContext
         \/ CopyHandles \/ DropCopies \/ \E t \in Thread : Disconnect(t)
  PROVE  Quiet
<1> \A c \in ConnId : c \in Thread /\ c \notin {"daemon", "app", "sender"}
  BY ContextAssumption DEF Thread
<1> {"daemon", "app", "sender"} \subseteq Thread
  BY DEF Thread, Creator
<1> USE DEF TypeOK, Context, Quiet, Closing, InReset, Go, Leave, BeginReset
<1>1. CASE DoCheck BY <1>1 DEF DoCheck
<1>2. CASE TellExpired BY <1>2 DEF TellExpired, EndCallback
<1>3. CASE BeginDisconnect BY <1>3 DEF BeginDisconnect
<1>4. CASE ExpireContext BY <1>4 DEF ExpireContext
<1>5. CASE CopyHandles BY <1>5 DEF CopyHandles
<1>6. CASE DropCopies BY <1>6 DEF DropCopies
<1>7. ASSUME NEW t \in Thread, Disconnect(t) PROVE Quiet
  BY <1>7 DEF Disconnect
<1> QED BY <1>1, <1>2, <1>3, <1>4, <1>5, <1>6, <1>7

LEMMA OpenHInv ==
  ASSUME TypeOK, HInv, NEW t \in Creator, Open(t) \/ StartConnection(t)
  PROVE  HInv'
<1> \A c \in ConnId : c \in Thread /\ c # t
  BY ContextAssumption DEF Creator, Thread
<1>a. \A c \in ConnId : Closing(c)' = Closing(c)
  BY DEF Open, StartConnection, Closing, InReset, Go, Leave, TypeOK
<1>n. Nobody \notin ConnId
  BY ContextAssumption
<1>1. CASE Open(t) /\ UNCHANGED <<ctx, conns>>
  BY <1>1, <1>a DEF HInv, HandlesRight, ClosesEnded
<1>2. ASSUME NEW c \in NextConn,
             conns' = [conns EXCEPT ![c] =
               [side |-> "self", st |-> "opened", of |-> req[t].from]],
             ctx' = [ctx EXCEPT !.self = c]
      PROVE  HInv'
  <2>1. c \in ConnId /\ conns[c] = NoConnection
    BY DEF NextConn
  <2>2. ctx.peer # c
    BY <2>1, <1>n DEF HInv, HandlesRight, NoConnection
  <2>3. ~Closing(c)
    BY <2>1 DEF HInv, ClosesEnded, NoConnection
  <2>4. ctx'.self = c /\ ctx'.peer = ctx.peer /\ ctx.peer \in Opt(ConnId)
    BY <1>2 DEF TypeOK, Context
  <2>5. conns'[c].side = "self" /\ conns'[c].st = "opened"
    BY <1>2, <2>1 DEF TypeOK
  <2>6. \A d \in ConnId \ {c} : conns'[d] = conns[d]
    BY <1>2 DEF TypeOK
  <2>7. HandlesRight'
    BY <2>2, <2>4, <2>5, <2>6 DEF HInv, HandlesRight, Over, Opt
  <2>8. ClosesEnded'
    BY <2>3, <2>6, <1>a DEF HInv, ClosesEnded
  <2> QED BY <2>7, <2>8 DEF HInv
<1>3. CASE StartConnection(t)
  <2> DEFINE c == ctx.self
  <2>1. CASE c = Nobody
    BY <1>3, <2>1, <1>a DEF StartConnection, HInv, HandlesRight, ClosesEnded
  <2>2. CASE c # Nobody
    <3>1. c \in ConnId /\ ctx.peer \in Opt(ConnId)
      BY <2>2 DEF TypeOK, Context, Opt
    <3>2. conns'[c].side = conns[c].side /\ conns'[c].st = "started"
      BY <1>3, <2>2, <3>1 DEF StartConnection, TypeOK
    <3>3. \A d \in ConnId \ {c} : conns'[d] = conns[d]
      BY <1>3, <2>2 DEF StartConnection, TypeOK
    <3>4. ~Closing(c)
      BY <2>2, <3>1 DEF HInv, HandlesRight, ClosesEnded, Over
    <3>5. ctx' = ctx
      BY <1>3 DEF StartConnection
    <3> QED
      BY <3>1, <3>2, <3>3, <3>4, <3>5, <1>a
      DEF HInv, HandlesRight, ClosesEnded, Over, Opt
  <2> QED BY <2>1, <2>2
<1> QED BY <1>1, <1>2, <1>3 DEF Open

LEMMA EventHInv ==
  ASSUME TypeOK, HInv, ~ConfigMayFail, NEW c \in ConnId, QuicEvent(c) \/ Work(c)
  PROVE  HInv'
<1>n. Nobody \notin ConnId /\ ConnId \subseteq Thread
  BY ContextAssumption DEF Thread
<1>c. ctx.self \in Opt(ConnId) /\ ctx.peer \in Opt(ConnId)
  BY DEF TypeOK, Context
<1>1. ASSUME NEW r \in Remote, NewConnection(c, r) PROVE HInv'
  <2>1. conns[c] = NoConnection /\ at' = at /\ ret' = ret
    BY <1>1 DEF NewConnection, NextConn
  <2>2. conns' = [conns EXCEPT ![c] = [side |-> "peer", st |-> "started", of |-> r]]
    BY <1>1 DEF NewConnection
  <2>3. ctx'.peer = c /\ ctx'.self = ctx.self
    BY <1>1 DEF NewConnection, TypeOK, Context
  <2>4. ctx.self # c /\ ~Closing(c)
    BY <2>1, <1>n DEF HInv, HandlesRight, ClosesEnded, NoConnection
  <2>5. conns'[c].side = "peer" /\ conns'[c].st = "started"
    BY <2>2 DEF TypeOK
  <2>6. \A d \in ConnId \ {c} : conns'[d] = conns[d]
    BY <2>2 DEF TypeOK
  <2>7. HandlesRight'
    BY <2>3, <2>4, <2>5, <2>6, <1>c DEF HInv, HandlesRight, Over, Opt
  <2>8. ClosesEnded'
    BY <2>1, <2>4, <2>6 DEF HInv, ClosesEnded, Closing, InReset
  <2> QED BY <2>7, <2>8 DEF HInv
<1>2. CASE Connected(c)
  <2>1. at' = at /\ ret' = ret /\ ctx'.self = ctx.self /\ ctx'.peer = ctx.peer
    BY <1>2 DEF Connected, TypeOK, Context
  <2>2. conns'[c].side = conns[c].side /\ conns'[c].st = "connected"
    BY <1>2 DEF Connected, TypeOK
  <2>3. \A d \in ConnId \ {c} : conns'[d] = conns[d]
    BY <1>2 DEF Connected, TypeOK
  <2>4. ~Closing(c)
    BY <1>2 DEF Connected, HInv, ClosesEnded
  <2>5. HandlesRight'
    BY <2>1, <2>2, <2>3, <1>c DEF HInv, HandlesRight, Over, Opt
  <2>6. ClosesEnded'
    BY <2>1, <2>3, <2>4 DEF HInv, ClosesEnded, Closing, InReset
  <2> QED BY <2>5, <2>6 DEF HInv
<1>3. CASE ShutdownComplete(c)
  <2> DEFINE x == CleanSide(ctx, c, Decr(ctx.refs))
  <2>1. conns'[c].side = conns[c].side /\ conns'[c].st = "ended"
    BY <1>3 DEF ShutdownComplete, TypeOK
  <2>2. \A d \in ConnId \ {c} : conns'[d] = conns[d]
    BY <1>3 DEF ShutdownComplete, TypeOK
  <2>g. \E p : at' = [at EXCEPT ![c] = p]
    BY <1>3 DEF ShutdownComplete, Go
  <2>3. /\ ret' = ret
        /\ \A d \in ConnId \ {c} : at'[d] = at[d]
    <3>1. PICK p : at' = [at EXCEPT ![c] = p]
      BY <2>g
    <3>2. ret' = ret
      BY <1>3 DEF ShutdownComplete
    <3> QED
      BY <3>1, <3>2, <1>c DEF TypeOK
  <2>4. x \in Context
    BY <1>c DEF CleanSide, TypeOK, Context, Opt
  <2>a. ctx'.self = x.self /\ ctx'.peer = x.peer
    BY <1>3, <2>4 DEF ShutdownComplete, Context
  <2>5. /\ ctx'.self = IF conns[c].side = "self" THEN Nobody ELSE ctx.self
        /\ ctx'.peer = IF conns[c].side = "self" THEN ctx.peer ELSE Nobody
    BY <2>a DEF CleanSide, TypeOK, Context
  <2>6. ctx'.self # c /\ ctx'.peer # c
    BY <2>5, <1>n DEF HInv, HandlesRight
  <2>7. HandlesRight'
    BY <2>2, <2>5, <2>6, <1>c DEF HInv, HandlesRight, Opt
  <2>8. ClosesEnded'
    BY <2>1, <2>2, <2>3 DEF HInv, ClosesEnded, Closing, InReset
  <2> QED BY <2>7, <2>8 DEF HInv
<1>4. CASE DatagramReceived(c)
  <2>1. Quiet
    BY <1>4, <1>n DEF DatagramReceived, Quiet, Closing, InReset, Go, BeginReset, TypeOK
  <2> QED BY <2>1, QuietHInv
<1>5. CASE Goodbye(c)
  <2>1. Quiet
    BY <1>5, <1>n DEF Goodbye, Quiet, Closing, InReset, Go, BeginReset, TypeOK
  <2> QED BY <2>1, QuietHInv
<1>6. CASE Close(c)
  <2>1. conns[c].st = "ended"
    BY <1>6 DEF Close, HInv, ClosesEnded, Closing, InReset
  <2>2. ctx.self # c /\ ctx.peer # c
    BY <2>1, <1>n DEF HInv, HandlesRight, Over
  <2>3. \A d \in ConnId \ {c} : conns'[d] = conns[d]
    BY <1>6 DEF Close, TypeOK
  <2>4. at'[c] = "idle" /\ ret' = ret /\ \A d \in ConnId \ {c} : at'[d] = at[d]
    BY <1>6, <1>n DEF Close, Leave, Go, TypeOK
  <2>5. ctx' = ctx
    BY <1>6 DEF Close
  <2>6. HandlesRight'
    BY <2>2, <2>3, <2>5, <1>c DEF HInv, HandlesRight, Opt
  <2>7. ClosesEnded'
    BY <2>3, <2>4 DEF HInv, ClosesEnded, Closing, InReset
  <2> QED BY <2>6, <2>7 DEF HInv
<1>7. CASE EndReceive(c)
  <2>1. Quiet
    BY <1>7, <1>n DEF EndReceive, EndCallback, Quiet, Closing, InReset, Go, Leave, TypeOK
  <2> QED BY <2>1, QuietHInv
<1>8. CASE StreamReceive(c)
  <2>1. Quiet
    BY <1>8, <1>n DEF StreamReceive, Quiet, Closing, InReset, Go, BeginReset, TypeOK
  <2> QED BY <2>1, QuietHInv
<1>9. CASE LockStream(c)
  <2>1. Quiet
    BY <1>9, <1>n DEF LockStream, Quiet, Closing, InReset, Go, TypeOK
  <2> QED BY <2>1, QuietHInv
<1>10. CASE ReadStream(c)
  <2>1. Quiet
    BY <1>10, <1>n
    DEF ReadStream, EndCallback, Quiet, Closing, InReset, Go, Leave, BeginReset, TypeOK
  <2> QED BY <2>1, QuietHInv
<1> QED
  BY <1>1, <1>2, <1>3, <1>4, <1>5, <1>6, <1>7, <1>8, <1>9, <1>10 DEF QuicEvent, Work

LEMMA NextHInv ==
  ASSUME TypeOK, HInv, ~ConfigMayFail, [Next]_vars
  PROVE  HInv'
<1>1. CASE UNCHANGED vars
  BY <1>1 DEF vars, HInv, HandlesRight, ClosesEnded, Closing
<1>2. ASSUME NEW t \in Thread, Reset(t) PROVE HInv'
  BY <1>2, QuietReset, QuietHInv
<1>3. ASSUME NEW t \in Creator, Create(t) PROVE HInv'
  BY <1>3, QuietCreate, OpenHInv, QuietHInv
<1>4. ASSUME NEW t \in Creator, NEW r \in Remote, NEW k \in Kind, BeginRequest(t, r, k)
      PROVE  HInv'
  <2>1. \A c \in ConnId : c # t /\ c \in Thread
    BY ContextAssumption DEF Creator, Thread
  <2>2. \A c \in ConnId : at'[c] = at[c]
    BY <1>4, <2>1 DEF BeginRequest, Go, TypeOK
  <2>3. Quiet
    BY <1>4, <2>2 DEF BeginRequest, Quiet, Closing
  <2> QED BY <2>3, QuietHInv
<1>5. CASE \/ DoCheck \/ TellExpired \/ BeginDisconnect \/ ExpireContext
           \/ CopyHandles \/ DropCopies \/ \E t \in Thread : Disconnect(t)
  BY <1>5, QuietCall, QuietHInv
<1>6. ASSUME NEW c \in ConnId, QuicEvent(c) \/ Work(c) PROVE HInv'
  BY <1>6, EventHInv
<1> QED BY <1>1, <1>2, <1>3, <1>4, <1>5, <1>6, Steps

(***************************************************************************)
(* When no ConnectionSetConfiguration fails, no closed connection is       *)
(* reached through the context, however resets without ModifyMutex, late   *)
(* events and new connections come to be interleaved.                      *)
(***************************************************************************)
THEOREM ClosedNeverHeld ==
  ASSUME ~ConfigMayFail
  PROVE  Spec => []ContextHoldsOnlyOpen
<1>1. Init => HInv
  BY DEF Init, HInv, HandlesRight, ClosesEnded, Closing, InReset, Thread
<1>2. TypeOK /\ HInv /\ [Next]_vars => HInv'
  BY NextHInv
<1>3. HInv => ContextHoldsOnlyOpen
  BY DEF HInv, HandlesRight, Over, ContextHoldsOnlyOpen
<1> QED BY <1>1, <1>2, <1>3, TypeCorrect, PTL DEF Spec

-----------------------------------------------------------------------------
(***************************************************************************)
(* Where the holder of a lock is: with connCtxCreationMutex anywhere in a  *)
(* request, with ModifyMutex in a Reset, before it or after it, with       *)
(* Unreliable.RecvMutex in OnUnreliableReceive, and with that of a         *)
(* reliable channel in the RECEIVE handler, or at the first step of a      *)
(* Reset, without ModifyMutex, which is where it stays.                    *)
(***************************************************************************)
WithModify == InReset \cup {"tell", "goodbye"}

HoldersAt ==
  /\ creation # Nobody => creation \in Creator /\ at[creation] # "idle"
  /\ modify # Nobody => at[modify] \in WithModify
  /\ recv # Nobody => at[recv] = "receive"
  /\ strm # Nobody =>
       /\ strm \in ConnId /\ strm # modify
       /\ at[strm] \in {"read", "loop", "handles"}

\* A thread locks for itself only, unlocks what is its own, and does so at the
\* latest when it is done.
OwnLocks(u) ==
  /\ \/ creation' = creation /\ creation # u
     \/ creation' = Nobody
     \/ creation' = u /\ u \in Creator /\ at'[u] # "idle"
  /\ \/ modify' = modify /\ modify # u
     \/ modify' = Nobody
     \/ modify' = u /\ at'[u] \in WithModify
  /\ \/ recv' = recv /\ recv # u
     \/ recv' = Nobody
     \/ recv' = u /\ at'[u] = "receive"
  /\ \/ strm' = strm /\ strm # u
     \/ strm' = Nobody
     \/ /\ strm' = u /\ u \in ConnId /\ modify' = modify /\ modify # u
        /\ at'[u] \in {"read", "loop", "handles"}

LEMMA LeaveLocks ==
  ASSUME NEW u \in Thread, Leave(u)
  PROVE  OwnLocks(u)
  BY DEF Leave, Released, OwnLocks

LEMMA CreateLocks ==
  ASSUME TypeOK, HoldersAt, NEW u \in Creator, Create(u)
  PROVE  OwnLocks(u)
<1> u \in Thread
  BY DEF Thread
<1>1. /\ at[u] \notin WithModify \cup {"receive"}
      /\ modify # u /\ recv # u /\ strm # u
  <2>1. at[u] \notin WithModify \cup {"receive"}
    BY DEF Create, Scan, Decide, SaveFirst, AnswerFirst, ReservePorts, BeginHandshake,
           SaveRemote, SaveSecond, Open, Accept, CheckAccepted, StartConnection,
           WithModify, InReset
  <2>2. u # Nobody
    BY ContextAssumption DEF Creator
  <2>3. u \notin ConnId
    BY ContextAssumption DEF Creator
  <2> QED
    BY <2>1, <2>2, <2>3 DEF HoldersAt
<1>2. CASE Leave(u)
  BY <1>2, LeaveLocks
<1>3. CASE ~Leave(u)
  <2>1. UNCHANGED lockVars /\ at'[u] # "idle"
    <3> USE DEF TypeOK, Go, Stay, BeginReset
    <3>1. CASE Scan(u) BY <1>3, <3>1 DEF Scan
    <3>2. CASE Decide(u) BY <1>3, <3>2 DEF Decide
    <3>3. CASE SaveFirst(u) BY <3>3 DEF SaveFirst
    <3>4. CASE AnswerFirst(u) BY <1>3, <3>4 DEF AnswerFirst
    <3>5. CASE ReservePorts(u) BY <1>3, <3>5 DEF ReservePorts
    <3>6. CASE BeginHandshake(u) BY <3>6 DEF BeginHandshake
    <3>7. CASE SaveRemote(u) BY <1>3, <3>7 DEF SaveRemote
    <3>8. CASE SaveSecond(u) BY <3>8 DEF SaveSecond
    <3>9. CASE Open(u) BY <1>3, <3>9 DEF Open
    <3>10. CASE Accept(u) BY <3>10 DEF Accept
    <3>11. CASE CheckAccepted(u) BY <3>11 DEF CheckAccepted
    <3>12. CASE StartConnection(u) BY <1>3, <3>12 DEF StartConnection
    <3> QED
      BY <3>1, <3>2, <3>3, <3>4, <3>5, <3>6, <3>7, <3>8, <3>9, <3>10, <3>11, <3>12
      DEF Create
  <2> QED
    BY <1>1, <2>1 DEF lockVars, OwnLocks
<1> QED
  BY <1>2, <1>3

LEMMA ResetLocks ==
  ASSUME TypeOK, HoldersAt, NEW u \in Thread, Reset(u)
  PROVE  OwnLocks(u)
<1>1. u # Nobody /\ at[u] \in InReset
  BY ContextAssumption
  DEF Thread, Creator, Reset, DropHandles, ForgetChannel, ForgetRemote, ForgetBegin,
      ForgetPorts, InReset
<1>2. recv # u /\ strm # u
  <2>1. at[u] = "handles" => strm = Nobody
    BY DEF Reset, DropHandles, ForgetChannel, ForgetRemote, ForgetBegin, ForgetPorts
  <2> QED
    BY <1>1, <2>1 DEF HoldersAt, InReset
<1>3. CASE UNCHANGED lockVars /\ at'[u] \in WithModify
  BY <1>1, <1>2, <1>3 DEF lockVars, OwnLocks, HoldersAt, WithModify, InReset
<1>4. CASE Leave(u)
  BY <1>4, LeaveLocks
<1>5. CASE /\ at'[u] = "close" /\ modify' = Released(modify, u)
           /\ UNCHANGED <<creation, recv, strm>>
  BY <1>1, <1>2, <1>5 DEF Released, OwnLocks, HoldersAt, InReset
<1>6. \/ UNCHANGED lockVars /\ at'[u] \in WithModify
      \/ Leave(u)
      \/ /\ at'[u] = "close" /\ modify' = Released(modify, u)
         /\ UNCHANGED <<creation, recv, strm>>
  <2> USE DEF TypeOK, Go, Stay, WithModify, InReset
  <2>1. CASE DropHandles(u) BY <2>1 DEF DropHandles
  <2>2. CASE ForgetChannel(u) BY <2>2 DEF ForgetChannel
  <2>3. CASE ForgetRemote(u) BY <2>3 DEF ForgetRemote
  <2>4. CASE ForgetBegin(u) BY <2>4 DEF ForgetBegin
  <2>5. CASE ForgetPorts(u)
    BY <2>5 DEF ForgetPorts, lockVars
  <2> QED
    BY <2>1, <2>2, <2>3, <2>4, <2>5 DEF Reset
<1> QED
  BY <1>3, <1>4, <1>5, <1>6

LEMMA EventLocks ==
  ASSUME TypeOK, HoldersAt, CallsBack = {}, NEW c \in ConnId, QuicEvent(c) \/ Work(c)
  PROVE  OwnLocks(c)
<1> c \in Thread
  BY DEF Thread
<1>n. c # Nobody /\ c \notin Creator /\ creation # c
  BY ContextAssumption DEF Creator, HoldersAt
<1>1. ASSUME NEW r \in Remote, NewConnection(c, r) PROVE OwnLocks(c)
  BY <1>n, <1>1 DEF NewConnection, lockVars, OwnLocks, HoldersAt
<1>2. CASE Connected(c)
  BY <1>n, <1>2 DEF Connected, lockVars, OwnLocks, HoldersAt
<1>3. CASE ShutdownComplete(c)
  <2>1. /\ at[c] = "idle" /\ UNCHANGED <<creation, recv, strm>>
        /\ modify' = modify \/ (modify' = c /\ at'[c] = "goodbye")
    BY <1>3 DEF ShutdownComplete, Go, TypeOK
  <2> QED
    BY <1>n, <2>1 DEF OwnLocks, HoldersAt, WithModify, InReset
<1>4. CASE DatagramReceived(c)
  <2>1. /\ at[c] = "idle" /\ UNCHANGED <<creation, modify, strm>>
        /\ recv' = recv \/ (recv' = c /\ at'[c] = "receive")
    BY <1>4 DEF DatagramReceived, Go, TypeOK
  <2> QED
    BY <1>n, <2>1 DEF OwnLocks, HoldersAt, WithModify, InReset
<1>5. CASE Goodbye(c)
  <2>1. at[c] = "goodbye" /\ at'[c] = "handles" /\ UNCHANGED lockVars
    BY <1>5 DEF Goodbye, BeginReset, Go, TypeOK
  <2> QED
    BY <1>n, <2>1 DEF lockVars, OwnLocks, HoldersAt, WithModify, InReset
<1>6. CASE Close(c)
  BY <1>6, LeaveLocks DEF Close
<1>7. CASE EndReceive(c)
  BY <1>7, LeaveLocks DEF EndReceive, EndCallback
<1>8. CASE StreamReceive(c)
  <2>1. at[c] = "idle" /\ UNCHANGED lockVars
    BY <1>8 DEF StreamReceive
  <2> QED
    BY <1>n, <2>1 DEF lockVars, OwnLocks, HoldersAt, WithModify, InReset
<1>9. CASE LockStream(c)
  <2>1. /\ at[c] = "stream" /\ at'[c] = "read" /\ strm' = c
        /\ UNCHANGED <<creation, modify, recv>>
    BY <1>9 DEF LockStream, Go, TypeOK
  <2> QED
    BY <1>n, <2>1 DEF OwnLocks, HoldersAt, WithModify, InReset
<1>10. CASE ReadStream(c)
  <2>1. CASE Leave(c)
    BY <2>1, LeaveLocks
  <2>2. CASE ~Leave(c)
    <3>1. /\ at[c] = "read" /\ at'[c] \in {"loop", "handles"}
          /\ UNCHANGED lockVars
      BY <1>10, <2>2 DEF ReadStream, EndCallback, BeginReset, Stay, Go, TypeOK
    <3>2. modify # c /\ recv # c
      BY <1>n, <3>1 DEF HoldersAt, WithModify, InReset
    <3> QED
      BY <1>n, <3>1, <3>2 DEF lockVars, OwnLocks
  <2> QED
    BY <2>1, <2>2
<1> QED
  BY <1>1, <1>2, <1>3, <1>4, <1>5, <1>6, <1>7, <1>8, <1>9, <1>10 DEF QuicEvent, Work

LEMMA StepLocks ==
  ASSUME TypeOK, HoldersAt, CallsBack = {}, NEW u \in Thread, StepOf(u)
  PROVE  OwnLocks(u)
<1>n. u # Nobody
  BY ContextAssumption DEF Thread, Creator
<1>1. CASE Disconnect(u)
  <2>1. /\ at[u] = "disconnect" /\ at'[u] = "handles" /\ modify' = u
        /\ UNCHANGED <<creation, recv, strm>>
    BY <1>1 DEF Disconnect, BeginReset, Go, TypeOK
  <2> QED
    BY <1>n, <2>1 DEF OwnLocks, HoldersAt, WithModify, InReset
<1>2. ASSUME u \in Creator, NEW r \in Remote, NEW k \in Kind, BeginRequest(u, r, k)
      PROVE  OwnLocks(u)
  <2>1. /\ at[u] = "idle" /\ at'[u] = "scan" /\ creation' = u
        /\ UNCHANGED <<modify, recv, strm>>
    BY <1>2 DEF BeginRequest, LockCreation, Go, TypeOK
  <2> QED
    BY <1>n, <1>2, <2>1 DEF OwnLocks, HoldersAt, WithModify, InReset
<1>3. CASE u = "daemon" /\ DoCheck
  <2>1. /\ at[u] = "idle" /\ at'[u] = "handles" /\ modify' = u
        /\ UNCHANGED <<creation, recv, strm>>
    BY <1>3 DEF DoCheck, BeginReset, Go, TypeOK
  <2> QED
    BY <1>n, <2>1 DEF OwnLocks, HoldersAt, WithModify, InReset
<1>4. CASE u = "daemon" /\ TellExpired
  BY <1>4, LeaveLocks DEF TellExpired, EndCallback
<1>5. CASE u = "app" /\ BeginDisconnect
  <2>1. at[u] = "idle" /\ at'[u] = "disconnect" /\ UNCHANGED lockVars
    BY <1>5 DEF BeginDisconnect, Go, TypeOK
  <2> QED
    BY <1>n, <2>1 DEF lockVars, OwnLocks, HoldersAt, WithModify, InReset
<1>6. CASE u = "sender" /\ (CopyHandles \/ DropCopies)
  <2>1. at[u] \in {"idle", "send"} /\ UNCHANGED lockVars /\ u \notin Creator
    BY <1>6 DEF CopyHandles, DropCopies, Creator
  <2> QED
    BY <1>n, <2>1 DEF lockVars, OwnLocks, HoldersAt, WithModify, InReset
<1> QED
  BY <1>1, <1>2, <1>3, <1>4, <1>5, <1>6, ResetLocks, CreateLocks, EventLocks DEF StepOf

LEMMA NextHoldersAt ==
  ASSUME TypeOK, HoldersAt, CallsBack = {}, [Next]_vars
  PROVE  HoldersAt'
<1>1. CASE UNCHANGED vars
  BY <1>1 DEF vars, lockVars, HoldersAt
<1>2. CASE ExpireContext
  BY <1>2 DEF ExpireContext, lockVars, HoldersAt
<1>3. ASSUME NEW u \in Thread, StepOf(u) PROVE HoldersAt'
  <2>1. OwnLocks(u) /\ \A t \in Thread \ {u} : at'[t] = at[t]
    BY <1>3, StepLocks, Elsewhere
  <2>2. {creation, modify, recv, strm} \subseteq Opt(Thread)
    BY DEF TypeOK
  <2> QED
    BY <2>1, <2>2 DEF OwnLocks, HoldersAt, Opt
<1> QED
  BY <1>1, <1>2, <1>3, StepsOfThreads

(***************************************************************************)
(* As long as no callback calls Disconnect no threads wait in a circle but *)
(* a RECEIVE handler behind a gap, which waits for itself, and none is     *)
(* done with a mutex locked: every chain of waits ends within three        *)
(* threads, at one that can go on or at a RECEIVE handler that does not    *)
(* end (the locks of koisession.h and koichan.h).                          *)
(***************************************************************************)
THEOREM NoCircle ==
  ASSUME CallsBack = {}
  PROVE  Spec => []WaitsEnd
<1>1. Init => HoldersAt
  BY DEF Init, HoldersAt
<1>2. TypeOK /\ HoldersAt /\ [Next]_vars => HoldersAt'
  BY NextHoldersAt
<1>3. TypeOK /\ HoldersAt => WaitsEnd
  <2> SUFFICES ASSUME TypeOK, HoldersAt PROVE WaitsEnd
    OBVIOUS
  <2>1. recv # Nobody => EndOfWaits(recv)
    BY DEF HoldersAt, WaitsFor, EndOfWaits
  <2>2. strm # Nobody => EndOfWaits(strm)
    BY DEF HoldersAt, WaitsFor, EndOfWaits, LockedOut
  <2>3. modify # Nobody => WaitsFor(modify) \in {recv, strm, Nobody}
    BY DEF HoldersAt, WithModify, InReset, WaitsFor
  <2>4. \A t \in Thread : WaitsFor(t) \in {modify, recv, strm, Nobody}
    BY DEF WaitsFor
  <2>5. \A u \in {creation, modify, recv, strm} \ {Nobody} : at[u] # "idle"
    BY DEF HoldersAt, WithModify, InReset
  <2>6. ASSUME NEW t \in Thread
        PROVE  \/ EndOfWaits(t)
               \/ EndOfWaits(WaitsFor(t))
               \/ EndOfWaits(WaitsFor(WaitsFor(t)))
    <3>1. CASE WaitsFor(t) = Nobody
      BY <3>1 DEF EndOfWaits
    <3>2. CASE WaitsFor(t) # Nobody /\ WaitsFor(t) = modify
      <4>1. CASE WaitsFor(modify) = Nobody
        BY <3>2, <4>1 DEF EndOfWaits
      <4>2. CASE WaitsFor(modify) # Nobody
        <5>1. EndOfWaits(WaitsFor(modify))
          BY <2>1, <2>2, <2>3, <3>2, <4>2
        <5> QED
          BY <3>2, <5>1
      <4> QED
        BY <4>1, <4>2
    <3>3. CASE WaitsFor(t) # Nobody /\ WaitsFor(t) \in {recv, strm}
      BY <2>1, <2>2, <3>3
    <3> QED
      BY <2>4, <3>1, <3>2, <3>3
  <2> QED
    BY <2>5, <2>6 DEF WaitsEnd
<1> QED
  BY <1>1, <1>2, <1>3, TypeCorrect, PTL DEF Spec
=============================================================================
