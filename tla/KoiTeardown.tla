---------------------------- MODULE KoiTeardown -----------------------------
(***************************************************************************)
(* The start and the end of a KoiSession.  Start brings up the sentinel,   *)
(* the listener and the daemon thread one after the other, each of which   *)
(* works as soon as it is there.  The destructor stops the daemon through  *)
(* a condition variable, then goes through the slots, drops what each one  *)
(* holds and waits for its RefCount, and at last destroys the members, the *)
(* sentinel and the contexts among them.  Until then the sentinel's thread *)
(* goes on with handshakes; MsQuic's workers report to a context as long   *)
(* as one of its connections is not shut down.                             *)
(*                                                                         *)
(* What goes on in a handshake is left to KoiHandshake: here a slot begins *)
(* one, gets a connection from it, or gives it up.                         *)
(***************************************************************************)
EXTENDS Integers, FiniteSets

CONSTANTS
  NumSlots,         \* maxConnections
  ConnId,           \* QUIC connections; every one is opened once
  RefMod,           \* RefCount counts modulo this (2^32 in the code)
  LatePackets,      \* whether packets arrive while the destructor runs
  StartMayFail,     \* whether a part of Start may fail
  CloseWakes,       \* whether closing a socket ends a recvfrom on it
  SpuriousWakeups   \* whether wait_for may return without a notification

Slot == 1 .. NumSlots

ASSUME TeardownAssumption ==
  /\ NumSlots \in Nat \ {0}
  /\ RefMod \in Nat /\ RefMod > 2
  /\ ConnId \cap {0} = {}
  /\ LatePackets \in BOOLEAN /\ SpuriousWakeups \in BOOLEAN
  /\ StartMayFail \in BOOLEAN /\ CloseWakes \in BOOLEAN

VARIABLES
  owner,   \* where the thread that owns the session is
  at,      \* the slot its destructor is at
  listener,\* the listener is started
  daemon,  \* where the daemon thread is
  checked, \* the slot it checks
  shakes,  \* shakes[i]: HandshakeBegin of slot i is set
  refs,    \* refs[i]: RefCount of slot i
  conns    \* conns[c]: slot, side and state of a connection, and whether
           \* its context still holds its handle

contextVars == <<shakes, refs, conns>>
vars == <<owner, at, listener, daemon, checked, contextVars>>

NoConnection == [slot |-> 0, side |-> "none", st |-> "none", held |-> FALSE]
State == {"none", "started", "connected", "closed", "failed"}

Live(c) == conns[c].st \in {"started", "connected"}
HeldBy(i) == {c \in ConnId : conns[c].slot = i /\ conns[c].held}

Init ==
  /\ owner = "off" /\ at = 1 /\ listener = FALSE /\ daemon = "off" /\ checked = 1
  /\ shakes = [i \in Slot |-> FALSE] /\ refs = [i \in Slot |-> 0]
  /\ conns = [c \in ConnId |-> NoConnection]

\* ConnectionContext::Reset: the handles of slot i are dropped.
Drop(i) == [c \in ConnId |-> IF conns[c].slot = i
                               THEN [conns[c] EXCEPT !.held = FALSE]
                               ELSE conns[c]]
-----------------------------------------------------------------------------
(***************************************************************************)
(* Start, part by part; after a failure it may be called again.  A part    *)
(* that fails closes the sentinel's socket, and leaves the listener.       *)
(***************************************************************************)
BindSentinel ==
  /\ owner = "off" /\ owner' = "bound"
  /\ UNCHANGED <<at, listener, daemon, checked, contextVars>>

\* A listener of an earlier Start that failed goes when this one replaces it.
OpenListener ==
  /\ owner = "bound"
  /\ \/ owner' = "listens" /\ listener' = TRUE
     \/ StartMayFail /\ owner' = "off" /\ UNCHANGED listener
  /\ UNCHANGED <<at, daemon, checked, contextVars>>

\* From here on the sentinel's thread runs.
RegisterConsumer ==
  /\ owner = "listens"
  /\ owner' = "hears" \/ (StartMayFail /\ owner' = "off")
  /\ UNCHANGED <<at, listener, daemon, checked, contextVars>>

\* appContext, then pSession of every slot
SetContext ==
  /\ owner \in {"hears", "equipped"}
  /\ owner' = IF owner = "hears" THEN "equipped" ELSE "linked"
  /\ UNCHANGED <<at, listener, daemon, checked, contextVars>>

StartDaemon ==
  /\ owner = "linked"
  /\ owner' = "running" /\ daemon' = "waits"
  /\ UNCHANGED <<at, listener, checked, contextVars>>

Start == BindSentinel \/ OpenListener \/ RegisterConsumer \/ SetContext \/ StartDaemon

(***************************************************************************)
(* The daemon holds stopMutex but in wait_for.                             *)
(***************************************************************************)
TimesOut ==
  /\ daemon \in {"waits", "woken"}
  /\ daemon' = "checks" /\ checked' = 1
  /\ UNCHANGED <<owner, at, listener, shakes, refs, conns>>

\* wait_for returns no_timeout.
Wakes ==
  /\ daemon = "woken" \/ (SpuriousWakeups /\ daemon = "waits")
  /\ daemon' = "stopped"
  /\ UNCHANGED <<owner, at, listener, checked, shakes, refs, conns>>

\* DoCheck of slot i, which a handshake may have timed out in; behind the last
\* slot the daemon waits again.
Check(i) ==
  /\ daemon = "checks" /\ checked = i
  /\ IF i = NumSlots THEN daemon' = "waits" /\ UNCHANGED checked
                     ELSE checked' = i + 1 /\ UNCHANGED daemon
  /\ \/ /\ shakes[i]
        /\ shakes' = [shakes EXCEPT ![i] = FALSE]
        /\ conns' = Drop(i)
     \/ UNCHANGED <<shakes, conns>>
  /\ UNCHANGED <<owner, at, listener, refs>>

-----------------------------------------------------------------------------
Started == owner \in {"hears", "equipped", "linked", "running"}

\* The sentinel's thread runs.
Listening ==
  \/ Started
  \/ LatePackets /\ owner \in {"joining", "resetting", "waiting", "members"}

\* The application has to be asked, and appContext refuses until it is set.
Refuse(i) ==
  /\ Listening
  /\ shakes[i] /\ \E c \in HeldBy(i) : conns[c].side = "self"
  /\ shakes' = [shakes EXCEPT ![i] = FALSE]
  /\ conns' = Drop(i)
  /\ UNCHANGED <<owner, at, listener, daemon, checked, refs>>

\* A first packet, or ConnectTo, takes an empty slot.  (One that has no handshake
\* and holds no connection has no ports.)
BeginHandshake(i) ==
  /\ Listening
  /\ ~shakes[i] /\ refs[i] = 0 /\ HeldBy(i) = {}
  /\ shakes' = [shakes EXCEPT ![i] = TRUE]
  /\ UNCHANGED <<owner, at, listener, daemon, checked, refs, conns>>

\* The listener is destroyed after the sentinel.
Accepting == listener /\ (Listening \/ (LatePackets /\ owner \in {"closing", "joined"}))

\* One connection of either side: StartClient opens a client in a handshake,
\* NEW_CONNECTION brings the peer's as long as the slot knows its ports.
Open(c, i, side) ==
  /\ \/ side = "self" /\ Listening /\ shakes[i]
     \/ side = "peer" /\ Accepting /\ (shakes[i] \/ HeldBy(i) # {})
  /\ conns[c].st = "none"
  /\ \A d \in HeldBy(i) : conns[d].side # side
  /\ conns' = [conns EXCEPT ![c] =
       [slot |-> i, side |-> side, st |-> "started", held |-> TRUE]]
  /\ UNCHANGED <<owner, at, listener, daemon, checked, shakes, refs>>

\* uint32_t arithmetic on RefCount
Incr(n) == (n + 1) % RefMod

\* Mutation of Decr: the count stays.
DecrNot(n) == n

\* Mutation of Decr: it stops at zero.
DecrToZero(n) == IF n = 0 THEN 0 ELSE n - 1

\* Mutation of Decr: a signed counter.
DecrNoWrap(n) == n - 1

Decr(n) == IF n = 0 THEN RefMod - 1 ELSE n - 1

\* QUIC_CONNECTION_EVENT_CONNECTED; what is not accepted is not started.
Connected(c) ==
  LET i == conns[c].slot
  IN /\ conns[c].st = "started" /\ owner # "gone"
     /\ conns[c].side = "self" => owner # "hears"
     /\ conns' = [conns EXCEPT ![c].st = "connected"]
     /\ shakes' = [shakes EXCEPT ![i] = FALSE]
     /\ refs' = [refs EXCEPT ![i] = Incr(@)]
     /\ UNCHANGED <<owner, at, listener, daemon, checked>>

\* QUIC_CONNECTION_EVENT_SHUTDOWN_COMPLETE; the handle of its side is dropped,
\* and the last reference resets the slot.
ShutdownComplete(c) ==
  LET i == conns[c].slot
      n == Decr(refs[i])
      over == IF conns[c].st = "connected" THEN "closed" ELSE "failed"
  IN /\ Live(c) /\ owner # "gone"
     /\ conns' = [d \in ConnId |->
          [conns[d] EXCEPT
             !.st = IF d = c THEN over ELSE @,
             !.held = @ /\ ~(conns[d].slot = i
                             /\ (n = 0 \/ conns[d].side = conns[c].side))]]
     /\ shakes' = [shakes EXCEPT ![i] = @ /\ n # 0]
     /\ refs' = [refs EXCEPT ![i] = n]
     /\ UNCHANGED <<owner, at, listener, daemon, checked>>

-----------------------------------------------------------------------------
(***************************************************************************)
(* ~KoiSession.  The daemon of a session that did not start is not         *)
(* joinable.  A notification wakes the daemon only while it waits; then *)
(* wait_for may still find that it has timed out.                          *)
(***************************************************************************)
SkipJoin ==
  /\ owner = "off"
  /\ owner' = "resetting"
  /\ UNCHANGED <<at, listener, daemon, checked, contextVars>>

Notify ==
  /\ owner = "running"
  /\ owner' = "joining"
  /\ daemon' = IF daemon = "waits" THEN "woken" ELSE daemon
  /\ UNCHANGED <<at, listener, checked, shakes, refs, conns>>

Join ==
  /\ owner = "joining" /\ daemon = "stopped"
  /\ owner' = "resetting" /\ at' = 1
  /\ UNCHANGED <<listener, daemon, checked, shakes, refs, conns>>

Unused(i) == refs[i] = 0

NextSlot(i) ==
  IF i = NumSlots THEN owner' = "members" /\ UNCHANGED at
                  ELSE owner' = "resetting" /\ at' = i + 1

\* The slot's ModifyMutex is taken and the slot reset.
ResetSlot(i) ==
  /\ owner = "resetting" /\ at = i
  /\ shakes' = [shakes EXCEPT ![i] = FALSE]
  /\ conns' = Drop(i)
  /\ IF Unused(i) THEN NextSlot(i)
                  ELSE owner' = "waiting" /\ UNCHANGED at
  /\ UNCHANGED <<listener, daemon, checked, refs>>

\* One look at RefCount after 200 ms of sleep that finds it zero.
WaitIsOver(i) ==
  /\ owner = "waiting" /\ at = i
  /\ Unused(i)
  /\ NextSlot(i)
  /\ UNCHANGED <<listener, daemon, checked, shakes, refs, conns>>

\* The members go in the reverse order of their declarations.
CloseSentinel ==
  /\ owner = "members" /\ owner' = "closing"
  /\ UNCHANGED <<at, listener, daemon, checked, contextVars>>

\* The receive thread, if there is one, finds the socket closed, or comes back
\* from recvfrom with another packet.
JoinSentinel ==
  /\ owner = "closing" /\ owner' = "joined"
  /\ daemon = "off" \/ CloseWakes \/ LatePackets
  /\ UNCHANGED <<at, listener, daemon, checked, contextVars>>

\* ListenerStop, then the contexts
DestroyMembers ==
  /\ owner = "joined"
  /\ owner' = "gone" /\ listener' = FALSE
  /\ shakes' = [i \in Slot |-> FALSE]
  /\ conns' = [c \in ConnId |-> [conns[c] EXCEPT !.held = FALSE]]
  /\ UNCHANGED <<at, daemon, checked, refs>>

-----------------------------------------------------------------------------
Daemon == TimesOut \/ Wakes \/ \E i \in Slot : Check(i)

Destructor == \/ Join \/ CloseSentinel \/ DestroyMembers
              \/ (daemon = "off" \/ CloseWakes) /\ JoinSentinel
              \/ \E i \in Slot : ResetSlot(i) \/ WaitIsOver(i)

Next ==
  \/ Start \/ SkipJoin \/ Notify \/ Daemon \/ Destructor \/ JoinSentinel
  \/ \E i \in Slot : \/ BeginHandshake(i) \/ Refuse(i)
                     \/ \E c \in ConnId, side \in {"self", "peer"} : Open(c, i, side)
  \/ \E c \in ConnId : Connected(c) \/ ShutdownComplete(c)

Spec == Init /\ [][Next]_vars

(***************************************************************************)
(* Threads run on, and MsQuic shuts down a connection that is dropped.     *)
(***************************************************************************)
Fairness ==
  /\ WF_vars(Daemon) /\ WF_vars(Destructor)
  /\ \A c \in ConnId : WF_vars(~conns[c].held /\ ShutdownComplete(c))

FairSpec == Spec /\ Fairness

-----------------------------------------------------------------------------
TypeOK ==
  /\ owner \in {"off", "bound", "listens", "hears", "equipped", "linked", "running",
               "joining", "resetting", "waiting", "members", "closing", "joined", "gone"}
  /\ listener \in BOOLEAN
  /\ at \in Slot
  /\ daemon \in {"off", "waits", "woken", "checks", "stopped"}
  /\ checked \in Slot
  /\ shakes \in [Slot -> BOOLEAN]
  /\ refs \in [Slot -> 0 .. RefMod - 1]
  /\ conns \in [ConnId -> [slot : Slot \cup {0}, side : {"none", "self", "peer"},
                           st : State, held : BOOLEAN]]

\* The connections of slot i, of all its uses, that RefCount should count, and
\* those that ended, or were given up, before they were connected.
Counted(i) == {c \in ConnId : conns[c].slot = i /\ conns[c].st = "connected"}
Failed(i) == {c \in ConnId : conns[c].slot = i /\ conns[c].st = "failed"}
Uncounted(i) == Failed(i) # {}

(***************************************************************************)
(* What a RefCount says, to the number: the connections of the slot that   *)
(* are connected, of either side and of whichever use of the slot, less    *)
(* those that failed, which SHUTDOWN_COMPLETE takes off though CONNECTED   *)
(* never added them; below zero it wraps around.  Neither Reset nor the    *)
(* daemon or the destructor puts it right or disturbs it.                  *)
(***************************************************************************)
CountIsExact ==
  \A i \in Slot :
    refs[i] = (Cardinality(Counted(i)) - Cardinality(Failed(i))) % RefMod

(***************************************************************************)
(* A slot whose RefCount is not zero has a connection whose                *)
(* SHUTDOWN_COMPLETE is still to come, of whichever use of the slot.  So   *)
(* the destructor does not wait for nothing, and a slot is not lost to new *)
(* handshakes (CONNECTED, SHUTDOWN_COMPLETE, Reset, which keeps RefCount). *)
(***************************************************************************)
CountIsTakenBack ==
  \A i \in Slot : refs[i] # 0 =>
    \/ Uncounted(i)
    \/ \E c \in ConnId : conns[c].slot = i /\ conns[c].st = "connected"

(***************************************************************************)
(* Once the daemon is joined the destructor ends: what it waits for it has *)
(* dropped.  Two things may keep it: a RefCount put wrong by a connection  *)
(* that failed, and a packet that came after the slot was reset, for which *)
(* the sentinel's thread let the slot take a connection anew.              *)
(***************************************************************************)
PastJoinEnds ==
  owner = "resetting" ~>
    \/ owner = "gone"
    \/ \E i \in Slot : Uncounted(i)
    \/ owner = "waiting" /\ HeldBy(at) # {}
-----------------------------------------------------------------------------
(***************************************************************************)
(* What comments of the source say and the code does not do.               *)
(***************************************************************************)

\* koisession.h:97: "TODO: We sleep for some time, and wait for potential using
\* have done. It is a workaround."  So when the contexts are gone nobody uses them.
NoneLeft == owner = "gone" => ~ \E c \in ConnId : Live(c)

\* koisession.h:81: "loop to check all ongoing connections, and cancel if
\* times out".  It does so as long as the session is there.
DaemonStays == daemon = "stopped" => owner # "running"

\* TestConnection.cpp:135: "quit    quit this program."  The destructor that
\* runs then does not wait for the daemon forever.
JoinEnds == owner = "joining" ~> owner # "joining"

\* udpsocket.h:219: "close socket first, then wait thread exit".  The thread
\* exits then.
SentinelEnds == owner = "closing" ~> owner # "closing"

\* koichan.h:71, pSession: a handler that needs the session of its context
\* finds it.
SessionIsSet ==
  [][\A c \in ConnId :
       /\ Live(c) /\ conns'[c].st \in {"closed", "failed"}
       /\ refs'[conns[c].slot] = 0
       => owner \notin {"hears", "equipped"}]_vars
=============================================================================
