# KoiSyn in TLA+

KoiSyn is a C++20 peer-to-peer library on top of MsQuic.  Two sessions agree on
UDP ports with a handshake of three small packets, then each opens a QUIC
connection to the other, so that an established pair shares two connections,
and every message goes over both.  This directory holds TLA+ specifications of
its own code (`src/KoiSyn/inc/koisyn/`), the TLC runs that check them on small
instances, and TLAPS proofs.

Line numbers below are those of `koisession.h` (S), `koichan.h` (C),
`shared_handle.h` (H), `udpsocket.h` (U), `checksum.h` (K) and `rpng.h` (R).

## 1. The system

| Component | State | Operations | Interacts with |
|---|---|---|---|
| Connection table (S 65-84, C 67-114) | 16 `ConnectionContext`s: remote sentinel, four ports, `HandshakeBegin`, the transient socket, handles, `RefCount`, `ChannelContext` | `FindMatchingEntry`, `Reset` | shared by every handler below; each context has a `ModifyMutex` |
| UDP handshake (S 179-257, 356-610) | packets under way, sockets of client ports | `ConnectTo`, `Receive1st/2nd/3rd`, `StartClient` | sentinel thread and application threads; MsQuic; `OnAccept` |
| Half-connection daemon (S 259-318) | a thread, a condition variable and its mutex | `CheckHalfConnection`, `DoCheck` | the table, the sentinel, `OnDisconnect` |
| QUIC connection events (S 658-849) | two ends of every connection | `NEW_CONNECTION`, `CONNECTED`, `SHUTDOWN_COMPLETE`, ... on MsQuic's workers | the table, `OnDisconnect` |
| Reliable channels (C 37-59, 167-217; S 805-822, 963-1045) | four per context: two streams, `NextRecvByte`, a buffer, `RecvMutex` | `ReliablePacketSend`, `PEER_STREAM_STARTED`, stream `RECEIVE`, `Reset` | MsQuic, `OnReliableReceive` |
| Unreliable channel (C 14-35, 219-267; S 842-883) | two connections, two packet counters, `RecvMutex` | `UnreliablePacketSend`, `DATAGRAM_RECEIVED`, `Reset` | MsQuic, `OnUnreliableReceive` |
| Send buffers (C 119-125, 275-299; S 885-895, 1047-1053) | `RawBuffer::RefCount` | `MakeBuffer`, the sends, `SEND_COMPLETE`, `DATAGRAM_SEND_STATE_CHANGED` | MsQuic |
| Session start and stop (S 89-170) | sentinel, listener, daemon | `Start`, `~KoiSession` | everything |
| Handles (H) | shared pointers to MsQuic objects | `Open`, `Start`, the deleters | MsQuic |
| UDP sockets (U) | a socket, its receive thread | `Bind`, `SendTo`, `RecvFrom` | the platform |
| Random numbers and checksums (R, K) | `Lcg32::seed`, `Lcg64::seed` | `Next`; `GetChecksum` of integers, ranges and unordered containers | game states that all peers compute |
| Address parser, MsQuic loader, platform sockets | - | conversions and wrappers | - |

What makes it correct, component by component:

- table: a slot serves one remote, is handed out only when free, and is free
  again once its connections are gone;
- handshake: a context works with ports its remote bound for it and with
  connections of its remote; a handshake ends; an established channel is not
  taken back into a handshake, where it would be timed out;
- reliable channels: what was accepted is delivered, whole, once, in order;
- unreliable channel: what is handed over was sent, once, never after a newer
  packet;
- send buffers: deleted when the last user is done, not before, not twice;
- teardown: the destructor ends, and nothing is used after it;
- handles: nothing is closed while it is used, and everything is closed;
- locks: threads do not wait for each other in a circle, and what is written
  without a lock is not given to another remote;
- generators and checksums: they yield the same on every platform.

What is hard: handlers run on the sentinel's thread, on the daemon, on MsQuic's
workers and on threads of the application; packets are lost, repeated and
reordered; a slot is used again while events of its last user are still to
come; two streams carry the same messages at their own pace.  `PROJECT.json`
lists every hazard at its line.

## 2. The modules

| Module | Models | Its state in the code |
|---|---|---|
| `ContextTable` | abstract: what the table promises | `connectionContexts[i].RemoteSentinel` |
| `KoiHandshake` | table, handshake, `DoCheck`, connection events, `Disconnect` | `ctx`: the contexts; `bound`: ports in use; `net`: packets; `conns`: MsQuic's connections; `app`: channels the application knows; `first`: the first packet `Receive1st` is at work on |
| `KoiContext` | one context at the grain of its locks: packets, `ConnectTo`, `StartClient`, `DoCheck`, `Disconnect`, a sender, the events of its connections and of their streams, callbacks | `creation`, `modify`, `recv`, `strm`: the mutexes; `at`, `ret`: where each thread is; `ctx`; `conns`, `copied`, `down`: connections and who holds their handles |
| `MessageChannel` | abstract: a reliable channel | - |
| `KoiReliable` | one direction of one reliable channel | `known`, `sending`: handles and the sender's loop; `out`: streams; `pos`, `ev`: RECEIVE events; `holder`: `RecvMutex`; `vec`, `next`: `Buffer`, `NextRecvByte`; `chan`: how far a `Disconnect` got |
| `KoiStreams` | the streams of one connection at both ends | `starting`: the loop of `StartClient`; `id`: stream ids; `held`: `Reliable[c].Self` or `Peer`; `copy`: a sender's copy; `st`: the handles |
| `PacketChannel` | abstract: an unreliable channel | - |
| `KoiUnreliable` | one direction of the unreliable channel | `nextSend`, `nextRecv`: the counters; `net`: datagrams; `ev`: events |
| `KoiSendBuffer` | the `RawBuffer`s of packets | `refs`: `RefCount`; `to`, `lent`: who still uses the buffer; `frees`: deletions |
| `KoiTeardown` | `Start` part by part, `~KoiSession`, the daemon's condition variable, what goes on meanwhile | `owner`, `at`: the thread that owns the session, and its slot; `listener`; `daemon`, `checked`: the daemon; `shakes`, `refs`, `conns`: the contexts |
| `KoiRandom` | `Lcg32` | `seed` |
| `KoiChecksum` | `Hash64`, `MixValue64`, `GetChecksum` of integers, ranges and unordered containers | no state: operators |
| `KoiGamestate` | generators, a range and a map that two platforms keep | `range`; `order`: the map as each platform iterates over it |
| `KoiHandshakeProofs`, `KoiContextProofs`, `KoiReliableProofs`, `KoiStreamsProofs`, `KoiUnreliableProofs`, `KoiSendBufferProofs`, `KoiTeardownProofs`, `KoiRandomProofs` | theorems | |
| `MC...` | constants for TLC | |

### Grain

In `KoiHandshake` a handler is one step, with everything it does, but for two
places where the code does not hold the lock of the context.  In the scan of
`FindMatchingEntry` the slots in `busy` are locked by others and passed over.
And `Receive1st` is two steps, `ReceiveFirst` and `AnswerFirst`: it holds
`connCtxCreationMutex`, which keeps other packets and `ConnectTo` of its
session out, but not `ModifyMutex`, and tests `HandshakeBegin` at S 395 and
once more at S 467.  The daemon, events of connections, `Disconnect` and all
other sessions may come in between.  That is the grain at which several
sessions, their packets and the reuse of slots can be looked at together.

`KoiContext` looks at one context, between any two accesses of which other
threads may come in: `Receive1st` and `ConnectTo` write without `ModifyMutex`,
`StartClient` goes on after it unlocked, the handlers of what was received
reset without it, and `Reset` itself is five steps.  `Reset` locks the
`RecvMutex` of every channel (C 55, C 30): `strm` stands for those of the four
reliable channels, `recv` for that of the unreliable one.  A RECEIVE handler
holds the former while it works (S 994), loops with it (S 1027) or resets with
it (S 1011).  The ports are abstracted to whose they are.

In the other modules, too, a step is what a thread does between two points
where another may come in: a lock, an unlock, a call of MsQuic, a read and a
write of a variable without a lock.

### What stands for what

- An endpoint is its sentinel address and the port of its listener; a host is
  an IP address.  Ports, connections and endpoints are model values.
- A client port is given out once per host.  The code assumes that nobody
  takes the port between the close of the transient socket and the start of
  the client (S 578-581); reuse of ports over time is left out with it.
- `net` only grows: a packet may be received never, often, and in any order.
  The two-byte packets that open the firewall are left out; nobody reads them.
- `ConnectionShutdown` takes effect later, at `SHUTDOWN_COMPLETE`; a connection
  may end at any time; the client end is `CONNECTED` before the server's.
- `steady_clock` is `age`, a number of ticks; the three timeouts are constants
  with `Retry <= ShortStop <= LongStop`, as 4 s, 12 s and 60 s are.
- `RefCount` and the packet numbers count modulo `RefMod` and `NumMod`.
- The bytes of a message are pairs of the message and an index; four bytes
  that are no header may be read as any length in `GarbledLength`.
- In `KoiStreams` a message that is under way is a member of a set.  The peer
  learns of a stream in the order of the ids, at any time after it was started.
- `KoiRandom` and `KoiChecksum` have the width of numbers as constants.  A range
  is a sequence; a platform keeps words of it in little-endian memory.
- A RECEIVE event of several buffers is several events, which allows the
  other stream to come in between and nothing else.
- In `KoiContext` a RECEIVE handler may find a gap whenever the context has
  dropped its connection (`BehindGap`).  The code finds one only if the stream
  had been read before and the channel was reset, not if NEW_CONNECTION put
  another connection in its place: the model allows more.
- `AnswerFirst` waits when there is no port left and `Bind` does not fail: that
  is the bound on ports, not the code.
- A thread that waits for a mutex it holds, or loops without changing
  anything, is a thread without a next step.

## 3. The runs

`CHECK_DEADLOCK FALSE` is said in every configuration: the inputs are finite,
and a system that was given all of them rests.

| Run | Shows | Bounds |
|---|---|---|
| `Pair` | types, with a `RefCount` that wraps around; every handshake ends | 2 endpoints that both connect, 1 slot, 2 connections, 3 different timeouts, `Bind` may fail |
| `Fan` | genuine ports, right peers, and that `ContextTable` is implemented, when two remotes share a host; a slot is reserved only when nothing of its last user is left in it; an established context goes back into the handshake only by a first packet that met it in its handshake before | 3 endpoints, 2 hosts, 2 slots |
| `Mirror` | types; while the streams mirror each other and nothing is reset they are one `MessageChannel`, wherever events are cut and if one is lost; all is delivered unless an event ended inside a message; nothing is held back once a stream was read to its end; offsets against `NextRecvByte` with a stream that comes late, a `Disconnect` and an application that drops its context | 3 messages of 1, 0 and 1 bytes, headers of 2 bytes |
| `Streams` | types; a message arrives on its channel if all streams below it were started; a stream both ends use stays open; all started ones are closed after the connection | 2 channels, 2 messages, one sender and one `Reset` at either end, `StreamOpen` may fail |
| `Datagrams` | types, with numbers that wrap around; until the receiver resets it the channel is a `PacketChannel` | 1 sender, 5 packets, numbers modulo 4, 2 lossy connections, failing sends |
| `Loans` | buffers are not used after they are deleted, nor deleted twice; one is deleted as soon as nobody needs it any more, and those whose sends succeed and are not cancelled are deleted | 3 packets of both kinds; one may fail, one may be cancelled |
| `Teardown` | types; `RefCount` is the number of connected connections less the failed ones; past the join the destructor ends | 2 slots, 3 connections, parts of `Start` that fail, packets that come late, spurious wakeups |
| `Locks` | types; a context at work on is not given to another remote; no closed connection is reached through it; nobody waits in a circle; who waits forever, and a handshake that lasts, waits for a RECEIVE handler that loops or has locked itself out | 2 remotes, 2 connections, 2 requests of any kind and order, 1 datagram sent or received or RECEIVE event, which may end inside a message, `RefCount` modulo 4 |
| `Numbers` | `Lcg32` is the division it avoids; a range has one checksum at compile time, at run time and in memory; order does not matter to containers | seeds of 6 bits, 33 draws, elements of 4 bits, words of 2 elements, 4 elements, 2 keys, 2 platforms |

Why the bounds are enough: two endpoints and one slot reach every order of
packets, events, timeouts and reuse of a pair; three endpoints on two hosts are
what the comparison of addresses can confuse, two slots are what a scan can
choose between.  (In `Fan` no two sessions call `ConnectTo` for each other with
two slots: that `ConnectTo` and a first packet of one remote share a slot is
shown by the theorem `TableImplemented` alone, which is for all `Wants`.) Three
messages, one of them empty, give events that end in a header, in data and at a
boundary, on either stream ahead of the other.  With two channels the lower
one's stream may be missing, and a `Reset` may be between the two.  The five
packets are one more than there are numbers.  In `Locks` two requests are a
handshake and whatever comes in its way, and two connections are either side,
or one side twice.  Two elements to a word and four elements give full words, a
rest and none; all seeds of a small width are drawn.  The two streams and the
two connections are fixed in number in the code, and here.

What the properties exempt is named in them.  `ChannelWhileMirrored` exempts
streams that carry different bytes (`DocReliable` below) and a channel that was
reset; `DeliveredUnlessLooping` these, and a handler that loops (`DocSplit`);
`PastJoinEnds` a slot whose `RefCount` a failed connection has put wrong
(`DocClean`), and one that took a connection of a late packet after it was
reset, which nobody drops.  `ChannelUntilReset` exempts what a receiver does
after it reset its channel, which starts its numbers anew.  `EstablishedStays`
exempts a first packet that found the context in its handshake, `OwnChannel` a
channel below which a stream was not started, `WaitsEnd`, `NoThreadStuck` and
`HandshakeEnds` of `Locks` a RECEIVE handler that does not end: for each of
them the property without the exemption is among the divergences.

The remaining runs, `Doc...`, each find a comment of the repository contradicted
by what the code does:

| Run | Says | Does |
|---|---|---|
| `DocClean` | S 774 "If both side are closed, we clean the context." | `RefCount` wraps when a connection ends that was not connected |
| `DocReliable` | C 37 "TCP-like channel that is reliable." | a stream that joins late carries other bytes at the same offset |
| `DocSplit` | C 37, as well | a message in two RECEIVE events is never delivered, nor any after it |

### Further divergences

The modules state these too; TLC refutes each when the constants are set as
said.  They are kept out of the runs above.

| Property | Constants | Says | Does |
|---|---|---|---|
| `TransientOnlyBeforeEstablished` | as `DocClean` | C 78 "only available before connection establishing" | the peer's `CONNECTED` before the third packet leaves `Transient` open |
| `OwnHandleOnly` | as `DocClean` | S 752 "We only clean the handles of the side ... this connection represents." | a late event cleans the handle of a new connection |
| `NoTimeoutWhenConnected` | `Fan` | S 394 "already connected and the begin time of handshake was reset" | CONNECTED (S 729) between the two tests of `HandshakeBegin` in `Receive1st`: S 478 sets it again for the established context, which the daemon then resets |
| `UnsetMeansConnectedOrIdle` | `DocClean` | C 74 "(connected or idle)" | a slot is neither: its `RefCount` wrapped (S 775) and is not taken for empty (S 340); or connections of a slot that was reset are still to end; or, with `BindMayFail = TRUE`, a `Bind` failed (S 471) |
| `OneContextPerRemote` | 2 endpoints, 2 slots, 2 client ports, `BusySets <- FirstBusy` | S 321 "If there is an matching entry, return (true, index)." | a locked entry is passed over; the second slot was nobody's (`ReservedFree`) |
| `InOrder` | `Mirror` without cuts and resets, both streams known, `Sender = {t1, t2}` | C 37 "TCP-like channel that is reliable." | two senders fill the streams in different orders |
| `ChannelUntilReset` | `Datagrams`, `Sender = {t1, t2}` | `TestConnection.cpp` 170, 198 send from two threads | `NextSendPacket++` of two threads; with numbers that wrap around, a packet is handed over after a newer one |
| `FreedUnlessLeaked` with nothing exempted | `Loans` | C 194, C 244 "We delete it in the handler of ..." | the reference of a failed send or of a cancelled datagram is not taken back |
| `DaemonStays` | `SpuriousWakeups = TRUE` | S 81 "loop to check all ongoing connections" | a spurious wakeup ends the loop |
| `NoneLeft` | `Teardown` | S 97 "wait for potential using have done", marked there as a workaround | a connection that is not connected yet is not waited for |
| `SentinelEnds` | `CloseWakes = FALSE`, `LatePackets = FALSE` | U 219 "close socket first, then wait thread exit" | a thread in `recvfrom` need not notice, and is waited for |
| `SessionIsSet` | `Teardown` | C 71 `pSession` | between the start of the sentinel and the loop that sets `pSession` (S 147-163) a handshake may begin and end |
| `NewerIsDelivered` | `Datagrams` | C 14 "UDP-like channel" | one packet that is lost, or took a number and was not sent, stops the channel |
| `FreeHoldsNothing` | `Locks`, `Remote = {r1}` | C 99 "Close both client (send) side and server (receive) side." | the `Reset` of a refused channel (S 573) runs without `ModifyMutex`; a NEW_CONNECTION in the middle of it leaves the peer's handle in a free context |
| `HoldsItsRemotes` | `Locks`, 3 requests | as above | the same connection is then held by the context of another remote |
| `ContextHoldsOnlyOpen` | `Locks`, `ConfigMayFail = TRUE` | S 685 "The new connection is closed by MsQuic" | when `ConnectionSetConfiguration` fails the handle stays in the context |
| `NoUseOfClosed` | `Locks` | - | `ConnectionClose` (S 786) does not wait for a sender that copied the handle |
| `NobodyLockedOut` | `Locks`; also with `MayLoop = FALSE` | S 1007 "desiredByte never less than bufBeginOffset"; C 37 "TCP-like" | a RECEIVE handler loops with `RecvMutex` held (S 1027); or a `Reset` between its look at the context (S 969) and its lock (S 994) makes a gap, and it resets (S 1011) with the mutex it holds. Whoever resets after it waits forever, `ModifyMutex` held |
| `NoThreadStuck`, `WaitsEnd` | `CallsBack <- FromDisconnect`, `FromReceive` or `FromReliable` | - | a `Disconnect` from within `OnDisconnect`, `OnUnreliableReceive` or `OnReliableReceive` locks a mutex its thread holds |
| `SameChannel` | `Streams` | S 811 "We ignore the lease 2 bits so that we can get the index." | a stream that was not opened or not started takes no id: those of later channels arrive one channel lower |
| `HeldIsOpen` | `Streams`; also with `MayLose = FALSE` | S 1082 "Because we close it at the destructor, don't close it at this event." | SEND_SHUTDOWN_COMPLETE closes a stream that the other end aborted, or whose connection ended, while the context holds its handle |
| `SumsChecksums` | `Numbers` | K 377 "we simply sum the checksum of each element" | negative elements are extended by their sign before they are hashed |
| `RangesAgree` | `CountBits` less than the length needs | K 246 "Equivalent to the runtime version." | `chunks` (K 289) has 32 bits: ranges of 2^32 elements and more |
| `JoinEnds` | any | `TestConnection.cpp` 135 "quit this program." | a notification that nobody waits for is lost, and the join never returns |

### Fairness

- `Pair`: `Tick` and `DoCheck` of every slot: the daemon thread wakes up
  every `retryTimeout` and looks at all slots.  Nothing is assumed of packets.
- `Mirror`, `DocSplit`: a thread that is in `ReliablePacketSend` goes on;
  MsQuic indicates what a stream has received while its connection is there.
- `Loans`: a thread that is in a send goes on; MsQuic reports about every
  buffer it took.
- `Teardown`: the daemon and the owner go on; MsQuic shuts down a connection
  that was dropped.
- `Locks`: each thread goes on with what it has begun; the daemon comes back
  every `retryTimeout` and finds a handshake too old in the end.  Nothing is
  assumed of packets, of the application or of new events.
- `Streams`: MsQuic reports the end of a stream and of a connection.

## 4. The proofs

`KoiHandshakeProofs` proves, for any endpoints, hosts, slots, ports,
connections and timeouts that meet `ConstantsAssumption`, that the types, the
ports' genuineness and the right peers are invariants, and that an established
context stays out of the handshake but for the one way `EstablishedStays`
names.  None of the invariants is inductive alone.  `IInv` joins them with what
they rest on (`Good`):

- every packet under way says what its sender bound at the time (ports of
  either side are `bound` for the pair of the packet, and that never changes);
- a context's own port is bound for its remote, and a context in the
  handshake has a remote;
- every connection was opened from a port bound for the remote it goes to, so
  that `NEW_CONNECTION`, which compares ports and addresses, can only find the
  context of that remote;
- what `Receive1st` has found (`first`) is still good when it answers, whatever
  came in between (`FirstGood`): the slot is its sender's, or nobody took it.

`EstablishedContextStays` follows from `Good(Q)`, where `Q` is any set of slots
that are not overdue, that is not in the handshake while they hold a connected
connection: every step keeps them so but `AnswerFirst`, when it begins a
handshake.  If its packet met the context out of its handshake, the context was
empty, and it still serves nobody (`FirstGood`), so it holds no connection.
That leaves the packet that met the context in its handshake.

The theorem `TableImplemented` of the same module shows on top of it that each
step of `KoiHandshake` is a step of `ContextTable` or leaves the table alone,
assuming `BusySets = {{}}`: no scan meets a locked context.  `OneEntryEach`
follows: no remote has two entries.  Without the assumption it has
(`OneContextPerRemote` of the divergences), so the failing `try_lock` is the
only reason.

`ReservedFree`, for all `BusySets`: `FindMatchingEntry` looks at the ports and
`RefCount` only, and what it takes for empty has no handles left either,
because a handle comes with a port.  So a slot never passes from one remote to
another without having been cleared.  `StepReserves` shows that only
`ConnectTo` and `AnswerFirst` reserve a slot, one each.

`KoiContextProofs` proves the types, and three properties of `Locks` for any
remotes, connections and requests.  `NotGivenAway` rests on `CreationHeld`: a
thread that is at work on the context for a request holds
`connCtxCreationMutex`.  `ContextHoldsOnlyOpen`, assuming that
`ConnectionSetConfiguration` does not fail, rests on `HInv`: a handle is on its
own side of the context, and is not there any more once SHUTDOWN_COMPLETE has
begun with it, although `Reset`s without the lock and new connections go on in
between.  `WaitsEnd`, assuming that no callback calls `Disconnect`
(`CallsBack = {}`; with one it fails), rests on `HoldersAt`: it says of each of
the four mutexes at which places its holder can be.  The places order the
mutexes, so a holder waits only for one that its own waiter does not hold; the
one exception is a RECEIVE handler in a `Reset`, which waits for its own
(`LockedOut`), and the property names it.

`KoiReliableProofs` proves, for any number of messages and senders:

- `TooLateOnlyAfterReset` and `OffsetStands`: as long as nothing is reset, no
  stream has been read beyond `NextRecvByte`, and the holder of `RecvMutex` has
  put it to the end of its event.  The types follow, among them that no event
  ends behind what was sent.
- `ChannelWhileMirrored`: the steps are steps of `MessageChannel`, or stutters.
  `SInv` is about the senders: a message belongs to one thread, is accepted
  with the first `StreamSend` that takes it, and is not yet on the streams the
  thread has still to send on.  `ByteInv` is about bytes: there are offsets
  `off` of the accepted messages in one sequence of bytes (`Layout`), of which
  each stream carries as much as `reach` messages make, and one stream carries
  all (`Carries`); what was delivered are the messages before the byte that
  `Buffer` begins with, and `Buffer` ends at `NextRecvByte` (`Received`).  The
  offsets exist because each step gives those of the next state; no induction
  over the messages is needed.  So bytes at the same offset are the same on
  both streams, and the header in `Buffer` is that of the next message.
- `NothingHeldBack`: when no handler is at work and a stream that carries all
  was read to its end, all was delivered.  `Drained` adds to the above that a
  handler that left the loop left less than a header in `Buffer`.  (A handler
  that is cut off inside a message does not leave the loop, as `DocSplit`
  shows.)

`KoiStreamsProofs` proves for any number of channels and sends:

- `ReceivedOnOwnChannel`: ids are given in the order of the channels, so the id
  of a stream is the number of lower ones that were started (`IdsInOrder`), and
  that does not change later, because lower ones are not started any more; what
  an end holds for a channel, has a copy of or has sent belongs to the channel
  (`StreamsBelong`, `GotBelongs`).  So the channel is the sender's if all lower
  streams were started, and only then (`SameChannel` of the divergences).
- `OpenWhileBothUse`: while the connection is up, a stream that is not open at
  some end was given up by an end that does not use it (`EndedByOne`), and an
  end that does not use a stream never does again.

`KoiUnreliableProofs` proves the types, and of a receiver that did not reset,
with fewer packets than there are numbers (`Datagrams` with `NumMod = 2`
refutes both: a copy that is late by all the numbers is taken for new):

- `ChannelUntilReset`, assuming one sender (two refute it): the channel
  implements `PacketChannel`.  `Inv` says of all datagrams that may still reach
  the application, on either connection, in an event or in the sender's hand,
  that numbers grow with packets, that those below `NextSendPacket` are taken,
  and that a number not below `NextRecvPacket` is that of a packet newer than
  all that were handed over.
- `EachOnce`, for any number of senders.  Numbers of two senders are neither
  distinct nor in the order of packets, so `Inv` fails; `OnceInv` rests on what
  is left: a packet has one number only, in both its copies, and the number of
  a packet handed over lies below `NextRecvPacket`.  (In `Datagrams`, with one
  sender, it follows from `ChannelUntilReset`; with two, 4
  packets and `NumMod = 5` TLC confirms it, too.)

`KoiSendBufferProofs` proves that `RefCount` is at least the number of loans
that are out or still to be made; so a buffer that somebody needs is not
deleted, and a deleted one has no user left who could delete it again.  Of a
packet whose sends neither fail nor are cancelled it is that number
(`CountOf`), so a buffer that nobody needs is deleted (`DoneMeansFreed`).

`KoiTeardownProofs` proves the types and, for any finite set of connections and
any width of the counter, `CountIsExact`: the `RefCount` of a slot is the number
of its connected connections less that of the failed ones, of either side and
of all uses of the slot, modulo the width.  Every step leaves both sets alone,
or adds to one, or takes from one; the lemmas `Residue` and `IncrDecr` say that
`Incr` and `Decr` follow such a change across the wrap.  With fewer connections
than `RefCount` can count a residue of zero means equal numbers (`ZeroIsEven`),
and two more follow: a `RefCount` that
is not zero has a connection to take it back unless one failed
(`CountIsTakenBack`); and a slot of which one failed counts as used while none
is connected (`FailedHoldsUp`), which is why `PastJoinEnds` has to exempt it.

`KoiRandomProofs` proves for every width and multiplier under
`MultiplierAssumption` (the modulus divides no product, as for 2147483647 and
48271) that `Lcg32::Next` is the documented multiplication, with its two fixed
points: the sum of the two halves has at most one carry, and after it lies
below the modulus.

Only model-checked:

- liveness (`HandshakeEnds` twice, `DeliveredUnlessLooping`,
  `FreedUnlessLeaked`, `PastJoinEnds`, `NoThreadStuck`, `AllClosed`), which the
  prover does not handle together with fairness.  For four of them the part
  that is an invariant, that there is something to go on with, is proved:
  `NothingHeldBack`, `DoneMeansFreed`, `CountIsTakenBack` and `WaitsEnd`.
- `RangesAgree` and `OrderDoesNotMatter`, which count over
  recursive definitions or use `Bitwise`.

## 5. Plan

1. Done: `ContextTable`, `KoiHandshake`; `KoiContext`; `MessageChannel`,
   `KoiReliable`; `KoiStreams`; `PacketChannel`, `KoiUnreliable`;
   `KoiSendBuffer`; `KoiTeardown` with `Start` in its parts; `KoiRandom`,
   `KoiChecksum`, `KoiGamestate`; the proofs of section 4.
2. Proofs: that no lasting handshake is half of one unless a `Reset` ran
   without its lock; the same draws on both platforms.
3. The sender's side of the unreliable channel: `MaxSendLength` as it changes
   with DATAGRAM_STATE_CHANGED, and a sender whose own channel is reset.
4. Errors of `recvfrom`, each of which ends the receive thread for good
   (U 290).

## 6. Not modelled

Most lines of the repository are not KoiSyn's own: `inc/msquic` and
`koisyn/platform/core` are headers of MsQuic, vendored, with structures of
which the code reads one field (the listener's socket).  Of about 31000 lines
some 3500 are the library's, and the modules stand for those that keep state.

- The MsQuic loader and the platforms' sockets keep no state of the protocol.
- The address parser turns text into an address; endpoints are model values.
- `Lcg64::Next` is one multiplication and addition modulo 2^64, which the
  width of its type makes exact: there is nothing in it to get wrong but the
  constants, whose period is not within TLC's reach.
- `Hash32` and `MixValue32` are called by nothing; the checksums of tuples and
  of ranges whose elements are no integers apply the others to each element.
- What happens inside MsQuic is modelled only as far as the code relies on it.
- `UdpSocket` is a wrapper; the models use what it offers: `Bind` may fail, a
  port is not bound twice, packets are lost, a close may or may not wake a
  receiver.
- `DATAGRAM_STATE_CHANGED` is a constant `MaxSendLength`; events whose handlers
  do nothing are left out.
