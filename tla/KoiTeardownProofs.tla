------------------------- MODULE KoiTeardownProofs --------------------------
(***************************************************************************)
(* Proofs about RefCount and the destructor of KoiTeardown, for any number *)
(* of slots and connections: what a RefCount counts, to the number, and so *)
(* what the destructor waits for.                                          *)
(***************************************************************************)
EXTENDS KoiTeardown, FiniteSetTheorems, TLAPS

\* What was opened was opened in a slot.
InSlot == \A c \in ConnId : conns[c].st # "none" => conns[c].slot \in Slot

-----------------------------------------------------------------------------
LEMMA RefRange ==
  ASSUME NEW n \in 0 .. RefMod - 1
  PROVE  Incr(n) \in 0 .. RefMod - 1 /\ Decr(n) \in 0 .. RefMod - 1
  BY TeardownAssumption DEF Incr, Decr

Connection == [slot : Slot \cup {0}, side : {"none", "self", "peer"},
               st : State, held : BOOLEAN]

LEMMA DropTyped ==
  ASSUME TypeOK, NEW i \in Slot
  PROVE  /\ Drop(i) \in [ConnId -> Connection]
         /\ \A c \in ConnId : /\ Drop(i)[c].slot = conns[c].slot
                              /\ Drop(i)[c].st = conns[c].st
<1>1. ASSUME NEW c \in ConnId
      PROVE  /\ Drop(i)[c] \in Connection
             /\ Drop(i)[c].slot = conns[c].slot /\ Drop(i)[c].st = conns[c].st
  <2>1. conns[c] \in Connection
    BY DEF TypeOK, Connection
  <2>2. Drop(i)[c] = conns[c] \/ Drop(i)[c] = [conns[c] EXCEPT !.held = FALSE]
    BY DEF Drop
  <2> QED
    BY <2>1, <2>2 DEF Connection
<1>2. Drop(i) = [c \in ConnId |-> Drop(i)[c]]
  BY DEF Drop
<1>3. Drop(i) \in [ConnId -> Connection]
  BY <1>1, <1>2
<1> QED
  BY <1>1, <1>3

LEMMA InitTyped == Init => TypeOK /\ InSlot
<1> SUFFICES ASSUME Init PROVE TypeOK /\ InSlot
  OBVIOUS
<1>1. 1 \in Slot /\ 0 \in 0 .. RefMod - 1
  BY TeardownAssumption DEF Slot
<1>2. NoConnection \in Connection
  BY DEF NoConnection, Connection, State
<1>3. TypeOK
  BY <1>1, <1>2 DEF Init, TypeOK, Connection
<1>4. InSlot
  BY DEF Init, InSlot, NoConnection
<1> QED
  BY <1>3, <1>4

\* The steps that change neither the state of a connection nor a RefCount.
SameCounts ==
  /\ refs' = refs
  /\ \A c \in ConnId : /\ conns'[c].slot = conns[c].slot
                       /\ conns'[c].st = conns[c].st

LEMMA OwnerStep ==
  ASSUME TypeOK, InSlot,
         \/ Start \/ SkipJoin \/ Notify \/ Join \/ CloseSentinel \/ JoinSentinel
         \/ DestroyMembers \/ \E i \in Slot : ResetSlot(i) \/ WaitIsOver(i)
  PROVE  TypeOK' /\ SameCounts
<1>0. 1 \in Slot /\ NumSlots \in Nat
  BY TeardownAssumption DEF Slot
<1>1. CASE Start
  BY <1>1 DEF TypeOK, SameCounts, Start, BindSentinel, OpenListener, RegisterConsumer,
              SetContext, StartDaemon, contextVars
<1>2. CASE SkipJoin \/ CloseSentinel \/ JoinSentinel
  BY <1>2 DEF TypeOK, SameCounts, SkipJoin, CloseSentinel, JoinSentinel, contextVars
<1>3. CASE Notify \/ Join
  BY <1>0, <1>3 DEF TypeOK, SameCounts, Notify, Join
<1>4. CASE DestroyMembers
  BY <1>4 DEF TypeOK, SameCounts, DestroyMembers
<1>5. ASSUME NEW i \in Slot, ResetSlot(i) PROVE TypeOK' /\ SameCounts
  <2>1. conns' = Drop(i) /\ shakes' = [shakes EXCEPT ![i] = FALSE]
        /\ UNCHANGED <<listener, daemon, checked, refs>>
    BY <1>5 DEF ResetSlot
  <2>2. owner' \in {"members", "resetting", "waiting"} /\ at' \in Slot
    BY <1>0, <1>5 DEF ResetSlot, NextSlot, TypeOK, Slot
  <2> QED
    BY <2>1, <2>2, DropTyped DEF TypeOK, Connection, SameCounts
<1>6. ASSUME NEW i \in Slot, WaitIsOver(i) PROVE TypeOK' /\ SameCounts
  <2>1. owner' \in {"members", "resetting"} /\ at' \in Slot
    BY <1>0, <1>6 DEF WaitIsOver, NextSlot, TypeOK, Slot
  <2> QED
    BY <1>6, <2>1 DEF TypeOK, SameCounts, WaitIsOver
<1> QED
  BY <1>1, <1>2, <1>3, <1>4, <1>5, <1>6

LEMMA DaemonStep ==
  ASSUME TypeOK, InSlot,
         \/ TimesOut \/ Wakes
         \/ \E i \in Slot : Check(i) \/ BeginHandshake(i) \/ Refuse(i)
  PROVE  TypeOK' /\ SameCounts
<1>0. 1 \in Slot /\ NumSlots \in Nat
  BY TeardownAssumption DEF Slot
<1>1. CASE TimesOut \/ Wakes
  BY <1>0, <1>1 DEF TypeOK, SameCounts, TimesOut, Wakes
<1>2. ASSUME NEW i \in Slot, Check(i) PROVE TypeOK' /\ SameCounts
  <2>1. checked' \in Slot /\ daemon' \in {"waits", "checks"}
    BY <1>0, <1>2 DEF Check, TypeOK, Slot
  <2>2. UNCHANGED <<owner, at, listener, refs>>
    BY <1>2 DEF Check
  <2>3. CASE shakes' = [shakes EXCEPT ![i] = FALSE] /\ conns' = Drop(i)
    BY <2>1, <2>2, <2>3, DropTyped DEF TypeOK, Connection, SameCounts
  <2>4. CASE UNCHANGED <<shakes, conns>>
    BY <2>1, <2>2, <2>4 DEF TypeOK, SameCounts
  <2> QED
    BY <1>2, <2>3, <2>4 DEF Check
<1>3. ASSUME NEW i \in Slot, BeginHandshake(i) PROVE TypeOK' /\ SameCounts
  BY <1>3 DEF TypeOK, SameCounts, BeginHandshake
<1>4. ASSUME NEW i \in Slot, Refuse(i) PROVE TypeOK' /\ SameCounts
  BY <1>4, DropTyped DEF TypeOK, Connection, SameCounts, Refuse
<1> QED
  BY <1>1, <1>2, <1>3, <1>4

LEMMA ConnectionStepTyped ==
  ASSUME TypeOK, InSlot, NEW c \in ConnId,
         \/ \E i \in Slot, side \in {"self", "peer"} : Open(c, i, side)
         \/ Connected(c) \/ ShutdownComplete(c)
  PROVE  TypeOK'
<1>1. ASSUME NEW i \in Slot, NEW side \in {"self", "peer"}, Open(c, i, side)
      PROVE  TypeOK'
  BY <1>1 DEF TypeOK, Open, State
<1>2. CASE Connected(c)
  <2>1. conns[c].slot \in Slot
    BY <1>2 DEF Connected, InSlot
  <2> QED
    BY <1>2, <2>1, RefRange DEF TypeOK, Connected, State
<1>3. CASE ShutdownComplete(c)
  <2>1. conns[c].slot \in Slot
    BY <1>3 DEF ShutdownComplete, Live, InSlot
  <2>2. Decr(refs[conns[c].slot]) \in 0 .. RefMod - 1
    BY <2>1, RefRange DEF TypeOK
  <2>3. shakes' \in [Slot -> BOOLEAN] /\ refs' \in [Slot -> 0 .. RefMod - 1]
    <3>1. \E b \in BOOLEAN : shakes' = [shakes EXCEPT ![conns[c].slot] = b]
      BY <1>3, Zenon DEF ShutdownComplete
    <3>2. refs' = [refs EXCEPT ![conns[c].slot] = Decr(refs[conns[c].slot])]
      BY <1>3, Zenon DEF ShutdownComplete
    <3>3. shakes' \in [Slot -> BOOLEAN]
      <4>1. PICK b \in BOOLEAN : shakes' = [shakes EXCEPT ![conns[c].slot] = b]
        BY <3>1
      <4>2. shakes \in [Slot -> BOOLEAN]
        BY DEF TypeOK
      <4> QED
        BY <2>1, <4>1, <4>2
    <3>4. refs' \in [Slot -> 0 .. RefMod - 1]
      BY <2>1, <2>2, <3>2 DEF TypeOK
    <3> QED
      BY <3>3, <3>4
  <2>4. conns' \in [ConnId -> Connection]
    <3>1. conns \in [ConnId -> Connection]
      BY DEF TypeOK, Connection
    <3>2. ASSUME NEW d \in ConnId, NEW st \in State, NEW held \in BOOLEAN
          PROVE  [conns[d] EXCEPT !.st = st, !.held = held] \in Connection
      BY <3>1 DEF Connection
    <3>3. "closed" \in State /\ "failed" \in State /\ \A d \in ConnId : conns[d].st \in State
      BY <3>1 DEF Connection, State
    <3> QED
      BY <1>3, <3>2, <3>3, Zenon DEF ShutdownComplete
  <2> QED
    BY <1>3, <2>3, <2>4 DEF TypeOK, ShutdownComplete, Connection
<1> QED
  BY <1>1, <1>2, <1>3

\* The end of a connection changes the state of no other, and moves none.
LEMMA ShutdownKeeps ==
  ASSUME TypeOK, NEW c \in ConnId, ShutdownComplete(c), NEW d \in ConnId
  PROVE  /\ conns'[d].slot = conns[d].slot
         /\ conns'[d].st = IF d # c THEN conns[d].st
                          ELSE IF conns[c].st = "connected" THEN "closed" ELSE "failed"
<1>1. conns[d] \in Connection
  BY DEF TypeOK, Connection
<1>2. \E h : conns'[d] =
        [conns[d] EXCEPT !.st = IF d # c THEN conns[d].st
                                ELSE IF conns[c].st = "connected" THEN "closed"
                                ELSE "failed",
                         !.held = h]
  BY Zenon DEF ShutdownComplete
<1> QED
  BY <1>1, <1>2 DEF Connection

LEMMA ConnectionStepInSlot ==
  ASSUME TypeOK, InSlot, NEW c \in ConnId,
         \/ \E i \in Slot, side \in {"self", "peer"} : Open(c, i, side)
         \/ Connected(c) \/ ShutdownComplete(c)
  PROVE  InSlot'
<1>1. ASSUME NEW i \in Slot, NEW side \in {"self", "peer"}, Open(c, i, side)
      PROVE  InSlot'
  BY <1>1 DEF TypeOK, InSlot, Open
<1>2. CASE Connected(c)
  BY <1>2 DEF TypeOK, InSlot, Connected
<1>3. CASE ShutdownComplete(c)
  <2>1. \A d \in ConnId : conns'[d].slot = conns[d].slot
    BY <1>3, ShutdownKeeps
  <2>2. \A d \in ConnId \ {c} : conns'[d].st = conns[d].st
    BY <1>3, ShutdownKeeps
  <2>3. conns[c].slot \in Slot
    BY <1>3 DEF InSlot, ShutdownComplete, Live
  <2> QED
    BY <2>1, <2>2, <2>3 DEF InSlot
<1> QED
  BY <1>1, <1>2, <1>3

LEMMA SameCountsInSlot == InSlot /\ SameCounts => InSlot'
  BY DEF InSlot, SameCounts

Quiet ==
  \/ Start \/ SkipJoin \/ Notify \/ Daemon \/ Destructor \/ JoinSentinel
  \/ \E i \in Slot : BeginHandshake(i) \/ Refuse(i)

ConnectionStep ==
  \E c \in ConnId :
    \/ \E i \in Slot, side \in {"self", "peer"} : Open(c, i, side)
    \/ Connected(c) \/ ShutdownComplete(c)

LEMMA NextSplits == Next => Quiet \/ ConnectionStep
  BY DEF Next, Quiet, ConnectionStep

LEMMA QuietStep ==
  ASSUME TypeOK, InSlot, Quiet
  PROVE  TypeOK' /\ SameCounts
  BY OwnerStep, DaemonStep DEF Quiet, Daemon, Destructor

LEMMA TypedStep ==
  ASSUME TypeOK, InSlot, [Next]_vars
  PROVE  TypeOK' /\ InSlot'
<1>1. CASE Quiet
  BY <1>1, QuietStep, SameCountsInSlot
<1>2. CASE ConnectionStep
  BY <1>2, ConnectionStepTyped, ConnectionStepInSlot DEF ConnectionStep
<1>3. CASE UNCHANGED vars
  BY <1>3 DEF vars, contextVars, TypeOK, InSlot
<1> QED
  BY <1>1, <1>2, <1>3, NextSplits

(***************************************************************************)
(* The variables keep their types (KoiSession::Start, ~KoiSession).        *)
(***************************************************************************)
THEOREM TypeCorrect == Spec => []TypeOK
<1>1. Init => TypeOK /\ InSlot
  BY InitTyped
<1>2. TypeOK /\ InSlot /\ [Next]_vars => (TypeOK /\ InSlot)'
  BY TypedStep
<1> QED
  BY <1>1, <1>2, PTL DEF Spec
-----------------------------------------------------------------------------
\* Two numbers between 0 and n - 1 that differ by a multiple of n are equal.
LEMMA Residue ==
  ASSUME NEW n \in Nat \ {0}, NEW q \in Int, NEW s \in Int,
         NEW a \in 0 .. n - 1, NEW b \in 0 .. n - 1, n * q + a = n * s + b
  PROVE  a = b
  OBVIOUS

LEMMA DivMod ==
  ASSUME NEW n \in Nat \ {0}, NEW x \in Int
  PROVE  /\ (x % n) \in 0 .. n - 1 /\ (x \div n) \in Int
         /\ x = n * (x \div n) + (x % n)
  OBVIOUS

LEMMA ModOf ==
  ASSUME NEW n \in Nat \ {0}, NEW x \in Int, NEW q \in Int,
         NEW a \in 0 .. n - 1, x = n * q + a
  PROVE  a = x % n
<1> DEFINE s == x \div n
           b == x % n
<1>1. b \in 0 .. n - 1 /\ s \in Int /\ x = n * s + b
  BY DivMod
<1> HIDE DEF s, b
<1>2. n * q + a = n * s + b
  BY <1>1
<1> QED
  BY <1>1, <1>2, Residue DEF b

\* Incr and Decr are plus and minus one, modulo RefMod.
LEMMA IncrDecr ==
  ASSUME NEW x \in Int
  PROVE  Incr(x % RefMod) = (x + 1) % RefMod /\ Decr(x % RefMod) = (x - 1) % RefMod
<1> DEFINE q == x \div RefMod
           a == x % RefMod
<1>0. RefMod \in Nat \ {0} /\ RefMod > 2
  BY TeardownAssumption
<1>1. a \in 0 .. RefMod - 1 /\ q \in Int /\ x = RefMod * q + a
  BY <1>0, DivMod
<1> HIDE DEF q, a
<1>2. Incr(a) = (x + 1) % RefMod
  <2>1. CASE a = RefMod - 1
    <3>1. (a + 1) % RefMod = 0
      BY <1>0, <2>1
    <3>2. x + 1 = RefMod * (q + 1) + 0
      BY <1>0, <1>1, <2>1
    <3> QED
      BY <1>0, <1>1, <3>1, <3>2, ModOf DEF Incr
  <2>2. CASE a # RefMod - 1
    <3>1. (a + 1) % RefMod = a + 1
      BY <1>0, <1>1, <2>2
    <3>2. x + 1 = RefMod * q + (a + 1)
      BY <1>0, <1>1
    <3> QED
      BY <1>0, <1>1, <2>2, <3>1, <3>2, ModOf DEF Incr
  <2> QED
    BY <2>1, <2>2
<1>3. Decr(a) = (x - 1) % RefMod
  <2>1. CASE a = 0
    <3>1. x - 1 = RefMod * (q - 1) + (RefMod - 1)
      BY <1>0, <1>1, <2>1
    <3> QED
      BY <1>0, <1>1, <2>1, <3>1, ModOf DEF Decr
  <2>2. CASE a # 0
    <3>1. x - 1 = RefMod * q + (a - 1)
      BY <1>0, <1>1
    <3> QED
      BY <1>0, <1>1, <2>2, <3>1, ModOf DEF Decr
  <2> QED
    BY <2>1, <2>2
<1> QED
  BY <1>2, <1>3 DEF a

-----------------------------------------------------------------------------
LEMMA CountedFinite ==
  ASSUME IsFiniteSet(ConnId), NEW i
  PROVE  /\ IsFiniteSet(Counted(i)) /\ Cardinality(Counted(i)) \in Nat
         /\ IsFiniteSet(Failed(i)) /\ Cardinality(Failed(i)) \in Nat
         /\ Cardinality(Counted(i)) <= Cardinality(ConnId)
         /\ Cardinality(Failed(i)) <= Cardinality(ConnId)
<1>1. Counted(i) \subseteq ConnId /\ Failed(i) \subseteq ConnId
  BY DEF Counted, Failed
<1> QED
  BY <1>1, FS_Subset, FS_CardinalityType

LEMMA InitCounts == Init => CountIsExact
<1> SUFFICES ASSUME Init, NEW i \in Slot
             PROVE  refs[i] = (Cardinality(Counted(i)) - Cardinality(Failed(i))) % RefMod
  BY DEF CountIsExact
<1>1. Counted(i) = {} /\ Failed(i) = {}
  BY DEF Init, Counted, Failed, NoConnection
<1>2. Cardinality(Counted(i)) = 0 /\ Cardinality(Failed(i)) = 0
  BY <1>1, FS_EmptySet
<1>3. 0 = 0 % RefMod
  BY TeardownAssumption
<1> QED
  BY <1>2, <1>3 DEF Init

\* A slot whose counted and failed connections stay keeps its RefCount.
SameSets(j) == /\ Counted(j)' = Counted(j) /\ Failed(j)' = Failed(j)
               /\ refs'[j] = refs[j]

\* A step that leaves all slots but i so, and in i adds k to what is counted.
LEMMA CountMoves ==
  ASSUME IsFiniteSet(ConnId), TypeOK, CountIsExact, NEW i \in Slot, NEW k \in {-1, 1},
         \A j \in Slot \ {i} : SameSets(j),
         Cardinality(Counted(i)') - Cardinality(Failed(i)')
           = Cardinality(Counted(i)) - Cardinality(Failed(i)) + k,
         refs'[i] = IF k = 1 THEN Incr(refs[i]) ELSE Decr(refs[i])
  PROVE  CountIsExact'
<1> SUFFICES ASSUME NEW j \in Slot
             PROVE  refs'[j] = (Cardinality(Counted(j)') - Cardinality(Failed(j)')) % RefMod
  BY DEF CountIsExact
<1>1. CASE j # i
  BY <1>1 DEF SameSets, CountIsExact
<1>2. CASE j = i
  <2> DEFINE x == Cardinality(Counted(i)) - Cardinality(Failed(i))
  <2>1. x \in Int /\ refs[i] = x % RefMod
    BY CountedFinite DEF CountIsExact
  <2>2. Cardinality(Counted(i)') - Cardinality(Failed(i)') = x + k
    OBVIOUS
  <2> HIDE DEF x
  <2>3. refs'[i] = (x + k) % RefMod
    BY <2>1, IncrDecr
  <2> QED
    BY <1>2, <2>2, <2>3
<1> QED
  BY <1>1, <1>2

LEMMA SameSetsCounts ==
  ASSUME CountIsExact, \A j \in Slot : SameSets(j)
  PROVE  CountIsExact'
  BY DEF CountIsExact, SameSets

LEMMA QuietCounts ==
  ASSUME CountIsExact, SameCounts
  PROVE  CountIsExact'
<1>1. \A j \in Slot : SameSets(j)
  BY DEF SameSets, Counted, Failed, SameCounts
<1> QED
  BY <1>1, SameSetsCounts

LEMMA OpenCounts ==
  ASSUME TypeOK, CountIsExact, NEW c \in ConnId,
         NEW i \in Slot, NEW side \in {"self", "peer"}, Open(c, i, side)
  PROVE  CountIsExact'
<1>1. /\ conns[c].st = "none" /\ conns'[c].st = "started" /\ refs' = refs
      /\ \A d \in ConnId \ {c} : conns'[d] = conns[d]
  BY DEF Open, TypeOK
<1>2. \A j \in Slot : SameSets(j)
  BY <1>1 DEF Counted, Failed, SameSets
<1> QED
  BY <1>2, SameSetsCounts

LEMMA ConnectedCounts ==
  ASSUME IsFiniteSet(ConnId), TypeOK, InSlot, CountIsExact, NEW c \in ConnId, Connected(c)
  PROVE  CountIsExact'
<1>0. PICK i \in Slot : i = conns[c].slot
  BY DEF Connected, InSlot
<1>1. /\ i = conns[c].slot /\ conns[c].st = "started" /\ conns'[c].st = "connected"
      /\ conns'[c].slot = i
      /\ \A d \in ConnId \ {c} : conns'[d] = conns[d]
      /\ refs' = [refs EXCEPT ![i] = Incr(refs[i])]
  BY <1>0 DEF Connected, TypeOK, InSlot
<1>2. refs'[i] = Incr(refs[i]) /\ \A j \in Slot \ {i} : SameSets(j)
  BY <1>1 DEF Counted, Failed, SameSets, TypeOK
<1>3. /\ Counted(i)' = Counted(i) \cup {c} /\ c \notin Counted(i)
      /\ Failed(i)' = Failed(i)
  BY <1>1 DEF Counted, Failed
<1>4. Cardinality(Counted(i)') = Cardinality(Counted(i)) + 1
  BY <1>3, CountedFinite, FS_AddElement
<1>5. Cardinality(Counted(i)') - Cardinality(Failed(i)')
        = Cardinality(Counted(i)) - Cardinality(Failed(i)) + 1
  BY <1>3, <1>4, CountedFinite
<1> QED
  BY <1>2, <1>5, CountMoves

LEMMA ShutdownCounts ==
  ASSUME IsFiniteSet(ConnId), TypeOK, InSlot, CountIsExact, NEW c \in ConnId,
         ShutdownComplete(c)
  PROVE  CountIsExact'
<1>0. PICK i \in Slot : i = conns[c].slot
  BY DEF ShutdownComplete, Live, InSlot
<1>1. /\ i = conns[c].slot /\ conns[c].st \in {"started", "connected"}
      /\ conns'[c].st = IF conns[c].st = "connected" THEN "closed" ELSE "failed"
      /\ conns'[c].slot = i
      /\ \A d \in ConnId \ {c} : /\ conns'[d].slot = conns[d].slot
                                 /\ conns'[d].st = conns[d].st
      /\ refs' = [refs EXCEPT ![i] = Decr(refs[i])]
  <2>1. conns[c].st \in {"started", "connected"}
    BY DEF ShutdownComplete, Live
  <2>2. refs' = [refs EXCEPT ![conns[c].slot] = Decr(refs[conns[c].slot])]
    BY Zenon DEF ShutdownComplete
  <2> QED
    BY <1>0, <2>1, <2>2, ShutdownKeeps
<1>2. refs'[i] = Decr(refs[i]) /\ \A j \in Slot \ {i} : SameSets(j)
  BY <1>1 DEF Counted, Failed, SameSets, TypeOK
<1>3. Cardinality(Counted(i)') - Cardinality(Failed(i)')
        = Cardinality(Counted(i)) - Cardinality(Failed(i)) + (-1)
  <2>1. CASE conns[c].st = "connected"
    <3>1. /\ Counted(i)' = Counted(i) \ {c} /\ c \in Counted(i)
          /\ Failed(i)' = Failed(i)
      BY <1>1, <2>1 DEF Counted, Failed
    <3>2. Cardinality(Counted(i)') = Cardinality(Counted(i)) - 1
      BY <3>1, CountedFinite, FS_RemoveElement
    <3> QED
      BY <3>1, <3>2, CountedFinite
  <2>2. CASE conns[c].st = "started"
    <3>1. /\ Counted(i)' = Counted(i)
          /\ Failed(i)' = Failed(i) \cup {c} /\ c \notin Failed(i)
      BY <1>1, <2>2 DEF Counted, Failed
    <3>2. Cardinality(Failed(i)') = Cardinality(Failed(i)) + 1
      BY <3>1, CountedFinite, FS_AddElement
    <3> QED
      BY <3>1, <3>2, CountedFinite
  <2> QED
    BY <1>1, <2>1, <2>2
<1> QED
  BY <1>2, <1>3, CountMoves

LEMMA CountsStep ==
  ASSUME IsFiniteSet(ConnId), TypeOK, InSlot, CountIsExact, [Next]_vars
  PROVE  CountIsExact'
<1>1. CASE Quiet
  BY <1>1, QuietStep, QuietCounts
<1>2. CASE ConnectionStep
  BY <1>2, OpenCounts, ConnectedCounts, ShutdownCounts DEF ConnectionStep
<1>3. CASE UNCHANGED vars
  BY <1>3, QuietCounts DEF vars, contextVars, SameCounts
<1> QED
  BY <1>1, <1>2, <1>3, NextSplits

Inv == TypeOK /\ InSlot /\ CountIsExact

LEMMA InvHolds == IsFiniteSet(ConnId) /\ Spec => []Inv
<1>1. SUFFICES ASSUME IsFiniteSet(ConnId) PROVE Spec => []Inv
  OBVIOUS
<1>2. Init => Inv
  BY InitTyped, InitCounts DEF Inv
<1>3. Inv /\ [Next]_vars => Inv'
  BY <1>1, TypedStep, CountsStep DEF Inv
<1> QED
  BY <1>2, <1>3, PTL DEF Spec

(***************************************************************************)
(* A RefCount is the number of connected connections of its slot less the  *)
(* number of failed ones, wrapped around, however many connections there   *)
(* are (CONNECTED, SHUTDOWN_COMPLETE, Reset).                              *)
(***************************************************************************)
THEOREM RefCountIsExact == IsFiniteSet(ConnId) /\ Spec => []CountIsExact
<1>1. Inv => CountIsExact
  BY DEF Inv
<1> QED
  BY <1>1, InvHolds, PTL

-----------------------------------------------------------------------------
\* There are not as many connections as RefCount can count.
FewConnections == IsFiniteSet(ConnId) /\ Cardinality(ConnId) < RefMod

\* So a RefCount that is zero means what it says.
LEMMA ZeroIsEven ==
  ASSUME FewConnections, CountIsExact, NEW i \in Slot
  PROVE  refs[i] = 0 <=> Cardinality(Counted(i)) = Cardinality(Failed(i))
<1> DEFINE x == Cardinality(Counted(i)) - Cardinality(Failed(i))
<1>0. /\ Cardinality(Counted(i)) \in Nat /\ Cardinality(Failed(i)) \in Nat
      /\ Cardinality(Counted(i)) < RefMod /\ Cardinality(Failed(i)) < RefMod
      /\ RefMod \in Nat \ {0}
  BY CountedFinite, FS_CardinalityType, TeardownAssumption DEF FewConnections
<1>1. refs[i] = x % RefMod /\ x \in Int /\ x < RefMod /\ -x < RefMod
  BY <1>0 DEF CountIsExact
<1>2. x = 0 <=> Cardinality(Counted(i)) = Cardinality(Failed(i))
  BY <1>0
<1> HIDE DEF x
<1>3. CASE x < 0
  <2>1. x = RefMod * (-1) + (x + RefMod) /\ x + RefMod \in 0 .. RefMod - 1
    BY <1>0, <1>1, <1>3
  <2>2. x % RefMod = x + RefMod
    BY <1>0, <1>1, <2>1, ModOf
  <2> QED
    BY <1>0, <1>1, <1>2, <1>3, <2>2
<1>4. CASE x >= 0
  <2>1. x = RefMod * 0 + x /\ x \in 0 .. RefMod - 1
    BY <1>0, <1>1, <1>4
  <2>2. x % RefMod = x
    BY <1>0, <1>1, <2>1, ModOf
  <2> QED
    BY <1>1, <1>2, <2>2
<1> QED
  BY <1>1, <1>3, <1>4

(***************************************************************************)
(* What a RefCount counts is a connection that is still to be shut down;   *)
(* so what ~KoiSession waits for comes, once it is dropped, unless a       *)
(* connection of the slot failed.                                          *)
(***************************************************************************)
THEOREM WaitsForTheConnected == FewConnections /\ Spec => []CountIsTakenBack
<1>1. SUFFICES ASSUME FewConnections PROVE Spec => []CountIsTakenBack
  OBVIOUS
<1>2. Inv => CountIsTakenBack
  <2> SUFFICES ASSUME Inv, NEW i \in Slot, refs[i] # 0, Failed(i) = {}
               PROVE  \E c \in ConnId : conns[c].slot = i /\ conns[c].st = "connected"
    BY DEF CountIsTakenBack, Uncounted
  <2>1. Cardinality(Counted(i)) # 0
    BY <1>1, ZeroIsEven, FS_EmptySet DEF Inv
  <2>2. Counted(i) # {}
    BY <2>1, FS_EmptySet
  <2> QED
    BY <2>2 DEF Counted
<1>3. Spec => []Inv
  BY <1>1, InvHolds DEF FewConnections
<1> QED
  BY <1>2, <1>3, PTL

(***************************************************************************)
(* Where a connection failed and none is connected RefCount is not zero,   *)
(* so a destructor that looks at that slot waits on: forever, once nothing *)
(* is left that could connect.  This is what PastJoinEnds makes its first  *)
(* exception for.                                                          *)
(***************************************************************************)
THEOREM FailedHoldsUp ==
  FewConnections /\ Spec =>
    [](\A i \in Slot : Uncounted(i) /\ Counted(i) = {} => ~Unused(i))
<1> DEFINE Held == \A i \in Slot : Uncounted(i) /\ Counted(i) = {} => ~Unused(i)
<1>1. SUFFICES ASSUME FewConnections PROVE Spec => []Held
  OBVIOUS
<1>2. Inv => Held
  <2> SUFFICES ASSUME Inv, NEW i \in Slot, Failed(i) # {}, Counted(i) = {}
               PROVE  refs[i] # 0
    BY DEF Uncounted, Unused
  <2>1. Cardinality(Counted(i)) = 0 /\ Cardinality(Failed(i)) # 0
    BY <1>1, CountedFinite, FS_EmptySet DEF FewConnections
  <2> QED
    BY <1>1, <2>1, ZeroIsEven DEF Inv
<1>3. Spec => []Inv
  BY <1>1, InvHolds DEF FewConnections
<1> HIDE DEF Held
<1> QED
  BY <1>2, <1>3, PTL
=============================================================================
