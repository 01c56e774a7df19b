------------------------- MODULE KoiSendBufferProofs -------------------------
(***************************************************************************)
(* Proofs about the life of a RawBuffer, for any number of packets.        *)
(***************************************************************************)
EXTENDS KoiSendBuffer, TLAPS, FiniteSetTheorems

(***************************************************************************)
(* A buffer's RefCount counts at least the handles it is still to be sent  *)
(* on and those MsQuic has it from; what it counts more are sends that     *)
(* failed and datagrams that were cancelled.                               *)
(***************************************************************************)
Uses(p) == Cardinality(to[p]) + Cardinality(lent[p])

LifeOf(p) ==
  /\ to[p] \cap lent[p] = {}
  /\ frees[p] = 0 => Uses(p) <= refs[p]
  /\ frees[p] # 0 => frees[p] = 1 /\ to[p] = {} /\ lent[p] = {}
  /\ pc[p] = "idle" => to[p] = {} /\ lent[p] = {} /\ frees[p] = 0 /\ ~sent[p]
  /\ pc[p] # "done" /\ ~sent[p] => frees[p] = 0
  /\ ~sent[p] => lent[p] = {}
  /\ pc[p] = "done" => to[p] = {}

IInv == TypeOK /\ \A p \in Packet : LifeOf(p)

LEMMA HandleCardinality ==
  /\ \A H \in SUBSET Handle : IsFiniteSet(H) /\ Cardinality(H) \in 0 .. 2
  /\ \A H \in SUBSET Handle : Cardinality(H) = 0 <=> H = {}
<1>1. IsFiniteSet(Handle) /\ Cardinality(Handle) = 2
  <2>1. IsFiniteSet({}) /\ Cardinality({}) = 0
    BY FS_EmptySet
  <2>2. IsFiniteSet({"peer"}) /\ Cardinality({"peer"}) = 1
    BY FS_Singleton
  <2>3. /\ IsFiniteSet({"peer"} \cup {"self"})
        /\ Cardinality({"peer"} \cup {"self"}) = Cardinality({"peer"}) + 1
    BY <2>2, FS_AddElement
  <2>4. Handle = {"peer"} \cup {"self"}
    BY DEF Handle
  <2> QED BY <2>2, <2>3, <2>4
<1>2. ASSUME NEW H \in SUBSET Handle
      PROVE  IsFiniteSet(H) /\ Cardinality(H) \in 0 .. 2 /\ (Cardinality(H) = 0 <=> H = {})
  <2>1. IsFiniteSet(H) /\ Cardinality(H) <= 2
    BY <1>1, FS_Subset
  <2>2. Cardinality(H) \in Nat
    BY <2>1, FS_CardinalityType
  <2>3. Cardinality(H) = 0 <=> H = {}
    BY <2>1, FS_EmptySet
  <2> QED BY <2>1, <2>2, <2>3
<1> QED BY <1>2

\* Taking a handle out of a set, and putting one in.
LEMMA HandleTaken ==
  ASSUME NEW H \in SUBSET Handle, NEW h \in H
  PROVE  Cardinality(H \ {h}) = Cardinality(H) - 1
  BY HandleCardinality, FS_RemoveElement

LEMMA HandleAdded ==
  ASSUME NEW H \in SUBSET Handle, NEW h \in Handle, h \notin H
  PROVE  Cardinality(H \cup {h}) = Cardinality(H) + 1
  BY HandleCardinality, FS_AddElement

LEMMA InitIInv == Init => IInv
<1> SUFFICES ASSUME Init PROVE IInv
  OBVIOUS
<1>1. TypeOK
  BY DEF Init, TypeOK
<1>2. Cardinality({}) = 0
  BY HandleCardinality
<1> QED BY <1>1, <1>2 DEF Init, IInv, LifeOf, Uses

LEMMA NextIInv == IInv /\ [Next]_vars => IInv'
<1> SUFFICES ASSUME IInv, [Next]_vars PROVE IInv'
  OBVIOUS
<1> USE DEF IInv, TypeOK
<1>1. ASSUME NEW p \in Packet, Begin(p) PROVE IInv'
  <2>1. PICK H \in SUBSET Handle : /\ to' = [to EXCEPT ![p] = H]
                                   /\ refs' = [refs EXCEPT ![p] = CountAll(H)]
    BY <1>1 DEF Begin
  <2>2. Cardinality(H) \in 0 .. 2 /\ Cardinality({}) = 0
    BY HandleCardinality
  <2>3. TypeOK'
    BY <1>1, <2>1, <2>2 DEF Begin, CountAll
  <2>4. LifeOf(p)'
    BY <1>1, <2>1, <2>2 DEF Begin, CountAll, LifeOf, Uses
  <2>5. ASSUME NEW q \in Packet, q # p PROVE LifeOf(q)'
    BY <1>1, <2>1, <2>5 DEF Begin, LifeOf, Uses
  <2> QED BY <2>3, <2>4, <2>5
<1>2. ASSUME NEW p \in Packet, NEW h \in Handle, SendOn(p, h) PROVE IInv'
  <2>1. TypeOK'
    <3>1. to' \in [Packet -> SUBSET Handle]
      BY <1>2 DEF SendOn
    <3>2. lent[p] \cup {h} \in SUBSET Handle
      OBVIOUS
    <3>3. lent' \in [Packet -> SUBSET Handle] /\ sent' \in [Packet -> BOOLEAN]
      BY <1>2, <3>2 DEF SendOn
    <3> QED BY <1>2, <3>1, <3>3 DEF SendOn
  <2>2. /\ to'[p] = to[p] \ {h} /\ h \in to[p] /\ h \notin lent[p]
        /\ frees'[p] = frees[p] /\ refs'[p] = refs[p] /\ frees[p] = 0
        /\ pc'[p] = pc[p] /\ pc[p] = "sending"
        /\ \/ lent'[p] = lent[p] \cup {h} /\ sent'[p]
           \/ lent'[p] = lent[p] /\ sent'[p] = sent[p]
    BY <1>2 DEF SendOn, LifeOf
  <2>3. /\ Cardinality(to'[p]) = Cardinality(to[p]) - 1
        /\ Cardinality(lent'[p]) <= Cardinality(lent[p]) + 1
        /\ Cardinality(to[p]) \in 0 .. 2 /\ Cardinality(lent[p]) \in 0 .. 2
        /\ Cardinality(lent'[p]) \in 0 .. 2
    <3>1. to[p] \in SUBSET Handle /\ lent[p] \in SUBSET Handle /\ lent'[p] \in SUBSET Handle
      BY <2>1
    <3>2. /\ Cardinality(to[p]) \in 0 .. 2 /\ Cardinality(lent[p]) \in 0 .. 2
          /\ Cardinality(lent'[p]) \in 0 .. 2
      BY <3>1, HandleCardinality
    <3> QED BY <2>2, <3>1, <3>2, HandleTaken, HandleAdded
  <2>4. refs[p] \in 0 .. 2
    OBVIOUS
  <2>5. LifeOf(p)'
    BY <2>2, <2>3, <2>4 DEF LifeOf, Uses
  <2>6. ASSUME NEW q \in Packet, q # p PROVE LifeOf(q)'
    BY <1>2, <2>6 DEF SendOn, LifeOf, Uses
  <2> QED BY <2>1, <2>5, <2>6
<1>3. ASSUME NEW p \in Packet, End(p) PROVE IInv'
  <2>1. TypeOK'
    BY <1>3 DEF End
  <2>2. LifeOf(p)'
    BY <1>3 DEF End, Unsent, LifeOf, Uses
  <2>3. ASSUME NEW q \in Packet, q # p PROVE LifeOf(q)'
    BY <1>3, <2>3 DEF End, LifeOf, Uses
  <2> QED BY <2>1, <2>2, <2>3
<1>4. ASSUME NEW p \in Packet, NEW h \in Handle, SendComplete(p, h) PROVE IInv'
  <2>1. /\ h \in lent[p] /\ lent'[p] = lent[p] \ {h}
        /\ to'[p] = to[p] /\ pc'[p] = pc[p] /\ sent'[p] = sent[p]
        /\ frees[p] = 0 /\ sent[p]
        /\ refs'[p] = refs[p] - 1
        /\ frees'[p] = IF refs[p] = 1 THEN 1 ELSE 0
    BY <1>4 DEF SendComplete, Drop, Last, LifeOf
  <2>2. /\ Cardinality(to[p]) \in 0 .. 2 /\ Cardinality(lent[p]) \in 0 .. 2
        /\ Cardinality(lent'[p]) = Cardinality(lent[p]) - 1
        /\ Cardinality(lent'[p]) \in 0 .. 2
        /\ Cardinality(to[p]) = 0 => to[p] = {}
        /\ Cardinality(lent'[p]) = 0 => lent'[p] = {}
    <3>1. to[p] \in SUBSET Handle /\ lent[p] \in SUBSET Handle /\ lent'[p] \in SUBSET Handle
      BY <2>1
    <3> QED BY <2>1, <3>1, HandleCardinality, HandleTaken
  <2>3. refs[p] \in 0 .. 2 /\ Uses(p) <= refs[p]
    BY <2>1 DEF LifeOf
  <2>4. TypeOK'
    BY <1>4, <2>2, <2>3 DEF SendComplete, Drop, Uses
  <2>5. LifeOf(p)'
    BY <2>1, <2>2, <2>3 DEF LifeOf, Uses
  <2>6. ASSUME NEW q \in Packet, q # p PROVE LifeOf(q)'
    BY <1>4, <2>6 DEF SendComplete, Drop, LifeOf, Uses
  <2> QED BY <2>4, <2>5, <2>6
<1>5. ASSUME NEW p \in Packet, NEW h \in Handle, Canceled(p, h) PROVE IInv'
  <2>1. TypeOK'
    BY <1>5 DEF Canceled
  <2>2. /\ h \in lent[p] /\ lent'[p] = lent[p] \ {h}
        /\ to'[p] = to[p] /\ pc'[p] = pc[p] /\ sent'[p] = sent[p]
        /\ refs'[p] = refs[p] /\ frees'[p] = frees[p]
    BY <1>5 DEF Canceled
  <2>3. /\ Cardinality(to[p]) \in 0 .. 2 /\ Cardinality(lent[p]) \in 0 .. 2
        /\ Cardinality(lent'[p]) = Cardinality(lent[p]) - 1
    BY <2>2, HandleCardinality, HandleTaken
  <2>4. LifeOf(p)'
    BY <2>2, <2>3 DEF LifeOf, Uses
  <2>5. ASSUME NEW q \in Packet, q # p PROVE LifeOf(q)'
    BY <1>5, <2>5 DEF Canceled, LifeOf, Uses
  <2> QED BY <2>1, <2>4, <2>5
<1>6. CASE UNCHANGED vars
  BY <1>6 DEF vars, LifeOf, Uses
<1> QED BY <1>1, <1>2, <1>3, <1>4, <1>5, <1>6 DEF Next

LEMMA Inductive == Spec => []IInv
  BY InitIInv, NextIInv, PTL DEF Spec

(***************************************************************************)
(* The variables keep their types; so RefCount never wraps around.         *)
(***************************************************************************)
THEOREM TypeCorrect == Spec => []TypeOK
<1>1. IInv => TypeOK
  BY DEF IInv
<1> QED BY <1>1, Inductive, PTL

(***************************************************************************)
(* No RawBuffer is deleted while it is needed.                             *)
(***************************************************************************)
THEOREM NeverUsedAfterFree == Spec => []NoUseAfterFree
<1>1. IInv => NoUseAfterFree
  BY DEF IInv, LifeOf, NoUseAfterFree
<1> QED BY <1>1, Inductive, PTL

(***************************************************************************)
(* No RawBuffer is deleted twice.                                          *)
(***************************************************************************)
THEOREM NeverFreedTwice == Spec => []FreedOnce
<1>1. IInv => FreedOnce
  BY DEF IInv, TypeOK, LifeOf, FreedOnce
<1> QED BY <1>1, Inductive, PTL

-----------------------------------------------------------------------------
(***************************************************************************)
(* When no send fails and nothing is cancelled, RefCount counts the loans  *)
(* exactly, and is not zero before the buffer is deleted.                  *)
(***************************************************************************)
Leaks(p) == p \in Failing \cup Cancelable

CountOf(p) ==
  /\ ~Leaks(p) /\ frees[p] = 0 => refs[p] = Uses(p)
  /\ ~Leaks(p) /\ frees[p] = 0 /\ sent[p] => refs[p] # 0
  /\ pc[p] = "done" /\ ~sent[p] => frees[p] = 1

CInv == \A p \in Packet : CountOf(p)

LEMMA NextCInv == IInv /\ CInv /\ [Next]_vars => CInv'
<1> SUFFICES ASSUME IInv, CInv, [Next]_vars PROVE CInv'
  OBVIOUS
<1> USE DEF IInv, TypeOK, CInv
<1>t. ASSUME NEW p \in Packet
      PROVE  /\ Cardinality(to[p]) \in Nat /\ Cardinality(lent[p]) \in Nat
             /\ Cardinality(to[p]) = 0 <=> to[p] = {}
             /\ Cardinality(lent[p]) = 0 <=> lent[p] = {}
             /\ refs[p] \in Nat
  BY HandleCardinality
<1>1. ASSUME NEW p \in Packet, Begin(p) PROVE CInv'
  <2>1. PICK H \in SUBSET Handle : /\ to' = [to EXCEPT ![p] = H]
                                   /\ refs' = [refs EXCEPT ![p] = CountAll(H)]
    BY <1>1 DEF Begin
  <2>2. Cardinality(H) \in Nat /\ Cardinality({}) = 0
    BY HandleCardinality
  <2>3. CountOf(p)'
    BY <1>1, <2>1, <2>2 DEF Begin, CountAll, LifeOf, CountOf, Uses
  <2>4. ASSUME NEW q \in Packet, q # p PROVE CountOf(q)'
    BY <1>1, <2>1, <2>4 DEF Begin, CountOf, Uses
  <2> QED BY <2>3, <2>4
<1>2. ASSUME NEW p \in Packet, NEW h \in Handle, SendOn(p, h) PROVE CInv'
  <2>1. /\ to'[p] = to[p] \ {h} /\ h \in to[p] /\ h \notin lent[p]
        /\ frees'[p] = frees[p] /\ refs'[p] = refs[p]
        /\ pc'[p] = pc[p] /\ pc[p] = "sending"
        /\ \/ lent'[p] = lent[p] \cup {h}
           \/ Leaks(p)
    BY <1>2 DEF SendOn, LifeOf, Leaks
  <2>2. CASE ~Leaks(p)
    <3>1. /\ Cardinality(to'[p]) = Cardinality(to[p]) - 1
          /\ Cardinality(lent'[p]) = Cardinality(lent[p]) + 1
      BY <2>1, <2>2, HandleTaken, HandleAdded
    <3>2. Cardinality(to[p]) # 0
      BY <2>1, <1>t
    <3> QED BY <1>2, <1>t, <2>1, <3>1, <3>2 DEF SendOn, CountOf, Uses
  <2>3. CASE Leaks(p)
    BY <1>2, <2>1, <2>3 DEF SendOn, CountOf, Leaks, Uses
  <2> QED BY <2>2, <2>3
<1>3. ASSUME NEW p \in Packet, End(p) PROVE CInv'
  BY <1>3 DEF End, Unsent, LifeOf, CountOf, Uses
<1>4. ASSUME NEW p \in Packet, NEW h \in Handle, SendComplete(p, h) PROVE CInv'
  <2>1. /\ h \in lent[p] /\ lent'[p] = lent[p] \ {h}
        /\ to'[p] = to[p] /\ pc'[p] = pc[p] /\ sent'[p] = sent[p]
        /\ frees[p] = 0 /\ sent[p]
        /\ refs'[p] = refs[p] - 1
        /\ frees'[p] = IF refs[p] = 1 THEN 1 ELSE 0
    BY <1>4 DEF SendComplete, Drop, Last, LifeOf
  <2>2. Cardinality(lent'[p]) = Cardinality(lent[p]) - 1
    BY <2>1, HandleTaken
  <2>3. CountOf(p)'
    BY <1>t, <2>1, <2>2 DEF CountOf, Uses
  <2>4. ASSUME NEW q \in Packet, q # p PROVE CountOf(q)'
    BY <1>4, <2>4 DEF SendComplete, Drop, CountOf, Uses
  <2> QED BY <2>3, <2>4
<1>5. ASSUME NEW p \in Packet, NEW h \in Handle, Canceled(p, h) PROVE CInv'
  BY <1>5 DEF Canceled, CountOf, Leaks, Uses
<1>6. CASE UNCHANGED vars
  BY <1>6 DEF vars, CountOf, Uses
<1> QED BY <1>1, <1>2, <1>3, <1>4, <1>5, <1>6 DEF Next

(***************************************************************************)
(* A RawBuffer that is needed no more is deleted, unless a send of it      *)
(* failed beside one that did not, or a datagram was cancelled.            *)
(***************************************************************************)
THEOREM FreedWhenDone == Spec => []DoneMeansFreed
<1>1. Init => CInv
  BY HandleCardinality DEF Init, CInv, CountOf, Uses
<1>2. IInv /\ CInv => DoneMeansFreed
  <2> SUFFICES ASSUME IInv, CInv, NEW p \in Packet, pc[p] = "done", lent[p] = {},
                      sent[p] => ~Leaks(p)
               PROVE  frees[p] = 1
    BY DEF DoneMeansFreed, Leaks
  <2>1. to[p] = {} /\ (frees[p] # 0 => frees[p] = 1)
    BY DEF IInv, LifeOf
  <2>2. Uses(p) = 0
    BY <2>1, HandleCardinality DEF Uses
  <2> QED
    BY <2>1, <2>2 DEF CInv, CountOf
<1> QED BY <1>1, <1>2, Inductive, NextCInv, PTL DEF Spec
=============================================================================
