-------------------------- MODULE KoiStreamsProofs ---------------------------
(***************************************************************************)
(* TypeOK, OwnChannel and OpenWhileBothUse hold in every reachable state   *)
(* of KoiStreams, for any number of channels and of sends.                 *)
(***************************************************************************)
EXTENDS KoiStreams, FiniteSetTheorems, TLAPS

(***************************************************************************)
(* Ids are given in the order of the channels: the id of a stream is the   *)
(* number of lower channels that were started, and none is given beyond    *)
(* the channel StartClient is at.                                          *)
(***************************************************************************)
LowerStarted(c) == {k \in Chan : k < c /\ id[k] # None}

IdsInOrder ==
  \A i \in Chan : id[i] # None =>
    /\ starting # None /\ i < starting
    /\ id[i] = Cardinality(LowerStarted(i))

\* What an end sends on channel c goes over the stream it holds there: the
\* client's own one, and at the server the one whose id tells the channel.
Belongs(e, i, c) == IF e = "client" THEN i = c ELSE id[i] = c

StreamsBelong ==
  /\ \A e \in End, c \in Chan : held[e][c] # None => Belongs(e, held[e][c], c)
  /\ \A e \in End : copy[e] # NoCopy => Belongs(e, copy[e].strm, copy[e].chan)
  /\ \A e \in End : \A m \in net[e] : Belongs(Other(e), m[1], m[2])

\* What was received was sent on a stream that has its id.
GotBelongs ==
  /\ LET m == got["client"] IN m # NoMessage => m[2] = m[1]
  /\ LET m == got["server"]
     IN m # NoMessage => id[m[1]] # None /\ m[2] = id[m[1]]

PInv == TypeOK /\ IdsInOrder /\ StreamsBelong /\ GotBelongs

(***************************************************************************)
(* A stream that no longer is open at some end of a connection that is up  *)
(* was given up by an end, which will not use it again.                    *)
(***************************************************************************)
GivenUp(e, i) == st[e][i] \in {"shut", "closed"} /\ ~InUse(e, i)

EndedByOne ==
  \A i \in Chan :
    (~down /\ \E e \in End : st[e][i] \in {"shut", "closed"}) =>
      \E e \in End : GivenUp(e, i)

\* What is in use was opened.
UsedIsOpened == \A e \in End, i \in Chan : InUse(e, i) => st[e][i] # "none"

\* Before StartClient there are no streams.
NoneBefore ==
  starting = None => \A e \in End, i \in Chan : st[e][i] = "none"

UInv == EndedByOne /\ UsedIsOpened /\ NoneBefore

-----------------------------------------------------------------------------
LEMMA ChanFacts ==
  /\ NumChannels \in Nat \ {0} /\ Chan \subseteq Nat /\ None \notin Nat
  /\ \A c \in Chan : c # None /\ c + 1 \in 0 .. NumChannels
  /\ End = {"client", "server"} /\ "client" # "server"
  BY StreamsAssumption DEF Chan, None, End

LEMMA OtherEnd ==
  ASSUME NEW e \in End
  PROVE  Other(e) \in End /\ Other(e) # e
  BY DEF Other, End

LEMMA NotACopy ==
  ASSUME NEW y \in [strm : Chan, chan : Chan]
  PROVE  y # NoCopy /\ y.strm \in Chan /\ y.chan \in Chan /\ NoCopy.strm \notin Chan
<1>1. NoCopy.strm = None /\ y.strm \in Chan /\ y.chan \in Chan
  BY DEF NoCopy
<1>2. y.strm # None /\ None \notin Chan
  BY <1>1, ChanFacts
<1> QED
  BY <1>1, <1>2

\* The number of started streams below a channel is a channel.
LEMMA CountBelow ==
  ASSUME NEW c \in Chan, NEW S \in SUBSET Chan, \A k \in S : k < c
  PROVE  Cardinality(S) \in Chan
<1>1. S \subseteq 0 .. c - 1
  BY ChanFacts DEF Chan
<1>2. IsFiniteSet(0 .. c - 1) /\ Cardinality(0 .. c - 1) = c
  BY FS_Interval, ChanFacts DEF Chan
<1>3. Cardinality(S) <= c /\ Cardinality(S) \in Nat
  BY <1>1, <1>2, FS_Subset, FS_CardinalityType
<1>4. c \in Nat /\ c < NumChannels /\ NumChannels \in Nat
  BY ChanFacts DEF Chan
<1> QED
  BY <1>3, <1>4 DEF Chan

\* No handle changes but from "open" to "shut".
LEMMA DeletedTyped ==
  ASSUME TypeOK, NEW e \in End, st' = [st EXCEPT ![e] = Deleted(e)]
  PROVE  /\ st' \in [End -> [Chan -> {"none", "open", "shut", "closed"}]]
         /\ \A f \in End, i \in Chan :
              \/ st'[f][i] = st[f][i]
              \/ f = e /\ st[e][i] = "open" /\ st'[e][i] = "shut"
         /\ \A i \in Chan : st[e][i] = "open" /\ st'[e][i] = "shut" => ~InUse(e, i)'
  BY DEF TypeOK, Deleted

LEMMA InitPInv == Init => PInv
<1> SUFFICES ASSUME Init PROVE PInv
  OBVIOUS
<1>1. TypeOK
  <2>1. /\ starting \in {None} \cup 0 .. NumChannels
        /\ id \in [Chan -> Chan \cup {None}]
        /\ held \in [End -> [Chan -> Chan \cup {None}]]
        /\ copy \in [End -> [strm : Chan, chan : Chan] \cup {NoCopy}]
    BY DEF Init
  <2>2. /\ st \in [End -> [Chan -> {"none", "open", "shut", "closed"}]]
        /\ net \in [End -> SUBSET (Chan \X Chan)]
        /\ got \in [End -> (Chan \X Chan) \cup {NoMessage}]
    BY DEF Init
  <2>3. sends \in 0 .. NumSends
    BY StreamsAssumption DEF Init
  <2>4. /\ reset \in [End -> {None} \cup 0 .. NumChannels]
        /\ down \in BOOLEAN /\ gone \subseteq End
    BY DEF Init
  <2> QED
    BY <2>1, <2>2, <2>3, <2>4 DEF TypeOK
<1>2. IdsInOrder /\ StreamsBelong /\ GotBelongs
  BY DEF Init, IdsInOrder, StreamsBelong, GotBelongs, End
<1> QED
  BY <1>1, <1>2 DEF PInv

\* Steps that change neither ids nor what was received keep what is said of
\* them.
LEMMA IdsUnchanged ==
  ASSUME PInv, UNCHANGED <<starting, id, got>>
  PROVE  IdsInOrder' /\ GotBelongs'
  BY DEF PInv, IdsInOrder, GotBelongs, LowerStarted

LEMMA OpenPInv ==
  ASSUME PInv, Open
  PROVE  PInv'
<1>1. PICK failed \in SUBSET Chan :
        /\ held' = [held EXCEPT !["client"] =
             [c \in Chan |-> IF c \in failed THEN None ELSE c]]
        /\ st' = [st EXCEPT !["client"] =
             [i \in Chan |-> IF i \in failed THEN "none" ELSE "open"]]
  BY DEF Open
<1>2. starting = None /\ starting' = 0
      /\ UNCHANGED <<id, copy, net, sends, got, reset, down, gone>>
  BY DEF Open
<1>3. \A i \in Chan : id[i] = None
  BY <1>2 DEF PInv, IdsInOrder
<1>4. TypeOK'
  <2>1. held' \in [End -> [Chan -> Chan \cup {None}]]
    BY <1>1 DEF PInv, TypeOK
  <2>2. st' \in [End -> [Chan -> {"none", "open", "shut", "closed"}]]
    BY <1>1 DEF PInv, TypeOK
  <2>3. starting' \in {None} \cup 0 .. NumChannels
    BY <1>2, ChanFacts
  <2> QED
    BY <1>2, <2>1, <2>2, <2>3 DEF PInv, TypeOK
<1>5. IdsInOrder'
  BY <1>2, <1>3 DEF IdsInOrder
<1>6. StreamsBelong'
  BY <1>1, <1>2, ChanFacts DEF PInv, TypeOK, StreamsBelong, Belongs
<1>7. GotBelongs'
  BY <1>2 DEF PInv, GotBelongs
<1> QED
  BY <1>4, <1>5, <1>6, <1>7 DEF PInv

LEMMA StartPInv ==
  ASSUME PInv, Start
  PROVE  PInv'
<1> DEFINE i == starting
<1>1. /\ i \in Chan /\ starting' = i + 1
      /\ id' = [id EXCEPT ![i] = NextId] \/ id' = id
      /\ UNCHANGED <<held, copy, st, net, sends, got, reset, down, gone>>
  BY DEF Start
<1>2. \A k \in Chan : id[k] # None => k < i
  BY DEF PInv, IdsInOrder
<1>3. {k \in Chan : id[k] # None} = LowerStarted(i)
  BY <1>2 DEF LowerStarted
<1>4. NextId \in Chan /\ NextId # None
  <2>1. Cardinality(LowerStarted(i)) \in Chan
    BY <1>1, CountBelow DEF LowerStarted
  <2> QED
    BY <1>3, <2>1, ChanFacts DEF NextId
<1>5. id[i] = None
  BY <1>1, <1>2, ChanFacts
<1>6. \A k \in Chan \ {i} : id'[k] = id[k]
  BY <1>1 DEF PInv, TypeOK
<1>7. TypeOK'
  BY <1>1, <1>4, ChanFacts DEF PInv, TypeOK
<1>8. ASSUME NEW c \in Chan, c <= i PROVE LowerStarted(c)' = LowerStarted(c)
  <2>1. \A k \in Chan : k < c => k # i
    BY <1>1, <1>8, ChanFacts
  <2> QED
    BY <1>6, <2>1 DEF LowerStarted
<1>9. IdsInOrder'
  <2> SUFFICES ASSUME NEW k \in Chan, id'[k] # None
               PROVE  starting' # None /\ k < starting'
                      /\ id'[k] = Cardinality(LowerStarted(k)')
    BY DEF IdsInOrder
  <2>1. CASE k = i
    <3>1. id'[k] = Cardinality(LowerStarted(i))
      BY <1>1, <1>3, <1>5, <2>1 DEF NextId, PInv, TypeOK
    <3>2. LowerStarted(k)' = LowerStarted(i)
      BY <1>8, <2>1, ChanFacts
    <3> QED
      BY <1>1, <2>1, <3>1, <3>2, ChanFacts
  <2>2. CASE k # i
    <3>1. id[k] # None /\ id'[k] = id[k]
      BY <1>6, <2>2
    <3>2. k < i /\ id[k] = Cardinality(LowerStarted(k))
      BY <3>1 DEF PInv, IdsInOrder
    <3>3. LowerStarted(k)' = LowerStarted(k)
      BY <1>1, <1>8, <3>2, ChanFacts
    <3> QED
      BY <1>1, <3>1, <3>2, <3>3, ChanFacts
  <2> QED
    BY <2>1, <2>2
<1>10. StreamsBelong'
  <2>1. \A k \in Chan : id[k] # None => id'[k] = id[k]
    BY <1>5, <1>6
  <2>2. \A e \in End, k \in Chan, c \in Chan : Belongs(e, k, c) => Belongs(e, k, c)'
    BY <2>1, ChanFacts DEF Belongs
  <2>3. \A e \in End, c \in Chan : held[e][c] \in Chan \cup {None}
    BY DEF PInv, TypeOK
  <2>4. \A e \in End : copy[e] # NoCopy => copy[e].strm \in Chan /\ copy[e].chan \in Chan
    BY DEF PInv, TypeOK
  <2>5. \A e \in End : \A m \in net[e] : m[1] \in Chan /\ m[2] \in Chan
    BY DEF PInv, TypeOK
  <2> QED
    BY <1>1, <2>2, <2>3, <2>4, <2>5, OtherEnd DEF PInv, StreamsBelong
<1>11. GotBelongs'
  <2>1. got["server"] # NoMessage => got["server"][1] \in Chan
    BY DEF PInv, TypeOK, End
  <2> QED
    BY <1>1, <1>5, <1>6, <2>1 DEF PInv, GotBelongs
<1> QED
  BY <1>7, <1>9, <1>10, <1>11 DEF PInv

LEMMA PeerStreamStartedPInv ==
  ASSUME PInv, NEW i \in Chan, PeerStreamStarted(i)
  PROVE  PInv'
<1>1. /\ id[i] # None
      /\ held' = [held EXCEPT !["server"][id[i]] = i]
      /\ st' = [st EXCEPT !["server"][i] = "open"]
      /\ UNCHANGED <<starting, id, copy, net, sends, got, reset, down, gone>>
  BY DEF PeerStreamStarted, ChannelOf
<1>2. id[i] \in Chan
  BY <1>1 DEF PInv, TypeOK
<1>3. TypeOK'
  BY <1>1, <1>2 DEF PInv, TypeOK, End
<1>4. IdsInOrder' /\ GotBelongs'
  BY <1>1, IdsUnchanged
<1>5. StreamsBelong'
  <2>1. \A e \in End, c \in Chan : held'[e][c] # None => Belongs(e, held'[e][c], c)
    <3> SUFFICES ASSUME NEW e \in End, NEW c \in Chan, held'[e][c] # None
                 PROVE  Belongs(e, held'[e][c], c)
      OBVIOUS
    <3>1. CASE e = "server" /\ c = id[i]
      BY <1>1, <1>2, <3>1, ChanFacts DEF PInv, TypeOK, Belongs
    <3>2. CASE ~(e = "server" /\ c = id[i])
      <4>1. held'[e][c] = held[e][c]
        BY <1>1, <1>2, <3>2 DEF PInv, TypeOK
      <4> QED
        BY <4>1 DEF PInv, StreamsBelong
    <3> QED
      BY <3>1, <3>2
  <2> QED
    BY <1>1, <2>1 DEF PInv, StreamsBelong, Belongs
<1> QED
  BY <1>3, <1>4, <1>5 DEF PInv

LEMMA CopyHandlePInv ==
  ASSUME PInv, NEW e \in End, NEW c \in Chan, CopyHandle(e, c)
  PROVE  PInv'
<1> DEFINE y == [strm |-> held[e][c], chan |-> c]
<1>1. /\ held[e][c] # None /\ copy' = [copy EXCEPT ![e] = y]
      /\ UNCHANGED <<starting, id, held, st, net, sends, got, reset, down, gone>>
  BY DEF CopyHandle
<1>2. y \in [strm : Chan, chan : Chan]
  BY <1>1 DEF PInv, TypeOK
<1>3. TypeOK'
  BY <1>1, <1>2 DEF PInv, TypeOK
<1>4. IdsInOrder' /\ GotBelongs'
  BY <1>1, IdsUnchanged
<1>5. Belongs(e, held[e][c], c)
  BY <1>1 DEF PInv, StreamsBelong
<1>6. StreamsBelong'
  BY <1>1, <1>5 DEF PInv, TypeOK, StreamsBelong, Belongs
<1> QED
  BY <1>3, <1>4, <1>6 DEF PInv

LEMMA SendPInv ==
  ASSUME PInv, NEW e \in End, Send(e)
  PROVE  PInv'
<1> DEFINE o == Other(e)
           m == <<copy[e].strm, copy[e].chan>>
<1>1. /\ copy[e] # NoCopy /\ sends < NumSends /\ sends' = sends + 1
      /\ net' = [net EXCEPT ![o] = @ \cup {m}]
      /\ UNCHANGED <<starting, id, held, copy, st, got, reset, down, gone>>
  BY DEF Send
<1>2. copy[e] \in [strm : Chan, chan : Chan]
  BY <1>1 DEF PInv, TypeOK
<1>3. m \in Chan \X Chan /\ o \in End /\ Other(o) = e
  BY <1>2, OtherEnd DEF End
<1>4. TypeOK'
  <2>1. net' \in [End -> SUBSET (Chan \X Chan)]
    BY <1>1, <1>3 DEF PInv, TypeOK
  <2>2. sends' \in 0 .. NumSends
    BY <1>1, StreamsAssumption DEF PInv, TypeOK
  <2> QED
    BY <1>1, <2>1, <2>2 DEF PInv, TypeOK
<1>5. IdsInOrder' /\ GotBelongs'
  BY <1>1, IdsUnchanged
<1>6. StreamsBelong'
  <2>1. Belongs(e, m[1], m[2])
    BY <1>1 DEF PInv, StreamsBelong
  <2>2. \A f \in End : \A n \in net'[f] : n \in net[f] \/ (f = o /\ n = m)
    BY <1>1, <1>3 DEF PInv, TypeOK
  <2>3. \A f \in End : \A n \in net'[f] : Belongs(Other(f), n[1], n[2])
    BY <1>3, <2>1, <2>2 DEF PInv, StreamsBelong
  <2> QED
    BY <1>1, <2>3 DEF PInv, StreamsBelong, Belongs
<1> QED
  BY <1>4, <1>5, <1>6 DEF PInv

LEMMA ReceivePInv ==
  ASSUME PInv, NEW e \in End, NEW m \in net[e], Receive(e, m)
  PROVE  PInv'
<1>1. /\ id[m[1]] # None
      /\ net' = [net EXCEPT ![e] = @ \ {m}]
      /\ got' = [got EXCEPT ![e] = <<m[2], id[m[1]]>>]
      /\ UNCHANGED <<starting, id, held, copy, st, sends, reset, down, gone>>
  BY DEF Receive, ChannelOf
<1>2. m[1] \in Chan /\ m[2] \in Chan /\ id[m[1]] \in Chan
  BY <1>1 DEF PInv, TypeOK
<1>3. TypeOK'
  BY <1>1, <1>2 DEF PInv, TypeOK
<1>4. IdsInOrder'
  BY <1>1 DEF PInv, IdsInOrder, LowerStarted
<1>5. Belongs(Other(e), m[1], m[2])
  BY DEF PInv, StreamsBelong
<1>6. \A f \in End \ {e} : got'[f] = got[f]
  BY <1>1 DEF PInv, TypeOK
<1>7. got'[e] = <<m[2], id[m[1]]>>
  BY <1>1 DEF PInv, TypeOK
<1>8. GotBelongs'
  <2>1. CASE e = "client"
    <3>1. id[m[1]] = m[2]
      BY <1>5, <2>1, OtherEnd, ChanFacts DEF Belongs
    <3> QED
      BY <1>1, <1>6, <1>7, <2>1, <3>1, ChanFacts DEF PInv, GotBelongs
  <2>2. CASE e = "server"
    <3>1. m[1] = m[2]
      BY <1>5, <2>2, OtherEnd, ChanFacts DEF Belongs
    <3> QED
      BY <1>1, <1>6, <1>7, <2>2, <3>1, ChanFacts DEF PInv, GotBelongs
  <2> QED
    BY <2>1, <2>2, ChanFacts
<1>9. StreamsBelong'
  <2>1. \A f \in End : net'[f] \subseteq net[f]
    BY <1>1 DEF PInv, TypeOK
  <2> QED
    BY <1>1, <2>1 DEF PInv, StreamsBelong, Belongs
<1> QED
  BY <1>3, <1>4, <1>8, <1>9 DEF PInv

\* Steps that let go of handles, of copies or of what is under way.
LEMMA FewerBelong ==
  ASSUME PInv, UNCHANGED id,
         \A e \in End, c \in Chan : held'[e][c] \in {None, held[e][c]},
         \A e \in End : copy'[e] \in {NoCopy, copy[e]},
         \A e \in End : net'[e] \subseteq net[e]
  PROVE  StreamsBelong'
  BY DEF PInv, StreamsBelong, Belongs

LEMMA DropCopyPInv ==
  ASSUME PInv, NEW e \in End, DropCopy(e)
  PROVE  PInv'
<1>1. /\ copy' = [copy EXCEPT ![e] = NoCopy] /\ st' = [st EXCEPT ![e] = Deleted(e)]
      /\ UNCHANGED <<starting, id, held, net, sends, got, reset, down, gone>>
  BY DEF DropCopy
<1>2. st' \in [End -> [Chan -> {"none", "open", "shut", "closed"}]]
  BY <1>1, DeletedTyped DEF PInv
<1>3. TypeOK'
  BY <1>1, <1>2 DEF PInv, TypeOK
<1>4. StreamsBelong'
  BY <1>1, FewerBelong DEF PInv, TypeOK
<1> QED
  BY <1>1, <1>3, <1>4, IdsUnchanged DEF PInv

LEMMA ResetPInv ==
  ASSUME PInv, NEW e \in End, BeginReset(e) \/ ResetChannel(e)
  PROVE  PInv'
<1>1. CASE BeginReset(e)
  <2>1. TypeOK'
    BY <1>1, ChanFacts DEF BeginReset, PInv, TypeOK
  <2> QED
    BY <1>1, <2>1, FewerBelong, IdsUnchanged DEF BeginReset, PInv
<1>2. CASE ResetChannel(e)
  <2> DEFINE r == reset[e]
  <2>1. /\ r \in Chan /\ reset' = [reset EXCEPT ![e] = r + 1]
        /\ held' = [held EXCEPT ![e][r] = None]
        /\ st' = [st EXCEPT ![e] = Deleted(e)]
        /\ UNCHANGED <<starting, id, copy, net, sends, got, down, gone>>
    BY <1>2 DEF ResetChannel
  <2>2. st' \in [End -> [Chan -> {"none", "open", "shut", "closed"}]]
    BY <2>1, DeletedTyped DEF PInv
  <2>3. reset' \in [End -> {None} \cup 0 .. NumChannels]
    BY <2>1, ChanFacts DEF PInv, TypeOK
  <2>4. /\ held' \in [End -> [Chan -> Chan \cup {None}]]
        /\ \A f \in End, c \in Chan : held'[f][c] \in {None, held[f][c]}
    BY <2>1 DEF PInv, TypeOK
  <2>5. TypeOK'
    BY <2>1, <2>2, <2>3, <2>4 DEF PInv, TypeOK
  <2>6. StreamsBelong'
    BY <2>1, <2>4, FewerBelong
  <2> QED
    BY <2>1, <2>5, <2>6, IdsUnchanged DEF PInv
<1> QED
  BY <1>1, <1>2

LEMMA ConnectionPInv ==
  ASSUME PInv, ConnectionLost \/ \E e \in End : Work(e)
  PROVE  PInv'
<1>1. CASE ConnectionLost
  <2>1. TypeOK'
    BY <1>1 DEF ConnectionLost, PInv, TypeOK
  <2> QED
    BY <1>1, <2>1, FewerBelong, IdsUnchanged DEF ConnectionLost, PInv
<1>2. ASSUME NEW e \in End, NEW i \in Chan,
             PeerReceiveAborted(e, i) \/ SendShutdownComplete(e, i)
      PROVE  PInv'
  <2>1. /\ st' = [st EXCEPT ![e][i] = "shut"] \/ st' = [st EXCEPT ![e][i] = "closed"]
        /\ UNCHANGED <<starting, id, held, copy, net, sends, got, reset, down, gone>>
    BY <1>2 DEF PeerReceiveAborted, SendShutdownComplete, AfterSendShutdown
  <2>2. TypeOK'
    BY <2>1 DEF PInv, TypeOK
  <2> QED
    BY <2>1, <2>2, FewerBelong, IdsUnchanged DEF PInv
<1>3. ASSUME NEW e \in End, ShutdownComplete(e)
      PROVE  PInv'
  <2>1. /\ gone' = gone \cup {e}
        /\ held' = [held EXCEPT ![e] = [c \in Chan |-> None]]
        /\ st' = [st EXCEPT ![e] = Deleted(e)]
        /\ UNCHANGED <<starting, id, copy, net, sends, got, reset, down>>
    BY <1>3 DEF ShutdownComplete
  <2>2. st' \in [End -> [Chan -> {"none", "open", "shut", "closed"}]]
    BY <2>1, DeletedTyped DEF PInv
  <2>3. /\ held' \in [End -> [Chan -> Chan \cup {None}]]
        /\ \A f \in End, c \in Chan : held'[f][c] \in {None, held[f][c]}
    BY <2>1 DEF PInv, TypeOK
  <2>4. TypeOK'
    BY <2>1, <2>2, <2>3 DEF PInv, TypeOK
  <2>5. StreamsBelong'
    BY <2>1, <2>3, FewerBelong
  <2> QED
    BY <2>1, <2>4, <2>5, IdsUnchanged DEF PInv
<1> QED
  BY <1>1, <1>2, <1>3 DEF Work

LEMMA NextPInv == PInv /\ [Next]_vars => PInv'
<1> SUFFICES ASSUME PInv, [Next]_vars PROVE PInv'
  OBVIOUS
<1>1. CASE UNCHANGED vars
  BY <1>1, FewerBelong, IdsUnchanged DEF vars, PInv, TypeOK
<1>2. CASE Next
  BY <1>2, OpenPInv, StartPInv, PeerStreamStartedPInv, CopyHandlePInv, SendPInv,
     ReceivePInv, DropCopyPInv, ResetPInv, ConnectionPInv DEF Next
<1> QED
  BY <1>1, <1>2

LEMMA PInductive == Spec => []PInv
  BY InitPInv, NextPInv, PTL DEF Spec

(***************************************************************************)
(* The variables keep their types: every id tells a channel the server     *)
(* has, also when StreamOpen failed for some streams (StartClient,         *)
(* PEER_STREAM_STARTED).                                                   *)
(***************************************************************************)
THEOREM TypeCorrect == Spec => []TypeOK
<1>1. PInv => TypeOK
  BY DEF PInv
<1> QED
  BY <1>1, PInductive, PTL

(***************************************************************************)
(* A message arrives on the channel it was sent on: what the server sends, *)
(* and what the client sends if all streams of lower channels were started *)
(* (StartClient, PEER_STREAM_STARTED, RECEIVE).                            *)
(***************************************************************************)
THEOREM ReceivedOnOwnChannel == Spec => []OwnChannel
<1>1. PInv => OwnChannel
  <2> SUFFICES ASSUME PInv, got["server"] # NoMessage,
                      \A k \in Chan : k < got["server"][1] => id[k] # None
               PROVE  got["server"][2] = got["server"][1]
    BY DEF PInv, GotBelongs, OwnChannel
  <2> DEFINE c == got["server"][1]
  <2>1. c \in Chan
    BY ChanFacts DEF PInv, TypeOK
  <2>2. LowerStarted(c) = 0 .. c - 1
    BY <2>1, StreamsAssumption DEF LowerStarted, Chan
  <2>3. Cardinality(0 .. c - 1) = c
    <3> HIDE DEF c
    <3>1. 0 \in Int /\ c - 1 \in Int /\ c \in Nat
      BY <2>1, StreamsAssumption DEF Chan
    <3>2. Cardinality(0 .. c - 1) = IF 0 > c - 1 THEN 0 ELSE (c - 1) - 0 + 1
      BY <3>1, FS_Interval
    <3> QED
      BY <3>1, <3>2
  <2> QED
    BY <2>1, <2>2, <2>3 DEF PInv, IdsInOrder, GotBelongs
<1> QED
  BY <1>1, PInductive, PTL

-----------------------------------------------------------------------------
LEMMA InitUInv == Init => UInv
  BY ChanFacts DEF Init, UInv, EndedByOne, UsedIsOpened, NoneBefore, InUse, NoCopy

(***************************************************************************)
(* A step that opens nothing, takes no handle that was not in use and      *)
(* shuts only what it ceases to use.                                       *)
(***************************************************************************)
LEMMA LetGoUInv ==
  ASSUME UInv, down => down', starting' = None => starting = None,
         \A e \in End, i \in Chan : InUse(e, i)' => InUse(e, i),
         \A e \in End, i \in Chan :
           \/ st'[e][i] = st[e][i]
           \/ st[e][i] = "open" /\ st'[e][i] = "shut" /\ ~InUse(e, i)'
  PROVE  UInv'
<1>1. NoneBefore'
  BY DEF UInv, NoneBefore
<1>2. UsedIsOpened'
  BY DEF UInv, UsedIsOpened
<1>3. EndedByOne'
  <2> SUFFICES ASSUME NEW i \in Chan, ~down', NEW e \in End,
                      st'[e][i] \in {"shut", "closed"}
               PROVE  \E f \in End : GivenUp(f, i)'
    BY DEF EndedByOne
  <2>1. CASE st'[e][i] = st[e][i]
    <3>1. PICK f \in End : GivenUp(f, i)
      BY <2>1 DEF UInv, EndedByOne
    <3>2. GivenUp(f, i)'
      BY <3>1 DEF GivenUp
    <3> QED
      BY <3>2
  <2>2. CASE st[e][i] = "open" /\ st'[e][i] = "shut" /\ ~InUse(e, i)'
    BY <2>2 DEF GivenUp
  <2> QED
    BY <2>1, <2>2
<1> QED
  BY <1>1, <1>2, <1>3 DEF UInv

\* An event that ends a stream that had already ended at one of the ends, or
\* whose connection is down.
LEMMA EndUInv ==
  ASSUME PInv, UInv, NEW e \in End, NEW i \in Chan,
         PeerReceiveAborted(e, i) \/ SendShutdownComplete(e, i)
  PROVE  UInv'
<1>1. /\ st' = [st EXCEPT ![e][i] = "shut"] \/ st' = [st EXCEPT ![e][i] = "closed"]
      /\ UNCHANGED <<starting, id, held, copy, net, sends, got, reset, down, gone>>
  BY DEF PeerReceiveAborted, SendShutdownComplete, AfterSendShutdown
<1>2. st[e][i] # "none" /\ (down \/ \E f \in End : st[f][i] \in {"shut", "closed"})
  BY OtherEnd DEF PeerReceiveAborted, SendShutdownComplete
<1>3. /\ st'[e][i] \in {"shut", "closed"}
      /\ \A f \in End, k \in Chan : (f # e \/ k # i) => st'[f][k] = st[f][k]
  BY <1>1 DEF PInv, TypeOK
<1>4. \A f \in End, k \in Chan : InUse(f, k)' <=> InUse(f, k)
  BY <1>1 DEF InUse
<1>5. NoneBefore' /\ UsedIsOpened'
  BY <1>1, <1>2, <1>3, <1>4 DEF UInv, NoneBefore, UsedIsOpened
<1>6. EndedByOne'
  <2> SUFFICES ASSUME NEW k \in Chan, ~down, NEW g \in End,
                      st'[g][k] \in {"shut", "closed"}
               PROVE  \E f \in End : GivenUp(f, k)'
    BY <1>1 DEF EndedByOne
  <2>1. \E f \in End : st[f][k] \in {"shut", "closed"}
    BY <1>2, <1>3
  <2>2. PICK f \in End : GivenUp(f, k)
    BY <2>1 DEF UInv, EndedByOne
  <2>3. GivenUp(f, k)'
    BY <1>3, <1>4, <2>2 DEF GivenUp
  <2> QED
    BY <2>3
<1> QED
  BY <1>5, <1>6 DEF UInv

LEMMA OpenUInv ==
  ASSUME PInv, UInv, Open
  PROVE  UInv'
<1>1. PICK failed \in SUBSET Chan :
        /\ held' = [held EXCEPT !["client"] =
             [c \in Chan |-> IF c \in failed THEN None ELSE c]]
        /\ st' = [st EXCEPT !["client"] =
             [i \in Chan |-> IF i \in failed THEN "none" ELSE "open"]]
  BY DEF Open
<1>2. starting = None /\ starting' = 0 /\ copy' = copy
  BY DEF Open
<1>3. \A e \in End, i \in Chan : st[e][i] = "none" /\ ~InUse(e, i)
  BY <1>2 DEF UInv, NoneBefore, UsedIsOpened
<1>4. \A e \in End, i \in Chan :
        /\ st'[e][i] \in {"none", "open"}
        /\ st'[e][i] = "none" => ~InUse(e, i)'
  BY <1>1, <1>2, <1>3, ChanFacts DEF PInv, TypeOK, InUse
<1>5. NoneBefore'
  BY <1>2, ChanFacts DEF NoneBefore
<1> QED
  BY <1>4, <1>5 DEF UInv, EndedByOne, UsedIsOpened

LEMMA PeerStreamStartedUInv ==
  ASSUME PInv, UInv, NEW i \in Chan, PeerStreamStarted(i)
  PROVE  UInv'
<1>1. /\ id[i] # None /\ st["server"][i] = "none"
      /\ held' = [held EXCEPT !["server"][id[i]] = i]
      /\ st' = [st EXCEPT !["server"][i] = "open"]
      /\ UNCHANGED <<starting, copy, down>>
  BY DEF PeerStreamStarted, ChannelOf
<1>2. \A f \in End, k \in Chan : f = "client" \/ k # i =>
        st'[f][k] = st[f][k] /\ (InUse(f, k)' => InUse(f, k))
  BY <1>1 DEF PInv, TypeOK, InUse
<1>3. st'["server"][i] = "open"
  BY <1>1 DEF PInv, TypeOK, End
<1>4. NoneBefore'
  BY <1>1 DEF PInv, IdsInOrder, NoneBefore
<1>5. UsedIsOpened'
  BY <1>2, <1>3, ChanFacts DEF UInv, UsedIsOpened
<1>6. EndedByOne'
  <2> SUFFICES ASSUME NEW k \in Chan, ~down, NEW g \in End,
                      st'[g][k] \in {"shut", "closed"}
               PROVE  \E f \in End : GivenUp(f, k)'
    BY <1>1 DEF EndedByOne
  <2>1. st[g][k] \in {"shut", "closed"}
    BY <1>2, <1>3, ChanFacts
  <2>2. PICK f \in End : GivenUp(f, k)
    BY <2>1 DEF UInv, EndedByOne
  <2>3. f = "client" \/ k # i
    BY <1>1, <2>2, ChanFacts DEF GivenUp
  <2>4. GivenUp(f, k)'
    BY <1>2, <2>2, <2>3 DEF GivenUp
  <2> QED
    BY <2>4
<1> QED
  BY <1>4, <1>5, <1>6 DEF UInv

LEMMA CopyHandleUInv ==
  ASSUME PInv, UInv, NEW e \in End, NEW c \in Chan, CopyHandle(e, c)
  PROVE  UInv'
<1>1. /\ copy' = [copy EXCEPT ![e] = [strm |-> held[e][c], chan |-> c]]
      /\ UNCHANGED <<starting, held, st, down>>
  BY DEF CopyHandle
<1>2. \A f \in End, i \in Chan : InUse(f, i)' => InUse(f, i)
  BY <1>1 DEF PInv, TypeOK, InUse
<1> QED
  BY <1>1, <1>2, LetGoUInv

LEMMA DeleteUInv ==
  ASSUME PInv, UInv, NEW e \in End,
         DropCopy(e) \/ ResetChannel(e) \/ ShutdownComplete(e)
  PROVE  UInv'
<1>1. st' = [st EXCEPT ![e] = Deleted(e)] /\ UNCHANGED <<starting, down>>
  BY DEF DropCopy, ResetChannel, ShutdownComplete
<1>2. \A f \in End, i \in Chan : InUse(f, i)' => InUse(f, i)
  <2>1. \A f \in End, c \in Chan : held'[f][c] \in {None, held[f][c]}
    BY DEF DropCopy, ResetChannel, ShutdownComplete, PInv, TypeOK
  <2>2. \A f \in End : copy'[f] \in {NoCopy, copy[f]}
    BY DEF DropCopy, ResetChannel, ShutdownComplete, PInv, TypeOK
  <2> SUFFICES ASSUME NEW f \in End, NEW i \in Chan, InUse(f, i)'
               PROVE  InUse(f, i)
    OBVIOUS
  <2>3. CASE copy'[f].strm = i
    <3>1. copy'[f] = copy[f]
      BY <2>2, <2>3, ChanFacts DEF NoCopy
    <3> QED
      BY <2>3, <3>1 DEF InUse
  <2>4. CASE \E c \in Chan : held'[f][c] = i
    BY <2>1, <2>4, ChanFacts DEF InUse
  <2> QED
    BY <2>3, <2>4 DEF InUse
<1>3. \A f \in End, i \in Chan :
        \/ st'[f][i] = st[f][i]
        \/ st[f][i] = "open" /\ st'[f][i] = "shut" /\ ~InUse(f, i)'
  <2>1. \A f \in End, i \in Chan :
          \/ st'[f][i] = st[f][i]
          \/ f = e /\ st[e][i] = "open" /\ st'[e][i] = "shut"
    BY <1>1, DeletedTyped DEF PInv
  <2>2. \A i \in Chan : st[e][i] = "open" /\ st'[e][i] = "shut" => ~InUse(e, i)'
    BY <1>1, DeletedTyped DEF PInv
  <2> QED
    BY <2>1, <2>2
<1> QED
  BY <1>1, <1>2, <1>3, LetGoUInv

LEMMA NextUInv == PInv /\ UInv /\ [Next]_vars => UInv'
<1> SUFFICES ASSUME PInv, UInv, [Next]_vars PROVE UInv'
  OBVIOUS
<1>1. ASSUME UNCHANGED <<held, copy, st>>, down => down',
             starting' = None => starting = None
      PROVE  UInv'
  BY <1>1, LetGoUInv DEF InUse
<1>2. CASE Start
  <2>1. starting' # None /\ UNCHANGED <<held, copy, st, down>>
    BY <1>2, ChanFacts DEF Start
  <2> QED
    BY <1>1, <2>1
<1>3. CASE ConnectionLost
  BY <1>1, <1>3 DEF ConnectionLost
<1>4. ASSUME NEW e \in End, Send(e) PROVE UInv'
  BY <1>1, <1>4 DEF Send
<1>5. ASSUME NEW e \in End, NEW m \in net[e], Receive(e, m) PROVE UInv'
  BY <1>1, <1>5 DEF Receive
<1>6. ASSUME NEW e \in End, BeginReset(e) PROVE UInv'
  BY <1>1, <1>6 DEF BeginReset
<1>7. CASE UNCHANGED vars
  BY <1>1, <1>7 DEF vars
<1> QED
  BY <1>2, <1>3, <1>4, <1>5, <1>6, <1>7, OpenUInv, PeerStreamStartedUInv,
     CopyHandleUInv, DeleteUInv, EndUInv DEF Next, Work

(***************************************************************************)
(* What both ends use is open while the connection is up: a stream ends    *)
(* only once one of its ends has let go of the last handle (SharedStream,  *)
(* PEER_RECEIVE_ABORTED, SEND_SHUTDOWN_COMPLETE).                          *)
(***************************************************************************)
THEOREM OpenWhileUsed == Spec => []OpenWhileBothUse
<1>1. PInv /\ UInv => OpenWhileBothUse
  <2> SUFFICES ASSUME PInv, UInv, NEW i \in Chan, ~down,
                      \A e \in End : InUse(e, i), NEW e \in End
               PROVE  st[e][i] = "open"
    BY DEF OpenWhileBothUse
  <2>1. st[e][i] \notin {"shut", "closed"}
    BY DEF UInv, EndedByOne, GivenUp
  <2>2. st[e][i] # "none"
    BY DEF UInv, UsedIsOpened
  <2> QED
    BY <2>1, <2>2 DEF PInv, TypeOK
<1>2. UInv /\ PInv /\ [Next]_vars => UInv'
  BY NextUInv
<1> QED
  BY <1>1, <1>2, InitUInv, PInductive, PTL DEF Spec
=============================================================================
