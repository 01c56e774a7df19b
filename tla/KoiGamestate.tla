---------------------------- MODULE KoiGamestate -----------------------------
(***************************************************************************)
(* A game whose state is kept by two platforms, out of what rpng.h and     *)
(* checksum.h offer: generators, a range of integers and an unordered map. *)
(* Both do the same; they differ in how the range lies in memory and in    *)
(* the order in which they iterate over the map.                           *)
(***************************************************************************)
EXTENDS KoiRandom, KoiChecksum

CONSTANTS
  Platform,  \* the platforms
  Values,    \* the elements that are used
  MaxLen,    \* how long the range may become
  MaxKeys    \* how many keys the map may have

ASSUME GamestateAssumption ==
  Values \subseteq Element /\ MaxLen \in Nat /\ MaxKeys \in Nat

VARIABLES
  range,   \* the range
  order    \* order[p]: the map, as p iterates over it

vars == <<randomVars, range, order>>

Init ==
  /\ RandomInit
  /\ range = <<>> /\ order = [p \in Platform |-> <<>>]

Push ==
  /\ Len(range) < MaxLen
  /\ \E x \in Values : range' = Append(range, x)
  /\ UNCHANGED <<randomVars, order>>

\* Each platform has a place of its own for a new key.
Emplace ==
  \E k \in Values, v \in Values :
    /\ \A p \in Platform : /\ Len(order[p]) < MaxKeys
                           /\ \A i \in DOMAIN order[p] : order[p][i][1] # k
    /\ \E at \in [Platform -> 1 .. MaxKeys] :
         /\ \A p \in Platform : at[p] <= Len(order[p]) + 1
         /\ order' = [p \in Platform |-> InsertAt(order[p], at[p], <<k, v>>)]
    /\ UNCHANGED <<randomVars, range>>

Next ==
  \/ Draw /\ UNCHANGED <<range, order>>
  \/ Push
  \/ Emplace

Spec == Init /\ [][Next]_vars

-----------------------------------------------------------------------------
(***************************************************************************)
(* checksum.h:246, "Equivalent to the runtime version", and checksum.h:142 *)
(* "must be identical across platforms": a range has one checksum, whether *)
(* its size is known, its elements lie in memory, or neither               *)
(* (HashIntRange_impl and HashIntSizedRange_impl).                         *)
(***************************************************************************)
RangesAgree ==
  /\ SizedEnds(range)
  /\ \A contiguous \in BOOLEAN :
       HashIntSizedRange_impl(range, contiguous) = HashIntRange_impl(range)

(***************************************************************************)
(* checksum.h:142 for unordered containers: the checksum is the same in    *)
(* whatever order a platform iterates (GetChecksum of unordered_set and of *)
(* unordered_map).                                                         *)
(***************************************************************************)
Keys(s) == [i \in DOMAIN s |-> s[i][1]]

OrderDoesNotMatter ==
  \A p, q \in Platform :
    /\ UnorderedSet(Keys(order[p])) = UnorderedSet(Keys(order[q]))
    /\ UnorderedMap(order[p]) = UnorderedMap(order[q])

-----------------------------------------------------------------------------
\* checksum.h:377: "we simply sum the checksum of each element".
SumsChecksums ==
  \A p \in Platform :
    LET keys == Keys(order[p])
    IN UnorderedSet(keys) =
         MixValue64(Hash64(Len(keys)),
                    FoldLeft(LAMBDA sum, x : U64(sum + GetChecksum(x)), 0, keys))
=============================================================================
