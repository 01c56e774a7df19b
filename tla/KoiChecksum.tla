----------------------------- MODULE KoiChecksum -----------------------------
(***************************************************************************)
(* The checksums of checksum.h, with which peers compare their states of a *)
(* game: "must be identical across platforms".  A word is what the code    *)
(* has eight bytes for; PerWord elements of a range fit into one.          *)
(***************************************************************************)
EXTENDS Integers, Sequences, SequencesExt, Bitwise

CONSTANTS
  ElementBits,  \* bits of an element, 8 * sizeof(T)
  PerWord,      \* 8 / sizeof(T)
  CountBits,    \* bits of `chunks` (32)
  HashFactor,   \* 0xe9846af9b1a615d
  MixStart      \* 0x3c0aad46f555e0b9

WordBits == ElementBits * PerWord
U64(x) == x % 2 ^ WordBits

ASSUME ChecksumAssumption ==
  /\ ElementBits \in Nat \ {0} /\ PerWord \in Nat \ {0} /\ CountBits \in Nat
  /\ HashFactor \in Nat /\ MixStart \in Nat

\* Elements are signed.
Element == -(2 ^ (ElementBits - 1)) .. 2 ^ (ElementBits - 1) - 1

\* Mutation of ToU64WithoutSignExtension: a direct cast.
ToU64WithSignExtension(x) == U64(x)

ToU64WithoutSignExtension(x) == x % 2 ^ ElementBits

\* (x >> b) ^ x, where b of 64 bits are what s of 16 are
XorShift(x, s) == shiftR(x, (s * WordBits) \div 16) ^^ x

Hash64(x) ==
  XorShift(U64(XorShift(U64(XorShift(x, 8) * HashFactor), 8) * HashFactor), 7)

MixValue64(x, y) == Hash64(U64(MixStart + x + y))

\* for integer-like types
GetChecksum(x) == Hash64(ToU64WithoutSignExtension(x))

-----------------------------------------------------------------------------
(***************************************************************************)
(* Ranges.  The elements of one word are shifted to their places.          *)
(***************************************************************************)
Pack(ck) ==
  FoldLeftDomain(LAMBDA sum, i :
    sum | U64(ToU64WithoutSignExtension(ck[i]) * 2 ^ (ElementBits * (i - 1))), 0, ck)

\* What memcpy finds where a little-endian platform keeps a word of elements.
MemoryOf(ck) ==
  FoldRight(LAMBDA x, sum : sum * 2 ^ ElementBits + (x % 2 ^ ElementBits), ck, 0)

MixAll(words, count) == MixValue64(FoldLeft(MixValue64, 0, words), count)

\* For ranges of unknown size, and at compile time
HashIntRange_impl(r) ==
  LET from(c) == (c - 1) * PerWord
      chunk(c) == SubSeq(r, from(c) + 1, IF from(c) + PerWord < Len(r)
                                         THEN from(c) + PerWord ELSE Len(r))
  IN MixAll([c \in 1 .. (Len(r) + PerWord - 1) \div PerWord |-> Pack(chunk(c))],
            Len(r))

\* static_cast<uint32_t>(count) & ~(countPer8 - 1)
Chunks(count) == LET low == count % 2 ^ CountBits IN low - (low % PerWord)

\* The loop over the rest counts with 32 bits, and ends.
SizedEnds(r) == Len(r) - Chunks(Len(r)) < 2 ^ CountBits

\* At run time; contiguous: the elements lie in memory and memcpy is used.
HashIntSizedRange_impl(r, contiguous) ==
  LET chunks == Chunks(Len(r))
      chunk(c) == SubSeq(r, (c - 1) * PerWord + 1, c * PerWord)
      word(c) == IF contiguous THEN MemoryOf(chunk(c)) ELSE Pack(chunk(c))
      rest == IF chunks = Len(r) THEN <<>>
              ELSE <<Pack(SubSeq(r, chunks + 1, Len(r)))>>
  IN MixAll([c \in 1 .. chunks \div PerWord |-> word(c)] \o rest, Len(r))

-----------------------------------------------------------------------------
(***************************************************************************)
(* Unordered containers; s is the elements in the order they are iterated. *)
(***************************************************************************)
\* Mutation of AddUp: every element is mixed with those before it.
AddUpMixed(sum, x) == MixValue64(sum, Hash64(U64(x)))

AddUp(sum, x) == U64(sum + Hash64(U64(x)))

UnorderedSet(s) == MixValue64(Hash64(Len(s)), FoldLeft(AddUp, 0, s))

UnorderedMap(s) ==
  MixValue64(Hash64(Len(s)),
             FoldLeft(LAMBDA sum, kv : AddUp(AddUp(sum, kv[1]), kv[2]), 0, s))
=============================================================================
