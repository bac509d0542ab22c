---------------------------- MODULE BlockAddress ----------------------------
(***************************************************************************)
(* From an address to the block it lies in and the set of a cache: bitRemove *)
(* (src/src/common.cc) on words, and its callers in HybridCache and          *)
(* Directory.  A word is the set of its bits that are 1, bit 0 the lowest:   *)
(* the operators & and | are the intersection and the union, and a number   *)
(* is below 2^n when all its bits are below n.  The callers ask for the bits *)
(* up to 64 to be removed, and a shift of a 64-bit word by 65 is undefined.  *)
(***************************************************************************)
EXTENDS Integers

CONSTANTS
  Width,        \* the bits of a uint64_t (64)
  MaxBlockBits, \* bound: log2 of the block size (6)
  MaxSetBits    \* bound: log2 of the number of sets

ASSUME BlockAddressAssumption ==
  /\ Width \in Nat /\ MaxBlockBits \in Nat /\ MaxSetBits \in Nat
  /\ 2 <= MaxBlockBits /\ MaxBlockBits + MaxSetBits <= Width

VARIABLES
  blockBits, setBits,  \* log2 of m_blocksize and m_nb_set
  overshift,           \* what a shift past the width does: "wraps" to the
                       \* remainder, as the processor's, or "clears" the word
  address              \* the address accessed last

addressVars == <<blockBits, setBits, overshift, address>>

Bits == 0 .. (Width - 1)
Words == SUBSET Bits

m_start_index == blockBits - 1
m_end_index == blockBits + setBits

BlockAddressTypeOK ==
  /\ blockBits \in 2 .. MaxBlockBits /\ setBits \in 0 .. MaxSetBits
  /\ overshift \in {"wraps", "clears"}
  /\ address \in Words

-----------------------------------------------------------------------------
\* (uint64_t)~0 << n.
OnesFrom(n) ==
  CASE n < Width -> {i \in Bits : i >= n}
    [] n >= Width /\ overshift = "wraps" -> {i \in Bits : i >= n % Width}
    [] OTHER -> {}

\* ~mask, and word >> n.
Complement(mask) == Bits \ mask
ShiftRight(word, n) == {i \in Bits : i + n \in word}

\* Mutant: the bits from 0 are removed up to big included.
BitRemoveOneMore(a, small, big) ==
  LET lower == a \cap Complement(OnesFrom(small))
      higher == ShiftRight(a \cap OnesFrom(big + 1), big - small + 1)
  IN IF small = 0 THEN a \cap OnesFrom(big + 1) ELSE higher \cup lower

\* From 0 the bits below big are cleared; from elsewhere those from small to big,
\* both included, are taken out and the higher ones moved down.
BitRemove(a, small, big) ==
  LET lower == a \cap Complement(OnesFrom(small))
      higher == ShiftRight(a \cap OnesFrom(big + 1), big - small + 1)
  IN IF small = 0 THEN a \cap OnesFrom(big) ELSE higher \cup lower

\* The key of m_tag_index and of the directory.
BlockOf(a) == BitRemove(a, 0, m_start_index + 1)

AddressToCacheSet(a) ==
  ShiftRight(BitRemove(BitRemove(a, 0, m_start_index), m_end_index, Width),
             m_start_index + 1)

\* Also the index function of the directory.
BlockAddressToCacheSet(b) ==
  ShiftRight(BitRemove(b, m_end_index, Width), m_start_index + 1)

BlockAddressInit ==
  /\ blockBits \in 2 .. MaxBlockBits /\ setBits \in 0 .. MaxSetBits
  /\ overshift \in {"wraps", "clears"}
  /\ address = {}

BlockAddressNext == /\ address' \in Words
                    /\ UNCHANGED <<blockBits, setBits, overshift>>

BlockAddressSpec == BlockAddressInit /\ [][BlockAddressNext]_addressVars

-----------------------------------------------------------------------------
\* Whatever the undefined shift gives, the set is one of the cache's, as both
\* callers assert (HybridCache.cc:591, 667), and the set of an access is that of
\* the block it is indexed by, so that handleWB, given the block, looks in the set
\* where handleAccess, given the address, put it.  Below 2^(65 - m_end_index),
\* which holds the addresses of a process, it is the block number modulo the
\* number of sets, as the other modules have it: the setBits lowest of the bits
\* from blockBits.
SetIsThatOfBlock ==
  LET set == AddressToCacheSet(address)
  IN /\ \A i \in set : i < setBits
     /\ BlockAddressToCacheSet(BlockOf(address)) = set
     /\ (\A i \in address : i < Width + 1 - m_end_index)
          => set = {i \in 0 .. (setBits - 1) : i + blockBits \in address}
=============================================================================
