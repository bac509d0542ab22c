------------------------------ MODULE Accesses ------------------------------
(***************************************************************************)
(* What the pintool sends to the hierarchy (src/src/roeval.cc, class       *)
(* Access of src/src/Cache.hh): instruction fetches, data reads and data   *)
(* writes.  An address is the block it lies in, the block address divided  *)
(* by the block size; 0, the address an empty CacheEntry has, is no block  *)
(* of a program.                                                           *)
(***************************************************************************)
EXTENDS Integers

CONSTANTS InstBlocks,  \* the blocks the program fetches instructions from
          DataBlocks   \* the blocks it reads and writes

Blocks == InstBlocks \cup DataBlocks

ASSUME BlocksAssumption == Blocks \subseteq Nat \ {0}

NoBlock == 0

Requests ==
  [block : InstBlocks, cmd : {"INST_READ"}] \cup
  [block : DataBlocks, cmd : {"DATA_READ", "DATA_WRITE"}]

IsWrite(r) == r.cmd = "DATA_WRITE"
IsInstFetch(r) == r.cmd = "INST_READ"
=============================================================================
