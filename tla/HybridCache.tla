---------------------------- MODULE HybridCache ----------------------------
(***************************************************************************)
(* One cache of the simulator (src/src/HybridCache.cc): a tag index        *)
(* (m_tag_index) over two data arrays, SRAM and NVM, of the same sets, with *)
(* the LRU policy of src/src/ReplacementPolicy.cc in each array.           *)
(*                                                                         *)
(* A cache is a value, a record                                            *)
(*   tag   the way a block is indexed at, NoWay when it is not             *)
(*   line  the CacheEntry of each way of each set                          *)
(*   age   the recency rank of each way in its own array, 0 the latest: it *)
(*         stands for the ever growing time stamps CacheEntry::policyInfo, *)
(*         of which the policy only uses the order                         *)
(* and the methods of the class are operators that return the next value.  *)
(* The ways 0 .. sram-1 are those of m_tableSRAM, sram .. sram+nvm-1 those *)
(* of m_tableNVM, so that one number stands for a HybridLocation.          *)
(***************************************************************************)
EXTENDS Accesses

NoWay == -1  \* the index has no location for the block

-----------------------------------------------------------------------------
(***************************************************************************)
(* A geometry g gives the number of sets, the ways of each array and the   *)
(* allocation policy.                                                      *)
(***************************************************************************)
Geometries == [sets : Nat \ {0}, sram : Nat, nvm : Nat,
               policy : {"LRU", "preemptive"}]

Sets(g) == 0 .. (g.sets - 1)
Ways(g) == 0 .. (g.sram + g.nvm - 1)
Array(g, inNVM) == {w \in Ways(g) : (w >= g.sram) = inNVM}

\* The set of a block: the bits of the address between offset and tag.
SetOf(g, b) == b % g.sets

Lines == [addr : Blocks \cup {NoBlock}, valid : BOOLEAN,
          dirty : BOOLEAN, prefetch : BOOLEAN]

\* CacheEntry::initEntry.
EmptyLine == [addr |-> NoBlock, valid |-> FALSE, dirty |-> FALSE,
              prefetch |-> FALSE]

Caches(g) == [tag : [Blocks -> Ways(g) \cup {NoWay}],
              line : [Sets(g) -> [Ways(g) -> Lines]],
              age : [Sets(g) -> [Ways(g) -> Ways(g)]]]

EmptyCache(g) ==
  [tag |-> [b \in Blocks |-> NoWay],
   line |-> [s \in Sets(g) |-> [w \in Ways(g) |-> EmptyLine]],
   age |-> [s \in Sets(g) |->
             [w \in Ways(g) |-> IF w < g.sram THEN w ELSE w - g.sram]]]

-----------------------------------------------------------------------------
\* getEntry(b) != NULL, and the entry it returns: the index is asked, not the
\* valid bit.
Present(c, b) == c.tag[b] # NoWay
EntryOf(g, c, b) == c.line[SetOf(g, b)][c.tag[b]]

\* A block some way holds with its valid bit set.
Holds(g, c, b) == Present(c, b) /\ EntryOf(g, c, b).valid

\* LRUPredictor::allocateInNVM, PreemptivePredictor::allocateInNVM.
AllocateInNVM(g, isWrite) ==
  CASE g.nvm = 0  -> FALSE
    [] g.sram = 0 -> TRUE
    [] OTHER      -> g.policy = "LRU" \/ ~isWrite

\* LRUPolicy::updatePolicy: way w becomes the latest of its array.
Touch(g, c, s, w) ==
  LET a == c.age[s]
      Older(x) == x \in Array(g, w >= g.sram) /\ a[x] < a[w]
  IN [c EXCEPT !.age[s] =
        [x \in Ways(g) |-> IF x = w THEN 0
                           ELSE IF Older(x) THEN a[x] + 1 ELSE a[x]]]

\* LRUPolicy::evictPolicy: the first invalid way, else the least recent one.
Victim(g, c, s, inNVM) ==
  LET array == Array(g, inNVM)
      free == {w \in array : ~c.line[s][w].valid}
  IN IF free # {} THEN CHOOSE w \in free : \A x \in free : w <= x
     ELSE CHOOSE w \in array : \A x \in array : c.age[s][x] <= c.age[s][w]

\* Mutant: the entry is emptied and its address stays in the index.
DeallocateWayKeepsTag(c, s, w) == [c EXCEPT !.line[s][w] = EmptyLine]

\* deallocate(CacheEntry*): the entry is emptied, and its address, whatever
\* way the index has for it, leaves the index.
DeallocateWay(c, s, w) ==
  LET a == c.line[s][w].addr
  IN [c EXCEPT !.line[s][w] = EmptyLine,
               !.tag = [b \in Blocks |-> IF b = a THEN NoWay ELSE @[b]]]

\* deallocate(uint64_t): the same for the way the index has for the block.
DeallocateBlock(g, c, b) ==
  IF Present(c, b)
  THEN [c EXCEPT !.line[SetOf(g, b)][c.tag[b]] = EmptyLine, !.tag[b] = NoWay]
  ELSE c

\* The end of the miss branch of handleAccess: the victim way w is emptied and
\* given to the block (allocate), stamped (insertionPolicy), dirty if written.
Fill(g, c, b, w, isWrite, isPrefetch) ==
  LET s == SetOf(g, b)
      emptied == DeallocateWay(c, s, w)
      filled == [emptied EXCEPT
                   !.tag[b] = w,
                   !.line[s][w] = [addr |-> b, valid |-> TRUE,
                                   dirty |-> isWrite, prefetch |-> isPrefetch]]
  IN Touch(g, filled, s, w)

\* Mutant: a write that hits does not set the dirty bit.
HitStaysClean(g, c, b, isWrite) == Touch(g, c, SetOf(g, b), c.tag[b])

\* The hit branch of handleAccess: the entry is stamped, dirty if written; its
\* valid bit is neither read nor set.
Hit(g, c, b, isWrite) ==
  LET s == SetOf(g, b)
      touched == Touch(g, c, s, c.tag[b])
  IN [touched EXCEPT !.line[s][c.tag[b]].dirty = @ \/ isWrite]

\* handleWB: a dirty write back stamps the entry (updatePolicy), a clean one
\* only counts.
HandleWB(g, c, b, isDirty) ==
  IF Present(c, b) /\ isDirty THEN Touch(g, c, SetOf(g, b), c.tag[b]) ELSE c

\* Mutant: an invalidation is answered and not made.
ReceiveInvalidationKeepsValid(g, c, b) == c

\* receiveInvalidation: the valid bit is cleared, the index keeps the block; the
\* answer is the dirty bit.
ReceiveInvalidation(g, c, b) ==
  IF Present(c, b)
  THEN [c EXCEPT !.line[SetOf(g, b)][c.tag[b]].valid = FALSE]
  ELSE c
InvalidationAnswer(g, c, b) == Present(c, b) /\ EntryOf(g, c, b).dirty

\* Hierarchy::L1sdeallocate assigns the dirty bit of the LLC entry.
SetDirty(g, c, b, isDirty) ==
  IF Present(c, b)
  THEN [c EXCEPT !.line[SetOf(g, b)][c.tag[b]].dirty = isDirty]
  ELSE c

\* Mutant: the flag survives the first access.
ResetPrefetchFlagKeepsIt(g, c, b) == c

\* resetPrefetchFlag.
ResetPrefetchFlag(g, c, b) ==
  IF Present(c, b)
  THEN [c EXCEPT !.line[SetOf(g, b)][c.tag[b]].prefetch = FALSE]
  ELSE c

-----------------------------------------------------------------------------
\* The index and the data arrays agree: a block is indexed at way w exactly when
\* way w of its set has its address.
TagsAgree(g, c) ==
  \A b \in Blocks, s \in Sets(g), w \in Ways(g) :
    (c.line[s][w].addr = b) <=> (s = SetOf(g, b) /\ c.tag[b] = w)

\* A way has its valid bit set exactly when it has an address: no entry was
\* invalidated in place.
NoGhost(g, c) ==
  \A s \in Sets(g), w \in Ways(g) :
    c.line[s][w].valid <=> c.line[s][w].addr # NoBlock

\* The ranks of an array are a permutation: they order its ways totally.
RanksOrderWays(g, c) ==
  \A s \in Sets(g), w, x \in Ways(g) :
    ((w >= g.sram) = (x >= g.sram) /\ w # x) => c.age[s][w] # c.age[s][x]
=============================================================================
