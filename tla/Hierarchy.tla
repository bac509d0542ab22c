----------------------------- MODULE Hierarchy -----------------------------
(***************************************************************************)
(* The memory hierarchy (src/src/Hierarchy.cc, src/src/Level.cc): every    *)
(* core has an instruction and a data L1, all share one last level cache   *)
(* (LLC), a directory tracks which core holds which block.  The pintool    *)
(* serialises the accesses of the program with a lock, so one access is    *)
(* one step: the whole of Hierarchy::handleAccess, with the evictions, the *)
(* write backs and the prefetches it causes.                               *)
(*                                                                         *)
(* A handler is an operator from states to states, on the record           *)
(*   [l1, llc, dir, mem, aborted]                                          *)
(* of the values of the variables; a handler that calls another composes   *)
(* the two.  An assertion of the code that fails (assertions are compiled  *)
(* in) sets aborted, and the step then keeps nothing but that.             *)
(***************************************************************************)
EXTENDS HybridCache, Directory, FiniteSets

CONSTANTS
  L1Sets, L1Ways,    \* the geometry of each L1 (256 sets of 2 ways)
  LLCSets,           \* that of the LLC (2048 sets of 4 + 12 ways)
  SRAMWays, NVMWays,
  Policy,            \* the policy of the LLC
  EnablePrefetch,    \* simu_parameters.enablePrefetch
  MaxStride,         \* bound: the longest stride of a prefetch, in blocks
  StatRange          \* statistics count modulo StatRange (2^64)

L1Kinds == {"I", "D"}

L1 == [sets |-> L1Sets, sram |-> L1Ways, nvm |-> 0, policy |-> "LRU"]
LLC == [sets |-> LLCSets, sram |-> SRAMWays, nvm |-> NVMWays,
        policy |-> Policy]

ASSUME HierarchyAssumption ==
  /\ L1 \in Geometries /\ L1Ways > 0
  /\ LLC \in Geometries /\ SRAMWays + NVMWays > 0
  /\ EnablePrefetch \in BOOLEAN
  /\ MaxStride \in Nat
  /\ StatRange \in Nat \ {0}

VARIABLES
  l1,       \* the L1s: for each core, one of each kind
  llc,      \* the last level cache
  dir,      \* the directory
  mem,      \* the statistics of the traffic with the main memory
  aborted   \* an assertion has failed, the program is over

vars == <<l1, llc, dir, mem, aborted>>

Stats == {"readFetch", "writeFetch", "cleanWB", "dirtyWB",
          "issuedPrefetch", "hitPrefetch"}

TypeOK ==
  /\ l1 \in [Cores -> [L1Kinds -> Caches(L1)]]
  /\ llc \in Caches(LLC)
  /\ dir \in Directories
  /\ mem \in [Stats -> 0 .. (StatRange - 1)]
  /\ aborted \in BOOLEAN

Init ==
  /\ l1 = [n \in Cores |-> [k \in L1Kinds |-> EmptyCache(L1)]]
  /\ llc = EmptyCache(LLC)
  /\ dir = [b \in Blocks |-> NoEntry]
  /\ mem = [x \in Stats |-> 0]
  /\ aborted = FALSE

-----------------------------------------------------------------------------
(***************************************************************************)
(* States as records, and the assertions.                                  *)
(***************************************************************************)
State == [l1 |-> l1, llc |-> llc, dir |-> dir, mem |-> mem,
          aborted |-> aborted]

\* The step to s, or to the end of the program if an assertion failed.
Becomes(s) ==
  IF s.aborted
  THEN aborted' = TRUE /\ UNCHANGED <<l1, llc, dir, mem>>
  ELSE /\ l1' = s.l1 /\ llc' = s.llc /\ dir' = s.dir /\ mem' = s.mem
       /\ aborted' = FALSE

Require(s, condition) == [s EXCEPT !.aborted = @ \/ ~condition]

Count(s, x) == [s EXCEPT !.mem[x] = (@ + 1) % StatRange]

\* Level::handleAccess sends an instruction fetch to the instruction cache.
Kind(r) == IF IsInstFetch(r) THEN "I" ELSE "D"

-----------------------------------------------------------------------------
(***************************************************************************)
(* Write backs.                                                            *)
(***************************************************************************)
\* Mutant: the core stays a tracker of the block it evicts.
WBFromL1Tracked(s, n, b, isDirty, isKept) ==
  [Require(s, HasEntry(s.dir, b)) EXCEPT !.llc = HandleWB(LLC, @, b, isDirty)]

\* Hierarchy::signalWB for an L1: the core leaves the trackers unless it keeps
\* the block, and the LLC is told.
WBFromL1(s, n, b, isDirty, isKept) ==
  LET checked == Require(s, HasEntry(s.dir, b))
      untracked == IF isKept THEN s.dir ELSE RemoveTracker(s.dir, b, n)
  IN [checked EXCEPT !.dir = untracked,
                     !.llc = HandleWB(LLC, @, b, isDirty)]

\* Mutant: the entry goes only with a dirty block.
WBFromLLCIfDirty(s, b, isDirty) ==
  IF isDirty THEN [Count(s, "dirtyWB") EXCEPT !.dir = RemoveEntry(@, b)]
  ELSE Count(s, "cleanWB")

\* Hierarchy::signalWB for the LLC: the block goes to the main memory.
WBFromLLC(s, b, isDirty) ==
  LET checked == Require(s, HasEntry(s.dir, b))
      counted == Count(checked, IF isDirty THEN "dirtyWB" ELSE "cleanWB")
  IN [counted EXCEPT !.dir = RemoveEntry(@, b)]

\* HybridCache::signalWB of an L1, called by handleAccess for the victim and by
\* Level::sendInvalidation for a block the core keeps.
L1SignalWB(s, n, k, b, isKept) ==
  IF Present(s.l1[n][k], b)
  THEN WBFromL1(s, n, b, EntryOf(L1, s.l1[n][k], b).dirty, isKept)
  ELSE s

\* HybridCache::signalWB of the LLC.
LLCSignalWB(s, b) ==
  IF Present(s.llc, b) THEN WBFromLLC(s, b, EntryOf(LLC, s.llc, b).dirty)
  ELSE s

-----------------------------------------------------------------------------
(***************************************************************************)
(* Invalidations.                                                          *)
(***************************************************************************)
\* What Level::receiveInvalidation answers, and the cache that received it: the
\* data cache is not asked when the instruction cache answers true.
Answers(s, n, b) == \E k \in L1Kinds : InvalidationAnswer(L1, s.l1[n][k], b)
Invalidated(s, n, k, b) ==
  IF k = "D" /\ InvalidationAnswer(L1, s.l1[n]["I"], b)
  THEN s.l1[n][k]
  ELSE ReceiveInvalidation(L1, s.l1[n][k], b)

\* Hierarchy::L1sdeallocate: the loop asks the trackers in increasing order and
\* no more of them once one has answered true.
L1sDeallocate(s, b) ==
  LET checked == Require(s, HasEntry(s.dir, b))
      nodes == TrackersOf(s.dir, b)
      Asked(n) == n \in nodes /\ \A m \in nodes : m < n => ~Answers(s, m, b)
      isDirty == \E n \in nodes : Answers(s, n, b)
  IN IF IsInL1(s.dir, b)
     THEN [checked EXCEPT
             !.l1 = [n \in Cores |-> [k \in L1Kinds |->
                       IF Asked(n) THEN Invalidated(s, n, k, b) ELSE @[n][k]]],
             !.llc = SetDirty(LLC, @, b, isDirty),
             !.dir = SetState(ResetTrackersToEntry(@, b), b, "CLEAN_LLC")]
     ELSE checked

\* Level::deallocate of a set of cores: both L1s of each drop the block.
L1sDrop(s, nodes, b) ==
  [s EXCEPT !.l1 = [n \in Cores |-> [k \in L1Kinds |->
                      IF n \in nodes THEN DeallocateBlock(L1, @[n][k], b)
                      ELSE @[n][k]]]]

-----------------------------------------------------------------------------
(***************************************************************************)
(* HybridCache::handleAccess, in an L1 and in the LLC.                     *)
(***************************************************************************)
L1Access(s, n, k, b, isWrite) ==
  LET c == s.l1[n][k]
      w == Victim(L1, c, SetOf(L1, b), FALSE)
      victim == c.line[SetOf(L1, b)][w]
      evicted == IF victim.valid THEN L1SignalWB(s, n, k, victim.addr, FALSE)
                 ELSE s
  IN IF Present(c, b)
     THEN [s EXCEPT !.l1[n][k] = Hit(L1, @, b, isWrite)]
     ELSE [evicted EXCEPT !.l1[n][k] = Fill(L1, @, b, w, isWrite, FALSE)]

LLCAccess(s, b, isWrite, isPrefetch) ==
  LET c == s.llc
      w == Victim(LLC, c, SetOf(LLC, b), AllocateInNVM(LLC, isWrite))
      victim == c.line[SetOf(LLC, b)][w]
      evicted == IF victim.valid
                 THEN LLCSignalWB(L1sDeallocate(s, victim.addr), victim.addr)
                 ELSE s
  IN IF Present(c, b)
     THEN [s EXCEPT !.llc = Hit(LLC, @, b, isWrite)]
     ELSE [evicted EXCEPT !.llc = Fill(LLC, @, b, w, isWrite, isPrefetch)]

\* Directory::updateEntry stamps the entry with a time nothing reads: its
\* assertion is left.
UpdateEntry(s, b) == Require(s, HasEntry(s.dir, b))

-----------------------------------------------------------------------------
(***************************************************************************)
(* Hierarchy::handleAccess, one operator per branch on the state of the    *)
(* directory.  Core n accesses the block of the request r.                 *)
(***************************************************************************)
\* NOT_PRESENT: the block comes from the main memory, to the LLC and to the L1.
FetchFromMemory(s, n, r) ==
  LET b == r.block
      tracked == [s EXCEPT !.dir = SetTrackerToEntry(AddEntry(@, b), b, n)]
      inL1 == L1Access(tracked, n, Kind(r), b, IsWrite(r))
      inLLC == UpdateEntry(LLCAccess(inL1, b, IsWrite(r), FALSE), b)
      owned == [inLLC EXCEPT !.dir = SetState(@, b, "EXCLUSIVE_L1")]
  IN Count(owned, IF IsWrite(r) THEN "writeFetch" ELSE "readFetch")

\* CLEAN_LLC, DIRTY_LLC: the block comes from the LLC; if it was prefetched
\* there, the prefetch is counted as useful, once.
FetchFromLLC(s, n, r) ==
  LET b == r.block
      tracked == [s EXCEPT !.dir = SetTrackerToEntry(
                             SetState(@, b, "EXCLUSIVE_L1"), b, n)]
      inL1 == L1Access(tracked, n, Kind(r), b, IsWrite(r))
      inLLC == LLCAccess(inL1, b, IsWrite(r), FALSE)
      isPrefetched == Present(inLLC.llc, b)
                      /\ EntryOf(LLC, inLLC.llc, b).prefetch
      counted == IF isPrefetched THEN Count(inLLC, "hitPrefetch") ELSE inLLC
      reset == [counted EXCEPT !.llc = ResetPrefetchFlag(LLC, @, b)]
  IN UpdateEntry(reset, b)

\* EXCLUSIVE_L1, MODIFIED_L1, the owner itself.
AccessAsOwner(s, n, r) ==
  LET b == r.block
      written == IF IsWrite(r) /\ StateOf(s.dir, b) = "EXCLUSIVE_L1"
                 THEN [s EXCEPT !.dir = SetState(@, b, "MODIFIED_L1")]
                 ELSE s
  IN L1Access(written, n, Kind(r), b, IsWrite(r))

\* EXCLUSIVE_L1, MODIFIED_L1, another core m: m writes the block back and keeps
\* it when it is read, loses it when it is written.
WriteBackByOwner(s, m, r) == L1SignalWB(s, m, Kind(r), r.block, TRUE)

\* Mutant: the block stays in the state of its first owner.
ShareWithOwnerExclusive(s, n, m, r) ==
  LET b == r.block
      shared == [WriteBackByOwner(s, m, r) EXCEPT
                   !.dir = AddTrackerToEntry(@, b, n)]
  IN L1Access(LLCAccess(shared, b, FALSE, FALSE), n, Kind(r), b, FALSE)

ShareWithOwner(s, n, m, r) ==
  LET b == r.block
      shared == [WriteBackByOwner(s, m, r) EXCEPT
                   !.dir = SetState(AddTrackerToEntry(@, b, n), b, "SHARED_L1")]
      inLLC == UpdateEntry(LLCAccess(shared, b, FALSE, FALSE), b)
  IN L1Access(inLLC, n, Kind(r), b, FALSE)

TakeFromOwner(s, n, m, r) ==
  LET b == r.block
      taken == [L1sDrop(WriteBackByOwner(s, m, r), {m}, b) EXCEPT
                  !.dir = SetState(SetTrackerToEntry(@, b, n), b,
                                   "EXCLUSIVE_L1")]
      inLLC == UpdateEntry(LLCAccess(taken, b, TRUE, FALSE), b)
  IN L1Access(inLLC, n, Kind(r), b, TRUE)

\* SHARED_L1: one more core reads; a core writes and the sharers lose the block.
JoinSharers(s, n, r) ==
  L1Access([s EXCEPT !.dir = AddTrackerToEntry(@, r.block, n)],
           n, Kind(r), r.block, FALSE)

\* Mutant: the trackers are reset before they are told to drop the block.
TakeFromSharersResetFirst(s, n, r) ==
  LET b == r.block
      taken == [s EXCEPT !.dir = SetState(SetTrackerToEntry(@, b, n), b,
                                          "EXCLUSIVE_L1")]
      dropped == L1sDrop(taken, TrackersOf(taken.dir, b), b)
  IN L1Access(LLCAccess(dropped, b, TRUE, FALSE), n, Kind(r), b, TRUE)

TakeFromSharers(s, n, r) ==
  LET b == r.block
      taken == [L1sDrop(s, TrackersOf(s.dir, b), b) EXCEPT
                  !.dir = SetState(SetTrackerToEntry(@, b, n), b,
                                   "EXCLUSIVE_L1")]
      inLLC == UpdateEntry(LLCAccess(taken, b, TRUE, FALSE), b)
  IN L1Access(inLLC, n, Kind(r), b, TRUE)

-----------------------------------------------------------------------------
(***************************************************************************)
(* Prefetches.                                                             *)
(***************************************************************************)
\* Mutants: the entry stays NOT_PRESENT; the prefetch is not counted.
PrefetchAddressNotPresent(s, b) ==
  LET opened == [s EXCEPT !.dir = AddEntry(@, b)]
  IN IF b # NoBlock /\ StateOf(opened.dir, b) = "NOT_PRESENT"
     THEN Count(LLCAccess(opened, b, FALSE, TRUE), "issuedPrefetch")
     ELSE s
PrefetchAddressUncounted(s, b) ==
  LET opened == [s EXCEPT !.dir = AddEntry(@, b)]
      inLLC == LLCAccess(opened, b, FALSE, TRUE)
  IN IF b # NoBlock /\ StateOf(opened.dir, b) = "NOT_PRESENT"
     THEN [inLLC EXCEPT !.dir = SetState(@, b, "CLEAN_LLC")]
     ELSE s

\* Hierarchy::prefetchAddress.
PrefetchAddress(s, b) ==
  LET opened == [s EXCEPT !.dir = AddEntry(@, b)]
      inLLC == UpdateEntry(LLCAccess(opened, b, FALSE, TRUE), b)
  IN IF b # NoBlock /\ StateOf(opened.dir, b) = "NOT_PRESENT"
     THEN Count([inLLC EXCEPT !.dir = SetState(@, b, "CLEAN_LLC")],
                "issuedPrefetch")
     ELSE s

\* The blocks of the two addresses (prefetchDegree) that
\* SimplePrefetcher::getNextAddress may give after an access to b: one and two
\* strides of bytes ahead, so d blocks ahead and twice that, give or take one;
\* the second, or both, are cut where the page ends.
PrefetchesAfter(b) ==
  LET Clip(p) == IF p \in Blocks THEN p ELSE NoBlock
      Second(d) == {Clip(b + e) : e \in {x \in (2*d - 1) .. (2*d + 1) : x >= d}}
  IN {<<NoBlock, NoBlock>>} \cup
     UNION {{Clip(b + d)} \X (Second(d) \cup {NoBlock}) :
              d \in IF EnablePrefetch THEN 0 .. MaxStride ELSE {}}

BecomesWithPrefetch(s, b) ==
  \E p \in PrefetchesAfter(b) :
    Becomes(PrefetchAddress(PrefetchAddress(s, p[1]), p[2]))

-----------------------------------------------------------------------------
(***************************************************************************)
(* The steps: core n makes the request r and the directory is in one of    *)
(* the states of the branch.                                               *)
(***************************************************************************)
Finds(r, states) ==
  ~aborted /\ StateOf(AddEntry(dir, r.block), r.block) \in states

AccessNotPresent(n, r) ==
  /\ Finds(r, {"NOT_PRESENT"})
  /\ BecomesWithPrefetch(FetchFromMemory(State, n, r), r.block)

AccessInLLC(n, r) ==
  /\ Finds(r, {"CLEAN_LLC", "DIRTY_LLC"})
  /\ BecomesWithPrefetch(FetchFromLLC(State, n, r), r.block)

\* *(nodes.begin()); the assertion that there is exactly one node is made where
\* it is used.
Owner(b) == CHOOSE m \in Cores :
              m \in TrackersOf(dir, b) \/ TrackersOf(dir, b) = {}
StateOfOneOwner(b) == Require(State, TrackersOf(dir, b) = {Owner(b)})

AccessOwned(n, r) ==
  /\ Finds(r, {"MODIFIED_L1", "EXCLUSIVE_L1"})
  /\ Owner(r.block) = n
  /\ Becomes(AccessAsOwner(StateOfOneOwner(r.block), n, r))

ReadOwnedElsewhere(n, r) ==
  /\ Finds(r, {"MODIFIED_L1", "EXCLUSIVE_L1"})
  /\ Owner(r.block) # n /\ ~IsWrite(r)
  /\ Becomes(ShareWithOwner(StateOfOneOwner(r.block), n, Owner(r.block), r))

WriteOwnedElsewhere(n, r) ==
  /\ Finds(r, {"MODIFIED_L1", "EXCLUSIVE_L1"})
  /\ Owner(r.block) # n /\ IsWrite(r)
  /\ Becomes(TakeFromOwner(StateOfOneOwner(r.block), n, Owner(r.block), r))

ReadShared(n, r) ==
  /\ Finds(r, {"SHARED_L1"}) /\ ~IsWrite(r)
  /\ Becomes(JoinSharers(State, n, r))

WriteShared(n, r) ==
  /\ Finds(r, {"SHARED_L1"}) /\ IsWrite(r)
  /\ Becomes(TakeFromSharers(State, n, r))

Access(n, r) ==
  \/ AccessNotPresent(n, r)
  \/ AccessInLLC(n, r)
  \/ AccessOwned(n, r)
  \/ ReadOwnedElsewhere(n, r)
  \/ WriteOwnedElsewhere(n, r)
  \/ ReadShared(n, r)
  \/ WriteShared(n, r)

Next == \E n \in Cores, r \in Requests : Access(n, r)

Spec == Init /\ [][Next]_vars
-----------------------------------------------------------------------------
(***************************************************************************)
(* Properties.                                                             *)
(***************************************************************************)
AllL1s == Cores \X L1Kinds
CopyHolders(b) == {n \in Cores : \E k \in L1Kinds : Holds(L1, l1[n][k], b)}
DirtyL1Copies(b) ==
  {nk \in AllL1s : /\ Holds(L1, l1[nk[1]][nk[2]], b)
                   /\ EntryOf(L1, l1[nk[1]][nk[2]], b).dirty}

\* In every cache the index and the data arrays agree after any sequence of
\* hits, fills, evictions and invalidations: the misses of
\* HybridCache::handleAccess, which empties an entry by its way, the drops of
\* deallocate(addr), by its address, leave no block indexed at another's entry.
IndexesAgree ==
  /\ \A n \in Cores, k \in L1Kinds : TagsAgree(L1, l1[n][k])
  /\ TagsAgree(LLC, llc)

\* The directory has an entry for exactly the blocks that are valid in the LLC,
\* and no entry stays NOT_PRESENT: addEntry at the start of an access and
\* removeEntry on an LLC eviction balance on every path, prefetches included.
DirectoryMirrorsLLC ==
  \A b \in Blocks : /\ HasEntry(dir, b) <=> Holds(LLC, llc, b)
                    /\ StateOf(dir, b) # "NOT_PRESENT"

\* The state and the trackers of an entry go together: an exclusive or modified
\* block has one tracker (what Hierarchy::handleAccess asserts), a shared one
\* has some, a block of the LLC alone has none.
TrackersMatchState ==
  \A b \in Blocks :
    CASE StateOf(dir, b) \in {"EXCLUSIVE_L1", "MODIFIED_L1"} ->
           \E n \in Cores : TrackersOf(dir, b) = {n}
      [] StateOf(dir, b) = "SHARED_L1" -> TrackersOf(dir, b) # {}
      [] OTHER -> TrackersOf(dir, b) = {}

\* No assertion of the hierarchy or of the directory fails.
NoAssertFails == ~aborted

\* The LLC includes the L1s (HybridCache.cc:229), and the directory knows every
\* core that holds a block: a valid L1 copy is of a block valid in the LLC whose
\* entry tracks the core.
Inclusion ==
  \A b \in Blocks : CopyHolders(b) # {} =>
    Holds(LLC, llc, b) /\ CopyHolders(b) \subseteq TrackersOf(dir, b)

\* Inclusion can only be lost in two ways: an eviction of the LLC meets a block
\* of which a tracker before the last answers that it is dirty, so that
\* L1sdeallocate asks no further, or a block is valid in both L1s of a core, so
\* that the write back of one copy takes the core out of the trackers.  From any
\* other state where the LLC includes the L1s, an access with all its evictions
\* and prefetches leads to one, and no assertion fails.
EvictionsAskAll ==
  \A b \in Blocks : \A m, n \in TrackersOf(dir, b) : m < n => ~Answers(State, m, b)
CopiesApart ==
  \A n \in Cores, b \in Blocks :
    ~(Holds(L1, l1[n]["I"], b) /\ Holds(L1, l1[n]["D"], b))
InclusionIsKept ==
  [][(Inclusion /\ EvictionsAskAll /\ CopiesApart)
       => (Inclusion /\ NoAssertFails)']_vars

\* The trackers of a block are exactly the cores with a valid copy of it.
TrackersAreHolders ==
  \A b \in Blocks : TrackersOf(dir, b) = CopyHolders(b)

\* A block the directory has in MODIFIED_L1 is dirty in its owner's L1.
ModifiedIsDirty ==
  \A b \in Blocks :
    StateOf(dir, b) = "MODIFIED_L1" => DirtyL1Copies(b) # {}

\* Every block fetched from the main memory, on demand or by a prefetch, is in
\* the LLC or has been written back: the statistics of the main memory balance.
FetchesBalance ==
  LET resident == Cardinality({b \in Blocks : Holds(LLC, llc, b)})
  IN (mem["readFetch"] + mem["writeFetch"] + mem["issuedPrefetch"]) % StatRange
     = (resident + mem["cleanWB"] + mem["dirtyWB"]) % StatRange

\* A block of the LLC marked as prefetched has not been accessed since: it is in
\* no L1, so a prefetch is counted as useful at most once.
PrefetchedIsUnused ==
  \A b \in Blocks :
    (Holds(LLC, llc, b) /\ EntryOf(LLC, llc, b).prefetch)
      => StateOf(dir, b) = "CLEAN_LLC" /\ CopyHolders(b) = {}

\* Seen through the cores that hold each block and those that have it dirty, the
\* hierarchy does what the module Coherence says: reads share, writes take, no
\* copy becomes dirty while another core has one, and an access gives up at most
\* one other block, of its own core.
Copies == INSTANCE Coherence
            WITH holders <- [b \in Blocks |-> CopyHolders(b)],
                 dirty <- [b \in Blocks |-> {nk[1] : nk \in DirtyL1Copies(b)}]
ImplementsCoherence == Copies!Spec

(***************************************************************************)
(* What comments of the code say and the code does not do.                 *)
(***************************************************************************)
\* "Invalidation of a cache line in LLC, need to invalidate all trackers in L1s"
\* (Hierarchy.cc:376): when a block leaves the LLC no L1 is left with it.
EvictionInvalidatesAllTrackers ==
  [][\A b \in Blocks :
       (Holds(LLC, llc, b) /\ ~Holds(LLC, llc, b)') => CopyHolders(b)' = {}]_vars

\* "The cache line is not in the hybrid cache, Miss !", else "It is a hit in the
\* cache" (HybridCache.cc:197,290): an access leaves the core that made it with
\* a valid line.
AccessLeavesCopy ==
  [][\A n \in Cores, r \in Requests :
       (Access(n, r) /\ ~aborted') => n \in CopyHolders(r.block)']_vars

\* "Dirty WB updates the state of the cache line" (HybridCache.cc:446): when the
\* last dirty copy leaves the L1s for the LLC, the LLC line is dirty.
DirtyWBMarksLLC ==
  [][\A b \in Blocks :
       (DirtyL1Copies(b) # {} /\ (CopyHolders(b) = {})' /\ Holds(LLC, llc, b)')
         => (EntryOf(LLC, llc, b).dirty)']_vars
=============================================================================
