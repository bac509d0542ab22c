# A verification of the hybrid cache simulator

The program (`src/src`) is a Pin tool that feeds every instruction fetch and
every data access of an application to a simulated memory hierarchy: per core an
instruction and a data L1, one shared last level cache (LLC) made of an SRAM and
an NVM array, and a full-map directory. It is a simulator, so its results are
only as good as the bookkeeping between its parts: an entry the directory keeps
too long, a copy an eviction forgets or a dirty bit that is lost changes the
numbers it prints without any test noticing, or ends the run on an assertion.
This directory models that bookkeeping in TLA+, checks it with TLC on small
caches and proves most of it with TLAPS for caches of every size.

## The system

| part | state it keeps | operations | talks to |
|---|---|---|---|
| Pin tool (`roeval.cc`) | a lock, `cpt_time` | `access` for every fetch, read and write | `Hierarchy::handleAccess`, under `PIN_GetLock` |
| `Hierarchy`, `Level` | the levels, traffic statistics, the start of the time frame | `handleAccess`, `signalWB`, `L1sdeallocate`, `prefetchAddress`, `openNewTimeFrame` | caches and directory by calls; called back by the caches (`signalWB`, `signalDeallocate`) in the middle of an access |
| `Directory` | for each block a `DirectoryState` and the set of cores that hold it | add, remove, state, trackers | answers the hierarchy only |
| `HybridCache` | `m_tag_index` (block to way) and two arrays of `CacheEntry` | `handleAccess`, `handleWB`, `deallocate` (by entry, by address), `receiveInvalidation`, `triggerMigration` | its predictor; its level when it evicts |
| `ReplacementPolicy` | the stamps `policyInfo`, a counter | insert, update, evict | the array of one cache |
| `Predictor` and subclasses | per policy: nothing (LRU, preemptive), counters and thresholds (Saturation, DynamicSaturation), hints (Compiler), a table of instructions (InstructionPredictor), data sets (DBAMB); in the base class arrays of missing tags and fully associative shadow caches | `allocateInNVM`, `updatePolicy`, `insertionPolicy`, `evictPolicy`, `openNewTimeFrame` | may call back `triggerMigration` |
| `SimplePrefetcher` | the last address of each stream | `getNextAddress` | called after an access that reached the LLC |

What makes it hard is neither threads nor failures. The lock serialises the
accesses, nothing is persisted, no message is lost. It is the depth of one
access: a miss in an L1 evicts a block, which changes the directory entry of
*another* block; the miss in the LLC that follows evicts a third block, asks the
L1s to invalidate it and removes its entry; a prefetch may then do all of it
again. The parts share no invariant written down anywhere except in six
assertions, and a wrong step shows many accesses later. A test drives one
sequence of accesses; the checker drives all of them.

For each part, what makes it correct:

* cache: index and arrays agree; a block is in at most one way; the victim is the
  least recent one; a valid line is never lost without a write back;
* directory: it has an entry for exactly the blocks of the LLC, its state and
  its trackers go together, its trackers are the cores that hold the block;
* hierarchy: the LLC includes the L1s; a reader joins the holders, a writer
  replaces them; each line fetched is written back once; no assertion fails;
* replacement, predictors, prefetcher: their tables stay within their bounds
  and their counters mean what their policy says.

## The modules

| module | stands for |
|---|---|
| `Accesses` | the requests of the Pin tool, at the grain of a block |
| `HybridCache` | one cache, as a value, its methods as operators on it |
| `Directory` | the directory, as a function, its methods as operators |
| `Hierarchy` | the composition: variables, `Init`, one action per branch of `Hierarchy::handleAccess`, `Spec`, the properties |
| `Coherence` | the abstract specification: who holds each block, who has it dirty, nothing else |
| `Migration` | the LLC under the policies that migrate lines between its arrays, extending `HybridCache` |
| `DataSets` | the LLC under the DBAMB predictor: data sets, their table, windows, bypass, lazy migration; extends `HybridCache` |
| `MissingTags` | the missing tags and shadow caches of the base predictor, over the LLC under the preemptive policy or `InstructionPredictor`; extends `HybridCache` |
| `Stamps` | `LRUPolicy` with its stamps, ints assigned from a 64-bit counter, for one set |
| `LeastRecentlyUsed` | the abstract specification of `Stamps`: which line was used before which, no stamps |
| `Streams` | the stream table of the prefetcher |
| `BlockAddress` | `bitRemove` on words (sets of bits), and the block and the set of an address |
| `Tables` | the four before, one of which moves in an execution, for one run of TLC |
| `MCDataSets` | an instance of `DataSets` |
| `HybridCacheProofs` | lemmas: what each cache operation keeps, for every geometry |
| `HierarchyProofs`, `InclusionProofs`, `CoherenceProofs` | the theorems about the hierarchy: in every execution, where the LLC includes the L1s, and while the LLC evicts nothing |
| `MigrationProofs`, `DataSetsProofs`, `MissingTagsProofs`, `TablesProofs` | the theorems about the predictors, the replacement policy, the prefetcher and the addresses |

**State.** `l1[n]["I"]`, `l1[n]["D"]` are the caches of core `n`, `llc` the LLC,
`dir` the directory, `mem` six of the statistics (those that count lines moving
between LLC and memory), `aborted` whether an assertion has failed. A cache has
`tag` (`m_tag_index`), `line` (the `CacheEntry`s: address, valid, dirty and
prefetch bit) and `age`. One number is a `HybridLocation`: ways below
`SRAMWays` are those of `m_tableSRAM`, the others those of `m_tableNVM`.

**Steps.** One access is one step, since `access` holds the lock for all of
`handleAccess`. A handler is an operator from state records to state records, so
the order of the calls in the code is the order of the composition: for
instance `FetchFromMemory` tracks the core, then accesses the L1 (whose
eviction may untrack another block), then the LLC (whose eviction may invalidate
L1 lines, that of the accessed block's set included), then sets the state. The
assertions of the code are compiled in (`Require`): when one fails the program
ends, and the model with it (`aborted`, the other variables frozen).

**Callbacks.** `HybridCache::handleAccess` calls its level back when it evicts.
In the model these are `L1SignalWB` and, for the LLC, `LLCSignalWB` after
`L1sDeallocate`, at the point where the code makes the call: before the victim
way is emptied.

**What is abstracted.** Addresses are block numbers, 0 being the address of an
empty entry. Time stamps of `LRUPolicy` are ranks within an array (`age`): the
policy only compares them. Statistics count modulo `StatRange` in place of 2^64.
The hints, the program counters and the sizes of accesses reach only predictors
and printed statistics. In `Hierarchy` the addresses of a prefetch are chosen
nondeterministically among those a stride of at most `MaxStride` blocks can give
(`PrefetchesAfter`); which of them the stream table chooses is the subject of
`Streams`, which is not composed with `Hierarchy`. Whether prefetches stop at a page
end depends on an uninitialised member, so both are allowed in either module.

**Migration.** `Migration` is a state machine of its own: the LLC (`llc`), the
`saturation_counter` of each way (`counter`), the thresholds, and of the
hierarchy above only what the cache sees of one core: `tracked`, the blocks with
a directory entry, and `held`, those of them in an L1. Its steps are the calls
that reach the LLC (`LLCAccess`, `L1WriteBack`) and the time frames
(`OpenNewTimeFrame`). `UpdatePolicy` stands for `updatePolicy` of both
`SaturationCounter` and `DynamicSaturation`, which differ in the thresholds and
the statistics; `policy` is a variable chosen once, so that one run covers both.
`CompilerPredictor` behaves as `SaturationCounter` for hint 0, which is that of every
access of the Pin front end (`roeval.cc:35`). The `Access` of a prefetch
(`Hierarchy.cc:344`) is built with its hint uninitialised; what `CompilerPredictor` does
when that happens to be 1 is not modelled. The error counts that move a dynamic threshold are not modelled, so
it may go either way; the stamp `cpt_time` a migrated line gets is not either,
since it is read only in valid lines.

**Data sets.** `DataSets` has the LLC again, and of each way its data set (`m_pc`),
whether it is a learning line and whether it was used (`info`). `recency` is the
DHP table: the rank of each data set in its set of the table, 0 for one without an
entry; `dataset` holds the `DHPEntry`s. `ConvertState`, `Classify`, `UpdateWindow`,
`AfterEviction` and `Skip` are the steps on one entry; `UpdatePolicy`,
`InsertionPolicy`, `LLCHit`, `LLCMiss` compose them with the cache in the order of the
code. A prefetch brings any block in, of code or of data, without an instruction. Of
the two histories of an entry the code uses only which kinds of access
there were and what they would have cost in each array, which is what the model keeps.
`reportMiss`, on which `isSRAMerror` depends, belongs to `MissingTags`: either answer
is allowed here. A migrated line carries the stamp of another clock, so how many
lines of its array were used after it is open (`later`). `held` are the blocks in the L1, `Uses`
the pairs of block and instruction of the program.

**Missing tags and shadows.** In `MissingTags` `tags` are the last victims of the
smaller array per set, `shadow` the fully associative LRU cache of the size of each array,
`origin` the instruction and the cost of each line, `pcCount` the counters of
`InstructionPredictor`. The requests that reach the LLC in one access of the
hierarchy share a `cpt_time`: a write back, the access, then up to two prefetches
(`prefetchDegree`) or, on the paths for several cores that ask the LLC before the L1, the
write back of that L1. `request` is the place of the last one, so that equal times
occur where one of these orders has them. Which branch of `Hierarchy::handleAccess` an
access takes is not known here: a prefetch may also follow one that was preceded by the
write back of another core, where the code has none. `lastTouch`
is a history variable. A migration does not exist under these two policies.

**Stamps, streams, addresses.** `Stamps` is one set of one array under hits, fills,
deallocations and invalidations; `m_cpt` is shared by all sets, so it may also move
alone. `Streams` has the table (`m_prev_address`) and one action, `getNextAddress`; the
history `recent` serves the property. `BlockAddress` computes on words of `Width` bits; the
shift by 65 the callers of `bitRemove` cause is undefined, and the model takes both
what a processor does (shift by the remainder) and what arithmetic would (0).

**Two things a reader may expect otherwise.** The Pin tool builds a hierarchy of
one core and sets the thread of every access to 0 (`roeval.cc`), so what
ships runs one core, LRU, no prefetch; `Hierarchy` itself takes the number of
cores and routes by `m_idthread`, and the runs cover both. And
`receiveInvalidation` leaves an invalidated L1 line in `m_tag_index`: the model
has it so (`Present` asks the index, `Holds` also the valid bit).

## What the runs show

| run | configuration | checked |
|---|---|---|
| `single_core` | what ships: one core, LRU, no prefetch; LLC of 3 ways, 2-way L1s, 4 blocks | no assertion fails; the LLC includes the L1s |
| `coherence` | two cores; the LLC holds every block, so it never evicts | no assertion fails; trackers are exactly the holders; a MODIFIED block is dirty in an L1; `Hierarchy` implements `Coherence` |
| `all_accesses` | two cores, LLC of two sets of one way, smaller than the program, code and data sharing a block, prefetches on | what holds of every execution, up to a failed assertion: types, index and arrays, directory against LLC, state against trackers; an access takes the hierarchy out of inclusion in two ways only |
| `prefetch` | prefetches on, preemptive policy, one SRAM and one NVM way | the same agreements while a prefetch evicts what the access just brought; fetches and write backs balance; a prefetched line is counted as useful at most once |
| `shared_code` | one core, a block fetched *and* read | **violated**: an assertion of the directory fails |
| `eviction` | two cores | **violated**: an LLC eviction leaves a sharer's copy valid |
| `ghost` | one core | **violated**: an access hits an invalidated L1 line and stays without a valid copy |
| `dirty_wb` | one core | **violated**: the LLC line stays clean after a dirty write back |
| `migration` | one set of one SRAM and two NVM ways, three blocks, both policies | types; index and arrays agree whatever migrates; a block that can be hit is tracked; fixed thresholds are never passed; an access ends with its block indexed |
| `data_sets` | DBAMB: one set of one SRAM and two NVM ways, two data sets that share a block and a table of one entry | types; decision and status of a data set go together; index and arrays agree; a bypass is ended by a learning line only; an access of a data set that is not bypassed ends with its block cached; a bypassed data set is sampled again |
| `tables` | stamps of a set of three ways at an int of four bits; two streams; tags and shadows of one SRAM and two NVM ways under both policies; addresses of seven bits | stamps implement least recently used; missing tags are of missing blocks and unique; shadows hold what was used within their size; the set of an address is that of its block; interleaved streams are followed |
| `inclusive` | one SRAM and one NVM way, the shipped threshold of two | **violated**: a migration drops a line an L1 holds |

**Bounds.** One set per cache (two in the LLC of `all_accesses`), L1s of one or two
ways, an LLC of two to four, three or four blocks, two cores. The sets of a cache never interact except
through an access, and with more blocks than ways in each cache every fill,
eviction, invalidation, hit and refetch happens; two cores suffice for owner and
reader, owner and writer, two sharers and a writer. `MaxStride` 1 gives a
prefetch of the block itself, the next two, and both cut. `StatRange` 2 keeps the
parity of the counts, which one forgotten or doubled count changes.
In `migration` the smallest arrays with a choice of victim, thresholds of two
(as shipped) and of one to three for the dynamic policy (1 to 20 in the code), and a
`CounterBound` of three, above which no access is made: a counter can pass a
threshold that was lowered, which the bound leaves room for.
In `data_sets` a window closes on the access after the first, one unused victim bypasses
or moves a data set, every second miss of a bypassed one is a learning line, and
the two data sets take the one entry of the table from each other; the array of one
way and that of two tell short from medium distances. `L1Lines` 1 is room for a block at
a time, `HistoryBound` 2 stops the one history no window may clear, that of a bypassed
data set whose learning lines are hit.
In `tables` the counter runs up to the half range of the int (`UpdateBound` 8,
`HalfRange` 8): at a bound of 10 the check of `StampsImplementLRU` fails, since the most
recent stamp becomes the smallest. Two streams and five accesses to ten
addresses in pages of four let a stream be started in all slots, continued, replaced
while others go on, and cut by a page end. Three blocks in shadows of one and two entries and
three tags, with `TimeBound` 4, fill, refresh and replace each; `CostBound` and `CountBound`
bound what the code lets grow. `Width` 7 with up to three bits of block and of set
has every address of every such geometry. `Tables` moves one of the four in an
execution: they share no state, so their interleavings would add nothing.
Where `StatRange` is 1 the statistics are left out of the state.
`all_accesses` disables the deadlock check because an execution whose assertion
failed has stopped, and `tables` because the application may end; every other run has
it on.

**Fairness.** The simulator is driven by its application: each access ends by
itself and nothing waits, so the code justifies no fairness of its own and every
specification but one states none. What can be asked is that its policies do not give
up while the application goes on. DBAMB is the one that can: a bypassed data set is
not in the cache, so nothing of it is observed any more, and only the count of its
skipped misses brings it back. `DataSetsLiveSpec` assumes of the application that a
data set that can miss again and again does miss (strong fairness of `MissStep`), and
that no line stays in an L1 for ever (weak fairness of the clean write backs);
`BypassedIsSampled` then says that the bypassed data set gets a learning line, is
undecided again, or has all its blocks in the cache.

## What the violations say

1. **A block used as code and as data** (`shared_code`). A core is one tracker
   whichever of its L1s holds a block. When the instruction L1 evicts the block,
   `signalWB` untracks the core and the entry becomes `CLEAN_LLC`
   (`Directory.cc:138`); the data L1 still has it. An LLC eviction then asks no
   L1 (`Hierarchy.cc:378`) and removes the entry; when the data L1 evicts the
   block, `removeTracker` asserts an entry that is gone. This is reachable in
   the shipped configuration.
2. **Sharers left behind** (`eviction`). `isDirty = isDirty || receiveInvalidation(..)`
   stops calling after the first true (`Hierarchy.cc:387`). A writer that became a
   sharer keeps its dirty bit, so the sharers after it keep a valid copy of a block
   that is in neither LLC nor directory. `Level::receiveInvalidation` has the same
   short circuit between its two caches.
3. **Ghost lines** (`ghost`). An invalidated line is still indexed, so the next
   access is counted as a hit and the line stays invalid.
4. **Lost dirtiness** (`dirty_wb`). A dirty write back stamps the LLC line and
   does not mark it dirty.

5. **Inclusion lost by a migration** (`inclusive`). `triggerMigration` calls
   `deallocate` on the victim, which clears its valid bit, and then tests that bit
   (`HybridCache.cc:528`, `558`): the branch that writes it back is dead, and
   `signalDeallocate` is not called in any case. The victim leaves the LLC while an L1
   holds it and the directory has its entry.

Also seen in the migrations and modelled as it is: `copyCL` does not copy `isValid`, so
a migrated line is invalid: it can be hit, is the next victim of its array, and
then leaves without a write back or an invalidation. A write that hits and
triggers a migration marks the emptied entry dirty, not the line
(`HybridCache.cc:303`). A dynamic counter above a threshold that was lowered
never triggers a migration, since the comparison is `==`; the next right accesses
must bring it down again.

Also seen and modelled as it is, without a statement of the code to hold it
against: `L1sdeallocate` *assigns* the LLC dirty bit the answer of the L1s
(`Hierarchy.cc:389`), so a line the LLC knew dirty can leave clean; the prefetch
of an instruction fetch is issued as `DATA_PREFETCH` and the converse
(`Hierarchy.cc:347`), which nothing downstream distinguishes.

These are why `Inclusion`, `NoAssertFails` and `TrackersAreHolders` are
checked where they hold (separate code and data; one core, or no LLC evictions)
and not in `all_accesses`. What is checked there is that nothing else breaks the first
two: `InclusionIsKept` says of each access that it leads from a state where the LLC
includes the L1s to another, and fails no assertion, if every eviction would ask all
the trackers (`EvictionsAskAll`) and no block is valid in both L1s of a core
(`CopiesApart`). Without either condition TLC finds it violated in that run: they are
the second and the first of the list.

Seen in the predictors, without a run that expects a violation:

* `Predictor::insertionPolicy` takes the missing tag of a block out "if it exists
  there" (`Predictor.cc:187`) only when the line goes to SRAM. When there are more SRAM
  than NVM ways the tags are those of the NVM victims, and a block brought back to
  NVM keeps its tag: `MissingTagsAreMissing` fails there, and holds as shipped.
* An empty way that is chosen as a victim is told to the predictor as an unused line of
  data set 0 (`DBAMBPredictor.cc:645`), which exists once a prefetch follows a fetch.
* `isLearning` of a line is never cleared while the line stays, so each of its later
  hits starts its data set again.
* A block a bypassed miss leaves out of the LLC is tracked as `EXCLUSIVE_L1` all the
  same, so the directory has an entry for it that no eviction of the LLC removes;
  `DirectoryMirrorsLLC` is a property of the policies without bypass.
* `triggerMigration` moves a line without a word to the missing tags and the shadows.
* The `Access` of a dirty write back has no address (`HybridCache.cc:447`), so it is
  address 0 that becomes the most recent of the shadow: `ShadowIsRecent` counts it as
  one of the addresses given.
* `addressToCacheSet` shifts a word by 65, which is undefined. Whatever comes of it, the
  set is the right one for every address below 2^(65 - m_end_index).
* The counters of `InstructionPredictor` do not saturate: one that becomes 3 is set to
  3 (`InstructionPredictor.cc:166`), and the next costly victim makes it 4.

## What is proved

For every number of cores, every geometry (any number of sets, of ways in the L1,
of SRAM and NVM ways in the LLC, not both zero), both policies, any sets of
blocks, prefetches on or off and any stride:

| theorem (`HierarchyProofs`) | property |
|---|---|
| `TypeCorrect` | `Spec => []TypeOK` |
| `IndexesAlwaysAgree` | `Spec => []IndexesAgree` |
| `DirectoryAlwaysMirrorsLLC` | `Spec => []DirectoryMirrorsLLC` |
| `TrackersAlwaysMatchState` | `Spec => []TrackersMatchState` |
| `FetchesAlwaysBalance` | `Spec => []FetchesBalance` |

They rest on `BlocksAssumption`, `NbCoresAssumption` and `HierarchyAssumption`
(what the constants are), and on nothing about how the caches are filled. In
particular they hold with the first four violations above present: those break what
the L1s hold against what the directory says, not the agreement of directory and
LLC, nor that of an entry's state and its trackers. So the assertion that an
owned block has exactly one tracker (`Hierarchy.cc:278`) never fails.

**The argument.** None of the first four is inductive. `IInv` adds

* that in every cache a valid line has an address (`ValidHasAddress`): an
  eviction writes back the address of a *valid* victim, and only then is that a
  block the index has;
* that in the LLC, never invalidated in place, the converse holds too
  (`NoGhost`): an invalid victim way then has no address, so emptying it takes
  nothing out of the index and no directory entry is owed.

`HybridCacheProofs` shows that every cache operation keeps the type, the
agreement of index and arrays and these, for any geometry. That the victim of an
eviction is a way of the array at all is a lemma of its own
(`VictimInArray`): it needs a least invalid way, or a way of greatest rank, from
well-foundedness of the naturals.

In the middle of an access the accessed block's entry *does* disagree with the
LLC. `OKBut(s, b)` says that state record `s` is in order except for the entry
of `b`; `L1AccessGood` and `LLCAccessGood` show that an access to `b` in any cache
keeps that, whatever it evicts, and leaves the entry of `b` alone; each branch
then ends with the entry it wrote and the LLC holding `b`. A failed assertion
(`s.aborted`) makes the rest vacuous, which is sound since `Becomes` then keeps
the old state. The action lemmas and `NextOK` follow the seven actions of `Next`.

**The balance of the statistics.** `FetchesBalance` counts lines: what was read from
memory is resident in the LLC or was written back. In the middle of an access it is
off by one: the fill and the count of the fetch are apart, and so are the count of a
victim's write back and the emptying of its way. `Owes(s, n)` says
that state `s` balances when `n` more fetches are counted; the fill makes it owe one
(`LLCAccessOwes`: a valid victim is counted by `LLCSignalWB`, an invalid one leaves a block
more in the LLC), the count of the fetch or prefetch pays (`CountOwes`). Everything else,
L1s, directory, write backs into the LLC, keeps the books (`KeepsBooks`): it changes
neither a counter nor what is resident. The counters go round, so the balance is up to a
multiple of `StatRange`, and the last lemmas are about remainders (`SameCount`). `BInv` adds
`Owes(State, 0)` to `IInv`, which it needs for the agreement of index and arrays: the
victim's block is resident, so taking it out makes the LLC smaller by one.

**Inclusion.** The agreement of the directory with the L1s is what the violations
break, with two cores or with a block that is code and data. `InclusionProofs` shows
that nothing else does, for every number of cores, every geometry, either policy and
any prefetches:

| theorem (`InclusionProofs`) | |
|---|---|
| `InclusionIsAlwaysKept` | `Spec => InclusionIsKept` |
| `InclusionIsLostInTwoWays` | `Spec /\ [](EvictionsAskAll /\ CopiesApart) => [](Inclusion /\ NoAssertFails)` |
| `CodeApartFromData` | `InstBlocks \cap DataBlocks = {} => (Spec /\ []EvictionsAskAll => [](Inclusion /\ NoAssertFails))` |
| `PrefetchedAreUnusedWhereIncluded` | `Spec => [](Inclusion => PrefetchedIsUnused)` |

The first is about single accesses and assumes nothing of the execution but the state
it starts in; the second and third follow the executions in which the
conditions hold throughout. `EvictionsAskAll` ceases to hold when a core whose L1 has a
dirty entry of a block and a core with a higher number are both trackers of it.
What ships has one core, and a program seldom reads its code. Then both conditions
hold in every state, and with

    SingleCore == NbCores = 1 /\ InstBlocks \cap DataBlocks = {}

the same module concludes:

| theorem (`InclusionProofs`) | property |
|---|---|
| `NoAssertionEverFails` | `SingleCore => (Spec => []NoAssertFails)` |
| `LLCAlwaysIncludesL1s` | `SingleCore => (Spec => []Inclusion)` |
| `PrefetchedAreUnused` | `SingleCore => (Spec => []PrefetchedIsUnused)` |

With more cores `EvictionsAskAll` is a condition on the states a program reaches. A
condition on the program itself that implies it: each block is written by one core, and
that core is the last of those that access it. Data private to a core is of this
kind, and so is data that nobody writes, however many cores read it.

    LastWriter(w, n, r) == n <= w[r.block] /\ (IsWrite(r) => n = w[r.block])
    SpecOf(w) == Init /\ [][\E n \in Cores, r \in Requests : LastWriter(w, n, r) /\ Access(n, r)]_vars

| theorem (`InclusionProofs`) | |
|---|---|
| `OneWriterKeepsInclusion` | `InstBlocks \cap DataBlocks = {} => (SpecOf(w) => [](Inclusion /\ NoAssertFails /\ PrefetchedIsUnused))`, for every `w \in [Blocks -> Cores]` |

The order matters because `L1sdeallocate` asks the trackers from the first: in a program where
core 0 writes what core 1 has then read, the answer of core 0 stops it before core 1.
The invariant is `Obeys(w, s)`: no tracker of a block is after `w` of it, and no other
core has it dirty. Every step of a handler keeps it by itself, whatever its evictions
miss (`L1AccessObeys`, `LLCAccessObeys`), since an eviction adds neither a tracker nor a
dirty copy.

`KInv` adds to `IInv` two facts of every execution: an L1 has only blocks of its kind
and no instruction cache a dirty one (`KindsApart`), and a block marked as prefetched
is `CLEAN_LLC` (`AllFresh`). The first is why the data cache is never left out when a
core is told to invalidate: `Level::receiveInvalidation` asks it unless the instruction
cache answers dirty. Inclusion itself is not an invariant, so each lemma is stated of
`Sound(q, s)`: `KindsApart` and, if `q` holds, that no assertion failed and that every valid
copy is tracked. With `q` false the lemmas give `KInv`, with `q` true, and the conditions
then asked, inclusion. By `IInv` what is tracked is in the LLC, so that every copy is
tracked is `Inclusion` (`InclusionIsTracking`).

Each condition is used at one place. An eviction by an L1 takes the core out of the
trackers, which is right when its other L1 has no copy (`L1AccessSoundBut`). An eviction by
the LLC leaves no copy when all trackers are asked (`L1sDeallocateSound`), so the write back
that follows finds the entry, and the assertions of `signalWB`, `updateEntry` and
`removeTracker` hold. An access makes up to three LLC evictions (its own, and one for each
prefetch after it), each in another state than the one the conditions are stated of: that
an eviction still asks all the trackers of every other block is carried from
one to the next (`KeepsAsking`), and the block the access brought has one tracker, or none,
which is always asked (`AskAllAgain`). `FreshBut` and `SoundBut` exempt the accessed block until
the access has reset its mark and written its state.

**Coherence.** Inclusion is less than that the directory is exact. An eviction of the LLC
leaves copies it invalidated in the index of an L1 (`ghost`), where a later access of the
core hits one: the directory then tracks a core without a valid copy, whatever the number
of cores. `CoherenceProofs` assumes that the LLC evicts nothing:

    Roomy == /\ InstBlocks \cap DataBlocks = {}
             /\ each set of the LLC has, in the array an access allocates in, as many
                ways as the program has blocks of that set

Both parts are needed, by `eviction` and `shared_code`. The constants of the run
`coherence` satisfy it, with no way to spare: LRU allocates in the NVM array when there is
one, which has three ways for three blocks. For every number of cores, every such
geometry, either policy and any prefetches:

| theorem (`CoherenceProofs`) | property |
|---|---|
| `NoAssertionFailsWithRoom` | `Roomy => (Spec => []NoAssertFails)` |
| `TrackersAreAlwaysHolders` | `Roomy => (Spec => []TrackersAreHolders)` |
| `ModifiedIsAlwaysDirty` | `Roomy => (Spec => []ModifiedIsDirty)` |
| `LLCIncludesL1sWithRoom` | `Roomy => (Spec => []Inclusion)` |
| `HierarchyImplementsCoherence` | `Roomy => (Spec => ImplementsCoherence)` |

`CInv` adds `Coherent(State)` to `IInv`: no assertion failed, no L1 has an entry
invalidated in place nor a block of the other kind (`Plain`), and for every block the
trackers are the holders and a block in MODIFIED_L1 is dirty in an L1 (`Exact`). An access is
followed from one set of L1s to the next by what it does to the copies, with the
directory left out: the core gets its block, and gives up at most one other
(`MakesRoom`, `GivesUp`); `CoherentBut` exempts the accessed block till the branch has
written its state. That a full set has a free way in the LLC is a count of blocks
(pigeonhole, with `FS_Injection`). Each branch is then shown to share (read) or take
(write) the block (`SharesOrTakes`), whatever state of the directory it met. The refinement maps
`holders` to the cores with a valid copy and `dirty` to those with a dirty one; a step
that shares or takes is a step of `Coherence`, and the prefetches after it change
no L1.

For the migrating cache, every geometry with both arrays, all positive thresholds and
either policy:

| theorem (`MigrationProofs`) | property |
|---|---|
| `MigrationTypeCorrect` | `MigrationSpec => []MigrationTypeOK` |
| `MigrationAlwaysKeepsIndex` | `MigrationSpec => []MigrationKeepsIndex` |
| `CachedIsAlwaysTracked` | `MigrationSpec => []CachedIsTracked` |
| `CountersStayBelowThreshold` | `MigrationSpec => []CountersBelowThreshold` |
| `AccessedIsAlwaysCached` | `MigrationSpec => AccessedIsCached` |

They rest on `BlocksAssumption` and `MigrationAssumption`. The invariant `MInv` says
that the record of the four variables a handler changes is good (`GoodRecord`: index and
arrays agree, a valid line has an address, what can be hit is tracked) and, for fixed
thresholds, below them. `MoveGood` is the heart: moving a line to an *empty* way of its
set, with its index entry, keeps every block. `MigrateGood` gets the empty way from
`DeallocateWayGood`, and shows that the test after `deallocate` never signals anything.
That a migration has a victim other than its source is where the two arrays being
disjoint is used. `AccessedIsCached` follows from the same lemmas: a hit keeps its
block, and the victim of a miss is never that block, which is not indexed.

For DBAMB, every geometry with both arrays, every size of table and window, every
threshold, with bypass and migration on or off:

| theorem (`DataSetsProofs`) | property |
|---|---|
| `DataSetsTypeCorrect` | `DataSetsSpec => []DataSetsTypeOK` |
| `DecisionAlwaysFollowsStatus` | `DataSetsSpec => []DecisionFollowsStatus` |
| `DataSetsAlwaysKeepIndex` | `DataSetsSpec => []DataSetsKeepIndex` |
| `BypassAlwaysEndsByReuse` | `DataSetsSpec => BypassEndsByReuse` |
| `AlwaysCachedUnlessBypassed` | `DataSetsSpec => CachedUnlessBypassed` |

They rest on `BlocksAssumption` and `DataSetsAssumption`. The invariant `DInv` is
`GoodRecord(State)`: types, a good cache and, for each entry, the decision its status calls
for (`GoodEntry`). Each step of an entry and then each handler is shown to keep it, and
to keep a bypass unless it is the reuse of a learning line. `CachedUnlessBypassed`
needs, in addition, that a lazy migration of the line just hit moves that line and
frees a way of the other array.

For the tags and shadows, both policies, every size:

| theorem (`MissingTagsProofs`) | property |
|---|---|
| `MissingTagsTypeCorrect` | `MissingTagsSpec => []MissingTagsTypeOK` |
| `MissingTagsAlwaysMissing` | `TracksSRAM => (MissingTagsSpec => []MissingTagsAreMissing)` |
| `MissingTagsAlwaysUnique` | `MissingTagsSpec => []MissingTagsAreUnique` |
| `ShadowsAlwaysRecent` | `MissingTagsSpec => []ShadowIsRecent` |

They rest on `BlocksAssumption` and `MissingTagsAssumption`. `TagInv` is `GoodTags(TagState)`:
types, a good cache, and, when SRAM is tracked, that no block of SRAM has a valid tag
and no two valid tags have one address. Both are needed together: a victim adds a tag,
which is new because the victim was in SRAM till then.

For the shadows `ShadowInv` adds that each is `Faithful` to `lastTouch`: a valid entry has
the time its address was last given, no address has two, an entry that is not valid
has address 0, and a block that was given and is not found is no younger than any
entry, all of which are then valid. That address 0 may be found in an entry that never
was valid (the search ignores the bit) is why a *valid* entry of address 0 needs a
full shadow: else its second use would leave the valid one behind. A shadow that does not
find a block is full of younger addresses, one more than it has entries with the
block's own (`LostIsOld`); one that does has an entry of its own for each block that
is younger (`FoundIsRecent`); both are injections into a finite set.

For the replacement policy, the prefetcher and the addresses:

| theorem (`TablesProofs`) | property |
|---|---|
| `StampsAlwaysImplementLRU` | `UpdateBound <= HalfRange => (StampsSpec => StampsImplementLRU)` |
| `StampsTypeCorrect` | `StampsSpec => []StampsTypeOK` |
| `SuccessorIsAlwaysPrefetched` | `StreamsSpec => SuccessorIsPrefetched` |
| `StreamsTypeCorrect` | `StreamsSpec => []StreamsTypeOK` |
| `SetIsAlwaysThatOfBlock` | `BlockAddressSpec => []SetIsThatOfBlock` |
| `TablesTypeCorrect` | `TablesSpec => []TablesTypeOK` |
| `TablesKeepTheirPromises` | `TablesSpec =>` the properties of the run `tables`, under the hypotheses above |

The first holds for every associativity and width of int: under the refinement mapping
`inUse <- {w : valid[w]}`, `before <- {<<v, w>> : stamp[v] < stamp[w]}` (of valid ways)
each step of the stamps is one of `LeastRecentlyUsed` or a stutter. The invariant `SInv` adds that
stamps are below the counter and that valid ways have different ones.

The third holds for every number of streams, degree, page size and set of addresses, in
either reading of the uninitialised `m_stop_at_page`. `StreamsInv` numbers the accesses: each
stream has the address and the number of the last access it was moved by, only the
first access, which took all slots, has several, and every access is `Remembered`: it is
the last of a stream, or a later one came within a page beyond it, or all streams are of
later ones. The last case is the eviction of the oldest; as the numbers differ, there are
then as many later accesses as streams (`RecentIsRemembered`). The stream that is
continued may be a nearer one than the one asked about, so its stride is no longer
(`NearestContinues`).

The sixth is for every width of a word, every block size and number of sets. A shift by
the remainder makes the two halves `bitRemove` joins overlap, so that numbers would
need a bitwise *or*; on sets of bits it is a union, and the bits the overlap brings in
(`FoldedBits`) are cut by the shift that follows, or are the same for the address and
for its block. The last two carry what is proved of each table over to `Tables`, whose steps
are those of one table and stutters of the others (`TablesRunEveryTable`).

**Only model-checked**: `BypassedIsSampled`, which is liveness under fairness and out of
the prover's reach, and the five violations. Every other property of a run is stated by a
theorem, some under hypotheses that are those of the runs: code apart from data with one core
or with room in the LLC, for the properties `shared_code` and `eviction` otherwise
break, no more SRAM than NVM ways for the missing tags, a counter within the int for
the stamps. No theorem is
about data built by induction. Of several cores and an LLC that evicts, what is proved of
the L1s is inclusion under `EvictionsAskAll` and `CopiesApart`, and for the programs that
imply these, and no more: that the trackers are the holders is false even for those, since
a hit on an invalidated entry (`ghost`) leaves its core a tracker without a copy.

## Not modelled

* Instrumentation, parsing, printing, the statistics of caches and predictors except the
  six of `Hierarchy`, the warm-up, the files of first allocations and the debug reports.
* `RandomPolicy` and `APMPredictor`, which nothing instantiates; `CompilerPredictor` for
  hint 1, which the Pin front end never gives but the uninitialised hint of a prefetch may
  be; `BP_missing_tags`, which only feeds statistics.
* The error counts that move the thresholds of `DynamicSaturation` (either way is
  allowed), a cost ratio of DBAMB other than the default, the time stamps of the
  directory's own replacement policy, which decide nothing.
* Crashes, lost messages, time-outs and threads: the code has none. The one lock is taken
  around every access.

## Plan

1. (done) caches, directory, hierarchy, coherence; the agreement of directory and LLC
   proved for every execution, the absence of failed assertions and inclusion for
   one core, and for several as long as evictions ask every tracker.
2. (done) `LRUPolicy` with its stamps; that they implement least recently used, proved.
3. (done) `triggerMigration` with the saturation predictors; five properties proved.
4. (done) the stream table of the prefetcher. To do: compose it with `Hierarchy` in place
   of `PrefetchesAfter`.
5. (done) missing tags and shadows, `InstructionPredictor`; three properties proved.
6. (done) DBAMB; five properties proved, one liveness property checked. To do:
   compose it with the directory, where a bypass leaves an entry without a line.
7. (done) `bitRemove` and its callers; that the set is that of the block, proved.
8. (done) for any number of cores, with an LLC that does not evict: `Hierarchy`
   implements `Coherence`, no assertion fails; the balance of the statistics, the shadows
   and the streams proved.
9. (done) a condition on the accesses of a program (which core writes what another
   reads) that implies `EvictionsAskAll`, proved.
