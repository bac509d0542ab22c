----------------------------- MODULE Migration -----------------------------
(***************************************************************************)
(* The last level cache under the policies that migrate lines between its  *)
(* arrays: SaturationCounter (src/src/SaturationPredictor.cc) and          *)
(* DynamicSaturation (src/src/DynamicSaturation.cc), with                  *)
(* HybridCache::triggerMigration.  Writes are expensive in NVM, SRAM is    *)
(* small: a line written too often in NVM, or read too often in SRAM,      *)
(* changes places, over the least recent line of the other array.          *)
(*                                                                         *)
(* Of the hierarchy above it only what the cache sees is kept, for one     *)
(* core: the blocks with a directory entry and those of them in an L1.  An *)
(* access comes for a block no L1 has, a dirty write back for one an L1    *)
(* has.  The stamp a migrated line gets (cpt_time, a clock other than the  *)
(* policy's) is not modelled: it is read in valid lines only, and the line *)
(* is not valid (see Migrate).                                             *)
(***************************************************************************)
EXTENDS HybridCache

CONSTANTS
  NbSets, SRAMWays, NVMWays,  \* the geometry (2048 sets of 4 + 12 ways)
  Policies,             \* those of Saturation, DynamicSaturation to consider
  SaturationThreshold,  \* simu_parameters.saturation_threshold (2)
  DynamicThreshold,     \* where the dynamic thresholds start (3)
  LastThreshold,        \* how far they go (20)
  CounterBound          \* bound: no access once a counter is there

Hybrid == [sets |-> NbSets, sram |-> SRAMWays, nvm |-> NVMWays,
           policy |-> "preemptive"]

ASSUME MigrationAssumption ==
  /\ Hybrid \in Geometries /\ SRAMWays > 0 /\ NVMWays > 0
  /\ Policies \subseteq {"Saturation", "DynamicSaturation"}
  /\ SaturationThreshold \in Nat \ {0}
  /\ LastThreshold \in Nat \ {0}
  /\ DynamicThreshold \in 1 .. LastThreshold
  /\ CounterBound \in Nat

VARIABLES
  policy,     \* the policy of the cache
  llc,        \* index and arrays
  counter,    \* CacheEntry::saturation_counter of each way
  threshold,  \* where a counter triggers a migration: SRAM FALSE, NVM TRUE
  tracked,    \* the blocks the directory has an entry for
  held        \* those of them in an L1

migrationVars == <<policy, llc, counter, threshold, tracked, held>>

MigrationTypeOK ==
  /\ policy \in Policies
  /\ llc \in Caches(Hybrid)
  /\ counter \in [Sets(Hybrid) -> [Ways(Hybrid) -> Nat]]
  /\ threshold \in [BOOLEAN -> Nat \ {0}]
  /\ tracked \subseteq Blocks
  /\ held \subseteq tracked

MigrationInit ==
  /\ policy \in Policies
  /\ llc = EmptyCache(Hybrid)
  /\ counter = [x \in Sets(Hybrid) |-> [w \in Ways(Hybrid) |-> 0]]
  /\ threshold = [inNVM \in BOOLEAN |->
                   IF policy = "Saturation" THEN SaturationThreshold
                   ELSE DynamicThreshold]
  /\ tracked = {}
  /\ held = {}

-----------------------------------------------------------------------------
(***************************************************************************)
(* Handlers, on the record [llc, counter, tracked, held].                  *)
(***************************************************************************)
CacheState == [llc |-> llc, counter |-> counter,
               tracked |-> tracked, held |-> held]

CacheBecomes(s) ==
  /\ llc' = s.llc /\ counter' = s.counter
  /\ tracked' = s.tracked /\ held' = s.held
  /\ UNCHANGED <<policy, threshold>>

InNVM(w) == w >= SRAMWays

\* An access the array of the way is not for: a write in NVM, a read in SRAM.
IsWrong(w, isWrite) == isWrite = InNVM(w)

\* Mutant: the L1s are not told.
SignalEvictionKeepsHeld(s, x, w) ==
  LET line == s.llc.line[x][w]
  IN [s EXCEPT !.tracked = IF line.valid THEN @ \ {line.addr} ELSE @]

\* signalDeallocate and signalWB of the line at way w of set x, if it is valid:
\* the block leaves the L1s and the directory.
SignalEviction(s, x, w) ==
  LET line == s.llc.line[x][w]
      gone == IF line.valid THEN {line.addr} ELSE {}
  IN [s EXCEPT !.tracked = @ \ gone, !.held = @ \ gone]

\* Mutants: the index keeps the way the line left; the line that moves is said to
\* be evicted.
MigrateKeepsTag(s, x, from, to) ==
  LET emptied == DeallocateWay(s.llc, x, to)
  IN [s EXCEPT
        !.llc = [emptied EXCEPT
                   !.line[x][to] = [emptied.line[x][from] EXCEPT !.valid = FALSE],
                   !.line[x][from] = EmptyLine],
        !.counter[x][to] = 0,
        !.counter[x][from] = 0]
MigrateSignalsSource(s, x, from, to) ==
  LET told == SignalEviction(s, x, from)
      emptied == DeallocateWay(s.llc, x, to)
      line == emptied.line[x][from]
  IN [told EXCEPT
        !.llc = [emptied EXCEPT !.line[x][to] = [line EXCEPT !.valid = FALSE],
                                !.line[x][from] = EmptyLine],
        !.llc.tag = [b \in Blocks |-> IF b = line.addr THEN to
                                      ELSE emptied.tag[b]],
        !.counter[x][to] = 0,
        !.counter[x][from] = 0]

\* triggerMigration of the line at way from to way to.  The victim is emptied
\* before its valid bit is tested, so nobody is told; copyCL copies neither the
\* valid bit nor the counter, so the line arrives invalid with a counter of 0.
Migrate(s, x, from, to) ==
  LET emptied == DeallocateWay(s.llc, x, to)
      told == SignalEviction([s EXCEPT !.llc = emptied], x, to)
      line == emptied.line[x][from]
  IN [told EXCEPT
        !.llc = [emptied EXCEPT
                   !.line[x][to] = [line EXCEPT
                                      !.valid = emptied.line[x][to].valid],
                   !.line[x][from] = EmptyLine,
                   !.tag = [b \in Blocks |-> IF b = line.addr THEN to
                                             ELSE emptied.tag[b]]],
        !.counter[x] = [@ EXCEPT ![to] = 0, ![from] = 0]]

\* Mutants: the counter is compared before it is raised; the victim is taken in
\* the array of the line itself.
UpdatePolicyLate(s, x, w, isWrite) ==
  LET touched == [s EXCEPT !.llc = Touch(Hybrid, @, x, w)]
      isWrong == IsWrong(w, isWrite)
      n == s.counter[x][w]
      to == Victim(Hybrid, touched.llc, x, ~InNVM(w))
  IN IF isWrong /\ n = threshold[InNVM(w)]
     THEN Migrate(touched, x, w, to)
     ELSE [touched EXCEPT !.counter[x][w] =
             IF isWrong THEN n + 1 ELSE IF n = 0 THEN 0 ELSE n - 1]
UpdatePolicySameArray(s, x, w, isWrite) ==
  LET touched == [s EXCEPT !.llc = Touch(Hybrid, s.llc, x, w)]
      isWrong == IsWrong(w, isWrite)
      n == s.counter[x][w]
  IN IF isWrong /\ n + 1 = threshold[InNVM(w)]
     THEN Migrate(touched, x, w, Victim(Hybrid, s.llc, x, InNVM(w)))
     ELSE [touched EXCEPT !.counter[x][w] =
             IF isWrong THEN n + 1 ELSE IF n = 0 THEN 0 ELSE n - 1]

\* SaturationCounter::updatePolicy, DynamicSaturation::updatePolicy: the line is
\* stamped, a wrong access raises its counter, a right one lowers it; at the
\* threshold, and only there, the line migrates.
UpdatePolicy(s, x, w, isWrite) ==
  LET touched == [s EXCEPT !.llc = Touch(Hybrid, @, x, w)]
      isWrong == IsWrong(w, isWrite)
      n == s.counter[x][w]
      to == Victim(Hybrid, touched.llc, x, ~InNVM(w))
  IN IF isWrong /\ n + 1 = threshold[InNVM(w)]
     THEN Migrate(touched, x, w, to)
     ELSE [touched EXCEPT !.counter[x][w] =
             IF isWrong THEN n + 1 ELSE IF n = 0 THEN 0 ELSE n - 1]

\* The hit branch of HybridCache::handleAccess.  The entry looked up first is
\* the one marked dirty, even if updatePolicy has just migrated its line away.
LLCHit(s, b, isWrite) ==
  LET x == SetOf(Hybrid, b)
      w == s.llc.tag[b]
      updated == UpdatePolicy(s, x, w, isWrite)
  IN [updated EXCEPT !.llc.line[x][w].dirty = @ \/ isWrite]

\* The miss branch: reads are allocated in NVM, writes in SRAM (allocateInNVM).
LLCMiss(s, b, isWrite) ==
  LET x == SetOf(Hybrid, b)
      w == Victim(Hybrid, s.llc, x, AllocateInNVM(Hybrid, isWrite))
  IN [SignalEviction(s, x, w) EXCEPT
        !.llc = Fill(Hybrid, @, b, w, isWrite, FALSE),
        !.counter[x][w] = 0]

LLCHandleAccess(s, b, isWrite) ==
  IF Present(s.llc, b) THEN LLCHit(s, b, isWrite) ELSE LLCMiss(s, b, isWrite)

\* HybridCache::handleWB of a dirty block: the update a write makes.
LLCHandleWB(s, b) ==
  IF Present(s.llc, b)
  THEN UpdatePolicy(s, SetOf(Hybrid, b), s.llc.tag[b], TRUE)
  ELSE s

-----------------------------------------------------------------------------
InBounds == \A x \in Sets(Hybrid), w \in Ways(Hybrid) :
              counter[x][w] < CounterBound

\* An access no L1 answers (Hierarchy::handleAccess, NOT_PRESENT and CLEAN_LLC):
\* the block has a directory entry, in an L1 state, when the cache handles it.
LLCAccess(b, isWrite) ==
  /\ InBounds
  /\ b \notin held
  /\ LET s == [CacheState EXCEPT !.tracked = @ \cup {b}, !.held = @ \cup {b}]
     IN CacheBecomes(LLCHandleAccess(s, b, isWrite))

\* An L1 evicts a block, dirty (handleWB) or clean (only counted).
L1WriteBack(b, isDirty) ==
  /\ InBounds
  /\ b \in held
  /\ LET s == [CacheState EXCEPT !.held = @ \ {b}]
     IN CacheBecomes(IF isDirty THEN LLCHandleWB(s, b) ELSE s)

\* DynamicSaturation::openNewTimeFrame: each threshold follows the errors of its
\* array in the frame, down if there were too many and up if not, or stays if
\* the cache had no access.  The counts of errors are not modelled.
OpenNewTimeFrame ==
  /\ policy = "DynamicSaturation"
  /\ \E move \in [BOOLEAN -> {-1, 1}] :
       threshold' = [inNVM \in BOOLEAN |->
                      LET t == threshold[inNVM] + move[inNVM]
                      IN IF t < 1 THEN 1
                         ELSE IF t > LastThreshold THEN LastThreshold ELSE t]
  /\ UNCHANGED <<policy, llc, counter, tracked, held>>

MigrationNext ==
  \/ \E b \in Blocks : LLCAccess(b, FALSE)
  \/ \E b \in DataBlocks : LLCAccess(b, TRUE)
  \/ \E b \in Blocks : L1WriteBack(b, FALSE)
  \/ \E b \in DataBlocks : L1WriteBack(b, TRUE)
  \/ OpenNewTimeFrame

MigrationSpec == MigrationInit /\ [][MigrationNext]_migrationVars

-----------------------------------------------------------------------------
(***************************************************************************)
(* Properties.                                                             *)
(***************************************************************************)
\* Index and arrays agree whatever migrates: a migration empties two ways and
\* fills one, erases one block from the index and moves another
\* (HybridCache.cc:529, 541), and the fills and hits around it go on by the index.
MigrationKeepsIndex == TagsAgree(Hybrid, llc)

\* Every block the cache can still hit has a directory entry, although an
\* eviction removes the entry of the address it reads in a valid way and a
\* migration leaves ways with an address and no valid bit.
CachedIsTracked == \A b \in Blocks : Present(llc, b) => b \in tracked

\* With a fixed threshold no counter stands at or above it between two calls:
\* updatePolicy compares with == (SaturationPredictor.cc:43), so a counter that
\* passed the threshold would never trigger a migration again.
CountersBelowThreshold ==
  policy = "Saturation" =>
    \A x \in Sets(Hybrid), w \in Ways(Hybrid) :
      counter[x][w] < threshold[InNVM(w)]

\* The block an access brings to an L1 is in the index when the access is over:
\* the migration or the fill it causes takes another block's way, never that of
\* the very block it was for.
AccessedIsCached ==
  [][\A b \in Blocks : (b \notin held /\ b \in held') => Present(llc', b)]_migrationVars

\* "inclusive system" (HybridCache.cc:229): a block an L1 holds is in the cache.
LLCIncludesL1 == \A b \in held : Present(llc, b)
=============================================================================
