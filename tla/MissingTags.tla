---------------------------- MODULE MissingTags ----------------------------
(***************************************************************************)
(* What the base class Predictor (src/src/Predictor.cc) remembers of blocks *)
(* that are not where they were: per set the missing tags, the last victims *)
(* of the smaller array, and for each array a fully associative shadow of   *)
(* the same size, from which misses are classified.  They follow the last  *)
(* level cache, which allocates by PreemptivePredictor or by                *)
(* InstructionPredictor (src/src/InstructionPredictor.cc).                  *)
(*                                                                         *)
(* The L1s are left out: any block may be asked for, or be written back,    *)
(* next.  The requests of one access share a cpt_time: a write back, of the *)
(* L1 the block goes to or of its last owner, then the access, then either  *)
(* up to two prefetches or, when the LLC is asked before the L1 (several    *)
(* cores), the write back of that L1.  Any of them may be absent.           *)
(***************************************************************************)
EXTENDS HybridCache, FiniteSets

CONSTANTS
  NbSets, SRAMWays, NVMWays,  \* the geometry
  TagWays,        \* simu_parameters.sizeMTtags (4)
  Predictors,     \* the policies, each with or without simulate_conflicts
  PCs,            \* the instructions; 0 is the pc of a prefetch
  CostThreshold,  \* simu_parameters.cost_threshold (-5)
  TimeBound,      \* bound: of cpt_time
  CostBound,      \* bound: no hit takes a cost that is past it further from 0
  CountBound      \* bound: no miss once a counter is past it

Shadowed == [sets |-> NbSets, sram |-> SRAMWays, nvm |-> NVMWays,
             policy |-> "preemptive"]

NoPC == 0

ASSUME MissingTagsAssumption ==
  /\ Shadowed \in Geometries /\ SRAMWays > 0 /\ NVMWays > 0
  /\ TagWays \in Nat \ {0}
  /\ Predictors \subseteq {"preemptive", "Instruction"} \X BOOLEAN
  /\ PCs \subseteq Nat /\ NoPC \in PCs
  /\ CostThreshold \in Int
  /\ TimeBound \in Nat /\ CostBound \in Nat /\ CountBound \in Nat

VARIABLES
  predictor,  \* the policy and simulate_conflicts, chosen once
  cache,      \* index and arrays
  origin,     \* of each way: m_pc and cost_value
  counted,    \* the instructions pc_counters has
  pcCount,    \* pc_counters
  tags,       \* m_missing_tags
  shadow,     \* m_NVM_FU and m_SRAM_FU
  cpt_time,
  request,    \* the last request, by its place in an access
  lastTouch   \* history: when updateFUcaches last got an address, -1 never

tagsVars == <<predictor, cache, origin, counted, pcCount, tags, shadow,
              cpt_time, request, lastTouch>>

\* MissingTagEntry.
Addresses == Blocks \cup {NoBlock}
Tags == [addr : Addresses, valid : BOOLEAN, time : Nat]
EmptyTag == [addr |-> NoBlock, valid |-> FALSE, time |-> 0]
TagSlots == 1 .. TagWays

\* The places of a request in an access.  The last is that of a second prefetch
\* (simu_parameters.prefetchDegree is 2) or of a write back after the access.
WriteBack == 0
Demand == 1
Prefetched == 2
Last == 3
Places == WriteBack .. Last

ShadowSlots(inNVM) == 1 .. (NbSets * (IF inNVM THEN NVMWays ELSE SRAMWays))

MissingTagsTypeOK ==
  /\ predictor \in Predictors
  /\ cache \in Caches(Shadowed)
  /\ origin \in [Sets(Shadowed) -> [Ways(Shadowed) -> [pc : PCs, cost : Int]]]
  /\ counted \subseteq PCs
  /\ pcCount \in [PCs -> Nat]
  /\ tags \in [Sets(Shadowed) -> [TagSlots -> Tags]]
  /\ DOMAIN shadow = BOOLEAN
  /\ \A inNVM \in BOOLEAN : shadow[inNVM] \in [ShadowSlots(inNVM) -> Tags]
  /\ cpt_time \in Nat
  /\ request \in Places
  /\ lastTouch \in [BOOLEAN -> [Addresses -> Nat \cup {-1}]]

MissingTagsInit ==
  /\ predictor \in Predictors
  /\ cache = EmptyCache(Shadowed)
  /\ origin = [x \in Sets(Shadowed) |->
                 [w \in Ways(Shadowed) |-> [pc |-> NoPC, cost |-> 0]]]
  /\ counted = {}
  /\ pcCount = [p \in PCs |-> 0]
  /\ tags = [x \in Sets(Shadowed) |-> [i \in TagSlots |-> EmptyTag]]
  /\ shadow = [inNVM \in BOOLEAN |-> [i \in ShadowSlots(inNVM) |-> EmptyTag]]
  /\ cpt_time = 0
  /\ request = WriteBack
  /\ lastTouch = [inNVM \in BOOLEAN |-> [a \in Addresses |-> -1]]

\* m_missingTags_SRAMtracking: the tags are those of the smaller array.
TracksSRAM == SRAMWays <= NVMWays
InTracked(w) == (w < SRAMWays) = TracksSRAM

-----------------------------------------------------------------------------
(***************************************************************************)
(* The handlers, on the record of all variables.                           *)
(***************************************************************************)
At(time, req) ==
  [predictor |-> predictor, cache |-> cache, origin |-> origin,
   counted |-> counted, pcCount |-> pcCount, tags |-> tags, shadow |-> shadow,
   time |-> time, request |-> req, lastTouch |-> lastTouch]

TagsBecome(s) ==
  /\ predictor' = s.predictor /\ cache' = s.cache /\ origin' = s.origin
  /\ counted' = s.counted /\ pcCount' = s.pcCount
  /\ tags' = s.tags /\ shadow' = s.shadow
  /\ cpt_time' = s.time /\ request' = s.request /\ lastTouch' = s.lastTouch

ByInstruction(s) == s.predictor[1] = "Instruction"
SimulateConflicts(s) == s.predictor[2]

\* The entry both kinds of arrays give up: the first invalid one, else the first
\* of the oldest.
Replaced(entries) ==
  LET free == {i \in DOMAIN entries : ~entries[i].valid}
      Before(i, j) == \/ entries[i].time < entries[j].time
                      \/ entries[i].time = entries[j].time /\ i <= j
  IN IF free # {} THEN CHOOSE i \in free : \A j \in free : i <= j
     ELSE CHOOSE i \in DOMAIN entries : \A j \in DOMAIN entries : Before(i, j)

\* Mutant: an entry that is found keeps its time.
UpdateFUcachesFirstIn(s, a, inNVM) ==
  LET entries == s.shadow[inNVM]
      found == {i \in DOMAIN entries : entries[i].addr = a}
      noted == [s EXCEPT !.lastTouch[inNVM][a] = s.time]
  IN IF ~SimulateConflicts(s) THEN s
     ELSE IF found # {} THEN noted
     ELSE [noted EXCEPT !.shadow[inNVM][Replaced(entries)] =
             [addr |-> a, valid |-> TRUE, time |-> s.time]]

\* updateFUcaches: the search does not ask whether the entry is valid, so that
\* address 0 is found in one that never was.
UpdateFUcaches(s, a, inNVM) ==
  LET entries == s.shadow[inNVM]
      found == {i \in DOMAIN entries : entries[i].addr = a}
      first == CHOOSE i \in found : \A j \in found : i <= j
      noted == [s EXCEPT !.lastTouch[inNVM][a] = s.time]
  IN IF ~SimulateConflicts(s) THEN s
     ELSE IF found # {} THEN [noted EXCEPT !.shadow[inNVM][first].time = s.time]
     ELSE [noted EXCEPT !.shadow[inNVM][Replaced(entries)] =
             [addr |-> a, valid |-> TRUE, time |-> s.time]]

\* evictRecording: the victim way w, valid or not, becomes a missing tag.
EvictRecording(s, x, w) ==
  LET line == s.cache.line[x][w]
  IN IF ~InTracked(w) THEN s
     ELSE [s EXCEPT !.tags[x][Replaced(s.tags[x])] =
             [addr |-> line.addr, valid |-> line.valid, time |-> s.time]]

\* Mutant: the search for the tag ends after the first entry.
ForgetFirstTag(s, x, w, b) ==
  IF w >= SRAMWays THEN s
  ELSE [s EXCEPT !.tags[x] =
          [i \in TagSlots |->
             IF @[i].addr = b /\ i = 1 THEN [@[i] EXCEPT !.valid = FALSE]
             ELSE @[i]]]

\* Predictor::insertionPolicy: only a line that goes to SRAM takes its tag out.
ForgetTags(s, x, w, b) ==
  IF w >= SRAMWays THEN s
  ELSE [s EXCEPT !.tags[x] =
          [i \in TagSlots |->
             IF @[i].addr = b THEN [@[i] EXCEPT !.valid = FALSE] ELSE @[i]]]

\* reportMiss: a missing tag has the block.
IsMissingTag(x, b) == \E i \in TagSlots : tags[x][i].valid /\ tags[x][i].addr = b

\* Mutant: the counter is not held at 0.
CountEvictionBelowZero(s, x, w) ==
  LET p == s.origin[x][w].pc
      up == s.origin[x][w].cost >= CostThreshold
  IN IF ~ByInstruction(s) \/ ~s.cache.line[x][w].valid THEN s
     ELSE [s EXCEPT !.counted = @ \cup {p},
                    !.pcCount[p] = IF up THEN @ + 1 ELSE @ - 1]

\* InstructionPredictor::evictPolicy for the victim way w: the instruction of a
\* costly line counts up, without limit, that of another down.
CountEviction(s, x, w) ==
  LET p == s.origin[x][w].pc
      up == s.origin[x][w].cost >= CostThreshold
  IN IF ~ByInstruction(s) \/ ~s.cache.line[x][w].valid THEN s
     ELSE [s EXCEPT !.counted = @ \cup {p},
                    !.pcCount[p] = IF up THEN @ + 1 ELSE IF @ > 0 THEN @ - 1 ELSE 0]

\* InstructionPredictor::allocateInNVM counts a new instruction once.
CountAllocation(s, p, isFetch) ==
  IF ~ByInstruction(s) \/ isFetch \/ p \in s.counted THEN s
  ELSE [s EXCEPT !.counted = @ \cup {p}, !.pcCount[p] = 1]

ChoosesNVM(s, p, isFetch, isWrite) ==
  IF ~ByInstruction(s) THEN AllocateInNVM(Shadowed, isWrite)
  ELSE isFetch \/ s.pcCount[p] < 2

\* WRITE_VALUE and READ_VALUE, added to the cost_value of the line.
AccessCost(s, isWrite) ==
  IF ~ByInstruction(s) THEN 0 ELSE IF isWrite THEN 3 ELSE -1

\* updatePolicy of the line at way w, with the address of the request.
TagsUpdatePolicy(s, x, w, a, isWrite) ==
  UpdateFUcaches([s EXCEPT !.cache = Touch(Shadowed, @, x, w),
                           !.origin[x][w].cost = @ + AccessCost(s, isWrite)],
                 a, w >= SRAMWays)

\* The miss branch of HybridCache::handleAccess.
TagsMiss(s, b, p, isFetch, isWrite) ==
  LET x == SetOf(Shadowed, b)
      asked == CountAllocation(s, p, isFetch)
      w == Victim(Shadowed, s.cache, x, ChoosesNVM(asked, p, isFetch, isWrite))
      evicted == EvictRecording(CountEviction(asked, x, w), x, w)
      filled == [evicted EXCEPT
                   !.cache = Fill(Shadowed, @, b, w, FALSE, FALSE),
                   !.origin[x][w] = [pc |-> p, cost |-> AccessCost(s, isWrite)]]
  IN ForgetTags(UpdateFUcaches(filled, b, w >= SRAMWays), x, w, b)

TagsHandleAccess(s, b, p, isFetch, isWrite) ==
  LET x == SetOf(Shadowed, b)
  IN IF Present(s.cache, b)
     THEN TagsUpdatePolicy(s, x, s.cache.tag[b], b, isWrite)
     ELSE TagsMiss(s, b, p, isFetch, isWrite)

-----------------------------------------------------------------------------
\* No hit takes a cost further from 0 than the bound, no miss is made once a
\* counter passed it.
InBounds(b, isWrite) ==
  IF Present(cache, b)
  THEN LET cost == origin[SetOf(Shadowed, b)][cache.tag[b]].cost
       IN IF isWrite THEN cost <= CostBound ELSE cost >= -CostBound
  ELSE \A p \in PCs : pcCount[p] <= CountBound

\* A request of the same access as the last one, if it comes later in one, or of
\* the next access.
States(req) ==
  {At(t, req) : t \in {n \in {cpt_time, cpt_time + 1} :
                         n <= TimeBound /\ (n = cpt_time => request < req)}}

TagsFetch(b) ==
  InBounds(b, FALSE)
    /\ \E s \in States(Demand) :
         TagsBecome(TagsHandleAccess(s, b, NoPC, TRUE, FALSE))

TagsAccess(b, p, isWrite) ==
  InBounds(b, isWrite)
    /\ \E s \in States(Demand) :
         TagsBecome(TagsHandleAccess(s, b, p, FALSE, isWrite))

\* A prefetch of a block the LLC does not have: without pc, and, as its type is
\* taken from the access it follows, a fetch or not.
TagsPrefetch(b) ==
  /\ request \in {Demand, Prefetched} /\ InBounds(b, FALSE) /\ ~Present(cache, b)
  /\ \E isFetch \in BOOLEAN :
       TagsBecome(TagsHandleAccess(At(cpt_time, request + 1), b, NoPC, isFetch,
                                   FALSE))

\* HybridCache::handleWB of a dirty block, before the access or after it: the
\* Access it makes has no address.
TagsWriteBack(b) ==
  /\ InBounds(b, TRUE) /\ Present(cache, b)
  /\ \E s \in States(WriteBack) \cup {At(cpt_time, Last)} :
       /\ s.request = Last => request = Demand
       /\ TagsBecome(TagsUpdatePolicy(s, SetOf(Shadowed, b), cache.tag[b], NoBlock,
                                      TRUE))

MissingTagsNext ==
  \/ \E b \in InstBlocks : TagsFetch(b)
  \/ \E b \in DataBlocks, p \in PCs \ {NoPC}, isWrite \in BOOLEAN :
       TagsAccess(b, p, isWrite)
  \/ \E b \in Blocks : TagsPrefetch(b)
  \/ \E b \in DataBlocks : TagsWriteBack(b)

MissingTagsSpec == MissingTagsInit /\ [][MissingTagsNext]_tagsVars

-----------------------------------------------------------------------------
(***************************************************************************)
(* Properties.                                                             *)
(***************************************************************************)
\* A block of the tracked array is not among the missing tags: the next miss on
\* it is no error of the predictor for having been evicted long ago.  "Has to
\* remove the MT entry if it exists there", says Predictor.cc:188; the code does
\* so for lines that go to SRAM, also when it is the NVM victims it tracks.
MissingTagsAreMissing ==
  \A x \in Sets(Shadowed), w \in Ways(Shadowed) :
    LET line == cache.line[x][w]
    IN (InTracked(w) /\ line.valid) => ~IsMissingTag(x, line.addr)

\* With SRAM tracked a block has one missing tag, however often it comes and
\* goes: a second one would keep it an error after the first was taken out.
MissingTagsAreUnique ==
  TracksSRAM =>
    \A x \in Sets(Shadowed), i, j \in TagSlots :
      (tags[x][i].valid /\ tags[x][j].valid /\ tags[x][i].addr = tags[x][j].addr)
        => i = j

\* A shadow finds a block exactly when the distance of its last use is within its
\* size: it does if no more addresses than it has entries were given since, the
\* block's included, and does not if as many others were given after it.  The
\* address 0 of the dirty write backs (HybridCache.cc:447) takes an entry, or
\* shares an empty one: only the first half may count it.
ShadowIsRecent ==
  \A inNVM \in BOOLEAN, b \in Blocks :
    LET last == lastTouch[inNVM]
        size == Cardinality(ShadowSlots(inNVM))
        found == \E i \in ShadowSlots(inNVM) : shadow[inNVM][i].addr = b
    IN /\ (last[b] >= 0 /\ Cardinality({a \in Addresses : last[a] >= last[b]}) <= size)
            => found
       /\ found => Cardinality({a \in Blocks : last[a] > last[b]}) < size
=============================================================================
