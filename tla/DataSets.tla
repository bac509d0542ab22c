------------------------------ MODULE DataSets ------------------------------
(***************************************************************************)
(* The last level cache under DBAMB (src/src/DBAMBPredictor.cc).  Lines are *)
(* grouped in data sets, the lines that one instruction (one pc) brought in; *)
(* a table of DHPEntry keeps, for the data sets used last, how their lines  *)
(* were reused.  From that it decides where the next line of the data set   *)
(* goes: SRAM, NVM, nowhere (the cache is bypassed), or by the access.      *)
(*                                                                         *)
(* A bypassed data set is not seen any more, so one miss out of LearningTH  *)
(* gets a line all the same, a learning line: if that one is reused the    *)
(* data set is taken back.                                                  *)
(*                                                                         *)
(* Of an entry's rd_history and rw_history the code only uses whether there *)
(* are reads and writes and what they would have cost in either array; of  *)
(* nbRead and nbWrite whether both are 0.  The dirty and prefetch bits are   *)
(* left to Hierarchy and Migration: the predictor does not read them.        *)
(***************************************************************************)
EXTENDS HybridCache, FiniteSets

CONSTANTS
  NbSets, SRAMWays, NVMWays,  \* the geometry
  PCs,             \* the instructions; 0 is the pc of fetches and prefetches
  Uses,            \* the <<block, pc>> pairs of the program
  TableSets, TableWays,   \* the DHP table, m_RAP_sets and m_RAP_assoc
  OptTarget,       \* the costs compared: "energy" or "perf"
  WindowSize,      \* simu_parameters.window_size (20)
  DeadSaturation,  \* simu_parameters.deadSaturationCouter (3)
  LearningTH,      \* simu_parameters.learningTH (20)
  EnableBP, EnableMigration,  \* simu_parameters.enableBP, enableMigration
  L1Lines,         \* bound: the lines the L1 has room for
  HistoryBound     \* bound: no hit on a learning line past that history

Hybrid == [sets |-> NbSets, sram |-> SRAMWays, nvm |-> NVMWays,
           policy |-> "preemptive"]

NoPC == 0

ASSUME DataSetsAssumption ==
  /\ Hybrid \in Geometries /\ SRAMWays > 0 /\ NVMWays > 0
  /\ PCs \subseteq Nat /\ NoPC \in PCs
  /\ Uses \subseteq DataBlocks \X (PCs \ {NoPC})
  /\ TableSets \in Nat \ {0} /\ TableWays \in Nat \ {0}
  /\ OptTarget \in {"energy", "perf"}
  /\ WindowSize \in Nat /\ DeadSaturation \in Nat \ {0}
  /\ LearningTH \in Nat \ {0}
  /\ EnableBP \in BOOLEAN /\ EnableMigration \in BOOLEAN
  /\ L1Lines \in Nat /\ HistoryBound \in Nat

VARIABLES
  llc,      \* index and arrays
  info,     \* of each way: its data set, whether it is a learning line, and
            \* whether it was read or written since it was brought in
  recency,  \* of each data set: its rank in its set of the table, 1 the
            \* latest, 0 when it has no entry
  dataset,  \* the entries
  held      \* the blocks an L1 holds

dataSetsVars == <<llc, info, recency, dataset, held>>

Decisions == {"PREEMPTIVELY", "SRAM", "NVM", "BYPASS"}   \* allocDecision
RDTypes == {"SHORT", "MEDIUM", "NOT_ACCURATE"}           \* RD_TYPE
RWTypes == {"RO", "WO", "RW", "DEAD", "NOT_ACCURATE"}    \* RW_TYPE

Infos == [pc : PCs, learning : BOOLEAN, used : BOOLEAN]
EmptyInfo == [pc |-> NoPC, learning |-> FALSE, used |-> FALSE]

\* rd_history and rw_history: their length, whether there is a read, a write,
\* and by how much the accesses would have cost more in SRAM than in NVM.
Histories == [size : Nat, read : BOOLEAN, write : BOOLEAN, margin : Int]
EmptyHistory == [size |-> 0, read |-> FALSE, write |-> FALSE, margin |-> 0]

Entries == [des : Decisions, rd : RDTypes, rw : RWTypes, history : Histories,
            window : 0 .. WindowSize,
            dead : (-DeadSaturation) .. DeadSaturation,
            skipped : 0 .. (LearningTH - 1)]   \* cptBypassLearning

\* DHPEntry::initEntry.
InitEntry == [des |-> "PREEMPTIVELY", rd |-> "NOT_ACCURATE",
              rw |-> "NOT_ACCURATE", history |-> EmptyHistory,
              window |-> 0, dead |-> 0, skipped |-> 0]

DataSetsTypeOK ==
  /\ llc \in Caches(Hybrid)
  /\ info \in [Sets(Hybrid) -> [Ways(Hybrid) -> Infos]]
  /\ recency \in [PCs -> 0 .. TableWays]
  /\ dataset \in [PCs -> Entries]
  /\ held \subseteq Blocks

DataSetsInit ==
  /\ llc = EmptyCache(Hybrid)
  /\ info = [x \in Sets(Hybrid) |-> [w \in Ways(Hybrid) |-> EmptyInfo]]
  /\ recency = [p \in PCs |-> 0]
  /\ dataset = [p \in PCs |-> InitEntry]
  /\ held = {}

InNVM(w) == w >= SRAMWays

-----------------------------------------------------------------------------
(***************************************************************************)
(* One entry.                                                              *)
(***************************************************************************)
\* EnergyParameters (in femtojoules) and PerfParameters, for a read and a write.
Cost(array, isWrite) ==
  LET costs == IF OptTarget = "energy"
               THEN [SRAM |-> <<271678, 257436>>, NVM |-> <<236828, 652278>>,
                     DRAM |-> <<4088930, 4102410>>]
               ELSE [SRAM |-> <<10, 10>>, NVM |-> <<10, 37>>,
                     DRAM |-> <<100, 100>>]
  IN costs[array][IF isWrite THEN 2 ELSE 1]

\* The cost function of determineStatus for one access: reused at a medium
\* distance it would have missed in SRAM, else it costs the same DRAM access,
\* or none, in both.
Margin(rd, isWrite) ==
  Cost(IF rd = "MEDIUM" THEN "DRAM" ELSE "SRAM", isWrite) - Cost("NVM", isWrite)

\* rd_history.push_back, rw_history.push_back.
Push(e, rd, isWrite) ==
  [e EXCEPT !.history =
     [size |-> @.size + 1, read |-> @.read \/ ~isWrite,
      write |-> @.write \/ isWrite, margin |-> @.margin + Margin(rd, isWrite)]]

\* The histories are cleared and cptWindow is 0.
ClearWindow(e) == [e EXCEPT !.history = EmptyHistory, !.window = 0]

\* convertState.
ConvertState(rd, rw, des) ==
  LET smallSRAM == SRAMWays <= NVMWays
      far == rd = "MEDIUM"
  IN CASE rw = "RO" -> IF far /\ ~smallSRAM THEN "SRAM" ELSE "NVM"
       [] rw \in {"RW", "WO"} -> IF far /\ smallSRAM THEN "NVM" ELSE "SRAM"
       [] rw = "DEAD" -> IF des = "SRAM" THEN "NVM" ELSE "BYPASS"
       [] OTHER -> IF far THEN "NVM"
                   ELSE IF rd = "SHORT" THEN "SRAM" ELSE "PREEMPTIVELY"

\* determineStatus: what the history says of the data set.
RWStatus(h) == CASE h.read /\ h.write -> "RW"
                 [] h.read /\ ~h.write -> "RO"
                 [] ~h.read /\ h.write -> "WO"
                 [] OTHER -> "DEAD"
RDStatus(h) == IF RWStatus(h) = "DEAD" THEN "NOT_ACCURATE"
               ELSE IF h.margin > 0 THEN "MEDIUM" ELSE "SHORT"

\* Mutant: a bypassed data set is classified by the lines it still has.
ClassifyBypassed(e) ==
  LET rw == RWStatus(e.history)
      rd == RDStatus(e.history)
  IN IF rw = e.rw /\ rd = e.rd THEN e
     ELSE [e EXCEPT !.rw = rw, !.rd = rd, !.des = ConvertState(rd, rw, @)]

\* The end of a window in updateWindow: the status is determined, and the decision
\* follows it if it changed; a bypassed data set is left as it is.
Classify(e) ==
  LET rw == RWStatus(e.history)
      rd == RDStatus(e.history)
  IN IF e.des = "BYPASS" \/ (rw = e.rw /\ rd = e.rd) THEN e
     ELSE [e EXCEPT !.rw = rw, !.rd = rd, !.des = ConvertState(rd, rw, @)]

\* updateWindow: the window closes on the access after it is full.
UpdateWindow(e) ==
  IF e.window < WindowSize THEN [e EXCEPT !.window = @ + 1]
  ELSE ClearWindow(Classify(e))

\* Mutant: the data set starts again with the status it had.
RelearnKeepsStatus(e) == [e EXCEPT !.des = "PREEMPTIVELY", !.dead = 0]

\* A learning line was reused (updatePolicy): the data set starts again.  The
\* window goes on, and so do its histories.
Relearn(e) == [e EXCEPT !.des = "PREEMPTIVELY", !.rd = "NOT_ACCURATE",
                        !.rw = "NOT_ACCURATE", !.dead = 0]

\* evictPolicy: a line of the data set is chosen as the victim.  One more unused
\* line lowers the dead counter, a used one raises it; at the bottom a data set
\* kept in SRAM goes to NVM, another is bypassed.
AfterEviction(e, used) ==
  LET n == IF used
           THEN IF e.dead = DeadSaturation THEN e.dead ELSE e.dead + 1
           ELSE IF e.dead = -DeadSaturation THEN e.dead ELSE e.dead - 1
  IN CASE e.des = "BYPASS" -> e
       [] e.des # "BYPASS" /\ ~(EnableBP /\ n = -DeadSaturation) ->
            [e EXCEPT !.dead = n]
       [] e.des = "SRAM" /\ EnableBP /\ n = -DeadSaturation ->
            [ClearWindow(e) EXCEPT !.dead = 0, !.des = "NVM", !.rd = "MEDIUM"]
       [] OTHER ->
            [ClearWindow(e) EXCEPT !.dead = 0, !.des = "BYPASS",
                                   !.rd = "NOT_ACCURATE", !.rw = "DEAD"]

\* Mutant: the miss whose turn it is starts the count again and is skipped too.
IsSkippedAlways(e) == e.des = "BYPASS"

\* Mutant: the count is not reset when it is the turn of a learning line.
SkipWithoutReset(e) == [e EXCEPT !.skipped = @ + 1]

\* allocateInNVM for a bypassed data set: one more miss skipped, or it is the turn
\* of a learning line.
Skip(e) == [e EXCEPT !.skipped = IF @ + 1 = LearningTH THEN 0 ELSE @ + 1]
IsSkipped(e) == e.des = "BYPASS" /\ e.skipped + 1 # LearningTH

-----------------------------------------------------------------------------
(***************************************************************************)
(* The table, and the handlers, on the record of all variables.            *)
(***************************************************************************)
State == [llc |-> llc, info |-> info, recency |-> recency,
          dataset |-> dataset, held |-> held]

Becomes(s) ==
  /\ llc' = s.llc /\ info' = s.info /\ held' = s.held
  /\ recency' = s.recency /\ dataset' = s.dataset

\* lookup(pc) != NULL.
Known(s, p) == s.recency[p] # 0

\* The entry of a data set becomes the latest of its set of the table; a data set
\* without one takes a free entry or that of the data set used least recently
\* (DBAMBLRUPolicy).
Refer(s, p) ==
  LET SameSet(q) == q % TableSets = p % TableSets
      Moves(q) == /\ q # p /\ SameSet(q) /\ Known(s, q)
                  /\ ~Known(s, p) \/ s.recency[q] < s.recency[p]
      Leaves(q) == Moves(q) /\ s.recency[q] = TableWays
  IN [s EXCEPT
        !.recency = [q \in PCs |-> IF q = p THEN 1
                                   ELSE IF Leaves(q) THEN 0
                                   ELSE IF Moves(q) THEN @[q] + 1 ELSE @[q]],
        !.dataset = [q \in PCs |-> IF Leaves(q) THEN InitEntry ELSE @[q]]]

\* evictPolicy once the victim is chosen: the data set of way w, valid or not, is
\* told.
NoteEviction(s, x, w) ==
  LET line == s.info[x][w]
  IN IF Known(s, line.pc)
     THEN [s EXCEPT !.dataset[line.pc] = AfterEviction(@, line.used)]
     ELSE s

\* signalDeallocate: the L1s lose the block of the victim, if it is valid.
SignalEviction(s, x, w) ==
  LET line == s.llc.line[x][w]
  IN IF line.valid THEN [s EXCEPT !.held = @ \ {line.addr}] ELSE s

\* Mutant: the index keeps the way the line left.
MigrateKeepsTag(s, x, from, to) ==
  LET emptied == DeallocateWay(s.llc, x, to)
  IN [s EXCEPT
        !.llc = [emptied EXCEPT
                   !.line[x][to] = [emptied.line[x][from] EXCEPT !.valid = FALSE],
                   !.line[x][from] = EmptyLine],
        !.info[x] = [@ EXCEPT ![to] = s.info[x][from], ![from] = EmptyInfo]]

\* HybridCache::triggerMigration of the line at way from to way to (Migration has
\* the details): the line arrives invalid, the entry it leaves is empty.
Migrate(s, x, from, to) ==
  LET emptied == DeallocateWay(s.llc, x, to)
      line == emptied.line[x][from]
  IN [s EXCEPT
        !.llc = [emptied EXCEPT
                   !.line[x][to] = [line EXCEPT !.valid = FALSE],
                   !.line[x][from] = EmptyLine,
                   !.tag = [b \in Blocks |-> IF b = line.addr THEN to
                                             ELSE emptied.tag[b]]],
        !.info[x] = [@ EXCEPT ![to] = s.info[x][from], ![from] = EmptyInfo]]

\* Mutant: the victim is taken in the array of the line itself.
LazyMigrationSameArray(s, x, w, isWrite) ==
  LET des == s.dataset[s.info[x][w].pc].des
      to == Victim(Hybrid, s.llc, x, InNVM(w))
      misplaced == \/ des = "NVM" /\ ~InNVM(w) /\ ~isWrite
                   \/ des = "SRAM" /\ InNVM(w)
  IN IF EnableMigration /\ misplaced
     THEN Migrate([NoteEviction(s, x, to) EXCEPT !.info[x][w].used = TRUE],
                  x, w, to)
     ELSE s

\* checkLazyMigration: the line is in the array its data set is not for.  The
\* other array gives its victim, whose data set is told as for an eviction; the
\* line counts as read.
LazyMigration(s, x, w, isWrite) ==
  LET des == s.dataset[s.info[x][w].pc].des
      to == Victim(Hybrid, s.llc, x, ~InNVM(w))
      misplaced == \/ des = "NVM" /\ ~InNVM(w) /\ ~isWrite
                   \/ des = "SRAM" /\ InNVM(w)
  IN IF EnableMigration /\ misplaced
     THEN Migrate([NoteEviction(s, x, to) EXCEPT !.info[x][w].used = TRUE],
                  x, w, to)
     ELSE s

\* computeRd, convertRD: how many lines of the array were used after this one. A
\* migrated line has a stamp of another clock: whether it is a later one is open,
\* and later says of which lines it is.
ReuseDistance(s, x, w, later) ==
  LET line == s.llc.line[x]
      After(v) == IF line[v].valid /\ line[w].valid
                  THEN s.llc.age[x][v] < s.llc.age[x][w] ELSE v \in later
      rd == Cardinality({v \in Array(Hybrid, InNVM(w)) \ {w} :
                           line[v].addr # NoBlock /\ After(v)})
      small == IF SRAMWays <= NVMWays THEN SRAMWays ELSE NVMWays
  IN IF rd < small THEN "SHORT"
     ELSE IF rd < SRAMWays \/ rd < NVMWays THEN "MEDIUM" ELSE "NOT_ACCURATE"

\* updatePolicy: the line is stamped and its data set, if it has an entry, learns
\* of the reuse; then the line may migrate.
UpdatePolicy(s, x, w, isWrite, later) ==
  LET line == s.info[x][w]
      touched == [s EXCEPT !.llc = Touch(Hybrid, @, x, w)]
      pushed == Push(s.dataset[line.pc], ReuseDistance(s, x, w, later), isWrite)
      With(e) == [touched EXCEPT !.dataset[line.pc] = e]
  IN IF line.pc = NoPC \/ ~Known(s, line.pc) THEN touched
     ELSE IF line.learning THEN With(Relearn(pushed))
     ELSE LazyMigration(With(UpdateWindow(pushed)), x, w, isWrite)

\* insertionPolicy of the new line of data set p at way w: a learning line if the
\* data set is bypassed, else one more access in its window.
InsertionPolicy(s, x, w, p, isWrite, isSRAMerror) ==
  LET e == s.dataset[p]
      rd == IF isSRAMerror THEN "MEDIUM" ELSE "NOT_ACCURATE"
      s1 == [s EXCEPT !.info[x][w] = [EmptyInfo EXCEPT !.pc = p]]
  IN IF ~Known(s, p) THEN s1
     ELSE IF e.des = "BYPASS" THEN [s1 EXCEPT !.info[x][w].learning = TRUE]
     ELSE [s1 EXCEPT !.dataset[p] = UpdateWindow(Push(e, rd, isWrite))]

\* The hit branch of HybridCache::handleAccess.  The entry looked up first is
\* the one counted as used, even if its line has just migrated away.
LLCHit(s, b, isWrite, later) ==
  LET x == SetOf(Hybrid, b)
      w == s.llc.tag[b]
      updated == UpdatePolicy(s, x, w, isWrite, later)
  IN [updated EXCEPT !.info[x][w].used = TRUE]

\* HybridCache::handleWB of a dirty block: the line counts as written before it
\* may migrate.
LLCHandleWB(s, b, later) ==
  LET x == SetOf(Hybrid, b)
      w == s.llc.tag[b]
  IN UpdatePolicy([s EXCEPT !.info[x][w].used = TRUE], x, w, TRUE, later)

\* The miss branch once the array is chosen: the victim's data set is told, then
\* the L1s, then the line is brought in.
LLCAllocate(s, b, p, inNVM, isWrite, isSRAMerror) ==
  LET x == SetOf(Hybrid, b)
      w == Victim(Hybrid, s.llc, x, inNVM)
      told == SignalEviction(NoteEviction(s, x, w), x, w)
      filled == [told EXCEPT !.llc = Fill(Hybrid, @, b, w, FALSE, FALSE)]
  IN InsertionPolicy(filled, x, w, p, isWrite, isSRAMerror)

\* The array allocateInNVM chooses for a miss of the data set (a learning line
\* goes to NVM).
ChoosesNVM(e, isWrite) ==
  e.des \in {"NVM", "BYPASS"} \/ (e.des = "PREEMPTIVELY" /\ ~isWrite)

\* The miss branch for data: allocateInNVM refers to the data set, giving it an
\* entry if it has none.
LLCMiss(s, b, p, isWrite, isSRAMerror) ==
  LET s1 == Refer(s, p)
      e == s1.dataset[p]
      s2 == IF e.des = "BYPASS" THEN [s1 EXCEPT !.dataset[p] = Skip(@)] ELSE s1
  IN IF IsSkipped(e) THEN s2
     ELSE LLCAllocate(s2, b, p, ChoosesNVM(e, isWrite), isWrite, isSRAMerror)

-----------------------------------------------------------------------------
(***************************************************************************)
(* Actions.  An access reaches the cache for a block no L1 has, when there  *)
(* is room for it in the L1; the L1 has it before the cache handles it.     *)
(***************************************************************************)
CanAccess(b) == b \notin held /\ Cardinality(held) < L1Lines

Requested(b) == [State EXCEPT !.held = @ \cup {b}]

\* A learning line that is reused adds to histories no window may ever clear.
InBounds(b) ==
  LET line == info[SetOf(Hybrid, b)][llc.tag[b]]
  IN line.learning => dataset[line.pc].history.size < HistoryBound

\* The other lines of the array a block is in, the ones computeRd looks at.
ArrayMates(b) ==
  LET w == llc.tag[b]
  IN Array(Hybrid, InNVM(w)) \ {w}

\* A data access that hits.
HitAccess(b, isWrite) ==
  /\ CanAccess(b) /\ Present(llc, b) /\ InBounds(b)
  /\ \E later \in SUBSET ArrayMates(b) :
       Becomes(LLCHit(Requested(b), b, isWrite, later))

\* A data access that misses; the answer of reportMiss is not modelled here.
MissAccess(b, p, isWrite) ==
  /\ CanAccess(b) /\ ~Present(llc, b)
  /\ \E isSRAMerror \in BOOLEAN :
       Becomes(LLCMiss(Requested(b), b, p, isWrite, isSRAMerror))

\* An instruction fetch: no data set, always in NVM.
Fetch(b) ==
  /\ CanAccess(b)
  /\ \/ /\ Present(llc, b) /\ InBounds(b)
        /\ \E later \in SUBSET ArrayMates(b) :
             Becomes(LLCHit(Requested(b), b, FALSE, later))
     \/ /\ ~Present(llc, b)
        /\ \E isSRAMerror \in BOOLEAN :
             Becomes(LLCAllocate(Requested(b), b, NoPC, TRUE, FALSE, isSRAMerror))

\* A prefetch of a block the hierarchy does not have.  It has no pc: one that
\* follows data is typed as an instruction prefetch (Hierarchy.cc:347) and goes
\* to NVM, one that follows a fetch makes 0 a data set.
Prefetch(b) ==
  /\ b \notin held /\ ~Present(llc, b)
  /\ \E isSRAMerror \in BOOLEAN :
       \/ Becomes(LLCAllocate(State, b, NoPC, TRUE, FALSE, isSRAMerror))
       \/ Becomes(LLCMiss(State, b, NoPC, FALSE, isSRAMerror))

\* An L1 evicts a block: a clean write back only counts, a dirty one updates the
\* line if the cache has it.
CleanWriteBack(b) ==
  /\ b \in held
  /\ held' = held \ {b}
  /\ UNCHANGED <<llc, info, recency, dataset>>

DirtyWriteBack(b) ==
  /\ b \in held
  /\ LET s == [State EXCEPT !.held = @ \ {b}]
     IN IF Present(llc, b)
        THEN /\ InBounds(b)
             /\ \E later \in SUBSET ArrayMates(b) :
                  Becomes(LLCHandleWB(s, b, later))
        ELSE Becomes(s)

\* A miss of data set p.
Miss(p) ==
  \E use \in Uses, isWrite \in BOOLEAN :
    use[2] = p /\ MissAccess(use[1], p, isWrite)

DataSetsNext ==
  \/ \E b \in DataBlocks, isWrite \in BOOLEAN : HitAccess(b, isWrite)
  \/ \E p \in PCs : Miss(p)
  \/ \E b \in InstBlocks : Fetch(b)
  \/ \E b \in Blocks : Prefetch(b)
  \/ \E b \in Blocks : CleanWriteBack(b)
  \/ \E b \in DataBlocks : DirtyWriteBack(b)

DataSetsSpec == DataSetsInit /\ [][DataSetsNext]_dataSetsVars

-----------------------------------------------------------------------------
(***************************************************************************)
(* Fairness.  The simulator only answers; what goes on for ever is the      *)
(* program it is given: its data sets miss again as long as they can, and   *)
(* no line stays in an L1 for ever.                                         *)
(***************************************************************************)
\* A miss of data set p, by the two variables that tell it: the block enters an
\* L1 and p is referred to.  (TLC decides quickly when this step is enabled.)
MissStep(p) ==
  \E use \in Uses :
    /\ use[2] = p /\ CanAccess(use[1]) /\ ~Present(llc, use[1])
    /\ recency' = Refer(State, p).recency
    /\ held' \in SUBSET Blocks /\ use[1] \in held'

Fairness ==
  /\ \A p \in PCs \ {NoPC} : SF_held(MissStep(p))
  /\ \A b \in Blocks : WF_dataSetsVars(CleanWriteBack(b))

DataSetsLiveSpec == DataSetsSpec /\ Fairness

-----------------------------------------------------------------------------
(***************************************************************************)
(* Properties.                                                             *)
(***************************************************************************)
\* With no more SRAM than NVM (as shipped) the decision of a data set always is
\* the one its status calls for.  The two are written together and apart in four
\* places (DBAMBPredictor.cc:325, 596, 690, 711), and updateWindow computes the
\* decision only when the status changes: once they differ, they stay so.
DecisionFollowsStatus ==
  SRAMWays <= NVMWays =>
    \A p \in PCs :
      LET e == dataset[p]
      IN e.des = IF e.rw = "DEAD" THEN "BYPASS"
                 ELSE ConvertState(e.rd, e.rw, e.des)

\* Index and arrays agree under lazy migration and bypass, although evictPolicy
\* is asked for a victim in the middle of the hit of another line
\* (DBAMBPredictor.cc:442, 468).
DataSetsKeepIndex == TagsAgree(Hybrid, llc)

IsLearningLine(x, w, p) == info[x][w].learning /\ info[x][w].pc = p

\* A bypassed data set is taken back only when a learning line of its own is in
\* the cache to be reused, and then starts over, undecided; or it lost its entry.
\* The lines it had before it was bypassed are still hit and still close
\* windows, and must not classify it.
BypassEndsByReuse ==
  [][\A p \in PCs :
       (dataset[p].des = "BYPASS" /\ dataset'[p].des # "BYPASS" /\ recency'[p] # 0)
         => /\ \E x \in Sets(Hybrid), w \in Ways(Hybrid) : IsLearningLine(x, w, p)
            /\ dataset'[p].des = "PREEMPTIVELY" /\ dataset'[p].dead = 0]_dataSetsVars

\* When an access is over its block is in the cache, unless its data set was
\* bypassed when it began: neither the migration a hit causes nor the fill of a
\* miss takes the block's own way, whatever they do to its data set.
CachedUnlessBypassed ==
  [][\A b \in Blocks :
       (b \notin held /\ b \in held') =>
         \/ Present(llc', b)
         \/ \E p \in PCs : <<b, p>> \in Uses /\ dataset[p].des = "BYPASS"]_dataSetsVars

\* Bypassing is not for ever: a bypassed data set gets its entry back, or a
\* learning line to be judged by, or has all its blocks in the cache.
BypassedIsSampled ==
  \A p \in PCs \ {NoPC} :
    dataset[p].des = "BYPASS" ~>
      \/ dataset[p].des # "BYPASS"
      \/ \E x \in Sets(Hybrid), w \in Ways(Hybrid) : IsLearningLine(x, w, p)
      \/ \A use \in Uses : use[2] = p => Present(llc, use[1])
=============================================================================
