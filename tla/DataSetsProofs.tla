--------------------------- MODULE DataSetsProofs ---------------------------
(***************************************************************************)
(* The invariants of the cache under DBAMB, for every geometry, table, set  *)
(* of blocks and instructions, and all parameters of the predictor.  First  *)
(* what the operations on an entry keep, then the handlers, operators on    *)
(* the record State.                                                       *)
(***************************************************************************)
EXTENDS DataSets, HybridCacheProofs

\* The decision is the one the status calls for; a status that is not DEAD calls
\* for the same whatever was decided before.
FollowsStatus(e) ==
  SRAMWays <= NVMWays =>
    e.des = IF e.rw = "DEAD" THEN "BYPASS" ELSE ConvertState(e.rd, e.rw, e.des)

GoodEntry(e) == e \in Entries /\ FollowsStatus(e)

-----------------------------------------------------------------------------
LEMMA Parameters ==
  /\ Hybrid \in Geometries
  /\ SRAMWays \in Nat \ {0} /\ NVMWays \in Nat \ {0}
  /\ Hybrid.sram = SRAMWays /\ Hybrid.nvm = NVMWays
  /\ WindowSize \in Nat /\ DeadSaturation \in Nat \ {0}
  /\ LearningTH \in Nat \ {0}
  /\ NoPC \in PCs /\ TableWays \in Nat \ {0}
  BY DataSetsAssumption DEF Hybrid, Geometries

LEMMA InitEntryGood == GoodEntry(InitEntry)
<1>1. InitEntry \in Entries
  <2>1. EmptyHistory \in Histories
    BY DEF EmptyHistory, Histories
  <2> QED
    BY <2>1, Parameters DEF InitEntry, Entries, Decisions, RDTypes, RWTypes
<1>2. FollowsStatus(InitEntry)
  BY DEF InitEntry, FollowsStatus, ConvertState
<1> QED
  BY <1>1, <1>2 DEF GoodEntry

LEMMA MarginType ==
  ASSUME NEW rd, NEW isWrite \in BOOLEAN
  PROVE  Margin(rd, isWrite) \in Int
<1>1. \A array \in {"SRAM", "NVM", "DRAM"} : Cost(array, isWrite) \in Int
  BY DEF Cost
<1> QED
  BY <1>1 DEF Margin

\* A push leaves status and decision; afterwards the history has an access.
LEMMA PushGood ==
  ASSUME NEW e, GoodEntry(e), NEW rd, NEW isWrite \in BOOLEAN
  PROVE  LET d == Push(e, rd, isWrite)
         IN /\ GoodEntry(d)
            /\ d.des = e.des
            /\ RWStatus(d.history) # "DEAD"
<1> DEFINE m == Margin(rd, isWrite)
           h == [size |-> e.history.size + 1, read |-> e.history.read \/ ~isWrite,
                 write |-> e.history.write \/ isWrite,
                 margin |-> e.history.margin + m]
           d == [e EXCEPT !.history = h]
<1>1. m \in Int
  BY MarginType
<1> HIDE DEF m
<1>2. e \in Entries /\ e.history \in Histories
  BY DEF GoodEntry, Entries
<1>3. Push(e, rd, isWrite) = d
  BY DEF Push, m
<1>4. h \in Histories
  BY <1>1, <1>2 DEF Histories
<1>5. RWStatus(h) # "DEAD"
  BY <1>2 DEF RWStatus, Histories
<1> HIDE DEF h
<1>6. /\ d \in Entries /\ d.history = h
      /\ d.des = e.des /\ d.rd = e.rd /\ d.rw = e.rw
  BY <1>2, <1>4 DEF Entries
<1>7. FollowsStatus(d)
  BY <1>6 DEF GoodEntry, FollowsStatus
<1> QED
  BY <1>3, <1>5, <1>6, <1>7 DEF GoodEntry

LEMMA ClearWindowGood ==
  ASSUME NEW e, GoodEntry(e)
  PROVE  /\ GoodEntry(ClearWindow(e))
         /\ ClearWindow(e).des = e.des
<1>1. EmptyHistory \in Histories /\ 0 \in 0 .. WindowSize
  BY Parameters DEF EmptyHistory, Histories
<1>2. LET d == ClearWindow(e)
      IN d \in Entries /\ d.des = e.des /\ d.rd = e.rd /\ d.rw = e.rw
  BY <1>1 DEF ClearWindow, GoodEntry, Entries
<1> QED
  BY <1>2 DEF GoodEntry, FollowsStatus

\* What convertState decides for a status that is not DEAD, and that it does not
\* depend on what was decided.
LEMMA ConvertStateType ==
  ASSUME NEW rd \in RDTypes, NEW rw \in RWTypes \ {"DEAD"}, NEW des, NEW old
  PROVE  /\ ConvertState(rd, rw, des) \in Decisions
         /\ ConvertState(rd, rw, des) = ConvertState(rd, rw, old)
  BY DEF ConvertState, RDTypes, RWTypes, Decisions

\* The end of a window: the history is not empty, so the new status is not DEAD.
LEMMA ClassifyGood ==
  ASSUME NEW e, GoodEntry(e), RWStatus(e.history) # "DEAD"
  PROVE  /\ GoodEntry(Classify(e))
         /\ e.des = "BYPASS" => Classify(e).des = "BYPASS"
<1> DEFINE rw == RWStatus(e.history)
           rd == RDStatus(e.history)
           des == ConvertState(rd, rw, e.des)
           d == [e EXCEPT !.rw = rw, !.rd = rd, !.des = des]
<1>1. rw \in RWTypes \ {"DEAD"} /\ rd \in RDTypes
  BY DEF RWStatus, RDStatus, RWTypes, RDTypes
<1>2. des \in Decisions /\ des = ConvertState(rd, rw, des)
  BY <1>1, ConvertStateType
<1>3. Classify(e) = e \/ (e.des # "BYPASS" /\ Classify(e) = d)
  BY DEF Classify
<1> HIDE DEF rw, rd, des
<1>4. d \in Entries /\ d.rw = rw /\ d.rd = rd /\ d.des = des
  BY <1>1, <1>2 DEF GoodEntry, Entries
<1>5. FollowsStatus(d)
  BY <1>1, <1>2, <1>4 DEF FollowsStatus
<1> QED
  BY <1>3, <1>4, <1>5 DEF GoodEntry

LEMMA UpdateWindowGood ==
  ASSUME NEW e, GoodEntry(e), RWStatus(e.history) # "DEAD"
  PROVE  /\ GoodEntry(UpdateWindow(e))
         /\ e.des = "BYPASS" => UpdateWindow(e).des = "BYPASS"
<1>1. CASE e.window < WindowSize
  <2>1. e.window \in 0 .. WindowSize /\ e \in Entries
    BY DEF GoodEntry, Entries
  <2>2. e.window + 1 \in 0 .. WindowSize
    BY <1>1, <2>1, Parameters
  <2> DEFINE d == [e EXCEPT !.window = e.window + 1]
  <2>3. UpdateWindow(e) = d
    BY <1>1 DEF UpdateWindow
  <2>4. d \in Entries /\ d.des = e.des /\ d.rd = e.rd /\ d.rw = e.rw
    BY <2>1, <2>2 DEF Entries
  <2> QED
    BY <2>3, <2>4 DEF GoodEntry, FollowsStatus
<1>2. CASE ~(e.window < WindowSize)
  BY <1>2, ClassifyGood, ClearWindowGood DEF UpdateWindow
<1> QED
  BY <1>1, <1>2

LEMMA RelearnGood ==
  ASSUME NEW e, GoodEntry(e)
  PROVE  /\ GoodEntry(Relearn(e))
         /\ Relearn(e).des = "PREEMPTIVELY" /\ Relearn(e).dead = 0
<1>1. 0 \in (-DeadSaturation) .. DeadSaturation
  BY Parameters
<1>2. LET d == Relearn(e)
      IN /\ d \in Entries /\ d.des = "PREEMPTIVELY" /\ d.dead = 0
         /\ d.rd = "NOT_ACCURATE" /\ d.rw = "NOT_ACCURATE"
  BY <1>1 DEF Relearn, GoodEntry, Entries, Decisions, RDTypes, RWTypes
<1> QED
  BY <1>2 DEF GoodEntry, FollowsStatus, ConvertState

\* An eviction leaves a bypassed data set as it is; the decision of another, if it
\* changes, changes with the status.
LEMMA AfterEvictionGood ==
  ASSUME NEW e, GoodEntry(e), NEW used
  PROVE  /\ GoodEntry(AfterEviction(e, used))
         /\ e.des = "BYPASS" => AfterEviction(e, used) = e
<1> DEFINE n == IF used
                THEN IF e.dead = DeadSaturation THEN e.dead ELSE e.dead + 1
                ELSE IF e.dead = -DeadSaturation THEN e.dead ELSE e.dead - 1
           c == ClearWindow(e)
           toNVM == [c EXCEPT !.dead = 0, !.des = "NVM", !.rd = "MEDIUM"]
           toBypass == [c EXCEPT !.dead = 0, !.des = "BYPASS",
                                 !.rd = "NOT_ACCURATE", !.rw = "DEAD"]
           counted == [e EXCEPT !.dead = n]
<1>1. e \in Entries /\ e.dead \in (-DeadSaturation) .. DeadSaturation
  BY DEF GoodEntry, Entries
<1>2. n \in (-DeadSaturation) .. DeadSaturation /\ 0 \in (-DeadSaturation) .. DeadSaturation
  BY <1>1, Parameters
<1>3. c \in Entries /\ c.rw = e.rw
  BY ClearWindowGood DEF GoodEntry, ClearWindow, Entries
<1>4. \/ AfterEviction(e, used) = e
      \/ AfterEviction(e, used) = counted /\ e.des # "BYPASS"
      \/ AfterEviction(e, used) = toNVM /\ e.des = "SRAM"
      \/ AfterEviction(e, used) = toBypass /\ e.des # "BYPASS"
  BY DEF AfterEviction
<1>5. e.des = "BYPASS" => AfterEviction(e, used) = e
  BY DEF AfterEviction
<1> HIDE DEF n, c
<1>6. GoodEntry(counted)
  <2>1. /\ counted \in Entries
        /\ counted.des = e.des /\ counted.rd = e.rd /\ counted.rw = e.rw
    BY <1>1, <1>2 DEF Entries
  <2> QED
    BY <2>1 DEF GoodEntry, FollowsStatus
<1>7. ASSUME e.des = "SRAM" PROVE GoodEntry(toNVM)
  <2>1. /\ toNVM \in Entries
        /\ toNVM.des = "NVM" /\ toNVM.rd = "MEDIUM" /\ toNVM.rw = e.rw
    BY <1>2, <1>3 DEF Entries, Decisions, RDTypes
  <2>2. e.rw \in RWTypes
    BY <1>1 DEF Entries
  <2>3. SRAMWays <= NVMWays => e.rw # "DEAD"
    BY <1>7 DEF GoodEntry, FollowsStatus
  <2>4. FollowsStatus(toNVM)
    BY <2>1, <2>2, <2>3 DEF FollowsStatus, ConvertState, RWTypes
  <2> QED
    BY <2>1, <2>4 DEF GoodEntry
<1>8. GoodEntry(toBypass)
  <2>1. /\ toBypass \in Entries
        /\ toBypass.des = "BYPASS" /\ toBypass.rw = "DEAD"
    BY <1>2, <1>3 DEF Entries, Decisions, RDTypes, RWTypes
  <2> QED
    BY <2>1 DEF GoodEntry, FollowsStatus
<1> QED
  BY <1>4, <1>5, <1>6, <1>7, <1>8

LEMMA SkipGood ==
  ASSUME NEW e, GoodEntry(e)
  PROVE  GoodEntry(Skip(e)) /\ Skip(e).des = e.des
<1> DEFINE n == IF e.skipped + 1 = LearningTH THEN 0 ELSE e.skipped + 1
           d == [e EXCEPT !.skipped = n]
<1>1. e \in Entries /\ e.skipped \in 0 .. (LearningTH - 1)
  BY DEF GoodEntry, Entries
<1>2. n \in 0 .. (LearningTH - 1)
  BY <1>1, Parameters
<1>3. Skip(e) = d
  BY DEF Skip
<1> HIDE DEF n
<1>4. d \in Entries /\ d.des = e.des /\ d.rd = e.rd /\ d.rw = e.rw
  BY <1>1, <1>2 DEF Entries
<1> QED
  BY <1>3, <1>4 DEF GoodEntry, FollowsStatus

-----------------------------------------------------------------------------
(***************************************************************************)
(* The handlers.                                                           *)
(***************************************************************************)
InfoTables == [Sets(Hybrid) -> [Ways(Hybrid) -> Infos]]

Records == [llc : Caches(Hybrid), info : InfoTables,
            recency : [PCs -> 0 .. TableWays], dataset : [PCs -> Entries],
            held : SUBSET Blocks]

GoodRecord(s) ==
  /\ s \in Records
  /\ GoodCache(Hybrid, s.llc)
  /\ \A p \in PCs : GoodEntry(s.dataset[p])

KeepsBypass(s, r) ==
  \A p \in PCs : s.dataset[p].des = "BYPASS" => r.dataset[p].des = "BYPASS"

\* BypassEndsByReuse for a step from s to r.
EndsByReuse(s, r) ==
  \A p \in PCs :
    (s.dataset[p].des = "BYPASS" /\ r.dataset[p].des # "BYPASS" /\ r.recency[p] # 0)
      => /\ \E x \in Sets(Hybrid), w \in Ways(Hybrid) :
              s.info[x][w].learning /\ s.info[x][w].pc = p
         /\ r.dataset[p].des = "PREEMPTIVELY" /\ r.dataset[p].dead = 0

\* The two arrays have ways, and none in common.
LEMMA TwoArrays ==
  /\ \A w \in Ways(Hybrid) : InNVM(w) \in BOOLEAN
  /\ \A inNVM \in BOOLEAN : Array(Hybrid, inNVM) # {}
  /\ \A inNVM \in BOOLEAN : \A w \in Array(Hybrid, inNVM) :
       w \in Ways(Hybrid) /\ InNVM(w) = inNVM
<1>1. 0 \in Array(Hybrid, FALSE) /\ SRAMWays \in Array(Hybrid, TRUE)
  BY Parameters DEF Array, Ways
<1>2. \A inNVM \in BOOLEAN : \A w \in Array(Hybrid, inNVM) :
        w \in Ways(Hybrid) /\ InNVM(w) = inNVM
  BY Parameters DEF Array, InNVM
<1>3. \A w \in Ways(Hybrid) : InNVM(w) \in BOOLEAN
  BY Parameters DEF Ways, InNVM
<1>4. \A inNVM \in BOOLEAN : Array(Hybrid, inNVM) # {}
  BY <1>1
<1> QED
  BY Zenon, <1>2, <1>3, <1>4

LEMMA SetEntryGood ==
  ASSUME NEW s, GoodRecord(s), NEW p \in PCs, NEW e, GoodEntry(e)
  PROVE  LET r == [s EXCEPT !.dataset[p] = e]
         IN /\ GoodRecord(r)
            /\ r.llc = s.llc /\ r.info = s.info
            /\ r.recency = s.recency /\ r.held = s.held
            /\ \A q \in PCs : r.dataset[q] = IF q = p THEN e ELSE s.dataset[q]
<1> DEFINE d == [s.dataset EXCEPT ![p] = e]
           r == [s EXCEPT !.dataset = d]
<1>1. s \in Records /\ s.dataset \in [PCs -> Entries] /\ e \in Entries
  BY DEF GoodRecord, Records, GoodEntry
<1>2. /\ d \in [PCs -> Entries]
      /\ \A q \in PCs : d[q] = IF q = p THEN e ELSE s.dataset[q]
  BY <1>1
<1> HIDE DEF d
<1>3. /\ r \in Records /\ r.llc = s.llc /\ r.info = s.info
      /\ r.recency = s.recency /\ r.held = s.held /\ r.dataset = d
  BY <1>1, <1>2 DEF Records
<1>4. GoodRecord(r)
  BY <1>2, <1>3 DEF GoodRecord
<1> QED
  BY <1>2, <1>3, <1>4 DEF d

LEMMA SetInfoGood ==
  ASSUME NEW s, GoodRecord(s), NEW x \in Sets(Hybrid), NEW w \in Ways(Hybrid),
         NEW i \in Infos
  PROVE  LET r == [s EXCEPT !.info[x][w] = i]
         IN /\ GoodRecord(r)
            /\ r.llc = s.llc /\ r.dataset = s.dataset
            /\ r.recency = s.recency /\ r.held = s.held
            /\ \A y \in Sets(Hybrid), v \in Ways(Hybrid) :
                 r.info[y][v] = IF y = x /\ v = w THEN i ELSE s.info[y][v]
<1> DEFINE t == [s.info EXCEPT ![x][w] = i]
           r == [s EXCEPT !.info = t]
<1>1. s \in Records /\ s.info \in InfoTables
  BY DEF GoodRecord, Records
<1>2. /\ t \in InfoTables
      /\ \A y \in Sets(Hybrid), v \in Ways(Hybrid) :
           t[y][v] = IF y = x /\ v = w THEN i ELSE s.info[y][v]
  BY <1>1 DEF InfoTables
<1> HIDE DEF t
<1>3. /\ r \in Records /\ r.llc = s.llc /\ r.info = t
      /\ r.recency = s.recency /\ r.held = s.held /\ r.dataset = s.dataset
  BY <1>1, <1>2 DEF Records
<1>4. GoodRecord(r)
  BY <1>3 DEF GoodRecord
<1> QED
  BY <1>2, <1>3, <1>4 DEF t

\* A line counted as used keeps its data set and whether it is a learning line.
LEMMA UsedGood ==
  ASSUME NEW s, GoodRecord(s), NEW x \in Sets(Hybrid), NEW w \in Ways(Hybrid)
  PROVE  LET r == [s EXCEPT !.info[x][w].used = TRUE]
         IN /\ GoodRecord(r)
            /\ r.llc = s.llc /\ r.dataset = s.dataset
            /\ r.recency = s.recency /\ r.held = s.held
            /\ \A y \in Sets(Hybrid), v \in Ways(Hybrid) :
                 /\ r.info[y][v].pc = s.info[y][v].pc
                 /\ r.info[y][v].learning = s.info[y][v].learning
<1> DEFINE i == [s.info[x][w] EXCEPT !.used = TRUE]
           r == [s EXCEPT !.info[x][w] = i]
<1>1. s.info[x][w] \in Infos
  BY DEF GoodRecord, Records, InfoTables
<1>2. i \in Infos /\ i.pc = s.info[x][w].pc /\ i.learning = s.info[x][w].learning
  BY <1>1 DEF Infos
<1> HIDE DEF i
<1>3. /\ GoodRecord(r)
      /\ r.llc = s.llc /\ r.dataset = s.dataset
      /\ r.recency = s.recency /\ r.held = s.held
      /\ \A y \in Sets(Hybrid), v \in Ways(Hybrid) :
           r.info[y][v] = IF y = x /\ v = w THEN i ELSE s.info[y][v]
  BY <1>2, SetInfoGood
<1>4. [s EXCEPT !.info[x][w].used = TRUE] = r
  BY Zenon DEF i
<1> HIDE DEF r
<1> QED
  BY ZenonT(60), <1>2, <1>3, <1>4

\* A referral may take the entry of another data set, none else is touched.
LEMMA ReferGood ==
  ASSUME NEW s, GoodRecord(s), NEW p \in PCs
  PROVE  LET r == Refer(s, p)
         IN /\ GoodRecord(r)
            /\ r.llc = s.llc /\ r.info = s.info /\ r.held = s.held
            /\ r.dataset[p] = s.dataset[p]
            /\ \A q \in PCs : r.dataset[q] = s.dataset[q] \/ r.recency[q] = 0
<1> DEFINE SameSet(q) == q % TableSets = p % TableSets
           Moves(q) == /\ q # p /\ SameSet(q) /\ Known(s, q)
                       /\ ~Known(s, p) \/ s.recency[q] < s.recency[p]
           Leaves(q) == Moves(q) /\ s.recency[q] = TableWays
           n == [q \in PCs |-> IF q = p THEN 1
                               ELSE IF Leaves(q) THEN 0
                               ELSE IF Moves(q) THEN s.recency[q] + 1
                               ELSE s.recency[q]]
           d == [q \in PCs |-> IF Leaves(q) THEN InitEntry ELSE s.dataset[q]]
           r == [s EXCEPT !.recency = n, !.dataset = d]
<1>1. /\ s \in Records /\ s.recency \in [PCs -> 0 .. TableWays]
      /\ s.dataset \in [PCs -> Entries] /\ \A q \in PCs : GoodEntry(s.dataset[q])
  BY DEF GoodRecord, Records
<1>2. Refer(s, p) = r
  BY Zenon DEF Refer
<1>3. ~Leaves(p) /\ \A q \in PCs : Leaves(q) => Moves(q) /\ q # p
  OBVIOUS
<1>4. \A q \in PCs : Moves(q) /\ ~Leaves(q) => s.recency[q] # TableWays
  OBVIOUS
<1> HIDE DEF Moves, Leaves
<1>5. n \in [PCs -> 0 .. TableWays] /\ \A q \in PCs : Leaves(q) => n[q] = 0
  BY <1>1, <1>3, <1>4, Parameters
<1>6. /\ \A q \in PCs : d[q] = IF Leaves(q) THEN InitEntry ELSE s.dataset[q]
      /\ \A q \in PCs : GoodEntry(d[q])
  BY <1>1, InitEntryGood
<1>7. d \in [PCs -> Entries]
  BY <1>6 DEF GoodEntry
<1> HIDE DEF n, d
<1>8. /\ r \in Records /\ r.llc = s.llc /\ r.info = s.info /\ r.held = s.held
      /\ r.recency = n /\ r.dataset = d
  BY <1>1, <1>5, <1>7 DEF Records
<1>9. GoodRecord(r)
  BY <1>6, <1>8 DEF GoodRecord
<1> QED
  BY <1>2, <1>3, <1>5, <1>6, <1>8, <1>9

\* A data set that is told of an eviction stays bypassed.
LEMMA NoteEvictionGood ==
  ASSUME NEW s, GoodRecord(s), NEW x \in Sets(Hybrid), NEW w \in Ways(Hybrid)
  PROVE  LET r == NoteEviction(s, x, w)
         IN /\ GoodRecord(r)
            /\ r.llc = s.llc /\ r.info = s.info
            /\ r.recency = s.recency /\ r.held = s.held
            /\ KeepsBypass(s, r)
<1> DEFINE line == s.info[x][w]
           e == AfterEviction(s.dataset[line.pc], line.used)
           r == [s EXCEPT !.dataset[line.pc] = e]
<1>1. line.pc \in PCs
  BY DEF GoodRecord, Records, InfoTables, Infos
<1>2. /\ GoodEntry(e)
      /\ s.dataset[line.pc].des = "BYPASS" => e.des = "BYPASS"
  BY <1>1, AfterEvictionGood DEF GoodRecord
<1>3. NoteEviction(s, x, w) = IF Known(s, line.pc) THEN r ELSE s
  BY Zenon DEF NoteEviction
<1> HIDE DEF e, line
<1>4. /\ GoodRecord(r)
      /\ r.llc = s.llc /\ r.info = s.info
      /\ r.recency = s.recency /\ r.held = s.held
      /\ \A q \in PCs : r.dataset[q] = IF q = line.pc THEN e ELSE s.dataset[q]
  BY <1>1, <1>2, SetEntryGood
<1> QED
  BY <1>2, <1>3, <1>4 DEF KeepsBypass

LEMMA SignalEvictionGood ==
  ASSUME NEW s, GoodRecord(s), NEW x \in Sets(Hybrid), NEW w \in Ways(Hybrid)
  PROVE  LET r == SignalEviction(s, x, w)
         IN /\ GoodRecord(r)
            /\ r.llc = s.llc /\ r.info = s.info
            /\ r.recency = s.recency /\ r.dataset = s.dataset
            /\ r.held \subseteq s.held
<1> DEFINE h == s.held \ {s.llc.line[x][w].addr}
           r == [s EXCEPT !.held = h]
<1>1. s \in Records /\ h \in SUBSET Blocks /\ h \subseteq s.held
  BY DEF GoodRecord, Records
<1>2. SignalEviction(s, x, w) \in {r, s}
  BY DEF SignalEviction
<1> HIDE DEF h
<1>3. /\ r \in Records /\ r.llc = s.llc /\ r.info = s.info /\ r.held = h
      /\ r.recency = s.recency /\ r.dataset = s.dataset
  BY <1>1 DEF Records
<1> QED
  BY <1>1, <1>2, <1>3 DEF GoodRecord

\* A migration moves the line with what is known of it and keeps its block.
LEMMA MigrateGood ==
  ASSUME NEW s, GoodRecord(s), NEW x \in Sets(Hybrid),
         NEW from \in Ways(Hybrid), NEW to \in Ways(Hybrid), from # to,
         s.llc.line[x][from].addr \in Blocks
  PROVE  LET r == Migrate(s, x, from, to)
         IN /\ GoodRecord(r)
            /\ r.recency = s.recency /\ r.dataset = s.dataset /\ r.held = s.held
            /\ Present(r.llc, s.llc.line[x][from].addr)
<1> DEFINE e == DeallocateWay(s.llc, x, to)
           d == Moved(e, x, from, to)
           j == [s.info[x] EXCEPT ![to] = s.info[x][from], ![from] = EmptyInfo]
           i == [s.info EXCEPT ![x] = j]
           r == [s EXCEPT !.llc = d, !.info = i]
<1>1. /\ s \in Records /\ s.info \in InfoTables /\ GoodCache(Hybrid, s.llc)
      /\ s.llc \in Caches(Hybrid) /\ TagsAgree(Hybrid, s.llc)
      /\ Hybrid \in Geometries
  BY Parameters DEF GoodRecord, GoodCache, Records
<1>2. e.line[x][from] = s.llc.line[x][from]
  BY <1>1 DEF DeallocateWay, Caches
<1>3. /\ Present(s.llc, s.llc.line[x][from].addr)
      /\ s.llc.line[x][from].addr # s.llc.line[x][to].addr
  <2>1. \A w \in Ways(Hybrid) :
          s.llc.line[x][w].addr = s.llc.line[x][from].addr
            => s.llc.tag[s.llc.line[x][from].addr] = w
    BY <1>1 DEF TagsAgree
  <2>2. from # NoWay
    BY <1>1, GeometryFacts
  <2> QED
    BY <2>1, <2>2 DEF Present
<1>4. Migrate(s, x, from, to) = r
  <2>1. Migrate(s, x, from, to) = [s EXCEPT !.llc = d, !.info[x] = j]
    BY DEF Migrate, Moved
  <2> HIDE DEF d, j
  <2> QED
    BY Zenon, <2>1
<1>5. LET f == DeallocateWay(s.llc, x, to)
      IN /\ GoodCache(Hybrid, f)
         /\ f.line[x][to] = EmptyLine
         /\ \A b \in Blocks :
              Present(f, b) <=> Present(s.llc, b) /\ b # s.llc.line[x][to].addr
  BY <1>1, DeallocateWayGood
<1>6. /\ GoodCache(Hybrid, e) /\ e.line[x][to] = EmptyLine
      /\ Present(e, s.llc.line[x][from].addr)
  BY <1>3, <1>5
<1> HIDE DEF e
<1>7. e.line[x][from].addr \in Blocks
  BY <1>2
<1>8. GoodCache(Hybrid, d) /\ \A b \in Blocks : Present(d, b) <=> Present(e, b)
  BY <1>1, <1>6, <1>7, MoveGood
<1>9. i \in InfoTables
  <2>1. EmptyInfo \in Infos
    BY Parameters DEF EmptyInfo, Infos
  <2> QED
    BY <1>1, <2>1 DEF InfoTables
<1> HIDE DEF d, i
<1>10. /\ r \in Records /\ r.llc = d /\ r.held = s.held
       /\ r.recency = s.recency /\ r.dataset = s.dataset
  BY <1>1, <1>8, <1>9 DEF Records, GoodCache
<1>11. GoodRecord(r)
  BY <1>8, <1>10 DEF GoodRecord
<1> QED
  BY <1>4, <1>6, <1>8, <1>10, <1>11

\* The line of a present block, as the handlers look it up.
LEMMA LineOfBlock ==
  ASSUME NEW s, GoodRecord(s), NEW b \in Blocks, Present(s.llc, b)
  PROVE  /\ SetOf(Hybrid, b) \in Sets(Hybrid)
         /\ s.llc.tag[b] \in Ways(Hybrid)
         /\ s.llc.line[SetOf(Hybrid, b)][s.llc.tag[b]].addr = b
  BY Parameters, IndexedEntry DEF GoodRecord

LEMMA InfoFacts ==
  ASSUME NEW s, GoodRecord(s), NEW x \in Sets(Hybrid), NEW w \in Ways(Hybrid)
  PROVE  s.info[x][w].pc \in PCs /\ s.info[x][w].learning \in BOOLEAN
  BY DEF GoodRecord, Records, InfoTables, Infos

\* A lazy migration takes its victim in the other array, so never the line itself:
\* the block stays.
LEMMA LazyMigrationGood ==
  ASSUME NEW s, GoodRecord(s), NEW x \in Sets(Hybrid), NEW w \in Ways(Hybrid),
         s.llc.line[x][w].addr \in Blocks, NEW isWrite
  PROVE  LET r == LazyMigration(s, x, w, isWrite)
         IN /\ GoodRecord(r)
            /\ r.recency = s.recency /\ r.held = s.held
            /\ KeepsBypass(s, r)
            /\ Present(r.llc, s.llc.line[x][w].addr)
<1> DEFINE to == Victim(Hybrid, s.llc, x, ~InNVM(w))
           t == NoteEviction(s, x, to)
           u == [t EXCEPT !.info[x][w].used = TRUE]
           r == Migrate(u, x, w, to)
<1>1. LazyMigration(s, x, w, isWrite) \in {r, s}
  BY DEF LazyMigration
<1>2. s.llc \in Caches(Hybrid) /\ TagsAgree(Hybrid, s.llc)
  BY DEF GoodRecord, GoodCache
<1>3. (~InNVM(w)) \in BOOLEAN
  OBVIOUS
<1>4. to \in Array(Hybrid, ~InNVM(w))
  BY <1>2, <1>3, Parameters, TwoArrays, VictimInArray
<1>5. to \in Ways(Hybrid) /\ w # to
  BY <1>3, <1>4, TwoArrays
<1> HIDE DEF to
<1>6. /\ GoodRecord(t) /\ t.llc = s.llc
      /\ t.recency = s.recency /\ t.held = s.held /\ KeepsBypass(s, t)
  BY <1>5, NoteEvictionGood
<1> HIDE DEF t
<1>7. /\ GoodRecord(u) /\ u.llc = t.llc /\ u.dataset = t.dataset
      /\ u.recency = t.recency /\ u.held = t.held
  BY ZenonT(60), <1>6, UsedGood
<1> HIDE DEF u
<1>8. u.llc.line[x][w].addr \in Blocks
  BY <1>6, <1>7
<1>9. /\ GoodRecord(r)
      /\ r.recency = u.recency /\ r.dataset = u.dataset /\ r.held = u.held
      /\ Present(r.llc, u.llc.line[x][w].addr)
  BY <1>5, <1>7, <1>8, MigrateGood
<1> HIDE DEF r
<1>10. Present(s.llc, s.llc.line[x][w].addr)
  <2>1. s.llc.tag[s.llc.line[x][w].addr] = w
    BY <1>2 DEF TagsAgree
  <2>2. w # NoWay
    BY Parameters, GeometryFacts
  <2> QED
    BY <2>1, <2>2 DEF Present
<1>11. KeepsBypass(s, r) /\ KeepsBypass(s, s)
  BY <1>6, <1>7, <1>9 DEF KeepsBypass
<1> QED
  BY <1>1, <1>6, <1>7, <1>9, <1>10, <1>11

LEMMA TouchedGood ==
  ASSUME NEW s, GoodRecord(s), NEW x \in Sets(Hybrid), NEW w \in Ways(Hybrid)
  PROVE  LET r == [s EXCEPT !.llc = Touch(Hybrid, @, x, w)]
         IN /\ GoodRecord(r)
            /\ r.info = s.info /\ r.dataset = s.dataset
            /\ r.recency = s.recency /\ r.held = s.held
            /\ r.llc.line = s.llc.line /\ r.llc.tag = s.llc.tag
<1> DEFINE c == Touch(Hybrid, s.llc, x, w)
           r == [s EXCEPT !.llc = c]
<1>1. s \in Records /\ GoodCache(Hybrid, s.llc)
  BY DEF GoodRecord
<1>2. GoodCache(Hybrid, c) /\ c.line = s.llc.line /\ c.tag = s.llc.tag
  BY <1>1, Parameters, TouchGood
<1> HIDE DEF c
<1>3. /\ r \in Records /\ r.llc = c /\ r.info = s.info /\ r.dataset = s.dataset
      /\ r.recency = s.recency /\ r.held = s.held
  BY <1>1, <1>2 DEF Records, GoodCache
<1>4. GoodRecord(r)
  BY <1>1, <1>2, <1>3 DEF GoodRecord
<1> QED
  BY <1>2, <1>3, <1>4 DEF c

\* The reuse of a line: its data set stays bypassed, or the line was a learning
\* line; the block stays.
LEMMA UpdatePolicyGood ==
  ASSUME NEW s, GoodRecord(s), NEW x \in Sets(Hybrid), NEW w \in Ways(Hybrid),
         s.llc.line[x][w].addr \in Blocks, NEW isWrite \in BOOLEAN, NEW later
  PROVE  LET r == UpdatePolicy(s, x, w, isWrite, later)
         IN /\ GoodRecord(r)
            /\ r.recency = s.recency /\ r.held = s.held
            /\ EndsByReuse(s, r)
            /\ Present(r.llc, s.llc.line[x][w].addr)
<1> DEFINE p == s.info[x][w].pc
           a == s.llc.line[x][w].addr
           t == [s EXCEPT !.llc = Touch(Hybrid, @, x, w)]
           e == Push(s.dataset[p], ReuseDistance(s, x, w, later), isWrite)
           relearned == [t EXCEPT !.dataset[p] = Relearn(e)]
           windowed == [t EXCEPT !.dataset[p] = UpdateWindow(e)]
           migrated == LazyMigration(windowed, x, w, isWrite)
           r == UpdatePolicy(s, x, w, isWrite, later)
<1>1. p \in PCs /\ s.info[x][w].learning \in BOOLEAN
  BY InfoFacts
<1>2. /\ GoodEntry(e) /\ e.des = s.dataset[p].des
      /\ RWStatus(e.history) # "DEAD"
  BY <1>1, PushGood DEF GoodRecord
<1>3. \/ r = t
      \/ r = relearned /\ s.info[x][w].learning
      \/ r = migrated
  BY Zenon DEF UpdatePolicy
<1>4. Present(s.llc, a)
  <2>1. s.llc.tag[a] = w
    BY DEF GoodRecord, GoodCache, TagsAgree
  <2>2. w # NoWay
    BY Parameters, GeometryFacts
  <2> QED
    BY <2>1, <2>2 DEF Present
<1>5. /\ GoodRecord(t) /\ t.info = s.info /\ t.dataset = s.dataset
      /\ t.recency = s.recency /\ t.held = s.held
      /\ t.llc.line = s.llc.line /\ t.llc.tag = s.llc.tag
  BY TouchedGood
<1> HIDE DEF e, t, r, p
<1>6. ASSUME r = t PROVE EndsByReuse(s, r) /\ Present(r.llc, a)
  BY <1>4, <1>5, <1>6 DEF EndsByReuse, Present
<1>7. ASSUME r = relearned, s.info[x][w].learning
      PROVE  /\ GoodRecord(r) /\ r.recency = s.recency /\ r.held = s.held
             /\ EndsByReuse(s, r) /\ Present(r.llc, a)
  <2>1. /\ GoodEntry(Relearn(e))
        /\ Relearn(e).des = "PREEMPTIVELY" /\ Relearn(e).dead = 0
    BY <1>2, RelearnGood
  <2>2. /\ GoodRecord(relearned) /\ relearned.llc = t.llc
        /\ relearned.recency = t.recency /\ relearned.held = t.held
        /\ \A q \in PCs : relearned.dataset[q] =
             IF q = p THEN Relearn(e) ELSE t.dataset[q]
    BY SMTT(30), <1>1, <1>5, <2>1, SetEntryGood
  <2> HIDE DEF relearned
  <2>3. EndsByReuse(s, r)
    BY <1>5, <1>7, <2>1, <2>2 DEF EndsByReuse, p
  <2> QED
    BY <1>4, <1>5, <1>7, <2>2, <2>3 DEF Present
<1>8. /\ GoodRecord(migrated)
      /\ migrated.recency = s.recency /\ migrated.held = s.held
      /\ KeepsBypass(s, migrated) /\ Present(migrated.llc, a)
  <2> DEFINE d == UpdateWindow(e)
  <2>1. GoodEntry(d) /\ (e.des = "BYPASS" => d.des = "BYPASS")
    BY <1>2, UpdateWindowGood
  <2> HIDE DEF d
  <2> DEFINE u == [t EXCEPT !.dataset[p] = d]
  <2>2. /\ GoodRecord(u) /\ u.llc = t.llc
        /\ u.recency = t.recency /\ u.held = t.held
        /\ \A q \in PCs : u.dataset[q] = IF q = p THEN d ELSE t.dataset[q]
    BY <1>1, <1>5, <2>1, SetEntryGood
  <2>3. windowed = u
    BY DEF d
  <2> HIDE DEF u, windowed
  <2>4. /\ u.llc.line[x][w].addr = a /\ a \in Blocks
    BY <1>5, <2>2
  <2>5. /\ GoodRecord(LazyMigration(u, x, w, isWrite))
        /\ LazyMigration(u, x, w, isWrite).recency = u.recency
        /\ LazyMigration(u, x, w, isWrite).held = u.held
        /\ KeepsBypass(u, LazyMigration(u, x, w, isWrite))
        /\ Present(LazyMigration(u, x, w, isWrite).llc, a)
    BY SMTT(30), <2>2, <2>4, LazyMigrationGood
  <2>6. KeepsBypass(s, u)
    BY <1>2, <1>5, <2>1, <2>2 DEF KeepsBypass
  <2> QED
    BY <1>5, <2>2, <2>3, <2>5, <2>6 DEF KeepsBypass
<1>9. ASSUME r = migrated PROVE EndsByReuse(s, r)
  BY <1>8, <1>9 DEF EndsByReuse, KeepsBypass
<1> HIDE DEF relearned, migrated
<1> QED
  BY <1>3, <1>5, <1>6, <1>7, <1>8, <1>9 DEF r

\* A line counted as used before it is reused: what BypassEndsByReuse asks of the
\* lines before the step is the same.
LEMMA LLCHitGood ==
  ASSUME NEW s, GoodRecord(s), NEW b \in Blocks, Present(s.llc, b),
         NEW isWrite \in BOOLEAN, NEW later
  PROVE  LET r == LLCHit(s, b, isWrite, later)
         IN /\ GoodRecord(r)
            /\ r.recency = s.recency /\ r.held = s.held
            /\ EndsByReuse(s, r)
            /\ Present(r.llc, b)
<1> DEFINE x == SetOf(Hybrid, b)
           w == s.llc.tag[b]
           u == UpdatePolicy(s, x, w, isWrite, later)
           r == [u EXCEPT !.info[x][w].used = TRUE]
<1>1. x \in Sets(Hybrid) /\ w \in Ways(Hybrid) /\ s.llc.line[x][w].addr = b
  BY LineOfBlock
<1>2. LLCHit(s, b, isWrite, later) = r
  BY DEF LLCHit
<1> HIDE DEF x, w
<1>3. /\ GoodRecord(u) /\ u.recency = s.recency /\ u.held = s.held
      /\ EndsByReuse(s, u) /\ Present(u.llc, b)
  BY <1>1, UpdatePolicyGood
<1> HIDE DEF u
<1>4. /\ GoodRecord(r) /\ r.llc = u.llc /\ r.dataset = u.dataset
      /\ r.recency = u.recency /\ r.held = u.held
  BY <1>1, <1>3, UsedGood
<1> HIDE DEF r
<1>5. EndsByReuse(s, r)
  BY <1>3, <1>4 DEF EndsByReuse
<1> QED
  BY <1>2, <1>3, <1>4, <1>5

LEMMA LLCHandleWBGood ==
  ASSUME NEW s, GoodRecord(s), NEW b \in Blocks, Present(s.llc, b), NEW later
  PROVE  LET r == LLCHandleWB(s, b, later)
         IN /\ GoodRecord(r)
            /\ r.recency = s.recency /\ r.held = s.held
            /\ EndsByReuse(s, r)
<1> DEFINE x == SetOf(Hybrid, b)
           w == s.llc.tag[b]
           u == [s EXCEPT !.info[x][w].used = TRUE]
           r == UpdatePolicy(u, x, w, TRUE, later)
<1>1. x \in Sets(Hybrid) /\ w \in Ways(Hybrid) /\ s.llc.line[x][w].addr = b
  BY LineOfBlock
<1>2. LLCHandleWB(s, b, later) = r
  BY DEF LLCHandleWB
<1> HIDE DEF x, w
<1>3. /\ GoodRecord(u) /\ u.llc = s.llc /\ u.dataset = s.dataset
      /\ u.recency = s.recency /\ u.held = s.held
      /\ \A y \in Sets(Hybrid), v \in Ways(Hybrid) :
           /\ u.info[y][v].pc = s.info[y][v].pc
           /\ u.info[y][v].learning = s.info[y][v].learning
  BY <1>1, UsedGood
<1> HIDE DEF u
<1>4. u.llc.line[x][w].addr \in Blocks
  BY <1>1, <1>3
<1>5. /\ GoodRecord(r) /\ r.recency = u.recency /\ r.held = u.held
      /\ EndsByReuse(u, r)
  <2>1. \A z \in BOOLEAN :
          LET v == UpdatePolicy(u, x, w, z, later)
          IN /\ GoodRecord(v) /\ v.recency = u.recency /\ v.held = u.held
             /\ EndsByReuse(u, v)
    BY <1>1, <1>3, <1>4, UpdatePolicyGood
  <2>2. TRUE \in BOOLEAN
    OBVIOUS
  <2> QED
    BY <2>1, <2>2
<1> HIDE DEF r
<1>6. EndsByReuse(s, r)
  BY <1>3, <1>5 DEF EndsByReuse
<1> QED
  BY <1>2, <1>3, <1>5, <1>6

\* A new line does not touch the entry of a bypassed data set.
LEMMA InsertionPolicyGood ==
  ASSUME NEW s, GoodRecord(s), NEW x \in Sets(Hybrid), NEW w \in Ways(Hybrid),
         NEW p \in PCs, NEW isWrite \in BOOLEAN, NEW isSRAMerror
  PROVE  LET r == InsertionPolicy(s, x, w, p, isWrite, isSRAMerror)
         IN /\ GoodRecord(r)
            /\ r.llc = s.llc /\ r.recency = s.recency /\ r.held = s.held
            /\ KeepsBypass(s, r)
<1> DEFINE i == [EmptyInfo EXCEPT !.pc = p]
           j == [i EXCEPT !.learning = TRUE]
           s1 == [s EXCEPT !.info[x][w] = i]
           s2 == [s1 EXCEPT !.info[x][w].learning = TRUE]
           rd == IF isSRAMerror THEN "MEDIUM" ELSE "NOT_ACCURATE"
           e == UpdateWindow(Push(s.dataset[p], rd, isWrite))
           s3 == [s1 EXCEPT !.dataset[p] = e]
           r == InsertionPolicy(s, x, w, p, isWrite, isSRAMerror)
<1>1. r = s1 \/ r = s2 \/ (r = s3 /\ s.dataset[p].des # "BYPASS")
  BY Zenon DEF InsertionPolicy
<1>2. GoodEntry(e)
  <2>1. GoodEntry(s.dataset[p])
    BY DEF GoodRecord
  <2> HIDE DEF rd
  <2>2. LET d == Push(s.dataset[p], rd, isWrite)
        IN GoodEntry(d) /\ RWStatus(d.history) # "DEAD"
    BY <2>1, PushGood
  <2> QED
    BY <2>2, UpdateWindowGood
<1>3. i \in Infos /\ j \in Infos
  BY Parameters DEF EmptyInfo, Infos
<1> HIDE DEF e, i
<1>4. /\ GoodRecord(s1) /\ s1.llc = s.llc /\ s1.dataset = s.dataset
      /\ s1.recency = s.recency /\ s1.held = s.held
      /\ s1.info[x][w] = i
  BY <1>3, SetInfoGood
<1>5. /\ GoodRecord(s2) /\ s2.llc = s.llc /\ s2.dataset = s.dataset
      /\ s2.recency = s.recency /\ s2.held = s.held
  <2> HIDE DEF s1, j
  <2> DEFINE u == [s1 EXCEPT !.info[x][w] = j]
  <2>1. /\ GoodRecord(u) /\ u.llc = s.llc /\ u.dataset = s.dataset
        /\ u.recency = s.recency /\ u.held = s.held
    BY <1>3, <1>4, SetInfoGood
  <2>2. s2 = u
    <3>1. [s1 EXCEPT !.info[x][w].learning = TRUE] =
            [s1 EXCEPT !.info[x][w] = [s1.info[x][w] EXCEPT !.learning = TRUE]]
      BY Zenon
    <3> QED
      BY <1>4, <3>1 DEF j
  <2> QED
    BY <2>1, <2>2
<1> HIDE DEF s1
<1>6. /\ GoodRecord(s3) /\ s3.llc = s.llc
      /\ s3.recency = s.recency /\ s3.held = s.held
      /\ \A q \in PCs : s3.dataset[q] = IF q = p THEN e ELSE s.dataset[q]
  BY <1>2, <1>4, SetEntryGood
<1> HIDE DEF s2, s3, r
<1>7. r = s3 => KeepsBypass(s, r)
  BY <1>1, <1>4, <1>5, <1>6 DEF KeepsBypass
<1>8. r \in {s1, s2} => KeepsBypass(s, r)
  BY <1>4, <1>5 DEF KeepsBypass
<1> QED
  BY <1>1, <1>4, <1>5, <1>6, <1>7, <1>8 DEF r

\* The block is in the cache once it has been given the victim's way.
LEMMA LLCAllocateGood ==
  ASSUME NEW s, GoodRecord(s), NEW b \in Blocks, ~Present(s.llc, b),
         NEW p \in PCs, NEW inNVM \in BOOLEAN, NEW isWrite \in BOOLEAN,
         NEW isSRAMerror
  PROVE  LET r == LLCAllocate(s, b, p, inNVM, isWrite, isSRAMerror)
         IN /\ GoodRecord(r)
            /\ r.recency = s.recency /\ r.held \subseteq s.held
            /\ KeepsBypass(s, r)
            /\ Present(r.llc, b)
<1> DEFINE x == SetOf(Hybrid, b)
           w == Victim(Hybrid, s.llc, x, inNVM)
           n == NoteEviction(s, x, w)
           t == SignalEviction(n, x, w)
           c == Fill(Hybrid, t.llc, b, w, FALSE, FALSE)
           f == [t EXCEPT !.llc = c]
           r == InsertionPolicy(f, x, w, p, isWrite, isSRAMerror)
<1>1. LLCAllocate(s, b, p, inNVM, isWrite, isSRAMerror) = r
  BY Zenon DEF LLCAllocate
<1>2. x \in Sets(Hybrid)
  BY Parameters, GeometryFacts
<1>3. w \in Ways(Hybrid)
  <2>1. s.llc \in Caches(Hybrid)
    BY DEF GoodRecord, GoodCache
  <2>2. w \in Array(Hybrid, inNVM)
    BY <1>2, <2>1, Parameters, TwoArrays, VictimInArray
  <2> QED
    BY <2>2, TwoArrays
<1> HIDE DEF x, w
<1>4. /\ GoodRecord(n) /\ n.llc = s.llc /\ n.recency = s.recency
      /\ n.held = s.held /\ KeepsBypass(s, n)
  BY <1>2, <1>3, NoteEvictionGood
<1> HIDE DEF n
<1>5. /\ GoodRecord(t) /\ t.llc = n.llc /\ t.recency = n.recency
      /\ t.dataset = n.dataset /\ t.held \subseteq n.held
  BY <1>2, <1>3, <1>4, SignalEvictionGood
<1> HIDE DEF t
<1>6. GoodCache(Hybrid, c) /\ Present(c, b)
  <2>1. GoodCache(Hybrid, t.llc) /\ ~Present(t.llc, b)
    BY <1>4, <1>5 DEF GoodRecord
  <2> QED
    BY <1>3, <2>1, Parameters, FillGood
<1> HIDE DEF c
<1>7. /\ GoodRecord(f) /\ f.llc = c /\ f.recency = t.recency
      /\ f.dataset = t.dataset /\ f.held = t.held
  <2>1. t \in Records /\ c \in Caches(Hybrid)
    BY <1>5, <1>6 DEF GoodRecord, GoodCache
  <2>2. /\ f \in Records /\ f.llc = c /\ f.recency = t.recency
        /\ f.dataset = t.dataset /\ f.held = t.held
    BY <2>1 DEF Records
  <2>3. \A q \in PCs : GoodEntry(f.dataset[q])
    BY <1>5, <2>2 DEF GoodRecord
  <2> QED
    BY <1>6, <2>2, <2>3 DEF GoodRecord
<1> HIDE DEF f
<1>8. /\ GoodRecord(r) /\ r.llc = f.llc /\ r.recency = f.recency
      /\ r.held = f.held /\ KeepsBypass(f, r)
  BY <1>2, <1>3, <1>7, InsertionPolicyGood
<1> HIDE DEF r
<1>9. KeepsBypass(s, r)
  BY <1>4, <1>5, <1>7, <1>8 DEF KeepsBypass
<1> QED
  BY <1>1, <1>4, <1>5, <1>6, <1>7, <1>8, <1>9

\* A miss: a data set that loses the bypass lost its entry to the table, and a
\* block that is not cached is of a bypassed data set.
LEMMA LLCMissGood ==
  ASSUME NEW s, GoodRecord(s), NEW b \in Blocks, ~Present(s.llc, b),
         NEW p \in PCs, NEW isWrite \in BOOLEAN, NEW isSRAMerror
  PROVE  LET r == LLCMiss(s, b, p, isWrite, isSRAMerror)
         IN /\ GoodRecord(r)
            /\ r.held \subseteq s.held
            /\ EndsByReuse(s, r)
            /\ Present(r.llc, b) \/ s.dataset[p].des = "BYPASS"
<1> DEFINE s1 == Refer(s, p)
           e == s1.dataset[p]
           k == Skip(e)
           skipping == [s1 EXCEPT !.dataset[p] = k]
           s2 == IF e.des = "BYPASS" THEN skipping ELSE s1
           nvm == ChoosesNVM(e, isWrite)
           a == LLCAllocate(s2, b, p, nvm, isWrite, isSRAMerror)
           r == LLCMiss(s, b, p, isWrite, isSRAMerror)
<1>1. (r = s2 /\ e.des = "BYPASS") \/ r = a
  <2>1. skipping = [s1 EXCEPT !.dataset[p] = Skip(@)]
    BY Zenon
  <2> HIDE DEF skipping, a
  <2> QED
    BY Zenon, <2>1 DEF LLCMiss, IsSkipped, a
<1>2. nvm \in BOOLEAN
  BY DEF ChoosesNVM
<1>3. /\ GoodRecord(s1) /\ s1.llc = s.llc /\ s1.info = s.info
      /\ s1.held = s.held /\ s1.dataset[p] = s.dataset[p]
      /\ \A q \in PCs : s1.dataset[q] = s.dataset[q] \/ s1.recency[q] = 0
  BY ReferGood
<1> HIDE DEF s1
<1>4. GoodEntry(k) /\ k.des = e.des
  BY <1>3, SkipGood DEF GoodRecord
<1> HIDE DEF k
<1>5. /\ GoodRecord(skipping) /\ skipping.llc = s1.llc
      /\ skipping.recency = s1.recency /\ skipping.held = s1.held
      /\ \A q \in PCs : skipping.dataset[q] = IF q = p THEN k ELSE s1.dataset[q]
  BY <1>3, <1>4, SetEntryGood
<1> HIDE DEF skipping
<1>6. /\ GoodRecord(s2) /\ s2.llc = s.llc /\ s2.recency = s1.recency
      /\ s2.held = s.held /\ \A q \in PCs : s2.dataset[q].des = s1.dataset[q].des
  BY <1>3, <1>4, <1>5
<1> HIDE DEF s2, nvm
<1>7. /\ GoodRecord(a) /\ a.recency = s2.recency /\ a.held \subseteq s2.held
      /\ KeepsBypass(s2, a) /\ Present(a.llc, b)
  BY <1>2, <1>6, LLCAllocateGood
<1> HIDE DEF a, r
<1>8. KeepsBypass(s2, r) /\ r.recency = s1.recency
  BY <1>1, <1>6, <1>7 DEF KeepsBypass
<1>9. EndsByReuse(s, r)
  BY <1>3, <1>6, <1>8 DEF EndsByReuse, KeepsBypass
<1> QED
  BY <1>1, <1>3, <1>6, <1>7, <1>9 DEF r

-----------------------------------------------------------------------------
(***************************************************************************)
(* The inductive invariant: every part of the record is good.  No property  *)
(* above is inductive without the others: the index says which line a hit   *)
(* migrates, the line which entry, the entry where.                        *)
(***************************************************************************)
DInv == GoodRecord(State)

\* CachedUnlessBypassed for a step from s to r.
CachesBlocks(s, r) ==
  \A b \in Blocks :
    (b \notin s.held /\ b \in r.held) =>
      \/ Present(r.llc, b)
      \/ \E p \in PCs : <<b, p>> \in Uses /\ s.dataset[p].des = "BYPASS"

\* What every step is shown to be.
GoodStep(r) ==
  GoodRecord(r) /\ EndsByReuse(State, r) /\ CachesBlocks(State, r)

LEMMA InitGood == DataSetsInit => DInv
<1> SUFFICES ASSUME DataSetsInit PROVE DInv
  OBVIOUS
<1> DEFINE s == State
<1>1. GoodCache(Hybrid, EmptyCache(Hybrid))
  BY Parameters, EmptyCacheGood
<1>2. EmptyInfo \in Infos
  BY Parameters DEF EmptyInfo, Infos
<1>3. InitEntry \in Entries
  BY InitEntryGood DEF GoodEntry
<1>4. /\ s.llc = EmptyCache(Hybrid) /\ s.held = {}
      /\ s.info = [x \in Sets(Hybrid) |-> [w \in Ways(Hybrid) |-> EmptyInfo]]
      /\ s.recency = [p \in PCs |-> 0]
      /\ s.dataset = [p \in PCs |-> InitEntry]
  BY DEF DataSetsInit, State
<1>5. s \in Records
  <2>1. [x \in Sets(Hybrid) |-> [w \in Ways(Hybrid) |-> EmptyInfo]] \in InfoTables
    BY <1>2 DEF InfoTables
  <2>2. /\ [p \in PCs |-> 0] \in [PCs -> 0 .. TableWays]
        /\ [p \in PCs |-> InitEntry] \in [PCs -> Entries]
    BY <1>3, Parameters
  <2>3. EmptyCache(Hybrid) \in Caches(Hybrid)
    BY <1>1 DEF GoodCache
  <2> QED
    BY <2>1, <2>2, <2>3 DEF Records, State, DataSetsInit
<1>6. \A p \in PCs : GoodEntry(s.dataset[p])
  BY <1>4, InitEntryGood
<1> QED
  BY <1>1, <1>4, <1>5, <1>6 DEF DInv, GoodRecord

LEMMA KeepsBypassEndsByReuse ==
  ASSUME NEW s, NEW r, KeepsBypass(s, r)
  PROVE  EndsByReuse(s, r)
  BY DEF KeepsBypass, EndsByReuse

\* The L1s get and lose blocks without the cache being asked.
LEMMA SetHeldGood ==
  ASSUME NEW s, GoodRecord(s), NEW h \in SUBSET Blocks
  PROVE  LET r == [s EXCEPT !.held = h]
         IN /\ GoodRecord(r) /\ r.held = h
            /\ r.llc = s.llc /\ r.info = s.info
            /\ r.recency = s.recency /\ r.dataset = s.dataset
<1> DEFINE r == [s EXCEPT !.held = h]
<1>1. s \in Records
  BY DEF GoodRecord
<1>2. /\ r \in Records /\ r.held = h /\ r.llc = s.llc /\ r.info = s.info
      /\ r.recency = s.recency /\ r.dataset = s.dataset
  BY <1>1 DEF Records
<1> QED
  BY <1>2 DEF GoodRecord

LEMMA RequestedGood ==
  ASSUME DInv, NEW b \in Blocks
  PROVE  /\ GoodRecord(Requested(b))
         /\ Requested(b).held = held \cup {b}
         /\ Requested(b).llc = llc /\ Requested(b).info = info
         /\ Requested(b).recency = recency /\ Requested(b).dataset = dataset
<1>1. State.held \cup {b} \in SUBSET Blocks
  BY DEF DInv, GoodRecord, Records
<1>2. Requested(b) = [State EXCEPT !.held = State.held \cup {b}]
  BY DEF Requested
<1> QED
  BY <1>1, <1>2, SetHeldGood DEF DInv, State

\* An access to a block that is in the cache afterwards, or whose data set was
\* bypassed, is a good step.
LEMMA RequestGoodStep ==
  ASSUME DInv, NEW b \in Blocks, NEW r, GoodRecord(r),
         EndsByReuse(Requested(b), r), r.held \subseteq held \cup {b},
         \/ Present(r.llc, b)
         \/ \E p \in PCs : <<b, p>> \in Uses /\ dataset[p].des = "BYPASS"
  PROVE  GoodStep(r)
<1>1. /\ State.held = held /\ State.dataset = dataset /\ State.info = info
  BY DEF State
<1>2. EndsByReuse(State, r)
  BY <1>1, RequestedGood DEF EndsByReuse
<1>3. CachesBlocks(State, r)
  BY <1>1 DEF CachesBlocks
<1> QED
  BY <1>2, <1>3 DEF GoodStep

LEMMA HitAccessGood ==
  ASSUME DInv, NEW b \in Blocks, Present(llc, b), NEW isWrite \in BOOLEAN, NEW later
  PROVE  GoodStep(LLCHit(Requested(b), b, isWrite, later))
<1> DEFINE s == Requested(b)
           r == LLCHit(s, b, isWrite, later)
<1>1. GoodRecord(s) /\ s.held = held \cup {b} /\ s.llc = llc
  BY RequestedGood
<1> HIDE DEF s
<1>2. /\ GoodRecord(r) /\ r.held = s.held /\ EndsByReuse(s, r)
      /\ Present(r.llc, b)
  BY <1>1, LLCHitGood
<1> HIDE DEF r
<1>3. EndsByReuse(Requested(b), r) /\ r.held \subseteq held \cup {b}
  BY <1>1, <1>2 DEF s
<1>4. GoodStep(r)
  BY <1>2, <1>3, RequestGoodStep
<1> QED
  BY <1>4 DEF r, s

LEMMA MissAccessGood ==
  ASSUME DInv, NEW b \in Blocks, ~Present(llc, b), NEW p \in PCs,
         <<b, p>> \in Uses, NEW isWrite \in BOOLEAN, NEW isSRAMerror
  PROVE  GoodStep(LLCMiss(Requested(b), b, p, isWrite, isSRAMerror))
<1> DEFINE s == Requested(b)
           r == LLCMiss(s, b, p, isWrite, isSRAMerror)
<1>1. /\ GoodRecord(s) /\ s.held = held \cup {b} /\ s.llc = llc
      /\ s.dataset = dataset
  BY RequestedGood
<1> HIDE DEF s
<1>2. /\ GoodRecord(r) /\ r.held \subseteq s.held /\ EndsByReuse(s, r)
      /\ Present(r.llc, b) \/ s.dataset[p].des = "BYPASS"
  BY <1>1, LLCMissGood
<1> HIDE DEF r
<1>3. /\ EndsByReuse(Requested(b), r) /\ r.held \subseteq held \cup {b}
      /\ Present(r.llc, b) \/ dataset[p].des = "BYPASS"
  BY <1>1, <1>2 DEF s
<1>4. GoodStep(r)
  BY <1>2, <1>3, RequestGoodStep
<1> QED
  BY <1>4 DEF r, s

LEMMA FetchMissGood ==
  ASSUME DInv, NEW b \in Blocks, ~Present(llc, b), NEW isSRAMerror
  PROVE  GoodStep(LLCAllocate(Requested(b), b, NoPC, TRUE, FALSE, isSRAMerror))
<1> DEFINE s == Requested(b)
           r == LLCAllocate(s, b, NoPC, TRUE, FALSE, isSRAMerror)
<1>1. GoodRecord(s) /\ s.held = held \cup {b} /\ s.llc = llc
  BY RequestedGood
<1> HIDE DEF s
<1>2. /\ GoodRecord(r) /\ r.held \subseteq s.held /\ KeepsBypass(s, r)
      /\ Present(r.llc, b)
  BY <1>1, Parameters, LLCAllocateGood
<1> HIDE DEF r
<1>3. EndsByReuse(s, r)
  BY <1>2, KeepsBypassEndsByReuse
<1>4. EndsByReuse(Requested(b), r) /\ r.held \subseteq held \cup {b}
  BY <1>1, <1>2, <1>3 DEF s
<1>5. GoodStep(r)
  BY <1>2, <1>4, RequestGoodStep
<1> QED
  BY <1>5 DEF r, s

\* A prefetch brings a block to the cache and none to an L1.
LEMMA PrefetchGood ==
  ASSUME DInv, NEW b \in Blocks, ~Present(llc, b), NEW isSRAMerror
  PROVE  /\ GoodStep(LLCAllocate(State, b, NoPC, TRUE, FALSE, isSRAMerror))
         /\ GoodStep(LLCMiss(State, b, NoPC, FALSE, isSRAMerror))
<1> DEFINE a == LLCAllocate(State, b, NoPC, TRUE, FALSE, isSRAMerror)
           m == LLCMiss(State, b, NoPC, FALSE, isSRAMerror)
<1>1. GoodRecord(State) /\ ~Present(State.llc, b)
  BY DEF DInv, State
<1>2. GoodRecord(a) /\ a.held \subseteq State.held /\ KeepsBypass(State, a)
  BY <1>1, Parameters, LLCAllocateGood
<1>3. GoodRecord(m) /\ m.held \subseteq State.held /\ EndsByReuse(State, m)
  BY <1>1, Parameters, LLCMissGood
<1> HIDE DEF a, m
<1>4. EndsByReuse(State, a)
  BY <1>2, KeepsBypassEndsByReuse
<1>5. CachesBlocks(State, a) /\ CachesBlocks(State, m)
  BY <1>2, <1>3 DEF CachesBlocks
<1>6. GoodStep(a) /\ GoodStep(m)
  BY <1>2, <1>3, <1>4, <1>5 DEF GoodStep
<1> QED
  BY <1>6 DEF a, m

LEMMA WriteBackGood ==
  ASSUME DInv, NEW b \in Blocks
  PROVE  LET s == [State EXCEPT !.held = @ \ {b}]
         IN /\ GoodStep(s)
            /\ s.held = held \ {b} /\ s.llc = llc /\ s.info = info
            /\ s.recency = recency /\ s.dataset = dataset
            /\ Present(llc, b) => \A later : GoodStep(LLCHandleWB(s, b, later))
<1> DEFINE s == [State EXCEPT !.held = State.held \ {b}]
<1>1. State.held \ {b} \in SUBSET Blocks /\ State.held = held
  BY DEF DInv, GoodRecord, Records, State
<1>2. /\ GoodRecord(s) /\ s.held = held \ {b}
      /\ s.llc = State.llc /\ s.info = State.info
      /\ s.recency = State.recency /\ s.dataset = State.dataset
  BY <1>1, SetHeldGood DEF DInv
<1> HIDE DEF s
<1>3. GoodStep(s)
  BY <1>1, <1>2 DEF GoodStep, EndsByReuse, CachesBlocks
<1>4. ASSUME Present(llc, b), NEW later
      PROVE  GoodStep(LLCHandleWB(s, b, later))
  <2> DEFINE r == LLCHandleWB(s, b, later)
  <2>1. Present(s.llc, b)
    BY <1>2, <1>4 DEF State
  <2>2. GoodRecord(r) /\ r.held = s.held /\ EndsByReuse(s, r)
    BY <1>2, <2>1, LLCHandleWBGood
  <2> HIDE DEF r
  <2>3. EndsByReuse(State, r) /\ CachesBlocks(State, r)
    BY <1>1, <1>2, <2>2 DEF EndsByReuse, CachesBlocks
  <2>4. GoodStep(r)
    BY <2>2, <2>3 DEF GoodStep
  <2> QED
    BY <2>4 DEF r
<1> QED
  BY <1>2, <1>3, <1>4 DEF s, State

\* Every step of the cache is a good one.
LEMMA NextGood ==
  ASSUME DInv, DataSetsNext
  PROVE  \E r : GoodStep(r) /\ Becomes(r)
<1>1. ASSUME NEW b \in DataBlocks, NEW isWrite \in BOOLEAN, HitAccess(b, isWrite)
      PROVE  \E r : GoodStep(r) /\ Becomes(r)
  <2>1. b \in Blocks /\ Present(llc, b)
    BY <1>1 DEF HitAccess, Blocks
  <2>2. PICK later \in SUBSET ArrayMates(b) :
          Becomes(LLCHit(Requested(b), b, isWrite, later))
    BY <1>1 DEF HitAccess
  <2>3. GoodStep(LLCHit(Requested(b), b, isWrite, later))
    BY <2>1, HitAccessGood
  <2> QED
    BY <2>2, <2>3
<1>2. ASSUME NEW p \in PCs, Miss(p)
      PROVE  \E r : GoodStep(r) /\ Becomes(r)
  <2>1. PICK use \in Uses, isWrite \in BOOLEAN :
          use[2] = p /\ MissAccess(use[1], p, isWrite)
    BY <1>2 DEF Miss
  <2>2. use[1] \in Blocks /\ <<use[1], p>> \in Uses
    BY <2>1, DataSetsAssumption DEF Blocks
  <2>3. ~Present(llc, use[1])
    BY <2>1 DEF MissAccess
  <2>4. PICK isSRAMerror \in BOOLEAN :
          Becomes(LLCMiss(Requested(use[1]), use[1], p, isWrite, isSRAMerror))
    BY <2>1 DEF MissAccess
  <2>5. GoodStep(LLCMiss(Requested(use[1]), use[1], p, isWrite, isSRAMerror))
    BY <2>2, <2>3, MissAccessGood
  <2> QED
    BY <2>4, <2>5
<1>3. ASSUME NEW b \in InstBlocks, Fetch(b)
      PROVE  \E r : GoodStep(r) /\ Becomes(r)
  <2>1. b \in Blocks
    BY DEF Blocks
  <2>2. CASE Present(llc, b)
    <3>1. PICK later \in SUBSET ArrayMates(b) :
            Becomes(LLCHit(Requested(b), b, FALSE, later))
      BY <1>3, <2>2 DEF Fetch
    <3>2. GoodStep(LLCHit(Requested(b), b, FALSE, later))
      BY <2>1, <2>2, HitAccessGood
    <3> QED
      BY <3>1, <3>2
  <2>3. CASE ~Present(llc, b)
    <3>1. PICK isSRAMerror \in BOOLEAN :
            Becomes(LLCAllocate(Requested(b), b, NoPC, TRUE, FALSE, isSRAMerror))
      BY <1>3, <2>3 DEF Fetch
    <3>2. GoodStep(LLCAllocate(Requested(b), b, NoPC, TRUE, FALSE, isSRAMerror))
      BY <2>1, <2>3, FetchMissGood
    <3> QED
      BY <3>1, <3>2
  <2> QED
    BY <2>2, <2>3
<1>4. ASSUME NEW b \in Blocks, Prefetch(b)
      PROVE  \E r : GoodStep(r) /\ Becomes(r)
  <2>1. b \in Blocks /\ ~Present(llc, b)
    BY <1>4 DEF Prefetch, Blocks
  <2>2. PICK isSRAMerror \in BOOLEAN :
          \/ Becomes(LLCAllocate(State, b, NoPC, TRUE, FALSE, isSRAMerror))
          \/ Becomes(LLCMiss(State, b, NoPC, FALSE, isSRAMerror))
    BY <1>4 DEF Prefetch
  <2>3. /\ GoodStep(LLCAllocate(State, b, NoPC, TRUE, FALSE, isSRAMerror))
        /\ GoodStep(LLCMiss(State, b, NoPC, FALSE, isSRAMerror))
    BY <2>1, PrefetchGood
  <2> QED
    BY <2>2, <2>3
<1>5. ASSUME NEW b \in Blocks, CleanWriteBack(b)
      PROVE  \E r : GoodStep(r) /\ Becomes(r)
  <2> DEFINE s == [State EXCEPT !.held = @ \ {b}]
  <2>1. /\ GoodStep(s) /\ s.held = held \ {b} /\ s.llc = llc /\ s.info = info
        /\ s.recency = recency /\ s.dataset = dataset
    BY WriteBackGood
  <2> HIDE DEF s
  <2>2. Becomes(s)
    BY <1>5, <2>1 DEF CleanWriteBack, Becomes
  <2> QED
    BY <2>1, <2>2
<1>6. ASSUME NEW b \in DataBlocks, DirtyWriteBack(b)
      PROVE  \E r : GoodStep(r) /\ Becomes(r)
  <2> DEFINE s == [State EXCEPT !.held = @ \ {b}]
  <2>1. b \in Blocks
    BY DEF Blocks
  <2>2. /\ GoodStep(s)
        /\ Present(llc, b) => \A later : GoodStep(LLCHandleWB(s, b, later))
    BY <2>1, WriteBackGood
  <2>3. \/ Becomes(s)
        \/ /\ Present(llc, b)
           /\ \E later \in SUBSET ArrayMates(b) : Becomes(LLCHandleWB(s, b, later))
    BY <1>6 DEF DirtyWriteBack
  <2> HIDE DEF s
  <2> QED
    BY <2>2, <2>3
<1> QED
  BY <1>1, <1>2, <1>3, <1>4, <1>5, <1>6 DEF DataSetsNext

\* What a good step is, said of the variables.
LEMMA BecomesGood ==
  ASSUME DInv, NEW r, GoodStep(r), Becomes(r)
  PROVE  DInv' /\ State' = r
<1>1. r \in Records /\ GoodRecord(r)
  BY DEF GoodStep, GoodRecord
<1>2. State' = [llc |-> r.llc, info |-> r.info, recency |-> r.recency,
                dataset |-> r.dataset, held |-> r.held]
  BY DEF State, Becomes
<1>3. State' = r
  BY <1>1, <1>2 DEF Records
<1>4. GoodRecord(State)'
  BY <1>1, <1>3 DEF GoodRecord
<1> QED
  BY <1>3, <1>4 DEF DInv

LEMMA Inductive == DataSetsSpec => []DInv
<1>1. DInv /\ [DataSetsNext]_dataSetsVars => DInv'
  <2> SUFFICES ASSUME DInv, [DataSetsNext]_dataSetsVars PROVE DInv'
    OBVIOUS
  <2>1. CASE DataSetsNext
    BY <2>1, NextGood, BecomesGood
  <2>2. CASE UNCHANGED dataSetsVars
    BY <2>2 DEF dataSetsVars, DInv, GoodRecord, State
  <2> QED
    BY <2>1, <2>2
<1> QED
  BY <1>1, InitGood, PTL DEF DataSetsSpec

-----------------------------------------------------------------------------
\* Lines, entries and counters keep their types for every size of the table: the
\* dead counter stays between its bounds, cptBypassLearning below learningTH.
THEOREM DataSetsTypeCorrect == DataSetsSpec => []DataSetsTypeOK
<1>1. DInv => DataSetsTypeOK
  BY DEF DInv, GoodRecord, Records, InfoTables, State, DataSetsTypeOK
<1> QED
  BY <1>1, Inductive, PTL

\* The four places of DBAMBPredictor that write the status of a data set write
\* the decision that goes with it, with as much NVM as SRAM or more.
THEOREM DecisionAlwaysFollowsStatus == DataSetsSpec => []DecisionFollowsStatus
<1>1. DInv => DecisionFollowsStatus
  BY DEF DInv, GoodRecord, GoodEntry, FollowsStatus, State, DecisionFollowsStatus
<1> QED
  BY <1>1, Inductive, PTL

\* Lazy migrations, bypassed misses and evictions leave HybridCache::m_tag_index
\* and the arrays in agreement, for every geometry.
THEOREM DataSetsAlwaysKeepIndex == DataSetsSpec => []DataSetsKeepIndex
<1>1. DInv => DataSetsKeepIndex
  BY DEF DInv, GoodRecord, GoodCache, State, DataSetsKeepIndex
<1> QED
  BY <1>1, Inductive, PTL

\* Only the reuse of a learning line of its own, or the loss of its entry, ends
\* the bypass of a data set, for every parameter of the predictor.
THEOREM BypassAlwaysEndsByReuse == DataSetsSpec => BypassEndsByReuse
<1> DEFINE A == \A p \in PCs :
                  (dataset[p].des = "BYPASS" /\ dataset'[p].des # "BYPASS" /\ recency'[p] # 0)
                    => /\ \E x \in Sets(Hybrid), w \in Ways(Hybrid) :
                            IsLearningLine(x, w, p)
                       /\ dataset'[p].des = "PREEMPTIVELY" /\ dataset'[p].dead = 0
<1>1. DInv /\ [DataSetsNext]_dataSetsVars => [A]_dataSetsVars
  <2> SUFFICES ASSUME DInv, DataSetsNext PROVE A
    OBVIOUS
  <2>1. PICK r : GoodStep(r) /\ Becomes(r)
    BY NextGood
  <2>2. r.dataset = dataset' /\ r.recency = recency'
    BY <2>1 DEF Becomes
  <2>3. State.dataset = dataset /\ State.info = info
    BY DEF State
  <2> QED
    BY <2>1, <2>2, <2>3 DEF GoodStep, EndsByReuse, IsLearningLine
<1> QED
  BY <1>1, Inductive, PTL DEF DataSetsSpec, BypassEndsByReuse

\* An access leaves its block in the cache unless its data set was bypassed: the
\* victim of a lazy migration or of a fill never is the way of the block itself.
THEOREM AlwaysCachedUnlessBypassed == DataSetsSpec => CachedUnlessBypassed
<1> DEFINE A == \A b \in Blocks :
                  (b \notin held /\ b \in held') =>
                    \/ Present(llc', b)
                    \/ \E p \in PCs : <<b, p>> \in Uses /\ dataset[p].des = "BYPASS"
<1>1. DInv /\ [DataSetsNext]_dataSetsVars => [A]_dataSetsVars
  <2> SUFFICES ASSUME DInv, DataSetsNext PROVE A
    OBVIOUS
  <2>1. PICK r : GoodStep(r) /\ Becomes(r)
    BY NextGood
  <2>2. r.llc = llc' /\ r.held = held'
    BY <2>1 DEF Becomes
  <2>3. State.dataset = dataset /\ State.held = held
    BY DEF State
  <2> QED
    BY <2>1, <2>2, <2>3 DEF GoodStep, CachesBlocks
<1> QED
  BY <1>1, Inductive, PTL DEF DataSetsSpec, CachedUnlessBypassed
=============================================================================
