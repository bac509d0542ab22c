-------------------------- MODULE MigrationProofs --------------------------
(***************************************************************************)
(* The invariants of a cache whose lines migrate, for every geometry,      *)
(* policy, threshold and set of blocks.  A handler is an operator on the   *)
(* record CacheState; its lemma says that it keeps GoodRecord, and the     *)
(* counters below the thresholds if they were.                             *)
(***************************************************************************)
EXTENDS Migration, HybridCacheProofs

Counters == [Sets(Hybrid) -> [Ways(Hybrid) -> Nat]]

Records == [llc : Caches(Hybrid), counter : Counters,
            tracked : SUBSET Blocks, held : SUBSET Blocks]

\* Index and arrays agree, what can be hit is tracked, what an L1 holds too.
GoodRecord(s) ==
  /\ s \in Records
  /\ GoodCache(Hybrid, s.llc)
  /\ s.held \subseteq s.tracked
  /\ \A b \in Blocks : Present(s.llc, b) => b \in s.tracked

BelowThreshold(s) ==
  \A x \in Sets(Hybrid), w \in Ways(Hybrid) :
    s.counter[x][w] < threshold[InNVM(w)]

MInv ==
  /\ policy \in Policies
  /\ threshold \in [BOOLEAN -> Nat \ {0}]
  /\ GoodRecord(CacheState)
  /\ policy = "Saturation" => BelowThreshold(CacheState)

-----------------------------------------------------------------------------
\* The geometry is one, and its two arrays are apart.
LEMMA HybridGeometry ==
  /\ Hybrid \in Geometries
  /\ Hybrid.sram + Hybrid.nvm > 0
  /\ \A w \in Ways(Hybrid) : InNVM(w) \in BOOLEAN
  /\ \A inNVM \in BOOLEAN : Array(Hybrid, inNVM) # {}
  /\ \A inNVM \in BOOLEAN : \A w \in Array(Hybrid, inNVM) : InNVM(w) = inNVM
<1>1. /\ Hybrid \in Geometries /\ Hybrid.sram = SRAMWays /\ Hybrid.nvm = NVMWays
      /\ SRAMWays \in Nat \ {0} /\ NVMWays \in Nat \ {0}
  BY MigrationAssumption DEF Hybrid, Geometries
<1>2. Hybrid.sram + Hybrid.nvm > 0
  BY <1>1
<1>3. 0 \in Array(Hybrid, FALSE) /\ SRAMWays \in Array(Hybrid, TRUE)
  BY <1>1 DEF Array, Ways
<1>4. \A inNVM \in BOOLEAN : \A w \in Array(Hybrid, inNVM) : InNVM(w) = inNVM
  BY <1>1 DEF Array, InNVM
<1>5. \A w \in Ways(Hybrid) : InNVM(w) \in BOOLEAN
  BY <1>1 DEF Ways, InNVM
<1>6. \A inNVM \in BOOLEAN : Array(Hybrid, inNVM) # {}
  BY <1>3
<1> QED
  BY Zenon, <1>1, <1>2, <1>4, <1>5, <1>6

-----------------------------------------------------------------------------
\* A migration loses the victim and no other block, and changes no counter but to
\* 0.  Since the victim was emptied first, the directory and the L1s are as before.
LEMMA MigrateGood ==
  ASSUME NEW s, GoodRecord(s), NEW x \in Sets(Hybrid),
         NEW from \in Ways(Hybrid), NEW to \in Ways(Hybrid), from # to,
         s.llc.line[x][from].addr \in Blocks
  PROVE  LET r == Migrate(s, x, from, to)
         IN /\ GoodRecord(r)
            /\ r.tracked = s.tracked /\ r.held = s.held
            /\ Present(r.llc, s.llc.line[x][from].addr)
            /\ \A y \in Sets(Hybrid), v \in Ways(Hybrid) :
                 r.counter[y][v] \in {0, s.counter[y][v]}
<1> DEFINE e == DeallocateWay(s.llc, x, to)
           l == e.line[x][from]
           d == Moved(e, x, from, to)
           k == [s.counter EXCEPT ![x] = [@ EXCEPT ![to] = 0, ![from] = 0]]
           r == Migrate(s, x, from, to)
<1>1. /\ s \in Records /\ GoodCache(Hybrid, s.llc)
      /\ s.llc \in Caches(Hybrid) /\ TagsAgree(Hybrid, s.llc)
      /\ Hybrid \in Geometries
  BY HybridGeometry DEF GoodRecord, GoodCache
<1>2. /\ GoodCache(Hybrid, e)
      /\ e.line[x][to] = EmptyLine
      /\ \A b \in Blocks : Present(e, b) => Present(s.llc, b)
      /\ Present(s.llc, s.llc.line[x][from].addr)
           /\ s.llc.line[x][from].addr # s.llc.line[x][to].addr
         => Present(e, s.llc.line[x][from].addr)
  <2> HIDE DEF e
  <2>1. LET f == DeallocateWay(s.llc, x, to)
        IN /\ GoodCache(Hybrid, f)
           /\ f.line[x][to] = EmptyLine
           /\ \A b \in Blocks :
                Present(f, b) <=> Present(s.llc, b) /\ b # s.llc.line[x][to].addr
    BY <1>1, DeallocateWayGood
  <2> QED
    BY <2>1 DEF e
<1>3. l = s.llc.line[x][from]
  BY <1>1 DEF DeallocateWay, Caches
<1>4. /\ Present(s.llc, l.addr)
      /\ l.addr # s.llc.line[x][to].addr
  BY <1>1, <1>3, GeometryFacts DEF TagsAgree, Present
<1>5. Present(e, l.addr)
  BY <1>2, <1>3, <1>4
<1>6. GoodCache(Hybrid, d) /\ \A b \in Blocks : Present(d, b) <=> Present(e, b)
  <2> HIDE DEF e
  <2>1. e.line[x][from].addr \in Blocks
    BY <1>3
  <2> QED
    BY <1>1, <1>2, <2>1, MoveGood
<1>7. r = [s EXCEPT !.llc = d, !.counter = k]
  <2>1. e.line[x][to].valid = FALSE
    BY <1>2 DEF EmptyLine
  <2>2. e \in Caches(Hybrid)
    BY <1>2 DEF GoodCache
  <2>3. SignalEviction([s EXCEPT !.llc = e], x, to) = [s EXCEPT !.llc = e]
    BY <1>1, <2>1 DEF SignalEviction, Records
  <2> HIDE DEF e
  <2>4. r = [[s EXCEPT !.llc = e] EXCEPT
              !.llc = d,
              !.counter[x] = [@ EXCEPT ![to] = 0, ![from] = 0]]
    BY Zenon, <2>1, <2>3 DEF Migrate, Moved, e
  <2> QED
    BY <1>1, <2>4 DEF Records
<1>8. k \in Counters
      /\ \A y \in Sets(Hybrid), v \in Ways(Hybrid) :
           k[y][v] \in {0, s.counter[y][v]}
  BY <1>1 DEF Records, Counters
<1> HIDE DEF d, k, r
<1>9. r.llc = d /\ r.counter = k /\ r.tracked = s.tracked /\ r.held = s.held
      /\ r \in Records
  BY <1>1, <1>6, <1>7, <1>8 DEF Records, GoodCache
<1>10. GoodRecord(r)
  BY <1>2, <1>6, <1>9 DEF GoodRecord
<1>11. Present(r.llc, s.llc.line[x][from].addr)
  BY <1>3, <1>5, <1>6, <1>9
<1> QED
  BY <1>8, <1>9, <1>10, <1>11 DEF r

\* updatePolicy keeps a record good, the block it updates in the index, and the
\* counters below the thresholds: the counter it raises is compared at once.
LEMMA UpdatePolicyGood ==
  ASSUME NEW s, GoodRecord(s), threshold \in [BOOLEAN -> Nat \ {0}],
         NEW x \in Sets(Hybrid), NEW w \in Ways(Hybrid),
         s.llc.line[x][w].addr \in Blocks, NEW isWrite \in BOOLEAN
  PROVE  LET r == UpdatePolicy(s, x, w, isWrite)
         IN /\ GoodRecord(r)
            /\ r.tracked = s.tracked /\ r.held = s.held
            /\ Present(r.llc, s.llc.line[x][w].addr)
            /\ BelowThreshold(s) => BelowThreshold(r)
<1> DEFINE u == [s EXCEPT !.llc = Touch(Hybrid, s.llc, x, w)]
           n == s.counter[x][w]
           to == Victim(Hybrid, u.llc, x, ~InNVM(w))
           isWrong == IsWrong(w, isWrite)
           r == UpdatePolicy(s, x, w, isWrite)
<1>1. /\ s \in Records /\ GoodCache(Hybrid, s.llc)
      /\ s.counter \in Counters /\ n \in Nat
      /\ Hybrid \in Geometries /\ InNVM(w) \in BOOLEAN
  BY HybridGeometry DEF GoodRecord, Records, Counters
<1>2. /\ GoodCache(Hybrid, Touch(Hybrid, s.llc, x, w))
      /\ Touch(Hybrid, s.llc, x, w).tag = s.llc.tag
      /\ Touch(Hybrid, s.llc, x, w).line = s.llc.line
  BY <1>1, TouchGood
<1>3. /\ u \in Records /\ u.llc = Touch(Hybrid, s.llc, x, w)
      /\ u.counter = s.counter /\ u.tracked = s.tracked /\ u.held = s.held
  BY <1>1, <1>2 DEF Records, GoodCache
<1>4. GoodRecord(u)
  BY <1>2, <1>3 DEF GoodRecord, Present
<1>5. Present(s.llc, s.llc.line[x][w].addr)
  BY <1>1, GeometryFacts DEF GoodCache, TagsAgree, Present
<1> HIDE DEF u
<1>6. CASE isWrong /\ n + 1 = threshold[InNVM(w)]
  <2>1. r = Migrate(u, x, w, to)
    BY <1>6 DEF UpdatePolicy, u
  <2>2. (~InNVM(w)) \in BOOLEAN
    BY <1>1
  <2>3. to \in Array(Hybrid, ~InNVM(w))
    BY <1>1, <1>2, <1>3, <2>2, HybridGeometry, VictimInArray DEF GoodCache
  <2>4. to \in Ways(Hybrid) /\ InNVM(to) = ~InNVM(w)
    BY <1>1, <2>2, <2>3, HybridGeometry, GeometryFacts
  <2>5. w # to
    BY <1>1, <2>4
  <2>6. u.llc.line[x][w].addr = s.llc.line[x][w].addr
    BY <1>2, <1>3
  <2> HIDE DEF to, r
  <2>7. LET q == Migrate(u, x, w, to)
        IN /\ GoodRecord(q)
           /\ q.tracked = u.tracked /\ q.held = u.held
           /\ Present(q.llc, u.llc.line[x][w].addr)
           /\ \A y \in Sets(Hybrid), v \in Ways(Hybrid) :
                q.counter[y][v] \in {0, u.counter[y][v]}
    BY <1>4, <2>4, <2>5, <2>6, MigrateGood
  <2>8. BelowThreshold(s) => BelowThreshold(r)
    BY <1>1, <1>3, <2>1, <2>7, HybridGeometry DEF BelowThreshold, Counters
  <2> QED
    BY <1>3, <2>1, <2>6, <2>7, <2>8 DEF r
<1>7. CASE ~(isWrong /\ n + 1 = threshold[InNVM(w)])
  <2> DEFINE m == IF isWrong THEN n + 1 ELSE IF n = 0 THEN 0 ELSE n - 1
  <2>1. r = [u EXCEPT !.counter[x][w] = m]
    BY Zenon, <1>1, <1>3, <1>7 DEF UpdatePolicy, u
  <2>2. m \in Nat
    BY <1>1
  <2>3. n < threshold[InNVM(w)] => m < threshold[InNVM(w)]
    BY <1>1, <1>7
  <2> HIDE DEF m, n, isWrong, r
  <2>4. /\ r.llc = u.llc /\ r.tracked = u.tracked /\ r.held = u.held
        /\ r.counter = [s.counter EXCEPT ![x][w] = m]
        /\ r \in Records
    BY <1>1, <1>3, <2>1, <2>2 DEF Records, Counters
  <2>5. GoodRecord(r)
    BY <1>4, <2>4 DEF GoodRecord
  <2>6. Present(r.llc, s.llc.line[x][w].addr)
    BY <1>2, <1>3, <1>5, <2>4 DEF Present
  <2>7. BelowThreshold(s) => BelowThreshold(r)
    BY <1>1, <2>2, <2>3, <2>4 DEF BelowThreshold, Counters, n
  <2> QED
    BY <1>3, <2>4, <2>5, <2>6, <2>7 DEF r
<1> QED
  BY <1>6, <1>7

-----------------------------------------------------------------------------
\* A hit, with the dirty bit set where the line was, keeps all that; the block is
\* still in the index, wherever the update has sent it.
LEMMA LLCHitGood ==
  ASSUME NEW s, GoodRecord(s), threshold \in [BOOLEAN -> Nat \ {0}],
         NEW b \in Blocks, Present(s.llc, b), NEW isWrite \in BOOLEAN
  PROVE  LET r == LLCHit(s, b, isWrite)
         IN /\ GoodRecord(r)
            /\ r.tracked = s.tracked /\ r.held = s.held
            /\ Present(r.llc, b)
            /\ BelowThreshold(s) => BelowThreshold(r)
<1> DEFINE x == SetOf(Hybrid, b)
           w == s.llc.tag[b]
           u == UpdatePolicy(s, x, w, isWrite)
           l == [u.llc.line[x][w] EXCEPT !.dirty = @ \/ isWrite]
           c == [u.llc EXCEPT !.line[x][w] = l]
           r == LLCHit(s, b, isWrite)
<1>1. x \in Sets(Hybrid) /\ w \in Ways(Hybrid) /\ s.llc.line[x][w].addr = b
  BY HybridGeometry, IndexedEntry DEF GoodRecord
<1> HIDE DEF x, w
<1>2. /\ GoodRecord(u)
      /\ u.tracked = s.tracked /\ u.held = s.held
      /\ Present(u.llc, b)
      /\ BelowThreshold(s) => BelowThreshold(u)
  BY <1>1, UpdatePolicyGood
<1> HIDE DEF u
<1>3. u \in Records /\ u.llc \in Caches(Hybrid) /\ GoodCache(Hybrid, u.llc)
  BY <1>2 DEF GoodRecord, GoodCache
<1>4. u.llc.line[x][w] \in Lines
  BY <1>1, <1>3 DEF Caches
<1>5. /\ l \in Lines /\ l.addr = u.llc.line[x][w].addr
      /\ l.valid = u.llc.line[x][w].valid
  BY <1>4 DEF Lines
<1> HIDE DEF l
<1>6. GoodCache(Hybrid, c) /\ c.tag = u.llc.tag
  BY <1>1, <1>3, <1>5, HybridGeometry, RewriteGood
<1>7. r = [u EXCEPT !.llc = c]
  BY <1>3 DEF LLCHit, u, x, w, l, Records, Caches
<1> HIDE DEF c, r
<1>8. /\ r \in Records /\ r.llc = c /\ r.counter = u.counter
      /\ r.tracked = u.tracked /\ r.held = u.held
  BY <1>3, <1>6, <1>7 DEF Records, GoodCache
<1>9. GoodRecord(r) /\ Present(r.llc, b)
  BY <1>2, <1>6, <1>8 DEF GoodRecord, Present
<1>10. BelowThreshold(s) => BelowThreshold(r)
  BY <1>2, <1>8 DEF BelowThreshold
<1> QED
  BY <1>2, <1>8, <1>9, <1>10 DEF r

\* A miss of a tracked block: the victim leaves the directory only if it was
\* valid, and it never is the block itself.
LEMMA LLCMissGood ==
  ASSUME NEW s, GoodRecord(s), threshold \in [BOOLEAN -> Nat \ {0}],
         NEW b \in s.held, ~Present(s.llc, b), NEW isWrite \in BOOLEAN
  PROVE  LET r == LLCMiss(s, b, isWrite)
         IN /\ GoodRecord(r)
            /\ r.held \subseteq s.held
            /\ Present(r.llc, b)
            /\ BelowThreshold(s) => BelowThreshold(r)
<1> DEFINE x == SetOf(Hybrid, b)
           inNVM == AllocateInNVM(Hybrid, isWrite)
           w == Victim(Hybrid, s.llc, x, inNVM)
           line == s.llc.line[x][w]
           gone == IF line.valid THEN {line.addr} ELSE {}
           c == Fill(Hybrid, s.llc, b, w, isWrite, FALSE)
           r == LLCMiss(s, b, isWrite)
<1>1. /\ s \in Records /\ GoodCache(Hybrid, s.llc) /\ Hybrid \in Geometries
      /\ s.llc \in Caches(Hybrid) /\ b \in Blocks /\ b \in s.tracked
      /\ s.held \subseteq s.tracked
  BY HybridGeometry DEF GoodRecord, GoodCache, Records
<1>2. x \in Sets(Hybrid)
  BY <1>1, GeometryFacts
<1>3. w \in Ways(Hybrid)
  <2>1. inNVM \in BOOLEAN /\ Array(Hybrid, inNVM) # {}
    BY HybridGeometry, AllocatedArrayHasWays
  <2> HIDE DEF inNVM, x
  <2>2. w \in Array(Hybrid, inNVM)
    BY <1>1, <1>2, <2>1, VictimInArray
  <2> QED
    BY <1>1, <2>1, <2>2, GeometryFacts
<1> HIDE DEF w
<1>4. /\ GoodCache(Hybrid, c)
      /\ \A y \in Blocks :
           Present(c, y) <=>
             y = b \/ (Present(s.llc, y) /\ y # s.llc.line[x][w].addr)
  <2>1. \A kept \in BOOLEAN :
          LET d == Fill(Hybrid, s.llc, b, w, isWrite, kept)
          IN /\ GoodCache(Hybrid, d)
             /\ \A y \in Blocks :
                  Present(d, y) <=>
                    y = b \/ (Present(s.llc, y)
                                /\ y # s.llc.line[SetOf(Hybrid, b)][w].addr)
    BY <1>1, <1>3, FillGood
  <2> QED
    BY <2>1
<1>5. b \notin gone
  <2>1. line.valid => line.addr \in Blocks /\ Present(s.llc, line.addr)
    BY <1>1, <1>2, <1>3, ValidEntryIsIndexed
  <2> QED
    BY <2>1
<1>6. \A y \in gone : y = s.llc.line[x][w].addr
  OBVIOUS
<1>7. r = [s EXCEPT !.tracked = @ \ gone, !.held = @ \ gone,
                    !.llc = c, !.counter[x][w] = 0]
  BY <1>1 DEF LLCMiss, SignalEviction, w, Records
<1> HIDE DEF x, gone, c, r
<1>8. /\ r \in Records /\ r.llc = c
      /\ r.tracked = s.tracked \ gone /\ r.held = s.held \ gone
      /\ r.counter = [s.counter EXCEPT ![x][w] = 0]
  BY <1>1, <1>2, <1>3, <1>4, <1>7 DEF Records, Counters, GoodCache
<1>9. GoodRecord(r)
  <2>1. \A y \in Blocks : Present(s.llc, y) => y \in s.tracked
    BY DEF GoodRecord
  <2> QED
    BY <1>1, <1>4, <1>5, <1>6, <1>8, <2>1 DEF GoodRecord
<1>10. BelowThreshold(s) => BelowThreshold(r)
  BY <1>1, <1>2, <1>3, <1>8, HybridGeometry
     DEF BelowThreshold, Records, Counters
<1> QED
  BY <1>1, <1>4, <1>8, <1>9, <1>10 DEF r

LEMMA LLCHandleAccessGood ==
  ASSUME NEW s, GoodRecord(s), threshold \in [BOOLEAN -> Nat \ {0}],
         NEW b \in s.held, NEW isWrite \in BOOLEAN
  PROVE  LET r == LLCHandleAccess(s, b, isWrite)
         IN /\ GoodRecord(r)
            /\ r.held \subseteq s.held
            /\ Present(r.llc, b)
            /\ BelowThreshold(s) => BelowThreshold(r)
<1>1. b \in Blocks
  BY DEF GoodRecord, Records
<1>2. CASE Present(s.llc, b)
  <2>1. LLCHandleAccess(s, b, isWrite) = LLCHit(s, b, isWrite)
    BY <1>2 DEF LLCHandleAccess
  <2> QED
    BY <1>1, <1>2, <2>1, LLCHitGood
<1>3. CASE ~Present(s.llc, b)
  <2>1. LLCHandleAccess(s, b, isWrite) = LLCMiss(s, b, isWrite)
    BY <1>3 DEF LLCHandleAccess
  <2> QED
    BY <1>3, <2>1, LLCMissGood
<1> QED
  BY <1>2, <1>3

LEMMA LLCHandleWBGood ==
  ASSUME NEW s, GoodRecord(s), threshold \in [BOOLEAN -> Nat \ {0}],
         NEW b \in Blocks
  PROVE  LET r == LLCHandleWB(s, b)
         IN /\ GoodRecord(r)
            /\ r.held = s.held
            /\ BelowThreshold(s) => BelowThreshold(r)
<1>1. CASE Present(s.llc, b)
  <2> DEFINE x == SetOf(Hybrid, b)
             w == s.llc.tag[b]
  <2>1. x \in Sets(Hybrid) /\ w \in Ways(Hybrid) /\ s.llc.line[x][w].addr = b
    BY <1>1, HybridGeometry, IndexedEntry DEF GoodRecord
  <2>2. LLCHandleWB(s, b) = UpdatePolicy(s, x, w, TRUE)
    BY <1>1 DEF LLCHandleWB
  <2> HIDE DEF x, w
  <2>3. \A isWrite \in BOOLEAN :
          LET r == UpdatePolicy(s, x, w, isWrite)
          IN /\ GoodRecord(r)
             /\ r.held = s.held
             /\ BelowThreshold(s) => BelowThreshold(r)
    BY <2>1, UpdatePolicyGood
  <2> QED
    BY <2>2, <2>3
<1>2. CASE ~Present(s.llc, b)
  BY <1>2 DEF LLCHandleWB
<1> QED
  BY <1>1, <1>2

-----------------------------------------------------------------------------
LEMMA InitMInv == MigrationInit => MInv
<1> SUFFICES ASSUME MigrationInit PROVE MInv
  OBVIOUS
<1>1. /\ GoodCache(Hybrid, llc) /\ \A b \in Blocks : ~Present(llc, b)
  BY HybridGeometry, EmptyCacheGood DEF MigrationInit
<1>2. /\ counter \in Counters
      /\ \A x \in Sets(Hybrid), w \in Ways(Hybrid) : counter[x][w] = 0
  BY DEF MigrationInit, Counters
<1>3. threshold \in [BOOLEAN -> Nat \ {0}] /\ policy \in Policies
  BY MigrationAssumption DEF MigrationInit
<1>4. GoodRecord(CacheState)
  BY <1>1, <1>2 DEF GoodRecord, Records, CacheState, MigrationInit, GoodCache
<1>5. BelowThreshold(CacheState)
  BY <1>2, <1>3, HybridGeometry DEF BelowThreshold, CacheState
<1> QED
  BY <1>3, <1>4, <1>5 DEF MInv

\* A step to a good record, its counters below the thresholds if they were.
LEMMA BecomesMInv ==
  ASSUME MInv, NEW s, CacheBecomes(s), GoodRecord(s),
         BelowThreshold(CacheState) => BelowThreshold(s)
  PROVE  MInv'
<1>1. s = [llc |-> s.llc, counter |-> s.counter,
           tracked |-> s.tracked, held |-> s.held]
  BY DEF GoodRecord, Records
<1>2. CacheState' = s /\ policy' = policy /\ threshold' = threshold
  BY Zenon, <1>1 DEF CacheState, CacheBecomes
<1>3. BelowThreshold(s) => BelowThreshold(CacheState)'
  BY <1>2 DEF BelowThreshold
<1>4. GoodRecord(CacheState)'
  BY <1>2
<1> QED
  BY <1>2, <1>3, <1>4 DEF MInv

\* The whole step of an access; the second conclusion is AccessedIsCached.
LEMMA LLCAccessKeeps ==
  ASSUME MInv, NEW b \in Blocks, NEW isWrite \in BOOLEAN, LLCAccess(b, isWrite)
  PROVE  /\ MInv'
         /\ \A a \in Blocks : (a \notin held /\ a \in held') => Present(llc', a)
<1> DEFINE s == [CacheState EXCEPT !.tracked = @ \cup {b}, !.held = @ \cup {b}]
           r == LLCHandleAccess(s, b, isWrite)
<1>1. CacheState \in Records /\ GoodRecord(CacheState)
  BY DEF MInv, GoodRecord
<1>2. /\ s \in Records /\ s.llc = llc /\ s.counter = counter
      /\ s.tracked = tracked \cup {b} /\ s.held = held \cup {b}
  BY <1>1 DEF Records, CacheState
<1>3. GoodRecord(s)
  BY <1>1, <1>2 DEF GoodRecord, CacheState
<1>4. BelowThreshold(CacheState) => BelowThreshold(s)
  BY <1>2 DEF BelowThreshold, CacheState
<1>5. CacheBecomes(r)
  BY DEF LLCAccess
<1>6. threshold \in [BOOLEAN -> Nat \ {0}]
  BY DEF MInv
<1> HIDE DEF s
<1>7. /\ GoodRecord(r) /\ r.held \subseteq s.held /\ Present(r.llc, b)
      /\ BelowThreshold(s) => BelowThreshold(r)
  BY <1>2, <1>3, <1>6, LLCHandleAccessGood
<1> HIDE DEF r
<1>8. MInv'
  BY <1>4, <1>5, <1>7, BecomesMInv
<1>9. \A a \in Blocks : (a \notin held /\ a \in held') => Present(llc', a)
  BY <1>2, <1>5, <1>7 DEF CacheBecomes
<1> QED
  BY <1>8, <1>9

LEMMA L1WriteBackKeeps ==
  ASSUME MInv, NEW b \in Blocks, NEW isDirty \in BOOLEAN, L1WriteBack(b, isDirty)
  PROVE  MInv' /\ held' \subseteq held
<1> DEFINE s == [CacheState EXCEPT !.held = @ \ {b}]
           r == IF isDirty THEN LLCHandleWB(s, b) ELSE s
<1>1. CacheState \in Records /\ GoodRecord(CacheState)
  BY DEF MInv, GoodRecord
<1>2. /\ s \in Records /\ s.llc = llc /\ s.counter = counter
      /\ s.tracked = tracked /\ s.held = held \ {b}
  BY <1>1 DEF Records, CacheState
<1>3. GoodRecord(s)
  BY <1>1, <1>2 DEF GoodRecord, CacheState
<1>4. BelowThreshold(CacheState) => BelowThreshold(s)
  BY <1>2 DEF BelowThreshold, CacheState
<1>5. CacheBecomes(r)
  BY DEF L1WriteBack
<1>6. threshold \in [BOOLEAN -> Nat \ {0}]
  BY DEF MInv
<1> HIDE DEF s
<1>7. LET q == LLCHandleWB(s, b)
      IN /\ GoodRecord(q) /\ q.held = s.held
         /\ BelowThreshold(s) => BelowThreshold(q)
  BY <1>3, <1>6, LLCHandleWBGood
<1>8. /\ GoodRecord(r) /\ r.held = s.held
      /\ BelowThreshold(s) => BelowThreshold(r)
  BY <1>3, <1>7
<1> HIDE DEF r
<1>9. MInv'
  BY <1>4, <1>5, <1>8, BecomesMInv
<1> QED
  BY <1>2, <1>5, <1>8, <1>9 DEF CacheBecomes

LEMMA OpenNewTimeFrameKeeps ==
  ASSUME MInv, OpenNewTimeFrame
  PROVE  MInv' /\ held' = held
<1>1. /\ CacheState' = CacheState /\ policy' = policy
      /\ policy = "DynamicSaturation" /\ held' = held
  BY DEF OpenNewTimeFrame, CacheState
<1>2. threshold' \in [BOOLEAN -> Nat \ {0}]
  <2>1. PICK move \in [BOOLEAN -> {-1, 1}] :
          threshold' = [inNVM \in BOOLEAN |->
                         LET t == threshold[inNVM] + move[inNVM]
                         IN IF t < 1 THEN 1
                            ELSE IF t > LastThreshold THEN LastThreshold ELSE t]
    BY DEF OpenNewTimeFrame
  <2>2. \A inNVM \in BOOLEAN : threshold[inNVM] + move[inNVM] \in Int
    BY DEF MInv
  <2> QED
    BY <2>1, <2>2, MigrationAssumption
<1> QED
  BY <1>1, <1>2 DEF MInv

\* Every step keeps the invariant and has AccessedIsCached.
LEMMA NextMInv ==
  ASSUME MInv, [MigrationNext]_migrationVars
  PROVE  /\ MInv'
         /\ \A a \in Blocks : (a \notin held /\ a \in held') => Present(llc', a)
<1>0. DataBlocks \subseteq Blocks
  BY DEF Blocks
<1>1. CASE \E b \in Blocks : LLCAccess(b, FALSE)
  BY <1>1, LLCAccessKeeps
<1>2. CASE \E b \in DataBlocks : LLCAccess(b, TRUE)
  BY <1>0, <1>2, LLCAccessKeeps
<1>3. CASE \E b \in Blocks : L1WriteBack(b, FALSE)
  BY <1>3, L1WriteBackKeeps
<1>4. CASE \E b \in DataBlocks : L1WriteBack(b, TRUE)
  BY <1>0, <1>4, L1WriteBackKeeps
<1>5. CASE OpenNewTimeFrame
  BY <1>5, OpenNewTimeFrameKeeps
<1>6. CASE UNCHANGED migrationVars
  BY <1>6 DEF migrationVars, MInv, GoodRecord, BelowThreshold, CacheState
<1> QED
  BY <1>1, <1>2, <1>3, <1>4, <1>5, <1>6 DEF MigrationNext

LEMMA MInductive == MigrationSpec => []MInv
<1>1. MInv /\ [MigrationNext]_migrationVars => MInv'
  BY NextMInv
<1> QED
  BY <1>1, InitMInv, PTL DEF MigrationSpec

-----------------------------------------------------------------------------
\* Every variable of the migrating cache keeps its type, and the L1s hold tracked
\* blocks only.
THEOREM MigrationTypeCorrect == MigrationSpec => []MigrationTypeOK
<1>1. MInv => MigrationTypeOK
  BY DEF MInv, GoodRecord, Records, Counters, CacheState, MigrationTypeOK
<1> QED
  BY <1>1, MInductive, PTL

\* HybridCache::m_tag_index and the data arrays never disagree, whatever migrates.
THEOREM MigrationAlwaysKeepsIndex == MigrationSpec => []MigrationKeepsIndex
<1>1. MInv => MigrationKeepsIndex
  BY DEF MInv, GoodRecord, GoodCache, CacheState, MigrationKeepsIndex
<1> QED
  BY <1>1, MInductive, PTL

\* No block can be hit in the cache that the directory has no entry for.
THEOREM CachedIsAlwaysTracked == MigrationSpec => []CachedIsTracked
<1>1. MInv => CachedIsTracked
  BY DEF MInv, GoodRecord, CacheState, CachedIsTracked
<1> QED
  BY <1>1, MInductive, PTL

\* With a fixed threshold a counter never gets past it, where the == of
\* SaturationCounter::updatePolicy would miss it for ever.
THEOREM CountersStayBelowThreshold == MigrationSpec => []CountersBelowThreshold
<1>1. MInv => CountersBelowThreshold
  BY DEF MInv, BelowThreshold, CacheState, CountersBelowThreshold
<1> QED
  BY <1>1, MInductive, PTL

\* An access never loses the block it was for to the migration it causes.
THEOREM AccessedIsAlwaysCached == MigrationSpec => AccessedIsCached
<1>1. MInv /\ [MigrationNext]_migrationVars =>
        [\A b \in Blocks : (b \notin held /\ b \in held')
                              => Present(llc', b)]_migrationVars
  BY NextMInv
<1> QED
  BY <1>1, MInductive, PTL DEF MigrationSpec, AccessedIsCached
=============================================================================
