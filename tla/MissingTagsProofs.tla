------------------------- MODULE MissingTagsProofs -------------------------
(***************************************************************************)
(* What Predictor remembers, for every geometry, number of missing tags,    *)
(* policy and set of blocks.  First what each operator does to the record  *)
(* of all variables, and which part of it, the cache and the missing tags,  *)
(* it leaves alone; then the steps.                                        *)
(***************************************************************************)
EXTENDS MissingTags, HybridCacheProofs, FiniteSetTheorems

Origins == [Sets(Shadowed) -> [Ways(Shadowed) -> [pc : PCs, cost : Int]]]
TagTables == [Sets(Shadowed) -> [TagSlots -> Tags]]
TouchTimes == [BOOLEAN -> [Addresses -> Nat \cup {-1}]]
Shadows == [ShadowSlots(TRUE) -> Tags] \cup [ShadowSlots(FALSE) -> Tags]

TagRecords == [predictor : Predictors, cache : Caches(Shadowed),
               origin : Origins, counted : SUBSET PCs, pcCount : [PCs -> Nat],
               tags : TagTables, shadow : [BOOLEAN -> Shadows], time : Nat,
               request : Places, lastTouch : TouchTimes]

GoodTables(s) ==
  /\ s \in TagRecords
  /\ \A inNVM \in BOOLEAN : s.shadow[inNVM] \in [ShadowSlots(inNVM) -> Tags]
  /\ GoodCache(Shadowed, s.cache)

\* No tag of a block that is in SRAM, and none twice.
Missing(s) ==
  \A x \in Sets(Shadowed), w \in Ways(Shadowed), i \in TagSlots :
    (w < SRAMWays /\ s.cache.line[x][w].valid /\ s.tags[x][i].valid)
      => s.tags[x][i].addr # s.cache.line[x][w].addr

Unique(s) ==
  \A x \in Sets(Shadowed), i, j \in TagSlots :
    (s.tags[x][i].valid /\ s.tags[x][j].valid
      /\ s.tags[x][i].addr = s.tags[x][j].addr) => i = j

\* What the steps need of each other: neither half is inductive alone, for it is
\* that the evicted block had no tag that keeps its new one the only one.
GoodTags(s) == GoodTables(s) /\ (TracksSRAM => Missing(s) /\ Unique(s))

-----------------------------------------------------------------------------
LEMMA TagParameters ==
  /\ Shadowed \in Geometries
  /\ Shadowed.sram = SRAMWays /\ Shadowed.nvm = NVMWays
  /\ SRAMWays \in Nat \ {0} /\ NVMWays \in Nat \ {0}
  /\ NoPC \in PCs /\ NoBlock \in Addresses /\ Blocks \subseteq Addresses
  BY MissingTagsAssumption DEF Shadowed, Geometries, Addresses

LEMMA BothArrays ==
  /\ \A w \in Ways(Shadowed) : w \in Nat /\ (w >= SRAMWays) \in BOOLEAN
  /\ \A inNVM \in BOOLEAN : Array(Shadowed, inNVM) # {}
  /\ \A inNVM \in BOOLEAN : Array(Shadowed, inNVM) \subseteq Ways(Shadowed)
<1>1. 0 \in Array(Shadowed, FALSE) /\ SRAMWays \in Array(Shadowed, TRUE)
  BY TagParameters DEF Array, Ways
<1>2. \A inNVM \in BOOLEAN : Array(Shadowed, inNVM) # {}
  BY <1>1
<1>3. \A w \in Ways(Shadowed) : w \in Nat /\ (w >= SRAMWays) \in BOOLEAN
  BY TagParameters, GeometryFacts
<1>4. \A inNVM \in BOOLEAN : Array(Shadowed, inNVM) \subseteq Ways(Shadowed)
  BY DEF Array
<1> QED
  BY <1>2, <1>3, <1>4

\* A new cache, new origins, new counters or new tags in the record.
LEMMA SetCacheGood ==
  ASSUME NEW s, GoodTables(s), NEW c, GoodCache(Shadowed, c), NEW o \in Origins
  PROVE  LET r == [s EXCEPT !.cache = c, !.origin = o]
         IN GoodTables(r) /\ r.cache = c /\ r.tags = s.tags
<1> DEFINE r == [s EXCEPT !.cache = c, !.origin = o]
<1>1. s \in TagRecords /\ c \in Caches(Shadowed)
  BY DEF GoodTables, GoodCache
<1>2. r \in TagRecords /\ r.cache = c /\ r.tags = s.tags /\ r.shadow = s.shadow
  BY <1>1 DEF TagRecords
<1> QED
  BY <1>2 DEF GoodTables

LEMMA SetCountersGood ==
  ASSUME NEW s, GoodTables(s), NEW k \in SUBSET PCs, NEW n \in [PCs -> Nat]
  PROVE  LET r == [s EXCEPT !.counted = k, !.pcCount = n]
         IN GoodTables(r) /\ r.cache = s.cache /\ r.tags = s.tags
<1> DEFINE r == [s EXCEPT !.counted = k, !.pcCount = n]
<1>1. s \in TagRecords
  BY DEF GoodTables
<1>2. r \in TagRecords /\ r.cache = s.cache /\ r.tags = s.tags /\ r.shadow = s.shadow
  BY <1>1 DEF TagRecords
<1> QED
  BY <1>2 DEF GoodTables

LEMMA SetTagsGood ==
  ASSUME NEW s, GoodTables(s), NEW t \in TagTables
  PROVE  LET r == [s EXCEPT !.tags = t]
         IN GoodTables(r) /\ r.cache = s.cache /\ r.tags = t
<1> DEFINE r == [s EXCEPT !.tags = t]
<1>1. s \in TagRecords
  BY DEF GoodTables
<1>2. r \in TagRecords /\ r.cache = s.cache /\ r.tags = t /\ r.shadow = s.shadow
  BY <1>1 DEF TagRecords
<1> QED
  BY <1>2 DEF GoodTables

LEMMA SetShadowGood ==
  ASSUME NEW s, GoodTables(s), NEW d \in [BOOLEAN -> Shadows],
         \A inNVM \in BOOLEAN : d[inNVM] \in [ShadowSlots(inNVM) -> Tags],
         NEW l \in TouchTimes
  PROVE  LET r == [s EXCEPT !.lastTouch = l, !.shadow = d]
         IN GoodTables(r) /\ r.cache = s.cache /\ r.tags = s.tags
<1> DEFINE r == [s EXCEPT !.lastTouch = l, !.shadow = d]
<1>1. s \in TagRecords
  BY DEF GoodTables
<1>2. r \in TagRecords /\ r.cache = s.cache /\ r.tags = s.tags /\ r.shadow = d
  BY <1>1 DEF TagRecords
<1> QED
  BY <1>2 DEF GoodTables

\* updateFUcaches looks at and changes its shadow only.
LEMMA UpdateFUcachesGood ==
  ASSUME NEW s, GoodTables(s), NEW a \in Addresses, NEW inNVM \in BOOLEAN
  PROVE  LET r == UpdateFUcaches(s, a, inNVM)
         IN GoodTables(r) /\ r.cache = s.cache /\ r.tags = s.tags
<1> DEFINE entries == s.shadow[inNVM]
           found == {i \in DOMAIN entries : entries[i].addr = a}
           first == CHOOSE i \in found : \A j \in found : i <= j
           new == [addr |-> a, valid |-> TRUE, time |-> s.time]
           l == [s.lastTouch EXCEPT ![inNVM] = [s.lastTouch[inNVM] EXCEPT ![a] = s.time]]
           noted == [s EXCEPT !.lastTouch[inNVM][a] = s.time]
           With(i, e) == [noted EXCEPT !.shadow[inNVM][i] = e]
           Shadow(i, e) == [s.shadow EXCEPT ![inNVM] = [entries EXCEPT ![i] = e]]
           old == [entries[first] EXCEPT !.time = s.time]
           refreshed == [noted EXCEPT !.shadow[inNVM][first].time = s.time]
<1>1. /\ s \in TagRecords /\ s.time \in Nat /\ s.lastTouch \in TouchTimes
      /\ entries \in [ShadowSlots(inNVM) -> Tags]
      /\ s.shadow \in [BOOLEAN -> Shadows]
      /\ \A n \in BOOLEAN : s.shadow[n] \in [ShadowSlots(n) -> Tags]
  BY DEF GoodTables, TagRecords
<1>2. UpdateFUcaches(s, a, inNVM) \in {s, refreshed, With(Replaced(entries), new)}
  BY Zenon DEF UpdateFUcaches
<1>3. l \in TouchTimes
  BY <1>1 DEF TouchTimes
<1>4. new \in Tags
  BY <1>1 DEF Tags
<1> HIDE DEF first
<1>5. first \in ShadowSlots(inNVM) => old \in Tags
  BY <1>1 DEF Tags
<1>6. noted = [s EXCEPT !.lastTouch = l] /\ noted.shadow = s.shadow
  <2>1. noted = [s EXCEPT !.lastTouch = l]
    BY Zenon
  <2> HIDE DEF l, noted
  <2>2. noted.shadow = s.shadow
    BY <1>1, <1>3, <2>1 DEF TagRecords
  <2> QED
    BY <2>1, <2>2
<1>7. refreshed = With(first, old)
  <2> HIDE DEF noted
  <2>1. refreshed = [noted EXCEPT !.shadow[inNVM][first] =
                       [noted.shadow[inNVM][first] EXCEPT !.time = s.time]]
    BY Zenon
  <2>2. [noted.shadow[inNVM][first] EXCEPT !.time = s.time] = old
    BY Zenon, <1>6
  <2> QED
    BY Zenon, <2>1, <2>2
<1>8. ASSUME NEW i, NEW e, i \in ShadowSlots(inNVM) => e \in Tags
      PROVE  /\ GoodTables(With(i, e))
             /\ With(i, e).cache = s.cache /\ With(i, e).tags = s.tags
  <2> DEFINE d == Shadow(i, e)
             p == [s EXCEPT !.lastTouch = l, !.shadow = d]
  <2>1. [entries EXCEPT ![i] = e] \in [ShadowSlots(inNVM) -> Tags]
    BY <1>1, <1>8
  <2>2. /\ d \in [BOOLEAN -> Shadows]
        /\ \A n \in BOOLEAN : d[n] \in [ShadowSlots(n) -> Tags]
    <3> DEFINE h == [entries EXCEPT ![i] = e]
    <3> HIDE DEF h
    <3>1. h \in Shadows
      BY <2>1 DEF Shadows, h
    <3>2. /\ [s.shadow EXCEPT ![inNVM] = h] \in [BOOLEAN -> Shadows]
          /\ \A n \in BOOLEAN : [s.shadow EXCEPT ![inNVM] = h][n]
               = IF n = inNVM THEN h ELSE s.shadow[n]
      BY <1>1, <3>1
    <3> QED
      BY <1>1, <2>1, <3>2 DEF h
  <2>3. With(i, e) = p
    <3> HIDE DEF noted, l
    <3>1. With(i, e) = [noted EXCEPT !.shadow = d]
      BY Zenon, <1>6
    <3> HIDE DEF d
    <3> QED
      BY Zenon, <1>6, <3>1
  <2> HIDE DEF d, l, noted
  <2>4. GoodTables(p) /\ p.cache = s.cache /\ p.tags = s.tags
    BY <1>3, <2>2, SetShadowGood
  <2> QED
    BY Zenon, <2>3, <2>4
<1> HIDE DEF refreshed, With, old, new
<1> QED
  BY <1>2, <1>4, <1>5, <1>7, <1>8

\* The counters of InstructionPredictor never leave Nat.
LEMMA CountersGood ==
  ASSUME NEW s, GoodTables(s)
  PROVE  /\ \A p \in PCs, isFetch \in BOOLEAN :
              LET r == CountAllocation(s, p, isFetch)
              IN GoodTables(r) /\ r.cache = s.cache /\ r.tags = s.tags
         /\ \A x \in Sets(Shadowed), w \in Ways(Shadowed) :
              LET r == CountEviction(s, x, w)
              IN GoodTables(r) /\ r.cache = s.cache /\ r.tags = s.tags
<1> DEFINE With(p, n) == [s EXCEPT !.counted = s.counted \cup {p},
                                   !.pcCount = [s.pcCount EXCEPT ![p] = n]]
<1>1. s \in TagRecords /\ s.pcCount \in [PCs -> Nat] /\ s.counted \in SUBSET PCs
  BY DEF GoodTables, TagRecords
<1>2. ASSUME NEW p \in PCs, NEW n \in Nat
      PROVE  /\ GoodTables(With(p, n))
             /\ With(p, n).cache = s.cache /\ With(p, n).tags = s.tags
  <2>1. s.counted \cup {p} \in SUBSET PCs
    BY <1>1
  <2>2. [s.pcCount EXCEPT ![p] = n] \in [PCs -> Nat]
    BY <1>1
  <2> DEFINE c == s.counted \cup {p}
             k == [s.pcCount EXCEPT ![p] = n]
             r == [s EXCEPT !.counted = c, !.pcCount = k]
  <2> HIDE DEF c, k
  <2>3. GoodTables(r) /\ r.cache = s.cache /\ r.tags = s.tags
    BY ZenonT(60), <2>1, <2>2, SetCountersGood DEF c, k
  <2>4. With(p, n) = r
    BY DEF c, k
  <2> QED
    BY Zenon, <2>3, <2>4
<1>3. ASSUME NEW p \in PCs, NEW isFetch \in BOOLEAN
      PROVE  CountAllocation(s, p, isFetch) \in {s, With(p, 1)}
  BY Zenon DEF CountAllocation
<1>4. ASSUME NEW x \in Sets(Shadowed), NEW w \in Ways(Shadowed)
      PROVE  \E p \in PCs, n \in Nat : CountEviction(s, x, w) \in {s, With(p, n)}
  <2> DEFINE p == s.origin[x][w].pc
             n == IF s.origin[x][w].cost >= CostThreshold THEN s.pcCount[p] + 1
                  ELSE IF s.pcCount[p] > 0 THEN s.pcCount[p] - 1 ELSE 0
  <2>1. p \in PCs
    BY <1>1 DEF TagRecords, Origins
  <2>2. n \in Nat
    BY <1>1, <2>1
  <2>3. CountEviction(s, x, w) \in {s, With(p, n)}
    BY Zenon DEF CountEviction
  <2> HIDE DEF p, n, With
  <2> QED
    BY <2>1, <2>2, <2>3
<1> HIDE DEF With
<1>5. 1 \in Nat
  OBVIOUS
<1> QED
  BY <1>2, <1>3, <1>4, <1>5

\* The tag of the line of way w.
TagOfLine(s, x, w) == [addr |-> s.cache.line[x][w].addr,
                       valid |-> s.cache.line[x][w].valid, time |-> s.time]

\* The tags of r are those of s, but for one, which is that of the line.
OneMoreTag(s, x, w, r) ==
  \E k : \A y \in Sets(Shadowed), i \in TagSlots :
    r.tags[y][i] = IF y = x /\ i = k THEN TagOfLine(s, x, w) ELSE s.tags[y][i]

LEMMA EvictRecordingGood ==
  ASSUME NEW s, GoodTables(s), NEW x \in Sets(Shadowed), NEW w \in Ways(Shadowed)
  PROVE  LET r == EvictRecording(s, x, w)
         IN /\ GoodTables(r) /\ r.cache = s.cache
            /\ ~InTracked(w) => r = s
            /\ InTracked(w) => OneMoreTag(s, x, w, r)
<1> DEFINE new == TagOfLine(s, x, w)
           slot == Replaced(s.tags[x])
           t == [s.tags EXCEPT ![x] = [s.tags[x] EXCEPT ![slot] = new]]
           r == [s EXCEPT !.tags = t]
<1>1. /\ s \in TagRecords /\ s.tags \in TagTables /\ s.time \in Nat
      /\ s.cache \in Caches(Shadowed)
  BY DEF GoodTables, TagRecords
<1>2. EvictRecording(s, x, w) = IF ~InTracked(w) THEN s ELSE r
  BY Zenon DEF EvictRecording, TagOfLine
<1>3. new \in Tags
  BY <1>1 DEF Caches, Lines, Tags, Addresses, TagOfLine
<1> HIDE DEF slot
<1>4. /\ t \in TagTables
      /\ \A y \in Sets(Shadowed), i \in TagSlots :
           t[y][i] = IF y = x /\ i = slot THEN new ELSE s.tags[y][i]
  BY <1>1, <1>3 DEF TagTables
<1> HIDE DEF t
<1>5. GoodTables(r) /\ r.cache = s.cache /\ r.tags = t
  BY <1>4, SetTagsGood
<1> HIDE DEF r
<1>6. OneMoreTag(s, x, w, r)
  <2>1. \A y \in Sets(Shadowed), i \in TagSlots :
          r.tags[y][i] = IF y = x /\ i = slot THEN TagOfLine(s, x, w) ELSE s.tags[y][i]
    BY <1>4, <1>5
  <2> QED
    BY SMT, <2>1 DEF OneMoreTag
<1>7. CASE InTracked(w)
  <2>1. EvictRecording(s, x, w) = r
    BY <1>2, <1>7
  <2> QED
    BY Zenon, <1>5, <1>6, <1>7, <2>1
<1>8. CASE ~InTracked(w)
  <2>1. EvictRecording(s, x, w) = s
    BY <1>2, <1>8
  <2> QED
    BY Zenon, <1>8, <2>1
<1> QED
  BY Zenon, <1>7, <1>8

\* insertionPolicy makes tags of the block invalid, and no other.
LEMMA ForgetTagsGood ==
  ASSUME NEW s, GoodTables(s), NEW x \in Sets(Shadowed), NEW w \in Ways(Shadowed),
         NEW b
  PROVE  LET r == ForgetTags(s, x, w, b)
         IN /\ GoodTables(r) /\ r.cache = s.cache
            /\ \A y \in Sets(Shadowed), i \in TagSlots :
                 /\ r.tags[y][i].addr = s.tags[y][i].addr
                 /\ r.tags[y][i].valid <=>
                      /\ s.tags[y][i].valid
                      /\ ~(w < SRAMWays /\ y = x /\ s.tags[y][i].addr = b)
<1> DEFINE Forgotten(i) == IF s.tags[x][i].addr = b
                           THEN [s.tags[x][i] EXCEPT !.valid = FALSE]
                           ELSE s.tags[x][i]
           f == [i \in TagSlots |-> Forgotten(i)]
           t == [s.tags EXCEPT ![x] = f]
           r == [s EXCEPT !.tags = t]
<1>1. /\ s \in TagRecords /\ s.tags \in TagTables
      /\ w \in Nat /\ SRAMWays \in Nat
  BY TagParameters, BothArrays DEF GoodTables, TagRecords
<1>2. ForgetTags(s, x, w, b) = IF w >= SRAMWays THEN s ELSE r
  BY Zenon DEF ForgetTags
<1>3. ASSUME NEW i \in TagSlots
      PROVE  /\ Forgotten(i) \in Tags /\ Forgotten(i).addr = s.tags[x][i].addr
             /\ Forgotten(i).valid <=>
                  s.tags[x][i].valid /\ ~(s.tags[x][i].addr = b)
  <2>1. s.tags[x][i] \in Tags
    BY <1>1 DEF TagTables
  <2> QED
    BY <2>1 DEF Tags
<1> HIDE DEF Forgotten
<1>4. t \in TagTables
  BY <1>1, <1>3 DEF TagTables
<1>5. \A y \in Sets(Shadowed), i \in TagSlots :
        t[y][i] = IF y = x THEN Forgotten(i) ELSE s.tags[y][i]
  BY <1>1 DEF TagTables
<1> HIDE DEF t
<1>6. GoodTables(r) /\ r.cache = s.cache /\ r.tags = t
  BY <1>4, SetTagsGood
<1> HIDE DEF r
<1>7. CASE w >= SRAMWays
  <2>1. ForgetTags(s, x, w, b) = s /\ ~(w < SRAMWays)
    BY <1>1, <1>2, <1>7
  <2> QED
    BY <2>1
<1>8. CASE ~(w >= SRAMWays)
  <2>1. ForgetTags(s, x, w, b) = r /\ w < SRAMWays
    BY <1>1, <1>2, <1>8
  <2> QED
    BY <1>3, <1>5, <1>6, <2>1
<1> QED
  BY <1>7, <1>8

\* A fill rewrites the victim's line and no other.
Rewritten(c, d, b, w) ==
  \A y \in Sets(Shadowed), v \in Ways(Shadowed) :
    IF y = SetOf(Shadowed, b) /\ v = w THEN d.line[y][v].addr = b
    ELSE d.line[y][v] = c.line[y][v]

LEMMA FilledLines ==
  ASSUME NEW c, GoodCache(Shadowed, c), NEW b \in Blocks, NEW w \in Ways(Shadowed),
         NEW isWrite \in BOOLEAN, NEW isPrefetch \in BOOLEAN
  PROVE  Rewritten(c, Fill(Shadowed, c, b, w, isWrite, isPrefetch), b, w)
<1> DEFINE x == SetOf(Shadowed, b)
           l == [addr |-> b, valid |-> TRUE, dirty |-> isWrite,
                 prefetch |-> isPrefetch]
           e == DeallocateWay(c, x, w)
           f == [e EXCEPT !.tag[b] = w, !.line[x][w] = l]
           d == Touch(Shadowed, f, x, w)
<1>1. x \in Sets(Shadowed)
  BY TagParameters, GeometryFacts
<1>2. Fill(Shadowed, c, b, w, isWrite, isPrefetch) = d
  BY DEF Fill
<1> HIDE DEF x
<1>3. c \in Caches(Shadowed) /\ e \in Caches(Shadowed)
  <2>1. GoodCache(Shadowed, e)
    BY <1>1, TagParameters, DeallocateWayGood
  <2> QED
    BY <2>1 DEF GoodCache
<1>4. \A y \in Sets(Shadowed), v \in Ways(Shadowed) :
        e.line[y][v] = IF y = x /\ v = w THEN EmptyLine ELSE c.line[y][v]
  BY <1>1, <1>3 DEF DeallocateWay, Caches
<1> HIDE DEF e
<1>5. l \in Lines /\ l.addr = b
  BY DEF Lines
<1> HIDE DEF l
<1>6. /\ f \in Caches(Shadowed)
      /\ \A y \in Sets(Shadowed), v \in Ways(Shadowed) :
           f.line[y][v] = IF y = x /\ v = w THEN l ELSE e.line[y][v]
  BY <1>1, <1>3, <1>5 DEF Caches
<1> HIDE DEF f
<1>7. d.line = f.line
  BY <1>6 DEF Touch, Caches
<1> HIDE DEF d
<1>8. \A y \in Sets(Shadowed), v \in Ways(Shadowed) :
        /\ (y = x /\ v = w) => d.line[y][v].addr = b
        /\ ~(y = x /\ v = w) => d.line[y][v] = c.line[y][v]
  BY <1>4, <1>5, <1>6, <1>7
<1> QED
  BY <1>2, <1>8 DEF Rewritten, x

LEMMA TagsUpdatePolicyGood ==
  ASSUME NEW s, GoodTags(s), NEW x \in Sets(Shadowed), NEW w \in Ways(Shadowed),
         NEW a \in Addresses, NEW isWrite \in BOOLEAN
  PROVE  GoodTags(TagsUpdatePolicy(s, x, w, a, isWrite))
<1> DEFINE c == Touch(Shadowed, s.cache, x, w)
           i == [s.origin[x][w] EXCEPT !.cost = @ + AccessCost(s, isWrite)]
           o == [s.origin EXCEPT ![x] = [s.origin[x] EXCEPT ![w] = i]]
           t == [s EXCEPT !.cache = c, !.origin = o]
           r == UpdateFUcaches(t, a, w >= SRAMWays)
<1>1. GoodTables(s) /\ s.origin \in Origins /\ GoodCache(Shadowed, s.cache)
  BY DEF GoodTags, GoodTables, TagRecords
<1>2. o \in Origins
  <2>1. AccessCost(s, isWrite) \in Int
    BY DEF AccessCost
  <2>2. i \in [pc : PCs, cost : Int]
    BY <1>1, <2>1 DEF Origins
  <2> HIDE DEF i
  <2> QED
    BY <1>1, <2>2 DEF Origins
<1>3. TagsUpdatePolicy(s, x, w, a, isWrite) = r
  BY Zenon DEF TagsUpdatePolicy
<1>4. GoodCache(Shadowed, c) /\ c.line = s.cache.line
  BY <1>1, TagParameters, TouchGood
<1> HIDE DEF c, o
<1>5. GoodTables(t) /\ t.cache = c /\ t.tags = s.tags
  <2>1. GoodTables(s) /\ GoodCache(Shadowed, c)
    BY <1>1, <1>4
  <2> QED
    BY ZenonT(40), <2>1, <1>2, SetCacheGood
<1> HIDE DEF t
<1>6. (w >= SRAMWays) \in BOOLEAN
  OBVIOUS
<1>7. GoodTables(r) /\ r.cache = t.cache /\ r.tags = t.tags
  BY <1>5, <1>6, UpdateFUcachesGood
<1> HIDE DEF r
<1>8. r.cache.line = s.cache.line /\ r.tags = s.tags
  BY <1>4, <1>5, <1>7
<1>9. TracksSRAM => Missing(r) /\ Unique(r)
  BY <1>8 DEF GoodTags, Missing, Unique
<1> QED
  BY <1>3, <1>7, <1>9 DEF GoodTags

\* The tag a victim gets is the only one it has, for it had none as long as it was
\* in SRAM; and the block that takes its place loses its own.
LEMMA TagsMissGood ==
  ASSUME NEW s, GoodTags(s), NEW b \in Blocks, ~Present(s.cache, b), NEW p \in PCs,
         NEW isFetch \in BOOLEAN, NEW isWrite \in BOOLEAN
  PROVE  GoodTags(TagsMiss(s, b, p, isFetch, isWrite))
<1> DEFINE x == SetOf(Shadowed, b)
           asked == CountAllocation(s, p, isFetch)
           nvm == ChoosesNVM(asked, p, isFetch, isWrite)
           w == Victim(Shadowed, s.cache, x, nvm)
           t == CountEviction(asked, x, w)
           recorded == EvictRecording(t, x, w)
           c == Fill(Shadowed, recorded.cache, b, w, FALSE, FALSE)
           i == [pc |-> p, cost |-> AccessCost(s, isWrite)]
           o == [recorded.origin EXCEPT ![x] = [recorded.origin[x] EXCEPT ![w] = i]]
           f == [recorded EXCEPT !.cache = c, !.origin = o]
           u == UpdateFUcaches(f, b, w >= SRAMWays)
           r == ForgetTags(u, x, w, b)
<1>1. GoodTables(s) /\ s.cache \in Caches(Shadowed) /\ GoodCache(Shadowed, s.cache)
  BY DEF GoodTags, GoodTables, GoodCache
<1>2. TagsMiss(s, b, p, isFetch, isWrite) = r
  BY Zenon DEF TagsMiss
<1>3. GoodTables(asked) /\ asked.cache = s.cache /\ asked.tags = s.tags
  BY <1>1, CountersGood
<1> HIDE DEF asked
<1>4. x \in Sets(Shadowed) /\ nvm \in BOOLEAN
  <2>1. nvm \in BOOLEAN
    BY DEF ChoosesNVM, AllocateInNVM
  <2> QED
    BY <2>1, TagParameters, GeometryFacts
<1> HIDE DEF nvm
<1>5. w \in Ways(Shadowed)
  BY <1>1, <1>4, TagParameters, BothArrays, VictimInArray
<1> HIDE DEF w
<1>6. GoodTables(t) /\ t.cache = s.cache /\ t.tags = s.tags
  BY <1>3, <1>4, <1>5, CountersGood
<1> HIDE DEF t
<1>7. /\ GoodTables(recorded) /\ recorded.cache = s.cache
      /\ ~InTracked(w) => recorded = t
      /\ InTracked(w) => OneMoreTag(t, x, w, recorded)
  BY <1>4, <1>5, <1>6, EvictRecordingGood
<1> HIDE DEF recorded
<1>8. /\ GoodCache(Shadowed, c)
      /\ \A y \in Sets(Shadowed), z \in Ways(Shadowed) :
           /\ (y = x /\ z = w) => c.line[y][z].addr = b
           /\ ~(y = x /\ z = w) => c.line[y][z] = s.cache.line[y][z]
  <2>1. GoodCache(Shadowed, recorded.cache) /\ ~Present(recorded.cache, b)
    BY <1>1, <1>7
  <2>2. Rewritten(recorded.cache, c, b, w)
    BY <1>5, <2>1, FilledLines
  <2>3. GoodCache(Shadowed, c)
    BY <1>5, <2>1, TagParameters, FillGood
  <2> HIDE DEF c
  <2> QED
    BY <1>7, <2>2, <2>3 DEF Rewritten
<1>9. o \in Origins
  <2>1. i \in [pc : PCs, cost : Int]
    BY DEF AccessCost
  <2>2. recorded.origin \in Origins
    BY <1>7 DEF GoodTables, TagRecords
  <2> HIDE DEF i
  <2> QED
    BY <2>1, <2>2 DEF Origins
<1> HIDE DEF c, o
<1>10. GoodTables(f) /\ f.cache = c /\ f.tags = recorded.tags
  <2>1. GoodTables(recorded) /\ GoodCache(Shadowed, c)
    BY <1>7, <1>8
  <2> QED
    BY ZenonT(40), <1>9, <2>1, SetCacheGood
<1>11. u = UpdateFUcaches(f, b, w >= SRAMWays)
  OBVIOUS
<1> HIDE DEF f, u
<1>12. GoodTables(u) /\ u.cache = c /\ u.tags = recorded.tags
  <2>1. (w >= SRAMWays) \in BOOLEAN /\ b \in Addresses
    BY DEF Addresses
  <2> QED
    BY <1>10, <1>11, <2>1, UpdateFUcachesGood
<1>13. /\ GoodTables(r) /\ r.cache = c
       /\ \A y \in Sets(Shadowed), j \in TagSlots :
            /\ r.tags[y][j].addr = recorded.tags[y][j].addr
            /\ r.tags[y][j].valid <=>
                 /\ recorded.tags[y][j].valid
                 /\ ~(w < SRAMWays /\ y = x /\ recorded.tags[y][j].addr = b)
  BY <1>4, <1>5, <1>12, ForgetTagsGood
<1> HIDE DEF r
<1>14. ASSUME TracksSRAM PROVE Missing(r) /\ Unique(r)
  <2>1. Missing(s) /\ Unique(s)
    BY <1>14 DEF GoodTags
  <2>2. InTracked(w) <=> w < SRAMWays
    BY <1>14 DEF InTracked
  <2>3. CASE ~(w < SRAMWays)
    <3>1. recorded.tags = s.tags
      BY <1>6, <1>7, <2>2, <2>3
    <3>2. Unique(r)
      BY <1>13, <2>1, <3>1 DEF Unique
    <3>3. Missing(r)
      BY <1>8, <1>13, <2>1, <2>3, <3>1 DEF Missing
    <3> QED
      BY <3>2, <3>3
  <2>4. CASE w < SRAMWays
    <3> DEFINE old == s.cache.line[x][w]
    <3>0. PICK k : \A y \in Sets(Shadowed), j \in TagSlots :
            recorded.tags[y][j] = IF y = x /\ j = k THEN TagOfLine(t, x, w) ELSE t.tags[y][j]
      <4>1. OneMoreTag(t, x, w, recorded)
        BY <1>7, <2>2, <2>4
      <4> QED
        BY Zenon, <4>1 DEF OneMoreTag
    <3>1. \A y \in Sets(Shadowed), j \in TagSlots :
            recorded.tags[y][j] = IF y = x /\ j = k THEN TagOfLine(t, x, w) ELSE s.tags[y][j]
      BY <1>6, <3>0
    <3>2. TagOfLine(t, x, w).addr = old.addr /\ TagOfLine(t, x, w).valid = old.valid
      BY <1>6 DEF TagOfLine
    <3>3. \A j \in TagSlots : (old.valid /\ s.tags[x][j].valid)
                                 => s.tags[x][j].addr # old.addr
      BY <1>4, <1>5, <2>1, <2>4 DEF Missing
    <3>4. \A z \in Ways(Shadowed) : (z # w /\ old.valid)
            => s.cache.line[x][z].addr # old.addr
      <4>1. old.valid => old.addr \in Blocks
        BY <1>1, <1>4, <1>5 DEF GoodCache, ValidHasAddress, Caches, Lines
      <4> QED
        BY <1>1, <1>4, <1>5, <4>1 DEF GoodCache, TagsAgree
    <3>5. Unique(r)
      <4> SUFFICES ASSUME NEW y \in Sets(Shadowed),
                          NEW i1 \in TagSlots, NEW i2 \in TagSlots,
                          r.tags[y][i1].valid, r.tags[y][i2].valid,
                          r.tags[y][i1].addr = r.tags[y][i2].addr
                   PROVE  i1 = i2
        BY Zenon DEF Unique
      <4>1. /\ recorded.tags[y][i1].valid /\ recorded.tags[y][i2].valid
            /\ recorded.tags[y][i1].addr = recorded.tags[y][i2].addr
        BY <1>13
      <4>2. CASE y # x \/ (i1 # k /\ i2 # k)
        <5>1. recorded.tags[y][i1] = s.tags[y][i1] /\ recorded.tags[y][i2] = s.tags[y][i2]
          BY <3>1, <4>2
        <5> QED
          BY <2>1, <4>1, <5>1 DEF Unique
      <4>3. CASE y = x /\ (i1 = k \/ i2 = k)
        <5>1. \A j \in TagSlots : recorded.tags[x][j] =
                IF j = k THEN TagOfLine(t, x, w) ELSE s.tags[x][j]
          BY <1>4, <3>1
        <5> QED
          BY <3>2, <3>3, <4>1, <4>3, <5>1
      <4> QED
        BY <4>2, <4>3
    <3>6. Missing(r)
      <4> SUFFICES ASSUME NEW y \in Sets(Shadowed), NEW z \in Ways(Shadowed),
                          NEW j \in TagSlots, z < SRAMWays,
                          c.line[y][z].valid, r.tags[y][j].valid
                   PROVE  r.tags[y][j].addr # c.line[y][z].addr
        BY <1>13 DEF Missing
      <4>1. CASE y = x /\ z = w
        BY SMTT(30), <1>8, <1>13, <2>4, <4>1
      <4>2. CASE ~(y = x /\ z = w)
        <5>1. c.line[y][z] = s.cache.line[y][z]
          BY <1>8, <4>2
        <5>2. recorded.tags[y][j].valid /\ r.tags[y][j].addr = recorded.tags[y][j].addr
          BY <1>13
        <5>3. CASE y = x /\ j = k
          BY SMTT(30), <3>1, <3>2, <3>4, <4>2, <5>1, <5>2, <5>3
        <5>4. CASE ~(y = x /\ j = k)
          BY <2>1, <3>1, <5>1, <5>2, <5>4 DEF Missing
        <5> QED
          BY <5>3, <5>4
      <4> QED
        BY <4>1, <4>2
    <3> QED
      BY <3>5, <3>6
  <2> QED
    BY <2>3, <2>4
<1> QED
  BY <1>2, <1>13, <1>14 DEF GoodTags

-----------------------------------------------------------------------------
\* The record of all variables.
TagState == At(cpt_time, request)

TagInv == GoodTags(TagState)

LEMMA TagInitGood == MissingTagsInit => TagInv
<1> SUFFICES ASSUME MissingTagsInit PROVE TagInv
  OBVIOUS
<1> DEFINE s == TagState
<1>1. GoodCache(Shadowed, EmptyCache(Shadowed))
  BY TagParameters, EmptyCacheGood
<1>2. EmptyTag \in Tags /\ ~EmptyTag.valid
  <2>1. EmptyTag \in Tags
    BY TagParameters DEF EmptyTag, Tags
  <2> QED
    BY <2>1 DEF EmptyTag
<1>3. /\ predictor \in Predictors /\ cache = EmptyCache(Shadowed)
      /\ counted \in SUBSET PCs
  BY DEF MissingTagsInit
<1>4. origin \in Origins
  BY TagParameters DEF MissingTagsInit, Origins
<1>5. pcCount \in [PCs -> Nat] /\ lastTouch \in TouchTimes
  BY DEF MissingTagsInit, TouchTimes
<1>6. /\ tags \in TagTables
      /\ \A x \in Sets(Shadowed), i \in TagSlots : ~tags[x][i].valid
  <2> HIDE DEF EmptyTag
  <2> QED
    BY <1>2 DEF MissingTagsInit, TagTables
<1>7. \A n \in BOOLEAN : shadow[n] \in [ShadowSlots(n) -> Tags]
  BY <1>2 DEF MissingTagsInit
<1>8. shadow \in [BOOLEAN -> Shadows]
  <2>1. shadow = [n \in BOOLEAN |-> shadow[n]]
    BY DEF MissingTagsInit
  <2>2. \A n \in BOOLEAN : shadow[n] \in Shadows
    BY <1>7 DEF Shadows
  <2> QED
    BY <2>1, <2>2
<1>9. cpt_time \in Nat /\ request \in Places
  BY DEF MissingTagsInit, Places, WriteBack, Last
<1>10. /\ s.cache = cache /\ s.tags = tags /\ s.shadow = shadow
  BY DEF TagState, At
<1>11. s \in TagRecords
  <2>1. cache \in Caches(Shadowed)
    BY <1>1, <1>3 DEF GoodCache
  <2> QED
    BY <1>3, <1>4, <1>5, <1>6, <1>8, <1>9, <2>1 DEF TagState, At, TagRecords
<1> HIDE DEF s
<1>12. GoodTables(s)
  BY <1>1, <1>3, <1>7, <1>10, <1>11 DEF GoodTables
<1>13. Missing(s) /\ Unique(s)
  BY <1>6, <1>10 DEF Missing, Unique
<1> QED
  BY <1>12, <1>13 DEF TagInv, GoodTags, s

\* The time and the request of the record are free.
LEMMA AtGood ==
  ASSUME TagInv, NEW n \in Nat, NEW q \in Places
  PROVE  GoodTags(At(n, q)) /\ At(n, q).cache = cache
<1> DEFINE s == At(n, q)
<1>1. TagState \in TagRecords /\ GoodTables(TagState)
  BY DEF TagInv, GoodTags, GoodTables
<1>2. s.cache = cache /\ s.tags = tags /\ s.shadow = shadow
  BY DEF At
<1>3. TagState.cache = cache /\ TagState.tags = tags /\ TagState.shadow = shadow
  BY DEF TagState, At
<1>4. s \in TagRecords
  BY <1>1 DEF TagState, At, TagRecords
<1> HIDE DEF s
<1>5. GoodTables(s)
  BY <1>1, <1>2, <1>3, <1>4 DEF GoodTables
<1>6. TracksSRAM => Missing(s) /\ Unique(s)
  BY <1>2, <1>3 DEF TagInv, GoodTags, Missing, Unique
<1> QED
  BY <1>2, <1>5, <1>6 DEF GoodTags, s

LEMMA StatesGood ==
  ASSUME TagInv, NEW q \in Places, NEW s \in States(q)
  PROVE  GoodTags(s) /\ s.cache = cache
<1>1. cpt_time \in Nat
  BY DEF TagInv, GoodTags, GoodTables, TagRecords, TagState, At
<1>2. PICK n \in {cpt_time, cpt_time + 1} : s = At(n, q)
  BY DEF States
<1>3. n \in Nat
  BY <1>1, <1>2
<1> QED
  BY <1>2, <1>3, AtGood

LEMMA HandleAccessGood ==
  ASSUME NEW s, GoodTags(s), NEW b \in Blocks, NEW p \in PCs,
         NEW isFetch \in BOOLEAN, NEW isWrite \in BOOLEAN
  PROVE  GoodTags(TagsHandleAccess(s, b, p, isFetch, isWrite))
<1>1. CASE ~Present(s.cache, b)
  BY <1>1, TagsMissGood DEF TagsHandleAccess
<1>2. CASE Present(s.cache, b)
  <2>1. GoodCache(Shadowed, s.cache)
    BY DEF GoodTags, GoodTables
  <2>2. SetOf(Shadowed, b) \in Sets(Shadowed) /\ s.cache.tag[b] \in Ways(Shadowed)
    BY <1>2, <2>1, TagParameters, IndexedEntry
  <2>3. b \in Addresses
    BY DEF Addresses
  <2> QED
    BY <1>2, <2>2, <2>3, TagsUpdatePolicyGood DEF TagsHandleAccess
<1> QED
  BY <1>1, <1>2

LEMMA TagsBecomeGood ==
  ASSUME NEW s, GoodTags(s), TagsBecome(s)
  PROVE  TagInv'
<1>1. s \in TagRecords
  BY DEF GoodTags, GoodTables
<1>2. TagState' = [predictor |-> s.predictor, cache |-> s.cache, origin |-> s.origin,
              counted |-> s.counted, pcCount |-> s.pcCount, tags |-> s.tags,
              shadow |-> s.shadow, time |-> s.time, request |-> s.request,
              lastTouch |-> s.lastTouch]
  BY DEF TagState, At, TagsBecome
<1>3. TagState' = s
  BY <1>1, <1>2 DEF TagRecords
<1>4. GoodTags(TagState)'
  BY <1>3 DEF GoodTags, GoodTables, Missing, Unique
<1> QED
  BY <1>4 DEF TagInv

LEMMA TagNextGood ==
  ASSUME TagInv, MissingTagsNext
  PROVE  TagInv'
<1>0. /\ WriteBack \in Places /\ Demand \in Places /\ Last \in Places
      /\ request \in {Demand, Prefetched} => request + 1 \in Places
  BY DEF Places, WriteBack, Demand, Prefetched, Last
<1>1. ASSUME NEW b \in InstBlocks, TagsFetch(b)
      PROVE  TagInv'
  <2>1. PICK s \in States(Demand) :
          TagsBecome(TagsHandleAccess(s, b, NoPC, TRUE, FALSE))
    BY <1>1 DEF TagsFetch
  <2>2. GoodTags(s) /\ b \in Blocks /\ NoPC \in PCs
    BY <1>0, StatesGood, TagParameters DEF Blocks
  <2>3. GoodTags(TagsHandleAccess(s, b, NoPC, TRUE, FALSE))
    BY <2>2, HandleAccessGood
  <2> QED
    BY <2>1, <2>3, TagsBecomeGood
<1>2. ASSUME NEW b \in DataBlocks, NEW p \in PCs, NEW isWrite \in BOOLEAN,
             TagsAccess(b, p, isWrite)
      PROVE  TagInv'
  <2>1. PICK s \in States(Demand) :
          TagsBecome(TagsHandleAccess(s, b, p, FALSE, isWrite))
    BY <1>2 DEF TagsAccess
  <2>2. GoodTags(s) /\ b \in Blocks
    BY <1>0, StatesGood DEF Blocks
  <2>3. GoodTags(TagsHandleAccess(s, b, p, FALSE, isWrite))
    BY <2>2, HandleAccessGood
  <2> QED
    BY <2>1, <2>3, TagsBecomeGood
<1>3. ASSUME NEW b \in Blocks, TagsPrefetch(b)
      PROVE  TagInv'
  <2> DEFINE s == At(cpt_time, request + 1)
  <2>1. PICK isFetch \in BOOLEAN :
          TagsBecome(TagsHandleAccess(s, b, NoPC, isFetch, FALSE))
    BY <1>3 DEF TagsPrefetch
  <2>2. cpt_time \in Nat
    BY DEF TagInv, GoodTags, GoodTables, TagRecords, TagState, At
  <2>3. request + 1 \in Places
    BY <1>0, <1>3 DEF TagsPrefetch
  <2>4. GoodTags(s) /\ NoPC \in PCs
    BY <2>2, <2>3, AtGood, TagParameters
  <2> HIDE DEF s
  <2>5. GoodTags(TagsHandleAccess(s, b, NoPC, isFetch, FALSE))
    BY <2>4, HandleAccessGood
  <2> QED
    BY <2>1, <2>5, TagsBecomeGood
<1>4. ASSUME NEW b \in DataBlocks, TagsWriteBack(b)
      PROVE  TagInv'
  <2>1. PICK s \in States(WriteBack) \cup {At(cpt_time, Last)} :
          TagsBecome(TagsUpdatePolicy(s, SetOf(Shadowed, b), cache.tag[b], NoBlock,
                                      TRUE))
    BY <1>4 DEF TagsWriteBack
  <2>2. GoodTags(s) /\ s.cache = cache /\ b \in Blocks /\ Present(cache, b)
    <3>1. cpt_time \in Nat
      BY DEF TagInv, GoodTags, GoodTables, TagRecords, TagState, At
    <3> QED
      BY <1>0, <1>4, <2>1, <3>1, StatesGood, AtGood DEF Blocks, TagsWriteBack
  <2>3. SetOf(Shadowed, b) \in Sets(Shadowed) /\ cache.tag[b] \in Ways(Shadowed)
    BY <2>2, TagParameters, IndexedEntry DEF GoodTags, GoodTables
  <2>4. GoodTags(TagsUpdatePolicy(s, SetOf(Shadowed, b), cache.tag[b], NoBlock, TRUE))
    BY <2>2, <2>3, TagParameters, TagsUpdatePolicyGood
  <2> QED
    BY <2>1, <2>4, TagsBecomeGood
<1> QED
  BY <1>1, <1>2, <1>3, <1>4 DEF MissingTagsNext

LEMMA TagInductive == MissingTagsSpec => []TagInv
<1>1. TagInv /\ [MissingTagsNext]_tagsVars => TagInv'
  <2> SUFFICES ASSUME TagInv, [MissingTagsNext]_tagsVars PROVE TagInv'
    OBVIOUS
  <2>1. CASE MissingTagsNext
    BY <2>1, TagNextGood
  <2>2. CASE UNCHANGED tagsVars
    BY <2>2 DEF tagsVars, TagInv, GoodTags, GoodTables, Missing, Unique, TagState, At
  <2> QED
    BY <2>1, <2>2
<1> QED
  BY <1>1, TagInitGood, PTL DEF MissingTagsSpec

-----------------------------------------------------------------------------
\* Tags, shadows and counters keep their types: a counter of InstructionPredictor
\* is never negative, however many of the instruction's lines are evicted.
THEOREM MissingTagsTypeCorrect == MissingTagsSpec => []MissingTagsTypeOK
<1>1. TagInv => MissingTagsTypeOK
  <2> SUFFICES ASSUME TagInv PROVE MissingTagsTypeOK
    OBVIOUS
  <2>1. TagState \in TagRecords /\ GoodTables(TagState)
    BY DEF TagInv, GoodTags, GoodTables
  <2>2. /\ predictor \in Predictors /\ cache \in Caches(Shadowed)
        /\ origin \in Origins /\ counted \in SUBSET PCs /\ pcCount \in [PCs -> Nat]
        /\ tags \in TagTables /\ shadow \in [BOOLEAN -> Shadows]
        /\ cpt_time \in Nat /\ request \in Places
        /\ lastTouch \in TouchTimes
    BY <2>1 DEF TagRecords, TagState, At
  <2>3. \A n \in BOOLEAN : shadow[n] \in [ShadowSlots(n) -> Tags]
    BY <2>1 DEF GoodTables, TagState, At
  <2> QED
    BY <2>2, <2>3 DEF MissingTagsTypeOK, Origins, TagTables, TouchTimes
<1> QED
  BY <1>1, TagInductive, PTL

\* With no more SRAM than NVM, as shipped, a miss is never taken for an error
\* because of a tag of a block that was back in between.
THEOREM MissingTagsAlwaysMissing ==
  TracksSRAM => (MissingTagsSpec => []MissingTagsAreMissing)
<1> SUFFICES ASSUME TracksSRAM PROVE MissingTagsSpec => []MissingTagsAreMissing
  OBVIOUS
<1>1. TagInv => MissingTagsAreMissing
  BY DEF TagInv, GoodTags, Missing, TagState, At, MissingTagsAreMissing, IsMissingTag,
         InTracked
<1> QED
  BY <1>1, TagInductive, PTL

\* No block has two missing tags, however many tags a set has and in whatever
\* order they are replaced.
THEOREM MissingTagsAlwaysUnique == MissingTagsSpec => []MissingTagsAreUnique
<1>1. TagInv => MissingTagsAreUnique
  BY DEF TagInv, GoodTags, Unique, TagState, At, MissingTagsAreUnique
<1> QED
  BY <1>1, TagInductive, PTL

-----------------------------------------------------------------------------
(***************************************************************************)
(* The shadows.  A shadow e with the slots S, of addresses last given at    *)
(* the times l, at the time now.                                           *)
(***************************************************************************)
\* A valid entry has the time its address was last given, one that is not has no
\* address; no address has two, and address 0 only has a valid one in a full
\* shadow; a block that was given and has none was given before any that has.
Faithful(S, e, l, now) ==
  /\ IsFiniteSet({a \in Addresses : l[a] >= 0})
  /\ \A a \in Addresses : l[a] <= now
  /\ \A i \in S :
       /\ e[i].time <= now
       /\ e[i].valid => l[e[i].addr] = e[i].time
       /\ ~e[i].valid => e[i].addr = NoBlock
       /\ e[i].valid /\ e[i].addr = NoBlock => \A j \in S : e[j].valid
  /\ \A i, j \in S : e[i].valid /\ e[j].valid /\ e[i].addr = e[j].addr => i = j
  /\ \A b \in Blocks : l[b] >= 0 =>
       \/ \E i \in S : e[i].addr = b
       \/ \A i \in S : e[i].valid /\ e[i].time >= l[b]

\* A shadow has at least one slot.
LEMMA ShadowSlotsAre ==
  ASSUME NEW inNVM \in BOOLEAN
  PROVE  \E n \in Nat \ {0} : ShadowSlots(inNVM) = 1 .. n
<1> DEFINE ways == IF inNVM THEN NVMWays ELSE SRAMWays
<1>1. ways \in Nat \ {0} /\ NbSets \in Nat \ {0}
  BY TagParameters DEF Shadowed, Geometries
<1> HIDE DEF ways
<1>2. NbSets * ways \in Nat \ {0}
  <2>1. NbSets * ways >= NbSets
    BY Z3, <1>1
  <2>2. NbSets * ways \in Nat
    BY <1>1
  <2> QED
    BY <1>1, <2>1, <2>2
<1>3. ShadowSlots(inNVM) = 1 .. (NbSets * ways)
  BY DEF ShadowSlots, ways
<1> QED
  BY <1>2, <1>3

\* What the search for an entry to give up finds: one that is not valid, or the
\* oldest.
LEMMA ReplacedIsOldest ==
  ASSUME NEW n \in Nat \ {0}, NEW e \in [1 .. n -> Tags]
  PROVE  LET i == Replaced(e)
         IN /\ i \in 1 .. n
            /\ e[i].valid => \A j \in 1 .. n : e[j].valid /\ e[i].time <= e[j].time
<1> DEFINE S == 1 .. n
           free == {i \in DOMAIN e : ~e[i].valid}
           Before(i, j) == \/ e[i].time < e[j].time
                           \/ e[i].time = e[j].time /\ i <= j
           times == {e[i].time : i \in S}
<1>1. DOMAIN e = S /\ 1 \in S /\ S \subseteq Nat
  OBVIOUS
<1>2. \A i \in S : e[i].time \in Nat
  BY DEF Tags
<1>3. CASE free # {}
  <2>1. free \in SUBSET Nat
    BY <1>1
  <2>2. \E i \in free : \A j \in free : i <= j
    BY <1>3, <2>1, LeastExists
  <2>3. Replaced(e) = CHOOSE i \in free : \A j \in free : i <= j
    BY <1>3 DEF Replaced
  <2>4. Replaced(e) \in free
    BY <2>2, <2>3
  <2> QED
    BY <1>1, <2>4
<1>4. CASE free = {}
  <2>1. times \in SUBSET Nat /\ times # {}
    BY <1>1, <1>2
  <2>2. PICK t \in times : \A u \in times : t <= u
    BY <2>1, LeastExists
  <2> DEFINE oldest == {i \in S : e[i].time = t}
  <2>3. oldest \in SUBSET Nat /\ oldest # {}
    BY <1>1, <2>2
  <2>4. PICK i \in oldest : \A j \in oldest : i <= j
    BY <2>3, LeastExists
  <2>5. \A j \in DOMAIN e : Before(i, j)
    <3> SUFFICES ASSUME NEW j \in S PROVE Before(i, j)
      BY <1>1
    <3>1. e[i].time = t /\ t <= e[j].time
      BY <2>2, <2>4
    <3>2. CASE e[j].time = t
      BY <2>4, <3>1, <3>2
    <3>3. CASE e[j].time # t
      BY <1>2, <2>4, <3>1, <3>3
    <3> QED
      BY <3>2, <3>3
  <2>6. Replaced(e) = CHOOSE k \in DOMAIN e : \A j \in DOMAIN e : Before(k, j)
    BY <1>4 DEF Replaced
  <2>7. i \in DOMAIN e
    BY <1>1, <2>4
  <2>8. Replaced(e) \in DOMAIN e /\ \A j \in DOMAIN e : Before(Replaced(e), j)
    <3> HIDE DEF Before
    <3> QED
      BY <2>5, <2>6, <2>7
  <2>9. \A j \in S : e[j].valid
    BY <1>1, <1>4
  <2>10. \A j \in S : e[Replaced(e)].time <= e[j].time
    BY <1>1, <1>2, <2>8
  <2> QED
    BY <1>1, <2>8, <2>9, <2>10
<1> QED
  BY <1>3, <1>4

\* Time may pass.
LEMMA FaithfulLater ==
  ASSUME NEW S, NEW e \in [S -> Tags], NEW l \in [Addresses -> Nat \cup {-1}],
         NEW now \in Nat, Faithful(S, e, l, now), NEW later \in Nat, now <= later
  PROVE  Faithful(S, e, l, later)
<1>1. \A a \in Addresses : l[a] \in Int
  OBVIOUS
<1>2. \A i \in S : e[i].time \in Int
  BY DEF Tags
<1> QED
  BY <1>1, <1>2 DEF Faithful

\* The address is found: its entry gets the time.
LEMMA FaithfulFound ==
  ASSUME NEW S, NEW e \in [S -> Tags], NEW l \in [Addresses -> Nat \cup {-1}],
         NEW now \in Nat, Faithful(S, e, l, now),
         NEW i \in S, NEW a \in Addresses, e[i].addr = a
  PROVE  Faithful(S, [e EXCEPT ![i].time = now], [l EXCEPT ![a] = now], now)
<1> DEFINE f == [e EXCEPT ![i].time = now]
           m == [l EXCEPT ![a] = now]
<1>1. \A j \in S : /\ f[j].addr = e[j].addr /\ f[j].valid = e[j].valid
                   /\ f[j].time = IF j = i THEN now ELSE e[j].time
  BY DEF Tags
<1>2. \A x \in Addresses : m[x] = IF x = a THEN now ELSE l[x]
  OBVIOUS
<1>3. /\ \A x \in Addresses : l[x] \in Int
      /\ \A j \in S : e[j].time \in Int /\ e[j].addr \in Addresses
      /\ Blocks \subseteq Addresses
  BY TagParameters DEF Tags
<1> HIDE DEF f, m
<1>4. IsFiniteSet({x \in Addresses : m[x] >= 0})
  <2> DEFINE T == {x \in Addresses : l[x] >= 0}
  <2>1. IsFiniteSet(T \cup {a})
    BY FS_AddElement DEF Faithful
  <2>2. {x \in Addresses : m[x] >= 0} \in SUBSET (T \cup {a})
    BY <1>2
  <2> HIDE DEF T
  <2> QED
    BY <2>1, <2>2, FS_Subset
<1>5. \A x \in Addresses : m[x] <= now
  BY <1>2, <1>3 DEF Faithful
<1>6. ASSUME NEW j \in S
      PROVE  /\ f[j].time <= now
             /\ f[j].valid => m[f[j].addr] = f[j].time
             /\ ~f[j].valid => f[j].addr = NoBlock
             /\ f[j].valid /\ f[j].addr = NoBlock => \A k \in S : f[k].valid
  <2>1. f[j].time <= now
    BY <1>1, <1>3 DEF Faithful
  <2>2. ASSUME f[j].valid PROVE m[f[j].addr] = f[j].time
    <3>1. CASE j = i
      BY <1>1, <1>2, <3>1
    <3>2. CASE j # i
      <4>1. e[j].addr # a
        <5>1. CASE e[i].valid
          BY <1>1, <2>2, <3>2, <5>1 DEF Faithful
        <5>2. CASE ~e[i].valid
          BY <1>1, <2>2, <5>2 DEF Faithful
        <5> QED
          BY <5>1, <5>2
      <4> QED
        BY <1>1, <1>2, <1>3, <2>2, <3>2, <4>1 DEF Faithful
    <3> QED
      BY <3>1, <3>2
  <2> QED
    BY <1>1, <2>1, <2>2 DEF Faithful
<1>7. \A j, k \in S : f[j].valid /\ f[k].valid /\ f[j].addr = f[k].addr => j = k
  BY <1>1 DEF Faithful
<1>8. ASSUME NEW b \in Blocks, m[b] >= 0
      PROVE  \/ \E j \in S : f[j].addr = b
             \/ \A j \in S : f[j].valid /\ f[j].time >= m[b]
  <2>1. CASE b = a
    BY <1>1, <2>1
  <2>2. CASE b # a
    <3>1. m[b] = l[b]
      BY <1>2, <1>3, <2>2
    <3>2. \/ \E j \in S : e[j].addr = b
          \/ \A j \in S : e[j].valid /\ e[j].time >= l[b]
      BY <1>8, <3>1 DEF Faithful
    <3>3. l[b] <= now /\ l[b] \in Int
      BY <1>3 DEF Faithful
    <3> QED
      BY <1>1, <3>1, <3>2, <3>3
  <2> QED
    BY <2>1, <2>2
<1>9. Faithful(S, f, m, now)
  BY <1>4, <1>5, <1>6, <1>7, <1>8 DEF Faithful
<1> QED
  BY <1>9 DEF f, m

\* The address is not found: it takes the entry that is given up.
LEMMA FaithfulReplaced ==
  ASSUME NEW n \in Nat \ {0}, NEW e \in [1 .. n -> Tags],
         NEW l \in [Addresses -> Nat \cup {-1}],
         NEW now \in Nat, Faithful(1 .. n, e, l, now), NEW a \in Addresses,
         \A j \in 1 .. n : e[j].addr # a
  PROVE  Faithful(1 .. n,
                  [e EXCEPT ![Replaced(e)] = [addr |-> a, valid |-> TRUE,
                                              time |-> now]],
                  [l EXCEPT ![a] = now], now)
<1> DEFINE S == 1 .. n
           i == Replaced(e)
           new == [addr |-> a, valid |-> TRUE, time |-> now]
           f == [e EXCEPT ![i] = new]
           m == [l EXCEPT ![a] = now]
<1>1. i \in S /\ (e[i].valid => \A j \in S : e[j].valid /\ e[i].time <= e[j].time)
  BY ReplacedIsOldest
<1> HIDE DEF i
<1>2. \A j \in S : f[j] = IF j = i THEN new ELSE e[j]
  OBVIOUS
<1>3. \A x \in Addresses : m[x] = IF x = a THEN now ELSE l[x]
  OBVIOUS
<1>4. /\ \A x \in Addresses : l[x] \in Int
      /\ \A j \in S : e[j].time \in Int /\ e[j].addr \in Addresses
                      /\ e[j].valid \in BOOLEAN
      /\ Blocks \subseteq Addresses
      /\ new.addr = a /\ new.valid = TRUE /\ new.time = now
  BY TagParameters DEF Tags
<1>5. \A j \in S : e[j].addr # a
  OBVIOUS
<1>6. Faithful(S, e, l, now)
  OBVIOUS
<1> HIDE DEF f, m, S, new
<1>7. IsFiniteSet({x \in Addresses : m[x] >= 0})
  <2> DEFINE T == {x \in Addresses : l[x] >= 0}
  <2>1. IsFiniteSet(T \cup {a})
    BY <1>6, FS_AddElement DEF Faithful
  <2>2. {x \in Addresses : m[x] >= 0} \in SUBSET (T \cup {a})
    BY <1>3
  <2> HIDE DEF T
  <2> QED
    BY <2>1, <2>2, FS_Subset
<1>8. \A x \in Addresses : m[x] <= now
  BY <1>3, <1>4, <1>6 DEF Faithful
<1>9. ASSUME NEW j \in S
      PROVE  /\ f[j].time <= now
             /\ f[j].valid => m[f[j].addr] = f[j].time
             /\ ~f[j].valid => f[j].addr = NoBlock
             /\ f[j].valid /\ f[j].addr = NoBlock => \A k \in S : f[k].valid
  <2>1. CASE j = i
    <3>1. ASSUME a = NoBlock, NEW k \in S PROVE f[k].valid
      BY <1>2, <1>4, <1>5, <1>6, <3>1 DEF Faithful
    <3> QED
      BY <1>2, <1>3, <1>4, <2>1, <3>1
  <2>2. CASE j # i
    <3>1. f[j] = e[j] /\ e[j].addr # a
      BY <1>2, <1>5, <2>2
    <3>2. f[j].valid => m[f[j].addr] = f[j].time
      BY <1>3, <1>4, <1>6, <3>1 DEF Faithful
    <3>3. f[j].valid /\ f[j].addr = NoBlock => \A k \in S : f[k].valid
      BY <1>2, <1>4, <1>6, <3>1 DEF Faithful
    <3> QED
      BY <1>6, <3>1, <3>2, <3>3 DEF Faithful
  <2> QED
    BY <2>1, <2>2
<1>10. ASSUME NEW j \in S, NEW k \in S,
              f[j].valid, f[k].valid, f[j].addr = f[k].addr
       PROVE  j = k
  <2>1. CASE j = i \/ k = i
    BY <1>2, <1>4, <1>5, <1>10, <2>1
  <2>2. CASE j # i /\ k # i
    BY <1>2, <1>6, <1>10, <2>2 DEF Faithful
  <2> QED
    BY <2>1, <2>2
<1>11. ASSUME NEW b \in Blocks, m[b] >= 0
       PROVE  \/ \E j \in S : f[j].addr = b
              \/ \A j \in S : f[j].valid /\ f[j].time >= m[b]
  <2>1. CASE b = a
    BY <1>1, <1>2, <1>4, <2>1
  <2>2. CASE b # a
    <3>1. m[b] = l[b] /\ l[b] <= now /\ b \in Addresses /\ b # NoBlock
      <4>1. b # NoBlock
        BY TagParameters, GeometryFacts
      <4> QED
        BY <1>3, <1>4, <1>6, <2>2, <4>1 DEF Faithful
    <3>2. \/ \E j \in S : e[j].addr = b
          \/ \A j \in S : e[j].valid /\ e[j].time >= l[b]
      BY <1>6, <1>11, <3>1 DEF Faithful
    <3>3. CASE \A j \in S : e[j].valid /\ e[j].time >= l[b]
      BY <1>2, <1>4, <3>1, <3>3
    <3>4. CASE \E j \in S : j # i /\ e[j].addr = b
      BY <1>2, <3>4
    <3>5. CASE e[i].addr = b
      <4>1. e[i].valid /\ e[i].time = l[b]
        BY <1>1, <1>6, <3>1, <3>5 DEF Faithful
      <4>2. \A j \in S : e[j].valid /\ l[b] <= e[j].time
        BY <1>1, <4>1
      <4> QED
        BY <1>2, <1>4, <3>1, <4>2
    <3> QED
      BY <3>2, <3>3, <3>4, <3>5
  <2> QED
    BY <2>1, <2>2
<1>12. Faithful(S, f, m, now)
  BY <1>7, <1>8, <1>9, <1>10, <1>11 DEF Faithful
<1> QED
  BY <1>12 DEF f, m, S, new, i

\* What a handler leaves alone that does not look at the shadows.
KeepsShadows(s, r) ==
  r.shadow = s.shadow /\ r.lastTouch = s.lastTouch /\ r.time = s.time

FaithfulShadows(s) ==
  \A inNVM \in BOOLEAN :
    Faithful(ShadowSlots(inNVM), s.shadow[inNVM], s.lastTouch[inNVM], s.time)

LEMMA KeptShadows ==
  ASSUME NEW s, NEW r, FaithfulShadows(s), KeepsShadows(s, r)
  PROVE  FaithfulShadows(r)
BY DEF FaithfulShadows, KeepsShadows

\* updateFUcaches keeps both shadows faithful.
LEMMA UpdateFUcachesFaithful ==
  ASSUME NEW s, GoodTables(s), FaithfulShadows(s), NEW a \in Addresses,
         NEW inNVM \in BOOLEAN
  PROVE  FaithfulShadows(UpdateFUcaches(s, a, inNVM))
<1> DEFINE e == s.shadow[inNVM]
           l == s.lastTouch[inNVM]
           found == {i \in DOMAIN e : e[i].addr = a}
           first == CHOOSE i \in found : \A j \in found : i <= j
           m == [l EXCEPT ![a] = s.time]
           noted == [s EXCEPT !.lastTouch[inNVM][a] = s.time]
           new == [addr |-> a, valid |-> TRUE, time |-> s.time]
           refreshed == [noted EXCEPT !.shadow[inNVM][first].time = s.time]
           replaced == [noted EXCEPT !.shadow[inNVM][Replaced(e)] = new]
<1>1. /\ s \in TagRecords /\ s.time \in Nat
      /\ l \in [Addresses -> Nat \cup {-1}]
      /\ e \in [ShadowSlots(inNVM) -> Tags]
      /\ s.shadow \in [BOOLEAN -> Shadows] /\ s.lastTouch \in TouchTimes
  BY DEF GoodTables, TagRecords, TouchTimes
<1>2. UpdateFUcaches(s, a, inNVM) =
        IF ~SimulateConflicts(s) THEN s
        ELSE IF found # {} THEN refreshed ELSE replaced
  BY Zenon DEF UpdateFUcaches
<1>3. PICK n \in Nat \ {0} : ShadowSlots(inNVM) = 1 .. n
  BY ShadowSlotsAre
<1>4. Faithful(1 .. n, e, l, s.time)
  BY <1>3 DEF FaithfulShadows
<1> HIDE DEF first
<1>5. ASSUME NEW i, NEW x, NEW r, NEW d,
             d = [e EXCEPT ![i] = x], Faithful(1 .. n, d, m, s.time),
             r = [s EXCEPT !.lastTouch[inNVM][a] = s.time, !.shadow[inNVM][i] = x]
      PROVE  FaithfulShadows(r)
  <2>1. /\ r.shadow = [s.shadow EXCEPT ![inNVM] = d]
        /\ r.lastTouch = [s.lastTouch EXCEPT ![inNVM] = m]
        /\ r.time = s.time
    <3>1. r = [s EXCEPT !.lastTouch = [s.lastTouch EXCEPT ![inNVM] = m],
                        !.shadow = [s.shadow EXCEPT ![inNVM] = d]]
      BY Zenon, <1>5
    <3> DEFINE lt == [s.lastTouch EXCEPT ![inNVM] = m]
               sh == [s.shadow EXCEPT ![inNVM] = d]
    <3>2. r = [s EXCEPT !.lastTouch = lt, !.shadow = sh]
      BY <3>1
    <3> HIDE DEF lt, sh
    <3>3. r.shadow = sh /\ r.lastTouch = lt /\ r.time = s.time
      BY <1>1, <3>2 DEF TagRecords
    <3> QED
      BY <3>3 DEF lt, sh
  <2> HIDE DEF e, l, m
  <2>2. ASSUME NEW k \in BOOLEAN
        PROVE  /\ r.shadow[k] = IF k = inNVM THEN d ELSE s.shadow[k]
               /\ r.lastTouch[k] = IF k = inNVM THEN m ELSE s.lastTouch[k]
    BY <1>1, <2>1 DEF TouchTimes
  <2>3. ASSUME NEW k \in BOOLEAN
        PROVE  Faithful(ShadowSlots(k), r.shadow[k], r.lastTouch[k], r.time)
    <3>1. CASE k = inNVM
      BY <1>3, <1>5, <2>1, <2>2, <3>1
    <3>2. CASE k # inNVM
      BY <2>1, <2>2, <3>2 DEF FaithfulShadows
    <3> QED
      BY <3>1, <3>2
  <2> QED
    BY <2>3 DEF FaithfulShadows
<1>9. noted.shadow = s.shadow
  <2> DEFINE lt == [s.lastTouch EXCEPT ![inNVM] = m]
  <2>1. noted = [s EXCEPT !.lastTouch = lt]
    BY Zenon
  <2> HIDE DEF lt, noted
  <2> QED
    BY <1>1, <2>1 DEF TagRecords
<1>6. CASE ~SimulateConflicts(s)
  BY <1>2, <1>6
<1>7. CASE SimulateConflicts(s) /\ found # {}
  <2>1. found \in SUBSET Nat
    BY <1>1, <1>3
  <2>2. \E i \in found : \A j \in found : i <= j
    BY <1>7, <2>1, LeastExists
  <2>3. first \in found
    BY <2>2 DEF first
  <2>4. first \in 1 .. n /\ e[first].addr = a
    BY <1>1, <1>3, <2>3
  <2> DEFINE x == [e[first] EXCEPT !.time = s.time]
             d == [e EXCEPT ![first] = x]
  <2>5. d = [e EXCEPT ![first].time = s.time]
    BY Zenon
  <2>6. Faithful(1 .. n, [e EXCEPT ![first].time = s.time], m, s.time)
    <3> HIDE DEF e, l
    <3> QED
      BY <1>1, <1>3, <1>4, <2>4, FaithfulFound
  <2>7. refreshed = [s EXCEPT !.lastTouch[inNVM][a] = s.time,
                              !.shadow[inNVM][first] = x]
    <3> DEFINE y == [noted.shadow[inNVM][first] EXCEPT !.time = s.time]
    <3>1. refreshed = [noted EXCEPT !.shadow[inNVM][first] = y]
      <4> HIDE DEF noted
      <4> QED
        BY Zenon
    <3>2. y = x
      <4> HIDE DEF noted
      <4> QED
        BY Zenon, <1>9
    <3> HIDE DEF x, y, refreshed
    <3> QED
      BY Zenon, <3>1, <3>2
  <2> HIDE DEF x, d, e, l, m, refreshed, found
  <2> QED
    BY <1>2, <1>5, <1>7, <2>5, <2>6, <2>7 DEF d
<1>8. CASE SimulateConflicts(s) /\ found = {}
  <2> DEFINE i == Replaced(e)
             d == [e EXCEPT ![i] = new]
  <2>1. \A j \in 1 .. n : e[j].addr # a
    BY <1>1, <1>3, <1>8
  <2>2. Faithful(1 .. n, d, m, s.time)
    <3> HIDE DEF e, l
    <3> QED
      BY <1>1, <1>3, <1>4, <2>1, FaithfulReplaced
  <2>3. replaced = [s EXCEPT !.lastTouch[inNVM][a] = s.time,
                             !.shadow[inNVM][i] = new]
    BY Zenon
  <2> HIDE DEF i, d, e, l, m, replaced, found, new
  <2> QED
    BY <1>2, <1>5, <1>8, <2>2, <2>3 DEF d
<1> QED
  BY <1>6, <1>7, <1>8

\* The other parts of a handler do not look at the shadows.
LEMMA OthersKeepShadows ==
  ASSUME NEW s, s \in TagRecords
  PROVE  /\ \A c, o : KeepsShadows(s, [s EXCEPT !.cache = c, !.origin = o])
         /\ \A p, isFetch : KeepsShadows(s, CountAllocation(s, p, isFetch))
         /\ \A x, w : KeepsShadows(s, CountEviction(s, x, w))
         /\ \A x, w : KeepsShadows(s, EvictRecording(s, x, w))
         /\ \A x, w, b : KeepsShadows(s, ForgetTags(s, x, w, b))
<1>1. s = [predictor |-> s.predictor, cache |-> s.cache, origin |-> s.origin,
           counted |-> s.counted, pcCount |-> s.pcCount, tags |-> s.tags,
           shadow |-> s.shadow, time |-> s.time, request |-> s.request,
           lastTouch |-> s.lastTouch]
  BY DEF TagRecords
<1>2. /\ \A c, o : KeepsShadows(s, [s EXCEPT !.cache = c, !.origin = o])
      /\ \A k, n : KeepsShadows(s, [s EXCEPT !.counted = k, !.pcCount = n])
      /\ \A t : KeepsShadows(s, [s EXCEPT !.tags = t])
      /\ KeepsShadows(s, s)
  BY <1>1 DEF KeepsShadows
<1>3. \A p, isFetch : KeepsShadows(s, CountAllocation(s, p, isFetch))
  BY Zenon, <1>2 DEF CountAllocation
<1>4. ASSUME NEW x, NEW w PROVE KeepsShadows(s, CountEviction(s, x, w))
  <2> DEFINE p == s.origin[x][w].pc
             up == s.origin[x][w].cost >= CostThreshold
             c == s.counted \cup {p}
             n == [s.pcCount EXCEPT ![p] = IF up THEN @ + 1
                                           ELSE IF @ > 0 THEN @ - 1 ELSE 0]
  <2>1. \/ CountEviction(s, x, w) = s
        \/ CountEviction(s, x, w) = [s EXCEPT !.counted = c, !.pcCount = n]
    BY Zenon DEF CountEviction
  <2> HIDE DEF c, n
  <2> DEFINE r == [s EXCEPT !.counted = c, !.pcCount = n]
  <2>2. KeepsShadows(s, r) /\ KeepsShadows(s, s)
    BY <1>2
  <2>3. CountEviction(s, x, w) = s \/ CountEviction(s, x, w) = r
    BY <2>1
  <2> HIDE DEF r
  <2> QED
    BY <2>2, <2>3
<1>5. \A x, w : KeepsShadows(s, EvictRecording(s, x, w))
  BY Zenon, <1>2 DEF EvictRecording
<1>6. ASSUME NEW x, NEW w, NEW b PROVE KeepsShadows(s, ForgetTags(s, x, w, b))
  <2> DEFINE f == [i \in TagSlots |->
                     IF s.tags[x][i].addr = b
                     THEN [s.tags[x][i] EXCEPT !.valid = FALSE]
                     ELSE s.tags[x][i]]
             t == [s.tags EXCEPT ![x] = f]
  <2>1. \/ ForgetTags(s, x, w, b) = s
        \/ ForgetTags(s, x, w, b) = [s EXCEPT !.tags = t]
    BY Zenon DEF ForgetTags
  <2> HIDE DEF t
  <2> QED
    BY Zenon, <1>2, <2>1
<1> QED
  BY <1>2, <1>3, <1>4, <1>5, <1>6

\* A hit, and the write back of a block.
LEMMA TagsUpdatePolicyFaithful ==
  ASSUME NEW s, GoodTags(s), FaithfulShadows(s), NEW x \in Sets(Shadowed),
         NEW w \in Ways(Shadowed), NEW a \in Addresses, NEW isWrite \in BOOLEAN
  PROVE  FaithfulShadows(TagsUpdatePolicy(s, x, w, a, isWrite))
<1> DEFINE c == Touch(Shadowed, s.cache, x, w)
           i == [s.origin[x][w] EXCEPT !.cost = @ + AccessCost(s, isWrite)]
           o == [s.origin EXCEPT ![x] = [s.origin[x] EXCEPT ![w] = i]]
           t == [s EXCEPT !.cache = c, !.origin = o]
<1>1. GoodTables(s) /\ s.origin \in Origins /\ GoodCache(Shadowed, s.cache)
      /\ s \in TagRecords
  BY DEF GoodTags, GoodTables, TagRecords
<1>2. o \in Origins
  <2>1. AccessCost(s, isWrite) \in Int
    BY DEF AccessCost
  <2>2. i \in [pc : PCs, cost : Int]
    BY <1>1, <2>1 DEF Origins
  <2> HIDE DEF i
  <2> QED
    BY <1>1, <2>2 DEF Origins
<1>3. TagsUpdatePolicy(s, x, w, a, isWrite) = UpdateFUcaches(t, a, w >= SRAMWays)
  BY Zenon DEF TagsUpdatePolicy
<1>4. GoodCache(Shadowed, c)
  BY <1>1, TagParameters, TouchGood
<1> HIDE DEF c, o
<1>5. GoodTables(t) /\ FaithfulShadows(t)
  <2>1. KeepsShadows(s, t)
    BY <1>1, OthersKeepShadows
  <2>2. GoodTables(t)
    BY ZenonT(40), <1>1, <1>2, <1>4, SetCacheGood
  <2> HIDE DEF t
  <2> QED
    BY <2>1, <2>2, KeptShadows
<1> HIDE DEF t
<1>6. (w >= SRAMWays) \in BOOLEAN
  OBVIOUS
<1> QED
  BY <1>3, <1>5, <1>6, UpdateFUcachesFaithful

\* A miss: only the fill gives the shadows an address.
LEMMA TagsMissFaithful ==
  ASSUME NEW s, GoodTags(s), FaithfulShadows(s), NEW b \in Blocks,
         ~Present(s.cache, b), NEW p \in PCs, NEW isFetch \in BOOLEAN,
         NEW isWrite \in BOOLEAN
  PROVE  FaithfulShadows(TagsMiss(s, b, p, isFetch, isWrite))
<1> DEFINE x == SetOf(Shadowed, b)
           asked == CountAllocation(s, p, isFetch)
           nvm == ChoosesNVM(asked, p, isFetch, isWrite)
           w == Victim(Shadowed, s.cache, x, nvm)
           t == CountEviction(asked, x, w)
           recorded == EvictRecording(t, x, w)
           c == Fill(Shadowed, recorded.cache, b, w, FALSE, FALSE)
           i == [pc |-> p, cost |-> AccessCost(s, isWrite)]
           o == [recorded.origin EXCEPT ![x] = [recorded.origin[x] EXCEPT ![w] = i]]
           f == [recorded EXCEPT !.cache = c, !.origin = o]
           u == UpdateFUcaches(f, b, w >= SRAMWays)
           r == ForgetTags(u, x, w, b)
<1>1. /\ GoodTables(s) /\ s \in TagRecords
      /\ s.cache \in Caches(Shadowed) /\ GoodCache(Shadowed, s.cache)
  BY DEF GoodTags, GoodTables, GoodCache
<1>2. TagsMiss(s, b, p, isFetch, isWrite) = r
  BY Zenon DEF TagsMiss
<1>3. GoodTables(asked) /\ asked.cache = s.cache /\ KeepsShadows(s, asked)
  BY <1>1, CountersGood, OthersKeepShadows
<1> HIDE DEF asked
<1>4. x \in Sets(Shadowed) /\ nvm \in BOOLEAN
  <2>1. nvm \in BOOLEAN
    BY DEF ChoosesNVM, AllocateInNVM
  <2> QED
    BY <2>1, TagParameters, GeometryFacts
<1> HIDE DEF nvm
<1>5. w \in Ways(Shadowed)
  BY <1>1, <1>4, TagParameters, BothArrays, VictimInArray
<1> HIDE DEF w
<1>6. GoodTables(t) /\ t.cache = s.cache /\ KeepsShadows(asked, t)
  <2>1. asked \in TagRecords
    BY <1>3 DEF GoodTables
  <2> QED
    BY <1>3, <1>4, <1>5, <2>1, CountersGood, OthersKeepShadows
<1> HIDE DEF t
<1>7. GoodTables(recorded) /\ recorded.cache = s.cache /\ KeepsShadows(t, recorded)
  <2>1. t \in TagRecords
    BY <1>6 DEF GoodTables
  <2> QED
    BY <1>4, <1>5, <1>6, <2>1, EvictRecordingGood, OthersKeepShadows
<1> HIDE DEF recorded
<1>8. GoodCache(Shadowed, c)
  <2>1. GoodCache(Shadowed, recorded.cache) /\ ~Present(recorded.cache, b)
    BY <1>1, <1>7
  <2> QED
    BY <1>5, <2>1, TagParameters, FillGood
<1>9. o \in Origins /\ recorded \in TagRecords
  <2>1. i \in [pc : PCs, cost : Int]
    BY DEF AccessCost
  <2>2. recorded.origin \in Origins /\ recorded \in TagRecords
    BY <1>7 DEF GoodTables, TagRecords
  <2> HIDE DEF i
  <2> QED
    BY <2>1, <2>2 DEF Origins
<1> HIDE DEF c, o
<1>10. GoodTables(f) /\ KeepsShadows(recorded, f)
  <2>1. GoodTables(f)
    BY ZenonT(40), <1>7, <1>8, <1>9, SetCacheGood
  <2>2. KeepsShadows(recorded, f)
    BY <1>9, OthersKeepShadows
  <2> QED
    BY <2>1, <2>2
<1>11. u = UpdateFUcaches(f, b, w >= SRAMWays)
  OBVIOUS
<1> HIDE DEF f, u
<1>12. FaithfulShadows(f)
  <2>1. KeepsShadows(s, f)
    BY <1>3, <1>6, <1>7, <1>10 DEF KeepsShadows
  <2> QED
    BY <2>1, KeptShadows
<1>13. (w >= SRAMWays) \in BOOLEAN /\ b \in Addresses
  BY DEF Addresses
<1>14. FaithfulShadows(u) /\ GoodTables(u)
  BY <1>10, <1>11, <1>12, <1>13, UpdateFUcachesGood, UpdateFUcachesFaithful
<1>15. u \in TagRecords
  BY <1>14 DEF GoodTables
<1>16. KeepsShadows(u, r)
  BY <1>15, OthersKeepShadows
<1> HIDE DEF r
<1>17. FaithfulShadows(r)
  BY <1>14, <1>16, KeptShadows
<1> QED
  BY <1>2, <1>17

LEMMA HandleAccessFaithful ==
  ASSUME NEW s, GoodTags(s), FaithfulShadows(s), NEW b \in Blocks, NEW p \in PCs,
         NEW isFetch \in BOOLEAN, NEW isWrite \in BOOLEAN
  PROVE  FaithfulShadows(TagsHandleAccess(s, b, p, isFetch, isWrite))
<1>1. CASE ~Present(s.cache, b)
  BY <1>1, TagsMissFaithful DEF TagsHandleAccess
<1>2. CASE Present(s.cache, b)
  <2>1. GoodCache(Shadowed, s.cache)
    BY DEF GoodTags, GoodTables
  <2>2. SetOf(Shadowed, b) \in Sets(Shadowed) /\ s.cache.tag[b] \in Ways(Shadowed)
    BY <1>2, <2>1, TagParameters, IndexedEntry
  <2>3. b \in Addresses
    BY DEF Addresses
  <2> QED
    BY <1>2, <2>2, <2>3, TagsUpdatePolicyFaithful DEF TagsHandleAccess
<1> QED
  BY <1>1, <1>2

-----------------------------------------------------------------------------
ShadowInv == TagInv /\ FaithfulShadows(TagState)

\* Nothing was given before the first access.
LEMMA ShadowInitFaithful == MissingTagsInit => FaithfulShadows(TagState)
<1> SUFFICES ASSUME MissingTagsInit PROVE FaithfulShadows(TagState)
  OBVIOUS
<1>1. /\ TagState.shadow = shadow /\ TagState.lastTouch = lastTouch /\ TagState.time = 0
  BY DEF TagState, At, MissingTagsInit
<1>2. /\ \A k \in BOOLEAN : shadow[k] = [i \in ShadowSlots(k) |-> EmptyTag]
      /\ \A k \in BOOLEAN : lastTouch[k] = [a \in Addresses |-> -1]
  BY DEF MissingTagsInit
<1>3. EmptyTag.valid = FALSE /\ EmptyTag.time = 0 /\ EmptyTag.addr = NoBlock
  BY DEF EmptyTag
<1>4. ASSUME NEW k \in BOOLEAN
      PROVE  Faithful(ShadowSlots(k), shadow[k], lastTouch[k], 0)
  <2>1. {a \in Addresses : lastTouch[k][a] >= 0} = {}
    BY <1>2
  <2>2. IsFiniteSet({a \in Addresses : lastTouch[k][a] >= 0})
    BY <2>1, FS_EmptySet
  <2>3. \A a \in Addresses : lastTouch[k][a] = -1
    BY <1>2
  <2>4. \A i \in ShadowSlots(k) : shadow[k][i] = EmptyTag
    BY <1>2
  <2>5. Blocks \subseteq Addresses
    BY TagParameters
  <2> QED
    BY <1>3, <2>2, <2>3, <2>4, <2>5 DEF Faithful
<1> QED
  BY <1>1, <1>4 DEF FaithfulShadows

\* Time passes between two accesses.
LEMMA AtFaithful ==
  ASSUME ShadowInv, NEW n \in Nat, n >= cpt_time, NEW q
  PROVE  FaithfulShadows(At(n, q))
<1>1. /\ At(n, q).shadow = shadow /\ At(n, q).lastTouch = lastTouch
      /\ At(n, q).time = n
      /\ TagState.shadow = shadow /\ TagState.lastTouch = lastTouch /\ TagState.time = cpt_time
  BY DEF At, TagState
<1>2. /\ cpt_time \in Nat /\ lastTouch \in TouchTimes
      /\ \A k \in BOOLEAN : shadow[k] \in [ShadowSlots(k) -> Tags]
  BY <1>1 DEF ShadowInv, TagInv, GoodTags, GoodTables, TagRecords
<1>3. ASSUME NEW k \in BOOLEAN
      PROVE  Faithful(ShadowSlots(k), shadow[k], lastTouch[k], n)
  <2>1. Faithful(ShadowSlots(k), shadow[k], lastTouch[k], cpt_time)
    BY <1>1 DEF ShadowInv, FaithfulShadows
  <2>2. lastTouch[k] \in [Addresses -> Nat \cup {-1}]
    BY <1>2 DEF TouchTimes
  <2> QED
    BY <1>2, <2>1, <2>2, FaithfulLater
<1> QED
  BY <1>1, <1>3 DEF FaithfulShadows

LEMMA StatesFaithful ==
  ASSUME ShadowInv, NEW q, NEW s \in States(q)
  PROVE  FaithfulShadows(s)
<1>1. cpt_time \in Nat
  BY DEF ShadowInv, TagInv, GoodTags, GoodTables, TagRecords, TagState, At
<1>2. PICK n \in {cpt_time, cpt_time + 1} : s = At(n, q)
  BY DEF States
<1>3. n \in Nat /\ n >= cpt_time
  BY <1>1, <1>2
<1> QED
  BY <1>2, <1>3, AtFaithful

LEMMA TagsBecomeFaithful ==
  ASSUME NEW s, FaithfulShadows(s), TagsBecome(s)
  PROVE  FaithfulShadows(TagState)'
<1>1. /\ TagState'.shadow = s.shadow /\ TagState'.lastTouch = s.lastTouch
      /\ TagState'.time = s.time
  BY DEF TagState, At, TagsBecome
<1> QED
  BY <1>1 DEF FaithfulShadows, Faithful

LEMMA ShadowNextFaithful ==
  ASSUME ShadowInv, MissingTagsNext
  PROVE  FaithfulShadows(TagState)'
<1>0. /\ WriteBack \in Places /\ Demand \in Places /\ Last \in Places
      /\ request \in {Demand, Prefetched} => request + 1 \in Places
      /\ TagInv
  BY DEF Places, WriteBack, Demand, Prefetched, Last, ShadowInv
<1>1. ASSUME NEW b \in InstBlocks, TagsFetch(b)
      PROVE  FaithfulShadows(TagState)'
  <2>1. PICK s \in States(Demand) :
          TagsBecome(TagsHandleAccess(s, b, NoPC, TRUE, FALSE))
    BY <1>1 DEF TagsFetch
  <2>2. GoodTags(s) /\ FaithfulShadows(s) /\ b \in Blocks /\ NoPC \in PCs
    BY <1>0, StatesGood, StatesFaithful, TagParameters DEF Blocks
  <2>3. FaithfulShadows(TagsHandleAccess(s, b, NoPC, TRUE, FALSE))
    BY <2>2, HandleAccessFaithful
  <2> QED
    BY <2>1, <2>3, TagsBecomeFaithful
<1>2. ASSUME NEW b \in DataBlocks, NEW p \in PCs, NEW isWrite \in BOOLEAN,
             TagsAccess(b, p, isWrite)
      PROVE  FaithfulShadows(TagState)'
  <2>1. PICK s \in States(Demand) :
          TagsBecome(TagsHandleAccess(s, b, p, FALSE, isWrite))
    BY <1>2 DEF TagsAccess
  <2>2. GoodTags(s) /\ FaithfulShadows(s) /\ b \in Blocks
    BY <1>0, StatesGood, StatesFaithful DEF Blocks
  <2>3. FaithfulShadows(TagsHandleAccess(s, b, p, FALSE, isWrite))
    BY <2>2, HandleAccessFaithful
  <2> QED
    BY <2>1, <2>3, TagsBecomeFaithful
<1>3. ASSUME NEW b \in Blocks, TagsPrefetch(b)
      PROVE  FaithfulShadows(TagState)'
  <2> DEFINE s == At(cpt_time, request + 1)
  <2>1. PICK isFetch \in BOOLEAN :
          TagsBecome(TagsHandleAccess(s, b, NoPC, isFetch, FALSE))
    BY <1>3 DEF TagsPrefetch
  <2>2. cpt_time \in Nat
    BY <1>0 DEF TagInv, GoodTags, GoodTables, TagRecords, TagState, At
  <2>3. request + 1 \in Places
    BY <1>0, <1>3 DEF TagsPrefetch
  <2>4. GoodTags(s) /\ FaithfulShadows(s) /\ NoPC \in PCs
    BY <1>0, <2>2, <2>3, AtGood, AtFaithful, TagParameters
  <2> HIDE DEF s
  <2>5. FaithfulShadows(TagsHandleAccess(s, b, NoPC, isFetch, FALSE))
    BY <2>4, HandleAccessFaithful
  <2> QED
    BY <2>1, <2>5, TagsBecomeFaithful
<1>4. ASSUME NEW b \in DataBlocks, TagsWriteBack(b)
      PROVE  FaithfulShadows(TagState)'
  <2>1. PICK s \in States(WriteBack) \cup {At(cpt_time, Last)} :
          TagsBecome(TagsUpdatePolicy(s, SetOf(Shadowed, b), cache.tag[b], NoBlock,
                                      TRUE))
    BY <1>4 DEF TagsWriteBack
  <2>2. /\ GoodTags(s) /\ FaithfulShadows(s) /\ s.cache = cache
        /\ b \in Blocks /\ Present(cache, b)
    <3>1. cpt_time \in Nat
      BY <1>0 DEF TagInv, GoodTags, GoodTables, TagRecords, TagState, At
    <3>2. GoodTags(s) /\ FaithfulShadows(s) /\ s.cache = cache
      BY <1>0, <2>1, <3>1, StatesGood, StatesFaithful, AtGood, AtFaithful
    <3> QED
      BY <1>4, <3>2 DEF Blocks, TagsWriteBack
  <2>3. SetOf(Shadowed, b) \in Sets(Shadowed) /\ cache.tag[b] \in Ways(Shadowed)
    BY <2>2, TagParameters, IndexedEntry DEF GoodTags, GoodTables
  <2>4. FaithfulShadows(TagsUpdatePolicy(s, SetOf(Shadowed, b), cache.tag[b],
                                         NoBlock, TRUE))
    BY <2>2, <2>3, TagParameters, TagsUpdatePolicyFaithful
  <2> QED
    BY <2>1, <2>4, TagsBecomeFaithful
<1> QED
  BY <1>1, <1>2, <1>3, <1>4 DEF MissingTagsNext

LEMMA ShadowInductive == MissingTagsSpec => []ShadowInv
<1>1. ShadowInv /\ [MissingTagsNext]_tagsVars => ShadowInv'
  <2> SUFFICES ASSUME ShadowInv, [MissingTagsNext]_tagsVars PROVE ShadowInv'
    OBVIOUS
  <2>1. CASE MissingTagsNext
    <3>1. TagInv'
      BY <2>1, TagNextGood DEF ShadowInv
    <3>2. FaithfulShadows(TagState)'
      BY <2>1, ShadowNextFaithful
    <3> QED
      BY <3>1, <3>2 DEF ShadowInv
  <2>2. CASE UNCHANGED tagsVars
    <3>1. TagState' = TagState
      BY <2>2 DEF tagsVars, TagState, At
    <3>2. TagInv'
      BY <2>2 DEF ShadowInv, tagsVars, TagInv, GoodTags, GoodTables, Missing,
                  Unique, TagState, At
    <3>3. FaithfulShadows(TagState)
      BY DEF ShadowInv
    <3>4. /\ TagState'.shadow = TagState.shadow /\ TagState'.lastTouch = TagState.lastTouch
          /\ TagState'.time = TagState.time
      BY <3>1
    <3> HIDE DEF TagState
    <3>5. FaithfulShadows(TagState)'
      BY <3>3, <3>4 DEF FaithfulShadows, Faithful
    <3> QED
      BY <3>2, <3>5 DEF ShadowInv
  <2> QED
    BY <2>1, <2>2
<1>2. MissingTagsInit => ShadowInv
  BY TagInitGood, ShadowInitFaithful DEF ShadowInv
<1> QED
  BY <1>1, <1>2, PTL DEF MissingTagsSpec

-----------------------------------------------------------------------------
\* In a faithful shadow of n slots a block that was given and is not found is
\* older than what all of them hold.
LEMMA LostIsOld ==
  ASSUME NEW n \in Nat \ {0}, NEW e \in [1 .. n -> Tags],
         NEW l \in [Addresses -> Nat \cup {-1}], NEW now \in Nat,
         Faithful(1 .. n, e, l, now), NEW b \in Blocks, l[b] >= 0,
         \A i \in 1 .. n : e[i].addr # b
  PROVE  ~(Cardinality({a \in Addresses : l[a] >= l[b]}) <= n)
<1> DEFINE A == {a \in Addresses : l[a] >= l[b]}
           g == [i \in 1 .. n |-> e[i].addr]
<1>1. b \in Addresses /\ l[b] \in Nat
  BY DEF Addresses
<1>2. IsFiniteSet(A)
  <2>1. A \subseteq {a \in Addresses : l[a] >= 0}
    BY <1>1
  <2> QED
    BY <2>1, FS_Subset DEF Faithful
<1>3. \A i \in 1 .. n : /\ e[i].valid /\ e[i].time >= l[b]
                        /\ l[e[i].addr] = e[i].time /\ e[i].addr \in Addresses
  BY DEF Faithful, Tags
<1>4. g \in Injection(1 .. n, A \ {b})
  <2>1. g \in [1 .. n -> A \ {b}]
    BY <1>3
  <2>2. \A i, j \in 1 .. n : g[i] = g[j] => i = j
    BY <1>3 DEF Faithful
  <2> QED
    BY <2>1, <2>2 DEF Injection, IsInjective
<1>5. b \in A
  BY <1>1
<1> HIDE DEF A, g
<1>6. /\ IsFiniteSet(A \ {b}) /\ Cardinality(A \ {b}) = Cardinality(A) - 1
      /\ Cardinality(A) \in Nat
  BY <1>2, <1>5, FS_RemoveElement, FS_CardinalityType
<1>7. Cardinality(1 .. n) <= Cardinality(A \ {b})
  BY <1>4, <1>6, FS_Injection
<1>8. Cardinality(1 .. n) = n
  <2>1. Cardinality(1 .. n) = IF 1 > n THEN 0 ELSE n - 1 + 1
    BY FS_Interval
  <2> QED
    BY <2>1
<1> QED
  BY <1>6, <1>7, <1>8 DEF A

\* The blocks given after one that is found have slots of their own.
LEMMA FoundIsRecent ==
  ASSUME NEW n \in Nat \ {0}, NEW e \in [1 .. n -> Tags],
         NEW l \in [Addresses -> Nat \cup {-1}], NEW now \in Nat,
         Faithful(1 .. n, e, l, now), NEW b \in Blocks, NEW i \in 1 .. n,
         e[i].addr = b
  PROVE  Cardinality({a \in Blocks : l[a] > l[b]}) < n
<1> DEFINE A == {a \in Blocks : l[a] > l[b]}
           Slot(a) == CHOOSE j \in 1 .. n : e[j].addr = a
           g == [a \in A |-> Slot(a)]
<1>1. e[i].valid /\ l[b] = e[i].time /\ e[i].time \in Nat
  <2>1. b # NoBlock /\ e[i] \in Tags
    BY GeometryFacts, TagParameters
  <2> QED
    BY <2>1 DEF Faithful, Tags
<1>2. ASSUME NEW a \in A PROVE \E j \in 1 .. n : e[j].addr = a
  <2>1. l[a] >= 0 /\ l[a] > l[b] /\ a \in Blocks /\ l[a] \in Int
    BY <1>1 DEF Addresses
  <2>2. CASE \A j \in 1 .. n : e[j].valid /\ e[j].time >= l[a]
    BY <1>1, <2>1, <2>2
  <2> QED
    BY <2>1, <2>2 DEF Faithful
<1>3. ASSUME NEW a \in A PROVE Slot(a) \in 1 .. n /\ e[Slot(a)].addr = a
  BY <1>2, <1>3
<1> HIDE DEF Slot
<1>4. g \in Injection(A, (1 .. n) \ {i})
  <2>1. \A a \in A : g[a] \in (1 .. n) \ {i}
    <3>1. \A a \in A : a # b
      BY <1>1
    <3> QED
      BY <1>3, <3>1
  <2>2. \A a, c \in A : g[a] = g[c] => a = c
    BY <1>3
  <2> HIDE DEF A
  <2>3. g \in [A -> (1 .. n) \ {i}]
    BY <2>1
  <2> QED
    BY <2>2, <2>3 DEF Injection, IsInjective
<1> HIDE DEF A, g
<1>5. /\ IsFiniteSet(1 .. n) /\ Cardinality(1 .. n) = n
  <2>1. /\ IsFiniteSet(1 .. n)
        /\ Cardinality(1 .. n) = IF 1 > n THEN 0 ELSE n - 1 + 1
    BY FS_Interval
  <2> QED
    BY <2>1
<1>6. /\ IsFiniteSet((1 .. n) \ {i}) /\ Cardinality((1 .. n) \ {i}) = n - 1
  <2> DEFINE S == 1 .. n
  <2>1. i \in S /\ IsFiniteSet(S) /\ Cardinality(S) = n
    BY <1>5
  <2> HIDE DEF S
  <2>2. IsFiniteSet(S \ {i}) /\ Cardinality(S \ {i}) = n - 1
    BY <2>1, FS_RemoveElement
  <2> QED
    BY <2>2 DEF S
<1>7. Cardinality(A) <= n - 1 /\ IsFiniteSet(A)
  BY <1>4, <1>6, FS_Injection
<1>8. Cardinality(A) \in Nat
  BY <1>7, FS_CardinalityType
<1> QED
  BY <1>7, <1>8 DEF A

\* Whatever the sizes, in whatever order lines hit, fill and are written back, a
\* shadow finds exactly the blocks a fully associative cache of its size holds.
THEOREM ShadowsAlwaysRecent == MissingTagsSpec => []ShadowIsRecent
<1>1. ShadowInv => ShadowIsRecent
  <2> SUFFICES ASSUME ShadowInv, NEW k \in BOOLEAN, NEW b \in Blocks
               PROVE  LET last == lastTouch[k]
                          size == Cardinality(ShadowSlots(k))
                          found == \E i \in ShadowSlots(k) : shadow[k][i].addr = b
                      IN /\ (/\ last[b] >= 0
                             /\ Cardinality({a \in Addresses : last[a] >= last[b]})
                                  <= size)
                              => found
                         /\ found =>
                              Cardinality({a \in Blocks : last[a] > last[b]}) < size
    BY DEF ShadowIsRecent
  <2> DEFINE last == lastTouch[k]
             e == shadow[k]
  <2>1. PICK n \in Nat \ {0} : ShadowSlots(k) = 1 .. n
    BY ShadowSlotsAre
  <2>2. /\ TagState.shadow = shadow /\ TagState.lastTouch = lastTouch
        /\ TagState.time = cpt_time
    BY DEF TagState, At
  <2>3. /\ cpt_time \in Nat /\ last \in [Addresses -> Nat \cup {-1}]
        /\ e \in [1 .. n -> Tags]
    BY <2>1, <2>2 DEF ShadowInv, TagInv, GoodTags, GoodTables, TagRecords, TouchTimes
  <2>4. Faithful(1 .. n, e, last, cpt_time)
    BY <2>1, <2>2 DEF ShadowInv, FaithfulShadows
  <2>5. Cardinality(ShadowSlots(k)) = n
    <3>1. Cardinality(1 .. n) = IF 1 > n THEN 0 ELSE n - 1 + 1
      BY FS_Interval
    <3> QED
      BY <2>1, <3>1
  <2> HIDE DEF last, e
  <2>6. ASSUME last[b] >= 0, ~ \E i \in 1 .. n : e[i].addr = b
        PROVE  ~(Cardinality({a \in Addresses : last[a] >= last[b]}) <= n)
    BY <2>3, <2>4, <2>6, LostIsOld
  <2>7. ASSUME NEW i \in 1 .. n, e[i].addr = b
        PROVE  Cardinality({a \in Blocks : last[a] > last[b]}) < n
    BY <2>3, <2>4, <2>7, FoundIsRecent
  <2> QED
    BY <2>1, <2>5, <2>6, <2>7 DEF last, e
<1> QED
  BY <1>1, ShadowInductive, PTL
=============================================================================
