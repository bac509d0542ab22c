-------------------------- MODULE CoherenceProofs --------------------------
(***************************************************************************)
(* Coherence for every number of cores.  When code is apart from data and  *)
(* the LLC has room for every block of the program, no assertion fails,    *)
(* the trackers of a block are exactly the cores that hold it, a block in  *)
(* MODIFIED_L1 is dirty in its owner's L1, and the hierarchy implements    *)
(* the module Coherence: reads share, writes take.                         *)
(*                                                                         *)
(* Both hypotheses are needed: EvictionInvalidatesAllTrackers is violated  *)
(* by an eviction of the LLC, and a block that is code and data may be in  *)
(* two L1s of a core, of which the code invalidates one.                   *)
(*                                                                         *)
(* To the invariant of HierarchyProofs, Coherent adds that the L1s have no *)
(* entry invalidated in place and only blocks of their kind, and that the  *)
(* entry of every block is exact.  CoherentBut exempts the accessed block  *)
(* in the middle of an access.                                             *)
(***************************************************************************)
EXTENDS InclusionProofs, FiniteSetTheorems

\* Code apart from data, and an LLC that never evicts: in every set, as many ways
\* in the array an access allocates in as there are blocks.
BlocksOfSet(t) == {b \in Blocks : SetOf(LLC, b) = t}
Roomy ==
  /\ InstBlocks \cap DataBlocks = {}
  /\ \A t \in Sets(LLC), isWrite \in BOOLEAN :
       LET array == Array(LLC, AllocateInNVM(LLC, isWrite))
       IN /\ IsFiniteSet(BlocksOfSet(t))
          /\ Cardinality(BlocksOfSet(t)) <= Cardinality(array)

\* The cores that have a valid copy of a block in the L1s f, and those that have
\* it dirty.
HoldersOf(f, x) == {n \in Cores : \E k \in L1Kinds : Holds(L1, f[n][k], x)}
DirtyIn(f, x) ==
  {n \in Cores : \E k \in L1Kinds : /\ Holds(L1, f[n][k], x)
                                    /\ EntryOf(L1, f[n][k], x).dirty}

\* No entry was invalidated in place, and an L1 has blocks of its kind.
Plain(f) ==
  \A n \in Cores, k \in L1Kinds :
    /\ NoGhost(L1, f[n][k])
    /\ \A x \in Blocks : Present(f[n][k], x) => x \in BlocksOf(k)

\* The directory is exact about one block.
Exact(f, d, x) ==
  /\ TrackersOf(d, x) = HoldersOf(f, x)
  /\ StateOf(d, x) = "MODIFIED_L1" => DirtyIn(f, x) # {}

CoherentBut(s, b) ==
  /\ OKBut(s, b)
  /\ s.aborted = FALSE
  /\ Plain(s.l1)
  /\ \A x \in Blocks \ {b} : Exact(s.l1, s.dir, x)

Coherent(s) ==
  /\ s.aborted = FALSE
  /\ Plain(s.l1)
  /\ \A x \in Blocks : Exact(s.l1, s.dir, x)

\* What an access by core n does to the copies, from the L1s f to the L1s g: the
\* core gets b and gives up at most one other block.
GivesUp(f, g, n, b, v) ==
  \A x \in Blocks \ {b} :
    LET gone == IF x = v THEN {n} ELSE {}
    IN /\ HoldersOf(g, x) = HoldersOf(f, x) \ gone
       /\ DirtyIn(g, x) = DirtyIn(f, x) \ gone

MakesRoom(f, g, n, b) ==
  \E v \in Blocks \cup {NoBlock} : GivesUp(f, g, n, b, v)

MakesCopy(f, g, n, b, isWrite) ==
  /\ HoldersOf(g, b) = HoldersOf(f, b) \cup {n}
  /\ DirtyIn(g, b) = DirtyIn(f, b) \cup (IF isWrite THEN {n} ELSE {})
  /\ MakesRoom(f, g, n, b)

\* A read shares the block, a write takes it.
SharesOrTakes(f, g, n, b, isWrite) ==
  /\ HoldersOf(g, b) = IF isWrite THEN {n} ELSE HoldersOf(f, b) \cup {n}
  /\ DirtyIn(g, b) = IF isWrite THEN {n} ELSE DirtyIn(f, b)
  /\ MakesRoom(f, g, n, b)

-----------------------------------------------------------------------------
(***************************************************************************)
(* The copies of one cache.                                                *)
(***************************************************************************)
\* Where no entry was invalidated in place, what the index has is valid.
LEMMA PresentHolds ==
  ASSUME NEW g \in Geometries, NEW c, GoodCache(g, c), NoGhost(g, c)
  PROVE  \A x \in Blocks : Holds(g, c, x) <=> Present(c, x)
<1> SUFFICES ASSUME NEW x \in Blocks, Present(c, x) PROVE Holds(g, c, x)
  BY DEF Holds
<1>1. /\ SetOf(g, x) \in Sets(g) /\ c.tag[x] \in Ways(g)
      /\ c.line[SetOf(g, x)][c.tag[x]].addr = x
  BY IndexedEntry
<1>2. x # NoBlock
  BY GeometryFacts
<1> QED
  BY <1>1, <1>2 DEF NoGhost, Holds, EntryOf

-----------------------------------------------------------------------------
(***************************************************************************)
(* The copies of all L1s.                                                  *)
(***************************************************************************)
\* In plain L1s the holders of a block are the cores whose L1 of its kind has it
\* in the index, and its entry there has the dirty bit.
LEMMA PlainHolders ==
  ASSUME InstBlocks \cap DataBlocks = {}, NEW s, GoodState(s), Plain(s.l1),
         NEW x \in Blocks, NEW k \in L1Kinds, x \in BlocksOf(k)
  PROVE  /\ HoldersOf(s.l1, x) = {n \in Cores : Present(s.l1[n][k], x)}
         /\ DirtyIn(s.l1, x) = {n \in Cores : /\ Present(s.l1[n][k], x)
                                              /\ EntryOf(L1, s.l1[n][k], x).dirty}
<1>1. \A n \in Cores, j \in L1Kinds :
        Holds(L1, s.l1[n][j], x) <=> Present(s.l1[n][j], x)
  BY Geometry, PresentHolds DEF GoodState, Plain
<1>2. \A n \in Cores, j \in L1Kinds : Present(s.l1[n][j], x) => j = k
  BY DEF Plain, BlocksOf, L1Kinds
<1> QED
  BY <1>1, <1>2 DEF HoldersOf, DirtyIn

\* Every block is of a kind.
LEMMA BlockKind ==
  \A x \in Blocks : \E k \in L1Kinds : x \in BlocksOf(k)
BY DEF Blocks, BlocksOf, L1Kinds

\* A core that has a block dirty has it.
LEMMA DirtyIsHeld ==
  \A f : \A x \in Blocks : /\ DirtyIn(f, x) \subseteq HoldersOf(f, x)
                           /\ HoldersOf(f, x) \subseteq Cores
BY DEF DirtyIn, HoldersOf

-----------------------------------------------------------------------------
(***************************************************************************)
(* The LLC.                                                                *)
(***************************************************************************)
\* A block the LLC does not have finds a free way: were all ways of the array
\* valid, they would have as many other blocks of the set.
LEMMA VictimIsFree ==
  ASSUME Roomy, NEW c, GoodCache(LLC, c), NEW b \in Blocks, ~Present(c, b),
         NEW isWrite \in BOOLEAN
  PROVE  LET w == Victim(LLC, c, SetOf(LLC, b), AllocateInNVM(LLC, isWrite))
         IN ~c.line[SetOf(LLC, b)][w].valid
<1> DEFINE s == SetOf(LLC, b)
           array == Array(LLC, AllocateInNVM(LLC, isWrite))
           free == {w \in array : ~c.line[s][w].valid}
           others == BlocksOfSet(s) \ {b}
           f == [w \in array |-> c.line[s][w].addr]
<1>1. s \in Sets(LLC) /\ array \in SUBSET Nat /\ array \subseteq Ways(LLC)
  BY Geometry, GeometryFacts
<1>2. IsFiniteSet(BlocksOfSet(s))
      /\ Cardinality(BlocksOfSet(s)) <= Cardinality(array)
  BY <1>1 DEF Roomy
<1>3. b \in BlocksOfSet(s)
  BY DEF BlocksOfSet
<1>4. /\ IsFiniteSet(others)
      /\ Cardinality(others) = Cardinality(BlocksOfSet(s)) - 1
      /\ Cardinality(BlocksOfSet(s)) \in Nat
  BY <1>2, <1>3, FS_RemoveElement, FS_CardinalityType
<1>5. ASSUME free = {} PROVE FALSE
  <2>1. ASSUME NEW w \in array
        PROVE  /\ c.line[s][w].addr \in others
               /\ c.tag[c.line[s][w].addr] = w
    <3>1. c.line[s][w].valid
      BY <1>5
    <3> HIDE DEF s
    <3>2. /\ c.line[s][w].addr \in Blocks
          /\ Present(c, c.line[s][w].addr)
      BY <1>1, <3>1, Geometry, ValidEntryIsIndexed
    <3>3. SetOf(LLC, c.line[s][w].addr) = s /\ c.tag[c.line[s][w].addr] = w
      BY <1>1, <3>2 DEF GoodCache, TagsAgree
    <3> QED
      BY <3>2, <3>3 DEF BlocksOfSet
  <2>2. f \in Injection(array, others)
    <3> HIDE DEF others, array
    <3> QED
      BY <2>1 DEF Injection, IsInjective
  <2> HIDE DEF f, array, others
  <2>3. IsFiniteSet(array) /\ Cardinality(array) <= Cardinality(others)
    BY <1>4, <2>2, FS_Injection
  <2>4. Cardinality(array) \in Nat
    BY <2>3, FS_CardinalityType
  <2> QED
    BY <1>2, <1>4, <2>3, <2>4
<1>6. free \in SUBSET Nat /\ free # {}
  BY <1>1, <1>5
<1>7. \E w \in free : \A x \in free : w <= x
  <2> HIDE DEF free
  <2> QED
    BY <1>6, LeastExists
<1> QED
  BY <1>6, <1>7 DEF Victim

\* So an access of the LLC evicts nothing and leaves the L1s and the directory
\* alone.
LEMMA LLCAccessCoherent ==
  ASSUME Roomy, NEW s, NEW b \in Blocks, CoherentBut(s, b), HasEntry(s.dir, b),
         NEW isWrite \in BOOLEAN, NEW isPrefetch \in BOOLEAN
  PROVE  LET t == LLCAccess(s, b, isWrite, isPrefetch)
         IN /\ CoherentBut(t, b)
            /\ t.l1 = s.l1 /\ t.dir = s.dir
            /\ UpdateEntry(t, b) = t
<1> DEFINE c == s.llc
           w == Victim(LLC, c, SetOf(LLC, b), AllocateInNVM(LLC, isWrite))
           d == IF Present(c, b) THEN Hit(LLC, c, b, isWrite)
                ELSE Fill(LLC, c, b, w, isWrite, isPrefetch)
           t == LLCAccess(s, b, isWrite, isPrefetch)
<1>1. GoodState(s) /\ GoodCache(LLC, c) /\ s.aborted = FALSE
  BY DEF CoherentBut, OKBut, GoodState
<1>2. ~Present(c, b) => ~c.line[SetOf(LLC, b)][w].valid
  <2> HIDE DEF c
  <2> QED
    BY <1>1, VictimIsFree
<1>3. t = [s EXCEPT !.llc = d]
  BY <1>2 DEF LLCAccess
<1> HIDE DEF d, c
<1>4. t.l1 = s.l1 /\ t.dir = s.dir /\ t.aborted = FALSE
  BY <1>1, <1>3 DEF GoodState, StateRecords
<1>5. /\ GoodState(t)
      /\ \A x \in Blocks : x # b /\ EntryOK(s, x) => EntryOK(t, x)
  BY <1>1, LLCAccessGood
<1> HIDE DEF t
<1>6. OKBut(t, b)
  BY <1>1, <1>5 DEF OKBut, CoherentBut
<1>7. CoherentBut(t, b)
  BY <1>4, <1>6 DEF CoherentBut
<1>8. UpdateEntry(t, b) = t
  BY <1>4, <1>5 DEF UpdateEntry, Require, GoodState, StateRecords
<1> QED
  BY <1>4, <1>7, <1>8 DEF t

-----------------------------------------------------------------------------
(***************************************************************************)
(* What an access does to the L1s, in the middle of one.                   *)
(***************************************************************************)
\* Writes to the entry of the accessed block.
LEMMA SetDirCoherent ==
  ASSUME NEW s, NEW b \in Blocks, CoherentBut(s, b), NEW d \in Directories,
         \A x \in Blocks : x # b => d[x] = s.dir[x]
  PROVE  LET t == [s EXCEPT !.dir = d]
         IN CoherentBut(t, b) /\ t.l1 = s.l1 /\ t.dir = d
<1> DEFINE t == [s EXCEPT !.dir = d]
<1>1. /\ OKBut(t, b) /\ t.dir = d /\ t.l1 = s.l1
      /\ t.aborted = s.aborted
  BY SetDirOKBut DEF CoherentBut
<1> HIDE DEF t
<1>2. \A x \in Blocks \ {b} : Exact(t.l1, t.dir, x)
  BY <1>1 DEF CoherentBut, Exact, TrackersOf, StateOf
<1> QED
  BY <1>1, <1>2 DEF CoherentBut, t

\* A step that leaves L1s, directory and assertions alone.
LEMMA SameCoherent ==
  ASSUME NEW s, NEW b \in Blocks, CoherentBut(s, b), NEW t, OKBut(t, b),
         t.l1 = s.l1, t.dir = s.dir, t.aborted = s.aborted
  PROVE  CoherentBut(t, b)
BY DEF CoherentBut

LEMMA CountCoherent ==
  ASSUME NEW s, NEW b \in Blocks, CoherentBut(s, b), NEW x \in Stats
  PROVE  LET t == Count(s, x)
         IN CoherentBut(t, b) /\ t.l1 = s.l1 /\ t.dir = s.dir
<1> DEFINE t == Count(s, x)
<1>1. OKBut(t, b) /\ t.l1 = s.l1 /\ t.dir = s.dir /\ t.aborted = s.aborted
  BY CountOKBut, CountGood DEF CoherentBut, OKBut
<1> HIDE DEF t
<1> QED
  BY <1>1, SameCoherent DEF t

\* The owner that writes the block back and keeps it finds the entry.
LEMMA WriteBackByOwnerCoherent ==
  ASSUME NEW s, NEW r \in Requests, CoherentBut(s, r.block), NEW m \in Cores,
         HasEntry(s.dir, r.block)
  PROVE  LET t == WriteBackByOwner(s, m, r)
         IN CoherentBut(t, r.block) /\ t.l1 = s.l1 /\ t.dir = s.dir
<1> DEFINE b == r.block
           c == s.l1[m][Kind(r)]
           isDirty == EntryOf(L1, c, b).dirty
           t == WriteBackByOwner(s, m, r)
<1>1. b \in Blocks /\ Kind(r) \in L1Kinds
  BY RequestFacts
<1>2. OKBut(t, b)
  BY <1>1, WriteBackByOwnerOKBut DEF CoherentBut
<1>3. CASE ~Present(c, b)
  BY <1>3 DEF WriteBackByOwner, L1SignalWB
<1>4. CASE Present(c, b)
  <2>1. GoodState(s) /\ GoodCache(L1, c)
    BY <1>1 DEF CoherentBut, OKBut, GoodState
  <2>2. isDirty \in BOOLEAN
    <3> HIDE DEF c, b
    <3>1. EntryOf(L1, c, b) \in Lines
      BY <1>1, <1>4, <2>1, Geometry, IndexedEntry DEF EntryOf
    <3> QED
      BY <3>1 DEF Lines
  <2>3. t = WBFromL1(s, m, b, isDirty, TRUE)
    BY <1>4 DEF WriteBackByOwner, L1SignalWB
  <2> HIDE DEF isDirty, t, b
  <2>4. \A kept \in BOOLEAN :
          LET v == WBFromL1(s, m, b, isDirty, kept)
          IN /\ v.l1 = s.l1
             /\ kept => v.dir = s.dir
             /\ v.aborted = (s.aborted \/ ~HasEntry(s.dir, b))
    BY <1>1, <2>1, <2>2, WBFromL1Good
  <2>5. t.l1 = s.l1 /\ t.dir = s.dir /\ t.aborted = s.aborted
    BY <2>3, <2>4 DEF CoherentBut, b
  <2>6. CoherentBut(t, b)
    BY <1>1, <1>2, <2>5, SameCoherent DEF b, t
  <2> QED
    BY <2>5, <2>6 DEF b, t
<1> QED
  BY <1>3, <1>4

\* Cores that drop the block hold it no more, and hold what else they held.
LEMMA L1sDropCoherent ==
  ASSUME InstBlocks \cap DataBlocks = {}, NEW s, NEW b \in Blocks,
         CoherentBut(s, b), NEW nodes
  PROVE  LET t == L1sDrop(s, nodes, b)
         IN /\ CoherentBut(t, b) /\ t.dir = s.dir
            /\ HoldersOf(t.l1, b) = HoldersOf(s.l1, b) \ nodes
            /\ \A x \in Blocks : x # b =>
                 /\ HoldersOf(t.l1, x) = HoldersOf(s.l1, x)
                 /\ DirtyIn(t.l1, x) = DirtyIn(s.l1, x)
<1> DEFINE t == L1sDrop(s, nodes, b)
<1>1. /\ GoodState(s) /\ Plain(s.l1) /\ s.aborted = FALSE
      /\ \A m \in Cores, j \in L1Kinds : GoodCache(L1, s.l1[m][j])
  BY DEF CoherentBut, OKBut, GoodState
<1>2. /\ OKBut(t, b) /\ t.dir = s.dir /\ t.aborted = FALSE
      /\ GoodState(t)
  BY <1>1, L1sDropOKBut DEF CoherentBut, OKBut
<1>3. \A m \in Cores, j \in L1Kinds :
        t.l1[m][j] = IF m \in nodes THEN DeallocateBlock(L1, s.l1[m][j], b)
                     ELSE s.l1[m][j]
  BY <1>1 DEF L1sDrop, GoodState, StateRecords
<1> HIDE DEF t
<1>4. ASSUME NEW m \in Cores, NEW j \in L1Kinds
      PROVE  /\ NoGhost(L1, t.l1[m][j])
             /\ \A x \in Blocks :
                  /\ Present(t.l1[m][j], x) <=>
                       Present(s.l1[m][j], x) /\ ~(m \in nodes /\ x = b)
                  /\ x # b /\ Present(s.l1[m][j], x) =>
                       EntryOf(L1, t.l1[m][j], x) = EntryOf(L1, s.l1[m][j], x)
  <2>1. GoodCache(L1, s.l1[m][j]) /\ NoGhost(L1, s.l1[m][j])
    BY <1>1 DEF Plain
  <2>2. CASE m \in nodes
    BY <1>3, <2>1, <2>2, Geometry, DeallocateBlockGood, DropDirty
  <2>3. CASE m \notin nodes
    BY <1>3, <2>1, <2>3
  <2> QED
    BY <2>2, <2>3
<1>5. Plain(t.l1)
  BY <1>1, <1>4 DEF Plain
<1>6. ASSUME NEW x \in Blocks
      PROVE  /\ x = b => HoldersOf(t.l1, x) = HoldersOf(s.l1, x) \ nodes
             /\ x # b => /\ HoldersOf(t.l1, x) = HoldersOf(s.l1, x)
                         /\ DirtyIn(t.l1, x) = DirtyIn(s.l1, x)
  <2>1. PICK k \in L1Kinds : x \in BlocksOf(k)
    BY BlockKind
  <2>2. /\ HoldersOf(s.l1, x) = {m \in Cores : Present(s.l1[m][k], x)}
        /\ DirtyIn(s.l1, x) = {m \in Cores : /\ Present(s.l1[m][k], x)
                                             /\ EntryOf(L1, s.l1[m][k], x).dirty}
    BY <1>1, <2>1, PlainHolders
  <2>3. /\ HoldersOf(t.l1, x) = {m \in Cores : Present(t.l1[m][k], x)}
        /\ DirtyIn(t.l1, x) = {m \in Cores : /\ Present(t.l1[m][k], x)
                                             /\ EntryOf(L1, t.l1[m][k], x).dirty}
    BY <1>2, <1>5, <2>1, PlainHolders
  <2> QED
    BY <1>4, <2>2, <2>3
<1>7. \A x \in Blocks \ {b} : Exact(t.l1, t.dir, x)
  BY <1>2, <1>6 DEF CoherentBut, Exact
<1> QED
  BY <1>2, <1>5, <1>6, <1>7 DEF CoherentBut, t

\* The copies once the L1 of core n for the kind of b has b, and v no more.
LEMMA CopiesAfter ==
  ASSUME InstBlocks \cap DataBlocks = {},
         NEW s, GoodState(s), Plain(s.l1), NEW t, GoodState(t), Plain(t.l1),
         NEW n \in Cores, NEW k \in L1Kinds, NEW b \in Blocks, b \in BlocksOf(k),
         NEW v, v # b, v \in Blocks => v \in BlocksOf(k),
         NEW isWrite \in BOOLEAN,
         \A m \in Cores, j \in L1Kinds :
           ~(m = n /\ j = k) => t.l1[m][j] = s.l1[m][j],
         \A x \in Blocks :
           Present(t.l1[n][k], x) <=> x = b \/ (Present(s.l1[n][k], x) /\ x # v),
         EntryOf(L1, t.l1[n][k], b).dirty <=>
           \/ isWrite
           \/ Present(s.l1[n][k], b) /\ EntryOf(L1, s.l1[n][k], b).dirty,
         \A x \in Blocks : x # b /\ Present(t.l1[n][k], x) =>
           (EntryOf(L1, t.l1[n][k], x).dirty <=>
              EntryOf(L1, s.l1[n][k], x).dirty)
  PROVE  /\ HoldersOf(t.l1, b) = HoldersOf(s.l1, b) \cup {n}
         /\ DirtyIn(t.l1, b) =
              DirtyIn(s.l1, b) \cup (IF isWrite THEN {n} ELSE {})
         /\ GivesUp(s.l1, t.l1, n, b, v)
<1>1. ASSUME NEW x \in Blocks, NEW j \in L1Kinds, x \in BlocksOf(j)
      PROVE  /\ HoldersOf(s.l1, x) = {m \in Cores : Present(s.l1[m][j], x)}
             /\ DirtyIn(s.l1, x) = {m \in Cores :
                                      /\ Present(s.l1[m][j], x)
                                      /\ EntryOf(L1, s.l1[m][j], x).dirty}
             /\ HoldersOf(t.l1, x) = {m \in Cores : Present(t.l1[m][j], x)}
             /\ DirtyIn(t.l1, x) = {m \in Cores :
                                      /\ Present(t.l1[m][j], x)
                                      /\ EntryOf(L1, t.l1[m][j], x).dirty}
  BY <1>1, PlainHolders
<1>2. /\ HoldersOf(t.l1, b) = HoldersOf(s.l1, b) \cup {n}
      /\ DirtyIn(t.l1, b) = DirtyIn(s.l1, b) \cup (IF isWrite THEN {n} ELSE {})
  BY <1>1
<1>3. ASSUME NEW x \in Blocks \ {b}
      PROVE  LET gone == IF x = v THEN {n} ELSE {}
             IN /\ HoldersOf(t.l1, x) = HoldersOf(s.l1, x) \ gone
                /\ DirtyIn(t.l1, x) = DirtyIn(s.l1, x) \ gone
  <2>1. PICK j \in L1Kinds : x \in BlocksOf(j)
    BY BlockKind
  <2>2. CASE j = k
    BY <1>1, <2>1, <2>2
  <2>3. CASE j # k
    <3>1. x # v
      BY <2>1, <2>3 DEF BlocksOf, L1Kinds
    <3> QED
      BY <1>1, <2>1, <2>3, <3>1
  <2> QED
    BY <2>2, <2>3
<1> QED
  BY <1>2, <1>3 DEF GivesUp

\* An exact entry stays exact when the core gives the block up: a modified block
\* has one tracker, so if it stays modified its dirty copy is another core's.
LEMMA GivenUpExact ==
  ASSUME NEW f, NEW g, NEW d \in Directories, NEW u \in Blocks, NEW n \in Cores,
         Exact(f, d, u), EntryMatches(d, u),
         HoldersOf(g, u) = HoldersOf(f, u) \ {n},
         DirtyIn(g, u) = DirtyIn(f, u) \ {n}
  PROVE  Exact(g, RemoveTracker(d, u, n), u)
<1> DEFINE e == RemoveTracker(d, u, n)
<1>1. /\ TrackersOf(e, u) = TrackersOf(d, u) \ {n}
      /\ StateOf(e, u) = IF TrackersOf(d, u) \ {n} = {} THEN "CLEAN_LLC"
                         ELSE StateOf(d, u)
  BY RemoveTrackerEntry
<1> HIDE DEF e
<1>2. ASSUME StateOf(e, u) = "MODIFIED_L1" PROVE DirtyIn(g, u) # {}
  <2>1. StateOf(d, u) = "MODIFIED_L1" /\ TrackersOf(d, u) \ {n} # {}
    BY <1>1, <1>2
  <2>2. PICK m \in Cores : TrackersOf(d, u) = {m}
    BY <2>1 DEF EntryMatches
  <2>3. DirtyIn(f, u) # {} /\ DirtyIn(f, u) \subseteq {m}
    BY <2>1, <2>2, DirtyIsHeld DEF Exact
  <2> QED
    BY <2>1, <2>2, <2>3
<1> QED
  BY <1>1, <1>2 DEF Exact, e

\* The L1 of core n for kind k has become q.
Replaced(s, t, n, k, q) ==
  /\ GoodState(t) /\ Plain(t.l1)
  /\ t.dir = s.dir /\ t.aborted = s.aborted
  /\ t.l1[n][k] = q
  /\ \A m \in Cores, j \in L1Kinds :
       ~(m = n /\ j = k) => t.l1[m][j] = s.l1[m][j]

\* A new value of one L1, in which no entry was invalidated in place and whose
\* blocks are of its kind.
LEMMA ReplaceL1Plain ==
  ASSUME NEW e, GoodState(e), Plain(e.l1), NEW n \in Cores, NEW k \in L1Kinds,
         NEW q, GoodCache(L1, q), NoGhost(L1, q),
         \A x \in Blocks : Present(q, x) => x \in BlocksOf(k)
  PROVE  Replaced(e, [e EXCEPT !.l1[n][k] = q], n, k, q)
<1> DEFINE t == [e EXCEPT !.l1[n][k] = q]
<1>1. GoodState(t) /\ t.dir = e.dir /\ t.aborted = e.aborted
  BY SetOneL1Good
<1>2. \A m \in Cores, j \in L1Kinds :
        t.l1[m][j] = IF m = n /\ j = k THEN q ELSE e.l1[m][j]
  BY DEF GoodState, StateRecords
<1> HIDE DEF t
<1>3. Plain(t.l1)
  BY <1>2 DEF Plain
<1>4. Replaced(e, t, n, k, q)
  BY <1>1, <1>2, <1>3 DEF Replaced
<1> QED
  BY <1>4 DEF t

\* An access of an L1: the core gets the block and gives up the victim, whose
\* entry the write back finds and leaves exact.
LEMMA L1AccessCoherent ==
  ASSUME InstBlocks \cap DataBlocks = {}, NEW s, NEW b \in Blocks,
         CoherentBut(s, b), NEW n \in Cores, NEW k \in L1Kinds,
         b \in BlocksOf(k), NEW isWrite \in BOOLEAN
  PROVE  LET t == L1Access(s, n, k, b, isWrite)
         IN /\ CoherentBut(t, b)
            /\ t.dir[b] = s.dir[b]
            /\ MakesCopy(s.l1, t.l1, n, b, isWrite)
<1> DEFINE c == s.l1[n][k]
           w == Victim(L1, c, SetOf(L1, b), FALSE)
           victim == c.line[SetOf(L1, b)][w]
           u == victim.addr
           t == L1Access(s, n, k, b, isWrite)
<1>1. /\ GoodState(s) /\ Plain(s.l1) /\ s.aborted = FALSE /\ OKBut(s, b)
      /\ s.dir \in Directories
      /\ GoodCache(L1, c) /\ NoGhost(L1, c)
      /\ \A x \in Blocks : Present(c, x) => x \in BlocksOf(k)
      /\ \A x \in Blocks \ {b} : Exact(s.l1, s.dir, x) /\ EntryOK(s, x)
  BY DEF CoherentBut, OKBut, GoodState, Plain, StateRecords
<1>2. OKBut(t, b) /\ t.dir[b] = s.dir[b]
  BY <1>1, L1AccessOKBut
<1>3. CASE Present(c, b)
  <2> DEFINE h == Hit(L1, c, b, isWrite)
             q == [s EXCEPT !.l1[n][k] = h]
  <2>1. t = q
    BY Zenon, <1>3 DEF L1Access
  <2>2. /\ GoodCache(L1, h) /\ NoGhost(L1, h)
        /\ \A x \in Blocks : Present(h, x) <=> Present(c, x)
        /\ \A x \in Blocks : Present(c, x) =>
             (EntryOf(L1, h, x).dirty <=>
                EntryOf(L1, c, x).dirty \/ (x = b /\ isWrite))
    <3> HIDE DEF c
    <3>1. h.tag = c.tag /\ GoodCache(L1, h) /\ NoGhost(L1, h)
      BY <1>1, <1>3, Geometry, HitGood
    <3>2. \A x \in Blocks : Present(c, x) =>
             (EntryOf(L1, h, x).dirty <=>
                EntryOf(L1, c, x).dirty \/ (x = b /\ isWrite))
      BY <1>1, <1>3, Geometry, HitDirty
    <3> QED
      BY <3>1, <3>2 DEF Present
  <2> HIDE DEF h
  <2>3. \A x \in Blocks : Present(h, x) => x \in BlocksOf(k)
    BY <1>1, <2>2
  <2>9. Replaced(s, q, n, k, h)
    BY <1>1, <2>2, <2>3, ReplaceL1Plain
  <2> HIDE DEF q, t
  <2>4. /\ GoodState(q) /\ Plain(q.l1)
        /\ q.dir = s.dir /\ q.aborted = s.aborted
        /\ q.l1[n][k] = h
        /\ \A m \in Cores, j \in L1Kinds :
             ~(m = n /\ j = k) => q.l1[m][j] = s.l1[m][j]
    BY <2>9 DEF Replaced
  <2>5. NoBlock \notin Blocks
    BY Geometry, GeometryFacts
  <2>6. /\ HoldersOf(q.l1, b) = HoldersOf(s.l1, b) \cup {n}
        /\ DirtyIn(q.l1, b) =
             DirtyIn(s.l1, b) \cup (IF isWrite THEN {n} ELSE {})
        /\ GivesUp(s.l1, q.l1, n, b, NoBlock)
    <3>1. \A x \in Blocks : Present(q.l1[n][k], x) <=>
                              x = b \/ (Present(s.l1[n][k], x) /\ x # NoBlock)
      BY <1>3, <2>2, <2>4, <2>5
    <3>2. EntryOf(L1, q.l1[n][k], b).dirty <=>
            \/ isWrite
            \/ Present(s.l1[n][k], b) /\ EntryOf(L1, s.l1[n][k], b).dirty
      BY <1>3, <2>2, <2>4
    <3>3. \A x \in Blocks : x # b /\ Present(q.l1[n][k], x) =>
            (EntryOf(L1, q.l1[n][k], x).dirty <=>
               EntryOf(L1, s.l1[n][k], x).dirty)
      BY <2>2, <2>4
    <3> QED
      BY SMTT(60), <1>1, <2>4, <2>5, <3>1, <3>2, <3>3, CopiesAfter
  <2>7. \A x \in Blocks \ {b} : Exact(t.l1, t.dir, x)
    <3> SUFFICES ASSUME NEW x \in Blocks \ {b}
                 PROVE  Exact(t.l1, t.dir, x)
      OBVIOUS
    <3>1. HoldersOf(q.l1, x) = HoldersOf(s.l1, x)
          /\ DirtyIn(q.l1, x) = DirtyIn(s.l1, x)
      BY <2>5, <2>6 DEF GivesUp
    <3> QED
      BY <1>1, <2>1, <2>4, <3>1 DEF Exact
  <2>8. CoherentBut(t, b) /\ MakesCopy(s.l1, t.l1, n, b, isWrite)
    BY <1>1, <1>2, <2>1, <2>4, <2>6, <2>7 DEF CoherentBut, MakesCopy, MakesRoom
  <2> QED
    BY <1>2, <2>8 DEF t
<1>4. CASE ~Present(c, b)
  <2> DEFINE isDirty == EntryOf(L1, c, u).dirty
             e == IF victim.valid THEN WBFromL1(s, n, u, isDirty, FALSE) ELSE s
             f == Fill(L1, c, b, w, isWrite, FALSE)
             q == [e EXCEPT !.l1[n][k] = f]
  <2>1. SetOf(L1, b) \in Sets(L1) /\ w \in Ways(L1)
    <3>1. SetOf(L1, b) \in Sets(L1)
      BY Geometry, GeometryFacts
    <3>2. c \in Caches(L1)
      BY <1>1 DEF GoodCache
    <3> HIDE DEF c
    <3>3. w \in Array(L1, FALSE)
      BY <3>1, <3>2, Geometry, VictimInArray
    <3> HIDE DEF w
    <3> QED
      BY <3>1, <3>3, Geometry, GeometryFacts
  <2>2. victim.valid => /\ u \in Blocks /\ Present(c, u) /\ isDirty \in BOOLEAN
    <3> HIDE DEF c, w
    <3> SUFFICES ASSUME victim.valid
                 PROVE  /\ u \in Blocks /\ Present(c, u) /\ isDirty \in BOOLEAN
      OBVIOUS
    <3>1. u \in Blocks /\ Present(c, u)
      BY <1>1, <2>1, Geometry, ValidEntryIsIndexed
    <3>2. EntryOf(L1, c, u) \in Lines
      <4> HIDE DEF u, victim
      <4> QED
        BY <1>1, <3>1, Geometry, IndexedEntry DEF EntryOf
    <3> QED
      BY <3>1, <3>2 DEF Lines
  <2>3. ~victim.valid => u = NoBlock
    <3> HIDE DEF c, w
    <3> QED
      BY <1>1, <2>1 DEF NoGhost
  <2>4. u # b /\ (u \in Blocks => u \in BlocksOf(k) /\ victim.valid)
        /\ u \in Blocks \cup {NoBlock}
    <3>1. NoBlock \notin Blocks
      BY Geometry, GeometryFacts
    <3> HIDE DEF c, victim
    <3> QED
      BY <1>1, <1>4, <2>2, <2>3, <3>1
  <2>5. t = [e EXCEPT !.l1[n][k] = Fill(L1, @, b, w, isWrite, FALSE)]
    BY Zenon, <1>4, <2>2 DEF L1Access, L1SignalWB
  <2>6. /\ GoodCache(L1, f) /\ NoGhost(L1, f)
        /\ \A x \in Blocks : Present(f, x) <=> x = b \/ (Present(c, x) /\ x # u)
        /\ EntryOf(L1, f, b).dirty = isWrite
        /\ \A x \in Blocks :
             x # b /\ Present(f, x) => EntryOf(L1, f, x) = EntryOf(L1, c, x)
    <3> HIDE DEF c, w
    <3>1. FALSE \in BOOLEAN
      OBVIOUS
    <3>2. /\ GoodCache(L1, f) /\ NoGhost(L1, f)
          /\ \A x \in Blocks :
               Present(f, x) <=> x = b \/ (Present(c, x) /\ x # u)
      BY <1>1, <1>4, <2>1, <3>1, Geometry, FillGood
    <3>3. /\ EntryOf(L1, f, b).dirty = isWrite
          /\ \A x \in Blocks :
               x # b /\ Present(f, x) => EntryOf(L1, f, x) = EntryOf(L1, c, x)
      <4>1. L1 \in Geometries /\ GoodCache(L1, c) /\ ~Present(c, b) /\ w \in Ways(L1)
        BY <1>1, <1>4, <2>1, Geometry
      <4>2. \A p \in BOOLEAN :
              LET d == Fill(L1, c, b, w, isWrite, p)
              IN /\ EntryOf(L1, d, b).dirty = isWrite
                 /\ \A x \in Blocks : x # b /\ Present(d, x) =>
                      EntryOf(L1, d, x) = EntryOf(L1, c, x)
        BY <4>1, FillDirty
      <4> QED
        BY Zenon, <3>1, <4>2
    <3> QED
      BY <3>2, <3>3
  <2> HIDE DEF f
  <2>7. \A x \in Blocks : Present(f, x) => x \in BlocksOf(k)
    BY <1>1, <2>6
  \* The write back of the victim.
  <2>8. /\ GoodState(e) /\ e.l1 = s.l1 /\ e.aborted = FALSE
        /\ e.dir = IF victim.valid THEN RemoveTracker(s.dir, u, n) ELSE s.dir
    <3>1. CASE ~victim.valid
      BY <1>1, <3>1
    <3>2. CASE victim.valid
      <4>1. e = WBFromL1(s, n, u, isDirty, FALSE)
        BY <3>2
      <4>2. Holds(L1, c, u)
        <5> HIDE DEF c, u
        <5> QED
          BY <1>1, <2>2, <3>2, Geometry, PresentHolds
      <4>3. n \in HoldersOf(s.l1, u) /\ u \in Blocks \ {b}
        BY <2>2, <2>4, <3>2, <4>2 DEF HoldersOf
      <4> HIDE DEF u
      <4>4. n \in TrackersOf(s.dir, u)
        BY <1>1, <4>3 DEF Exact
      <4>5. HasEntry(s.dir, u)
        BY <1>1, <4>3, <4>4, TrackedHasEntry
      <4>6. isDirty \in BOOLEAN
        BY <2>2, <3>2
      <4> HIDE DEF isDirty, e
      <4>7. \A kept \in BOOLEAN :
              LET v == WBFromL1(s, n, u, isDirty, kept)
              IN /\ GoodState(v) /\ v.l1 = s.l1
                 /\ ~kept => v.dir = RemoveTracker(s.dir, u, n)
                 /\ v.aborted = (s.aborted \/ ~HasEntry(s.dir, u))
        BY <1>1, <4>3, <4>6, WBFromL1Good
      <4> HIDE DEF victim
      <4> QED
        BY <1>1, <3>2, <4>1, <4>5, <4>7
    <3> QED
      BY <3>1, <3>2
  <2>9. t = q
    BY Zenon, <2>5, <2>8 DEF f
  <2> HIDE DEF e
  <2>15. Replaced(e, q, n, k, f)
    <3>1. Plain(e.l1)
      BY <1>1, <2>8
    <3> QED
      BY <2>6, <2>7, <2>8, <3>1, ReplaceL1Plain
  <2> HIDE DEF q, t, victim
  <2>10. /\ GoodState(q) /\ Plain(q.l1)
         /\ q.dir = e.dir /\ q.aborted = e.aborted
         /\ q.l1[n][k] = f
         /\ \A m \in Cores, j \in L1Kinds :
              ~(m = n /\ j = k) => q.l1[m][j] = e.l1[m][j]
    BY <2>15 DEF Replaced
  <2>11. /\ HoldersOf(q.l1, b) = HoldersOf(s.l1, b) \cup {n}
         /\ DirtyIn(q.l1, b) =
              DirtyIn(s.l1, b) \cup (IF isWrite THEN {n} ELSE {})
         /\ GivesUp(s.l1, q.l1, n, b, u)
    <3>1. \A x \in Blocks : Present(q.l1[n][k], x) <=>
                              x = b \/ (Present(s.l1[n][k], x) /\ x # u)
      BY <2>6, <2>10
    <3>2. EntryOf(L1, q.l1[n][k], b).dirty <=>
            \/ isWrite
            \/ Present(s.l1[n][k], b) /\ EntryOf(L1, s.l1[n][k], b).dirty
      BY <1>4, <2>6, <2>10
    <3>3. \A x \in Blocks : x # b /\ Present(q.l1[n][k], x) =>
            (EntryOf(L1, q.l1[n][k], x).dirty <=>
               EntryOf(L1, s.l1[n][k], x).dirty)
      BY <2>6, <2>10
    <3>4. \A m \in Cores, j \in L1Kinds :
            ~(m = n /\ j = k) => q.l1[m][j] = s.l1[m][j]
      BY <2>8, <2>10
    <3>5. /\ GoodState(s) /\ Plain(s.l1) /\ GoodState(q) /\ Plain(q.l1)
          /\ u # b
          /\ (u \in Blocks => u \in BlocksOf(k))
      BY <1>1, <2>4, <2>10
    <3> HIDE DEF u, c
    <3> QED
      BY SMTT(60), <3>1, <3>2, <3>3, <3>4, <3>5, CopiesAfter
  <2>12. \A x \in Blocks \ {b} : Exact(t.l1, t.dir, x)
    <3> SUFFICES ASSUME NEW x \in Blocks \ {b}
                 PROVE  Exact(q.l1, q.dir, x)
      BY <2>9
    <3> HIDE DEF u
    <3>1. CASE x # u
      <4>1. HoldersOf(q.l1, x) = HoldersOf(s.l1, x)
            /\ DirtyIn(q.l1, x) = DirtyIn(s.l1, x)
        BY <2>11, <3>1 DEF GivesUp
      <4>2. q.dir[x] = s.dir[x]
        <5>1. CASE ~victim.valid
          BY <2>8, <2>10, <5>1
        <5>2. CASE victim.valid
          <6>1. u \in Blocks
            BY <2>2, <5>2
          <6> QED
            BY <1>1, <2>8, <2>10, <3>1, <5>2, <6>1, RemoveTrackerMatches
        <5> QED
          BY <5>1, <5>2
      <4> QED
        BY <1>1, <4>1, <4>2 DEF Exact, TrackersOf, StateOf
    <3>2. CASE x = u
      <4>1. q.dir = RemoveTracker(s.dir, x, n)
        BY <2>4, <2>8, <2>10, <3>2
      <4>2. HoldersOf(q.l1, x) = HoldersOf(s.l1, x) \ {n}
            /\ DirtyIn(q.l1, x) = DirtyIn(s.l1, x) \ {n}
        BY <2>11, <3>2 DEF GivesUp
      <4>3. Exact(s.l1, s.dir, x) /\ EntryMatches(s.dir, x)
        BY <1>1 DEF EntryOK
      <4> QED
        BY <1>1, <4>1, <4>2, <4>3, GivenUpExact
    <3> QED
      BY <3>1, <3>2
  <2>13. CoherentBut(t, b)
    BY <1>2, <2>8, <2>9, <2>10, <2>12 DEF CoherentBut
  <2>14. MakesCopy(s.l1, t.l1, n, b, isWrite)
    <3> HIDE DEF u
    <3> QED
      BY <2>4, <2>9, <2>11 DEF MakesCopy, MakesRoom
  <2> QED
    BY <1>2, <2>13, <2>14 DEF t
<1> QED
  BY <1>3, <1>4

-----------------------------------------------------------------------------
(***************************************************************************)
(* The branches of Hierarchy::handleAccess.                                *)
(***************************************************************************)
\* What the other cores have done before core n accesses block b, from the L1s f
\* to the L1s g: nothing before a read, dropped the block before a write.
MadeWay(f, g, n, b, isWrite) ==
  /\ \A x \in Blocks \ {b} : /\ HoldersOf(g, x) = HoldersOf(f, x)
                             /\ DirtyIn(g, x) = DirtyIn(f, x)
  /\ IF isWrite THEN HoldersOf(g, b) \subseteq {n}
     ELSE HoldersOf(g, b) = HoldersOf(f, b) /\ DirtyIn(g, b) = DirtyIn(f, b)

\* Then the access shares or takes the block.
LEMMA AccessAfterWay ==
  ASSUME NEW f, NEW g, NEW h, NEW n \in Cores, NEW b \in Blocks,
         NEW isWrite \in BOOLEAN, MadeWay(f, g, n, b, isWrite),
         MakesCopy(g, h, n, b, isWrite)
  PROVE  SharesOrTakes(f, h, n, b, isWrite)
<1>1. PICK v \in Blocks \cup {NoBlock} : GivesUp(g, h, n, b, v)
  BY DEF MakesCopy, MakesRoom
<1>2. GivesUp(f, h, n, b, v)
  BY <1>1 DEF GivesUp, MadeWay
<1>3. MakesRoom(f, h, n, b)
  BY <1>2 DEF MakesRoom
<1>4. CASE isWrite
  <2>1. HoldersOf(h, b) = {n} /\ DirtyIn(h, b) = {n}
    BY <1>4, DirtyIsHeld DEF MakesCopy, MadeWay
  <2> QED
    BY <1>3, <1>4, <2>1 DEF SharesOrTakes
<1>5. CASE ~isWrite
  BY <1>3, <1>5 DEF SharesOrTakes, MakesCopy, MadeWay
<1> QED
  BY <1>4, <1>5

LEMMA L1AccessSharesOrTakes ==
  ASSUME InstBlocks \cap DataBlocks = {}, NEW f, NEW s, NEW b \in Blocks,
         CoherentBut(s, b), NEW n \in Cores, NEW k \in L1Kinds,
         b \in BlocksOf(k), NEW isWrite \in BOOLEAN,
         MadeWay(f, s.l1, n, b, isWrite)
  PROVE  LET t == L1Access(s, n, k, b, isWrite)
         IN /\ CoherentBut(t, b)
            /\ t.dir[b] = s.dir[b]
            /\ SharesOrTakes(f, t.l1, n, b, isWrite)
BY L1AccessCoherent, AccessAfterWay

\* A core that has made no way may access what it alone holds.
LEMMA NoWayToMake ==
  ASSUME NEW f, NEW n \in Cores, NEW b \in Blocks, NEW isWrite \in BOOLEAN,
         isWrite => HoldersOf(f, b) \subseteq {n}
  PROVE  MadeWay(f, f, n, b, isWrite)
BY DEF MadeWay

\* Once the entry of the accessed block is exact again, all are.
LEMMA CoherentAgain ==
  ASSUME NEW s, NEW b \in Blocks, CoherentBut(s, b), Exact(s.l1, s.dir, b)
  PROVE  Coherent(s)
BY DEF Coherent, CoherentBut

LEMMA CoherentBefore ==
  ASSUME NEW s, AllOK(s), Coherent(s), NEW b \in Blocks
  PROVE  /\ CoherentBut(s, b) /\ s.dir \in Directories /\ GoodState(s)
         /\ Exact(s.l1, s.dir, b) /\ EntryOK(s, b)
BY DEF Coherent, CoherentBut, AllOK, OKBut, GoodState, StateRecords

\* A block that is nowhere.
LEMMA FetchFromMemoryCoherent ==
  ASSUME Roomy, NEW s, AllOK(s), Coherent(s), NEW n \in Cores,
         NEW r \in Requests,
         StateOf(AddEntry(s.dir, r.block), r.block) = "NOT_PRESENT"
  PROVE  LET t == FetchFromMemory(s, n, r)
         IN Coherent(t) /\ SharesOrTakes(s.l1, t.l1, n, r.block, IsWrite(r))
<1> DEFINE b == r.block
           k == Kind(r)
           isWrite == IsWrite(r)
           d0 == AddEntry(s.dir, b)
           d1 == SetTrackerToEntry(d0, b, n)
           s1 == [s EXCEPT !.dir = d1]
           s2 == L1Access(s1, n, k, b, isWrite)
           s3 == LLCAccess(s2, b, isWrite, FALSE)
           d4 == SetState(s3.dir, b, "EXCLUSIVE_L1")
           s4 == [s3 EXCEPT !.dir = d4]
           x == IF isWrite THEN "writeFetch" ELSE "readFetch"
<1>1. /\ b \in Blocks /\ k \in L1Kinds /\ isWrite \in BOOLEAN
      /\ b \in BlocksOf(k)
  BY RequestFacts, RequestKind
<1>2. FetchFromMemory(s, n, r) =
        Count([UpdateEntry(s3, b) EXCEPT !.dir = SetState(@, b, "EXCLUSIVE_L1")],
              x)
  BY DEF FetchFromMemory
<1>3. StateOf(d0, b) = "NOT_PRESENT"
  OBVIOUS
<1> HIDE DEF b, k, isWrite
<1>4. /\ CoherentBut(s, b) /\ s.dir \in Directories
      /\ Exact(s.l1, s.dir, b) /\ EntryOK(s, b)
  BY <1>1, CoherentBefore
<1>5. ~HasEntry(s.dir, b)
  BY <1>3, <1>4 DEF AddEntry, EntryOK
<1>6. HoldersOf(s.l1, b) = {}
  BY <1>1, <1>4, <1>5, DirectoryEntry DEF Exact
<1>7. /\ d0 \in Directories /\ HasEntry(d0, b)
      /\ \A y \in Blocks : y # b => d0[y] = s.dir[y]
  BY <1>1, <1>4, <1>5
  DEF AddEntry, Directories, Entries, NoEntry, HasEntry, TrackersOf, States
<1> HIDE DEF d0
<1>8. /\ d1 \in Directories /\ HasEntry(d1, b)
      /\ TrackersOf(d1, b) = {n}
      /\ \A y \in Blocks : y # b => d1[y] = s.dir[y]
  BY <1>1, <1>7, SetTrackersEntry
<1> HIDE DEF d1
<1>9. CoherentBut(s1, b) /\ s1.l1 = s.l1 /\ s1.dir = d1
  BY <1>1, <1>4, <1>8, SetDirCoherent
<1> HIDE DEF s1
<1>10. /\ CoherentBut(s2, b) /\ s2.dir[b] = d1[b]
       /\ SharesOrTakes(s.l1, s2.l1, n, b, isWrite)
  <2>1. MadeWay(s.l1, s1.l1, n, b, isWrite)
    BY <1>1, <1>6, <1>9, NoWayToMake
  <2> QED
    BY <1>1, <1>9, <2>1, L1AccessSharesOrTakes DEF Roomy
<1> HIDE DEF s2
<1>11. HasEntry(s2.dir, b) /\ TrackersOf(s2.dir, b) = {n}
  BY <1>8, <1>10 DEF HasEntry, TrackersOf
<1>12. /\ CoherentBut(s3, b) /\ s3.l1 = s2.l1 /\ s3.dir = s2.dir
       /\ UpdateEntry(s3, b) = s3
  <2>1. \A p \in BOOLEAN :
          LET t == LLCAccess(s2, b, isWrite, p)
          IN /\ CoherentBut(t, b) /\ t.l1 = s2.l1 /\ t.dir = s2.dir
             /\ UpdateEntry(t, b) = t
    BY <1>1, <1>10, <1>11, LLCAccessCoherent
  <2> QED
    BY <2>1
<1>13. FetchFromMemory(s, n, r) = Count(s4, x)
  BY <1>2, <1>12
<1> HIDE DEF s3
<1>14. s3.dir \in Directories
  BY <1>12 DEF CoherentBut, OKBut, GoodState, StateRecords
<1>15. /\ d4 \in Directories
       /\ StateOf(d4, b) = "EXCLUSIVE_L1"
       /\ TrackersOf(d4, b) = TrackersOf(s3.dir, b)
       /\ \A y \in Blocks : y # b => d4[y] = s3.dir[y]
  <2>1. "EXCLUSIVE_L1" \in States
    BY DEF States
  <2> QED
    BY <1>1, <1>14, <2>1, SetStateEntry
<1> HIDE DEF d4
<1>16. CoherentBut(s4, b) /\ s4.l1 = s3.l1 /\ s4.dir = d4
  BY <1>1, <1>12, <1>15, SetDirCoherent
<1> HIDE DEF s4
<1>17. x \in Stats
  BY DEF Stats
<1> HIDE DEF x
<1> DEFINE t == Count(s4, x)
<1>18. CoherentBut(t, b) /\ t.l1 = s4.l1 /\ t.dir = s4.dir
  BY <1>1, <1>16, <1>17, CountCoherent
<1> HIDE DEF t
<1>19. Exact(t.l1, t.dir, b)
  <2>1. HoldersOf(s2.l1, b) = {n}
    BY <1>1, <1>6, <1>10 DEF SharesOrTakes
  <2> QED
    BY <1>11, <1>12, <1>15, <1>16, <1>18, <2>1 DEF Exact
<1>20. Coherent(t) /\ SharesOrTakes(s.l1, t.l1, n, b, isWrite)
  BY <1>1, <1>10, <1>12, <1>16, <1>18, <1>19, CoherentAgain
<1> QED
  BY <1>13, <1>20 DEF t, b, isWrite

\* A block of the LLC.
LEMMA FetchFromLLCCoherent ==
  ASSUME Roomy, NEW s, AllOK(s), Coherent(s), NEW n \in Cores,
         NEW r \in Requests, HasEntry(s.dir, r.block),
         StateOf(s.dir, r.block) \in {"CLEAN_LLC", "DIRTY_LLC"}
  PROVE  LET t == FetchFromLLC(s, n, r)
         IN Coherent(t) /\ SharesOrTakes(s.l1, t.l1, n, r.block, IsWrite(r))
<1> DEFINE b == r.block
           k == Kind(r)
           isWrite == IsWrite(r)
           d0 == SetState(s.dir, b, "EXCLUSIVE_L1")
           d1 == SetTrackerToEntry(d0, b, n)
           s1 == [s EXCEPT !.dir = d1]
           s2 == L1Access(s1, n, k, b, isWrite)
           s3 == LLCAccess(s2, b, isWrite, FALSE)
           isPrefetched == Present(s3.llc, b) /\ EntryOf(LLC, s3.llc, b).prefetch
           s4 == IF isPrefetched THEN Count(s3, "hitPrefetch") ELSE s3
           c == ResetPrefetchFlag(LLC, s4.llc, b)
           s5 == [s4 EXCEPT !.llc = c]
           t == UpdateEntry(s5, b)
<1>1. /\ b \in Blocks /\ k \in L1Kinds /\ isWrite \in BOOLEAN
      /\ b \in BlocksOf(k)
  BY RequestFacts, RequestKind
<1>2. FetchFromLLC(s, n, r) = t
  BY DEF FetchFromLLC
<1>3. StateOf(s.dir, b) \in {"CLEAN_LLC", "DIRTY_LLC"}
  OBVIOUS
<1>21. AllOK(t)
  BY <1>2, FetchFromLLCOK DEF Coherent
<1> HIDE DEF b, k, isWrite
<1>4. /\ CoherentBut(s, b) /\ s.dir \in Directories
      /\ Exact(s.l1, s.dir, b) /\ EntryOK(s, b)
  BY <1>1, CoherentBefore
<1>6. HoldersOf(s.l1, b) = {}
  BY <1>1, <1>3, <1>4 DEF Exact, EntryOK, EntryMatches
<1>7. /\ d0 \in Directories /\ HasEntry(d0, b)
      /\ StateOf(d0, b) = "EXCLUSIVE_L1"
      /\ \A y \in Blocks : y # b => d0[y] = s.dir[y]
  <2>1. "EXCLUSIVE_L1" \in States
    BY DEF States
  <2> QED
    BY <1>1, <1>4, <2>1, SetStateEntry
<1> HIDE DEF d0
<1>8. /\ d1 \in Directories /\ HasEntry(d1, b)
      /\ StateOf(d1, b) = "EXCLUSIVE_L1" /\ TrackersOf(d1, b) = {n}
      /\ \A y \in Blocks : y # b => d1[y] = s.dir[y]
  BY <1>1, <1>7, SetTrackersEntry
<1> HIDE DEF d1
<1>9. CoherentBut(s1, b) /\ s1.l1 = s.l1 /\ s1.dir = d1
  BY <1>1, <1>4, <1>8, SetDirCoherent
<1> HIDE DEF s1
<1>10. /\ CoherentBut(s2, b) /\ s2.dir[b] = d1[b]
       /\ SharesOrTakes(s.l1, s2.l1, n, b, isWrite)
  <2>1. MadeWay(s.l1, s1.l1, n, b, isWrite)
    BY <1>1, <1>6, <1>9, NoWayToMake
  <2> QED
    BY <1>1, <1>9, <2>1, L1AccessSharesOrTakes DEF Roomy
<1> HIDE DEF s2
<1>11. /\ HasEntry(s2.dir, b) /\ TrackersOf(s2.dir, b) = {n}
       /\ StateOf(s2.dir, b) = "EXCLUSIVE_L1"
  BY <1>8, <1>10 DEF HasEntry, TrackersOf, StateOf
<1>12. CoherentBut(s3, b) /\ s3.l1 = s2.l1 /\ s3.dir = s2.dir
  <2>1. \A p \in BOOLEAN :
          LET u == LLCAccess(s2, b, isWrite, p)
          IN CoherentBut(u, b) /\ u.l1 = s2.l1 /\ u.dir = s2.dir
    BY <1>1, <1>10, <1>11, LLCAccessCoherent
  <2> QED
    BY <2>1
<1> HIDE DEF s3
<1>13. CoherentBut(s4, b) /\ s4.l1 = s3.l1 /\ s4.dir = s3.dir
  <2>1. "hitPrefetch" \in Stats
    BY DEF Stats
  <2> HIDE DEF isPrefetched
  <2> QED
    BY <1>1, <1>12, <2>1, CountCoherent
<1> HIDE DEF s4
<1>14. GoodState(s4)
  BY <1>13 DEF CoherentBut, OKBut
<1>15. GoodCache(LLC, c) /\ NoGhost(LLC, c)
  BY <1>1, <1>14, Geometry, ResetPrefetchFlagGood DEF GoodState
<1> HIDE DEF c
<1>16. /\ GoodState(s5) /\ s5.dir = s4.dir /\ s5.l1 = s4.l1
       /\ s5.aborted = FALSE
  BY <1>13, <1>14, <1>15, SetLLCGood DEF CoherentBut
<1> HIDE DEF s5
<1>17. t = s5
  BY <1>11, <1>12, <1>13, <1>16
  DEF UpdateEntry, Require, GoodState, StateRecords, HasEntry
<1> HIDE DEF t
<1>18. t.l1 = s2.l1 /\ t.dir = s2.dir /\ t.aborted = FALSE
  BY <1>12, <1>13, <1>16, <1>17
<1>19. CoherentBut(t, b)
  <2>1. OKBut(t, b)
    BY <1>1, <1>21, OKButAllOK
  <2> QED
    BY <1>10, <1>18, <2>1 DEF CoherentBut
<1>20. Exact(t.l1, t.dir, b)
  <2>1. HoldersOf(s2.l1, b) = {n}
    BY <1>1, <1>6, <1>10 DEF SharesOrTakes
  <2> QED
    BY <1>11, <1>18, <2>1 DEF Exact
<1>22. Coherent(t) /\ SharesOrTakes(s.l1, t.l1, n, b, isWrite)
  BY <1>1, <1>10, <1>18, <1>19, <1>20, CoherentAgain
<1> QED
  BY <1>2, <1>22 DEF t, b, isWrite

\* The core has the block already, and is its one tracker.
LEMMA AccessAsOwnerCoherent ==
  ASSUME Roomy, NEW s, AllOK(s), Coherent(s), NEW n \in Cores,
         NEW r \in Requests, TrackersOf(s.dir, r.block) = {n}
  PROVE  LET t == AccessAsOwner(s, n, r)
         IN Coherent(t) /\ SharesOrTakes(s.l1, t.l1, n, r.block, IsWrite(r))
<1> DEFINE b == r.block
           k == Kind(r)
           isWrite == IsWrite(r)
           isFirst == IsWrite(r) /\ StateOf(s.dir, b) = "EXCLUSIVE_L1"
           d1 == SetState(s.dir, b, "MODIFIED_L1")
           s1 == IF isFirst THEN [s EXCEPT !.dir = d1] ELSE s
           t == L1Access(s1, n, k, b, isWrite)
<1>1. /\ b \in Blocks /\ k \in L1Kinds /\ isWrite \in BOOLEAN
      /\ b \in BlocksOf(k)
  BY RequestFacts, RequestKind
<1>2. AccessAsOwner(s, n, r) = t
  BY DEF AccessAsOwner
<1>3. TrackersOf(s.dir, b) = {n} /\ (isFirst => isWrite)
  OBVIOUS
<1> HIDE DEF b, k, isWrite, isFirst
<1>4. /\ CoherentBut(s, b) /\ s.dir \in Directories
      /\ Exact(s.l1, s.dir, b)
  BY <1>1, CoherentBefore
<1>5. /\ d1 \in Directories
      /\ TrackersOf(d1, b) = TrackersOf(s.dir, b)
      /\ \A y \in Blocks : y # b => d1[y] = s.dir[y]
  <2>1. "MODIFIED_L1" \in States
    BY DEF States
  <2> QED
    BY <1>1, <1>4, <2>1, SetStateEntry
<1> HIDE DEF d1
<1>6. /\ CoherentBut(s1, b) /\ s1.l1 = s.l1
      /\ TrackersOf(s1.dir, b) = {n} /\ (~isFirst => s1.dir = s.dir)
  <2>1. CASE isFirst
    BY <1>1, <1>3, <1>4, <1>5, <2>1, SetDirCoherent
  <2>2. CASE ~isFirst
    BY <1>3, <1>4, <2>2
  <2> QED
    BY <2>1, <2>2
<1> HIDE DEF s1
<1>7. HoldersOf(s.l1, b) = {n}
  BY <1>3, <1>4 DEF Exact
<1>8. /\ CoherentBut(t, b) /\ t.dir[b] = s1.dir[b]
      /\ SharesOrTakes(s.l1, t.l1, n, b, isWrite)
  <2>1. MadeWay(s.l1, s1.l1, n, b, isWrite)
    BY <1>1, <1>6, <1>7, NoWayToMake
  <2> QED
    BY <1>1, <1>6, <2>1, L1AccessSharesOrTakes DEF Roomy
<1> HIDE DEF t
<1>9. Exact(t.l1, t.dir, b)
  <2>1. TrackersOf(t.dir, b) = {n} /\ StateOf(t.dir, b) = StateOf(s1.dir, b)
    BY <1>6, <1>8 DEF TrackersOf, StateOf
  <2>2. CASE isWrite
    <3>1. HoldersOf(t.l1, b) = {n} /\ DirtyIn(t.l1, b) = {n}
      BY <1>8, <2>2 DEF SharesOrTakes
    <3> QED
      BY <2>1, <3>1 DEF Exact
  <2>3. CASE ~isWrite
    <3>1. /\ HoldersOf(t.l1, b) = {n}
          /\ DirtyIn(t.l1, b) = DirtyIn(s.l1, b)
      BY <1>7, <1>8, <2>3 DEF SharesOrTakes
    <3>2. s1.dir = s.dir
      BY <1>3, <1>6, <2>3
    <3> QED
      BY <1>4, <2>1, <3>1, <3>2 DEF Exact
  <2> QED
    BY <2>2, <2>3
<1>10. Coherent(t) /\ SharesOrTakes(s.l1, t.l1, n, b, isWrite)
  BY <1>1, <1>8, <1>9, CoherentAgain
<1> QED
  BY <1>2, <1>10 DEF t, b, isWrite

\* The last steps of an access that goes through the LLC, from a state in which
\* the entry has what it is left with.
LEMMA ThroughLLCCoherent ==
  ASSUME Roomy, NEW f, NEW s, NEW b \in Blocks, CoherentBut(s, b),
         HasEntry(s.dir, b), StateOf(s.dir, b) # "MODIFIED_L1",
         NEW n \in Cores, NEW k \in L1Kinds, b \in BlocksOf(k),
         NEW isWrite \in BOOLEAN, MadeWay(f, s.l1, n, b, isWrite),
         TrackersOf(s.dir, b) = IF isWrite THEN {n} ELSE HoldersOf(f, b) \cup {n}
  PROVE  LET t == L1Access(UpdateEntry(LLCAccess(s, b, isWrite, FALSE), b),
                           n, k, b, isWrite)
         IN Coherent(t) /\ SharesOrTakes(f, t.l1, n, b, isWrite)
<1> DEFINE u == LLCAccess(s, b, isWrite, FALSE)
           t == L1Access(u, n, k, b, isWrite)
<1>1. /\ CoherentBut(u, b) /\ u.l1 = s.l1 /\ u.dir = s.dir
      /\ UpdateEntry(u, b) = u
  <2>1. \A p \in BOOLEAN :
          LET v == LLCAccess(s, b, isWrite, p)
          IN /\ CoherentBut(v, b) /\ v.l1 = s.l1 /\ v.dir = s.dir
             /\ UpdateEntry(v, b) = v
    BY LLCAccessCoherent
  <2> QED
    BY <2>1
<1> HIDE DEF u
<1>2. /\ CoherentBut(t, b) /\ t.dir[b] = u.dir[b]
      /\ SharesOrTakes(f, t.l1, n, b, isWrite)
  BY <1>1, L1AccessSharesOrTakes DEF Roomy
<1> HIDE DEF t
<1>3. Exact(t.l1, t.dir, b)
  <2>1. /\ TrackersOf(t.dir, b) = TrackersOf(s.dir, b)
        /\ StateOf(t.dir, b) = StateOf(s.dir, b)
    BY <1>1, <1>2 DEF TrackersOf, StateOf
  <2> QED
    BY <1>2, <2>1 DEF Exact, SharesOrTakes
<1>4. Coherent(t) /\ SharesOrTakes(f, t.l1, n, b, isWrite)
  BY <1>2, <1>3, CoherentAgain
<1> QED
  BY <1>1, <1>4 DEF t, u

\* A core reads what core m owns.
LEMMA ShareWithOwnerCoherent ==
  ASSUME Roomy, NEW s, AllOK(s), Coherent(s), NEW n \in Cores, NEW m \in Cores,
         NEW r \in Requests, HasEntry(s.dir, r.block), ~IsWrite(r)
  PROVE  LET t == ShareWithOwner(s, n, m, r)
         IN Coherent(t) /\ SharesOrTakes(s.l1, t.l1, n, r.block, IsWrite(r))
<1> DEFINE b == r.block
           k == Kind(r)
           s1 == WriteBackByOwner(s, m, r)
           d1 == AddTrackerToEntry(s1.dir, b, n)
           d2 == SetState(d1, b, "SHARED_L1")
           s2 == [s1 EXCEPT !.dir = d2]
           t == L1Access(UpdateEntry(LLCAccess(s2, b, FALSE, FALSE), b),
                         n, k, b, FALSE)
<1>1. /\ b \in Blocks /\ k \in L1Kinds /\ b \in BlocksOf(k)
      /\ IsWrite(r) = FALSE
  BY RequestFacts, RequestKind
<1>2. ShareWithOwner(s, n, m, r) = t
  BY DEF ShareWithOwner
<1>3. CoherentBut(s1, b) /\ s1.l1 = s.l1 /\ s1.dir = s.dir
  BY <1>1, CoherentBefore, WriteBackByOwnerCoherent
<1>4. HasEntry(s.dir, b)
  OBVIOUS
<1> HIDE DEF b, k, s1
<1>5. s.dir \in Directories /\ Exact(s.l1, s.dir, b)
  BY <1>1, CoherentBefore
<1>6. /\ d1 \in Directories /\ HasEntry(d1, b)
      /\ TrackersOf(d1, b) = TrackersOf(s.dir, b) \cup {n}
      /\ \A y \in Blocks : y # b => d1[y] = s1.dir[y]
  BY <1>1, <1>3, <1>4, <1>5, SetTrackersEntry
<1> HIDE DEF d1
<1>7. /\ d2 \in Directories /\ HasEntry(d2, b)
      /\ StateOf(d2, b) = "SHARED_L1"
      /\ TrackersOf(d2, b) = HoldersOf(s.l1, b) \cup {n}
      /\ \A y \in Blocks : y # b => d2[y] = s1.dir[y]
  <2>1. "SHARED_L1" \in States
    BY DEF States
  <2> QED
    BY <1>1, <1>5, <1>6, <2>1, SetStateEntry DEF Exact
<1> HIDE DEF d2
<1>8. CoherentBut(s2, b) /\ s2.l1 = s.l1 /\ s2.dir = d2
  BY <1>1, <1>3, <1>7, SetDirCoherent
<1> HIDE DEF s2
<1>9. Coherent(t) /\ SharesOrTakes(s.l1, t.l1, n, b, FALSE)
  <2>1. \A p \in BOOLEAN : p = FALSE => MadeWay(s.l1, s2.l1, n, b, p)
    BY <1>1, <1>8, NoWayToMake
  <2>2. \A p \in BOOLEAN : p = FALSE =>
          LET u == L1Access(UpdateEntry(LLCAccess(s2, b, p, FALSE), b),
                            n, k, b, p)
          IN Coherent(u) /\ SharesOrTakes(s.l1, u.l1, n, b, p)
    <3> SUFFICES ASSUME NEW p \in BOOLEAN, p = FALSE
                 PROVE  LET u == L1Access(UpdateEntry(LLCAccess(s2, b, p, FALSE), b),
                                          n, k, b, p)
                        IN Coherent(u) /\ SharesOrTakes(s.l1, u.l1, n, b, p)
      OBVIOUS
    <3>1. /\ MadeWay(s.l1, s2.l1, n, b, p)
          /\ TrackersOf(s2.dir, b) =
               IF p THEN {n} ELSE HoldersOf(s.l1, b) \cup {n}
          /\ HasEntry(s2.dir, b) /\ StateOf(s2.dir, b) # "MODIFIED_L1"
      BY <1>7, <1>8, <2>1
    <3> QED
      BY <1>1, <1>8, <3>1, ThroughLLCCoherent
  <2> QED
    BY <2>2
<1> QED
  BY <1>1, <1>2, <1>9 DEF t, b

\* A core takes what the others have been told to drop.
LEMMA TakenCoherent ==
  ASSUME Roomy, NEW f, NEW s, NEW b \in Blocks, CoherentBut(s, b), s.l1 = f,
         HasEntry(s.dir, b), NEW nodes, HoldersOf(f, b) \subseteq nodes,
         NEW n \in Cores, NEW k \in L1Kinds, b \in BlocksOf(k)
  PROVE  LET taken == [L1sDrop(s, nodes, b) EXCEPT
                         !.dir = SetState(SetTrackerToEntry(@, b, n), b,
                                          "EXCLUSIVE_L1")]
             t == L1Access(UpdateEntry(LLCAccess(taken, b, TRUE, FALSE), b),
                           n, k, b, TRUE)
         IN Coherent(t) /\ SharesOrTakes(f, t.l1, n, b, TRUE)
<1> DEFINE s1 == L1sDrop(s, nodes, b)
           d1 == SetTrackerToEntry(s1.dir, b, n)
           d2 == SetState(d1, b, "EXCLUSIVE_L1")
           s2 == [s1 EXCEPT !.dir = d2]
           t == L1Access(UpdateEntry(LLCAccess(s2, b, TRUE, FALSE), b),
                         n, k, b, TRUE)
<1>1. /\ CoherentBut(s1, b) /\ s1.dir = s.dir
      /\ HoldersOf(s1.l1, b) = {}
      /\ \A x \in Blocks : x # b =>
           /\ HoldersOf(s1.l1, x) = HoldersOf(f, x)
           /\ DirtyIn(s1.l1, x) = DirtyIn(f, x)
  BY L1sDropCoherent DEF Roomy
<1> HIDE DEF s1
<1>2. s1.dir \in Directories /\ HasEntry(s1.dir, b)
  BY <1>1 DEF CoherentBut, OKBut, GoodState, StateRecords
<1>3. /\ d1 \in Directories /\ HasEntry(d1, b) /\ TrackersOf(d1, b) = {n}
      /\ \A y \in Blocks : y # b => d1[y] = s1.dir[y]
  BY <1>2, SetTrackersEntry
<1> HIDE DEF d1
<1>4. /\ d2 \in Directories /\ HasEntry(d2, b)
      /\ StateOf(d2, b) = "EXCLUSIVE_L1" /\ TrackersOf(d2, b) = {n}
      /\ \A y \in Blocks : y # b => d2[y] = s1.dir[y]
  <2>1. "EXCLUSIVE_L1" \in States
    BY DEF States
  <2> QED
    BY <1>3, <2>1, SetStateEntry
<1> HIDE DEF d2
<1>5. CoherentBut(s2, b) /\ s2.l1 = s1.l1 /\ s2.dir = d2
  BY <1>1, <1>4, SetDirCoherent
<1> HIDE DEF s2
<1>6. \A p \in BOOLEAN : p = TRUE =>
        LET u == L1Access(UpdateEntry(LLCAccess(s2, b, p, FALSE), b),
                          n, k, b, p)
        IN Coherent(u) /\ SharesOrTakes(f, u.l1, n, b, p)
  <2> SUFFICES ASSUME NEW p \in BOOLEAN, p = TRUE
               PROVE  LET u == L1Access(UpdateEntry(LLCAccess(s2, b, p, FALSE), b),
                                        n, k, b, p)
                      IN Coherent(u) /\ SharesOrTakes(f, u.l1, n, b, p)
    OBVIOUS
  <2>1. MadeWay(f, s2.l1, n, b, p)
    BY <1>1, <1>5 DEF MadeWay
  <2>2. /\ TrackersOf(s2.dir, b) = IF p THEN {n} ELSE HoldersOf(f, b) \cup {n}
        /\ HasEntry(s2.dir, b) /\ StateOf(s2.dir, b) # "MODIFIED_L1"
    BY <1>4, <1>5
  <2> QED
    BY <1>5, <2>1, <2>2, ThroughLLCCoherent
<1>7. Coherent(t) /\ SharesOrTakes(f, t.l1, n, b, TRUE)
  BY <1>6
<1> QED
  BY <1>7 DEF t, s2, d2, d1, s1

\* A core writes what core m owns.
LEMMA TakeFromOwnerCoherent ==
  ASSUME Roomy, NEW s, AllOK(s), Coherent(s), NEW n \in Cores, NEW m \in Cores,
         NEW r \in Requests, HasEntry(s.dir, r.block), IsWrite(r),
         TrackersOf(s.dir, r.block) = {m}
  PROVE  LET t == TakeFromOwner(s, n, m, r)
         IN Coherent(t) /\ SharesOrTakes(s.l1, t.l1, n, r.block, IsWrite(r))
<1> DEFINE b == r.block
           k == Kind(r)
           s1 == WriteBackByOwner(s, m, r)
           taken == [L1sDrop(s1, {m}, b) EXCEPT
                       !.dir = SetState(SetTrackerToEntry(@, b, n), b,
                                        "EXCLUSIVE_L1")]
           t == L1Access(UpdateEntry(LLCAccess(taken, b, TRUE, FALSE), b),
                         n, k, b, TRUE)
<1>1. /\ b \in Blocks /\ k \in L1Kinds /\ b \in BlocksOf(k)
      /\ IsWrite(r) = TRUE
  BY RequestFacts, RequestKind
<1>2. TakeFromOwner(s, n, m, r) = t
  BY DEF TakeFromOwner
<1>3. CoherentBut(s1, b) /\ s1.l1 = s.l1 /\ s1.dir = s.dir
  BY <1>1, CoherentBefore, WriteBackByOwnerCoherent
<1>4. HasEntry(s.dir, b) /\ TrackersOf(s.dir, b) = {m}
  OBVIOUS
<1> HIDE DEF b, k, s1
<1>5. HoldersOf(s.l1, b) \subseteq {m}
  BY <1>1, <1>4, CoherentBefore DEF Exact
<1>6. Coherent(t) /\ SharesOrTakes(s.l1, t.l1, n, b, TRUE)
  BY <1>1, <1>3, <1>4, <1>5, TakenCoherent
<1> QED
  BY <1>1, <1>2, <1>6 DEF t, b

\* A core writes a shared block.
LEMMA TakeFromSharersCoherent ==
  ASSUME Roomy, NEW s, AllOK(s), Coherent(s), NEW n \in Cores,
         NEW r \in Requests, HasEntry(s.dir, r.block), IsWrite(r)
  PROVE  LET t == TakeFromSharers(s, n, r)
         IN Coherent(t) /\ SharesOrTakes(s.l1, t.l1, n, r.block, IsWrite(r))
<1> DEFINE b == r.block
           k == Kind(r)
           nodes == TrackersOf(s.dir, b)
           taken == [L1sDrop(s, nodes, b) EXCEPT
                       !.dir = SetState(SetTrackerToEntry(@, b, n), b,
                                        "EXCLUSIVE_L1")]
           t == L1Access(UpdateEntry(LLCAccess(taken, b, TRUE, FALSE), b),
                         n, k, b, TRUE)
<1>1. /\ b \in Blocks /\ k \in L1Kinds /\ b \in BlocksOf(k)
      /\ IsWrite(r) = TRUE
  BY RequestFacts, RequestKind
<1>2. TakeFromSharers(s, n, r) = t
  BY DEF TakeFromSharers
<1>3. HasEntry(s.dir, b)
  OBVIOUS
<1> HIDE DEF b, k
<1>4. CoherentBut(s, b) /\ HoldersOf(s.l1, b) \subseteq nodes
  BY <1>1, CoherentBefore DEF Exact
<1> HIDE DEF nodes
<1>5. Coherent(t) /\ SharesOrTakes(s.l1, t.l1, n, b, TRUE)
  BY <1>1, <1>3, <1>4, TakenCoherent
<1> QED
  BY <1>1, <1>2, <1>5 DEF t, b, nodes

\* One more core reads a shared block.
LEMMA JoinSharersCoherent ==
  ASSUME Roomy, NEW s, AllOK(s), Coherent(s), NEW n \in Cores,
         NEW r \in Requests, HasEntry(s.dir, r.block),
         StateOf(s.dir, r.block) = "SHARED_L1", ~IsWrite(r)
  PROVE  LET t == JoinSharers(s, n, r)
         IN Coherent(t) /\ SharesOrTakes(s.l1, t.l1, n, r.block, IsWrite(r))
<1> DEFINE b == r.block
           k == Kind(r)
           d1 == AddTrackerToEntry(s.dir, b, n)
           s1 == [s EXCEPT !.dir = d1]
           t == L1Access(s1, n, k, b, FALSE)
<1>1. /\ b \in Blocks /\ k \in L1Kinds /\ b \in BlocksOf(k)
      /\ IsWrite(r) = FALSE
  BY RequestFacts, RequestKind
<1>2. JoinSharers(s, n, r) = t
  BY DEF JoinSharers
<1>3. HasEntry(s.dir, b) /\ StateOf(s.dir, b) = "SHARED_L1"
  OBVIOUS
<1> HIDE DEF b, k
<1>4. /\ CoherentBut(s, b) /\ s.dir \in Directories
      /\ Exact(s.l1, s.dir, b)
  BY <1>1, CoherentBefore
<1>5. /\ d1 \in Directories /\ StateOf(d1, b) = "SHARED_L1"
      /\ TrackersOf(d1, b) = TrackersOf(s.dir, b) \cup {n}
      /\ \A y \in Blocks : y # b => d1[y] = s.dir[y]
  BY <1>1, <1>3, <1>4, SetTrackersEntry
<1> HIDE DEF d1
<1>6. CoherentBut(s1, b) /\ s1.l1 = s.l1 /\ s1.dir = d1
  BY <1>1, <1>4, <1>5, SetDirCoherent
<1> HIDE DEF s1
<1>7. /\ CoherentBut(t, b) /\ t.dir[b] = s1.dir[b]
      /\ SharesOrTakes(s.l1, t.l1, n, b, FALSE)
  <2>1. \A p \in BOOLEAN : p = FALSE =>
          LET u == L1Access(s1, n, k, b, p)
          IN /\ CoherentBut(u, b) /\ u.dir[b] = s1.dir[b]
             /\ SharesOrTakes(s.l1, u.l1, n, b, p)
    <3> SUFFICES ASSUME NEW p \in BOOLEAN, p = FALSE
                 PROVE  LET u == L1Access(s1, n, k, b, p)
                        IN /\ CoherentBut(u, b) /\ u.dir[b] = s1.dir[b]
                           /\ SharesOrTakes(s.l1, u.l1, n, b, p)
      OBVIOUS
    <3>1. MadeWay(s.l1, s1.l1, n, b, p)
      BY <1>1, <1>6, NoWayToMake
    <3> QED
      BY <1>1, <1>6, <3>1, L1AccessSharesOrTakes DEF Roomy
  <2> QED
    BY <2>1
<1> HIDE DEF t
<1>8. Exact(t.l1, t.dir, b)
  BY <1>4, <1>5, <1>6, <1>7 DEF Exact, SharesOrTakes, TrackersOf, StateOf
<1>9. Coherent(t)
  BY <1>1, <1>7, <1>8, CoherentAgain
<1> QED
  BY <1>1, <1>2, <1>7, <1>9 DEF t, b

\* A prefetch: the block has no entry, so no copy, and gets an entry with no
\* tracker; the L1s stay as they are.
LEMMA PrefetchAddressCoherent ==
  ASSUME Roomy, NEW s, AllOK(s), Coherent(s), NEW b \in Blocks \cup {NoBlock}
  PROVE  LET t == PrefetchAddress(s, b) IN Coherent(t) /\ t.l1 = s.l1
<1> DEFINE d0 == AddEntry(s.dir, b)
           s0 == [s EXCEPT !.dir = d0]
           isNew == b # NoBlock /\ StateOf(s0.dir, b) = "NOT_PRESENT"
           s1 == LLCAccess(s0, b, FALSE, TRUE)
           d2 == SetState(s1.dir, b, "CLEAN_LLC")
           s2 == [s1 EXCEPT !.dir = d2]
<1>1. PrefetchAddress(s, b) =
        IF isNew
        THEN Count([UpdateEntry(s1, b) EXCEPT
                      !.dir = SetState(@, b, "CLEAN_LLC")], "issuedPrefetch")
        ELSE s
  BY DEF PrefetchAddress
<1>2. CASE ~isNew
  BY <1>1, <1>2
<1>3. CASE isNew
  <2>1. b \in Blocks
    BY <1>3
  <2>2. /\ CoherentBut(s, b) /\ s.dir \in Directories /\ GoodState(s)
        /\ Exact(s.l1, s.dir, b) /\ EntryOK(s, b)
    BY <2>1, CoherentBefore
  <2>3. s0.dir = d0
    BY <2>2 DEF GoodState, StateRecords
  <2>4. StateOf(d0, b) = "NOT_PRESENT"
    BY <1>3, <2>3
  <2>5. ~HasEntry(s.dir, b)
    BY <2>2, <2>4 DEF AddEntry, EntryOK
  <2>6. HoldersOf(s.l1, b) = {}
    BY <2>1, <2>2, <2>5, DirectoryEntry DEF Exact
  <2>7. /\ d0 \in Directories /\ HasEntry(d0, b) /\ TrackersOf(d0, b) = {}
        /\ \A x \in Blocks : x # b => d0[x] = s.dir[x]
    BY <2>1, <2>2, <2>5
    DEF AddEntry, Directories, Entries, States, HasEntry, NoEntry, TrackersOf
  <2> HIDE DEF d0
  <2>8. CoherentBut(s0, b) /\ s0.l1 = s.l1 /\ s0.dir = d0
    BY <2>1, <2>2, <2>7, SetDirCoherent
  <2> HIDE DEF s0
  <2>9. /\ CoherentBut(s1, b) /\ s1.l1 = s.l1 /\ s1.dir = d0
        /\ UpdateEntry(s1, b) = s1
    <3>1. \A p, q \in BOOLEAN :
            LET t == LLCAccess(s0, b, p, q)
            IN /\ CoherentBut(t, b) /\ t.l1 = s0.l1 /\ t.dir = s0.dir
               /\ UpdateEntry(t, b) = t
      BY <2>1, <2>7, <2>8, LLCAccessCoherent
    <3> QED
      BY <2>8, <3>1
  <2>10. PrefetchAddress(s, b) = Count(s2, "issuedPrefetch")
    BY <1>1, <1>3, <2>9
  <2> HIDE DEF s1
  <2>11. /\ d2 \in Directories
         /\ StateOf(d2, b) = "CLEAN_LLC" /\ TrackersOf(d2, b) = {}
         /\ \A x \in Blocks : x # b => d2[x] = s1.dir[x]
    <3>1. "CLEAN_LLC" \in States
      BY DEF States
    <3> QED
      BY <2>1, <2>7, <2>9, <3>1, SetStateEntry
  <2> HIDE DEF d2
  <2>12. CoherentBut(s2, b) /\ s2.l1 = s.l1 /\ s2.dir = d2
    BY <2>1, <2>9, <2>11, SetDirCoherent
  <2> HIDE DEF s2
  <2>13. "issuedPrefetch" \in Stats
    BY DEF Stats
  <2> DEFINE t == Count(s2, "issuedPrefetch")
  <2>14. CoherentBut(t, b) /\ t.l1 = s.l1 /\ t.dir = d2
    BY <2>1, <2>12, <2>13, CountCoherent
  <2> HIDE DEF t
  <2>15. Coherent(t)
    BY <2>1, <2>6, <2>11, <2>14, CoherentAgain DEF Exact
  <2> QED
    BY <2>10, <2>14, <2>15 DEF t
<1> QED
  BY <1>2, <1>3

-----------------------------------------------------------------------------
(***************************************************************************)
(* The invariant.                                                          *)
(***************************************************************************)
CInv == IInv /\ Coherent(State)

\* A step to a coherent state makes the state coherent.
LEMMA BecomesCoherent ==
  ASSUME NEW s, AllOK(s), Coherent(s), Becomes(s)
  PROVE  Coherent(State)' /\ l1' = s.l1
<1>1. s.aborted = FALSE
  BY DEF Coherent
<1>2. s = [l1 |-> s.l1, llc |-> s.llc, dir |-> s.dir, mem |-> s.mem,
           aborted |-> s.aborted]
  BY DEF AllOK, GoodState, StateRecords
<1>3. State' = s
  BY <1>1, <1>2 DEF Becomes, State
<1> QED
  BY <1>1, <1>3 DEF Becomes

LEMMA BecomesWithPrefetchCoherent ==
  ASSUME Roomy, NEW s, AllOK(s), Coherent(s), NEW b, BecomesWithPrefetch(s, b)
  PROVE  Coherent(State)' /\ l1' = s.l1
<1>1. PICK p \in PrefetchesAfter(b) :
        Becomes(PrefetchAddress(PrefetchAddress(s, p[1]), p[2]))
  BY DEF BecomesWithPrefetch
<1>2. p[1] \in Blocks \cup {NoBlock} /\ p[2] \in Blocks \cup {NoBlock}
  BY DEF PrefetchesAfter
<1> DEFINE t == PrefetchAddress(s, p[1])
           u == PrefetchAddress(t, p[2])
<1>3. AllOK(t) /\ Coherent(t) /\ t.l1 = s.l1
  BY <1>2, PrefetchAddressOK, PrefetchAddressCoherent
<1> HIDE DEF t
<1>4. AllOK(u) /\ Coherent(u) /\ u.l1 = s.l1
  BY <1>2, <1>3, PrefetchAddressOK, PrefetchAddressCoherent
<1>5. Becomes(u)
  BY <1>1 DEF t
<1> HIDE DEF u
<1> QED
  BY <1>4, <1>5, BecomesCoherent

\* The caches start empty.
LEMMA CInitOK == ASSUME Init PROVE CInv
<1>1. IInv
  BY InitOK
<1>2. State.l1 = [n \in Cores |-> [k \in L1Kinds |-> EmptyCache(L1)]]
      /\ State.dir = [b \in Blocks |-> NoEntry] /\ State.aborted = FALSE
  BY DEF Init, State
<1>3. \A n \in Cores, k \in L1Kinds, x \in Blocks : ~Present(State.l1[n][k], x)
  BY <1>2, Geometry, EmptyCacheGood
<1>4. NoGhost(L1, EmptyCache(L1))
  BY Geometry, EmptyCacheGood
<1>5. Plain(State.l1)
  BY <1>2, <1>3, <1>4 DEF Plain
<1>6. \A x \in Blocks : HoldersOf(State.l1, x) = {}
  BY <1>3 DEF HoldersOf, Holds
<1>7. \A x \in Blocks : /\ TrackersOf(State.dir, x) = {}
                        /\ StateOf(State.dir, x) # "MODIFIED_L1"
  BY <1>2 DEF TrackersOf, StateOf, NoEntry
<1> QED
  BY <1>1, <1>2, <1>5, <1>6, <1>7 DEF CInv, Coherent, Exact

\* Every access keeps the directory exact, and shares or takes its block.
LEMMA AccessCoherent ==
  ASSUME Roomy, CInv, NEW n \in Cores, NEW r \in Requests, Access(n, r)
  PROVE  Coherent(State)' /\ SharesOrTakes(l1, l1', n, r.block, IsWrite(r))
<1> DEFINE b == r.block
<1>1. b \in Blocks /\ IsWrite(r) \in BOOLEAN
  BY RequestFacts
<1>2. /\ AllOK(State) /\ Coherent(State) /\ ~State.aborted
      /\ State.dir = dir /\ State.l1 = l1 /\ dir \in Directories
  BY InvariantOfState
  DEF CInv, IInv, GoodState, StateRecords, State, Coherent
<1>3. ASSUME NEW states \in SUBSET (States \ {"NOT_PRESENT"}), Finds(r, states)
      PROVE  HasEntry(dir, b) /\ StateOf(dir, b) \in states
  BY <1>1, <1>2, <1>3
  DEF Finds, AddEntry, HasEntry, StateOf, Directories
<1>4. CASE AccessNotPresent(n, r)
  <2> DEFINE t == FetchFromMemory(State, n, r)
  <2>1. StateOf(AddEntry(dir, b), b) = "NOT_PRESENT"
    BY <1>4 DEF AccessNotPresent, Finds
  <2>2. AllOK(t) /\ Coherent(t) /\ SharesOrTakes(l1, t.l1, n, b, IsWrite(r))
    BY <1>2, <2>1, FetchFromMemoryOK, FetchFromMemoryCoherent
  <2>3. BecomesWithPrefetch(t, b)
    BY <1>4 DEF AccessNotPresent
  <2> HIDE DEF t
  <2> QED
    BY <2>2, <2>3, BecomesWithPrefetchCoherent
<1>5. CASE AccessInLLC(n, r)
  <2> DEFINE t == FetchFromLLC(State, n, r)
  <2>1. HasEntry(dir, b) /\ StateOf(dir, b) \in {"CLEAN_LLC", "DIRTY_LLC"}
    BY <1>3, <1>5 DEF AccessInLLC, States
  <2>2. AllOK(t) /\ Coherent(t) /\ SharesOrTakes(l1, t.l1, n, b, IsWrite(r))
    BY <1>2, <2>1, FetchFromLLCOK, FetchFromLLCCoherent
  <2>3. BecomesWithPrefetch(t, b)
    BY <1>5 DEF AccessInLLC
  <2> HIDE DEF t
  <2> QED
    BY <2>2, <2>3, BecomesWithPrefetchCoherent
<1>6. ASSUME Finds(r, {"MODIFIED_L1", "EXCLUSIVE_L1"})
      PROVE  /\ HasEntry(dir, b)
             /\ StateOf(dir, b) \in {"MODIFIED_L1", "EXCLUSIVE_L1"}
             /\ Owner(b) \in Cores /\ TrackersOf(dir, b) = {Owner(b)}
             /\ StateOfOneOwner(b) = State
  <2>1. /\ HasEntry(dir, b)
        /\ StateOf(dir, b) \in {"MODIFIED_L1", "EXCLUSIVE_L1"}
    BY <1>3, <1>6 DEF States
  <2> HIDE DEF b
  <2>2. Owner(b) \in Cores /\ TrackersOf(dir, b) = {Owner(b)}
    BY <1>1, <2>1, OneOwner DEF CInv
  <2>3. (State.aborted \/ ~(TrackersOf(dir, b) = {Owner(b)})) = FALSE
    BY <1>2, <2>2 DEF Coherent
  <2>4. State = [State EXCEPT !.aborted = FALSE]
    BY <1>2 DEF Coherent, State
  <2>5. StateOfOneOwner(b) = State
    BY Zenon, <2>3, <2>4 DEF StateOfOneOwner, Require
  <2> QED
    BY <2>1, <2>2, <2>5
<1>7. CASE AccessOwned(n, r)
  <2> DEFINE t == AccessAsOwner(State, n, r)
  <2>1. Finds(r, {"MODIFIED_L1", "EXCLUSIVE_L1"}) /\ Owner(b) = n
    BY <1>7 DEF AccessOwned
  <2>2. AllOK(t) /\ Coherent(t) /\ SharesOrTakes(l1, t.l1, n, b, IsWrite(r))
    BY <1>2, <1>6, <2>1, AccessAsOwnerOK, AccessAsOwnerCoherent
  <2>3. Becomes(t)
    BY <1>6, <1>7, <2>1 DEF AccessOwned
  <2> HIDE DEF t
  <2> QED
    BY <2>2, <2>3, BecomesCoherent
<1>8. CASE ReadOwnedElsewhere(n, r)
  <2> DEFINE t == ShareWithOwner(State, n, Owner(b), r)
  <2>1. Finds(r, {"MODIFIED_L1", "EXCLUSIVE_L1"}) /\ ~IsWrite(r)
    BY <1>8 DEF ReadOwnedElsewhere
  <2>2. AllOK(t) /\ Coherent(t) /\ SharesOrTakes(l1, t.l1, n, b, IsWrite(r))
    BY <1>2, <1>6, <2>1, ShareWithOwnerOK, ShareWithOwnerCoherent
  <2>3. Becomes(t)
    BY <1>6, <1>8, <2>1 DEF ReadOwnedElsewhere
  <2> HIDE DEF t
  <2> QED
    BY <2>2, <2>3, BecomesCoherent
<1>9. CASE WriteOwnedElsewhere(n, r)
  <2> DEFINE t == TakeFromOwner(State, n, Owner(b), r)
  <2>1. Finds(r, {"MODIFIED_L1", "EXCLUSIVE_L1"}) /\ IsWrite(r)
    BY <1>9 DEF WriteOwnedElsewhere
  <2>2. AllOK(t) /\ Coherent(t) /\ SharesOrTakes(l1, t.l1, n, b, IsWrite(r))
    BY <1>2, <1>6, <2>1, TakeFromOwnerOK, TakeFromOwnerCoherent
  <2>3. Becomes(t)
    BY <1>6, <1>9, <2>1 DEF WriteOwnedElsewhere
  <2> HIDE DEF t
  <2> QED
    BY <2>2, <2>3, BecomesCoherent
<1>10. CASE ReadShared(n, r)
  <2> DEFINE t == JoinSharers(State, n, r)
  <2>1. /\ HasEntry(dir, b) /\ StateOf(dir, b) = "SHARED_L1"
        /\ ~IsWrite(r) /\ Becomes(t)
    BY <1>3, <1>10 DEF ReadShared, States
  <2>2. AllOK(t) /\ Coherent(t) /\ SharesOrTakes(l1, t.l1, n, b, IsWrite(r))
    BY <1>2, <2>1, JoinSharersOK, JoinSharersCoherent
  <2> HIDE DEF t
  <2> QED
    BY <2>1, <2>2, BecomesCoherent
<1>11. CASE WriteShared(n, r)
  <2> DEFINE t == TakeFromSharers(State, n, r)
  <2>1. HasEntry(dir, b) /\ IsWrite(r) /\ Becomes(t)
    BY <1>3, <1>11 DEF WriteShared, States
  <2>2. AllOK(t) /\ Coherent(t) /\ SharesOrTakes(l1, t.l1, n, b, IsWrite(r))
    BY <1>2, <2>1, TakeFromSharersOK, TakeFromSharersCoherent
  <2> HIDE DEF t
  <2> QED
    BY <2>1, <2>2, BecomesCoherent
<1> QED
  BY <1>4, <1>5, <1>7, <1>8, <1>9, <1>10, <1>11 DEF Access

LEMMA CNextOK == ASSUME Roomy, CInv, [Next]_vars PROVE CInv'
<1>1. IInv'
  BY NextOK DEF CInv
<1>2. CASE UNCHANGED vars
  <2>1. State' = State
    BY <1>2 DEF vars, State
  <2> QED
    BY <1>1, <2>1 DEF CInv
<1>3. CASE Next
  BY <1>1, <1>3, AccessCoherent DEF Next, CInv
<1> QED
  BY <1>2, <1>3

LEMMA CInvariant == ASSUME Roomy PROVE Spec => []CInv
<1>1. Init => CInv
  BY CInitOK
<1>2. CInv /\ [Next]_vars => CInv'
  BY CNextOK
<1> QED
  BY <1>1, <1>2, PTL DEF Spec

-----------------------------------------------------------------------------
\* What the properties of the hierarchy say of the variables is what is said here
\* of their values.
LEMMA CopiesAsSets ==
  /\ \A b \in Blocks : /\ CopyHolders(b) = HoldersOf(l1, b)
                       /\ {nk[1] : nk \in DirtyL1Copies(b)} = DirtyIn(l1, b)
  /\ \A b \in Blocks :
       /\ CopyHolders(b)' = HoldersOf(l1', b)
       /\ {nk[1] : nk \in DirtyL1Copies(b)}' = DirtyIn(l1', b)
<1>1. ASSUME NEW b \in Blocks
      PROVE  /\ CopyHolders(b) = HoldersOf(l1, b)
             /\ CopyHolders(b)' = HoldersOf(l1', b)
  BY DEF CopyHolders, HoldersOf
<1>2. ASSUME NEW f, NEW b
      PROVE  LET copies == {nk \in Cores \X L1Kinds :
                              /\ Holds(L1, f[nk[1]][nk[2]], b)
                              /\ EntryOf(L1, f[nk[1]][nk[2]], b).dirty}
             IN {nk[1] : nk \in copies} = DirtyIn(f, b)
  <2> DEFINE copies == {nk \in Cores \X L1Kinds :
                          /\ Holds(L1, f[nk[1]][nk[2]], b)
                          /\ EntryOf(L1, f[nk[1]][nk[2]], b).dirty}
  <2>1. ASSUME NEW n \in DirtyIn(f, b) PROVE n \in {nk[1] : nk \in copies}
    <3>1. n \in Cores
      BY DEF DirtyIn
    <3>2. PICK k \in L1Kinds : /\ Holds(L1, f[n][k], b)
                               /\ EntryOf(L1, f[n][k], b).dirty
      BY DEF DirtyIn
    <3>3. <<n, k>> \in copies /\ <<n, k>>[1] = n
      BY <3>1, <3>2
    <3> HIDE DEF copies
    <3> QED
      BY <3>3
  <2>2. ASSUME NEW nk \in copies PROVE nk[1] \in DirtyIn(f, b)
    BY DEF DirtyIn
  <2> QED
    BY <2>1, <2>2
<1>3. ASSUME NEW b \in Blocks
      PROVE  /\ {nk[1] : nk \in DirtyL1Copies(b)} = DirtyIn(l1, b)
             /\ {nk[1] : nk \in DirtyL1Copies(b)}' = DirtyIn(l1', b)
  BY <1>2 DEF DirtyL1Copies, AllL1s
<1> QED
  BY <1>1, <1>3

\* With code apart from data and an LLC that has room for the program, no
\* assertion of Hierarchy.cc or Directory.cc ends it, whatever its cores access
\* and in whatever order: every write back of an L1 finds the entry of its block,
\* and an owned block has exactly one tracker.
THEOREM NoAssertionFailsWithRoom == Roomy => (Spec => []NoAssertFails)
<1> SUFFICES ASSUME Roomy PROVE Spec => []NoAssertFails
  OBVIOUS
<1>1. CInv => NoAssertFails
  BY DEF CInv, Coherent, State, NoAssertFails
<1>2. Spec => []CInv
  BY CInvariant
<1> QED
  BY <1>1, <1>2, PTL

\* The trackers of a block are exactly the cores that hold it: no branch of
\* handleAccess forgets a sharer or keeps a core that has evicted or dropped it.
THEOREM TrackersAreAlwaysHolders == Roomy => (Spec => []TrackersAreHolders)
<1> SUFFICES ASSUME Roomy PROVE Spec => []TrackersAreHolders
  OBVIOUS
<1>1. CInv => TrackersAreHolders
  BY CopiesAsSets DEF CInv, Coherent, Exact, State, TrackersAreHolders
<1>2. Spec => []CInv
  BY CInvariant
<1> QED
  BY <1>1, <1>2, PTL

\* A block in MODIFIED_L1 is dirty in its owner's L1: the state is not left
\* behind when the owner evicts the block or another core takes or shares it.
THEOREM ModifiedIsAlwaysDirty == Roomy => (Spec => []ModifiedIsDirty)
<1> SUFFICES ASSUME Roomy PROVE Spec => []ModifiedIsDirty
  OBVIOUS
<1>1. ASSUME CInv PROVE ModifiedIsDirty
  <2> SUFFICES ASSUME NEW b \in Blocks, StateOf(dir, b) = "MODIFIED_L1"
               PROVE  DirtyL1Copies(b) # {}
    BY DEF ModifiedIsDirty
  <2>1. DirtyIn(l1, b) # {}
    BY <1>1 DEF CInv, Coherent, Exact, State
  <2>2. PICK n \in Cores : n \in DirtyIn(l1, b)
    BY <2>1 DEF DirtyIn
  <2>3. PICK k \in L1Kinds : /\ Holds(L1, l1[n][k], b)
                             /\ EntryOf(L1, l1[n][k], b).dirty
    BY <2>2 DEF DirtyIn
  <2>4. <<n, k>> \in DirtyL1Copies(b)
    BY <2>3 DEF DirtyL1Copies, AllL1s
  <2> QED
    BY <2>4
<1>2. Spec => []CInv
  BY CInvariant
<1> QED
  BY <1>1, <1>2, PTL

\* The LLC includes the L1s and the directory knows who holds what: no L1 of any
\* core keeps a block that the LLC or the directory has lost.
THEOREM LLCIncludesL1sWithRoom == Roomy => (Spec => []Inclusion)
<1> SUFFICES ASSUME Roomy PROVE Spec => []Inclusion
  OBVIOUS
<1>1. ASSUME TypeOK, DirectoryMirrorsLLC, TrackersAreHolders PROVE Inclusion
  <2> SUFFICES ASSUME NEW b \in Blocks, CopyHolders(b) # {}
               PROVE  /\ Holds(LLC, llc, b)
                      /\ CopyHolders(b) \subseteq TrackersOf(dir, b)
    BY DEF Inclusion
  <2>1. TrackersOf(dir, b) = CopyHolders(b)
    BY <1>1 DEF TrackersAreHolders
  <2>2. HasEntry(dir, b)
    BY <1>1, <2>1, DirectoryEntry DEF TypeOK
  <2> QED
    BY <1>1, <2>1, <2>2 DEF DirectoryMirrorsLLC
<1>2. Spec => [](TypeOK /\ DirectoryMirrorsLLC /\ TrackersAreHolders)
  BY TypeCorrect, DirectoryAlwaysMirrorsLLC, TrackersAreAlwaysHolders, PTL
<1> QED
  BY <1>1, <1>2, PTL

\* The hierarchy implements Coherence: every access is a read that shares its
\* block or a write that takes it, and gives up at most one other block, of its
\* own core, whatever the state of the directory it met and whatever the
\* prefetches that followed.
THEOREM HierarchyImplementsCoherence == Roomy => (Spec => ImplementsCoherence)
<1> SUFFICES ASSUME Roomy PROVE Spec => ImplementsCoherence
  OBVIOUS
<1> DEFINE holders == [b \in Blocks |-> CopyHolders(b)]
           dirty == [b \in Blocks |-> {nk[1] : nk \in DirtyL1Copies(b)}]
<1>1. Init => Copies!Init
  <2> SUFFICES ASSUME Init PROVE Copies!Init
    OBVIOUS
  <2>1. \A n \in Cores, k \in L1Kinds, b \in Blocks : ~Holds(L1, l1[n][k], b)
    BY Geometry, EmptyCacheGood DEF Init, Holds
  <2>2. \A b \in Blocks : CopyHolders(b) = {} /\ DirtyL1Copies(b) = {}
    BY <2>1 DEF CopyHolders, DirtyL1Copies, AllL1s
  <2> QED
    BY <2>2 DEF Copies!Init
<1>2. CInv /\ [Next]_vars => [Copies!Next]_(Copies!vars)
  <2> SUFFICES ASSUME CInv, [Next]_vars PROVE [Copies!Next]_(Copies!vars)
    OBVIOUS
  <2>1. CASE UNCHANGED vars
    <3>1. l1' = l1
      BY <2>1 DEF vars
    <3>2. holders' = holders /\ dirty' = dirty
      BY <3>1, CopiesAsSets
    <3> QED
      BY <3>2 DEF Copies!vars
  <2>2. ASSUME NEW n \in Cores, NEW r \in Requests, Access(n, r)
        PROVE  Copies!Next
    <3> DEFINE b == r.block
    <3>1. /\ b \in Blocks /\ IsWrite(r) \in BOOLEAN
          /\ SharesOrTakes(l1, l1', n, b, IsWrite(r))
      BY <2>2, RequestFacts, AccessCoherent
    <3> HIDE DEF b
    <3>2. PICK v \in Blocks \cup {NoBlock} : GivesUp(l1, l1', n, b, v)
      BY <3>1 DEF SharesOrTakes, MakesRoom
    <3>3. \A x \in Blocks : /\ holders[x] = HoldersOf(l1, x)
                            /\ holders'[x] = HoldersOf(l1', x)
                            /\ dirty[x] = DirtyIn(l1, x)
                            /\ dirty'[x] = DirtyIn(l1', x)
      BY CopiesAsSets
    <3>4. /\ holders' \in [Blocks -> SUBSET Cores]
          /\ dirty' \in [Blocks -> SUBSET Cores]
      BY CopiesAsSets DEF HoldersOf, DirtyIn
    <3> HIDE DEF holders, dirty
    <3>5. \A x \in Blocks \ {b} :
            LET gone == IF x = v THEN {n} ELSE {}
            IN holders'[x] = holders[x] \ gone /\ dirty'[x] = dirty[x] \ gone
      BY <3>2, <3>3 DEF GivesUp
    <3>6. CASE IsWrite(r)
      <4>1. holders'[b] = {n} /\ dirty'[b] = {n}
        BY <3>1, <3>3, <3>6 DEF SharesOrTakes
      <4>2. Copies!Write(n, b, v)
        BY <3>4, <3>5, <4>1
        DEF Copies!Write, Copies!MakesRoom, Copies!CoresOfBlocks, holders, dirty
      <4> QED
        BY <3>1, <4>2 DEF Copies!Next
    <3>7. CASE ~IsWrite(r)
      <4>1. /\ holders'[b] = holders[b] \cup {n}
            /\ dirty'[b] = dirty[b]
        BY <3>1, <3>3, <3>7 DEF SharesOrTakes
      <4>2. Copies!Read(n, b, v)
        BY <3>4, <3>5, <4>1
        DEF Copies!Read, Copies!MakesRoom, Copies!CoresOfBlocks, holders, dirty
      <4> QED
        BY <3>1, <4>2 DEF Copies!Next
    <3> QED
      BY <3>6, <3>7
  <2> QED
    BY <2>1, <2>2 DEF Next
<1>3. Spec => []CInv
  BY CInvariant
<1> QED
  BY <1>1, <1>2, <1>3, PTL DEF Spec, ImplementsCoherence, Copies!Spec
=============================================================================
