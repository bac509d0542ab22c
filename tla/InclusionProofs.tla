-------------------------- MODULE InclusionProofs --------------------------
(***************************************************************************)
(* When the LLC includes the L1s, for every number of cores, every         *)
(* geometry and policy, with and without prefetches.  An access leads from *)
(* a state of inclusion to another, and no assertion fails, unless an      *)
(* eviction of the LLC stops asking the trackers at a dirty one, or a      *)
(* block is valid in both L1s of a core.  With code apart from data, and   *)
(* one core or one writer for each block, neither happens.                 *)
(*                                                                         *)
(* To the invariant of HierarchyProofs, which says how the directory agrees *)
(* with the LLC, the proof adds two that hold always: an L1 has only blocks *)
(* of its kind and no instruction cache a dirty one (KindsApart), and a    *)
(* block marked as prefetched is of state CLEAN_LLC (AllFresh).  Sound is  *)
(* the claim of inclusion, made when q holds: whatever is proved of Sound  *)
(* for every Boolean q is proved of KindsApart alone with FALSE, and of    *)
(* inclusion under its hypotheses with TRUE.                               *)
(***************************************************************************)
EXTENDS HierarchyProofs

\* One core, and code apart from data.
SingleCore == NbCores = 1 /\ InstBlocks \cap DataBlocks = {}

BlocksOf(k) == IF k = "I" THEN InstBlocks ELSE DataBlocks

\* An L1 has only blocks of its kind, and an instruction cache nothing dirty.
OfKind(k, c) ==
  \A x \in Blocks :
    Present(c, x) => /\ x \in BlocksOf(k)
                     /\ k = "I" => ~EntryOf(L1, c, x).dirty
KindsApart(s) == \A n \in Cores, k \in L1Kinds : OfKind(k, s.l1[n][k])

\* A valid copy is tracked.
HeldIsTracked(s) ==
  \A n \in Cores, k \in L1Kinds, x \in Blocks :
    Holds(L1, s.l1[n][k], x) => n \in TrackersOf(s.dir, x)

Sound(q, s) ==
  KindsApart(s) /\ (q => s.aborted = FALSE /\ HeldIsTracked(s))

\* An eviction of block x would ask all its trackers.
AskedInFull(s, x) ==
  \A m, n \in TrackersOf(s.dir, x) : m < n => ~Answers(s, m, x)
AskAll(s) == \A x \in Blocks : AskedInFull(s, x)
AskBut(s, b) == \A x \in Blocks \ {b} : AskedInFull(s, x)
KeepsAsking(s, t, b) ==
  \A x \in Blocks \ {b} : AskedInFull(s, x) => AskedInFull(t, x)

\* No block is valid in both L1s of a core.
L1sApart(s) ==
  \A n \in Cores, x \in Blocks :
    ~(Holds(L1, s.l1[n]["I"], x) /\ Holds(L1, s.l1[n]["D"], x))

-----------------------------------------------------------------------------
(***************************************************************************)
(* Which blocks a cache holds after each operation.                        *)
(***************************************************************************)
\* A cache holds a block when some valid line has its address.
LEMMA HoldsByLine ==
  ASSUME NEW g \in Geometries, NEW c, GoodCache(g, c), NEW x \in Blocks
  PROVE  Holds(g, c, x) <=>
           \E t \in Sets(g), y \in Ways(g) :
             c.line[t][y].addr = x /\ c.line[t][y].valid
<1>1. ASSUME Holds(g, c, x)
      PROVE  \E t \in Sets(g), y \in Ways(g) :
               c.line[t][y].addr = x /\ c.line[t][y].valid
  BY <1>1, IndexedEntry DEF Holds, EntryOf
<1>2. ASSUME NEW t \in Sets(g), NEW y \in Ways(g),
             c.line[t][y].addr = x, c.line[t][y].valid
      PROVE  Holds(g, c, x)
  <2>1. Present(c, x) /\ EntryOf(g, c, x) = c.line[t][y]
    BY <1>2, ValidEntryIsIndexed
  <2> QED
    BY <1>2, <2>1 DEF Holds
<1> QED
  BY <1>1, <1>2

\* A hit makes no line valid and none invalid.
LEMMA HitHolds ==
  ASSUME NEW g \in Geometries, NEW c, GoodCache(g, c),
         NEW b \in Blocks, Present(c, b), NEW isWrite \in BOOLEAN
  PROVE  \A x \in Blocks :
           /\ Present(Hit(g, c, b, isWrite), x) <=> Present(c, x)
           /\ Holds(g, Hit(g, c, b, isWrite), x) <=> Holds(g, c, x)
<1> DEFINE s == SetOf(g, b)
           w == c.tag[b]
           t == Touch(g, c, s, w)
           h == Hit(g, c, b, isWrite)
<1>1. s \in Sets(g) /\ w \in Ways(g)
  BY IndexedEntry
<1>2. GoodCache(g, t) /\ t.tag = c.tag /\ t.line = c.line
  BY <1>1, TouchGood
<1>3. GoodCache(g, h) /\ h.tag = c.tag
  BY HitGood
<1>4. h = [t EXCEPT !.line[s][w].dirty = @ \/ isWrite]
  BY DEF Hit
<1> HIDE DEF t, s, w, h
<1>5. t \in Caches(g)
  BY <1>2 DEF GoodCache
<1>6. \A y \in Sets(g), z \in Ways(g) :
        h.line[y][z].valid = t.line[y][z].valid
  BY <1>1, <1>4, <1>5 DEF Caches, Lines
<1>7. ASSUME NEW x \in Blocks
      PROVE  /\ Present(h, x) <=> Present(c, x)
             /\ Holds(g, h, x) <=> Holds(g, c, x)
  <2>1. Present(h, x) <=> Present(c, x)
    BY <1>3 DEF Present
  <2>2. ASSUME Present(c, x)
        PROVE  EntryOf(g, h, x).valid = EntryOf(g, c, x).valid
    <3>1. SetOf(g, x) \in Sets(g) /\ c.tag[x] \in Ways(g)
      BY <2>2, IndexedEntry
    <3> QED
      BY <1>2, <1>3, <1>6, <3>1 DEF EntryOf
  <2> QED
    BY <2>1, <2>2 DEF Holds
<1> QED
  BY <1>7 DEF h

\* A fill adds the block, and takes the one the way had.
LEMMA FillHolds ==
  ASSUME NEW g \in Geometries, NEW c, GoodCache(g, c),
         NEW b \in Blocks, ~Present(c, b), NEW w \in Ways(g),
         NEW isWrite \in BOOLEAN, NEW isPrefetch \in BOOLEAN
  PROVE  LET d == Fill(g, c, b, w, isWrite, isPrefetch)
         IN \A x \in Blocks :
              Holds(g, d, x) =>
                x = b \/ (Holds(g, c, x) /\ x # c.line[SetOf(g, b)][w].addr)
<1> DEFINE s == SetOf(g, b)
           l == [addr |-> b, valid |-> TRUE, dirty |-> isWrite,
                 prefetch |-> isPrefetch]
           d == Fill(g, c, b, w, isWrite, isPrefetch)
<1>1. s \in Sets(g)
  BY GeometryFacts
<1>2. l.addr = b
  OBVIOUS
<1>3. GoodCache(g, d)
  BY FillGood
<1>4. \A t \in Sets(g), y \in Ways(g) :
        d.line[t][y] = IF t = s /\ y = w THEN l ELSE c.line[t][y]
  BY FillLines
<1> HIDE DEF s, l, d
<1>5. ASSUME NEW x \in Blocks, Holds(g, d, x), x # b
      PROVE  Holds(g, c, x) /\ x # c.line[s][w].addr
  <2>1. PICK t \in Sets(g), y \in Ways(g) :
          d.line[t][y].addr = x /\ d.line[t][y].valid
    BY <1>3, <1>5, HoldsByLine
  <2>2. ~(t = s /\ y = w) /\ d.line[t][y] = c.line[t][y]
    BY <1>2, <1>4, <1>5, <2>1
  <2>3. Holds(g, c, x)
    BY <2>1, <2>2, HoldsByLine
  <2>4. TagsAgree(g, c)
    BY DEF GoodCache
  <2>5. x # c.line[s][w].addr
    BY <1>1, <2>1, <2>2, <2>4 DEF TagsAgree
  <2> QED
    BY <2>3, <2>5
<1> QED
  BY <1>5 DEF d, s

\* An invalidation takes the block, and leaves the index and the dirty bits as
\* they are.
LEMMA ReceiveInvalidationHolds ==
  ASSUME NEW g \in Geometries, NEW c, GoodCache(g, c), NEW b \in Blocks
  PROVE  LET d == ReceiveInvalidation(g, c, b)
         IN /\ ~Holds(g, d, b)
            /\ \A x \in Blocks :
                 /\ Present(d, x) <=> Present(c, x)
                 /\ Holds(g, d, x) => Holds(g, c, x)
                 /\ Present(c, x) =>
                      (EntryOf(g, d, x).dirty <=> EntryOf(g, c, x).dirty)
<1> DEFINE d == ReceiveInvalidation(g, c, b)
           s == SetOf(g, b)
           w == c.tag[b]
<1>1. CASE ~Present(c, b)
  BY <1>1 DEF ReceiveInvalidation, Holds
<1>2. CASE Present(c, b)
  <2>1. d = [c EXCEPT !.line[s][w].valid = FALSE]
    BY <1>2 DEF ReceiveInvalidation
  <2>2. /\ s \in Sets(g) /\ w \in Ways(g) /\ c \in Caches(g)
        /\ c.line[s][w] \in Lines
    BY <1>2, IndexedEntry DEF GoodCache
  <2> HIDE DEF d
  <2>3. d.tag = c.tag
    BY <2>1, <2>2 DEF Caches
  <2>4. \A t \in Sets(g), y \in Ways(g) :
          /\ d.line[t][y].valid => c.line[t][y].valid /\ ~(t = s /\ y = w)
          /\ d.line[t][y].dirty = c.line[t][y].dirty
    <3> HIDE DEF s, w
    <3> QED
      BY <2>1, <2>2 DEF Caches, Lines
  <2>5. ~Holds(g, d, b)
    BY <2>2, <2>3, <2>4 DEF Holds, EntryOf
  <2>6. ASSUME NEW x \in Blocks
        PROVE  /\ Present(d, x) <=> Present(c, x)
               /\ Holds(g, d, x) => Holds(g, c, x)
               /\ Present(c, x) =>
                    (EntryOf(g, d, x).dirty <=> EntryOf(g, c, x).dirty)
    <3>1. Present(d, x) <=> Present(c, x)
      BY <2>3 DEF Present
    <3>2. ASSUME Present(c, x)
          PROVE  /\ EntryOf(g, d, x).valid => EntryOf(g, c, x).valid
                 /\ EntryOf(g, d, x).dirty = EntryOf(g, c, x).dirty
      <4>1. SetOf(g, x) \in Sets(g) /\ c.tag[x] \in Ways(g)
        BY <3>2, IndexedEntry
      <4> QED
        BY <2>3, <2>4, <3>2, <4>1 DEF EntryOf
    <3> QED
      BY <3>1, <3>2 DEF Holds
  <2> QED
    BY <2>5, <2>6 DEF d
<1> QED
  BY <1>1, <1>2

\* A hit dirties the block if it is written, and nothing else.
LEMMA HitDirty ==
  ASSUME NEW g \in Geometries, NEW c, GoodCache(g, c),
         NEW b \in Blocks, Present(c, b), NEW isWrite \in BOOLEAN
  PROVE  \A x \in Blocks : Present(c, x) =>
           (EntryOf(g, Hit(g, c, b, isWrite), x).dirty <=>
              EntryOf(g, c, x).dirty \/ (x = b /\ isWrite))
<1> DEFINE s == SetOf(g, b)
           w == c.tag[b]
           t == Touch(g, c, s, w)
           h == Hit(g, c, b, isWrite)
<1>1. s \in Sets(g) /\ w \in Ways(g) /\ c.line[s][w].addr = b
  BY IndexedEntry
<1>2. GoodCache(g, t) /\ t.tag = c.tag /\ t.line = c.line
  BY <1>1, TouchGood
<1>3. GoodCache(g, h) /\ h.tag = c.tag
  BY HitGood
<1>4. h = [t EXCEPT !.line[s][w].dirty = @ \/ isWrite]
  BY DEF Hit
<1> SUFFICES ASSUME NEW x \in Blocks, Present(c, x)
             PROVE  EntryOf(g, h, x).dirty <=>
                      EntryOf(g, c, x).dirty \/ (x = b /\ isWrite)
  OBVIOUS
<1>5. /\ SetOf(g, x) \in Sets(g) /\ c.tag[x] \in Ways(g)
      /\ c.line[SetOf(g, x)][c.tag[x]].addr = x
  BY IndexedEntry
<1>6. x = b <=> (SetOf(g, x) = s /\ c.tag[x] = w)
  BY <1>1, <1>5
<1> HIDE DEF t, s, w, h
<1>7. t \in Caches(g)
  BY <1>2 DEF GoodCache
<1>8. \A y \in Sets(g), z \in Ways(g) :
        h.line[y][z].dirty <=>
          t.line[y][z].dirty \/ (y = s /\ z = w /\ isWrite)
  BY <1>1, <1>4, <1>7 DEF Caches, Lines
<1> QED
  BY <1>2, <1>3, <1>5, <1>6, <1>8 DEF EntryOf

\* A fill gives its block a line, dirty if it is written, and leaves the entries
\* of the blocks that stay.
LEMMA FillDirty ==
  ASSUME NEW g \in Geometries, NEW c, GoodCache(g, c),
         NEW b \in Blocks, ~Present(c, b), NEW w \in Ways(g),
         NEW isWrite \in BOOLEAN, NEW isPrefetch \in BOOLEAN
  PROVE  LET d == Fill(g, c, b, w, isWrite, isPrefetch)
         IN /\ EntryOf(g, d, b).dirty = isWrite
            /\ \A x \in Blocks :
                 x # b /\ Present(d, x) => EntryOf(g, d, x) = EntryOf(g, c, x)
<1> DEFINE s == SetOf(g, b)
           l == [addr |-> b, valid |-> TRUE, dirty |-> isWrite,
                 prefetch |-> isPrefetch]
           d == Fill(g, c, b, w, isWrite, isPrefetch)
<1>1. s \in Sets(g)
  BY GeometryFacts
<1>2. GoodCache(g, d) /\ TagsAgree(g, d) /\ TagsAgree(g, c)
      /\ \A x \in Blocks : Present(d, x) <=>
           x = b \/ (Present(c, x) /\ x # c.line[s][w].addr)
  BY FillGood DEF GoodCache
<1>3. \A t \in Sets(g), y \in Ways(g) :
        d.line[t][y] = IF t = s /\ y = w THEN l ELSE c.line[t][y]
  BY FillLines
<1>4. l.addr = b /\ l.dirty = isWrite
  OBVIOUS
<1> HIDE DEF s, l, d
<1>5. d.tag[b] = w
  BY <1>1, <1>2, <1>3, <1>4 DEF TagsAgree
<1>6. EntryOf(g, d, b).dirty = isWrite
  BY <1>1, <1>3, <1>4, <1>5 DEF EntryOf, s
<1>7. ASSUME NEW x \in Blocks, x # b, Present(d, x)
      PROVE  EntryOf(g, d, x) = EntryOf(g, c, x)
  <2>1. /\ SetOf(g, x) \in Sets(g) /\ d.tag[x] \in Ways(g)
        /\ d.line[SetOf(g, x)][d.tag[x]].addr = x
    BY <1>2, <1>7, IndexedEntry
  <2>2. d.line[SetOf(g, x)][d.tag[x]] = c.line[SetOf(g, x)][d.tag[x]]
    BY <1>3, <1>4, <1>7, <2>1
  <2>3. c.tag[x] = d.tag[x]
    BY <1>2, <2>1, <2>2 DEF TagsAgree
  <2> QED
    BY <2>2, <2>3 DEF EntryOf
<1> QED
  BY <1>6, <1>7 DEF d

\* A drop leaves the entries of the other blocks.
LEMMA DropDirty ==
  ASSUME NEW g \in Geometries, NEW c, GoodCache(g, c), NEW b \in Blocks
  PROVE  LET d == DeallocateBlock(g, c, b)
         IN /\ NoGhost(g, c) => NoGhost(g, d)
            /\ \A x \in Blocks :
                 x # b /\ Present(c, x) => EntryOf(g, d, x) = EntryOf(g, c, x)
<1>1. CASE ~Present(c, b)
  BY <1>1 DEF DeallocateBlock
<1>2. CASE Present(c, b)
  <2> DEFINE s == SetOf(g, b)
             w == c.tag[b]
             d == DeallocateBlock(g, c, b)
  <2>1. s \in Sets(g) /\ w \in Ways(g) /\ c.line[s][w].addr = b
    BY <1>2, IndexedEntry
  <2>2. c \in Caches(g)
    BY DEF GoodCache
  <2>3. /\ \A t \in Sets(g), y \in Ways(g) :
             d.line[t][y] = IF t = s /\ y = w THEN EmptyLine ELSE c.line[t][y]
        /\ \A x \in Blocks : x # b => d.tag[x] = c.tag[x]
    <3>1. d = [c EXCEPT !.line[s][w] = EmptyLine, !.tag[b] = NoWay]
      BY <1>2 DEF DeallocateBlock
    <3> HIDE DEF d, s, w
    <3> QED
      BY <2>1, <2>2, <3>1 DEF Caches
  <2> HIDE DEF d, s, w
  <2>4. NoGhost(g, c) => NoGhost(g, d)
    BY <2>3 DEF NoGhost, EmptyLine
  <2>5. ASSUME NEW x \in Blocks, x # b, Present(c, x)
        PROVE  EntryOf(g, d, x) = EntryOf(g, c, x)
    <3>1. /\ SetOf(g, x) \in Sets(g) /\ c.tag[x] \in Ways(g)
          /\ c.line[SetOf(g, x)][c.tag[x]].addr = x
      BY <2>5, IndexedEntry
    <3> QED
      BY <2>1, <2>3, <2>5, <3>1 DEF EntryOf
  <2> QED
    BY <2>4, <2>5 DEF d
<1> QED
  BY <1>1, <1>2

-----------------------------------------------------------------------------
(***************************************************************************)
(* Which blocks of the LLC are marked as prefetched after each operation.  *)
(***************************************************************************)
Marked(c, x) == Present(c, x) /\ EntryOf(LLC, c, x).prefetch

\* A marked block has not been accessed; an access exempts its own block until it
\* ends.
Fresh(s, x) == Marked(s.llc, x) => StateOf(s.dir, x) = "CLEAN_LLC"
FreshBut(s, b) == \A x \in Blocks \ {b} : Fresh(s, x)
AllFresh(s) == \A x \in Blocks : Fresh(s, x)

\* What an access of an L1 and one of the LLC to b do to marks and entries.
KeepsMarks(s, t) ==
  \A x \in Blocks :
    /\ Marked(t.llc, x) <=> Marked(s.llc, x)
    /\ \/ StateOf(t.dir, x) = StateOf(s.dir, x)
       \/ StateOf(t.dir, x) = "CLEAN_LLC"
MarksAfter(s, t, b, isPrefetch) ==
  \A x \in Blocks :
    Marked(t.llc, x) =>
      IF x = b THEN isPrefetch \/ Marked(s.llc, b)
      ELSE Marked(s.llc, x) /\ t.dir[x] = s.dir[x]

\* A block is marked when some line has its address and the flag.
LEMMA MarkedByLine ==
  ASSUME NEW c, GoodCache(LLC, c), NEW x \in Blocks
  PROVE  Marked(c, x) <=>
           \E t \in Sets(LLC), y \in Ways(LLC) :
             c.line[t][y].addr = x /\ c.line[t][y].prefetch
<1>1. ASSUME Marked(c, x)
      PROVE  \E t \in Sets(LLC), y \in Ways(LLC) :
               c.line[t][y].addr = x /\ c.line[t][y].prefetch
  BY <1>1, Geometry, IndexedEntry DEF Marked, EntryOf
<1>2. ASSUME NEW t \in Sets(LLC), NEW y \in Ways(LLC),
             c.line[t][y].addr = x, c.line[t][y].prefetch
      PROVE  Marked(c, x)
  <2>1. t = SetOf(LLC, x) /\ c.tag[x] = y
    BY <1>2 DEF GoodCache, TagsAgree
  <2>2. y # NoWay
    BY Geometry, GeometryFacts
  <2> QED
    BY <1>2, <2>1, <2>2 DEF Marked, Present, EntryOf
<1> QED
  BY <1>1, <1>2

\* An operation that leaves addresses and flags alone marks nothing.
LEMMA SameMarks ==
  ASSUME NEW c, GoodCache(LLC, c), NEW d, GoodCache(LLC, d),
         \A t \in Sets(LLC), y \in Ways(LLC) :
           /\ d.line[t][y].addr = c.line[t][y].addr
           /\ d.line[t][y].prefetch = c.line[t][y].prefetch
  PROVE  \A x \in Blocks : Marked(d, x) <=> Marked(c, x)
<1> SUFFICES ASSUME NEW x \in Blocks PROVE Marked(d, x) <=> Marked(c, x)
  OBVIOUS
<1>1. Marked(c, x) => Marked(d, x)
  BY MarkedByLine
<1>2. Marked(d, x) => Marked(c, x)
  BY MarkedByLine
<1> QED
  BY <1>1, <1>2

\* A hit does not touch the flag: the handler resets it afterwards.
LEMMA HitMarked ==
  ASSUME NEW c, GoodCache(LLC, c), NEW b \in Blocks, Present(c, b),
         NEW isWrite \in BOOLEAN
  PROVE  \A x \in Blocks : Marked(Hit(LLC, c, b, isWrite), x) <=> Marked(c, x)
<1> DEFINE s == SetOf(LLC, b)
           w == c.tag[b]
           t == Touch(LLC, c, s, w)
           h == Hit(LLC, c, b, isWrite)
<1>1. s \in Sets(LLC) /\ w \in Ways(LLC)
  BY Geometry, IndexedEntry
<1>2. GoodCache(LLC, t) /\ t.line = c.line
  BY <1>1, Geometry, TouchGood
<1>3. GoodCache(LLC, h)
  BY Geometry, HitGood
<1>4. h = [t EXCEPT !.line[s][w].dirty = @ \/ isWrite]
  BY DEF Hit
<1> HIDE DEF t, s, w, h
<1>5. t \in Caches(LLC)
  BY <1>2 DEF GoodCache
<1>6. \A y \in Sets(LLC), z \in Ways(LLC) :
        /\ h.line[y][z].addr = t.line[y][z].addr
        /\ h.line[y][z].prefetch = t.line[y][z].prefetch
  BY <1>1, <1>4, <1>5 DEF Caches, Lines
<1> QED
  BY <1>2, <1>3, <1>6, SameMarks DEF h

\* Nor does the dirty bit a deallocation assigns.
LEMMA SetDirtyMarked ==
  ASSUME NEW c, GoodCache(LLC, c), NEW b \in Blocks, NEW isDirty \in BOOLEAN
  PROVE  \A x \in Blocks :
           Marked(SetDirty(LLC, c, b, isDirty), x) <=> Marked(c, x)
<1>1. CASE ~Present(c, b)
  BY <1>1 DEF SetDirty
<1>2. CASE Present(c, b)
  <2> DEFINE s == SetOf(LLC, b)
             w == c.tag[b]
             d == SetDirty(LLC, c, b, isDirty)
  <2>1. s \in Sets(LLC) /\ w \in Ways(LLC) /\ c \in Caches(LLC)
    BY <1>2, Geometry, IndexedEntry DEF GoodCache
  <2>2. GoodCache(LLC, d)
    BY Geometry, SetDirtyGood
  <2>3. d = [c EXCEPT !.line[s][w].dirty = isDirty]
    BY <1>2 DEF SetDirty
  <2> HIDE DEF s, w, d
  <2>4. \A y \in Sets(LLC), z \in Ways(LLC) :
          /\ d.line[y][z].addr = c.line[y][z].addr
          /\ d.line[y][z].prefetch = c.line[y][z].prefetch
    BY <2>1, <2>3 DEF Caches, Lines
  <2> QED
    BY <2>2, <2>4, SameMarks DEF d
<1> QED
  BY <1>1, <1>2

\* The reset unmarks the block.
LEMMA ResetPrefetchFlagMarked ==
  ASSUME NEW c, GoodCache(LLC, c), NEW b \in Blocks
  PROVE  \A x \in Blocks :
           Marked(ResetPrefetchFlag(LLC, c, b), x) => x # b /\ Marked(c, x)
<1>1. CASE ~Present(c, b)
  BY <1>1 DEF ResetPrefetchFlag, Marked
<1>2. CASE Present(c, b)
  <2> DEFINE s == SetOf(LLC, b)
             w == c.tag[b]
             d == ResetPrefetchFlag(LLC, c, b)
  <2>1. /\ s \in Sets(LLC) /\ w \in Ways(LLC) /\ c \in Caches(LLC)
        /\ TagsAgree(LLC, c)
    BY <1>2, Geometry, IndexedEntry DEF GoodCache
  <2>2. GoodCache(LLC, d)
    BY Geometry, ResetPrefetchFlagGood
  <2>3. d = [c EXCEPT !.line[s][w].prefetch = FALSE]
    BY <1>2 DEF ResetPrefetchFlag
  <2>4. \A y \in Sets(LLC), z \in Ways(LLC) :
          c.line[y][z].addr = b => y = s /\ z = w
    BY <2>1 DEF TagsAgree
  <2> HIDE DEF s, w, d
  <2>5. \A y \in Sets(LLC), z \in Ways(LLC) :
          /\ d.line[y][z].addr = c.line[y][z].addr
          /\ d.line[y][z].prefetch => c.line[y][z].prefetch /\ ~(y = s /\ z = w)
    BY <2>1, <2>3 DEF Caches, Lines
  <2>6. ASSUME NEW x \in Blocks, Marked(d, x)
        PROVE  x # b /\ Marked(c, x)
    <3>1. PICK y \in Sets(LLC), z \in Ways(LLC) :
            d.line[y][z].addr = x /\ d.line[y][z].prefetch
      BY <2>2, <2>6, MarkedByLine
    <3>2. x # b
      BY <2>4, <2>5, <3>1
    <3>3. Marked(c, x)
      BY <2>5, <3>1, MarkedByLine
    <3> QED
      BY <3>2, <3>3
  <2> QED
    BY <2>6 DEF d
<1> QED
  BY <1>1, <1>2

\* A fill marks the block it brings if it is a prefetch, and unmarks the block
\* that leaves.
LEMMA FillMarked ==
  ASSUME NEW c, GoodCache(LLC, c), NEW b \in Blocks, ~Present(c, b),
         NEW w \in Ways(LLC), NEW isWrite \in BOOLEAN, NEW isPrefetch \in BOOLEAN
  PROVE  LET d == Fill(LLC, c, b, w, isWrite, isPrefetch)
         IN \A x \in Blocks :
              Marked(d, x) =>
                \/ x = b /\ isPrefetch
                \/ x # b /\ Marked(c, x) /\ x # c.line[SetOf(LLC, b)][w].addr
<1> DEFINE s == SetOf(LLC, b)
           l == [addr |-> b, valid |-> TRUE, dirty |-> isWrite,
                 prefetch |-> isPrefetch]
           d == Fill(LLC, c, b, w, isWrite, isPrefetch)
<1>1. s \in Sets(LLC)
  BY Geometry, GeometryFacts
<1>2. l.addr = b /\ l.prefetch = isPrefetch
  OBVIOUS
<1>3. GoodCache(LLC, d)
  BY Geometry, FillGood
<1>4. \A t \in Sets(LLC), y \in Ways(LLC) :
        d.line[t][y] = IF t = s /\ y = w THEN l ELSE c.line[t][y]
  BY Geometry, FillLines
<1> HIDE DEF s, l, d
<1>5. \A t \in Sets(LLC), y \in Ways(LLC) : c.line[t][y].addr # b
  <2>1. TagsAgree(LLC, c) /\ c.tag[b] = NoWay
    BY DEF GoodCache, Present
  <2>2. NoWay \notin Ways(LLC)
    BY Geometry, GeometryFacts
  <2> QED
    BY <2>1, <2>2 DEF TagsAgree
<1>6. ASSUME NEW x \in Blocks, Marked(d, x)
      PROVE  \/ x = b /\ isPrefetch
             \/ x # b /\ Marked(c, x) /\ x # c.line[s][w].addr
  <2>1. PICK t \in Sets(LLC), y \in Ways(LLC) :
          d.line[t][y].addr = x /\ d.line[t][y].prefetch
    BY <1>3, <1>6, MarkedByLine
  <2>2. CASE t = s /\ y = w
    BY <1>2, <1>4, <2>1, <2>2
  <2>3. CASE ~(t = s /\ y = w)
    <3>1. d.line[t][y] = c.line[t][y]
      BY <1>4, <2>3
    <3>2. Marked(c, x) /\ x # b
      BY <1>5, <2>1, <3>1, MarkedByLine
    <3>3. TagsAgree(LLC, c)
      BY DEF GoodCache
    <3>4. x # c.line[s][w].addr
      BY <1>1, <2>1, <2>3, <3>1, <3>3 DEF TagsAgree
    <3> QED
      BY <3>2, <3>4
  <2> QED
    BY <2>2, <2>3
<1> QED
  BY <1>6 DEF d, s

\* Neither access leaves a marked block with another state, but the one accessed;
\* and neither marks that one, a prefetch apart.
LEMMA L1KeepsFresh ==
  ASSUME NEW s, NEW t, NEW b \in Blocks, FreshBut(s, b), KeepsMarks(s, t)
  PROVE  FreshBut(t, b) /\ (Marked(t.llc, b) => Marked(s.llc, b))
BY DEF FreshBut, Fresh, KeepsMarks, StateOf

LEMMA LLCKeepsFresh ==
  ASSUME NEW s, NEW t, NEW b \in Blocks, NEW isPrefetch \in BOOLEAN,
         FreshBut(s, b), MarksAfter(s, t, b, isPrefetch)
  PROVE  FreshBut(t, b) /\ (Marked(t.llc, b) => isPrefetch \/ Marked(s.llc, b))
BY DEF FreshBut, Fresh, MarksAfter, StateOf

LEMMA EntryKeepsFresh ==
  ASSUME NEW s, NEW t, NEW b \in Blocks, FreshBut(s, b), t.llc = s.llc,
         \A x \in Blocks : x # b => t.dir[x] = s.dir[x]
  PROVE  FreshBut(t, b)
BY DEF FreshBut, Fresh, StateOf

LEMMA FreshAgain ==
  ASSUME NEW s, NEW b \in Blocks, FreshBut(s, b),
         ~Marked(s.llc, b) \/ StateOf(s.dir, b) = "CLEAN_LLC"
  PROVE  AllFresh(s)
BY DEF AllFresh, FreshBut, Fresh

LEMMA SameFresh ==
  ASSUME NEW s, NEW t, AllFresh(s), t.llc = s.llc, t.dir = s.dir
  PROVE  AllFresh(t)
BY DEF AllFresh, Fresh

-----------------------------------------------------------------------------
(***************************************************************************)
(* What an L1 keeps is of its kind.                                        *)
(***************************************************************************)
\* A request is for a block of the kind of its L1, and no write goes to an
\* instruction cache.
Fits(k, b, isWrite) == b \in BlocksOf(k) /\ (k = "I" => ~isWrite)

LEMMA HitOfKind ==
  ASSUME NEW c, GoodCache(L1, c), NEW k \in L1Kinds, OfKind(k, c),
         NEW b \in Blocks, Present(c, b), NEW isWrite \in BOOLEAN,
         Fits(k, b, isWrite)
  PROVE  OfKind(k, Hit(L1, c, b, isWrite))
<1>1. \A x \in Blocks : Present(Hit(L1, c, b, isWrite), x) <=> Present(c, x)
  BY Geometry, HitHolds
<1>2. \A x \in Blocks : Present(c, x) =>
        (EntryOf(L1, Hit(L1, c, b, isWrite), x).dirty <=>
           EntryOf(L1, c, x).dirty \/ (x = b /\ isWrite))
  BY Geometry, HitDirty
<1> QED
  BY <1>1, <1>2 DEF OfKind, Fits

LEMMA FillOfKind ==
  ASSUME NEW c, GoodCache(L1, c), NEW k \in L1Kinds, OfKind(k, c),
         NEW b \in Blocks, ~Present(c, b), NEW w \in Ways(L1),
         NEW isWrite \in BOOLEAN, Fits(k, b, isWrite), NEW isPrefetch \in BOOLEAN
  PROVE  OfKind(k, Fill(L1, c, b, w, isWrite, isPrefetch))
<1> DEFINE d == Fill(L1, c, b, w, isWrite, isPrefetch)
<1>1. \A x \in Blocks : Present(d, x) => x = b \/ Present(c, x)
  BY Geometry, FillGood
<1>2. /\ EntryOf(L1, d, b).dirty = isWrite
      /\ \A x \in Blocks :
           x # b /\ Present(d, x) => EntryOf(L1, d, x) = EntryOf(L1, c, x)
  BY Geometry, FillDirty
<1> HIDE DEF d
<1>3. OfKind(k, d)
  BY <1>1, <1>2 DEF OfKind, Fits
<1> QED
  BY <1>3 DEF d

LEMMA InvalidatedOfKind ==
  ASSUME NEW c, GoodCache(L1, c), NEW k \in L1Kinds, OfKind(k, c),
         NEW b \in Blocks
  PROVE  OfKind(k, ReceiveInvalidation(L1, c, b))
BY Geometry, ReceiveInvalidationHolds DEF OfKind

LEMMA DropOfKind ==
  ASSUME NEW c, GoodCache(L1, c), NEW k \in L1Kinds, OfKind(k, c),
         NEW b \in Blocks
  PROVE  OfKind(k, DeallocateBlock(L1, c, b))
<1>1. \A x \in Blocks : Present(DeallocateBlock(L1, c, b), x)
                          <=> Present(c, x) /\ x # b
  BY Geometry, DeallocateBlockGood
<1>2. \A x \in Blocks : x # b /\ Present(c, x) =>
        EntryOf(L1, DeallocateBlock(L1, c, b), x) = EntryOf(L1, c, x)
  BY Geometry, DropDirty
<1> QED
  BY <1>1, <1>2 DEF OfKind

\* Drops take no block but their own, and take that.
LEMMA DropHolds ==
  ASSUME NEW c, GoodCache(L1, c), NEW b \in Blocks
  PROVE  LET d == DeallocateBlock(L1, c, b)
         IN /\ ~Present(d, b)
            /\ \A x \in Blocks : Holds(L1, d, x) => Holds(L1, c, x)
<1> DEFINE d == DeallocateBlock(L1, c, b)
<1>1. \A x \in Blocks : Present(d, x) <=> Present(c, x) /\ x # b
  BY Geometry, DeallocateBlockGood
<1>2. \A x \in Blocks : x # b /\ Present(c, x) =>
        EntryOf(L1, d, x) = EntryOf(L1, c, x)
  BY Geometry, DropDirty
<1> HIDE DEF d
<1>3. ~Present(d, b) /\ \A x \in Blocks : Holds(L1, d, x) => Holds(L1, c, x)
  BY <1>1, <1>2 DEF Holds
<1> QED
  BY <1>3 DEF d

\* A request finds the L1 of its kind.
LEMMA RequestKind ==
  ASSUME NEW r \in Requests
  PROVE  /\ r.block \in BlocksOf(Kind(r))
         /\ Fits(Kind(r), r.block, IsWrite(r))
         /\ Fits(Kind(r), r.block, FALSE)
BY DEF Requests, Kind, BlocksOf, IsInstFetch, IsWrite, Fits

\* What is tracked has an entry, so it is in the LLC.
LEMMA TrackedHasEntry ==
  ASSUME NEW d \in Directories, NEW x \in Blocks, NEW n \in TrackersOf(d, x)
  PROVE  HasEntry(d, x)
BY DirectoryEntry

\* What an eviction leaves of an entry.
LEMMA RemoveTrackerEntry ==
  ASSUME NEW d \in Directories, NEW u \in Blocks, NEW n \in Cores
  PROVE  LET e == RemoveTracker(d, u, n)
         IN /\ TrackersOf(e, u) = TrackersOf(d, u) \ {n}
            /\ StateOf(e, u) = IF TrackersOf(d, u) \ {n} = {} THEN "CLEAN_LLC"
                               ELSE StateOf(d, u)
BY DEF Directories, RemoveTracker, TrackersOf, StateOf

\* An eviction of x asks all its trackers in t if it does in s and, of those, no
\* more answer that it is dirty.
LEMMA AskedStill ==
  ASSUME NEW s, NEW t, NEW x \in Blocks, AskedInFull(s, x),
         TrackersOf(t.dir, x) \subseteq TrackersOf(s.dir, x),
         \A m \in TrackersOf(t.dir, x) : Answers(t, m, x) => Answers(s, m, x)
  PROVE  AskedInFull(t, x)
BY DEF AskedInFull

\* One tracker, or none, is always asked.
LEMMA OneIsAsked ==
  ASSUME NEW s, NEW x \in Blocks, NEW n \in Cores,
         TrackersOf(s.dir, x) \subseteq {n}
  PROVE  AskedInFull(s, x)
<1>1. ~(n < n)
  BY DEF Cores
<1> QED
  BY <1>1 DEF AskedInFull

-----------------------------------------------------------------------------
(***************************************************************************)
(* The handlers.  An access exempts its own block from AllFresh, as it does *)
(* from AllOK, until it ends.                                              *)
(***************************************************************************)
SoundBut(q, s, b) ==
  OKBut(s, b) /\ Sound(q, s) /\ (s.aborted \/ FreshBut(s, b))

LEMMA SoundButAlways ==
  ASSUME NEW q \in BOOLEAN, NEW s, AllOK(s), Sound(q, s),
         s.aborted \/ AllFresh(s), NEW b \in Blocks
  PROVE  /\ SoundBut(q, s, b) /\ GoodState(s) /\ s.dir \in Directories
         /\ ~s.aborted => EntryOK(s, b) /\ Fresh(s, b)
BY DEF AllOK, OKBut, SoundBut, GoodState, StateRecords, AllFresh, FreshBut

\* A write to the entry of the block that leaves the cores that hold it among
\* the trackers.
LEMMA SetDirSoundBut ==
  ASSUME NEW q \in BOOLEAN, NEW s, NEW b \in Blocks, SoundBut(q, s, b),
         NEW d \in Directories, \A x \in Blocks : x # b => d[x] = s.dir[x],
         q => \A n \in Cores, k \in L1Kinds :
                Holds(L1, s.l1[n][k], b) => n \in TrackersOf(d, b)
  PROVE  LET t == [s EXCEPT !.dir = d]
         IN /\ SoundBut(q, t, b)
            /\ t.l1 = s.l1 /\ t.llc = s.llc /\ t.dir = d
            /\ t.aborted = s.aborted
            /\ KeepsAsking(s, t, b)
<1> DEFINE t == [s EXCEPT !.dir = d]
<1>1. /\ OKBut(t, b)
      /\ t.l1 = s.l1 /\ t.llc = s.llc /\ t.dir = d /\ t.aborted = s.aborted
  BY SetDirOKBut DEF SoundBut
<1> HIDE DEF t
<1>2. KindsApart(t)
  BY <1>1 DEF SoundBut, Sound, KindsApart
<1>3. q => HeldIsTracked(t)
  BY <1>1 DEF SoundBut, Sound, HeldIsTracked, TrackersOf
<1>4. s.aborted \/ FreshBut(t, b)
  BY <1>1, EntryKeepsFresh DEF SoundBut
<1>5. KeepsAsking(s, t, b)
  BY <1>1 DEF KeepsAsking, AskedInFull, Answers, TrackersOf
<1>6. SoundBut(q, t, b)
  BY <1>1, <1>2, <1>3, <1>4 DEF SoundBut, Sound
<1> QED
  BY <1>1, <1>5, <1>6 DEF t

\* A state that differs from a sound one in the statistics, or in what of the LLC
\* neither the index nor the marks tell.
LEMMA SameSoundBut ==
  ASSUME NEW q \in BOOLEAN, NEW s, NEW b \in Blocks, SoundBut(q, s, b),
         NEW t, OKBut(t, b), t.l1 = s.l1, t.dir = s.dir,
         t.aborted = s.aborted,
         \A x \in Blocks : Marked(t.llc, x) => Marked(s.llc, x)
  PROVE  SoundBut(q, t, b) /\ KeepsAsking(s, t, b)
<1>1. Sound(q, t)
  BY DEF SoundBut, Sound, KindsApart, HeldIsTracked
<1>2. s.aborted \/ FreshBut(t, b)
  BY DEF SoundBut, FreshBut, Fresh
<1>3. KeepsAsking(s, t, b)
  BY DEF KeepsAsking, AskedInFull, Answers
<1> QED
  BY <1>1, <1>2, <1>3 DEF SoundBut

LEMMA CountSoundBut ==
  ASSUME NEW q \in BOOLEAN, NEW s, NEW b \in Blocks, SoundBut(q, s, b),
         NEW x \in Stats
  PROVE  LET t == Count(s, x)
         IN /\ SoundBut(q, t, b) /\ KeepsAsking(s, t, b)
            /\ t.l1 = s.l1 /\ t.llc = s.llc /\ t.dir = s.dir
            /\ t.aborted = s.aborted
<1> DEFINE t == Count(s, x)
<1>1. /\ OKBut(t, b) /\ t.l1 = s.l1 /\ t.llc = s.llc /\ t.dir = s.dir
      /\ t.aborted = s.aborted
  BY CountOKBut, CountGood DEF SoundBut, OKBut
<1> HIDE DEF t
<1>2. SoundBut(q, t, b) /\ KeepsAsking(s, t, b)
  BY <1>1, SameSoundBut
<1> QED
  BY <1>1, <1>2 DEF t

\* The assertion of updateEntry.
LEMMA UpdateEntrySame ==
  ASSUME NEW s, GoodState(s), NEW b \in Blocks, HasEntry(s.dir, b)
  PROVE  UpdateEntry(s, b) = s
BY DEF UpdateEntry, Require, GoodState, StateRecords

\* What an access of block b that evicts block u, or none, makes of an L1: from c
\* to d.
OneForAnother(k, c, d, b, u) ==
  /\ OfKind(k, c) => OfKind(k, d)
  /\ \A x \in Blocks : Holds(L1, d, x) => x = b \/ (Holds(L1, c, x) /\ x # u)
  /\ \A x \in Blocks \ {b} : Present(d, x) =>
       /\ Present(c, x)
       /\ EntryOf(L1, d, x).dirty <=> EntryOf(L1, c, x).dirty

\* And of the caches, when it is the L1 of core n for kind k.
Accessed(s, t, n, k, b, u) ==
  /\ \A m \in Cores, j \in L1Kinds :
       ~(m = n /\ j = k) => t.l1[m][j] = s.l1[m][j]
  /\ OneForAnother(k, s.l1[n][k], t.l1[n][k], b, u)
  /\ \A x \in Blocks : Marked(t.llc, x) <=> Marked(s.llc, x)

\* And of the directory.
Evicted(s, t, n, k, u) ==
  IF u = NoBlock
  THEN t.dir = s.dir /\ t.aborted = s.aborted
  ELSE /\ u \in Blocks /\ Holds(L1, s.l1[n][k], u)
       /\ t.dir = RemoveTracker(s.dir, u, n)
       /\ t.aborted = (s.aborted \/ ~HasEntry(s.dir, u))

\* A new value c of one L1.
LEMMA ReplaceL1 ==
  ASSUME NEW e, GoodState(e), NEW n \in Cores, NEW k \in L1Kinds, NEW c
  PROVE  LET t == [e EXCEPT !.l1[n][k] = c]
         IN /\ t.l1[n][k] = c
            /\ \A m \in Cores, j \in L1Kinds :
                 ~(m = n /\ j = k) => t.l1[m][j] = e.l1[m][j]
            /\ t.dir = e.dir /\ t.llc = e.llc /\ t.aborted = e.aborted
BY DEF GoodState, StateRecords

\* A hit evicts nothing; a miss evicts the victim if it is valid, and the write
\* back then takes the core out of the trackers of that block alone.
LEMMA L1AccessVictim ==
  ASSUME NEW s, GoodState(s), NEW n \in Cores, NEW k \in L1Kinds,
         NEW b \in Blocks, NEW isWrite \in BOOLEAN, Fits(k, b, isWrite)
  PROVE  LET t == L1Access(s, n, k, b, isWrite)
         IN \E u : u # b /\ Accessed(s, t, n, k, b, u) /\ Evicted(s, t, n, k, u)
<1> DEFINE c == s.l1[n][k]
           w == Victim(L1, c, SetOf(L1, b), FALSE)
           victim == c.line[SetOf(L1, b)][w]
           u == victim.addr
           t == L1Access(s, n, k, b, isWrite)
<1>1. GoodCache(L1, c) /\ NoBlock # b
  BY Geometry, GeometryFacts DEF GoodState
<1>2. CASE Present(c, b)
  <2> DEFINE h == Hit(L1, c, b, isWrite)
             q == [s EXCEPT !.l1[n][k] = h]
  <2>1. t = q
    BY Zenon, <1>2 DEF L1Access
  <2>2. /\ \A x \in Blocks : /\ Present(h, x) <=> Present(c, x)
                             /\ Holds(L1, h, x) <=> Holds(L1, c, x)
        /\ \A x \in Blocks : Present(c, x) =>
             (EntryOf(L1, h, x).dirty <=>
                EntryOf(L1, c, x).dirty \/ (x = b /\ isWrite))
        /\ OfKind(k, c) => OfKind(k, h)
    <3> HIDE DEF c
    <3> QED
      BY <1>1, <1>2, Geometry, HitHolds, HitDirty, HitOfKind
  <2> HIDE DEF h
  <2>3. OneForAnother(k, c, h, b, NoBlock)
    <3>1. NoBlock \notin Blocks
      BY Geometry, GeometryFacts
    <3> HIDE DEF c
    <3> QED
      BY <2>2, <3>1 DEF OneForAnother
  <2>4. /\ Accessed(s, q, n, k, b, NoBlock)
        /\ q.dir = s.dir /\ q.aborted = s.aborted
    <3>1. /\ q.l1[n][k] = h
          /\ \A m \in Cores, j \in L1Kinds :
               ~(m = n /\ j = k) => q.l1[m][j] = s.l1[m][j]
          /\ q.dir = s.dir /\ q.llc = s.llc /\ q.aborted = s.aborted
      BY ReplaceL1
    <3> HIDE DEF q
    <3> QED
      BY <2>3, <3>1 DEF Accessed
  <2> HIDE DEF q, t
  <2>5. NoBlock # b /\ Accessed(s, t, n, k, b, NoBlock)
        /\ Evicted(s, t, n, k, NoBlock)
    BY <1>1, <2>1, <2>4 DEF Evicted
  <2> QED
    BY <2>5 DEF t
<1>3. CASE ~Present(c, b)
  <2> DEFINE isDirty == EntryOf(L1, c, u).dirty
             e == IF victim.valid THEN WBFromL1(s, n, u, isDirty, FALSE) ELSE s
             f == Fill(L1, c, b, w, isWrite, FALSE)
             v == IF victim.valid THEN u ELSE NoBlock
             q == [e EXCEPT !.l1[n][k] = f]
  <2>1. SetOf(L1, b) \in Sets(L1) /\ w \in Ways(L1)
    <3>1. SetOf(L1, b) \in Sets(L1)
      BY Geometry, GeometryFacts
    <3>2. c \in Caches(L1)
      BY <1>1 DEF GoodCache
    <3> HIDE DEF c
    <3>3. w \in Array(L1, FALSE)
      BY <3>1, <3>2, Geometry, VictimInArray
    <3> HIDE DEF w
    <3> QED
      BY <3>1, <3>3, Geometry, GeometryFacts
  <2>2. victim.valid => /\ u \in Blocks /\ Present(c, u) /\ u # b
                        /\ Holds(L1, c, u) /\ isDirty \in BOOLEAN
    <3> HIDE DEF c, w
    <3> SUFFICES ASSUME victim.valid
                 PROVE  /\ u \in Blocks /\ Present(c, u) /\ u # b
                        /\ Holds(L1, c, u) /\ isDirty \in BOOLEAN
      OBVIOUS
    <3>1. u \in Blocks /\ Present(c, u) /\ EntryOf(L1, c, u) = victim
      BY <1>1, <2>1, Geometry, ValidEntryIsIndexed
    <3>2. EntryOf(L1, c, u) \in Lines
      <4> HIDE DEF u, victim
      <4> QED
        BY <1>1, <3>1, Geometry, IndexedEntry DEF EntryOf
    <3>3. isDirty \in BOOLEAN
      BY <3>2 DEF Lines
    <3> QED
      BY <1>3, <3>1, <3>3 DEF Holds
  <2>3. t = [e EXCEPT !.l1[n][k] = Fill(L1, @, b, w, isWrite, FALSE)]
    BY Zenon, <1>3, <2>2 DEF L1Access, L1SignalWB
  <2>4. /\ \A x \in Blocks :
             Holds(L1, f, x) => x = b \/ (Holds(L1, c, x) /\ x # u)
        /\ \A x \in Blocks \ {b} : Present(f, x) =>
             Present(c, x) /\ EntryOf(L1, f, x) = EntryOf(L1, c, x)
        /\ OfKind(k, c) => OfKind(k, f)
    <3>1. L1 \in Geometries /\ FALSE \in BOOLEAN
      BY Geometry
    <3> HIDE DEF c, w
    <3>2. \A p \in BOOLEAN :
            LET d == Fill(L1, c, b, w, isWrite, p)
            IN /\ \A x \in Blocks : Present(d, x) <=>
                    x = b \/ (Present(c, x) /\ x # u)
               /\ \A x \in Blocks :
                    Holds(L1, d, x) => x = b \/ (Holds(L1, c, x) /\ x # u)
               /\ \A x \in Blocks :
                    x # b /\ Present(d, x) => EntryOf(L1, d, x) = EntryOf(L1, c, x)
               /\ OfKind(k, c) => OfKind(k, d)
      BY <1>1, <1>3, <2>1, <3>1, FillGood, FillHolds, FillDirty, FillOfKind
    <3> QED
      BY <3>1, <3>2
  <2>5. /\ GoodState(e) /\ e.l1 = s.l1
        /\ \A x \in Blocks : Marked(e.llc, x) <=> Marked(s.llc, x)
        /\ ~victim.valid => e = s
        /\ victim.valid => /\ e.dir = RemoveTracker(s.dir, u, n)
                           /\ e.aborted = (s.aborted \/ ~HasEntry(s.dir, u))
    <3>1. CASE ~victim.valid
      BY <3>1
    <3>2. CASE victim.valid
      <4>1. u \in Blocks /\ isDirty \in BOOLEAN
        BY <2>2, <3>2
      <4>2. e = WBFromL1(s, n, u, isDirty, FALSE)
        BY <3>2
      <4> HIDE DEF u, isDirty, e
      <4>3. \A kept \in BOOLEAN :
              LET y == WBFromL1(s, n, u, isDirty, kept)
              IN /\ GoodState(y) /\ y.l1 = s.l1
                 /\ y.llc.tag = s.llc.tag /\ y.llc.line = s.llc.line
                 /\ ~kept => y.dir = RemoveTracker(s.dir, u, n)
                 /\ y.aborted = (s.aborted \/ ~HasEntry(s.dir, u))
        BY <4>1, WBFromL1Good
      <4>4. /\ GoodState(e) /\ e.l1 = s.l1
            /\ e.llc.tag = s.llc.tag /\ e.llc.line = s.llc.line
            /\ e.dir = RemoveTracker(s.dir, u, n)
            /\ e.aborted = (s.aborted \/ ~HasEntry(s.dir, u))
        BY <4>2, <4>3
      <4>5. \A x \in Blocks : Marked(e.llc, x) <=> Marked(s.llc, x)
        BY <4>4 DEF Marked, Present, EntryOf
      <4> HIDE DEF victim
      <4> QED
        BY <3>2, <4>4, <4>5
    <3> QED
      BY <3>1, <3>2
  <2>6. t = q
    BY Zenon, <2>3, <2>5 DEF f
  <2> HIDE DEF e, f
  <2>7. v # b /\ (~victim.valid => v = NoBlock)
        /\ (victim.valid => v = u /\ v \in Blocks /\ v # NoBlock
                            /\ Holds(L1, c, u))
    <3>1. NoBlock \notin Blocks
      BY Geometry, GeometryFacts
    <3> HIDE DEF c, victim, u
    <3> QED
      BY <1>1, <2>2, <3>1
  <2>8. OneForAnother(k, c, f, b, v)
    <3>1. NoBlock \notin Blocks
      BY Geometry, GeometryFacts
    <3> HIDE DEF c, v, u, victim
    <3> QED
      BY <2>4, <2>7, <3>1 DEF OneForAnother
  <2> HIDE DEF v
  <2>9. /\ Accessed(s, q, n, k, b, v)
        /\ q.dir = e.dir /\ q.aborted = e.aborted
    <3>1. /\ q.l1[n][k] = f
          /\ \A m \in Cores, j \in L1Kinds :
               ~(m = n /\ j = k) => q.l1[m][j] = e.l1[m][j]
          /\ q.dir = e.dir /\ q.llc = e.llc /\ q.aborted = e.aborted
      BY <2>5, ReplaceL1
    <3> HIDE DEF q, w, u, victim
    <3> QED
      BY <2>5, <2>8, <3>1 DEF Accessed
  <2> HIDE DEF q, t
  <2>10. Evicted(s, t, n, k, v)
    <3> HIDE DEF u, victim
    <3> QED
      BY <2>5, <2>6, <2>7, <2>9 DEF Evicted
  <2> QED
    BY <2>6, <2>7, <2>9, <2>10 DEF t
<1> QED
  BY <1>2, <1>3

\* An access of an L1 that the directory tracks for the block.  The core leaves
\* the trackers of the block it evicts, of which its other L1 has no copy.
LEMMA L1AccessSoundBut ==
  ASSUME NEW q \in BOOLEAN, NEW s, NEW b \in Blocks, SoundBut(q, s, b),
         NEW n \in Cores, NEW k \in L1Kinds, NEW isWrite \in BOOLEAN,
         Fits(k, b, isWrite),
         q => L1sApart(s) /\ n \in TrackersOf(s.dir, b)
  PROVE  LET t == L1Access(s, n, k, b, isWrite)
         IN /\ SoundBut(q, t, b) /\ KeepsAsking(s, t, b)
            /\ t.dir[b] = s.dir[b]
            /\ Present(t.llc, b) <=> Present(s.llc, b)
            /\ Marked(t.llc, b) => Marked(s.llc, b)
            /\ s.aborted => t.aborted
<1> DEFINE t == L1Access(s, n, k, b, isWrite)
<1>1. /\ GoodState(s) /\ OKBut(s, b) /\ Sound(q, s) /\ s.dir \in Directories
      /\ s.aborted \/ FreshBut(s, b)
  BY DEF SoundBut, OKBut, GoodState, StateRecords
<1>2. /\ OKBut(t, b) /\ t.dir[b] = s.dir[b]
      /\ Present(t.llc, b) <=> Present(s.llc, b)
      /\ s.aborted => t.aborted
  BY <1>1, L1AccessOKBut
<1>3. PICK u : u # b /\ Accessed(s, t, n, k, b, u) /\ Evicted(s, t, n, k, u)
  BY <1>1, L1AccessVictim
<1> HIDE DEF t
<1>4. /\ \A m \in Cores, j \in L1Kinds :
           ~(m = n /\ j = k) => t.l1[m][j] = s.l1[m][j]
      /\ OneForAnother(k, s.l1[n][k], t.l1[n][k], b, u)
      /\ \A x \in Blocks : Marked(t.llc, x) <=> Marked(s.llc, x)
  BY <1>3 DEF Accessed
<1>5. \A x \in Blocks :
        /\ x # u => t.dir[x] = s.dir[x]
        /\ x = u => /\ TrackersOf(t.dir, x) = TrackersOf(s.dir, x) \ {n}
                    /\ \/ StateOf(t.dir, x) = StateOf(s.dir, x)
                       \/ StateOf(t.dir, x) = "CLEAN_LLC"
  <2>1. CASE u = NoBlock
    <3>1. NoBlock \notin Blocks
      BY Geometry, GeometryFacts
    <3> QED
      BY <1>3, <2>1, <3>1 DEF Evicted
  <2>2. CASE u # NoBlock
    <3>1. u \in Blocks /\ t.dir = RemoveTracker(s.dir, u, n)
      BY <1>3, <2>2 DEF Evicted
    <3>2. \A x \in Blocks : x # u => t.dir[x] = s.dir[x]
      BY <1>1, <3>1, RemoveTrackerMatches
    <3>3. /\ TrackersOf(t.dir, u) = TrackersOf(s.dir, u) \ {n}
          /\ \/ StateOf(t.dir, u) = StateOf(s.dir, u)
             \/ StateOf(t.dir, u) = "CLEAN_LLC"
      BY <1>1, <3>1, RemoveTrackerEntry
    <3> QED
      BY <3>2, <3>3
  <2> QED
    BY <2>1, <2>2
<1>6. KindsApart(t)
  BY <1>1, <1>4 DEF Sound, KindsApart, OneForAnother
<1>7. s.aborted \/ FreshBut(t, b)
  <2>1. KeepsMarks(s, t)
    BY <1>4, <1>5 DEF KeepsMarks, StateOf
  <2> QED
    BY <1>1, <2>1, L1KeepsFresh
<1>8. ASSUME q
      PROVE  t.aborted = FALSE /\ HeldIsTracked(t)
  <2>1. s.aborted = FALSE /\ HeldIsTracked(s) /\ L1sApart(s)
    BY <1>1, <1>8 DEF Sound
  <2>2. t.aborted = FALSE
    <3>1. CASE u = NoBlock
      BY <1>3, <2>1, <3>1 DEF Evicted
    <3>2. CASE u # NoBlock
      <4>1. /\ u \in Blocks /\ Holds(L1, s.l1[n][k], u)
            /\ t.aborted = (s.aborted \/ ~HasEntry(s.dir, u))
        BY <1>3, <3>2 DEF Evicted
      <4>2. HasEntry(s.dir, u)
        BY <1>1, <2>1, <4>1, TrackedHasEntry DEF HeldIsTracked
      <4> QED
        BY <2>1, <4>1, <4>2
    <3> QED
      BY <3>1, <3>2
  <2>3. ASSUME NEW m \in Cores, NEW j \in L1Kinds, NEW x \in Blocks,
               Holds(L1, t.l1[m][j], x)
        PROVE  m \in TrackersOf(t.dir, x)
    <3>1. CASE m = n /\ j = k
      <4>1. x = b \/ (Holds(L1, s.l1[n][k], x) /\ x # u)
        BY <1>4, <2>3, <3>1 DEF OneForAnother
      <4>2. n \in TrackersOf(s.dir, x) /\ x # u
        BY <1>3, <1>8, <2>1, <4>1 DEF HeldIsTracked
      <4> QED
        BY <1>5, <3>1, <4>2 DEF TrackersOf
    <3>2. CASE ~(m = n /\ j = k)
      <4>1. Holds(L1, s.l1[m][j], x)
        BY <1>4, <2>3, <3>2
      <4>2. m \in TrackersOf(s.dir, x)
        BY <2>1, <4>1 DEF HeldIsTracked
      <4>3. ~(x = u /\ m = n)
        <5> SUFFICES ASSUME x = u, m = n PROVE FALSE
          OBVIOUS
        <5>1. u # NoBlock
          <6>1. NoBlock \notin Blocks
            BY Geometry, GeometryFacts
          <6> QED
            BY <6>1
        <5>2. Holds(L1, s.l1[n][k], x) /\ j # k
          BY <1>3, <3>2, <5>1 DEF Evicted
        <5> QED
          BY <2>1, <4>1, <5>2 DEF L1sApart, L1Kinds
      <4> QED
        BY <1>5, <4>2, <4>3 DEF TrackersOf
    <3> QED
      BY <3>1, <3>2
  <2> QED
    BY <2>2, <2>3 DEF HeldIsTracked
<1>9. KeepsAsking(s, t, b)
  <2> SUFFICES ASSUME NEW x \in Blocks, x # b, AskedInFull(s, x)
               PROVE  AskedInFull(t, x)
    BY DEF KeepsAsking
  <2>1. TrackersOf(t.dir, x) \subseteq TrackersOf(s.dir, x)
    BY <1>5 DEF TrackersOf
  <2>2. TrackersOf(s.dir, x) \subseteq Cores
    BY <1>1, DirectoryEntry
  <2>3. ASSUME NEW m \in TrackersOf(t.dir, x), Answers(t, m, x)
        PROVE  Answers(s, m, x)
    <3>1. m \in Cores
      BY <2>1, <2>2
    <3>2. PICK j \in L1Kinds : InvalidationAnswer(L1, t.l1[m][j], x)
      BY <2>3 DEF Answers
    <3>3. InvalidationAnswer(L1, s.l1[m][j], x)
      BY <1>4, <3>1, <3>2 DEF InvalidationAnswer, OneForAnother
    <3> QED
      BY <3>3 DEF Answers
  <2> QED
    BY <2>1, <2>3, AskedStill
<1>10. SoundBut(q, t, b)
  BY <1>2, <1>6, <1>7, <1>8 DEF SoundBut, Sound
<1> QED
  BY <1>2, <1>4, <1>9, <1>10 DEF t

-----------------------------------------------------------------------------
(***************************************************************************)
(* The evictions of the LLC.                                               *)
(***************************************************************************)
\* What an L1 keeps when it is asked to invalidate a block.  The data cache is
\* never left out: nothing is dirty in the instruction cache.
LEMMA InvalidatedKeeps ==
  ASSUME NEW s, GoodState(s), KindsApart(s), NEW n \in Cores, NEW k \in L1Kinds,
         NEW v \in Blocks
  PROVE  LET d == Invalidated(s, n, k, v)
         IN /\ OfKind(k, d) /\ ~Holds(L1, d, v)
            /\ \A x \in Blocks :
                 /\ Holds(L1, d, x) => Holds(L1, s.l1[n][k], x)
                 /\ InvalidationAnswer(L1, d, x)
                      <=> InvalidationAnswer(L1, s.l1[n][k], x)
<1> DEFINE c == s.l1[n][k]
           d == ReceiveInvalidation(L1, c, v)
<1>1. ~InvalidationAnswer(L1, s.l1[n]["I"], v)
  BY DEF KindsApart, OfKind, InvalidationAnswer, L1Kinds
<1>2. Invalidated(s, n, k, v) = d
  BY <1>1 DEF Invalidated
<1>3. GoodCache(L1, c) /\ OfKind(k, c)
  BY DEF GoodState, KindsApart
<1>4. OfKind(k, d)
  <2> HIDE DEF c
  <2> QED
    BY <1>3, InvalidatedOfKind
<1>5. /\ ~Holds(L1, d, v)
      /\ \A x \in Blocks :
           /\ Present(d, x) <=> Present(c, x)
           /\ Holds(L1, d, x) => Holds(L1, c, x)
           /\ Present(c, x) => (EntryOf(L1, d, x).dirty <=> EntryOf(L1, c, x).dirty)
  <2> HIDE DEF c
  <2> QED
    BY <1>3, Geometry, ReceiveInvalidationHolds
<1> HIDE DEF c, d
<1>6. \A x \in Blocks : InvalidationAnswer(L1, d, x)
                          <=> InvalidationAnswer(L1, c, x)
  BY <1>5 DEF InvalidationAnswer
<1> QED
  BY <1>2, <1>4, <1>5, <1>6 DEF c

\* Every tracker is asked, and none of the cores asked is left with a copy.
LEMMA L1sDeallocateSound ==
  ASSUME NEW q \in BOOLEAN, NEW s, GoodState(s), Sound(q, s), NEW v \in Blocks,
         q => /\ HasEntry(s.dir, v) /\ EntryMatches(s.dir, v)
              /\ AskedInFull(s, v)
  PROVE  LET t == L1sDeallocate(s, v)
         IN /\ Sound(q, t)
            /\ q => /\ HasEntry(t.dir, v)
                    /\ \A n \in Cores, k \in L1Kinds : ~Holds(L1, t.l1[n][k], v)
            /\ \A x \in Blocks : Marked(t.llc, x) <=> Marked(s.llc, x)
            /\ \A n \in Cores, x \in Blocks : Answers(t, n, x) => Answers(s, n, x)
<1> DEFINE u == Require(s, HasEntry(s.dir, v))
           nodes == TrackersOf(s.dir, v)
           Asked(n) == n \in nodes /\ \A m \in nodes : m < n => ~Answers(s, m, v)
           isDirty == \E n \in nodes : Answers(s, n, v)
           f == [n \in Cores |-> [k \in L1Kinds |->
                   IF Asked(n) THEN Invalidated(s, n, k, v) ELSE s.l1[n][k]]]
           c == SetDirty(LLC, s.llc, v, isDirty)
           d == SetState(ResetTrackersToEntry(s.dir, v), v, "CLEAN_LLC")
           t == L1sDeallocate(s, v)
<1>1. s.dir \in Directories /\ s \in StateRecords
  BY DEF GoodState, StateRecords
<1>2. KindsApart(s) /\ (q => s.aborted = FALSE /\ HeldIsTracked(s))
  BY DEF Sound
<1>3. /\ u.l1 = s.l1 /\ u.llc = s.llc /\ u.dir = s.dir
      /\ u.aborted = (s.aborted \/ ~HasEntry(s.dir, v))
      /\ u \in StateRecords
  <2>1. HasEntry(s.dir, v) \in BOOLEAN
    BY DEF HasEntry
  <2> QED
    BY <1>1, <2>1 DEF Require, StateRecords
<1>4. t = IF IsInL1(s.dir, v)
          THEN [[[u EXCEPT !.l1 = f] EXCEPT !.llc = c] EXCEPT !.dir = d]
          ELSE u
  BY <1>3 DEF L1sDeallocate
<1>5. CASE ~IsInL1(s.dir, v)
  <2>1. t = u
    BY <1>4, <1>5
  <2> HIDE DEF t, u
  <2>2. t.l1 = s.l1 /\ t.llc = s.llc /\ t.dir = s.dir /\ (q => t.aborted = FALSE)
    BY <1>2, <1>3, <2>1
  <2>3. Sound(q, t)
    BY <1>2, <2>2 DEF Sound, KindsApart, HeldIsTracked
  <2>4. q => TrackersOf(s.dir, v) = {}
    BY <1>5 DEF EntryMatches, IsInL1
  <2>5. q => \A n \in Cores, k \in L1Kinds : ~Holds(L1, t.l1[n][k], v)
    BY <1>2, <2>2, <2>4 DEF HeldIsTracked
  <2>6. \A n \in Cores, x \in Blocks : Answers(t, n, x) => Answers(s, n, x)
    BY <2>2 DEF Answers
  <2> QED
    BY <2>2, <2>3, <2>5, <2>6 DEF t
<1>6. CASE IsInL1(s.dir, v)
  <2>1. d = [s.dir EXCEPT ![v] = [state |-> "CLEAN_LLC", trackers |-> {}]]
    BY <1>1, ClearEntry
  <2>2. HasEntry(d, v) /\ \A x \in Blocks : x # v => d[x] = s.dir[x]
    <3> HIDE DEF d
    <3> QED
      BY <1>1, <2>1 DEF Directories, HasEntry, NoEntry
  <2>3. \A x \in Blocks : Marked(c, x) <=> Marked(s.llc, x)
    <3>1. GoodCache(LLC, s.llc) /\ isDirty \in BOOLEAN
      BY DEF GoodState
    <3> HIDE DEF isDirty
    <3> QED
      BY <3>1, SetDirtyMarked
  <2>4. \A n \in Cores, k \in L1Kinds :
          f[n][k] = IF Asked(n) THEN Invalidated(s, n, k, v) ELSE s.l1[n][k]
    <3> HIDE DEF Asked
    <3> QED
      OBVIOUS
  <2>5. q => \A n \in nodes : Asked(n)
    BY DEF AskedInFull
  <2> HIDE DEF u, f, c, d, t, Asked
  <2>6. /\ t.l1 = f /\ t.llc = c /\ t.dir = d
        /\ t.aborted = (s.aborted \/ ~HasEntry(s.dir, v))
    BY <1>3, <1>4, <1>6 DEF StateRecords
  <2>7. ASSUME NEW n \in Cores, NEW k \in L1Kinds
        PROVE  /\ OfKind(k, t.l1[n][k])
               /\ Asked(n) => ~Holds(L1, t.l1[n][k], v)
               /\ \A x \in Blocks :
                    /\ Holds(L1, t.l1[n][k], x) => Holds(L1, s.l1[n][k], x)
                    /\ InvalidationAnswer(L1, t.l1[n][k], x)
                         <=> InvalidationAnswer(L1, s.l1[n][k], x)
    <3>1. CASE Asked(n)
      <4>1. t.l1[n][k] = Invalidated(s, n, k, v)
        BY <2>4, <2>6, <3>1
      <4> QED
        BY <1>2, <4>1, InvalidatedKeeps
    <3>2. CASE ~Asked(n)
      <4>1. t.l1[n][k] = s.l1[n][k]
        BY <2>4, <2>6, <3>2
      <4> QED
        BY <1>2, <3>2, <4>1 DEF KindsApart
    <3> QED
      BY <3>1, <3>2
  <2>8. KindsApart(t)
    BY <2>7 DEF KindsApart
  <2>9. ASSUME q, NEW n \in Cores, NEW k \in L1Kinds, NEW x \in Blocks,
               Holds(L1, t.l1[n][k], x)
        PROVE  x # v /\ n \in TrackersOf(t.dir, x)
    <3>1. n \in TrackersOf(s.dir, x)
      BY <1>2, <2>7, <2>9 DEF HeldIsTracked
    <3>2. x # v
      BY <2>5, <2>7, <2>9, <3>1
    <3> QED
      BY <2>2, <2>6, <3>1, <3>2 DEF TrackersOf
  <2>10. q => HeldIsTracked(t) /\ t.aborted = FALSE
    BY <1>2, <2>6, <2>9 DEF HeldIsTracked
  <2>11. \A n \in Cores, x \in Blocks : Answers(t, n, x) => Answers(s, n, x)
    BY <2>7 DEF Answers
  <2>12. Sound(q, t)
    BY <2>8, <2>10 DEF Sound
  <2> QED
    BY <2>2, <2>3, <2>6, <2>9, <2>11, <2>12 DEF t
<1> QED
  BY <1>5, <1>6

\* The write back that follows finds the entry and takes it, and no L1 has the
\* block any more.
LEMMA WBFromLLCSound ==
  ASSUME NEW q \in BOOLEAN, NEW s, GoodState(s), Sound(q, s), NEW v \in Blocks,
         q => /\ HasEntry(s.dir, v)
              /\ \A n \in Cores, k \in L1Kinds : ~Holds(L1, s.l1[n][k], v),
         NEW isDirty \in BOOLEAN
  PROVE  Sound(q, WBFromLLC(s, v, isDirty))
<1> DEFINE u == Require(s, HasEntry(s.dir, v))
           x == IF isDirty THEN "dirtyWB" ELSE "cleanWB"
           w == Count(u, x)
           d == RemoveEntry(s.dir, v)
           t == [w EXCEPT !.dir = d]
<1>1. s \in StateRecords /\ s.dir \in Directories
  BY DEF GoodState, StateRecords
<1>2. /\ GoodState(u) /\ u.l1 = s.l1 /\ u.dir = s.dir
      /\ u.aborted = (s.aborted \/ ~HasEntry(s.dir, v))
  <2>1. HasEntry(s.dir, v) \in BOOLEAN
    BY DEF HasEntry
  <2>2. u.l1 = s.l1
    BY <1>1 DEF Require, StateRecords
  <2> QED
    BY <2>1, <2>2, RequireGood
<1>3. x \in Stats
  BY DEF Stats
<1> HIDE DEF u, x
<1>4. /\ GoodState(w) /\ w.l1 = u.l1 /\ w.dir = u.dir
      /\ w.aborted = u.aborted
  BY <1>2, <1>3, CountGood
<1>5. t = WBFromLLC(s, v, isDirty)
  BY <1>2, <1>4 DEF WBFromLLC, u, x
<1> HIDE DEF w
<1>6. \A y \in Blocks : y # v => d[y] = s.dir[y]
  BY <1>1 DEF RemoveEntry, Directories
<1> HIDE DEF d
<1>7. /\ t.l1 = s.l1 /\ t.dir = d
      /\ t.aborted = (s.aborted \/ ~HasEntry(s.dir, v))
  BY <1>2, <1>4 DEF GoodState, StateRecords
<1> HIDE DEF t
<1>8. KindsApart(t)
  BY <1>7 DEF Sound, KindsApart
<1>9. q => HeldIsTracked(t)
  BY <1>6, <1>7 DEF Sound, HeldIsTracked, TrackersOf
<1> QED
  BY <1>5, <1>7, <1>8, <1>9 DEF Sound

\* What the eviction of block v by the LLC, or of none, makes of a state.
LLCEvicted(q, s, e, v) ==
  /\ GoodState(e) /\ Sound(q, e) /\ e.llc.tag = s.llc.tag
  /\ \A x \in Blocks :
       /\ Marked(e.llc, x) <=> Marked(s.llc, x)
       /\ IF x = v THEN TrackersOf(e.dir, x) \subseteq TrackersOf(s.dir, x)
          ELSE e.dir[x] = s.dir[x]
       /\ \A n \in Cores : Answers(e, n, x) => Answers(s, n, x)

LEMMA LLCEviction ==
  ASSUME NEW q \in BOOLEAN, NEW s, GoodState(s), Sound(q, s), NEW v \in Blocks,
         Present(s.llc, v), q => EntryOK(s, v) /\ AskedInFull(s, v)
  PROVE  LLCEvicted(q, s, LLCSignalWB(L1sDeallocate(s, v), v), v)
<1> DEFINE d == L1sDeallocate(s, v)
           isDirty == EntryOf(LLC, d.llc, v).dirty
           e == LLCSignalWB(d, v)
<1>1. q => HasEntry(s.dir, v) /\ EntryMatches(s.dir, v) /\ AskedInFull(s, v)
  BY DEF EntryOK
<1>2. /\ Sound(q, d)
      /\ q => /\ HasEntry(d.dir, v)
              /\ \A n \in Cores, k \in L1Kinds : ~Holds(L1, d.l1[n][k], v)
      /\ \A x \in Blocks : Marked(d.llc, x) <=> Marked(s.llc, x)
      /\ \A n \in Cores, x \in Blocks : Answers(d, n, x) => Answers(s, n, x)
  BY <1>1, L1sDeallocateSound
<1>3. /\ GoodState(d) /\ d.llc.tag = s.llc.tag
      /\ \A x \in Blocks : x # v => d.dir[x] = s.dir[x]
  BY L1sDeallocateGood
<1> HIDE DEF d, e
<1>4. Present(d.llc, v)
  BY <1>3 DEF Present
<1>5. isDirty \in BOOLEAN
  <2>1. GoodCache(LLC, d.llc)
    BY <1>3 DEF GoodState
  <2>2. EntryOf(LLC, d.llc, v) \in Lines
    BY <1>4, <2>1, Geometry, IndexedEntry DEF EntryOf
  <2> QED
    BY <2>2 DEF Lines
<1>6. e = WBFromLLC(d, v, isDirty)
  BY <1>4 DEF LLCSignalWB, e
<1> HIDE DEF isDirty
<1>7. Sound(q, e)
  BY <1>2, <1>3, <1>5, <1>6, WBFromLLCSound
<1>8. /\ GoodState(e) /\ e.l1 = d.l1 /\ e.llc = d.llc
      /\ e.dir = [d.dir EXCEPT ![v] = NoEntry]
  BY <1>3, <1>5, <1>6, WBFromLLCGood
<1>9. d.dir \in Directories
  BY <1>3 DEF GoodState, StateRecords
<1>10. /\ TrackersOf(e.dir, v) = {}
       /\ \A x \in Blocks : x # v => e.dir[x] = s.dir[x]
  BY <1>3, <1>8, <1>9 DEF Directories, TrackersOf, NoEntry
<1>11. \A n \in Cores, x \in Blocks : Answers(e, n, x) => Answers(s, n, x)
  BY <1>2, <1>8 DEF Answers
<1>12. LLCEvicted(q, s, e, v)
  BY <1>2, <1>3, <1>7, <1>8, <1>10, <1>11 DEF LLCEvicted
<1> QED
  BY <1>12 DEF d, e

\* An access of the LLC: what it evicts has an entry that matches, so the
\* eviction leaves no copy and no assertion fails.
LEMMA LLCAccessMarks ==
  ASSUME NEW q \in BOOLEAN, NEW s, NEW b \in Blocks, OKBut(s, b), Sound(q, s),
         q => Present(s.llc, b) \/ AskBut(s, b),
         NEW isWrite \in BOOLEAN, NEW isPrefetch \in BOOLEAN
  PROVE  LET t == LLCAccess(s, b, isWrite, isPrefetch)
         IN /\ Sound(q, t) /\ KeepsAsking(s, t, b)
            /\ MarksAfter(s, t, b, isPrefetch)
            /\ Present(s.llc, b) => t.l1 = s.l1
<1> DEFINE c == s.llc
           w == Victim(LLC, c, SetOf(LLC, b), AllocateInNVM(LLC, isWrite))
           victim == c.line[SetOf(LLC, b)][w]
           v == victim.addr
           t == LLCAccess(s, b, isWrite, isPrefetch)
<1>1. /\ GoodState(s) /\ GoodCache(LLC, c) /\ s \in StateRecords
      /\ q => \A x \in Blocks \ {b} : EntryOK(s, x)
  BY DEF OKBut, GoodState, Sound
<1>2. CASE Present(c, b)
  <2>1. \A z : LET y == [s EXCEPT !.llc = z]
               IN /\ y.l1 = s.l1 /\ y.llc = z /\ y.dir = s.dir
                  /\ y.aborted = s.aborted
    BY <1>1 DEF StateRecords
  <2>2. t = [s EXCEPT !.llc = Hit(LLC, c, b, isWrite)]
    BY <1>2 DEF LLCAccess
  <2> HIDE DEF t
  <2>3. /\ t.l1 = s.l1 /\ t.dir = s.dir /\ t.aborted = s.aborted
        /\ t.llc = Hit(LLC, c, b, isWrite)
    BY <2>1, <2>2
  <2>4. \A x \in Blocks : Marked(t.llc, x) <=> Marked(c, x)
    <3> HIDE DEF c
    <3> QED
      BY <1>1, <1>2, <2>3, HitMarked
  <2>5. Sound(q, t) /\ MarksAfter(s, t, b, isPrefetch) /\ KeepsAsking(s, t, b)
    BY <2>3, <2>4
    DEF MarksAfter, Sound, KindsApart, HeldIsTracked, KeepsAsking, AskedInFull,
        Answers
  <2> QED
    BY <2>3, <2>5 DEF t
<1>3. CASE ~Present(c, b)
  <2> DEFINE e == IF victim.valid THEN LLCSignalWB(L1sDeallocate(s, v), v) ELSE s
  <2>1. SetOf(LLC, b) \in Sets(LLC) /\ w \in Ways(LLC)
    <3>1. SetOf(LLC, b) \in Sets(LLC)
      BY Geometry, GeometryFacts
    <3>2. c \in Caches(LLC)
      BY <1>1 DEF GoodCache
    <3>3. /\ AllocateInNVM(LLC, isWrite) \in BOOLEAN
          /\ Array(LLC, AllocateInNVM(LLC, isWrite)) # {}
      BY Geometry
    <3> HIDE DEF c
    <3>4. w \in Array(LLC, AllocateInNVM(LLC, isWrite))
      BY <3>1, <3>2, <3>3, Geometry, VictimInArray
    <3> HIDE DEF w
    <3> QED
      BY <3>1, <3>3, <3>4, Geometry, GeometryFacts
  <2>2. t = [e EXCEPT !.llc = Fill(LLC, e.llc, b, w, isWrite, isPrefetch)]
    BY <1>3 DEF LLCAccess
  <2>3. LLCEvicted(q, s, e, v)
    <3>1. CASE ~victim.valid
      <4>1. e = s
        BY <3>1
      <4> HIDE DEF e
      <4> QED
        BY <1>1, <4>1 DEF LLCEvicted
    <3>2. CASE victim.valid
      <4>1. v \in Blocks /\ Present(c, v) /\ v # b
        <5> HIDE DEF c, w
        <5>1. v \in Blocks /\ Present(c, v)
          BY <1>1, <2>1, <3>2, Geometry, ValidEntryIsIndexed
        <5> QED
          BY <1>3, <5>1
      <4>2. e = LLCSignalWB(L1sDeallocate(s, v), v)
        BY <3>2
      <4> HIDE DEF v, e
      <4>3. q => EntryOK(s, v) /\ AskedInFull(s, v)
        BY <1>1, <1>3, <4>1 DEF AskBut
      <4> QED
        BY <1>1, <4>1, <4>2, <4>3, LLCEviction
    <3> QED
      BY <3>1, <3>2
  <2> HIDE DEF e, t, w
  <2>4. /\ GoodState(e) /\ Sound(q, e) /\ e.llc.tag = c.tag
        /\ \A x \in Blocks :
             /\ Marked(e.llc, x) <=> Marked(c, x)
             /\ IF x = v THEN TrackersOf(e.dir, x) \subseteq TrackersOf(s.dir, x)
                ELSE e.dir[x] = s.dir[x]
             /\ \A n \in Cores : Answers(e, n, x) => Answers(s, n, x)
    BY <2>3 DEF LLCEvicted
  <2>5. \A z : LET y == [e EXCEPT !.llc = z]
               IN /\ y.l1 = e.l1 /\ y.llc = z /\ y.dir = e.dir
                  /\ y.aborted = e.aborted
    BY <2>4 DEF GoodState, StateRecords
  <2>6. /\ t.l1 = e.l1 /\ t.dir = e.dir /\ t.aborted = e.aborted
        /\ t.llc = Fill(LLC, e.llc, b, w, isWrite, isPrefetch)
    BY <2>2, <2>5
  <2>7. GoodCache(LLC, e.llc) /\ ~Present(e.llc, b)
    BY <1>3, <2>4 DEF GoodState, Present
  <2>8. \A x \in Blocks :
          x = e.llc.line[SetOf(LLC, b)][w].addr <=> x = v
    <3>1. TagsAgree(LLC, c) /\ TagsAgree(LLC, e.llc)
      BY <1>1, <2>7 DEF GoodCache
    <3>2. e.llc.tag = c.tag
      BY <2>4
    <3> HIDE DEF c
    <3>3. \A x \in Blocks :
            (e.llc.line[SetOf(LLC, b)][w].addr = x) <=>
              (c.line[SetOf(LLC, b)][w].addr = x)
      BY <2>1, <3>1, <3>2 DEF TagsAgree
    <3> QED
      BY <3>3
  <2> HIDE DEF v
  <2>9. \A x \in Blocks :
          Marked(t.llc, x) =>
            \/ x = b /\ isPrefetch
            \/ x # b /\ Marked(e.llc, x) /\ x # v
    BY <2>1, <2>6, <2>7, <2>8, FillMarked
  <2>10. Sound(q, t)
    BY <2>4, <2>6 DEF Sound, KindsApart, HeldIsTracked
  <2>11. MarksAfter(s, t, b, isPrefetch)
    BY <2>4, <2>6, <2>9 DEF MarksAfter
  <2>12. KeepsAsking(s, t, b)
    <3> SUFFICES ASSUME NEW x \in Blocks, x # b, AskedInFull(s, x)
                 PROVE  AskedInFull(t, x)
      BY DEF KeepsAsking
    <3>1. TrackersOf(t.dir, x) \subseteq TrackersOf(s.dir, x)
      BY <2>4, <2>6 DEF TrackersOf
    <3>2. TrackersOf(s.dir, x) \subseteq Cores
      BY <1>1, DirectoryEntry DEF StateRecords
    <3>3. \A m \in TrackersOf(t.dir, x) : Answers(t, m, x) => Answers(s, m, x)
      BY <2>4, <2>6, <3>1, <3>2 DEF Answers
    <3> QED
      BY <3>1, <3>3, AskedStill
  <2> QED
    BY <1>3, <2>10, <2>11, <2>12 DEF t
<1> QED
  BY <1>2, <1>3

\* The access as the branches see it, with the assertion of updateEntry.
LEMMA LLCAccessSoundBut ==
  ASSUME NEW q \in BOOLEAN, NEW s, NEW b \in Blocks, SoundBut(q, s, b),
         q => Present(s.llc, b) \/ AskBut(s, b),
         NEW isWrite \in BOOLEAN, NEW isPrefetch \in BOOLEAN
  PROVE  LET t == LLCAccess(s, b, isWrite, isPrefetch)
         IN /\ SoundBut(q, t, b) /\ KeepsAsking(s, t, b)
            /\ t.dir[b] = s.dir[b] /\ Present(t.llc, b)
            /\ Marked(t.llc, b) /\ ~s.aborted => isPrefetch \/ Marked(s.llc, b)
            /\ Present(s.llc, b) => t.l1 = s.l1
            /\ s.aborted => t.aborted
            /\ HasEntry(s.dir, b) => UpdateEntry(t, b) = t
<1> DEFINE t == LLCAccess(s, b, isWrite, isPrefetch)
<1>1. OKBut(s, b) /\ Sound(q, s) /\ (s.aborted \/ FreshBut(s, b))
  BY DEF SoundBut
<1>2. /\ Sound(q, t) /\ KeepsAsking(s, t, b)
      /\ MarksAfter(s, t, b, isPrefetch)
      /\ Present(s.llc, b) => t.l1 = s.l1
  BY <1>1, LLCAccessMarks
<1>3. /\ GoodState(t) /\ Present(t.llc, b) /\ t.dir[b] = s.dir[b]
      /\ s.aborted => t.aborted
      /\ \A x \in Blocks : x # b /\ EntryOK(s, x) => EntryOK(t, x)
  BY <1>1, LLCAccessGood DEF OKBut
<1> HIDE DEF t
<1>4. OKBut(t, b)
  BY <1>1, <1>3 DEF OKBut
<1>5. ~s.aborted =>
        FreshBut(t, b) /\ (Marked(t.llc, b) => isPrefetch \/ Marked(s.llc, b))
  BY <1>1, <1>2, LLCKeepsFresh
<1>6. HasEntry(s.dir, b) => UpdateEntry(t, b) = t
  <2>1. HasEntry(s.dir, b) => HasEntry(t.dir, b)
    BY <1>3 DEF HasEntry
  <2> QED
    BY <1>3, <2>1, UpdateEntrySame
<1> QED
  BY <1>2, <1>3, <1>4, <1>5, <1>6 DEF SoundBut, t

-----------------------------------------------------------------------------
(***************************************************************************)
(* What the L1s are told to do.                                            *)
(***************************************************************************)
\* Cores that drop a block hold it no more, and no core holds more than before.
LEMMA L1sDropSoundBut ==
  ASSUME NEW q \in BOOLEAN, NEW s, NEW b \in Blocks, SoundBut(q, s, b),
         NEW nodes
  PROVE  LET t == L1sDrop(s, nodes, b)
         IN /\ SoundBut(q, t, b)
            /\ t.dir = s.dir /\ t.llc = s.llc /\ t.aborted = s.aborted
            /\ L1sApart(s) => L1sApart(t)
            /\ q /\ TrackersOf(s.dir, b) \subseteq nodes =>
                 \A n \in Cores, k \in L1Kinds : ~Holds(L1, t.l1[n][k], b)
<1> DEFINE t == L1sDrop(s, nodes, b)
<1>1. /\ GoodState(s) /\ Sound(q, s) /\ OKBut(s, b)
      /\ s.aborted \/ FreshBut(s, b)
  BY DEF SoundBut, OKBut
<1>2. /\ OKBut(t, b) /\ t.dir = s.dir /\ t.llc = s.llc
      /\ t.aborted = s.aborted
  BY <1>1, L1sDropOKBut
<1>3. \A m \in Cores, j \in L1Kinds :
        t.l1[m][j] = IF m \in nodes THEN DeallocateBlock(L1, s.l1[m][j], b)
                     ELSE s.l1[m][j]
  BY <1>1 DEF L1sDrop, GoodState, StateRecords
<1> HIDE DEF t
<1>4. ASSUME NEW m \in Cores, NEW j \in L1Kinds
      PROVE  /\ OfKind(j, t.l1[m][j])
             /\ \A x \in Blocks :
                  Holds(L1, t.l1[m][j], x) => Holds(L1, s.l1[m][j], x)
             /\ m \in nodes => ~Holds(L1, t.l1[m][j], b)
  <2>1. GoodCache(L1, s.l1[m][j]) /\ OfKind(j, s.l1[m][j])
    BY <1>1 DEF GoodState, Sound, KindsApart
  <2>2. CASE m \in nodes
    BY <1>3, <2>1, <2>2, DropOfKind, DropHolds DEF Holds
  <2>3. CASE m \notin nodes
    BY <1>3, <2>1, <2>3
  <2> QED
    BY <2>2, <2>3
<1>5. Sound(q, t)
  BY <1>1, <1>2, <1>4 DEF Sound, KindsApart, HeldIsTracked
<1>6. s.aborted \/ FreshBut(t, b)
  BY <1>1, <1>2 DEF FreshBut, Fresh
<1>7. L1sApart(s) => L1sApart(t)
  BY <1>4 DEF L1sApart, L1Kinds
<1>8. q /\ TrackersOf(s.dir, b) \subseteq nodes =>
        \A n \in Cores, k \in L1Kinds : ~Holds(L1, t.l1[n][k], b)
  BY <1>1, <1>4 DEF Sound, HeldIsTracked
<1> QED
  BY <1>2, <1>5, <1>6, <1>7, <1>8 DEF SoundBut, t

\* The owner that writes the block back and keeps it finds the entry.
LEMMA WriteBackByOwnerSoundBut ==
  ASSUME NEW q \in BOOLEAN, NEW s, NEW r \in Requests, SoundBut(q, s, r.block),
         NEW m \in Cores, HasEntry(s.dir, r.block)
  PROVE  LET t == WriteBackByOwner(s, m, r)
         IN /\ SoundBut(q, t, r.block)
            /\ t.l1 = s.l1 /\ t.dir = s.dir /\ t.aborted = s.aborted
            /\ Present(t.llc, r.block) <=> Present(s.llc, r.block)
            /\ Marked(t.llc, r.block) => Marked(s.llc, r.block)
<1> DEFINE b == r.block
           c == s.l1[m][Kind(r)]
           isDirty == EntryOf(L1, c, b).dirty
           t == WriteBackByOwner(s, m, r)
<1>1. b \in Blocks /\ Kind(r) \in L1Kinds
  BY RequestFacts
<1>2. OKBut(t, b) /\ (Present(t.llc, b) <=> Present(s.llc, b))
  BY <1>1, WriteBackByOwnerOKBut DEF SoundBut
<1>3. CASE ~Present(c, b)
  BY <1>3 DEF WriteBackByOwner, L1SignalWB
<1>4. CASE Present(c, b)
  <2>1. GoodState(s) /\ GoodCache(L1, c)
    BY <1>1 DEF SoundBut, OKBut, GoodState
  <2>2. isDirty \in BOOLEAN
    <3> HIDE DEF c, b
    <3>1. EntryOf(L1, c, b) \in Lines
      BY <1>1, <1>4, <2>1, Geometry, IndexedEntry DEF EntryOf
    <3> QED
      BY <3>1 DEF Lines
  <2>3. t = WBFromL1(s, m, b, isDirty, TRUE)
    BY <1>4 DEF WriteBackByOwner, L1SignalWB
  <2> HIDE DEF isDirty, t
  <2>4. HasEntry(s.dir, b) /\ SoundBut(q, s, b)
    OBVIOUS
  <2> HIDE DEF b
  <2>5. \A kept \in BOOLEAN :
          LET v == WBFromL1(s, m, b, isDirty, kept)
          IN /\ v.l1 = s.l1
             /\ v.llc.tag = s.llc.tag /\ v.llc.line = s.llc.line
             /\ kept => v.dir = s.dir
             /\ v.aborted = (s.aborted \/ ~HasEntry(s.dir, b))
    BY <1>1, <2>1, <2>2, WBFromL1Good
  <2>6. s.aborted \in BOOLEAN
    BY <2>1 DEF GoodState, StateRecords
  <2>7. /\ t.l1 = s.l1 /\ t.dir = s.dir /\ t.aborted = s.aborted
        /\ t.llc.tag = s.llc.tag /\ t.llc.line = s.llc.line
    BY <2>3, <2>4, <2>5, <2>6
  <2>8. \A x \in Blocks : Marked(t.llc, x) => Marked(s.llc, x)
    BY <2>7 DEF Marked, Present, EntryOf
  <2>9. SoundBut(q, t, b)
    BY <1>1, <1>2, <2>4, <2>7, <2>8, SameSoundBut
  <2> QED
    BY <1>1, <1>2, <2>7, <2>8, <2>9 DEF b, t
<1> QED
  BY <1>3, <1>4

-----------------------------------------------------------------------------
(***************************************************************************)
(* The branches of Hierarchy::handleAccess.                                *)
(***************************************************************************)
\* What a branch makes of a state: what is claimed of it holds, and the marks are
\* in order again.
Settled(q, t) == Sound(q, t) /\ (t.aborted \/ AllFresh(t))

LEMMA SettledAgain ==
  ASSUME NEW q \in BOOLEAN, NEW s, NEW b \in Blocks, SoundBut(q, s, b),
         s.aborted \/ ~Marked(s.llc, b) \/ StateOf(s.dir, b) = "CLEAN_LLC"
  PROVE  Settled(q, s)
BY FreshAgain DEF SoundBut, Settled

\* An eviction asks all the trackers of every block if it does of all the others,
\* and this one has no more than one.
LEMMA AskAllAgain ==
  ASSUME NEW s, NEW b \in Blocks, AskBut(s, b), NEW n \in Cores,
         TrackersOf(s.dir, b) \subseteq {n}
  PROVE  AskAll(s)
BY OneIsAsked DEF AskBut, AskAll

LEMMA AskButStill ==
  ASSUME NEW s, NEW t, NEW b \in Blocks, AskBut(s, b), KeepsAsking(s, t, b)
  PROVE  AskBut(t, b)
BY DEF AskBut, KeepsAsking

\* A block that is nowhere.
LEMMA FetchFromMemorySound ==
  ASSUME NEW q \in BOOLEAN, NEW s, AllOK(s), Sound(q, s), ~s.aborted,
         AllFresh(s), q => L1sApart(s) /\ AskAll(s),
         NEW n \in Cores, NEW r \in Requests,
         StateOf(AddEntry(s.dir, r.block), r.block) = "NOT_PRESENT"
  PROVE  LET t == FetchFromMemory(s, n, r)
         IN Settled(q, t) /\ (q => AskAll(t))
<1> DEFINE b == r.block
           k == Kind(r)
           isWrite == IsWrite(r)
           d0 == AddEntry(s.dir, b)
           d1 == SetTrackerToEntry(d0, b, n)
           s1 == [s EXCEPT !.dir = d1]
           s2 == L1Access(s1, n, k, b, isWrite)
           s3 == LLCAccess(s2, b, isWrite, FALSE)
           d4 == SetState(s3.dir, b, "EXCLUSIVE_L1")
           s4 == [s3 EXCEPT !.dir = d4]
           x == IF isWrite THEN "writeFetch" ELSE "readFetch"
           t == Count(s4, x)
<1>1. /\ b \in Blocks /\ k \in L1Kinds /\ isWrite \in BOOLEAN
      /\ Fits(k, b, isWrite)
  BY RequestFacts, RequestKind
<1>2. FetchFromMemory(s, n, r) =
        Count([UpdateEntry(s3, b) EXCEPT !.dir = SetState(@, b, "EXCLUSIVE_L1")],
              x)
  BY DEF FetchFromMemory
<1>3. StateOf(d0, b) = "NOT_PRESENT"
  OBVIOUS
<1>4. /\ SoundBut(q, s, b) /\ EntryOK(s, b) /\ s.dir \in Directories
      /\ q => AskBut(s, b)
  BY <1>1, SoundButAlways DEF AskAll, AskBut
<1> HIDE DEF b, k, isWrite
<1>5. ~HasEntry(s.dir, b) /\ ~Marked(s.llc, b)
  BY <1>3, <1>4 DEF AddEntry, EntryOK, Marked
<1>6. /\ d0 \in Directories /\ HasEntry(d0, b)
      /\ \A y \in Blocks : y # b => d0[y] = s.dir[y]
  BY <1>1, <1>4, <1>5
  DEF AddEntry, Directories, Entries, NoEntry, HasEntry, TrackersOf, States
<1> HIDE DEF d0
<1>7. /\ d1 \in Directories /\ HasEntry(d1, b) /\ TrackersOf(d1, b) = {n}
      /\ \A y \in Blocks : y # b => d1[y] = s.dir[y]
  BY <1>1, <1>6, SetTrackersEntry
<1> HIDE DEF d1
<1>8. q => \A m \in Cores, j \in L1Kinds :
             Holds(L1, s.l1[m][j], b) => m \in TrackersOf(d1, b)
  BY <1>1, <1>4, <1>5, TrackedHasEntry DEF Sound, HeldIsTracked
<1>9. /\ SoundBut(q, s1, b) /\ KeepsAsking(s, s1, b)
      /\ s1.l1 = s.l1 /\ s1.llc = s.llc /\ s1.dir = d1
      /\ s1.aborted = s.aborted
  BY <1>1, <1>4, <1>7, <1>8, SetDirSoundBut
<1> HIDE DEF s1
<1>10. q => L1sApart(s1) /\ n \in TrackersOf(s1.dir, b)
  BY <1>7, <1>9 DEF L1sApart
<1>11. /\ SoundBut(q, s2, b) /\ KeepsAsking(s1, s2, b)
       /\ s2.dir[b] = d1[b]
       /\ Marked(s2.llc, b) => Marked(s1.llc, b)
  BY <1>1, <1>9, <1>10, L1AccessSoundBut
<1> HIDE DEF s2
<1>12. /\ HasEntry(s2.dir, b) /\ ~Marked(s2.llc, b)
       /\ q => AskBut(s2, b)
  <2>1. q => AskBut(s1, b)
    BY <1>1, <1>4, <1>9, AskButStill
  <2>2. q => AskBut(s2, b)
    BY <1>1, <1>11, <2>1, AskButStill
  <2> QED
    BY <1>5, <1>7, <1>9, <1>11, <2>2 DEF HasEntry
<1>13. /\ SoundBut(q, s3, b) /\ KeepsAsking(s2, s3, b)
       /\ s3.dir[b] = d1[b]
       /\ s3.aborted \/ ~Marked(s3.llc, b)
       /\ UpdateEntry(s3, b) = s3
  <2>1. \A p \in BOOLEAN :
          LET u == LLCAccess(s2, b, isWrite, p)
          IN /\ SoundBut(q, u, b) /\ KeepsAsking(s2, u, b)
             /\ u.dir[b] = s2.dir[b]
             /\ Marked(u.llc, b) /\ ~s2.aborted => p \/ Marked(s2.llc, b)
             /\ s2.aborted => u.aborted
             /\ UpdateEntry(u, b) = u
    BY <1>1, <1>11, <1>12, LLCAccessSoundBut
  <2> QED
    BY <1>11, <1>12, <2>1
<1>14. FetchFromMemory(s, n, r) = t
  BY <1>2, <1>13
<1> HIDE DEF s3
<1>15. s3.dir \in Directories /\ TrackersOf(s3.dir, b) = {n}
  BY <1>7, <1>13 DEF SoundBut, OKBut, GoodState, StateRecords, TrackersOf
<1>16. /\ d4 \in Directories
       /\ TrackersOf(d4, b) = {n}
       /\ \A y \in Blocks : y # b => d4[y] = s3.dir[y]
  <2>1. "EXCLUSIVE_L1" \in States
    BY DEF States
  <2> QED
    BY <1>1, <1>15, <2>1, SetStateEntry
<1> HIDE DEF d4
<1>17. q => \A m \in Cores, j \in L1Kinds :
              Holds(L1, s3.l1[m][j], b) => m \in TrackersOf(d4, b)
  BY <1>1, <1>13, <1>15, <1>16 DEF SoundBut, Sound, HeldIsTracked
<1>18. /\ SoundBut(q, s4, b) /\ KeepsAsking(s3, s4, b)
       /\ s4.llc = s3.llc /\ s4.dir = d4 /\ s4.aborted = s3.aborted
  BY <1>1, <1>13, <1>16, <1>17, SetDirSoundBut
<1> HIDE DEF s4
<1>19. x \in Stats
  BY DEF Stats
<1> HIDE DEF x
<1>20. /\ SoundBut(q, t, b) /\ KeepsAsking(s4, t, b)
       /\ t.llc = s4.llc /\ t.dir = s4.dir /\ t.aborted = s4.aborted
  BY <1>1, <1>18, <1>19, CountSoundBut
<1> HIDE DEF t
<1>21. Settled(q, t)
  BY <1>1, <1>13, <1>18, <1>20, SettledAgain
<1>22. q => AskAll(t)
  <2>1. q => AskBut(t, b)
    BY <1>1, <1>12, <1>13, <1>18, <1>20 DEF AskBut, KeepsAsking
  <2> QED
    BY <1>1, <1>16, <1>18, <1>20, <2>1, AskAllAgain
<1> QED
  BY <1>14, <1>21, <1>22

\* A block of the LLC.
LEMMA FetchFromLLCSound ==
  ASSUME NEW q \in BOOLEAN, NEW s, AllOK(s), Sound(q, s), ~s.aborted,
         AllFresh(s), q => L1sApart(s) /\ AskAll(s),
         NEW n \in Cores, NEW r \in Requests,
         HasEntry(s.dir, r.block),
         StateOf(s.dir, r.block) \in {"CLEAN_LLC", "DIRTY_LLC"}
  PROVE  LET t == FetchFromLLC(s, n, r)
         IN Settled(q, t) /\ (q => AskAll(t))
<1> DEFINE b == r.block
           k == Kind(r)
           isWrite == IsWrite(r)
           d0 == SetState(s.dir, b, "EXCLUSIVE_L1")
           d1 == SetTrackerToEntry(d0, b, n)
           s1 == [s EXCEPT !.dir = d1]
           s2 == L1Access(s1, n, k, b, isWrite)
           s3 == LLCAccess(s2, b, isWrite, FALSE)
           isPrefetched == Present(s3.llc, b) /\ EntryOf(LLC, s3.llc, b).prefetch
           s4 == IF isPrefetched THEN Count(s3, "hitPrefetch") ELSE s3
           c == ResetPrefetchFlag(LLC, s4.llc, b)
           s5 == [s4 EXCEPT !.llc = c]
<1>1. /\ b \in Blocks /\ k \in L1Kinds /\ isWrite \in BOOLEAN
      /\ Fits(k, b, isWrite)
  BY RequestFacts, RequestKind
<1>2. FetchFromLLC(s, n, r) = UpdateEntry(s5, b)
  BY DEF FetchFromLLC
<1>3. /\ SoundBut(q, s, b) /\ EntryOK(s, b) /\ s.dir \in Directories
      /\ q => AskBut(s, b)
  BY <1>1, SoundButAlways DEF AskAll, AskBut
<1>4. TrackersOf(s.dir, b) = {}
  BY <1>3 DEF EntryOK, EntryMatches
<1> HIDE DEF b, k, isWrite
<1>5. /\ d0 \in Directories /\ HasEntry(d0, b)
      /\ \A y \in Blocks : y # b => d0[y] = s.dir[y]
  <2>1. "EXCLUSIVE_L1" \in States
    BY DEF States
  <2> QED
    BY <1>1, <1>3, <2>1, SetStateEntry
<1> HIDE DEF d0
<1>6. /\ d1 \in Directories /\ HasEntry(d1, b) /\ TrackersOf(d1, b) = {n}
      /\ \A y \in Blocks : y # b => d1[y] = s.dir[y]
  BY <1>1, <1>5, SetTrackersEntry
<1> HIDE DEF d1
<1>7. q => \A m \in Cores, j \in L1Kinds :
             Holds(L1, s.l1[m][j], b) => m \in TrackersOf(d1, b)
  BY <1>1, <1>4 DEF Sound, HeldIsTracked
<1>8. /\ SoundBut(q, s1, b) /\ KeepsAsking(s, s1, b)
      /\ s1.l1 = s.l1 /\ s1.dir = d1
  BY <1>1, <1>3, <1>6, <1>7, SetDirSoundBut
<1> HIDE DEF s1
<1>9. q => L1sApart(s1) /\ n \in TrackersOf(s1.dir, b)
  BY <1>6, <1>8 DEF L1sApart
<1>10. /\ SoundBut(q, s2, b) /\ KeepsAsking(s1, s2, b)
       /\ s2.dir[b] = d1[b]
  BY <1>1, <1>8, <1>9, L1AccessSoundBut
<1> HIDE DEF s2
<1>11. HasEntry(s2.dir, b) /\ (q => AskBut(s2, b))
  <2>1. q => AskBut(s1, b)
    BY <1>1, <1>3, <1>8, AskButStill
  <2>2. q => AskBut(s2, b)
    BY <1>1, <1>10, <2>1, AskButStill
  <2> QED
    BY <1>6, <1>10, <2>2 DEF HasEntry
<1>12. /\ SoundBut(q, s3, b) /\ KeepsAsking(s2, s3, b)
       /\ s3.dir[b] = d1[b]
  <2>1. \A p \in BOOLEAN :
          LET u == LLCAccess(s2, b, isWrite, p)
          IN /\ SoundBut(q, u, b) /\ KeepsAsking(s2, u, b)
             /\ u.dir[b] = s2.dir[b]
    BY <1>1, <1>10, <1>11, LLCAccessSoundBut
  <2> QED
    BY <1>10, <2>1
<1> HIDE DEF s3
<1>13. /\ SoundBut(q, s4, b) /\ KeepsAsking(s3, s4, b) /\ s4.dir = s3.dir
  <2>1. "hitPrefetch" \in Stats
    BY DEF Stats
  <2>2. KeepsAsking(s3, s3, b)
    BY DEF KeepsAsking
  <2> HIDE DEF isPrefetched
  <2> QED
    BY <1>1, <1>12, <2>1, <2>2, CountSoundBut
<1> HIDE DEF s4
<1>14. GoodState(s4) /\ OKBut(s4, b) /\ GoodCache(LLC, s4.llc)
  BY <1>13 DEF SoundBut, OKBut, GoodState
<1>15. /\ GoodCache(LLC, c) /\ NoGhost(LLC, c)
       /\ \A x \in Blocks : Present(c, x) <=> Present(s4.llc, x)
       /\ \A x \in Blocks : Marked(c, x) => x # b /\ Marked(s4.llc, x)
  <2>1. /\ GoodCache(LLC, c) /\ NoGhost(LLC, c)
        /\ \A x \in Blocks : Marked(c, x) => x # b /\ Marked(s4.llc, x)
    BY <1>1, <1>14, Geometry, ResetPrefetchFlagGood, ResetPrefetchFlagMarked
    DEF GoodState
  <2>2. c.tag = s4.llc.tag
    BY <1>1, <1>14, Geometry, ResetPrefetchFlagGood
  <2> HIDE DEF c
  <2> QED
    BY <2>1, <2>2 DEF Present
<1> HIDE DEF c
<1>16. /\ GoodState(s5) /\ s5.dir = s4.dir /\ s5.l1 = s4.l1
       /\ s5.aborted = s4.aborted /\ s5.llc = c
  BY <1>14, <1>15, SetLLCGood
<1> HIDE DEF s5
<1>17. OKBut(s5, b)
  <2>1. \A y \in Blocks : EntryOK(s4, y) => EntryOK(s5, y)
    BY <1>15, <1>16, SameEntryOK
  <2> QED
    BY <1>14, <1>16, <2>1 DEF OKBut
<1>18. SoundBut(q, s5, b) /\ KeepsAsking(s4, s5, b) /\ ~Marked(s5.llc, b)
  BY <1>1, <1>13, <1>15, <1>16, <1>17, SameSoundBut
<1>19. UpdateEntry(s5, b) = s5
  <2>1. HasEntry(s5.dir, b)
    BY <1>6, <1>12, <1>13, <1>16 DEF HasEntry
  <2> QED
    BY <1>1, <1>16, <2>1, UpdateEntrySame
<1>20. Settled(q, s5)
  BY <1>1, <1>18, SettledAgain
<1>21. q => AskAll(s5)
  <2>1. q => AskBut(s5, b)
    BY <1>1, <1>11, <1>12, <1>13, <1>18 DEF AskBut, KeepsAsking
  <2>2. TrackersOf(s5.dir, b) = {n}
    BY <1>6, <1>12, <1>13, <1>16 DEF TrackersOf
  <2> QED
    BY <1>1, <2>1, <2>2, AskAllAgain
<1> QED
  BY <1>2, <1>19, <1>20, <1>21

\* A block some L1 may have is not marked.
LEMMA SharedIsUnmarked ==
  ASSUME NEW q \in BOOLEAN, NEW s, AllOK(s), Sound(q, s), ~s.aborted,
         AllFresh(s), NEW b \in Blocks, HasEntry(s.dir, b),
         StateOf(s.dir, b) # "CLEAN_LLC"
  PROVE  /\ SoundBut(q, s, b) /\ s.dir \in Directories
         /\ Present(s.llc, b) /\ ~Marked(s.llc, b)
<1>1. SoundBut(q, s, b) /\ s.dir \in Directories /\ EntryOK(s, b) /\ Fresh(s, b)
  BY SoundButAlways
<1> QED
  BY <1>1 DEF EntryOK, Fresh

\* An owned block has one tracker, so it is not CLEAN_LLC.
LEMMA TrackedIsNotClean ==
  ASSUME NEW s, AllOK(s), ~s.aborted, NEW b \in Blocks,
         TrackersOf(s.dir, b) # {}
  PROVE  HasEntry(s.dir, b) /\ StateOf(s.dir, b) # "CLEAN_LLC"
<1>1. EntryMatches(s.dir, b) /\ s.dir \in Directories
  BY DEF AllOK, EntryOK, GoodState, StateRecords
<1>2. StateOf(s.dir, b) # "CLEAN_LLC"
  BY <1>1 DEF EntryMatches
<1>3. HasEntry(s.dir, b)
  BY <1>1, DirectoryEntry
<1> QED
  BY <1>2, <1>3

\* The core has the block already, and is its one tracker.
LEMMA AccessAsOwnerSound ==
  ASSUME NEW q \in BOOLEAN, NEW s, AllOK(s), Sound(q, s), ~s.aborted,
         AllFresh(s), q => L1sApart(s),
         NEW n \in Cores, NEW r \in Requests, TrackersOf(s.dir, r.block) = {n}
  PROVE  Settled(q, AccessAsOwner(s, n, r))
<1> DEFINE b == r.block
           k == Kind(r)
           isWrite == IsWrite(r)
           isFirst == IsWrite(r) /\ StateOf(s.dir, b) = "EXCLUSIVE_L1"
           d1 == SetState(s.dir, b, "MODIFIED_L1")
           s1 == IF isFirst THEN [s EXCEPT !.dir = d1] ELSE s
           t == L1Access(s1, n, k, b, isWrite)
<1>1. /\ b \in Blocks /\ k \in L1Kinds /\ isWrite \in BOOLEAN
      /\ Fits(k, b, isWrite)
  BY RequestFacts, RequestKind
<1>2. AccessAsOwner(s, n, r) = t
  BY DEF AccessAsOwner
<1>3. TrackersOf(s.dir, b) = {n}
  OBVIOUS
<1> HIDE DEF b, k, isWrite, isFirst
<1>4. SoundBut(q, s, b) /\ s.dir \in Directories /\ ~Marked(s.llc, b)
  BY <1>1, <1>3, TrackedIsNotClean, SharedIsUnmarked
<1>5. /\ d1 \in Directories /\ TrackersOf(d1, b) = {n}
      /\ \A y \in Blocks : y # b => d1[y] = s.dir[y]
  <2>1. "MODIFIED_L1" \in States
    BY DEF States
  <2> QED
    BY <1>1, <1>3, <1>4, <2>1, SetStateEntry
<1> HIDE DEF d1
<1>6. /\ SoundBut(q, s1, b) /\ s1.l1 = s.l1 /\ ~Marked(s1.llc, b)
      /\ n \in TrackersOf(s1.dir, b)
  <2>1. CASE isFirst
    <3>1. q => \A m \in Cores, j \in L1Kinds :
                 Holds(L1, s.l1[m][j], b) => m \in TrackersOf(d1, b)
      BY <1>1, <1>3, <1>5 DEF Sound, HeldIsTracked
    <3> QED
      BY <1>1, <1>4, <1>5, <2>1, <3>1, SetDirSoundBut
  <2>2. CASE ~isFirst
    BY <1>3, <1>4, <2>2
  <2> QED
    BY <2>1, <2>2
<1> HIDE DEF s1
<1>7. SoundBut(q, t, b) /\ ~Marked(t.llc, b)
  <2>1. q => L1sApart(s1) /\ n \in TrackersOf(s1.dir, b)
    BY <1>6 DEF L1sApart
  <2> QED
    BY <1>1, <1>6, <2>1, L1AccessSoundBut
<1> HIDE DEF t
<1> QED
  BY <1>1, <1>2, <1>7, SettledAgain

\* The last steps of an access to a block of the LLC that goes through it.
LEMMA ThroughLLCSound ==
  ASSUME NEW q \in BOOLEAN, NEW s, NEW b \in Blocks, SoundBut(q, s, b),
         HasEntry(s.dir, b), Present(s.llc, b), ~Marked(s.llc, b),
         NEW n \in Cores, NEW k \in L1Kinds, NEW isWrite \in BOOLEAN,
         Fits(k, b, isWrite), q => L1sApart(s) /\ n \in TrackersOf(s.dir, b)
  PROVE  Settled(q, L1Access(UpdateEntry(LLCAccess(s, b, isWrite, FALSE), b),
                             n, k, b, isWrite))
<1> DEFINE u == LLCAccess(s, b, isWrite, FALSE)
           t == L1Access(u, n, k, b, isWrite)
<1>1. /\ SoundBut(q, u, b) /\ u.dir[b] = s.dir[b] /\ u.l1 = s.l1
      /\ u.aborted \/ ~Marked(u.llc, b)
      /\ UpdateEntry(u, b) = u
  <2>1. \A p \in BOOLEAN :
          LET v == LLCAccess(s, b, isWrite, p)
          IN /\ SoundBut(q, v, b) /\ v.dir[b] = s.dir[b] /\ v.l1 = s.l1
             /\ Marked(v.llc, b) /\ ~s.aborted => p \/ Marked(s.llc, b)
             /\ s.aborted => v.aborted
             /\ UpdateEntry(v, b) = v
    BY LLCAccessSoundBut
  <2> QED
    BY <2>1
<1> HIDE DEF u
<1>2. q => L1sApart(u) /\ n \in TrackersOf(u.dir, b)
  BY <1>1 DEF L1sApart, TrackersOf
<1>3. /\ SoundBut(q, t, b)
      /\ Marked(t.llc, b) => Marked(u.llc, b)
      /\ u.aborted => t.aborted
  BY <1>1, <1>2, L1AccessSoundBut
<1> HIDE DEF t
<1>4. Settled(q, t)
  BY <1>1, <1>3, SettledAgain
<1> QED
  BY <1>1, <1>4 DEF t, u

\* A core reads what core m owns.
LEMMA ShareWithOwnerSound ==
  ASSUME NEW q \in BOOLEAN, NEW s, AllOK(s), Sound(q, s), ~s.aborted,
         AllFresh(s), q => L1sApart(s), NEW n \in Cores, NEW m \in Cores,
         NEW r \in Requests, TrackersOf(s.dir, r.block) = {m}
  PROVE  Settled(q, ShareWithOwner(s, n, m, r))
<1> DEFINE b == r.block
           k == Kind(r)
           s1 == WriteBackByOwner(s, m, r)
           d1 == AddTrackerToEntry(s1.dir, b, n)
           d2 == SetState(d1, b, "SHARED_L1")
           s2 == [s1 EXCEPT !.dir = d2]
           t == L1Access(UpdateEntry(LLCAccess(s2, b, FALSE, FALSE), b),
                         n, k, b, FALSE)
<1>1. b \in Blocks /\ k \in L1Kinds /\ Fits(k, b, FALSE)
  BY RequestFacts, RequestKind
<1>2. ShareWithOwner(s, n, m, r) = t
  BY DEF ShareWithOwner
<1>3. /\ SoundBut(q, s, b) /\ s.dir \in Directories
      /\ HasEntry(s.dir, b) /\ Present(s.llc, b) /\ ~Marked(s.llc, b)
  BY <1>1, TrackedIsNotClean, SharedIsUnmarked
<1>4. /\ SoundBut(q, s1, b) /\ s1.l1 = s.l1 /\ s1.dir = s.dir
      /\ Present(s1.llc, b) /\ ~Marked(s1.llc, b)
  BY <1>3, WriteBackByOwnerSoundBut
<1> HIDE DEF b, k, s1
<1>5. /\ d1 \in Directories
      /\ TrackersOf(d1, b) = TrackersOf(s.dir, b) \cup {n}
      /\ \A y \in Blocks : y # b => d1[y] = s1.dir[y]
  BY <1>1, <1>3, <1>4, SetTrackersEntry
<1> HIDE DEF d1
<1>6. /\ d2 \in Directories /\ HasEntry(d2, b)
      /\ TrackersOf(d2, b) = TrackersOf(s.dir, b) \cup {n}
      /\ \A y \in Blocks : y # b => d2[y] = s1.dir[y]
  <2>1. "SHARED_L1" \in States
    BY DEF States
  <2> QED
    BY <1>1, <1>5, <2>1, SetStateEntry
<1> HIDE DEF d2
<1>7. q => \A i \in Cores, j \in L1Kinds :
             Holds(L1, s1.l1[i][j], b) => i \in TrackersOf(d2, b)
  BY <1>1, <1>4, <1>6 DEF Sound, HeldIsTracked
<1>8. /\ SoundBut(q, s2, b) /\ s2.l1 = s.l1 /\ s2.dir = d2
      /\ Present(s2.llc, b) /\ ~Marked(s2.llc, b)
  BY <1>1, <1>4, <1>6, <1>7, SetDirSoundBut
<1> HIDE DEF s2
<1>9. q => L1sApart(s2) /\ n \in TrackersOf(s2.dir, b)
  BY <1>6, <1>8 DEF L1sApart
<1>10. HasEntry(s2.dir, b) /\ FALSE \in BOOLEAN
  BY <1>6, <1>8
<1>11. Settled(q, t)
  BY <1>1, <1>8, <1>9, <1>10, ThroughLLCSound
<1> QED
  BY <1>2, <1>11

\* A core takes what the others have been told to drop.
LEMMA TakenSound ==
  ASSUME NEW q \in BOOLEAN, NEW s, NEW b \in Blocks, SoundBut(q, s, b),
         HasEntry(s.dir, b), Present(s.llc, b), ~Marked(s.llc, b),
         q => L1sApart(s), NEW nodes, TrackersOf(s.dir, b) \subseteq nodes,
         NEW n \in Cores, NEW k \in L1Kinds, Fits(k, b, TRUE)
  PROVE  LET taken == [L1sDrop(s, nodes, b) EXCEPT
                         !.dir = SetState(SetTrackerToEntry(@, b, n), b,
                                          "EXCLUSIVE_L1")]
         IN Settled(q, L1Access(UpdateEntry(LLCAccess(taken, b, TRUE, FALSE), b),
                                n, k, b, TRUE))
<1> DEFINE s1 == L1sDrop(s, nodes, b)
           d1 == SetTrackerToEntry(s1.dir, b, n)
           d2 == SetState(d1, b, "EXCLUSIVE_L1")
           s2 == [s1 EXCEPT !.dir = d2]
           t == L1Access(UpdateEntry(LLCAccess(s2, b, TRUE, FALSE), b),
                         n, k, b, TRUE)
<1>1. /\ SoundBut(q, s1, b) /\ s1.dir = s.dir /\ s1.llc = s.llc
      /\ q => /\ L1sApart(s1)
              /\ \A m \in Cores, j \in L1Kinds : ~Holds(L1, s1.l1[m][j], b)
  BY L1sDropSoundBut
<1> HIDE DEF s1
<1>2. s1.dir \in Directories /\ HasEntry(s1.dir, b)
  BY <1>1 DEF SoundBut, OKBut, GoodState, StateRecords
<1>3. /\ d1 \in Directories /\ TrackersOf(d1, b) = {n}
      /\ \A y \in Blocks : y # b => d1[y] = s1.dir[y]
  BY <1>2, SetTrackersEntry
<1> HIDE DEF d1
<1>4. /\ d2 \in Directories /\ HasEntry(d2, b) /\ TrackersOf(d2, b) = {n}
      /\ \A y \in Blocks : y # b => d2[y] = s1.dir[y]
  <2>1. "EXCLUSIVE_L1" \in States
    BY DEF States
  <2> QED
    BY <1>3, <2>1, SetStateEntry
<1> HIDE DEF d2
<1>5. /\ SoundBut(q, s2, b) /\ s2.l1 = s1.l1 /\ s2.dir = d2
      /\ Present(s2.llc, b) /\ ~Marked(s2.llc, b)
  BY <1>1, <1>4, SetDirSoundBut
<1> HIDE DEF s2
<1>6. q => L1sApart(s2) /\ n \in TrackersOf(s2.dir, b)
  BY <1>1, <1>4, <1>5 DEF L1sApart
<1>7. HasEntry(s2.dir, b) /\ TRUE \in BOOLEAN
  BY <1>4, <1>5
<1>8. Settled(q, t)
  BY <1>5, <1>6, <1>7, ThroughLLCSound
<1> QED
  BY <1>8 DEF t, s2, d2, d1, s1

\* A core writes what core m owns.
LEMMA TakeFromOwnerSound ==
  ASSUME NEW q \in BOOLEAN, NEW s, AllOK(s), Sound(q, s), ~s.aborted,
         AllFresh(s), q => L1sApart(s), NEW n \in Cores, NEW m \in Cores,
         NEW r \in Requests, IsWrite(r), TrackersOf(s.dir, r.block) = {m}
  PROVE  Settled(q, TakeFromOwner(s, n, m, r))
<1> DEFINE b == r.block
           k == Kind(r)
           s1 == WriteBackByOwner(s, m, r)
           taken == [L1sDrop(s1, {m}, b) EXCEPT
                       !.dir = SetState(SetTrackerToEntry(@, b, n), b,
                                        "EXCLUSIVE_L1")]
           t == L1Access(UpdateEntry(LLCAccess(taken, b, TRUE, FALSE), b),
                         n, k, b, TRUE)
<1>1. b \in Blocks /\ k \in L1Kinds /\ Fits(k, b, TRUE)
  BY RequestFacts, RequestKind DEF Fits
<1>2. TakeFromOwner(s, n, m, r) = t
  BY DEF TakeFromOwner
<1>3. /\ SoundBut(q, s, b) /\ s.dir \in Directories
      /\ HasEntry(s.dir, b) /\ Present(s.llc, b) /\ ~Marked(s.llc, b)
      /\ TrackersOf(s.dir, b) = {m}
  BY <1>1, TrackedIsNotClean, SharedIsUnmarked
<1>4. /\ SoundBut(q, s1, b) /\ s1.l1 = s.l1 /\ s1.dir = s.dir
      /\ Present(s1.llc, b) /\ ~Marked(s1.llc, b)
  BY <1>3, WriteBackByOwnerSoundBut
<1> HIDE DEF b, k, s1
<1>5. q => L1sApart(s1)
  BY <1>4 DEF L1sApart
<1>6. HasEntry(s1.dir, b) /\ TrackersOf(s1.dir, b) \subseteq {m}
  BY <1>3, <1>4
<1>7. Settled(q, t)
  BY <1>1, <1>4, <1>5, <1>6, TakenSound
<1> QED
  BY <1>2, <1>7

\* A core writes a shared block.
LEMMA TakeFromSharersSound ==
  ASSUME NEW q \in BOOLEAN, NEW s, AllOK(s), Sound(q, s), ~s.aborted,
         AllFresh(s), q => L1sApart(s), NEW n \in Cores,
         NEW r \in Requests, IsWrite(r), TrackersOf(s.dir, r.block) # {}
  PROVE  Settled(q, TakeFromSharers(s, n, r))
<1> DEFINE b == r.block
           k == Kind(r)
           nodes == TrackersOf(s.dir, b)
           taken == [L1sDrop(s, nodes, b) EXCEPT
                       !.dir = SetState(SetTrackerToEntry(@, b, n), b,
                                        "EXCLUSIVE_L1")]
           t == L1Access(UpdateEntry(LLCAccess(taken, b, TRUE, FALSE), b),
                         n, k, b, TRUE)
<1>1. b \in Blocks /\ k \in L1Kinds /\ Fits(k, b, TRUE)
  BY RequestFacts, RequestKind DEF Fits
<1>2. TakeFromSharers(s, n, r) = t
  BY DEF TakeFromSharers
<1>3. /\ SoundBut(q, s, b)
      /\ HasEntry(s.dir, b) /\ Present(s.llc, b) /\ ~Marked(s.llc, b)
  BY <1>1, TrackedIsNotClean, SharedIsUnmarked
<1>4. TrackersOf(s.dir, b) \subseteq nodes
  OBVIOUS
<1> HIDE DEF b, k, nodes
<1>5. Settled(q, t)
  BY <1>1, <1>3, <1>4, TakenSound
<1> QED
  BY <1>2, <1>5

\* One more core reads a shared block.
LEMMA JoinSharersSound ==
  ASSUME NEW q \in BOOLEAN, NEW s, AllOK(s), Sound(q, s), ~s.aborted,
         AllFresh(s), q => L1sApart(s), NEW n \in Cores,
         NEW r \in Requests, TrackersOf(s.dir, r.block) # {}
  PROVE  Settled(q, JoinSharers(s, n, r))
<1> DEFINE b == r.block
           k == Kind(r)
           d1 == AddTrackerToEntry(s.dir, b, n)
           s1 == [s EXCEPT !.dir = d1]
           t == L1Access(s1, n, k, b, FALSE)
<1>1. b \in Blocks /\ k \in L1Kinds /\ Fits(k, b, FALSE)
  BY RequestFacts, RequestKind
<1>2. JoinSharers(s, n, r) = t
  BY DEF JoinSharers
<1>3. /\ SoundBut(q, s, b) /\ s.dir \in Directories
      /\ HasEntry(s.dir, b) /\ ~Marked(s.llc, b)
  BY <1>1, TrackedIsNotClean, SharedIsUnmarked
<1> HIDE DEF b, k
<1>4. /\ d1 \in Directories
      /\ TrackersOf(d1, b) = TrackersOf(s.dir, b) \cup {n}
      /\ \A y \in Blocks : y # b => d1[y] = s.dir[y]
  BY <1>1, <1>3, SetTrackersEntry
<1> HIDE DEF d1
<1>5. q => \A i \in Cores, j \in L1Kinds :
             Holds(L1, s.l1[i][j], b) => i \in TrackersOf(d1, b)
  BY <1>1, <1>4 DEF Sound, HeldIsTracked
<1>6. /\ SoundBut(q, s1, b) /\ s1.l1 = s.l1 /\ s1.dir = d1
      /\ ~Marked(s1.llc, b)
  BY <1>1, <1>3, <1>4, <1>5, SetDirSoundBut
<1> HIDE DEF s1
<1>7. q => L1sApart(s1) /\ n \in TrackersOf(s1.dir, b)
  BY <1>4, <1>6 DEF L1sApart
<1>8. SoundBut(q, t, b) /\ ~Marked(t.llc, b)
  <2>1. FALSE \in BOOLEAN
    OBVIOUS
  <2> QED
    BY <1>1, <1>6, <1>7, <2>1, L1AccessSoundBut
<1> HIDE DEF t
<1> QED
  BY <1>1, <1>2, <1>8, SettledAgain

-----------------------------------------------------------------------------
(***************************************************************************)
(* Prefetches.  The block a prefetch brings was in no L1, so it has no     *)
(* tracker and an eviction has none of its trackers to miss.               *)
(***************************************************************************)
LEMMA PrefetchAddressSound ==
  ASSUME NEW q \in BOOLEAN, NEW s, AllOK(s), Sound(q, s),
         s.aborted \/ AllFresh(s), q => AskAll(s),
         NEW b \in Blocks \cup {NoBlock}
  PROVE  LET t == PrefetchAddress(s, b)
         IN Settled(q, t) /\ (q => AskAll(t))
<1> DEFINE d0 == AddEntry(s.dir, b)
           s0 == [s EXCEPT !.dir = d0]
           isNew == b # NoBlock /\ StateOf(s0.dir, b) = "NOT_PRESENT"
           s1 == LLCAccess(s0, b, FALSE, TRUE)
           d2 == SetState(s1.dir, b, "CLEAN_LLC")
           s2 == [s1 EXCEPT !.dir = d2]
           s3 == Count(s2, "issuedPrefetch")
<1>1. PrefetchAddress(s, b) =
        IF isNew
        THEN Count([UpdateEntry(s1, b) EXCEPT
                      !.dir = SetState(@, b, "CLEAN_LLC")], "issuedPrefetch")
        ELSE s
  BY DEF PrefetchAddress
<1>2. CASE ~isNew
  BY <1>1, <1>2 DEF Settled
<1>3. CASE isNew
  <2>1. b \in Blocks
    BY <1>3
  <2>2. /\ SoundBut(q, s, b) /\ GoodState(s) /\ s.dir \in Directories
        /\ ~s.aborted => EntryOK(s, b)
    BY <2>1, SoundButAlways
  <2>3. /\ d0 \in Directories /\ HasEntry(d0, b)
        /\ \A x \in Blocks : x # b => d0[x] = s.dir[x]
    BY <2>1, <2>2 DEF AddEntry, Directories, Entries, States, HasEntry, NoEntry
  <2>4. s0.dir = d0
    BY <2>2 DEF GoodState, StateRecords
  <2>5. StateOf(d0, b) = "NOT_PRESENT"
    BY <1>3, <2>4
  <2>6. q => TrackersOf(s.dir, b) = {} /\ TrackersOf(d0, b) = {}
    <3>1. q => ~HasEntry(s.dir, b)
      BY <2>2, <2>5 DEF AddEntry, EntryOK, Sound
    <3>2. ~HasEntry(s.dir, b) => TrackersOf(s.dir, b) = {}
      BY <2>1, <2>2, DirectoryEntry
    <3>3. ~HasEntry(s.dir, b) => TrackersOf(d0, b) = {}
      BY <2>1, <2>2 DEF AddEntry, Directories, TrackersOf
    <3> QED
      BY <3>1, <3>2, <3>3
  <2>7. q => \A n \in Cores, k \in L1Kinds :
               Holds(L1, s.l1[n][k], b) => n \in TrackersOf(d0, b)
    BY <2>1, <2>6 DEF Sound, HeldIsTracked
  <2> HIDE DEF d0
  <2>8. SoundBut(q, s0, b) /\ KeepsAsking(s, s0, b)
    BY <2>1, <2>2, <2>3, <2>7, SetDirSoundBut
  <2> HIDE DEF s0
  <2>9. q => AskBut(s0, b)
    BY <2>1, <2>8, AskButStill DEF AskAll, AskBut
  <2>10. /\ SoundBut(q, s1, b) /\ KeepsAsking(s0, s1, b)
         /\ s1.dir[b] = s0.dir[b] /\ UpdateEntry(s1, b) = s1
    <3>1. \A p, p2 \in BOOLEAN :
            LET t == LLCAccess(s0, b, p, p2)
            IN /\ SoundBut(q, t, b) /\ KeepsAsking(s0, t, b)
               /\ t.dir[b] = s0.dir[b]
               /\ HasEntry(s0.dir, b) => UpdateEntry(t, b) = t
      BY <2>1, <2>8, <2>9, LLCAccessSoundBut
    <3> QED
      BY <2>3, <2>4, <3>1
  <2>11. PrefetchAddress(s, b) = s3
    BY <1>1, <1>3, <2>10
  <2> HIDE DEF s1
  <2>12. s1.dir \in Directories /\ TrackersOf(s1.dir, b) = TrackersOf(d0, b)
    BY <2>4, <2>10 DEF SoundBut, OKBut, GoodState, StateRecords, TrackersOf
  <2>13. /\ d2 \in Directories
         /\ StateOf(d2, b) = "CLEAN_LLC"
         /\ TrackersOf(d2, b) = TrackersOf(s1.dir, b)
         /\ \A x \in Blocks : x # b => d2[x] = s1.dir[x]
    <3>1. "CLEAN_LLC" \in States
      BY DEF States
    <3> QED
      BY <2>1, <2>12, <3>1, SetStateEntry
  <2>14. q => \A n \in Cores, k \in L1Kinds :
                Holds(L1, s1.l1[n][k], b) => n \in TrackersOf(d2, b)
    BY <2>1, <2>10, <2>13 DEF SoundBut, Sound, HeldIsTracked
  <2> HIDE DEF d2
  <2>15. SoundBut(q, s2, b) /\ KeepsAsking(s1, s2, b) /\ s2.dir = d2
    BY <2>1, <2>10, <2>13, <2>14, SetDirSoundBut
  <2> HIDE DEF s2
  <2>16. SoundBut(q, s3, b) /\ KeepsAsking(s2, s3, b) /\ s3.dir = d2
    <3>1. "issuedPrefetch" \in Stats
      BY DEF Stats
    <3> QED
      BY <2>1, <2>15, <3>1, CountSoundBut
  <2> HIDE DEF s3
  <2>17. Settled(q, s3)
    BY <2>1, <2>13, <2>16, SettledAgain
  <2>18. q => AskAll(s3)
    <3>1. q => AskBut(s1, b)
      BY <2>1, <2>9, <2>10, AskButStill
    <3>2. q => AskBut(s2, b)
      BY <2>1, <2>15, <3>1, AskButStill
    <3>3. q => AskBut(s3, b)
      BY <2>1, <2>16, <3>2, AskButStill
    <3>4. 0 \in Cores
      BY NbCoresAssumption DEF Cores
    <3>5. q => TrackersOf(s3.dir, b) \subseteq {0}
      BY <2>6, <2>12, <2>13, <2>16
    <3> QED
      BY <2>1, <3>3, <3>4, <3>5, AskAllAgain
  <2> QED
    BY <2>11, <2>17, <2>18
<1> QED
  BY <1>2, <1>3

-----------------------------------------------------------------------------
(***************************************************************************)
(* The invariant, and what an access keeps besides it.                     *)
(***************************************************************************)
KInv == IInv /\ KindsApart(State) /\ AllFresh(State)

\* A step to a settled state settles the state; a failed assertion leaves the
\* caches and the directory as they were, and inclusion is then not claimed.
LEMMA BecomesSound ==
  ASSUME NEW q \in BOOLEAN, KInv, NEW s, AllOK(s), Settled(q, s), Becomes(s)
  PROVE  Sound(q, State)' /\ AllFresh(State)'
<1>1. CASE s.aborted
  <2>1. ~q
    BY <1>1 DEF Settled, Sound
  <2>2. l1' = l1 /\ llc' = llc /\ dir' = dir
    BY <1>1 DEF Becomes
  <2>3. KindsApart(State)'
    BY <2>2 DEF KInv, KindsApart, OfKind, Present, EntryOf, State
  <2>4. AllFresh(State)'
    BY <2>2 DEF KInv, AllFresh, Fresh, Marked, Present, EntryOf, StateOf, State
  <2> QED
    BY <2>1, <2>3, <2>4 DEF Sound
<1>2. CASE ~s.aborted
  <2>1. s = [l1 |-> s.l1, llc |-> s.llc, dir |-> s.dir, mem |-> s.mem,
             aborted |-> s.aborted]
        /\ s.aborted = FALSE
    BY <1>2 DEF AllOK, GoodState, StateRecords
  <2>2. State' = s
    BY <2>1 DEF Becomes, State
  <2>3. Sound(q, s) /\ AllFresh(s)
    BY <1>2 DEF Settled
  <2> QED
    BY <2>2, <2>3
<1> QED
  BY <1>1, <1>2

\* The same with the prefetches.
LEMMA BecomesWithPrefetchSound ==
  ASSUME NEW q \in BOOLEAN, KInv, NEW s, AllOK(s), Settled(q, s),
         q => AskAll(s), NEW b, BecomesWithPrefetch(s, b)
  PROVE  Sound(q, State)' /\ AllFresh(State)'
<1>1. PICK p \in PrefetchesAfter(b) :
        Becomes(PrefetchAddress(PrefetchAddress(s, p[1]), p[2]))
  BY DEF BecomesWithPrefetch
<1>2. p[1] \in Blocks \cup {NoBlock} /\ p[2] \in Blocks \cup {NoBlock}
  BY DEF PrefetchesAfter
<1> DEFINE t == PrefetchAddress(s, p[1])
           u == PrefetchAddress(t, p[2])
<1>3. AllOK(t) /\ Settled(q, t) /\ (q => AskAll(t))
  BY <1>2, PrefetchAddressOK, PrefetchAddressSound DEF Settled
<1> HIDE DEF t
<1>4. AllOK(u) /\ Settled(q, u)
  BY <1>2, <1>3, PrefetchAddressOK, PrefetchAddressSound DEF Settled
<1> QED
  BY <1>1, <1>4, BecomesSound DEF t

\* The caches start empty.
LEMMA KInitOK == ASSUME Init PROVE KInv /\ Sound(TRUE, State)
<1>1. IInv
  BY InitOK
<1>2. /\ \A n \in Cores, k \in L1Kinds : State.l1[n][k] = EmptyCache(L1)
      /\ State.llc = EmptyCache(LLC)
      /\ State.aborted = FALSE
  BY DEF Init, State
<1>3. \A x \in Blocks :
        ~Present(EmptyCache(L1), x) /\ ~Present(EmptyCache(LLC), x)
  BY Geometry, EmptyCacheGood
<1>4. Sound(TRUE, State)
  BY <1>2, <1>3 DEF Sound, KindsApart, OfKind, HeldIsTracked, Holds
<1>5. AllFresh(State)
  BY <1>2, <1>3 DEF AllFresh, Fresh, Marked
<1> QED
  BY <1>1, <1>4, <1>5 DEF KInv, Sound

\* Every access keeps the two always, and inclusion where evictions ask all the
\* trackers and the L1s of a core are apart.
LEMMA AccessSound ==
  ASSUME NEW q \in BOOLEAN, KInv, Sound(q, State),
         q => L1sApart(State) /\ AskAll(State),
         NEW n \in Cores, NEW r \in Requests, Access(n, r)
  PROVE  Sound(q, State)' /\ AllFresh(State)'
<1> DEFINE b == r.block
<1>1. b \in Blocks
  BY RequestFacts
<1>2. /\ AllOK(State) /\ AllFresh(State) /\ State.dir = dir
      /\ dir \in Directories /\ IInv
  BY InvariantOfState DEF KInv, State, IInv, GoodState, StateRecords
<1>3. ~State.aborted
  BY DEF Access, AccessNotPresent, AccessInLLC, AccessOwned,
         ReadOwnedElsewhere, WriteOwnedElsewhere, ReadShared, WriteShared,
         Finds, State
<1>4. ASSUME NEW states \in SUBSET (States \ {"NOT_PRESENT"}), Finds(r, states)
      PROVE  HasEntry(dir, b) /\ StateOf(dir, b) \in states
  BY <1>1, <1>2, <1>4 DEF Finds, AddEntry, HasEntry, StateOf, Directories
<1>5. CASE AccessNotPresent(n, r)
  <2>1. StateOf(AddEntry(dir, b), b) = "NOT_PRESENT"
    BY <1>5 DEF AccessNotPresent, Finds
  <2> DEFINE t == FetchFromMemory(State, n, r)
  <2>2. AllOK(t) /\ Settled(q, t) /\ (q => AskAll(t))
    BY <1>2, <1>3, <2>1, FetchFromMemoryOK, FetchFromMemorySound
  <2>3. BecomesWithPrefetch(t, b)
    BY <1>5 DEF AccessNotPresent
  <2> HIDE DEF t, b
  <2> QED
    BY <2>2, <2>3, BecomesWithPrefetchSound
<1>6. CASE AccessInLLC(n, r)
  <2>1. HasEntry(dir, b) /\ StateOf(dir, b) \in {"CLEAN_LLC", "DIRTY_LLC"}
    BY <1>4, <1>6 DEF AccessInLLC, States
  <2> DEFINE t == FetchFromLLC(State, n, r)
  <2>2. AllOK(t) /\ Settled(q, t) /\ (q => AskAll(t))
    BY <1>2, <1>3, <2>1, FetchFromLLCOK, FetchFromLLCSound
  <2>3. BecomesWithPrefetch(t, b)
    BY <1>6 DEF AccessInLLC
  <2> HIDE DEF t, b
  <2> QED
    BY <2>2, <2>3, BecomesWithPrefetchSound
<1>7. ASSUME Finds(r, {"MODIFIED_L1", "EXCLUSIVE_L1"})
      PROVE  /\ HasEntry(dir, b) /\ Owner(b) \in Cores
             /\ StateOf(dir, b) \in {"MODIFIED_L1", "EXCLUSIVE_L1"}
             /\ TrackersOf(dir, b) = {Owner(b)} /\ StateOfOneOwner(b) = State
  <2>1. /\ HasEntry(dir, b)
        /\ StateOf(dir, b) \in {"MODIFIED_L1", "EXCLUSIVE_L1"}
    BY <1>4, <1>7 DEF States
  <2> HIDE DEF b
  <2> QED
    BY <1>1, <1>2, <2>1, OneOwner
<1>8. ASSUME Finds(r, {"SHARED_L1"})
      PROVE  HasEntry(dir, b) /\ TrackersOf(dir, b) # {}
  <2>1. HasEntry(dir, b) /\ StateOf(dir, b) = "SHARED_L1"
    BY <1>4, <1>8 DEF States
  <2>2. EntryMatches(dir, b)
    BY <1>1, <1>2 DEF IInv, EntryOK
  <2> QED
    BY <2>1, <2>2 DEF EntryMatches
<1>9. CASE AccessOwned(n, r)
  <2>1. /\ HasEntry(dir, b) /\ TrackersOf(dir, b) = {n}
        /\ Becomes(AccessAsOwner(State, n, r))
    BY <1>7, <1>9 DEF AccessOwned
  <2>2. AllOK(AccessAsOwner(State, n, r))
    BY <1>2, <1>3, <1>7, <1>9, <2>1, AccessAsOwnerOK DEF AccessOwned
  <2>3. Settled(q, AccessAsOwner(State, n, r))
    BY <1>2, <1>3, <2>1, AccessAsOwnerSound
  <2> QED
    BY <2>1, <2>2, <2>3, BecomesSound
<1>10. CASE ReadOwnedElsewhere(n, r)
  <2> DEFINE m == Owner(b)
             t == ShareWithOwner(State, n, m, r)
  <2>1. /\ HasEntry(dir, b) /\ m \in Cores /\ TrackersOf(dir, b) = {m}
        /\ Becomes(t) /\ m # n /\ ~IsWrite(r)
    BY <1>7, <1>10 DEF ReadOwnedElsewhere
  <2> HIDE DEF m
  <2>2. AllOK(t)
    BY <1>2, <1>3, <2>1, ShareWithOwnerOK
  <2>3. Settled(q, t)
    BY <1>2, <1>3, <2>1, ShareWithOwnerSound
  <2> QED
    BY <2>1, <2>2, <2>3, BecomesSound
<1>11. CASE WriteOwnedElsewhere(n, r)
  <2> DEFINE m == Owner(b)
             t == TakeFromOwner(State, n, m, r)
  <2>1. /\ HasEntry(dir, b) /\ m \in Cores /\ TrackersOf(dir, b) = {m}
        /\ Becomes(t) /\ m # n /\ IsWrite(r)
    BY <1>7, <1>11 DEF WriteOwnedElsewhere
  <2> HIDE DEF m
  <2>2. AllOK(t)
    BY <1>2, <1>3, <2>1, TakeFromOwnerOK
  <2>3. Settled(q, t)
    BY <1>2, <1>3, <2>1, TakeFromOwnerSound
  <2> QED
    BY <2>1, <2>2, <2>3, BecomesSound
<1>12. CASE ReadShared(n, r)
  <2> DEFINE t == JoinSharers(State, n, r)
  <2>1. /\ HasEntry(dir, b) /\ TrackersOf(dir, b) # {} /\ Becomes(t)
        /\ ~IsWrite(r) /\ StateOf(dir, b) = "SHARED_L1"
    BY <1>4, <1>8, <1>12 DEF ReadShared, States
  <2>2. AllOK(t)
    BY <1>2, <1>3, <2>1, JoinSharersOK
  <2>3. Settled(q, t)
    BY <1>2, <1>3, <2>1, JoinSharersSound
  <2> HIDE DEF t
  <2> QED
    BY <2>1, <2>2, <2>3, BecomesSound
<1>13. CASE WriteShared(n, r)
  <2> DEFINE t == TakeFromSharers(State, n, r)
  <2>1. /\ HasEntry(dir, b) /\ TrackersOf(dir, b) # {} /\ Becomes(t)
        /\ IsWrite(r)
    BY <1>8, <1>13 DEF WriteShared
  <2>2. AllOK(t)
    BY <1>2, <1>3, <2>1, TakeFromSharersOK
  <2>3. Settled(q, t)
    BY <1>2, <1>3, <2>1, TakeFromSharersSound
  <2> HIDE DEF t
  <2> QED
    BY <2>1, <2>2, <2>3, BecomesSound
<1> QED
  BY <1>5, <1>6, <1>9, <1>10, <1>11, <1>12, <1>13 DEF Access

\* The strengthened invariant is one.
LEMMA KNextOK == ASSUME KInv, [Next]_vars PROVE KInv'
<1>1. IInv'
  BY NextOK DEF KInv
<1>2. CASE UNCHANGED vars
  <2>1. l1' = l1 /\ llc' = llc /\ dir' = dir
    BY <1>2 DEF vars
  <2>2. KindsApart(State)'
    BY <2>1 DEF KInv, KindsApart, OfKind, Present, EntryOf, State
  <2>3. AllFresh(State)'
    BY <2>1 DEF KInv, AllFresh, Fresh, Marked, Present, EntryOf, StateOf, State
  <2> QED
    BY <1>1, <2>2, <2>3 DEF KInv
<1>3. ASSUME NEW n \in Cores, NEW r \in Requests, Access(n, r)
      PROVE  KindsApart(State)' /\ AllFresh(State)'
  <2>1. Sound(FALSE, State)
    BY DEF KInv, Sound
  <2>2. Sound(FALSE, State)' /\ AllFresh(State)'
    BY <1>3, <2>1, AccessSound
  <2> QED
    BY <2>2 DEF Sound
<1> QED
  BY <1>1, <1>2, <1>3 DEF Next, KInv

LEMMA KInvariant == Spec => []KInv
<1>1. Init => KInv
  BY KInitOK
<1>2. KInv /\ [Next]_vars => KInv'
  BY KNextOK
<1> QED
  BY <1>1, <1>2, PTL DEF Spec

-----------------------------------------------------------------------------
(***************************************************************************)
(* The properties of Hierarchy, in the terms of the proof.                 *)
(***************************************************************************)
\* What is tracked has an entry, and what has an entry is in the LLC.
LEMMA InclusionIsTracking ==
  ASSUME KInv, DirectoryMirrorsLLC PROVE Inclusion <=> HeldIsTracked(State)
<1>1. dir \in Directories
  BY DEF KInv, IInv, GoodState, StateRecords, State
<1>2. ASSUME Inclusion PROVE HeldIsTracked(State)
  <2> SUFFICES ASSUME NEW n \in Cores, NEW k \in L1Kinds, NEW x \in Blocks,
                      Holds(L1, l1[n][k], x)
               PROVE  n \in TrackersOf(dir, x)
    BY DEF HeldIsTracked, State
  <2>1. n \in CopyHolders(x)
    BY DEF CopyHolders
  <2> QED
    BY <1>2, <2>1 DEF Inclusion
<1>3. ASSUME HeldIsTracked(State) PROVE Inclusion
  <2> SUFFICES ASSUME NEW b \in Blocks, CopyHolders(b) # {}
               PROVE  /\ Holds(LLC, llc, b)
                      /\ CopyHolders(b) \subseteq TrackersOf(dir, b)
    BY DEF Inclusion
  <2>1. CopyHolders(b) \subseteq TrackersOf(dir, b)
    BY <1>3 DEF HeldIsTracked, CopyHolders, State
  <2>2. HasEntry(dir, b)
    BY <1>1, <2>1, TrackedHasEntry
  <2> QED
    BY <2>1, <2>2 DEF DirectoryMirrorsLLC
<1> QED
  BY <1>2, <1>3

LEMMA AskAllOfState == EvictionsAskAll <=> AskAll(State)
BY DEF EvictionsAskAll, AskAll, AskedInFull, State

LEMMA ApartOfState == CopiesApart <=> L1sApart(State)
BY DEF CopiesApart, L1sApart, State

\* Where code is apart from data the two L1s of a core share no block.
LEMMA KindsAreApart ==
  ASSUME InstBlocks \cap DataBlocks = {}, KInv PROVE CopiesApart
BY DEF KInv, KindsApart, OfKind, BlocksOf, Holds, CopiesApart, State, L1Kinds

\* With one core an eviction asks all the trackers there are.
LEMMA OneCoreAsksAll == ASSUME NbCores = 1, KInv PROVE EvictionsAskAll
<1>1. dir \in Directories
  BY DEF KInv, IInv, GoodState, StateRecords, State
<1>2. \A b \in Blocks : TrackersOf(dir, b) \in SUBSET Cores
  BY <1>1, DirectoryEntry
<1>3. \A m, n \in Cores : ~(m < n)
  BY DEF Cores
<1> QED
  BY <1>2, <1>3 DEF EvictionsAskAll

\* One access.
LEMMA StepKeepsInclusion ==
  ASSUME KInv, DirectoryMirrorsLLC, DirectoryMirrorsLLC', [Next]_vars,
         Inclusion, EvictionsAskAll, CopiesApart, vars' # vars
  PROVE  (Inclusion /\ NoAssertFails)'
<1>1. PICK n \in Cores, r \in Requests : Access(n, r)
  BY DEF Next
<1>2. aborted = FALSE
  <2>1. ~aborted
    BY <1>1 DEF Access, AccessNotPresent, AccessInLLC, AccessOwned,
                ReadOwnedElsewhere, WriteOwnedElsewhere, ReadShared,
                WriteShared, Finds
  <2> QED
    BY <2>1 DEF KInv, IInv, GoodState, StateRecords, State
<1>3. Sound(TRUE, State)
  BY <1>2, InclusionIsTracking DEF KInv, Sound, State
<1>4. L1sApart(State) /\ AskAll(State)
  BY AskAllOfState, ApartOfState
<1>5. Sound(TRUE, State)'
  BY <1>1, <1>3, <1>4, AccessSound
<1>6. KInv'
  BY KNextOK
<1>7. HeldIsTracked(State)' /\ State'.aborted = FALSE
  BY <1>5 DEF Sound
<1>8. Inclusion'
  <2>1. (Inclusion <=> HeldIsTracked(State))'
    BY <1>6, InclusionIsTracking, PTL
  <2> QED
    BY <1>7, <2>1
<1> QED
  BY <1>7, <1>8 DEF NoAssertFails, State

\* The same for a step that changes nothing.
LEMMA StepOrStutterKeepsInclusion ==
  ASSUME KInv, DirectoryMirrorsLLC, DirectoryMirrorsLLC', [Next]_vars,
         Inclusion, NoAssertFails, EvictionsAskAll, CopiesApart
  PROVE  (Inclusion /\ NoAssertFails)'
<1>1. CASE vars' = vars
  BY <1>1 DEF vars, Inclusion, NoAssertFails, CopyHolders
<1>2. CASE vars' # vars
  BY <1>2, StepKeepsInclusion
<1> QED
  BY <1>1, <1>2

\* The LLC starts empty, and the L1s.
LEMMA InclusionAtFirst ==
  ASSUME Init, DirectoryMirrorsLLC PROVE Inclusion /\ NoAssertFails
<1>1. KInv /\ Sound(TRUE, State)
  BY KInitOK
<1> QED
  BY <1>1, InclusionIsTracking DEF Sound, NoAssertFails, State

-----------------------------------------------------------------------------
\* Of every number of cores, caches and policy: an access, with the evictions,
\* the write backs and the prefetches it causes, keeps the L1s in the LLC and
\* its directory and fails no assertion, unless Hierarchy::L1sdeallocate would
\* stop before the last tracker of some block or both L1s of a core have one.
THEOREM InclusionIsAlwaysKept == Spec => InclusionIsKept
<1>1. ASSUME KInv, DirectoryMirrorsLLC, DirectoryMirrorsLLC', [Next]_vars
      PROVE  [(Inclusion /\ EvictionsAskAll /\ CopiesApart)
                => (Inclusion /\ NoAssertFails)']_vars
  BY <1>1, StepKeepsInclusion
<1>2. KInv /\ DirectoryMirrorsLLC /\ DirectoryMirrorsLLC' /\ [Next]_vars
        => [(Inclusion /\ EvictionsAskAll /\ CopiesApart)
              => (Inclusion /\ NoAssertFails)']_vars
  BY <1>1
<1> QED
  BY <1>2, KInvariant, DirectoryAlwaysMirrorsLLC, PTL DEF Spec, InclusionIsKept

\* So where neither happens the LLC always includes the L1s and the program is
\* never stopped by an assertion.
THEOREM InclusionIsLostInTwoWays ==
  Spec /\ [](EvictionsAskAll /\ CopiesApart) => [](Inclusion /\ NoAssertFails)
<1>1. Init /\ DirectoryMirrorsLLC => Inclusion /\ NoAssertFails
  BY InclusionAtFirst
<1>2. KInv /\ DirectoryMirrorsLLC /\ DirectoryMirrorsLLC' /\ [Next]_vars
      /\ EvictionsAskAll /\ CopiesApart /\ Inclusion /\ NoAssertFails
        => (Inclusion /\ NoAssertFails)'
  BY StepOrStutterKeepsInclusion
<1> QED
  BY <1>1, <1>2, KInvariant, DirectoryAlwaysMirrorsLLC, PTL DEF Spec

\* A program whose code is apart from its data can lose inclusion in one way
\* only: L1sdeallocate stops at a tracker that answers that it is dirty.
THEOREM CodeApartFromData ==
  InstBlocks \cap DataBlocks = {} =>
    (Spec /\ []EvictionsAskAll => [](Inclusion /\ NoAssertFails))
<1> SUFFICES ASSUME InstBlocks \cap DataBlocks = {}
             PROVE  Spec /\ []EvictionsAskAll => [](Inclusion /\ NoAssertFails)
  OBVIOUS
<1>1. KInv => CopiesApart
  BY KindsAreApart
<1> QED
  BY <1>1, KInvariant, InclusionIsLostInTwoWays, PTL

\* As long as the LLC includes the L1s, a block of it marked as prefetched is in
\* no L1, so no prefetch is counted twice as useful: every access resets the mark
\* of its block, and a write back or a fill leaves that of the others as it is.
THEOREM PrefetchedAreUnusedWhereIncluded ==
  Spec => [](Inclusion => PrefetchedIsUnused)
<1>1. KInv => (Inclusion => PrefetchedIsUnused)
  <2> SUFFICES ASSUME KInv, Inclusion, NEW b \in Blocks, Marked(llc, b)
               PROVE  StateOf(dir, b) = "CLEAN_LLC" /\ CopyHolders(b) = {}
    BY DEF PrefetchedIsUnused, Marked, Holds
  <2>1. StateOf(dir, b) = "CLEAN_LLC"
    BY DEF KInv, AllFresh, Fresh, State
  <2>2. EntryMatches(dir, b)
    BY DEF KInv, IInv, EntryOK, State
  <2>3. TrackersOf(dir, b) = {}
    BY <2>1, <2>2 DEF EntryMatches
  <2> QED
    BY <2>1, <2>3 DEF Inclusion
<1> QED
  BY <1>1, KInvariant, PTL

-----------------------------------------------------------------------------
(***************************************************************************)
(* One core, and code apart from data: neither way is open.                *)
(***************************************************************************)
LEMMA SingleCoreIncludes ==
  ASSUME SingleCore PROVE Spec => [](Inclusion /\ NoAssertFails)
<1>1. KInv => EvictionsAskAll
  BY OneCoreAsksAll DEF SingleCore
<1>2. Spec /\ []EvictionsAskAll => [](Inclusion /\ NoAssertFails)
  BY CodeApartFromData DEF SingleCore
<1> QED
  BY <1>1, <1>2, KInvariant, PTL

\* With one core, and code apart from data, no assertion of Hierarchy.cc or
\* Directory.cc ends the program, whatever it accesses: every write back and
\* every eviction finds the entry of its block.
THEOREM NoAssertionEverFails == SingleCore => (Spec => []NoAssertFails)
<1> SUFFICES ASSUME SingleCore PROVE Spec => []NoAssertFails
  OBVIOUS
<1> QED
  BY SingleCoreIncludes, PTL

\* In the same case the LLC includes the L1s after every access, evictions and
\* prefetches included, and the directory knows the core as a holder.
THEOREM LLCAlwaysIncludesL1s == SingleCore => (Spec => []Inclusion)
<1> SUFFICES ASSUME SingleCore PROVE Spec => []Inclusion
  OBVIOUS
<1> QED
  BY SingleCoreIncludes, PTL

\* And no prefetch is ever counted twice.
THEOREM PrefetchedAreUnused == SingleCore => (Spec => []PrefetchedIsUnused)
<1> SUFFICES ASSUME SingleCore PROVE Spec => []PrefetchedIsUnused
  OBVIOUS
<1> QED
  BY SingleCoreIncludes, PrefetchedAreUnusedWhereIncluded, PTL

-----------------------------------------------------------------------------
(***************************************************************************)
(* Programs that give every block one writer.  The trackers of a block are *)
(* asked in increasing order, so none is missed if the one that may answer *)
(* that it is dirty is the last: a program where w[b] alone writes block b *)
(* and no core after it accesses it, whatever the other cores read, keeps  *)
(* the two hypotheses of InclusionIsAlwaysKept.                            *)
(***************************************************************************)
LastWriter(w, n, r) == n <= w[r.block] /\ (IsWrite(r) => n = w[r.block])

NextOf(w) == \E n \in Cores, r \in Requests : LastWriter(w, n, r) /\ Access(n, r)
SpecOf(w) == Init /\ [][NextOf(w)]_vars

\* What such a program leaves in the caches and the directory.
Obeys(w, s) ==
  /\ GoodState(s) /\ KindsApart(s)
  /\ \A x \in Blocks : /\ \A n \in TrackersOf(s.dir, x) : n <= w[x]
                       /\ \A n \in Cores : Answers(s, n, x) => n = w[x]

\* No core of a state has more to answer for than in another.
LEMMA ObeysStill ==
  ASSUME NEW w, NEW s, Obeys(w, s), NEW t, GoodState(t), KindsApart(t),
         \A x \in Blocks : /\ TrackersOf(t.dir, x) \subseteq TrackersOf(s.dir, x)
                           /\ \A n \in Cores : Answers(t, n, x) => Answers(s, n, x)
  PROVE  Obeys(w, t)
BY DEF Obeys

\* The directory and the LLC may change where the L1s do not.
LEMMA SameL1sObey ==
  ASSUME NEW w, NEW s, Obeys(w, s), NEW t, GoodState(t), t.l1 = s.l1,
         t.dir = s.dir
  PROVE  Obeys(w, t)
BY DEF Obeys, KindsApart, Answers

LEMMA SetDirObeys ==
  ASSUME NEW w, NEW s, Obeys(w, s), NEW b \in Blocks, NEW d \in Directories,
         \A x \in Blocks : x # b => d[x] = s.dir[x],
         \A n \in TrackersOf(d, b) : n <= w[b]
  PROVE  LET t == [s EXCEPT !.dir = d]
         IN Obeys(w, t) /\ t.dir = d /\ t.aborted = s.aborted
<1> DEFINE t == [s EXCEPT !.dir = d]
<1>1. GoodState(t) /\ t.l1 = s.l1 /\ t.dir = d /\ t.aborted = s.aborted
  BY SetDirGood DEF Obeys
<1> HIDE DEF t
<1>2. Obeys(w, t)
  BY <1>1 DEF Obeys, KindsApart, Answers, TrackersOf
<1> QED
  BY <1>1, <1>2 DEF t

LEMMA CountObeys ==
  ASSUME NEW w, NEW s, Obeys(w, s), NEW x \in Stats
  PROVE  LET t == Count(s, x) IN Obeys(w, t) /\ t.dir = s.dir
<1> DEFINE t == Count(s, x)
<1>1. GoodState(t) /\ t.l1 = s.l1 /\ t.dir = s.dir
  BY CountGood DEF Obeys
<1> HIDE DEF t
<1> QED
  BY <1>1, SameL1sObey DEF t

LEMMA UpdateEntryObeys ==
  ASSUME NEW w, NEW s, Obeys(w, s), NEW b \in Blocks
  PROVE  LET t == UpdateEntry(s, b) IN Obeys(w, t) /\ t.dir = s.dir
<1> DEFINE t == UpdateEntry(s, b)
<1>1. \A p \in BOOLEAN : LET y == Require(s, p)
                         IN GoodState(y) /\ y.l1 = s.l1 /\ y.dir = s.dir
  BY RequireGood DEF Obeys
<1>2. HasEntry(s.dir, b) \in BOOLEAN
  BY DEF HasEntry
<1>3. t = Require(s, HasEntry(s.dir, b))
  BY DEF UpdateEntry
<1> HIDE DEF t
<1>4. GoodState(t) /\ t.l1 = s.l1 /\ t.dir = s.dir
  BY <1>1, <1>2, <1>3
<1> QED
  BY <1>4, SameL1sObey DEF t

\* Cores that drop a block have none dirty that they had not.
LEMMA L1sDropObeys ==
  ASSUME NEW w, NEW s, Obeys(w, s), NEW nodes, NEW b \in Blocks
  PROVE  LET t == L1sDrop(s, nodes, b) IN Obeys(w, t) /\ t.dir = s.dir
<1> DEFINE t == L1sDrop(s, nodes, b)
<1>1. GoodState(s) /\ KindsApart(s)
  BY DEF Obeys
<1>2. GoodState(t) /\ t.dir = s.dir
  BY <1>1, L1sDropGood
<1>3. \A m \in Cores, j \in L1Kinds :
        t.l1[m][j] = IF m \in nodes THEN DeallocateBlock(L1, s.l1[m][j], b)
                     ELSE s.l1[m][j]
  BY <1>1 DEF L1sDrop, GoodState, StateRecords
<1> HIDE DEF t
<1>4. ASSUME NEW m \in Cores, NEW j \in L1Kinds
      PROVE  /\ OfKind(j, t.l1[m][j])
             /\ \A x \in Blocks : InvalidationAnswer(L1, t.l1[m][j], x)
                                    => InvalidationAnswer(L1, s.l1[m][j], x)
  <2> DEFINE c == s.l1[m][j]
             d == DeallocateBlock(L1, c, b)
  <2>1. GoodCache(L1, c) /\ OfKind(j, c)
    BY <1>1 DEF GoodState, KindsApart
  <2>2. /\ OfKind(j, d)
        /\ \A x \in Blocks : InvalidationAnswer(L1, d, x)
                               => InvalidationAnswer(L1, c, x)
    <3> HIDE DEF c
    <3>1. OfKind(j, d)
      BY <2>1, DropOfKind
    <3>2. /\ \A x \in Blocks : Present(d, x) <=> Present(c, x) /\ x # b
          /\ \A x \in Blocks : x # b /\ Present(c, x) =>
               EntryOf(L1, d, x) = EntryOf(L1, c, x)
      BY <2>1, Geometry, DeallocateBlockGood, DropDirty
    <3> HIDE DEF d
    <3> QED
      BY <3>1, <3>2 DEF InvalidationAnswer
  <2> QED
    BY <1>3, <2>1, <2>2
<1>5. KindsApart(t)
  BY <1>4 DEF KindsApart
<1>6. \A x \in Blocks, n \in Cores : Answers(t, n, x) => Answers(s, n, x)
  BY <1>4 DEF Answers
<1> QED
  BY <1>2, <1>5, <1>6, ObeysStill DEF t

\* What an access of an L1 makes of its block: dirty if it is written.
LEMMA L1AccessAnswer ==
  ASSUME NEW s, GoodState(s), NEW n \in Cores, NEW k \in L1Kinds,
         NEW b \in Blocks, NEW isWrite \in BOOLEAN
  PROVE  InvalidationAnswer(L1, L1Access(s, n, k, b, isWrite).l1[n][k], b)
           => isWrite \/ InvalidationAnswer(L1, s.l1[n][k], b)
<1> DEFINE c == s.l1[n][k]
           w == Victim(L1, c, SetOf(L1, b), FALSE)
           victim == c.line[SetOf(L1, b)][w]
           u == victim.addr
           t == L1Access(s, n, k, b, isWrite)
<1>1. GoodCache(L1, c) /\ L1 \in Geometries
  BY Geometry DEF GoodState
<1>2. CASE Present(c, b)
  <2> DEFINE h == Hit(L1, c, b, isWrite)
             q == [s EXCEPT !.l1[n][k] = h]
  <2>1. t = q
    BY Zenon, <1>2 DEF L1Access
  <2>2. EntryOf(L1, h, b).dirty <=> EntryOf(L1, c, b).dirty \/ isWrite
    <3> HIDE DEF c
    <3> QED
      BY <1>1, <1>2, HitDirty
  <2> HIDE DEF h
  <2>3. q.l1[n][k] = h
    BY ReplaceL1
  <2> HIDE DEF t, q, c
  <2>4. InvalidationAnswer(L1, t.l1[n][k], b)
          => isWrite \/ InvalidationAnswer(L1, c, b)
    BY <1>2, <2>1, <2>2, <2>3 DEF InvalidationAnswer
  <2> QED
    BY <2>4 DEF t, c
<1>3. CASE ~Present(c, b)
  <2> DEFINE isDirty == EntryOf(L1, c, u).dirty
             e == IF victim.valid THEN L1SignalWB(s, n, k, u, FALSE) ELSE s
             f == Fill(L1, c, b, w, isWrite, FALSE)
             q == [e EXCEPT !.l1[n][k] = f]
  <2>1. SetOf(L1, b) \in Sets(L1) /\ w \in Ways(L1)
    <3>1. SetOf(L1, b) \in Sets(L1)
      BY Geometry, GeometryFacts
    <3>2. c \in Caches(L1)
      BY <1>1 DEF GoodCache
    <3> HIDE DEF c
    <3>3. w \in Array(L1, FALSE)
      BY <3>1, <3>2, Geometry, VictimInArray
    <3> HIDE DEF w
    <3> QED
      BY <3>1, <3>3, Geometry, GeometryFacts
  <2>2. GoodState(e) /\ e.l1 = s.l1
    <3>1. CASE ~victim.valid
      BY <3>1
    <3>2. CASE victim.valid
      <4>1. u \in Blocks /\ Present(c, u)
        <5> HIDE DEF c, w
        <5> QED
          BY <1>1, <2>1, <3>2, Geometry, ValidEntryIsIndexed
      <4>2. isDirty \in BOOLEAN
        <5> HIDE DEF c, u
        <5>1. EntryOf(L1, c, u) \in Lines
          BY <1>1, <4>1, IndexedEntry DEF EntryOf
        <5> QED
          BY <5>1 DEF Lines
      <4>3. e = WBFromL1(s, n, u, isDirty, FALSE)
        BY Zenon, <3>2, <4>1 DEF L1SignalWB
      <4> HIDE DEF u, isDirty, e
      <4>4. \A kept \in BOOLEAN : LET y == WBFromL1(s, n, u, isDirty, kept)
                                  IN GoodState(y) /\ y.l1 = s.l1
        BY <4>1, <4>2, WBFromL1Good
      <4> QED
        BY <4>3, <4>4
    <3> QED
      BY <3>1, <3>2
  <2>3. t = q
    <3>1. t = [e EXCEPT !.l1[n][k] = Fill(L1, @, b, w, isWrite, FALSE)]
      BY Zenon, <1>3 DEF L1Access
    <3> HIDE DEF e
    <3> QED
      BY Zenon, <2>2, <3>1 DEF f
  <2>4. EntryOf(L1, f, b).dirty = isWrite
    <3>1. \A p \in BOOLEAN :
            EntryOf(L1, Fill(L1, c, b, w, isWrite, p), b).dirty = isWrite
      <4> HIDE DEF c, w
      <4> QED
        BY <1>1, <1>3, <2>1, FillDirty
    <3> QED
      BY <3>1
  <2> HIDE DEF e, f
  <2>5. q.l1[n][k] = f
    BY <2>2, ReplaceL1
  <2> HIDE DEF t, q
  <2>6. InvalidationAnswer(L1, t.l1[n][k], b) => isWrite
    BY <2>3, <2>4, <2>5 DEF InvalidationAnswer
  <2> QED
    BY <2>6 DEF t
<1> QED
  BY <1>2, <1>3

\* An access of an L1, a write by the one core that may.
LEMMA L1AccessObeys ==
  ASSUME NEW w, NEW s, Obeys(w, s), NEW n \in Cores, NEW k \in L1Kinds,
         NEW b \in Blocks, NEW isWrite \in BOOLEAN, Fits(k, b, isWrite),
         isWrite => n = w[b]
  PROVE  LET t == L1Access(s, n, k, b, isWrite)
         IN Obeys(w, t) /\ t.dir[b] = s.dir[b]
<1> DEFINE t == L1Access(s, n, k, b, isWrite)
<1>1. GoodState(s) /\ KindsApart(s) /\ s.dir \in Directories
  BY DEF Obeys, GoodState, StateRecords
<1>2. GoodState(t) /\ t.dir[b] = s.dir[b]
  BY <1>1, L1AccessGood
<1>3. PICK u : u # b /\ Accessed(s, t, n, k, b, u) /\ Evicted(s, t, n, k, u)
  BY <1>1, L1AccessVictim
<1>4. InvalidationAnswer(L1, t.l1[n][k], b)
        => isWrite \/ InvalidationAnswer(L1, s.l1[n][k], b)
  BY <1>1, L1AccessAnswer
<1> HIDE DEF t
<1>5. /\ \A m \in Cores, j \in L1Kinds :
           ~(m = n /\ j = k) => t.l1[m][j] = s.l1[m][j]
      /\ OneForAnother(k, s.l1[n][k], t.l1[n][k], b, u)
  BY <1>3 DEF Accessed
<1>6. KindsApart(t)
  BY <1>1, <1>5 DEF KindsApart, OneForAnother
<1>7. \A x \in Blocks : TrackersOf(t.dir, x) \subseteq TrackersOf(s.dir, x)
  <2>1. CASE u = NoBlock
    BY <1>3, <2>1 DEF Evicted
  <2>2. CASE u # NoBlock
    <3>1. u \in Blocks /\ t.dir = RemoveTracker(s.dir, u, n)
      BY <1>3, <2>2 DEF Evicted
    <3>2. \A x \in Blocks : x # u => t.dir[x] = s.dir[x]
      BY <1>1, <3>1, RemoveTrackerMatches
    <3>3. TrackersOf(t.dir, u) = TrackersOf(s.dir, u) \ {n}
      BY <1>1, <3>1, RemoveTrackerEntry
    <3> QED
      BY <3>2, <3>3 DEF TrackersOf
  <2> QED
    BY <2>1, <2>2
<1>8. ASSUME NEW x \in Blocks, NEW m \in Cores, Answers(t, m, x)
      PROVE  m = w[x]
  <2>1. PICK j \in L1Kinds : InvalidationAnswer(L1, t.l1[m][j], x)
    BY <1>8 DEF Answers
  <2>2. \/ InvalidationAnswer(L1, s.l1[m][j], x)
        \/ m = n /\ x = b /\ isWrite
    <3>1. CASE ~(m = n /\ j = k)
      BY <1>5, <2>1, <3>1
    <3>2. CASE m = n /\ j = k /\ x = b
      BY <1>4, <2>1, <3>2
    <3>3. CASE m = n /\ j = k /\ x # b
      BY <1>5, <2>1, <3>3 DEF OneForAnother, InvalidationAnswer
    <3> QED
      BY <3>1, <3>2, <3>3
  <2>3. InvalidationAnswer(L1, s.l1[m][j], x) => Answers(s, m, x)
    BY DEF Answers
  <2> QED
    BY <2>2, <2>3 DEF Obeys
<1>9. \A x \in Blocks : \A m \in TrackersOf(t.dir, x) : m <= w[x]
  BY <1>7 DEF Obeys
<1>10. Obeys(w, t)
  BY <1>2, <1>6, <1>8, <1>9 DEF Obeys
<1> QED
  BY <1>2, <1>10 DEF t

\* An access of the LLC only takes trackers and copies away.
LEMMA LLCAccessObeys ==
  ASSUME NEW w, NEW s, Obeys(w, s), NEW b \in Blocks,
         NEW isWrite \in BOOLEAN, NEW isPrefetch \in BOOLEAN
  PROVE  LET t == LLCAccess(s, b, isWrite, isPrefetch)
         IN Obeys(w, t) /\ t.dir[b] = s.dir[b]
<1> DEFINE c == s.llc
           z == Victim(LLC, c, SetOf(LLC, b), AllocateInNVM(LLC, isWrite))
           victim == c.line[SetOf(LLC, b)][z]
           v == victim.addr
           t == LLCAccess(s, b, isWrite, isPrefetch)
<1>1. /\ GoodState(s) /\ Sound(FALSE, s) /\ GoodCache(LLC, c)
      /\ s \in StateRecords
  BY DEF Obeys, GoodState, Sound
<1>2. GoodState(t) /\ t.dir[b] = s.dir[b]
  BY <1>1, LLCAccessGood
<1>3. CASE Present(c, b)
  <2>1. \A y : LET e == [s EXCEPT !.llc = y] IN e.l1 = s.l1 /\ e.dir = s.dir
    BY <1>1 DEF StateRecords
  <2>2. t = [s EXCEPT !.llc = Hit(LLC, c, b, isWrite)]
    BY <1>3 DEF LLCAccess
  <2> HIDE DEF t
  <2>3. t.l1 = s.l1 /\ t.dir = s.dir
    BY <2>1, <2>2
  <2>4. Obeys(w, t)
    BY <1>2, <2>3, SameL1sObey
  <2> QED
    BY <1>2, <2>4 DEF t
<1>4. CASE ~Present(c, b)
  <2> DEFINE e == IF victim.valid THEN LLCSignalWB(L1sDeallocate(s, v), v) ELSE s
             f == Fill(LLC, e.llc, b, z, isWrite, isPrefetch)
  <2>1. SetOf(LLC, b) \in Sets(LLC) /\ z \in Ways(LLC)
    <3>1. SetOf(LLC, b) \in Sets(LLC)
      BY Geometry, GeometryFacts
    <3>2. c \in Caches(LLC)
      BY <1>1 DEF GoodCache
    <3>3. /\ AllocateInNVM(LLC, isWrite) \in BOOLEAN
          /\ Array(LLC, AllocateInNVM(LLC, isWrite)) # {}
      BY Geometry
    <3> HIDE DEF c
    <3>4. z \in Array(LLC, AllocateInNVM(LLC, isWrite))
      BY <3>1, <3>2, <3>3, Geometry, VictimInArray
    <3> HIDE DEF z
    <3> QED
      BY <3>1, <3>3, <3>4, Geometry, GeometryFacts
  <2>2. t = [e EXCEPT !.llc = f]
    BY <1>4 DEF LLCAccess
  <2>3. /\ GoodState(e) /\ KindsApart(e)
        /\ \A x \in Blocks :
             /\ TrackersOf(e.dir, x) \subseteq TrackersOf(s.dir, x)
             /\ \A n \in Cores : Answers(e, n, x) => Answers(s, n, x)
    <3>1. CASE ~victim.valid
      <4>1. e = s
        BY <3>1
      <4> HIDE DEF e
      <4> QED
        BY <1>1, <4>1 DEF Sound
    <3>2. CASE victim.valid
      <4>1. v \in Blocks /\ Present(c, v)
        <5> HIDE DEF c, z
        <5> QED
          BY <1>1, <2>1, <3>2, Geometry, ValidEntryIsIndexed
      <4>2. e = LLCSignalWB(L1sDeallocate(s, v), v)
        BY <3>2
      <4> HIDE DEF v, e
      <4>3. LLCEvicted(FALSE, s, e, v)
        BY <1>1, <4>1, <4>2, LLCEviction
      <4> QED
        BY <4>3 DEF LLCEvicted, Sound, TrackersOf
    <3> QED
      BY <3>1, <3>2
  <2> HIDE DEF e, f, t
  <2>4. t.l1 = e.l1 /\ t.dir = e.dir
    BY <2>2, <2>3 DEF GoodState, StateRecords
  <2>5. Obeys(w, e)
    BY <2>3, ObeysStill
  <2>6. Obeys(w, t)
    BY <1>2, <2>4, <2>5, SameL1sObey
  <2> QED
    BY <1>2, <2>6 DEF t
<1> QED
  BY <1>3, <1>4

\* The branches of Hierarchy::handleAccess, for a request the program may make.
LEMMA FetchFromMemoryObeys ==
  ASSUME NEW w, NEW s, Obeys(w, s), NEW n \in Cores,
         NEW r \in Requests, LastWriter(w, n, r)
  PROVE  Obeys(w, FetchFromMemory(s, n, r))
<1> DEFINE b == r.block
           k == Kind(r)
           isWrite == IsWrite(r)
           d1 == SetTrackerToEntry(AddEntry(s.dir, b), b, n)
           s1 == [s EXCEPT !.dir = d1]
           s2 == L1Access(s1, n, k, b, isWrite)
           s3 == LLCAccess(s2, b, isWrite, FALSE)
           s4 == UpdateEntry(s3, b)
           d5 == SetState(s4.dir, b, "EXCLUSIVE_L1")
           s5 == [s4 EXCEPT !.dir = d5]
           x == IF isWrite THEN "writeFetch" ELSE "readFetch"
<1>1. /\ b \in Blocks /\ k \in L1Kinds /\ isWrite \in BOOLEAN
      /\ Fits(k, b, isWrite)
  BY RequestFacts, RequestKind
<1>2. FetchFromMemory(s, n, r) = Count(s5, x)
  BY DEF FetchFromMemory
<1>3. n <= w[b] /\ (isWrite => n = w[b]) /\ s.dir \in Directories
  BY DEF LastWriter, Obeys, GoodState, StateRecords
<1> HIDE DEF b, k, isWrite
<1>4. /\ AddEntry(s.dir, b) \in Directories /\ HasEntry(AddEntry(s.dir, b), b)
      /\ \A y \in Blocks : y # b => AddEntry(s.dir, b)[y] = s.dir[y]
  BY <1>1, <1>3 DEF AddEntry, Directories, Entries, NoEntry, HasEntry, States
<1>5. /\ d1 \in Directories /\ TrackersOf(d1, b) = {n}
      /\ \A y \in Blocks : y # b => d1[y] = s.dir[y]
  BY <1>1, <1>4, SetTrackersEntry
<1> HIDE DEF d1
<1>6. Obeys(w, s1) /\ s1.dir = d1
  BY <1>1, <1>3, <1>5, SetDirObeys
<1> HIDE DEF s1
<1>7. Obeys(w, s2) /\ s2.dir[b] = s1.dir[b]
  BY <1>1, <1>3, <1>6, L1AccessObeys
<1> HIDE DEF s2
<1>8. Obeys(w, s3) /\ s3.dir[b] = s2.dir[b]
  <2>1. \A p \in BOOLEAN : LET u == LLCAccess(s2, b, isWrite, p)
                           IN Obeys(w, u) /\ u.dir[b] = s2.dir[b]
    BY <1>1, <1>7, LLCAccessObeys
  <2> QED
    BY <2>1
<1> HIDE DEF s3
<1>9. Obeys(w, s4) /\ s4.dir = s3.dir
  BY <1>1, <1>8, UpdateEntryObeys
<1> HIDE DEF s4
<1>10. s4.dir \in Directories /\ TrackersOf(s4.dir, b) = {n}
  BY <1>5, <1>6, <1>7, <1>8, <1>9 DEF Obeys, GoodState, StateRecords, TrackersOf
<1>11. /\ d5 \in Directories /\ TrackersOf(d5, b) = {n}
       /\ \A y \in Blocks : y # b => d5[y] = s4.dir[y]
  <2>1. "EXCLUSIVE_L1" \in States
    BY DEF States
  <2> QED
    BY <1>1, <1>10, <2>1, SetStateEntry
<1> HIDE DEF d5
<1>12. Obeys(w, s5)
  BY <1>1, <1>3, <1>9, <1>11, SetDirObeys
<1>13. x \in Stats
  BY DEF Stats
<1> HIDE DEF s5, x
<1> QED
  BY <1>2, <1>12, <1>13, CountObeys

LEMMA FetchFromLLCObeys ==
  ASSUME NEW w, NEW s, Obeys(w, s), NEW n \in Cores,
         NEW r \in Requests, LastWriter(w, n, r)
  PROVE  Obeys(w, FetchFromLLC(s, n, r))
<1> DEFINE b == r.block
           k == Kind(r)
           isWrite == IsWrite(r)
           d0 == SetState(s.dir, b, "EXCLUSIVE_L1")
           d1 == SetTrackerToEntry(d0, b, n)
           s1 == [s EXCEPT !.dir = d1]
           s2 == L1Access(s1, n, k, b, isWrite)
           s3 == LLCAccess(s2, b, isWrite, FALSE)
           isPrefetched == Present(s3.llc, b) /\ EntryOf(LLC, s3.llc, b).prefetch
           s4 == IF isPrefetched THEN Count(s3, "hitPrefetch") ELSE s3
           c == ResetPrefetchFlag(LLC, s4.llc, b)
           s5 == [s4 EXCEPT !.llc = c]
<1>1. /\ b \in Blocks /\ k \in L1Kinds /\ isWrite \in BOOLEAN
      /\ Fits(k, b, isWrite)
  BY RequestFacts, RequestKind
<1>2. FetchFromLLC(s, n, r) = UpdateEntry(s5, b)
  BY DEF FetchFromLLC
<1>3. n <= w[b] /\ (isWrite => n = w[b]) /\ s.dir \in Directories
  BY DEF LastWriter, Obeys, GoodState, StateRecords
<1> HIDE DEF b, k, isWrite
<1>4. /\ d0 \in Directories /\ HasEntry(d0, b)
      /\ \A y \in Blocks : y # b => d0[y] = s.dir[y]
  <2>1. "EXCLUSIVE_L1" \in States
    BY DEF States
  <2> QED
    BY <1>1, <1>3, <2>1, SetStateEntry
<1> HIDE DEF d0
<1>5. /\ d1 \in Directories /\ TrackersOf(d1, b) = {n}
      /\ \A y \in Blocks : y # b => d1[y] = s.dir[y]
  BY <1>1, <1>4, SetTrackersEntry
<1> HIDE DEF d1
<1>6. Obeys(w, s1)
  BY <1>1, <1>3, <1>5, SetDirObeys
<1> HIDE DEF s1
<1>7. Obeys(w, s2)
  BY <1>1, <1>3, <1>6, L1AccessObeys
<1> HIDE DEF s2
<1>8. Obeys(w, s3)
  <2>1. \A p \in BOOLEAN : Obeys(w, LLCAccess(s2, b, isWrite, p))
    BY <1>1, <1>7, LLCAccessObeys
  <2> QED
    BY <2>1
<1> HIDE DEF s3, isPrefetched
<1>9. Obeys(w, s4)
  <2>1. "hitPrefetch" \in Stats
    BY DEF Stats
  <2> QED
    BY <1>8, <2>1, CountObeys
<1> HIDE DEF s4
<1>10. GoodCache(LLC, c) /\ NoGhost(LLC, c)
  BY <1>1, <1>9, Geometry, ResetPrefetchFlagGood DEF Obeys, GoodState
<1> HIDE DEF c
<1>11. GoodState(s5) /\ s5.l1 = s4.l1 /\ s5.dir = s4.dir
  BY <1>9, <1>10, SetLLCGood DEF Obeys
<1> HIDE DEF s5
<1>12. Obeys(w, s5)
  BY <1>9, <1>11, SameL1sObey
<1> QED
  BY <1>1, <1>2, <1>12, UpdateEntryObeys

LEMMA AccessAsOwnerObeys ==
  ASSUME NEW w, NEW s, Obeys(w, s), NEW n \in Cores,
         NEW r \in Requests, LastWriter(w, n, r)
  PROVE  Obeys(w, AccessAsOwner(s, n, r))
<1> DEFINE b == r.block
           k == Kind(r)
           isWrite == IsWrite(r)
           isFirst == IsWrite(r) /\ StateOf(s.dir, b) = "EXCLUSIVE_L1"
           d1 == SetState(s.dir, b, "MODIFIED_L1")
           s1 == IF isFirst THEN [s EXCEPT !.dir = d1] ELSE s
<1>1. /\ b \in Blocks /\ k \in L1Kinds /\ isWrite \in BOOLEAN
      /\ Fits(k, b, isWrite)
  BY RequestFacts, RequestKind
<1>2. AccessAsOwner(s, n, r) = L1Access(s1, n, k, b, isWrite)
  BY DEF AccessAsOwner
<1>3. (isWrite => n = w[b]) /\ s.dir \in Directories
  BY DEF LastWriter, Obeys, GoodState, StateRecords
<1> HIDE DEF b, k, isWrite, isFirst
<1>4. /\ d1 \in Directories /\ TrackersOf(d1, b) = TrackersOf(s.dir, b)
      /\ \A y \in Blocks : y # b => d1[y] = s.dir[y]
  <2>1. "MODIFIED_L1" \in States
    BY DEF States
  <2> QED
    BY <1>1, <1>3, <2>1, SetStateEntry
<1> HIDE DEF d1
<1>5. \A m \in TrackersOf(d1, b) : m <= w[b]
  BY <1>1, <1>4 DEF Obeys
<1>6. Obeys(w, s1)
  BY <1>1, <1>4, <1>5, SetDirObeys
<1> HIDE DEF s1
<1> QED
  BY <1>1, <1>2, <1>3, <1>6, L1AccessObeys

\* The last steps of an access that goes through the LLC.
LEMMA ThroughLLCObeys ==
  ASSUME NEW w, NEW s, Obeys(w, s), NEW b \in Blocks,
         NEW n \in Cores, NEW k \in L1Kinds, NEW isWrite \in BOOLEAN,
         Fits(k, b, isWrite), isWrite => n = w[b]
  PROVE  Obeys(w, L1Access(UpdateEntry(LLCAccess(s, b, isWrite, FALSE), b),
                           n, k, b, isWrite))
<1> DEFINE u == LLCAccess(s, b, isWrite, FALSE)
<1>1. Obeys(w, u)
  <2>1. \A p \in BOOLEAN : Obeys(w, LLCAccess(s, b, isWrite, p))
    BY LLCAccessObeys
  <2> QED
    BY <2>1
<1> HIDE DEF u
<1>2. Obeys(w, UpdateEntry(u, b))
  BY <1>1, UpdateEntryObeys
<1>3. Obeys(w, L1Access(UpdateEntry(u, b), n, k, b, isWrite))
  BY <1>2, L1AccessObeys
<1> QED
  BY <1>3 DEF u

LEMMA WriteBackByOwnerObeys ==
  ASSUME NEW w, NEW s, Obeys(w, s), NEW m \in Cores, NEW r \in Requests
  PROVE  LET t == WriteBackByOwner(s, m, r) IN Obeys(w, t) /\ t.dir = s.dir
<1> DEFINE b == r.block
           c == s.l1[m][Kind(r)]
           isDirty == EntryOf(L1, c, b).dirty
           t == WriteBackByOwner(s, m, r)
<1>1. b \in Blocks /\ Kind(r) \in L1Kinds
  BY RequestFacts
<1>2. CASE ~Present(c, b)
  BY <1>2 DEF WriteBackByOwner, L1SignalWB
<1>3. CASE Present(c, b)
  <2>1. GoodState(s) /\ GoodCache(L1, c)
    BY <1>1 DEF Obeys, GoodState
  <2>2. isDirty \in BOOLEAN
    <3> HIDE DEF c, b
    <3>1. EntryOf(L1, c, b) \in Lines
      BY <1>1, <1>3, <2>1, Geometry, IndexedEntry DEF EntryOf
    <3> QED
      BY <3>1 DEF Lines
  <2>3. t = WBFromL1(s, m, b, isDirty, TRUE)
    BY <1>3 DEF WriteBackByOwner, L1SignalWB
  <2> HIDE DEF isDirty, t, b, c
  <2>4. \A kept \in BOOLEAN :
          LET v == WBFromL1(s, m, b, isDirty, kept)
          IN GoodState(v) /\ v.l1 = s.l1 /\ (kept => v.dir = s.dir)
    BY <1>1, <2>1, <2>2, WBFromL1Good
  <2>5. GoodState(t) /\ t.l1 = s.l1 /\ t.dir = s.dir
    BY <2>3, <2>4
  <2> QED
    BY <2>5, SameL1sObey DEF t
<1> QED
  BY <1>2, <1>3

LEMMA ShareWithOwnerObeys ==
  ASSUME NEW w, NEW s, Obeys(w, s), NEW n \in Cores,
         NEW m \in Cores, NEW r \in Requests, LastWriter(w, n, r),
         HasEntry(s.dir, r.block)
  PROVE  Obeys(w, ShareWithOwner(s, n, m, r))
<1> DEFINE b == r.block
           k == Kind(r)
           s1 == WriteBackByOwner(s, m, r)
           d1 == AddTrackerToEntry(s1.dir, b, n)
           d2 == SetState(d1, b, "SHARED_L1")
           s2 == [s1 EXCEPT !.dir = d2]
           t == L1Access(UpdateEntry(LLCAccess(s2, b, FALSE, FALSE), b),
                         n, k, b, FALSE)
<1>1. b \in Blocks /\ k \in L1Kinds /\ Fits(k, b, FALSE)
  BY RequestFacts, RequestKind
<1>2. ShareWithOwner(s, n, m, r) = t
  BY DEF ShareWithOwner
<1>3. n <= w[b] /\ s.dir \in Directories /\ HasEntry(s.dir, b)
  BY DEF LastWriter, Obeys, GoodState, StateRecords
<1>4. Obeys(w, s1) /\ s1.dir = s.dir
  BY WriteBackByOwnerObeys
<1> HIDE DEF b, k, s1
<1>5. /\ d1 \in Directories /\ HasEntry(d1, b)
      /\ TrackersOf(d1, b) = TrackersOf(s.dir, b) \cup {n}
      /\ \A y \in Blocks : y # b => d1[y] = s1.dir[y]
  BY <1>1, <1>3, <1>4, SetTrackersEntry
<1> HIDE DEF d1
<1>6. /\ d2 \in Directories
      /\ TrackersOf(d2, b) = TrackersOf(s.dir, b) \cup {n}
      /\ \A y \in Blocks : y # b => d2[y] = s1.dir[y]
  <2>1. "SHARED_L1" \in States
    BY DEF States
  <2> QED
    BY <1>1, <1>5, <2>1, SetStateEntry
<1> HIDE DEF d2
<1>7. \A i \in TrackersOf(d2, b) : i <= w[b]
  BY <1>1, <1>3, <1>6 DEF Obeys
<1>8. Obeys(w, s2)
  BY <1>1, <1>4, <1>6, <1>7, SetDirObeys
<1> HIDE DEF s2
<1>9. Obeys(w, t)
  BY <1>1, <1>8, ThroughLLCObeys
<1> QED
  BY <1>2, <1>9

\* The writer takes the block, whoever has dropped it.
LEMMA TakenObeys ==
  ASSUME NEW w, NEW s, Obeys(w, s), NEW b \in Blocks,
         HasEntry(s.dir, b), NEW nodes, NEW n \in Cores, n = w[b],
         NEW k \in L1Kinds, Fits(k, b, TRUE)
  PROVE  LET taken == [L1sDrop(s, nodes, b) EXCEPT
                         !.dir = SetState(SetTrackerToEntry(@, b, n), b,
                                          "EXCLUSIVE_L1")]
         IN Obeys(w, L1Access(UpdateEntry(LLCAccess(taken, b, TRUE, FALSE), b),
                              n, k, b, TRUE))
<1> DEFINE s1 == L1sDrop(s, nodes, b)
           d1 == SetTrackerToEntry(s1.dir, b, n)
           d2 == SetState(d1, b, "EXCLUSIVE_L1")
           s2 == [s1 EXCEPT !.dir = d2]
           t == L1Access(UpdateEntry(LLCAccess(s2, b, TRUE, FALSE), b),
                         n, k, b, TRUE)
<1>1. Obeys(w, s1) /\ s1.dir = s.dir
  BY L1sDropObeys
<1> HIDE DEF s1
<1>2. s1.dir \in Directories /\ HasEntry(s1.dir, b)
  BY <1>1 DEF Obeys, GoodState, StateRecords
<1>3. /\ d1 \in Directories /\ TrackersOf(d1, b) = {n}
      /\ \A y \in Blocks : y # b => d1[y] = s1.dir[y]
  BY <1>2, SetTrackersEntry
<1> HIDE DEF d1
<1>4. /\ d2 \in Directories /\ TrackersOf(d2, b) = {n}
      /\ \A y \in Blocks : y # b => d2[y] = s1.dir[y]
  <2>1. "EXCLUSIVE_L1" \in States
    BY DEF States
  <2> QED
    BY <1>3, <2>1, SetStateEntry
<1> HIDE DEF d2
<1>5. \A i \in TrackersOf(d2, b) : i <= w[b]
  BY <1>4 DEF Cores
<1>6. Obeys(w, s2)
  BY <1>1, <1>4, <1>5, SetDirObeys
<1> HIDE DEF s2
<1>7. Obeys(w, t)
  BY <1>6, ThroughLLCObeys
<1> QED
  BY <1>7 DEF t, s2, d2, d1, s1

LEMMA TakeFromOwnerObeys ==
  ASSUME NEW w, NEW s, Obeys(w, s), NEW n \in Cores,
         NEW m \in Cores, NEW r \in Requests, LastWriter(w, n, r), IsWrite(r),
         HasEntry(s.dir, r.block)
  PROVE  Obeys(w, TakeFromOwner(s, n, m, r))
<1> DEFINE b == r.block
           k == Kind(r)
           s1 == WriteBackByOwner(s, m, r)
           taken == [L1sDrop(s1, {m}, b) EXCEPT
                       !.dir = SetState(SetTrackerToEntry(@, b, n), b,
                                        "EXCLUSIVE_L1")]
           t == L1Access(UpdateEntry(LLCAccess(taken, b, TRUE, FALSE), b),
                         n, k, b, TRUE)
<1>1. b \in Blocks /\ k \in L1Kinds /\ Fits(k, b, TRUE)
  BY RequestFacts, RequestKind DEF Fits
<1>2. TakeFromOwner(s, n, m, r) = t
  BY DEF TakeFromOwner
<1>3. n = w[b] /\ HasEntry(s.dir, b)
  BY DEF LastWriter
<1>4. Obeys(w, s1) /\ s1.dir = s.dir
  BY WriteBackByOwnerObeys
<1> HIDE DEF b, k, s1
<1>5. Obeys(w, t)
  BY <1>1, <1>3, <1>4, TakenObeys
<1> QED
  BY <1>2, <1>5

LEMMA TakeFromSharersObeys ==
  ASSUME NEW w, NEW s, Obeys(w, s), NEW n \in Cores,
         NEW r \in Requests, LastWriter(w, n, r), IsWrite(r),
         HasEntry(s.dir, r.block)
  PROVE  Obeys(w, TakeFromSharers(s, n, r))
<1> DEFINE b == r.block
           k == Kind(r)
           nodes == TrackersOf(s.dir, b)
           taken == [L1sDrop(s, nodes, b) EXCEPT
                       !.dir = SetState(SetTrackerToEntry(@, b, n), b,
                                        "EXCLUSIVE_L1")]
           t == L1Access(UpdateEntry(LLCAccess(taken, b, TRUE, FALSE), b),
                         n, k, b, TRUE)
<1>1. b \in Blocks /\ k \in L1Kinds /\ Fits(k, b, TRUE)
  BY RequestFacts, RequestKind DEF Fits
<1>2. TakeFromSharers(s, n, r) = t
  BY DEF TakeFromSharers
<1>3. n = w[b] /\ HasEntry(s.dir, b)
  BY DEF LastWriter
<1> HIDE DEF b, k, nodes
<1>4. Obeys(w, t)
  BY <1>1, <1>3, TakenObeys
<1> QED
  BY <1>2, <1>4

LEMMA JoinSharersObeys ==
  ASSUME NEW w, NEW s, Obeys(w, s), NEW n \in Cores,
         NEW r \in Requests, LastWriter(w, n, r), HasEntry(s.dir, r.block)
  PROVE  Obeys(w, JoinSharers(s, n, r))
<1> DEFINE b == r.block
           k == Kind(r)
           d1 == AddTrackerToEntry(s.dir, b, n)
           s1 == [s EXCEPT !.dir = d1]
           t == L1Access(s1, n, k, b, FALSE)
<1>1. b \in Blocks /\ k \in L1Kinds /\ Fits(k, b, FALSE)
  BY RequestFacts, RequestKind
<1>2. JoinSharers(s, n, r) = t
  BY DEF JoinSharers
<1>3. n <= w[b] /\ s.dir \in Directories /\ HasEntry(s.dir, b)
  BY DEF LastWriter, Obeys, GoodState, StateRecords
<1> HIDE DEF b, k
<1>4. /\ d1 \in Directories
      /\ TrackersOf(d1, b) = TrackersOf(s.dir, b) \cup {n}
      /\ \A y \in Blocks : y # b => d1[y] = s.dir[y]
  BY <1>1, <1>3, SetTrackersEntry
<1> HIDE DEF d1
<1>5. \A i \in TrackersOf(d1, b) : i <= w[b]
  BY <1>1, <1>3, <1>4 DEF Obeys
<1>6. Obeys(w, s1)
  BY <1>1, <1>4, <1>5, SetDirObeys
<1> HIDE DEF s1
<1>7. Obeys(w, t)
  BY <1>1, <1>6, L1AccessObeys
<1> QED
  BY <1>2, <1>7

LEMMA PrefetchAddressObeys ==
  ASSUME NEW w, NEW s, Obeys(w, s), NEW b \in Blocks \cup {NoBlock}
  PROVE  Obeys(w, PrefetchAddress(s, b))
<1> DEFINE d0 == AddEntry(s.dir, b)
           s0 == [s EXCEPT !.dir = d0]
           isNew == b # NoBlock /\ StateOf(s0.dir, b) = "NOT_PRESENT"
           s1 == LLCAccess(s0, b, FALSE, TRUE)
           s2 == UpdateEntry(s1, b)
           d3 == SetState(s2.dir, b, "CLEAN_LLC")
           s3 == [s2 EXCEPT !.dir = d3]
<1>1. PrefetchAddress(s, b) =
        IF isNew THEN Count(s3, "issuedPrefetch") ELSE s
  BY DEF PrefetchAddress
<1>2. CASE ~isNew
  BY <1>1, <1>2
<1>3. CASE isNew
  <2>1. b \in Blocks
    BY <1>3
  <2>2. s.dir \in Directories
    BY DEF Obeys, GoodState, StateRecords
  <2>3. /\ d0 \in Directories
        /\ TrackersOf(d0, b) \subseteq TrackersOf(s.dir, b)
        /\ \A x \in Blocks : x # b => d0[x] = s.dir[x]
    BY <2>1, <2>2
    DEF AddEntry, Directories, Entries, States, HasEntry, NoEntry, TrackersOf
  <2> HIDE DEF isNew, d0
  <2>4. \A n \in TrackersOf(d0, b) : n <= w[b]
    BY <2>1, <2>3 DEF Obeys
  <2>5. Obeys(w, s0)
    BY <2>1, <2>3, <2>4, SetDirObeys
  <2> HIDE DEF s0
  <2>6. Obeys(w, s1)
    <3>1. \A p, p2 \in BOOLEAN : Obeys(w, LLCAccess(s0, b, p, p2))
      BY <2>1, <2>5, LLCAccessObeys
    <3> QED
      BY <3>1
  <2> HIDE DEF s1
  <2>7. Obeys(w, s2)
    BY <2>1, <2>6, UpdateEntryObeys
  <2> HIDE DEF s2
  <2>8. s2.dir \in Directories
    BY <2>7 DEF Obeys, GoodState, StateRecords
  <2>9. /\ d3 \in Directories /\ TrackersOf(d3, b) = TrackersOf(s2.dir, b)
        /\ \A x \in Blocks : x # b => d3[x] = s2.dir[x]
    <3>1. "CLEAN_LLC" \in States
      BY DEF States
    <3> QED
      BY <2>1, <2>8, <3>1, SetStateEntry
  <2> HIDE DEF d3
  <2>10. \A n \in TrackersOf(d3, b) : n <= w[b]
    BY <2>1, <2>7, <2>9 DEF Obeys
  <2>11. Obeys(w, s3)
    BY <2>1, <2>7, <2>9, <2>10, SetDirObeys
  <2> HIDE DEF s3
  <2>12. Obeys(w, Count(s3, "issuedPrefetch"))
    <3>1. "issuedPrefetch" \in Stats
      BY DEF Stats
    <3> QED
      BY <2>11, <3>1, CountObeys
  <2> QED
    BY <1>1, <1>3, <2>12
<1> QED
  BY <1>2, <1>3

-----------------------------------------------------------------------------
\* The invariant of such a program: none of its evictions misses a tracker.
OInv(w) == KInv /\ Obeys(w, State)

LEMMA ObeysAsksAll ==
  ASSUME NEW w \in [Blocks -> Cores], OInv(w) PROVE EvictionsAskAll
<1> SUFFICES ASSUME NEW b \in Blocks, NEW m \in TrackersOf(dir, b),
                    NEW n \in TrackersOf(dir, b), m < n, Answers(State, m, b)
             PROVE  FALSE
  BY DEF EvictionsAskAll
<1>1. dir \in Directories
  BY DEF OInv, KInv, IInv, GoodState, StateRecords, State
<1>2. m \in Cores /\ n \in Cores
  BY <1>1, DirectoryEntry
<1>3. n <= w[b] /\ m = w[b]
  BY <1>2 DEF OInv, Obeys, State
<1> QED
  BY <1>2, <1>3 DEF Cores

LEMMA BecomesObeys ==
  ASSUME NEW w, OInv(w), NEW s, Obeys(w, s), Becomes(s)
  PROVE  Obeys(w, State)'
<1>1. CASE s.aborted
  <2>1. l1' = l1 /\ dir' = dir /\ llc' = llc /\ mem' = mem /\ aborted' = TRUE
    BY <1>1 DEF Becomes
  <2>2. GoodState(State) /\ Obeys(w, State)
    BY DEF OInv, Obeys
  <2>3. /\ State' \in StateRecords
        /\ State'.l1 = State.l1 /\ State'.llc = State.llc
        /\ State'.dir = State.dir
    BY <2>1, <2>2 DEF GoodState, StateRecords, State
  <2>4. GoodState(State')
    BY <2>2, <2>3 DEF GoodState
  <2>5. Obeys(w, State')
    BY <2>2, <2>3, <2>4, SameL1sObey
  <2> QED
    BY <2>5
<1>2. CASE ~s.aborted
  <2>1. s = [l1 |-> s.l1, llc |-> s.llc, dir |-> s.dir, mem |-> s.mem,
             aborted |-> s.aborted]
        /\ s.aborted = FALSE
    BY <1>2 DEF Obeys, GoodState, StateRecords
  <2>2. State' = s
    BY <2>1 DEF Becomes, State
  <2> QED
    BY <2>2
<1> QED
  BY <1>1, <1>2

LEMMA BecomesWithPrefetchObeys ==
  ASSUME NEW w, OInv(w), NEW s, Obeys(w, s), NEW b, BecomesWithPrefetch(s, b)
  PROVE  Obeys(w, State)'
<1>1. PICK p \in PrefetchesAfter(b) :
        Becomes(PrefetchAddress(PrefetchAddress(s, p[1]), p[2]))
  BY DEF BecomesWithPrefetch
<1>2. p[1] \in Blocks \cup {NoBlock} /\ p[2] \in Blocks \cup {NoBlock}
  BY DEF PrefetchesAfter
<1> DEFINE t == PrefetchAddress(s, p[1])
<1>3. Obeys(w, t)
  BY <1>2, PrefetchAddressObeys
<1> HIDE DEF t
<1>4. Obeys(w, PrefetchAddress(t, p[2]))
  BY <1>2, <1>3, PrefetchAddressObeys
<1> QED
  BY <1>1, <1>4, BecomesObeys DEF t

LEMMA AccessObeys ==
  ASSUME NEW w, OInv(w), NEW n \in Cores, NEW r \in Requests,
         LastWriter(w, n, r), Access(n, r)
  PROVE  Obeys(w, State)'
<1> DEFINE b == r.block
<1>1. b \in Blocks
  BY RequestFacts
<1>2. IInv /\ Obeys(w, State) /\ State.dir = dir /\ dir \in Directories
  BY DEF OInv, KInv, IInv, State, GoodState, StateRecords
<1>3. ASSUME NEW states \in SUBSET (States \ {"NOT_PRESENT"}), Finds(r, states)
      PROVE  HasEntry(dir, b) /\ StateOf(dir, b) \in states
  BY <1>1, <1>2, <1>3 DEF Finds, AddEntry, HasEntry, StateOf, Directories
<1>4. CASE AccessNotPresent(n, r)
  <2>1. Obeys(w, FetchFromMemory(State, n, r))
    BY <1>2, FetchFromMemoryObeys
  <2> QED
    BY <1>4, <2>1, BecomesWithPrefetchObeys DEF AccessNotPresent
<1>5. CASE AccessInLLC(n, r)
  <2>1. Obeys(w, FetchFromLLC(State, n, r))
    BY <1>2, FetchFromLLCObeys
  <2> QED
    BY <1>5, <2>1, BecomesWithPrefetchObeys DEF AccessInLLC
<1>6. ASSUME Finds(r, {"MODIFIED_L1", "EXCLUSIVE_L1"})
      PROVE  HasEntry(dir, b) /\ Owner(b) \in Cores /\ StateOfOneOwner(b) = State
  <2>1. /\ HasEntry(dir, b)
        /\ StateOf(dir, b) \in {"MODIFIED_L1", "EXCLUSIVE_L1"}
    BY <1>3, <1>6 DEF States
  <2> HIDE DEF b
  <2> QED
    BY <1>1, <1>2, <2>1, OneOwner
<1>7. ASSUME Finds(r, {"SHARED_L1"})
      PROVE  HasEntry(dir, b)
  BY <1>3, <1>7 DEF States
<1>8. CASE AccessOwned(n, r)
  <2>1. Becomes(AccessAsOwner(State, n, r))
    BY <1>6, <1>8 DEF AccessOwned
  <2>2. Obeys(w, AccessAsOwner(State, n, r))
    BY <1>2, AccessAsOwnerObeys
  <2> QED
    BY <2>1, <2>2, BecomesObeys
<1>9. CASE ReadOwnedElsewhere(n, r)
  <2> DEFINE m == Owner(b)
             t == ShareWithOwner(State, n, m, r)
  <2>1. HasEntry(dir, b) /\ m \in Cores /\ Becomes(t)
    BY <1>6, <1>9 DEF ReadOwnedElsewhere
  <2> HIDE DEF m
  <2>2. Obeys(w, t)
    BY <1>2, <2>1, ShareWithOwnerObeys
  <2> QED
    BY <2>1, <2>2, BecomesObeys
<1>10. CASE WriteOwnedElsewhere(n, r)
  <2> DEFINE m == Owner(b)
             t == TakeFromOwner(State, n, m, r)
  <2>1. HasEntry(dir, b) /\ m \in Cores /\ Becomes(t) /\ IsWrite(r)
    BY <1>6, <1>10 DEF WriteOwnedElsewhere
  <2> HIDE DEF m
  <2>2. Obeys(w, t)
    BY <1>2, <2>1, TakeFromOwnerObeys
  <2> QED
    BY <2>1, <2>2, BecomesObeys
<1>11. CASE ReadShared(n, r)
  <2>1. HasEntry(dir, b) /\ Becomes(JoinSharers(State, n, r))
    BY <1>7, <1>11 DEF ReadShared
  <2>2. Obeys(w, JoinSharers(State, n, r))
    BY <1>2, <2>1, JoinSharersObeys
  <2> QED
    BY <2>1, <2>2, BecomesObeys
<1>12. CASE WriteShared(n, r)
  <2>1. HasEntry(dir, b) /\ Becomes(TakeFromSharers(State, n, r)) /\ IsWrite(r)
    BY <1>7, <1>12 DEF WriteShared
  <2>2. Obeys(w, TakeFromSharers(State, n, r))
    BY <1>2, <2>1, TakeFromSharersObeys
  <2> QED
    BY <2>1, <2>2, BecomesObeys
<1> QED
  BY <1>4, <1>5, <1>8, <1>9, <1>10, <1>11, <1>12 DEF Access

LEMMA OInitOK == ASSUME NEW w, Init PROVE OInv(w)
<1>1. KInv
  BY KInitOK
<1>2. GoodState(State) /\ KindsApart(State)
  BY <1>1 DEF KInv, IInv
<1>3. /\ \A x \in Blocks : TrackersOf(State.dir, x) = {}
      /\ \A n \in Cores, k \in L1Kinds : State.l1[n][k] = EmptyCache(L1)
  BY DEF Init, State, TrackersOf, NoEntry
<1>4. \A x \in Blocks : ~Present(EmptyCache(L1), x)
  BY Geometry, EmptyCacheGood
<1>5. Obeys(w, State)
  BY <1>2, <1>3, <1>4 DEF Obeys, Answers, InvalidationAnswer
<1> QED
  BY <1>1, <1>5 DEF OInv

LEMMA ONextOK == ASSUME NEW w, OInv(w), [NextOf(w)]_vars PROVE OInv(w)'
<1>1. [Next]_vars
  BY DEF NextOf, Next
<1>2. KInv'
  BY <1>1, KNextOK DEF OInv
<1>3. CASE UNCHANGED vars
  <2>1. State' = State
    BY <1>3 DEF vars, State
  <2>2. Obeys(w, State)'
    BY <2>1 DEF OInv
  <2> QED
    BY <1>2, <2>2 DEF OInv
<1>4. CASE NextOf(w)
  <2>1. Obeys(w, State)'
    BY <1>4, AccessObeys DEF NextOf
  <2> QED
    BY <1>2, <2>1 DEF OInv
<1> QED
  BY <1>3, <1>4

\* For every number of cores, caches and policy: if the code is apart from the
\* data and each block is written by one core only, the last of those that
\* access it, no access makes the LLC lose a block of an L1, no assertion of
\* Hierarchy.cc or Directory.cc fails and no prefetch is counted twice.  Data
\* private to a core and data nobody writes are of this kind.
THEOREM OneWriterKeepsInclusion ==
  ASSUME NEW w \in [Blocks -> Cores], InstBlocks \cap DataBlocks = {}
  PROVE  SpecOf(w) => [](Inclusion /\ NoAssertFails /\ PrefetchedIsUnused)
<1>1. Init => OInv(w)
  BY OInitOK
<1>2. OInv(w) /\ [NextOf(w)]_vars => OInv(w)'
  BY ONextOK
<1>3. OInv(w) => EvictionsAskAll
  BY ObeysAsksAll
<1>4. Spec /\ []EvictionsAskAll => [](Inclusion /\ NoAssertFails)
  BY CodeApartFromData
<1>5. [NextOf(w)]_vars => [Next]_vars
  BY DEF NextOf, Next
<1> QED
  BY <1>1, <1>2, <1>3, <1>4, <1>5, PrefetchedAreUnusedWhereIncluded, PTL
  DEF Spec, SpecOf
=============================================================================
