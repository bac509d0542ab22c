------------------------- MODULE HybridCacheProofs -------------------------
(***************************************************************************)
(* What the operations of a cache keep, for every geometry: the type, the  *)
(* agreement of index and arrays, and that a valid entry has an address.   *)
(***************************************************************************)
EXTENDS HybridCache, WellFoundedInduction, TLAPS

\* The part of a cache the proofs about the hierarchy rest on.
ValidHasAddress(g, c) ==
  \A s \in Sets(g), w \in Ways(g) :
    c.line[s][w].valid => c.line[s][w].addr # NoBlock

GoodCache(g, c) ==
  c \in Caches(g) /\ TagsAgree(g, c) /\ ValidHasAddress(g, c)

-----------------------------------------------------------------------------
\* The set of a block is a set of the cache, the ways are numbers and NoWay is
\* none: what SetOf and the index give can be used to look into the arrays.
LEMMA GeometryFacts ==
  ASSUME NEW g \in Geometries
  PROVE  /\ \A b \in Blocks : SetOf(g, b) \in Sets(g)
         /\ Ways(g) \subseteq Nat
         /\ NoWay \notin Ways(g)
         /\ NoBlock \notin Blocks
         /\ \A inNVM \in BOOLEAN : Array(g, inNVM) \subseteq Ways(g)
<1>1. \A b \in Blocks : SetOf(g, b) \in Sets(g)
  BY BlocksAssumption DEF SetOf, Sets, Geometries
<1>2. Ways(g) \subseteq Nat /\ NoWay \notin Ways(g)
  BY DEF Ways, NoWay, Geometries
<1>3. NoBlock \notin Blocks
  BY BlocksAssumption DEF NoBlock
<1>4. \A inNVM \in BOOLEAN : Array(g, inNVM) \subseteq Ways(g)
  BY DEF Array
<1> QED
  BY <1>1, <1>2, <1>3, <1>4

\* A non-empty set of numbers has a least element: the scan of evictPolicy for
\* the first invalid way ends at one.
LEMMA LeastExists ==
  ASSUME NEW S \in SUBSET Nat, S # {}
  PROVE  \E x \in S : \A y \in S : x <= y
<1> DEFINE R == OpToRel(<, Nat)
<1>1. IsWellFoundedOn(R, Nat)
  BY NatLessThanWellFounded
<1>2. \A x, y \in Nat : <<y, x>> \in R <=> y < x
  BY DEF OpToRel
<1> HIDE DEF R
<1>3. PICK x \in S : \A y \in S : ~(<<y, x>> \in R)
  BY <1>1, WFMin
<1>4. \A y \in S : ~(y < x)
  BY <1>2, <1>3
<1>5. \A y \in S : x <= y
  BY <1>4
<1> QED
  BY <1>5

\* A function into the numbers has a maximum on a non-empty finite range of them.
LEMMA GreatestExists ==
  ASSUME NEW S \in SUBSET Nat, S # {}, NEW n \in Nat, \A x \in S : x <= n
  PROVE  \E x \in S : \A y \in S : y <= x
<1> DEFINE T == {n - x : x \in S}
<1>1. T \in SUBSET Nat /\ T # {}
  <2>1. \A x \in S : n - x \in Nat
    OBVIOUS
  <2>2. PICK x \in S : TRUE
    OBVIOUS
  <2>3. n - x \in T
    BY <2>2
  <2> QED
    BY <2>1, <2>3
<1>2. PICK t \in T : \A u \in T : t <= u
  <2> HIDE DEF T
  <2> QED BY <1>1, LeastExists
<1>3. PICK x \in S : t = n - x
  OBVIOUS
<1>4. \A y \in S : n - x <= n - y
  BY <1>2, <1>3
<1>5. ASSUME NEW y \in S
      PROVE  y <= x
  <2> HIDE DEF T
  <2>1. y \in Int /\ x \in Int
    OBVIOUS
  <2>2. n - x <= n - y
    BY <1>4
  <2> QED
    BY <2>1, <2>2
<1> QED
  BY <1>5

\* evictPolicy answers a way of the array it is asked about, and the array the
\* policy allocates in has one.
LEMMA VictimInArray ==
  ASSUME NEW g \in Geometries, NEW c \in Caches(g), NEW s \in Sets(g),
         NEW inNVM \in BOOLEAN, Array(g, inNVM) # {}
  PROVE  Victim(g, c, s, inNVM) \in Array(g, inNVM)
<1> DEFINE array == Array(g, inNVM)
           free == {w \in array : ~c.line[s][w].valid}
           ages == {c.age[s][w] : w \in array}
<1>1. array \in SUBSET Nat
  BY GeometryFacts
<1>2. CASE free # {}
  <2>1. \E w \in free : \A x \in free : w <= x
    <3>1. free \in SUBSET Nat
      BY <1>1
    <3> HIDE DEF free
    <3> QED
      BY <1>2, <3>1, LeastExists
  <2> QED
    BY <1>2, <2>1 DEF Victim
<1>3. CASE free = {}
  <2>1. \A w \in array : c.age[s][w] \in Ways(g)
    BY GeometryFacts DEF Caches
  <2>2. ages \in SUBSET Nat /\ ages # {}
    BY <2>1, GeometryFacts
  <2>3. g.sram + g.nvm \in Nat /\ \A a \in ages : a <= g.sram + g.nvm
    BY <2>1 DEF Ways, Geometries
  <2>4. PICK a \in ages : \A x \in ages : x <= a
    <3> HIDE DEF ages
    <3> QED
      BY <2>2, <2>3, GreatestExists
  <2>5. \E w \in array : \A x \in array : c.age[s][x] <= c.age[s][w]
    BY <2>4
  <2> QED
    BY <1>3, <2>5 DEF Victim
<1> QED
  BY <1>2, <1>3

LEMMA AllocatedArrayHasWays ==
  ASSUME NEW g \in Geometries, g.sram + g.nvm > 0, NEW isWrite \in BOOLEAN
  PROVE  /\ AllocateInNVM(g, isWrite) \in BOOLEAN
         /\ Array(g, AllocateInNVM(g, isWrite)) # {}
<1>1. AllocateInNVM(g, isWrite) \in BOOLEAN
  BY DEF AllocateInNVM
<1>2. CASE AllocateInNVM(g, isWrite) = TRUE
  <2>1. g.nvm # 0
    BY <1>2 DEF AllocateInNVM
  <2>2. g.sram \in Ways(g) /\ g.sram >= g.sram
    BY <2>1 DEF Ways, Geometries
  <2>3. g.sram \in Array(g, TRUE)
    BY <2>2 DEF Array
  <2> QED
    BY <1>1, <1>2, <2>3
<1>3. CASE AllocateInNVM(g, isWrite) = FALSE
  <2>1. g.sram # 0
    BY <1>3 DEF AllocateInNVM, Geometries
  <2>2. 0 \in Ways(g) /\ ~(0 >= g.sram)
    BY <2>1 DEF Ways, Geometries
  <2>3. 0 \in Array(g, FALSE)
    BY <2>2 DEF Array
  <2> QED
    BY <1>1, <1>3, <2>3
<1> QED
  BY <1>1, <1>2, <1>3

-----------------------------------------------------------------------------
\* An empty cache is good.
LEMMA EmptyCacheGood ==
  ASSUME NEW g \in Geometries
  PROVE  /\ GoodCache(g, EmptyCache(g))
         /\ NoGhost(g, EmptyCache(g))
         /\ \A b \in Blocks : ~Present(EmptyCache(g), b)
<1> DEFINE c == EmptyCache(g)
<1>1. EmptyLine \in Lines
  BY DEF EmptyLine, Lines
<1>2. \A w \in Ways(g) : (IF w < g.sram THEN w ELSE w - g.sram) \in Ways(g)
  BY DEF Ways, Geometries
<1>3. c \in Caches(g)
  BY <1>1, <1>2 DEF EmptyCache, Caches
<1>4. \A s \in Sets(g), w \in Ways(g) :
        c.line[s][w].addr = NoBlock /\ ~c.line[s][w].valid
  BY DEF EmptyCache, EmptyLine
<1>5. \A b \in Blocks : c.tag[b] = NoWay
  BY DEF EmptyCache
<1>6. TagsAgree(g, c)
  BY <1>4, <1>5, GeometryFacts DEF TagsAgree
<1> QED
  BY <1>3, <1>4, <1>5, <1>6 DEF GoodCache, ValidHasAddress, NoGhost, Present

\* A stamp changes neither the index nor the entries.
LEMMA TouchGood ==
  ASSUME NEW g \in Geometries, NEW c, GoodCache(g, c),
         NEW s \in Sets(g), NEW w \in Ways(g)
  PROVE  /\ GoodCache(g, Touch(g, c, s, w))
         /\ Touch(g, c, s, w).tag = c.tag
         /\ Touch(g, c, s, w).line = c.line
<1> DEFINE d == Touch(g, c, s, w)
<1>1. c \in Caches(g)
  BY DEF GoodCache
<1>2. d.tag = c.tag /\ d.line = c.line
  BY <1>1 DEF Touch, Caches
<1>3. \A x \in Ways(g) : c.age[s][x] \in Ways(g)
  BY <1>1 DEF Caches
<1>4. \A x \in Ways(g) :
        c.age[s][x] < c.age[s][w] => c.age[s][x] + 1 \in Ways(g)
  BY <1>3 DEF Ways, Geometries
<1>5. 0 \in Ways(g)
  BY DEF Ways, Geometries
<1>6. d \in Caches(g)
  BY <1>1, <1>3, <1>4, <1>5 DEF Touch, Caches
<1> QED
  BY <1>1, <1>2, <1>6 DEF GoodCache, TagsAgree, ValidHasAddress

\* An entry rewritten with its address, and not made valid, leaves the cache
\* good: the shape of every operation that changes flags alone.
LEMMA RewriteGood ==
  ASSUME NEW g \in Geometries, NEW c, GoodCache(g, c),
         NEW s \in Sets(g), NEW w \in Ways(g), NEW l \in Lines,
         l.addr = c.line[s][w].addr, l.valid => c.line[s][w].valid
  PROVE  LET d == [c EXCEPT !.line[s][w] = l]
         IN /\ GoodCache(g, d)
            /\ d.tag = c.tag
            /\ l.valid = c.line[s][w].valid /\ NoGhost(g, c) => NoGhost(g, d)
<1> DEFINE d == [c EXCEPT !.line[s][w] = l]
<1>1. c \in Caches(g)
  BY DEF GoodCache
<1>2. d \in Caches(g) /\ d.tag = c.tag
  BY <1>1 DEF Caches
<1>3. \A t \in Sets(g), x \in Ways(g) :
        d.line[t][x] = IF t = s /\ x = w THEN l ELSE c.line[t][x]
  BY <1>1 DEF Caches
<1> HIDE DEF d
<1>4. \A t \in Sets(g), x \in Ways(g) :
        /\ d.line[t][x].addr = c.line[t][x].addr
        /\ d.line[t][x].valid => c.line[t][x].valid
  BY <1>3
<1>5. TagsAgree(g, d) /\ ValidHasAddress(g, d)
  BY <1>2, <1>4 DEF GoodCache, TagsAgree, ValidHasAddress
<1>6. l.valid = c.line[s][w].valid /\ NoGhost(g, c) => NoGhost(g, d)
  BY <1>3, <1>4 DEF NoGhost
<1> QED
  BY <1>2, <1>5, <1>6 DEF GoodCache, d

\* Where the index has a block, the entry has its address.
LEMMA IndexedEntry ==
  ASSUME NEW g \in Geometries, NEW c, GoodCache(g, c),
         NEW b \in Blocks, Present(c, b)
  PROVE  /\ SetOf(g, b) \in Sets(g)
         /\ c.tag[b] \in Ways(g)
         /\ c.line[SetOf(g, b)][c.tag[b]] \in Lines
         /\ c.line[SetOf(g, b)][c.tag[b]].addr = b
<1>1. SetOf(g, b) \in Sets(g)
  BY GeometryFacts
<1>2. c.tag[b] \in Ways(g)
  BY DEF GoodCache, Caches, Present
<1> QED
  BY <1>1, <1>2 DEF GoodCache, Caches, TagsAgree

\* The deallocation of an LLC victim in the L1s changes the dirty bit alone.
LEMMA SetDirtyGood ==
  ASSUME NEW g \in Geometries, NEW c, GoodCache(g, c),
         NEW b \in Blocks, NEW isDirty \in BOOLEAN
  PROVE  /\ GoodCache(g, SetDirty(g, c, b, isDirty))
         /\ SetDirty(g, c, b, isDirty).tag = c.tag
         /\ NoGhost(g, c) => NoGhost(g, SetDirty(g, c, b, isDirty))
<1>1. CASE ~Present(c, b)
  BY <1>1 DEF SetDirty
<1>2. CASE Present(c, b)
  <2> DEFINE s == SetOf(g, b)
             w == c.tag[b]
             l == [c.line[s][w] EXCEPT !.dirty = isDirty]
  <2>1. /\ s \in Sets(g) /\ w \in Ways(g)
        /\ c.line[s][w] \in Lines
    BY <1>2, IndexedEntry
  <2>2. /\ l \in Lines /\ l.addr = c.line[s][w].addr
        /\ l.valid = c.line[s][w].valid
    BY <2>1 DEF Lines
  <2>3. SetDirty(g, c, b, isDirty) = [c EXCEPT !.line[s][w] = l]
    BY <1>2 DEF SetDirty
  <2> HIDE DEF l, s, w
  <2> QED
    BY <2>1, <2>2, <2>3, RewriteGood
<1> QED
  BY <1>1, <1>2

\* The first access to a prefetched block changes its flag alone.
LEMMA ResetPrefetchFlagGood ==
  ASSUME NEW g \in Geometries, NEW c, GoodCache(g, c), NEW b \in Blocks
  PROVE  /\ GoodCache(g, ResetPrefetchFlag(g, c, b))
         /\ ResetPrefetchFlag(g, c, b).tag = c.tag
         /\ NoGhost(g, c) => NoGhost(g, ResetPrefetchFlag(g, c, b))
<1>1. CASE ~Present(c, b)
  BY <1>1 DEF ResetPrefetchFlag
<1>2. CASE Present(c, b)
  <2> DEFINE s == SetOf(g, b)
             w == c.tag[b]
             l == [c.line[s][w] EXCEPT !.prefetch = FALSE]
  <2>1. /\ s \in Sets(g) /\ w \in Ways(g)
        /\ c.line[s][w] \in Lines
    BY <1>2, IndexedEntry
  <2>2. /\ l \in Lines /\ l.addr = c.line[s][w].addr
        /\ l.valid = c.line[s][w].valid
    BY <2>1 DEF Lines
  <2>3. ResetPrefetchFlag(g, c, b) = [c EXCEPT !.line[s][w] = l]
    BY <1>2 DEF ResetPrefetchFlag
  <2> HIDE DEF l, s, w
  <2> QED
    BY <2>1, <2>2, <2>3, RewriteGood
<1> QED
  BY <1>1, <1>2

\* An invalidation in place leaves the cache good: this is why the invariant
\* says of an L1 that what is valid has an address, not the converse.
LEMMA ReceiveInvalidationGood ==
  ASSUME NEW g \in Geometries, NEW c, GoodCache(g, c), NEW b \in Blocks
  PROVE  GoodCache(g, ReceiveInvalidation(g, c, b))
<1>1. CASE ~Present(c, b)
  BY <1>1 DEF ReceiveInvalidation
<1>2. CASE Present(c, b)
  <2> DEFINE s == SetOf(g, b)
             w == c.tag[b]
             l == [c.line[s][w] EXCEPT !.valid = FALSE]
  <2>1. /\ s \in Sets(g) /\ w \in Ways(g)
        /\ c.line[s][w] \in Lines
    BY <1>2, IndexedEntry
  <2>2. l \in Lines /\ l.addr = c.line[s][w].addr /\ ~l.valid
    BY <2>1 DEF Lines
  <2>3. ReceiveInvalidation(g, c, b) = [c EXCEPT !.line[s][w] = l]
    BY <1>2 DEF ReceiveInvalidation
  <2> HIDE DEF l, s, w
  <2> QED
    BY <2>1, <2>2, <2>3, RewriteGood
<1> QED
  BY <1>1, <1>2

\* A hit changes the dirty bit and the stamps.
LEMMA HitGood ==
  ASSUME NEW g \in Geometries, NEW c, GoodCache(g, c),
         NEW b \in Blocks, Present(c, b), NEW isWrite \in BOOLEAN
  PROVE  /\ GoodCache(g, Hit(g, c, b, isWrite))
         /\ Hit(g, c, b, isWrite).tag = c.tag
         /\ NoGhost(g, c) => NoGhost(g, Hit(g, c, b, isWrite))
<1> DEFINE s == SetOf(g, b)
           w == c.tag[b]
           t == Touch(g, c, s, w)
           l == [t.line[s][w] EXCEPT !.dirty = @ \/ isWrite]
<1>1. s \in Sets(g) /\ w \in Ways(g) /\ c.line[s][w] \in Lines
  BY IndexedEntry
<1>2. GoodCache(g, t) /\ t.tag = c.tag /\ t.line = c.line
  BY <1>1, TouchGood
<1>3. NoGhost(g, c) => NoGhost(g, t)
  BY <1>2 DEF NoGhost
<1>4. /\ l \in Lines /\ l.addr = t.line[s][w].addr
      /\ l.valid = t.line[s][w].valid
  BY <1>1, <1>2 DEF Lines
<1>5. Hit(g, c, b, isWrite) = [t EXCEPT !.line[s][w] = l]
  BY DEF Hit
<1> HIDE DEF l, t, s, w
<1>6. /\ GoodCache(g, [t EXCEPT !.line[s][w] = l])
      /\ [t EXCEPT !.line[s][w] = l].tag = t.tag
      /\ NoGhost(g, t) => NoGhost(g, [t EXCEPT !.line[s][w] = l])
  BY <1>1, <1>2, <1>4, RewriteGood
<1> QED
  BY <1>2, <1>3, <1>5, <1>6

\* A write back only stamps.
LEMMA HandleWBGood ==
  ASSUME NEW g \in Geometries, NEW c, GoodCache(g, c),
         NEW b \in Blocks, NEW isDirty \in BOOLEAN
  PROVE  /\ GoodCache(g, HandleWB(g, c, b, isDirty))
         /\ HandleWB(g, c, b, isDirty).tag = c.tag
         /\ HandleWB(g, c, b, isDirty).line = c.line
<1>1. CASE Present(c, b) /\ isDirty
  BY <1>1, IndexedEntry, TouchGood DEF HandleWB
<1>2. CASE ~(Present(c, b) /\ isDirty)
  BY <1>2 DEF HandleWB
<1> QED
  BY <1>1, <1>2

-----------------------------------------------------------------------------
\* A way emptied by its entry leaves the index with the block it had, and no
\* other block.
LEMMA DeallocateWayGood ==
  ASSUME NEW g \in Geometries, NEW c, GoodCache(g, c),
         NEW s \in Sets(g), NEW w \in Ways(g)
  PROVE  LET d == DeallocateWay(c, s, w)
         IN /\ GoodCache(g, d)
            /\ d.line[s][w] = EmptyLine
            /\ \A b \in Blocks :
                 Present(d, b) <=> Present(c, b) /\ b # c.line[s][w].addr
            /\ NoGhost(g, c) => NoGhost(g, d)
<1> DEFINE d == DeallocateWay(c, s, w)
           a == c.line[s][w].addr
<1>1. c \in Caches(g) /\ TagsAgree(g, c) /\ ValidHasAddress(g, c)
  BY DEF GoodCache
<1>2. EmptyLine \in Lines /\ EmptyLine.addr = NoBlock /\ ~EmptyLine.valid
  <2>1. EmptyLine \in Lines
    BY DEF EmptyLine, Lines
  <2>2. EmptyLine.addr = NoBlock /\ ~EmptyLine.valid
    BY DEF EmptyLine
  <2> QED
    BY <2>1, <2>2
<1>3. d \in Caches(g)
  <2>1. [c.line EXCEPT ![s][w] = EmptyLine]
          \in [Sets(g) -> [Ways(g) -> Lines]]
    BY <1>1, <1>2 DEF Caches
  <2>2. [x \in Blocks |-> IF x = a THEN NoWay ELSE c.tag[x]]
          \in [Blocks -> Ways(g) \cup {NoWay}]
    BY <1>1 DEF Caches
  <2>3. c.age \in [Sets(g) -> [Ways(g) -> Ways(g)]]
    BY <1>1 DEF Caches
  <2> QED
    BY Zenon, <1>1, <2>1, <2>2, <2>3 DEF DeallocateWay, Caches
<1>4. \A t \in Sets(g), x \in Ways(g) :
        d.line[t][x] = IF t = s /\ x = w THEN EmptyLine ELSE c.line[t][x]
  BY <1>1 DEF DeallocateWay, Caches
<1>5. \A b \in Blocks : d.tag[b] = IF b = a THEN NoWay ELSE c.tag[b]
  BY <1>1 DEF DeallocateWay, Caches
<1> HIDE DEF d
<1>6. TagsAgree(g, d)
  <2> SUFFICES ASSUME NEW b \in Blocks, NEW t \in Sets(g), NEW x \in Ways(g)
               PROVE  (d.line[t][x].addr = b) <=>
                        (t = SetOf(g, b) /\ d.tag[b] = x)
    BY DEF TagsAgree
  <2>1. (c.line[t][x].addr = b) <=> (t = SetOf(g, b) /\ c.tag[b] = x)
    BY <1>1 DEF TagsAgree
  <2>2. (a = b) <=> (s = SetOf(g, b) /\ c.tag[b] = w)
    BY <1>1 DEF TagsAgree
  <2>3. b # NoBlock /\ x # NoWay
    BY GeometryFacts
  <2> QED
    BY <1>2, <1>4, <1>5, <2>1, <2>2, <2>3
<1>7. ValidHasAddress(g, d)
  BY <1>1, <1>2, <1>4 DEF ValidHasAddress
<1>8. NoGhost(g, c) => NoGhost(g, d)
  BY <1>2, <1>4 DEF NoGhost
<1> QED
  BY <1>3, <1>4, <1>5, <1>6, <1>7, <1>8 DEF GoodCache, Present, d

\* deallocate(addr) does, to a block the index has, what deallocate(entry) does
\* to the entry: the two ways of emptying a way agree.
LEMMA DeallocateBlockGood ==
  ASSUME NEW g \in Geometries, NEW c, GoodCache(g, c), NEW b \in Blocks
  PROVE  /\ GoodCache(g, DeallocateBlock(g, c, b))
         /\ \A x \in Blocks : Present(DeallocateBlock(g, c, b), x)
                                <=> Present(c, x) /\ x # b
<1>1. CASE ~Present(c, b)
  BY <1>1 DEF DeallocateBlock
<1>2. CASE Present(c, b)
  <2> DEFINE s == SetOf(g, b)
             w == c.tag[b]
  <2>1. s \in Sets(g) /\ w \in Ways(g) /\ c.line[s][w].addr = b
    BY <1>2, IndexedEntry
  <2>2. c \in Caches(g)
    BY DEF GoodCache
  <2>3. DeallocateBlock(g, c, b) = DeallocateWay(c, s, w)
    <3>1. [c.tag EXCEPT ![b] = NoWay] =
            [x \in Blocks |-> IF x = b THEN NoWay ELSE c.tag[x]]
      BY <2>2 DEF Caches
    <3>2. DeallocateWay(c, s, w) =
            [c EXCEPT !.line[s][w] = EmptyLine,
                      !.tag = [x \in Blocks |->
                                 IF x = b THEN NoWay ELSE c.tag[x]]]
      BY <2>1 DEF DeallocateWay
    <3>3. DeallocateBlock(g, c, b) =
            [c EXCEPT !.line[s][w] = EmptyLine,
                      !.tag = [c.tag EXCEPT ![b] = NoWay]]
      BY <1>2, <2>2 DEF DeallocateBlock, Caches
    <3> QED
      BY <3>1, <3>2, <3>3
  <2> HIDE DEF s, w
  <2> QED
    BY <2>1, <2>3, DeallocateWayGood
<1> QED
  BY <1>1, <1>2

\* A miss gives the victim way to the block: the block is in, the block the way
\* had is out, the others stay where they are.
LEMMA FillGood ==
  ASSUME NEW g \in Geometries, NEW c, GoodCache(g, c),
         NEW b \in Blocks, ~Present(c, b), NEW w \in Ways(g),
         NEW isWrite \in BOOLEAN, NEW isPrefetch \in BOOLEAN
  PROVE  LET d == Fill(g, c, b, w, isWrite, isPrefetch)
         IN /\ GoodCache(g, d)
            /\ \A x \in Blocks :
                 Present(d, x) <=>
                   x = b \/ (Present(c, x) /\ x # c.line[SetOf(g, b)][w].addr)
            /\ NoGhost(g, c) => NoGhost(g, d)
<1> DEFINE s == SetOf(g, b)
           l == [addr |-> b, valid |-> TRUE, dirty |-> isWrite,
                 prefetch |-> isPrefetch]
           e == DeallocateWay(c, s, w)
           f == [e EXCEPT !.tag[b] = w, !.line[s][w] = l]
<1>1. s \in Sets(g) /\ b # NoBlock /\ w # NoWay
  BY GeometryFacts
<1>2. l \in Lines /\ l.addr = b /\ l.valid
  BY DEF Lines
<1>3. /\ GoodCache(g, e)
      /\ e.line[s][w] = EmptyLine
      /\ \A x \in Blocks : Present(e, x) <=> Present(c, x)
                                             /\ x # c.line[s][w].addr
      /\ NoGhost(g, c) => NoGhost(g, e)
  BY <1>1, DeallocateWayGood
<1>4. Fill(g, c, b, w, isWrite, isPrefetch) = Touch(g, f, s, w)
  BY DEF Fill
<1> HIDE DEF s, l, e
<1>5. e \in Caches(g) /\ TagsAgree(g, e) /\ ValidHasAddress(g, e)
  BY <1>3 DEF GoodCache
<1>6. f \in Caches(g)
  BY <1>1, <1>2, <1>5 DEF Caches
<1>7. \A t \in Sets(g), x \in Ways(g) :
        f.line[t][x] = IF t = s /\ x = w THEN l ELSE e.line[t][x]
  BY <1>5 DEF Caches
<1>8. \A x \in Blocks : f.tag[x] = IF x = b THEN w ELSE e.tag[x]
  BY <1>5 DEF Caches
<1> HIDE DEF f
<1>9. TagsAgree(g, f)
  <2> SUFFICES ASSUME NEW x \in Blocks, NEW t \in Sets(g), NEW y \in Ways(g)
               PROVE  (f.line[t][y].addr = x) <=>
                        (t = SetOf(g, x) /\ f.tag[x] = y)
    BY DEF TagsAgree
  <2>1. (e.line[t][y].addr = x) <=> (t = SetOf(g, x) /\ e.tag[x] = y)
    BY <1>5 DEF TagsAgree
  <2>2. EmptyLine.addr = NoBlock /\ x # NoBlock
    BY GeometryFacts DEF EmptyLine
  <2>3. e.tag[b] = NoWay
    BY <1>3 DEF Present
  <2>4. y # NoWay
    BY GeometryFacts
  <2>5. CASE x = b
    BY <1>2, <1>7, <1>8, <2>1, <2>3, <2>4, <2>5 DEF s
  <2>6. CASE x # b
    BY <1>2, <1>3, <1>7, <1>8, <2>1, <2>2, <2>6
  <2> QED
    BY <2>5, <2>6
<1>10. ValidHasAddress(g, f)
  BY <1>1, <1>2, <1>5, <1>7 DEF ValidHasAddress
<1>11. NoGhost(g, c) => NoGhost(g, f)
  BY <1>1, <1>2, <1>3, <1>7 DEF NoGhost
<1>12. \A x \in Blocks : Present(f, x) <=> x = b \/ Present(e, x)
  BY <1>1, <1>8 DEF Present
<1>13. GoodCache(g, f)
  BY <1>6, <1>9, <1>10 DEF GoodCache
<1> DEFINE d == Touch(g, f, s, w)
<1>14. GoodCache(g, d) /\ d.tag = f.tag /\ d.line = f.line
  BY <1>1, <1>13, TouchGood
<1> HIDE DEF d
<1>15. NoGhost(g, c) => NoGhost(g, d)
  BY <1>11, <1>14 DEF NoGhost
<1>16. \A x \in Blocks : Present(d, x) <=> x = b \/ Present(e, x)
  BY <1>12, <1>14 DEF Present
<1> QED
  BY <1>3, <1>4, <1>14, <1>15, <1>16 DEF d, s

\* The lines after a fill: that of the victim way is the block's, the others are
\* what they were.
LEMMA FillLines ==
  ASSUME NEW g \in Geometries, NEW c, GoodCache(g, c),
         NEW b \in Blocks, NEW w \in Ways(g),
         NEW isWrite \in BOOLEAN, NEW isPrefetch \in BOOLEAN
  PROVE  LET d == Fill(g, c, b, w, isWrite, isPrefetch)
             l == [addr |-> b, valid |-> TRUE, dirty |-> isWrite,
                   prefetch |-> isPrefetch]
         IN \A t \in Sets(g), y \in Ways(g) :
              d.line[t][y] = IF t = SetOf(g, b) /\ y = w THEN l
                             ELSE c.line[t][y]
<1> DEFINE s == SetOf(g, b)
           l == [addr |-> b, valid |-> TRUE, dirty |-> isWrite,
                 prefetch |-> isPrefetch]
           e == DeallocateWay(c, s, w)
           f == [e EXCEPT !.tag[b] = w, !.line[s][w] = l]
           d == Fill(g, c, b, w, isWrite, isPrefetch)
<1>1. s \in Sets(g)
  BY GeometryFacts
<1>2. c \in Caches(g) /\ e \in Caches(g)
  BY <1>1, DeallocateWayGood DEF GoodCache
<1>3. e.line = [c.line EXCEPT ![s][w] = EmptyLine]
  BY <1>2 DEF DeallocateWay, Caches
<1>4. d = Touch(g, f, s, w)
  BY DEF Fill
<1> HIDE DEF e, l, s
<1>5. f.line = [e.line EXCEPT ![s][w] = l]
  BY <1>2 DEF Caches
<1>6. \A q : [f EXCEPT !.age[s] = q].line = f.line
  BY <1>2 DEF Caches
<1> HIDE DEF f
<1>7. d.line = [e.line EXCEPT ![s][w] = l]
  BY <1>4, <1>5, <1>6 DEF Touch
<1> HIDE DEF d
<1>8. \A t \in Sets(g), y \in Ways(g) :
        d.line[t][y] = IF t = s /\ y = w THEN l ELSE c.line[t][y]
  BY <1>1, <1>2, <1>3, <1>7 DEF Caches
<1> QED
  BY <1>8 DEF d, l, s

\* A valid entry is that of a block the index has in its set: what a miss
\* evicts can be written back.
LEMMA ValidEntryIsIndexed ==
  ASSUME NEW g \in Geometries, NEW c, GoodCache(g, c),
         NEW s \in Sets(g), NEW w \in Ways(g), c.line[s][w].valid
  PROVE  /\ c.line[s][w].addr \in Blocks
         /\ Present(c, c.line[s][w].addr)
         /\ EntryOf(g, c, c.line[s][w].addr) = c.line[s][w]
<1>1. c.line[s][w].addr \in Blocks
  BY DEF GoodCache, ValidHasAddress, Caches, Lines
<1>2. /\ s = SetOf(g, c.line[s][w].addr)
      /\ c.tag[c.line[s][w].addr] = w
  BY <1>1 DEF GoodCache, TagsAgree
<1>3. w # NoWay
  BY GeometryFacts
<1> QED
  BY <1>1, <1>2, <1>3 DEF Present, EntryOf

-----------------------------------------------------------------------------
\* The line at way from is moved to the way to of its set, with its valid bit
\* cleared, and the index follows: what Migrate does once the victim is empty.
Moved(c, s, from, to) ==
  [c EXCEPT !.line[s][to] = [c.line[s][from] EXCEPT !.valid = FALSE],
            !.line[s][from] = EmptyLine,
            !.tag = [b \in Blocks |-> IF b = c.line[s][from].addr THEN to
                                      ELSE c.tag[b]]]

\* A move to an empty way leaves the cache good, with the blocks it had.
LEMMA MoveGood ==
  ASSUME NEW g \in Geometries, NEW c, GoodCache(g, c),
         NEW s \in Sets(g), NEW from \in Ways(g), NEW to \in Ways(g),
         from # to, c.line[s][to] = EmptyLine,
         c.line[s][from].addr \in Blocks
  PROVE  /\ GoodCache(g, Moved(c, s, from, to))
         /\ \A b \in Blocks : Present(Moved(c, s, from, to), b) <=> Present(c, b)
<1> DEFINE l == c.line[s][from]
           a == l.addr
           m == [l EXCEPT !.valid = FALSE]
           d == Moved(c, s, from, to)
<1>1. c \in Caches(g) /\ TagsAgree(g, c) /\ ValidHasAddress(g, c)
  BY DEF GoodCache
<1>2. l \in Lines /\ a \in Blocks
  BY <1>1 DEF Caches
<1>3. m \in Lines /\ m.addr = a /\ ~m.valid
  BY <1>2 DEF Lines
<1>4. EmptyLine \in Lines /\ EmptyLine.addr = NoBlock /\ ~EmptyLine.valid
      /\ NoBlock \notin Blocks
  BY GeometryFacts DEF EmptyLine, Lines
<1>5. SetOf(g, a) = s /\ c.tag[a] = from
  BY <1>1, <1>2 DEF TagsAgree
<1>6. /\ \A t \in Sets(g), w \in Ways(g) :
           d.line[t][w] = IF t = s /\ w = from THEN EmptyLine
                          ELSE IF t = s /\ w = to THEN m ELSE c.line[t][w]
      /\ d.tag = [b \in Blocks |-> IF b = a THEN to ELSE c.tag[b]]
      /\ d.age = c.age
  BY <1>1 DEF Caches, Moved
<1>7. d \in Caches(g)
  <2>1. [c.line EXCEPT ![s][to] = m, ![s][from] = EmptyLine]
          \in [Sets(g) -> [Ways(g) -> Lines]]
    BY <1>1, <1>3, <1>4 DEF Caches
  <2>2. [b \in Blocks |-> IF b = a THEN to ELSE c.tag[b]]
          \in [Blocks -> Ways(g) \cup {NoWay}]
    BY <1>1 DEF Caches
  <2>3. c.age \in [Sets(g) -> [Ways(g) -> Ways(g)]]
    BY <1>1 DEF Caches
  <2> QED
    BY Zenon, <1>1, <2>1, <2>2, <2>3 DEF Caches, Moved
<1> HIDE DEF d, m, l, a
<1>8. TagsAgree(g, d)
  <2> SUFFICES ASSUME NEW b \in Blocks, NEW t \in Sets(g), NEW w \in Ways(g)
               PROVE  (d.line[t][w].addr = b) <=>
                        (t = SetOf(g, b) /\ d.tag[b] = w)
    BY DEF TagsAgree
  <2>1. (c.line[t][w].addr = b) <=> (t = SetOf(g, b) /\ c.tag[b] = w)
    BY <1>1 DEF TagsAgree
  <2>2. c.line[s][from].addr = a /\ c.line[s][to].addr = NoBlock
    BY <1>4 DEF l, a
  <2>3. CASE b = a
    BY <1>3, <1>4, <1>5, <1>6, <2>1, <2>2, <2>3
  <2>4. CASE b # a
    BY <1>3, <1>4, <1>5, <1>6, <2>1, <2>2, <2>4
  <2> QED
    BY <2>3, <2>4
<1>9. ValidHasAddress(g, d)
  BY <1>1, <1>3, <1>4, <1>6 DEF ValidHasAddress
<1>10. \A b \in Blocks : Present(d, b) <=> Present(c, b)
  BY <1>5, <1>6, GeometryFacts DEF Present
<1> QED
  BY <1>7, <1>8, <1>9, <1>10 DEF GoodCache, d, m, l, a
=============================================================================
