-------------------------- MODULE HierarchyProofs --------------------------
(***************************************************************************)
(* Five invariants of the hierarchy for every number of cores, every       *)
(* geometry, policy and set of blocks: the type, the agreement of index    *)
(* and arrays in every cache, that the directory mirrors the LLC, that the *)
(* state of an entry matches its trackers, and that the statistics of the  *)
(* main memory balance.                                                    *)
(*                                                                         *)
(* A handler is an operator on state records, so each has a lemma on       *)
(* records: it keeps GoodState, and leaves EntryOK what is.  In the middle *)
(* of an access the entry of the accessed block may disagree with the LLC; *)
(* OKBut says that nothing else does.                                      *)
(***************************************************************************)
EXTENDS Hierarchy, HybridCacheProofs, FiniteSetTheorems

StateRecords == [l1 : [Cores -> [L1Kinds -> Caches(L1)]],
                 llc : Caches(LLC),
                 dir : Directories,
                 mem : [Stats -> 0 .. (StatRange - 1)],
                 aborted : BOOLEAN]

\* The caches, each by itself.  The LLC is never invalidated in place.
GoodState(s) ==
  /\ s \in StateRecords
  /\ \A n \in Cores, k \in L1Kinds : GoodCache(L1, s.l1[n][k])
  /\ GoodCache(LLC, s.llc)
  /\ NoGhost(LLC, s.llc)

\* The entry of one block: its state and its trackers go together.
EntryMatches(d, b) ==
  CASE StateOf(d, b) \in {"EXCLUSIVE_L1", "MODIFIED_L1"} ->
         \E n \in Cores : TrackersOf(d, b) = {n}
    [] StateOf(d, b) = "SHARED_L1" -> TrackersOf(d, b) # {}
    [] OTHER -> TrackersOf(d, b) = {}

\* The directory and the LLC agree about one block.
EntryOK(s, b) ==
  /\ HasEntry(s.dir, b) <=> Present(s.llc, b)
  /\ StateOf(s.dir, b) # "NOT_PRESENT"
  /\ EntryMatches(s.dir, b)

OKBut(s, b) ==
  /\ GoodState(s)
  /\ s.aborted \/ \A x \in Blocks \ {b} : EntryOK(s, x)

AllOK(s) ==
  /\ GoodState(s)
  /\ s.aborted \/ \A x \in Blocks : EntryOK(s, x)

IInv == GoodState(State) /\ \A b \in Blocks : EntryOK(State, b)

-----------------------------------------------------------------------------
\* What the assumptions say of the two geometries.
LEMMA Geometry ==
  /\ L1 \in Geometries /\ LLC \in Geometries
  /\ Array(L1, FALSE) # {}
  /\ \A isWrite \in BOOLEAN :
       /\ AllocateInNVM(LLC, isWrite) \in BOOLEAN
       /\ Array(LLC, AllocateInNVM(LLC, isWrite)) # {}
<1>1. /\ L1 \in Geometries /\ LLC \in Geometries
      /\ L1.sram + L1.nvm > 0 /\ LLC.sram + LLC.nvm > 0
  BY HierarchyAssumption DEF L1, LLC, Geometries
<1>2. AllocateInNVM(L1, FALSE) = FALSE
  BY <1>1 DEF AllocateInNVM, L1
<1> QED
  BY <1>1, <1>2, AllocatedArrayHasWays

\* An entry of the directory has a state and a set of cores; the value of a
\* missing one is no entry.
LEMMA DirectoryEntry ==
  ASSUME NEW d \in Directories, NEW b \in Blocks
  PROVE  /\ d[b] = [state |-> StateOf(d, b), trackers |-> TrackersOf(d, b)]
         /\ TrackersOf(d, b) \in SUBSET Cores
         /\ HasEntry(d, b) <=> StateOf(d, b) \in States
         /\ ~HasEntry(d, b) => StateOf(d, b) = "NO_ENTRY"
                               /\ TrackersOf(d, b) = {}
BY DEF Directories, Entries, NoEntry, HasEntry, StateOf, TrackersOf, States

\* Writing a state and a set of trackers changes one entry.
LEMMA DirectoryUpdate ==
  ASSUME NEW d \in Directories, NEW b \in Blocks,
         NEW state \in States, NEW trackers \in SUBSET Cores
  PROVE  LET e == [d EXCEPT ![b] = [state |-> state, trackers |-> trackers]]
         IN /\ e \in Directories
            /\ HasEntry(e, b)
            /\ StateOf(e, b) = state /\ TrackersOf(e, b) = trackers
            /\ \A x \in Blocks : x # b => e[x] = d[x]
BY DEF Directories, Entries, NoEntry, HasEntry, StateOf, TrackersOf, States

\* The operations of the directory, as such writes.
LEMMA DirectoryOps ==
  ASSUME NEW d \in Directories, NEW b \in Blocks,
         NEW state \in States, NEW n \in Cores
  PROVE  /\ ~HasEntry(d, b) =>
              AddEntry(d, b) = [d EXCEPT ![b] = [state |-> "NOT_PRESENT",
                                                 trackers |-> {}]]
         /\ SetState(d, b, state) =
              [d EXCEPT ![b] = [state |-> state, trackers |-> TrackersOf(d, b)]]
         /\ SetTrackerToEntry(d, b, n) =
              [d EXCEPT ![b] = [state |-> StateOf(d, b), trackers |-> {n}]]
         /\ AddTrackerToEntry(d, b, n) =
              [d EXCEPT ![b] = [state |-> StateOf(d, b),
                                trackers |-> TrackersOf(d, b) \cup {n}]]
         /\ ResetTrackersToEntry(d, b) =
              [d EXCEPT ![b] = [state |-> StateOf(d, b), trackers |-> {}]]
<1>1. d[b] = [state |-> StateOf(d, b), trackers |-> TrackersOf(d, b)]
  BY DirectoryEntry
<1>2. \A t : [d[b] EXCEPT !.trackers = t] =
               [state |-> StateOf(d, b), trackers |-> t]
  BY <1>1
<1>3. [d[b] EXCEPT !.state = state] =
        [state |-> state, trackers |-> TrackersOf(d, b)]
  BY <1>1
<1>4. SetState(d, b, state) =
        [d EXCEPT ![b] = [state |-> state, trackers |-> TrackersOf(d, b)]]
  BY <1>3 DEF SetState
<1>5. SetTrackerToEntry(d, b, n) =
        [d EXCEPT ![b] = [state |-> StateOf(d, b), trackers |-> {n}]]
  BY <1>2 DEF SetTrackerToEntry
<1>6. AddTrackerToEntry(d, b, n) =
        [d EXCEPT ![b] = [state |-> StateOf(d, b),
                          trackers |-> TrackersOf(d, b) \cup {n}]]
  BY <1>2 DEF AddTrackerToEntry, TrackersOf
<1>7. ResetTrackersToEntry(d, b) =
        [d EXCEPT ![b] = [state |-> StateOf(d, b), trackers |-> {}]]
  BY <1>2 DEF ResetTrackersToEntry
<1> QED
  BY <1>4, <1>5, <1>6, <1>7 DEF AddEntry

\* The two writes of Hierarchy::L1sdeallocate to the entry, as one.
LEMMA ClearEntry ==
  ASSUME NEW d \in Directories, NEW b \in Blocks
  PROVE  SetState(ResetTrackersToEntry(d, b), b, "CLEAN_LLC") =
           [d EXCEPT ![b] = [state |-> "CLEAN_LLC", trackers |-> {}]]
<1> DEFINE r == ResetTrackersToEntry(d, b)
<1>1. d[b] = [state |-> StateOf(d, b), trackers |-> TrackersOf(d, b)]
  BY DirectoryEntry
<1>2. [d[b] EXCEPT !.trackers = {}] =
        [state |-> StateOf(d, b), trackers |-> {}]
  BY <1>1
<1>3. r = [d EXCEPT ![b] = [state |-> StateOf(d, b), trackers |-> {}]]
  BY <1>2 DEF ResetTrackersToEntry
<1>4. DOMAIN d = Blocks
  BY DEF Directories
<1> HIDE DEF r
<1>5. [r[b] EXCEPT !.state = "CLEAN_LLC"] =
        [state |-> "CLEAN_LLC", trackers |-> {}]
  BY <1>3, <1>4
<1>6. SetState(r, b, "CLEAN_LLC") =
        [r EXCEPT ![b] = [state |-> "CLEAN_LLC", trackers |-> {}]]
  BY <1>5 DEF SetState
<1> QED
  BY <1>3, <1>4, <1>6 DEF r

\* A core that leaves the trackers of an entry leaves it matching, and a block
\* no core holds is CLEAN_LLC: the case the assertions on one owner rest on.
LEMMA RemoveTrackerMatches ==
  ASSUME NEW d \in Directories, NEW b \in Blocks, NEW n \in Cores
  PROVE  LET e == RemoveTracker(d, b, n)
         IN /\ e \in Directories
            /\ \A x \in Blocks : x # b => e[x] = d[x]
            /\ HasEntry(d, b) =>
                 /\ HasEntry(e, b)
                 /\ EntryMatches(d, b) => EntryMatches(e, b)
                 /\ StateOf(d, b) # "NOT_PRESENT" =>
                      StateOf(e, b) # "NOT_PRESENT"
<1> DEFINE e == RemoveTracker(d, b, n)
           left == TrackersOf(d, b) \ {n}
           state == IF left = {} THEN "CLEAN_LLC" ELSE StateOf(d, b)
<1>1. d[b] = [state |-> StateOf(d, b), trackers |-> TrackersOf(d, b)]
      /\ TrackersOf(d, b) \in SUBSET Cores
  BY DirectoryEntry
<1>2. e = [d EXCEPT ![b] = [state |-> state, trackers |-> left]]
  BY <1>1 DEF RemoveTracker
<1>3. left # {} => StateOf(d, b) \in States
  BY DirectoryEntry
<1>4. state \in States /\ left \in SUBSET Cores
  BY <1>1, <1>3 DEF States
<1> HIDE DEF e, state, left
<1>5. /\ e \in Directories
      /\ HasEntry(e, b)
      /\ StateOf(e, b) = state /\ TrackersOf(e, b) = left
      /\ \A x \in Blocks : x # b => e[x] = d[x]
  <2>1. \A st \in States, tr \in SUBSET Cores :
          LET f == [d EXCEPT ![b] = [state |-> st, trackers |-> tr]]
          IN /\ f \in Directories
             /\ HasEntry(f, b)
             /\ StateOf(f, b) = st /\ TrackersOf(f, b) = tr
             /\ \A x \in Blocks : x # b => f[x] = d[x]
    BY DirectoryUpdate
  <2> QED
    BY <1>2, <1>4, <2>1
<1> USE DEF state, left
<1>6. EntryMatches(d, b) => EntryMatches(e, b)
  <2>1. CASE left = {}
    BY <1>5, <2>1 DEF EntryMatches
  <2>2. CASE left # {}
    BY <1>5, <2>2 DEF EntryMatches
  <2> QED
    BY <2>1, <2>2
<1> QED
  BY <1>5, <1>6 DEF e

-----------------------------------------------------------------------------
\* A state record with one part replaced by a good one is good, the other
\* parts being what they were: the shape of every handler.
LEMMA SetDirGood ==
  ASSUME NEW s, GoodState(s), NEW d \in Directories
  PROVE  LET t == [s EXCEPT !.dir = d]
         IN /\ GoodState(t)
            /\ t.l1 = s.l1 /\ t.llc = s.llc /\ t.dir = d
            /\ t.aborted = s.aborted
BY DEF GoodState, StateRecords

\* The same for the LLC.
LEMMA SetLLCGood ==
  ASSUME NEW s, GoodState(s),
         NEW c, GoodCache(LLC, c), NoGhost(LLC, c)
  PROVE  LET t == [s EXCEPT !.llc = c]
         IN /\ GoodState(t)
            /\ t.l1 = s.l1 /\ t.llc = c /\ t.dir = s.dir
            /\ t.aborted = s.aborted
BY DEF GoodState, StateRecords, GoodCache

\* The same for one L1.
LEMMA SetOneL1Good ==
  ASSUME NEW s, GoodState(s), NEW n \in Cores, NEW k \in L1Kinds,
         NEW c, GoodCache(L1, c)
  PROVE  LET t == [s EXCEPT !.l1[n][k] = c]
         IN /\ GoodState(t)
            /\ t.llc = s.llc /\ t.dir = s.dir
            /\ t.aborted = s.aborted
<1> DEFINE t == [s EXCEPT !.l1[n][k] = c]
<1>1. s \in StateRecords /\ c \in Caches(L1)
  BY DEF GoodState, GoodCache
<1>2. t \in StateRecords
  BY <1>1 DEF StateRecords
<1>3. \A m \in Cores, j \in L1Kinds :
        t.l1[m][j] = IF m = n /\ j = k THEN c ELSE s.l1[m][j]
  BY <1>1 DEF StateRecords
<1>4. /\ t.llc = s.llc /\ t.dir = s.dir /\ t.aborted = s.aborted
  BY <1>1 DEF StateRecords
<1> HIDE DEF t
<1>5. GoodState(t)
  BY <1>2, <1>3, <1>4 DEF GoodState
<1> QED
  BY <1>4, <1>5 DEF t

\* The same for all L1s at once.
LEMMA SetL1sGood ==
  ASSUME NEW s, GoodState(s),
         NEW f \in [Cores -> [L1Kinds -> Caches(L1)]],
         \A n \in Cores, k \in L1Kinds : GoodCache(L1, f[n][k])
  PROVE  LET t == [s EXCEPT !.l1 = f]
         IN /\ GoodState(t)
            /\ t.llc = s.llc /\ t.dir = s.dir
            /\ t.aborted = s.aborted
BY DEF GoodState, StateRecords, GoodCache

\* An assertion can only end the program.
LEMMA RequireGood ==
  ASSUME NEW s, GoodState(s), NEW condition \in BOOLEAN
  PROVE  LET t == Require(s, condition)
         IN /\ GoodState(t)
            /\ t.l1 = s.l1 /\ t.llc = s.llc /\ t.dir = s.dir
            /\ t.aborted = (s.aborted \/ ~condition)
BY DEF GoodState, StateRecords, Require

\* The statistics count modulo StatRange and nothing reads them.
LEMMA CountGood ==
  ASSUME NEW s, GoodState(s), NEW x \in Stats
  PROVE  LET t == Count(s, x)
         IN /\ GoodState(t)
            /\ t.l1 = s.l1 /\ t.llc = s.llc /\ t.dir = s.dir
            /\ t.aborted = s.aborted
<1> DEFINE t == Count(s, x)
<1>1. s \in StateRecords
  BY DEF GoodState
<1>2. s.mem[x] \in Nat
  BY <1>1, HierarchyAssumption DEF StateRecords
<1>3. (s.mem[x] + 1) % StatRange \in 0 .. (StatRange - 1)
  BY <1>2, HierarchyAssumption
<1>4. t \in StateRecords
  BY <1>1, <1>3 DEF Count, StateRecords
<1>5. t.l1 = s.l1 /\ t.llc = s.llc /\ t.dir = s.dir /\ t.aborted = s.aborted
  BY <1>1 DEF Count, StateRecords
<1> QED
  BY <1>4, <1>5 DEF GoodState

\* A state whose LLC has the same index and whose directory has the same entry
\* for a block is as good for the block.
LEMMA SameEntryOK ==
  ASSUME NEW s, NEW t, NEW b \in Blocks, EntryOK(s, b),
         t.dir[b] = s.dir[b], Present(t.llc, b) <=> Present(s.llc, b)
  PROVE  EntryOK(t, b)
BY DEF EntryOK, EntryMatches, HasEntry, StateOf, TrackersOf

-----------------------------------------------------------------------------
\* A write back of an L1 takes the core out of the trackers, or leaves the
\* directory alone if it keeps the block, and fails if there is no entry.
LEMMA WBFromL1Good ==
  ASSUME NEW s, GoodState(s), NEW n \in Cores, NEW b \in Blocks,
         NEW isDirty \in BOOLEAN, NEW isKept \in BOOLEAN
  PROVE  LET t == WBFromL1(s, n, b, isDirty, isKept)
         IN /\ GoodState(t)
            /\ t.l1 = s.l1
            /\ t.llc.tag = s.llc.tag /\ t.llc.line = s.llc.line
            /\ isKept => t.dir = s.dir
            /\ ~isKept => t.dir = RemoveTracker(s.dir, b, n)
            /\ t.aborted = (s.aborted \/ ~HasEntry(s.dir, b))
<1> DEFINE u == Require(s, HasEntry(s.dir, b))
           d == IF isKept THEN s.dir ELSE RemoveTracker(s.dir, b, n)
           c == HandleWB(LLC, s.llc, b, isDirty)
           v == [u EXCEPT !.dir = d]
<1>1. HasEntry(s.dir, b) \in BOOLEAN
  BY DEF HasEntry
<1>2. /\ GoodState(u)
      /\ u.l1 = s.l1 /\ u.llc = s.llc /\ u.dir = s.dir
      /\ u.aborted = (s.aborted \/ ~HasEntry(s.dir, b))
  BY <1>1, RequireGood
<1>3. s.dir \in Directories
  BY DEF GoodState, StateRecords
<1>4. d \in Directories
  BY <1>3, RemoveTrackerMatches
<1>5. GoodCache(LLC, s.llc) /\ NoGhost(LLC, s.llc)
  BY DEF GoodState
<1>6. GoodCache(LLC, c) /\ c.tag = s.llc.tag /\ c.line = s.llc.line
  BY <1>5, Geometry, HandleWBGood
<1>7. NoGhost(LLC, c)
  <2> HIDE DEF c
  <2> QED
    BY <1>5, <1>6 DEF NoGhost
<1>8. WBFromL1(s, n, b, isDirty, isKept) = [v EXCEPT !.llc = c]
  BY <1>2 DEF WBFromL1
<1> HIDE DEF u, d, c
<1>9. /\ GoodState(v)
      /\ v.l1 = u.l1 /\ v.llc = u.llc /\ v.dir = d /\ v.aborted = u.aborted
  BY <1>2, <1>4, SetDirGood
<1> HIDE DEF v
<1> DEFINE t == [v EXCEPT !.llc = c]
<1>10. /\ GoodState(t)
       /\ t.l1 = v.l1 /\ t.llc = c /\ t.dir = v.dir /\ t.aborted = v.aborted
  BY <1>6, <1>7, <1>9, SetLLCGood
<1> HIDE DEF t
<1>11. t = WBFromL1(s, n, b, isDirty, isKept)
  BY <1>8 DEF t
<1>12. /\ t.l1 = s.l1 /\ t.dir = d
       /\ t.llc.tag = s.llc.tag /\ t.llc.line = s.llc.line
       /\ t.aborted = (s.aborted \/ ~HasEntry(s.dir, b))
  BY <1>2, <1>6, <1>9, <1>10
<1> QED
  BY <1>10, <1>11, <1>12 DEF d

\* A write back of the LLC takes the entry out of the directory.
LEMMA WBFromLLCGood ==
  ASSUME NEW s, GoodState(s), NEW b \in Blocks, NEW isDirty \in BOOLEAN
  PROVE  LET t == WBFromLLC(s, b, isDirty)
         IN /\ GoodState(t)
            /\ t.l1 = s.l1 /\ t.llc = s.llc
            /\ t.dir = [s.dir EXCEPT ![b] = NoEntry]
            /\ s.aborted => t.aborted
<1> DEFINE u == Require(s, HasEntry(s.dir, b))
           x == IF isDirty THEN "dirtyWB" ELSE "cleanWB"
           v == Count(u, x)
           d == RemoveEntry(s.dir, b)
           t == [v EXCEPT !.dir = d]
<1>1. HasEntry(s.dir, b) \in BOOLEAN
  BY DEF HasEntry
<1>2. /\ GoodState(u)
      /\ u.l1 = s.l1 /\ u.llc = s.llc /\ u.dir = s.dir
      /\ s.aborted => u.aborted
  BY <1>1, RequireGood
<1> HIDE DEF u
<1>3. x \in Stats
  BY DEF Stats
<1> HIDE DEF x
<1>4. /\ GoodState(v)
      /\ v.l1 = u.l1 /\ v.llc = u.llc /\ v.dir = u.dir
      /\ v.aborted = u.aborted
  BY <1>2, <1>3, CountGood
<1> HIDE DEF v
<1>5. d \in Directories
  BY DEF GoodState, StateRecords, RemoveEntry, Directories
<1> HIDE DEF d
<1>6. /\ GoodState(t)
      /\ t.l1 = v.l1 /\ t.llc = v.llc /\ t.dir = d /\ t.aborted = v.aborted
  BY <1>4, <1>5, SetDirGood
<1> HIDE DEF t
<1>7. t = WBFromLLC(s, b, isDirty)
  BY <1>2, <1>4 DEF WBFromLLC, t, v, u, x, d
<1>8. /\ t.l1 = s.l1 /\ t.llc = s.llc /\ t.dir = d
      /\ s.aborted => t.aborted
  BY <1>2, <1>4, <1>6
<1> QED
  BY <1>6, <1>7, <1>8 DEF d, RemoveEntry

\* The deallocation of an LLC victim in the L1s changes the L1s, the dirty bit
\* of the LLC entry and the directory entry of the block.
LEMMA L1sDeallocateGood ==
  ASSUME NEW s, GoodState(s), NEW b \in Blocks
  PROVE  LET t == L1sDeallocate(s, b)
         IN /\ GoodState(t)
            /\ t.llc.tag = s.llc.tag
            /\ \A x \in Blocks : x # b => t.dir[x] = s.dir[x]
            /\ s.aborted => t.aborted
<1> DEFINE u == Require(s, HasEntry(s.dir, b))
           nodes == TrackersOf(s.dir, b)
           Asked(n) == n \in nodes /\ \A m \in nodes : m < n => ~Answers(s, m, b)
           isDirty == \E n \in nodes : Answers(s, n, b)
           f == [n \in Cores |-> [k \in L1Kinds |->
                   IF Asked(n) THEN Invalidated(s, n, k, b) ELSE s.l1[n][k]]]
           c == SetDirty(LLC, s.llc, b, isDirty)
           d == SetState(ResetTrackersToEntry(s.dir, b), b, "CLEAN_LLC")
           t == L1sDeallocate(s, b)
<1>1. HasEntry(s.dir, b) \in BOOLEAN
  BY DEF HasEntry
<1>2. /\ GoodState(u)
      /\ u.l1 = s.l1 /\ u.llc = s.llc /\ u.dir = s.dir
      /\ s.aborted => u.aborted
  BY <1>1, RequireGood
<1>3. \A n \in Cores, k \in L1Kinds : GoodCache(L1, f[n][k])
  <2> SUFFICES ASSUME NEW n \in Cores, NEW k \in L1Kinds
               PROVE  GoodCache(L1, f[n][k])
    OBVIOUS
  <2>1. GoodCache(L1, s.l1[n][k])
    BY DEF GoodState
  <2>2. GoodCache(L1, ReceiveInvalidation(L1, s.l1[n][k], b))
    BY <2>1, Geometry, ReceiveInvalidationGood
  <2>3. GoodCache(L1, Invalidated(s, n, k, b))
    BY <2>1, <2>2 DEF Invalidated
  <2>4. f[n][k] = Invalidated(s, n, k, b) \/ f[n][k] = s.l1[n][k]
    OBVIOUS
  <2> QED
    BY <2>1, <2>3, <2>4
<1>4. f \in [Cores -> [L1Kinds -> Caches(L1)]]
  <2>1. \A n \in Cores, k \in L1Kinds : f[n][k] \in Caches(L1)
    BY <1>3 DEF GoodCache
  <2>2. DOMAIN f = Cores /\ \A n \in Cores : f[n] = [k \in L1Kinds |-> f[n][k]]
    OBVIOUS
  <2>3. f = [n \in Cores |-> [k \in L1Kinds |-> f[n][k]]]
    OBVIOUS
  <2> HIDE DEF f
  <2> QED
    BY <2>1, <2>3
<1>5. isDirty \in BOOLEAN
  OBVIOUS
<1>6. GoodCache(LLC, c) /\ c.tag = s.llc.tag /\ NoGhost(LLC, c)
  <2>1. GoodCache(LLC, s.llc) /\ NoGhost(LLC, s.llc)
    BY DEF GoodState
  <2> HIDE DEF isDirty
  <2> QED
    BY <1>5, <2>1, Geometry, SetDirtyGood
<1>7. d \in Directories /\ \A x \in Blocks : x # b => d[x] = s.dir[x]
  <2>1. s.dir \in Directories
    BY DEF GoodState, StateRecords
  <2>2. d = [s.dir EXCEPT ![b] = [state |-> "CLEAN_LLC", trackers |-> {}]]
    BY <2>1, ClearEntry
  <2>3. [state |-> "CLEAN_LLC", trackers |-> {}] \in Entries
    BY DEF Entries, States
  <2> HIDE DEF d
  <2> QED
    BY <2>1, <2>2, <2>3 DEF Directories
<1>8. t = IF IsInL1(s.dir, b)
          THEN [[[u EXCEPT !.l1 = f] EXCEPT !.llc = c] EXCEPT !.dir = d]
          ELSE u
  BY <1>2 DEF L1sDeallocate
<1> HIDE DEF u, f, c, d, t
<1>9. CASE ~IsInL1(s.dir, b)
  BY <1>2, <1>8, <1>9 DEF t
<1>10. CASE IsInL1(s.dir, b)
  <2> DEFINE v == [u EXCEPT !.l1 = f]
             w == [v EXCEPT !.llc = c]
             x == [w EXCEPT !.dir = d]
  <2>1. /\ GoodState(v)
        /\ v.llc = u.llc /\ v.dir = u.dir /\ v.aborted = u.aborted
    BY <1>2, <1>3, <1>4, SetL1sGood
  <2> HIDE DEF v
  <2>2. /\ GoodState(w)
        /\ w.llc = c /\ w.dir = v.dir /\ w.aborted = v.aborted
    BY <1>6, <2>1, SetLLCGood
  <2> HIDE DEF w
  <2>3. /\ GoodState(x)
        /\ x.llc = w.llc /\ x.dir = d /\ x.aborted = w.aborted
    BY <1>7, <2>2, SetDirGood
  <2>4. t = x
    BY <1>8, <1>10 DEF x, w, v
  <2> HIDE DEF x
  <2>5. GoodState(t) /\ t.llc.tag = s.llc.tag /\ t.dir = d
        /\ (s.aborted => t.aborted)
    BY <1>2, <1>6, <2>1, <2>2, <2>3, <2>4
  <2> QED
    BY <1>7, <2>5 DEF t
<1> QED
  BY <1>9, <1>10

\* Cores that drop a block change nothing but their L1s.
LEMMA L1sDropGood ==
  ASSUME NEW s, GoodState(s), NEW nodes, NEW b \in Blocks
  PROVE  LET t == L1sDrop(s, nodes, b)
         IN /\ GoodState(t)
            /\ t.llc = s.llc /\ t.dir = s.dir
            /\ t.aborted = s.aborted
<1> DEFINE f == [n \in Cores |-> [k \in L1Kinds |->
                   IF n \in nodes THEN DeallocateBlock(L1, s.l1[n][k], b)
                   ELSE s.l1[n][k]]]
<1>1. \A n \in Cores, k \in L1Kinds : GoodCache(L1, f[n][k])
  <2> SUFFICES ASSUME NEW n \in Cores, NEW k \in L1Kinds
               PROVE  GoodCache(L1, f[n][k])
    OBVIOUS
  <2>1. GoodCache(L1, s.l1[n][k])
    BY DEF GoodState
  <2>2. GoodCache(L1, DeallocateBlock(L1, s.l1[n][k], b))
    BY <2>1, Geometry, DeallocateBlockGood
  <2> QED
    BY <2>1, <2>2
<1>2. f \in [Cores -> [L1Kinds -> Caches(L1)]]
  <2>1. \A n \in Cores, k \in L1Kinds : f[n][k] \in Caches(L1)
    BY <1>1 DEF GoodCache
  <2>2. f = [n \in Cores |-> [k \in L1Kinds |-> f[n][k]]]
    OBVIOUS
  <2> HIDE DEF f
  <2> QED
    BY <2>1, <2>2
<1>3. L1sDrop(s, nodes, b) = [s EXCEPT !.l1 = f]
  BY DEF L1sDrop
<1> HIDE DEF f
<1> QED
  BY <1>1, <1>2, <1>3, SetL1sGood

-----------------------------------------------------------------------------
\* An access of an L1 leaves the accessed block's entry as it is, and what was
\* in order of the others: the victim it evicts leaves one tracker.
LEMMA L1AccessGood ==
  ASSUME NEW s, GoodState(s), NEW n \in Cores, NEW k \in L1Kinds,
         NEW b \in Blocks, NEW isWrite \in BOOLEAN
  PROVE  LET t == L1Access(s, n, k, b, isWrite)
         IN /\ GoodState(t)
            /\ t.llc.tag = s.llc.tag
            /\ t.dir[b] = s.dir[b]
            /\ s.aborted => t.aborted
            /\ \A x \in Blocks :
                 EntryOK(s, x) => t.aborted \/ EntryOK(t, x)
<1> DEFINE c == s.l1[n][k]
           w == Victim(L1, c, SetOf(L1, b), FALSE)
           victim == c.line[SetOf(L1, b)][w]
           t == L1Access(s, n, k, b, isWrite)
<1>1. GoodCache(L1, c)
  BY DEF GoodState
<1>2. CASE Present(c, b)
  <2> DEFINE h == Hit(L1, c, b, isWrite)
             u == [s EXCEPT !.l1[n][k] = h]
  <2>1. GoodCache(L1, h)
    <3> HIDE DEF c
    <3> QED
      BY Zenon, <1>1, <1>2, Geometry, HitGood
  <2>2. t = u
    BY Zenon, <1>2 DEF L1Access
  <2> HIDE DEF h
  <2>3. /\ GoodState(u)
        /\ u.llc = s.llc /\ u.dir = s.dir /\ u.aborted = s.aborted
    BY <2>1, SetOneL1Good
  <2> HIDE DEF t, u
  <2>4. \A x \in Blocks : EntryOK(s, x) => EntryOK(t, x)
    BY <2>2, <2>3, SameEntryOK
  <2> QED
    BY <2>2, <2>3, <2>4 DEF t
<1>3. CASE ~Present(c, b)
  <2> DEFINE u == victim.addr
             isDirty == EntryOf(L1, c, u).dirty
             e == IF victim.valid THEN WBFromL1(s, n, u, isDirty, FALSE) ELSE s
             f == Fill(L1, c, b, w, isWrite, FALSE)
             v == [e EXCEPT !.l1[n][k] = f]
  <2>1. SetOf(L1, b) \in Sets(L1) /\ w \in Ways(L1)
    <3>1. SetOf(L1, b) \in Sets(L1)
      BY Geometry, GeometryFacts
    <3>2. c \in Caches(L1)
      BY <1>1 DEF GoodCache
    <3> HIDE DEF c
    <3>3. w \in Array(L1, FALSE)
      BY <3>1, <3>2, Geometry, VictimInArray
    <3> HIDE DEF w
    <3> QED
      BY <3>1, <3>3, Geometry, GeometryFacts
  <2>2. victim.valid => /\ u \in Blocks /\ Present(c, u) /\ u # b
                        /\ isDirty \in BOOLEAN
    <3> HIDE DEF c, w
    <3> SUFFICES ASSUME victim.valid
                 PROVE  u \in Blocks /\ Present(c, u) /\ u # b
                        /\ isDirty \in BOOLEAN
      OBVIOUS
    <3>1. u \in Blocks /\ Present(c, u) /\ EntryOf(L1, c, u) = victim
      BY <1>1, <2>1, Geometry, ValidEntryIsIndexed
    <3>2. victim.dirty \in BOOLEAN
      <4> HIDE DEF victim
      <4>1. victim \in Lines
        <5>1. c \in Caches(L1)
          BY <1>1 DEF GoodCache
        <5> QED
          BY <2>1, <5>1 DEF Caches, victim
      <4> QED
        BY <4>1 DEF Lines
    <3> QED
      BY <1>3, <3>1, <3>2
  <2>3. t = [e EXCEPT !.l1[n][k] = Fill(L1, @, b, w, isWrite, FALSE)]
    BY Zenon, <1>3, <2>2 DEF L1Access, L1SignalWB
  <2>4. GoodCache(L1, f)
    <3> HIDE DEF c, w
    <3> QED
      BY <1>1, <1>3, <2>1, Geometry, FillGood
  <2>5. CASE ~victim.valid
    <3>1. e = s /\ t = v
      BY Zenon, <2>3, <2>5
    <3> HIDE DEF e, f
    <3>2. /\ GoodState(v)
          /\ v.llc = e.llc /\ v.dir = e.dir /\ v.aborted = e.aborted
      BY <2>4, <3>1, SetOneL1Good
    <3> HIDE DEF t, v
    <3>3. \A x \in Blocks : EntryOK(s, x) => EntryOK(t, x)
      BY <3>1, <3>2, SameEntryOK
    <3> QED
      BY <3>1, <3>2, <3>3 DEF t
  <2>6. CASE victim.valid
    <3>1. e = WBFromL1(s, n, u, isDirty, FALSE)
      BY <2>6
    <3> HIDE DEF victim
    <3>0. u \in Blocks /\ u # b /\ isDirty \in BOOLEAN
      BY <2>2, <2>6
    <3> HIDE DEF e, f, isDirty, u
    <3>2. /\ GoodState(e)
          /\ e.l1 = s.l1 /\ e.llc.tag = s.llc.tag
          /\ e.dir = RemoveTracker(s.dir, u, n)
          /\ e.aborted = (s.aborted \/ ~HasEntry(s.dir, u))
      <4>1. \A kept \in BOOLEAN :
              LET v1 == WBFromL1(s, n, u, isDirty, kept)
              IN /\ GoodState(v1)
                 /\ v1.l1 = s.l1 /\ v1.llc.tag = s.llc.tag
                 /\ ~kept => v1.dir = RemoveTracker(s.dir, u, n)
                 /\ v1.aborted = (s.aborted \/ ~HasEntry(s.dir, u))
        BY <3>0, WBFromL1Good
      <4> QED
        BY <3>1, <4>1
    <3>3. t = v
      BY <2>3, <3>2 DEF f
    <3>4. /\ GoodState(v)
          /\ v.llc = e.llc /\ v.dir = e.dir /\ v.aborted = e.aborted
      BY <2>4, <3>2, SetOneL1Good
    <3> HIDE DEF t, v
    <3>5. s.dir \in Directories
      BY DEF GoodState, StateRecords
    <3>6. /\ \A x \in Blocks : x # u => t.dir[x] = s.dir[x]
          /\ HasEntry(s.dir, u) =>
               /\ HasEntry(t.dir, u)
               /\ EntryMatches(s.dir, u) => EntryMatches(t.dir, u)
               /\ StateOf(s.dir, u) # "NOT_PRESENT" =>
                    StateOf(t.dir, u) # "NOT_PRESENT"
      BY <3>0, <3>2, <3>3, <3>4, <3>5, RemoveTrackerMatches
    <3>7. \A x \in Blocks : Present(t.llc, x) <=> Present(s.llc, x)
      BY <3>2, <3>3, <3>4 DEF Present
    <3>8. t.aborted = (s.aborted \/ ~HasEntry(s.dir, u))
      BY <3>2, <3>3, <3>4
    <3>9. ASSUME NEW x \in Blocks, EntryOK(s, x)
          PROVE  t.aborted \/ EntryOK(t, x)
      <4>1. CASE x # u
        BY <3>6, <3>7, <3>9, <4>1, SameEntryOK
      <4>2. CASE x = u /\ HasEntry(s.dir, u)
        BY <3>6, <3>7, <3>9, <4>2 DEF EntryOK
      <4>3. CASE ~HasEntry(s.dir, u)
        BY <3>8, <4>3
      <4> QED
        BY <4>1, <4>2, <4>3
    <3>10. /\ GoodState(t) /\ t.llc.tag = s.llc.tag /\ t.dir[b] = s.dir[b]
           /\ s.aborted => t.aborted
      BY <3>0, <3>2, <3>3, <3>4, <3>6, <3>8
    <3> QED
      BY <3>9, <3>10 DEF t
  <2> QED
    BY <2>5, <2>6
<1> QED
  BY <1>2, <1>3

\* An access of the LLC leaves the block in it and its entry as it is; the entry
\* of the victim goes with the victim, so the others agree as before.
LEMMA LLCAccessGood ==
  ASSUME NEW s, GoodState(s), NEW b \in Blocks,
         NEW isWrite \in BOOLEAN, NEW isPrefetch \in BOOLEAN
  PROVE  LET t == LLCAccess(s, b, isWrite, isPrefetch)
         IN /\ GoodState(t)
            /\ Present(t.llc, b)
            /\ t.dir[b] = s.dir[b]
            /\ s.aborted => t.aborted
            /\ \A x \in Blocks :
                 x # b /\ EntryOK(s, x) => EntryOK(t, x)
<1> DEFINE c == s.llc
           inNVM == AllocateInNVM(LLC, isWrite)
           w == Victim(LLC, c, SetOf(LLC, b), inNVM)
           victim == c.line[SetOf(LLC, b)][w]
           t == LLCAccess(s, b, isWrite, isPrefetch)
<1>1. GoodCache(LLC, c) /\ NoGhost(LLC, c)
  BY DEF GoodState
<1>2. CASE Present(c, b)
  <2> DEFINE h == Hit(LLC, c, b, isWrite)
             u == [s EXCEPT !.llc = h]
  <2>1. GoodCache(LLC, h) /\ h.tag = c.tag /\ NoGhost(LLC, h)
    <3> HIDE DEF c
    <3> QED
      BY <1>1, <1>2, Geometry, HitGood
  <2>2. t = u
    BY <1>2 DEF LLCAccess
  <2> HIDE DEF h
  <2>3. /\ GoodState(u)
        /\ u.llc = h /\ u.dir = s.dir /\ u.aborted = s.aborted
    BY <2>1, SetLLCGood
  <2> HIDE DEF t, u
  <2>4. \A x \in Blocks : Present(t.llc, x) <=> Present(s.llc, x)
    BY <2>1, <2>2, <2>3 DEF Present
  <2>5. \A x \in Blocks : EntryOK(s, x) => EntryOK(t, x)
    BY <2>2, <2>3, <2>4, SameEntryOK
  <2> QED
    BY <1>2, <2>2, <2>3, <2>4, <2>5 DEF t
<1>3. CASE ~Present(c, b)
  <2> DEFINE v == victim.addr
             e == IF victim.valid THEN LLCSignalWB(L1sDeallocate(s, v), v)
                  ELSE s
             f == Fill(LLC, e.llc, b, w, isWrite, isPrefetch)
             u == [e EXCEPT !.llc = f]
  <2>1. SetOf(LLC, b) \in Sets(LLC) /\ w \in Ways(LLC)
    <3>1. SetOf(LLC, b) \in Sets(LLC)
      BY Geometry, GeometryFacts
    <3>2. c \in Caches(LLC)
      BY <1>1 DEF GoodCache
    <3>3. inNVM \in BOOLEAN /\ Array(LLC, inNVM) # {}
      BY Geometry
    <3> HIDE DEF c, inNVM
    <3>4. w \in Array(LLC, inNVM)
      BY <3>1, <3>2, <3>3, Geometry, VictimInArray
    <3> HIDE DEF w
    <3> QED
      BY <3>1, <3>3, <3>4, Geometry, GeometryFacts
  <2>2. t = u
    BY <1>3 DEF LLCAccess
  <2> HIDE DEF t, w
  <2>3. victim.valid => v \in Blocks /\ Present(c, v) /\ v # b
    <3> HIDE DEF c
    <3> SUFFICES ASSUME victim.valid
                 PROVE  v \in Blocks /\ Present(c, v) /\ v # b
      OBVIOUS
    <3>1. v \in Blocks /\ Present(c, v)
      BY <1>1, <2>1, Geometry, ValidEntryIsIndexed
    <3> QED
      BY <1>3, <3>1
  <2>4. ~victim.valid => v = NoBlock
    <3> HIDE DEF c
    <3> QED
      BY <1>1, <2>1 DEF NoGhost
  <2> HIDE DEF victim
  \* What the eviction leaves.
  <2>5. /\ GoodState(e)
        /\ e.llc.tag = c.tag
        /\ s.aborted => e.aborted
        /\ \A x \in Blocks : x # v => e.dir[x] = s.dir[x]
        /\ victim.valid => e.dir[v] = NoEntry
    <3>1. CASE ~victim.valid
      BY <3>1
    <3>2. CASE victim.valid
      <4> DEFINE d == L1sDeallocate(s, v)
                 isDirty == EntryOf(LLC, d.llc, v).dirty
      <4>1. v \in Blocks /\ Present(c, v)
        BY <2>3, <3>2
      <4> HIDE DEF v
      <4>2. /\ GoodState(d)
            /\ d.llc.tag = c.tag
            /\ \A x \in Blocks : x # v => d.dir[x] = s.dir[x]
            /\ s.aborted => d.aborted
        BY <4>1, L1sDeallocateGood
      <4>3. e = LLCSignalWB(d, v)
        BY <3>2 DEF v
      <4> HIDE DEF d, e
      <4>4. Present(d.llc, v)
        BY <4>1, <4>2 DEF Present
      <4>5. isDirty \in BOOLEAN
        <5>1. GoodCache(LLC, d.llc)
          BY <4>2 DEF GoodState
        <5>2. EntryOf(LLC, d.llc, v) \in Lines
          BY <4>1, <4>4, <5>1, Geometry, IndexedEntry DEF EntryOf
        <5> QED
          BY <5>2 DEF Lines
      <4>6. e = WBFromLLC(d, v, isDirty)
        BY <4>3, <4>4 DEF LLCSignalWB
      <4> HIDE DEF isDirty
      <4>7. /\ GoodState(e)
            /\ e.llc = d.llc
            /\ e.dir = [d.dir EXCEPT ![v] = NoEntry]
            /\ d.aborted => e.aborted
        BY <4>1, <4>2, <4>5, <4>6, WBFromLLCGood
      <4>8. d.dir \in Directories
        BY <4>2 DEF GoodState, StateRecords
      <4>9. \A x \in Blocks : e.dir[x] = IF x = v THEN NoEntry ELSE d.dir[x]
        BY <4>7, <4>8 DEF Directories
      <4> QED
        BY <4>1, <4>2, <4>7, <4>9
    <3> QED
      BY <3>1, <3>2
  <2> HIDE DEF e, v
  <2>6. GoodCache(LLC, e.llc) /\ NoGhost(LLC, e.llc) /\ ~Present(e.llc, b)
    BY <1>3, <2>5 DEF GoodState, Present
  <2>7. /\ GoodCache(LLC, f)
        /\ NoGhost(LLC, f)
        /\ \A x \in Blocks :
             Present(f, x) <=>
               x = b \/ (/\ Present(e.llc, x)
                         /\ x # e.llc.line[SetOf(LLC, b)][w].addr)
    BY <2>1, <2>6, Geometry, FillGood
  <2>8. \A x \in Blocks : Present(e.llc, x) <=> Present(c, x)
    BY <2>5 DEF Present
  <2>9. \A x \in Blocks :
          x = e.llc.line[SetOf(LLC, b)][w].addr <=> x = v
    <3>1. TagsAgree(LLC, c) /\ TagsAgree(LLC, e.llc)
      BY <1>1, <2>6 DEF GoodCache
    <3> HIDE DEF c
    <3>2. \A x \in Blocks :
            (e.llc.line[SetOf(LLC, b)][w].addr = x) <=>
              (c.line[SetOf(LLC, b)][w].addr = x)
      BY <2>1, <2>5, <3>1 DEF TagsAgree
    <3> QED
      BY <3>2 DEF v, victim
  <2> HIDE DEF f
  <2>10. /\ GoodState(u)
         /\ u.llc = f /\ u.dir = e.dir /\ u.aborted = e.aborted
    BY <2>5, <2>7, SetLLCGood
  <2> HIDE DEF u
  <2>11. \A x \in Blocks :
           Present(t.llc, x) <=> x = b \/ (Present(s.llc, x) /\ x # v)
    BY <2>2, <2>7, <2>8, <2>9, <2>10
  <2>12. /\ GoodState(t) /\ Present(t.llc, b)
         /\ s.aborted => t.aborted
         /\ t.dir = e.dir
    BY <2>2, <2>5, <2>10, <2>11
  <2>13. b # v
    BY <2>3, <2>4, Geometry, GeometryFacts
  <2>14. ASSUME NEW x \in Blocks, x # b, EntryOK(s, x)
         PROVE  EntryOK(t, x)
    <3>1. CASE x # v
      BY <2>5, <2>11, <2>12, <2>14, <3>1, SameEntryOK
    <3>2. CASE x = v
      <4>1. victim.valid
        BY <2>4, <3>2, Geometry, GeometryFacts
      <4>2. t.dir[x] = NoEntry
        BY <2>5, <2>12, <3>2, <4>1
      <4>3. ~Present(t.llc, x)
        BY <2>11, <2>14, <3>2
      <4> QED
        BY <4>2, <4>3
        DEF EntryOK, EntryMatches, HasEntry, StateOf, TrackersOf, NoEntry
    <3> QED
      BY <3>1, <3>2
  <2>15. t.dir[b] = s.dir[b]
    BY <2>5, <2>12, <2>13
  <2> QED
    BY <2>12, <2>14, <2>15 DEF t
<1> QED
  BY <1>2, <1>3

-----------------------------------------------------------------------------
\* The writes to an existing entry: what they change and that they change no
\* other.
LEMMA SetStateEntry ==
  ASSUME NEW d \in Directories, NEW b \in Blocks, NEW state \in States
  PROVE  LET e == SetState(d, b, state)
         IN /\ e \in Directories /\ HasEntry(e, b)
            /\ StateOf(e, b) = state /\ TrackersOf(e, b) = TrackersOf(d, b)
            /\ \A x \in Blocks : x # b => e[x] = d[x]
<1> DEFINE st == StateOf(d, b)
           tr == TrackersOf(d, b)
<1>1. d[b] = [state |-> st, trackers |-> tr] /\ tr \in SUBSET Cores
  BY DirectoryEntry
<1>2. [d[b] EXCEPT !.state = state] = [state |-> state, trackers |-> tr]
  BY <1>1
<1>3. SetState(d, b, state) = [d EXCEPT ![b] = [state |-> state, trackers |-> tr]]
  BY <1>2 DEF SetState
<1> HIDE DEF st, tr
<1>4. \A u \in SUBSET Cores :
        LET e == [d EXCEPT ![b] = [state |-> state, trackers |-> u]]
        IN /\ e \in Directories /\ HasEntry(e, b)
           /\ StateOf(e, b) = state /\ TrackersOf(e, b) = u
           /\ \A x \in Blocks : x # b => e[x] = d[x]
  BY DirectoryUpdate
<1>5. LET e == SetState(d, b, state)
      IN /\ e \in Directories /\ HasEntry(e, b)
         /\ StateOf(e, b) = state /\ TrackersOf(e, b) = tr
         /\ \A x \in Blocks : x # b => e[x] = d[x]
  BY <1>1, <1>3, <1>4
<1> QED
  BY <1>5 DEF tr

\* The same for the trackers.
LEMMA SetTrackersEntry ==
  ASSUME NEW d \in Directories, NEW b \in Blocks, HasEntry(d, b), NEW n \in Cores
  PROVE  /\ LET e == SetTrackerToEntry(d, b, n)
            IN /\ e \in Directories /\ HasEntry(e, b)
               /\ StateOf(e, b) = StateOf(d, b) /\ TrackersOf(e, b) = {n}
               /\ \A x \in Blocks : x # b => e[x] = d[x]
         /\ LET e == AddTrackerToEntry(d, b, n)
            IN /\ e \in Directories /\ HasEntry(e, b)
               /\ StateOf(e, b) = StateOf(d, b)
               /\ TrackersOf(e, b) = TrackersOf(d, b) \cup {n}
               /\ \A x \in Blocks : x # b => e[x] = d[x]
<1> DEFINE st == StateOf(d, b)
           tr == TrackersOf(d, b)
<1>1. d[b] = [state |-> st, trackers |-> tr]
      /\ tr \in SUBSET Cores /\ st \in States
  BY DirectoryEntry
<1>2. \A u : [d[b] EXCEPT !.trackers = u] = [state |-> st, trackers |-> u]
  BY <1>1
<1>3. SetTrackerToEntry(d, b, n) =
        [d EXCEPT ![b] = [state |-> st, trackers |-> {n}]]
  BY <1>2 DEF SetTrackerToEntry
<1>4. AddTrackerToEntry(d, b, n) =
        [d EXCEPT ![b] = [state |-> st, trackers |-> tr \cup {n}]]
  BY <1>2 DEF AddTrackerToEntry, TrackersOf
<1>5. {n} \in SUBSET Cores /\ tr \cup {n} \in SUBSET Cores
  BY <1>1
<1> HIDE DEF st, tr
<1>6. \A u \in SUBSET Cores :
        LET e == [d EXCEPT ![b] = [state |-> st, trackers |-> u]]
        IN /\ e \in Directories /\ HasEntry(e, b)
           /\ StateOf(e, b) = st /\ TrackersOf(e, b) = u
           /\ \A x \in Blocks : x # b => e[x] = d[x]
  BY <1>1, DirectoryUpdate
<1>7. LET e == SetTrackerToEntry(d, b, n)
      IN /\ e \in Directories /\ HasEntry(e, b)
         /\ StateOf(e, b) = st /\ TrackersOf(e, b) = {n}
         /\ \A x \in Blocks : x # b => e[x] = d[x]
  BY <1>3, <1>5, <1>6
<1>8. LET e == AddTrackerToEntry(d, b, n)
      IN /\ e \in Directories /\ HasEntry(e, b)
         /\ StateOf(e, b) = st /\ TrackersOf(e, b) = tr \cup {n}
         /\ \A x \in Blocks : x # b => e[x] = d[x]
  BY <1>4, <1>5, <1>6
<1> QED
  BY <1>7, <1>8 DEF st, tr

-----------------------------------------------------------------------------
\* The steps of an access in terms of OKBut.  What is written to the entry of
\* the accessed block disturbs nothing else.
LEMMA SetDirOKBut ==
  ASSUME NEW s, NEW b \in Blocks, OKBut(s, b), NEW d \in Directories,
         \A x \in Blocks : x # b => d[x] = s.dir[x]
  PROVE  LET t == [s EXCEPT !.dir = d]
         IN /\ OKBut(t, b)
            /\ t.dir = d /\ t.llc = s.llc /\ t.l1 = s.l1
            /\ t.aborted = s.aborted
<1> DEFINE t == [s EXCEPT !.dir = d]
<1>1. /\ GoodState(t)
      /\ t.dir = d /\ t.llc = s.llc /\ t.l1 = s.l1 /\ t.aborted = s.aborted
  BY SetDirGood DEF OKBut
<1> HIDE DEF t
<1>2. \A x \in Blocks \ {b} : EntryOK(s, x) => EntryOK(t, x)
  BY <1>1, SameEntryOK
<1> QED
  BY <1>1, <1>2 DEF OKBut, t

\* An access of an L1 keeps what is in order in order.
LEMMA L1AccessOKBut ==
  ASSUME NEW s, NEW b \in Blocks, OKBut(s, b), NEW n \in Cores,
         NEW k \in L1Kinds, NEW isWrite \in BOOLEAN
  PROVE  LET t == L1Access(s, n, k, b, isWrite)
         IN /\ OKBut(t, b)
            /\ t.dir[b] = s.dir[b]
            /\ Present(t.llc, b) <=> Present(s.llc, b)
            /\ s.aborted => t.aborted
<1> DEFINE t == L1Access(s, n, k, b, isWrite)
<1>1. /\ GoodState(t) /\ t.llc.tag = s.llc.tag /\ t.dir[b] = s.dir[b]
      /\ s.aborted => t.aborted
      /\ \A x \in Blocks : EntryOK(s, x) => t.aborted \/ EntryOK(t, x)
  BY L1AccessGood DEF OKBut
<1> HIDE DEF t
<1> QED
  BY <1>1 DEF OKBut, Present, t

\* An access of the LLC, and it puts the block there.
LEMMA LLCAccessOKBut ==
  ASSUME NEW s, NEW b \in Blocks, OKBut(s, b),
         NEW isWrite \in BOOLEAN, NEW isPrefetch \in BOOLEAN
  PROVE  LET t == UpdateEntry(LLCAccess(s, b, isWrite, isPrefetch), b)
         IN /\ OKBut(t, b)
            /\ t.dir[b] = s.dir[b]
            /\ Present(t.llc, b)
            /\ s.aborted => t.aborted
<1> DEFINE u == LLCAccess(s, b, isWrite, isPrefetch)
           t == UpdateEntry(u, b)
<1>1. /\ GoodState(u) /\ Present(u.llc, b) /\ u.dir[b] = s.dir[b]
      /\ s.aborted => u.aborted
      /\ \A x \in Blocks : x # b /\ EntryOK(s, x) => EntryOK(u, x)
  BY LLCAccessGood DEF OKBut
<1> HIDE DEF u
<1>2. HasEntry(u.dir, b) \in BOOLEAN
  BY DEF HasEntry
<1>3. /\ GoodState(t)
      /\ t.llc = u.llc /\ t.dir = u.dir
      /\ u.aborted => t.aborted
  <2>1. \A p \in BOOLEAN :
          LET v == Require(u, p)
          IN /\ GoodState(v) /\ v.llc = u.llc /\ v.dir = u.dir
             /\ v.aborted = (u.aborted \/ ~p)
    BY <1>1, RequireGood
  <2>2. t = Require(u, HasEntry(u.dir, b))
    BY DEF UpdateEntry
  <2> HIDE DEF t
  <2> QED
    BY <1>2, <2>1, <2>2
<1> HIDE DEF t
<1>4. \A x \in Blocks : EntryOK(u, x) => EntryOK(t, x)
  BY <1>3, SameEntryOK
<1> QED
  BY <1>1, <1>3, <1>4 DEF OKBut, t, u

\* A count.
LEMMA CountOKBut ==
  ASSUME NEW s, NEW b \in Blocks, OKBut(s, b), NEW x \in Stats
  PROVE  LET t == Count(s, x)
         IN /\ OKBut(t, b)
            /\ t.dir = s.dir /\ t.llc = s.llc
            /\ t.aborted = s.aborted
<1> DEFINE t == Count(s, x)
<1>1. /\ GoodState(t)
      /\ t.dir = s.dir /\ t.llc = s.llc /\ t.aborted = s.aborted
  BY CountGood DEF OKBut
<1> HIDE DEF t
<1>2. \A y \in Blocks : EntryOK(s, y) => EntryOK(t, y)
  BY <1>1, SameEntryOK
<1> QED
  BY <1>1, <1>2 DEF OKBut, t

\* Cores that drop the block.
LEMMA L1sDropOKBut ==
  ASSUME NEW s, NEW b \in Blocks, OKBut(s, b), NEW nodes
  PROVE  LET t == L1sDrop(s, nodes, b)
         IN /\ OKBut(t, b)
            /\ t.dir = s.dir /\ t.llc = s.llc
            /\ t.aborted = s.aborted
<1> DEFINE t == L1sDrop(s, nodes, b)
<1>1. /\ GoodState(t)
      /\ t.dir = s.dir /\ t.llc = s.llc /\ t.aborted = s.aborted
  BY L1sDropGood DEF OKBut
<1> HIDE DEF t
<1>2. \A y \in Blocks : EntryOK(s, y) => EntryOK(t, y)
  BY <1>1, SameEntryOK
<1> QED
  BY <1>1, <1>2 DEF OKBut, t

\* The owner that writes the block back and keeps it leaves every entry alone.
LEMMA WriteBackByOwnerOKBut ==
  ASSUME NEW s, NEW r \in Requests, OKBut(s, r.block), NEW m \in Cores,
         Kind(r) \in L1Kinds, r.block \in Blocks
  PROVE  LET t == WriteBackByOwner(s, m, r)
         IN /\ OKBut(t, r.block)
            /\ t.dir = s.dir
            /\ Present(t.llc, r.block) <=> Present(s.llc, r.block)
            /\ s.aborted => t.aborted
<1> DEFINE b == r.block
           c == s.l1[m][Kind(r)]
           isDirty == EntryOf(L1, c, b).dirty
           t == WriteBackByOwner(s, m, r)
<1>1. CASE ~Present(c, b)
  BY <1>1 DEF WriteBackByOwner, L1SignalWB
<1>2. CASE Present(c, b)
  <2>1. GoodState(s) /\ GoodCache(L1, c) /\ b \in Blocks
    BY DEF OKBut, GoodState
  <2>2. isDirty \in BOOLEAN
    <3> HIDE DEF c
    <3>1. EntryOf(L1, c, b) \in Lines
      BY <1>2, <2>1, Geometry, IndexedEntry DEF EntryOf
    <3> QED
      BY <3>1 DEF Lines
  <2>3. t = WBFromL1(s, m, b, isDirty, TRUE)
    BY <1>2 DEF WriteBackByOwner, L1SignalWB
  <2> HIDE DEF isDirty, t, b
  <2>4. \A kept \in BOOLEAN :
          LET v == WBFromL1(s, m, b, isDirty, kept)
          IN /\ GoodState(v)
             /\ v.llc.tag = s.llc.tag
             /\ kept => v.dir = s.dir
             /\ v.aborted = (s.aborted \/ ~HasEntry(s.dir, b))
    BY <2>1, <2>2, WBFromL1Good
  <2>5. /\ GoodState(t) /\ t.llc.tag = s.llc.tag /\ t.dir = s.dir
        /\ s.aborted => t.aborted
    BY <2>3, <2>4
  <2>6. \A x \in Blocks : Present(t.llc, x) <=> Present(s.llc, x)
    BY <2>5 DEF Present
  <2>7. \A x \in Blocks : EntryOK(s, x) => EntryOK(t, x)
    BY <2>5, <2>6, SameEntryOK
  <2> QED
    BY <2>1, <2>5, <2>6, <2>7 DEF OKBut, b, t
<1> QED
  BY <1>1, <1>2

\* An access may end when the entry of its block is in order again.
LEMMA OKButAllOK ==
  ASSUME NEW s, NEW b \in Blocks
  PROVE  /\ AllOK(s) => OKBut(s, b)
         /\ OKBut(s, b) /\ EntryOK(s, b) => AllOK(s)
BY DEF AllOK, OKBut

\* What is said of the entry of the accessed block in the branches.
LEMMA EntryOKOf ==
  ASSUME NEW s, NEW b \in Blocks, HasEntry(s.dir, b), Present(s.llc, b)
  PROVE  /\ (/\ StateOf(s.dir, b) \in {"EXCLUSIVE_L1", "MODIFIED_L1"}
             /\ \E n \in Cores : TrackersOf(s.dir, b) = {n}) => EntryOK(s, b)
         /\ (/\ StateOf(s.dir, b) = "SHARED_L1"
             /\ TrackersOf(s.dir, b) # {}) => EntryOK(s, b)
         /\ (/\ StateOf(s.dir, b) = "CLEAN_LLC"
             /\ TrackersOf(s.dir, b) = {}) => EntryOK(s, b)
BY DEF EntryOK, EntryMatches

-----------------------------------------------------------------------------
\* A request has a block, a kind of L1 and a direction.
LEMMA RequestFacts ==
  ASSUME NEW r \in Requests
  PROVE  r.block \in Blocks /\ Kind(r) \in L1Kinds /\ IsWrite(r) \in BOOLEAN
BY DEF Requests, Blocks, Kind, L1Kinds, IsWrite

\* The branches of Hierarchy::handleAccess.  A block that is nowhere comes to
\* the LLC and to one L1: its entry is new, exclusive, with that core.
LEMMA FetchFromMemoryOK ==
  ASSUME NEW s, AllOK(s), ~s.aborted, NEW n \in Cores, NEW r \in Requests,
         StateOf(AddEntry(s.dir, r.block), r.block) = "NOT_PRESENT"
  PROVE  AllOK(FetchFromMemory(s, n, r))
<1> DEFINE b == r.block
           k == Kind(r)
           isWrite == IsWrite(r)
           d0 == AddEntry(s.dir, b)
           d1 == SetTrackerToEntry(d0, b, n)
           s1 == [s EXCEPT !.dir = d1]
           s2 == L1Access(s1, n, k, b, isWrite)
           s3 == UpdateEntry(LLCAccess(s2, b, isWrite, FALSE), b)
           d4 == SetState(s3.dir, b, "EXCLUSIVE_L1")
           s4 == [s3 EXCEPT !.dir = d4]
           x == IF isWrite THEN "writeFetch" ELSE "readFetch"
           s5 == Count(s4, x)
<1>1. b \in Blocks /\ k \in L1Kinds /\ isWrite \in BOOLEAN
  BY RequestFacts
<1>2. FetchFromMemory(s, n, r) = s5
  BY DEF FetchFromMemory
<1>3. StateOf(d0, b) = "NOT_PRESENT"
  OBVIOUS
<1>4. OKBut(s, b) /\ EntryOK(s, b) /\ s.dir \in Directories
  BY <1>1 DEF AllOK, OKBut, GoodState, StateRecords
<1> HIDE DEF b, k, isWrite
<1>5. ~HasEntry(s.dir, b)
  BY <1>3, <1>4 DEF AddEntry, EntryOK
<1>6. /\ d0 \in Directories /\ HasEntry(d0, b) /\ TrackersOf(d0, b) = {}
      /\ \A y \in Blocks : y # b => d0[y] = s.dir[y]
  BY <1>1, <1>4, <1>5
  DEF AddEntry, Directories, Entries, NoEntry, HasEntry, TrackersOf, States
<1> HIDE DEF d0
<1>7. /\ d1 \in Directories /\ HasEntry(d1, b)
      /\ TrackersOf(d1, b) = {n}
      /\ \A y \in Blocks : y # b => d1[y] = s.dir[y]
  BY <1>1, <1>6, SetTrackersEntry
<1> HIDE DEF d1
<1>8. OKBut(s1, b) /\ s1.dir = d1
  BY <1>1, <1>4, <1>7, SetDirOKBut
<1> HIDE DEF s1
<1>9. OKBut(s2, b) /\ s2.dir[b] = d1[b]
  BY <1>1, <1>8, L1AccessOKBut
<1> HIDE DEF s2
<1>10. OKBut(s3, b) /\ s3.dir[b] = d1[b] /\ Present(s3.llc, b)
  <2>1. \A p \in BOOLEAN :
          LET t == UpdateEntry(LLCAccess(s2, b, isWrite, p), b)
          IN OKBut(t, b) /\ t.dir[b] = s2.dir[b] /\ Present(t.llc, b)
    BY <1>1, <1>9, LLCAccessOKBut
  <2> QED
    BY <1>9, <2>1
<1> HIDE DEF s3
<1>11. s3.dir \in Directories /\ TrackersOf(s3.dir, b) = {n}
  BY <1>7, <1>10 DEF OKBut, GoodState, StateRecords, TrackersOf
<1>12. /\ d4 \in Directories /\ HasEntry(d4, b)
       /\ StateOf(d4, b) = "EXCLUSIVE_L1" /\ TrackersOf(d4, b) = {n}
       /\ \A y \in Blocks : y # b => d4[y] = s3.dir[y]
  <2>1. "EXCLUSIVE_L1" \in States
    BY DEF States
  <2> QED
    BY <1>1, <1>11, <2>1, SetStateEntry
<1> HIDE DEF d4
<1>13. OKBut(s4, b) /\ s4.dir = d4 /\ s4.llc = s3.llc
  BY <1>1, <1>10, <1>12, SetDirOKBut
<1> HIDE DEF s4
<1>14. x \in Stats
  BY DEF Stats
<1> HIDE DEF x
<1>15. OKBut(s5, b) /\ s5.dir = d4 /\ s5.llc = s3.llc
  BY <1>1, <1>13, <1>14, CountOKBut
<1> HIDE DEF s5
<1>16. EntryOK(s5, b)
  BY <1>1, <1>10, <1>12, <1>15, EntryOKOf
<1>17. AllOK(s5)
  BY <1>1, <1>15, <1>16, OKButAllOK
<1> QED
  BY <1>2, <1>17

\* A block of the LLC comes to one L1: it was tracked by nobody and is exclusive.
LEMMA FetchFromLLCOK ==
  ASSUME NEW s, AllOK(s), ~s.aborted, NEW n \in Cores, NEW r \in Requests,
         HasEntry(s.dir, r.block)
  PROVE  AllOK(FetchFromLLC(s, n, r))
<1> DEFINE b == r.block
           k == Kind(r)
           isWrite == IsWrite(r)
           d0 == SetState(s.dir, b, "EXCLUSIVE_L1")
           d1 == SetTrackerToEntry(d0, b, n)
           s1 == [s EXCEPT !.dir = d1]
           s2 == L1Access(s1, n, k, b, isWrite)
           s3 == LLCAccess(s2, b, isWrite, FALSE)
           isPrefetched == Present(s3.llc, b) /\ EntryOf(LLC, s3.llc, b).prefetch
           s4 == IF isPrefetched THEN Count(s3, "hitPrefetch") ELSE s3
           c == ResetPrefetchFlag(LLC, s4.llc, b)
           s5 == [s4 EXCEPT !.llc = c]
           s6 == UpdateEntry(s5, b)
<1>1. b \in Blocks /\ k \in L1Kinds /\ isWrite \in BOOLEAN
  BY RequestFacts
<1>2. FetchFromLLC(s, n, r) = s6
  BY DEF FetchFromLLC
<1>3. OKBut(s, b) /\ s.dir \in Directories
  BY <1>1 DEF AllOK, OKBut, GoodState, StateRecords
<1> HIDE DEF b, k, isWrite
<1>4. /\ d0 \in Directories /\ HasEntry(d0, b)
      /\ StateOf(d0, b) = "EXCLUSIVE_L1"
      /\ \A y \in Blocks : y # b => d0[y] = s.dir[y]
  <2>1. "EXCLUSIVE_L1" \in States
    BY DEF States
  <2> QED
    BY <1>1, <1>3, <2>1, SetStateEntry
<1> HIDE DEF d0
<1>5. /\ d1 \in Directories /\ HasEntry(d1, b)
      /\ StateOf(d1, b) = "EXCLUSIVE_L1" /\ TrackersOf(d1, b) = {n}
      /\ \A y \in Blocks : y # b => d1[y] = s.dir[y]
  BY <1>1, <1>4, SetTrackersEntry
<1> HIDE DEF d1
<1>6. OKBut(s1, b) /\ s1.dir = d1
  BY <1>1, <1>3, <1>5, SetDirOKBut
<1> HIDE DEF s1
<1>7. OKBut(s2, b) /\ s2.dir[b] = d1[b]
  BY <1>1, <1>6, L1AccessOKBut
<1> HIDE DEF s2
<1>8. /\ GoodState(s3) /\ Present(s3.llc, b) /\ s3.dir[b] = d1[b]
      /\ s2.aborted => s3.aborted
      /\ \A y \in Blocks : y # b /\ EntryOK(s2, y) => EntryOK(s3, y)
  <2>1. \A p \in BOOLEAN :
          LET t == LLCAccess(s2, b, isWrite, p)
          IN /\ GoodState(t) /\ Present(t.llc, b) /\ t.dir[b] = s2.dir[b]
             /\ s2.aborted => t.aborted
             /\ \A y \in Blocks : y # b /\ EntryOK(s2, y) => EntryOK(t, y)
    BY <1>1, <1>7, LLCAccessGood DEF OKBut
  <2> QED
    BY <1>7, <2>1
<1> HIDE DEF s3
<1>9. OKBut(s3, b)
  BY <1>7, <1>8 DEF OKBut
<1>10. OKBut(s4, b) /\ s4.dir = s3.dir /\ s4.llc = s3.llc
  <2>1. "hitPrefetch" \in Stats
    BY DEF Stats
  <2> HIDE DEF isPrefetched
  <2> QED
    BY <1>1, <1>9, <2>1, CountOKBut
<1> HIDE DEF s4
<1>11. GoodCache(LLC, c) /\ c.tag = s4.llc.tag /\ NoGhost(LLC, c)
  BY <1>1, <1>10, Geometry, ResetPrefetchFlagGood DEF OKBut, GoodState
<1> HIDE DEF c
<1>12. /\ GoodState(s5) /\ s5.dir = s4.dir /\ s5.llc = c
       /\ s5.aborted = s4.aborted
  BY <1>10, <1>11, SetLLCGood DEF OKBut
<1> HIDE DEF s5
<1>13. HasEntry(s5.dir, b) \in BOOLEAN
  BY DEF HasEntry
<1>14. /\ GoodState(s6) /\ s6.dir = s4.dir /\ s6.llc = c
       /\ s4.aborted => s6.aborted
  <2>1. \A p \in BOOLEAN :
          LET t == Require(s5, p)
          IN /\ GoodState(t) /\ t.llc = s5.llc /\ t.dir = s5.dir
             /\ t.aborted = (s5.aborted \/ ~p)
    BY <1>12, RequireGood
  <2>2. s6 = Require(s5, HasEntry(s5.dir, b))
    BY DEF UpdateEntry
  <2> HIDE DEF s6
  <2> QED
    BY <1>12, <1>13, <2>1, <2>2
<1> HIDE DEF s6
<1>15. \A y \in Blocks : Present(s6.llc, y) <=> Present(s4.llc, y)
  BY <1>11, <1>14 DEF Present
<1>16. \A y \in Blocks : EntryOK(s4, y) => EntryOK(s6, y)
  BY <1>14, <1>15, SameEntryOK
<1>17. OKBut(s6, b)
  BY <1>10, <1>14, <1>16 DEF OKBut
<1>18. Present(s6.llc, b) /\ s6.dir[b] = d1[b]
  BY <1>1, <1>8, <1>10, <1>14, <1>15
<1>19. /\ HasEntry(s6.dir, b) /\ StateOf(s6.dir, b) = "EXCLUSIVE_L1"
       /\ TrackersOf(s6.dir, b) = {n}
  BY <1>5, <1>18 DEF HasEntry, StateOf, TrackersOf
<1>20. EntryOK(s6, b)
  BY <1>1, <1>18, <1>19, EntryOKOf
<1> QED
  BY <1>1, <1>2, <1>17, <1>20, OKButAllOK

\* The owner stays the owner.
LEMMA AccessAsOwnerOK ==
  ASSUME NEW s, AllOK(s), ~s.aborted, NEW n \in Cores, NEW r \in Requests,
         HasEntry(s.dir, r.block),
         StateOf(s.dir, r.block) \in {"EXCLUSIVE_L1", "MODIFIED_L1"}
  PROVE  AllOK(AccessAsOwner(s, n, r))
<1> DEFINE b == r.block
           k == Kind(r)
           isWrite == IsWrite(r)
           isFirst == IsWrite(r) /\ StateOf(s.dir, b) = "EXCLUSIVE_L1"
           d1 == SetState(s.dir, b, "MODIFIED_L1")
           s1 == IF isFirst THEN [s EXCEPT !.dir = d1] ELSE s
           s2 == L1Access(s1, n, k, b, isWrite)
<1>1. b \in Blocks /\ k \in L1Kinds /\ isWrite \in BOOLEAN
  BY RequestFacts
<1>2. AccessAsOwner(s, n, r) = s2
  BY DEF AccessAsOwner
<1>3. OKBut(s, b) /\ s.dir \in Directories /\ EntryOK(s, b)
      /\ HasEntry(s.dir, b)
      /\ StateOf(s.dir, b) \in {"EXCLUSIVE_L1", "MODIFIED_L1"}
  BY <1>1 DEF AllOK, OKBut, GoodState, StateRecords
<1> HIDE DEF b, k, isWrite, isFirst
<1>4. Present(s.llc, b) /\ \E m \in Cores : TrackersOf(s.dir, b) = {m}
  BY <1>3 DEF EntryOK, EntryMatches
<1>5. /\ d1 \in Directories /\ HasEntry(d1, b)
      /\ StateOf(d1, b) = "MODIFIED_L1"
      /\ TrackersOf(d1, b) = TrackersOf(s.dir, b)
      /\ \A y \in Blocks : y # b => d1[y] = s.dir[y]
  <2>1. "MODIFIED_L1" \in States
    BY DEF States
  <2> QED
    BY <1>1, <1>3, <2>1, SetStateEntry
<1> HIDE DEF d1
<1>6. OKBut(s1, b) /\ EntryOK(s1, b)
  <2>1. CASE isFirst
    <3>1. OKBut(s1, b) /\ s1.dir = d1 /\ s1.llc = s.llc
      BY <1>1, <1>3, <1>5, <2>1, SetDirOKBut
    <3> HIDE DEF s1
    <3>2. EntryOK(s1, b)
      BY <1>1, <1>4, <1>5, <3>1, EntryOKOf
    <3> QED
      BY <3>1, <3>2
  <2>2. CASE ~isFirst
    BY <1>3, <2>2
  <2> QED
    BY <2>1, <2>2
<1> HIDE DEF s1
<1>7. /\ OKBut(s2, b) /\ s2.dir[b] = s1.dir[b]
      /\ Present(s2.llc, b) <=> Present(s1.llc, b)
  BY <1>1, <1>6, L1AccessOKBut
<1> HIDE DEF s2
<1>8. EntryOK(s2, b)
  BY <1>1, <1>6, <1>7, SameEntryOK
<1> QED
  BY <1>1, <1>2, <1>7, <1>8, OKButAllOK

\* The end of the branches that go to the LLC and then to the L1 of the core: the
\* entry they wrote is in order, for the LLC has the block.
LEMMA ThroughLLCToL1OK ==
  ASSUME NEW s, NEW b \in Blocks, OKBut(s, b), HasEntry(s.dir, b),
         \/ /\ StateOf(s.dir, b) = "EXCLUSIVE_L1"
            /\ \E m \in Cores : TrackersOf(s.dir, b) = {m}
         \/ /\ StateOf(s.dir, b) = "SHARED_L1"
            /\ TrackersOf(s.dir, b) # {},
         NEW n \in Cores, NEW k \in L1Kinds, NEW isWrite \in BOOLEAN
  PROVE  AllOK(L1Access(UpdateEntry(LLCAccess(s, b, isWrite, FALSE), b),
                        n, k, b, isWrite))
<1> DEFINE s1 == UpdateEntry(LLCAccess(s, b, isWrite, FALSE), b)
           s2 == L1Access(s1, n, k, b, isWrite)
<1>1. OKBut(s1, b) /\ s1.dir[b] = s.dir[b] /\ Present(s1.llc, b)
  <2>1. \A p \in BOOLEAN :
          LET t == UpdateEntry(LLCAccess(s, b, isWrite, p), b)
          IN OKBut(t, b) /\ t.dir[b] = s.dir[b] /\ Present(t.llc, b)
    BY LLCAccessOKBut
  <2> QED
    BY <2>1
<1> HIDE DEF s1
<1>2. OKBut(s2, b) /\ s2.dir[b] = s1.dir[b] /\ Present(s2.llc, b)
  BY <1>1, L1AccessOKBut
<1> HIDE DEF s2
<1>3. /\ HasEntry(s2.dir, b)
      /\ StateOf(s2.dir, b) = StateOf(s.dir, b)
      /\ TrackersOf(s2.dir, b) = TrackersOf(s.dir, b)
  BY <1>1, <1>2 DEF HasEntry, StateOf, TrackersOf
<1>4. EntryOK(s2, b)
  BY <1>2, <1>3, EntryOKOf
<1>5. AllOK(s2)
  BY <1>2, <1>4, OKButAllOK
<1> QED
  BY <1>5 DEF s2, s1

\* A reader joins the owner: the block is shared.
LEMMA ShareWithOwnerOK ==
  ASSUME NEW s, AllOK(s), NEW n \in Cores, NEW m \in Cores,
         NEW r \in Requests, HasEntry(s.dir, r.block)
  PROVE  AllOK(ShareWithOwner(s, n, m, r))
<1> DEFINE b == r.block
           k == Kind(r)
           s1 == WriteBackByOwner(s, m, r)
           d1 == AddTrackerToEntry(s1.dir, b, n)
           d2 == SetState(d1, b, "SHARED_L1")
           s2 == [s1 EXCEPT !.dir = d2]
<1>1. b \in Blocks /\ k \in L1Kinds
  BY RequestFacts
<1>2. OKBut(s, b) /\ s.dir \in Directories /\ HasEntry(s.dir, b)
  BY <1>1 DEF AllOK, OKBut, GoodState, StateRecords
<1>3. ShareWithOwner(s, n, m, r) =
        L1Access(UpdateEntry(LLCAccess(s2, b, FALSE, FALSE), b), n, k, b, FALSE)
  BY DEF ShareWithOwner
<1>4. OKBut(s1, b) /\ s1.dir = s.dir
  BY <1>1, <1>2, WriteBackByOwnerOKBut
<1> HIDE DEF b, k, s1
<1>5. /\ d1 \in Directories /\ HasEntry(d1, b)
      /\ TrackersOf(d1, b) = TrackersOf(s.dir, b) \cup {n}
      /\ \A x \in Blocks : x # b => d1[x] = s1.dir[x]
  BY SMTT(30), <1>1, <1>2, <1>4, SetTrackersEntry
<1> HIDE DEF d1
<1>6. /\ d2 \in Directories /\ HasEntry(d2, b)
      /\ StateOf(d2, b) = "SHARED_L1"
      /\ TrackersOf(d2, b) = TrackersOf(d1, b)
      /\ \A x \in Blocks : x # b => d2[x] = s1.dir[x]
  <2>1. "SHARED_L1" \in States
    BY DEF States
  <2> QED
    BY <1>1, <1>5, <2>1, SetStateEntry
<1> HIDE DEF d2
<1>7. OKBut(s2, b) /\ s2.dir = d2
  BY <1>1, <1>4, <1>6, SetDirOKBut
<1> HIDE DEF s2
<1>8. /\ HasEntry(s2.dir, b) /\ StateOf(s2.dir, b) = "SHARED_L1"
      /\ TrackersOf(s2.dir, b) # {}
  BY <1>5, <1>6, <1>7
<1>9. \A isWrite \in BOOLEAN :
        AllOK(L1Access(UpdateEntry(LLCAccess(s2, b, isWrite, FALSE), b),
                       n, k, b, isWrite))
  BY <1>1, <1>7, <1>8, ThroughLLCToL1OK
<1> QED
  BY <1>3, <1>9

\* Whoever held the block has dropped it: the writer becomes its owner.
LEMMA TakenOK ==
  ASSUME NEW s, NEW b \in Blocks, OKBut(s, b), HasEntry(s.dir, b), NEW nodes,
         NEW n \in Cores, NEW k \in L1Kinds
  PROVE  LET taken == [L1sDrop(s, nodes, b) EXCEPT
                         !.dir = SetState(SetTrackerToEntry(@, b, n), b,
                                          "EXCLUSIVE_L1")]
         IN AllOK(L1Access(UpdateEntry(LLCAccess(taken, b, TRUE, FALSE), b),
                           n, k, b, TRUE))
<1> DEFINE s1 == L1sDrop(s, nodes, b)
           d1 == SetTrackerToEntry(s1.dir, b, n)
           d2 == SetState(d1, b, "EXCLUSIVE_L1")
           taken == [s1 EXCEPT !.dir = d2]
<1>1. OKBut(s1, b) /\ s1.dir = s.dir
  BY L1sDropOKBut
<1> HIDE DEF s1
<1>2. s1.dir \in Directories
  BY <1>1 DEF OKBut, GoodState, StateRecords
<1>3. /\ d1 \in Directories /\ TrackersOf(d1, b) = {n}
      /\ \A x \in Blocks : x # b => d1[x] = s1.dir[x]
  BY <1>1, <1>2, SetTrackersEntry
<1> HIDE DEF d1
<1>4. /\ d2 \in Directories /\ HasEntry(d2, b)
      /\ StateOf(d2, b) = "EXCLUSIVE_L1"
      /\ TrackersOf(d2, b) = {n}
      /\ \A x \in Blocks : x # b => d2[x] = s1.dir[x]
  <2>1. "EXCLUSIVE_L1" \in States
    BY DEF States
  <2> QED
    BY <1>3, <2>1, SetStateEntry
<1> HIDE DEF d2
<1>5. OKBut(taken, b) /\ taken.dir = d2
  BY <1>1, <1>4, SetDirOKBut
<1> HIDE DEF taken
<1>6. \A isWrite \in BOOLEAN :
        AllOK(L1Access(UpdateEntry(LLCAccess(taken, b, isWrite, FALSE), b),
                       n, k, b, isWrite))
  BY <1>4, <1>5, ThroughLLCToL1OK
<1>7. AllOK(L1Access(UpdateEntry(LLCAccess(taken, b, TRUE, FALSE), b),
                     n, k, b, TRUE))
  BY <1>6
<1> QED
  BY <1>7 DEF taken, d2, d1, s1

\* A writer takes the block from its owner.
LEMMA TakeFromOwnerOK ==
  ASSUME NEW s, AllOK(s), NEW n \in Cores, NEW m \in Cores,
         NEW r \in Requests, HasEntry(s.dir, r.block)
  PROVE  AllOK(TakeFromOwner(s, n, m, r))
<1> DEFINE b == r.block
           k == Kind(r)
           s1 == WriteBackByOwner(s, m, r)
           taken == [L1sDrop(s1, {m}, b) EXCEPT
                       !.dir = SetState(SetTrackerToEntry(@, b, n), b,
                                        "EXCLUSIVE_L1")]
           t == L1Access(UpdateEntry(LLCAccess(taken, b, TRUE, FALSE), b),
                         n, k, b, TRUE)
<1>1. b \in Blocks /\ k \in L1Kinds
  BY RequestFacts
<1>2. OKBut(s, b) /\ HasEntry(s.dir, b)
  BY <1>1 DEF AllOK, OKBut
<1>3. TakeFromOwner(s, n, m, r) = t
  BY DEF TakeFromOwner
<1>4. OKBut(s1, b) /\ s1.dir = s.dir
  BY <1>1, <1>2, WriteBackByOwnerOKBut
<1> HIDE DEF b, k, s1
<1>5. AllOK(t)
  BY <1>1, <1>2, <1>4, TakenOK
<1> QED
  BY <1>3, <1>5

\* A writer takes the block from the sharers.
LEMMA TakeFromSharersOK ==
  ASSUME NEW s, AllOK(s), NEW n \in Cores, NEW r \in Requests,
         HasEntry(s.dir, r.block)
  PROVE  AllOK(TakeFromSharers(s, n, r))
<1> DEFINE b == r.block
           k == Kind(r)
           nodes == TrackersOf(s.dir, b)
           taken == [L1sDrop(s, nodes, b) EXCEPT
                       !.dir = SetState(SetTrackerToEntry(@, b, n), b,
                                        "EXCLUSIVE_L1")]
           t == L1Access(UpdateEntry(LLCAccess(taken, b, TRUE, FALSE), b),
                         n, k, b, TRUE)
<1>1. b \in Blocks /\ k \in L1Kinds
  BY RequestFacts
<1>2. OKBut(s, b) /\ HasEntry(s.dir, b)
  BY <1>1 DEF AllOK, OKBut
<1>3. TakeFromSharers(s, n, r) = t
  BY DEF TakeFromSharers
<1> HIDE DEF b, k, nodes
<1>4. AllOK(t)
  BY <1>1, <1>2, TakenOK
<1> QED
  BY <1>3, <1>4

\* One more reader joins the sharers.
LEMMA JoinSharersOK ==
  ASSUME NEW s, AllOK(s), ~s.aborted, NEW n \in Cores, NEW r \in Requests,
         HasEntry(s.dir, r.block), StateOf(s.dir, r.block) = "SHARED_L1"
  PROVE  AllOK(JoinSharers(s, n, r))
<1> DEFINE b == r.block
           k == Kind(r)
           d1 == AddTrackerToEntry(s.dir, b, n)
           s1 == [s EXCEPT !.dir = d1]
           s2 == L1Access(s1, n, k, b, FALSE)
<1>1. b \in Blocks /\ k \in L1Kinds
  BY RequestFacts
<1>2. OKBut(s, b) /\ s.dir \in Directories /\ HasEntry(s.dir, b)
      /\ Present(s.llc, b) /\ StateOf(s.dir, b) = "SHARED_L1"
  BY <1>1 DEF AllOK, OKBut, GoodState, StateRecords, EntryOK
<1>3. JoinSharers(s, n, r) = s2
  BY DEF JoinSharers
<1> HIDE DEF b, k
<1>4. /\ d1 \in Directories /\ HasEntry(d1, b)
      /\ StateOf(d1, b) = "SHARED_L1" /\ TrackersOf(d1, b) # {}
      /\ \A x \in Blocks : x # b => d1[x] = s.dir[x]
  <2>1. /\ d1 \in Directories /\ HasEntry(d1, b)
        /\ StateOf(d1, b) = StateOf(s.dir, b)
        /\ TrackersOf(d1, b) = TrackersOf(s.dir, b) \cup {n}
        /\ \A x \in Blocks : x # b => d1[x] = s.dir[x]
    BY <1>1, <1>2, SetTrackersEntry
  <2> HIDE DEF d1
  <2> QED
    BY <1>2, <2>1
<1> HIDE DEF d1
<1>5. OKBut(s1, b) /\ s1.dir = d1 /\ s1.llc = s.llc
  BY <1>1, <1>2, <1>4, SetDirOKBut
<1> HIDE DEF s1
<1>6. OKBut(s2, b) /\ s2.dir[b] = d1[b] /\ Present(s2.llc, b)
  <2>1. \A isWrite \in BOOLEAN :
          LET t == L1Access(s1, n, k, b, isWrite)
          IN /\ OKBut(t, b) /\ t.dir[b] = s1.dir[b]
             /\ Present(t.llc, b) <=> Present(s1.llc, b)
    BY <1>1, <1>5, L1AccessOKBut
  <2> QED
    BY <1>2, <1>5, <2>1
<1> HIDE DEF s2
<1>7. /\ HasEntry(s2.dir, b)
      /\ StateOf(s2.dir, b) = "SHARED_L1" /\ TrackersOf(s2.dir, b) # {}
  BY <1>4, <1>6 DEF HasEntry, StateOf, TrackersOf
<1>8. EntryOK(s2, b)
  BY <1>1, <1>6, <1>7, EntryOKOf
<1> QED
  BY <1>1, <1>3, <1>6, <1>8, OKButAllOK

\* A prefetch opens an entry, fills the LLC and leaves the entry with no core,
\* or does nothing.
LEMMA PrefetchAddressOK ==
  ASSUME NEW s, AllOK(s), NEW b \in Blocks \cup {NoBlock}
  PROVE  AllOK(PrefetchAddress(s, b))
<1> DEFINE d0 == AddEntry(s.dir, b)
           s0 == [s EXCEPT !.dir = d0]
           isNew == b # NoBlock /\ StateOf(s0.dir, b) = "NOT_PRESENT"
           s1 == UpdateEntry(LLCAccess(s0, b, FALSE, TRUE), b)
           d2 == SetState(s1.dir, b, "CLEAN_LLC")
           s2 == [s1 EXCEPT !.dir = d2]
           s3 == Count(s2, "issuedPrefetch")
<1>1. PrefetchAddress(s, b) = IF isNew THEN s3 ELSE s
  BY DEF PrefetchAddress
<1>2. CASE ~isNew
  BY <1>1, <1>2
<1>3. CASE isNew
  <2>1. b \in Blocks
    BY <1>3
  <2>2. OKBut(s, b) /\ s.dir \in Directories
    BY <2>1 DEF AllOK, OKBut, GoodState, StateRecords
  <2>3. d0 \in Directories /\ \A x \in Blocks : x # b => d0[x] = s.dir[x]
    BY <2>1, <2>2 DEF AddEntry, Directories, Entries, States
  <2>4. OKBut(s0, b) /\ s0.dir = d0 /\ s0.aborted = s.aborted
    <3> HIDE DEF d0
    <3> QED
      BY <2>1, <2>2, <2>3, SetDirOKBut
  <2>5. StateOf(d0, b) = "NOT_PRESENT"
    BY <1>3, <2>4
  <2>6. s.aborted \/ TrackersOf(d0, b) = {}
    <3>1. CASE ~HasEntry(s.dir, b)
      BY <2>1, <2>2, <3>1 DEF AddEntry, Directories, TrackersOf
    <3>2. CASE HasEntry(s.dir, b)
      BY <2>1, <2>5, <3>2 DEF AddEntry, AllOK, EntryOK
    <3> QED
      BY <3>1, <3>2
  <2> HIDE DEF d0, s0
  <2>7. /\ OKBut(s1, b) /\ s1.dir[b] = d0[b] /\ Present(s1.llc, b)
        /\ s.aborted => s1.aborted
    <3>1. \A isWrite, p \in BOOLEAN :
            LET t == UpdateEntry(LLCAccess(s0, b, isWrite, p), b)
            IN /\ OKBut(t, b) /\ t.dir[b] = s0.dir[b] /\ Present(t.llc, b)
               /\ s0.aborted => t.aborted
      BY <2>1, <2>4, LLCAccessOKBut
    <3> QED
      BY <2>4, <3>1
  <2> HIDE DEF s1
  <2>8. /\ s1.dir \in Directories
        /\ TrackersOf(s1.dir, b) = TrackersOf(d0, b)
    BY <2>7 DEF OKBut, GoodState, StateRecords, TrackersOf
  <2>9. /\ d2 \in Directories /\ HasEntry(d2, b)
        /\ StateOf(d2, b) = "CLEAN_LLC"
        /\ TrackersOf(d2, b) = TrackersOf(d0, b)
        /\ \A x \in Blocks : x # b => d2[x] = s1.dir[x]
    <3>1. "CLEAN_LLC" \in States
      BY DEF States
    <3> QED
      BY <2>1, <2>8, <3>1, SetStateEntry
  <2> HIDE DEF d2
  <2>10. /\ OKBut(s2, b) /\ s2.dir = d2 /\ s2.llc = s1.llc
         /\ s2.aborted = s1.aborted
    BY <2>1, <2>7, <2>9, SetDirOKBut
  <2> HIDE DEF s2
  <2>11. /\ OKBut(s3, b) /\ s3.dir = d2 /\ s3.llc = s1.llc
         /\ s3.aborted = s1.aborted
    <3>1. "issuedPrefetch" \in Stats
      BY DEF Stats
    <3> QED
      BY <2>1, <2>10, <3>1, CountOKBut
  <2> HIDE DEF s3
  <2>12. AllOK(s3)
    <3>1. CASE s.aborted
      BY <2>7, <2>11, <3>1 DEF OKBut, AllOK
    <3>2. CASE ~s.aborted
      <4>1. EntryOK(s3, b)
        BY <2>1, <2>6, <2>7, <2>9, <2>11, <3>2, EntryOKOf
      <4> QED
        BY <2>1, <2>11, <4>1, OKButAllOK
    <3> QED
      BY <3>1, <3>2
  <2> QED
    BY <1>1, <1>3, <2>12
<1> QED
  BY <1>2, <1>3

-----------------------------------------------------------------------------
\* The state record, and what becomes of one.
LEMMA InvariantOfState == IInv => AllOK(State)
BY DEF IInv, AllOK

\* A step to a state in order keeps the invariant; a failed assertion keeps
\* everything as it was.
LEMMA BecomesOK ==
  ASSUME IInv, NEW s, AllOK(s), Becomes(s)
  PROVE  IInv'
<1>1. CASE s.aborted
  <2>1. /\ l1' = l1 /\ llc' = llc /\ dir' = dir /\ mem' = mem
        /\ aborted' = TRUE
    BY <1>1 DEF Becomes
  <2>2. GoodState(State)'
    BY <2>1 DEF IInv, GoodState, StateRecords, State
  <2>3. \A b \in Blocks : EntryOK(State, b)'
    BY <2>1 DEF IInv, EntryOK, EntryMatches, State, HasEntry, StateOf,
                TrackersOf, Present
  <2> QED
    BY <2>2, <2>3 DEF IInv
<1>2. CASE ~s.aborted
  <2>1. GoodState(s) /\ \A b \in Blocks : EntryOK(s, b)
    BY <1>2 DEF AllOK
  <2>2. s = [l1 |-> s.l1, llc |-> s.llc, dir |-> s.dir, mem |-> s.mem,
             aborted |-> s.aborted]
    BY <2>1 DEF GoodState, StateRecords
  <2>3. s.aborted = FALSE
    BY <1>2, <2>1 DEF GoodState, StateRecords
  <2>4. State' = s
    BY <1>2, <2>2, <2>3 DEF Becomes, State
  <2> QED
    BY <2>1, <2>4 DEF IInv
<1> QED
  BY <1>1, <1>2

\* The same with the prefetches the access causes.
LEMMA BecomesWithPrefetchOK ==
  ASSUME IInv, NEW s, AllOK(s), NEW b, BecomesWithPrefetch(s, b)
  PROVE  IInv'
<1>1. PICK p \in PrefetchesAfter(b) :
        Becomes(PrefetchAddress(PrefetchAddress(s, p[1]), p[2]))
  BY DEF BecomesWithPrefetch
<1>2. p[1] \in Blocks \cup {NoBlock} /\ p[2] \in Blocks \cup {NoBlock}
  BY DEF PrefetchesAfter
<1>3. AllOK(PrefetchAddress(s, p[1]))
  BY <1>2, PrefetchAddressOK
<1>4. AllOK(PrefetchAddress(PrefetchAddress(s, p[1]), p[2]))
  BY <1>2, <1>3, PrefetchAddressOK
<1> QED
  BY <1>1, <1>4, BecomesOK

\* The invariant holds when the simulation starts.
LEMMA InitOK == Init => IInv
<1> SUFFICES ASSUME Init PROVE IInv
  OBVIOUS
<1>1. /\ GoodCache(L1, EmptyCache(L1))
      /\ GoodCache(LLC, EmptyCache(LLC)) /\ NoGhost(LLC, EmptyCache(LLC))
      /\ \A b \in Blocks : ~Present(EmptyCache(LLC), b)
  BY Geometry, EmptyCacheGood
<1>2. State \in StateRecords
  <2>1. EmptyCache(L1) \in Caches(L1) /\ EmptyCache(LLC) \in Caches(LLC)
    BY <1>1 DEF GoodCache
  <2>2. l1 \in [Cores -> [L1Kinds -> Caches(L1)]]
    BY <2>1 DEF Init
  <2>3. llc \in Caches(LLC) /\ dir \in Directories /\ aborted \in BOOLEAN
    BY <2>1 DEF Init, Directories
  <2>4. mem \in [Stats -> 0 .. (StatRange - 1)]
    <3>1. 0 \in 0 .. (StatRange - 1)
      BY HierarchyAssumption
    <3> QED
      BY <3>1 DEF Init
  <2> QED
    BY <2>2, <2>3, <2>4 DEF State, StateRecords
<1>3. GoodState(State)
  BY <1>1, <1>2 DEF Init, State, GoodState
<1>4. \A b \in Blocks : EntryOK(State, b)
  BY <1>1
  DEF Init, State, EntryOK, EntryMatches, HasEntry, StateOf, TrackersOf, NoEntry
<1> QED
  BY <1>3, <1>4 DEF IInv

\* The directory asserts that an owned block has one owner; it has.
LEMMA OneOwner ==
  ASSUME IInv, NEW b \in Blocks,
         StateOf(dir, b) \in {"MODIFIED_L1", "EXCLUSIVE_L1"}
  PROVE  /\ Owner(b) \in Cores
         /\ TrackersOf(dir, b) = {Owner(b)}
         /\ LET s == StateOfOneOwner(b)
            IN AllOK(s) /\ s.dir = dir /\ s.aborted = aborted
         /\ StateOfOneOwner(b) = State
<1>1. PICK m \in Cores : TrackersOf(dir, b) = {m}
  BY DEF IInv, EntryOK, EntryMatches, State
<1>2. Owner(b) = m
  BY <1>1 DEF Owner
<1>3. AllOK(State) /\ aborted \in BOOLEAN
  BY InvariantOfState DEF AllOK, GoodState, StateRecords, State
<1>4. StateOfOneOwner(b) = State
  BY <1>1, <1>2, <1>3 DEF StateOfOneOwner, Require, State
<1> QED
  BY <1>1, <1>2, <1>3, <1>4 DEF State

\* Every access keeps the invariant.
LEMMA NextOK == IInv /\ [Next]_vars => IInv'
<1> SUFFICES ASSUME IInv, [Next]_vars PROVE IInv'
  OBVIOUS
<1>1. CASE UNCHANGED vars
  BY <1>1 DEF vars, IInv, GoodState, StateRecords, State, EntryOK, EntryMatches,
              HasEntry, StateOf, TrackersOf, Present
<1>2. ASSUME NEW n \in Cores, NEW r \in Requests, Access(n, r)
      PROVE  IInv'
  <2> DEFINE b == r.block
  <2>1. b \in Blocks
    BY RequestFacts
  <2>2. AllOK(State) /\ State.dir = dir /\ ~State.aborted
    <3>1. ~aborted
      BY <1>2 DEF Access, AccessNotPresent, AccessInLLC, AccessOwned,
                  ReadOwnedElsewhere, WriteOwnedElsewhere, ReadShared,
                  WriteShared, Finds
    <3> QED
      BY <3>1, InvariantOfState DEF State
  <2>3. dir \in Directories
    BY DEF IInv, GoodState, StateRecords, State
  <2>4. ASSUME NEW states \in SUBSET (States \ {"NOT_PRESENT"}), Finds(r, states)
        PROVE  HasEntry(dir, b) /\ StateOf(dir, b) \in states
    BY <2>1, <2>3, <2>4
    DEF Finds, AddEntry, HasEntry, StateOf, Directories
  <2>5. CASE AccessNotPresent(n, r)
    <3>1. StateOf(AddEntry(dir, b), b) = "NOT_PRESENT"
      BY <2>5 DEF AccessNotPresent, Finds
    <3>2. AllOK(FetchFromMemory(State, n, r))
      BY <2>2, <3>1, FetchFromMemoryOK
    <3> QED
      BY <2>5, <3>2, BecomesWithPrefetchOK DEF AccessNotPresent
  <2>6. CASE AccessInLLC(n, r)
    <3>1. HasEntry(dir, b)
      BY <2>4, <2>6 DEF AccessInLLC, States
    <3>2. AllOK(FetchFromLLC(State, n, r))
      BY <2>2, <3>1, FetchFromLLCOK
    <3> QED
      BY <2>6, <3>2, BecomesWithPrefetchOK DEF AccessInLLC
  <2>7. ASSUME Finds(r, {"MODIFIED_L1", "EXCLUSIVE_L1"})
        PROVE  /\ HasEntry(dir, b)
               /\ StateOf(dir, b) \in {"MODIFIED_L1", "EXCLUSIVE_L1"}
               /\ Owner(b) \in Cores
               /\ LET s == StateOfOneOwner(b)
                  IN AllOK(s) /\ s.dir = dir /\ ~s.aborted
    <3>1. /\ HasEntry(dir, b)
          /\ StateOf(dir, b) \in {"MODIFIED_L1", "EXCLUSIVE_L1"}
      BY <2>4, <2>7 DEF States
    <3> HIDE DEF b
    <3> QED
      BY <2>1, <2>2, <3>1, OneOwner DEF State
  <2>8. CASE AccessOwned(n, r)
    <3>1. AllOK(AccessAsOwner(StateOfOneOwner(b), n, r))
      BY <2>7, <2>8, AccessAsOwnerOK DEF AccessOwned
    <3> QED
      BY <2>8, <3>1, BecomesOK DEF AccessOwned
  <2>9. CASE ReadOwnedElsewhere(n, r)
    <3>1. AllOK(ShareWithOwner(StateOfOneOwner(b), n, Owner(b), r))
      BY <2>7, <2>9, ShareWithOwnerOK DEF ReadOwnedElsewhere
    <3> QED
      BY <2>9, <3>1, BecomesOK DEF ReadOwnedElsewhere
  <2>10. CASE WriteOwnedElsewhere(n, r)
    <3>1. AllOK(TakeFromOwner(StateOfOneOwner(b), n, Owner(b), r))
      BY <2>7, <2>10, TakeFromOwnerOK DEF WriteOwnedElsewhere
    <3> QED
      BY <2>10, <3>1, BecomesOK DEF WriteOwnedElsewhere
  <2>11. CASE ReadShared(n, r)
    <3>1. HasEntry(dir, b) /\ StateOf(dir, b) = "SHARED_L1"
      BY <2>4, <2>11 DEF ReadShared, States
    <3>2. AllOK(JoinSharers(State, n, r))
      BY <2>2, <3>1, JoinSharersOK
    <3> QED
      BY <2>11, <3>2, BecomesOK DEF ReadShared
  <2>12. CASE WriteShared(n, r)
    <3>1. HasEntry(dir, b)
      BY <2>4, <2>12 DEF WriteShared, States
    <3>2. AllOK(TakeFromSharers(State, n, r))
      BY <2>2, <3>1, TakeFromSharersOK
    <3> QED
      BY <2>12, <3>2, BecomesOK DEF WriteShared
  <2> QED
    BY <1>2, <2>5, <2>6, <2>8, <2>9, <2>10, <2>11, <2>12 DEF Access
<1> QED
  BY <1>1, <1>2 DEF Next

\* The inductive invariant is one.
LEMMA Inductive == Spec => []IInv
<1> QED
  BY InitOK, NextOK, PTL DEF Spec

-----------------------------------------------------------------------------
\* The caches, the directory and the statistics keep their types: no access of
\* any number of cores to any caches leaves the ranks, the ways or the states
\* the classes have.
THEOREM TypeCorrect == Spec => []TypeOK
<1>1. IInv => TypeOK
  BY DEF IInv, GoodState, StateRecords, State, TypeOK
<1> QED
  BY <1>1, Inductive, PTL

\* HybridCache::m_tag_index and the data arrays never disagree, in any cache of
\* any geometry.
THEOREM IndexesAlwaysAgree == Spec => []IndexesAgree
<1>1. IInv => IndexesAgree
  BY DEF IInv, GoodState, GoodCache, State, IndexesAgree
<1> QED
  BY <1>1, Inductive, PTL

\* The directory has an entry for exactly the valid blocks of the LLC, with and
\* without prefetches, for every policy: an eviction never leaves an entry, a
\* fill is never without one.
THEOREM DirectoryAlwaysMirrorsLLC == Spec => []DirectoryMirrorsLLC
<1>1. IInv => DirectoryMirrorsLLC
  <2> SUFFICES ASSUME IInv, NEW b \in Blocks
               PROVE  /\ HasEntry(dir, b) <=> Holds(LLC, llc, b)
                      /\ StateOf(dir, b) # "NOT_PRESENT"
    BY DEF DirectoryMirrorsLLC
  <2>1. GoodCache(LLC, llc) /\ NoGhost(LLC, llc)
    BY DEF IInv, GoodState, State
  <2>2. Present(llc, b) => EntryOf(LLC, llc, b).valid
    <3> SUFFICES ASSUME Present(llc, b)
                 PROVE  EntryOf(LLC, llc, b).valid
      OBVIOUS
    <3>1. /\ SetOf(LLC, b) \in Sets(LLC) /\ llc.tag[b] \in Ways(LLC)
          /\ llc.line[SetOf(LLC, b)][llc.tag[b]].addr = b
      BY <2>1, Geometry, IndexedEntry
    <3>2. b # NoBlock
      BY Geometry, GeometryFacts
    <3> QED
      BY <2>1, <3>1, <3>2 DEF NoGhost, EntryOf
  <2>3. /\ HasEntry(dir, b) <=> Present(llc, b)
        /\ StateOf(dir, b) # "NOT_PRESENT"
    BY DEF IInv, EntryOK, State
  <2> QED
    BY <2>2, <2>3 DEF Holds
<1> QED
  BY <1>1, Inductive, PTL

\* The assertion of Hierarchy::handleAccess that an exclusive or modified block
\* has one tracker never fails, and a shared block has some.
THEOREM TrackersAlwaysMatchState == Spec => []TrackersMatchState
<1>1. IInv => TrackersMatchState
  BY DEF IInv, EntryOK, EntryMatches, State, TrackersMatchState
<1> QED
  BY <1>1, Inductive, PTL

-----------------------------------------------------------------------------
(***************************************************************************)
(* The statistics of the main memory balance.  Between the fill of the LLC *)
(* and the count of the fetch the books owe one: Owes(s, 1).  They are     *)
(* kept whether an assertion has failed or not.                            *)
(***************************************************************************)
Resident(c) == {b \in Blocks : Present(c, b)}
Fetched(m) == m["readFetch"] + m["writeFetch"] + m["issuedPrefetch"]
Written(m) == m["cleanWB"] + m["dirtyWB"]

\* What is fetched, and owed, is resident or written back, but for a number of
\* times the counters have gone round.
Owes(s, owed) ==
  /\ IsFiniteSet(Resident(s.llc))
  /\ \E k \in Int : Fetched(s.mem) + owed =
                      Cardinality(Resident(s.llc)) + Written(s.mem) + k * StatRange

\* A state record, whatever is in it.
IsRecord(s) == s = [l1 |-> s.l1, llc |-> s.llc, dir |-> s.dir, mem |-> s.mem,
                    aborted |-> s.aborted]

\* Neither the statistics nor what is resident changes.
KeepsBooks(s, t) == t.mem = s.mem /\ Resident(t.llc) = Resident(s.llc)

LEMMA KeptBooks ==
  ASSUME NEW s, NEW t, KeepsBooks(s, t), NEW owed, Owes(s, owed)
  PROVE  Owes(t, owed)
BY DEF KeepsBooks, Owes

\* A counter that goes round loses StatRange.
LEMMA CountsOne ==
  ASSUME NEW m \in 0 .. (StatRange - 1)
  PROVE  \E j \in {0, 1} : (m + 1) % StatRange = m + 1 - j * StatRange
<1>1. StatRange \in Nat \ {0}
  BY HierarchyAssumption
<1>2. CASE m + 1 < StatRange
  <2>1. (m + 1) % StatRange = m + 1
    BY <1>1, <1>2
  <2> QED
    BY <1>1, <2>1
<1>3. CASE m + 1 = StatRange
  <2>1. StatRange % StatRange = 0
    BY <1>1
  <2> QED
    BY <1>1, <1>3, <2>1
<1> QED
  BY <1>1, <1>2, <1>3

\* What division gives.
LEMMA Division ==
  ASSUME NEW r \in Nat \ {0}, NEW a \in Nat
  PROVE  /\ a \div r \in Int
         /\ a % r \in 0 .. (r - 1)
         /\ a = r * (a \div r) + (a % r)
<1>1. a \div r \in Int
  OBVIOUS
<1>2. a % r \in 0 .. (r - 1)
  OBVIOUS
<1>3. a = r * (a \div r) + (a % r)
  OBVIOUS
<1> QED
  BY <1>1, <1>2, <1>3

\* A multiple of r that is less than r away from 0 is 0.
LEMMA SmallMultiple ==
  ASSUME NEW r \in Nat \ {0}, NEW j \in Int,
         r * j < r, r * j > -r
  PROVE  r * j = 0
<1>1. ~(j >= 1)
  <2> SUFFICES ASSUME j >= 1 PROVE FALSE
    OBVIOUS
  <2>1. r * j >= r
    BY Z3
  <2> QED
    BY <2>1
<1>2. ~(j <= -1)
  <2> SUFFICES ASSUME j <= -1 PROVE FALSE
    OBVIOUS
  <2>1. r * j <= -r
    BY Z3
  <2>2. r * j \in Int
    OBVIOUS
  <2> QED
    BY <2>1, <2>2
<1>3. j = 0
  BY <1>1, <1>2
<1> QED
  BY <1>3

\* Numbers that differ by a multiple of StatRange are counted the same.
LEMMA SameCount ==
  ASSUME NEW f \in Nat, NEW z \in Nat, NEW k \in Int, f = z + k * StatRange
  PROVE  f % StatRange = z % StatRange
<1>1. PICK r \in Nat \ {0} : r = StatRange
  BY HierarchyAssumption
<1> DEFINE Divides(a) ==
             \E u \in Int, v \in 0 .. (r - 1) : v = a % r /\ a = r * u + v
<1>a. Divides(f) /\ Divides(z)
  <2>1. ASSUME NEW a \in Nat PROVE Divides(a)
    <3>1. /\ a \div r \in Int
          /\ a % r \in 0 .. (r - 1)
          /\ a = r * (a \div r) + (a % r)
      BY <1>1, Division
    <3> WITNESS a \div r \in Int, a % r \in 0 .. (r - 1)
    <3> QED
      BY <3>1
  <2> HIDE DEF Divides
  <2> QED
    BY <2>1
<1>2. PICK p \in Int, x \in 0 .. (r - 1) : x = f % r /\ f = r * p + x
  BY Zenon, <1>a
<1>3. PICK q \in Int, y \in 0 .. (r - 1) : y = z % r /\ z = r * q + y
  BY Zenon, <1>a
<1>4. f = z + k * r
  BY <1>1
<1> DEFINE j == p - q - k
<1>5. j \in Int /\ r * j = r * p - r * q - r * k
  BY Z3
<1>6. /\ k * r = r * k
      /\ r * p \in Int /\ r * q \in Int /\ r * k \in Int /\ r * j \in Int
  BY <1>5
<1> HIDE DEF j
<1> DEFINE rp == r * p  rq == r * q  rk == r * k  rj == r * j
<1>7. /\ f = z + rk /\ f = rp + x /\ z = rq + y /\ rj = rp - rq - rk
      /\ rp \in Int /\ rq \in Int /\ rk \in Int /\ rj \in Int
  BY <1>2, <1>3, <1>4, <1>5, <1>6
<1>8. rj = y - x /\ rj < r /\ rj > -r
  <2> HIDE DEF rp, rq, rk, rj
  <2> QED
    BY <1>7
<1>9. rj = 0
  BY <1>5, <1>8, SmallMultiple
<1> HIDE DEF rj
<1>10. x = y
  BY <1>8, <1>9
<1> QED
  BY <1>1, <1>2, <1>3, <1>10

\* A count pays what is owed, or makes it owe one more.
LEMMA CountOwes ==
  ASSUME NEW s, GoodState(s), NEW x \in Stats, NEW owed \in {0, 1}
  PROVE  LET t == Count(s, x)
         IN /\ (x \in {"readFetch", "writeFetch", "issuedPrefetch"} /\ owed = 1
                /\ Owes(s, 1)) => Owes(t, 0)
            /\ (x \in {"cleanWB", "dirtyWB"} /\ Owes(s, 0)) => Owes(t, 1)
            /\ (x = "hitPrefetch" /\ Owes(s, owed)) => Owes(t, owed)
<1> DEFINE t == Count(s, x)
           R == StatRange
           m == s.mem
           c == Cardinality(Resident(s.llc))
<1>1. /\ t.llc = s.llc /\ t.mem = [m EXCEPT ![x] = (@ + 1) % R]
      /\ m \in [Stats -> 0 .. (R - 1)] /\ R \in Nat \ {0}
  BY HierarchyAssumption, CountGood DEF Count, GoodState, StateRecords
<1> HIDE DEF t, m, R
<1>2. PICK j \in {0, 1} : (m[x] + 1) % R = m[x] + 1 - j * R
  BY <1>1, CountsOne DEF R
<1>3. \A y \in Stats : t.mem[y] = IF y = x THEN m[x] + 1 - j * R ELSE m[y]
  BY <1>1, <1>2
<1>4. \A y \in Stats : m[y] \in Int
  BY <1>1
<1>5. j * R \in Int
  BY <1>1
<1>6. /\ x \in {"readFetch", "writeFetch", "issuedPrefetch"} =>
           Fetched(t.mem) = Fetched(m) + 1 - j * R /\ Written(t.mem) = Written(m)
      /\ x \in {"cleanWB", "dirtyWB"} =>
           Fetched(t.mem) = Fetched(m) /\ Written(t.mem) = Written(m) + 1 - j * R
      /\ x = "hitPrefetch" =>
           Fetched(t.mem) = Fetched(m) /\ Written(t.mem) = Written(m)
      /\ Fetched(m) \in Int /\ Written(m) \in Int
  BY <1>3, <1>4, <1>5 DEF Fetched, Written, Stats
<1>7. ASSUME Owes(s, owed) PROVE c \in Int
  BY <1>7, FS_CardinalityType DEF Owes
<1>8. ASSUME NEW k \in Int
      PROVE  /\ k - j \in Int /\ (k - j) * R = k * R - j * R
             /\ k + j \in Int /\ (k + j) * R = k * R + j * R
             /\ k * R \in Int
  BY <1>1
<1>9. ASSUME x \in {"readFetch", "writeFetch", "issuedPrefetch"}, Owes(s, 1)
      PROVE  Owes(t, 0)
  <2>1. c \in Int
    BY <1>9, FS_CardinalityType DEF Owes
  <2>2. PICK k \in Int : Fetched(m) + 1 = c + Written(m) + k * R
    BY <1>9 DEF Owes, m, R
  <2> DEFINE jr == j * R  kr == k * R  nr == (k - j) * R
  <2>3. /\ Fetched(t.mem) = Fetched(m) + 1 - jr /\ Written(t.mem) = Written(m)
        /\ Fetched(m) + 1 = c + Written(m) + kr /\ nr = kr - jr
        /\ jr \in Int /\ kr \in Int /\ Fetched(m) \in Int /\ Written(m) \in Int
    BY <1>5, <1>6, <1>8, <1>9, <2>2
  <2> HIDE DEF c, jr, kr, nr
  <2>4. Fetched(t.mem) + 0 = c + Written(t.mem) + nr
    BY <2>1, <2>3
  <2>5. k - j \in Int
    BY <1>8
  <2> QED
    BY <1>1, <1>9, <2>4, <2>5 DEF Owes, c, R, nr
<1>10. ASSUME x \in {"cleanWB", "dirtyWB"}, Owes(s, 0)
       PROVE  Owes(t, 1)
  <2>1. c \in Int
    BY <1>10, FS_CardinalityType DEF Owes
  <2>2. PICK k \in Int : Fetched(m) + 0 = c + Written(m) + k * R
    BY <1>10 DEF Owes, m, R
  <2> DEFINE jr == j * R  kr == k * R  nr == (k + j) * R
  <2>3. /\ Fetched(t.mem) = Fetched(m) /\ Written(t.mem) = Written(m) + 1 - jr
        /\ Fetched(m) + 0 = c + Written(m) + kr /\ nr = kr + jr
        /\ jr \in Int /\ kr \in Int /\ Fetched(m) \in Int /\ Written(m) \in Int
    BY <1>5, <1>6, <1>8, <1>10, <2>2
  <2> HIDE DEF c, jr, kr, nr
  <2>4. Fetched(t.mem) + 1 = c + Written(t.mem) + nr
    BY <2>1, <2>3
  <2>5. k + j \in Int
    BY <1>8
  <2> QED
    BY <1>1, <1>10, <2>4, <2>5 DEF Owes, c, R, nr
<1>11. ASSUME x = "hitPrefetch", Owes(s, owed) PROVE Owes(t, owed)
  BY <1>1, <1>6, <1>11 DEF Owes, m
<1> QED
  BY <1>9, <1>10, <1>11 DEF t

\* What a handler does to the record apart from its parts' types.
LEMMA RecordParts ==
  ASSUME NEW s, IsRecord(s)
  PROVE  /\ \A d : LET t == [s EXCEPT !.dir = d]
                   IN IsRecord(t) /\ t.mem = s.mem /\ t.llc = s.llc
         /\ \A c : LET t == [s EXCEPT !.llc = c]
                   IN IsRecord(t) /\ t.mem = s.mem /\ t.llc = c
         /\ \A f : LET t == [s EXCEPT !.l1 = f]
                   IN IsRecord(t) /\ t.mem = s.mem /\ t.llc = s.llc
         /\ \A a : LET t == Require(s, a)
                   IN IsRecord(t) /\ t.mem = s.mem /\ t.llc = s.llc
BY DEF IsRecord, Require

\* Good states are records.
LEMMA GoodIsRecord == ASSUME NEW s, GoodState(s) PROVE IsRecord(s)
BY DEF GoodState, StateRecords, IsRecord

\* Write backs of the L1s and invalidations leave the statistics alone.
LEMMA L1PartsKeepMem ==
  ASSUME NEW s, IsRecord(s), NEW n, NEW k, NEW b, NEW isKept
  PROVE  /\ LET t == L1SignalWB(s, n, k, b, isKept)
            IN IsRecord(t) /\ t.mem = s.mem
         /\ LET t == L1sDeallocate(s, b)
            IN IsRecord(t) /\ t.mem = s.mem
<1>1. ASSUME NEW isDirty
      PROVE  LET t == WBFromL1(s, n, b, isDirty, isKept)
             IN IsRecord(t) /\ t.mem = s.mem
  <2> DEFINE u == Require(s, HasEntry(s.dir, b))
             d == IF isKept THEN s.dir ELSE RemoveTracker(s.dir, b, n)
             v == [u EXCEPT !.dir = d]
             c == HandleWB(LLC, u.llc, b, isDirty)
  <2>1. IsRecord(u) /\ u.mem = s.mem
    BY RecordParts
  <2> HIDE DEF u, d
  <2>2. IsRecord(v) /\ v.mem = s.mem /\ v.llc = u.llc
    BY <2>1, RecordParts
  <2> HIDE DEF c
  <2>3. WBFromL1(s, n, b, isDirty, isKept) = [v EXCEPT !.llc = c]
    <3>1. [u EXCEPT !.dir = d, !.llc = c] = [v EXCEPT !.llc = c]
      BY <2>1 DEF IsRecord
    <3> QED
      BY <3>1 DEF WBFromL1, u, d, c
  <2> HIDE DEF v
  <2>4. IsRecord([v EXCEPT !.llc = c]) /\ [v EXCEPT !.llc = c].mem = v.mem
    BY <2>2, RecordParts
  <2> QED
    BY Zenon, <2>2, <2>3, <2>4
<1>2. LET t == L1SignalWB(s, n, k, b, isKept)
      IN IsRecord(t) /\ t.mem = s.mem
  BY <1>1 DEF L1SignalWB
<1>3. LET t == L1sDeallocate(s, b)
      IN IsRecord(t) /\ t.mem = s.mem
  <2> DEFINE u == Require(s, HasEntry(s.dir, b))
  <2>1. IsRecord(u) /\ u.mem = s.mem
    BY RecordParts
  <2> HIDE DEF u
  <2> DEFINE nodes == TrackersOf(s.dir, b)
             Asked(m) == /\ m \in nodes
                         /\ \A p \in nodes : p < m => ~Answers(s, p, b)
             isDirty == \E m \in nodes : Answers(s, m, b)
             f == [m \in Cores |-> [j \in L1Kinds |->
                     IF Asked(m) THEN Invalidated(s, m, j, b)
                     ELSE u.l1[m][j]]]
             c == SetDirty(LLC, u.llc, b, isDirty)
             d == SetState(ResetTrackersToEntry(u.dir, b), b, "CLEAN_LLC")
             v == [u EXCEPT !.l1 = f]
             w == [v EXCEPT !.llc = c]
  <2>2. L1sDeallocate(s, b) =
          IF IsInL1(s.dir, b) THEN [u EXCEPT !.l1 = f, !.llc = c, !.dir = d]
          ELSE u
    BY Zenon DEF L1sDeallocate, u
  <2> HIDE DEF f, c, d, isDirty
  <2>3. [u EXCEPT !.l1 = f, !.llc = c, !.dir = d] = [w EXCEPT !.dir = d]
    <3>1. u = [l1 |-> u.l1, llc |-> u.llc, dir |-> u.dir, mem |-> u.mem,
               aborted |-> u.aborted]
      BY <2>1 DEF IsRecord
    <3> QED
      BY <3>1
  <2>4. IsRecord(v) /\ v.mem = u.mem
    BY <2>1, RecordParts
  <2> HIDE DEF v
  <2>5. IsRecord(w) /\ w.mem = v.mem
    BY <2>4, RecordParts
  <2> HIDE DEF w
  <2>6. IsRecord([w EXCEPT !.dir = d]) /\ [w EXCEPT !.dir = d].mem = w.mem
    BY <2>5, RecordParts
  <2>7. CASE IsInL1(s.dir, b)
    <3>1. L1sDeallocate(s, b) = [w EXCEPT !.dir = d]
      BY Zenon, <2>2, <2>3, <2>7
    <3> QED
      BY Zenon, <2>1, <2>4, <2>5, <2>6, <3>1
  <2>8. CASE ~IsInL1(s.dir, b)
    BY Zenon, <2>1, <2>2, <2>8
  <2> QED
    BY <2>7, <2>8
<1> QED
  BY <1>2, <1>3

\* So an access of an L1 keeps the books, and so do the other things done to L1s
\* and directory.
LEMMA L1AccessKeepsBooks ==
  ASSUME NEW s, GoodState(s), NEW n \in Cores, NEW k \in L1Kinds,
         NEW b \in Blocks, NEW isWrite \in BOOLEAN
  PROVE  LET t == L1Access(s, n, k, b, isWrite)
         IN GoodState(t) /\ KeepsBooks(s, t)
<1> DEFINE c == s.l1[n][k]
           w == Victim(L1, c, SetOf(L1, b), FALSE)
           victim == c.line[SetOf(L1, b)][w]
           e == IF victim.valid THEN L1SignalWB(s, n, k, victim.addr, FALSE)
                ELSE s
           t == L1Access(s, n, k, b, isWrite)
<1>1. IsRecord(s)
  BY GoodIsRecord
<1>2. IsRecord(e) /\ e.mem = s.mem
  <2> HIDE DEF w, c
  <2>1. CASE victim.valid
    <3>1. e = L1SignalWB(s, n, k, victim.addr, FALSE)
      BY <2>1
    <3>2. \A x, isKept : LET u == L1SignalWB(s, n, k, x, isKept)
                         IN IsRecord(u) /\ u.mem = s.mem
      BY <1>1, L1PartsKeepMem
    <3> HIDE DEF e, victim
    <3> QED
      BY Zenon, <3>1, <3>2
  <2>2. CASE ~victim.valid
    BY <1>1, <2>2
  <2> QED
    BY <2>1, <2>2
<1>3. \A q, f : IsRecord(q) => [q EXCEPT !.l1[n][k] = f].mem = q.mem
  BY DEF IsRecord
<1>4. \/ t = [s EXCEPT !.l1[n][k] = Hit(L1, @, b, isWrite)]
      \/ t = [e EXCEPT !.l1[n][k] = Fill(L1, @, b, w, isWrite, FALSE)]
  BY Zenon DEF L1Access
<1> HIDE DEF e
<1>5. t.mem = s.mem
  <2>1. [s EXCEPT !.l1[n][k] = Hit(L1, @, b, isWrite)].mem = s.mem
    BY <1>1, <1>3
  <2>2. [e EXCEPT !.l1[n][k] = Fill(L1, @, b, w, isWrite, FALSE)].mem = s.mem
    BY <1>2, <1>3
  <2> HIDE DEF t
  <2> QED
    BY Zenon, <1>4, <2>1, <2>2
<1>6. GoodState(t) /\ t.llc.tag = s.llc.tag
  BY L1AccessGood
<1> HIDE DEF t
<1>7. KeepsBooks(s, t)
  BY <1>5, <1>6 DEF KeepsBooks, Resident, Present
<1> QED
  BY <1>6, <1>7 DEF t

LEMMA SetDirKeepsBooks ==
  ASSUME NEW s, GoodState(s), NEW d \in Directories
  PROVE  LET t == [s EXCEPT !.dir = d]
         IN GoodState(t) /\ KeepsBooks(s, t) /\ t.dir = d
BY SetDirGood, GoodIsRecord, RecordParts DEF KeepsBooks

LEMMA UpdateEntryKeepsBooks ==
  ASSUME NEW s, GoodState(s), NEW b
  PROVE  LET t == UpdateEntry(s, b)
         IN /\ GoodState(t) /\ KeepsBooks(s, t)
            /\ s.aborted => t.aborted
<1>1. HasEntry(s.dir, b) \in BOOLEAN
  BY DEF HasEntry
<1>2. \A p \in BOOLEAN : LET t == Require(s, p)
                         IN /\ GoodState(t) /\ t.llc = s.llc
                            /\ t.aborted = (s.aborted \/ ~p)
  BY RequireGood
<1>3. \A p : Require(s, p).mem = s.mem
  BY GoodIsRecord, RecordParts
<1> DEFINE p == HasEntry(s.dir, b)
           t == Require(s, p)
<1>4. /\ GoodState(t) /\ t.llc = s.llc /\ t.mem = s.mem
      /\ t.aborted = (s.aborted \/ ~p)
  <2> HIDE DEF p
  <2>1. p \in BOOLEAN
    BY <1>1 DEF p
  <2> QED
    BY Zenon, <1>2, <1>3, <2>1
<1>5. UpdateEntry(s, b) = t
  BY Zenon DEF UpdateEntry
<1> HIDE DEF t
<1> QED
  BY <1>4, <1>5 DEF KeepsBooks

LEMMA L1sDropKeepsBooks ==
  ASSUME NEW s, GoodState(s), NEW nodes, NEW b \in Blocks
  PROVE  LET t == L1sDrop(s, nodes, b)
         IN GoodState(t) /\ KeepsBooks(s, t) /\ t.dir = s.dir
<1> DEFINE t == L1sDrop(s, nodes, b)
<1>1. GoodState(t) /\ t.llc = s.llc /\ t.dir = s.dir
  BY L1sDropGood
<1>2. t.mem = s.mem
  BY GoodIsRecord, RecordParts DEF L1sDrop
<1> HIDE DEF t
<1> QED
  BY <1>1, <1>2 DEF KeepsBooks, t

LEMMA WriteBackByOwnerKeepsBooks ==
  ASSUME NEW s, NEW r \in Requests, GoodState(s), NEW m \in Cores
  PROVE  LET t == WriteBackByOwner(s, m, r)
         IN GoodState(t) /\ KeepsBooks(s, t) /\ t.dir = s.dir
<1> DEFINE b == r.block
           c == s.l1[m][Kind(r)]
           isDirty == EntryOf(L1, c, b).dirty
           t == WriteBackByOwner(s, m, r)
<1>1. t.mem = s.mem
  <2>1. \A j, x, isKept : L1SignalWB(s, m, j, x, isKept).mem = s.mem
    BY GoodIsRecord, L1PartsKeepMem
  <2> QED
    BY Zenon, <2>1 DEF WriteBackByOwner
<1>2. /\ GoodState(t) /\ t.llc.tag = s.llc.tag /\ t.dir = s.dir
  <2>1. CASE ~Present(c, b)
    BY <2>1 DEF WriteBackByOwner, L1SignalWB
  <2>2. CASE Present(c, b)
    <3>1. GoodCache(L1, c) /\ b \in Blocks
      BY RequestFacts DEF GoodState
    <3>2. isDirty \in BOOLEAN
      <4> HIDE DEF c
      <4>1. EntryOf(L1, c, b) \in Lines
        BY <2>2, <3>1, Geometry, IndexedEntry DEF EntryOf
      <4> QED
        BY <4>1 DEF Lines
    <3>3. t = WBFromL1(s, m, b, isDirty, TRUE)
      BY <2>2 DEF WriteBackByOwner, L1SignalWB
    <3> HIDE DEF isDirty, t, b
    <3>4. \A kept \in BOOLEAN :
            LET v == WBFromL1(s, m, b, isDirty, kept)
            IN /\ GoodState(v) /\ v.llc.tag = s.llc.tag
               /\ kept => v.dir = s.dir
      BY <3>1, <3>2, WBFromL1Good
    <3> QED
      BY <3>3, <3>4
  <2> QED
    BY <2>1, <2>2
<1> HIDE DEF t
<1>3. KeepsBooks(s, t)
  BY <1>1, <1>2 DEF KeepsBooks, Resident, Present
<1> QED
  BY <1>2, <1>3 DEF t

\* A block the LLC writes back is counted before another takes its way.
LEMMA WBFromLLCOwes ==
  ASSUME NEW s, GoodState(s), NEW b \in Blocks, NEW isDirty \in BOOLEAN,
         Owes(s, 0)
  PROVE  Owes(WBFromLLC(s, b, isDirty), 1)
<1> DEFINE u == Require(s, HasEntry(s.dir, b))
           x == IF isDirty THEN "dirtyWB" ELSE "cleanWB"
           v == Count(u, x)
           d == RemoveEntry(v.dir, b)
           t == [v EXCEPT !.dir = d]
<1>1. WBFromLLC(s, b, isDirty) = t
  BY DEF WBFromLLC
<1>2. HasEntry(s.dir, b) \in BOOLEAN
  BY DEF HasEntry
<1>3. GoodState(u) /\ KeepsBooks(s, u)
  BY <1>2, RequireGood, GoodIsRecord, RecordParts DEF KeepsBooks
<1> HIDE DEF u
<1>4. Owes(u, 0)
  BY <1>3, KeptBooks
<1>5. x \in {"cleanWB", "dirtyWB"} /\ x \in Stats
  BY DEF Stats
<1> HIDE DEF x
<1>6. GoodState(v) /\ Owes(v, 1)
  BY <1>3, <1>4, <1>5, CountGood, CountOwes
<1> HIDE DEF v, d
<1>7. t.mem = v.mem /\ t.llc = v.llc
  BY <1>6, GoodIsRecord, RecordParts
<1> HIDE DEF t
<1>8. KeepsBooks(v, t)
  BY <1>7 DEF KeepsBooks
<1> QED
  BY <1>1, <1>6, <1>8, KeptBooks

\* An access of the LLC keeps the books if it hits; if it misses they owe the
\* fetch of its block, the block that made room having been written back.
LEMMA LLCAccessOwes ==
  ASSUME NEW s, GoodState(s), NEW b \in Blocks, NEW isWrite \in BOOLEAN,
         NEW isPrefetch \in BOOLEAN
  PROVE  LET t == LLCAccess(s, b, isWrite, isPrefetch)
         IN /\ GoodState(t)
            /\ Present(s.llc, b) => KeepsBooks(s, t)
            /\ ~Present(s.llc, b) /\ Owes(s, 0) => Owes(t, 1)
<1> DEFINE c == s.llc
           inNVM == AllocateInNVM(LLC, isWrite)
           w == Victim(LLC, c, SetOf(LLC, b), inNVM)
           victim == c.line[SetOf(LLC, b)][w]
           t == LLCAccess(s, b, isWrite, isPrefetch)
<1>1. GoodCache(LLC, c) /\ NoGhost(LLC, c) /\ IsRecord(s) /\ GoodState(t)
  BY GoodIsRecord, LLCAccessGood DEF GoodState
<1>2. ASSUME Present(c, b) PROVE KeepsBooks(s, t)
  <2>1. Hit(LLC, c, b, isWrite).tag = c.tag
    <3> HIDE DEF c
    <3> QED
      BY <1>1, <1>2, Geometry, HitGood
  <2>2. t = [s EXCEPT !.llc = Hit(LLC, c, b, isWrite)]
    BY <1>2 DEF LLCAccess
  <2> HIDE DEF t
  <2>3. t.mem = s.mem /\ t.llc = Hit(LLC, c, b, isWrite)
    BY <1>1, <2>2, RecordParts
  <2> QED
    BY <2>1, <2>3 DEF KeepsBooks, Resident, Present
<1>3. ASSUME ~Present(c, b), Owes(s, 0) PROVE Owes(t, 1)
  <2> DEFINE v == victim.addr
             e == IF victim.valid THEN LLCSignalWB(L1sDeallocate(s, v), v)
                  ELSE s
             f == Fill(LLC, e.llc, b, w, isWrite, isPrefetch)
  <2>1. SetOf(LLC, b) \in Sets(LLC) /\ w \in Ways(LLC)
    <3>1. SetOf(LLC, b) \in Sets(LLC)
      BY Geometry, GeometryFacts
    <3>2. c \in Caches(LLC)
      BY <1>1 DEF GoodCache
    <3>3. inNVM \in BOOLEAN /\ Array(LLC, inNVM) # {}
      BY Geometry
    <3> HIDE DEF c, inNVM
    <3>4. w \in Array(LLC, inNVM)
      BY <3>1, <3>2, <3>3, Geometry, VictimInArray
    <3> HIDE DEF w
    <3> QED
      BY <3>1, <3>3, <3>4, Geometry, GeometryFacts
  <2>2. t = [e EXCEPT !.llc = f]
    BY <1>3 DEF LLCAccess
  <2> HIDE DEF t, w
  <2>3. victim.valid => v \in Blocks /\ Present(c, v)
    <3> HIDE DEF c
    <3> QED
      BY <1>1, <2>1, Geometry, ValidEntryIsIndexed
  <2>4. ~victim.valid => v = NoBlock
    <3> HIDE DEF c
    <3> QED
      BY <1>1, <2>1 DEF NoGhost
  <2>14. v = c.line[SetOf(LLC, b)][w].addr
    OBVIOUS
  <2> HIDE DEF victim
  <2>5. /\ GoodState(e) /\ e.llc.tag = c.tag
        /\ Owes(e, IF victim.valid THEN 1 ELSE 0)
    <3>1. CASE ~victim.valid
      BY <1>3, <3>1
    <3>2. CASE victim.valid
      <4> DEFINE d == L1sDeallocate(s, v)
                 isDirty == EntryOf(LLC, d.llc, v).dirty
      <4>1. v \in Blocks /\ Present(c, v)
        BY <2>3, <3>2
      <4> HIDE DEF v
      <4>2. GoodState(d) /\ d.llc.tag = c.tag
        BY <4>1, L1sDeallocateGood
      <4>3. d.mem = s.mem
        BY <1>1, L1PartsKeepMem
      <4>4. e = LLCSignalWB(d, v)
        BY <3>2 DEF v
      <4> HIDE DEF d, e
      <4>5. KeepsBooks(s, d)
        BY <4>2, <4>3 DEF KeepsBooks, Resident, Present
      <4>6. Present(d.llc, v)
        BY <4>1, <4>2 DEF Present
      <4>7. isDirty \in BOOLEAN
        <5>1. GoodCache(LLC, d.llc)
          BY <4>2 DEF GoodState
        <5>2. EntryOf(LLC, d.llc, v) \in Lines
          BY <4>1, <4>6, <5>1, Geometry, IndexedEntry DEF EntryOf
        <5> QED
          BY <5>2 DEF Lines
      <4>8. e = WBFromLLC(d, v, isDirty)
        BY <4>4, <4>6 DEF LLCSignalWB
      <4> HIDE DEF isDirty
      <4>9. Owes(d, 0)
        BY <1>3, <4>5, KeptBooks
      <4>10. GoodState(e) /\ e.llc = d.llc
        <5>1. \A p \in BOOLEAN : /\ GoodState(WBFromLLC(d, v, p))
                                 /\ WBFromLLC(d, v, p).llc = d.llc
          BY <4>1, <4>2, WBFromLLCGood
        <5> QED
          BY <4>7, <4>8, <5>1
      <4>11. Owes(e, 1)
        BY <4>1, <4>2, <4>7, <4>8, <4>9, WBFromLLCOwes
      <4> QED
        BY <3>2, <4>2, <4>10, <4>11
    <3> QED
      BY <3>1, <3>2
  <2> HIDE DEF e, v
  <2>6. GoodCache(LLC, e.llc) /\ ~Present(e.llc, b)
    BY <1>3, <2>5 DEF GoodState, Present
  <2>7. \A x \in Blocks :
          Present(f, x) <=>
            x = b \/ (/\ Present(e.llc, x)
                      /\ x # e.llc.line[SetOf(LLC, b)][w].addr)
    BY <2>1, <2>6, Geometry, FillGood
  <2> HIDE DEF f
  <2>8. t.mem = e.mem /\ t.llc = f
    BY <2>2, <2>5, GoodIsRecord, RecordParts
  <2>9. \A x \in Blocks :
          x = e.llc.line[SetOf(LLC, b)][w].addr <=> x = v
    <3>1. TagsAgree(LLC, c) /\ TagsAgree(LLC, e.llc)
      BY <1>1, <2>6 DEF GoodCache
    <3> HIDE DEF c
    <3>2. \A x \in Blocks :
            (e.llc.line[SetOf(LLC, b)][w].addr = x) <=>
              (c.line[SetOf(LLC, b)][w].addr = x)
      BY <2>1, <2>5, <3>1 DEF TagsAgree
    <3> QED
      BY <2>14, <3>2
  <2> DEFINE before == Resident(e.llc)
             left == before \ {v}
             after == Resident(t.llc)
  <2>10. after = left \cup {b} /\ b \notin left
    BY <2>6, <2>7, <2>8, <2>9 DEF Resident
  <2>11. IF victim.valid THEN v \in before ELSE left = before
    <3>1. NoBlock \notin Blocks
      BY Geometry, GeometryFacts
    <3>2. \A x \in Blocks : Present(e.llc, x) <=> Present(c, x)
      BY <2>5 DEF Present
    <3> HIDE DEF c
    <3> QED
      BY <2>3, <2>4, <3>1, <3>2 DEF Resident
  <2> HIDE DEF before, after
  <2>12. /\ IsFiniteSet(before) /\ IsFiniteSet(after)
         /\ Cardinality(before) \in Nat /\ Cardinality(after) \in Nat
         /\ Cardinality(after) =
              Cardinality(before) + (IF victim.valid THEN 0 ELSE 1)
    <3>1. IsFiniteSet(before) /\ Cardinality(before) \in Nat
      BY <2>5, FS_CardinalityType DEF Owes, before
    <3>2. /\ IsFiniteSet(left) /\ Cardinality(left) \in Nat
          /\ Cardinality(left) =
               Cardinality(before) - (IF victim.valid THEN 1 ELSE 0)
      <4>1. CASE victim.valid
        BY <2>11, <3>1, <4>1, FS_RemoveElement, FS_CardinalityType
      <4>2. CASE ~victim.valid
        <5>1. left = before
          BY <2>11, <4>2
        <5>2. Cardinality(before) - (IF victim.valid THEN 1 ELSE 0)
                = Cardinality(before)
          BY <3>1, <4>2
        <5> HIDE DEF left
        <5> QED
          BY <3>1, <5>1, <5>2
      <4> QED
        BY <4>1, <4>2
    <3> HIDE DEF left
    <3>3. IsFiniteSet(after) /\ Cardinality(after) = Cardinality(left) + 1
      BY <2>10, <3>2, FS_AddElement
    <3> QED
      BY <3>1, <3>2, <3>3
  <2>13. PICK k \in Int :
           Fetched(e.mem) + (IF victim.valid THEN 1 ELSE 0) =
             Cardinality(before) + Written(e.mem) + k * StatRange
    BY <2>5 DEF Owes, before
  <2>15. Fetched(e.mem) \in Int /\ Written(e.mem) \in Int /\ k * StatRange \in Int
    <3>1. e.mem \in [Stats -> 0 .. (StatRange - 1)]
      BY <2>5 DEF GoodState, StateRecords
    <3> QED
      BY <3>1, HierarchyAssumption DEF Fetched, Written, Stats
  <2>16. Fetched(t.mem) + 1 = Cardinality(after) + Written(t.mem) + k * StatRange
    BY <2>8, <2>12, <2>13, <2>15
  <2> QED
    BY <2>12, <2>16 DEF Owes, after
<1> QED
  BY <1>1, <1>2, <1>3 DEF t

\* The blocks that are resident have an entry.
LEMMA ResidentHasEntry ==
  ASSUME NEW s, AllOK(s), ~s.aborted, NEW b \in Blocks
  PROVE  /\ HasEntry(s.dir, b) <=> Present(s.llc, b)
         /\ StateOf(AddEntry(s.dir, b), b) = "NOT_PRESENT" => ~HasEntry(s.dir, b)
         /\ AddEntry(s.dir, b) \in Directories
         /\ HasEntry(AddEntry(s.dir, b), b)
<1>1. EntryOK(s, b) /\ s.dir \in Directories
  BY DEF AllOK, GoodState, StateRecords
<1>2. AddEntry(s.dir, b) \in Directories /\ HasEntry(AddEntry(s.dir, b), b)
  BY <1>1
  DEF AddEntry, Directories, Entries, NoEntry, HasEntry, TrackersOf, States
<1> QED
  BY <1>1, <1>2 DEF AddEntry, EntryOK

\* A block that is nowhere: one fetch is counted.
LEMMA FetchFromMemoryOwes ==
  ASSUME NEW s, AllOK(s), ~s.aborted, Owes(s, 0), NEW n \in Cores,
         NEW r \in Requests,
         StateOf(AddEntry(s.dir, r.block), r.block) = "NOT_PRESENT"
  PROVE  Owes(FetchFromMemory(s, n, r), 0)
<1> DEFINE b == r.block
           k == Kind(r)
           isWrite == IsWrite(r)
           d0 == AddEntry(s.dir, b)
           d1 == SetTrackerToEntry(d0, b, n)
           s1 == [s EXCEPT !.dir = d1]
           s2 == L1Access(s1, n, k, b, isWrite)
           s3 == LLCAccess(s2, b, isWrite, FALSE)
           s4 == UpdateEntry(s3, b)
           d5 == SetState(s4.dir, b, "EXCLUSIVE_L1")
           s5 == [s4 EXCEPT !.dir = d5]
           x == IF isWrite THEN "writeFetch" ELSE "readFetch"
<1>1. b \in Blocks /\ k \in L1Kinds /\ isWrite \in BOOLEAN
  BY RequestFacts
<1>2. FetchFromMemory(s, n, r) = Count(s5, x)
  BY DEF FetchFromMemory
<1>3. StateOf(d0, b) = "NOT_PRESENT" /\ GoodState(s)
  BY DEF AllOK
<1> HIDE DEF b, k, isWrite
<1>4. ~Present(s.llc, b) /\ d0 \in Directories /\ HasEntry(d0, b)
  BY <1>1, <1>3, ResidentHasEntry
<1> HIDE DEF d0
<1>5. d1 \in Directories
  BY <1>1, <1>4, SetTrackersEntry
<1> HIDE DEF d1
<1>6. GoodState(s1) /\ KeepsBooks(s, s1)
  BY <1>3, <1>5, SetDirKeepsBooks
<1> HIDE DEF s1
<1>7. GoodState(s2) /\ KeepsBooks(s1, s2)
  BY <1>1, <1>6, L1AccessKeepsBooks
<1> HIDE DEF s2
<1>8. Owes(s2, 0) /\ ~Present(s2.llc, b)
  BY <1>1, <1>4, <1>6, <1>7, KeptBooks DEF KeepsBooks, Resident
<1>9. GoodState(s3) /\ Owes(s3, 1)
  <2>1. \A p \in BOOLEAN : LET t == LLCAccess(s2, b, isWrite, p)
                           IN GoodState(t) /\ Owes(t, 1)
    BY <1>1, <1>7, <1>8, LLCAccessOwes
  <2> QED
    BY <2>1
<1> HIDE DEF s3
<1>10. GoodState(s4) /\ Owes(s4, 1)
  BY <1>9, UpdateEntryKeepsBooks, KeptBooks
<1> HIDE DEF s4
<1>11. d5 \in Directories
  <2>1. s4.dir \in Directories /\ "EXCLUSIVE_L1" \in States
    BY <1>10 DEF GoodState, StateRecords, States
  <2> QED
    BY <1>1, <2>1, SetStateEntry
<1> HIDE DEF d5
<1>12. GoodState(s5) /\ Owes(s5, 1)
  BY <1>10, <1>11, SetDirKeepsBooks, KeptBooks
<1> HIDE DEF s5
<1>13. x \in {"readFetch", "writeFetch", "issuedPrefetch"} /\ x \in Stats
  BY DEF Stats
<1> HIDE DEF x
<1> QED
  BY <1>2, <1>12, <1>13, CountOwes

\* A block of the LLC: the count of a useful prefetch is no part of the balance.
LEMMA FetchFromLLCOwes ==
  ASSUME NEW s, AllOK(s), ~s.aborted, Owes(s, 0), NEW n \in Cores,
         NEW r \in Requests, HasEntry(s.dir, r.block)
  PROVE  Owes(FetchFromLLC(s, n, r), 0)
<1> DEFINE b == r.block
           k == Kind(r)
           isWrite == IsWrite(r)
           d0 == SetState(s.dir, b, "EXCLUSIVE_L1")
           d1 == SetTrackerToEntry(d0, b, n)
           s1 == [s EXCEPT !.dir = d1]
           s2 == L1Access(s1, n, k, b, isWrite)
           s3 == LLCAccess(s2, b, isWrite, FALSE)
           isPrefetched == Present(s3.llc, b) /\ EntryOf(LLC, s3.llc, b).prefetch
           s4 == IF isPrefetched THEN Count(s3, "hitPrefetch") ELSE s3
           c == ResetPrefetchFlag(LLC, s4.llc, b)
           s5 == [s4 EXCEPT !.llc = c]
<1>1. b \in Blocks /\ k \in L1Kinds /\ isWrite \in BOOLEAN
  BY RequestFacts
<1>2. FetchFromLLC(s, n, r) = UpdateEntry(s5, b)
  BY DEF FetchFromLLC
<1>3. GoodState(s) /\ s.dir \in Directories /\ Present(s.llc, b)
  BY <1>1, ResidentHasEntry DEF AllOK, GoodState, StateRecords
<1> HIDE DEF b, k, isWrite
<1>4. d0 \in Directories /\ HasEntry(d0, b)
  <2>1. "EXCLUSIVE_L1" \in States
    BY DEF States
  <2> QED
    BY <1>1, <1>3, <2>1, SetStateEntry
<1> HIDE DEF d0
<1>5. d1 \in Directories
  BY <1>1, <1>4, SetTrackersEntry
<1> HIDE DEF d1
<1>6. GoodState(s1) /\ KeepsBooks(s, s1)
  BY <1>3, <1>5, SetDirKeepsBooks
<1> HIDE DEF s1
<1>7. GoodState(s2) /\ KeepsBooks(s1, s2)
  BY <1>1, <1>6, L1AccessKeepsBooks
<1> HIDE DEF s2
<1>8. Owes(s2, 0) /\ Present(s2.llc, b)
  BY <1>1, <1>3, <1>6, <1>7, KeptBooks DEF KeepsBooks, Resident
<1>9. GoodState(s3) /\ Owes(s3, 0)
  <2>1. \A p \in BOOLEAN : LET t == LLCAccess(s2, b, isWrite, p)
                           IN GoodState(t) /\ KeepsBooks(s2, t)
    BY <1>1, <1>7, <1>8, LLCAccessOwes
  <2> QED
    BY <1>8, <2>1, KeptBooks
<1> HIDE DEF s3, isPrefetched
<1>10. GoodState(s4) /\ Owes(s4, 0)
  <2>1. "hitPrefetch" \in Stats
    BY DEF Stats
  <2> QED
    BY <1>9, <2>1, CountGood, CountOwes
<1> HIDE DEF s4
<1>11. GoodCache(LLC, s4.llc) /\ NoGhost(LLC, s4.llc)
  BY <1>10 DEF GoodState
<1>12. GoodCache(LLC, c) /\ NoGhost(LLC, c) /\ c.tag = s4.llc.tag
  BY <1>1, <1>11, Geometry, ResetPrefetchFlagGood
<1> HIDE DEF c
<1>13. /\ GoodState(s5) /\ s5.mem = s4.mem /\ s5.llc = c
  BY <1>10, <1>12, SetLLCGood, GoodIsRecord, RecordParts
<1> HIDE DEF s5
<1>14. KeepsBooks(s4, s5)
  BY <1>12, <1>13 DEF KeepsBooks, Resident, Present
<1> QED
  BY <1>2, <1>10, <1>13, <1>14, UpdateEntryKeepsBooks, KeptBooks

\* The core is the owner: the LLC is not told.
LEMMA AccessAsOwnerOwes ==
  ASSUME NEW s, AllOK(s), Owes(s, 0), NEW n \in Cores, NEW r \in Requests
  PROVE  Owes(AccessAsOwner(s, n, r), 0)
<1> DEFINE b == r.block
           d1 == SetState(s.dir, b, "MODIFIED_L1")
           s1 == IF IsWrite(r) /\ StateOf(s.dir, b) = "EXCLUSIVE_L1"
                 THEN [s EXCEPT !.dir = d1] ELSE s
<1>1. b \in Blocks /\ Kind(r) \in L1Kinds /\ IsWrite(r) \in BOOLEAN
  BY RequestFacts
<1>2. GoodState(s) /\ s.dir \in Directories /\ "MODIFIED_L1" \in States
  BY DEF AllOK, GoodState, StateRecords, States
<1>3. d1 \in Directories
  BY <1>1, <1>2, SetStateEntry
<1>4. AccessAsOwner(s, n, r) = L1Access(s1, n, Kind(r), b, IsWrite(r))
  BY DEF AccessAsOwner
<1> HIDE DEF b, d1
<1>5. GoodState(s1) /\ Owes(s1, 0)
  BY <1>2, <1>3, SetDirKeepsBooks, KeptBooks
<1> HIDE DEF s1
<1> QED
  BY <1>1, <1>4, <1>5, L1AccessKeepsBooks, KeptBooks

\* The end of the branches that go to the LLC, which has the block, and then to
\* the L1 of the core.
LEMMA ThroughLLCToL1Owes ==
  ASSUME NEW s, NEW b \in Blocks, GoodState(s), Owes(s, 0), Present(s.llc, b),
         NEW n \in Cores, NEW k \in L1Kinds, NEW isWrite \in BOOLEAN
  PROVE  Owes(L1Access(UpdateEntry(LLCAccess(s, b, isWrite, FALSE), b),
                       n, k, b, isWrite), 0)
<1> DEFINE s1 == LLCAccess(s, b, isWrite, FALSE)
           s2 == UpdateEntry(s1, b)
           s3 == L1Access(s2, n, k, b, isWrite)
<1>1. GoodState(s1) /\ Owes(s1, 0)
  <2>1. \A p \in BOOLEAN : LET t == LLCAccess(s, b, isWrite, p)
                           IN GoodState(t) /\ KeepsBooks(s, t)
    BY LLCAccessOwes
  <2> QED
    BY <2>1, KeptBooks
<1> HIDE DEF s1
<1>2. GoodState(s2) /\ Owes(s2, 0)
  BY <1>1, UpdateEntryKeepsBooks, KeptBooks
<1> HIDE DEF s2
<1>3. Owes(s3, 0)
  BY <1>2, L1AccessKeepsBooks, KeptBooks
<1> QED
  BY <1>3 DEF s3, s2, s1

\* A reader joins the owner, which writes the block back to the LLC.
LEMMA ShareWithOwnerOwes ==
  ASSUME NEW s, AllOK(s), ~s.aborted, Owes(s, 0), NEW n \in Cores,
         NEW m \in Cores, NEW r \in Requests, HasEntry(s.dir, r.block)
  PROVE  Owes(ShareWithOwner(s, n, m, r), 0)
<1> DEFINE b == r.block
           k == Kind(r)
           s1 == WriteBackByOwner(s, m, r)
           d1 == AddTrackerToEntry(s1.dir, b, n)
           d2 == SetState(d1, b, "SHARED_L1")
           s2 == [s1 EXCEPT !.dir = d2]
<1>1. b \in Blocks /\ k \in L1Kinds
  BY RequestFacts
<1>2. GoodState(s) /\ s.dir \in Directories /\ Present(s.llc, b)
      /\ HasEntry(s.dir, b)
  BY <1>1, ResidentHasEntry DEF AllOK, GoodState, StateRecords
<1>3. ShareWithOwner(s, n, m, r) =
        L1Access(UpdateEntry(LLCAccess(s2, b, FALSE, FALSE), b), n, k, b, FALSE)
  BY DEF ShareWithOwner
<1>4. GoodState(s1) /\ KeepsBooks(s, s1) /\ s1.dir = s.dir
  BY <1>2, WriteBackByOwnerKeepsBooks
<1> HIDE DEF b, k, s1
<1>5. d1 \in Directories /\ HasEntry(d1, b)
  BY SMTT(30), <1>1, <1>2, <1>4, SetTrackersEntry
<1> HIDE DEF d1
<1>6. d2 \in Directories
  <2>1. "SHARED_L1" \in States
    BY DEF States
  <2> QED
    BY <1>1, <1>5, <2>1, SetStateEntry
<1> HIDE DEF d2
<1>7. GoodState(s2) /\ KeepsBooks(s1, s2)
  BY <1>4, <1>6, SetDirKeepsBooks
<1> HIDE DEF s2
<1>8. Owes(s2, 0) /\ Present(s2.llc, b)
  BY <1>1, <1>2, <1>4, <1>7, KeptBooks DEF KeepsBooks, Resident
<1>9. \A isWrite \in BOOLEAN :
        Owes(L1Access(UpdateEntry(LLCAccess(s2, b, isWrite, FALSE), b),
                      n, k, b, isWrite), 0)
  BY <1>1, <1>7, <1>8, ThroughLLCToL1Owes
<1> QED
  BY <1>3, <1>9

\* The holders of the block drop it and a writer becomes its owner.
LEMMA TakenOwes ==
  ASSUME NEW s, NEW b \in Blocks, GoodState(s), Owes(s, 0), Present(s.llc, b),
         HasEntry(s.dir, b), NEW nodes, NEW n \in Cores, NEW k \in L1Kinds
  PROVE  LET taken == [L1sDrop(s, nodes, b) EXCEPT
                         !.dir = SetState(SetTrackerToEntry(@, b, n), b,
                                          "EXCLUSIVE_L1")]
         IN Owes(L1Access(UpdateEntry(LLCAccess(taken, b, TRUE, FALSE), b),
                          n, k, b, TRUE), 0)
<1> DEFINE s1 == L1sDrop(s, nodes, b)
           d1 == SetTrackerToEntry(s1.dir, b, n)
           d2 == SetState(d1, b, "EXCLUSIVE_L1")
           taken == [s1 EXCEPT !.dir = d2]
<1>1. GoodState(s1) /\ KeepsBooks(s, s1) /\ s1.dir = s.dir
  BY L1sDropKeepsBooks
<1> HIDE DEF s1
<1>2. s1.dir \in Directories
  BY <1>1 DEF GoodState, StateRecords
<1>3. d1 \in Directories
  BY <1>1, <1>2, SetTrackersEntry
<1> HIDE DEF d1
<1>4. d2 \in Directories
  <2>1. "EXCLUSIVE_L1" \in States
    BY DEF States
  <2> QED
    BY <1>3, <2>1, SetStateEntry
<1> HIDE DEF d2
<1>5. GoodState(taken) /\ KeepsBooks(s1, taken)
  BY <1>1, <1>4, SetDirKeepsBooks
<1> HIDE DEF taken
<1>6. Owes(taken, 0) /\ Present(taken.llc, b)
  BY <1>1, <1>5, KeptBooks DEF KeepsBooks, Resident
<1>7. \A isWrite \in BOOLEAN :
        Owes(L1Access(UpdateEntry(LLCAccess(taken, b, isWrite, FALSE), b),
                      n, k, b, isWrite), 0)
  BY <1>5, <1>6, ThroughLLCToL1Owes
<1>8. Owes(L1Access(UpdateEntry(LLCAccess(taken, b, TRUE, FALSE), b),
                    n, k, b, TRUE), 0)
  BY <1>7
<1> QED
  BY <1>8 DEF taken, d2, d1, s1

\* A writer takes the block from its owner.
LEMMA TakeFromOwnerOwes ==
  ASSUME NEW s, AllOK(s), ~s.aborted, Owes(s, 0), NEW n \in Cores,
         NEW m \in Cores, NEW r \in Requests, HasEntry(s.dir, r.block)
  PROVE  Owes(TakeFromOwner(s, n, m, r), 0)
<1> DEFINE b == r.block
           k == Kind(r)
           s1 == WriteBackByOwner(s, m, r)
           taken == [L1sDrop(s1, {m}, b) EXCEPT
                       !.dir = SetState(SetTrackerToEntry(@, b, n), b,
                                        "EXCLUSIVE_L1")]
           t == L1Access(UpdateEntry(LLCAccess(taken, b, TRUE, FALSE), b),
                         n, k, b, TRUE)
<1>1. b \in Blocks /\ k \in L1Kinds
  BY RequestFacts
<1>2. GoodState(s) /\ HasEntry(s.dir, b) /\ Present(s.llc, b)
  BY <1>1, ResidentHasEntry DEF AllOK
<1>3. TakeFromOwner(s, n, m, r) = t
  BY DEF TakeFromOwner
<1>4. GoodState(s1) /\ KeepsBooks(s, s1) /\ s1.dir = s.dir
  BY <1>2, WriteBackByOwnerKeepsBooks
<1> HIDE DEF b, k, s1
<1>5. Owes(s1, 0) /\ Present(s1.llc, b) /\ HasEntry(s1.dir, b)
  BY <1>1, <1>2, <1>4, KeptBooks DEF KeepsBooks, Resident
<1>6. Owes(t, 0)
  BY <1>1, <1>4, <1>5, TakenOwes
<1> QED
  BY <1>3, <1>6

\* A writer takes the block from the sharers.
LEMMA TakeFromSharersOwes ==
  ASSUME NEW s, AllOK(s), ~s.aborted, Owes(s, 0), NEW n \in Cores,
         NEW r \in Requests, HasEntry(s.dir, r.block)
  PROVE  Owes(TakeFromSharers(s, n, r), 0)
<1> DEFINE b == r.block
           k == Kind(r)
           nodes == TrackersOf(s.dir, b)
           taken == [L1sDrop(s, nodes, b) EXCEPT
                       !.dir = SetState(SetTrackerToEntry(@, b, n), b,
                                        "EXCLUSIVE_L1")]
           t == L1Access(UpdateEntry(LLCAccess(taken, b, TRUE, FALSE), b),
                         n, k, b, TRUE)
<1>1. b \in Blocks /\ k \in L1Kinds
  BY RequestFacts
<1>2. GoodState(s) /\ HasEntry(s.dir, b) /\ Present(s.llc, b)
  BY <1>1, ResidentHasEntry DEF AllOK
<1>3. TakeFromSharers(s, n, r) = t
  BY DEF TakeFromSharers
<1> HIDE DEF b, k, nodes
<1>4. Owes(t, 0)
  BY <1>1, <1>2, TakenOwes
<1> QED
  BY <1>3, <1>4

\* One more reader joins the sharers: the LLC is not told.
LEMMA JoinSharersOwes ==
  ASSUME NEW s, AllOK(s), Owes(s, 0), NEW n \in Cores, NEW r \in Requests,
         HasEntry(s.dir, r.block)
  PROVE  Owes(JoinSharers(s, n, r), 0)
<1> DEFINE b == r.block
           k == Kind(r)
           d1 == AddTrackerToEntry(s.dir, b, n)
           s1 == [s EXCEPT !.dir = d1]
<1>1. b \in Blocks /\ k \in L1Kinds
  BY RequestFacts
<1>2. GoodState(s) /\ s.dir \in Directories /\ HasEntry(s.dir, b)
  BY DEF AllOK, GoodState, StateRecords
<1>3. JoinSharers(s, n, r) = L1Access(s1, n, k, b, FALSE)
  BY DEF JoinSharers
<1> HIDE DEF b, k
<1>4. d1 \in Directories
  BY <1>1, <1>2, SetTrackersEntry
<1> HIDE DEF d1
<1>5. GoodState(s1) /\ Owes(s1, 0)
  BY <1>2, <1>4, SetDirKeepsBooks, KeptBooks
<1> HIDE DEF s1
<1>6. \A isWrite \in BOOLEAN : Owes(L1Access(s1, n, k, b, isWrite), 0)
  BY <1>1, <1>5, L1AccessKeepsBooks, KeptBooks
<1> QED
  BY <1>3, <1>6

\* A prefetch is counted when it fills the LLC, unless an assertion has failed.
LEMMA PrefetchAddressOwes ==
  ASSUME NEW s, AllOK(s), s.aborted \/ Owes(s, 0),
         NEW b \in Blocks \cup {NoBlock}
  PROVE  LET t == PrefetchAddress(s, b)
         IN t.aborted \/ Owes(t, 0)
<1> DEFINE d0 == AddEntry(s.dir, b)
           s0 == [s EXCEPT !.dir = d0]
           isNew == b # NoBlock /\ StateOf(s0.dir, b) = "NOT_PRESENT"
           s1 == LLCAccess(s0, b, FALSE, TRUE)
           s2 == UpdateEntry(s1, b)
           d3 == SetState(s2.dir, b, "CLEAN_LLC")
           s3 == [s2 EXCEPT !.dir = d3]
           s4 == Count(s3, "issuedPrefetch")
<1>1. PrefetchAddress(s, b) = IF isNew THEN s4 ELSE s
  BY DEF PrefetchAddress
<1>2. CASE ~isNew
  BY <1>1, <1>2
<1>3. CASE isNew
  <2>1. b \in Blocks /\ GoodState(s) /\ s.dir \in Directories
    BY <1>3 DEF AllOK, GoodState, StateRecords
  <2>2. d0 \in Directories
    BY <2>1 DEF AddEntry, Directories, Entries, States
  <2> HIDE DEF d0
  <2>3. /\ GoodState(s0) /\ KeepsBooks(s, s0) /\ s0.dir = d0
        /\ s0.aborted = s.aborted
    BY <2>1, <2>2, SetDirGood, SetDirKeepsBooks
  <2>4. s.aborted \/ ~Present(s.llc, b)
    <3>1. StateOf(d0, b) = "NOT_PRESENT"
      BY <1>3, <2>3
    <3> QED
      BY <2>1, <3>1, ResidentHasEntry DEF d0
  <2> HIDE DEF s0
  <2>5. /\ GoodState(s1)
        /\ s.aborted => s1.aborted
        /\ s.aborted \/ Owes(s1, 1)
    <3>1. \A isWrite, p \in BOOLEAN :
            LET t == LLCAccess(s0, b, isWrite, p)
            IN /\ GoodState(t)
               /\ s0.aborted => t.aborted
               /\ ~Present(s0.llc, b) /\ Owes(s0, 0) => Owes(t, 1)
      BY <2>1, <2>3, LLCAccessGood, LLCAccessOwes
    <3>2. s.aborted \/ (~Present(s0.llc, b) /\ Owes(s0, 0))
      BY <2>1, <2>3, <2>4, KeptBooks DEF KeepsBooks, Resident
    <3>3. LET t == LLCAccess(s0, b, FALSE, TRUE)
          IN /\ GoodState(t)
             /\ s0.aborted => t.aborted
             /\ ~Present(s0.llc, b) /\ Owes(s0, 0) => Owes(t, 1)
      BY <3>1
    <3> QED
      BY <2>3, <3>2, <3>3
  <2> HIDE DEF s1
  <2>6. /\ GoodState(s2)
        /\ s.aborted => s2.aborted
        /\ s.aborted \/ Owes(s2, 1)
    BY <2>5, UpdateEntryKeepsBooks, KeptBooks
  <2> HIDE DEF s2
  <2>7. d3 \in Directories
    <3>1. s2.dir \in Directories /\ "CLEAN_LLC" \in States
      BY <2>6 DEF GoodState, StateRecords, States
    <3> QED
      BY <2>1, <3>1, SetStateEntry
  <2> HIDE DEF d3
  <2>8. /\ GoodState(s3)
        /\ s.aborted => s3.aborted
        /\ s.aborted \/ Owes(s3, 1)
    BY <2>6, <2>7, SetDirGood, SetDirKeepsBooks, KeptBooks
  <2> HIDE DEF s3
  <2>9. (s.aborted => s4.aborted) /\ (s.aborted \/ Owes(s4, 0))
    <3>1. "issuedPrefetch" \in Stats
      BY DEF Stats
    <3> QED
      BY <2>8, <3>1, CountGood, CountOwes
  <2> HIDE DEF s4
  <2> QED
    BY <1>1, <1>3, <2>9
<1> QED
  BY <1>2, <1>3

\* The invariant of the statistics, beside that of the caches.
BInv == IInv /\ Owes(State, 0)

LEMMA BecomesBalanced ==
  ASSUME BInv, NEW s, AllOK(s), s.aborted \/ Owes(s, 0), Becomes(s)
  PROVE  BInv'
<1>1. IInv'
  BY BecomesOK DEF BInv
<1>2. CASE s.aborted
  <2>1. llc' = llc /\ mem' = mem
    BY <1>2 DEF Becomes
  <2> QED
    BY <1>1, <2>1 DEF BInv, State, Owes, Resident, Present, Fetched, Written
<1>3. CASE ~s.aborted
  <2>1. llc' = s.llc /\ mem' = s.mem
    BY <1>3 DEF Becomes
  <2> QED
    BY <1>1, <1>3, <2>1
    DEF BInv, State, Owes, Resident, Present, Fetched, Written
<1> QED
  BY <1>2, <1>3

LEMMA BecomesWithPrefetchBalanced ==
  ASSUME BInv, NEW s, AllOK(s), s.aborted \/ Owes(s, 0), NEW b,
         BecomesWithPrefetch(s, b)
  PROVE  BInv'
<1>1. PICK p \in PrefetchesAfter(b) :
        Becomes(PrefetchAddress(PrefetchAddress(s, p[1]), p[2]))
  BY DEF BecomesWithPrefetch
<1>2. p[1] \in Blocks \cup {NoBlock} /\ p[2] \in Blocks \cup {NoBlock}
  BY DEF PrefetchesAfter
<1> DEFINE t == PrefetchAddress(s, p[1])
           u == PrefetchAddress(t, p[2])
<1>3. AllOK(t) /\ (t.aborted \/ Owes(t, 0))
  BY <1>2, PrefetchAddressOK, PrefetchAddressOwes
<1> HIDE DEF t
<1>4. AllOK(u) /\ (u.aborted \/ Owes(u, 0))
  BY <1>2, <1>3, PrefetchAddressOK, PrefetchAddressOwes
<1> HIDE DEF u
<1>5. Becomes(u)
  BY <1>1 DEF u, t
<1> QED
  BY <1>4, <1>5, BecomesBalanced

LEMMA InitBalanced == Init => BInv
<1> SUFFICES ASSUME Init PROVE BInv
  OBVIOUS
<1>1. Resident(llc) = {}
  BY Geometry, EmptyCacheGood DEF Init, Resident
<1>2. IsFiniteSet(Resident(llc)) /\ Cardinality(Resident(llc)) = 0
  BY <1>1, FS_EmptySet
<1>3. Fetched(mem) = 0 /\ Written(mem) = 0
  BY DEF Init, Fetched, Written, Stats
<1>4. 0 \in Int /\ 0 * StatRange = 0
  BY HierarchyAssumption
<1>5. Fetched(mem) + 0 = Cardinality(Resident(llc)) + Written(mem) + 0 * StatRange
  BY <1>2, <1>3, <1>4
<1>6. State.llc = llc /\ State.mem = mem
  BY DEF State
<1>7. Owes(State, 0)
  BY <1>2, <1>4, <1>5, <1>6 DEF Owes
<1> QED
  BY <1>7, InitOK DEF BInv

\* Every access keeps the balance.
LEMMA NextBalanced == BInv /\ [Next]_vars => BInv'
<1> SUFFICES ASSUME BInv, [Next]_vars PROVE BInv'
  OBVIOUS
<1>1. IInv /\ AllOK(State) /\ Owes(State, 0)
  BY InvariantOfState DEF BInv
<1>2. CASE UNCHANGED vars
  <2>1. IInv'
    BY <1>1, <1>2, NextOK
  <2> QED
    BY <1>1, <1>2, <2>1
    DEF vars, BInv, State, Owes, Resident, Present, Fetched, Written
<1>3. ASSUME NEW n \in Cores, NEW r \in Requests, Access(n, r)
      PROVE  BInv'
  <2> DEFINE b == r.block
  <2>1. b \in Blocks
    BY RequestFacts
  <2>2. State.dir = dir /\ ~State.aborted /\ dir \in Directories
    <3>1. ~aborted
      BY <1>3 DEF Access, AccessNotPresent, AccessInLLC, AccessOwned,
                  ReadOwnedElsewhere, WriteOwnedElsewhere, ReadShared,
                  WriteShared, Finds
    <3> QED
      BY <1>1, <3>1 DEF IInv, GoodState, StateRecords, State
  <2>3. ASSUME NEW states \in SUBSET (States \ {"NOT_PRESENT"}), Finds(r, states)
        PROVE  HasEntry(dir, b) /\ StateOf(dir, b) \in states
    BY <2>1, <2>2, <2>3
    DEF Finds, AddEntry, HasEntry, StateOf, Directories
  <2>4. CASE AccessNotPresent(n, r)
    <3> DEFINE t == FetchFromMemory(State, n, r)
    <3>1. StateOf(AddEntry(dir, b), b) = "NOT_PRESENT"
      BY <2>4 DEF AccessNotPresent, Finds
    <3>2. AllOK(t) /\ Owes(t, 0)
      BY <1>1, <2>2, <3>1, FetchFromMemoryOK, FetchFromMemoryOwes
    <3>3. BecomesWithPrefetch(t, b)
      BY <2>4 DEF AccessNotPresent
    <3> HIDE DEF t, b
    <3> QED
      BY <3>2, <3>3, BecomesWithPrefetchBalanced
  <2>5. CASE AccessInLLC(n, r)
    <3> DEFINE t == FetchFromLLC(State, n, r)
    <3>1. HasEntry(dir, b)
      BY <2>3, <2>5 DEF AccessInLLC, States
    <3>2. AllOK(t) /\ Owes(t, 0)
      BY <1>1, <2>2, <3>1, FetchFromLLCOK, FetchFromLLCOwes
    <3>3. BecomesWithPrefetch(t, b)
      BY <2>5 DEF AccessInLLC
    <3> HIDE DEF t, b
    <3> QED
      BY <3>2, <3>3, BecomesWithPrefetchBalanced
  <2>6. ASSUME Finds(r, {"MODIFIED_L1", "EXCLUSIVE_L1"})
        PROVE  /\ HasEntry(dir, b)
               /\ StateOf(dir, b) \in {"MODIFIED_L1", "EXCLUSIVE_L1"}
               /\ Owner(b) \in Cores
               /\ StateOfOneOwner(b) = State
    <3>1. /\ HasEntry(dir, b)
          /\ StateOf(dir, b) \in {"MODIFIED_L1", "EXCLUSIVE_L1"}
      BY <2>3, <2>6 DEF States
    <3> HIDE DEF b
    <3> QED
      BY <1>1, <2>1, <3>1, OneOwner
  <2>7. CASE AccessOwned(n, r)
    <3> DEFINE t == AccessAsOwner(State, n, r)
    <3>1. AllOK(t) /\ Owes(t, 0)
      BY <1>1, <2>2, <2>6, <2>7, AccessAsOwnerOK, AccessAsOwnerOwes
      DEF AccessOwned
    <3>2. Becomes(t)
      BY <2>6, <2>7 DEF AccessOwned
    <3> HIDE DEF t
    <3> QED
      BY <3>1, <3>2, BecomesBalanced
  <2>8. CASE ReadOwnedElsewhere(n, r)
    <3> DEFINE t == ShareWithOwner(State, n, Owner(b), r)
    <3>1. AllOK(t) /\ Owes(t, 0)
      BY <1>1, <2>2, <2>6, <2>8, ShareWithOwnerOK, ShareWithOwnerOwes
      DEF ReadOwnedElsewhere
    <3>2. Becomes(t)
      BY <2>6, <2>8 DEF ReadOwnedElsewhere
    <3> HIDE DEF t
    <3> QED
      BY <3>1, <3>2, BecomesBalanced
  <2>9. CASE WriteOwnedElsewhere(n, r)
    <3> DEFINE t == TakeFromOwner(State, n, Owner(b), r)
    <3>1. AllOK(t) /\ Owes(t, 0)
      BY <1>1, <2>2, <2>6, <2>9, TakeFromOwnerOK, TakeFromOwnerOwes
      DEF WriteOwnedElsewhere
    <3>2. Becomes(t)
      BY <2>6, <2>9 DEF WriteOwnedElsewhere
    <3> HIDE DEF t
    <3> QED
      BY <3>1, <3>2, BecomesBalanced
  <2>10. CASE ReadShared(n, r)
    <3> DEFINE t == JoinSharers(State, n, r)
    <3>1. HasEntry(dir, b) /\ StateOf(dir, b) = "SHARED_L1"
      BY <2>3, <2>10 DEF ReadShared, States
    <3>2. AllOK(t) /\ Owes(t, 0)
      BY <1>1, <2>2, <3>1, JoinSharersOK, JoinSharersOwes
    <3>3. Becomes(t)
      BY <2>10 DEF ReadShared
    <3> HIDE DEF t
    <3> QED
      BY <3>2, <3>3, BecomesBalanced
  <2>11. CASE WriteShared(n, r)
    <3> DEFINE t == TakeFromSharers(State, n, r)
    <3>1. HasEntry(dir, b)
      BY <2>3, <2>11 DEF WriteShared, States
    <3>2. AllOK(t) /\ Owes(t, 0)
      BY <1>1, <2>2, <3>1, TakeFromSharersOK, TakeFromSharersOwes
    <3>3. Becomes(t)
      BY <2>11 DEF WriteShared
    <3> HIDE DEF t
    <3> QED
      BY <3>2, <3>3, BecomesBalanced
  <2> QED
    BY <1>3, <2>4, <2>5, <2>7, <2>8, <2>9, <2>10, <2>11 DEF Access
<1> QED
  BY <1>2, <1>3 DEF Next

\* The reads, the writes and the prefetches that fetched a block from the main
\* memory are as many as the blocks of the LLC and the write backs, up to the
\* width of the counters: no fill of Hierarchy::handleAccess or prefetchAddress
\* is missed or counted twice, and no eviction is written back twice, whatever
\* the numbers of cores and blocks, the geometries and the policy.
THEOREM FetchesAlwaysBalance == Spec => []FetchesBalance
<1>1. Spec => []BInv
  BY InitBalanced, NextBalanced, PTL DEF Spec
<1>2. BInv => FetchesBalance
  <2> SUFFICES ASSUME BInv PROVE FetchesBalance
    OBVIOUS
  <2> DEFINE valid == {b \in Blocks : Holds(LLC, llc, b)}
  <2>1. mem \in [Stats -> 0 .. (StatRange - 1)] /\ IInv
        /\ GoodCache(LLC, llc) /\ NoGhost(LLC, llc)
    BY DEF BInv, IInv, GoodState, StateRecords, State
  <2>2. valid = Resident(llc)
    <3>1. ASSUME NEW b \in Blocks, Present(llc, b)
          PROVE  EntryOf(LLC, llc, b).valid
      <4>1. /\ SetOf(LLC, b) \in Sets(LLC) /\ llc.tag[b] \in Ways(LLC)
            /\ llc.line[SetOf(LLC, b)][llc.tag[b]].addr = b
        BY <2>1, <3>1, Geometry, IndexedEntry
      <4>2. b # NoBlock
        BY Geometry, GeometryFacts
      <4> QED
        BY <2>1, <4>1, <4>2 DEF NoGhost, EntryOf
    <3> QED
      BY <3>1 DEF Holds, Resident
  <2>3. /\ IsFiniteSet(Resident(llc))
        /\ \E k \in Int : Fetched(mem) + 0 =
             Cardinality(Resident(llc)) + Written(mem) + k * StatRange
    BY DEF BInv, Owes, State
  <2>4. PICK k \in Int : Fetched(mem) + 0 =
                           Cardinality(Resident(llc)) + Written(mem) + k * StatRange
    BY <2>3
  <2>5. Cardinality(Resident(llc)) \in Nat
    BY <2>3, FS_CardinalityType
  <2>6. \A x \in Stats : mem[x] \in Nat
    BY <2>1, HierarchyAssumption
  <2> HIDE DEF valid
  <2>7. /\ Fetched(mem) = mem["readFetch"] + mem["writeFetch"]
                          + mem["issuedPrefetch"]
        /\ Written(mem) = mem["cleanWB"] + mem["dirtyWB"]
        /\ Fetched(mem) \in Nat /\ Written(mem) \in Nat
    BY <2>6 DEF Fetched, Written, Stats
  <2> DEFINE z == Cardinality(valid) + Written(mem)
  <2>8. z \in Nat /\ Fetched(mem) = z + k * StatRange
    <3>1. k * StatRange \in Int
      BY HierarchyAssumption
    <3> QED
      BY <2>2, <2>4, <2>5, <2>7, <3>1
  <2>9. z = Cardinality(valid) + mem["cleanWB"] + mem["dirtyWB"]
    BY <2>2, <2>5, <2>6, <2>7 DEF Stats
  <2> HIDE DEF z
  <2>10. Fetched(mem) % StatRange = z % StatRange
    BY <2>7, <2>8, SameCount
  <2> QED
    BY <2>7, <2>9, <2>10 DEF FetchesBalance, valid
<1> QED
  BY <1>1, <1>2, PTL
=============================================================================
