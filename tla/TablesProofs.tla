---------------------------- MODULE TablesProofs ----------------------------
(***************************************************************************)
(* The tables beside the caches.  The stamps of LRUPolicy implement the     *)
(* least recently used order as long as the counter fits the int they are   *)
(* stored in; the streams of the prefetcher keep as many of the last        *)
(* accesses as there are streams; the set of an address is that of its      *)
(* block.  At the end, what is proved of each table holds of Tables, where  *)
(* they stand side by side.                                                 *)
(***************************************************************************)
EXTENDS Tables, MissingTagsProofs, WellFoundedInduction

\* No stamp is ahead of the counter, which still fits, and no two lines have the
\* same one.
SInv ==
  /\ StampsTypeOK
  /\ m_cpt \in 1 .. HalfRange
  /\ \A w \in Assocs : stamp[w] \in 0 .. (m_cpt - 1)
  /\ \A v, w \in Assocs : (valid[v] /\ valid[w] /\ v # w) => stamp[v] # stamp[w]

LEMMA ModSmall ==
  ASSUME NEW a \in Nat, NEW b \in Nat, a < b
  PROVE  a % b = a
  BY Z3

\* A counter below the half range is stored as it is.
LEMMA ToIntFits ==
  ASSUME NEW n \in Nat, n < HalfRange
  PROVE  ToInt(n) = n
  BY ModSmall, StampsAssumption DEF ToInt


-----------------------------------------------------------------------------
LEMMA SInitOK == StampsInit => SInv
  BY StampsAssumption DEF StampsInit, SInv, StampsTypeOK, Assocs

\* Stamping a way keeps the invariant, whether it becomes valid or not.
LEMMA StampOK ==
  ASSUME SInv, NEW w \in Assocs, m_cpt < HalfRange, Stamp(w),
         valid' \in [Assocs -> BOOLEAN],
         \A v \in Assocs \ {w} : valid'[v] = valid[v]
  PROVE  SInv'
<1>1. ToInt(m_cpt) = m_cpt
  BY ToIntFits DEF SInv
<1>2. stamp' = [stamp EXCEPT ![w] = m_cpt] /\ m_cpt' = m_cpt + 1
  BY <1>1 DEF Stamp
<1>3. \A v \in Assocs : stamp'[v] = IF v = w THEN m_cpt ELSE stamp[v]
  BY <1>2 DEF SInv, StampsTypeOK
<1> QED
  BY <1>2, <1>3, StampsAssumption DEF SInv, StampsTypeOK

LEMMA SNextOK ==
  ASSUME UpdateBound <= HalfRange, SInv, [StampsNext]_stampsVars
  PROVE  SInv'
<1>1. ASSUME NEW w \in Assocs, UpdatePolicy(w) PROVE SInv'
  <2>1. m_cpt < HalfRange /\ valid' = valid
    BY <1>1, StampsAssumption DEF UpdatePolicy, SInv
  <2> QED
    BY <1>1, <2>1, StampOK DEF UpdatePolicy, SInv, StampsTypeOK
<1>2. ASSUME NEW w \in Assocs, Insert(w) PROVE SInv'
  <2>1. m_cpt < HalfRange /\ valid' = [valid EXCEPT ![w] = TRUE]
    BY <1>2, StampsAssumption DEF Insert, SInv
  <2> QED
    BY <1>2, <2>1, StampOK DEF Insert, SInv, StampsTypeOK
<1>3. ASSUME NEW w \in Assocs, Deallocate(w) PROVE SInv'
  BY <1>3, StampsAssumption DEF Deallocate, SInv, StampsTypeOK
<1>4. ASSUME NEW w \in Assocs, InvalidateInPlace(w) PROVE SInv'
  BY <1>4 DEF InvalidateInPlace, SInv, StampsTypeOK
<1>5. CASE OtherSet
  BY <1>5, StampsAssumption DEF OtherSet, SInv, StampsTypeOK
<1>6. CASE UNCHANGED stampsVars
  BY <1>6 DEF stampsVars, SInv, StampsTypeOK, Assocs
<1> QED
  BY <1>1, <1>2, <1>3, <1>4, <1>5, <1>6 DEF StampsNext

LEMMA SInvariant == UpdateBound <= HalfRange => (StampsSpec => []SInv)
<1> SUFFICES ASSUME UpdateBound <= HalfRange PROVE StampsSpec => []SInv
  OBVIOUS
<1> QED
  BY SInitOK, SNextOK, PTL DEF StampsSpec

-----------------------------------------------------------------------------
(***************************************************************************)
(* What a step does to the order.                                          *)
(***************************************************************************)
\* A way that is stamped and valid becomes the latest.
LEMMA StampMakesLatest ==
  ASSUME SInv, NEW w \in Assocs, m_cpt < HalfRange, Stamp(w),
         valid' = [valid EXCEPT ![w] = TRUE]
  PROVE  LRU!MakeLatest(w)
<1>1. \A v \in Assocs : stamp'[v] = IF v = w THEN m_cpt ELSE stamp[v]
  BY ToIntFits DEF Stamp, SInv, StampsTypeOK
<1>2. \A v \in Assocs : stamp[v] < m_cpt /\ stamp[v] \in Int
  BY DEF SInv
<1>3. m_cpt \in Int
  BY DEF SInv
<1>4. ValidWays' = ValidWays \cup {w}
  BY DEF ValidWays, SInv, StampsTypeOK
<1>5. ASSUME NEW u \in Assocs, NEW v \in Assocs
      PROVE  <<u, v>> \in StampOrder' <=>
               \/ <<u, v>> \in StampOrder /\ w # u /\ w # v
               \/ v = w /\ u \in ValidWays \ {w}
  <2>1. <<u, v>> \in StampOrder' <=>
          u \in ValidWays' /\ v \in ValidWays' /\ stamp'[u] < stamp'[v]
    BY DEF StampOrder
  <2>2. <<u, v>> \in StampOrder <=>
          u \in ValidWays /\ v \in ValidWays /\ stamp[u] < stamp[v]
    BY DEF StampOrder
  <2> QED
    BY <2>1, <2>2, <1>1, <1>2, <1>3, <1>4 DEF ValidWays
<1>6. StampOrder \subseteq Assocs \X Assocs /\ StampOrder' \subseteq Assocs \X Assocs
  BY DEF StampOrder, ValidWays
<1>7. StampOrder' = {o \in StampOrder : w # o[1] /\ w # o[2]}
                      \cup {<<v, w>> : v \in ValidWays \ {w}}
  <2> DEFINE New == {o \in StampOrder : w # o[1] /\ w # o[2]}
                      \cup {<<v, w>> : v \in ValidWays \ {w}}
  <2>1. New \subseteq Assocs \X Assocs
    BY <1>6 DEF ValidWays
  <2>2. ASSUME NEW u \in Assocs, NEW v \in Assocs
        PROVE  <<u, v>> \in New <=>
                 \/ <<u, v>> \in StampOrder /\ w # u /\ w # v
                 \/ v = w /\ u \in ValidWays \ {w}
    OBVIOUS
  <2> HIDE DEF New
  <2>3. ASSUME NEW o \in Assocs \X Assocs PROVE o \in StampOrder' <=> o \in New
    <3> PICK u \in Assocs, v \in Assocs : o = <<u, v>>
      OBVIOUS
    <3> QED
      BY <1>5, <2>2
  <2>4. StampOrder' = New
    BY <1>6, <2>1, <2>3
  <2> QED
    BY <2>4 DEF New
<1> QED
  BY <1>4, <1>7 DEF LRU!MakeLatest

\* A way that is emptied or invalidated leaves the order of the others.
LEMMA InvalidMakesFree ==
  ASSUME SInv, NEW w \in Assocs, valid' = [valid EXCEPT ![w] = FALSE],
         \A v \in Assocs \ {w} : stamp'[v] = stamp[v]
  PROVE  LRU!Free(w)
<1>1. ValidWays' = ValidWays \ {w}
  BY DEF ValidWays, SInv, StampsTypeOK
<1>2. \A o \in ValidWays' \X ValidWays' :
        stamp'[o[1]] = stamp[o[1]] /\ stamp'[o[2]] = stamp[o[2]]
  BY <1>1 DEF ValidWays
<1>3. StampOrder' = {o \in StampOrder : w # o[1] /\ w # o[2]}
  BY <1>1, <1>2 DEF StampOrder
<1> QED
  BY <1>1, <1>3 DEF LRU!Free

\* The victim is a free way or the oldest.
LEMMA VictimIsOldest ==
  ASSUME SInv, NEW w \in Assocs, IsVictim(w)
  PROVE  w \notin ValidWays \/ (ValidWays = Assocs /\ LRU!IsOldest(w))
<1>1. CASE ~valid[w]
  BY <1>1 DEF ValidWays
<1>2. CASE valid[w]
  <2>1. \A v \in Assocs : valid[v]
    BY <1>2 DEF IsVictim
  <2>2. ValidWays = Assocs
    BY <2>1 DEF ValidWays
  <2>3. ASSUME NEW v \in Assocs \ {w} PROVE stamp[w] < stamp[v]
    BY <1>2, <2>1 DEF IsVictim, SInv
  <2>4. ASSUME NEW v \in Assocs \ {w} PROVE <<w, v>> \in StampOrder
    BY <2>2, <2>3 DEF StampOrder
  <2> QED
    BY <2>2, <2>4 DEF LRU!IsOldest
<1> QED
  BY <1>1, <1>2

LEMMA LRUStep ==
  ASSUME UpdateBound <= HalfRange, SInv, [StampsNext]_stampsVars
  PROVE  [LRU!LRUNext]_<<ValidWays, StampOrder>>
<1>1. ASSUME NEW w \in Assocs, UpdatePolicy(w), valid[w] PROVE LRU!Use(w)
  <2>1. m_cpt < HalfRange /\ valid' = [valid EXCEPT ![w] = TRUE] /\ Stamp(w)
    BY <1>1, StampsAssumption DEF UpdatePolicy, SInv, StampsTypeOK
  <2>2. w \in ValidWays
    BY <1>1 DEF ValidWays
  <2> QED
    BY <2>1, <2>2, StampMakesLatest DEF LRU!Use
<1>2. ASSUME NEW w \in Assocs, UpdatePolicy(w), ~valid[w]
      PROVE  UNCHANGED <<ValidWays, StampOrder>>
  <2>1. valid' = valid /\ \A v \in Assocs : v # w => stamp'[v] = stamp[v]
    BY <1>2 DEF UpdatePolicy, Stamp, SInv, StampsTypeOK
  <2>2. ValidWays' = ValidWays /\ w \notin ValidWays
    BY <2>1, <1>2 DEF ValidWays
  <2>3. \A o \in ValidWays \X ValidWays :
          stamp'[o[1]] = stamp[o[1]] /\ stamp'[o[2]] = stamp[o[2]]
    BY <2>1, <2>2 DEF ValidWays
  <2> QED
    BY <2>2, <2>3 DEF StampOrder
<1>3. ASSUME NEW w \in Assocs, Insert(w) PROVE LRU!Fill(w)
  <2>1. m_cpt < HalfRange /\ valid' = [valid EXCEPT ![w] = TRUE] /\ Stamp(w)
    BY <1>3, StampsAssumption DEF Insert, SInv
  <2> QED
    BY <1>3, <2>1, StampMakesLatest, VictimIsOldest DEF LRU!Fill, Insert
<1>4. ASSUME NEW w \in Assocs, Deallocate(w) PROVE LRU!Free(w)
  BY <1>4, InvalidMakesFree DEF Deallocate, SInv, StampsTypeOK
<1>5. ASSUME NEW w \in Assocs, InvalidateInPlace(w) PROVE LRU!Free(w)
  BY <1>5, InvalidMakesFree DEF InvalidateInPlace
<1>6. CASE OtherSet \/ UNCHANGED stampsVars
  BY <1>6 DEF OtherSet, stampsVars, ValidWays, StampOrder
<1> QED
  BY <1>1, <1>2, <1>3, <1>4, <1>5, <1>6 DEF StampsNext, LRU!LRUNext

LEMMA LRUStart == StampsInit => LRU!LRUInit
<1> SUFFICES ASSUME StampsInit PROVE ValidWays = {} /\ StampOrder = {}
  BY DEF LRU!LRUInit
<1>1. ValidWays = {}
  BY DEF StampsInit, ValidWays
<1> QED
  BY <1>1 DEF StampOrder

-----------------------------------------------------------------------------
\* LRUPolicy evicts the least recently used line of a set, whatever was emptied or
\* invalidated in between, as long as the counter fits an int.
THEOREM StampsAlwaysImplementLRU ==
  UpdateBound <= HalfRange => (StampsSpec => StampsImplementLRU)
<1> SUFFICES ASSUME UpdateBound <= HalfRange PROVE StampsSpec => StampsImplementLRU
  OBVIOUS
<1>1. StampsSpec => []SInv
  BY SInvariant
<1> QED
  BY <1>1, LRUStart, LRUStep, PTL DEF StampsSpec, StampsImplementLRU, LRU!LRUSpec

\* Also past the width of the int, where the order is lost, a stamp is an int.
THEOREM StampsTypeCorrect == StampsSpec => []StampsTypeOK
<1>1. \A n \in Nat : ToInt(n) \in (-HalfRange) .. (HalfRange - 1)
  <2>1. \A k \in Nat, m \in Nat \ {0} : k % m \in 0 .. (m - 1)
    OBVIOUS
  <2>2. ASSUME NEW n \in Nat PROVE ToInt(n) \in (-HalfRange) .. (HalfRange - 1)
    <3> DEFINE k == n + HalfRange
               m == 2 * HalfRange
    <3>1. k \in Nat /\ m \in Nat \ {0}
      BY StampsAssumption
    <3> HIDE DEF k, m
    <3>2. k % m \in 0 .. (m - 1)
      BY <2>1, <3>1
    <3>3. ToInt(n) = (k % m) - HalfRange
      BY DEF ToInt, k, m
    <3> DEFINE r == k % m
    <3> HIDE DEF r
    <3>4. r \in 0 .. (m - 1)
      BY <3>2 DEF r
    <3>5. ToInt(n) = r - HalfRange
      BY <3>3 DEF r
    <3>6. r \in Int /\ 0 <= r /\ r < 2 * HalfRange /\ HalfRange \in Int
      BY <3>1, <3>4, StampsAssumption DEF m
    <3> QED
      BY <3>5, <3>6
  <2> QED
    BY <2>2
<1>2. StampsInit => StampsTypeOK
  BY StampsAssumption DEF StampsInit, StampsTypeOK
<1>3. StampsTypeOK /\ [StampsNext]_stampsVars => StampsTypeOK'
  <2> SUFFICES ASSUME StampsTypeOK, [StampsNext]_stampsVars PROVE StampsTypeOK'
    OBVIOUS
  <2>1. ASSUME NEW w \in Assocs, Stamp(w)
        PROVE  /\ stamp' \in [Assocs -> (-HalfRange) .. (HalfRange - 1)]
               /\ m_cpt' \in Nat
    <3>1. ToInt(m_cpt) \in (-HalfRange) .. (HalfRange - 1)
      BY <1>1 DEF StampsTypeOK
    <3> QED
      BY <2>1, <3>1 DEF Stamp, StampsTypeOK
  <2>2. ASSUME NEW w \in Assocs, UpdatePolicy(w) \/ Insert(w) PROVE StampsTypeOK'
    BY <2>1, <2>2 DEF UpdatePolicy, Insert, StampsTypeOK
  <2>3. ASSUME NEW w \in Assocs, Deallocate(w) PROVE StampsTypeOK'
    BY <2>3, StampsAssumption DEF Deallocate, StampsTypeOK
  <2>5. ASSUME NEW w \in Assocs, InvalidateInPlace(w) PROVE StampsTypeOK'
    BY <2>5 DEF InvalidateInPlace, StampsTypeOK
  <2>4. CASE OtherSet \/ UNCHANGED stampsVars
    BY <2>4 DEF OtherSet, stampsVars, StampsTypeOK
  <2> QED
    BY <2>2, <2>3, <2>4, <2>5 DEF StampsNext
<1> QED
  BY <1>2, <1>3, PTL DEF StampsSpec

-----------------------------------------------------------------------------
(***************************************************************************)
(* The streams.                                                            *)
(***************************************************************************)
Continued(n) ==
  \E m \in (n + 1) .. Len(recent) : recent[m] - recent[n] \in 1 .. (PageSize - 1)

\* The n-th access is the last of a stream, or a later one was within a page
\* beyond it, or all streams are of later ones.
Remembered(n) ==
  \/ \E i \in StreamSlots : streams[i].lru = n - 1
  \/ Continued(n)
  \/ \A i \in StreamSlots : streams[i].lru >= n

\* All slots are taken by the first access; each has an access and its number, and
\* only the first access has several.
StreamsInv ==
  /\ StreamsTypeOK
  /\ \A i \in StreamSlots : streams[i].valid <=> Len(recent) > 0
  /\ \A i \in StreamSlots : streams[i].valid =>
       /\ streams[i].lru \in 0 .. (Len(recent) - 1)
       /\ streams[i].addr = recent[streams[i].lru + 1]
  /\ \A i, j \in StreamSlots :
       streams[i].lru = streams[j].lru /\ streams[i].lru > 0 => i = j
  /\ \A n \in 1 .. Len(recent) : Remembered(n)

LEMMA LeastNumber ==
  ASSUME NEW S \in SUBSET Nat, S # {}
  PROVE  \E x \in S : \A y \in S : x <= y
<1> DEFINE R == OpToRel(<, Nat)
<1>1. \A x, y \in Nat : <<y, x>> \in R <=> y < x
  BY DEF OpToRel
<1>2. IsWellFoundedOn(R, Nat)
  BY NatLessThanWellFounded
<1> HIDE DEF R
<1>3. PICK x \in S : \A y \in S : ~(<<y, x>> \in R)
  BY <1>2, WFMin
<1>4. \A y \in S : ~(y < x)
  BY <1>1, <1>3
<1> QED
  BY <1>4

\* The first of the slots in T at which f is least.
LEMMA FirstLeast ==
  ASSUME NEW T \in SUBSET StreamSlots, T # {}, NEW f \in [StreamSlots -> Nat]
  PROVE  \E i \in T : \A j \in T : f[i] < f[j] \/ (f[i] = f[j] /\ i <= j)
<1> DEFINE values == {f[j] : j \in T}
<1>1. values \in SUBSET Nat /\ values # {}
  OBVIOUS
<1>2. PICK x \in values : \A y \in values : x <= y
  <2> HIDE DEF values
  <2> QED
    BY <1>1, LeastNumber
<1> DEFINE least == {j \in T : f[j] = x}
<1>3. least \in SUBSET Nat /\ least # {}
  <2>1. PICK j \in T : f[j] = x
    OBVIOUS
  <2>2. j \in least
    BY <2>1
  <2>3. \A y \in T : y \in Nat
    BY DEF StreamSlots
  <2> QED
    BY <2>2, <2>3
<1>4. PICK i \in least : \A j \in least : i <= j
  <2> HIDE DEF least
  <2> QED
    BY <1>3, LeastNumber
<1>5. ASSUME NEW j \in T PROVE f[i] < f[j] \/ (f[i] = f[j] /\ i <= j)
  <2>1. f[i] = x /\ x <= f[j] /\ f[j] \in Nat
    BY <1>2, <1>4
  <2> QED
    BY <1>4, <2>1
<1> QED
  BY <1>4, <1>5

\* What an access that moves one slot does to what is remembered.
LEMMA MoveStream ==
  ASSUME StreamsInv, Len(recent) > 0, NEW i \in StreamSlots, NEW a \in Nat,
         streams' = [streams EXCEPT ![i] = Stream(a)],
         recent' = Append(recent, a),
         prefetched' \subseteq Nat, m_stop_at_page' = m_stop_at_page,
         a - streams[i].addr \in 1 .. (PageSize - 1) \/ IsOldestStream(i)
  PROVE  StreamsInv'
<1> DEFINE last == Len(recent)
<1>1. /\ last \in Nat \ {0} /\ recent \in Seq(Nat)
      /\ \A n \in 1 .. last : recent[n] \in Nat
  BY DEF StreamsInv, StreamsTypeOK
<1>2. /\ Len(recent') = last + 1 /\ recent'[last + 1] = a
      /\ \A n \in 1 .. last : recent'[n] = recent[n]
      /\ recent' \in Seq(Nat)
  BY <1>1
<1>3. Stream(a) = [addr |-> a, valid |-> TRUE, lru |-> last]
  BY DEF Stream, Now
<1>4. \A j \in StreamSlots : streams'[j] = IF j = i THEN Stream(a) ELSE streams[j]
  BY DEF StreamsInv, StreamsTypeOK
<1>5. \A j \in StreamSlots : /\ streams[j].valid /\ streams[j].lru \in 0 .. (last - 1)
                             /\ streams[j].addr = recent[streams[j].lru + 1]
  BY <1>1 DEF StreamsInv
<1>6. StreamsTypeOK'
  <2>1. streams' \in [StreamSlots -> [addr : Nat, valid : BOOLEAN, lru : Nat \cup {-1}]]
    BY <1>1, <1>3 DEF StreamsInv, StreamsTypeOK
  <2> QED
    BY <1>2, <2>1 DEF StreamsInv, StreamsTypeOK
<1> HIDE DEF last
<1>7. ASSUME NEW j \in StreamSlots
      PROVE  /\ streams'[j].valid
             /\ streams'[j].lru \in 0 .. last
             /\ streams'[j].addr = recent'[streams'[j].lru + 1]
             /\ j # i => streams'[j].lru < last
  <2>1. CASE j = i
    BY <1>1, <1>2, <1>3, <1>4, <2>1
  <2>2. CASE j # i
    <3>1. streams'[j] = streams[j]
      BY <1>4, <2>2
    <3>2. /\ streams[j].lru \in 0 .. (last - 1)
          /\ streams[j].lru + 1 \in 1 .. last
      BY <1>1, <1>5
    <3>3. /\ streams[j].valid
          /\ streams[j].addr = recent'[streams[j].lru + 1]
      BY Zenon, <1>2, <1>5, <3>2
    <3>4. streams[j].lru \in 0 .. last /\ streams[j].lru < last
      BY <1>1, <3>2
    <3> QED
      BY <2>2, <3>1, <3>3, <3>4
  <2> QED
    BY <2>1, <2>2
<1>8. ASSUME NEW j \in StreamSlots, NEW k \in StreamSlots,
             streams'[j].lru = streams'[k].lru, streams'[j].lru > 0
      PROVE  j = k
  <2>1. streams'[i].lru = last
    BY <1>3, <1>4
  <2>2. j = i <=> k = i
    BY <1>1, <1>7, <1>8, <2>1
  <2> QED
    BY <1>4, <1>8, <2>2 DEF StreamsInv
<1>9. ASSUME NEW n \in 1 .. (last + 1) PROVE Remembered(n)'
  <2>1. CASE n = last + 1
    <3>1. streams'[i].lru = n - 1
      BY <1>1, <1>3, <1>4, <2>1
    <3> QED
      BY <3>1 DEF Remembered
  <2>2. CASE n # last + 1
    <3>1. n \in 1 .. last /\ Remembered(n)
      BY <1>1, <2>2 DEF StreamsInv, last
    <3>2. ASSUME Continued(n) PROVE Continued(n)'
      <4>1. PICK m \in (n + 1) .. last : recent[m] - recent[n] \in 1 .. (PageSize - 1)
        BY <3>2 DEF Continued, last
      <4>2. m \in 1 .. last /\ m \in (n + 1) .. (last + 1)
        BY <1>1, <3>1
      <4> QED
        BY <1>2, <3>1, <4>1, <4>2 DEF Continued
    <3>3. CASE \E j \in StreamSlots : streams[j].lru = n - 1
      <4>1. PICK j \in StreamSlots : streams[j].lru = n - 1
        BY <3>3
      <4>2. CASE j # i
        BY <1>4, <4>1, <4>2 DEF Remembered
      <4>3. CASE j = i /\ a - streams[i].addr \in 1 .. (PageSize - 1)
        <5>1. streams[i].addr = recent[n]
          BY <1>5, <3>1, <4>1, <4>3
        <5>2. last + 1 \in (n + 1) .. (last + 1)
          BY <1>1, <3>1
        <5>3. recent'[last + 1] - recent'[n] \in 1 .. (PageSize - 1)
          BY <1>2, <3>1, <4>3, <5>1
        <5> QED
          BY <1>2, <5>2, <5>3 DEF Remembered, Continued
      <4>4. CASE j = i /\ IsOldestStream(i)
        <5>1. CASE \E k \in StreamSlots \ {i} : streams[k].lru = n - 1
          BY <1>4, <5>1 DEF Remembered
        <5>2. CASE \A k \in StreamSlots \ {i} : streams[k].lru # n - 1
          <6>1. ASSUME NEW k \in StreamSlots PROVE streams'[k].lru >= n
            <7>1. CASE k = i
              BY <1>1, <1>3, <1>4, <3>1, <7>1
            <7>2. CASE k # i
              <8>1. streams[k].lru \in Nat /\ streams[k].lru # n - 1
                BY <1>1, <1>5, <5>2, <7>2
              <8>2. streams[i].lru = n - 1 /\ streams[k].lru >= streams[i].lru
                BY <4>1, <4>4, <8>1 DEF IsOldestStream
              <8> QED
                BY <1>4, <3>1, <7>2, <8>1, <8>2
            <7> QED
              BY <7>1, <7>2
          <6> QED
            BY <6>1 DEF Remembered
        <5> QED
          BY <5>1, <5>2
      <4> QED
        BY <4>2, <4>3, <4>4
    <3>4. CASE \A j \in StreamSlots : streams[j].lru >= n
      <4>1. \A j \in StreamSlots : streams'[j].lru >= n
        BY <1>1, <1>3, <1>4, <3>1, <3>4
      <4> QED
        BY <4>1 DEF Remembered
    <3> QED
      BY <3>1, <3>2, <3>3, <3>4 DEF Remembered
  <2> QED
    BY <2>1, <2>2
<1>10. Len(recent') > 0 /\ Len(recent') - 1 = last
  BY <1>1, <1>2
<1>11. \A j \in StreamSlots :
         /\ streams'[j].valid /\ streams'[j].lru \in 0 .. (Len(recent') - 1)
         /\ streams'[j].addr = recent'[streams'[j].lru + 1]
  BY <1>7, <1>10
<1>12. \A j, k \in StreamSlots :
         streams'[j].lru = streams'[k].lru /\ streams'[j].lru > 0 => j = k
  BY <1>8
<1>13. \A n \in 1 .. Len(recent') : Remembered(n)'
  BY <1>2, <1>9
<1> QED
  BY <1>6, <1>10, <1>11, <1>12, <1>13 DEF StreamsInv

\* The first access takes all slots.
LEMMA FirstStream ==
  ASSUME StreamsInv, Len(recent) = 0, NEW a \in Nat,
         streams' = [j \in StreamSlots |-> Stream(a)],
         recent' = Append(recent, a),
         prefetched' \subseteq Nat, m_stop_at_page' = m_stop_at_page
  PROVE  StreamsInv'
<1>1. recent \in Seq(Nat)
  BY DEF StreamsInv, StreamsTypeOK
<1>2. Len(recent') = 1 /\ recent'[1] = a /\ recent' \in Seq(Nat)
  BY <1>1
<1>3. Stream(a) = [addr |-> a, valid |-> TRUE, lru |-> 0]
  BY DEF Stream, Now
<1>4. \A j \in StreamSlots : streams'[j] = [addr |-> a, valid |-> TRUE, lru |-> 0]
  BY <1>3
<1>5. StreamsTypeOK'
  <2>1. streams' \in [StreamSlots -> [addr : Nat, valid : BOOLEAN, lru : Nat \cup {-1}]]
    BY <1>3
  <2> QED
    BY <1>2, <2>1 DEF StreamsInv, StreamsTypeOK
<1>6. 1 \in StreamSlots
  BY StreamsAssumption DEF StreamSlots
<1>7. ASSUME NEW n \in 1 .. 1 PROVE Remembered(n)'
  BY <1>4, <1>6 DEF Remembered
<1> QED
  BY <1>2, <1>4, <1>5, <1>7 DEF StreamsInv

LEMMA StreamsStart == StreamsInit => StreamsInv
<1> SUFFICES ASSUME StreamsInit PROVE StreamsInv
  OBVIOUS
<1>1. \A i \in StreamSlots : streams[i] = NoStream
  BY DEF StreamsInit
<1>2. Len(recent) = 0 /\ recent \in Seq(Nat)
  BY DEF StreamsInit
<1>3. StreamsTypeOK
  BY DEF StreamsInit, StreamsTypeOK, NoStream
<1> QED
  BY <1>1, <1>2, <1>3 DEF StreamsInv, NoStream

\* The addresses prefetched are numbers.
LEMMA ContinueFacts ==
  ASSUME StreamsInv, NEW a \in Nat, NEW i \in StreamSlots, Continues(i, a),
         ContinueStream(i, a)
  PROVE  /\ Len(recent) > 0 /\ prefetched' \subseteq Nat
         /\ streams' = [streams EXCEPT ![i] = Stream(a)]
         /\ a - streams[i].addr \in 1 .. (PageSize - 1)
<1> DEFINE stride == a - streams[i].addr
<1>1. streams[i].valid /\ stride \in 1 .. (PageSize - 1)
  BY DEF Continues, IsNearest, Behind
<1>2. Len(recent) > 0
  BY <1>1 DEF StreamsInv
<1>3. stride \in Nat
  BY <1>1, StreamsAssumption
<1>4. prefetched' \subseteq {a + k * stride : k \in 1 .. Degree}
  BY DEF ContinueStream
<1> HIDE DEF stride
<1>5. \A k \in 1 .. Degree : a + k * stride \in Nat
  BY <1>3, StreamsAssumption
<1>6. prefetched' \subseteq Nat
  BY <1>4, <1>5
<1> QED
  BY <1>1, <1>2, <1>6 DEF ContinueStream, stride

LEMMA StreamsStep ==
  ASSUME StreamsInv, [StreamsNext]_streamsVars
  PROVE  StreamsInv'
<1>1. CASE UNCHANGED streamsVars
  BY <1>1 DEF streamsVars, StreamsInv, StreamsTypeOK, Remembered, Continued
<1>2. ASSUME NEW a \in 0 .. AddressBound, NextAddress(a) PROVE StreamsInv'
  <2>1. a \in Nat /\ recent' = Append(recent, a) /\ m_stop_at_page' = m_stop_at_page
    BY <1>2, StreamsAssumption DEF NextAddress
  <2>2. ASSUME NEW i \in StreamSlots, Continues(i, a), ContinueStream(i, a)
        PROVE  StreamsInv'
    BY <2>1, <2>2, ContinueFacts, MoveStream
  <2>3. CASE StartStream(a)
    <3> DEFINE free == {j \in StreamSlots : ~streams[j].valid}
    <3>1. /\ streams' = [j \in StreamSlots |->
                           IF j \in free \/ (free = {} /\ IsOldestStream(j))
                           THEN Stream(a) ELSE streams[j]]
          /\ prefetched' \subseteq Nat
      BY <2>3 DEF StartStream
    <3>2. Len(recent) \in Nat
      BY DEF StreamsInv, StreamsTypeOK
    <3>3. CASE Len(recent) = 0
      <4>1. free = StreamSlots
        BY <3>3 DEF StreamsInv
      <4> HIDE DEF free
      <4>2. streams' = [j \in StreamSlots |-> Stream(a)]
        BY <3>1, <4>1
      <4> QED
        BY <2>1, <3>1, <3>3, <4>2, FirstStream
    <3>4. CASE Len(recent) > 0
      <4>1. free = {}
        BY <3>4 DEF StreamsInv
      <4> DEFINE ages == [j \in StreamSlots |-> streams[j].lru]
      <4>2. ages \in [StreamSlots -> Nat] /\ StreamSlots # {}
        <5>1. \A j \in StreamSlots : streams[j].lru \in Nat
          BY <3>2, <3>4 DEF StreamsInv
        <5>2. 1 \in StreamSlots
          BY StreamsAssumption DEF StreamSlots
        <5> QED
          BY <5>1, <5>2
      <4>3. PICK i \in StreamSlots : \A j \in StreamSlots :
              ages[i] < ages[j] \/ (ages[i] = ages[j] /\ i <= j)
        <5> HIDE DEF ages
        <5> QED
          BY <4>2, FirstLeast
      <4>4. IsOldestStream(i)
        BY <4>3 DEF IsOldestStream
      <4>5. ASSUME NEW j \in StreamSlots, IsOldestStream(j) PROVE j = i
        <5>1. i \in Nat /\ j \in Nat
          BY DEF StreamSlots
        <5>2. streams[i].lru \in Nat /\ streams[j].lru \in Nat
          BY <4>2
        <5> QED
          BY <4>4, <4>5, <5>1, <5>2 DEF IsOldestStream
      <4> HIDE DEF free
      <4>6. streams' = [streams EXCEPT ![i] = Stream(a)]
        BY <3>1, <4>1, <4>4, <4>5 DEF StreamsInv, StreamsTypeOK
      <4> QED
        BY <2>1, <3>1, <3>4, <4>4, <4>6, MoveStream
    <3> QED
      BY <3>2, <3>3, <3>4
  <2> QED
    BY <1>2, <2>2, <2>3 DEF NextAddress
<1> QED
  BY <1>1, <1>2 DEF StreamsNext

-----------------------------------------------------------------------------
\* As many accesses as there are streams are not all forgotten.
LEMMA RecentIsRemembered ==
  ASSUME StreamsInv, NEW n \in 1 .. Len(recent),
         \A i \in StreamSlots : streams[i].lru >= n
  PROVE  NbStreams <= Len(recent) - n
<1> DEFINE last == Len(recent)
           numbers == n .. (last - 1)
           f == [i \in StreamSlots |-> streams[i].lru]
<1>1. last \in Nat /\ n \in Nat /\ 1 <= n /\ n <= last
  BY DEF StreamsInv, StreamsTypeOK
<1>2. \A i \in StreamSlots : streams[i].lru \in 0 .. (last - 1) /\ streams[i].lru > 0
  BY <1>1 DEF StreamsInv
<1>3. f \in Injection(StreamSlots, numbers)
  <2>1. f \in [StreamSlots -> numbers]
    BY <1>1, <1>2
  <2>2. \A i, j \in StreamSlots : f[i] = f[j] => i = j
    BY <1>2 DEF StreamsInv
  <2> HIDE DEF f
  <2> QED
    BY <2>1, <2>2 DEF Injection, IsInjective
<1>4. IsFiniteSet(numbers) /\ Cardinality(numbers) = last - n
  <2> HIDE DEF last
  <2>1. /\ IsFiniteSet(n .. (last - 1))
        /\ Cardinality(n .. (last - 1)) =
             IF n > last - 1 THEN 0 ELSE last - 1 - n + 1
    BY <1>1, FS_Interval
  <2> QED
    BY <1>1, <2>1
<1>5. Cardinality(StreamSlots) = NbStreams
  <2>1. Cardinality(1 .. NbStreams) =
          IF 1 > NbStreams THEN 0 ELSE NbStreams - 1 + 1
    BY StreamsAssumption, FS_Interval
  <2> QED
    BY <2>1, StreamsAssumption DEF StreamSlots
<1> HIDE DEF f, numbers
<1>6. Cardinality(StreamSlots) <= Cardinality(numbers)
  BY <1>3, <1>4, FS_Injection
<1> QED
  BY <1>4, <1>5, <1>6

\* An address behind which a stream ends less than a page before continues the
\* nearest such stream, or has one of its own.
LEMMA NearestContinues ==
  ASSUME StreamsInv, NEW a \in Nat, NEW j \in StreamSlots, streams[j].valid,
         a - streams[j].addr \in 1 .. (PageSize - 1)
  PROVE  \/ \E i \in StreamSlots : streams[i].valid /\ streams[i].addr = a
         \/ \E i \in StreamSlots :
              Continues(i, a) /\ a - streams[i].addr <= a - streams[j].addr
<1> DEFINE behind == Behind(a)
           f == [i \in StreamSlots |->
                   IF i \in behind THEN a - streams[i].addr ELSE 0]
<1>1. \A i \in StreamSlots : streams[i].addr \in Nat
  BY DEF StreamsInv, StreamsTypeOK
<1>2. /\ behind \in SUBSET StreamSlots
      /\ \A i \in behind : streams[i].valid /\ streams[i].addr <= a
      /\ j \in behind
  BY <1>1, StreamsAssumption DEF Behind
<1> HIDE DEF behind
<1>3. f \in [StreamSlots -> Nat] /\ behind # {}
  BY <1>1, <1>2
<1>4. PICK i \in behind : \A k \in behind : f[i] < f[k] \/ (f[i] = f[k] /\ i <= k)
  <2> HIDE DEF f
  <2> QED
    BY <1>2, <1>3, FirstLeast
<1>5. \A k \in behind : f[k] = a - streams[k].addr
  BY <1>2
<1> HIDE DEF f
<1>6. \A k \in behind : streams[k].addr < streams[i].addr
                        \/ (streams[k].addr = streams[i].addr /\ i <= k)
  BY <1>1, <1>2, <1>4, <1>5
<1>7. IsNearest(i, a)
  BY <1>4, <1>6 DEF IsNearest, behind
<1>8. a - streams[i].addr <= a - streams[j].addr
  BY <1>1, <1>2, <1>6
<1>9. i \in StreamSlots /\ streams[i].valid /\ streams[i].addr <= a
  BY <1>2, <1>4
<1>10. CASE streams[i].addr = a
  BY <1>9, <1>10
<1>11. CASE streams[i].addr # a
  <2>1. a - streams[i].addr \in 1 .. (PageSize - 1)
    BY <1>1, <1>8, <1>9, <1>11, StreamsAssumption
  <2> QED
    BY <1>7, <1>8, <1>9, <2>1 DEF Continues
<1> QED
  BY <1>10, <1>11

\* A stream that goes on has its next address prefetched, unless the page ends.
LEMMA NextIsPrefetched ==
  ASSUME StreamsInv, NEW a \in Nat, NEW i \in StreamSlots, Continues(i, a),
         ContinueStream(i, a)
  PROVE  LET p == a + (a - streams[i].addr)
         IN \/ p \in prefetched'
            \/ m_stop_at_page /\ p \div PageSize # a \div PageSize
<1> DEFINE stride == a - streams[i].addr
           p == a + stride
<1>1. prefetched' = {q \in {a + k * stride : k \in 1 .. Degree} :
                       m_stop_at_page => q \div PageSize = a \div PageSize}
  BY DEF ContinueStream
<1>2. 1 \in 1 .. Degree /\ stride \in Int
  BY StreamsAssumption DEF StreamsInv, StreamsTypeOK
<1> HIDE DEF stride
<1>3. a + 1 * stride = p
  BY <1>2
<1>4. p \in {a + k * stride : k \in 1 .. Degree}
  BY <1>2, <1>3
<1> HIDE DEF p
<1>5. p \in prefetched' \/ (m_stop_at_page /\ p \div PageSize # a \div PageSize)
  BY <1>1, <1>4
<1> QED
  BY <1>5 DEF p, stride

\* The table holds addresses and the addresses prefetched are some.
THEOREM StreamsTypeCorrect == StreamsSpec => []StreamsTypeOK
<1>1. StreamsInv /\ [StreamsNext]_streamsVars => StreamsInv'
  BY StreamsStep
<1>2. StreamsInv => StreamsTypeOK
  BY DEF StreamsInv
<1> QED
  BY <1>1, <1>2, StreamsStart, PTL DEF StreamsSpec

\* The prefetcher follows as many interleaved runs as it has streams, for every
\* number of streams, degree and page size, whether it stops at the page or not.
THEOREM SuccessorIsAlwaysPrefetched == StreamsSpec => SuccessorIsPrefetched
<1>1. ASSUME StreamsInv, [StreamsNext]_streamsVars, NEW k \in 1 .. NbStreams,
             NEW a \in 0 .. AddressBound, k <= Len(recent),
             recent' = Append(recent, a), Awaits(k, a)
      PROVE  \/ \E i \in StreamSlots : streams[i].valid /\ streams[i].addr = a
             \/ LET from == recent[Len(recent) + 1 - k]
                    next == {a + stride : stride \in 1 .. (a - from)}
                IN \/ prefetched' \cap next # {}
                   \/ /\ m_stop_at_page
                      /\ \E p \in next : p \div PageSize # a \div PageSize
  <2> DEFINE last == Len(recent)
             n == last + 1 - k
             from == recent[n]
             next == {a + stride : stride \in 1 .. (a - from)}
  <2>1. /\ last \in Nat /\ recent \in Seq(Nat) /\ k \in Nat /\ a \in Nat
        /\ n \in 1 .. last /\ from \in Nat
    BY <1>1, StreamsAssumption DEF StreamsInv, StreamsTypeOK
  <2>2. NextAddress(a)
    <3>1. Len(recent') = last + 1
      BY <1>1, <2>1
    <3>2. StreamsNext
      BY <1>1, <2>1, <3>1 DEF streamsVars
    <3>3. PICK b \in 0 .. AddressBound : NextAddress(b)
      BY <3>2 DEF StreamsNext
    <3>4. recent' = Append(recent, b)
      BY <3>3 DEF NextAddress
    <3>5. a = b
      <4>1. recent'[last + 1] = a
        BY <1>1, <2>1
      <4>2. recent'[last + 1] = b
        BY <2>1, <3>4
      <4> QED
        BY <4>1, <4>2
    <3> QED
      BY <3>3, <3>5
  <2>3. a - from \in 1 .. (PageSize - 1)
    BY <1>1 DEF Awaits
  <2>4. ~Continued(n)
    <3>1. ASSUME NEW m \in (n + 1) .. last
          PROVE  ~(recent[m] - from \in 1 .. (PageSize - 1))
      <4> DEFINE j == last + 1 - m
      <4>1. j \in 1 .. (k - 1) /\ last + 1 - j = m
        BY <2>1
      <4> HIDE DEF j
      <4> QED
        BY <1>1, <4>1 DEF Awaits
    <3> HIDE DEF n
    <3> QED
      BY <3>1 DEF Continued
  <2>5. ~ \A i \in StreamSlots : streams[i].lru >= n
    <3>1. ASSUME \A i \in StreamSlots : streams[i].lru >= n PROVE FALSE
      <4>1. NbStreams <= last - n
        <5> HIDE DEF n
        <5> QED
          BY <1>1, <2>1, <3>1, RecentIsRemembered
      <4> QED
        BY <2>1, <4>1, StreamsAssumption
    <3> QED
      BY <3>1
  <2>6. PICK j \in StreamSlots : streams[j].lru = n - 1
    <3>1. Remembered(n)
      BY <1>1, <2>1 DEF StreamsInv
    <3> QED
      BY <2>4, <2>5, <3>1 DEF Remembered
  <2>7. streams[j].valid /\ streams[j].addr = from
    <3>1. streams[j].valid
      BY <1>1, <2>1 DEF StreamsInv
    <3>2. streams[j].addr = recent[streams[j].lru + 1]
      BY <1>1, <3>1 DEF StreamsInv
    <3> QED
      BY <2>1, <2>6, <3>1, <3>2
  <2> HIDE DEF n
  <2>8. \/ \E i \in StreamSlots : streams[i].valid /\ streams[i].addr = a
        \/ \E i \in StreamSlots : Continues(i, a) /\ a - streams[i].addr <= a - from
    BY <1>1, <2>1, <2>3, <2>7, NearestContinues
  <2>9. ASSUME NEW i \in StreamSlots, Continues(i, a),
               a - streams[i].addr <= a - from
        PROVE  \/ prefetched' \cap next # {}
               \/ /\ m_stop_at_page
                  /\ \E p \in next : p \div PageSize # a \div PageSize
    <3>1. PICK c \in StreamSlots : Continues(c, a) /\ ContinueStream(c, a)
      BY <2>2, <2>9 DEF NextAddress
    <3>2. \A x, y \in StreamSlots :
            IsNearest(x, a) /\ IsNearest(y, a) => streams[x].addr = streams[y].addr
      <4>1. \A x \in StreamSlots : streams[x].addr \in Nat
        BY <1>1 DEF StreamsInv, StreamsTypeOK
      <4> QED
        BY <4>1 DEF IsNearest
    <3>3. streams[c].addr = streams[i].addr
      BY <2>9, <3>1, <3>2 DEF Continues
    <3> DEFINE stride == a - streams[c].addr
               p == a + stride
    <3>4. stride \in 1 .. (a - from)
      BY <2>1, <2>9, <3>1, <3>3, StreamsAssumption DEF Continues
    <3>5. p \in next
      <4> HIDE DEF stride
      <4> QED
        BY <3>4
    <3>6. p \in prefetched' \/ (m_stop_at_page /\ p \div PageSize # a \div PageSize)
      BY <1>1, <2>1, <3>1, NextIsPrefetched
    <3> HIDE DEF p, next
    <3> QED
      BY <3>5, <3>6
  <2> QED
    BY <2>8, <2>9 DEF n
<1>2. StreamsInv /\ [StreamsNext]_streamsVars =>
        [\A k \in 1 .. NbStreams, a \in 0 .. AddressBound :
           (k <= Len(recent) /\ recent' = Append(recent, a) /\ Awaits(k, a))
             => \/ \E i \in StreamSlots : streams[i].valid /\ streams[i].addr = a
                \/ LET from == recent[Len(recent) + 1 - k]
                       next == {a + stride : stride \in 1 .. (a - from)}
                   IN \/ prefetched' \cap next # {}
                      \/ /\ m_stop_at_page
                         /\ \E p \in next : p \div PageSize # a \div PageSize]_streamsVars
  BY <1>1
<1>3. StreamsInv /\ [StreamsNext]_streamsVars => StreamsInv'
  BY StreamsStep
<1> QED
  BY <1>2, <1>3, StreamsStart, PTL DEF StreamsSpec, SuccessorIsPrefetched
-----------------------------------------------------------------------------
(***************************************************************************)
(* The set of an address.                                                  *)
(***************************************************************************)
\* A shift by less than the width clears the bits below; any other gives a word.
LEMMA OnesFromBits ==
  /\ \A n \in Nat : OnesFrom(n) \subseteq Bits
  /\ \A n \in Nat : n < Width => OnesFrom(n) = {i \in Bits : i >= n}
<1>1. ASSUME NEW n \in Nat, n < Width PROVE OnesFrom(n) = {i \in Bits : i >= n}
  <2>1. ~(n >= Width)
    BY <1>1, BlockAddressAssumption
  <2> QED
    BY Zenon, <1>1, <2>1 DEF OnesFrom
<1>2. ASSUME NEW n \in Nat PROVE OnesFrom(n) \subseteq Bits
  <2>1. \/ OnesFrom(n) = {i \in Bits : i >= n}
        \/ OnesFrom(n) = {i \in Bits : i >= n % Width}
        \/ OnesFrom(n) = {}
    BY Zenon, <1>1, BlockAddressAssumption DEF OnesFrom
  <2> QED
    BY <2>1
<1> QED
  BY <1>1, <1>2

\* The bits of the set of a word w: those of w between block and tag, and what the
\* undefined shift lets through of those at the top.
Folded(w) ==
  ShiftRight(w \cap OnesFrom(Width + 1), Width - m_end_index + 1)
    \cup (w \cap Complement(OnesFrom(m_end_index)))

LEMMA FoldedBits ==
  ASSUME BlockAddressTypeOK, NEW w \in Words
  PROVE  /\ BitRemove(w, m_end_index, Width) = Folded(w)
         /\ \A j \in Folded(w) : j \in Nat /\ j < m_end_index
         /\ \A v \in Words :
              (\A i \in Bits : i >= blockBits => (i \in v <=> i \in w)) =>
                ShiftRight(Folded(v), blockBits) = ShiftRight(Folded(w), blockBits)
         /\ (\A i \in w : i < Width + 1 - m_end_index) =>
              ShiftRight(Folded(w), blockBits) =
                {i \in 0 .. (setBits - 1) : i + blockBits \in w}
<1> DEFINE e == blockBits + setBits
           shift == Width - e + 1
           top == OnesFrom(Width + 1)
           high == OnesFrom(e)
<1>1. /\ blockBits \in Nat /\ setBits \in Nat /\ Width \in Nat
      /\ e \in Nat /\ shift \in Nat \ {0}
      /\ blockBits >= 2 /\ e <= Width
  BY BlockAddressAssumption DEF BlockAddressTypeOK
<1>2. /\ top \subseteq Bits /\ high \subseteq Bits
      /\ e < Width => high = {i \in Bits : i >= e}
  BY <1>1, OnesFromBits
<1>3. \A v : Folded(v) = ShiftRight(v \cap top, shift) \cup (v \cap (Bits \ high))
  BY DEF Folded, m_end_index, Complement
<1>4. BitRemove(w, m_end_index, Width) = Folded(w)
  <2>1. m_end_index # 0
    BY <1>1 DEF m_end_index
  <2> QED
    BY <2>1 DEF BitRemove, Folded
<1> HIDE DEF top, high
<1>5. \A v \in Words : \A j : j \in Folded(v) <=>
        /\ j \in Bits
        /\ \/ j + shift \in v /\ j + shift \in top
           \/ j \in v /\ j \notin high
  BY <1>1, <1>3 DEF ShiftRight, Words
<1>6. ASSUME NEW j \in Folded(w) PROVE j \in Nat /\ j < m_end_index
  <2>1. j \in Bits /\ (j + shift \in Bits \/ j \notin high)
    BY <1>2, <1>5
  <2> QED
    BY <1>1, <1>2, <2>1 DEF Bits, m_end_index
<1>7. ASSUME NEW v \in Words,
             \A i \in Bits : i >= blockBits => (i \in v <=> i \in w)
      PROVE  ShiftRight(Folded(v), blockBits) = ShiftRight(Folded(w), blockBits)
  <2>1. ASSUME NEW i \in Bits
        PROVE  i + blockBits \in Folded(v) <=> i + blockBits \in Folded(w)
    <3> DEFINE j == i + blockBits
    <3>1. j \in Nat /\ j >= blockBits /\ j + shift \in Nat /\ j + shift >= blockBits
      BY <1>1 DEF Bits
    <3> HIDE DEF j
    <3>2. j + shift \in Bits => (j + shift \in v <=> j + shift \in w)
      BY <1>7, <3>1
    <3>3. j \in Bits => (j \in v <=> j \in w)
      BY <1>7, <3>1
    <3>4. j \in Folded(v) <=> j \in Folded(w)
      BY <1>2, <1>5, <3>2, <3>3
    <3> QED
      BY <3>4 DEF j
  <2> QED
    BY <2>1 DEF ShiftRight
<1>8. ASSUME \A i \in w : i < Width + 1 - m_end_index
      PROVE  ShiftRight(Folded(w), blockBits) =
               {i \in 0 .. (setBits - 1) : i + blockBits \in w}
  <2>1. \A i \in Bits : i + blockBits + shift \notin w
    BY <1>1, <1>8 DEF Bits, m_end_index
  <2>2. ASSUME NEW i \in Bits
        PROVE  i + blockBits \in Folded(w) <=> i < setBits /\ i + blockBits \in w
    <3> DEFINE j == i + blockBits
    <3>1. j \in Nat /\ j + shift \notin w
      BY <1>1, <2>1 DEF Bits
    <3>2. j \in w => j \in Bits /\ j < shift
      <4>1. ASSUME NEW x \in w PROVE x \in Bits /\ x < Width + 1 - e
        BY <1>8 DEF Words, m_end_index
      <4>2. shift = Width + 1 - e
        BY <1>1
      <4> HIDE DEF j, e, shift
      <4> QED
        BY <4>1, <4>2
    <3>3. /\ j < e <=> i < setBits
          /\ j >= 2
      BY <1>1 DEF Bits
    <3> HIDE DEF j
    <3>4. j \in Folded(w) <=> j \in w /\ j \notin high
      BY <1>5, <3>1, <3>2
    <3>5. j \in Folded(w) <=> i < setBits /\ j \in w
      <4>1. CASE e < Width
        <5>1. j \in w => (j \in high <=> ~(j < e))
          BY <1>1, <1>2, <3>1, <3>2, <4>1
        <5> QED
          BY <3>3, <3>4, <5>1
      <4>2. CASE e = Width
        <5>1. j \notin w
          BY <1>1, <3>1, <3>2, <3>3, <4>2
        <5> QED
          BY <3>4, <5>1
      <4> QED
        BY <1>1, <4>1, <4>2
    <3> QED
      BY <3>5 DEF j
  <2>3. 0 .. (setBits - 1) \subseteq Bits
    BY <1>1 DEF Bits
  <2>4. \A i \in Bits : i \in 0 .. (setBits - 1) <=> i < setBits
    BY <1>1 DEF Bits
  <2> QED
    BY <2>2, <2>3, <2>4 DEF ShiftRight
<1> QED
  BY <1>4, <1>6, <1>7, <1>8

\* The bits of the two words that are folded agree from blockBits.
LEMMA SetOfTypes == ASSUME BlockAddressTypeOK PROVE SetIsThatOfBlock
<1> DEFINE v == BitRemove(address, 0, m_start_index)
           b == BlockOf(address)
           set == AddressToCacheSet(address)
<1>1. /\ blockBits \in Nat /\ setBits \in Nat /\ Width \in Nat
      /\ blockBits >= 2 /\ blockBits + setBits <= Width /\ address \in Words
      /\ m_start_index # 0 /\ blockBits # 0
      /\ m_start_index + 1 = blockBits /\ m_start_index \in Nat
      /\ m_start_index < Width
  BY BlockAddressAssumption DEF BlockAddressTypeOK, m_start_index
<1>2. v = address \cap OnesFrom(m_start_index)
      /\ b = address \cap OnesFrom(blockBits)
  BY <1>1 DEF BitRemove, BlockOf
<1>3. v \in Words /\ b \in Words
  BY <1>1, <1>2 DEF Words
<1>4. \A i \in Bits : i >= blockBits =>
        (i \in v <=> i \in address) /\ (i \in b <=> i \in address)
  <2>1. ASSUME NEW i \in Bits, i >= blockBits PROVE i \in v <=> i \in address
    BY <1>1, <1>2, <2>1, OnesFromBits DEF Bits
  <2>2. ASSUME NEW i \in Bits, i >= blockBits PROVE i \in b <=> i \in address
    <3>1. blockBits < Width
      BY <1>1, <2>2 DEF Bits
    <3> QED
      BY <1>1, <1>2, <2>2, <3>1, OnesFromBits
  <2> QED
    BY <2>1, <2>2
<1>5. /\ set = ShiftRight(Folded(v), blockBits)
      /\ BlockAddressToCacheSet(b) = ShiftRight(Folded(b), blockBits)
  BY <1>1, <1>3, FoldedBits DEF AddressToCacheSet, BlockAddressToCacheSet
<1> HIDE DEF v, b, set
<1>6. /\ ShiftRight(Folded(v), blockBits) = ShiftRight(Folded(address), blockBits)
      /\ ShiftRight(Folded(b), blockBits) = ShiftRight(Folded(address), blockBits)
  BY <1>1, <1>3, <1>4, FoldedBits
<1>7. \A i \in set : i < setBits
  <2>1. \A j \in Folded(v) : j \in Nat /\ j < m_end_index
    BY <1>3, FoldedBits
  <2> QED
    BY <1>1, <1>5, <2>1 DEF ShiftRight, Bits, m_end_index
<1>8. (\A i \in address : i < Width + 1 - m_end_index)
        => set = {i \in 0 .. (setBits - 1) : i + blockBits \in address}
  BY <1>1, <1>5, <1>6, FoldedBits
<1> QED
  BY <1>5, <1>6, <1>7, <1>8 DEF SetIsThatOfBlock, set, b

LEMMA AddressTypes == BlockAddressSpec => []BlockAddressTypeOK
<1>1. BlockAddressInit => BlockAddressTypeOK
  BY DEF BlockAddressInit, BlockAddressTypeOK, Words
<1>2. BlockAddressTypeOK /\ [BlockAddressNext]_addressVars => BlockAddressTypeOK'
  BY DEF BlockAddressTypeOK, BlockAddressNext, addressVars
<1> QED
  BY <1>1, <1>2, PTL DEF BlockAddressSpec

\* For every width, block size and number of sets, and whatever the shift past the
\* width gives: addressToCacheSet stays within the sets, and the set of an address
\* is the set of its block.
THEOREM SetIsAlwaysThatOfBlock == BlockAddressSpec => []SetIsThatOfBlock
<1>1. BlockAddressTypeOK => SetIsThatOfBlock
  BY SetOfTypes
<1> QED
  BY <1>1, AddressTypes, PTL

-----------------------------------------------------------------------------
(***************************************************************************)
(* The tables side by side.                                                *)
(***************************************************************************)
\* A step of Tables is a step of one table, at which the others stand still.
LEMMA TablesSteps ==
  ASSUME [TablesNext]_tablesVars
  PROVE  /\ [StampsNext]_stampsVars /\ [StreamsNext]_streamsVars
         /\ [MissingTagsNext]_tagsVars /\ [BlockAddressNext]_addressVars
<1>1. CASE UNCHANGED tablesVars
  BY <1>1 DEF tablesVars
<1>2. CASE TablesNext
  BY Zenon, <1>2 DEF TablesNext
<1> QED
  BY <1>1, <1>2

\* So an execution of Tables is one of each table, and what is proved of a table
\* holds in it.
LEMMA TablesRunEveryTable ==
  TablesSpec => /\ StampsSpec /\ StreamsSpec
                /\ MissingTagsSpec /\ BlockAddressSpec
<1>1. TablesInit => /\ StampsInit /\ StreamsInit
                    /\ MissingTagsInit /\ BlockAddressInit
  BY DEF TablesInit
<1>2. [TablesNext]_tablesVars =>
        /\ [StampsNext]_stampsVars /\ [StreamsNext]_streamsVars
        /\ [MissingTagsNext]_tagsVars /\ [BlockAddressNext]_addressVars
  BY TablesSteps
<1> QED
  BY <1>1, <1>2, PTL
  DEF TablesSpec, StampsSpec, StreamsSpec, MissingTagsSpec, BlockAddressSpec

\* Every table keeps its type while the others move: stamps are ints, and the
\* counter an eviction lowers is never negative.
THEOREM TablesTypeCorrect == TablesSpec => []TablesTypeOK
<1>1. (StampsTypeOK /\ StreamsTypeOK /\ MissingTagsTypeOK /\ BlockAddressTypeOK)
        => TablesTypeOK
  BY DEF TablesTypeOK
<1> QED
  BY <1>1, TablesRunEveryTable, StampsTypeCorrect, StreamsTypeCorrect,
     MissingTagsTypeCorrect, AddressTypes, PTL

\* And what each table promises holds in an execution of all of them.
THEOREM TablesKeepTheirPromises ==
  TablesSpec =>
    /\ [](MissingTagsAreUnique /\ ShadowIsRecent /\ SetIsThatOfBlock)
    /\ SuccessorIsPrefetched
    /\ (TracksSRAM => []MissingTagsAreMissing)
    /\ (UpdateBound <= HalfRange => StampsImplementLRU)
<1>1. TablesSpec => [](MissingTagsAreUnique /\ ShadowIsRecent /\ SetIsThatOfBlock)
  BY TablesRunEveryTable, MissingTagsAlwaysUnique, ShadowsAlwaysRecent,
     SetIsAlwaysThatOfBlock, PTL
<1>2. TablesSpec => SuccessorIsPrefetched
  BY TablesRunEveryTable, SuccessorIsAlwaysPrefetched
<1>3. TablesSpec => (TracksSRAM => []MissingTagsAreMissing)
  BY TablesRunEveryTable, MissingTagsAlwaysMissing
<1>4. TablesSpec => (UpdateBound <= HalfRange => StampsImplementLRU)
  BY TablesRunEveryTable, StampsAlwaysImplementLRU
<1> QED
  BY <1>1, <1>2, <1>3, <1>4
=============================================================================
