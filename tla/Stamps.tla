------------------------------- MODULE Stamps -------------------------------
(***************************************************************************)
(* LRUPolicy (src/src/ReplacementPolicy.cc) with its time stamps, for one   *)
(* set of one array, and the lines as far as it looks at them.  The stamp   *)
(* of a line, CacheEntry::policyInfo, is an int; the counter it is taken    *)
(* from, m_cpt, has 64 bits and is shared by the sets, so that it may       *)
(* advance without this set.                                               *)
(***************************************************************************)
EXTENDS Integers

CONSTANTS
  Assoc,        \* m_assoc
  HalfRange,    \* an int is in -HalfRange .. HalfRange - 1 (2^31)
  UpdateBound   \* bound: no step once m_cpt is there

ASSUME StampsAssumption ==
  Assoc \in Nat \ {0} /\ HalfRange \in Nat \ {0} /\ UpdateBound \in Nat

VARIABLES
  valid,   \* isValid of each way
  stamp,   \* policyInfo of each way
  m_cpt

stampsVars == <<valid, stamp, m_cpt>>

Assocs == 0 .. (Assoc - 1)

\* The conversion of the counter to an int.
ToInt(n) == ((n + HalfRange) % (2 * HalfRange)) - HalfRange

StampsTypeOK ==
  /\ valid \in [Assocs -> BOOLEAN]
  /\ stamp \in [Assocs -> (-HalfRange) .. (HalfRange - 1)]
  /\ m_cpt \in Nat

StampsInit ==
  /\ valid = [w \in Assocs |-> FALSE]
  /\ stamp = [w \in Assocs |-> 0]
  /\ m_cpt = 1

-----------------------------------------------------------------------------
\* Mutant: the counter stands still.
StampKeepsCounter(w) ==
  /\ stamp' = [stamp EXCEPT ![w] = ToInt(m_cpt)]
  /\ m_cpt' = m_cpt

\* LRUPolicy::updatePolicy, insertionPolicy.
Stamp(w) ==
  /\ stamp' = [stamp EXCEPT ![w] = ToInt(m_cpt)]
  /\ m_cpt' = m_cpt + 1

\* evictPolicy: w is the first invalid way, or, if all are valid, the first of
\* the smallest stamp.
IsVictim(w) ==
  \/ ~valid[w] /\ \A v \in Assocs : v < w => valid[v]
  \/ /\ \A v \in Assocs : valid[v]
     /\ \A v \in Assocs : stamp[w] < stamp[v] \/ (stamp[w] = stamp[v] /\ w <= v)

\* A hit: an indexed line is stamped, valid or not.
UpdatePolicy(w) ==
  /\ m_cpt < UpdateBound
  /\ Stamp(w)
  /\ UNCHANGED valid

\* A miss: the victim is emptied, allocated with stamp 0 and stamped.
Insert(w) ==
  /\ m_cpt < UpdateBound
  /\ IsVictim(w)
  /\ valid' = [valid EXCEPT ![w] = TRUE]
  /\ Stamp(w)

\* deallocate empties the entry; receiveInvalidation clears the valid bit alone.
Deallocate(w) ==
  /\ valid' = [valid EXCEPT ![w] = FALSE]
  /\ stamp' = [stamp EXCEPT ![w] = 0]
  /\ UNCHANGED m_cpt

InvalidateInPlace(w) ==
  /\ valid' = [valid EXCEPT ![w] = FALSE]
  /\ UNCHANGED <<stamp, m_cpt>>

\* The policy stamps a line of another set.
OtherSet ==
  /\ m_cpt < UpdateBound
  /\ m_cpt' = m_cpt + 1
  /\ UNCHANGED <<valid, stamp>>

StampsNext ==
  \/ \E w \in Assocs : UpdatePolicy(w) \/ Insert(w)
  \/ \E w \in Assocs : Deallocate(w) \/ InvalidateInPlace(w)
  \/ OtherSet

StampsSpec == StampsInit /\ [][StampsNext]_stampsVars

-----------------------------------------------------------------------------
(***************************************************************************)
(* Properties.                                                             *)
(***************************************************************************)
\* The ways that hold a line, in the order of their stamps.
ValidWays == {w \in Assocs : valid[w]}
StampOrder == {o \in ValidWays \X ValidWays : stamp[o[1]] < stamp[o[2]]}

LRU == INSTANCE LeastRecentlyUsed
         WITH Slots <- Assocs, inUse <- ValidWays, before <- StampOrder

\* The stamps implement the least recently used order as long as the counter
\* fits an int (UpdateBound <= HalfRange): what is emptied, invalidated in place
\* or filled again leaves no stamp behind that would misplace a valid line.
\* One update further the latest line gets the smallest stamp and goes first.
StampsImplementLRU == LRU!LRUSpec
=============================================================================
