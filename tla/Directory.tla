----------------------------- MODULE Directory -----------------------------
(***************************************************************************)
(* The full-map directory in front of the last level cache                 *)
(* (src/src/Directory.cc): for every block that is somewhere in the        *)
(* hierarchy, its coherence state and the cores that hold it.  A directory *)
(* is a function from blocks to entries; a set of m_table is a vector that *)
(* grows without limit, so no entry is ever evicted and the index function *)
(* and the time stamps of DirectoryReplacementPolicy decide nothing.       *)
(***************************************************************************)
EXTENDS Accesses

CONSTANT NbCores  \* m_nbCores

ASSUME NbCoresAssumption == NbCores \in Nat \ {0}

\* The identifiers of the private levels.
Cores == 0 .. (NbCores - 1)

\* DIRTY_LLC is tested by the hierarchy and assigned by nothing.
States == {"SHARED_L1", "MODIFIED_L1", "EXCLUSIVE_L1", "CLEAN_LLC",
           "DIRTY_LLC", "NOT_PRESENT"}

Entries == [state : States, trackers : SUBSET Cores]

\* getEntry returns NULL.
NoEntry == [state |-> "NO_ENTRY", trackers |-> {}]

Directories == [Blocks -> Entries \cup {NoEntry}]

HasEntry(d, b) == d[b] # NoEntry
StateOf(d, b) == d[b].state
TrackersOf(d, b) == d[b].trackers

\* Mutant: a modified block is forgotten.
IsInL1ButModified(d, b) == StateOf(d, b) \in {"SHARED_L1", "EXCLUSIVE_L1"}

\* DirectoryEntry::isInL1.
IsInL1(d, b) == StateOf(d, b) \in {"SHARED_L1", "EXCLUSIVE_L1", "MODIFIED_L1"}

\* The entry a handler sees once it has called addEntry for a missing one.
AddEntry(d, b) ==
  IF HasEntry(d, b) THEN d
  ELSE [d EXCEPT ![b] = [state |-> "NOT_PRESENT", trackers |-> {}]]

RemoveEntry(d, b) == [d EXCEPT ![b] = NoEntry]

SetState(d, b, state) == [d EXCEPT ![b].state = state]
\* Mutant: cores are counted from one.
SetTrackerToEntryFromOne(d, b, n) == [d EXCEPT ![b].trackers = {n + 1}]
SetTrackerToEntry(d, b, n) == [d EXCEPT ![b].trackers = {n}]
AddTrackerToEntry(d, b, n) == [d EXCEPT ![b].trackers = @ \cup {n}]
ResetTrackersToEntry(d, b) == [d EXCEPT ![b].trackers = {}]

\* Mutant: the state stays when the last tracker leaves.
RemoveTrackerKeepsState(d, b, n) == [d EXCEPT ![b].trackers = @ \ {n}]

\* removeTracker: the entry of a block no L1 holds any more is CLEAN_LLC.
RemoveTracker(d, b, n) ==
  LET left == TrackersOf(d, b) \ {n}
  IN [d EXCEPT ![b] = [state |-> IF left = {} THEN "CLEAN_LLC" ELSE @.state,
                       trackers |-> left]]
=============================================================================
