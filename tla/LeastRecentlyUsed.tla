------------------------- MODULE LeastRecentlyUsed -------------------------
(***************************************************************************)
(* What the LRU policy promises of one set of one array: a way is filled   *)
(* when it is free, or, if none is, when every other way was used after it. *)
(* There are no stamps, only which way was used before which.              *)
(***************************************************************************)
CONSTANT Slots  \* the ways

VARIABLES inUse,   \* the ways that hold a line
          before   \* the pairs of them used in that order

\* The state once way w is used last.
MakeLatest(w) ==
  /\ inUse' = inUse \cup {w}
  /\ before' = {o \in before : w # o[1] /\ w # o[2]}
                 \cup {<<v, w>> : v \in inUse \ {w}}

Use(w) == w \in inUse /\ MakeLatest(w)

IsOldest(w) == \A v \in Slots \ {w} : <<w, v>> \in before

Fill(w) ==
  /\ w \notin inUse \/ (inUse = Slots /\ IsOldest(w))
  /\ MakeLatest(w)

Free(w) ==
  /\ inUse' = inUse \ {w}
  /\ before' = {o \in before : w # o[1] /\ w # o[2]}

LRUInit == inUse = {} /\ before = {}
LRUNext == \E w \in Slots : Use(w) \/ Fill(w) \/ Free(w)
LRUSpec == LRUInit /\ [][LRUNext]_<<inUse, before>>
=============================================================================
