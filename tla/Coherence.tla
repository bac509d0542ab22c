----------------------------- MODULE Coherence -----------------------------
(***************************************************************************)
(* What the hierarchy promises about the copies of a block, with neither   *)
(* caches nor directory: a core that reads a block joins those that hold   *)
(* it, a core that writes one becomes the only one and has it dirty, and   *)
(* all an access may take away beside that is one other block, from the    *)
(* core that made it.  No copy becomes dirty while there is another.       *)
(***************************************************************************)
CONSTANTS Blocks, Cores, NoBlock

VARIABLES holders,  \* the cores that hold each block
          dirty     \* those of them that have written their copy

vars == <<holders, dirty>>

CoresOfBlocks == [Blocks -> SUBSET Cores]

Init ==
  /\ holders = [b \in Blocks |-> {}]
  /\ dirty = [b \in Blocks |-> {}]

\* Core n makes room for block b by giving up block v, or nothing.
MakesRoom(n, b, v) ==
  \A x \in Blocks \ {b} :
    LET gone == IF x = v THEN {n} ELSE {}
    IN holders'[x] = holders[x] \ gone /\ dirty'[x] = dirty[x] \ gone

Read(n, b, v) ==
  /\ holders' \in CoresOfBlocks /\ dirty' \in CoresOfBlocks
  /\ holders'[b] = holders[b] \cup {n}
  /\ dirty'[b] = dirty[b]
  /\ MakesRoom(n, b, v)

Write(n, b, v) ==
  /\ holders' \in CoresOfBlocks /\ dirty' \in CoresOfBlocks
  /\ holders'[b] = {n}
  /\ dirty'[b] = {n}
  /\ MakesRoom(n, b, v)

Next ==
  \E n \in Cores, b \in Blocks, v \in Blocks \cup {NoBlock} :
    Read(n, b, v) \/ Write(n, b, v)

Spec == Init /\ [][Next]_vars
=============================================================================
