----------------------------- MODULE MCDataSets -----------------------------
(***************************************************************************)
(* An instance of DataSets for TLC.                                        *)
(***************************************************************************)
EXTENDS DataSets

MCUses == {<<1, 1>>, <<2, 1>>, <<2, 2>>}
=============================================================================
