------------------------------- MODULE Tables -------------------------------
(***************************************************************************)
(* The tables kept beside the caches, for TLC: the stamps of LRUPolicy, the *)
(* streams of the prefetcher, the missing tags and shadows of Predictor; and *)
(* the functions from an address to its block and set.  They share no state, *)
(* so one execution moves one of them and the others stay as they started;   *)
(* the application may end, and the execution with it.                      *)
(***************************************************************************)
EXTENDS Stamps, Streams, MissingTags, BlockAddress

VARIABLE table  \* the one that moves

tablesVars == <<table, stampsVars, streamsVars, tagsVars, addressVars>>

MCPredictors == {<<"preemptive", TRUE>>, <<"Instruction", FALSE>>}

TablesInit ==
  /\ table \in {"stamps", "streams", "tags", "addresses"}
  /\ StampsInit /\ StreamsInit /\ MissingTagsInit /\ BlockAddressInit
  /\ table # "streams" => ~m_stop_at_page
  /\ table # "tags" => predictor = <<"preemptive", TRUE>>
  /\ table # "addresses" =>
       blockBits = MaxBlockBits /\ setBits = MaxSetBits /\ overshift = "wraps"

TablesNext ==
  /\ UNCHANGED table
  /\ \/ /\ table = "stamps" /\ StampsNext
        /\ UNCHANGED <<streamsVars, tagsVars, addressVars>>
     \/ /\ table = "streams" /\ StreamsNext
        /\ UNCHANGED <<stampsVars, tagsVars, addressVars>>
     \/ /\ table = "tags" /\ MissingTagsNext
        /\ UNCHANGED <<stampsVars, streamsVars, addressVars>>
     \/ /\ table = "addresses" /\ BlockAddressNext
        /\ UNCHANGED <<stampsVars, streamsVars, tagsVars>>

TablesSpec == TablesInit /\ [][TablesNext]_tablesVars

\* Every table keeps its type: stamps are ints, streams and tags hold addresses,
\* and the counter of an instruction, raised and lowered by its victims, is never
\* negative (InstructionPredictor.cc:173).
TablesTypeOK == StampsTypeOK /\ StreamsTypeOK /\ MissingTagsTypeOK
                  /\ BlockAddressTypeOK
=============================================================================
