------------------------------- MODULE MCSync -------------------------------
(* Sync for TLC.  The line of p1 has a block in each slot; that of p2       *)
(* branches off after the first, leaves out the second slot, and ends with  *)
(* a block that the node refuses.                                           *)
EXTENDS Sync

MCBlocks == {"g", "a1", "a2", "a3", "b3", "b4"}
MCParent == [b \in MCBlocks \ {"g"} |->
    CASE b = "a1" -> "g" [] b \in {"a2", "b3"} -> "a1" [] b = "a3" -> "a2"
      [] b = "b4" -> "b3"]
MCSlotOf == [b \in MCBlocks |->
    CASE b = "g" -> 0 [] b = "a1" -> 1 [] b = "a2" -> 2
      [] b \in {"a3", "b3"} -> 3 [] b = "b4" -> 4]
MCRank == [b \in MCBlocks |-> IF b = "b3" THEN 0 ELSE 1]
MCLine == [p \in Peers |-> IF p = "p1" THEN <<"a1", "a2", "a3">>
                           ELSE <<"a1", "b3", "b4">>]
=============================================================================
