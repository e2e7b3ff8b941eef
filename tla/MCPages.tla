------------------------------ MODULE MCPages ------------------------------
(* Pages for TLC: three versions of what the node holds, nothing in the     *)
(* second of them, and two requests at a time for screens that fetch one    *)
(* resource.                                                                *)
EXTENDS Pages

MCVersions == 0..2
MCAbsentIn == {1}
MCLanes == [k \in Kinds |-> IF k \in {"wallet", "mempool"} THEN 2 ELSE 1]
=============================================================================
