CONSTANTS
    None = None
    Blocks <- MCBlocks
    Genesis = "g"
    Parent <- MCParent
    SlotOf <- MCSlotOf
    Rank <- MCRank
    Refused = {"b4"}
    WithTxs = {"a2"}
    Peers = {"p1", "p2"}
    Line <- MCLine
    Stored = {"g", "a1"}
    Limit = 2
    MaxConnects = 2

SPECIFICATION Spec
INVARIANT TypeOK
PROPERTIES ReplicaRefined CatchesUp
CHECK_DEADLOCK FALSE
