CONSTANTS
    None = None
    Blocks <- MCBlocks
    Genesis = "g"
    Parent <- MCParent
    SlotOf <- MCSlotOf
    Rank <- MCRank
    Refused = {}
    WithTxs = {"a2"}
    Peers = {"p1"}
    Line <- MCLine
    Stored = {"g"}
    Limit = 2
    MaxConnects = 1

SPECIFICATION Spec
PROPERTY ResyncsFromPeers
CHECK_DEADLOCK FALSE
