CONSTANTS
    alice = alice
    bob = bob
    NoAddr = NoAddr
    Addrs <- MCAddrs
    Names = {"gold", "art"}
    Items = {1}
    U64Mod = 8
    MinStake = 2
    ProbScale = 4
    MaxNonce = 2
    MaxBlockTxs = 2
    InitialAccounts <- MCInitialAccounts
    Transactions <- HoldingTxs
SPECIFICATION Spec
INVARIANTS AssetSupplyConserved  NoncesConsecutive OwnerListsItem SupplyNeverGrows
