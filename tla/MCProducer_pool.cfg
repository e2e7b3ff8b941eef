CONSTANTS
    n1 = n1
    n2 = n2
    client = client
    stranger = stranger
    NoAddr = NoAddr
    Addrs <- MCAddrs
    Names = {"gold"}
    Items = {1}
    U64Mod = 16
    Wallets <- MCWallets
    SeedWallet = n1
    StartBalance = 3
    Submissions <- StrangerPays
    Sends <- MCSends
    FaucetClients <- MCClients
    FaucetAmount = 2
    Capacity = 2
    BlockLimit = 2
    Sources = {"gossip"}
    InitialAccounts <- MCInitialAccounts
    MaxNonce = 1
    MaxRestarts = 1
SPECIFICATION Spec
INVARIANTS TypeOK ConfirmedLeavesPool  ClaimsArePaid
 
