CONSTANTS
    n1 = n1
    n2 = n2
    client = client
    stranger = stranger
    NoAddr = NoAddr
    Addrs <- MCAddrs
    Names = {"gold"}
    Items = {1}
    U64Mod = 16
    Wallets <- MCWallets
    SeedWallet = n1
    StartBalance = 3
    Submissions <- StrangerPays
    Sends <- MCSends
    FaucetClients <- MCClients
    FaucetAmount = 2
    Capacity = 3
    BlockLimit = 2
    Sources = {"gossip", "sync"}
    InitialAccounts <- MCInitialAccounts
    MaxNonce = 1
    MaxRestarts = 0
SPECIFICATION Spec
PROPERTY BlocksKeepComing
