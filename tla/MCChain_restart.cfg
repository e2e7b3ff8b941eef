CONSTANTS
    v0 = v0
    v1 = v1
    v2 = v2
    v3 = v3
    w = w
    x = x
    g = g
    b1 = b1
    e1 = e1
    s2 = s2
    b2 = b2
    f2 = f2
    b3 = b3
    c3 = c3
    b4 = b4
    i3 = i3
    r3 = r3
    NoAddr = NoAddr
    NoHash = NoHash
    Addrs <- MCAddrs
    Keys <- MCKeys
    Names = {"gold"}
    Items = {1}
    U64Mod = 64
    MinStake = 1
    ProbScale = 8
    Hashes <- SmallHashes
    Header <- SmallHeader
    Genesis = g
    InitialValidators = {v1, v2}
    SelfFunded = {w}
    GenesisFund = 4
    Votes <- NoVotes
    KeepBlocks = 1
    MaxCrashes = 1
    FailingWrites = {}
SPECIFICATION Spec
INVARIANT ConfiguredValidatorsRegistered
