SPECIFICATION ReplaySpec
CONSTANTS
    A = A
    B = B
    p = p
    q = q
    lemx = lemx
    credit = credit
    nft = nft
    None = None
    Wallets = {A, B}
    Entities = {p, q}
    HifoEntities = {p}
    JobKinds = {"rebuild"}
    Events <- MCEvents
    WalletOf <- MCWalletOf
    FirstClass <- MCFirstClass
    TxOf <- MCTxOf
    Amount <- MCAmount
    ValueOf <- MCValueOf
    PoolOf <- MCPoolOf
    OwnerAt <- MovesOwnerAt
    BridgeLinks <- MCBridge
    InflowsOf <- MCInflowsOf
PROPERTIES
    RebuildIsDeterministic
