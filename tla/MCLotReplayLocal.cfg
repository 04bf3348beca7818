SPECIFICATION ReplaySpec
CONSTANTS
    A = A
    B = B
    p = p
    q = q
    lemx = lemx
    credit = credit
    nft = nft
    None = None
    Wallets = {A, B}
    Entities = {p, q}
    HifoEntities = {p}
    JobKinds = {"rebuild"}
    Events <- LocalEvents
    WalletOf <- LocalWalletOf
    FirstClass <- LocalFirstClass
    TxOf <- LocalTxOf
    Amount <- LocalAmount
    ValueOf <- LocalValueOf
    PoolOf <- LocalPoolOf
    OwnerAt <- LocalOwnerAt
    BridgeLinks = {}
    InflowsOf <- LocalInflowsOf
INVARIANTS
    DisposalsAreWhole
    DisposalsLookBack
PROPERTIES
    RebuildIsDeterministic
