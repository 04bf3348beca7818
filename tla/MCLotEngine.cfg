SPECIFICATION Spec
CONSTANTS
    A = A
    B = B
    p = p
    q = q
    lemx = lemx
    None = None
    Wallets = {A, B}
    Entities = {p, q}
    HifoEntities = {p}
    JobKinds = {"apply", "rebuild"}
    Events <- MCEvents
    WalletOf <- MCWalletOf
    FirstClass <- MCFirstClass
    TxOf <- MCTxOf
    Amount <- MCAmount
    ValueOf <- MCValueOf
    PoolOf <- MCPoolOf
    OwnerAt <- MCOwnerAt
    BridgeLinks <- MCBridge
    InflowsOf <- MCInflowsOf
INVARIANTS
    TypeOK
    UnitsAccounted
    RowsAnchored
    MovedLotsHaveTrail
    EntityFollowsWallet
    NothingDropped
