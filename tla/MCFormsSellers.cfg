SPECIFICATION FormsSpec
CONSTANTS
    A = A
    B = B
    p = p
    q = q
    lemx = lemx
    None = None
    Wallets = {A, B}
    Entities = {p, q}
    HifoEntities = {}
    JobKinds = {"apply"}
    Events <- MCEvents
    WalletOf <- MCWalletOf
    FirstClass <- MCFirstClass
    TxOf <- MCTxOf
    Amount <- MCAmount
    ValueOf <- MCValueOf
    PoolOf <- MCPoolOf
    OwnerAt <- MCOwnerAt
    BridgeLinks <- MCBridge
    InflowsOf <- MCInflowsOf
    YearOf <- MCYearOf
    Years = {1, 2}
    Commands <- MCCommands
INVARIANTS
    RowsAreTheSellers
