SPECIFICATION ClassifiedSpec
CONSTANTS
    A = A
    B = B
    C = C
    p = p
    q = q
    None = None
    Wallets = {A, B, C}
    Entities = {p, q}
    Events <- MCEvents
    WalletOf <- MCWalletOf
    FirstClass <- MCFirstClass
    OwnerAt <- MCOwnerAt
    BridgeLinks = {}
    InflowsOf <- MCInflowsOf
    Tokenless = {6}
    Addresses <- MCAddresses
    Accounts = {"me", "you"}
    History <- MCHistory
    Tokens = {"t", "q"}
    MintOnly = {"q"}
    Deflationary = {"t"}
    Erc20 <- MCErc20
    SeededNft <- MCSeededNft
    Wlemx = "wlemx"
    Scdt = "scdt"
    Zero = "zero"
    BurnSinks = {"dead"}
    MaxUpsets = 2
    NoAddress = NoAddress
    Unread = Unread
    Unclassified = Unclassified
INVARIANTS
    StampedAsRecorded
    RelocationsPaired
    RowsBookedOnce
    IncomeIsConfirmed
PROPERTIES
    RowsOnlyAdvance
    SignalSpec
    HeldRowsStand
