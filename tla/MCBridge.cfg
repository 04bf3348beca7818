SPECIFICATION FairSpec
CONSTANTS
    A = A
    B = B
    C = C
    p = p
    q = q
    X = X
    Y = Y
    None = None
    Wallets = {A, B, C}
    Entities = {p, q}
    Events <- MCEvents
    WalletOf <- MCWalletOf
    FirstClass <- MCFirstClass
    OwnerAt <- MCOwnerAt
    BridgeLinks <- MCLinks
    InflowsOf <- MCInflowsOf
    Bridgeable = {1, 2, 3}
    ChainOf <- MCChainOf
    AssetOf <- MCAssetOf
    AmountOf <- MCAmountOf
    MinuteOf <- MCMinuteOf
    CustodyOf <- MCCustodyOf
    Disposers = {q}

    
PROPERTIES
    
    NoLegForgotten
    SignalSpec
    AgedLegsSurface
