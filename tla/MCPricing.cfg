SPECIFICATION PricingSpec
CONSTANTS
    Callers = {c1, c2}
    Symbols = {"LEMX"}
    Markets <- MCMarkets
    MaxTime = 1
    MaxOverruns = 1
    MaxDeaths = 1
    None = None
    Crawlers = {b1, b2}
    Listed = {"known"}
    Days = {1, 2}
    Finalized <- MCFinalized
    DayOf <- MCDayOf
    MaxBlock = 4
    Window = 1
    InitialChunk = 2
    MinChunk = 1
    MaxChunk = 3
    Limit = 2
    MaxUpsets = 1
    NoRow = NoRow
    Manual = Manual
INVARIANTS
    StampedeBounded
PROPERTIES
    FreshIsRead
    CacheNeverStepsBack
    PriceRecovers
    ManualStands
    BackfillIsACrawl
    CrawlsEnd
