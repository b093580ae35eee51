SPECIFICATION MarketEventSpec
CONSTANTS
    Address = {a, b, k}
    Contract = k
    None = None
    MaxTokens = 1
    MaxBatchTransfer = 1
    MaxBatchMint = 0
    Asset = {x}
    NoAsset = NoAsset
    MAX_ROYALTY_BPS = 2
    MAX_GUARDS = 16
    Royalties <- MCRoyalties
    Denominator = 2
    AssetScale = 2
    MaxInt = 9
    PlatformFeeBps = 0
    Prices = {0, 1, 2}
    Funds = 2
    MaxTime = 1
    MaxListings = 1
SYMMETRY Symmetry
CONSTRAINT MoneyOnly
INVARIANTS
    MarketTypeOK
    ReaderKnowsMarket
    EarningsMatchHistory
PROPERTIES
    NobodyOverpays
    OwnerIsPaid
