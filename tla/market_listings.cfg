SPECIFICATION MarketSpec
CONSTANTS
    Address = {a, b, k}
    Contract = k
    None = None
    MaxTokens = 2
    MaxBatchTransfer = 1
    MaxBatchMint = 0
    Asset = {x}
    NoAsset = NoAsset
    MAX_ROYALTY_BPS = 2
    MAX_GUARDS = 16
    Royalties <- OneRoyalty
    Denominator = 2
    AssetScale = 2
    MaxInt = 9
    PlatformFeeBps = 0
    Prices = {2}
    Funds = 2
    MaxTime = 2
    MaxListings = 2
SYMMETRY Symmetry
CONSTRAINT ListingsOnly
INVARIANT OfferIndexIsExact
PROPERTIES
    LedgerOnly
    SalesAreGuarded
