SPECIFICATION TermsSpec
CONSTANTS
    Address = {a, b, k}
    Contract = k
    None = None
    MaxTokens = 2
    MaxBatchTransfer = 1
    MaxBatchMint = 1
    Asset = {x}
    NoAsset = NoAsset
    MAX_ROYALTY_BPS = 2
    MAX_GUARDS = 16
    Royalties <- MCRoyalties
SYMMETRY Symmetry
CONSTRAINT LedgerKeptSmall
INVARIANTS
    TermsFollowRecord
    TermsWithinPrice
PROPERTIES
    FrozenTermsHold
    TermChangesAreGuarded
