SPECIFICATION MetadataSpec
CONSTANTS
    Address = {a, b, k}
    Contract = k
    None = None
    MaxTokens = 4
    MaxBatchMint = 2
    Asset = {x}
    NoAsset = NoAsset
    MAX_ROYALTY_BPS = 2
    Royalties <- OneRoyalty
    Clip = {1, 2, 3}
    Uri = {u1, u2}
    AcceptedUri = {u1, u2}
    Signature = {1, 2}
    BatchItems <- AccountItems
    MaxSupply = 2
CONSTRAINT FewUpdates
INVARIANTS
    MintTypeOK
    SupplyCountsClips
    TokenFindsItsClip
    CreatorIsListed
    RollbackIsExact
    IndexNamesBearer
    OnlyBurnsOrphan
PROPERTIES
    MintsAreAtomic
    ClipMintedOnce
    OwnerSpendsSignature
    UriChangesOnce
    OwnerGetsTheUpdate
    EveryCallEnds
