SPECIFICATION UpgradeSpec
CONSTANTS
    Address = {a, b}
    None = None
    MAX_ROYALTY_BPS = 3
    MAX_PLATFORM_FEE_BPS = 1
    MAX_TOTAL_DEDUCTION_BPS = 3
    DEFAULT_ROYALTY_BPS = 2
    MAX_BATCH_SIZE = 2
    MAX_COLLECTION_LIMIT = 2
    Configs <- SomeConfigs
    CashConfigs <- SomeCashConfigs
    CURRENT_MIGRATION_VERSION = 1
    MaxTokens = 3
INVARIANTS
    EventsTellConfig
    SupplyCountsTokens
PROPERTIES
    AuthorityNeverMoves
