SPECIFICATION EventSpec
CONSTANTS
    Address = {a, b, c, k}
    Contract = k
    None = None
    Unminted = Unminted
    Burned = Burned
    MaxTokens = 2
    MaxBatchTransfer = 2
    MaxBatchMint = 1
    MAX_GUARDS = 16
SYMMETRY Symmetry
CONSTRAINT OneHeldToken
INVARIANTS
    NoOrphanApproval
    ReaderKnowsHolders
    ReaderKnowsGrants
PROPERTIES
    MovesAreGuarded
    ImplementsRegistry
