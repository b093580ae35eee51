SPECIFICATION LedgerSpec
CONSTANTS
    Address = {a, b, k}
    Contract = k
    None = None
    Unminted = Unminted
    Burned = Burned
    MaxTokens = 2
    MaxBatchTransfer = 2
    MaxBatchMint = 1
    MAX_GUARDS = 16
SYMMETRY Symmetry
CONSTRAINT FewGrants
PROPERTY ApprovalEndsWithTransfer
