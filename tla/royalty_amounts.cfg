SPECIFICATION QuoteSpec
CONSTANTS
    Denominator = 5
    AssetScale = 3
    MaxInt = 182
    MaxRecipients = 3
INVARIANTS
    AmountIsTruncated
    DeductionsFitPrice
    PreviewCoversPayments
CHECK_DEADLOCK FALSE
