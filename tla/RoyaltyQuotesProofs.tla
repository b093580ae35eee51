------------------------ MODULE RoyaltyQuotesProofs ------------------------
(***************************************************************************)
(* What holds of every quote: of every admissible price, terms and fee.    *)
(***************************************************************************)
EXTENDS RoyaltyQuotes, RoyaltyMathProofs

-----------------------------------------------------------------------------
(* The behaviours of RoyaltyQuotes *)

\* The price is safe, no recipient has more than the whole of it, and the terms
\* and the fee together take no more than the whole.
QuoteInv ==
    /\ price \in 1 .. MAX_SAFE_SALE_PRICE
    /\ \A i \in DOMAIN shares : shares[i] \in 0 .. Denominator
    /\ \E n \in 1 .. MaxRecipients : shares \in [1 .. n -> Nat]
    /\ fee \in Nat
    /\ validate_total_deduction_bps(SumOf(shares), fee)

LEMMA QuoteInvariance == QuoteSpec => []QuoteInv
<1>1. QuoteInit => QuoteInv
  <2>1. SUFFICES ASSUME QuoteInit PROVE QuoteInv
    OBVIOUS
  <2>2. PICK n \in 1 .. MaxRecipients : shares \in [1 .. n -> 0 .. Denominator]
    BY <2>1 DEF QuoteInit
  <2>3. shares \in [1 .. n -> Nat] /\ \A i \in DOMAIN shares : shares[i] \in 0 .. Denominator
    BY <2>2
  <2>4. price \in 1 .. MAX_SAFE_SALE_PRICE /\ fee \in Nat
    BY <2>1, LimitsAreNumbers DEF QuoteInit
  <2>5. QED
    BY <2>1, <2>3, <2>4 DEF QuoteInit, QuoteInv
<1>2. QuoteInv /\ [RaisePrice]_quoteVars => QuoteInv'
  <2>1. SUFFICES ASSUME QuoteInv, [RaisePrice]_quoteVars PROVE QuoteInv'
    OBVIOUS
  <2>2. shares' = shares /\ fee' = fee /\ price' \in 1 .. MAX_SAFE_SALE_PRICE
    BY <2>1, LimitsAreNumbers DEF QuoteInv, RaisePrice, quoteVars
  <2>3. SumOf(shares)' = SumOf(shares)
    BY <2>2
  <2>4. QED
    BY <2>1, <2>2, <2>3 DEF QuoteInv, validate_total_deduction_bps
<1>3. QED
    BY <1>1, <1>2, PTL DEF QuoteSpec

\* Every payment of every sale is the truncated product.
THEOREM PaymentsTruncate == QuoteSpec => []AmountIsTruncated
<1>1. QuoteInv => AmountIsTruncated
  <2>1. SUFFICES ASSUME QuoteInv, NEW i \in DOMAIN shares
                 PROVE  safe_royalty_amount(price, shares[i]) = (price * shares[i]) \div Denominator
    BY DEF AmountIsTruncated
  <2>2. /\ price \in Nat /\ price <= MAX_SAFE_SALE_PRICE
        /\ shares[i] \in Nat /\ shares[i] <= Denominator
    BY <2>1, LimitsAreNumbers DEF QuoteInv
  <2>3. QED
    BY <2>2, AmountTruncates
<1>2. QED
    BY <1>1, QuoteInvariance, PTL

\* What is taken from every sale is at most its price.
THEOREM DeductionsAreWithinPrice == QuoteSpec => []DeductionsFitPrice
<1>1. QuoteInv => DeductionsFitPrice
  <2>1. SUFFICES ASSUME QuoteInv PROVE DeductionsFitPrice
    OBVIOUS
  <2>2. PICK n \in 1 .. MaxRecipients : shares \in [1 .. n -> Nat]
    BY <2>1 DEF QuoteInv
  <2>3. IsFiniteSet(1 .. n) /\ price \in Nat /\ price <= MAX_SAFE_SALE_PRICE
    BY <2>1, LimitsAreNumbers, FS_Interval, QuoteAssumption DEF QuoteInv
  <2>4. QED
    BY <2>1, <2>2, <2>3, DeductionsFit DEF QuoteInv, DeductionsFitPrice
<1>2. QED
  BY <1>1, QuoteInvariance, PTL

\* What royalty_info previews covers what every sale pays, and exceeds it by
\* less than one unit for each recipient.
THEOREM PreviewsCoverPayments == QuoteSpec => []PreviewCoversPayments
<1>1. QuoteInv => PreviewCoversPayments
  <2>1. SUFFICES ASSUME QuoteInv PROVE PreviewCoversPayments
    OBVIOUS
  <2>2. PICK n \in 1 .. MaxRecipients : shares \in [1 .. n -> Nat]
    BY <2>1 DEF QuoteInv
  <2>3. /\ n \in Nat \ {0} /\ 1 .. n # {} /\ Len(shares) = n
        /\ price \in Nat /\ price <= MAX_SAFE_SALE_PRICE
    BY <2>1, <2>2, LimitsAreNumbers, QuoteAssumption DEF QuoteInv
  <2>4. IsFiniteSet(1 .. n) /\ Cardinality(1 .. n) = n
    BY <2>3, FS_Interval
  <2>5. /\ royalty_info(price, shares) \in Nat
        /\ total_royalty(price, shares) <= royalty_info(price, shares)
        /\ royalty_info(price, shares) < total_royalty(price, shares) + n
    BY <2>1, <2>2, <2>3, <2>4, PreviewCovers DEF QuoteInv
  <2>6. total_royalty(price, shares) \in Nat
    BY <2>1, <2>2, <2>3, <2>4, TotalRoyaltyIs DEF QuoteInv
  <2>7. QED
    BY <2>3, <2>5, <2>6 DEF PreviewCoversPayments
<1>2. QED
  BY <1>1, QuoteInvariance, PTL

\* A seller who asks for more costs no recipient anything.
THEOREM PaymentsRise == QuoteSpec => HigherPricePaysNoLess
<1>1. ASSUME QuoteInv, [RaisePrice]_quoteVars, NEW i \in DOMAIN shares
      PROVE  Amounts(price, shares)[i] <= Amounts(price, shares)'[i]
  <2>1. shares' = shares /\ price \in Nat /\ price' \in Nat /\ price <= price'
        /\ price <= MAX_SAFE_SALE_PRICE /\ price' <= MAX_SAFE_SALE_PRICE
        /\ shares[i] \in Nat /\ shares[i] <= Denominator
      BY <1>1, LimitsAreNumbers DEF QuoteInv, RaisePrice, quoteVars
  <2>2. Amounts(price, shares)[i] = (price * shares[i]) \div Denominator
      BY <2>1, AmountTruncates DEF Amounts
  <2>3. Amounts(price, shares)'[i] = (price' * shares[i]) \div Denominator
      BY <2>1, AmountTruncates DEF Amounts
  <2>4. price * shares[i] <= price' * shares[i]
      BY <2>1, TimesKeepsOrder
  <2>5. price * shares[i] \in Int /\ price' * shares[i] \in Int
      BY <2>1
  <2>6. QED
      BY <2>2, <2>3, <2>4, <2>5, LimitsAreNumbers, QuotientKeepsOrder
<1>2. QuoteInv /\ [RaisePrice]_quoteVars =>
          [\A i \in DOMAIN shares :
               Amounts(price, shares)[i] <= Amounts(price, shares)'[i]]_quoteVars
    BY <1>1
<1>3. QED
    BY <1>2, QuoteInvariance, PTL DEF QuoteSpec, HigherPricePaysNoLess
=============================================================================
