--------------------------- MODULE RoyaltyQuotes ---------------------------
(***************************************************************************)
(* RoyaltyMath over every admissible sale: the terms of a token and the    *)
(* fee are fixed, the price rises one unit at a time to the largest price  *)
(* a sale may have.                                                        *)
(***************************************************************************)
EXTENDS RoyaltyMath, Sequences

CONSTANT MaxRecipients   \* bound on the recipients of a token

ASSUME QuoteAssumption == MaxRecipients \in Nat

VARIABLES price, shares, fee

quoteVars == <<price, shares, fee>>

\* Terms that pass validate_royalty, with a fee that passes the deduction check.
QuoteInit ==
    /\ price = 1
    /\ shares \in UNION {[1 .. n -> 0 .. Denominator] : n \in 1 .. MaxRecipients}
    /\ fee \in 0 .. Denominator
    /\ validate_total_deduction_bps(SumOf(shares), fee)

RaisePrice ==
    /\ price < MAX_SAFE_SALE_PRICE
    /\ price' = price + 1
    /\ UNCHANGED <<shares, fee>>

QuoteSpec == QuoteInit /\ [][RaisePrice]_quoteVars

-----------------------------------------------------------------------------
(* Properties *)

\* Despite the scaling and the rounding offset every payment is the product
\* truncated, and no admissible price or share overflows.
AmountIsTruncated ==
    \A i \in DOMAIN shares :
        safe_royalty_amount(price, shares[i]) = (price * shares[i]) \div Denominator

\* The deductions never exceed the price, to the last unit: buy_listing and
\* accept_offer pay a seller nothing, and take more from the buyer than the
\* price, if they ever did.
DeductionsFitPrice ==
    total_royalty(price, shares) + safe_royalty_amount(price, fee) <= price

\* What royalty_info previews is never less than what is paid, and more by less
\* than one unit for each recipient.
PreviewCoversPayments ==
    LET excess == royalty_info(price, shares) - total_royalty(price, shares)
    IN  excess >= 0 /\ excess < Len(shares)

\* No recipient is paid less for a higher price.
HigherPricePaysNoLess ==
    [][\A i \in DOMAIN shares :
           Amounts(price, shares)[i] <= Amounts(price, shares)'[i]]_quoteVars
=============================================================================
