---------------------------- MODULE RoyaltyMath ----------------------------
(***************************************************************************)
(* The amounts of a sale: what each royalty recipient is paid for a price, *)
(* the platform fee, what royalty_info previews, and the check that keeps  *)
(* the deductions within the price.  The arithmetic is i128's, checked.    *)
(* The numbers never fall on the way to a result, so one comparison of the *)
(* largest with MaxInt stands for the checks of every step.                *)
(***************************************************************************)
EXTENDS Integers, Functions

CONSTANTS Denominator,   \* 10_000 basis points
          AssetScale,    \* ASSET_SCALE, ten to the seventh
          MaxInt         \* i128::MAX

\* The numbers the source relies on: rounding is by less than one unit of the
\* scale, some price is safe, and rounding does not overflow at the largest one.
ASSUME MathAssumption ==
    /\ Denominator \in Nat \ {0}
    /\ AssetScale \in Nat
    /\ AssetScale > Denominator \div 2
    /\ MaxInt \in Nat
    /\ MaxInt >= Denominator * AssetScale
    /\ MaxInt % (Denominator * AssetScale) >= Denominator \div 2

MAX_SAFE_SALE_PRICE == MaxInt \div (Denominator * AssetScale)
MAX_LISTING_PRICE == MaxInt \div 2

Overflow == -1   \* Error::RoyaltyOverflow

\* royalty_calculation's percentage: rounded half up, and not scaled.  It is what
\* safe_math.rs says of safe_royalty_amount too, so it serves as a mutant of it.
basis_point_percentage(amount, bps) ==
    LET rounded == amount * bps + Denominator \div 2
    IN  IF rounded > MaxInt THEN Overflow ELSE rounded \div Denominator

safe_royalty_amount(price, bps) ==
    LET rounded == price * bps * AssetScale + Denominator \div 2
    IN  IF price > MAX_SAFE_SALE_PRICE \/ rounded > MaxInt
        THEN Overflow
        ELSE (rounded \div Denominator) \div AssetScale

validate_total_deduction_bps(royaltyBps, feeBps) == royaltyBps + feeBps <= Denominator

-----------------------------------------------------------------------------
(* shares[i] are the basis points of the i-th recipient. *)

SumOf(numbers) == FoldFunction(+, 0, numbers)

\* What pay_royalty transfers, one amount for each recipient.
Amounts(price, shares) == [i \in DOMAIN shares |-> safe_royalty_amount(price, shares[i])]

total_royalty(price, shares) == SumOf(Amounts(price, shares))

\* The amount that royalty_info previews.
royalty_info(price, shares) == safe_royalty_amount(price, SumOf(shares))
=============================================================================
