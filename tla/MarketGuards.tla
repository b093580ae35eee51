---------------------------- MODULE MarketGuards ----------------------------
(***************************************************************************)
(* The guards of purchases.  The source keeps them beside the listings of  *)
(* list_nft; buy_listing, which sells the listings of create_listing, does *)
(* its own checks.  What is listed is passed in, so the same guards are    *)
(* read here for both.                                                     *)
(***************************************************************************)
EXTENDS Marketplace, RoyaltyGuards

\* check_listing_not_sold and check_listing_active have nothing to refuse: a
\* listing that is sold or withdrawn is removed, and none is stored as such.
check_listing_exists(l) == from_condition(l # None, "ListingNotFound")
check_listing_not_expired(l) == from_condition(~Expired(l.deal), "ListingExpired")
require_purchasable_listing(l) == check_listing_not_expired(l)
require_purchasable(l) ==
    IF l = None THEN check_listing_exists(l) ELSE require_purchasable_listing(l)

\* Unlike buy_listing, which takes the exact price, a larger amount will do.
validate_purchase(buyer, t, l, asset, amount) ==
    execute_guards(<<guard_not_paused,
                     from_condition(~Expired(l.deal), "OfferExpired"),
                     from_condition(buyer # l.seller, "SelfTransferNotAllowed"),
                     from_condition(buyer \notin blacklisted, "Unauthorized"),
                     from_condition(asset = l.deal.asset, "UnsupportedAsset"),
                     from_condition(asset \in currencies, "UnsupportedAsset"),
                     from_condition(ValidPrice(l.deal), "InvalidSalePrice"),
                     from_condition(amount >= l.deal.price, "InvalidSalePrice"),
                     require_owner_matches(t, l.seller),
                     require_token_not_frozen(t)>>)

\* A request of a buyer who names the most it would pay.
validate_purchase_request(request, t, l) ==
    validate_purchase(request.buyer, t, l, request.asset, request.max_price)

-----------------------------------------------------------------------------
(* Properties *)

\* Whatever happened to the token between the listing and the sale, transfers and
\* sales through the other tables and a return to the seller included, a listing
\* that leads to a sale could be purchased: validate_purchase lets the new owner
\* have it from the seller at its price.
SalesAreGuarded ==
    [][\A t \in TokenId :
           /\ activeListing[t] # None
           /\ activeListing'[t] = None
           /\ usedPayments' # usedPayments
           => LET l == activeListing[t] IN
              /\ require_purchasable(l) = Ok
              /\ validate_purchase(tokenOwner'[t], t, l, l.deal.asset, l.deal.price) = Ok
              /\ require_transfer(l.seller, l.seller, tokenOwner'[t], t) = Ok]_allVars
=============================================================================
