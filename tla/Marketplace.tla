---------------------------- MODULE Marketplace ----------------------------
(***************************************************************************)
(* Listings, offers, sales and the royalties they pay, over the ledger and *)
(* the royalty terms.  The token contracts that hold the money are outside *)
(* this repository; a transfer fails if the payer has too little.          *)
(*                                                                         *)
(* The source keeps listings in two places: create_listing and the other   *)
(* entry points use DataKey::ActiveListing, list_nft DataKey::Listing.     *)
(***************************************************************************)
EXTENDS RoyaltyTerms, RoyaltyMath, SequencesExt

CONSTANTS PlatformFeeBps,  \* DataKey::PlatformFee, which no entry point writes
          Prices,          \* the prices callers submit
          Funds,           \* bound: what each account holds at the start
          MaxTime,         \* bound: ledger times are 1 .. MaxTime
          MaxListings      \* bound: listing ids are 1 .. MaxListings

Time == 0 .. MaxTime   \* 0 as an expiration is none
DealType == [price : 1 .. MAX_LISTING_PRICE, asset : Asset, expiration : Time]
PostType == [seller : Caller, deal : DealType]
ListingType == [id : 1 .. MaxListings, seller : Caller, deal : DealType]
OfferType == [buyer : Caller, deal : DealType]

ASSUME MarketAssumption ==
    /\ PlatformFeeBps \in Nat
    /\ Prices \subseteq Int
    /\ IsFiniteSet(Asset)
    /\ {Funds, MaxListings} \subseteq Nat
    /\ MaxTime \in Nat \ {0}
    /\ None \notin ListingType \cup PostType \cup OfferType

VARIABLES
    now,               \* env.ledger().timestamp()
    activeListing,     \* DataKey::ActiveListing(t), or None
    listing,           \* DataKey::Listing(t), or None; its status stays Active
    nextListingId,     \* DataKey::NextListingId
    offer,             \* DataKey::Offer(t), or None; its status stays Active
    offerIndex,        \* DataKey::OfferIndex
    usedPayments,      \* {<<payer, t, price>> : DataKey::UsedPayment of their hash}
    paymentsDisabled,  \* DataKey::RoyaltyPaymentsDisabled
    royaltyHistory,    \* DataKey::RoyaltyHistory(t)
    royaltyEarnings,   \* DataKey::RoyaltyEarnings(t)
    creatorEarnings,   \* DataKey::CreatorEarnings(a)
    balance            \* the balances the token contracts keep

listingVars == <<activeListing, listing, nextListingId>>
offerVars == <<offer, offerIndex>>
earningVars == <<royaltyHistory, royaltyEarnings, creatorEarnings>>
paymentVars == <<usedPayments, earningVars, balance>>
marketVars == <<now, listingVars, offerVars, paymentVars, paymentsDisabled>>
allVars == <<ledgerVars, termsVars, marketVars>>

MarketTypeOK ==
    /\ now \in Time
    /\ activeListing \in [TokenId -> ListingType \cup {None}]
    /\ listing \in [TokenId -> PostType \cup {None}]
    /\ offer \in [TokenId -> OfferType \cup {None}]
    /\ nextListingId \in 1 .. MaxListings + 1
    /\ offerIndex \subseteq TokenId
    /\ usedPayments \subseteq Address \X TokenId \X Nat
    /\ paymentsDisabled \in BOOLEAN
    /\ royaltyHistory \in [TokenId -> Seq([who : Caller, amount : Nat])]
    /\ royaltyEarnings \in [TokenId -> Nat]
    /\ creatorEarnings \in [Address -> Nat]
    /\ balance \in [Asset -> [Address -> Nat]]

MarketInit ==
    /\ now = 1
    /\ activeListing = [t \in TokenId |-> None]
    /\ listing = [t \in TokenId |-> None]
    /\ nextListingId = 1
    /\ offer = [t \in TokenId |-> None]
    /\ offerIndex = {}
    /\ usedPayments = {}
    /\ paymentsDisabled = FALSE
    /\ royaltyHistory = [t \in TokenId |-> << >>]
    /\ royaltyEarnings = [t \in TokenId |-> 0]
    /\ creatorEarnings = [a \in Address |-> 0]
    /\ balance = [x \in Asset |-> [a \in Address |-> IF a = Contract THEN 0 ELSE Funds]]

-----------------------------------------------------------------------------
(* Listings *)

Expired(deal) == deal.expiration # 0 /\ deal.expiration <= now

\* What every new listing, update or offer must satisfy.
\* Mutant of ValidPrice: free of charge.
PriceWithinLimit(deal) == deal.price <= MAX_LISTING_PRICE
ValidPrice(deal) == deal.price \in 1 .. MAX_LISTING_PRICE
ValidDeal(deal) == ValidPrice(deal) /\ deal.asset \in currencies /\ ~Expired(deal)

\* The checks the entry points make first.
OpenFor(c, t) == ~paused /\ t \notin frozen /\ c \notin blacklisted

\* Mutant of verify_owner: a listing is trusted to be its owner's.
trust_owner(t, a) == TRUE
verify_owner(t, a) == tokenOwner[t] = a

validate_listing(s, t, deal) ==
    /\ OpenFor(s, t)
    /\ verify_owner(t, s)
    /\ ValidDeal(deal)
    /\ listing[t] = None

generate_listing_id ==
    /\ nextListingId <= MaxListings
    /\ nextListingId' = nextListingId + 1

list_nft(s, t, deal) ==
    /\ validate_listing(s, t, deal)
    /\ generate_listing_id
    /\ listing' = [listing EXCEPT ![t] = [seller |-> s, deal |-> deal]]
    /\ UNCHANGED <<ledgerVars, termsVars, now, activeListing, offerVars,
                   paymentVars, paymentsDisabled>>

create_listing(s, t, deal) ==
    /\ validate_listing(s, t, deal)
    /\ activeListing[t] = None
    /\ generate_listing_id
    /\ activeListing' =
           [activeListing EXCEPT ![t] = [id |-> nextListingId, seller |-> s, deal |-> deal]]
    /\ UNCHANGED <<ledgerVars, termsVars, now, listing, offerVars, paymentVars,
                   paymentsDisabled>>

cancel_listing(c, t) ==
    /\ OpenFor(c, t)
    /\ activeListing[t] # None
    /\ \/ c = activeListing[t].seller
       \/ <<activeListing[t].seller, c>> \in operators
       \/ c = admin
    /\ activeListing' = [activeListing EXCEPT ![t] = None]
    /\ UNCHANGED <<ledgerVars, termsVars, now, listing, nextListingId, offerVars,
                   paymentVars, paymentsDisabled>>

\* The asset of a listing cannot be changed; neither it nor the owner is checked.
update_listing(s, t, price, expiration) ==
    LET deal == [price |-> price, asset |-> activeListing[t].deal.asset,
                 expiration |-> expiration]
    IN  /\ OpenFor(s, t)
        /\ activeListing[t] # None
        /\ activeListing[t].seller = s
        /\ ValidPrice(deal) /\ ~Expired(deal)
        /\ activeListing' = [activeListing EXCEPT ![t].deal = deal]
        /\ UNCHANGED <<ledgerVars, termsVars, now, listing, nextListingId, offerVars,
                       paymentVars, paymentsDisabled>>

-----------------------------------------------------------------------------
(* Money *)

\* funds after the token contract of x moved n, or None if it refused.
Paid(funds, x, from, to, n) ==
    IF n <= 0 THEN funds
    ELSE IF funds = None \/ funds[x][from] < n THEN None
    ELSE LET debited == [funds EXCEPT ![x][from] = @ - n]
         IN  [debited EXCEPT ![x][to] = @ + n]

Shares(t) ==
    [i \in DOMAIN royalty[t].recipients |-> royalty[t].recipients[i].bps]

\* What a recipient is due for a price, and the dues that are paid: the positive
\* ones, in the order of the recipients.
Due(price, p) == [who |-> p.who, amount |-> safe_royalty_amount(price, p.bps)]
Dues(t, price) ==
    FoldLeft(LAMBDA dues, p : IF Due(price, p).amount > 0 THEN Append(dues, Due(price, p))
                              ELSE dues,
             << >>, royalty[t].recipients)

DueTotal(dues) == SumOf([i \in DOMAIN dues |-> dues[i].amount])
DueTo(dues, a) ==
    SumOf([i \in DOMAIN dues |-> IF dues[i].who = a THEN dues[i].amount ELSE 0])

\* Mutant of increment_creator_earnings: the new total forgets the old one.
set_creator_earnings(dues) == [a \in Address |-> DueTo(dues, a)]
increment_creator_earnings(dues) ==
    [a \in Address |-> creatorEarnings[a] + DueTo(dues, a)]

\* Mutant of is_payment_processed: no identifier is remembered.
is_never_processed(payer, t, price) == FALSE
is_payment_processed(payer, t, price) == <<payer, t, price>> \in usedPayments

\* Mutant of seller_net: the royalties are those royalty_info previews.
seller_net_of_preview(t, price) ==
    price - safe_royalty_amount(price, TotalBps(royalty[t]))
          - safe_royalty_amount(price, PlatformFeeBps)
seller_net(t, price) ==
    price - DueTotal(Dues(t, price)) - safe_royalty_amount(price, PlatformFeeBps)

RoyaltiesPaid(payer, t, price) ==
    FoldLeft(LAMBDA funds, due : Paid(funds, royalty[t].asset, payer, due.who, due.amount),
             balance, Dues(t, price))

\* royalty_payment::pay_royalty, but for the balances.
RecordRoyalty(payer, t, price) ==
    LET dues == Dues(t, price) IN
    /\ ~paymentsDisabled
    /\ price \in 1 .. MAX_SAFE_SALE_PRICE
    /\ OpenFor(payer, t)
    /\ royalty[t] # None
    /\ ~is_payment_processed(payer, t, price)
    /\ validate_royalty_recipients(royalty[t])
    /\ validate_royalty_asset(royalty[t].asset)
    /\ validate_total_deduction_bps(TotalBps(royalty[t]), PlatformFeeBps)
    /\ dues # << >> => royalty[t].asset # NoAsset
    /\ usedPayments' = usedPayments \cup {<<payer, t, price>>}
    /\ royaltyHistory' = [royaltyHistory EXCEPT ![t] = @ \o dues]
    /\ royaltyEarnings' = [royaltyEarnings EXCEPT ![t] = @ + DueTotal(dues)]
    /\ creatorEarnings' = increment_creator_earnings(dues)

pay_royalty(payer, t, price) ==
    /\ tokenData[t] # None
    /\ RecordRoyalty(payer, t, price)
    /\ balance' = RoyaltiesPaid(payer, t, price)
    /\ balance' # None
    /\ UNCHANGED <<ledgerVars, termsVars, now, listingVars, offerVars, paymentsDisabled>>

set_royalty_payments_disabled(disabled) ==
    /\ admin # None
    /\ paymentsDisabled' = disabled
    /\ UNCHANGED <<ledgerVars, termsVars, now, listingVars, offerVars, paymentVars>>

\* The part buy_listing and accept_offer share: royalties, fee, the rest to the
\* seller, then the ownership record.
Settle(buyer, seller, t, deal) ==
    LET fee == safe_royalty_amount(deal.price, PlatformFeeBps)
        funds == RoyaltiesPaid(buyer, t, deal.price)
    IN  /\ deal.asset \in currencies
        /\ verify_owner(t, seller)
        /\ RecordRoyalty(buyer, t, deal.price)
        /\ balance' = Paid(Paid(funds, deal.asset, buyer, Contract, fee),
                           deal.asset, buyer, seller, seller_net(t, deal.price))
        /\ balance' # None
        /\ tokenOwner' = [tokenOwner EXCEPT ![t] = buyer]
        /\ unsynced' = unsynced \cup {t}
        /\ UNCHANGED <<accessVars, grantVars, indexVars, statusVars, tokenData,
                       nextTokenId, termsVars, now, paymentsDisabled>>

\* The caller names the listing's asset and exact price, or the call fails.
buy_listing(buyer, t) ==
    LET l == activeListing[t] IN
    /\ l # None
    /\ ~paused /\ t \notin frozen
    /\ {buyer, l.seller} \cap blacklisted = {}
    /\ l.seller # buyer
    /\ ~Expired(l.deal) /\ ValidPrice(l.deal)
    /\ Settle(buyer, l.seller, t, l.deal)
    /\ activeListing' = [activeListing EXCEPT ![t] = None]
    /\ UNCHANGED <<listing, nextListingId, offerVars>>

-----------------------------------------------------------------------------
(* Offers *)

save_offer(t, o) ==
    /\ offer' = [offer EXCEPT ![t] = o]
    /\ offerIndex' = offerIndex \cup {t}

\* Mutant of remove_offer: the index keeps the token.
remove_offer_record(t) == offer' = [offer EXCEPT ![t] = None] /\ UNCHANGED offerIndex
remove_offer(t) ==
    /\ offer' = [offer EXCEPT ![t] = None]
    /\ offerIndex' = offerIndex \ {t}

make_offer(buyer, t, deal) ==
    /\ OpenFor(buyer, t)
    /\ ValidDeal(deal)
    /\ tokenData[t] # None
    /\ offer[t] = None
    /\ save_offer(t, [buyer |-> buyer, deal |-> deal])
    /\ UNCHANGED <<ledgerVars, termsVars, now, listingVars, paymentVars, paymentsDisabled>>

accept_offer(s, t) ==
    LET o == offer[t] IN
    /\ o # None
    /\ ~paused /\ t \notin frozen
    /\ {s, o.buyer} \cap blacklisted = {}
    /\ ~Expired(o.deal)
    /\ s # o.buyer
    /\ Settle(o.buyer, s, t, o.deal)
    /\ remove_offer(t)
    /\ UNCHANGED listingVars

cancel_offer(c, t) ==
    /\ ~paused
    /\ offer[t] # None
    /\ c = offer[t].buyer \/ <<offer[t].buyer, c>> \in operators
    /\ tokenOwner[t] # None
    /\ t \notin frozen
    /\ remove_offer(t)
    /\ UNCHANGED <<ledgerVars, termsVars, now, listingVars, paymentVars, paymentsDisabled>>

-----------------------------------------------------------------------------
\* The ledger's clock.
Tick ==
    /\ now < MaxTime
    /\ now' = now + 1
    /\ UNCHANGED <<ledgerVars, termsVars, listingVars, offerVars, paymentVars,
                   paymentsDisabled>>

Deals == [price : Prices, asset : Asset, expiration : Time]

ListOrOffer ==
    \E c \in Caller, t \in TokenId :
        \/ \E deal \in Deals : \/ list_nft(c, t, deal)
                               \/ create_listing(c, t, deal)
                               \/ make_offer(c, t, deal)
        \/ \E price \in Prices, expiration \in Time : update_listing(c, t, price, expiration)
        \/ cancel_listing(c, t)
        \/ cancel_offer(c, t)

Trade ==
    \E c \in Caller, t \in TokenId :
        \/ buy_listing(c, t)
        \/ accept_offer(c, t)

MarketNext ==
    \/ TermsStep /\ UNCHANGED marketVars
    \/ ListOrOffer
    \/ Trade
    \/ \E payer \in Address, t \in TokenId, price \in Prices : pay_royalty(payer, t, price)
    \/ \E disabled \in BOOLEAN : set_royalty_payments_disabled(disabled)
    \/ Tick

MarketSpec == LedgerInit /\ TermsInit /\ MarketInit /\ [][MarketNext]_allVars

-----------------------------------------------------------------------------
(* Properties *)

\* The index that remove_expired_offers walks lists exactly the tokens with an
\* open offer, whether it was accepted, cancelled or left on a burned token.
OfferIndexIsExact == offerIndex = {t \in TokenId : offer[t] # None}

\* Listing ids, drawn from one counter for both kinds of listing, are not used
\* twice by the listings that are open at a time, nor by a later one.
ListingIdsAreUnique ==
    \A t, u \in TokenId :
        activeListing[t] # None =>
            /\ activeListing[t].id < nextListingId
            /\ t # u /\ activeListing[u] # None => activeListing[t].id # activeListing[u].id

\* The three records of what was paid agree: the earnings of a token and of a
\* recipient are the sums of the payment histories.
EarningsMatchHistory ==
    /\ \A t \in TokenId : royaltyEarnings[t] = DueTotal(royaltyHistory[t])
    /\ \A a \in Address :
           creatorEarnings[a] =
               SumOf([t \in TokenId |-> DueTo(royaltyHistory[t], a)])

\* What an account holds, over all assets.
Wealth(a) == SumOf([x \in Asset |-> balance[x][a]])

\* The payments a step consumes.
NewPayments == usedPayments' \ usedPayments

\* Nobody pays twice for one payment identifier, or more than its price: money
\* leaves an account only in a step that consumes an identifier of its own that
\* was never used, and royalties, fee and proceeds together are within the price.
NobodyOverpays ==
    [][\A a \in Address :
           Wealth(a)' < Wealth(a) =>
               \E t \in TokenId, price \in Prices :
                   <<a, t, price>> \in NewPayments /\ Wealth(a) - Wealth(a)' <= price]_allVars

\* A sale pays the account that owns the token, however old the listing or the
\* offer: it ends at least the price less royalties and fee better off.
OwnerIsPaid ==
    [][\A t \in TokenId, seller, buyer \in Address, price \in Prices :
           /\ <<buyer, t, price>> \in NewPayments
           /\ tokenOwner[t] = seller
           /\ tokenOwner'[t] # seller
           => Wealth(seller)' - Wealth(seller) >=
                  price - total_royalty(price, Shares(t))
                        - safe_royalty_amount(price, PlatformFeeBps)]_allVars

\* While the contract is paused or payments are disabled no money moves, through
\* no entry point, and nothing is recorded as paid.
SwitchesStopSettlement ==
    [][paused \/ paymentsDisabled => UNCHANGED paymentVars]_allVars

\* Every sale is a step of the ledger: buy_listing and accept_offer write the
\* ownership record only in ways that keep the ledger's invariants.
LedgerOnly == LedgerSpec

(* What the documents say and the code does not do; refuted. *)

\* GUARD_ARCHITECTURE.md, validate_listing, check 5: a token with an active
\* listing gets no other.
OneListingPerToken ==
    \A t \in TokenId : activeListing[t] = None \/ listing[t] = None
=============================================================================
