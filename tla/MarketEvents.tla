---------------------------- MODULE MarketEvents ----------------------------
(***************************************************************************)
(* The market and a reader of its events, who never looks at storage: an   *)
(* indexer that keeps the open listings, the open offers and the royalties *)
(* every recipient earned.                                                 *)
(***************************************************************************)
EXTENDS Marketplace

VARIABLES
    seenListing,  \* open listings, by lst_crt, lst_upd, lst_can and nft_sold
    seenPosted,   \* listings of list_nft, by nft_list, which carries no expiration
    seenOffer,    \* open offers, by ofr_made, ofr_acc and ofr_can
    seenEarned    \* the sums of ryl_paid per receiver

marketSeen == <<seenListing, seenPosted, seenOffer, seenEarned>>
marketEventVars == <<allVars, marketSeen>>

MarketSeenInit ==
    /\ seenListing = [t \in TokenId |-> None]
    /\ seenPosted = [t \in TokenId |-> None]
    /\ seenOffer = [t \in TokenId |-> None]
    /\ seenEarned = [a \in Address |-> 0]

emit_nft_listed(t, s, deal) ==
    /\ seenPosted' = [seenPosted EXCEPT ![t] =
           [seller |-> s, price |-> deal.price, asset |-> deal.asset]]
    /\ UNCHANGED <<seenListing, seenOffer, seenEarned>>

emit_listing_created(t, s, deal) ==
    /\ seenListing' = [seenListing EXCEPT ![t] = [seller |-> s, deal |-> deal]]
    /\ UNCHANGED <<seenPosted, seenOffer, seenEarned>>

\* The event does not name the asset: the reader keeps the one it knows.
\* Mutant of emit_listing_updated: old and new price change places.
emit_listing_updated_back(t, price, expiration) ==
    /\ seenListing' = [seenListing EXCEPT ![t].deal =
           [price |-> activeListing[t].deal.price, asset |-> @.asset,
            expiration |-> expiration]]
    /\ UNCHANGED <<seenPosted, seenOffer, seenEarned>>
emit_listing_updated(t, price, expiration) ==
    /\ seenListing' = [seenListing EXCEPT ![t].deal =
           [price |-> price, asset |-> @.asset, expiration |-> expiration]]
    /\ UNCHANGED <<seenPosted, seenOffer, seenEarned>>

emit_listing_cancelled(t) ==
    /\ seenListing' = [seenListing EXCEPT ![t] = None]
    /\ UNCHANGED <<seenPosted, seenOffer, seenEarned>>

emit_offer_made(t, buyer, deal) ==
    /\ seenOffer' = [seenOffer EXCEPT ![t] = [buyer |-> buyer, deal |-> deal]]
    /\ UNCHANGED <<seenListing, seenPosted, seenEarned>>

emit_offer_cancelled(t) ==
    /\ seenOffer' = [seenOffer EXCEPT ![t] = None]
    /\ UNCHANGED <<seenListing, seenPosted, seenEarned>>

\* One event per recipient whose amount is positive.
emit_royalty_paid(t, price) ==
    seenEarned' = [a \in Address |-> seenEarned[a] + DueTo(Dues(t, price), a)]

\* A sale closes the listing or the offer it settles, and not the other.
emit_nft_sold(t) ==
    /\ seenListing' = [seenListing EXCEPT ![t] = None]
    /\ emit_royalty_paid(t, activeListing[t].deal.price)
    /\ UNCHANGED <<seenPosted, seenOffer>>

emit_offer_accepted(t) ==
    /\ seenOffer' = [seenOffer EXCEPT ![t] = None]
    /\ emit_royalty_paid(t, offer[t].deal.price)
    /\ UNCHANGED <<seenListing, seenPosted>>

-----------------------------------------------------------------------------
ListOrOfferTold ==
    \E c \in Caller, t \in TokenId :
        \/ \E deal \in Deals :
               \/ list_nft(c, t, deal) /\ emit_nft_listed(t, c, deal)
               \/ create_listing(c, t, deal) /\ emit_listing_created(t, c, deal)
               \/ make_offer(c, t, deal) /\ emit_offer_made(t, c, deal)
        \/ \E price \in Prices, expiration \in Time :
               /\ update_listing(c, t, price, expiration)
               /\ emit_listing_updated(t, price, expiration)
        \/ cancel_listing(c, t) /\ emit_listing_cancelled(t)
        \/ cancel_offer(c, t) /\ emit_offer_cancelled(t)

TradeTold ==
    \E c \in Caller, t \in TokenId :
        \/ buy_listing(c, t) /\ emit_nft_sold(t)
        \/ accept_offer(c, t) /\ emit_offer_accepted(t)

PaymentTold ==
    \E payer \in Address, t \in TokenId, price \in Prices :
        /\ pay_royalty(payer, t, price)
        /\ emit_royalty_paid(t, price)
        /\ UNCHANGED <<seenListing, seenPosted, seenOffer>>

\* Steps that tell the market's reader nothing.
Untold ==
    \/ TermsStep /\ UNCHANGED marketVars
    \/ \E disabled \in BOOLEAN : set_royalty_payments_disabled(disabled)
    \/ Tick

MarketEventNext ==
    \/ ListOrOfferTold
    \/ TradeTold
    \/ PaymentTold
    \/ Untold /\ UNCHANGED marketSeen

MarketEventSpec ==
    LedgerInit /\ TermsInit /\ MarketInit /\ MarketSeenInit /\ [][MarketEventNext]_marketEventVars

-----------------------------------------------------------------------------
(* Properties *)

\* A record without the fields an event does not carry.
Listed(l) == IF l = None THEN None ELSE [seller |-> l.seller, deal |-> l.deal]
Posted(l) == IF l = None THEN None
             ELSE [seller |-> l.seller, price |-> l.deal.price, asset |-> l.deal.asset]

\* Who follows the events knows the market without a look at storage: which
\* listings and offers are open, whose, at what price and until when, and what
\* every recipient has earned, through updates, sales by either table and
\* payments outside a sale.
ReaderKnowsMarket ==
    /\ seenListing = [t \in TokenId |-> Listed(activeListing[t])]
    /\ seenPosted = [t \in TokenId |-> Posted(listing[t])]
    /\ seenOffer = offer
    /\ seenEarned = creatorEarnings
=============================================================================
