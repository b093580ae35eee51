------------------------- MODULE MarketplaceProofs -------------------------
(***************************************************************************)
(* The market for every set of accounts, assets, tokens, terms and prices. *)
(* Its steps are steps of the ledger and of the terms, so what is proved   *)
(* of them holds in it; listing ids are unique and the index of offers     *)
(* exact; the totals agree with the histories, and a sale takes from the   *)
(* buyer no more than the price and leaves the owner the rest of it.       *)
(***************************************************************************)
EXTENDS Marketplace, LedgerProofs, RoyaltyMathProofs

\* What is proved of the market by induction.  The types of the listings and the
\* offers are needed for who their sellers and buyers are: accounts that signed.
ListingsInv ==
    /\ activeListing \in [TokenId -> ListingType \cup {None}]
    /\ nextListingId \in Nat \ {0}
    /\ ListingIdsAreUnique

OffersInv ==
    /\ offer \in [TokenId -> OfferType \cup {None}]
    /\ OfferIndexIsExact

MarketInv == ListingsInv /\ OffersInv

-----------------------------------------------------------------------------
(* The steps that list or offer *)

ListingFrame == UNCHANGED <<ledgerVars, termsVars, now, paymentVars, paymentsDisabled>>

\* Listings and offers move no token and no money, and an offer is made or removed
\* through its index or left alone.
LEMMA ListOrOfferCases ==
    ASSUME ListOrOffer
    PROVE  /\ ListingFrame
           /\ \/ UNCHANGED offerVars
              \/ \E t \in TokenId : remove_offer(t)
              \/ \E c \in Caller, t \in TokenId, deal \in Deals : make_offer(c, t, deal)
<1>1. ASSUME NEW c \in Caller, NEW t \in TokenId, NEW deal \in Deals,
             list_nft(c, t, deal) \/ create_listing(c, t, deal)
      PROVE  ListingFrame /\ UNCHANGED offerVars
  BY <1>1 DEF list_nft, create_listing, ListingFrame
<1>2. ASSUME NEW c \in Caller, NEW t \in TokenId, NEW deal \in Deals, make_offer(c, t, deal)
      PROVE  ListingFrame
  BY <1>2 DEF make_offer, ListingFrame
<1>3. ASSUME NEW c \in Caller, NEW t \in TokenId, NEW price \in Prices,
             NEW expiration \in Time, update_listing(c, t, price, expiration)
      PROVE  ListingFrame /\ UNCHANGED offerVars
  BY <1>3 DEF update_listing, ListingFrame
<1>4. ASSUME NEW c \in Caller, NEW t \in TokenId, cancel_listing(c, t)
      PROVE  ListingFrame /\ UNCHANGED offerVars
  BY <1>4 DEF cancel_listing, ListingFrame
<1>5. ASSUME NEW c \in Caller, NEW t \in TokenId, cancel_offer(c, t)
      PROVE  ListingFrame /\ remove_offer(t)
  BY <1>5 DEF cancel_offer, ListingFrame
<1>6. QED
  BY <1>1, <1>2, <1>3, <1>4, <1>5 DEF ListOrOffer

-----------------------------------------------------------------------------
(* Sales *)

\* The common part of a sale is a sale of the ledger, if the seller is an account.
LEMMA SettleIsSale ==
    ASSUME NEW buyer \in Caller, NEW seller \in Caller, NEW t \in TokenId, NEW deal,
           Settle(buyer, seller, t, deal),
           ~paused, t \notin frozen, {buyer, seller} \cap blacklisted = {},
           seller # buyer
    PROVE  settle_sale(buyer, t) /\ UNCHANGED termsVars
<1>1. tokenOwner[t] = seller /\ seller # None
  BY LedgerAssumption DEF Settle, verify_owner, Caller
<1>2. QED
  BY <1>1 DEF Settle, settle_sale

\* The seller of a listing, and the buyer of an offer, are accounts.
LEMMA TradeIsSale ==
    ASSUME MarketInv, Trade
    PROVE  \E buyer \in Caller, t \in TokenId : settle_sale(buyer, t) /\ UNCHANGED termsVars
<1> USE DEF MarketInv, ListingsInv, OffersInv, ListingType, OfferType
<1>1. ASSUME NEW c \in Caller, NEW t \in TokenId, buy_listing(c, t)
      PROVE  settle_sale(c, t) /\ UNCHANGED termsVars
  <2>1. activeListing[t].seller \in Caller
    BY <1>1 DEF buy_listing
  <2>2. QED
    BY <1>1, <2>1, SettleIsSale DEF buy_listing
<1>2. ASSUME NEW c \in Caller, NEW t \in TokenId, accept_offer(c, t)
      PROVE  offer[t].buyer \in Caller
             /\ settle_sale(offer[t].buyer, t) /\ UNCHANGED termsVars
  <2>1. offer[t].buyer \in Caller
    BY <1>2 DEF accept_offer
  <2>2. QED
    BY <1>2, <2>1, SettleIsSale DEF accept_offer
<1>3. QED
  BY <1>1, <1>2 DEF Trade

\* Every step of the market is one of the terms, hence of the ledger.
LEMMA MarketStepsTerms ==
    MarketInv /\ [MarketNext]_allVars => [TermsNext]_termsLedgerVars
<1> SUFFICES ASSUME MarketInv, [MarketNext]_allVars PROVE [TermsNext]_termsLedgerVars
  OBVIOUS
<1>1. CASE UNCHANGED allVars
  BY <1>1 DEF allVars, termsLedgerVars
<1>2. CASE TermsStep
  BY <1>2 DEF TermsNext
<1>3. CASE Trade
  BY <1>3, TradeIsSale DEF TermsNext
<1>4. CASE ListOrOffer
  BY <1>4, ListOrOfferCases DEF ListingFrame, termsLedgerVars
<1>5. ASSUME NEW payer \in Address, NEW t \in TokenId, NEW price \in Prices,
             pay_royalty(payer, t, price)
      PROVE  UNCHANGED termsLedgerVars
  BY <1>5 DEF pay_royalty, termsLedgerVars
<1>6. ASSUME NEW disabled \in BOOLEAN, set_royalty_payments_disabled(disabled)
      PROVE  UNCHANGED termsLedgerVars
  BY <1>6 DEF set_royalty_payments_disabled, termsLedgerVars
<1>7. CASE Tick
  BY <1>7 DEF Tick, termsLedgerVars
<1>8. QED
  BY <1>1, <1>2, <1>3, <1>4, <1>5, <1>6, <1>7 DEF MarketNext

-----------------------------------------------------------------------------
(* Listings *)

\* The counter is advanced by whatever adds a listing, past the id it gets.
LEMMA ListingsStep == ListingsInv /\ [MarketNext]_allVars => ListingsInv'
<1> SUFFICES ASSUME ListingsInv, [MarketNext]_allVars PROVE ListingsInv'
  OBVIOUS
<1> USE MarketAssumption DEF ListingsInv, ListingIdsAreUnique
<1>1. CASE UNCHANGED <<activeListing, nextListingId>>
  BY <1>1
<1>2. CASE UNCHANGED activeListing /\ generate_listing_id
  BY <1>2 DEF generate_listing_id, ListingType
<1>3. ASSUME NEW t \in TokenId,
             activeListing' = [activeListing EXCEPT ![t] = None], UNCHANGED nextListingId
      PROVE  ListingsInv'
  BY <1>3
<1>4. ASSUME NEW c \in Caller, NEW t \in TokenId, NEW deal \in Deals,
             create_listing(c, t, deal)
      PROVE  ListingsInv'
  <2> DEFINE l == [id |-> nextListingId, seller |-> c, deal |-> deal]
  <2>1. /\ activeListing' = [activeListing EXCEPT ![t] = l]
        /\ nextListingId' = nextListingId + 1
        /\ nextListingId <= MaxListings
    BY <1>4 DEF create_listing, generate_listing_id
  <2>2. deal \in DealType
    BY <1>4 DEF create_listing, validate_listing, ValidDeal, ValidPrice, Deals, DealType
  <2>3. l \in ListingType /\ l.id = nextListingId
    BY <2>1, <2>2 DEF ListingType
  <2> HIDE DEF l
  <2>4. QED
    BY <2>1, <2>3 DEF ListingType
<1>5. ASSUME NEW c \in Caller, NEW t \in TokenId, NEW price \in Prices,
             NEW expiration \in Time, update_listing(c, t, price, expiration)
      PROVE  ListingsInv'
  <2>1. PICK deal \in DealType :
            activeListing' = [activeListing EXCEPT ![t].deal = deal]
    BY <1>5 DEF update_listing, ValidPrice, DealType, ListingType
  <2>2. /\ activeListing[t] \in ListingType
        /\ UNCHANGED nextListingId
    BY <1>5 DEF update_listing, listingVars
  <2> DEFINE l == [activeListing[t] EXCEPT !.deal = deal]
  <2>3. l \in ListingType /\ l.id = activeListing[t].id
    BY <2>2 DEF ListingType
  <2>4. activeListing' = [activeListing EXCEPT ![t] = l]
    BY <2>1
  <2> HIDE DEF l
  <2>5. QED
    BY <2>2, <2>3, <2>4
<1>6. CASE ListOrOffer
  BY <1>1, <1>2, <1>3, <1>4, <1>5, <1>6 DEF ListOrOffer, list_nft, make_offer,
     cancel_listing, cancel_offer, listingVars
<1>7. CASE Trade
  BY <1>1, <1>3, <1>7 DEF Trade, buy_listing, accept_offer, listingVars
<1>8. QED
  BY <1>1, <1>6, <1>7 DEF MarketNext, marketVars, allVars, listingVars, pay_royalty,
     set_royalty_payments_disabled, Tick

-----------------------------------------------------------------------------
(* Offers *)

\* An offer and its entry in the index are written and removed together.
LEMMA OffersStep == OffersInv /\ [MarketNext]_allVars => OffersInv'
<1> SUFFICES ASSUME OffersInv, [MarketNext]_allVars PROVE OffersInv'
  OBVIOUS
<1> USE MarketAssumption DEF OffersInv, OfferIndexIsExact
<1>1. CASE UNCHANGED offerVars
  BY <1>1 DEF offerVars
<1>2. ASSUME NEW t \in TokenId, remove_offer(t) PROVE OffersInv'
  BY <1>2 DEF remove_offer
<1>3. ASSUME NEW c \in Caller, NEW t \in TokenId, NEW deal \in Deals,
             make_offer(c, t, deal)
      PROVE  OffersInv'
  <2> DEFINE o == [buyer |-> c, deal |-> deal]
  <2>1. deal \in DealType
    BY <1>3 DEF make_offer, ValidDeal, ValidPrice, Deals, DealType
  <2>2. o \in OfferType /\ o # None
    BY <2>1 DEF OfferType
  <2>3. offer' = [offer EXCEPT ![t] = o] /\ offerIndex' = offerIndex \cup {t}
    BY <1>3 DEF make_offer, save_offer
  <2> HIDE DEF o
  <2>4. QED
    BY <2>2, <2>3
<1>4. CASE ListOrOffer
  BY <1>1, <1>2, <1>3, <1>4, ListOrOfferCases
<1>5. CASE Trade
  BY <1>1, <1>2, <1>5 DEF Trade, buy_listing, accept_offer
<1>6. QED
  BY <1>1, <1>4, <1>5 DEF MarketNext, marketVars, allVars, pay_royalty,
     set_royalty_payments_disabled, Tick

-----------------------------------------------------------------------------
(* The loops over the recipients *)

\* FoldLeft takes the elements of a sequence from the largest index down.
LEMMA LastIndex ==
    ASSUME NEW n \in Nat
    PROVE  \A S \in SUBSET (1 .. n) : S # {} => Max(S) \in S /\ \A y \in S : y <= Max(S)
<1> DEFINE K == {k \in 0 .. n : \A S \in SUBSET (1 .. k) :
                                    S # {} => \E x \in S : \A y \in S : x >= y}
<1>1. 0 \in K
  <2>1. \A S \in SUBSET (1 .. 0) : S = {}
    OBVIOUS
  <2>2. 0 \in 0 .. n
    OBVIOUS
  <2> HIDE DEF K
  <2>3. QED
    BY <2>1, <2>2 DEF K
<1>2. ASSUME NEW k \in 0 .. n, k < n, k \in K PROVE k + 1 \in K
  <2>1. ASSUME NEW S \in SUBSET (1 .. k + 1), S # {}
        PROVE  \E x \in S : \A y \in S : x >= y
    <3>1. CASE k + 1 \in S
      BY <3>1
    <3>2. CASE k + 1 \notin S
      <4>1. S \in SUBSET (1 .. k)
        BY <3>2
      <4>2. QED
        BY <1>2, <2>1, <4>1
    <3>3. QED
      BY <3>1, <3>2
  <2>2. QED
    BY <1>2, <2>1
<1>3. n \in K
  <2> HIDE DEF K
  <2>1. 0 .. n \subseteq K
    BY <1>1, <1>2, UpTo
  <2>2. QED
    BY <2>1
<1>4. ASSUME NEW S \in SUBSET (1 .. n), S # {}
      PROVE  Max(S) \in S /\ \A y \in S : y <= Max(S)
  <2>1. \E x \in S : \A y \in S : x >= y
    BY <1>3, <1>4
  <2>2. PICK m : m = Max(S)
    OBVIOUS
  <2>3. m \in S /\ \A y \in S : m >= y
    BY <2>1, <2>2 DEF Max
  <2>4. QED
    BY <2>2, <2>3
<1>5. QED
  BY <1>4

LEMMA PrefixIsPart ==
    ASSUME NEW n \in Nat, NEW k \in 1 .. n
    PROVE  1 .. k \in SUBSET (1 .. n) /\ 1 .. k # {} /\ k - 1 \in 0 .. n /\ k \in 0 .. n
<1>1. \A i \in 1 .. k : i \in 1 .. n
  OBVIOUS
<1>2. 1 \in 1 .. k
  OBVIOUS
<1>3. QED
  BY <1>1, <1>2

LEMMA LastOfPrefix ==
    ASSUME NEW n \in Nat, NEW k \in 1 .. n
    PROVE  Max(1 .. k) = k /\ (1 .. k) \ {k} = 1 .. k - 1
<1>1. Max(1 .. k) \in 1 .. k /\ k <= Max(1 .. k)
  <2>1. 1 .. k \in SUBSET (1 .. n) /\ k \in 1 .. k
    OBVIOUS
  <2>2. QED
    BY <2>1, LastIndex
<1>2. QED
  BY <1>1

\* A fold stays in a set that its steps do not leave.
LEMMA FoldStays ==
    ASSUME NEW D, IsFiniteSet(D), NEW V, NEW base \in V, NEW F,
           \A x \in D, v \in V : F[x][v] \in V, NEW pick,
           \A S \in SUBSET D : S # {} => pick[S] \in S,
           NEW g, Folds(g, D, base, F, pick)
    PROVE  \A S \in SUBSET D : g[S] \in V
<1> DEFINE in == {S \in SUBSET D : g[S] \in V}
<1>1. ASSUME NEW S \in SUBSET D, \A T \in SUBSET D : T \subseteq S /\ T # S => T \in in
      PROVE  S \in in
  <2>1. CASE S = {}
    BY <2>1 DEF Folds
  <2>2. CASE S # {}
    <3>1. PICK p \in S : p = pick[S]
      BY <2>2
    <3>2. S \ {p} \in in
      BY <1>1
    <3>3. g[S] = F[p][g[S \ {p}]]
      BY <2>2, <3>1 DEF Folds
    <3>4. QED
      BY <3>2, <3>3
  <2>3. QED
    BY <2>1, <2>2
<1> HIDE DEF in
<1>2. \A S \in SUBSET D : S \in in
  BY <1>1, UpToWhole
<1>3. QED
  BY <1>2 DEF in

\* g is the fold of F over the indices 1 .. n, and stays in V.
FoldsIndices(g, n, V, base, F) ==
    /\ \A S \in SUBSET (1 .. n) : g[S] \in V
    /\ g = [S \in SUBSET (1 .. n) |->
               IF S = {} THEN base ELSE F[Max(S)][g[S \ {Max(S)}]]]

LEMMA FoldOfIndices ==
    ASSUME NEW n \in Nat, NEW V, NEW base \in V, NEW F,
           \A i \in 1 .. n, v \in V : F[i][v] \in V
    PROVE  \E g : FoldsIndices(g, n, V, base, F)
<1> DEFINE D == 1 .. n
           pick == [S \in SUBSET D |-> Max(S)]
<1>1. IsFiniteSet(D)
  BY FS_Interval
<1>2. \A S \in SUBSET D : S # {} => pick[S] \in S
  BY LastIndex
<1>3. \A i \in D, v \in V : F[i][v] \in V
  OBVIOUS
<1>4. PICK g : Folds(g, D, base, F, pick)
  <2> HIDE DEF D, pick
  <2>1. QED
    BY <1>1, <1>2, FoldExists
<1>5. \A S \in SUBSET D : g[S] \in V
  <2> HIDE DEF D, pick
  <2>1. QED
    BY <1>1, <1>2, <1>3, <1>4, FoldStays
<1>6. g = [S \in SUBSET D |-> IF S = {} THEN base ELSE F[pick[S]][g[S \ {pick[S]}]]]
  BY <1>4 DEF Folds
<1>7. \A S \in SUBSET D : pick[S] = Max(S)
  OBVIOUS
<1>8. g = [S \in SUBSET D |-> IF S = {} THEN base ELSE F[Max(S)][g[S \ {Max(S)}]]]
  <2> HIDE DEF D, pick
  <2>1. QED
    BY <1>6, <1>7
<1>9. FoldsIndices(g, n, V, base, F)
  BY <1>5, <1>8 DEF FoldsIndices
<1>10. QED
  BY <1>9

\* Dues takes the recipients one by one: h[k] are the dues to the first k.
DueInOrder(h, n, t, price) ==
    /\ h[0] = << >> /\ h[n] = Dues(t, price)
    /\ \A k \in 1 .. n :
           LET due == Due(price, royalty[t].recipients[k])
           IN  h[k] = IF due.amount > 0 THEN Append(h[k - 1], due) ELSE h[k - 1]

LEMMA DuesInOrder ==
    ASSUME NEW t, NEW price, NEW n \in Nat, DOMAIN royalty[t].recipients = 1 .. n
    PROVE  \E h : DueInOrder(h, n, t, price)
<1> DEFINE r == royalty[t].recipients
           D == 1 .. n
           Step(i, v) == IF Due(price, r[i]).amount > 0 THEN Append(v, Due(price, r[i])) ELSE v
           Fold(g) == g = [S \in SUBSET D |-> IF S = {} THEN << >>
                                              ELSE Step(Max(S), g[S \ {Max(S)}])]
<1>1. Dues(t, price) = (CHOOSE g : Fold(g))[D]
  BY DEF Dues, FoldLeft, MapThenFoldSet
<1>2. \E g : Fold(g)
  <2> DEFINE V == Seq({Due(price, r[i]) : i \in D})
             F == [i \in D |-> [v \in V |-> Step(i, v)]]
  <2>1. << >> \in V /\ \A i \in D, v \in V : F[i][v] = Step(i, v) /\ F[i][v] \in V
    OBVIOUS
  <2>2. PICK g : /\ \A S \in SUBSET D : g[S] \in V
                 /\ g = [S \in SUBSET D |-> IF S = {} THEN << >>
                                             ELSE F[Max(S)][g[S \ {Max(S)}]]]
    <3> HIDE DEF V, F, Step
    <3>1. PICK none \in V : none = << >>
      BY <2>1
    <3>2. \A i \in 1 .. n, v \in V : F[i][v] \in V
      BY <2>1
    <3>3. PICK g : FoldsIndices(g, n, V, none, F)
      BY <3>1, <3>2, FoldOfIndices
    <3>4. QED
      BY <3>1, <3>3 DEF FoldsIndices
  <2>3. \A S \in SUBSET D : S # {} => Max(S) \in D /\ S \ {Max(S)} \in SUBSET D
    BY LastIndex
  <2>4. \A S \in SUBSET D : S # {} => F[Max(S)][g[S \ {Max(S)}]] = Step(Max(S), g[S \ {Max(S)}])
    <3> HIDE DEF V, F, Step
    <3>1. QED
      BY <2>1, <2>2, <2>3
  <2>5. Fold(g)
    <3> HIDE DEF V, F, Step
    <3>1. QED
      BY <2>2, <2>4
  <2>6. QED
    BY <2>5
<1>3. PICK g : Fold(g) /\ Dues(t, price) = g[D]
  BY <1>1, <1>2
<1> DEFINE h == [k \in 0 .. n |-> g[1 .. k]]
<1>4. h[0] = << >>
  <2>1. 1 .. 0 = {} /\ 1 .. 0 \in SUBSET D
    OBVIOUS
  <2>2. QED
    BY <1>3, <2>1
<1>5. ASSUME NEW k \in 1 .. n PROVE h[k] = Step(k, h[k - 1])
  <2>1. 1 .. k \in SUBSET D /\ 1 .. k # {} /\ k - 1 \in 0 .. n /\ k \in 0 .. n
    BY PrefixIsPart
  <2>2. Max(1 .. k) = k /\ (1 .. k) \ {k} = 1 .. k - 1
    BY LastOfPrefix
  <2>3. g[1 .. k] = Step(k, g[1 .. k - 1])
    <3> HIDE DEF Step
    <3>1. QED
      BY <1>3, <2>1, <2>2
  <2>4. QED
    BY <2>1, <2>3
<1>6. h[n] = Dues(t, price)
  <2>1. n \in 0 .. n
    OBVIOUS
  <2>2. QED
    BY <1>3, <2>1
<1> HIDE DEF h
<1>7. DueInOrder(h, n, t, price)
  BY <1>4, <1>5, <1>6 DEF DueInOrder
<1>8. QED
  BY <1>7

-----------------------------------------------------------------------------
(* Payments *)

Funded == [Asset -> [Address -> Nat]]
FundedOrNot == Funded \cup {None}

\* What an account holds over all assets, in given funds.
Worth(funds, a) == SumOf([x \in Asset |-> funds[x][a]])

\* A payment that goes through rewrites the row of its asset.
LEMMA PaidIs ==
    ASSUME NEW funds \in FundedOrNot, NEW x \in Asset, NEW from \in Address,
           NEW to \in Address, NEW n \in Nat, NEW after, after = Paid(funds, x, from, to, n),
           after # None
    PROVE  /\ funds \in Funded /\ after \in Funded
           /\ \A y \in Asset : y # x => after[y] = funds[y]
           /\ \A a \in Address : after[x][a] = funds[x][a] - (IF a = from THEN n ELSE 0)
                                                           + (IF a = to THEN n ELSE 0)
<1>1. CASE n = 0
  <2>1. after = funds /\ funds \in Funded
    BY <1>1 DEF Paid, FundedOrNot
  <2>2. \A a \in Address : funds[x][a] \in Nat
    BY <2>1 DEF Funded
  <2>3. QED
    BY <1>1, <2>1, <2>2
<1>2. CASE n # 0
  <2>1. /\ funds \in Funded /\ n <= funds[x][from]
        /\ after = [[funds EXCEPT ![x][from] = @ - n] EXCEPT ![x][to] = @ + n]
    <3>1. n <= 0 <=> FALSE
      BY <1>2
    <3>2. funds # None /\ ~(funds[x][from] < n)
      BY <3>1 DEF Paid
    <3>3. funds \in Funded
      BY <3>2 DEF FundedOrNot
    <3>4. funds[x][from] \in Nat
      BY <3>3 DEF Funded
    <3>5. QED
      BY <3>1, <3>2, <3>3, <3>4 DEF Paid
  <2>2. PICK row \in [Address -> Nat] : row = funds[x]
    BY <2>1 DEF Funded
  <2>3. row[from] - n \in Nat
    BY <2>1, <2>2
  <2>4. PICK row1 \in [Address -> Nat] : row1 = [row EXCEPT ![from] = @ - n]
    BY <2>3
  <2>5. PICK row2 \in [Address -> Nat] : row2 = [row1 EXCEPT ![to] = @ + n]
    <3>1. row1[to] + n \in Nat
      OBVIOUS
    <3>2. QED
      BY <3>1
  <2>6. after = [funds EXCEPT ![x] = row2]
    <3>1. PICK debited : debited = [funds EXCEPT ![x][from] = @ - n]
      OBVIOUS
    <3>2. after = [debited EXCEPT ![x][to] = @ + n]
      BY <2>1, <3>1
    <3>3. debited = [funds EXCEPT ![x] = row1]
      BY <2>2, <2>4, <3>1
    <3>4. DOMAIN funds = Asset
      BY <2>1 DEF Funded
    <3>5. QED
      BY <2>5, <3>2, <3>3, <3>4
  <2>7. after \in Funded /\ after[x] = row2 /\ \A y \in Asset : y # x => after[y] = funds[y]
    BY <2>1, <2>6 DEF Funded
  <2>8. \A a \in Address : row2[a] = row[a] - (IF a = from THEN n ELSE 0)
                                            + (IF a = to THEN n ELSE 0)
    BY <2>4, <2>5
  <2>9. QED
    BY <2>1, <2>2, <2>7, <2>8
<1>3. QED
  BY <1>1, <1>2

LEMMA PaidStays ==
    ASSUME NEW funds \in FundedOrNot, NEW x \in Asset, NEW from \in Address,
           NEW to \in Address, NEW n \in Int
    PROVE  Paid(funds, x, from, to, n) \in FundedOrNot
<1>1. CASE n <= 0
  BY <1>1 DEF Paid
<1>2. CASE n > 0
  <2>1. PICK after : after = Paid(funds, x, from, to, n)
    OBVIOUS
  <2>2. after # None => after \in Funded
    BY <1>2, <2>1, PaidIs
  <2>3. QED
    BY <2>1, <2>2 DEF FundedOrNot
<1>3. QED
  BY <1>1, <1>2

\* One account's holdings of one asset change, the others' stay.
LEMMA WorthChanges ==
    ASSUME NEW funds \in Funded, NEW after \in Funded, NEW x \in Asset, NEW a \in Address,
           \A y \in Asset : y # x => after[y] = funds[y]
    PROVE  /\ Worth(funds, a) \in Nat /\ Worth(after, a) \in Nat
           /\ Worth(after, a) = Worth(funds, a) - funds[x][a] + after[x][a]
<1> DEFINE w == [y \in Asset |-> funds[y][a]]
           u == [y \in Asset |-> after[y][a]]
<1>1. w \in [Asset -> Nat] /\ u \in [Asset -> Nat] /\ IsFiniteSet(Asset)
  BY MarketAssumption DEF Funded
<1>2. w \in [Asset -> Int] /\ u[x] \in Int /\ w[x] = funds[x][a] /\ u[x] = after[x][a]
  BY <1>1
<1>3. u = [w EXCEPT ![x] = u[x]]
  OBVIOUS
<1>4. SumOf(w) = Worth(funds, a) /\ SumOf(u) = Worth(after, a)
  BY DEF Worth
<1> HIDE DEF u, w
<1>5. SumOf(w) \in Nat /\ SumOf(u) \in Nat
  BY <1>1, SumOfNats
<1>6. PICK v \in Int : v = u[x]
  BY <1>2
<1>7. SumOf([w EXCEPT ![x] = v]) = SumOf(w) - w[x] + v
  BY <1>1, <1>2, SumChanges
<1>8. QED
  BY <1>2, <1>3, <1>4, <1>5, <1>6, <1>7

\* A payment takes the amount from the payer and gives it to the payee.
LEMMA PaidMoves ==
    ASSUME NEW funds \in FundedOrNot, NEW x \in Asset, NEW from \in Address,
           NEW to \in Address, NEW n \in Nat, NEW after, after = Paid(funds, x, from, to, n),
           after # None
    PROVE  /\ funds \in Funded /\ after \in Funded
           /\ \A a \in Address :
                  /\ Worth(funds, a) \in Nat /\ Worth(after, a) \in Nat
                  /\ Worth(after, a) =
                         Worth(funds, a) - (IF a = from THEN n ELSE 0)
                                         + (IF a = to THEN n ELSE 0)
<1>1. /\ funds \in Funded /\ after \in Funded
      /\ \A y \in Asset : y # x => after[y] = funds[y]
      /\ \A a \in Address : after[x][a] = funds[x][a] - (IF a = from THEN n ELSE 0)
                                                      + (IF a = to THEN n ELSE 0)
  BY PaidIs
<1>2. ASSUME NEW a \in Address
      PROVE  /\ Worth(funds, a) \in Nat /\ Worth(after, a) \in Nat
             /\ Worth(after, a) = Worth(funds, a) - (IF a = from THEN n ELSE 0)
                                                  + (IF a = to THEN n ELSE 0)
  <2>1. /\ Worth(funds, a) \in Nat /\ Worth(after, a) \in Nat
        /\ Worth(after, a) = Worth(funds, a) - funds[x][a] + after[x][a]
    BY <1>1, WorthChanges
  <2>2. funds[x][a] \in Nat
    BY <1>1 DEF Funded
  <2>3. QED
    BY <1>1, <2>1, <2>2
<1>3. QED
  BY <1>1, <1>2

\* RoyaltiesPaid pays the dues one by one: h[k] are the funds after the first k.
PaidInOrder(h, n, payer, t, price) ==
    /\ h[0] = balance /\ h[n] = RoyaltiesPaid(payer, t, price)
    /\ \A k \in 0 .. n : h[k] \in FundedOrNot
    /\ \A k \in 1 .. n :
           h[k] = Paid(h[k - 1], royalty[t].asset, payer, Dues(t, price)[k].who,
                       Dues(t, price)[k].amount)

LEMMA PaymentsInOrder ==
    ASSUME NEW payer \in Address, NEW t, NEW price, NEW n \in Nat, balance \in Funded,
           DOMAIN Dues(t, price) = 1 .. n,
           n # 0 => royalty[t].asset \in Asset,
           \A k \in 1 .. n : /\ Dues(t, price)[k].who \in Address
                             /\ Dues(t, price)[k].amount \in Int
    PROVE  \E h : PaidInOrder(h, n, payer, t, price)
<1> DEFINE d == Dues(t, price)
           D == 1 .. n
           Step(i, v) == Paid(v, royalty[t].asset, payer, d[i].who, d[i].amount)
           Fold(g) == g = [S \in SUBSET D |-> IF S = {} THEN balance
                                              ELSE Step(Max(S), g[S \ {Max(S)}])]
<1>1. RoyaltiesPaid(payer, t, price) = (CHOOSE g : Fold(g))[D]
  BY DEF RoyaltiesPaid, FoldLeft, MapThenFoldSet
<1>2. balance \in FundedOrNot
  BY DEF FundedOrNot
<1>3. \A i \in D, v \in FundedOrNot : Step(i, v) \in FundedOrNot
  BY PaidStays
<1>4. \A S \in SUBSET D : S # {} => Max(S) \in D /\ S \ {Max(S)} \in SUBSET D
  BY LastIndex
<1>5. \E g : Fold(g)
  <2> DEFINE F == [i \in D |-> [v \in FundedOrNot |-> Step(i, v)]]
  <2>1. \A i \in D, v \in FundedOrNot : F[i][v] = Step(i, v)
    <3> HIDE DEF Step, D
    <3>1. ASSUME NEW i \in D
          PROVE  F[i] = [v \in FundedOrNot |-> Step(i, v)]
      OBVIOUS
    <3> HIDE DEF F
    <3>2. QED
      BY <3>1
  <2>2. \A i \in 1 .. n, v \in FundedOrNot : F[i][v] \in FundedOrNot
    BY <1>3, <2>1
  <2> HIDE DEF F, Step
  <2>3. PICK g : FoldsIndices(g, n, FundedOrNot, balance, F)
    BY <1>2, <2>2, FoldOfIndices
  <2>4. \A S \in SUBSET D : S # {} =>
            F[Max(S)][g[S \ {Max(S)}]] = Step(Max(S), g[S \ {Max(S)}])
    BY <1>4, <2>1, <2>3 DEF FoldsIndices
  <2>5. Fold(g)
    BY <2>3, <2>4 DEF FoldsIndices
  <2>6. QED
    BY <2>5
<1>6. PICK g : Fold(g) /\ RoyaltiesPaid(payer, t, price) = g[D]
  BY <1>1, <1>5
<1> DEFINE h == [k \in 0 .. n |-> g[1 .. k]]
<1>7. h[0] = balance
  <2>1. 1 .. 0 = {} /\ 1 .. 0 \in SUBSET D
    OBVIOUS
  <2>2. QED
    BY <1>6, <2>1
<1>8. ASSUME NEW k \in 1 .. n PROVE h[k] = Step(k, h[k - 1])
  <2>1. 1 .. k \in SUBSET D /\ 1 .. k # {} /\ k - 1 \in 0 .. n /\ k \in 0 .. n
    BY PrefixIsPart
  <2>2. Max(1 .. k) = k /\ (1 .. k) \ {k} = 1 .. k - 1
    BY LastOfPrefix
  <2>3. g[1 .. k] = Step(k, g[1 .. k - 1])
    <3> HIDE DEF Step
    <3>1. QED
      BY <1>6, <2>1, <2>2
  <2>4. QED
    BY <2>1, <2>3
<1>9. h[n] = RoyaltiesPaid(payer, t, price)
  <2>1. n \in 0 .. n
    OBVIOUS
  <2>2. QED
    BY <1>6, <2>1
<1> HIDE DEF h
<1>10. \A k \in 0 .. n : h[k] \in FundedOrNot
  <2> DEFINE K == {k \in 0 .. n : h[k] \in FundedOrNot}
  <2>1. 0 \in K
    BY <1>2, <1>7
  <2>2. ASSUME NEW k \in 0 .. n, k < n, k \in K PROVE k + 1 \in K
    <3>1. k + 1 \in 1 .. n /\ (k + 1) - 1 = k /\ k + 1 \in 0 .. n
      BY <2>2
    <3>2. h[k + 1] = Step(k + 1, h[k])
      <4> HIDE DEF Step
      <4>1. QED
        BY <1>8, <3>1
    <3>3. Step(k + 1, h[k]) \in FundedOrNot
      BY <1>3, <2>2, <3>1
    <3>4. QED
      BY <3>1, <3>2, <3>3
  <2>3. 0 .. n \subseteq K
    <3> HIDE DEF K
    <3>1. QED
      BY <2>1, <2>2, UpTo
  <2>4. QED
    BY <2>3
<1>11. PaidInOrder(h, n, payer, t, price)
  BY <1>7, <1>8, <1>9, <1>10 DEF PaidInOrder
<1>12. QED
  BY <1>11

\* The royalties cost the payer at most the dues, and nobody else anything.
LEMMA RoyaltiesMove ==
    ASSUME NEW payer \in Address, NEW t, NEW price, NEW n \in Nat, balance \in Funded,
           DOMAIN Dues(t, price) = 1 .. n,
           n # 0 => royalty[t].asset \in Asset,
           \A k \in 1 .. n : /\ Dues(t, price)[k].who \in Address
                             /\ Dues(t, price)[k].amount \in Nat,
           RoyaltiesPaid(payer, t, price) # None
    PROVE  /\ RoyaltiesPaid(payer, t, price) \in Funded
           /\ DueTotal(Dues(t, price)) \in Nat
           /\ \A a \in Address :
                  /\ Worth(balance, a) \in Nat
                  /\ Worth(RoyaltiesPaid(payer, t, price), a) \in Nat
                  /\ Worth(RoyaltiesPaid(payer, t, price), a) >=
                         Worth(balance, a) - IF a = payer THEN DueTotal(Dues(t, price)) ELSE 0
<1> DEFINE d == Dues(t, price)
           Spent(k) == SumOf([i \in 1 .. k |-> d[i].amount])
<1>0. PICK h : PaidInOrder(h, n, payer, t, price)
  <2>1. \A k \in 1 .. n : Dues(t, price)[k].who \in Address /\ Dues(t, price)[k].amount \in Int
    OBVIOUS
  <2>2. QED
    BY <2>1, PaymentsInOrder
<1>1. /\ h[0] = balance /\ h[n] = RoyaltiesPaid(payer, t, price)
      /\ \A k \in 0 .. n : h[k] \in FundedOrNot
      /\ \A k \in 1 .. n :
             h[k] = Paid(h[k - 1], royalty[t].asset, payer, d[k].who, d[k].amount)
  BY <1>0 DEF PaidInOrder
<1>2. \A k \in 0 .. n : Spent(k) \in Nat
  <2> SUFFICES ASSUME NEW k \in 0 .. n PROVE Spent(k) \in Nat
    OBVIOUS
  <2>1. \A i \in 1 .. k : d[i].amount \in Nat
    OBVIOUS
  <2>2. [i \in 1 .. k |-> d[i].amount] \in [1 .. k -> Nat] /\ IsFiniteSet(1 .. k)
    BY <2>1, FS_Interval
  <2>3. QED
    BY <2>2, SumOfNats
<1>3. Spent(0) = 0
  <2>1. [i \in 1 .. 0 |-> d[i].amount] \in [1 .. 0 -> Int] /\ IsFiniteSet(1 .. 0) /\ 1 .. 0 = {}
    BY FS_EmptySet
  <2>2. QED
    BY <2>1, SumLaws
<1>4. \A k \in 0 .. n : k < n => Spent(k + 1) = Spent(k) + d[k + 1].amount
  <2> SUFFICES ASSUME NEW k \in 0 .. n, k < n
               PROVE  Spent(k + 1) = Spent(k) + d[k + 1].amount
    OBVIOUS
  <2> DEFINE w == [i \in 1 .. n |-> d[i].amount]
  <2>1. \A i \in 1 .. k + 1 : w[i] = d[i].amount /\ w[i] \in Int
    OBVIOUS
  <2>2. /\ [i \in 1 .. k + 1 |-> w[i]] = [i \in 1 .. k + 1 |-> d[i].amount]
        /\ [i \in 1 .. k |-> w[i]] = [i \in 1 .. k |-> d[i].amount]
        /\ w[k + 1] = d[k + 1].amount /\ k \in Nat
    BY <2>1
  <2> HIDE DEF w
  <2>3. SumOf([i \in 1 .. k + 1 |-> w[i]]) = SumOf([i \in 1 .. k |-> w[i]]) + w[k + 1]
    BY <2>1, <2>2, SumAppends
  <2>4. QED
    BY <2>2, <2>3
<1>5. Spent(n) = DueTotal(d)
  BY DEF DueTotal
<1> DEFINE Cost(a, k) == IF a = payer THEN Spent(k) ELSE 0
           K == {k \in 0 .. n : h[k] # None =>
                     /\ h[k] \in Funded
                     /\ \A a \in Address : /\ Worth(balance, a) \in Nat /\ Worth(h[k], a) \in Nat
                                           /\ Worth(h[k], a) >= Worth(balance, a) - Cost(a, k)}
<1> HIDE DEF Spent, d
<1>6. \A a \in Address : Worth(balance, a) \in Nat
  <2> SUFFICES ASSUME NEW a \in Address PROVE Worth(balance, a) \in Nat
    OBVIOUS
  <2>1. [x \in Asset |-> balance[x][a]] \in [Asset -> Nat] /\ IsFiniteSet(Asset)
    BY MarketAssumption DEF Funded
  <2>2. QED
    BY <2>1, SumOfNats DEF Worth
<1>7. 0 \in K
  BY <1>1, <1>3, <1>6
<1>8. ASSUME NEW k \in 0 .. n, k < n, k \in K PROVE k + 1 \in K
  <2>1. k + 1 \in 1 .. n /\ k + 1 \in 0 .. n /\ (k + 1) - 1 = k /\ n # 0
    BY <1>8
  <2>2. PICK to \in Address, m \in Nat : to = d[k + 1].who /\ m = d[k + 1].amount
    BY <2>1 DEF d
  <2>3. h[k + 1] = Paid(h[k], royalty[t].asset, payer, to, m) /\ h[k] \in FundedOrNot
    BY <1>1, <2>1, <2>2
  <2>4. SUFFICES ASSUME h[k + 1] # None
                 PROVE  /\ h[k + 1] \in Funded
                        /\ \A a \in Address :
                               /\ Worth(h[k + 1], a) \in Nat
                               /\ Worth(h[k + 1], a) >= Worth(balance, a) - Cost(a, k + 1)
    BY <1>6, <2>1
  <2>5. PICK funds, after : funds = h[k] /\ after = h[k + 1]
    OBVIOUS
  <2>6. royalty[t].asset \in Asset
    BY <2>1
  <2>7. /\ funds \in Funded /\ after \in Funded
        /\ \A a \in Address :
               /\ Worth(funds, a) \in Nat /\ Worth(after, a) \in Nat
               /\ Worth(after, a) = Worth(funds, a) - (IF a = payer THEN m ELSE 0)
                                                    + (IF a = to THEN m ELSE 0)
    <3>1. funds \in FundedOrNot /\ after # None
          /\ after = Paid(funds, royalty[t].asset, payer, to, m)
      BY <2>3, <2>4, <2>5
    <3>2. QED
      BY <2>2, <2>6, <3>1, PaidMoves
  <2>8. h[k] # None
    BY <2>2, <2>3, <2>4, <2>5 DEF Paid
  <2>9. \A a \in Address : Worth(funds, a) >= Worth(balance, a) - Cost(a, k)
    BY <1>8, <2>5, <2>8
  <2>10. Spent(k + 1) = Spent(k) + m /\ Spent(k) \in Nat
    BY <1>2, <1>4, <1>8, <2>2
  <2>11. ASSUME NEW a \in Address
         PROVE  Worth(after, a) >= Worth(balance, a) - Cost(a, k + 1)
    <3>1. PICK x \in Nat, y \in Nat, z \in Nat :
              x = Worth(balance, a) /\ y = Worth(funds, a) /\ z = Worth(after, a)
      BY <1>6, <2>7
    <3>2. y >= x - Cost(a, k)
      BY <2>9, <3>1
    <3>3. z >= y - (IF a = payer THEN m ELSE 0)
      BY <2>2, <2>7, <3>1, SMTT(30)
    <3>4. z >= x - Cost(a, k + 1)
      <4>1. CASE a = payer
        <5>1. PICK i \in Nat : i = Spent(k)
          BY <2>10
        <5>2. y >= x - i /\ z >= y - m /\ Cost(a, k + 1) = i + m
          BY <2>10, <3>2, <3>3, <4>1, <5>1
        <5>3. z >= x - (i + m)
          BY <3>1, <5>1, <5>2, SMTT(30)
        <5>4. QED
          BY <5>2, <5>3
      <4>2. CASE a # payer
        BY <3>1, <3>2, <3>3, <4>2
      <4>3. QED
        BY <4>1, <4>2
    <3>5. QED
      BY <3>1, <3>4
  <2>12. QED
    BY <2>5, <2>7, <2>11
<1>9. n \in K
  <2> HIDE DEF K
  <2>1. 0 .. n \subseteq K
    BY <1>7, <1>8, UpTo
  <2>2. QED
    BY <2>1
<1>10. h[n] # None /\ n \in 0 .. n
  BY <1>1
<1>11. QED
  BY <1>1, <1>2, <1>5, <1>6, <1>9, <1>10 DEF d

-----------------------------------------------------------------------------
(* Totals *)

DueType(A) == [who : A, amount : Nat]

LEMMA TotalsTyped ==
    ASSUME NEW A, NEW s \in Seq(DueType(A))
    PROVE  DueTotal(s) \in Nat /\ \A a : DueTo(s, a) \in Nat
<1>1. IsFiniteSet(DOMAIN s)
  BY FS_Interval
<1>2. \A i \in DOMAIN s : s[i].amount \in Nat
  <2>1. \A i \in DOMAIN s : s[i] \in DueType(A)
    OBVIOUS
  <2>2. QED
    BY <2>1 DEF DueType
<1>3. [i \in DOMAIN s |-> s[i].amount] \in [DOMAIN s -> Nat]
  BY <1>2
<1>4. ASSUME NEW a
      PROVE  [i \in DOMAIN s |-> IF s[i].who = a THEN s[i].amount ELSE 0]
                 \in [DOMAIN s -> Nat]
  BY <1>2
<1>5. QED
  BY <1>1, <1>3, <1>4, SumOfNats DEF DueTotal, DueTo

\* The totals of two lists of dues in a row.
LEMMA TotalsAdd ==
    ASSUME NEW A, NEW s \in Seq(DueType(A)), NEW d \in Seq(DueType(A))
    PROVE  /\ s \o d \in Seq(DueType(A))
           /\ DueTotal(s \o d) = DueTotal(s) + DueTotal(d)
           /\ \A a : DueTo(s \o d, a) = DueTo(s, a) + DueTo(d, a)
<1> DEFINE m == Len(s)
           n == Len(d)
           both == s \o d
<1>1. /\ m \in Nat /\ n \in Nat /\ DOMAIN s = 1 .. m /\ DOMAIN d = 1 .. n
      /\ both \in Seq(DueType(A)) /\ DOMAIN both = 1 .. m + n
  OBVIOUS
<1>2. /\ \A i \in 1 .. m : both[i] = s[i]
      /\ \A i \in 1 .. n : both[m + i] = d[i]
  OBVIOUS
<1> HIDE DEF m, n, both
<1>3. \A i \in 1 .. m + n : both[i].amount \in Int
  <2>1. \A i \in 1 .. m + n : both[i] \in DueType(A)
    BY <1>1
  <2>2. QED
    BY <2>1 DEF DueType
<1>4. DueTotal(both) = DueTotal(s) + DueTotal(d)
  <2> DEFINE w == [i \in 1 .. m + n |-> both[i].amount]
  <2>1. \A i \in 1 .. m + n : w[i] = both[i].amount /\ w[i] \in Int
    BY <1>3
  <2>2. \A i \in 1 .. m : w[i] = s[i].amount
    <3>1. \A i \in 1 .. m : i \in 1 .. m + n
      BY <1>1
    <3>2. QED
      BY <1>2, <2>1, <3>1
  <2>3. \A i \in 1 .. n : w[m + i] = d[i].amount
    <3>1. \A i \in 1 .. n : m + i \in 1 .. m + n
      BY <1>1
    <3>2. QED
      BY <1>2, <2>1, <3>1
  <2>4. /\ [i \in 1 .. m |-> w[i]] = [i \in 1 .. m |-> s[i].amount]
        /\ [i \in 1 .. n |-> w[m + i]] = [i \in 1 .. n |-> d[i].amount]
        /\ [i \in 1 .. m + n |-> w[i]] = [i \in 1 .. m + n |-> both[i].amount]
    <3> HIDE DEF w
    <3>1. QED
      BY <2>1, <2>2, <2>3
  <2> HIDE DEF w
  <2>5. SumOf([i \in 1 .. m + n |-> w[i]]) =
            SumOf([i \in 1 .. m |-> w[i]]) + SumOf([i \in 1 .. n |-> w[m + i]])
    BY <1>1, <2>1, SumSplits
  <2>6. QED
    BY <1>1, <2>4, <2>5 DEF DueTotal
<1>5. ASSUME NEW a PROVE DueTo(both, a) = DueTo(s, a) + DueTo(d, a)
  <2> DEFINE Part(e) == IF e.who = a THEN e.amount ELSE 0
             w == [i \in 1 .. m + n |-> Part(both[i])]
  <2>1. \A i \in 1 .. m + n : w[i] = Part(both[i]) /\ w[i] \in Int
    BY <1>3
  <2> HIDE DEF Part
  <2>2. \A i \in 1 .. m : w[i] = Part(s[i])
    <3>1. \A i \in 1 .. m : i \in 1 .. m + n
      BY <1>1
    <3>2. QED
      BY <1>2, <2>1, <3>1
  <2>3. \A i \in 1 .. n : w[m + i] = Part(d[i])
    <3>1. \A i \in 1 .. n : m + i \in 1 .. m + n
      BY <1>1
    <3>2. QED
      BY <1>2, <2>1, <3>1
  <2>4. /\ [i \in 1 .. m |-> w[i]] = [i \in 1 .. m |-> Part(s[i])]
        /\ [i \in 1 .. n |-> w[m + i]] = [i \in 1 .. n |-> Part(d[i])]
        /\ [i \in 1 .. m + n |-> w[i]] = [i \in 1 .. m + n |-> Part(both[i])]
    <3> HIDE DEF w
    <3>1. QED
      BY <2>1, <2>2, <2>3
  <2> HIDE DEF w
  <2>5. SumOf([i \in 1 .. m + n |-> w[i]]) =
            SumOf([i \in 1 .. m |-> w[i]]) + SumOf([i \in 1 .. n |-> w[m + i]])
    BY <1>1, <2>1, SumSplits
  <2>6. QED
    BY <1>1, <2>4, <2>5 DEF DueTo, Part
<1>6. QED
  BY <1>1, <1>4, <1>5 DEF both

LEMMA TotalAppends ==
    ASSUME NEW A, NEW s \in Seq(DueType(A)), NEW e \in DueType(A)
    PROVE  /\ Append(s, e) \in Seq(DueType(A))
           /\ DueTotal(Append(s, e)) = DueTotal(s) + e.amount
<1> DEFINE n == Len(s)
           w == [i \in 1 .. n + 1 |-> Append(s, e)[i].amount]
<1>1. /\ n \in Nat /\ DOMAIN s = 1 .. n /\ DOMAIN Append(s, e) = 1 .. n + 1
      /\ Append(s, e) \in Seq(DueType(A)) /\ Append(s, e)[n + 1] = e
      /\ \A i \in 1 .. n : Append(s, e)[i] = s[i] /\ i \in 1 .. n + 1
  OBVIOUS
<1>2. \A i \in 1 .. n + 1 : Append(s, e)[i] \in DueType(A)
  BY <1>1
<1>3. \A i \in 1 .. n + 1 : w[i] = Append(s, e)[i].amount /\ w[i] \in Int
  BY <1>2 DEF DueType
<1> HIDE DEF n, w
<1>4. w[n + 1] = e.amount
  BY <1>1, <1>3
<1>5. /\ [i \in 1 .. n + 1 |-> w[i]] = [i \in 1 .. n + 1 |-> Append(s, e)[i].amount]
      /\ [i \in 1 .. n |-> w[i]] = [i \in 1 .. n |-> s[i].amount]
  BY <1>1, <1>3
<1>6. SumOf([i \in 1 .. n + 1 |-> w[i]]) = SumOf([i \in 1 .. n |-> w[i]]) + w[n + 1]
  BY <1>1, <1>3, SumAppends
<1>7. QED
  BY <1>1, <1>4, <1>5, <1>6 DEF DueTotal

\* What is paid is the total royalty, to recipients: the amounts left out are zero.
LEMMA DuesAre ==
    ASSUME NEW t, NEW price \in Nat, NEW n \in Nat,
           DOMAIN royalty[t].recipients = 1 .. n,
           Amounts(price, Shares(t)) \in [1 .. n -> Nat], NEW A,
           \A i \in 1 .. n : royalty[t].recipients[i].who \in A
    PROVE  /\ Dues(t, price) \in Seq(DueType(A))
           /\ DueTotal(Dues(t, price)) = total_royalty(price, Shares(t))
<1> DEFINE r == royalty[t].recipients
           w == Amounts(price, Shares(t))
           Sum(k) == SumOf([i \in 1 .. k |-> w[i]])
<1>0. PICK h : DueInOrder(h, n, t, price)
  BY DuesInOrder
<1>1. /\ h[0] = << >> /\ h[n] = Dues(t, price)
      /\ \A k \in 1 .. n : h[k] = IF Due(price, r[k]).amount > 0
                                 THEN Append(h[k - 1], Due(price, r[k])) ELSE h[k - 1]
  BY <1>0 DEF DueInOrder
<1>2. \A k \in 1 .. n : Due(price, r[k]) \in DueType(A) /\ Due(price, r[k]).amount = w[k]
  <2>1. \A k \in 1 .. n : w[k] = safe_royalty_amount(price, r[k].bps) /\ w[k] \in Nat
    BY DEF Amounts, Shares
  <2> HIDE DEF w
  <2>2. QED
    BY <2>1 DEF Due, DueType
<1>3. Sum(0) = 0
  <2>1. [i \in 1 .. 0 |-> w[i]] \in [1 .. 0 -> Int] /\ IsFiniteSet(1 .. 0) /\ 1 .. 0 = {}
    BY FS_EmptySet
  <2>2. QED
    BY <2>1, SumLaws
<1>4. \A k \in 0 .. n : k < n => Sum(k) \in Int /\ Sum(k + 1) = Sum(k) + w[k + 1]
  <2> SUFFICES ASSUME NEW k \in 0 .. n, k < n
               PROVE  Sum(k) \in Int /\ Sum(k + 1) = Sum(k) + w[k + 1]
    OBVIOUS
  <2>1. k \in Nat /\ \A i \in 1 .. k + 1 : w[i] \in Int
    OBVIOUS
  <2> HIDE DEF w
  <2>2. QED
    BY <2>1, SumAppends
<1>5. Sum(n) = total_royalty(price, Shares(t))
  <2>1. [i \in 1 .. n |-> w[i]] = w
    OBVIOUS
  <2>2. QED
    BY <2>1 DEF total_royalty
<1> DEFINE K == {k \in 0 .. n : h[k] \in Seq(DueType(A)) /\ DueTotal(h[k]) = Sum(k)}
<1> HIDE DEF w, Sum
<1>6. 0 \in K
  <2>1. << >> \in Seq(DueType(A))
    OBVIOUS
  <2>2. [i \in DOMAIN << >> |-> << >>[i].amount] \in [{} -> Int] /\ IsFiniteSet({})
    BY FS_EmptySet
  <2>3. DueTotal(<< >>) = 0
    BY <2>2, SumLaws DEF DueTotal
  <2>4. 0 \in 0 .. n
    OBVIOUS
  <2>5. QED
    BY <1>1, <1>3, <2>1, <2>3, <2>4
<1>7. ASSUME NEW k \in 0 .. n, k < n, k \in K PROVE k + 1 \in K
  <2>1. k + 1 \in 1 .. n /\ k + 1 \in 0 .. n /\ (k + 1) - 1 = k
    BY <1>7
  <2>2. PICK due \in DueType(A) : due = Due(price, r[k + 1]) /\ due.amount = w[k + 1]
    BY <1>2, <2>1
  <2>3. h[k + 1] = IF due.amount > 0 THEN Append(h[k], due) ELSE h[k]
    BY <1>1, <2>1, <2>2
  <2>4. PICK s \in Seq(DueType(A)) : s = h[k] /\ DueTotal(s) = Sum(k)
    BY <1>7
  <2>5. due.amount \in Nat
    BY DEF DueType
  <2>6. Sum(k) \in Int /\ Sum(k + 1) = Sum(k) + due.amount
    BY <1>4, <1>7, <2>2
  <2>7. CASE due.amount > 0
    <3>1. h[k + 1] = Append(s, due)
      BY <2>3, <2>4, <2>7
    <3>2. Append(s, due) \in Seq(DueType(A)) /\ DueTotal(Append(s, due)) = DueTotal(s) + due.amount
      BY <2>2, <2>4, TotalAppends
    <3>3. QED
      BY <2>1, <2>4, <2>6, <3>1, <3>2
  <2>8. CASE ~(due.amount > 0)
    BY <2>1, <2>3, <2>4, <2>5, <2>6, <2>8
  <2>9. QED
    BY <2>7, <2>8
<1>8. n \in K
  <2> HIDE DEF K
  <2>1. 0 .. n \subseteq K
    BY <1>6, <1>7, UpTo
  <2>2. QED
    BY <2>1
<1>9. QED
  BY <1>1, <1>5, <1>8

-----------------------------------------------------------------------------
(* Clock, switch, currencies, and what is asked for *)

SettingsInv == now \in Time /\ paymentsDisabled \in BOOLEAN /\ currencies \subseteq Asset

PostsInv ==
    /\ listing \in [TokenId -> PostType \cup {None}]
    /\ nextListingId \in 1 .. MaxListings + 1

\* Prices come from the callers, and stay until a sale.
PricesInv ==
    \A t \in TokenId :
        /\ activeListing[t] # None => activeListing[t].deal.price \in Prices
        /\ offer[t] # None => offer[t].deal.price \in Prices

LEMMA SettingsStep == SettingsInv /\ [MarketNext]_allVars => SettingsInv'
<1> SUFFICES ASSUME SettingsInv, [MarketNext]_allVars PROVE SettingsInv'
  OBVIOUS
<1> USE DEF SettingsInv
<1>1. CASE UNCHANGED <<now, paymentsDisabled, currencies>>
  BY <1>1
<1>2. CASE TermsStep /\ UNCHANGED marketVars
  <2>1. UNCHANGED <<now, paymentsDisabled>>
    BY <1>2 DEF marketVars
  <2>2. CASE UNCHANGED termsVars
    BY <1>1, <2>1, <2>2 DEF termsVars
  <2>3. CASE MintOrBurnWithTerms
    BY <1>1, <2>1, <2>3 DEF MintOrBurnWithTerms, mint_with_terms, batch_mint_with_terms,
       burn_with_terms
  <2>4. CASE ChangeTerms
    <3>1. UNCHANGED currencies \/ \E x \in Asset : currencies' \in {currencies \cup {x}, currencies \ {x}}
      BY <2>4 DEF ChangeTerms, set_royalty, update_royalty, freeze_royalty, reassign_creator,
         add_currency, remove_currency
    <3>2. QED
      BY <2>1, <3>1
  <2>5. QED
    BY <1>2, <2>2, <2>3, <2>4 DEF TermsStep
<1>3. CASE ListOrOffer
  BY <1>1, <1>3, ListOrOfferCases DEF ListingFrame, termsVars
<1>4. CASE Trade
  BY <1>1, <1>4 DEF Trade, buy_listing, accept_offer, Settle, termsVars
<1>5. ASSUME NEW payer \in Address, NEW t \in TokenId, NEW price \in Prices,
             pay_royalty(payer, t, price)
      PROVE  SettingsInv'
  BY <1>1, <1>5 DEF pay_royalty, termsVars
<1>6. ASSUME NEW disabled \in BOOLEAN, set_royalty_payments_disabled(disabled)
      PROVE  SettingsInv'
  BY <1>6 DEF set_royalty_payments_disabled, termsVars
<1>7. CASE Tick
  <2>1. UNCHANGED <<paymentsDisabled, currencies>> /\ now < MaxTime /\ now' = now + 1
    BY <1>7 DEF Tick, termsVars
  <2>2. QED
    BY <2>1, MarketAssumption DEF Time
<1>8. CASE UNCHANGED allVars
  BY <1>1, <1>8 DEF allVars, marketVars, termsVars
<1>9. QED
  BY <1>2, <1>3, <1>4, <1>5, <1>6, <1>7, <1>8 DEF MarketNext

\* Only list_nft writes the other table of listings, and the counter stays in range.
LEMMA PostsStep == PostsInv /\ [MarketNext]_allVars => PostsInv'
<1> SUFFICES ASSUME PostsInv, [MarketNext]_allVars PROVE PostsInv'
  OBVIOUS
<1>0. MaxListings \in Nat
  BY MarketAssumption
<1>1. CASE UNCHANGED <<listing, nextListingId>>
  BY <1>1 DEF PostsInv
<1>2. CASE UNCHANGED listing /\ generate_listing_id
  BY <1>0, <1>2 DEF PostsInv, generate_listing_id
<1>3. ASSUME NEW c \in Caller, NEW t \in TokenId, NEW deal \in Deals, list_nft(c, t, deal)
      PROVE  PostsInv'
  <2>1. deal \in DealType
    BY <1>3 DEF list_nft, validate_listing, ValidDeal, ValidPrice, Deals, DealType
  <2>2. PICK l \in PostType : l = [seller |-> c, deal |-> deal]
    BY <2>1 DEF PostType
  <2>3. listing' = [listing EXCEPT ![t] = l] /\ generate_listing_id
    BY <1>3, <2>2 DEF list_nft
  <2>4. nextListingId' \in 1 .. MaxListings + 1
    BY <1>0, <2>3 DEF PostsInv, generate_listing_id
  <2>5. QED
    BY <2>2, <2>3, <2>4 DEF PostsInv
<1>4. CASE ListOrOffer
  <2>1. ASSUME NEW c \in Caller, NEW t \in TokenId, NEW deal \in Deals,
               create_listing(c, t, deal) \/ make_offer(c, t, deal)
        PROVE  PostsInv'
    BY <1>1, <1>2, <2>1 DEF create_listing, make_offer, listingVars
  <2>2. ASSUME NEW c \in Caller, NEW t \in TokenId, NEW price \in Prices,
               NEW expiration \in Time, update_listing(c, t, price, expiration)
        PROVE  PostsInv'
    BY <1>1, <2>2 DEF update_listing
  <2>3. ASSUME NEW c \in Caller, NEW t \in TokenId, cancel_listing(c, t) \/ cancel_offer(c, t)
        PROVE  PostsInv'
    BY <1>1, <2>3 DEF cancel_listing, cancel_offer, listingVars
  <2>4. QED
    BY <1>3, <1>4, <2>1, <2>2, <2>3 DEF ListOrOffer
<1>5. CASE Trade
  BY <1>1, <1>5 DEF Trade, buy_listing, accept_offer, listingVars
<1>6. QED
  BY <1>1, <1>4, <1>5 DEF MarketNext, marketVars, allVars, listingVars, pay_royalty,
     set_royalty_payments_disabled, Tick

LEMMA PricesStep == MarketInv /\ PricesInv /\ [MarketNext]_allVars => PricesInv'
<1> SUFFICES ASSUME MarketInv, PricesInv, [MarketNext]_allVars PROVE PricesInv'
  OBVIOUS
<1>0. /\ activeListing \in [TokenId -> ListingType \cup {None}]
      /\ offer \in [TokenId -> OfferType \cup {None}]
  BY DEF MarketInv, ListingsInv, OffersInv
<1>1. CASE UNCHANGED <<activeListing, offer>>
  BY <1>1 DEF PricesInv
<1>2. ASSUME NEW t \in TokenId, NEW l, l # None => l.deal.price \in Prices,
             activeListing' = [activeListing EXCEPT ![t] = l], UNCHANGED offer
      PROVE  PricesInv'
  BY <1>0, <1>2 DEF PricesInv
<1>3. ASSUME NEW t \in TokenId, NEW o, o # None => o.deal.price \in Prices,
             offer' = [offer EXCEPT ![t] = o], UNCHANGED activeListing
      PROVE  PricesInv'
  BY <1>0, <1>3 DEF PricesInv
<1>4. ASSUME NEW c \in Caller, NEW t \in TokenId, NEW deal \in Deals,
             list_nft(c, t, deal) \/ create_listing(c, t, deal) \/ make_offer(c, t, deal)
      PROVE  PricesInv'
  <2>1. deal.price \in Prices
    BY DEF Deals
  <2>2. CASE list_nft(c, t, deal)
    BY <1>1, <2>2 DEF list_nft, offerVars
  <2>3. CASE create_listing(c, t, deal)
    <3>1. PICK l : l = [id |-> nextListingId, seller |-> c, deal |-> deal]
      OBVIOUS
    <3>2. activeListing' = [activeListing EXCEPT ![t] = l] /\ UNCHANGED offer
      BY <2>3, <3>1 DEF create_listing, offerVars
    <3>3. l.deal.price \in Prices
      BY <2>1, <3>1
    <3>4. QED
      BY <1>2, <3>2, <3>3
  <2>4. CASE make_offer(c, t, deal)
    <3>1. PICK o : o = [buyer |-> c, deal |-> deal]
      OBVIOUS
    <3>2. offer' = [offer EXCEPT ![t] = o] /\ UNCHANGED activeListing
      BY <2>4, <3>1 DEF make_offer, save_offer, listingVars
    <3>3. o.deal.price \in Prices
      BY <2>1, <3>1
    <3>4. QED
      BY <1>3, <3>2, <3>3
  <2>5. QED
    BY <1>4, <2>2, <2>3, <2>4
<1>5. ASSUME NEW c \in Caller, NEW t \in TokenId, NEW price \in Prices,
             NEW expiration \in Time, update_listing(c, t, price, expiration)
      PROVE  PricesInv'
  <2>0. PICK deal : deal = [price |-> price, asset |-> activeListing[t].deal.asset,
                            expiration |-> expiration]
    OBVIOUS
  <2>1. activeListing' = [activeListing EXCEPT ![t].deal = deal] /\ deal.price = price
    BY <1>5, <2>0 DEF update_listing
  <2>2. PICK l : l = [activeListing[t] EXCEPT !.deal = deal]
    OBVIOUS
  <2>3. activeListing[t] \in ListingType /\ UNCHANGED offer
    BY <1>0, <1>5 DEF update_listing, offerVars
  <2>4. l.deal = deal
    BY <2>2, <2>3 DEF ListingType
  <2>5. activeListing' = [activeListing EXCEPT ![t] = l]
    BY <2>1, <2>2
  <2>6. QED
    BY <1>2, <2>1, <2>3, <2>4, <2>5
<1>6. ASSUME NEW c \in Caller, NEW t \in TokenId,
             cancel_listing(c, t) \/ cancel_offer(c, t) \/ buy_listing(c, t) \/ accept_offer(c, t)
      PROVE  PricesInv'
  BY <1>2, <1>3, <1>6 DEF cancel_listing, cancel_offer, buy_listing, accept_offer,
     remove_offer, listingVars, offerVars
<1>7. QED
  BY <1>1, <1>4, <1>5, <1>6 DEF MarketNext, ListOrOffer, Trade, marketVars, allVars,
     listingVars, offerVars, pay_royalty, set_royalty_payments_disabled, Tick

-----------------------------------------------------------------------------
(* What a payment does *)

\* Who is paid, and how much, once pay_royalty's checks have passed.
RoyaltyFits(payer, t, price) ==
    /\ price \in Nat /\ safe_royalty_amount(price, PlatformFeeBps) \in Nat
    /\ Dues(t, price) \in Seq(DueType(Caller))
    /\ DueTotal(Dues(t, price)) \in Nat
    /\ DueTotal(Dues(t, price)) = total_royalty(price, Shares(t))
    /\ DueTotal(Dues(t, price)) + safe_royalty_amount(price, PlatformFeeBps) <= price
    /\ Dues(t, price) # << >> => royalty[t].asset \in Asset
    /\ NewPayments = {<<payer, t, price>>}

LEMMA RecordedFits ==
    ASSUME RoyaltyShape, currencies \subseteq Asset, NEW payer, NEW t \in TokenId, NEW price,
           RecordRoyalty(payer, t, price)
    PROVE  RoyaltyFits(payer, t, price)
<1>1. PICK r \in RoyaltyType : r = royalty[t]
  BY DEF RoyaltyShape, RecordRoyalty
<1>2. PICK n \in Nat : DOMAIN r.recipients = 1 .. n
  BY <1>1 DEF RoyaltyType
<1>3. \A i \in 1 .. n : r.recipients[i] \in [who : Address, bps : Nat]
  <2>1. PICK R : R = [who : Address, bps : Nat]
    OBVIOUS
  <2>2. PICK s \in Seq(R) : s = r.recipients
    BY <1>1, <2>1 DEF RoyaltyType
  <2>3. \A i \in DOMAIN s : s[i] \in R
    BY <2>2
  <2>4. QED
    BY <1>2, <2>1, <2>2, <2>3
<1>4. \A i \in 1 .. n : r.recipients[i].who \in Caller /\ r.recipients[i].bps \in Nat
  <2>1. validate_royalty_recipients(r)
    BY <1>1 DEF RecordRoyalty
  <2>2. \A i \in 1 .. n : r.recipients[i].who # Contract
    BY <1>2, <2>1 DEF validate_royalty_recipients, Range
  <2>3. QED
    BY <1>3, <2>2 DEF Caller
<1>5. price \in Nat /\ price <= MAX_SAFE_SALE_PRICE
  BY LimitsAreNumbers DEF RecordRoyalty
<1>6. Shares(t) = [i \in 1 .. n |-> r.recipients[i].bps] /\ Shares(t) \in [1 .. n -> Nat]
  BY <1>1, <1>2, <1>4 DEF Shares
<1>7. IsFiniteSet(1 .. n) /\ PlatformFeeBps \in Nat
  BY MarketAssumption, FS_Interval
<1>8. TotalBps(r) = SumOf(Shares(t))
  <2>1. PICK p : p = r.recipients
    OBVIOUS
  <2>2. DOMAIN p = 1 .. n /\ \A i \in 1 .. n : p[i].bps \in Int
    BY <1>2, <1>4, <2>1
  <2>3. FoldFunction(LAMBDA x, sum : x.bps + sum, 0, p) = SumOf([i \in 1 .. n |-> p[i].bps])
    BY <1>7, <2>2, SumOfShares
  <2>4. QED
    BY <1>6, <2>1, <2>3 DEF TotalBps
<1>9. validate_total_deduction_bps(SumOf(Shares(t)), PlatformFeeBps)
  BY <1>1, <1>8 DEF RecordRoyalty
<1>10. PICK shares \in [1 .. n -> Nat] : shares = Shares(t)
  BY <1>6
<1>11. /\ Amounts(price, shares) \in [1 .. n -> Nat] /\ total_royalty(price, shares) \in Nat
       /\ safe_royalty_amount(price, PlatformFeeBps) \in Nat
       /\ total_royalty(price, shares) + safe_royalty_amount(price, PlatformFeeBps) <= price
  BY <1>5, <1>7, <1>9, <1>10, TotalRoyaltyIs, DeductionsFit
<1>12. /\ Dues(t, price) \in Seq(DueType(Caller))
       /\ DueTotal(Dues(t, price)) = total_royalty(price, Shares(t))
  <2>1. DOMAIN royalty[t].recipients = 1 .. n
        /\ \A i \in 1 .. n : royalty[t].recipients[i].who \in Caller
    BY <1>1, <1>2, <1>4
  <2>2. QED
    BY <1>5, <1>10, <1>11, <2>1, DuesAre
<1>13. Dues(t, price) # << >> => royalty[t].asset \in Asset
  BY DEF RecordRoyalty, validate_royalty_asset
<1>14. NewPayments = {<<payer, t, price>>}
  BY DEF NewPayments, RecordRoyalty, is_payment_processed
<1>15. QED
  BY <1>5, <1>10, <1>11, <1>12, <1>13, <1>14 DEF RoyaltyFits

\* After the royalties: at most the dues left the payer, nothing anybody else.
LEMMA RoyaltiesCost ==
    ASSUME balance \in Funded, NEW payer \in Address, NEW t, NEW price,
           RoyaltyFits(payer, t, price)
    PROVE  /\ RoyaltiesPaid(payer, t, price) \in FundedOrNot
           /\ RoyaltiesPaid(payer, t, price) # None =>
                  /\ RoyaltiesPaid(payer, t, price) \in Funded
                  /\ \A a \in Address :
                         /\ Worth(balance, a) \in Nat
                         /\ Worth(RoyaltiesPaid(payer, t, price), a) \in Nat
                         /\ Worth(RoyaltiesPaid(payer, t, price), a) >=
                                Worth(balance, a)
                                    - IF a = payer THEN DueTotal(Dues(t, price)) ELSE 0
<1>1. PICK n \in Nat : DOMAIN Dues(t, price) = 1 .. n /\ (n # 0 => Dues(t, price) # << >>)
  <2>1. PICK d \in Seq(DueType(Caller)) : d = Dues(t, price)
    BY DEF RoyaltyFits
  <2>2. DOMAIN d = 1 .. Len(d) /\ Len(d) \in Nat /\ (Len(d) # 0 => d # << >>)
    BY <2>1
  <2>3. QED
    BY <2>1, <2>2
<1>2. \A k \in 1 .. n : Dues(t, price)[k] \in DueType(Caller)
  BY <1>1 DEF RoyaltyFits
<1>3. \A k \in 1 .. n : Dues(t, price)[k].who \in Address /\ Dues(t, price)[k].amount \in Nat
  BY <1>2 DEF DueType, Caller
<1>4. n # 0 => royalty[t].asset \in Asset
  BY <1>1 DEF RoyaltyFits
<1>5. RoyaltiesPaid(payer, t, price) \in FundedOrNot
  <2>1. \A k \in 1 .. n : Dues(t, price)[k].who \in Address /\ Dues(t, price)[k].amount \in Int
    BY <1>3
  <2>2. PICK h : PaidInOrder(h, n, payer, t, price)
    BY <1>1, <1>4, <2>1, PaymentsInOrder
  <2>3. n \in 0 .. n
    BY <1>1
  <2>4. QED
    BY <2>2, <2>3 DEF PaidInOrder
<1>6. QED
  BY <1>1, <1>3, <1>4, <1>5, RoyaltiesMove

\* A sale costs the buyer at most the price, nobody else anything, and brings the
\* seller what is left of the price.
LEMMA SettleMoves ==
    ASSUME RoyaltyShape, currencies \subseteq Asset, balance \in Funded,
           NEW buyer \in Address, NEW seller \in Address, seller # buyer, NEW t \in TokenId,
           NEW deal, Settle(buyer, seller, t, deal)
    PROVE  /\ RoyaltyFits(buyer, t, deal.price) /\ balance' \in Funded
           /\ \A a \in Address :
                  /\ Worth(balance, a) \in Nat /\ Worth(balance', a) \in Nat
                  /\ Worth(balance', a) >= Worth(balance, a) - IF a = buyer THEN deal.price ELSE 0
           /\ Worth(balance', seller) >= Worth(balance, seller)
                  + (deal.price - total_royalty(deal.price, Shares(t))
                                - safe_royalty_amount(deal.price, PlatformFeeBps))
<1>1. PICK p \in Nat, fee \in Nat, dues \in Nat :
          /\ p = deal.price /\ fee = safe_royalty_amount(p, PlatformFeeBps)
          /\ dues = DueTotal(Dues(t, p)) /\ dues = total_royalty(p, Shares(t))
          /\ dues + fee <= p /\ RoyaltyFits(buyer, t, p)
  <2>1. RecordRoyalty(buyer, t, deal.price)
    BY DEF Settle
  <2>2. RoyaltyFits(buyer, t, deal.price)
    BY <2>1, RecordedFits
  <2>3. QED
    BY <2>2 DEF RoyaltyFits
<1>2. PICK net \in Nat : net = p - dues - fee
  BY <1>1
<1>3. net = seller_net(t, p)
  BY <1>1, <1>2 DEF seller_net
<1>4. PICK x \in Asset : x = deal.asset
  BY DEF Settle
<1>5. Contract \in Address
  BY LedgerAssumption
<1>6. PICK f, g, after : /\ f = RoyaltiesPaid(buyer, t, p)
                         /\ g = Paid(f, x, buyer, Contract, fee)
                         /\ after = Paid(g, x, buyer, seller, net)
                         /\ after = balance' /\ after # None
  BY <1>1, <1>3, <1>4 DEF Settle
<1>7. f \in FundedOrNot
  BY <1>1, <1>6, RoyaltiesCost
<1>8. g \in FundedOrNot
  BY <1>1, <1>4, <1>5, <1>6, <1>7, PaidStays
<1>9. /\ g \in Funded /\ after \in Funded
      /\ \A a \in Address :
             /\ Worth(g, a) \in Nat /\ Worth(after, a) \in Nat
             /\ Worth(after, a) = Worth(g, a) - (IF a = buyer THEN net ELSE 0)
                                              + (IF a = seller THEN net ELSE 0)
  BY <1>2, <1>4, <1>6, <1>8, PaidMoves
<1>10. g # None
  BY <1>2, <1>6 DEF Paid
<1>11. /\ f \in Funded
       /\ \A a \in Address :
              /\ Worth(f, a) \in Nat
              /\ Worth(g, a) = Worth(f, a) - (IF a = buyer THEN fee ELSE 0)
                                           + (IF a = Contract THEN fee ELSE 0)
  BY <1>1, <1>4, <1>5, <1>6, <1>7, <1>10, PaidMoves
<1>12. f # None
  BY <1>1, <1>6, <1>10 DEF Paid
<1>13. \A a \in Address :
           /\ Worth(balance, a) \in Nat
           /\ Worth(f, a) >= Worth(balance, a) - IF a = buyer THEN dues ELSE 0
  BY <1>1, <1>6, <1>12, RoyaltiesCost
<1>14. ASSUME NEW a \in Address
       PROVE  /\ Worth(after, a) >= Worth(balance, a) - IF a = buyer THEN p ELSE 0
              /\ a = seller => Worth(after, a) >= Worth(balance, a) + net
  <2>1. PICK i \in Nat, j \in Nat, k \in Nat, l \in Nat :
            /\ i = Worth(balance, a) /\ j = Worth(f, a) /\ k = Worth(g, a) /\ l = Worth(after, a)
    BY <1>9, <1>11, <1>13
  <2>2. /\ l = k - (IF a = buyer THEN net ELSE 0) + (IF a = seller THEN net ELSE 0)
        /\ k = j - (IF a = buyer THEN fee ELSE 0) + (IF a = Contract THEN fee ELSE 0)
        /\ j >= i - (IF a = buyer THEN dues ELSE 0)
    BY <1>9, <1>11, <1>13, <2>1
  <2>3. CASE a = buyer
    <3>1. l >= i - dues - fee - net
      <4>1. PICK m \in Nat : k = j - fee + m
        BY <1>1, <2>2, <2>3
      <4>2. l = k - net /\ j >= i - dues
        BY <2>2, <2>3
      <4>3. QED
        BY <1>1, <1>2, <2>1, <4>1, <4>2
    <3>2. dues + fee + net = p
      BY <1>1, <1>2
    <3>3. l >= i - p
      BY <1>1, <1>2, <2>1, <3>1, <3>2
    <3>4. QED
      BY <2>1, <2>3, <3>3
  <2>4. CASE a # buyer
    <3>1. PICK m \in Nat : k = j + m
      BY <1>1, <2>1, <2>2, <2>4
    <3>2. PICK o \in Nat : l = k + o /\ (a = seller => o = net)
      BY <1>2, <2>1, <2>2, <2>4
    <3>3. j >= i
      BY <2>2, <2>4, <2>1
    <3>4. l >= i /\ (a = seller => l >= i + net)
      BY <1>2, <2>1, <3>1, <3>2, <3>3
    <3>5. QED
      BY <2>1, <2>4, <3>4
  <2>5. QED
    BY <2>3, <2>4
<1>15. balance' \in Funded /\ RoyaltyFits(buyer, t, deal.price)
  BY <1>1, <1>6, <1>9
<1>16. ASSUME NEW a \in Address
       PROVE  /\ Worth(balance, a) \in Nat /\ Worth(balance', a) \in Nat
              /\ Worth(balance', a) >= Worth(balance, a) - IF a = buyer THEN deal.price ELSE 0
  BY <1>1, <1>6, <1>9, <1>13, <1>14
<1>17. Worth(balance', seller) >= Worth(balance, seller)
           + (deal.price - total_royalty(deal.price, Shares(t))
                         - safe_royalty_amount(deal.price, PlatformFeeBps))
  BY <1>1, <1>2, <1>6, <1>14
<1>18. QED
  BY <1>15, <1>16, <1>17

-----------------------------------------------------------------------------
(* The records of what was paid *)

RecordsTyped ==
    /\ usedPayments \subseteq Address \X TokenId \X Nat
    /\ royaltyHistory \in [TokenId -> Seq(DueType(Caller))]
    /\ royaltyEarnings \in [TokenId -> Nat]
    /\ creatorEarnings \in [Address -> Nat]

MoneyInv == balance \in Funded /\ RecordsTyped /\ EarningsMatchHistory

\* A payment adds the same dues to the three records.
LEMMA RecordedMatches ==
    ASSUME RecordsTyped, EarningsMatchHistory, NEW payer \in Address, NEW t \in TokenId,
           NEW price, RecordRoyalty(payer, t, price), RoyaltyFits(payer, t, price)
    PROVE  RecordsTyped' /\ EarningsMatchHistory'
<1>1. PICK d \in Seq(DueType(Caller)) : d = Dues(t, price)
  BY DEF RoyaltyFits
<1>2. /\ usedPayments' = usedPayments \cup {<<payer, t, price>>}
      /\ royaltyHistory' = [royaltyHistory EXCEPT ![t] = @ \o d]
      /\ royaltyEarnings' = [royaltyEarnings EXCEPT ![t] = @ + DueTotal(d)]
      /\ creatorEarnings' = [a \in Address |-> creatorEarnings[a] + DueTo(d, a)]
  BY <1>1 DEF RecordRoyalty, increment_creator_earnings
<1>3. DueTotal(d) \in Nat /\ \A a : DueTo(d, a) \in Nat
  BY <1>1, TotalsTyped
<1>4. PICK old \in Seq(DueType(Caller)) : old = royaltyHistory[t]
  BY DEF RecordsTyped
<1>5. PICK new \in Seq(DueType(Caller)) :
          /\ new = old \o d
          /\ DueTotal(new) = DueTotal(old) + DueTotal(d)
          /\ \A a : DueTo(new, a) = DueTo(old, a) + DueTo(d, a)
  <2>1. d \in Seq(DueType(Caller)) /\ old \in Seq(DueType(Caller))
    BY <1>1, <1>4
  <2>2. /\ old \o d \in Seq(DueType(Caller))
        /\ DueTotal(old \o d) = DueTotal(old) + DueTotal(d)
        /\ \A a : DueTo(old \o d, a) = DueTo(old, a) + DueTo(d, a)
    BY <2>1, TotalsAdd
  <2>3. QED
    BY <2>2
<1>6. royaltyHistory' = [royaltyHistory EXCEPT ![t] = new]
  BY <1>2, <1>4, <1>5
<1>7. RecordsTyped'
  <2>1. royaltyHistory' \in [TokenId -> Seq(DueType(Caller))]
    BY <1>5, <1>6 DEF RecordsTyped
  <2>2. usedPayments' \subseteq Address \X TokenId \X Nat
    BY <1>2 DEF RecordsTyped, RoyaltyFits
  <2>3. royaltyEarnings' \in [TokenId -> Nat]
    BY <1>2, <1>3 DEF RecordsTyped
  <2>4. creatorEarnings' \in [Address -> Nat]
    BY <1>2, <1>3 DEF RecordsTyped
  <2>5. QED
    BY <2>1, <2>2, <2>3, <2>4 DEF RecordsTyped
<1>8. \A u \in TokenId : royaltyEarnings'[u] = DueTotal(royaltyHistory'[u])
  <2>1. royaltyEarnings'[t] = DueTotal(royaltyHistory'[t])
    BY <1>2, <1>4, <1>5, <1>6 DEF RecordsTyped, EarningsMatchHistory
  <2>2. \A u \in TokenId : u # t => royaltyEarnings'[u] = royaltyEarnings[u]
                                    /\ royaltyHistory'[u] = royaltyHistory[u]
    BY <1>2, <1>6 DEF RecordsTyped
  <2>3. QED
    BY <2>1, <2>2 DEF EarningsMatchHistory
<1>9. ASSUME NEW a \in Address
      PROVE  creatorEarnings'[a] = SumOf([u \in TokenId |-> DueTo(royaltyHistory'[u], a)])
  <2> DEFINE w == [u \in TokenId |-> DueTo(royaltyHistory[u], a)]
             w1 == [u \in TokenId |-> DueTo(royaltyHistory'[u], a)]
  <2>1. PICK v \in Int : v = DueTo(new, a)
    BY <1>5, TotalsTyped
  <2>2. w \in [TokenId -> Int] /\ w[t] = DueTo(old, a) /\ w[t] \in Int
    <3>1. \A u \in TokenId : royaltyHistory[u] \in Seq(DueType(Caller))
      BY DEF RecordsTyped
    <3>2. \A u \in TokenId : DueTo(royaltyHistory[u], a) \in Int
      BY <3>1, TotalsTyped
    <3>3. QED
      BY <1>4, <3>2
  <2>3. w1 = [w EXCEPT ![t] = v]
    <3>1. \A u \in TokenId : royaltyHistory'[u] = IF u = t THEN new ELSE royaltyHistory[u]
      BY <1>6 DEF RecordsTyped
    <3>2. QED
      BY <2>1, <3>1
  <2>4. IsFiniteSet(TokenId)
    BY LedgerAssumption, FS_Interval DEF TokenId
  <2> HIDE DEF w, w1
  <2>5. SumOf(w) \in Int /\ SumOf([w EXCEPT ![t] = v]) = SumOf(w) - w[t] + v
    <3>1. SumOf(w) \in Int
      BY <2>2, <2>4, SumLaws
    <3>2. SumOf([w EXCEPT ![t] = v]) = SumOf(w) - w[t] + v
      BY <2>1, <2>2, <2>4, SumChanges
    <3>3. QED
      BY <3>1, <3>2
  <2>6. creatorEarnings[a] = SumOf(w)
    BY DEF EarningsMatchHistory, w
  <2>7. creatorEarnings'[a] = SumOf(w) + DueTo(d, a)
    BY <1>2, <2>6
  <2>8. v = w[t] + DueTo(d, a) /\ DueTo(d, a) \in Int
    BY <1>3, <1>5, <2>1, <2>2
  <2>9. creatorEarnings'[a] = SumOf(w1)
    BY <2>2, <2>3, <2>5, <2>7, <2>8
  <2>10. QED
    BY <2>9 DEF w1
<1>10. QED
  BY <1>7, <1>8, <1>9 DEF EarningsMatchHistory

\* The steps that pay: a payment outside a sale, and the two sales.
Pays(payer, t, price) ==
    /\ payer \in Address /\ t \in TokenId /\ price \in Prices
    /\ RecordRoyalty(payer, t, price)
    /\ \/ /\ balance' = RoyaltiesPaid(payer, t, price) /\ balance' # None
          /\ UNCHANGED tokenOwner
       \/ \E seller \in Address :
              \E deal : /\ seller # payer /\ deal.price = price
                        /\ tokenOwner[t] = seller
                        /\ Settle(payer, seller, t, deal)

LEMMA PaymentCases ==
    ASSUME MarketInv, PricesInv, [MarketNext]_allVars
    PROVE  UNCHANGED paymentVars
           \/ \E payer \in Address, t \in TokenId, price \in Prices : Pays(payer, t, price)
<1>1. ASSUME NEW payer \in Address, NEW t \in TokenId, NEW price \in Prices,
             pay_royalty(payer, t, price)
      PROVE  Pays(payer, t, price)
  BY <1>1 DEF pay_royalty, Pays, ledgerVars, ownerVars
<1>2. ASSUME NEW c \in Caller, NEW t \in TokenId, buy_listing(c, t)
      PROVE  Pays(c, t, activeListing[t].deal.price) /\ activeListing[t].deal.price \in Prices
  <2>1. PICK l \in ListingType : l = activeListing[t] /\ l.deal.price \in Prices
    BY <1>2 DEF buy_listing, MarketInv, ListingsInv, PricesInv
  <2>2. l.seller \in Address /\ l.seller # c
    BY <1>2, <2>1 DEF buy_listing, ListingType, Caller
  <2>3. Settle(c, l.seller, t, l.deal)
    BY <1>2, <2>1 DEF buy_listing
  <2>4. tokenOwner[t] = l.seller /\ RecordRoyalty(c, t, l.deal.price)
    BY <2>3 DEF Settle, verify_owner
  <2>5. QED
    BY <2>1, <2>2, <2>3, <2>4 DEF Pays, Caller
<1>3. ASSUME NEW c \in Caller, NEW t \in TokenId, accept_offer(c, t)
      PROVE  /\ offer[t].buyer \in Address /\ offer[t].deal.price \in Prices
             /\ Pays(offer[t].buyer, t, offer[t].deal.price)
  <2>1. PICK o \in OfferType : o = offer[t] /\ o.deal.price \in Prices
    BY <1>3 DEF accept_offer, MarketInv, OffersInv, PricesInv
  <2>2. o.buyer \in Address /\ c # o.buyer /\ c \in Address
    BY <1>3, <2>1 DEF accept_offer, OfferType, Caller
  <2>3. Settle(o.buyer, c, t, o.deal)
    BY <1>3, <2>1 DEF accept_offer
  <2>4. tokenOwner[t] = c /\ RecordRoyalty(o.buyer, t, o.deal.price)
    BY <2>3 DEF Settle, verify_owner
  <2>5. QED
    BY <2>1, <2>2, <2>3, <2>4 DEF Pays
<1>4. ListOrOffer => UNCHANGED paymentVars
  BY ListOrOfferCases DEF ListingFrame
<1>5. CASE Trade
  <2>1. PICK c \in Caller, t \in TokenId : buy_listing(c, t) \/ accept_offer(c, t)
    BY <1>5 DEF Trade
  <2>2. QED
    BY <1>2, <1>3, <2>1 DEF Caller
<1>6. QED
  BY <1>1, <1>4, <1>5 DEF MarketNext, marketVars, allVars, set_royalty_payments_disabled, Tick

\* What each of them does: only the payer loses, at most the price.
LEMMA PaysMoves ==
    ASSUME RoyaltyShape, SettingsInv, MoneyInv, NEW payer \in Address, NEW t \in TokenId,
           NEW price \in Prices, Pays(payer, t, price)
    PROVE  /\ RoyaltyFits(payer, t, price) /\ balance' \in Funded
           /\ \A a \in Address :
                  /\ Worth(balance, a) \in Nat /\ Worth(balance', a) \in Nat
                  /\ Worth(balance', a) >= Worth(balance, a) - IF a = payer THEN price ELSE 0
           /\ tokenOwner'[t] # tokenOwner[t] =>
                  Worth(balance', tokenOwner[t]) >= Worth(balance, tokenOwner[t])
                      + (price - total_royalty(price, Shares(t))
                               - safe_royalty_amount(price, PlatformFeeBps))
<1>1. RoyaltyFits(payer, t, price)
  BY RecordedFits DEF Pays, SettingsInv
<1>2. balance \in Funded
  BY DEF MoneyInv
<1>3. CASE balance' = RoyaltiesPaid(payer, t, price) /\ balance' # None /\ UNCHANGED tokenOwner
  <2>1. PICK f : f = RoyaltiesPaid(payer, t, price) /\ f = balance' /\ f # None
    BY <1>3
  <2>2. /\ f \in Funded
        /\ \A a \in Address :
               /\ Worth(balance, a) \in Nat /\ Worth(f, a) \in Nat
               /\ Worth(f, a) >= Worth(balance, a)
                      - IF a = payer THEN DueTotal(Dues(t, price)) ELSE 0
    BY <1>1, <1>2, <2>1, RoyaltiesCost
  <2>3. PICK dues \in Nat, p \in Nat : dues = DueTotal(Dues(t, price)) /\ p = price /\ dues <= p
    BY <1>1 DEF RoyaltyFits
  <2>4. ASSUME NEW a \in Address
        PROVE  Worth(f, a) >= Worth(balance, a) - IF a = payer THEN p ELSE 0
    <3>1. PICK i \in Nat, j \in Nat : i = Worth(balance, a) /\ j = Worth(f, a)
                                      /\ j >= i - IF a = payer THEN dues ELSE 0
      BY <2>2, <2>3
    <3>2. j >= i - IF a = payer THEN p ELSE 0
      BY <2>3, <3>1
    <3>3. QED
      BY <3>1, <3>2
  <2>5. QED
    BY <1>1, <1>3, <2>1, <2>2, <2>3, <2>4
<1>4. ASSUME NEW seller \in Address, NEW deal, seller # payer, deal.price = price,
             tokenOwner[t] = seller, Settle(payer, seller, t, deal)
      PROVE  /\ balance' \in Funded
             /\ \A a \in Address :
                    /\ Worth(balance, a) \in Nat /\ Worth(balance', a) \in Nat
                    /\ Worth(balance', a) >= Worth(balance, a) - IF a = payer THEN price ELSE 0
             /\ Worth(balance', tokenOwner[t]) >= Worth(balance, tokenOwner[t])
                      + (price - total_royalty(price, Shares(t))
                               - safe_royalty_amount(price, PlatformFeeBps))
  BY <1>2, <1>4, SettleMoves DEF SettingsInv
<1>5. QED
  BY <1>1, <1>3, <1>4 DEF Pays

LEMMA MoneyStep ==
    LedgerInv /\ TermsInv /\ MarketInv /\ SettingsInv /\ PricesInv /\ MoneyInv
        /\ [MarketNext]_allVars => MoneyInv'
<1> SUFFICES ASSUME LedgerInv, TermsInv, MarketInv, SettingsInv, PricesInv, MoneyInv,
                    [MarketNext]_allVars
             PROVE  MoneyInv'
  OBVIOUS
<1>1. CASE UNCHANGED paymentVars
  <2>1. UNCHANGED <<balance, usedPayments, royaltyHistory, royaltyEarnings, creatorEarnings>>
    BY <1>1 DEF paymentVars, earningVars
  <2>2. RecordsTyped'
    BY <2>1 DEF MoneyInv, RecordsTyped
  <2>3. EarningsMatchHistory'
    BY <2>1 DEF MoneyInv, EarningsMatchHistory
  <2>4. QED
    BY <2>1, <2>2, <2>3 DEF MoneyInv
<1>2. ASSUME NEW payer \in Address, NEW t \in TokenId, NEW price \in Prices,
             Pays(payer, t, price)
      PROVE  MoneyInv'
  <2>1. RoyaltyFits(payer, t, price) /\ balance' \in Funded
    BY <1>2, PaysMoves DEF TermsInv
  <2>2. RecordsTyped' /\ EarningsMatchHistory'
    BY <1>2, <2>1, RecordedMatches DEF MoneyInv, Pays
  <2>3. QED
    BY <2>1, <2>2 DEF MoneyInv
<1>3. QED
  BY <1>1, <1>2, PaymentCases

-----------------------------------------------------------------------------
(* Theorems of the market *)

\* The market's invariant is inductive on its own.
THEOREM MarketInvariance == MarketSpec => []MarketInv
<1>1. LedgerInit /\ TermsInit /\ MarketInit => MarketInv
  BY DEF MarketInit, MarketInv, ListingsInv, OffersInv, ListingIdsAreUnique,
     OfferIndexIsExact
<1>2. MarketInv /\ [MarketNext]_allVars => MarketInv'
  BY ListingsStep, OffersStep DEF MarketInv
<1>3. QED
  BY <1>1, <1>2, PTL DEF MarketSpec

\* A run of the market is a run of the terms.
THEOREM MarketRefinesTerms == MarketSpec => TermsSpec
<1>1. MarketInv /\ [MarketNext]_allVars => [TermsNext]_<<ledgerVars, termsVars>>
  BY MarketStepsTerms DEF termsLedgerVars
<1>2. QED
  BY <1>1, MarketInvariance, PTL DEF MarketSpec, TermsSpec

\* buy_listing and accept_offer write the ownership record only as the ledger does.
THEOREM MarketRefinesLedger == MarketSpec => LedgerOnly
<1>1. QED
  BY MarketRefinesTerms, TermsRefineLedger, PTL DEF LedgerOnly

\* What is proved of the ledger and of the terms holds with listings, offers and
\* sales: the invariants, the freezes, the blacklist and the registry.
THEOREM MarketKeepsPromises ==
    MarketSpec => /\ [](LedgerInv /\ TermsInv)
                  /\ FrozenTokenStays /\ BlacklistHolds /\ FrozenTermsHold
                  /\ ImplementsRegistry
<1>1. QED
  BY MarketRefinesTerms, TermsRefineLedger, TermsInvariance, FrozenTokensStay,
     BlacklistedStandStill, FrozenTermsStay, Refinement, PTL

\* No listing id is given out twice.
THEOREM ListingIdsUnique == MarketSpec => []ListingIdsAreUnique
<1>1. MarketInv => ListingIdsAreUnique
  BY DEF MarketInv, ListingsInv
<1>2. QED
  BY <1>1, MarketInvariance, PTL

\* The index of offers lists the open offers and nothing else.
THEOREM OfferIndexExact == MarketSpec => []OfferIndexIsExact
<1>1. MarketInv => OfferIndexIsExact
  BY DEF MarketInv, OffersInv
<1>2. QED
  BY <1>1, MarketInvariance, PTL

\* Paused, or with payments disabled, no entry point moves or records money.
THEOREM SwitchesHold == MarketSpec => SwitchesStopSettlement
<1>1. [MarketNext]_allVars =>
          [paused \/ paymentsDisabled => UNCHANGED paymentVars]_allVars
  <2>1. ASSUME NEW c \in Caller, NEW t \in TokenId, buy_listing(c, t) \/ accept_offer(c, t)
        PROVE  ~paused /\ ~paymentsDisabled
    BY <2>1 DEF buy_listing, accept_offer, Settle, RecordRoyalty
  <2>2. ASSUME NEW payer \in Address, NEW t \in TokenId, NEW price \in Prices,
               pay_royalty(payer, t, price)
        PROVE  ~paused /\ ~paymentsDisabled
    BY <2>2 DEF pay_royalty, RecordRoyalty, OpenFor
  <2>3. ListOrOffer => UNCHANGED paymentVars
    BY ListOrOfferCases DEF ListingFrame
  <2>4. QED
    BY <2>1, <2>2, <2>3 DEF MarketNext, Trade, marketVars,
       set_royalty_payments_disabled, Tick
<1>2. QED
  BY <1>1, PTL DEF MarketSpec, SwitchesStopSettlement

\* The types of the market's state and of the money it moves.
MoneyState == SettingsInv /\ PostsInv /\ PricesInv /\ MoneyInv

LEMMA NoDuesYet ==
    /\ DueTotal(<< >>) = 0
    /\ \A a : SumOf([t \in TokenId |-> DueTo(<< >>, a)]) = 0
<1>1. DueTotal(<< >>) = 0 /\ \A a : DueTo(<< >>, a) = 0
  <2>1. /\ [i \in DOMAIN << >> |-> << >>[i].amount] \in [{} -> Int] /\ IsFiniteSet({})
        /\ \A a : [i \in DOMAIN << >> |-> IF << >>[i].who = a THEN << >>[i].amount ELSE 0]
                      \in [{} -> Int]
    BY FS_EmptySet
  <2>2. QED
    BY <2>1, SumLaws DEF DueTotal, DueTo
<1>2. SumOf([t \in TokenId |-> 0]) = 0
  <2> DEFINE w == [t \in TokenId |-> 0]
  <2>1. IsFiniteSet(TokenId) /\ w \in [TokenId -> Nat] /\ w \in [TokenId -> Int]
    BY LedgerAssumption, FS_Interval DEF TokenId
  <2>2. PICK zero \in Int, one \in Int : zero = 0 /\ one = 1
    OBVIOUS
  <2>3. \A t \in TokenId : one * w[t] <= zero * w[t] + zero
    BY <2>2
  <2> HIDE DEF w
  <2>4. one * SumOf(w) <= zero * SumOf(w) + zero * Cardinality(TokenId)
    BY <2>1, <2>2, <2>3, SumsCompare
  <2>5. SumOf(w) \in Nat /\ Cardinality(TokenId) \in Nat
    BY <2>1, SumOfNats, FS_CardinalityType
  <2>6. SumOf(w) = 0
    BY <2>2, <2>4, <2>5
  <2>7. QED
    BY <2>6 DEF w
<1>3. ASSUME NEW a PROVE SumOf([t \in TokenId |-> DueTo(<< >>, a)]) = 0
  <2>1. [t \in TokenId |-> DueTo(<< >>, a)] = [t \in TokenId |-> 0]
    BY <1>1
  <2>2. QED
    BY <1>2, <2>1
<1>4. QED
  BY <1>1, <1>3

LEMMA MoneyStateInit == TermsInit /\ MarketInit => MoneyState
<1> SUFFICES ASSUME TermsInit, MarketInit PROVE MoneyState
  OBVIOUS
<1> USE MarketAssumption
<1>1. SettingsInv
  <2>1. now = 1 /\ paymentsDisabled = FALSE /\ currencies = {}
    BY DEF TermsInit, MarketInit
  <2>2. 1 \in Time
    BY DEF Time
  <2>3. QED
    BY <2>1, <2>2 DEF SettingsInv
<1>2. PostsInv
  BY DEF PostsInv, MarketInit
<1>3. PricesInv
  BY DEF PricesInv, MarketInit
<1>4. balance \in Funded
  BY DEF Funded, MarketInit
<1>5. RecordsTyped
  BY DEF RecordsTyped, MarketInit
<1>6. EarningsMatchHistory
  <2>1. royaltyHistory = [t \in TokenId |-> << >>]
        /\ (\A t \in TokenId : royaltyEarnings[t] = 0)
        /\ (\A a \in Address : creatorEarnings[a] = 0)
    BY DEF MarketInit
  <2>2. ASSUME NEW a
        PROVE  [t \in TokenId |-> DueTo(royaltyHistory[t], a)] =
               [t \in TokenId |-> DueTo(<< >>, a)]
    BY <2>1
  <2>3. QED
    BY <2>1, <2>2, NoDuesYet DEF EarningsMatchHistory
<1>7. QED
  BY <1>1, <1>2, <1>3, <1>4, <1>5, <1>6 DEF MoneyState, MoneyInv

\* What the money's properties rest on is invariant.
THEOREM MoneyInvariance == MarketSpec => [](LedgerInv /\ TermsInv /\ MarketInv /\ MoneyState)
<1>1. TermsInit /\ MarketInit => MoneyState
  BY MoneyStateInit
<1>2. LedgerInv /\ TermsInv /\ MarketInv /\ MoneyState /\ [MarketNext]_allVars => MoneyState'
  BY SettingsStep, PostsStep, PricesStep, MoneyStep DEF MoneyState
<1>3. QED
  BY <1>1, <1>2, MarketInvariance, MarketKeepsPromises, PTL DEF MarketSpec

\* No call takes the market out of its types: in particular no balance, no total
\* and no history ever holds a negative amount, and only accounts are paid.
THEOREM MarketTypes == MarketSpec => []MarketTypeOK
<1>1. MarketInv /\ MoneyState => MarketTypeOK
  BY DEF MarketInv, ListingsInv, OffersInv, OfferIndexIsExact, MoneyState, SettingsInv,
     PostsInv, MoneyInv, RecordsTyped, MarketTypeOK, Funded, DueType
<1>2. QED
  BY <1>1, MoneyInvariance, PTL

\* The two totals are always the sums of the histories.
THEOREM EarningsMatch == MarketSpec => []EarningsMatchHistory
<1>1. MoneyState => EarningsMatchHistory
  BY DEF MoneyState, MoneyInv
<1>2. QED
  BY <1>1, MoneyInvariance, PTL

\* Nobody pays twice for a payment, or more than its price in all, however many
\* recipients share the royalty and whatever the rounding.
THEOREM NoOverpayment == MarketSpec => NobodyOverpays
<1>1. LedgerInv /\ TermsInv /\ MarketInv /\ MoneyState /\ [MarketNext]_allVars =>
          [\A a \in Address : Wealth(a)' < Wealth(a) =>
              \E t \in TokenId, price \in Prices :
                  <<a, t, price>> \in NewPayments /\ Wealth(a) - Wealth(a)' <= price]_allVars
  <2> SUFFICES ASSUME TermsInv, MarketInv, MoneyState, [MarketNext]_allVars, NEW a \in Address,
                      Wealth(a)' < Wealth(a)
               PROVE  \E t \in TokenId, price \in Prices :
                          <<a, t, price>> \in NewPayments /\ Wealth(a) - Wealth(a)' <= price
    OBVIOUS
  <2>1. Wealth(a) = Worth(balance, a) /\ Wealth(a)' = Worth(balance', a)
    BY DEF Wealth, Worth
  <2>2. CASE UNCHANGED paymentVars
    <3>1. balance' = balance
      BY <2>2 DEF paymentVars
    <3>2. Worth(balance, a) \in Nat
      <4>1. [x \in Asset |-> balance[x][a]] \in [Asset -> Nat] /\ IsFiniteSet(Asset)
        BY MarketAssumption DEF MoneyState, MoneyInv, Funded
      <4>2. QED
        BY <4>1, SumOfNats DEF Worth
    <3>3. QED
      BY <2>1, <3>1, <3>2
  <2>3. ASSUME NEW payer \in Address, NEW t \in TokenId, NEW price \in Prices,
               Pays(payer, t, price)
        PROVE  /\ <<a, t, price>> \in NewPayments /\ Wealth(a) - Wealth(a)' <= price
    <3>1. RoyaltyFits(payer, t, price)
          /\ Worth(balance, a) \in Nat /\ Worth(balance', a) \in Nat
          /\ Worth(balance', a) >= Worth(balance, a) - IF a = payer THEN price ELSE 0
      BY <2>3, PaysMoves DEF MoneyState, TermsInv
    <3>2. price \in Nat /\ NewPayments = {<<payer, t, price>>}
      BY <3>1 DEF RoyaltyFits
    <3>3. PICK i \in Nat, j \in Nat : i = Worth(balance, a) /\ j = Worth(balance', a)
      BY <3>1
    <3>4. j < i /\ j >= i - IF a = payer THEN price ELSE 0
      BY <2>1, <3>1, <3>3
    <3>5. a = payer /\ i - j <= price
      BY <3>2, <3>3, <3>4
    <3>6. QED
      BY <2>1, <3>2, <3>3, <3>5
  <2>4. QED
    BY <2>2, <2>3, PaymentCases DEF MoneyState
<1>2. QED
  BY <1>1, MoneyInvariance, PTL DEF MarketSpec, NobodyOverpays

\* Who owns the token when it is sold gets the price less royalties and fee.
THEOREM OwnersArePaid == MarketSpec => OwnerIsPaid
<1>1. LedgerInv /\ TermsInv /\ MarketInv /\ MoneyState /\ [MarketNext]_allVars =>
          [\A t \in TokenId, seller, buyer \in Address, price \in Prices :
               /\ <<buyer, t, price>> \in NewPayments
               /\ tokenOwner[t] = seller
               /\ tokenOwner'[t] # seller
               => Wealth(seller)' - Wealth(seller) >=
                      price - total_royalty(price, Shares(t))
                            - safe_royalty_amount(price, PlatformFeeBps)]_allVars
  <2> SUFFICES ASSUME TermsInv, MarketInv, MoneyState, [MarketNext]_allVars,
                      NEW t \in TokenId, NEW seller \in Address, NEW buyer \in Address,
                      NEW price \in Prices, <<buyer, t, price>> \in NewPayments,
                      tokenOwner[t] = seller, tokenOwner'[t] # seller
               PROVE  Wealth(seller)' - Wealth(seller) >=
                          price - total_royalty(price, Shares(t))
                                - safe_royalty_amount(price, PlatformFeeBps)
    OBVIOUS
  <2>1. Wealth(seller) = Worth(balance, seller) /\ Wealth(seller)' = Worth(balance', seller)
    BY DEF Wealth, Worth
  <2>2. ~ UNCHANGED paymentVars
    BY DEF NewPayments, paymentVars
  <2>3. PICK payer \in Address, u \in TokenId, p \in Prices : Pays(payer, u, p)
    BY <2>2, PaymentCases DEF MoneyState
  <2>4. RoyaltyFits(payer, u, p)
    BY <2>3, PaysMoves DEF MoneyState, TermsInv
  <2>5. payer = buyer /\ u = t /\ p = price
    BY <2>4 DEF RoyaltyFits
  <2>6. /\ Worth(balance, seller) \in Nat /\ Worth(balance', seller) \in Nat
        /\ Worth(balance', seller) >= Worth(balance, seller)
               + (price - total_royalty(price, Shares(t))
                        - safe_royalty_amount(price, PlatformFeeBps))
    BY <2>3, <2>5, PaysMoves DEF MoneyState, TermsInv
  <2>7. /\ price \in Nat /\ total_royalty(price, Shares(t)) \in Nat
        /\ safe_royalty_amount(price, PlatformFeeBps) \in Nat
    BY <2>4, <2>5 DEF RoyaltyFits
  <2>8. QED
    BY <2>1, <2>6, <2>7
<1>2. QED
  BY <1>1, MoneyInvariance, PTL DEF MarketSpec, OwnerIsPaid

=============================================================================
