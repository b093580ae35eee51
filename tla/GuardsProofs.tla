---------------------------- MODULE GuardsProofs ----------------------------
(***************************************************************************)
(* The guards against the entry points, for every set of accounts, tokens, *)
(* terms and prices.  The guards over the ledger follow from its inductive *)
(* invariant; the ones over sales from the checks a sale makes.            *)
(***************************************************************************)
EXTENDS MarketGuards, MarketplaceProofs

\* A list of guards passes when every one of them does.
LEMMA AllPass ==
    ASSUME NEW results, \A i \in DOMAIN results : results[i] = Ok
    PROVE  execute_guards(results) = Ok
  BY DEF execute_guards

\* Of guards that fail one fails first.
LEMMA FirstFailure ==
    ASSUME NEW n \in Nat, NEW results, DOMAIN results = 1 .. n,
           NEW k \in 1 .. n, results[k] # Ok
    PROVE  \E i \in 1 .. n : results[i] # Ok /\ \A j \in 1 .. i - 1 : results[j] = Ok
<1> DEFINE F == {i \in 1 .. n : results[i] # Ok}
           R == OpToRel(<, Nat)
<1>1. F \subseteq Nat /\ F # {}
  OBVIOUS
<1>2. IsWellFoundedOn(R, Nat)
  BY NatLessThanWellFounded
<1>3. PICK i \in F : \A j \in F : ~(<<j, i>> \in R)
  <2> HIDE DEF F, R
  <2>1. QED
    BY <1>1, <1>2, WFMin
<1>4. \A j \in F : ~(j < i)
  BY <1>1, <1>3 DEF OpToRel
<1>5. ASSUME NEW j \in 1 .. i - 1
      PROVE  results[j] = Ok
  <2>1. j \in 1 .. n /\ j < i
    BY <1>1
  <2>2. j \notin F
    BY <1>4, <2>1
  <2>3. QED
    BY <2>1, <2>2
<1>6. QED
  BY <1>5

\* A list of guards passes only when every one of them does, and else answers with
\* the first failure.
LEMMA FailureShows ==
    ASSUME NEW n \in Nat, NEW results, DOMAIN results = 1 .. n,
           NEW k \in 1 .. n, results[k] # Ok
    PROVE  /\ execute_guards(results) # Ok
           /\ \E i \in 1 .. n : /\ execute_guards(results) = results[i]
                                /\ \A j \in 1 .. i - 1 : results[j] = Ok
<1> DEFINE First(i) == results[i] # Ok /\ \A j \in 1 .. i - 1 : results[j] = Ok
           i0 == CHOOSE i \in DOMAIN results : First(i)
<1>1. \E i \in DOMAIN results : First(i)
  BY FirstFailure
<1>2. i0 \in DOMAIN results /\ First(i0)
  <2> HIDE DEF First
  <2>1. QED
    BY <1>1
<1>3. execute_guards(results) = results[i0]
  BY DEF execute_guards
<1>4. i0 \in 1 .. n /\ results[i0] # Ok /\ \A j \in 1 .. i0 - 1 : results[j] = Ok
  BY <1>2
<1>5. QED
  <2> HIDE DEF i0, First
  <2>1. QED
    BY <1>3, <1>4, Zenon

\* Three guards pass exactly when each does.
LEMMA ThreeGuards ==
    ASSUME NEW r1, NEW r2, NEW r3
    PROVE  execute_guards(<<r1, r2, r3>>) = Ok <=> r1 = Ok /\ r2 = Ok /\ r3 = Ok
<1> DEFINE r == <<r1, r2, r3>>
<1>1. DOMAIN r = 1 .. 3 /\ r[1] = r1 /\ r[2] = r2 /\ r[3] = r3
  OBVIOUS
<1> HIDE DEF r
<1>2. ASSUME NEW k \in 1 .. 3, r[k] # Ok
      PROVE  execute_guards(r) # Ok
  BY <1>1, <1>2, FailureShows
<1>3. ASSUME r[1] = Ok, r[2] = Ok, r[3] = Ok
      PROVE  execute_guards(r) = Ok
  <2>1. \A k \in DOMAIN r : r[k] = Ok
    BY <1>1, <1>3
  <2>2. QED
    BY <2>1, AllPass
<1>4. execute_guards(r) = Ok <=> r1 = Ok /\ r2 = Ok /\ r3 = Ok
  BY <1>1, <1>2, <1>3
<1>5. QED
  BY <1>4 DEF r

\* However guards are composed, by a slice of them, by the builder with room for
\* sixteen or by the composition that forgets which one failed, the composition
\* passes for the same results; only the builder can give out.
THEOREM CompositionsAgree ==
    ASSUME NEW results \in Seq(STRING)
    PROVE  /\ GuardComposition_execute(results) = Ok <=> execute_guards(results) = Ok
           /\ Len(results) <= MAX_GUARDS =>
                  GuardBuilder_execute(results) = execute_guards(results)
<1>1. DOMAIN results = 1 .. Len(results) /\ Len(results) \in Nat
  OBVIOUS
<1>2. execute_guards(results) = Ok <=> \A i \in DOMAIN results : results[i] = Ok
  BY <1>1, AllPass, FailureShows
<1>3. GuardComposition_execute(results) = Ok <=> \A i \in DOMAIN results : results[i] = Ok
  BY DEF GuardComposition_execute, from_condition, Ok
<1>4. QED
  BY <1>2, <1>3 DEF GuardBuilder_execute

\* What check_recipient asks.
LEMMA RecipientGuard ==
    ASSUME NEW from, NEW to
    PROVE  check_recipient(from, to) = Ok <=> from # to /\ to # Contract /\ to \notin blacklisted
  BY ThreeGuards DEF check_recipient, from_condition, Ok

\* A sequence passes when both guards do.
LEMMA BothPass ==
    ASSUME NEW first, NEW second
    PROVE  sequence(first, second) = Ok <=> first = Ok /\ second = Ok
  BY DEF sequence

-----------------------------------------------------------------------------
(* The ledger *)

\* The composed guards of a transfer ask what check_transfer asks, given the facts
\* the invariant has of an owned token; nobody's token passes neither.
LEMMA TransferGuard ==
    ASSUME LedgerInv, NEW t \in TokenId, NEW c \in Caller, NEW to \in Address
    PROVE  require_transfer(c, tokenOwner[t], to, t) = Ok
               <=> check_transfer(c, tokenOwner[t], to, t)
<1> DEFINE from == tokenOwner[t]
<1>1. c # None /\ (from # None => t \notin burned /\ tokenData[t] # None)
  BY LedgerAssumption DEF LedgerInv, IdsFollowCounter, Caller
<1>2. require_token_active(t) = Ok <=> from # None /\ t \notin frozen
  BY BothPass DEF require_token_active, require_token_exists, token_exists,
     require_token_not_frozen, from_condition, Ok
<1>3. require_owner_matches(t, from) = Ok <=> from # None
  BY BothPass DEF require_owner_matches, require_token_exists, token_exists,
     from_condition, Ok
<1>4. require_operator_approval(c, from, t) = Ok <=> approval[t] = c \/ <<from, c>> \in operators
  BY DEF require_operator_approval, get_operator_approval, from_condition, Ok
<1>5. require_admin(c) = Ok <=> c = admin
  BY <1>1, BothPass DEF require_admin, check_caller_is_admin, from_condition, Ok
<1>6. require_transfer(c, from, to, t) = Ok <=>
          /\ require_token_active(t) = Ok
          /\ require_owner_matches(t, from) = Ok
          /\ from \notin blacklisted
          /\ \/ c = from
             \/ require_operator_approval(c, from, t) = Ok
             \/ require_admin(c) = Ok
          /\ check_recipient(from, to) = Ok
  BY BothPass DEF require_transfer, from_condition, Ok
<1>7. QED
  BY <1>1, <1>2, <1>3, <1>4, <1>5, <1>6, RecipientGuard DEF check_transfer,
     require_transferable, require_active, require_transfer_authorization

\* The two readings of the owner agree on a token no path left behind.
LEMMA OwnerGuards ==
    ASSUME LedgerInv, NEW t \in TokenId \ unsynced, NEW c \in Caller
    PROVE  guard_token_owner(c, t) = Ok <=> require_owner(c, t) = Ok
<1>1. tokenData[t] = tokenOwner[t] /\ c # None
  BY LedgerAssumption DEF LedgerInv, SyncedIndexIsExact, Caller
<1>2. guard_token_owner(c, t) = Ok <=> tokenData[t] # None /\ tokenData[t] = c
  BY BothPass DEF guard_token_owner, from_condition, Ok
<1>3. require_owner(c, t) = Ok <=> tokenOwner[t] = c
  BY DEF require_owner, check_caller_is_owner, from_condition, Ok
<1>4. QED
  BY <1>1, <1>2, <1>3

\* The guards and the entry points admit the same transfers, and the guards agree
\* on who owns a token.
THEOREM LedgerGuardsAgree == LedgerSpec => []GuardsAgree
<1>1. LedgerInv => GuardsAgree
  BY TransferGuard, OwnerGuards DEF GuardsAgree
<1>2. QED
  BY <1>1, Invariance, PTL

\* A token that changes hands passed the guards, whichever path it took.
THEOREM MovesPassGuards == LedgerSpec => MovesAreGuarded
<1> DEFINE Guarded(t) ==
        /\ require_token_active(t) = Ok
        /\ check_recipient(tokenOwner[t], tokenOwner'[t]) = Ok
        /\ validate_caller(tokenOwner[t]) = Ok
<1>1. ASSUME LedgerInv, [LedgerNext]_ledgerVars, NEW t \in TokenId,
             tokenOwner[t] # None, tokenOwner'[t] \notin {tokenOwner[t], None}
      PROVE  Guarded(t)
  <2>1. ~\E c \in Caller : mint(c)
    <3>1. t < nextTokenId /\ nextTokenId \in Nat
      BY <1>1 DEF LedgerInv, TypeOK, IdsFollowCounter
    <3>2. t # nextTokenId
      BY <3>1 DEF TokenId
    <3>3. QED
      BY <1>1, <3>2 DEF mint, LedgerInv, TypeOK
  <2>2. ~\E c \in Caller, u \in TokenId : burn_token(c, u)
    BY <1>1 DEF burn_token, LedgerInv, TypeOK
  <2>3. /\ {tokenOwner[t], tokenOwner'[t]} \subseteq Caller \ blacklisted
        /\ t \notin frozen
    BY <1>1, <2>1, <2>2, OwnerChanges DEF OwnersMove
  <2>4. require_token_active(t) = Ok
    BY <1>1, <2>3, BothPass DEF require_token_active, require_token_exists,
       token_exists, require_token_not_frozen, from_condition
  <2>5. check_recipient(tokenOwner[t], tokenOwner'[t]) = Ok
    BY <1>1, <2>3, RecipientGuard DEF Caller
  <2>6. validate_caller(tokenOwner[t]) = Ok
    BY <2>3, BothPass DEF validate_caller, from_condition, Caller
  <2>7. QED
    BY <2>4, <2>5, <2>6
<1>2. LedgerInv /\ [LedgerNext]_ledgerVars =>
          [\A t \in TokenId :
               tokenOwner[t] # None /\ tokenOwner'[t] \notin {tokenOwner[t], None} =>
                   Guarded(t)]_ledgerVars
  BY <1>1
<1>3. QED
  BY <1>2, Invariance, PTL DEF LedgerSpec, MovesAreGuarded

-----------------------------------------------------------------------------
(* The terms *)

\* Whoever initialised the contract signed the call.
AdminSigns == admin \in Caller \cup {None}

\* Only init names an administrator.
LEMMA AdminSigned == LedgerSpec => []AdminSigns
<1>1. LedgerInit => AdminSigns
  BY DEF LedgerInit, AdminSigns
<1>2. AdminSigns /\ [LedgerNext]_ledgerVars => AdminSigns'
  <2> SUFFICES ASSUME AdminSigns, [LedgerNext]_ledgerVars PROVE AdminSigns'
    OBVIOUS
  <2>1. CASE Administer
    BY <2>1 DEF AdminSigns, Administer, pause, unpause, init, add_to_blacklist,
       remove_from_blacklist, set_approved_minter, remove_approved_minter,
       freeze_token, unfreeze_token, accessVars
  <2>2. CASE Grant
    BY <2>2 DEF AdminSigns, Grant, approve, revoke_approval, grant_operator,
       revoke_operator, accessVars
  <2>3. CASE \/ UNCHANGED ledgerVars
             \/ MintOrBurn
             \/ \E buyer \in Caller, t \in TokenId : settle_sale(buyer, t)
    BY <2>3 DEF AdminSigns, MintOrBurn, mint, batch_mint, burn_token, settle_sale,
       accessVars, ledgerVars
  <2>4. CASE Transfer
    BY <2>4, TransferCases DEF AdminSigns, service_transfer, HopStep, FollowHops,
       transfer_direct, accessVars
  <2>5. QED
    BY <2>1, <2>2, <2>3, <2>4 DEF LedgerNext
<1>3. QED
  BY <1>1, <1>2, PTL DEF LedgerSpec

\* Terms that pass the checks but for the asset pass the pipeline with no asset.
LEMMA ConfigurationGuard ==
    ASSUME NEW r \in RoyaltyType, validate_royalty(r), validate_royalty_recipients(r)
    PROVE  validate_royalty_configuration([r EXCEPT !.asset = NoAsset]) = Ok
<1> DEFINE r0 == [r EXCEPT !.asset = NoAsset]
<1>1. r0.recipients = r.recipients /\ r0.asset = NoAsset
  BY DEF RoyaltyType
<1> HIDE DEF r0
<1>2. TotalBps(r0) = TotalBps(r)
  BY <1>1, Zenon DEF TotalBps
<1>3. validate_royalty(r0) /\ validate_royalty_recipients(r0)
  BY <1>1, <1>2 DEF validate_royalty, validate_royalty_recipients
<1>4. validate_royalty_asset(r0.asset)
  BY <1>1 DEF validate_royalty_asset
<1>5. validate_royalty_configuration(r0) = Ok
  BY <1>3, <1>4, ThreeGuards DEF validate_royalty_configuration, from_condition, Ok
<1>6. QED
  BY <1>5 DEF r0

\* What the guards say of a caller who may change the terms of a token.
LEMMA TermGuards ==
    ASSUME NEW c \in Caller, NEW t \in TokenId, NEW r \in RoyaltyType,
           ~paused, royalty[t] # None, t \notin royaltyFrozen, t \notin frozen,
           c \notin blacklisted, authorize_royalty_update(c, t),
           validate_royalty(r), validate_royalty_recipients(r)
    PROVE  /\ require_royalty_auth(c, t) = Ok
           /\ require_caller_role(c, "Any", t) = Ok
           /\ validate_royalty_operation(c, t, [r EXCEPT !.asset = NoAsset]) = Ok
           /\ require_token_not_frozen(t) = Ok
<1>1. /\ guard_not_paused = Ok
      /\ authorize_caller(c, t) = Ok
      /\ require_token_not_frozen(t) = Ok
  BY DEF guard_not_paused, authorize_caller, require_token_not_frozen, from_condition
<1>2. validate_state_for_update(t) = Ok
  BY DEF validate_state_for_update, royalty_state, from_condition
<1>3. require_royalty_auth(c, t) = Ok
  BY <1>1, <1>2, ThreeGuards DEF require_royalty_auth
<1>4. validate_caller(c) = Ok /\ check_role(c, "Any", t) = Ok
  BY BothPass DEF validate_caller, check_role, from_condition, Caller
<1>5. require_caller_role(c, "Any", t) = Ok
  BY <1>4, BothPass DEF require_caller_role
<1>6. from_condition(royalty[t] # None, "TokenNotFound") = Ok
  BY DEF from_condition
<1>7. validate_royalty_operation(c, t, [r EXCEPT !.asset = NoAsset]) = Ok
  BY <1>1, <1>2, <1>6, ConfigurationGuard, AllPass
     DEF validate_royalty_operation, validate_royalty_state
<1>8. QED
  BY <1>1, <1>3, <1>5, <1>7

\* Nobody's right to the terms of an owned token escapes the guards.
THEOREM TermChangesPassGuards == TermsSpec => TermChangesAreGuarded
<1> DEFINE Guarded(t) ==
        /\ \E c \in Caller :
               /\ require_royalty_auth(c, t) = Ok
               /\ require_caller_role(c, "Any", t) = Ok
               /\ \E x \in currencies \cup {NoAsset} :
                      validate_royalty_operation(c, t, [royalty'[t] EXCEPT !.asset = x]) = Ok
        /\ require_token_not_frozen(t) = Ok
<1>1. ASSUME LedgerInv, AdminSigns, TermsInv, TermsNext, NEW t \in TokenId,
             royalty'[t] \notin {royalty[t], None}, tokenOwner[t] # None
      PROVE  Guarded(t)
  <2> USE LedgerAssumption, TermsAssumption DEF TermsInv, RoyaltyShape
  <2>1. t < nextTokenId /\ nextTokenId \in Nat /\ tokenData[t] # None
    BY <1>1 DEF LedgerInv, IdsFollowCounter, TypeOK
  <2>2. royalty[t] # None
    BY <1>1, <2>1 DEF TermsFollowRecord
  <2>3. royalty # royalty'
    BY <1>1
  <2>4. ~\E c \in Caller, r \in Royalties, who \in Address : mint_with_terms(c, r, who)
    BY <1>1, <2>1 DEF mint_with_terms, mint, TokenId
  <2>5. ~\E c \in Caller, n \in 1 .. MaxBatchMint :
             \E owners, creators \in [1 .. n -> Address], rs \in [1 .. n -> Royalties] :
                 batch_mint_with_terms(c, n, owners, rs, creators)
    BY <1>1, <2>1 DEF batch_mint_with_terms
  <2>6. ~\E c \in Caller, u \in TokenId : burn_with_terms(c, u)
    BY <1>1 DEF burn_with_terms
  <2>7. PICK u \in TokenId, r \in Royalties :
            set_royalty(u, r) \/ \E c \in Caller : update_royalty(c, u, r)
    BY <1>1, <2>3, <2>4, <2>5, <2>6 DEF TermsNext, TermsStep, MintOrBurnWithTerms,
       ChangeTerms, freeze_royalty, reassign_creator, add_currency, remove_currency,
       termsVars
  <2>8. u = t /\ royalty'[t] = r /\ r \in RoyaltyType
    BY <1>1, <2>7 DEF set_royalty, update_royalty
  <2>9. PICK c \in Caller :
            /\ ~paused /\ t \notin royaltyFrozen /\ t \notin frozen
            /\ c \notin blacklisted /\ authorize_royalty_update(c, t)
            /\ validate_royalty(r) /\ validate_royalty_recipients(r)
    <3>1. CASE set_royalty(u, r)
      <4>1. admin \in Caller /\ authorize_royalty_update(admin, t)
        BY <1>1, <3>1 DEF set_royalty, AdminSigns, authorize_royalty_update
      <4>2. QED
        BY <2>8, <3>1, <4>1 DEF set_royalty
    <3>2. CASE \E c \in Caller : update_royalty(c, u, r)
      BY <2>8, <3>2 DEF update_royalty
    <3>3. QED
      BY <2>7, <3>1, <3>2
  <2>10. QED
    BY <2>2, <2>8, <2>9, TermGuards
<1>2. LedgerInv /\ AdminSigns /\ TermsInv /\ [TermsNext]_<<ledgerVars, termsVars>> =>
          [\A t \in TokenId :
               royalty'[t] \notin {royalty[t], None} /\ tokenOwner[t] # None => Guarded(t)
          ]_<<ledgerVars, termsVars>>
  BY <1>1
<1>3. TermsSpec => []AdminSigns
  BY TermsRefineLedger, AdminSigned, PTL
<1>4. QED
  BY <1>2, <1>3, TermsInvariance, PTL DEF TermsSpec, TermChangesAreGuarded

-----------------------------------------------------------------------------
(* The market *)

\* A sale from a listing makes the checks of the guards of a purchase.
LEMMA SaleGuards ==
    ASSUME LedgerInv, MarketInv, NEW buyer \in Caller, NEW t \in TokenId,
           buy_listing(buyer, t)
    PROVE  LET l == activeListing[t] IN
           /\ tokenOwner'[t] = buyer
           /\ require_purchasable(l) = Ok
           /\ validate_purchase(buyer, t, l, l.deal.asset, l.deal.price) = Ok
           /\ require_transfer(l.seller, l.seller, buyer, t) = Ok
<1> DEFINE l == activeListing[t]
<1> USE LedgerAssumption
<1>1. /\ l # None /\ l.seller \in Caller /\ ~paused /\ t \notin frozen
      /\ buyer \notin blacklisted /\ l.seller \notin blacklisted /\ l.seller # buyer
      /\ ~Expired(l.deal) /\ ValidPrice(l.deal) /\ l.deal.asset \in currencies
      /\ l.deal.price \in Int
      /\ tokenOwner[t] = l.seller /\ l.seller # None
      /\ tokenOwner' = [tokenOwner EXCEPT ![t] = buyer]
  BY DEF buy_listing, Settle, verify_owner, MarketInv, ListingsInv, ListingType,
     DealType, Caller, ValidPrice
<1>2. tokenOwner'[t] = buyer
  BY <1>1 DEF LedgerInv, TypeOK
<1>3. require_purchasable(l) = Ok
  BY <1>1 DEF require_purchasable, require_purchasable_listing,
     check_listing_not_expired, from_condition
<1>4. require_owner_matches(t, l.seller) = Ok /\ require_token_not_frozen(t) = Ok
  BY <1>1, BothPass DEF require_owner_matches, require_token_exists, token_exists,
     require_token_not_frozen, from_condition
<1>5. validate_purchase(buyer, t, l, l.deal.asset, l.deal.price) = Ok
  BY <1>1, <1>4, AllPass DEF validate_purchase, guard_not_paused, from_condition
<1>6. require_transfer(l.seller, l.seller, buyer, t) = Ok
  <2>1. check_transfer(l.seller, tokenOwner[t], buyer, t)
    BY <1>1 DEF check_transfer, require_transferable, require_active, LedgerInv,
       IdsFollowCounter, require_transfer_authorization, Caller
  <2>2. QED
    BY <1>1, <2>1, TransferGuard DEF Caller
<1>7. QED
  BY <1>2, <1>3, <1>5, <1>6

\* Listings that lead to a sale pass the guards of purchases and of transfers.
THEOREM SalesPassGuards == MarketSpec => SalesAreGuarded
<1> DEFINE Sold(t) == /\ activeListing[t] # None
                      /\ activeListing'[t] = None
                      /\ usedPayments' # usedPayments
           Guarded(t, l) ==
               /\ require_purchasable(l) = Ok
               /\ validate_purchase(tokenOwner'[t], t, l, l.deal.asset, l.deal.price) = Ok
               /\ require_transfer(l.seller, l.seller, tokenOwner'[t], t) = Ok
<1>1. ASSUME LedgerInv, MarketInv, MarketNext, NEW t \in TokenId, Sold(t)
      PROVE  Guarded(t, activeListing[t])
  <2>1. activeListing' # activeListing
    BY <1>1
  <2>2. ~ListOrOffer
    BY <1>1, ListOrOfferCases DEF ListingFrame, paymentVars
  <2>3. PICK c \in Caller, u \in TokenId : buy_listing(c, u)
    BY <1>1, <2>1, <2>2 DEF MarketNext, Trade, accept_offer, listingVars, marketVars,
       pay_royalty, set_royalty_payments_disabled, Tick
  <2>4. u = t
    BY <1>1, <2>3 DEF buy_listing, MarketInv, ListingsInv
  <2>5. QED
    BY <1>1, <2>3, <2>4, SaleGuards
<1>2. LedgerInv /\ MarketInv /\ [MarketNext]_allVars =>
          [\A t \in TokenId : Sold(t) => Guarded(t, activeListing[t])]_allVars
  BY <1>1
<1>3. QED
  BY <1>2, MarketInvariance, MarketKeepsPromises, PTL DEF MarketSpec, SalesAreGuarded
=============================================================================
