---------------------------- MODULE EventsProofs ----------------------------
(***************************************************************************)
(* What a reader of the events knows, for every set of accounts, tokens,   *)
(* terms and prices and every batch size: the ledger's reader knows the    *)
(* owners and the grants, the market's the listings, the offers and what   *)
(* was earned.                                                             *)
(***************************************************************************)
EXTENDS LedgerEvents, MarketEvents, MarketplaceProofs

-----------------------------------------------------------------------------
(* The ledger *)

ReaderInv ==
    /\ LedgerInv
    /\ DOMAIN seenHolder = TokenId /\ DOMAIN seenSpender = TokenId
    /\ ReaderKnowsHolders
    /\ ReaderKnowsGrants

-----------------------------------------------------------------------------
(* The steps of the ledger *)

\* The events change nothing in the ledger.
LEMMA EventsFollowLedger == [EventNext]_eventVars => [LedgerNext]_ledgerVars
<1> SUFFICES ASSUME [EventNext]_eventVars PROVE [LedgerNext]_ledgerVars
  OBVIOUS
<1>1. CASE UNCHANGED eventVars
  BY <1>1 DEF eventVars
<1>2. CASE AdministerTold
  BY <1>2 DEF AdministerTold, Administer, LedgerNext
<1>3. CASE GrantTold
  BY <1>3 DEF GrantTold, Grant, LedgerNext
<1>4. CASE MintOrBurnTold
  BY <1>4 DEF MintOrBurnTold, MintOrBurn, LedgerNext
<1>5. CASE TransferTold
  BY <1>5 DEF TransferTold, Transfer, LedgerNext
<1> QED
  BY <1>1, <1>2, <1>3, <1>4, <1>5 DEF EventNext, LedgerNext

\* A transfer announces, for each token it moves, the new owner, and moved it
\* from the owner that was stored.
LEMMA TransferTells ==
    ASSUME LedgerInv,
           \/ TransferTold
           \/ \E buyer \in Caller, t \in TokenId :
                  settle_sale(buyer, t) /\ emit_nft_transferred([x \in {t} |-> buyer])
    PROVE  \E to :
               /\ IsBatch(to) /\ emit_nft_transferred(to)
               /\ \A t \in DOMAIN to : tokenOwner[t] # None
               /\ tokenOwner' = [t \in TokenId |->
                                     IF t \in DOMAIN to THEN to[t] ELSE tokenOwner[t]]
               /\ \A t \in TokenId \ DOMAIN to : tokenData'[t] = tokenData[t]
               /\ \A t \in TokenId : approval'[t] \in {approval[t], None}
               /\ UNCHANGED <<operators, frozen, paused>>
<1> USE DEF LedgerInv, TypeOK, IsBatch, Caller
<1>1. ASSUME NEW c \in Caller, NEW to, IsBatch(to), service_transfer(c, to),
             emit_nft_transferred(to)
      PROVE  /\ \A t \in DOMAIN to : tokenOwner[t] # None
             /\ tokenOwner' = [t \in TokenId |->
                                   IF t \in DOMAIN to THEN to[t] ELSE tokenOwner[t]]
             /\ \A t \in TokenId \ DOMAIN to : tokenData'[t] = tokenData[t]
             /\ \A t \in TokenId : approval'[t] \in {approval[t], None}
             /\ UNCHANGED <<operators, frozen, paused>>
  BY <1>1 DEF service_transfer, check_transfer, require_transferable, require_active,
     accessVars, grantVars, statusVars
<1>2. ASSUME NEW c \in Caller, NEW hop, HopStep(c, hop)
      PROVE  LET to == [t \in DOMAIN hop |-> HopLast(hop, t)] IN
             /\ IsBatch(to)
             /\ \A t \in DOMAIN to : tokenOwner[t] # None
             /\ tokenOwner' = [t \in TokenId |->
                                   IF t \in DOMAIN to THEN to[t] ELSE tokenOwner[t]]
             /\ \A t \in TokenId \ DOMAIN to : tokenData'[t] = tokenData[t]
             /\ \A t \in TokenId : approval'[t] \in {approval[t], None}
             /\ UNCHANGED <<operators, frozen, paused>>
  <2>1. \A t \in DOMAIN hop : HopLast(hop, t) \in Address
    BY <1>2, HopFacts DEF HopStep
  <2>2. ASSUME NEW t \in DOMAIN hop PROVE tokenOwner[t] # None
    <3>1. HopAllowed(c, hop, t, 1)
      BY <1>2, HopFacts DEF HopStep
    <3> QED BY <3>1 DEF HopAllowed, HopFrom
  <2> QED
    BY <1>2, <2>1, <2>2 DEF HopStep, IsHopBatch, FollowHops, accessVars, statusVars
<1>3. ASSUME NEW c \in Caller, NEW dest \in Address, NEW t \in TokenId,
             transfer_direct(c, dest, t) \/ (settle_sale(c, t) /\ dest = c)
      PROVE  LET to == [x \in {t} |-> dest] IN
             /\ IsBatch(to)
             /\ \A x \in DOMAIN to : tokenOwner[x] # None
             /\ tokenOwner' = [x \in TokenId |->
                                   IF x \in DOMAIN to THEN to[x] ELSE tokenOwner[x]]
             /\ \A x \in TokenId \ DOMAIN to : tokenData'[x] = tokenData[x]
             /\ \A x \in TokenId : approval'[x] \in {approval[x], None}
             /\ UNCHANGED <<operators, frozen, paused>>
  BY <1>3 DEF transfer_direct, settle_sale, check_transfer, require_transferable,
     require_active, accessVars, grantVars, statusVars
<1>4. CASE \E c \in Caller, dest \in Address, t \in TokenId :
               /\ transfer(c, dest, t) \/ transfer_as_operator(c, dest, t)
               /\ emit_nft_transferred([x \in {t} |-> dest])
  <2>1. PICK c \in Caller, dest \in Address, t \in TokenId :
            /\ service_transfer(c, [x \in {t} |-> dest])
            /\ emit_nft_transferred([x \in {t} |-> dest])
    BY <1>4 DEF transfer, transfer_as_operator
  <2>2. IsBatch([x \in {t} |-> dest])
    OBVIOUS
  <2> QED BY <1>1, <2>1, <2>2
<1>5. CASE \E c \in Caller, to \in Batches : batch_transfer(c, to) /\ emit_nft_transferred(to)
  <2>1. PICK c \in Caller, to \in Batches : batch_transfer(c, to) /\ emit_nft_transferred(to)
    BY <1>5
  <2>2. IsBatch(to) /\ service_transfer(c, to)
    BY <2>1 DEF Batches, batch_transfer
  <2> QED BY <1>1, <2>1, <2>2
<1>6. CASE \E c \in Caller, hop \in HopBatches :
               /\ batch_transfer_guarded(c, hop)
               /\ emit_nft_transferred([t \in DOMAIN hop |-> HopLast(hop, t)])
  <2>1. PICK c \in Caller, hop \in HopBatches :
            /\ batch_transfer_guarded(c, hop)
            /\ emit_nft_transferred([t \in DOMAIN hop |-> HopLast(hop, t)])
    BY <1>6
  <2>2. HopStep(c, hop)
    BY <2>1, LedgerAssumption DEF HopBatches, Paths, IsHopBatch, HopStep,
       batch_transfer_guarded
  <2> QED BY <1>2, <2>1, <2>2
<1>7. CASE \E c \in Caller, dest \in Address, t \in TokenId :
               transfer_with_result(c, dest, t) /\ emit_nft_transferred([x \in {t} |-> dest])
  <2>1. PICK c \in Caller, dest \in Address, t \in TokenId :
            transfer_with_result(c, dest, t) /\ emit_nft_transferred([x \in {t} |-> dest])
    BY <1>7
  <2> DEFINE hop == [x \in {t} |-> [i \in {1} |-> dest]]
             to == [x \in {t} |-> dest]
  <2>2. hop[t] \in [1 .. 1 -> Address] /\ DOMAIN hop = {t} /\ hop[t][1] = dest
    OBVIOUS
  <2>3. HopLast(hop, t) = dest
    <3>1. Cardinality(DOMAIN hop[t]) = 1
      BY <2>2, FS_Singleton
    <3> QED BY <2>2, <3>1 DEF HopLast
  <2>4. FollowHops(hop)
    BY <2>1 DEF transfer_with_result
  <2>5. tokenOwner[t] # None
    BY <2>1 DEF transfer_with_result, check_transfer, require_transferable, require_active
  <2> HIDE DEF hop
  <2>6. /\ tokenOwner' = [x \in TokenId |-> IF x \in DOMAIN to THEN to[x] ELSE tokenOwner[x]]
        /\ \A x \in TokenId \ DOMAIN to : tokenData'[x] = tokenData[x]
        /\ \A x \in TokenId : approval'[x] \in {approval[x], None}
        /\ UNCHANGED <<operators, frozen, paused>>
    BY <2>2, <2>3, <2>4 DEF FollowHops, accessVars, statusVars
  <2> QED BY <2>1, <2>5, <2>6
<1>8. CASE \E c \in Caller, dest \in Address, t \in TokenId :
               transfer_direct(c, dest, t) /\ emit_nft_transferred([x \in {t} |-> dest])
  <2>1. PICK c \in Caller, dest \in Address, t \in TokenId :
            transfer_direct(c, dest, t) /\ emit_nft_transferred([x \in {t} |-> dest])
    BY <1>8
  <2> QED BY <1>3, <2>1
<1>9. CASE \E buyer \in Caller, t \in TokenId :
               settle_sale(buyer, t) /\ emit_nft_transferred([x \in {t} |-> buyer])
  <2>1. PICK buyer \in Caller, t \in TokenId :
            settle_sale(buyer, t) /\ emit_nft_transferred([x \in {t} |-> buyer])
    BY <1>9
  <2> QED BY <1>3, <2>1
<1> QED
  BY <1>4, <1>5, <1>6, <1>7, <1>8, <1>9 DEF TransferTold

-----------------------------------------------------------------------------
(* The invariant *)

LEMMA ReaderInit == LedgerInit /\ SeenInit => ReaderInv
  BY InvInit DEF LedgerInit, SeenInit, ReaderInv, ReaderKnowsHolders, ReaderKnowsGrants

\* The reader follows a mint and a burn.
LEMMA MintTold ==
    ASSUME ReaderInv, MintOrBurnTold
    PROVE  ReaderKnowsHolders' /\ ReaderKnowsGrants'
<1> USE LedgerAssumption DEF ReaderInv, LedgerInv, TypeOK, ReaderKnowsHolders,
        ReaderKnowsGrants, Caller, statusSeen, grantsSeen, accessVars, grantVars, statusVars
<1>1. ASSUME NEW c \in Caller, mint(c), emit_mint([t \in {nextTokenId} |-> c])
      PROVE  ReaderKnowsHolders' /\ ReaderKnowsGrants'
  <2>1. nextTokenId \in TokenId /\ c # None
    BY <1>1 DEF mint, TokenId
  <2>2. ReaderKnowsHolders'
    BY <1>1, <2>1 DEF mint, emit_mint
  <2> QED BY <1>1, <2>2 DEF mint, emit_mint
<1>2. ASSUME NEW c \in Caller, NEW n \in 1 .. MaxBatchMint, NEW owners \in [1 .. n -> Address],
             batch_mint(c, n, owners),
             emit_mint([t \in nextTokenId + 1 .. nextTokenId + n |-> owners[t - nextTokenId]])
      PROVE  ReaderKnowsHolders' /\ ReaderKnowsGrants'
  <2> DEFINE ids == nextTokenId + 1 .. nextTokenId + n
  <2>1. \A t \in ids \cap TokenId : tokenOwner[t] = None
    BY DEF IdsFollowCounter, TokenId
  <2>2. /\ gapless' = gapless /\ tokenOwner' = tokenOwner
        /\ \A t \in TokenId :
               /\ tokenData'[t] = IF t \in ids THEN owners[t - nextTokenId] ELSE tokenData[t]
               /\ seenHolder'[t] = IF t \in ids THEN owners[t - nextTokenId] ELSE seenHolder[t]
        /\ seenHolder' \in [TokenId -> {seenHolder'[t] : t \in TokenId}]
    BY <1>2 DEF batch_mint, emit_mint
  <2>3. ReaderKnowsHolders'
    BY <2>1, <2>2
  <2> QED BY <1>2, <2>3 DEF batch_mint, emit_mint
<1>3. ASSUME NEW c \in Caller, NEW t \in TokenId, burn_token(c, t), emit_nft_burned(t)
      PROVE  ReaderKnowsHolders' /\ ReaderKnowsGrants'
  <2>1. tokenOwner[t] # None
    BY <1>3 DEF burn_token, require_active
  <2>2. /\ tokenOwner' = [tokenOwner EXCEPT ![t] = None]
        /\ tokenData' = [tokenData EXCEPT ![t] = None]
        /\ seenHolder' = [seenHolder EXCEPT ![t] = None]
        /\ gapless' = (gapless /\ seenHolder[t] = tokenOwner[t])
    BY <1>3 DEF burn_token, emit_nft_burned
  <2>3. gapless'
    BY <2>1, <2>2
  <2>4. ASSUME NEW u \in TokenId
        PROVE  seenHolder'[u] =
                   IF tokenOwner'[u] # None THEN tokenOwner'[u] ELSE tokenData'[u]
    <3>1. CASE u = t
      BY <2>2, <3>1
    <3>2. CASE u # t
      BY <2>2, <3>2
    <3> QED BY <3>1, <3>2
  <2>5. ReaderKnowsHolders'
    BY <2>3, <2>4
  <2> QED BY <1>3, <2>5 DEF burn_token, emit_nft_burned
<1> QED BY <1>1, <1>2, <1>3 DEF MintOrBurnTold

\* Administration and grants leave the holders alone.
LEMMA AdministerAndGrantTold ==
    ASSUME ReaderInv, AdministerTold \/ GrantTold
    PROVE  ReaderKnowsHolders' /\ ReaderKnowsGrants'
<1> USE DEF silent, seenVars, holdersSeen, statusSeen, grantsSeen, accessVars, grantVars,
        statusVars, ownerVars
<1>0. /\ ReaderKnowsHolders /\ ReaderKnowsGrants /\ DOMAIN seenSpender = TokenId
      /\ DOMAIN approval = TokenId
  BY DEF ReaderInv, LedgerInv, TypeOK
<1>1. UNCHANGED <<seenHolder, gapless, tokenOwner, tokenData>>
  <2>1. CASE AdministerTold
    BY <2>1 DEF AdministerTold, pause, unpause, init, add_to_blacklist, remove_from_blacklist,
       set_approved_minter, remove_approved_minter, freeze_token, unfreeze_token,
       emit_contract_paused, emit_nft_frozen, emit_nft_unfrozen
  <2>2. CASE GrantTold
    BY <2>2 DEF GrantTold, approve, revoke_approval, grant_operator, revoke_operator,
       emit_approval_granted, emit_token_approval_revoked, emit_operator_granted,
       emit_operator_approval_revoked
  <2> QED BY <2>1, <2>2
<1>2. ReaderKnowsHolders'
  BY <1>0, <1>1 DEF ReaderKnowsHolders
<1>3. CASE AdministerTold
  <2>1. CASE pause /\ emit_contract_paused(TRUE)
    BY <1>0, <1>2, <2>1 DEF pause, emit_contract_paused, ReaderKnowsGrants
  <2>2. CASE unpause /\ emit_contract_paused(FALSE)
    BY <1>0, <1>2, <2>2 DEF unpause, emit_contract_paused, ReaderKnowsGrants
  <2>3. ASSUME silent, UNCHANGED <<grantVars, frozen, paused>>
        PROVE  ReaderKnowsGrants'
    BY <1>0, <2>3 DEF ReaderKnowsGrants
  <2>4. CASE \E a \in Caller : init(a) /\ silent
    BY <1>2, <2>3, <2>4 DEF init
  <2>5. CASE \E a \in Address : /\ \/ add_to_blacklist(a)
                                    \/ remove_from_blacklist(a)
                                    \/ set_approved_minter(a)
                                    \/ remove_approved_minter(a)
                                 /\ silent
    BY <1>2, <2>3, <2>5 DEF add_to_blacklist, remove_from_blacklist, set_approved_minter,
       remove_approved_minter
  <2>6. CASE \E t \in TokenId : freeze_token(t) /\ emit_nft_frozen(t)
    BY <1>0, <1>2, <2>6 DEF freeze_token, emit_nft_frozen, ReaderKnowsGrants
  <2>7. CASE \E t \in TokenId : unfreeze_token(t) /\ emit_nft_unfrozen(t)
    BY <1>0, <1>2, <2>7 DEF unfreeze_token, emit_nft_unfrozen, ReaderKnowsGrants
  <2> QED BY <1>2, <1>3, <2>1, <2>2, <2>4, <2>5, <2>6, <2>7 DEF AdministerTold
<1>4. CASE GrantTold
  <2>1. ASSUME NEW o \in Caller, NEW t \in TokenId,
               revoke_approval(o, t), emit_token_approval_revoked(t)
        PROVE  ReaderKnowsGrants'
    BY <1>0, <1>2, <2>1 DEF revoke_approval, emit_token_approval_revoked, ReaderKnowsGrants
  <2>2. ASSUME NEW o \in Caller, NEW t \in TokenId, NEW op \in Address,
               approve(o, op, t), emit_approval_granted(op, t)
        PROVE  ReaderKnowsGrants'
    <3>1. /\ approval' = [approval EXCEPT ![t] = op]
          /\ seenSpender' = [seenSpender EXCEPT ![t] = op]
          /\ UNCHANGED <<operators, frozen, paused, seenOperators, seenFrozen, seenPaused>>
      BY <1>0, <1>2, <2>2 DEF approve, emit_approval_granted
    <3> QED BY <1>0, <3>1 DEF ReaderKnowsGrants
  <2>3. ASSUME NEW o \in Caller, NEW op \in Address,
               \/ grant_operator(o, op) /\ emit_operator_granted(o, op)
               \/ revoke_operator(o, op) /\ emit_operator_approval_revoked(o, op)
        PROVE  ReaderKnowsGrants'
    BY <1>0, <2>3 DEF grant_operator, revoke_operator, emit_operator_granted,
       emit_operator_approval_revoked, ReaderKnowsGrants
  <2> QED BY <1>2, <1>4, <2>1, <2>2, <2>3 DEF GrantTold
<1> QED BY <1>2, <1>3, <1>4

LEMMA ReaderStep == ReaderInv /\ [EventNext]_eventVars => ReaderInv'
<1> SUFFICES ASSUME ReaderInv, [EventNext]_eventVars PROVE ReaderInv'
  OBVIOUS
<1>1. LedgerInv'
  BY EventsFollowLedger, InvStep DEF ReaderInv
<1>2. DOMAIN seenHolder' = TokenId /\ DOMAIN seenSpender' = TokenId
  <2>1. seenHolder' = seenHolder \/ DOMAIN seenHolder' \in {TokenId, DOMAIN seenHolder}
    BY DEF EventNext, eventVars, seenVars, silent, grantsSeen, statusSeen, holdersSeen,
       AdministerTold, GrantTold, MintOrBurnTold, TransferTold, emit_mint, emit_nft_transferred,
       emit_nft_burned, emit_approval_granted, emit_token_approval_revoked,
       emit_operator_granted, emit_operator_approval_revoked, emit_nft_frozen,
       emit_nft_unfrozen, emit_contract_paused
  <2>2. seenSpender' = seenSpender \/ DOMAIN seenSpender' = DOMAIN seenSpender
    BY DEF EventNext, eventVars, seenVars, silent, grantsSeen, statusSeen, holdersSeen,
       AdministerTold, GrantTold, MintOrBurnTold, TransferTold, emit_mint, emit_nft_transferred,
       emit_nft_burned, emit_approval_granted, emit_token_approval_revoked,
       emit_operator_granted, emit_operator_approval_revoked, emit_nft_frozen,
       emit_nft_unfrozen, emit_contract_paused
  <2> QED BY <2>1, <2>2 DEF ReaderInv
<1>3. SUFFICES ReaderKnowsHolders' /\ ReaderKnowsGrants'
  BY <1>1, <1>2 DEF ReaderInv
<1>4. CASE UNCHANGED eventVars
  BY <1>4 DEF eventVars, ledgerVars, accessVars, grantVars, statusVars, ownerVars, seenVars,
     grantsSeen, statusSeen, holdersSeen, ReaderInv, ReaderKnowsHolders, ReaderKnowsGrants
<1>5. CASE AdministerTold \/ GrantTold
  BY <1>5, AdministerAndGrantTold
<1>6. CASE MintOrBurnTold
  BY <1>6, MintTold
<1>7. CASE \/ TransferTold
           \/ \E buyer \in Caller, t \in TokenId :
                  settle_sale(buyer, t) /\ emit_nft_transferred([x \in {t} |-> buyer])
  <2>1. PICK to :
            /\ IsBatch(to) /\ emit_nft_transferred(to)
            /\ \A t \in DOMAIN to : tokenOwner[t] # None
            /\ tokenOwner' = [t \in TokenId |->
                                  IF t \in DOMAIN to THEN to[t] ELSE tokenOwner[t]]
            /\ \A t \in TokenId \ DOMAIN to : tokenData'[t] = tokenData[t]
            /\ \A t \in TokenId : approval'[t] \in {approval[t], None}
            /\ UNCHANGED <<operators, frozen, paused>>
    BY <1>7, TransferTells DEF ReaderInv
  <2>2. ReaderKnowsHolders'
    BY <2>1, LedgerAssumption DEF emit_nft_transferred, IsBatch, ReaderInv, ReaderKnowsHolders
  <2>3. ReaderKnowsGrants'
    BY <2>1 DEF emit_nft_transferred, grantsSeen, statusSeen, ReaderInv, ReaderKnowsGrants
  <2> QED BY <2>2, <2>3
<1> QED BY <1>4, <1>5, <1>6, <1>7 DEF EventNext

-----------------------------------------------------------------------------
(* What the runs check, for every value of the constants *)

\* transfer_event.rs, mint_event.rs, burn_event.rs: the events alone tell who
\* holds each token, and no transfer names a previous owner they did not tell.
THEOREM HoldersAreTold == EventSpec => []ReaderKnowsHolders
<1>1. ReaderInv => ReaderKnowsHolders
  BY DEF ReaderInv
<1> QED BY <1>1, ReaderInit, ReaderStep, PTL DEF EventSpec

\* Operators, freezes and the pause are told exactly, and so is every approval
\* that still holds.
THEOREM GrantsAreTold == EventSpec => []ReaderKnowsGrants
<1>1. ReaderInv => ReaderKnowsGrants
  BY DEF ReaderInv
<1> QED BY <1>1, ReaderInit, ReaderStep, PTL DEF EventSpec

\* Publishing events adds no behaviour to the ledger: what is proved of it
\* holds here too.
THEOREM EventsAreLedgerSteps == EventSpec => LedgerSpec
  BY EventsFollowLedger, PTL DEF EventSpec, LedgerSpec

-----------------------------------------------------------------------------
(* The market: its reader only watches *)

\* A step with its events is a step of the market.
LEMMA EventsFollowMarket == [MarketEventNext]_marketEventVars => [MarketNext]_allVars
<1>1. ListOrOfferTold => ListOrOffer
  BY DEF ListOrOfferTold, ListOrOffer
<1>2. TradeTold => Trade
  BY DEF TradeTold, Trade
<1>3. QED
  BY <1>1, <1>2 DEF MarketEventNext, MarketNext, PaymentTold, Untold, marketEventVars

\* Every run of the market with its reader is a run of the market.
THEOREM EventsAreMarketSteps == MarketEventSpec => MarketSpec
<1>1. QED
  BY EventsFollowMarket, PTL DEF MarketEventSpec, MarketSpec

-----------------------------------------------------------------------------
(* What the events of each entry point say *)

\* The reader's knowledge, with the types it takes to tell a record from none.
KnowledgeInv ==
    /\ activeListing \in [TokenId -> ListingType \cup {None}]
    /\ listing \in [TokenId -> PostType \cup {None}]
    /\ ReaderKnowsMarket

dealVars == <<activeListing, listing, offer, creatorEarnings>>

LEMMA NothingTold ==
    ASSUME KnowledgeInv, UNCHANGED dealVars, UNCHANGED marketSeen
    PROVE  KnowledgeInv'
BY DEF KnowledgeInv, ReaderKnowsMarket, dealVars, marketSeen

LEMMA DealsAreTyped ==
    ASSUME NEW deal \in Deals, ValidDeal(deal)
    PROVE  deal \in DealType
BY DEF ValidDeal, ValidPrice, Deals, DealType

\* list_nft and the event without an expiration.
LEMMA PostTold ==
    ASSUME KnowledgeInv, NEW c \in Caller, NEW t \in TokenId, NEW deal \in Deals,
           list_nft(c, t, deal), emit_nft_listed(t, c, deal)
    PROVE  KnowledgeInv'
<1> DEFINE l == [seller |-> c, deal |-> deal]
<1>1. deal \in DealType
  BY DealsAreTyped DEF list_nft, validate_listing
<1>2. l \in PostType /\ l # None
  BY <1>1, MarketAssumption DEF PostType
<1>3. Posted(l) = [seller |-> c, price |-> deal.price, asset |-> deal.asset]
  BY <1>2 DEF Posted
<1>4. /\ listing' = [listing EXCEPT ![t] = l]
      /\ seenPosted' = [seenPosted EXCEPT ![t] = Posted(l)]
      /\ UNCHANGED <<activeListing, offer, creatorEarnings, seenListing, seenOffer, seenEarned>>
  BY <1>3 DEF list_nft, emit_nft_listed, offerVars, paymentVars, earningVars
<1> HIDE DEF l
<1>5. seenPosted' = [u \in TokenId |-> Posted(listing'[u])]
  BY <1>4 DEF KnowledgeInv, ReaderKnowsMarket
<1>6. QED
  BY <1>2, <1>4, <1>5 DEF KnowledgeInv, ReaderKnowsMarket

\* A listing that is written, with the event that tells it, is known.
LEMMA ListingWritten ==
    ASSUME KnowledgeInv, NEW t \in TokenId, NEW l \in ListingType \cup {None},
           activeListing' = [activeListing EXCEPT ![t] = l],
           seenListing' = [seenListing EXCEPT ![t] = Listed(l)]
    PROVE  /\ activeListing' \in [TokenId -> ListingType \cup {None}]
           /\ seenListing' = [u \in TokenId |-> Listed(activeListing'[u])]
BY DEF KnowledgeInv, ReaderKnowsMarket

\* create_listing: the event lacks the id only.
LEMMA ListingTold ==
    ASSUME KnowledgeInv, nextListingId \in Nat \ {0},
           NEW c \in Caller, NEW t \in TokenId, NEW deal \in Deals,
           create_listing(c, t, deal), emit_listing_created(t, c, deal)
    PROVE  KnowledgeInv'
<1> DEFINE l == [id |-> nextListingId, seller |-> c, deal |-> deal]
<1>1. deal \in DealType /\ nextListingId \in 1 .. MaxListings
  BY DealsAreTyped, MarketAssumption DEF create_listing, validate_listing, generate_listing_id
<1>2. l \in ListingType /\ l # None
  BY <1>1, MarketAssumption DEF ListingType
<1>3. Listed(l) = [seller |-> c, deal |-> deal]
  BY <1>2 DEF Listed
<1>4. /\ activeListing' = [activeListing EXCEPT ![t] = l]
      /\ seenListing' = [seenListing EXCEPT ![t] = Listed(l)]
      /\ UNCHANGED <<listing, offer, creatorEarnings, seenPosted, seenOffer, seenEarned>>
  BY <1>3 DEF create_listing, emit_listing_created, offerVars, paymentVars, earningVars
<1> HIDE DEF l
<1>5. QED
  BY <1>2, <1>4, ListingWritten DEF KnowledgeInv, ReaderKnowsMarket

\* update_listing: the asset, which the event does not name, does not change.
LEMMA UpdateTold ==
    ASSUME KnowledgeInv, NEW c \in Caller, NEW t \in TokenId, NEW price \in Prices,
           NEW expiration \in Time,
           update_listing(c, t, price, expiration), emit_listing_updated(t, price, expiration)
    PROVE  KnowledgeInv'
<1> DEFINE old == activeListing[t]
           deal == [price |-> price, asset |-> old.deal.asset, expiration |-> expiration]
           l == [old EXCEPT !.deal = deal]
<1>1. old \in ListingType
  BY DEF update_listing, KnowledgeInv
<1>2. deal \in DealType
  BY <1>1 DEF update_listing, ValidPrice, ListingType, DealType
<1>3. l \in ListingType /\ l # None /\ l.seller = old.seller /\ l.deal = deal
  BY <1>1, <1>2, MarketAssumption DEF ListingType
<1>4. seenListing[t] = [seller |-> old.seller, deal |-> old.deal]
  BY <1>1, MarketAssumption DEF KnowledgeInv, ReaderKnowsMarket, Listed
<1>5. Listed(l) = [seller |-> old.seller, deal |-> deal]
  BY <1>3 DEF Listed
<1> DEFINE known == seenListing[t]
<1>6. seenListing' = [seenListing EXCEPT ![t] = Listed(l)]
  <2>1. known.deal.asset = old.deal.asset
    BY <1>4
  <2>2. seenListing' = [seenListing EXCEPT ![t] = [known EXCEPT !.deal = deal]]
    BY <2>1 DEF emit_listing_updated
  <2>3. [known EXCEPT !.deal = deal] = [seller |-> old.seller, deal |-> deal]
    <3> HIDE DEF known, deal, old
    <3>1. QED
      BY <1>4 DEF known, old
  <2>4. QED
    BY <1>5, <2>2, <2>3
<1>7. /\ activeListing' = [activeListing EXCEPT ![t] = l]
      /\ UNCHANGED <<listing, offer, creatorEarnings, seenPosted, seenOffer, seenEarned>>
  BY DEF update_listing, emit_listing_updated, offerVars, paymentVars, earningVars
<1> HIDE DEF l
<1>8. QED
  BY <1>3, <1>6, <1>7, ListingWritten DEF KnowledgeInv, ReaderKnowsMarket

\* cancel_listing and what nft_sold says of the listing.
LEMMA ListingClosed ==
    ASSUME KnowledgeInv, NEW t \in TokenId,
           activeListing' = [activeListing EXCEPT ![t] = None],
           seenListing' = [seenListing EXCEPT ![t] = None],
           UNCHANGED <<listing, offer, seenPosted, seenOffer>>,
           seenEarned' = creatorEarnings'
    PROVE  KnowledgeInv'
<1>1. Listed(None) = None
  BY DEF Listed
<1>2. QED
  BY <1>1, ListingWritten DEF KnowledgeInv, ReaderKnowsMarket

\* The events of a payment add up to what the payment adds to the earnings.
LEMMA RoyaltyTold ==
    ASSUME KnowledgeInv, NEW payer, NEW t, NEW price,
           RecordRoyalty(payer, t, price), emit_royalty_paid(t, price)
    PROVE  seenEarned' = creatorEarnings'
BY DEF KnowledgeInv, ReaderKnowsMarket, RecordRoyalty, increment_creator_earnings,
       emit_royalty_paid

LEMMA ListOrOfferIsTold ==
    ASSUME KnowledgeInv, nextListingId \in Nat \ {0}, ListOrOfferTold
    PROVE  KnowledgeInv'
<1>1. ASSUME NEW c \in Caller, NEW t \in TokenId, NEW deal \in Deals,
             make_offer(c, t, deal), emit_offer_made(t, c, deal)
      PROVE  KnowledgeInv'
  BY <1>1 DEF make_offer, save_offer, emit_offer_made, listingVars, paymentVars,
     earningVars, KnowledgeInv, ReaderKnowsMarket
<1>2. ASSUME NEW c \in Caller, NEW t \in TokenId,
             cancel_offer(c, t), emit_offer_cancelled(t)
      PROVE  KnowledgeInv'
  BY <1>2 DEF cancel_offer, remove_offer, emit_offer_cancelled, listingVars,
     paymentVars, earningVars, KnowledgeInv, ReaderKnowsMarket
<1>3. ASSUME NEW c \in Caller, NEW t \in TokenId,
             cancel_listing(c, t), emit_listing_cancelled(t)
      PROVE  KnowledgeInv'
  <2>1. /\ activeListing' = [activeListing EXCEPT ![t] = None]
        /\ seenListing' = [seenListing EXCEPT ![t] = None]
        /\ UNCHANGED <<listing, offer, seenPosted, seenOffer, seenEarned, creatorEarnings>>
    BY <1>3 DEF cancel_listing, emit_listing_cancelled, offerVars, paymentVars, earningVars
  <2>2. seenEarned' = creatorEarnings'
    BY <2>1 DEF KnowledgeInv, ReaderKnowsMarket
  <2>3. QED
    BY <2>1, <2>2, ListingClosed
<1>4. QED
  BY <1>1, <1>2, <1>3, PostTold, ListingTold, UpdateTold DEF ListOrOfferTold

LEMMA TradeIsTold ==
    ASSUME KnowledgeInv, TradeTold
    PROVE  KnowledgeInv'
<1>1. ASSUME NEW c \in Caller, NEW t \in TokenId, buy_listing(c, t), emit_nft_sold(t)
      PROVE  KnowledgeInv'
  <2>1. seenEarned' = creatorEarnings'
    BY <1>1, RoyaltyTold DEF buy_listing, Settle, emit_nft_sold
  <2>2. QED
    BY <1>1, <2>1, ListingClosed DEF buy_listing, emit_nft_sold, offerVars
<1>2. ASSUME NEW c \in Caller, NEW t \in TokenId, accept_offer(c, t), emit_offer_accepted(t)
      PROVE  KnowledgeInv'
  <2>1. seenEarned' = creatorEarnings'
    BY <1>2, RoyaltyTold DEF accept_offer, Settle, emit_offer_accepted
  <2>2. QED
    BY <1>2, <2>1 DEF accept_offer, remove_offer, emit_offer_accepted, listingVars,
       KnowledgeInv, ReaderKnowsMarket
<1>3. QED
  BY <1>1, <1>2 DEF TradeTold

LEMMA KnowledgeStep == MarketInv /\ KnowledgeInv /\ [MarketEventNext]_marketEventVars => KnowledgeInv'
<1> SUFFICES ASSUME MarketInv, KnowledgeInv, [MarketEventNext]_marketEventVars
             PROVE  KnowledgeInv'
  OBVIOUS
<1>1. nextListingId \in Nat \ {0}
  BY DEF MarketInv, ListingsInv
<1>2. CASE PaymentTold
  <2>1. seenEarned' = creatorEarnings'
    BY <1>2, RoyaltyTold DEF PaymentTold, pay_royalty
  <2>2. QED
    BY <1>2, <2>1 DEF PaymentTold, pay_royalty, listingVars, offerVars, KnowledgeInv,
       ReaderKnowsMarket
<1>3. CASE Untold /\ UNCHANGED marketSeen
  <2>1. UNCHANGED dealVars
    BY <1>3 DEF Untold, marketVars, set_royalty_payments_disabled, Tick, listingVars,
       offerVars, paymentVars, earningVars, dealVars
  <2>2. QED
    BY <1>3, <2>1, NothingTold
<1>4. CASE UNCHANGED marketEventVars
  <2>1. UNCHANGED dealVars /\ UNCHANGED marketSeen
    BY <1>4 DEF marketEventVars, allVars, marketVars, listingVars, offerVars, paymentVars,
       earningVars, dealVars
  <2>2. QED
    BY <2>1, NothingTold
<1>5. QED
  BY <1>1, <1>2, <1>3, <1>4, ListOrOfferIsTold, TradeIsTold DEF MarketEventNext

\* Who follows the events knows the open listings and offers and the earnings.
THEOREM MarketIsTold == MarketEventSpec => []ReaderKnowsMarket
<1>1. MarketInit /\ MarketSeenInit => KnowledgeInv
  BY DEF MarketInit, MarketSeenInit, KnowledgeInv, ReaderKnowsMarket, Listed, Posted
<1>2. KnowledgeInv => ReaderKnowsMarket
  BY DEF KnowledgeInv
<1>3. QED
  BY <1>1, <1>2, KnowledgeStep, EventsAreMarketSteps, MarketInvariance, PTL
     DEF MarketEventSpec
=============================================================================
