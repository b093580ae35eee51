---------------------------- MODULE LedgerProofs ----------------------------
(***************************************************************************)
(* The ledger's invariants for every set of accounts, every number of      *)
(* tokens and every batch size, by induction over its steps; and the       *)
(* royalty terms for every set of assets and terms: a run of the terms is  *)
(* a run of the ledger, so the ledger's invariant holds of it.             *)
(***************************************************************************)
EXTENDS LedgerRefinement, RoyaltyTerms, FiniteSetTheorems, TLAPS

-----------------------------------------------------------------------------
(* The steps by what they do to ownership *)

\* Recipients for some tokens, and paths of recipients for some tokens.
IsBatch(to) == DOMAIN to \subseteq TokenId /\ \A t \in DOMAIN to : to[t] \in Address
IsHopBatch(hop) ==
    /\ DOMAIN hop \subseteq TokenId
    /\ \A t \in DOMAIN hop : \E n \in Nat \ {0} : hop[t] \in [1 .. n -> Address]

\* A step that leaves ownership, its indices and the id counter alone.
Quiet == UNCHANGED <<indexVars, ownerVars, burned, approval, nextTokenId, unsynced>>

\* The step of a guarded batch or of transfer_with_result.
HopStep(c, hop) ==
    /\ IsHopBatch(hop)
    /\ \A t \in DOMAIN hop : \A i \in DOMAIN hop[t] : HopAllowed(c, hop, t, i)
    /\ FollowHops(hop)

\* The last hop of a path is one of its accounts, reached by an allowed hop.
LEMMA HopFacts ==
    ASSUME NEW hop, IsHopBatch(hop), NEW t \in DOMAIN hop
    PROVE  \E n \in Nat \ {0} :
               /\ hop[t] \in [1 .. n -> Address]
               /\ HopLast(hop, t) = hop[t][n]
               /\ HopLast(hop, t) \in Address
<1>1. PICK n \in Nat \ {0} : hop[t] \in [1 .. n -> Address]
  BY DEF IsHopBatch
<1>2. Cardinality(1 .. n) = n
  BY FS_Interval
<1>3. HopLast(hop, t) = hop[t][n]
  BY <1>1, <1>2 DEF HopLast
<1>4. QED
  BY <1>1, <1>3

\* A transfer, alone or in a batch, is a batch of the service, a chain of hops or
\* the direct transfer.
LEMMA TransferCases ==
    ASSUME Transfer
    PROVE  \/ \E c \in Caller : \E to : IsBatch(to) /\ service_transfer(c, to)
           \/ \E c \in Caller : \E hop : HopStep(c, hop)
           \/ \E c \in Caller, dest \in Address, t \in TokenId : transfer_direct(c, dest, t)
<1>1. ASSUME NEW c \in Caller, NEW dest \in Address, NEW t \in TokenId,
             transfer(c, dest, t) \/ transfer_as_operator(c, dest, t)
      PROVE  \E to : IsBatch(to) /\ service_transfer(c, to)
  <2>1. service_transfer(c, [x \in {t} |-> dest])
    BY <1>1 DEF transfer, transfer_as_operator
  <2>2. IsBatch([x \in {t} |-> dest])
    BY DEF IsBatch
  <2>3. QED
    BY <2>1, <2>2
<1>2. ASSUME NEW c \in Caller, NEW to \in Batches, batch_transfer(c, to)
      PROVE  IsBatch(to) /\ service_transfer(c, to)
  BY <1>2 DEF Batches, IsBatch, batch_transfer
<1>3. ASSUME NEW c \in Caller, NEW dest \in Address, NEW t \in TokenId,
             transfer_with_result(c, dest, t)
      PROVE  \E hop : HopStep(c, hop)
  <2> DEFINE hop == [x \in {t} |-> [i \in {1} |-> dest]]
  <2>1. hop[t] \in [1 .. 1 -> Address] /\ DOMAIN hop = {t} /\ DOMAIN hop[t] = {1}
    OBVIOUS
  <2>2. IsHopBatch(hop)
    BY <2>1 DEF IsHopBatch
  <2>3. HopAllowed(c, hop, t, 1)
    BY <1>3 DEF transfer_with_result, check_transfer, require_transferable,
         require_active, require_transfer_authorization, HopAllowed, HopFrom
  <2>4. FollowHops(hop)
    BY <1>3 DEF transfer_with_result
  <2> HIDE DEF hop
  <2>5. HopStep(c, hop)
    BY <2>1, <2>2, <2>3, <2>4 DEF HopStep
  <2>6. QED
    BY <2>5
<1>4. ASSUME NEW c \in Caller, NEW hop \in HopBatches, batch_transfer_guarded(c, hop)
      PROVE  HopStep(c, hop)
  <2>1. IsHopBatch(hop)
    BY LedgerAssumption DEF HopBatches, Paths, IsHopBatch
  <2>2. QED
    BY <1>4, <2>1 DEF batch_transfer_guarded, HopStep
<1>5. QED
  BY <1>1, <1>2, <1>3, <1>4 DEF Transfer

\* Every step of the ledger is one of ten kinds.
LEMMA NextCases ==
    ASSUME [LedgerNext]_ledgerVars
    PROVE  \/ Quiet /\ (Administer \/ Grant \/ UNCHANGED ledgerVars)
           \/ \E a \in Caller : init(a)
           \/ \E o \in Caller, op \in Address, t \in TokenId : approve(o, op, t)
           \/ \E o \in Caller, t \in TokenId : revoke_approval(o, t)
           \/ \E c \in Caller : mint(c)
           \/ \E c \in Caller, n \in 1 .. MaxBatchMint :
                  \E owners \in [1 .. n -> Address] : batch_mint(c, n, owners)
           \/ \E c \in Caller, t \in TokenId : burn_token(c, t)
           \/ \E c \in Caller : \E to : IsBatch(to) /\ service_transfer(c, to)
           \/ \E c \in Caller : \E hop : HopStep(c, hop)
           \/ \E c \in Caller, dest \in Address, t \in TokenId : transfer_direct(c, dest, t)
           \/ \E buyer \in Caller, t \in TokenId : settle_sale(buyer, t)
<1>1. CASE UNCHANGED ledgerVars
  BY <1>1 DEF ledgerVars, Quiet, statusVars, grantVars
<1>2. CASE Administer
  BY <1>2 DEF Administer, Quiet, pause, unpause, add_to_blacklist,
       remove_from_blacklist, set_approved_minter, remove_approved_minter,
       freeze_token, unfreeze_token, grantVars, statusVars
<1>3. CASE Grant
  BY <1>3 DEF Grant, Quiet, grant_operator, revoke_operator, statusVars
<1>4. CASE MintOrBurn
  BY <1>4 DEF MintOrBurn
<1>5. QED
  BY <1>1, <1>2, <1>3, <1>4, TransferCases DEF LedgerNext

-----------------------------------------------------------------------------
(* Types *)

\* One step of the ledger keeps every variable in its type.
LEMMA TypeStep == TypeOK /\ [LedgerNext]_ledgerVars => TypeOK'
<1> SUFFICES ASSUME TypeOK, [LedgerNext]_ledgerVars PROVE TypeOK'
  OBVIOUS
<1> USE LedgerAssumption DEF TypeOK, TokenId, Caller, accessVars, grantVars,
        indexVars, statusVars, ownerVars
<1>1. ASSUME NEW a \in Caller, init(a) PROVE TypeOK'
  BY <1>1 DEF init
<1>2. CASE pause \/ unpause
  BY <1>2 DEF pause, unpause
<1>3. ASSUME NEW a \in Address, add_to_blacklist(a) \/ remove_from_blacklist(a)
      PROVE TypeOK'
  BY <1>3 DEF add_to_blacklist, remove_from_blacklist
<1>4. ASSUME NEW a \in Address, set_approved_minter(a) \/ remove_approved_minter(a)
      PROVE TypeOK'
  BY <1>4 DEF set_approved_minter, remove_approved_minter
<1>5. ASSUME NEW t \in TokenId, freeze_token(t) \/ unfreeze_token(t) PROVE TypeOK'
  BY <1>5 DEF freeze_token, unfreeze_token
<1>6. ASSUME NEW o \in Caller, NEW t \in TokenId, revoke_approval(o, t) PROVE TypeOK'
  BY <1>6 DEF revoke_approval
<1>7. ASSUME NEW o \in Caller, NEW op \in Address, NEW t \in TokenId,
              approve(o, op, t)
       PROVE TypeOK'
  BY <1>7 DEF approve
<1>8. ASSUME NEW o \in Caller, NEW op \in Address,
             grant_operator(o, op) \/ revoke_operator(o, op)
      PROVE TypeOK'
  <2>1. <<o, op>> \in Address \X Address
    OBVIOUS
  <2>2. operators' \subseteq Address \X Address
    BY <1>8, <2>1 DEF grant_operator, revoke_operator
  <2>3. QED
    BY <1>8, <2>2 DEF grant_operator, revoke_operator
<1>9. ASSUME NEW c \in Caller, mint(c) PROVE TypeOK'
  BY <1>9 DEF mint
<1>10. ASSUME NEW c \in Caller, NEW n \in 1 .. MaxBatchMint,
             NEW owners \in [1 .. n -> Address], batch_mint(c, n, owners)
      PROVE TypeOK'
  <2> DEFINE ids == nextTokenId + 1 .. nextTokenId + n
  <2>1. ids \subseteq TokenId /\ nextTokenId + n \in 0 .. MaxTokens
    BY <1>10 DEF batch_mint
  <2>2. \A t \in ids : owners[t - nextTokenId] \in Address
    BY <2>1
  <2>3. QED
    BY <1>10, <2>1, <2>2 DEF batch_mint
<1>11. ASSUME NEW c \in Caller, NEW t \in TokenId, burn_token(c, t) PROVE TypeOK'
  BY <1>11 DEF burn_token, require_active
<1>12. ASSUME NEW c \in Caller, NEW to, IsBatch(to), service_transfer(c, to)
       PROVE TypeOK'
  BY <1>12 DEF service_transfer, Moved, IsBatch
<1>13. ASSUME NEW c \in Caller, NEW hop, HopStep(c, hop) PROVE TypeOK'
  <2>1. IsHopBatch(hop) /\ DOMAIN hop \subseteq TokenId
    BY <1>13 DEF IsHopBatch, HopStep
  <2>2. \A t \in DOMAIN hop : HopLast(hop, t) \in Address
    BY <2>1, HopFacts
  <2>3. tokenOwner' \in [TokenId -> Address \cup {None}]
    BY <1>13, <2>2 DEF FollowHops, HopStep
  <2>4. tokenData' \in [TokenId -> Address \cup {None}]
    BY <1>13, <2>2 DEF FollowHops, HopStep
  <2>5. approval' \in [TokenId -> Address \cup {None}]
    BY <1>13 DEF FollowHops, HopStep
  <2>6. walletTokens' \in [Address -> SUBSET TokenId]
    BY <1>13, <2>1 DEF FollowHops, HopStep
  <2>7. QED
    BY <1>13, <2>3, <2>4, <2>5, <2>6 DEF FollowHops, HopStep
<1>14. ASSUME NEW c \in Caller, NEW dest \in Address, NEW t \in TokenId,
              transfer_direct(c, dest, t)
       PROVE TypeOK'
  BY <1>14 DEF transfer_direct
<1>15. ASSUME NEW buyer \in Caller, NEW t \in TokenId, settle_sale(buyer, t)
       PROVE TypeOK'
  BY <1>15 DEF settle_sale
<1>16. CASE UNCHANGED ledgerVars
  BY <1>16 DEF ledgerVars
<1>17. CASE Administer
  BY <1>17, <1>1, <1>2, <1>3, <1>4, <1>5 DEF Administer
<1>18. CASE Grant
  BY <1>18, <1>6, <1>8, <1>7 DEF Grant
<1>19. QED
  BY NextCases, <1>1, <1>6, <1>9, <1>10, <1>11, <1>12, <1>13, <1>14, <1>7,
     <1>15, <1>16, <1>17, <1>18

-----------------------------------------------------------------------------
(* The inductive invariant, one lemma for each kind of step *)

\* A step that leaves ownership alone keeps what is said about ownership.
LEMMA QuietKeeps ==
    ASSUME LedgerInv, TypeOK', Quiet, Administer \/ Grant \/ UNCHANGED ledgerVars
    PROVE  LedgerInv'
<1>1. (admin = None => nextTokenId = 0)'
  BY DEF LedgerInv, IdsFollowCounter, Quiet, Administer, Grant, init, pause, unpause,
     add_to_blacklist, remove_from_blacklist, set_approved_minter,
     remove_approved_minter, freeze_token, unfreeze_token, approve,
     revoke_approval, grant_operator, revoke_operator, accessVars, ledgerVars
<1>2. (\A t \in TokenId : t \in frozen => t < nextTokenId)'
  <2>1. frozen' \subseteq frozen \cup {t \in TokenId : require_active(t)}
    BY DEF Administer, Grant, init, pause, unpause,
       add_to_blacklist, remove_from_blacklist, set_approved_minter,
       remove_approved_minter, freeze_token, unfreeze_token, approve,
       revoke_approval, grant_operator, revoke_operator, statusVars, ledgerVars
  <2>2. QED
    BY <2>1 DEF LedgerInv, IdsFollowCounter, Quiet, require_active
<1>3. QED
  BY <1>1, <1>2 DEF LedgerInv, Quiet, indexVars, ownerVars, IdsFollowCounter,
     BurnedStaysGone, NoOrphanApproval, ContractHoldsNothing,
     OwnedTokenIsListed, SyncedIndexIsExact, OnePortfolioPerToken

\* init resets the counter, which is still zero, and an approval is granted on
\* an owned token only.
LEMMA InitAndApprovalsKeep ==
    ASSUME LedgerInv, TypeOK',
           \/ \E a \in Caller : init(a)
           \/ \E o \in Caller, op \in Address, t \in TokenId : approve(o, op, t)
           \/ \E o \in Caller, t \in TokenId : revoke_approval(o, t)
    PROVE  LedgerInv'
<1> USE LedgerAssumption DEF LedgerInv, TypeOK, IdsFollowCounter, BurnedStaysGone,
        NoOrphanApproval, ContractHoldsNothing, OwnedTokenIsListed,
        SyncedIndexIsExact, OnePortfolioPerToken, indexVars, ownerVars,
        statusVars, accessVars, Caller
<1>1. CASE \E a \in Caller : init(a)
  BY <1>1 DEF init, grantVars
<1>2. CASE \E o \in Caller, op \in Address, t \in TokenId : approve(o, op, t)
  BY <1>2 DEF approve, require_active
<1>3. CASE \E o \in Caller, t \in TokenId : revoke_approval(o, t)
  BY <1>3 DEF revoke_approval, require_active
<1>4. QED
  BY <1>1, <1>2, <1>3

\* The id a mint hands out was never owned, burned or listed.
LEMMA MintKeeps ==
    ASSUME LedgerInv, TypeOK', NEW c \in Caller, mint(c)
    PROVE  LedgerInv'
<1> DEFINE n == nextTokenId
<1> USE LedgerAssumption DEF Caller, TypeOK, TokenId, mint, indexVars, ownerVars,
        statusVars, accessVars, grantVars
<1>1. /\ n \in TokenId /\ n \notin burned /\ tokenOwner[n] = None
      /\ approval[n] = None /\ nextTokenId' = n + 1 /\ c # Contract /\ c # None
  BY DEF LedgerInv, IdsFollowCounter, BurnedStaysGone, NoOrphanApproval
<1>2. IdsFollowCounter'
  BY <1>1 DEF LedgerInv, IdsFollowCounter, require_mint_auth
<1>3. BurnedStaysGone'
  BY <1>1 DEF LedgerInv, BurnedStaysGone
<1>4. NoOrphanApproval'
  BY <1>1 DEF LedgerInv, NoOrphanApproval
<1>5. ContractHoldsNothing'
  BY <1>1 DEF LedgerInv, ContractHoldsNothing
<1>6. OwnedTokenIsListed'
  BY <1>1 DEF LedgerInv, OwnedTokenIsListed
<1>7. SyncedIndexIsExact'
  BY <1>1 DEF LedgerInv, SyncedIndexIsExact
<1>8. OnePortfolioPerToken'
  BY DEF LedgerInv, OnePortfolioPerToken
<1>9. QED
  BY <1>2, <1>3, <1>4, <1>5, <1>6, <1>7, <1>8 DEF LedgerInv

\* The ids of a batch mint lie above the counter, where no index names any.
LEMMA BatchMintKeeps ==
    ASSUME LedgerInv, TypeOK', NEW c \in Caller, NEW n \in 1 .. MaxBatchMint,
           NEW owners \in [1 .. n -> Address], batch_mint(c, n, owners)
    PROVE  LedgerInv'
<1> DEFINE ids == nextTokenId + 1 .. nextTokenId + n
<1> USE LedgerAssumption DEF Caller, TypeOK, TokenId, indexVars, ownerVars,
        statusVars, accessVars, grantVars
<1>1. /\ ids \subseteq TokenId
      /\ nextTokenId' = nextTokenId + n
      /\ unsynced' = unsynced \cup ids
      /\ UNCHANGED <<admin, approval, burned, frozen, tokenOwner>>
      /\ admin # None
  BY DEF batch_mint, require_mint_auth
<1>2. \A t \in ids : /\ owners[t - nextTokenId] \in Address \ {Contract}
                     /\ t \notin burned /\ tokenOwner[t] = None
                     /\ t > nextTokenId /\ t <= nextTokenId'
  BY <1>1 DEF batch_mint, LedgerInv, IdsFollowCounter, BurnedStaysGone
<1>3. \A t \in TokenId : tokenData'[t] = IF t \in ids THEN owners[t - nextTokenId]
                                                    ELSE tokenData[t]
  BY DEF batch_mint
<1>4. \A a \in Address :
          /\ ownerTokens'[a] = ownerTokens[a] \cup {t \in ids : owners[t - nextTokenId] = a}
          /\ walletTokens'[a] = walletTokens[a] \cup {t \in ids : owners[t - nextTokenId] = a}
  BY DEF batch_mint
<1> HIDE DEF ids
<1>5. IdsFollowCounter'
  BY <1>1, <1>2, <1>3, <1>4 DEF LedgerInv, IdsFollowCounter
<1>6. BurnedStaysGone'
  BY <1>1, <1>2, <1>3 DEF LedgerInv, BurnedStaysGone
<1>7. NoOrphanApproval'
  BY <1>1 DEF LedgerInv, NoOrphanApproval
<1>8. ContractHoldsNothing'
  BY <1>1, <1>2, <1>3, <1>4 DEF LedgerInv, ContractHoldsNothing
<1>9. OwnedTokenIsListed'
  BY <1>1, <1>4 DEF LedgerInv, OwnedTokenIsListed
<1>10. SyncedIndexIsExact'
  BY <1>1, <1>3, <1>4 DEF LedgerInv, SyncedIndexIsExact
<1>11. OnePortfolioPerToken'
  <2> SUFFICES ASSUME NEW a \in Address, NEW b \in Address, a # b,
                      NEW t, t \in ownerTokens'[a], t \in ownerTokens'[b]
               PROVE  FALSE
    BY DEF OnePortfolioPerToken
  <2>1. CASE t \in ids
    <3>1. t > nextTokenId /\ t \in Nat /\ nextTokenId \in Nat
      BY <2>1, <1>1, <1>2 DEF LedgerInv
    <3>2. t \notin ownerTokens[a] /\ t \notin ownerTokens[b]
      BY <3>1 DEF LedgerInv, IdsFollowCounter
    <3>3. QED
      BY <2>1, <3>2, <1>4
  <2>2. CASE t \notin ids
    BY <2>2, <1>4 DEF LedgerInv, OnePortfolioPerToken
  <2>3. QED
    BY <2>1, <2>2
<1>12. QED
  BY <1>5, <1>6, <1>7, <1>8, <1>9, <1>10, <1>11 DEF LedgerInv

\* A burn takes the id out of every record.
LEMMA BurnKeeps ==
    ASSUME LedgerInv, TypeOK', NEW c \in Caller, NEW t \in TokenId, burn_token(c, t)
    PROVE  LedgerInv'
<1> USE LedgerAssumption DEF Caller, TypeOK, burn_token, require_active, accessVars
<1>1. tokenOwner[t] \in Address /\ tokenOwner[t] # None /\ t < nextTokenId
  BY DEF LedgerInv, IdsFollowCounter
<1>2. IdsFollowCounter'
  BY <1>1 DEF LedgerInv, IdsFollowCounter
<1>3. BurnedStaysGone'
  BY <1>1 DEF LedgerInv, BurnedStaysGone
<1>4. NoOrphanApproval'
  BY <1>1 DEF LedgerInv, NoOrphanApproval
<1>5. ContractHoldsNothing'
  BY <1>1 DEF LedgerInv, ContractHoldsNothing
<1>6. OwnedTokenIsListed'
  BY <1>1 DEF LedgerInv, OwnedTokenIsListed
<1>7. SyncedIndexIsExact'
  BY <1>1 DEF LedgerInv, SyncedIndexIsExact
<1>8. OnePortfolioPerToken'
  BY <1>1 DEF LedgerInv, OnePortfolioPerToken
<1>9. QED
  BY <1>2, <1>3, <1>4, <1>5, <1>6, <1>7, <1>8 DEF LedgerInv

\* The service transfer moves the records and each index that lists the token.
LEMMA ServiceTransferKeeps ==
    ASSUME LedgerInv, TypeOK', NEW c \in Caller, NEW to, IsBatch(to),
           service_transfer(c, to)
    PROVE  LedgerInv'
<1> USE LedgerAssumption DEF TypeOK, accessVars, grantVars, statusVars
<1>1. /\ UNCHANGED <<admin, approval, burned, frozen, nextTokenId, unsynced>>
      /\ \A t \in TokenId :
            /\ tokenOwner'[t] = IF t \in DOMAIN to THEN to[t] ELSE tokenOwner[t]
            /\ tokenData'[t] = IF t \in DOMAIN to THEN to[t] ELSE tokenData[t]
  BY DEF service_transfer
<1>2. \A t \in DOMAIN to :
          /\ t \in TokenId /\ to[t] \in Address \ {Contract} /\ to[t] # None
          /\ tokenOwner[t] \in Address /\ tokenOwner[t] # to[t]
          /\ tokenOwner[t] # None
  BY DEF LedgerInv, IsBatch, service_transfer, check_transfer,
     require_transferable, require_active
<1>3. \A a \in Address :
          /\ ownerTokens'[a] = (ownerTokens[a] \ {t \in DOMAIN to : tokenOwner[t] = a})
                 \cup {t \in DOMAIN to : to[t] = a /\ t \in ownerTokens[tokenOwner[t]]}
          /\ walletTokens'[a] = (walletTokens[a] \ {t \in DOMAIN to : tokenOwner[t] = a})
                 \cup {t \in DOMAIN to : to[t] = a /\ t \in walletTokens[tokenOwner[t]]}
  BY DEF service_transfer, Moved
<1>4. IdsFollowCounter'
  BY <1>1, <1>2, <1>3 DEF LedgerInv, IdsFollowCounter
<1>5. BurnedStaysGone'
  BY <1>1, <1>2 DEF LedgerInv, BurnedStaysGone
<1>6. NoOrphanApproval'
  BY <1>1, <1>2 DEF LedgerInv, NoOrphanApproval
<1>7. ContractHoldsNothing'
  BY <1>1, <1>2, <1>3 DEF LedgerInv, ContractHoldsNothing
<1>8. OwnedTokenIsListed'
  <2> SUFFICES ASSUME NEW t \in TokenId, tokenOwner'[t] # None
               PROVE  \E a \in Address : t \in walletTokens'[a]
    BY DEF OwnedTokenIsListed
  <2>1. PICK a \in Address : t \in walletTokens[a]
    BY <1>1, <1>2 DEF LedgerInv, OwnedTokenIsListed
  <2>2. CASE t \in DOMAIN to /\ tokenOwner[t] = a
    BY <2>1, <2>2, <1>2, <1>3
  <2>3. CASE ~(t \in DOMAIN to /\ tokenOwner[t] = a)
    BY <2>1, <2>3, <1>3
  <2>4. QED
    BY <2>2, <2>3
<1>9. SyncedIndexIsExact'
  BY <1>1, <1>2, <1>3 DEF LedgerInv, SyncedIndexIsExact
<1>10. OnePortfolioPerToken'
  BY <1>2, <1>3 DEF LedgerInv, OnePortfolioPerToken
<1>11. QED
  BY <1>4, <1>5, <1>6, <1>7, <1>8, <1>9, <1>10 DEF LedgerInv

\* A chain of hops starts at the owner and ends at an account that passed the
\* recipient checks; the wallet index names that account only.
LEMMA HopsKeep ==
    ASSUME LedgerInv, TypeOK', NEW c \in Caller, NEW hop, HopStep(c, hop)
    PROVE  LedgerInv'
<1> USE LedgerAssumption DEF TypeOK, accessVars, statusVars
<1>1. /\ UNCHANGED <<admin, burned, frozen, nextTokenId, unsynced, ownerTokens>>
      /\ DOMAIN hop \subseteq TokenId
      /\ \A t \in TokenId :
            approval'[t] = IF t \in DOMAIN hop THEN None ELSE approval[t]
  BY DEF HopStep, FollowHops, IsHopBatch
<1>2. ASSUME NEW t \in DOMAIN hop
      PROVE  /\ HopLast(hop, t) \in Address \ {Contract} /\ HopLast(hop, t) # None
             /\ tokenOwner[t] \in Address /\ tokenOwner[t] # None
             /\ tokenData[t] # None /\ t \in TokenId
             /\ \E i \in DOMAIN hop[t] : HopFrom(hop, t, i) = tokenOwner[t]
  <2>1. PICK n \in Nat \ {0} : /\ hop[t] \in [1 .. n -> Address]
                               /\ HopLast(hop, t) = hop[t][n]
                               /\ HopLast(hop, t) \in Address
    BY HopFacts DEF HopStep
  <2>2. /\ 1 \in DOMAIN hop[t] /\ n \in DOMAIN hop[t]
        /\ HopAllowed(c, hop, t, 1) /\ HopAllowed(c, hop, t, n)
    BY <2>1 DEF HopStep
  <2>3. HopFrom(hop, t, 1) = tokenOwner[t] /\ tokenOwner[t] # None
    BY <2>2 DEF HopAllowed, HopFrom
  <2>4. HopLast(hop, t) # Contract
    BY <2>1, <2>2 DEF HopAllowed
  <2>5. QED
    BY <1>1, <2>1, <2>2, <2>3, <2>4 DEF LedgerInv, IdsFollowCounter
<1>3. \A t \in TokenId :
          /\ tokenOwner'[t] = IF t \in DOMAIN hop THEN HopLast(hop, t) ELSE tokenOwner[t]
          /\ tokenData'[t] = IF t \in DOMAIN hop THEN HopLast(hop, t) ELSE tokenData[t]
  BY <1>2 DEF HopStep, FollowHops
<1>4. \A a \in Address :
          walletTokens'[a] =
              (walletTokens[a] \ {t \in DOMAIN hop :
                                     \E i \in DOMAIN hop[t] : HopFrom(hop, t, i) = a})
                  \cup {t \in DOMAIN hop : HopLast(hop, t) = a}
  BY DEF HopStep, FollowHops
<1>5. IdsFollowCounter'
  BY <1>1, <1>2, <1>3 DEF LedgerInv, IdsFollowCounter
<1>6. BurnedStaysGone'
  <2>1. \A t \in burned : t \notin DOMAIN hop
    BY <1>2 DEF LedgerInv, BurnedStaysGone
  <2>2. QED
    BY <1>1, <1>3, <2>1 DEF LedgerInv, BurnedStaysGone
<1>7. NoOrphanApproval'
  BY <1>1, <1>2, <1>3 DEF LedgerInv, NoOrphanApproval
<1>8. ContractHoldsNothing'
  BY <1>1, <1>2, <1>3, <1>4 DEF LedgerInv, ContractHoldsNothing
<1>9. OwnedTokenIsListed'
  <2> SUFFICES ASSUME NEW t \in TokenId, tokenOwner'[t] # None
               PROVE  \E a \in Address : t \in walletTokens'[a]
    BY DEF OwnedTokenIsListed
  <2>1. CASE t \in DOMAIN hop
    BY <2>1, <1>2, <1>4
  <2>2. CASE t \notin DOMAIN hop
    BY <2>2, <1>3, <1>4 DEF LedgerInv, OwnedTokenIsListed
  <2>3. QED
    BY <2>1, <2>2
<1>10. SyncedIndexIsExact'
  <2> SUFFICES ASSUME NEW t \in TokenId, t \notin unsynced
               PROVE  /\ tokenData'[t] = tokenOwner'[t]
                      /\ \A a \in Address :
                            t \in walletTokens'[a] <=> (tokenOwner'[t] = a /\ a # None)
    BY <1>1 DEF SyncedIndexIsExact
  <2>1. CASE t \in DOMAIN hop
    BY <2>1, <1>2, <1>3, <1>4 DEF LedgerInv, SyncedIndexIsExact
  <2>2. CASE t \notin DOMAIN hop
    BY <2>2, <1>3, <1>4 DEF LedgerInv, SyncedIndexIsExact
  <2>3. QED
    BY <2>1, <2>2
<1>11. OnePortfolioPerToken'
  BY <1>1 DEF LedgerInv, OnePortfolioPerToken
<1>12. QED
  BY <1>5, <1>6, <1>7, <1>8, <1>9, <1>10, <1>11 DEF LedgerInv

\* The two paths that write the owner record alone: the token stays listed by
\* the wallet that listed it before.
LEMMA UnindexedMovesKeep ==
    ASSUME LedgerInv, TypeOK',
           \/ \E c \in Caller, dest \in Address, t \in TokenId : transfer_direct(c, dest, t)
           \/ \E buyer \in Caller, t \in TokenId : settle_sale(buyer, t)
    PROVE  LedgerInv'
<1> USE LedgerAssumption DEF TypeOK, Caller
<1>1. PICK t \in TokenId, dest \in Address :
          /\ dest # Contract /\ dest # None
          /\ tokenOwner[t] # None
          /\ tokenOwner' = [tokenOwner EXCEPT ![t] = dest]
          /\ unsynced' = unsynced \cup {t}
          /\ \A u \in TokenId : approval'[u] \in {approval[u], None}
          /\ UNCHANGED <<admin, burned, frozen, nextTokenId, tokenData, ownerTokens,
                         walletTokens>>
  BY DEF transfer_direct, settle_sale, check_transfer, require_transferable,
     require_active, accessVars, statusVars, indexVars, grantVars
<1>2. IdsFollowCounter'
  BY <1>1 DEF LedgerInv, IdsFollowCounter
<1>3. BurnedStaysGone'
  BY <1>1 DEF LedgerInv, BurnedStaysGone
<1>4. NoOrphanApproval'
  BY <1>1 DEF LedgerInv, NoOrphanApproval
<1>5. ContractHoldsNothing'
  BY <1>1 DEF LedgerInv, ContractHoldsNothing
<1>6. OwnedTokenIsListed'
  BY <1>1 DEF LedgerInv, OwnedTokenIsListed
<1>7. SyncedIndexIsExact'
  BY <1>1 DEF LedgerInv, SyncedIndexIsExact
<1>8. OnePortfolioPerToken'
  BY <1>1 DEF LedgerInv, OnePortfolioPerToken
<1>9. QED
  BY <1>2, <1>3, <1>4, <1>5, <1>6, <1>7, <1>8 DEF LedgerInv

LEMMA InvInit == LedgerInit => LedgerInv
<1> SUFFICES ASSUME LedgerInit PROVE LedgerInv
  OBVIOUS
<1>1. TypeOK
  <2>1. nextTokenId \in 0 .. MaxTokens
    BY LedgerAssumption DEF LedgerInit
  <2>2. operators \subseteq Address \X Address
    BY DEF LedgerInit
  <2>3. QED
    BY <2>1, <2>2 DEF LedgerInit, TypeOK
<1>2. QED
  BY <1>1, LedgerAssumption DEF LedgerInit, LedgerInv, IdsFollowCounter,
     BurnedStaysGone, NoOrphanApproval, ContractHoldsNothing,
     OwnedTokenIsListed, SyncedIndexIsExact, OnePortfolioPerToken

LEMMA InvStep == LedgerInv /\ [LedgerNext]_ledgerVars => LedgerInv'
<1> SUFFICES ASSUME LedgerInv, [LedgerNext]_ledgerVars PROVE LedgerInv'
  OBVIOUS
<1>1. TypeOK'
  BY TypeStep DEF LedgerInv
<1>2. CASE Quiet /\ (Administer \/ Grant \/ UNCHANGED ledgerVars)
  BY <1>1, <1>2, QuietKeeps
<1>3. CASE \/ \E a \in Caller : init(a)
           \/ \E o \in Caller, op \in Address, t \in TokenId : approve(o, op, t)
           \/ \E o \in Caller, t \in TokenId : revoke_approval(o, t)
  BY <1>1, <1>3, InitAndApprovalsKeep
<1>4. CASE \E c \in Caller : mint(c)
  BY <1>1, <1>4, MintKeeps
<1>5. CASE \E c \in Caller, n \in 1 .. MaxBatchMint :
               \E owners \in [1 .. n -> Address] : batch_mint(c, n, owners)
  BY <1>1, <1>5, BatchMintKeeps
<1>6. CASE \E c \in Caller, t \in TokenId : burn_token(c, t)
  BY <1>1, <1>6, BurnKeeps
<1>7. CASE \E c \in Caller : \E to : IsBatch(to) /\ service_transfer(c, to)
  BY <1>1, <1>7, ServiceTransferKeeps
<1>8. CASE \E c \in Caller : \E hop : HopStep(c, hop)
  BY <1>1, <1>8, HopsKeep
<1>9. CASE \/ \E c \in Caller, dest \in Address, t \in TokenId : transfer_direct(c, dest, t)
           \/ \E buyer \in Caller, t \in TokenId : settle_sale(buyer, t)
  BY <1>1, <1>9, UnindexedMovesKeep
<1>10. QED
  BY NextCases, <1>2, <1>3, <1>4, <1>5, <1>6, <1>7, <1>8, <1>9

-----------------------------------------------------------------------------
(* What holds of every run *)

\* Every variable of the ledger stays in its type.
THEOREM TypeCorrect == LedgerSpec => []TypeOK
<1>1. LedgerInit => TypeOK
  BY InvInit DEF LedgerInv
<1>2. QED
  BY <1>1, TypeStep, PTL DEF LedgerSpec

\* The inductive invariant holds in every reachable state.
THEOREM Invariance == LedgerSpec => []LedgerInv
  BY InvInit, InvStep, PTL DEF LedgerSpec

\* A burned id has no owner, record or approval, and lies below the counter.
THEOREM BurnedForGood == LedgerSpec => []BurnedStaysGone
<1>1. LedgerInv => BurnedStaysGone
  BY DEF LedgerInv
<1>2. QED
  BY <1>1, Invariance, PTL

\* An approval names somebody else's token, never one without an owner.
THEOREM ApprovalsHaveOwners == LedgerSpec => []NoOrphanApproval
<1>1. LedgerInv => NoOrphanApproval
  BY DEF LedgerInv
<1>2. QED
  BY <1>1, Invariance, PTL

\* The contract's own address never holds a token.
THEOREM ContractOwnsNothing == LedgerSpec => []ContractHoldsNothing
<1>1. LedgerInv => ContractHoldsNothing
  BY DEF LedgerInv
<1>2. QED
  BY <1>1, Invariance, PTL

\* Every owned token is listed by some wallet.
THEOREM OwnedTokensListed == LedgerSpec => []OwnedTokenIsListed
<1>1. LedgerInv => OwnedTokenIsListed
  BY DEF LedgerInv
<1>2. QED
  BY <1>1, Invariance, PTL

\* The wallet index and the Token record agree with the owner record for every
\* token that no unindexed path has written.
THEOREM SyncedIndicesExact == LedgerSpec => []SyncedIndexIsExact
<1>1. LedgerInv => SyncedIndexIsExact
  BY DEF LedgerInv
<1>2. QED
  BY <1>1, Invariance, PTL

\* No two owner portfolios list the same token.
THEOREM PortfoliosDisjoint == LedgerSpec => []OnePortfolioPerToken
<1>1. LedgerInv => OnePortfolioPerToken
  BY DEF LedgerInv
<1>2. QED
  BY <1>1, Invariance, PTL

-----------------------------------------------------------------------------
(* What no step does *)

\* Owners change, if any does, by moves of tokens that are not frozen between
\* accounts that are not blacklisted.
OwnersMove ==
    /\ burned' = burned
    /\ \A t \in TokenId : tokenOwner'[t] # tokenOwner[t] =>
           /\ {tokenOwner[t], tokenOwner'[t]} \subseteq Caller \ blacklisted
           /\ t \notin frozen

\* A step that is neither a mint nor a burn moves owners in that way only.
LEMMA OwnerChanges ==
    ASSUME LedgerInv, [LedgerNext]_ledgerVars
    PROVE  \/ \E c \in Caller : mint(c)
           \/ \E c \in Caller, t \in TokenId : burn_token(c, t)
           \/ OwnersMove
<1> USE LedgerAssumption DEF TypeOK, Caller, OwnersMove
<1>1. TypeOK /\ ContractHoldsNothing
  BY DEF LedgerInv
<1>2. CASE Quiet
  BY <1>2 DEF Quiet, ownerVars
<1>3. CASE \/ \E a \in Caller : init(a)
           \/ \E o \in Caller, op \in Address, u \in TokenId : approve(o, op, u)
           \/ \E o \in Caller, u \in TokenId : revoke_approval(o, u)
  BY <1>3 DEF init, approve, revoke_approval, ownerVars, statusVars
<1>4. CASE \E c \in Caller, n \in 1 .. MaxBatchMint :
               \E owners \in [1 .. n -> Address] : batch_mint(c, n, owners)
  BY <1>4 DEF batch_mint, statusVars
<1>5. ASSUME NEW c \in Caller, NEW to, IsBatch(to), service_transfer(c, to)
      PROVE  OwnersMove
  <2>1. burned' = burned
    BY <1>5 DEF service_transfer, statusVars
  <2>2. QED
    BY <1>1, <1>5, <2>1 DEF service_transfer, IsBatch, check_transfer,
       require_transferable, require_active, ContractHoldsNothing
<1>6. ASSUME NEW c \in Caller, NEW hop, HopStep(c, hop) PROVE OwnersMove
  <2>1. burned' = burned
    BY <1>6 DEF HopStep, FollowHops, statusVars
  <2> SUFFICES ASSUME NEW t \in TokenId, tokenOwner'[t] # tokenOwner[t]
               PROVE  /\ {tokenOwner[t], tokenOwner'[t]} \subseteq Caller \ blacklisted
                      /\ t \notin frozen
    BY <2>1
  <2>2. t \in DOMAIN hop /\ tokenOwner'[t] = HopLast(hop, t)
    BY <1>6 DEF HopStep, FollowHops
  <2>3. PICK n \in Nat \ {0} : /\ hop[t] \in [1 .. n -> Address]
                               /\ HopLast(hop, t) = hop[t][n]
                               /\ HopLast(hop, t) \in Address
    BY <1>6, <2>2, HopFacts DEF HopStep
  <2>4. HopAllowed(c, hop, t, 1) /\ HopAllowed(c, hop, t, n)
    BY <1>6, <2>2, <2>3 DEF HopStep
  <2>5. tokenOwner[t] \notin blacklisted \cup {None} /\ t \notin frozen
    BY <2>4 DEF HopAllowed, HopFrom
  <2>6. HopLast(hop, t) \notin blacklisted \cup {Contract}
    BY <2>3, <2>4 DEF HopAllowed
  <2>7. QED
    BY <1>1, <2>2, <2>3, <2>5, <2>6 DEF ContractHoldsNothing
<1>7. CASE \/ \E c \in Caller, dest \in Address, u \in TokenId : transfer_direct(c, dest, u)
           \/ \E buyer \in Caller, u \in TokenId : settle_sale(buyer, u)
  BY <1>1, <1>7 DEF transfer_direct, settle_sale, check_transfer, statusVars,
     require_transferable, require_active, ContractHoldsNothing
<1>8. QED
  BY NextCases, <1>2, <1>3, <1>4, <1>5, <1>6, <1>7

\* A frozen token changes hands through no path; it can only be burned.
THEOREM FrozenTokensStay == LedgerSpec => FrozenTokenStays
<1>1. LedgerInv /\ [LedgerNext]_ledgerVars =>
          [\A t \in frozen : tokenOwner'[t] # tokenOwner[t] => t \in burned']_ledgerVars
  <2> SUFFICES ASSUME LedgerInv, [LedgerNext]_ledgerVars, NEW t \in frozen,
                      tokenOwner'[t] # tokenOwner[t]
               PROVE  t \in burned'
    OBVIOUS
  <2>1. t \in TokenId /\ t < nextTokenId
    BY DEF LedgerInv, IdsFollowCounter, TypeOK
  <2>2. CASE \E c \in Caller : mint(c)
    BY <2>1, <2>2 DEF mint, TokenId, LedgerInv, TypeOK
  <2>3. CASE \E c \in Caller, u \in TokenId : burn_token(c, u)
    BY <2>1, <2>3 DEF burn_token, LedgerInv, TypeOK
  <2>4. QED
    BY <2>1, <2>2, <2>3, OwnerChanges DEF OwnersMove
<1>2. QED
  BY <1>1, Invariance, PTL DEF LedgerSpec, FrozenTokenStays

\* Ownership moves neither from nor to a blacklisted account.
THEOREM BlacklistedStandStill == LedgerSpec => BlacklistHolds
<1>1. LedgerInv /\ [LedgerNext]_ledgerVars =>
          [\A t \in TokenId :
               tokenOwner'[t] \notin {tokenOwner[t], None} =>
                   {tokenOwner[t], tokenOwner'[t]} \cap blacklisted = {}]_ledgerVars
  <2> SUFFICES ASSUME LedgerInv, [LedgerNext]_ledgerVars, NEW t \in TokenId,
                      tokenOwner'[t] \notin {tokenOwner[t], None}
               PROVE  {tokenOwner[t], tokenOwner'[t]} \cap blacklisted = {}
    OBVIOUS
  <2>1. blacklisted \subseteq Address /\ TypeOK
    BY DEF LedgerInv, TypeOK
  <2>2. CASE \E c \in Caller : mint(c)
    <3>1. tokenOwner[nextTokenId] = None
      BY <2>2 DEF LedgerInv, IdsFollowCounter, TypeOK, TokenId, mint
    <3>2. QED
      BY <2>1, <2>2, <3>1, LedgerAssumption DEF mint, TypeOK
  <2>3. CASE \E c \in Caller, u \in TokenId : burn_token(c, u)
    BY <2>1, <2>3 DEF burn_token, TypeOK
  <2>4. QED
    BY <2>2, <2>3, OwnerChanges DEF OwnersMove
<1>2. QED
  BY <1>1, Invariance, PTL DEF LedgerSpec, BlacklistHolds

-----------------------------------------------------------------------------
(* The ledger implements the registry *)

LEMMA RegistryStep ==
    ASSUME LedgerInv, LedgerInv', [LedgerNext]_ledgerVars
    PROVE  [Registry!RegistryNext]_([t \in TokenId |-> HolderOf(t)])
<1> DEFINE h == [t \in TokenId |-> HolderOf(t)]
<1> USE LedgerAssumption, MarkAssumption DEF TypeOK, Caller
<1>1. TypeOK /\ ContractHoldsNothing /\ BurnedStaysGone
  BY DEF LedgerInv
<1>2. CASE \E c \in Caller : mint(c)
  <2>1. PICK c \in Caller : mint(c)
    BY <1>2
  <2>2. nextTokenId \in TokenId /\ HolderOf(nextTokenId) = Unminted
    BY <1>1, <2>1 DEF mint, LedgerInv, IdsFollowCounter, BurnedStaysGone, TokenId,
       HolderOf
  <2>3. h' = [h EXCEPT ![nextTokenId] = c]
    BY <1>1, <2>1, <2>2 DEF mint, HolderOf, statusVars
  <2>4. Registry!Mint(nextTokenId, c)
    BY <2>2, <2>3 DEF Registry!Mint
  <2>5. QED
    BY <2>2, <2>4 DEF Registry!RegistryNext
<1>3. CASE \E c \in Caller, t \in TokenId : burn_token(c, t)
  <2>1. PICK c \in Caller, t \in TokenId : burn_token(c, t)
    BY <1>3
  <2>2. HolderOf(t) \in Caller
    BY <1>1, <2>1 DEF burn_token, require_active, HolderOf, ContractHoldsNothing
  <2>3. h' = [h EXCEPT ![t] = Burned]
    BY <1>1, <2>1 DEF burn_token, HolderOf
  <2>4. Registry!Burn(t)
    BY <2>2, <2>3 DEF Registry!Burn
  <2>5. QED
    BY <2>4 DEF Registry!RegistryNext
<1>4. CASE OwnersMove
  <2>1. h' \in [TokenId -> Caller \cup {Unminted, Burned}]
    <3>1. TypeOK' /\ ContractHoldsNothing'
      BY DEF LedgerInv
    <3>2. QED
      BY <3>1 DEF HolderOf, ContractHoldsNothing
  <2>2. \A t \in TokenId : h'[t] # h[t] => {h[t], h'[t]} \subseteq Caller
    BY <1>1, <1>4 DEF HolderOf, BurnedStaysGone, OwnersMove
  <2>3. QED
    BY <2>1, <2>2 DEF Registry!RegistryNext, Registry!Move
<1>5. QED
  BY <1>2, <1>3, <1>4, OwnerChanges

\* Every behaviour of the ledger is one of the registry.
THEOREM Refinement == LedgerSpec => ImplementsRegistry
<1>1. LedgerInit => Registry!RegistryInit
  BY DEF LedgerInit, Registry!RegistryInit, HolderOf
<1>2. LedgerInv /\ LedgerInv' /\ [LedgerNext]_ledgerVars =>
          [Registry!RegistryNext]_([t \in TokenId |-> HolderOf(t)])
  BY RegistryStep
<1>3. QED
  BY <1>1, <1>2, Invariance, PTL
     DEF LedgerSpec, ImplementsRegistry, Registry!RegistrySpec

-----------------------------------------------------------------------------
(* The royalty terms *)

termsLedgerVars == <<ledgerVars, termsVars>>

\* Every step of the terms is one of the ledger.
LEMMA TermsStepsLedger == [TermsNext]_termsLedgerVars => [LedgerNext]_ledgerVars
<1> SUFFICES ASSUME [TermsNext]_termsLedgerVars PROVE [LedgerNext]_ledgerVars
  OBVIOUS
<1>1. CASE UNCHANGED termsLedgerVars
  BY <1>1 DEF termsLedgerVars
<1>2. CASE MintOrBurnWithTerms
  <2>1. ASSUME NEW c \in Caller, NEW r \in Royalties, NEW who \in Address,
               mint_with_terms(c, r, who)
        PROVE  MintOrBurn
    BY <2>1 DEF mint_with_terms, MintOrBurn
  <2>2. ASSUME NEW c \in Caller, NEW n \in 1 .. MaxBatchMint,
               NEW owners \in [1 .. n -> Address], NEW creators \in [1 .. n -> Address],
               NEW rs \in [1 .. n -> Royalties],
               batch_mint_with_terms(c, n, owners, rs, creators)
        PROVE  MintOrBurn
    BY <2>2 DEF batch_mint_with_terms, MintOrBurn
  <2>3. ASSUME NEW c \in Caller, NEW t \in TokenId, burn_with_terms(c, t)
        PROVE  MintOrBurn
    BY <2>3 DEF burn_with_terms, MintOrBurn
  <2>4. QED
    BY <1>2, <2>1, <2>2, <2>3 DEF MintOrBurnWithTerms, LedgerNext
<1>3. CASE ChangeTerms
  BY <1>3 DEF ChangeTerms, set_royalty, update_royalty, freeze_royalty,
     reassign_creator, add_currency, remove_currency
<1>4. QED
  BY <1>1, <1>2, <1>3 DEF TermsNext, TermsStep, LedgerNext

\* A run of the terms is a run of the ledger.
THEOREM TermsRefineLedger == TermsSpec => LedgerSpec
<1>1. [TermsNext]_<<ledgerVars, termsVars>> => [LedgerNext]_ledgerVars
  BY TermsStepsLedger DEF termsLedgerVars
<1>2. QED
  BY <1>1, PTL DEF TermsSpec, LedgerSpec

-----------------------------------------------------------------------------
(* Terms and records *)

\* A step after which the tokens that have a record are those that had one.
SameRecords == \A t \in TokenId : tokenData'[t] # None <=> tokenData[t] # None

\* Whatever does not mint or burn rewrites records, and makes or removes none.
LEMMA RecordsKept ==
    ASSUME TypeOK,
           \/ Administer \/ Grant \/ Transfer \/ UNCHANGED ledgerVars
           \/ \E buyer \in Caller, t \in TokenId : settle_sale(buyer, t)
    PROVE  SameRecords
<1> USE LedgerAssumption
<1>1. CASE Administer
  BY <1>1 DEF SameRecords, Administer, pause, unpause, init, add_to_blacklist,
     remove_from_blacklist, set_approved_minter, remove_approved_minter,
     freeze_token, unfreeze_token, ownerVars
<1>2. CASE Grant
  BY <1>2 DEF SameRecords, Grant, approve, revoke_approval, grant_operator,
     revoke_operator, ownerVars
<1>3. CASE \/ UNCHANGED ledgerVars
           \/ \E buyer \in Caller, t \in TokenId : settle_sale(buyer, t)
           \/ \E c \in Caller, dest \in Address, t \in TokenId : transfer_direct(c, dest, t)
  BY <1>3 DEF SameRecords, settle_sale, transfer_direct, ledgerVars, ownerVars
<1>4. ASSUME NEW c \in Caller, NEW to, IsBatch(to), service_transfer(c, to)
      PROVE  SameRecords
  BY <1>4 DEF SameRecords, service_transfer, IsBatch, check_transfer,
     require_transferable, require_active
<1>5. ASSUME NEW c \in Caller, NEW hop, HopStep(c, hop) PROVE SameRecords
  <2>1. \A t \in DOMAIN hop : HopLast(hop, t) \in Address
    BY <1>5, HopFacts DEF HopStep
  <2>2. QED
    BY <1>5, <2>1 DEF SameRecords, HopStep, FollowHops
<1>6. QED
  BY <1>1, <1>2, <1>3, <1>4, <1>5, TransferCases

\* What is proved of the terms by induction.
RoyaltyShape == royalty \in [TokenId -> RoyaltyType \cup {None}]
TermsInv == RoyaltyShape /\ TermsFollowRecord /\ TermsWithinPrice

\* Both mints write a record with terms that passed validate_royalty.
LEMMA MintedTermsKeep ==
    ASSUME TypeOK, TermsInv, MintOrBurnWithTerms
    PROVE  TermsInv'
<1> USE LedgerAssumption, TermsAssumption
        DEF TermsInv, RoyaltyShape, TermsFollowRecord, TermsWithinPrice, TypeOK
<1>1. ASSUME NEW c \in Caller, NEW r \in Royalties, NEW who \in Address,
             mint_with_terms(c, r, who)
      PROVE  TermsInv'
  <2>1. nextTokenId \in TokenId /\ r \in RoyaltyType
    BY <1>1 DEF mint_with_terms, mint, TokenId
  <2>2. tokenData' = [tokenData EXCEPT ![nextTokenId] = c]
        /\ royalty' = [royalty EXCEPT ![nextTokenId] = r] /\ validate_royalty(r)
    BY <1>1 DEF mint_with_terms, mint
  <2>3. r # None /\ c # None
    BY <2>1 DEF Caller
  <2>4. r.recipients # << >> /\ TotalBps(r) <= MAX_ROYALTY_BPS
    BY <2>2 DEF validate_royalty
  <2>5. QED
    BY <2>1, <2>2, <2>3, <2>4
<1>2. ASSUME NEW c \in Caller, NEW n \in 1 .. MaxBatchMint,
             NEW owners \in [1 .. n -> Address], NEW creators \in [1 .. n -> Address],
             NEW rs \in [1 .. n -> Royalties],
             batch_mint_with_terms(c, n, owners, rs, creators)
      PROVE  TermsInv'
  <2> DEFINE ids == nextTokenId + 1 .. nextTokenId + n
  <2>1. \A t \in ids : t - nextTokenId \in 1 .. n
    BY DEF TokenId
  <2>2. tokenData' = [t \in TokenId |->
            IF t \in ids THEN owners[t - nextTokenId] ELSE tokenData[t]]
    BY <1>2 DEF batch_mint_with_terms, batch_mint
  <2>3. royalty' = [t \in TokenId |->
            IF t \in ids THEN rs[t - nextTokenId] ELSE royalty[t]]
    BY <1>2 DEF batch_mint_with_terms
  <2>4. \A i \in 1 .. n : /\ rs[i] \in RoyaltyType /\ rs[i] # None /\ owners[i] # None
                          /\ rs[i].recipients # << >>
                          /\ TotalBps(rs[i]) <= MAX_ROYALTY_BPS
    BY <1>2 DEF batch_mint_with_terms, validate_royalty
  <2> HIDE DEF ids
  <2>5. RoyaltyShape'
    BY <2>1, <2>3, <2>4
  <2>6. TermsFollowRecord'
    BY <2>1, <2>2, <2>3, <2>4
  <2>7. TermsWithinPrice'
    BY <2>1, <2>3, <2>4
  <2>8. QED
    BY <2>5, <2>6, <2>7
<1>3. ASSUME NEW c \in Caller, NEW t \in TokenId, burn_with_terms(c, t)
      PROVE  TermsInv'
  <2>1. tokenData' = [tokenData EXCEPT ![t] = None] /\ royalty' = [royalty EXCEPT ![t] = None]
    BY <1>3 DEF burn_with_terms, burn_token
  <2>2. QED
    BY <2>1
<1>4. QED
  BY <1>1, <1>2, <1>3 DEF MintOrBurnWithTerms

\* The two setters validate the terms and ask for a record.
LEMMA ChangedTermsKeep ==
    ASSUME TypeOK, TermsInv, ChangeTerms
    PROVE  TermsInv'
<1> USE TermsAssumption DEF TermsInv, RoyaltyShape, TermsFollowRecord, TermsWithinPrice
<1>1. ASSUME NEW t \in TokenId, NEW r \in Royalties, tokenData[t] # None,
             validate_royalty(r), royalty' = [royalty EXCEPT ![t] = r],
             tokenData' = tokenData
      PROVE  TermsInv'
  <2>1. r \in RoyaltyType /\ r # None
    OBVIOUS
  <2>2. r.recipients # << >> /\ TotalBps(r) <= MAX_ROYALTY_BPS
    BY <1>1 DEF validate_royalty
  <2>3. QED
    BY <1>1, <2>1, <2>2
<1>2. CASE \E t \in TokenId, r \in Royalties :
               set_royalty(t, r) \/ \E c \in Caller : update_royalty(c, t, r)
  BY <1>1, <1>2 DEF set_royalty, update_royalty, ledgerVars, ownerVars
<1>3. CASE UNCHANGED <<royalty, tokenData>>
  BY <1>3
<1>4. QED
  BY <1>2, <1>3 DEF ChangeTerms, freeze_royalty, reassign_creator, add_currency,
     remove_currency, ledgerVars, ownerVars

LEMMA TermsInvStep ==
    TypeOK /\ TermsInv /\ [TermsNext]_termsLedgerVars => TermsInv'
<1> SUFFICES ASSUME TypeOK, TermsInv, [TermsNext]_termsLedgerVars PROVE TermsInv'
  OBVIOUS
<1>1. CASE SameRecords /\ UNCHANGED royalty
  BY <1>1 DEF SameRecords, TermsInv, RoyaltyShape, TermsFollowRecord, TermsWithinPrice
<1>2. CASE MintOrBurnWithTerms
  BY <1>2, MintedTermsKeep
<1>3. CASE ChangeTerms
  BY <1>3, ChangedTermsKeep
<1>4. CASE UNCHANGED termsLedgerVars
  BY <1>1, <1>4, RecordsKept DEF termsLedgerVars, termsVars
<1>5. CASE (Administer \/ Grant \/ Transfer) /\ UNCHANGED termsVars
  BY <1>1, <1>5, RecordsKept DEF termsVars
<1>6. CASE \E buyer \in Caller, t \in TokenId : settle_sale(buyer, t) /\ UNCHANGED termsVars
  BY <1>1, <1>6, RecordsKept DEF termsVars
<1>7. QED
  BY <1>2, <1>3, <1>4, <1>5, <1>6 DEF TermsNext, TermsStep

\* Only freeze_royalty adds to the frozen tokens, and nothing removes one.
FrozenAreIds == royaltyFrozen \subseteq TokenId

LEMMA FrozenIdsStep ==
    FrozenAreIds /\ [TermsNext]_termsLedgerVars => FrozenAreIds'
<1> SUFFICES ASSUME FrozenAreIds, [TermsNext]_termsLedgerVars PROVE FrozenAreIds'
  OBVIOUS
<1>1. CASE UNCHANGED royaltyFrozen
  BY <1>1 DEF FrozenAreIds
<1>2. ASSUME NEW c \in Caller, NEW t \in TokenId, freeze_royalty(c, t)
      PROVE  FrozenAreIds'
  BY <1>2 DEF FrozenAreIds, freeze_royalty
<1>3. QED
  BY <1>1, <1>2 DEF TermsNext, TermsStep, MintOrBurnWithTerms, ChangeTerms,
     mint_with_terms, batch_mint_with_terms, burn_with_terms, set_royalty,
     update_royalty, reassign_creator, add_currency, remove_currency,
     termsVars, termsLedgerVars

\* The ledger's invariant and the terms' hold of every run of the terms.
THEOREM TermsInvariance == TermsSpec => [](LedgerInv /\ TermsInv /\ FrozenAreIds)
<1>1. LedgerInit /\ TermsInit => TermsInv /\ FrozenAreIds
  BY LedgerAssumption DEF LedgerInit, TermsInit, TermsInv, RoyaltyShape,
     TermsFollowRecord, TermsWithinPrice, FrozenAreIds
<1>2. LedgerInv => TypeOK
  BY DEF LedgerInv
<1>3. TypeOK /\ TermsInv /\ [TermsNext]_<<ledgerVars, termsVars>> => TermsInv'
  BY TermsInvStep DEF termsLedgerVars
<1>4. FrozenAreIds /\ [TermsNext]_<<ledgerVars, termsVars>> => FrozenAreIds'
  BY FrozenIdsStep DEF termsLedgerVars
<1>5. QED
  BY <1>1, <1>2, <1>3, <1>4, TermsRefineLedger, Invariance, PTL DEF TermsSpec

\* A token has terms exactly when it has a record.
THEOREM TermsFollow == TermsSpec => []TermsFollowRecord
<1>1. TermsInv => TermsFollowRecord
  BY DEF TermsInv
<1>2. QED
  BY <1>1, TermsInvariance, PTL

\* Terms are within the price, whoever wrote them.
THEOREM TermsFit == TermsSpec => []TermsWithinPrice
<1>1. TermsInv => TermsWithinPrice
  BY DEF TermsInv
<1>2. QED
  BY <1>1, TermsInvariance, PTL

\* Frozen terms of an owned token stay until it is burned: a mint reaches no
\* owned id, since its ids are not below the counter.
THEOREM FrozenTermsStay == TermsSpec => FrozenTermsHold
<1>1. LedgerInv /\ TermsInv /\ FrozenAreIds /\ [TermsNext]_<<ledgerVars, termsVars>> =>
          [\A t \in royaltyFrozen :
               tokenOwner[t] # None => royalty'[t] = royalty[t] \/ t \in burned'
          ]_<<ledgerVars, termsVars>>
  <2> SUFFICES ASSUME LedgerInv, TermsInv, FrozenAreIds, TermsNext, NEW t \in royaltyFrozen,
                      tokenOwner[t] # None
               PROVE  royalty'[t] = royalty[t] \/ t \in burned'
    OBVIOUS
  <2> USE LedgerAssumption DEF TermsInv, RoyaltyShape
  <2>0. t \in TokenId
    BY DEF FrozenAreIds
  <2>1. CASE UNCHANGED royalty
    BY <2>1
  <2>2. ASSUME NEW c \in Caller, NEW r \in Royalties, NEW who \in Address,
               mint_with_terms(c, r, who)
        PROVE  royalty'[t] = royalty[t]
    <3>1. nextTokenId \in TokenId /\ royalty' = [royalty EXCEPT ![nextTokenId] = r]
      BY <2>2 DEF mint_with_terms, mint, LedgerInv, TypeOK, TokenId
    <3>2. tokenOwner[nextTokenId] = None
      BY <3>1 DEF LedgerInv, IdsFollowCounter, TypeOK, TokenId
    <3>3. QED
      BY <2>0, <3>1, <3>2
  <2>3. ASSUME NEW c \in Caller, NEW n \in 1 .. MaxBatchMint,
               NEW owners \in [1 .. n -> Address], NEW creators \in [1 .. n -> Address],
               NEW rs \in [1 .. n -> Royalties],
               batch_mint_with_terms(c, n, owners, rs, creators)
        PROVE  royalty'[t] = royalty[t]
    <3>1. t < nextTokenId /\ nextTokenId \in Nat
      BY <2>0 DEF LedgerInv, IdsFollowCounter, TypeOK
    <3>2. t \notin nextTokenId + 1 .. nextTokenId + n
      BY <2>3, <3>1 DEF TokenId
    <3>3. QED
      BY <2>0, <2>3, <3>2 DEF batch_mint_with_terms
  <2>4. ASSUME NEW c \in Caller, NEW u \in TokenId, burn_with_terms(c, u)
        PROVE  royalty'[t] = royalty[t] \/ t \in burned'
    BY <2>0, <2>4 DEF burn_with_terms, burn_token
  <2>5. ASSUME NEW u \in TokenId, NEW r \in Royalties,
               set_royalty(u, r) \/ \E c \in Caller : update_royalty(c, u, r)
        PROVE  royalty'[t] = royalty[t]
    BY <2>0, <2>5 DEF set_royalty, update_royalty
  <2>6. QED
    BY <2>1, <2>2, <2>3, <2>4, <2>5 DEF TermsNext, TermsStep, MintOrBurnWithTerms,
       ChangeTerms, freeze_royalty, reassign_creator, add_currency, remove_currency,
       termsVars
<1>2. QED
  BY <1>1, TermsInvariance, PTL DEF TermsSpec, FrozenTermsHold
=============================================================================
