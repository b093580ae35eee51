---------------------------- MODULE RoyaltyTerms ----------------------------
(***************************************************************************)
(* The royalty terms of each token and who may change them: the Royalty    *)
(* record, the two values derived from it, the permanent royalty freeze,   *)
(* the creator, and the list of supported payment currencies.              *)
(*                                                                         *)
(* Extends the ledger: mints write terms and burns remove them, and the    *)
(* owner, who may change terms, is the ledger's.                           *)
(***************************************************************************)
EXTENDS TokenLedger, Sequences, Functions

CONSTANTS Asset,          \* token contracts that can be a payment currency
          NoAsset,        \* asset_address: None
          MAX_ROYALTY_BPS,
          Royalties       \* the Royalty values callers submit

\* A Royalty is a list of recipients with basis points, and an asset.
RoyaltyType ==
    [recipients : Seq([who : Address, bps : Nat]), asset : Asset \cup {NoAsset}]

ASSUME TermsAssumption ==
    /\ NoAsset \notin Asset
    /\ MAX_ROYALTY_BPS \in Nat
    /\ Royalties \subseteq RoyaltyType
    /\ None \notin RoyaltyType \cup Nat

VARIABLES
    royalty,            \* DataKey::Royalty(t), or None
    royaltyFrozen,      \* {t : DataKey::RoyaltyFrozen(t)}
    royaltyPercentage,  \* DataKey::RoyaltyPercentage(t), or None
    royaltyRecipient,   \* DataKey::RoyaltyRecipient(t), or None
    creator,            \* the address in DataKey::Creator(t), or None
    currencies          \* DataKey::SupportedCurrencies

derivedVars == <<royaltyPercentage, royaltyRecipient>>
termsVars == <<royalty, royaltyFrozen, derivedVars, creator, currencies>>

TermsTypeOK ==
    /\ royalty \in [TokenId -> RoyaltyType \cup {None}]
    /\ royaltyFrozen \subseteq TokenId
    /\ royaltyPercentage \in [TokenId -> 0 .. MAX_ROYALTY_BPS \cup {None}]
    /\ royaltyRecipient \in [TokenId -> Address \cup {None}]
    /\ creator \in [TokenId -> Address \cup {None}]
    /\ currencies \subseteq Asset

TermsInit ==
    /\ royalty = [t \in TokenId |-> None]
    /\ royaltyFrozen = {}
    /\ royaltyPercentage = [t \in TokenId |-> None]
    /\ royaltyRecipient = [t \in TokenId |-> None]
    /\ creator = [t \in TokenId |-> None]
    /\ currencies = {}

-----------------------------------------------------------------------------
(* Guards *)

TotalBps(r) == FoldFunction(LAMBDA p, sum : p.bps + sum, 0, r.recipients)

\* Mutant of validate_royalty: the sum of the shares is not looked at.
validate_shares(r) ==
    r.recipients # << >> /\ \A p \in Range(r.recipients) : p.bps <= MAX_ROYALTY_BPS

validate_royalty(r) ==
    /\ r.recipients # << >>
    /\ \A p \in Range(r.recipients) : p.bps <= MAX_ROYALTY_BPS
    /\ TotalBps(r) <= MAX_ROYALTY_BPS

validate_royalty_recipients(r) == \A p \in Range(r.recipients) : p.who # Contract

validate_royalty_asset(asset) == asset = NoAsset \/ asset \in currencies

authorize_royalty_update(c, t) ==
    \/ c = admin
    \/ c = creator[t]
    \/ c = tokenOwner[t]

-----------------------------------------------------------------------------
(* Minting and burning *)

\* execute_atomic_mint with its terms; any address may be named as creator, and
\* the derived values are not written.
mint_with_terms(o, r, who) ==
    /\ mint(o)
    /\ validate_royalty(r)
    /\ royalty' = [royalty EXCEPT ![nextTokenId] = r]
    /\ creator' = [creator EXCEPT ![nextTokenId] = who]
    /\ UNCHANGED <<royaltyFrozen, derivedVars, currencies>>

\* execute_batch_mint: item i has owners[i], rs[i] and creators[i].
batch_mint_with_terms(c, n, owners, rs, creators) ==
    LET ids == nextTokenId + 1 .. nextTokenId + n
        item(t) == t - nextTokenId
    IN  /\ batch_mint(c, n, owners)
        /\ \A i \in 1 .. n : /\ creators[i] \notin blacklisted \cup {Contract}
                             /\ validate_royalty(rs[i])
                             /\ validate_royalty_recipients(rs[i])
        /\ royalty' = [t \in TokenId |-> IF t \in ids THEN rs[item(t)] ELSE royalty[t]]
        /\ royaltyPercentage' = [t \in TokenId |->
               IF t \in ids THEN TotalBps(rs[item(t)]) ELSE royaltyPercentage[t]]
        /\ royaltyRecipient' = [t \in TokenId |->
               IF t \in ids THEN rs[item(t)].recipients[1].who ELSE royaltyRecipient[t]]
        /\ creator' = [t \in TokenId |-> IF t \in ids THEN creators[item(t)] ELSE creator[t]]
        /\ UNCHANGED <<royaltyFrozen, currencies>>

burn_with_terms(c, t) ==
    /\ burn_token(c, t)
    /\ royalty' = [royalty EXCEPT ![t] = None]
    /\ UNCHANGED <<royaltyFrozen, derivedVars, creator, currencies>>

-----------------------------------------------------------------------------
(* Changing terms *)

\* Mutant of set_royalty: without its lifecycle check.
set_royalty_of_any(t, r) ==
    /\ admin # None
    /\ validate_royalty(r)
    /\ tokenData[t] # None
    /\ royalty' = [royalty EXCEPT ![t] = r]
    /\ UNCHANGED <<royaltyFrozen, derivedVars, creator, currencies, ledgerVars>>

\* By the administrator: neither the asset nor the derived values are looked at.
set_royalty(t, r) ==
    /\ admin # None
    /\ ~paused
    /\ t \notin frozen
    /\ admin \notin blacklisted
    /\ t \notin royaltyFrozen
    /\ validate_royalty(r)
    /\ validate_royalty_recipients(r)
    /\ tokenData[t] # None
    /\ royalty' = [royalty EXCEPT ![t] = r]
    /\ UNCHANGED <<royaltyFrozen, derivedVars, creator, currencies, ledgerVars>>

update_royalty(c, t, r) ==
    /\ ~paused
    /\ tokenData[t] # None
    /\ t \notin frozen
    /\ c \notin blacklisted
    /\ royalty[t] # None
    /\ t \notin royaltyFrozen
    /\ authorize_royalty_update(c, t)
    /\ validate_royalty(r)
    /\ validate_royalty_asset(r.asset)
    /\ validate_royalty_recipients(r)
    /\ royalty' = [royalty EXCEPT ![t] = r]
    /\ royaltyRecipient' = [royaltyRecipient EXCEPT ![t] = r.recipients[1].who]
    /\ royaltyPercentage' = [royaltyPercentage EXCEPT ![t] = TotalBps(r)]
    /\ UNCHANGED <<royaltyFrozen, creator, currencies, ledgerVars>>

freeze_royalty(c, t) ==
    /\ ~paused
    /\ tokenData[t] # None
    /\ t \notin frozen
    /\ royalty[t] # None
    /\ authorize_royalty_update(c, t)
    /\ t \notin royaltyFrozen
    /\ royaltyFrozen' = royaltyFrozen \cup {t}
    /\ UNCHANGED <<royalty, derivedVars, creator, currencies, ledgerVars>>

reassign_creator(t, who) ==
    /\ admin # None
    /\ tokenData[t] # None
    /\ creator' = [creator EXCEPT ![t] = who]
    /\ UNCHANGED <<royalty, royaltyFrozen, derivedVars, currencies, ledgerVars>>

add_currency(x) ==
    /\ admin # None
    /\ x \notin currencies
    /\ currencies' = currencies \cup {x}
    /\ UNCHANGED <<royalty, royaltyFrozen, derivedVars, creator, ledgerVars>>

remove_currency(x) ==
    /\ admin # None
    /\ x \in currencies
    /\ currencies' = currencies \ {x}
    /\ UNCHANGED <<royalty, royaltyFrozen, derivedVars, creator, ledgerVars>>

-----------------------------------------------------------------------------
MintOrBurnWithTerms ==
    \E c \in Caller :
        \/ \E r \in Royalties, who \in Address : mint_with_terms(c, r, who)
        \/ \E n \in 1 .. MaxBatchMint :
               \E owners, creators \in [1 .. n -> Address], rs \in [1 .. n -> Royalties] :
                   batch_mint_with_terms(c, n, owners, rs, creators)
        \/ \E t \in TokenId : burn_with_terms(c, t)

ChangeTerms ==
    \/ \E t \in TokenId, r \in Royalties :
           \/ set_royalty(t, r)
           \/ \E c \in Caller : update_royalty(c, t, r)
    \/ \E c \in Caller, t \in TokenId : freeze_royalty(c, t)
    \/ \E t \in TokenId, who \in Address : reassign_creator(t, who)
    \/ \E x \in Asset : add_currency(x) \/ remove_currency(x)

\* Every step but a sale, which module Marketplace adds.
TermsStep ==
    \/ (Administer \/ Grant \/ Transfer) /\ UNCHANGED termsVars
    \/ MintOrBurnWithTerms
    \/ ChangeTerms

TermsNext ==
    \/ TermsStep
    \/ \E buyer \in Caller, t \in TokenId : settle_sale(buyer, t) /\ UNCHANGED termsVars

TermsSpec == LedgerInit /\ TermsInit /\ [][TermsNext]_<<ledgerVars, termsVars>>

-----------------------------------------------------------------------------
(* Properties *)

\* A token record and its royalty terms come and go together, whichever of the
\* two mints wrote them and whatever was burned: a sale of a live token never
\* fails for want of terms.
TermsFollowRecord == \A t \in TokenId : royalty[t] # None <=> tokenData[t] # None

\* Terms never promise more than the whole price, whichever call wrote them, and
\* always name somebody to pay.
TermsWithinPrice ==
    \A t \in TokenId :
        royalty[t] # None =>
            royalty[t].recipients # << >> /\ TotalBps(royalty[t]) <= MAX_ROYALTY_BPS

\* While a token has an owner, frozen terms stay as they are until it is burned,
\* through every change of owner and whoever calls.
FrozenTermsHold ==
    [][\A t \in royaltyFrozen :
           tokenOwner[t] # None => royalty'[t] = royalty[t] \/ t \in burned'
      ]_<<ledgerVars, termsVars>>
=============================================================================
