---------------------------- MODULE TokenLedger ----------------------------
(***************************************************************************)
(* Who holds which NFT: the ownership records of the clips_nft contract,   *)
(* the two indices over them, approvals, freezing, burning, the blacklist, *)
(* the pause switch and every entry point that writes one of them.         *)
(*                                                                         *)
(* An entry point is one action.  The host runs invocations one after      *)
(* another and undoes all writes of one that returns an error, so an       *)
(* action is enabled exactly when the call succeeds.  The two bodies the   *)
(* source gives for `transfer` and for `batch_transfer` are four actions.  *)
(* The index vectors are sets: every writer rejects duplicates.            *)
(***************************************************************************)
EXTENDS Naturals, FiniteSets

CONSTANTS Address,           \* every account, the contract's own included
          Contract,          \* env.current_contract_address()
          None,              \* an absent storage key
          MaxTokens,         \* bound: token ids are 0 .. MaxTokens-1
          MaxBatchTransfer,  \* config.max_batch_transfer_size
          MaxBatchMint       \* config.max_batch_mint_size

ASSUME LedgerAssumption ==
    /\ Contract \in Address
    /\ None \notin Address
    /\ MaxTokens \in Nat
    /\ MaxBatchTransfer \in Nat
    /\ MaxBatchMint \in Nat

TokenId == 0 .. MaxTokens - 1
\* An account that can sign a call; the contract never calls itself.
Caller == Address \ {Contract}

VARIABLES
    admin,          \* DataKey::Admin
    paused,         \* DataKey::Paused
    blacklisted,    \* {a : DataKey::Blacklisted(a)}
    minters,        \* {a : DataKey::ApprovedMinter(a)}
    nextTokenId,    \* DataKey::NextTokenId
    tokenOwner,     \* DataKey::TokenOwner(t), or None
    tokenData,      \* the owner field of DataKey::Token(t), or None
    approval,       \* DataKey::Approval(t), or None
    operators,      \* {<<owner, operator>> : DataKey::OperatorApproval(owner, operator)}
    frozen,         \* {t : DataKey::FrozenToken(t)}
    burned,         \* {t : DataKey::BurnedToken(t)}
    ownerTokens,    \* DataKey::OwnerTokens(a)
    walletTokens,   \* DataKey::WalletTokens(a)
    unsynced        \* history: tokens written by a path that skips an index

accessVars == <<admin, paused, blacklisted, minters>>
grantVars  == <<approval, operators>>
indexVars  == <<ownerTokens, walletTokens>>
statusVars == <<frozen, burned>>
ownerVars  == <<tokenOwner, tokenData>>
ledgerVars == <<accessVars, grantVars, indexVars, statusVars, ownerVars,
                nextTokenId, unsynced>>

TypeOK ==
    /\ admin \in Address \cup {None}
    /\ paused \in BOOLEAN
    /\ blacklisted \subseteq Address
    /\ minters \subseteq Address
    /\ nextTokenId \in 0 .. MaxTokens
    /\ tokenOwner \in [TokenId -> Address \cup {None}]
    /\ tokenData \in [TokenId -> Address \cup {None}]
    /\ approval \in [TokenId -> Address \cup {None}]
    /\ operators \subseteq Address \X Address
    /\ frozen \subseteq TokenId
    /\ burned \subseteq TokenId
    /\ ownerTokens \in [Address -> SUBSET TokenId]
    /\ walletTokens \in [Address -> SUBSET TokenId]
    /\ unsynced \subseteq TokenId

LedgerInit ==
    /\ admin = None
    /\ paused = FALSE
    /\ blacklisted = {}
    /\ minters = {}
    /\ nextTokenId = 0
    /\ tokenOwner = [t \in TokenId |-> None]
    /\ tokenData = [t \in TokenId |-> None]
    /\ approval = [t \in TokenId |-> None]
    /\ operators = {}
    /\ frozen = {}
    /\ burned = {}
    /\ ownerTokens = [a \in Address |-> {}]
    /\ walletTokens = [a \in Address |-> {}]
    /\ unsynced = {}

-----------------------------------------------------------------------------
(* Guards *)

require_active(t) ==
    /\ t \notin burned
    /\ tokenData[t] # None
    /\ tokenOwner[t] # None

require_transferable(t) == require_active(t) /\ t \notin frozen

require_transfer_authorization(c, from, t) ==
    \/ c = from
    \/ approval[t] = c
    \/ <<from, c>> \in operators
    \/ c = admin

\* Mutant of check_transfer: nothing is asked of the recipient.
check_sender_only(c, from, to, t) ==
    /\ require_transferable(t)
    /\ tokenOwner[t] = from
    /\ from # to
    /\ from \notin blacklisted
    /\ require_transfer_authorization(c, from, t)

check_transfer(c, from, to, t) ==
    /\ require_transferable(t)
    /\ tokenOwner[t] = from
    /\ from # to
    /\ from \notin blacklisted
    /\ to \notin blacklisted
    /\ require_transfer_authorization(c, from, t)
    /\ to # Contract

require_mint_auth(a) == admin # None /\ (a = admin \/ a \in minters)

-----------------------------------------------------------------------------
(* Administration *)

\* Mutant of init: it can be called again.
init_again(a) ==
    /\ admin' = a
    /\ nextTokenId' = 0
    /\ UNCHANGED <<paused, blacklisted, minters, grantVars, indexVars,
                   statusVars, ownerVars, unsynced>>

init(a) ==
    /\ admin = None
    /\ admin' = a
    /\ nextTokenId' = 0
    /\ UNCHANGED <<paused, blacklisted, minters, grantVars, indexVars,
                   statusVars, ownerVars, unsynced>>

pause ==
    /\ admin # None
    /\ ~paused
    /\ paused' = TRUE
    /\ UNCHANGED <<admin, blacklisted, minters, grantVars, indexVars,
                   statusVars, ownerVars, nextTokenId, unsynced>>

unpause ==
    /\ admin # None
    /\ paused
    /\ paused' = FALSE
    /\ UNCHANGED <<admin, blacklisted, minters, grantVars, indexVars,
                   statusVars, ownerVars, nextTokenId, unsynced>>

add_to_blacklist(a) ==
    /\ admin # None
    /\ blacklisted' = blacklisted \cup {a}
    /\ UNCHANGED <<admin, paused, minters, grantVars, indexVars,
                   statusVars, ownerVars, nextTokenId, unsynced>>

remove_from_blacklist(a) ==
    /\ admin # None
    /\ blacklisted' = blacklisted \ {a}
    /\ UNCHANGED <<admin, paused, minters, grantVars, indexVars,
                   statusVars, ownerVars, nextTokenId, unsynced>>

set_approved_minter(a) ==
    /\ admin # None
    /\ minters' = minters \cup {a}
    /\ UNCHANGED <<admin, paused, blacklisted, grantVars, indexVars,
                   statusVars, ownerVars, nextTokenId, unsynced>>

remove_approved_minter(a) ==
    /\ admin # None
    /\ minters' = minters \ {a}
    /\ UNCHANGED <<admin, paused, blacklisted, grantVars, indexVars,
                   statusVars, ownerVars, nextTokenId, unsynced>>

freeze_token(t) ==
    /\ admin # None
    /\ require_active(t)
    /\ t \notin frozen
    /\ frozen' = frozen \cup {t}
    /\ UNCHANGED <<accessVars, grantVars, indexVars, burned, ownerVars,
                   nextTokenId, unsynced>>

unfreeze_token(t) ==
    /\ admin # None
    /\ t \notin burned
    /\ t \in frozen
    /\ frozen' = frozen \ {t}
    /\ UNCHANGED <<accessVars, grantVars, indexVars, burned, ownerVars,
                   nextTokenId, unsynced>>

-----------------------------------------------------------------------------
(* Grants *)

approve(o, op, t) ==
    /\ require_active(t)
    /\ tokenOwner[t] = o
    /\ op \notin {o, Contract}
    /\ approval[t] = None
    /\ approval' = [approval EXCEPT ![t] = op]
    /\ UNCHANGED <<accessVars, operators, indexVars, statusVars, ownerVars,
                   nextTokenId, unsynced>>

revoke_approval(o, t) ==
    /\ require_active(t)
    /\ tokenOwner[t] = o
    /\ approval[t] # None
    /\ approval' = [approval EXCEPT ![t] = None]
    /\ UNCHANGED <<accessVars, operators, indexVars, statusVars, ownerVars,
                   nextTokenId, unsynced>>

\* set_approval_for_all(o, op, true)
grant_operator(o, op) ==
    /\ op # o
    /\ <<o, op>> \notin operators
    /\ operators' = operators \cup {<<o, op>>}
    /\ UNCHANGED <<accessVars, approval, indexVars, statusVars, ownerVars,
                   nextTokenId, unsynced>>

\* set_approval_for_all(o, op, false), and revoke_operator_approval(o, op)
revoke_operator(o, op) ==
    /\ <<o, op>> \in operators
    /\ operators' = operators \ {<<o, op>>}
    /\ UNCHANGED <<accessVars, approval, indexVars, statusVars, ownerVars,
                   nextTokenId, unsynced>>

-----------------------------------------------------------------------------
(* Minting and burning: the part that touches ownership.  The other keys a  *)
(* mint writes are in module AtomicMint.                                    *)

\* execute_atomic_mint: the id is the counter's value; OwnerTokens is not written.
mint(o) ==
    LET t == nextTokenId IN
    /\ require_mint_auth(o)
    /\ o \notin blacklisted
    /\ o # Contract
    /\ t < MaxTokens
    /\ t \notin walletTokens[o]
    /\ tokenOwner' = [tokenOwner EXCEPT ![t] = o]
    /\ tokenData' = [tokenData EXCEPT ![t] = o]
    /\ walletTokens' = [walletTokens EXCEPT ![o] = @ \cup {t}]
    /\ nextTokenId' = t + 1
    /\ UNCHANGED <<accessVars, grantVars, ownerTokens, statusVars, unsynced>>

\* execute_batch_mint for owners[1], owners[2], ...: each id is the counter's
\* value plus one, and no TokenOwner record is written.
batch_mint(c, n, owners) ==
    LET ids == nextTokenId + 1 .. nextTokenId + n
        minted(a) == {t \in ids : owners[t - nextTokenId] = a}
    IN  /\ require_mint_auth(c)
        /\ c \notin blacklisted
        /\ nextTokenId + n < MaxTokens
        /\ \A i \in 1 .. n : owners[i] \notin blacklisted \cup {Contract}
        /\ tokenData' = [t \in TokenId |->
                IF t \in ids THEN owners[t - nextTokenId] ELSE tokenData[t]]
        /\ ownerTokens' = [a \in Address |-> ownerTokens[a] \cup minted(a)]
        /\ walletTokens' = [a \in Address |-> walletTokens[a] \cup minted(a)]
        /\ nextTokenId' = nextTokenId + n
        /\ unsynced' = unsynced \cup ids
        /\ UNCHANGED <<accessVars, grantVars, statusVars, tokenOwner>>

\* Mutant of burn_token: only the ownership record is removed.
burn_in_part(c, t) ==
    /\ require_active(t)
    /\ c = tokenOwner[t] \/ <<tokenOwner[t], c>> \in operators
    /\ tokenOwner' = [tokenOwner EXCEPT ![t] = None]
    /\ UNCHANGED <<accessVars, grantVars, indexVars, statusVars, tokenData,
                   nextTokenId, unsynced>>

burn_token(c, t) ==
    LET o == tokenOwner[t] IN
    /\ require_active(t)
    /\ c = o \/ <<o, c>> \in operators
    /\ approval' = [approval EXCEPT ![t] = None]
    /\ ownerTokens' = [ownerTokens EXCEPT ![o] = @ \ {t}]
    /\ walletTokens' = [walletTokens EXCEPT ![o] = @ \ {t}]
    /\ tokenOwner' = [tokenOwner EXCEPT ![t] = None]
    /\ tokenData' = [tokenData EXCEPT ![t] = None]
    /\ burned' = burned \cup {t}
    /\ UNCHANGED <<accessVars, operators, frozen, nextTokenId, unsynced>>

-----------------------------------------------------------------------------
(* Transfers.  A batch sends each of the tokens in the domain of `to`.  The *)
(* `from` of a request must be the owner, so it is not a parameter.         *)

\* move_token_between_owners / _wallets refuse a destination that already
\* lists the token; an index that does not list it under `from` is not moved.
CanMove(index, to) ==
    \A t \in DOMAIN to :
        t \in index[tokenOwner[t]] => t \notin index[to[t]]

\* Mutants of Moved: the tokens are only removed, or only added.
Unlinked(index, to) == [a \in Address |-> index[a] \ DOMAIN to]
Appended(index, to) ==
    [a \in Address |-> index[a] \cup {t \in DOMAIN to : to[t] = a}]

Moved(index, to) ==
    [a \in Address |->
        (index[a] \ {t \in DOMAIN to : tokenOwner[t] = a})
            \cup {t \in DOMAIN to : to[t] = a /\ t \in index[tokenOwner[t]]}]

\* transfer_service::transfer for every token of the batch
service_transfer(c, to) ==
    /\ \A t \in DOMAIN to : check_transfer(c, tokenOwner[t], to[t], t)
    /\ CanMove(ownerTokens, to)
    /\ CanMove(walletTokens, to)
    /\ tokenOwner' = [t \in TokenId |-> IF t \in DOMAIN to THEN to[t] ELSE tokenOwner[t]]
    /\ tokenData' = [t \in TokenId |-> IF t \in DOMAIN to THEN to[t] ELSE tokenData[t]]
    /\ ownerTokens' = Moved(ownerTokens, to)
    /\ walletTokens' = Moved(walletTokens, to)
    /\ UNCHANGED <<accessVars, grantVars, statusVars, nextTokenId, unsynced>>

transfer(c, dest, t) == service_transfer(c, [x \in {t} |-> dest])

transfer_as_operator(c, dest, t) ==
    /\ require_transferable(t)
    /\ require_transfer_authorization(c, tokenOwner[t], t)
    /\ transfer(c, dest, t)

batch_transfer(c, to) ==
    /\ DOMAIN to # {}
    /\ Cardinality(DOMAIN to) <= MaxBatchTransfer
    /\ \A t \in DOMAIN to : to[t] # Contract /\ require_transferable(t)
    /\ service_transfer(c, to)

\* The second `transfer`: only the ownership record and the approval.
transfer_direct(c, dest, t) ==
    /\ check_transfer(c, tokenOwner[t], dest, t)
    /\ tokenOwner' = [tokenOwner EXCEPT ![t] = dest]
    /\ approval' = [approval EXCEPT ![t] = None]
    /\ unsynced' = unsynced \cup {t}
    /\ UNCHANGED <<accessVars, operators, indexVars, statusVars, tokenData,
                   nextTokenId>>

\* The second `batch_transfer` does not reject a token named twice, so a batch
\* gives each token a path of one or more hops; hop[t][i] is the i-th recipient.
HopFrom(hop, t, i) == IF i = 1 THEN tokenOwner[t] ELSE hop[t][i - 1]
HopLast(hop, t) == hop[t][Cardinality(DOMAIN hop[t])]
HopCount(hop) == Cardinality(UNION {{t} \X DOMAIN hop[t] : t \in DOMAIN hop})

HopAllowed(c, hop, t, i) ==
    LET from == HopFrom(hop, t, i)
        dest == hop[t][i]
    IN  /\ from # None
        /\ from # dest
        /\ t \notin frozen
        /\ from \notin blacklisted
        /\ dest \notin blacklisted
        /\ dest # Contract
        /\ \/ c = from
           \/ i = 1 /\ approval[t] = c
           \/ <<from, c>> \in operators
           \/ c = admin

\* Owner record, Token record and wallet index after the hops of every token.
FollowHops(hop) ==
    /\ tokenOwner' = [t \in TokenId |->
            IF t \in DOMAIN hop THEN HopLast(hop, t) ELSE tokenOwner[t]]
    /\ tokenData' = [t \in TokenId |->
            IF t \in DOMAIN hop /\ tokenData[t] # None
              THEN HopLast(hop, t) ELSE tokenData[t]]
    /\ approval' = [t \in TokenId |-> IF t \in DOMAIN hop THEN None ELSE approval[t]]
    /\ walletTokens' = [a \in Address |->
            (walletTokens[a] \ {t \in DOMAIN hop :
                                    \E i \in DOMAIN hop[t] : HopFrom(hop, t, i) = a})
                \cup {t \in DOMAIN hop : HopLast(hop, t) = a}]
    /\ UNCHANGED <<accessVars, operators, ownerTokens, statusVars,
                   nextTokenId, unsynced>>

batch_transfer_guarded(c, hop) ==
    /\ ~paused
    /\ HopCount(hop) \in 1 .. MaxBatchTransfer
    /\ \A t \in DOMAIN hop : \A i \in DOMAIN hop[t] : HopAllowed(c, hop, t, i)
    /\ FollowHops(hop)

transfer_with_result(c, dest, t) ==
    /\ ~paused
    /\ check_transfer(c, tokenOwner[t], dest, t)
    /\ FollowHops([x \in {t} |-> [i \in {1} |-> dest]])

\* What a completed sale (buy_listing, accept_offer) does to the ledger; the
\* sale itself is in module Marketplace.
settle_sale(buyer, t) ==
    /\ ~paused
    /\ t \notin frozen
    /\ tokenOwner[t] \notin {None, buyer}
    /\ tokenOwner[t] \notin blacklisted
    /\ buyer \notin blacklisted
    /\ tokenOwner' = [tokenOwner EXCEPT ![t] = buyer]
    /\ unsynced' = unsynced \cup {t}
    /\ UNCHANGED <<accessVars, grantVars, indexVars, statusVars, tokenData,
                   nextTokenId>>

-----------------------------------------------------------------------------
\* The batches a caller can submit.
Batches ==
    UNION {[S -> Address] : S \in {R \in SUBSET TokenId : Cardinality(R) \in 1 .. MaxBatchTransfer}}
Paths == UNION {[1 .. n -> Address] : n \in 1 .. MaxBatchTransfer}
HopBatches ==
    {hop \in UNION {[S -> Paths] : S \in SUBSET TokenId} : HopCount(hop) \in 1 .. MaxBatchTransfer}

Administer ==
    \/ pause
    \/ unpause
    \/ \E a \in Caller : init(a)
    \/ \E a \in Address : \/ add_to_blacklist(a)
                          \/ remove_from_blacklist(a)
                          \/ set_approved_minter(a)
                          \/ remove_approved_minter(a)
    \/ \E t \in TokenId : freeze_token(t) \/ unfreeze_token(t)

Grant ==
    \E o \in Caller :
        \/ \E t \in TokenId : \/ revoke_approval(o, t)
                              \/ \E op \in Address : approve(o, op, t)
        \/ \E op \in Address : grant_operator(o, op) \/ revoke_operator(o, op)

MintOrBurn ==
    \E c \in Caller :
        \/ mint(c)
        \/ \E n \in 1 .. MaxBatchMint :
               \E owners \in [1 .. n -> Address] : batch_mint(c, n, owners)
        \/ \E t \in TokenId : burn_token(c, t)

Transfer ==
    \E c \in Caller :
        \/ \E dest \in Address, t \in TokenId :
               \/ transfer(c, dest, t)
               \/ transfer_as_operator(c, dest, t)
               \/ transfer_direct(c, dest, t)
               \/ transfer_with_result(c, dest, t)
        \/ \E to \in Batches : batch_transfer(c, to)
        \/ \E hop \in HopBatches : batch_transfer_guarded(c, hop)

LedgerNext ==
    \/ Administer
    \/ Grant
    \/ MintOrBurn
    \/ Transfer
    \/ \E buyer \in Caller, t \in TokenId : settle_sale(buyer, t)

LedgerSpec == LedgerInit /\ [][LedgerNext]_ledgerVars

-----------------------------------------------------------------------------
(* Properties *)

\* A burned id is spent for good: its owner, its record and its approval are
\* gone, and both ways of minting hand out ids past it (burn_token against
\* next_token_id and reserve_token_id).
BurnedStaysGone ==
    \A t \in burned :
        /\ tokenOwner[t] = None
        /\ tokenData[t] = None
        /\ approval[t] = None
        /\ t < nextTokenId

\* A spender is recorded only for a token somebody owns: nothing that removes
\* an owner, or mints over an id, leaves an approval behind.
NoOrphanApproval ==
    \A t \in TokenId :
        approval[t] # None => tokenOwner[t] # None /\ approval[t] # Contract

\* No path, mint, batch, sale or chain of hops, ever gives a token to the
\* contract's own address, in any of the four places that name a holder.
ContractHoldsNothing ==
    /\ \A t \in TokenId : tokenOwner[t] # Contract /\ tokenData[t] # Contract
    /\ walletTokens[Contract] = {}
    /\ ownerTokens[Contract] = {}

\* Every owned token can be found through tokens_of_owner of some wallet, even
\* after paths that skip the wallet index.
OwnedTokenIsListed ==
    \A t \in TokenId :
        tokenOwner[t] # None => \E a \in Address : t \in walletTokens[a]

\* The two transfers that leave the indices alone, sales and batch mints are
\* the only sources of drift: a token none of them touched is listed by its
\* owner's wallet, by no other wallet, and its Token record names its owner.
SyncedIndexIsExact ==
    \A t \in TokenId \ unsynced :
        /\ tokenData[t] = tokenOwner[t]
        /\ \A a \in Address : t \in walletTokens[a] <=> (tokenOwner[t] = a /\ a # None)

\* OwnerTokens, written by batch mints and moved by the service transfer only,
\* lists a token for at most one account.
OnePortfolioPerToken ==
    \A a, b \in Address : a # b => ownerTokens[a] \cap ownerTokens[b] = {}

\* The facts about ids that make the invariants above inductive: an owned token
\* has a record and lies below the counter, a frozen one too, and no record or
\* index names an id above it.
IdsFollowCounter ==
    /\ admin = None => nextTokenId = 0
    /\ \A t \in TokenId :
           /\ tokenOwner[t] # None =>
                 t \notin burned /\ tokenData[t] # None /\ t < nextTokenId
           /\ tokenData[t] # None => t <= nextTokenId
           /\ t \in frozen => t < nextTokenId
           /\ t \in unsynced => t <= nextTokenId
    /\ \A a \in Address : \A t \in ownerTokens[a] : t <= nextTokenId

\* The inductive invariant.
LedgerInv ==
    /\ TypeOK
    /\ IdsFollowCounter
    /\ BurnedStaysGone
    /\ NoOrphanApproval
    /\ ContractHoldsNothing
    /\ OwnedTokenIsListed
    /\ SyncedIndexIsExact
    /\ OnePortfolioPerToken

\* A frozen token changes hands through no path; it can only be burned.
FrozenTokenStays ==
    [][\A t \in frozen : tokenOwner'[t] # tokenOwner[t] => t \in burned']_ledgerVars

\* Ownership moves neither from nor to a blacklisted account, at the ends of a
\* chain of hops included, and no mint goes to one.
BlacklistHolds ==
    [][\A t \in TokenId :
           tokenOwner'[t] \notin {tokenOwner[t], None} =>
               {tokenOwner[t], tokenOwner'[t]} \cap blacklisted = {}]_ledgerVars

(* What the documents say and the code does not do; refuted. *)

\* TRANSFER_ARCHITECTURE.md, "Approval Cleanup".
ApprovalEndsWithTransfer ==
    [][\A t \in TokenId :
           tokenOwner[t] \notin {None, tokenOwner'[t]} => approval'[t] = None]_ledgerVars
=============================================================================
