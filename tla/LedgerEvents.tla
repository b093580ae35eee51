---------------------------- MODULE LedgerEvents ----------------------------
(***************************************************************************)
(* The events the ledger publishes, and a reader who keeps up with them:   *)
(* an indexer that applies each event in the order of publication, reads   *)
(* no storage, and ends up with holders, spenders, operators, frozen       *)
(* tokens and the pause of its own.  An entry point publishes its events   *)
(* only when it succeeds, so an event is part of the action.               *)
(***************************************************************************)
EXTENDS TokenLedger

VARIABLES
    seenHolder,     \* nft_mint, nft_xfer, nft_burn: who holds each token
    seenSpender,    \* approval, aprv_rvkd on a token
    seenOperators,  \* approval, aprv_rvkd on all tokens of an owner
    seenFrozen,     \* nft_frz, nft_unfrz
    seenPaused,     \* cfg_pause, which announces the pause and its end
    gapless         \* each transfer and burn named the holder the reader knew

grantsSeen == <<seenSpender, seenOperators>>
statusSeen == <<seenFrozen, seenPaused>>
holdersSeen == <<seenHolder, gapless>>
seenVars == <<grantsSeen, statusSeen, holdersSeen>>
eventVars == <<ledgerVars, seenVars>>

SeenInit ==
    /\ seenHolder = [t \in TokenId |-> None]
    /\ seenSpender = [t \in TokenId |-> None]
    /\ seenOperators = {}
    /\ seenFrozen = {}
    /\ seenPaused = FALSE
    /\ gapless = TRUE

-----------------------------------------------------------------------------
(* What each event makes the reader believe *)

\* A mint event for each token in the domain of `to`.
emit_mint(to) ==
    /\ seenHolder' = [t \in TokenId |-> IF t \in DOMAIN to THEN to[t] ELSE seenHolder[t]]
    /\ UNCHANGED <<grantsSeen, statusSeen, gapless>>

\* The transfers of each token in the domain of `to`, the last of them to to[t];
\* the first names the stored owner as the previous one.
emit_nft_transferred(to) ==
    /\ seenHolder' = [t \in TokenId |-> IF t \in DOMAIN to THEN to[t] ELSE seenHolder[t]]
    /\ gapless' = (gapless /\ \A t \in DOMAIN to : seenHolder[t] = tokenOwner[t])
    /\ UNCHANGED <<grantsSeen, statusSeen>>

\* Mutant of emit_nft_burned: the event names the owner after the burn.
emit_burned_late(t) ==
    /\ seenHolder' = [seenHolder EXCEPT ![t] = None]
    /\ gapless' = (gapless /\ seenHolder[t] = tokenOwner'[t])
    /\ UNCHANGED <<grantsSeen, statusSeen>>
emit_nft_burned(t) ==
    /\ seenHolder' = [seenHolder EXCEPT ![t] = None]
    /\ gapless' = (gapless /\ seenHolder[t] = tokenOwner[t])
    /\ UNCHANGED <<grantsSeen, statusSeen>>

emit_approval_granted(op, t) ==
    /\ seenSpender' = [seenSpender EXCEPT ![t] = op]
    /\ UNCHANGED <<seenOperators, statusSeen, holdersSeen>>

emit_token_approval_revoked(t) ==
    /\ seenSpender' = [seenSpender EXCEPT ![t] = None]
    /\ UNCHANGED <<seenOperators, statusSeen, holdersSeen>>

emit_operator_granted(o, op) ==
    /\ seenOperators' = seenOperators \cup {<<o, op>>}
    /\ UNCHANGED <<seenSpender, statusSeen, holdersSeen>>

\* Mutant of emit_operator_approval_revoked: the two accounts are swapped.
emit_owner_revoked(o, op) ==
    /\ seenOperators' = seenOperators \ {<<op, o>>}
    /\ UNCHANGED <<seenSpender, statusSeen, holdersSeen>>
emit_operator_approval_revoked(o, op) ==
    /\ seenOperators' = seenOperators \ {<<o, op>>}
    /\ UNCHANGED <<seenSpender, statusSeen, holdersSeen>>

emit_nft_frozen(t) ==
    /\ seenFrozen' = seenFrozen \cup {t}
    /\ UNCHANGED <<seenPaused, grantsSeen, holdersSeen>>

emit_nft_unfrozen(t) ==
    /\ seenFrozen' = seenFrozen \ {t}
    /\ UNCHANGED <<seenPaused, grantsSeen, holdersSeen>>

\* emit_contract_paused and emit_contract_unpaused share a topic; the payload
\* of the first has a reason.
emit_contract_paused(state) ==
    /\ seenPaused' = state
    /\ UNCHANGED <<seenFrozen, grantsSeen, holdersSeen>>

silent == UNCHANGED seenVars

-----------------------------------------------------------------------------
(* The entry points, with what they publish *)

AdministerTold ==
    \/ pause /\ emit_contract_paused(TRUE)
    \/ unpause /\ emit_contract_paused(FALSE)
    \/ \E a \in Caller : init(a) /\ silent
    \/ \E a \in Address : /\ \/ add_to_blacklist(a)
                             \/ remove_from_blacklist(a)
                             \/ set_approved_minter(a)
                             \/ remove_approved_minter(a)
                          /\ silent
    \/ \E t \in TokenId : \/ freeze_token(t) /\ emit_nft_frozen(t)
                          \/ unfreeze_token(t) /\ emit_nft_unfrozen(t)

GrantTold ==
    \E o \in Caller :
        \/ \E t \in TokenId :
               \/ revoke_approval(o, t) /\ emit_token_approval_revoked(t)
               \/ \E op \in Address : approve(o, op, t) /\ emit_approval_granted(op, t)
        \/ \E op \in Address :
               \/ grant_operator(o, op) /\ emit_operator_granted(o, op)
               \/ revoke_operator(o, op) /\ emit_operator_approval_revoked(o, op)

\* A burn withdraws the approval without an event.
MintOrBurnTold ==
    \E c \in Caller :
        \/ mint(c) /\ emit_mint([t \in {nextTokenId} |-> c])
        \/ \E n \in 1 .. MaxBatchMint :
               \E owners \in [1 .. n -> Address] :
                   /\ batch_mint(c, n, owners)
                   /\ emit_mint([t \in nextTokenId + 1 .. nextTokenId + n |->
                                     owners[t - nextTokenId]])
        \/ \E t \in TokenId : burn_token(c, t) /\ emit_nft_burned(t)

\* The direct and the guarded transfers withdraw approvals without an event.
TransferTold ==
    \E c \in Caller :
        \/ \E dest \in Address, t \in TokenId :
               /\ \/ transfer(c, dest, t)
                  \/ transfer_as_operator(c, dest, t)
                  \/ transfer_direct(c, dest, t)
                  \/ transfer_with_result(c, dest, t)
               /\ emit_nft_transferred([x \in {t} |-> dest])
        \/ \E to \in Batches : batch_transfer(c, to) /\ emit_nft_transferred(to)
        \/ \E hop \in HopBatches :
               /\ batch_transfer_guarded(c, hop)
               /\ emit_nft_transferred([t \in DOMAIN hop |-> HopLast(hop, t)])

EventNext ==
    \/ AdministerTold
    \/ GrantTold
    \/ MintOrBurnTold
    \/ TransferTold
    \/ \E buyer \in Caller, t \in TokenId :
           settle_sale(buyer, t) /\ emit_nft_transferred([x \in {t} |-> buyer])

EventSpec == LedgerInit /\ SeenInit /\ [][EventNext]_eventVars

-----------------------------------------------------------------------------
(* Properties *)

\* The holder a reader of the events knows is the stored owner on every path,
\* mints over a reused id, batches and chains of hops included; of a token the
\* batch mint made it is the owner in the Token record, since there is no other.
\* No transfer or burn ever came as a surprise.
ReaderKnowsHolders ==
    /\ gapless
    /\ \A t \in TokenId :
           seenHolder[t] = IF tokenOwner[t] # None THEN tokenOwner[t] ELSE tokenData[t]

\* Operators, freezes and the pause are told exactly.  A spender who may move a
\* token is always known; one the reader knows may have lost the right.
ReaderKnowsGrants ==
    /\ seenOperators = operators
    /\ seenFrozen = frozen
    /\ seenPaused = paused
    /\ \A t \in TokenId : approval[t] # None => seenSpender[t] = approval[t]
=============================================================================
