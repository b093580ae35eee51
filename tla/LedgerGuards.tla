---------------------------- MODULE LedgerGuards ----------------------------
(***************************************************************************)
(* The reusable guards over the ledger's state.  The entry points of the   *)
(* contract do their own checks and call few of these; what the guards     *)
(* promise is compared here with what the entry points do.  No code makes  *)
(* anyone a registered administrator, so the contract's is the only one.   *)
(***************************************************************************)
EXTENDS TokenLedger, Guards

-----------------------------------------------------------------------------
(* State of the contract and of a token *)

guard_not_paused == from_condition(~paused, "ContractPaused")

token_exists(t) == tokenOwner[t] # None
require_token_exists(t) == from_condition(token_exists(t), "TokenNotFound")
require_token_not_frozen(t) == from_condition(t \notin frozen, "Unauthorized")
require_token_active(t) == sequence(require_token_exists(t), require_token_not_frozen(t))

\* As a Guard: a context may lack the token.
NftStateGuard(t) == IF t = None THEN "TokenNotFound" ELSE require_token_active(t)

\* Zero is a sentinel here, although the atomic mint starts with it.
validate_token_id_format(t) == from_condition(t # 0, "InvalidTokenId")
validate_token_id(t) == sequence(validate_token_id_format(t), require_token_exists(t))
validate_token_ids(ts) == execute_guards([i \in DOMAIN ts |-> validate_token_id(ts[i])])

-----------------------------------------------------------------------------
(* Callers *)

check_caller_is_admin(c) == c = admin
require_admin(c) ==
    sequence(from_condition(admin # None, "NotInitialized"),
             from_condition(check_caller_is_admin(c), "Unauthorized"))

require_not_frozen_or_admin(c, t) ==
    from_condition(t \notin frozen \/ check_caller_is_admin(c), "Unauthorized")

check_caller_is_owner(c, t) == tokenOwner[t] = c
require_owner(c, t) ==
    from_condition(check_caller_is_owner(c, t),
                   IF token_exists(t) THEN "Unauthorized" ELSE "TokenNotFound")

require_owner_matches(t, expected) ==
    sequence(require_token_exists(t), from_condition(tokenOwner[t] = expected, "Unauthorized"))

\* The guard of storage_guard.rs reads the Token record instead.
guard_token_owner(c, t) ==
    sequence(from_condition(tokenData[t] # None, "TokenNotFound"),
             from_condition(tokenData[t] = c, "Unauthorized"))

\* The owner is the caller's word: that it owns the token is not checked here.
get_operator_approval(c, owner, t) ==
    IF approval[t] = c THEN "SingleToken"
    ELSE IF <<owner, c>> \in operators THEN "OperatorForAll" ELSE "NotApproved"
require_operator_approval(c, owner, t) ==
    from_condition(get_operator_approval(c, owner, t) # "NotApproved", "Unauthorized")

\* Mutant of check_recipient: the blacklist is not looked at.
check_recipient_address(from, to) ==
    sequence(from_condition(from # to, "SelfTransferNotAllowed"),
             from_condition(to # Contract, "InvalidRecipient"))
check_recipient(from, to) ==
    execute_guards(<<from_condition(from # to, "SelfTransferNotAllowed"),
                     from_condition(to # Contract, "InvalidRecipient"),
                     from_condition(to \notin blacklisted, "InvalidAddress")>>)

validate_caller(c) ==
    sequence(from_condition(c # Contract, "InvalidAddress"),
             from_condition(c \notin blacklisted, "Unauthorized"))

-----------------------------------------------------------------------------
(* Properties *)

\* The guards of a transfer, composed.
require_transfer(c, from, to, t) ==
    sequence(require_token_active(t),
    sequence(require_owner_matches(t, from),
    sequence(from_condition(from \notin blacklisted, "InvalidAddress"),
    sequence(from_condition(\/ c = from
                            \/ require_operator_approval(c, from, t) = Ok
                            \/ require_admin(c) = Ok, "UnauthorizedTransfer"),
             check_recipient(from, to)))))

\* The composed guards admit the transfers that check_transfer of the entry points
\* admits, which also asks for the burn mark and the Token record; and the guard
\* that reads the Token record takes the same account for the owner as the others
\* while no path that leaves that record behind has touched the token.
GuardsAgree ==
    \A t \in TokenId, c \in Caller :
        /\ \A to \in Address :
               require_transfer(c, tokenOwner[t], to, t) = Ok
                   <=> check_transfer(c, tokenOwner[t], to, t)
        /\ t \notin unsynced => (guard_token_owner(c, t) = Ok <=> require_owner(c, t) = Ok)

\* Through whichever of the nine paths a token changes hands, chains of hops and
\* sales included, the guards for the token and for its new owner would have let
\* it go: it is there and not frozen, and goes to another account, not blacklisted
\* and not the contract.
MovesAreGuarded ==
    [][\A t \in TokenId :
           tokenOwner[t] # None /\ tokenOwner'[t] \notin {tokenOwner[t], None} =>
               /\ require_token_active(t) = Ok
               /\ check_recipient(tokenOwner[t], tokenOwner'[t]) = Ok
               /\ validate_caller(tokenOwner[t]) = Ok]_ledgerVars
=============================================================================
