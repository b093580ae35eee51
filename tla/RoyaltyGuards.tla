---------------------------- MODULE RoyaltyGuards ----------------------------
(***************************************************************************)
(* The reusable guards over royalty terms, creators and roles.  No entry   *)
(* point calls them; what they promise is compared with what it does.      *)
(***************************************************************************)
EXTENDS RoyaltyTerms, LedgerGuards

-----------------------------------------------------------------------------
(* The life of royalty terms *)

royalty_state(t) ==
    IF royalty[t] = None THEN "TokenNotFound"
    ELSE IF t \in royaltyFrozen THEN "Frozen" ELSE "Active"

validate_state_for_update(t) ==
    IF royalty_state(t) = "Frozen" THEN "RoyaltyFrozen"
    ELSE from_condition(royalty_state(t) = "Active", royalty_state(t))

authorize_caller(c, t) ==
    from_condition(authorize_royalty_update(c, t), "UnauthorizedConfigurationUpdate")
authorize_admin_only(c) ==
    from_condition(check_caller_is_admin(c), "UnauthorizedConfigurationUpdate")

\* Neither asks whether the token itself is frozen, nor for its Token record.
require_royalty_auth(c, t) ==
    execute_guards(<<guard_not_paused, validate_state_for_update(t), authorize_caller(c, t)>>)
require_royalty_admin_auth(c, t) ==
    execute_guards(<<guard_not_paused, validate_state_for_update(t), authorize_admin_only(c)>>)
require_royalty_auth_no_token(c) == sequence(guard_not_paused, authorize_admin_only(c))

\* The registered administrators, and there are none: see LedgerGuards.
require_royalty_admin(c) == "Unauthorized"

-----------------------------------------------------------------------------
(* The pipeline meant for all royalty operations: here the caller's right comes  *)
(* before the freeze.                                                            *)

validate_royalty_state(t) == validate_state_for_update(t)

validate_royalty_configuration(r) ==
    execute_guards(<<from_condition(validate_royalty(r), "InvalidBasisPoints"),
                     from_condition(validate_royalty_asset(r.asset), "UnsupportedAsset"),
                     from_condition(validate_royalty_recipients(r), "InvalidRecipient")>>)

validate_royalty_operation(c, t, r) ==
    execute_guards(<<guard_not_paused,
                     from_condition(royalty[t] # None, "TokenNotFound"),
                     authorize_caller(c, t),
                     validate_royalty_state(t),
                     validate_royalty_configuration(r)>>)

-----------------------------------------------------------------------------
(* Creators and roles *)

require_creator(c, t) ==
    sequence(from_condition(creator[t] # None, "TokenNotFound"),
             from_condition(creator[t] = c, "Unauthorized"))

validate_creator_address(a) == from_condition(a # Contract, "InvalidAddress")
verify_creator_association(t, a) == require_creator(a, t)
validate_creator_assignment(t, a) ==
    sequence(validate_creator_address(a), verify_creator_association(t, a))

check_role(c, role, t) ==
    CASE role = "Admin"   -> require_admin(c)
      [] role = "Owner"   -> require_owner(c, t)
      [] role = "Creator" -> require_creator(c, t)
      [] role = "Minter"  -> from_condition(c \in minters, "Unauthorized")
      [] role = "Any"     -> Ok

require_caller_role(c, role, t) == sequence(validate_caller(c), check_role(c, role, t))

\* A lack of the role is an answer; any other error is one of the call.
caller_has_role(c, role, t) ==
    IF validate_caller(c) # Ok THEN validate_caller(c)
    ELSE IF check_role(c, role, t) \in {Ok, "Unauthorized"} THEN Ok
    ELSE check_role(c, role, t)

-----------------------------------------------------------------------------
(* Properties *)

\* Terms of an owned token change only while the contract runs, the terms are not
\* frozen and somebody has a right to them (set_royalty, update_royalty; no mint
\* reaches an owned token and no change of owner touches the terms), and the new
\* ones pass the pipeline's checks but for the asset, which set_royalty does not
\* look at.
TermChangesAreGuarded ==
    [][\A t \in TokenId :
           royalty'[t] \notin {royalty[t], None} /\ tokenOwner[t] # None =>
               /\ \E c \in Caller :
                      /\ require_royalty_auth(c, t) = Ok
                      /\ require_caller_role(c, "Any", t) = Ok
                      /\ \E x \in currencies \cup {NoAsset} :
                             validate_royalty_operation(c, t, [royalty'[t] EXCEPT !.asset = x]) = Ok
               /\ require_token_not_frozen(t) = Ok]_<<ledgerVars, termsVars>>
=============================================================================
