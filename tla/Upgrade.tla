------------------------------ MODULE Upgrade ------------------------------
(***************************************************************************)
(* A deployment of an earlier release under the code of this one: it has   *)
(* handed out token ids and never counted the supply.  The migration steps *)
(* (migration.rs) bring its storage up to date.  No entry point runs them  *)
(* and no entry point waits for them: whoever upgrades calls them, before  *)
(* or after the first mint of the new code, once or again.                 *)
(***************************************************************************)
EXTENDS Configuration

CONSTANTS
    CURRENT_MIGRATION_VERSION,
    MaxTokens   \* bound: in place of u32::MAX

ASSUME UpgradeAssumption ==
    /\ CURRENT_MIGRATION_VERSION = 1
    /\ MaxTokens \in Nat
    /\ None \notin Nat

VARIABLES
    nextTokenId,  \* DataKey::NextTokenId
    totalSupply,  \* DataKey::TotalSupply
    version,      \* DataKey::ContractVersion, migration_version
    legacy,       \* history: ids handed out by the earlier release
    mintedFirst   \* history: the new code minted before it was migrated

supplyVars == <<nextTokenId, totalSupply, version, legacy, mintedFirst>>
upgradeVars == <<configVars, supplyVars>>

UpgradeTypeOK ==
    /\ ConfigTypeOK
    /\ nextTokenId \in 0 .. MaxTokens
    /\ totalSupply \in 0 .. MaxTokens \cup {None}
    /\ version \in 0 .. CURRENT_MIGRATION_VERSION
    /\ legacy \in 0 .. nextTokenId
    /\ mintedFirst \in BOOLEAN

\* A deployment that an earlier release has used has its administrator.
UpgradeInit ==
    /\ config = None /\ defaultRoyalty = None
    /\ paused = FALSE /\ told = [paused |-> FALSE]
    /\ cashAdmin = None /\ cashConfig = None
    /\ admin \in Address \cup {None}
    /\ legacy \in 0 .. MaxTokens
    /\ legacy > 0 => admin # None
    /\ nextTokenId = legacy
    /\ totalSupply = None
    /\ version = 0
    /\ mintedFirst = FALSE

get_total_supply == IF totalSupply = None THEN 0 ELSE totalSupply

\* Either mint, as far as the two counters go.
mint ==
    /\ admin # None
    /\ nextTokenId < MaxTokens
    /\ nextTokenId' = nextTokenId + 1
    /\ totalSupply' = get_total_supply + 1
    /\ mintedFirst' = (mintedFirst \/ version = 0)
    /\ UNCHANGED <<configVars, version, legacy>>

\* Mutant of migrate_v0_to_v1: the supply is left as it is.
leave_supply(supply) == supply
migrate_v0_to_v1(supply) == IF supply = None THEN nextTokenId ELSE supply

migration_steps == {1}
PendingSteps(target) == {step \in migration_steps : version < step /\ step <= target}

\* There is one step; a call with nothing to do changes nothing.
run_migrations(target) ==
    /\ totalSupply' = IF 1 \in PendingSteps(target) THEN migrate_v0_to_v1(totalSupply)
                      ELSE totalSupply
    /\ version' = IF 1 \in PendingSteps(target) THEN 1 ELSE version
    /\ UNCHANGED <<configVars, nextTokenId, legacy, mintedFirst>>

UpgradeNext ==
    \/ ConfigNext /\ UNCHANGED supplyVars
    \/ mint
    \/ \E target \in 0 .. CURRENT_MIGRATION_VERSION + 1 : run_migrations(target)

UpgradeSpec == UpgradeInit /\ [][UpgradeNext]_upgradeVars

-----------------------------------------------------------------------------
(* Properties *)

\* The supply counts every token id handed out, by a deployment that was never
\* another release's, migrated or not, and by one that was, provided it was
\* migrated before it minted.  (A deployment that mints first counts from the
\* first mint on, for good.)
SupplyCountsTokens ==
    legacy = 0 \/ (version >= CURRENT_MIGRATION_VERSION /\ ~mintedFirst) =>
        get_total_supply = nextTokenId

\* migration.rs: steps that were applied are skipped.  A migration changes the
\* supply only when it raises the version, and no call lowers the version.
StepsRunOnce ==
    [][/\ version' >= version
       /\ nextTokenId' = nextTokenId /\ version' = version =>
              totalSupply' = totalSupply]_upgradeVars
=============================================================================
