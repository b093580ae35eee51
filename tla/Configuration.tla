--------------------------- MODULE Configuration ---------------------------
(***************************************************************************)
(* The settings of the contract: the stored Config, the default royalty    *)
(* under its own key, the pause, who may change them, and what the events  *)
(* of each change tell a reader who keeps up with them (config.rs,         *)
(* config_guard.rs, config_updated_event.rs, pause_event.rs).              *)
(*                                                                         *)
(* ClipCashNFT, which is compiled for native targets only, keeps another   *)
(* Config type under the same key, and is a deployment of its own here.    *)
(***************************************************************************)
EXTENDS Naturals

CONSTANTS
    Address, None,
    MAX_ROYALTY_BPS, MAX_PLATFORM_FEE_BPS, MAX_TOTAL_DEDUCTION_BPS,
    DEFAULT_ROYALTY_BPS,   \* 500, of a deployment of ClipCashNFT
    MAX_BATCH_SIZE,        \* 100, of a batch mint and of a batch transfer
    MAX_COLLECTION_LIMIT,  \* 100 000
    Configs,               \* bound: the configurations submitted
    CashConfigs            \* bound: those submitted to ClipCashNFT

Config ==
    [owner : Address, version : Nat, platform_fee_bps : Nat,
     default_royalty_bps : Nat, paused : BOOLEAN, max_batch_mint_size : Nat,
     max_batch_transfer_size : Nat, max_collection_size : Nat]
CashConfig ==
    [admin : Address, max_royalty_bps : Nat, mint_cooldown_secs : Nat,
     platform_fee_bps : Nat]

ASSUME ConfigAssumption ==
    /\ None \notin Address
    /\ {MAX_ROYALTY_BPS, MAX_PLATFORM_FEE_BPS, MAX_TOTAL_DEDUCTION_BPS,
        DEFAULT_ROYALTY_BPS, MAX_BATCH_SIZE, MAX_COLLECTION_LIMIT} \subseteq Nat
    /\ Configs \subseteq Config
    /\ CashConfigs \subseteq CashConfig
    /\ None \notin Config \cup CashConfig

VARIABLES
    admin,          \* DataKey::Admin
    config,         \* DataKey::Config
    defaultRoyalty, \* DataKey::DefaultRoyaltyBps
    paused,         \* DataKey::Paused
    told,           \* what the events so far tell of each setting
    cashAdmin, cashConfig   \* ClipCashNFT's Admin and Config

settingVars == <<config, defaultRoyalty, paused, told>>
cashVars == <<cashAdmin, cashConfig>>
configVars == <<admin, settingVars, cashVars>>

\* One value per ConfigField a setting is reported under, and the pause.
Told ==
    [PlatformFee : Nat, MaxRoyalty : Nat, BatchSize : Nat, ContractLimit : Nat,
     Admin : Address, paused : BOOLEAN]

ConfigTypeOK ==
    /\ admin \in Address \cup {None}
    /\ config \in Config \cup {None}
    /\ defaultRoyalty \in 0 .. MAX_ROYALTY_BPS \cup {None}
    /\ paused \in BOOLEAN
    /\ told \in Told \cup [paused : BOOLEAN]
    /\ config # None => admin # None /\ told \in Told
    /\ cashAdmin \in Address \cup {None}
    /\ cashConfig \in CashConfig \cup {None}
    /\ cashAdmin = None <=> cashConfig = None

ConfigInit ==
    /\ admin = None
    /\ config = None
    /\ defaultRoyalty = None
    /\ paused = FALSE
    /\ told = [paused |-> FALSE]
    /\ cashAdmin = None
    /\ cashConfig = None

-----------------------------------------------------------------------------
(* Guards *)

require_config_admin(c) == admin # None /\ c = admin

validate_total_deduction_bps(royalty, fee) == royalty + fee <= MAX_TOTAL_DEDUCTION_BPS

\* The checks at the head of set_config, which ConfigService::validate_update repeats.
validate_update(new) ==
    /\ new.platform_fee_bps <= MAX_PLATFORM_FEE_BPS
    /\ new.default_royalty_bps <= MAX_ROYALTY_BPS
    /\ validate_total_deduction_bps(new.default_royalty_bps, new.platform_fee_bps)
    /\ new.max_batch_mint_size \in 1 .. MAX_BATCH_SIZE
    /\ new.max_batch_transfer_size \in 1 .. MAX_BATCH_SIZE
    /\ new.max_collection_size \in 1 .. MAX_COLLECTION_LIMIT

-----------------------------------------------------------------------------
(* Events *)

\* emit_numeric_change and emit_address_change: silent if nothing changed.
Emit(known, field, old, new) ==
    IF old = new THEN known ELSE [known EXCEPT ![field] = new]

\* One event per changed setting, in this order.  Two settings share BatchSize,
\* two share ContractLimit, and `paused` has none.
\* Mutant of Report: it stops after the royalty, whose event has the two values swapped.
ReportStale(known, old, new) ==
    LET fee == Emit(known, "PlatformFee", old.platform_fee_bps, new.platform_fee_bps)
    IN  Emit(fee, "MaxRoyalty", new.default_royalty_bps, old.default_royalty_bps)
Report(known, old, new) ==
    LET fee == Emit(known, "PlatformFee", old.platform_fee_bps, new.platform_fee_bps)
        royalty == Emit(fee, "MaxRoyalty", old.default_royalty_bps, new.default_royalty_bps)
        mints == Emit(royalty, "BatchSize", old.max_batch_mint_size, new.max_batch_mint_size)
        moves == Emit(mints, "BatchSize", old.max_batch_transfer_size,
                      new.max_batch_transfer_size)
        size == Emit(moves, "ContractLimit", old.max_collection_size, new.max_collection_size)
        version == Emit(size, "ContractLimit", old.version, new.version)
    IN  Emit(version, "Admin", old.owner, new.owner)

\* The first configuration is not reported: the reader takes it from get_config.
ReadOnce(known, new) ==
    [PlatformFee |-> new.platform_fee_bps, MaxRoyalty |-> new.default_royalty_bps,
     BatchSize |-> new.max_batch_mint_size, ContractLimit |-> new.max_collection_size,
     Admin |-> new.owner, paused |-> known.paused]

-----------------------------------------------------------------------------
(* ClipsNftContract *)

init(a) ==
    /\ admin = None
    /\ admin' = a
    /\ UNCHANGED <<settingVars, cashVars>>

\* Mutant of set_config: a new owner takes over as administrator.
set_config_and_admin(c, new) ==
    /\ require_config_admin(c)
    /\ validate_update(new)
    /\ config' = new
    /\ admin' = new.owner
    /\ told' = IF config = None THEN ReadOnce(told, new) ELSE Report(told, config, new)
    /\ UNCHANGED <<defaultRoyalty, paused, cashVars>>
set_config(c, new) ==
    /\ require_config_admin(c)
    /\ validate_update(new)
    /\ config' = new
    /\ told' = IF config = None THEN ReadOnce(told, new) ELSE Report(told, config, new)
    /\ UNCHANGED <<admin, defaultRoyalty, paused, cashVars>>

set_default_royalty_bps(c, bps) ==
    /\ require_config_admin(c)
    /\ bps <= MAX_ROYALTY_BPS
    /\ defaultRoyalty' = bps
    /\ UNCHANGED <<admin, config, paused, told, cashVars>>

pause(c) ==
    /\ require_config_admin(c)
    /\ ~paused
    /\ paused' = TRUE
    /\ told' = [told EXCEPT !.paused = TRUE]
    /\ UNCHANGED <<admin, config, defaultRoyalty, cashVars>>

unpause(c) ==
    /\ require_config_admin(c)
    /\ paused
    /\ paused' = FALSE
    /\ told' = [told EXCEPT !.paused = FALSE]
    /\ UNCHANGED <<admin, config, defaultRoyalty, cashVars>>

-----------------------------------------------------------------------------
(* ClipCashNFT *)

cash_init(a) ==
    /\ cashConfig = None
    /\ cashAdmin' = a
    /\ cashConfig' = [admin |-> a, max_royalty_bps |-> DEFAULT_ROYALTY_BPS,
                      mint_cooldown_secs |-> 0, platform_fee_bps |-> 0]
    /\ UNCHANGED <<admin, settingVars>>

\* validate_config
guard_config_update(c, new) ==
    /\ cashAdmin # None
    /\ c = cashAdmin
    /\ new.platform_fee_bps <= MAX_PLATFORM_FEE_BPS
    /\ new.max_royalty_bps <= MAX_ROYALTY_BPS
    /\ validate_total_deduction_bps(new.max_royalty_bps, new.platform_fee_bps)

cash_set_config(c, new) ==
    /\ guard_config_update(c, new)
    /\ cashConfig' = new
    /\ UNCHANGED <<admin, settingVars, cashAdmin>>

-----------------------------------------------------------------------------
ConfigNext ==
    \/ \E a \in Address :
           \/ init(a) \/ pause(a) \/ unpause(a)
           \/ \E new \in Configs : set_config(a, new)
           \/ \E bps \in 0 .. MAX_ROYALTY_BPS + 1 : set_default_royalty_bps(a, bps)
    \/ \E a \in Address :
           \/ cash_init(a)
           \/ \E new \in CashConfigs : cash_set_config(a, new)

ConfigSpec == ConfigInit /\ [][ConfigNext]_configVars

-----------------------------------------------------------------------------
(* Properties *)

\* types.rs, ConfigUpdatedEvent: a reader who took the first configuration from
\* storage knows the fee, the royalty, the owner and the pause from the events
\* alone, whatever was changed together.  Of the settings that share a field
\* they know one, not which.
EventsTellConfig ==
    /\ told.paused = paused
    /\ config # None =>
           /\ told.PlatformFee = config.platform_fee_bps
           /\ told.MaxRoyalty = config.default_royalty_bps
           /\ told.Admin = config.owner
           /\ told.BatchSize \in {config.max_batch_mint_size, config.max_batch_transfer_size}
           /\ told.ContractLimit \in {config.max_collection_size, config.version}

\* Authority stays where init put it.  No stored configuration moves it, although
\* it names another owner or admin and an event announces them.
AuthorityNeverMoves ==
    [][/\ admin # None => admin' = admin
       /\ cashAdmin # None => cashAdmin' = cashAdmin]_configVars
=============================================================================
