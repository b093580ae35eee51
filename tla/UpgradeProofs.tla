--------------------------- MODULE UpgradeProofs ---------------------------
(***************************************************************************)
(* Proofs about Configuration and Upgrade, for any accounts, limits and    *)
(* submitted configurations.                                               *)
(***************************************************************************)
EXTENDS Upgrade, TLAPS

\* What the two counters and the version say of each other.
CountersAgree ==
    /\ SupplyCountsTokens
    /\ version = 0 /\ ~mintedFirst => totalSupply = None /\ nextTokenId = legacy
    /\ version = 1 => totalSupply # None
    /\ totalSupply # None => totalSupply <= nextTokenId

UpgradeInv == UpgradeTypeOK /\ EventsTellConfig /\ CountersAgree

-----------------------------------------------------------------------------
(* Events *)

\* What a reader knows after a change of the configuration, if they knew the
\* old one.
LEMMA ReportTells ==
    ASSUME NEW known \in Told, NEW old \in Config, NEW new \in Config,
           known.PlatformFee = old.platform_fee_bps,
           known.MaxRoyalty = old.default_royalty_bps,
           known.Admin = old.owner,
           known.BatchSize \in {old.max_batch_mint_size, old.max_batch_transfer_size},
           known.ContractLimit \in {old.max_collection_size, old.version},
           NEW next, next = Report(known, old, new)
    PROVE  /\ next \in Told
           /\ next.paused = known.paused
           /\ next.PlatformFee = new.platform_fee_bps
           /\ next.MaxRoyalty = new.default_royalty_bps
           /\ next.Admin = new.owner
           /\ next.BatchSize \in {new.max_batch_mint_size, new.max_batch_transfer_size}
           /\ next.ContractLimit \in {new.max_collection_size, new.version}
<1> DEFINE fee == Emit(known, "PlatformFee", old.platform_fee_bps, new.platform_fee_bps)
           royalty == Emit(fee, "MaxRoyalty", old.default_royalty_bps, new.default_royalty_bps)
           mints == Emit(royalty, "BatchSize", old.max_batch_mint_size, new.max_batch_mint_size)
           moves == Emit(mints, "BatchSize", old.max_batch_transfer_size,
                         new.max_batch_transfer_size)
           size == Emit(moves, "ContractLimit", old.max_collection_size,
                        new.max_collection_size)
           limits == Emit(size, "ContractLimit", old.version, new.version)
<1>1. /\ {old.platform_fee_bps, old.default_royalty_bps, old.max_batch_mint_size,
          old.max_batch_transfer_size, old.max_collection_size, old.version} \subseteq Nat
      /\ {new.platform_fee_bps, new.default_royalty_bps, new.max_batch_mint_size,
          new.max_batch_transfer_size, new.max_collection_size, new.version} \subseteq Nat
      /\ old.owner \in Address /\ new.owner \in Address
  BY DEF Config
<1>2. next = Emit(limits, "Admin", old.owner, new.owner)
  BY DEF Report
<1> HIDE DEF fee, royalty, mints, moves, size, limits
<1>3. /\ fee \in Told /\ fee.paused = known.paused /\ fee.Admin = known.Admin
      /\ fee.MaxRoyalty = known.MaxRoyalty /\ fee.BatchSize = known.BatchSize
      /\ fee.ContractLimit = known.ContractLimit
      /\ fee.PlatformFee = new.platform_fee_bps
  <2>1. /\ fee \in Told
        /\ fee.PlatformFee = IF old.platform_fee_bps = new.platform_fee_bps THEN known.PlatformFee ELSE new.platform_fee_bps
        /\ fee.MaxRoyalty = known.MaxRoyalty /\ fee.BatchSize = known.BatchSize /\ fee.ContractLimit = known.ContractLimit
        /\ fee.Admin = known.Admin /\ fee.paused = known.paused
    BY <1>1 DEF fee, Emit, Told
  <2> QED BY <1>1, <2>1
<1>4. /\ royalty \in Told /\ royalty.paused = known.paused /\ royalty.Admin = known.Admin
      /\ royalty.PlatformFee = new.platform_fee_bps
      /\ royalty.BatchSize = known.BatchSize /\ royalty.ContractLimit = known.ContractLimit
      /\ royalty.MaxRoyalty = new.default_royalty_bps
  <2>1. /\ royalty \in Told
        /\ royalty.MaxRoyalty = IF old.default_royalty_bps = new.default_royalty_bps THEN fee.MaxRoyalty ELSE new.default_royalty_bps
        /\ royalty.PlatformFee = fee.PlatformFee /\ royalty.BatchSize = fee.BatchSize /\ royalty.ContractLimit = fee.ContractLimit
        /\ royalty.Admin = fee.Admin /\ royalty.paused = fee.paused
    BY <1>1, <1>3 DEF royalty, Emit, Told
  <2> QED BY <1>1, <1>3, <2>1
<1>5. /\ mints \in Told /\ mints.paused = known.paused /\ mints.Admin = known.Admin
      /\ mints.PlatformFee = new.platform_fee_bps
      /\ mints.MaxRoyalty = new.default_royalty_bps
      /\ mints.ContractLimit = known.ContractLimit
      /\ mints.BatchSize \in {new.max_batch_mint_size, old.max_batch_transfer_size}
  <2>1. /\ mints \in Told
        /\ mints.BatchSize = IF old.max_batch_mint_size = new.max_batch_mint_size THEN royalty.BatchSize ELSE new.max_batch_mint_size
        /\ mints.PlatformFee = royalty.PlatformFee /\ mints.MaxRoyalty = royalty.MaxRoyalty /\ mints.ContractLimit = royalty.ContractLimit
        /\ mints.Admin = royalty.Admin /\ mints.paused = royalty.paused
    BY <1>1, <1>4 DEF mints, Emit, Told
  <2> QED BY <1>1, <1>4, <2>1
<1>6. /\ moves \in Told /\ moves.paused = known.paused /\ moves.Admin = known.Admin
      /\ moves.PlatformFee = new.platform_fee_bps
      /\ moves.MaxRoyalty = new.default_royalty_bps
      /\ moves.ContractLimit = known.ContractLimit
      /\ moves.BatchSize \in {new.max_batch_mint_size, new.max_batch_transfer_size}
  <2>1. /\ moves \in Told
        /\ moves.BatchSize = IF old.max_batch_transfer_size = new.max_batch_transfer_size THEN mints.BatchSize ELSE new.max_batch_transfer_size
        /\ moves.PlatformFee = mints.PlatformFee /\ moves.MaxRoyalty = mints.MaxRoyalty /\ moves.ContractLimit = mints.ContractLimit
        /\ moves.Admin = mints.Admin /\ moves.paused = mints.paused
    BY <1>1, <1>5 DEF moves, Emit, Told
  <2> QED BY <1>1, <1>5, <2>1
<1>7. /\ size \in Told /\ size.paused = known.paused /\ size.Admin = known.Admin
      /\ size.PlatformFee = new.platform_fee_bps
      /\ size.MaxRoyalty = new.default_royalty_bps
      /\ size.BatchSize \in {new.max_batch_mint_size, new.max_batch_transfer_size}
      /\ size.ContractLimit \in {new.max_collection_size, old.version}
  <2>1. /\ size \in Told
        /\ size.ContractLimit = IF old.max_collection_size = new.max_collection_size THEN moves.ContractLimit ELSE new.max_collection_size
        /\ size.PlatformFee = moves.PlatformFee /\ size.MaxRoyalty = moves.MaxRoyalty /\ size.BatchSize = moves.BatchSize
        /\ size.Admin = moves.Admin /\ size.paused = moves.paused
    BY <1>1, <1>6 DEF size, Emit, Told
  <2> QED BY <1>1, <1>6, <2>1
<1>8. /\ limits \in Told /\ limits.paused = known.paused /\ limits.Admin = old.owner
      /\ limits.PlatformFee = new.platform_fee_bps
      /\ limits.MaxRoyalty = new.default_royalty_bps
      /\ limits.BatchSize \in {new.max_batch_mint_size, new.max_batch_transfer_size}
      /\ limits.ContractLimit \in {new.max_collection_size, new.version}
  <2>1. /\ limits \in Told
        /\ limits.ContractLimit = IF old.version = new.version THEN size.ContractLimit ELSE new.version
        /\ limits.PlatformFee = size.PlatformFee /\ limits.MaxRoyalty = size.MaxRoyalty /\ limits.BatchSize = size.BatchSize
        /\ limits.Admin = size.Admin /\ limits.paused = size.paused
    BY <1>1, <1>7 DEF limits, Emit, Told
  <2> QED BY <1>1, <1>7, <2>1
<1> QED
  BY <1>1, <1>2, <1>8 DEF Emit, Told

-----------------------------------------------------------------------------
(* The invariant *)

LEMMA Constants ==
    /\ None \notin Address /\ None \notin Nat
    /\ None \notin Config /\ None \notin CashConfig
    /\ MAX_ROYALTY_BPS \in Nat /\ DEFAULT_ROYALTY_BPS \in Nat /\ MaxTokens \in Nat
    /\ CURRENT_MIGRATION_VERSION = 1
    /\ Configs \subseteq Config /\ CashConfigs \subseteq CashConfig
  BY ConfigAssumption, UpgradeAssumption

LEMMA UpgradeInitInv == UpgradeInit => UpgradeInv
<1> SUFFICES ASSUME UpgradeInit PROVE UpgradeInv
  OBVIOUS
<1>1. ConfigTypeOK /\ EventsTellConfig
  BY DEF UpgradeInit, ConfigTypeOK, EventsTellConfig
<1>2. UpgradeTypeOK
  <2>1. legacy \in 0 .. MaxTokens /\ nextTokenId = legacy /\ version = 0
    BY DEF UpgradeInit
  <2>2. legacy \in 0 .. nextTokenId /\ version \in 0 .. CURRENT_MIGRATION_VERSION
    BY <2>1, Constants
  <2> QED BY <1>1, <2>1, <2>2 DEF UpgradeInit, UpgradeTypeOK
<1>3. CountersAgree
  BY Constants DEF UpgradeInit, CountersAgree, SupplyCountsTokens, get_total_supply
<1> QED BY <1>1, <1>2, <1>3 DEF UpgradeInv

\* A change of the settings leaves the counters alone.
LEMMA SettingsKeepInv ==
    ASSUME UpgradeInv, ConfigNext, UNCHANGED supplyVars
    PROVE  UpgradeInv'
<1> USE Constants
<1>1. CountersAgree' /\ nextTokenId' \in 0 .. MaxTokens
      /\ totalSupply' \in 0 .. MaxTokens \cup {None}
      /\ version' \in 0 .. CURRENT_MIGRATION_VERSION
      /\ legacy' \in 0 .. nextTokenId' /\ mintedFirst' \in BOOLEAN
  BY DEF UpgradeInv, UpgradeTypeOK, CountersAgree, SupplyCountsTokens, get_total_supply,
     supplyVars
<1>2. SUFFICES ConfigTypeOK' /\ EventsTellConfig'
  BY <1>1 DEF UpgradeInv, UpgradeTypeOK
<1>3. CASE \E a \in Address : init(a)
  BY <1>3 DEF init, settingVars, cashVars, UpgradeInv, UpgradeTypeOK, ConfigTypeOK,
     EventsTellConfig
<1>4. CASE \E a \in Address : pause(a) \/ unpause(a)
  <2>1. PICK a \in Address : pause(a) \/ unpause(a)
    BY <1>4
  <2>2. /\ told \in Told \cup [paused : BOOLEAN]
        /\ paused' \in BOOLEAN /\ told' = [told EXCEPT !.paused = paused']
        /\ UNCHANGED <<admin, config, defaultRoyalty, cashAdmin, cashConfig>>
    BY <2>1 DEF pause, unpause, cashVars, UpgradeInv, UpgradeTypeOK, ConfigTypeOK
  <2>3. CASE told \in Told
    BY <2>2, <2>3 DEF Told, UpgradeInv, UpgradeTypeOK, ConfigTypeOK, EventsTellConfig
  <2>4. CASE told \in [paused : BOOLEAN]
    <3>1. told' \in [paused : BOOLEAN] /\ told'.paused = paused'
      BY <2>2, <2>4
    <3>2. config = None \/ told \in Told
      BY DEF UpgradeInv, UpgradeTypeOK, ConfigTypeOK
    <3> QED
      BY <2>2, <2>3, <3>1, <3>2 DEF UpgradeInv, UpgradeTypeOK, ConfigTypeOK, EventsTellConfig
  <2> QED BY <2>2, <2>3, <2>4
<1>5. CASE \E a \in Address, new \in Configs : set_config(a, new)
  <2>1. PICK a \in Address, new \in Configs : set_config(a, new)
    BY <1>5
  <2>2. new \in Config /\ config' = new /\ new # None
    BY <2>1 DEF set_config
  <2>3. CASE config = None
    <3>1. told' = ReadOnce(told, new) /\ told.paused \in BOOLEAN
      BY <2>1, <2>3 DEF set_config, UpgradeInv, UpgradeTypeOK, ConfigTypeOK, Told
    <3> QED
      BY <2>1, <2>2, <3>1 DEF set_config, require_config_admin, cashVars, ReadOnce, Config,
         Told, UpgradeInv, UpgradeTypeOK, ConfigTypeOK, EventsTellConfig
  <2>4. CASE config # None
    <3>1. told \in Told /\ config \in Config /\ told' = Report(told, config, new)
      BY <2>1, <2>4 DEF set_config, UpgradeInv, UpgradeTypeOK, ConfigTypeOK
    <3>2. /\ told' \in Told
          /\ told'.paused = told.paused
          /\ told'.PlatformFee = new.platform_fee_bps
          /\ told'.MaxRoyalty = new.default_royalty_bps
          /\ told'.Admin = new.owner
          /\ told'.BatchSize \in {new.max_batch_mint_size, new.max_batch_transfer_size}
          /\ told'.ContractLimit \in {new.max_collection_size, new.version}
      BY <2>2, <2>4, <3>1, ReportTells DEF UpgradeInv, EventsTellConfig
    <3> QED
      BY <2>1, <2>2, <3>2 DEF set_config, require_config_admin, cashVars, UpgradeInv,
         UpgradeTypeOK, ConfigTypeOK, EventsTellConfig
  <2> QED BY <2>3, <2>4
<1>6. CASE \E a \in Address, bps \in 0 .. MAX_ROYALTY_BPS + 1 : set_default_royalty_bps(a, bps)
  BY <1>6 DEF set_default_royalty_bps, cashVars, UpgradeInv, UpgradeTypeOK, ConfigTypeOK,
     EventsTellConfig
<1>7. CASE \E a \in Address : cash_init(a)
  <2>1. PICK a \in Address : cash_init(a)
    BY <1>7
  <2>2. cashConfig' \in CashConfig /\ cashAdmin' = a
    BY <2>1 DEF cash_init, CashConfig
  <2> QED
    BY <2>1, <2>2 DEF cash_init, settingVars, UpgradeInv, UpgradeTypeOK, ConfigTypeOK,
       EventsTellConfig
<1>8. CASE \E a \in Address, new \in CashConfigs : cash_set_config(a, new)
  BY <1>8 DEF cash_set_config, guard_config_update, settingVars, UpgradeInv, UpgradeTypeOK,
     ConfigTypeOK, EventsTellConfig
<1> QED
  BY <1>3, <1>4, <1>5, <1>6, <1>7, <1>8 DEF ConfigNext

LEMMA MintKeepsInv ==
    ASSUME UpgradeInv, mint
    PROVE  UpgradeInv'
<1> USE Constants
<1>1. ConfigTypeOK' /\ EventsTellConfig'
  BY DEF UpgradeInv, UpgradeTypeOK, mint, configVars, settingVars, cashVars, ConfigTypeOK,
     EventsTellConfig
<1>2. /\ nextTokenId' = nextTokenId + 1 /\ nextTokenId' \in 0 .. MaxTokens
      /\ totalSupply' = get_total_supply + 1
      /\ get_total_supply \in Nat /\ get_total_supply <= nextTokenId
  BY DEF mint, get_total_supply, UpgradeInv, UpgradeTypeOK, CountersAgree
<1>3. totalSupply' \in 0 .. MaxTokens /\ totalSupply' # None /\ totalSupply' <= nextTokenId'
  BY <1>2 DEF UpgradeInv, UpgradeTypeOK
<1>4. /\ version' = version /\ version \in {0, 1}
      /\ legacy' = legacy /\ legacy \in 0 .. nextTokenId
      /\ mintedFirst' = (mintedFirst \/ version = 0) /\ mintedFirst \in BOOLEAN
  BY DEF mint, UpgradeInv, UpgradeTypeOK
<1>5. UpgradeTypeOK'
  BY <1>1, <1>2, <1>3, <1>4 DEF UpgradeInv, UpgradeTypeOK
<1>6. legacy = 0 \/ (version = 1 /\ ~mintedFirst) => get_total_supply = nextTokenId
  BY <1>4 DEF UpgradeInv, CountersAgree, SupplyCountsTokens
<1>7. SupplyCountsTokens'
  BY <1>2, <1>3, <1>4, <1>6 DEF SupplyCountsTokens, get_total_supply
<1>8. CountersAgree'
  BY <1>3, <1>4, <1>7 DEF CountersAgree
<1> QED BY <1>1, <1>5, <1>8 DEF UpgradeInv

LEMMA MigrationKeepsInv ==
    ASSUME UpgradeInv, NEW target \in 0 .. CURRENT_MIGRATION_VERSION + 1, run_migrations(target)
    PROVE  UpgradeInv'
<1> USE Constants
<1>1. ConfigTypeOK' /\ EventsTellConfig'
  BY DEF UpgradeInv, UpgradeTypeOK, run_migrations, configVars, settingVars, cashVars,
     ConfigTypeOK, EventsTellConfig
<1>2. CASE 1 \in PendingSteps(target)
  <2>1. version = 0 /\ version' = 1 /\ totalSupply' = migrate_v0_to_v1(totalSupply)
    BY <1>2 DEF PendingSteps, run_migrations, UpgradeInv, UpgradeTypeOK
  <2> QED
    BY <1>1, <2>1 DEF run_migrations, migrate_v0_to_v1, UpgradeInv, UpgradeTypeOK,
       CountersAgree, SupplyCountsTokens, get_total_supply
<1>3. CASE 1 \notin PendingSteps(target)
  BY <1>1, <1>3 DEF run_migrations, UpgradeInv, UpgradeTypeOK, CountersAgree,
     SupplyCountsTokens, get_total_supply
<1> QED BY <1>2, <1>3

LEMMA UpgradeStepInv == UpgradeInv /\ [UpgradeNext]_upgradeVars => UpgradeInv'
<1> SUFFICES ASSUME UpgradeInv, [UpgradeNext]_upgradeVars PROVE UpgradeInv'
  OBVIOUS
<1>1. CASE UNCHANGED upgradeVars
  BY <1>1 DEF upgradeVars, configVars, settingVars, cashVars, supplyVars, UpgradeInv,
     UpgradeTypeOK, ConfigTypeOK, EventsTellConfig, CountersAgree, SupplyCountsTokens,
     get_total_supply
<1>2. CASE UpgradeNext
  BY <1>2, SettingsKeepInv, MintKeepsInv, MigrationKeepsInv DEF UpgradeNext
<1> QED BY <1>1, <1>2

THEOREM UpgradeInvariant == UpgradeSpec => []UpgradeInv
  BY UpgradeInitInv, UpgradeStepInv, PTL DEF UpgradeSpec

-----------------------------------------------------------------------------
(* What the runs check, for every value of the constants *)

\* The settings, the reader's knowledge and the counters have their types.
THEOREM UpgradeTypes == UpgradeSpec => []UpgradeTypeOK
<1>1. UpgradeInv => UpgradeTypeOK
  BY DEF UpgradeInv
<1> QED BY <1>1, UpgradeInvariant, PTL

\* config_updated_event.rs: the events of changes, whatever is changed together,
\* tell the fee, the royalty, the owner and the pause.
THEOREM EventsTell == UpgradeSpec => []EventsTellConfig
<1>1. UpgradeInv => EventsTellConfig
  BY DEF UpgradeInv
<1> QED BY <1>1, UpgradeInvariant, PTL

\* migration.rs and total_supply.rs: the supply counts every token id, unless an
\* upgraded deployment minted before it was migrated.
THEOREM SupplyCounts == UpgradeSpec => []SupplyCountsTokens
<1>1. UpgradeInv => SupplyCountsTokens
  BY DEF UpgradeInv, CountersAgree
<1> QED BY <1>1, UpgradeInvariant, PTL

\* config_guard.rs: no call moves the authority that init set.
THEOREM AuthorityStays == UpgradeSpec => AuthorityNeverMoves
<1>1. UpgradeInv /\ [UpgradeNext]_upgradeVars =>
        [/\ admin # None => admin' = admin
         /\ cashAdmin # None => cashAdmin' = cashAdmin]_configVars
  <2> SUFFICES ASSUME UpgradeInv, [UpgradeNext]_upgradeVars
               PROVE  /\ admin # None => admin' = admin
                      /\ cashAdmin # None => cashAdmin' = cashAdmin
    OBVIOUS
  <2>1. CASE ConfigNext
    <3>1. CASE \E a \in Address : init(a) \/ pause(a) \/ unpause(a)
      BY <3>1 DEF init, pause, unpause, cashVars
    <3>2. CASE \E a \in Address, new \in Configs : set_config(a, new)
      BY <3>2 DEF set_config, cashVars
    <3>3. CASE \E a \in Address, bps \in 0 .. MAX_ROYALTY_BPS + 1 :
                   set_default_royalty_bps(a, bps)
      BY <3>3 DEF set_default_royalty_bps, cashVars
    <3>4. CASE \E a \in Address : cash_init(a)
      <4>1. cashAdmin = None
        BY <3>4 DEF cash_init, UpgradeInv, UpgradeTypeOK, ConfigTypeOK
      <4> QED BY <3>4, <4>1 DEF cash_init
    <3>5. CASE \E a \in Address, new \in CashConfigs : cash_set_config(a, new)
      BY <3>5 DEF cash_set_config
    <3> QED BY <2>1, <3>1, <3>2, <3>3, <3>4, <3>5 DEF ConfigNext
  <2>2. CASE UNCHANGED configVars
    BY <2>2 DEF configVars, cashVars
  <2> QED
    BY <2>1, <2>2 DEF UpgradeNext, upgradeVars, mint, run_migrations
<1> QED BY <1>1, UpgradeInvariant, PTL DEF UpgradeSpec, AuthorityNeverMoves

\* migration.rs: a migration that has nothing to do changes nothing.
THEOREM MigrationsIdempotent == UpgradeSpec => StepsRunOnce
<1>1. UpgradeInv /\ [UpgradeNext]_upgradeVars =>
        [/\ version' >= version
         /\ nextTokenId' = nextTokenId /\ version' = version =>
                totalSupply' = totalSupply]_upgradeVars
  <2> SUFFICES ASSUME UpgradeInv, UpgradeNext
               PROVE  /\ version' >= version
                      /\ nextTokenId' = nextTokenId /\ version' = version =>
                             totalSupply' = totalSupply
    OBVIOUS
  <2>1. version \in {0, 1} /\ nextTokenId \in Nat
    BY Constants DEF UpgradeInv, UpgradeTypeOK
  <2>2. CASE UNCHANGED supplyVars
    BY <2>1, <2>2 DEF supplyVars
  <2>3. CASE mint
    BY <2>1, <2>3 DEF mint
  <2>4. CASE \E target \in 0 .. CURRENT_MIGRATION_VERSION + 1 : run_migrations(target)
    BY <2>1, <2>4 DEF run_migrations, PendingSteps
  <2> QED BY <2>2, <2>3, <2>4 DEF UpgradeNext
<1> QED BY <1>1, UpgradeInvariant, PTL DEF UpgradeSpec, StepsRunOnce
=============================================================================
