-------------------------- MODULE MCConfiguration --------------------------
(* An instance of Configuration, and of Upgrade on top of it, for TLC. *)
EXTENDS Upgrade

BaseConfig ==
    [owner |-> CHOOSE a \in Address : TRUE, version |-> 1, platform_fee_bps |-> 0,
     default_royalty_bps |-> MAX_ROYALTY_BPS, paused |-> FALSE, max_batch_mint_size |-> 1,
     max_batch_transfer_size |-> 1, max_collection_size |-> 1]

\* The base, and what differs from it in each setting, in settings that share an
\* event, in settings a check relates, and beyond each limit.
SomeConfigs ==
    {BaseConfig} \cup
    {[BaseConfig EXCEPT !.owner = a] : a \in Address} \cup
    {[BaseConfig EXCEPT !.platform_fee_bps = fee, !.default_royalty_bps = bps] :
        fee \in 0 .. MAX_PLATFORM_FEE_BPS + 1, bps \in 1 .. MAX_ROYALTY_BPS + 1} \cup
    {[BaseConfig EXCEPT !.max_batch_mint_size = m, !.max_batch_transfer_size = n] :
        m, n \in 0 .. MAX_BATCH_SIZE + 1} \cup
    {[BaseConfig EXCEPT !.version = v, !.max_collection_size = n] :
        v \in 1 .. 2, n \in 0 .. MAX_COLLECTION_LIMIT + 1} \cup
    {[BaseConfig EXCEPT !.paused = TRUE]}

SomeCashConfigs ==
    {[admin |-> a, max_royalty_bps |-> bps, mint_cooldown_secs |-> 0, platform_fee_bps |-> fee] :
        a \in Address, bps \in {1, MAX_ROYALTY_BPS + 1}, fee \in 0 .. 1}
=============================================================================
