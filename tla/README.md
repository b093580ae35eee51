# Verification of the CLIPS NFT contract

This directory holds TLA+ models of the Soroban contract in `src/clips_nft`,
the TLC configurations that check them on small instances, and theorems about
them that TLAPS proves for every value of the constants.

## How the contract runs, and how a call becomes an action

The host runs one invocation at a time and throws away all writes of an
invocation that returns an error or panics. So an entry point is one atomic
action, enabled exactly when the call succeeds: every guard and early `Err` of
the code is a conjunct, and nothing else happens. What is *not* atomic in this
system is everything that spans calls: a listing made under one owner and
settled under another, an approval granted to one owner and used against the
next, terms frozen for a token that does not exist yet, an index kept up by one
path and skipped by another. Those are the hard behaviours here, and the
properties are about them.

Conventions shared by all modules:

* `Address` is the set of accounts, `Contract` is the contract's own address,
  `Caller` the accounts that can sign a call. Authentication
  (`require_auth`) is the choice of the caller parameter.
* What a call does besides writing (the events it publishes) is part of the same
  action, and a failed call publishes nothing.
* A storage key `DataKey::X(k)` is a function from `k` to its value or `None`.
* The index vectors (`OwnerTokens`, `WalletTokens`, `OfferIndex`) are sets,
  because every writer rejects or ignores a duplicate.
* A batch is a function from its tokens to their recipients; the guarded batch
  transfer, which lets a token occur twice, takes a path of hops per token.
* The crate does not compile at this commit: `lib.rs` has two `transfer`
  functions (712, 1425) and two `batch_transfer` functions (753, 1498),
  `royalty_recipient_struct.rs:39` imports a module that is not there, and
  `update_listing` calls `emit_listing_updated` with ten arguments where nine are
  declared. Each
  duplicate body is an action of its own; of the missing validator we take what
  that file's own documentation and tests say of it (the contract's own address
  is refused).
* `ClipsNftContract`, `ClipCashNFT` and `AtomicMintContract` share one storage
  layout (`DataKey`), and are modelled as entry points over one storage. Only
  the latter two have a mint.

## The system's parts

All sources are under `src/clips_nft/src/`.

| Part | State it keeps | Operations | Talks to | Modelled |
|---|---|---|---|---|
| Ownership ledger (`lib.rs`, `transfer_service.rs`, `transfer_guard.rs`, `token_lifecycle.rs`, `token_owner_storage.rs`, `token_approval.rs`, `operator_approval.rs`, `owner_portfolio.rs`, `wallet_token_index.rs`, `frozen_token.rs`, `blacklist.rs`, ...) | owner record, `Token` record, approvals, operator approvals, frozen and burned marks, owner and wallet indices, id counter, blacklist, approved minters, administrator, pause | init, pause/unpause, blacklist, minters, approve/revoke, operators, freeze/unfreeze, burn, six transfers, the ownership part of mints and sales | everything reads it; minting, the market and the burn write it | `TokenLedger` |
| Royalty terms (`royalty_*.rs`, `creator_storage.rs`, `payment_currency.rs`) | `Royalty`, `RoyaltyPercentage`, `RoyaltyRecipient`, `RoyaltyFrozen`, `Creator`, supported currencies | set, update, freeze, reassign creator, add/remove currency; mints write terms, burns remove them | ledger (who may change terms), market (what is paid) | `RoyaltyTerms` |
| Royalty arithmetic (`safe_math.rs`, `royalty_calculation.rs`, `transaction_deduction_validator.rs`) | none | scaled, checked i128 amounts; the deduction check; the preview | market | `RoyaltyMath`, `RoyaltyQuotes` |
| Marketplace and payments (`marketplace/*`, `royalty_payment*.rs`, `royalty_earnings.rs`, `royalty_history.rs`, `royalty_emergency.rs`) | two listing tables, listing counter, offers and their index, used payment identifiers, payment history, two ledgers of earnings, emergency switch | list, create, update, cancel, buy; make, accept, cancel an offer; pay a royalty; disable payments | ledger, terms, arithmetic, external token contracts | `Marketplace` |
| Minting (`atomic_mint.rs`, `mint_service.rs`, `mint_validator.rs`, `clip_id_storage.rs`, `creator_portfolio.rs`, `total_supply.rs`, ...) | besides the above: clip ids, metadata and its index, supply, creator portfolios, signature marks | atomic mint with key-by-key rollback, batch mint with caches | ledger, terms | `AtomicMint`; the ownership and terms parts also in `TokenLedger`, `RoyaltyTerms` |
| Metadata updates (`metadata_update_guard.rs`, `metadata_update_policy.rs`, `metadata/storage.rs`) | the spent update slots; shares metadata and its index with minting and burning | update, freeze, unfreeze | minting, ledger | `MetadataUpdates` |
| Configuration and migration (`config.rs`, `config_guard.rs`, `default_royalty.rs`, `storage/config.rs`, `config_updated_event.rs`, `migration.rs`) | `Config` of either contract, default royalty, pause, version, supply seed | set the configuration, the default royalty, the pause; run migrations | minting (two counters) | `Configuration`, `Upgrade` |
| Events (`*_event.rs`, `events/*`, `event_topics.rs`) | none: they are written and never read by the contract | one or more per successful call | an indexer outside | `LedgerEvents`, `MarketEvents`, and the settings' in `Configuration` |
| Guard framework (`guards/*`, `validators/*`, `*_guard.rs`, `validation_pipeline.rs`, ...) | none | checks and ways to compose them | reads the ledger, terms and market; few entry points call it | `Guards`, `LedgerGuards`, `RoyaltyGuards`, `MarketGuards` |
| Nonces and re-entrancy guard, clip/media/collection records, metadata builder, error catalogue, deployment | see `PROJECT.json` | | | no, see below |

What makes each part correct:

* **Ledger**: one holder per id, minted once and burned for good, whichever of
  the nine ways of moving a token is taken; a freeze and a blacklisting bind on
  each of them; an approval belongs to an owner; the indices say what the owner
  records say, and where they do not, it is known which paths are to blame.
* **Terms**: a live token always has terms, terms fit the price, frozen terms
  stay frozen.
* **Arithmetic**: no admissible price overflows, payments are the truncated
  products, deductions never exceed the price.
* **Market**: a sale pays the owner of the token however old the listing is;
  nobody pays twice for one payment identifier or more than its price; the
  three records of money paid agree; the switches stop every path; listing ids
  are unique; the index of offers is exact.
* **Minting**: a failed mint leaves nothing behind; a clip is minted once; the
  supply counts the mints; a mint that begins comes to an end.
* **Metadata**: an owner finds the one update unspent, and nobody updates twice;
  the index of URIs names tokens that bear them; only a burn leaves records
  without a token.
* **Configuration**: no stored setting moves the administrator's authority; a
  migration of an earlier release leaves the supply right, if it comes before
  the first mint.
* **Events**: a reader who never looks at storage knows the holders, operators,
  freezes, open listings and offers, earnings and settings.
* **Guards**: the checks written twice, as reusable guards and inside the entry
  points, admit the same calls.

## Modules

```
 NftRegistry            what the ledger promises: one holder per id
      ^  LedgerRefinement   (refinement mapping)
 TokenLedger            ownership, 25 entry points        LedgerProofs
      ^  EXTENDS   \---- LedgerEvents  a reader of events  EventsProofs (both readers)
      |             \--- LedgerGuards ------ Guards
 RoyaltyTerms           terms of each token               LedgerProofs
      ^  EXTENDS   \---- RoyaltyGuards
      |                          RoyaltyMath <- RoyaltyQuotes  RoyaltyMathProofs, RoyaltyQuotesProofs
 Marketplace  ---------------------^                      MarketplaceProofs
         \-------------- MarketEvents   a reader          EventsProofs
          \------------- MarketGuards                     GuardsProofs (all guards)

 AtomicMint             both mints write by write; Terms!TermsSpec is its abstraction
      ^  EXTENDS
 MetadataUpdates        updates and freezes between the writes    MintProofs (both)

 Configuration <- Upgrade                                 UpgradeProofs

 MCTokenLedger, MCLedgerEvents, MCRoyaltyTerms, MCMarketplace, MCMarketEvents,
 MCMetadataUpdates, MCConfiguration                       instances and bounds
```

**TokenLedger.** One variable per storage key that names a holder or decides
who may move a token. `check_transfer` is the chain of `transfer_guard.rs` and
the lifecycle and authorisation checks it calls; the actions keep the names of
the entry points. Worth knowing:

* `service_transfer` is `transfer_service::transfer` for each request of a
  batch. It moves the owner record, the `Token` record and both indices, and
  keeps the approval. `transfer_direct` is the second `transfer` of `lib.rs`:
  it writes the owner record, clears the approval and leaves the indices and
  the `Token` record alone. `batch_transfer_guarded` follows each token through
  its hops and moves only the wallet index.
* `mint` and `batch_mint` number ids differently: the atomic mint takes the
  counter's value, the batch mint the value plus one. So after a batch mint an
  atomic mint reuses the id of the batch's last token. That token has no
  `TokenOwner` record (the batch mint writes none), and the invariants say what
  survives of it.
* `unsynced` is a history variable: the tokens written by a path that skips an
  index. It is there to state precisely that those paths are the only source of
  drift.
* `settle_sale` is all that a sale does to the ledger. `Marketplace` does not
  use it: it writes the ownership record from its own guards, and `LedgerOnly`
  checks that the result is a ledger step.

**NftRegistry, LedgerRefinement.** The abstract ledger is a map from ids to an
account, `Unminted` or `Burned`, with `Mint`, `Burn` and `Move`. The mapping
reads `burned` and `tokenOwner`, which is what `owner_of` and `is_burned` read.

**RoyaltyTerms.** Extends the ledger: each mint also writes terms, each burn
removes them, and only `RoyaltyFrozen` outlives its token. `royaltyPercentage`
and `royaltyRecipient` are the two derived values, kept by the batch mint and
`update_royalty`, and not by the atomic mint and `set_royalty`.

**RoyaltyMath, RoyaltyQuotes.** The amounts as operators. Every number on the
way to a result is at most the largest one, so one comparison with `MaxInt`
stands for all the `checked_*` calls. `RoyaltyQuotes` walks one sale through
every admissible price.

**Marketplace.** `Settle` is what `buy_listing` and `accept_offer` share:
royalties one recipient at a time, the fee, the rest to the seller, then the
ownership record. The token contracts are external; what the contract relies on
is that a transfer moves the amount or fails the call. `accept_offer` moves the
buyer's money, which the token contract allows only with the buyer's
authorisation; that authorisation is the external contract's business.
`pay_royalty` asks for no authorisation of the payer itself, for the same
reason, so its payer ranges over all addresses.

**AtomicMint.** Here a mint is not one step. `execute_atomic_mint` is nine
writes and the commit of the counter, each an action, with the flags of
`MintRollback` in `call.wrote`; `execute_batch_mint` is one action per item,
with its two in-memory indices in `call.wallet` and `call.portfolio`. A call can
fail at the wallet index (the atomic mint was given the id of a batch's last
token, for the same owner) and at the supply counter. It then runs its own
rollback (`RevertMint`, `RevertBatch`), and the host throws away the rest
(`Abort`). `store` is what the running call sees and `committed` what the last
finished call left; `Terms` is `RoyaltyTerms` over `committed`, so the property
`Terms!TermsSpec` says that the mints, write by write, are the atomic `mint` and
`batch_mint` of the other modules. Error paths behind a check that has already
been made (`save_clip_id`, `assign_owner`, `set_metadata`, `verify_post_mint`)
cannot be taken and are not actions. `MaxSupply` stands for `u32::MAX`.

**MetadataUpdates.** `update_metadata` with its chain of guards, and the freeze,
on the store of `AtomicMint`. A mint and a burn do not look at the two marks it
adds, and both marks outlive their token. The guard that runs
(`metadata_update_guard.rs`) exempts the administrators of `administrator_storage`;
no entry point writes that storage, so `Administrators` is empty. The contract
does have an administrator, `DataKey::Admin`, which `init` writes, and
`metadata_update_policy.rs:7-8` and `docs/METADATA.md:427` promise the exemption to
that one; the function that would grant it (`check_update_allowed`) is called by
nothing. Code and documents disagree, then, about who the administrator is:
`UriChangesOnce` says what the code does, an update for nobody twice, and
`doc_AdminMayAlwaysUpdate` refutes what the documents say.
Which URIs `validate_uri` lets through is a constant: `metadata_uri_builder.rs`
looks for the scheme in the debug output of the string, whose form is the SDK's
business and not the contract's.

**LedgerEvents, MarketEvents.** Each entry point of the ledger and of the market,
with the event it publishes; an event is what it makes a reader believe who
applies events in order and never reads storage. `gapless` says that the previous
owner named in each transfer was the one the reader knew. What an event does not
carry the reader does not know: the asset of an updated listing, the expiration
of a listing made by `list_nft`.

**Configuration, Upgrade.** The configuration, the default royalty and the pause
with the checks of `config.rs`, and `told`, what the events have told of each
setting. `ClipCashNFT` keeps another type under the same key and is a deployment
of its own (`cashAdmin`, `cashConfig`). `Upgrade` starts from the storage of an
earlier release, which has handed out ids and counted no supply, and lets the
migration come at any time.

**Guards, LedgerGuards, RoyaltyGuards, MarketGuards.** A guard is an operator
whose value is `Ok` or the name of an error, so that the order of the checks
shows. The properties compare them with the entry points: `GuardsAgree` is an
equivalence in each state, the others say of each change of owner, terms and
listing that the guards would have let it pass.

## Runs

All runs check deadlock except `royalty_amounts`, whose price stops at the
largest one.

Fairness. Nothing obliges anybody to call the contract, so no action that begins
a call is fair, and nothing is promised about it. But once the host has begun a
transaction it runs it to its end before any other; the steps of a mint under
way, its rollback included, are the only actions `MetadataSpec` assumes weakly
fair (`ResumeMint`), and `EveryCallEnds` is what this gives: no order of writes,
failures and rollbacks leaves a call without a next step or going in circles.
Everything else is safety.

| Run | Instance | What it shows |
|---|---|---|
| `ledger_accounts` | 3 accounts + the contract, 1 owned token of either mint, batches of 2 | no approval without an owner; every change of owner would have passed the guards; a reader of the events knows the holders and the grants; the ledger implements the registry |
| `ledger_tokens` | 2 accounts + the contract, 2 tokens, batches of 2 | burned ids stay gone, every owned token is listed, unsynced tokens are the only drift, the composed guards of a transfer are the checks of the entry points |
| `terms_lifecycle` | 2 accounts, 2 tokens, terms of half and of 3/2 of the price | terms exist exactly for live tokens, fit the price, stay frozen while the token has an owner, and change only as the guards allow |
| `royalty_amounts` | denominator 5, scale 3, MaxInt 182, 3 recipients | truncation, deductions within the price, preview against payment, up to the largest safe price |
| `market_money` | 1 token, 2 accounts with 2 units each, prices 0..2, terms with one and two recipients, two payments | the ledgers of earnings agree, nobody overpays, the owner is paid, a reader of the events knows the market |
| `market_listings` | 2 tokens, 2 times, 2 listing ids | the offer index is exact, sales are ledger steps, and a listing that is sold would pass the purchase guards |
| `mint_writes` | 4 ids, 3 clips, 2 signatures, 2 URIs, batches of 2, a supply of at most 2 | the mints are atomic, a clip is minted once, the supply counts the clips, a signature is spent by a mint, the caches lose nothing, what each rollback restores, that every call ends; metadata is updated once per owned token, the slot is the owner's to spend, the index names bearers of the URI, only burns leave orphans |
| `configuration` | 2 accounts, settings at, below and above each limit, up to 3 ids handed out before and after the upgrade | the events tell the settings, the authority never moves, the supply counts the tokens |

Why the bounds are enough. The contract's guards compare accounts for equality
and look at one token at a time, except in three places: a batch names several
tokens, a chain of hops names several accounts, and the two mints meet at one
counter. Two tokens make batches of different tokens and an atomic mint on top
of a batch mint; three accounts make an owner, a recipient and a third party
holding a stale approval, and chains a -> b -> c. The ledger, the terms, the
market and its money, the mints and the updates, the readers, the guards, the
configuration and the arithmetic have proofs for all values as well. Denominator 5 and scale 3
satisfy the same assumption (`MathAssumption`) as 10^4, 10^7 and 2^127 - 1, for
which MaxInt mod 10^11 = 15884105727. With denominator 2 a market run has
prices at which a share rounds to nothing, and one at which it does not.

The named bounds: `MaxTokens` (ids, and with them the counter), `MaxBatchMint`
and `MaxBatchTransfer` (which are also the configuration's), `MaxListings`,
`MaxTime`, `Funds`, `Prices`, `MaxRecipients`, `MaxSupply`, `Configs`,
`CashConfigs`. (`MAX_GUARDS`, 16, is the code's own.) The guards at `u32::MAX` and
`u64::MAX` of the counters are these bounds. The constraints of the `MC`
modules keep small what another run explores: `FewGrants` one operator grant,
one blacklisted account and one approved minter at a time, two of the
three together; `OneHeldToken` one
token that ever has an owner, the first or one that both mints made, and no
minters; `LedgerKeptSmall`
the ledger's access control under the terms; `MarketOnly`, `MoneyOnly` and
`ListingsOnly` grants, blacklist, freeze, indices and changes of terms under
the market; `FewCalls` minters, the blacklist and the contract as a creator;
`FewUpdates` one frozen token at a time, while no mint runs. The configurations
are `SomeConfigs`: a base, and what differs from it in each setting, in settings
that share an event, in settings a check relates, and beyond each limit.
`Symmetry` permutes the callers, which no definition tells apart. The run of the
mints checks liveness, where symmetry is not sound: there clips and signatures
are numbers and new ones are taken in order (`TakenInOrder`). In `mint_writes` a supply of 2 lets a batch fail at its
second item after an atomic mint, an atomic mint fail at the supply after two
mints, and both mints meet on an id; 4 ids are never exhausted.

`PlatformFeeBps` is 0 in the market runs because no entry point writes
`DataKey::PlatformFee`; `royalty_amounts` and the theorems `DeductionsFit`,
`NoOverpayment` and `OwnersArePaid` cover every fee.

### Where the code and its documents differ

Four runs refute what a document says:

| Run | Says | Does |
|---|---|---|
| `doc_ApprovalEndsWithTransfer` | `docs/TRANSFER_ARCHITECTURE.md`: approvals are cleared by a transfer | `transfer_service.rs` and both kinds of sale keep the approval, so it works against the next owner |
| `doc_OneListingPerToken` | `docs/GUARD_ARCHITECTURE.md`: one active listing per token | `create_listing` then `list_nft` gives a token one of each kind |
| `doc_OneClipPerToken` | `clip_id_storage.rs`: every token maps to exactly one clip | after a batch, the atomic mint takes the batch's last id, and the clips of both lead to that token |
| `doc_AdminMayAlwaysUpdate` | `metadata_update_policy.rs`, `docs/METADATA.md`: the contract admin may update metadata any number of times | the guard asks `administrator_storage`, which nobody writes, so the administrator of `init` is refused a second update, and any update of a token of others |

Others, seen while modelling and not worth a run each.

*Ledger.* The pause is missing from the service transfers and `transfer_direct`.
The owner index is not updated by a direct transfer (`unsynced` records it). A
frozen token can be burned, and `freeze_state_guard.rs:17` calls a freeze
irreversible, while `unfreeze_token` is an entry point. The approvals that the
direct transfers, the guarded batch and a burn withdraw are withdrawn without the
event that `approval_revoked_event.rs:3-5` promises for every withdrawal, so
`ReaderKnowsGrants` says that a reader knows every spender who may move a token
and may know some who no longer can. Pause and unpause are published under one
topic, `cfg_pause`, where `event_topics.rs:34-35` and `pause_event.rs:8-9` name
two; changes of the blacklist and of the minters are silent.

*Terms and amounts.* `royalty_recipient_validator.rs:3-5` says that recipients are
validated before any royalty information is persisted, and that the contract is
none: the atomic mint looks at the shares only, so terms can name the contract,
and a sale of that token fails when the recipients are checked again
(`TermsWithinPrice` is about the shares). `royalty_freeze.rs:3` says that frozen terms can never be
modified: terms frozen on a batch's last token are overwritten by the atomic mint
that reuses its id (`FrozenTermsHold` is about owned tokens, whose terms do stay).
`royalty_validation_pipeline.rs:3` says that every royalty operation funnels
through it, and none does: `set_royalty` does not check the asset. The event of
changed terms is published by `royalty_storage::update_royalty`, which nothing
calls. `safe_math.rs` and `royalty_calculation.rs` say amounts are rounded half
up, and `AmountIsTruncated` shows they are truncated; `royalty_info` calls its
preview exact, and `PreviewCoversPayments` bounds the difference.

*Market.* A listing of `list_nft` can be neither bought, changed nor cancelled and
blocks any further listing of its token; its event carries no expiration. An
offer on a burned token cannot be cancelled. A listing may ask up to i128::MAX / 2
where a payment accepts at most `MAX_SAFE_SALE_PRICE`. The purchase guards look
up the listings of `list_nft` and `buy_listing` sells the others. `events/listing.rs`
uses a topic that `event_topics.rs` does not define.

*Minting and metadata.* `docs/MINTING_ARCHITECTURE.md:332` calls the `Token` record
the source of truth for `owner_of`, which reads `TokenOwner`; the batch mint writes
the first and not the second (`batch_mint` leaves `tokenOwner` alone), so its tokens
have no owner to approve, transfer, list or burn them until an atomic mint takes
one over. `atomic_mint.rs` says its rollback leaves no partial
state, and `RollbackIsExact` says what it does leave (the entry in the metadata
index; and on a reused id it removes the batch-minted token's own records), all
of which only the host undoes. `mint_service.rs` says a failing batch never
flushed its caches, and it did whenever the owner or creator changed on the way
(`RollbackIsExact` holds because the rollback removes the flushed entries). The
metadata index does not "prevent duplicate metadata" (`types.rs:490`): a second
token with a URI takes the entry over, and an update or burn removes an entry
whichever token it names; an id both mints handed out keeps the entry of its
first URI (`IndexNamesBearer`). `storage_cleanup.rs` finds orphaned records, which
every burn leaves (`OnlyBurnsOrphan`), and nothing calls it.

*Settings.* There are two default royalties, one in the configuration and one
under a key of its own, and two pauses: `config.paused` is not what the entry
points read. A new owner in the configuration is announced as a change of
administrator and moves no authority (`AuthorityNeverMoves`); in `ClipCashNFT` the
stored administrator may not update the configuration, contrary to
`clips_nft/CONFIGURATION.md:56`, unless `init` put it under `Admin`. The first
configuration and the pause flag in it are not reported, and two pairs of
settings share an event field, so the history is not fully reconstructible as
`config_updated_event.rs:5` has it (`EventsTellConfig` says what is).

*Guards.* `GuardComposition` forgets which error came first
(`guards/compose.rs:102`); `token_id_validator.rs` rejects id 0, which the atomic
mint hands out first; `guards/payment.rs` and `guards/royalty.rs` accept
everything; `guard_token_owner` takes the owner from the `Token` record; and
`operator_approval_guard.rs` takes the owner's name from its caller.

## Proofs

Every property a passing run checks, except `EveryCallEnds`, is also a theorem.

`LedgerProofs` proves, from `LedgerAssumption` alone (the contract is an
address, `None` is not, the bounds are naturals), that `LedgerInv` is inductive,
and from it the safety properties of the ledger and the refinement.

*The inductive invariant.* None of the safety properties is inductive as it
stands. That a mint does not revive a burned id, hit an approval, or add a
second holder to an index depends on where ids lie with respect to the
counter, and the two mints disagree about that: `IdsFollowCounter` says that an
owned or frozen token lies strictly below the counter, while a record without
an owner may lie *at* it, the one id the next atomic mint will take over. That
conjunct needs `BurnedStaysGone` and `SyncedIndexIsExact` in turn, so
`LedgerInv` is the conjunction of all of them.

*The argument.* Actions are grouped by what they write (`NextCases`): those
that leave ownership alone, the two mints, the burn, the service transfer, the
chains of hops, and the two that write the owner record only; one lemma per
group shows that it keeps `LedgerInv`. `HopFacts` is the fact about chains:
the last hop of a path is one of its accounts, reached by an allowed hop, so
its account is neither blacklisted nor the contract. `OwnerChanges` says in
what way a step that is neither a mint nor a burn changes owners; the two
action properties and `RegistryStep` rest on it.

It also proves, from `TermsAssumption` as well (the terms that
callers submit are well formed, `None` is not among them), that a run of the
terms is a run of the ledger, and with the ledger's invariant at hand that
`TermsInv` is inductive: terms exist with the record, name somebody, and fit the
price. `FrozenTermsStay` is where the two meet: the steps that could replace
frozen terms without asking for the freeze are the two mints, and by
`IdsFollowCounter` an owned id lies below both of the ids they hand out.

`MarketplaceProofs` proves, from `MarketAssumption` as well, that a run of the
market is a run of the terms and so of the ledger. This needs an invariant, since
`settle_sale` asks for a seller and a buyer that are accounts: `MarketInv` types
the listings and offers on record, and says that open listings have ids of their
own, below the counter, and that the index of offers is exact. It follows that
everything proved of the ledger and the terms, the refinement of the registry
included, holds with a market on top (`MarketKeepsPromises`).
`SwitchesHold` needs no invariant.

*The money of the market* needs one more, `MoneyState`: the clock, the posts and
the prices have their types, every history is a sequence of payments to
accounts, balances are natural numbers, and the two totals agree with the
histories (`MoneyInv`). The proof follows a payment. `DuesAre` says what the loop
over the recipients makes of the terms: one due for each positive amount, in
order, and together they are `total_royalty`. `PaymentsInOrder` and `RoyaltiesMove`
carry the balances through the transfers of the loop: if none fails, the payer lost
at most the dues and nobody else lost anything. With the fee and the proceeds
(`SettleMoves`) this gives `PaysMoves`: after a payment the payer is poorer by at
most the price, everyone else is no poorer, and the owner is richer by the price
less royalties and fee. That the three parts fit the price is `DeductionsFit`.
`NoOverpayment` and `OwnersArePaid` follow, since a step that is no payment leaves
every balance alone (`PaymentCases`). `EarningsMatch` is the same step seen from
the records: what is appended to the history is what is added to the totals
(`RecordedMatches`, `TotalsAdd`).

`RoyaltyMathProofs` has the arithmetic, from `MathAssumption`: no admissible amount
overflows and each is the truncated product (`AmountTruncates`), two deductions
fit the price (`TwoDeductionsFit`), so do any number of shares and the fee
(`DeductionsFit`), and a preview covers the payments (`PreviewCovers`).
`RoyaltyQuotesProofs` states this of every sale the run walks through, and that a
higher price pays no recipient less (`PaymentsRise`).

*Sums.* A sum is a fold, and a fold a recursive function. The library's induction
theorems cannot be used here, since they take an operator; but induction over a
set can be stated with the hypothesis as a set too (`UpTo`, `UpToWhole`): a set of
numbers that has 0 and every successor within n has n. With it `FoldExists` shows
that the recursion behind a fold has a solution, `FoldsAgree` that it has only
one, and the laws of sums follow: a sum over a set that grows by one element, of
two functions one of which is never larger, of a sequence with one more element,
of a function changed at one place (`SumsOverSubsets`, `SumsCompare`,
`SumAppends`, `SumChanges`). `FoldOfIndices` and `DuesInOrder` do the same for
loops over a sequence.

`MintProofs` proves of the mints, from the assumptions of `AtomicMint` and
`MetadataUpdates` (the constants are of their types, `None` is not a value,
numbers are naturals), that `MintInv` is inductive.

*The inductive invariant.* It says three things. `StoreInv(committed)` is what
holds of the storage between calls: an id that was never handed out is blank in
every key, a live token has a creator, a clip that leads back to it and a
portfolio, a live token without an owner is a batch's, and `CountInv`. While the
atomic mint runs, `MintRuns`: the steps taken are a prefix of the nine, and `store`
is `committed` with exactly their writes. While a batch runs, `BatchRuns`: after
n items, the records of the n ids are those of the requests and all others are as
they were, and each index *together with its cache* is the index with the n ids
(`Indexed`), which is what makes the caches correct: neither the stored index nor
the cache is right on its own. When an item fails, an index lies between the old
one and that one, and both rollbacks restore the old one from there.

*The argument.* One lemma per action, in two groups, since the two kinds of call
never run together. The action properties need only what a step does to
`committed` (`Kept`): nothing, except by an entry point that is one
step, and by the last step of a call. `UpdatesInv` adds what the updates need: a
mark is never ahead of its token.

*The refinement* (`MintsRefineTerms`) maps `committed`: the nine writes, the items
of a batch, a failure and a rollback are stutters, and the commit of a call is the
`mint` or `batch_mint` of the royalty terms, whose guards were checked when the
call began. Only the last step of a call needs work: that the writes add up to
the atomic one is what `WrittenBy` and `BatchAt` say.

`EventsProofs` first shows that the events change
nothing (`EventsAreLedgerSteps`, `EventsAreMarketSteps`), so that everything above
holds next to a reader. `ReaderKnowsHolders` needs the ledger's invariant: that a
token without an owner record is believed to be held by the account in its
`Token` record depends on which of the two mints made it and on no transfer
reaching it. The reader of the market keeps one record per token, so the proof is
by the event each step publishes (`ListOrOfferIsTold`, `TradeIsTold`), and only
listings of the right type are compared.

`GuardsProofs` proves that the ways of composing guards agree (`CompositionsAgree`:
`GuardComposition` passes for the same results, and the builder gives the same
answer as long as it has room), that the composed guards of a transfer are
`check_transfer` in every reachable state, and that changes of owner, terms and
listings pass the guards. The equivalence needs the index and burn parts of
`LedgerInv`, since the guards look at neither the burn mark nor the `Token`
record; changes of owner are one case per path, with `HopFacts` for the chains;
changes of terms need that an administrator is an account (`AdminSigns`); sales
need `MarketInv`.

`UpgradeProofs` proves, from `UpgradeAssumption` and `ConfigAssumption`, that
`UpgradeInv` is inductive: the types, what the events tell, and `CountersAgree`,
by which an unmigrated deployment that has not minted has no supply and still its
own ids, a migrated one has a supply, and the supply never exceeds the ids. `ReportTells` is the
fact about a change of settings: whatever differs, and in whichever order the
events come, the reader ends up with the new values.

*Model-checked only.* `EveryCallEnds`, since liveness under fairness is out of this
prover's reach, and the runs that expect a violation, since a counterexample is
found and not proved. The proofs rest on the named assumptions, each of which TLC
evaluates on the instances. Three are worth naming: that `Asset` is a finite set (a
sum over balances needs it), that `MaxTime` is not 0 (a ledger's clock has
started), and that the terms callers submit are of their type.

*A remark on the tools.* An `EXCEPT` that updates two places of one function which
may coincide, with `@` in both, means to TLC that the second sees the first, and
tlapm's translation does not. `Paid`, where payer and payee may be one account,
therefore debits and credits in two nested updates, and no other definition has
such an `EXCEPT`.

## Not modelled, and the plan

Nearly all the code that an entry point reaches and that reads or writes state is
modelled. What is left out, and why:

* *Code no entry point calls.* The re-entrancy guard and the nonces take part in
  no behaviour of the contract. The same goes for the storage library's
  collections, metadata links, recipient index, clip index and clean-up, for
  `mint_royalty_init.rs`, `royalty_percentage_validator.rs`,
  `remove_expired_offers`, the listing validator's own `cancel_listing`,
  `update_listing_status` and `mark_as_sold`. A model of them would have to invent
  the caller, and what holds would be about that caller.
* *Records.* The builder and the validators of clip metadata
  (`metadata/metadata_builder.rs`, `validation.rs`, `types.rs`, `helpers.rs`) turn
  one record into another and keep no state, and no entry point builds one. What
  their URL check accepts depends on how the SDK prints a string for debugging,
  which differs between builds. Single-key getters and setters of clip, media and
  collection records, media URIs and the batch id: nothing reads them back.
* *Text.* Payloads and topics of events beyond what a reader learns from them; the
  error catalogue and infrastructure, which describe error codes; constants for
  deployment; the serialisers.
* *Events* of creators, metadata, terms and clips.
* *Tests*, which are nearly half of the lines of the source directory.
* `guards/payment.rs` and `guards/royalty.rs`, which accept everything.

Planned: proofs that the two mints and the market compose (a listing of a token
that a mint under way replaces), as far as one invocation after another allows;
and what a payment identifier guarantees, that it is spent once and by whom.
