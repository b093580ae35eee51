----------------------------- MODULE AtomicMint -----------------------------
(***************************************************************************)
(* The two mints write by write.  execute_atomic_mint makes its writes one *)
(* after another and undoes them itself, key by key, when a later one      *)
(* fails (MintRollback); execute_batch_mint keeps the indices of the       *)
(* current owner and creator in memory, flushes them when the next item    *)
(* has another one, and undoes the finished items when an item fails.      *)
(* After a failure the host throws away whatever is left of the call.      *)
(*                                                                         *)
(* `store` is what the running call reads and writes, `committed` what the *)
(* last finished call left.  The other calls here are those that write the *)
(* same keys; pause, grants, freezes, transfers and terms are in modules   *)
(* TokenLedger and RoyaltyTerms, which Terms ties this module to.          *)
(***************************************************************************)
EXTENDS Naturals, Sequences, FiniteSets, Functions

CONSTANTS Address, Contract, None, MaxTokens, MaxBatchMint,
          Asset, NoAsset, MAX_ROYALTY_BPS, Royalties,
          Clip,        \* clip ids
          Uri,         \* metadata URIs
          Signature,   \* hashes of mint signatures
          BatchItems,  \* bound: the requests that batches are made of
          MaxSupply    \* bound: in place of u32::MAX

ASSUME MintAssumption ==
    /\ Contract \in Address
    /\ None \notin Address \cup Clip \cup Uri \cup Nat
    /\ {MaxTokens, MaxBatchMint, MaxSupply, MAX_ROYALTY_BPS} \subseteq Nat

TokenId == 0 .. MaxTokens - 1
Caller == Address \ {Contract}

VARIABLES
    store,      \* the keys a mint reads or writes, as the running call sees them
    committed,  \* the same keys as the last finished call left them
    call        \* the running mint, or NoCall

mintVars == <<store, committed, call>>

NoCall == [kind |-> "none"]

MintParams ==
    [owner : Caller, clip : Clip, uri : Uri, royalty : Royalties,
     signature : Signature, creator : Address]
MintRequest ==
    [owner : Address, clip : Clip, uri : Uri, royalty : Royalties, creator : Address]

\* A cached index: [who, tokens], or None.
Cache == [who : Address, tokens : SUBSET TokenId]

ASSUME BatchAssumption ==
    /\ BatchItems \subseteq MintRequest
    /\ None \notin Cache

Store ==
    [admin : Address \cup {None},
     minters : SUBSET Address,
     blacklisted : SUBSET Address,
     nextTokenId : 0 .. MaxTokens,
     totalSupply : 0 .. MaxSupply,
     tokenOwner : [TokenId -> Address \cup {None}],
     tokenData : [TokenId -> Address \cup {None}],
     burned : SUBSET TokenId,
     ownerTokens : [Address -> SUBSET TokenId],
     walletTokens : [Address -> SUBSET TokenId],
     creatorTokens : [Address -> SUBSET TokenId],
     metadata : [TokenId -> Uri \cup {None}],
     metadataIndex : [Uri -> TokenId \cup {None}],
     royalty : [TokenId -> Royalties \cup {None}],
     royaltyPercentage : [TokenId -> 0 .. MAX_ROYALTY_BPS \cup {None}],
     royaltyRecipient : [TokenId -> Address \cup {None}],
     creator : [TokenId -> Address \cup {None}],
     tokenClip : [TokenId -> Clip \cup {None}],
     clipToken : [Clip -> TokenId \cup {None}],
     usedSignatures : SUBSET Signature,
     unsynced : SUBSET TokenId]   \* TokenLedger's history

MintTypeOK ==
    /\ {store, committed} \subseteq Store
    /\ call.kind \in {"none", "mint", "batch"}
    /\ call.kind = "none" => store = committed

NoneFor(keys) == [k \in keys |-> None]
NoTokens == [a \in Address |-> {}]

MintInit ==
    /\ store =
         [admin |-> None, minters |-> {}, blacklisted |-> {}, nextTokenId |-> 0,
          totalSupply |-> 0, tokenOwner |-> NoneFor(TokenId),
          tokenData |-> NoneFor(TokenId), burned |-> {}, ownerTokens |-> NoTokens,
          walletTokens |-> NoTokens, creatorTokens |-> NoTokens,
          metadata |-> NoneFor(TokenId), metadataIndex |-> NoneFor(Uri),
          royalty |-> NoneFor(TokenId), royaltyPercentage |-> NoneFor(TokenId),
          royaltyRecipient |-> NoneFor(TokenId), creator |-> NoneFor(TokenId),
          tokenClip |-> NoneFor(TokenId), clipToken |-> NoneFor(Clip),
          usedSignatures |-> {}, unsynced |-> {}]
    /\ committed = store
    /\ call = NoCall

\* The committed storage as the royalty terms and the ledger see it.
Terms ==
    INSTANCE RoyaltyTerms WITH
        MaxBatchTransfer <- 0, paused <- FALSE, operators <- {}, frozen <- {},
        royaltyFrozen <- {}, currencies <- {}, approval <- NoneFor(TokenId),
        admin <- committed.admin, minters <- committed.minters,
        blacklisted <- committed.blacklisted, nextTokenId <- committed.nextTokenId,
        tokenOwner <- committed.tokenOwner, tokenData <- committed.tokenData,
        burned <- committed.burned, ownerTokens <- committed.ownerTokens,
        walletTokens <- committed.walletTokens, unsynced <- committed.unsynced,
        royalty <- committed.royalty, creator <- committed.creator,
        royaltyPercentage <- committed.royaltyPercentage,
        royaltyRecipient <- committed.royaltyRecipient

ASSUME RoyaltiesAssumption ==
    /\ Royalties \subseteq Terms!RoyaltyType
    /\ None \notin Royalties

-----------------------------------------------------------------------------
(* Invocations *)

\* The call returns Ok, having left the storage s.
Return(s) ==
    /\ store' = s
    /\ committed' = s
    /\ call' = NoCall

\* The call is over in one step.
Entry(s) == call = NoCall /\ Return(s)

Begin(invocation) ==
    /\ call = NoCall
    /\ call' = invocation
    /\ UNCHANGED <<store, committed>>

\* The host undoes a call that returned an error.
Abort ==
    /\ call # NoCall
    /\ call.status = "reverted"
    /\ store' = committed
    /\ call' = NoCall
    /\ UNCHANGED committed

Running(kind) == call.kind = kind /\ call.status = "running"

-----------------------------------------------------------------------------
(* The calls that are one step *)

init(a) ==
    /\ store.admin = None
    /\ Entry([store EXCEPT !.admin = a, !.nextTokenId = 0])

Administered(s) == store.admin # None /\ Entry(s)

set_approved_minter(a) == Administered([store EXCEPT !.minters = @ \cup {a}])
remove_approved_minter(a) == Administered([store EXCEPT !.minters = @ \ {a}])
add_to_blacklist(a) == Administered([store EXCEPT !.blacklisted = @ \cup {a}])
remove_from_blacklist(a) == Administered([store EXCEPT !.blacklisted = @ \ {a}])

\* Mutant of reassign_creator: the token need not exist.
reassign_any_creator(t, who) == Administered([store EXCEPT !.creator[t] = who])
\* The creator's portfolio stays as it is.
reassign_creator(t, who) ==
    /\ store.tokenData[t] # None
    /\ Administered([store EXCEPT !.creator[t] = who])

\* The clip, its mark and the creator's portfolio stay; the index entry of the
\* token's URI goes, whichever token it names.
burn_token(t) ==
    LET o == store.tokenOwner[t] IN
    /\ store.tokenData[t] # None
    /\ o # None
    /\ Entry([store EXCEPT
           !.ownerTokens[o] = @ \ {t}, !.walletTokens[o] = @ \ {t},
           !.tokenOwner[t] = None, !.tokenData[t] = None, !.royalty[t] = None,
           !.metadataIndex[store.metadata[t]] = None, !.metadata[t] = None,
           !.burned = @ \cup {t}])

require_mint_auth(a) == store.admin # None /\ (a = store.admin \/ a \in store.minters)

-----------------------------------------------------------------------------
(* execute_atomic_mint.  call.wrote are the flags of MintRollback.  The     *)
(* error paths of assign_owner, set_metadata and save_clip_id are dead:     *)
(* begin_mint has checked what they check.                                  *)

MintSteps ==
    <<"owner", "metadata", "royalty", "creator", "portfolio", "clip", "wallet",
      "signature", "supply", "commit">>

Turn(step) ==
    /\ Running("mint")
    /\ MintSteps[Cardinality(call.wrote) + 1] = step

Write(step, s) ==
    /\ Turn(step)
    /\ store' = s
    /\ call' = [call EXCEPT !.wrote = @ \cup {step}]
    /\ UNCHANGED committed

Fail ==
    /\ call' = [call EXCEPT !.status = "failed"]
    /\ UNCHANGED committed

\* Mutant of ensure_signature_unused: a signature can be replayed.
accept_signature(signature) == TRUE
ensure_signature_unused(signature) == signature \notin store.usedSignatures

begin_mint(params) ==
    /\ require_mint_auth(params.owner)
    /\ params.owner \notin store.blacklisted \cup {Contract}
    /\ ensure_signature_unused(params.signature)
    /\ store.clipToken[params.clip] = None
    /\ Terms!validate_royalty(params.royalty)
    /\ store.nextTokenId < MaxTokens
    /\ Begin([kind |-> "mint", status |-> "running", wrote |-> {},
              token |-> store.nextTokenId, params |-> params])

assign_owner ==
    Write("owner", [store EXCEPT !.tokenOwner[call.token] = call.params.owner,
                                 !.tokenData[call.token] = call.params.owner])

set_metadata ==
    Write("metadata", [store EXCEPT !.metadata[call.token] = call.params.uri,
                                    !.metadataIndex[call.params.uri] = call.token])

set_royalty == Write("royalty", [store EXCEPT !.royalty[call.token] = call.params.royalty])

set_creator_with_name ==
    Write("creator", [store EXCEPT !.creator[call.token] = call.params.creator])

add_token_to_creator ==
    Write("portfolio",
          [store EXCEPT !.creatorTokens[call.params.creator] = @ \cup {call.token}])

save_clip_id ==
    Write("clip", [store EXCEPT !.tokenClip[call.token] = call.params.clip,
                                !.clipToken[call.params.clip] = call.token])

\* Fails when the id was the last one of a batch, for the same owner.
add_token_to_wallet ==
    \/ /\ Turn("wallet")
       /\ call.token \in store.walletTokens[call.params.owner]
       /\ Fail /\ UNCHANGED store
    \/ /\ Turn("wallet")
       /\ call.token \notin store.walletTokens[call.params.owner]
       /\ Write("wallet",
                [store EXCEPT !.walletTokens[call.params.owner] = @ \cup {call.token}])

mark_signature_used ==
    Write("signature", [store EXCEPT !.usedSignatures = @ \cup {call.params.signature}])

\* Mutant of increment_total_supply: the addition is not checked.
increment_unchecked == Write("supply", [store EXCEPT !.totalSupply = @ + 1])
increment_total_supply ==
    \/ Turn("supply") /\ store.totalSupply >= MaxSupply /\ Fail /\ UNCHANGED store
    \/ store.totalSupply < MaxSupply /\ Write("supply", [store EXCEPT !.totalSupply = @ + 1])

commit_token_id ==
    Turn("commit") /\ Return([store EXCEPT !.nextTokenId = call.token + 1])

\* What MintRollback makes of a key that `step` wrote.
\* Mutant of Undo: the flag of the wallet index is not looked at.
UndoAllButWallet(step, written, removed) ==
    IF step \in call.wrote \ {"wallet"} THEN removed ELSE written
Undo(step, written, removed) == IF step \in call.wrote THEN removed ELSE written

revert ==
    LET t == call.token IN
    [store EXCEPT
        !.usedSignatures = Undo("signature", @, @ \ {call.params.signature}),
        !.walletTokens[call.params.owner] = Undo("wallet", @, @ \ {t}),
        !.creatorTokens[call.params.creator] = Undo("portfolio", @, @ \ {t}),
        !.creator[t] = Undo("creator", @, None),
        !.tokenClip[t] = Undo("clip", @, None),
        !.clipToken[call.params.clip] = Undo("clip", @, None),
        !.royalty[t] = Undo("royalty", @, None),
        !.metadata[t] = Undo("metadata", @, None),
        !.tokenOwner[t] = Undo("owner", @, None),
        !.tokenData[t] = Undo("owner", @, None)]

\* Mutant of RevertMint: the mint is tried again.
RetryMint ==
    /\ call.kind = "mint"
    /\ call.status = "failed"
    /\ store' = revert
    /\ call' = [call EXCEPT !.status = "running", !.wrote = {}]
    /\ UNCHANGED committed
RevertMint ==
    /\ call.kind = "mint"
    /\ call.status = "failed"
    /\ store' = revert
    /\ call' = [call EXCEPT !.status = "reverted"]
    /\ UNCHANGED committed

-----------------------------------------------------------------------------
(* execute_batch_mint.  A cache, when there is one, holds the index of the   *)
(* owner, or creator, of the last item.                                      *)

\* Mutants of validate_mint_request and of distinct_clips.
validate_request_but_clip(r) ==
    /\ {r.owner, r.creator} \cap (store.blacklisted \cup {Contract}) = {}
    /\ Terms!validate_royalty(r.royalty)
    /\ Terms!validate_royalty_recipients(r.royalty)
validate_mint_request(r) ==
    /\ {r.owner, r.creator} \cap (store.blacklisted \cup {Contract}) = {}
    /\ store.clipToken[r.clip] = None
    /\ Terms!validate_royalty(r.royalty)
    /\ Terms!validate_royalty_recipients(r.royalty)

any_clips(requests) == TRUE
distinct_clips(requests) ==
    \A i, j \in DOMAIN requests : i # j => requests[i].clip # requests[j].clip

begin_batch_mint(c, requests) ==
    /\ require_mint_auth(c)
    /\ c \notin store.blacklisted
    /\ distinct_clips(requests)
    /\ \A i \in DOMAIN requests : validate_mint_request(requests[i])
    /\ Begin([kind |-> "batch", status |-> "running", requests |-> requests,
              results |-> << >>, wallet |-> None, portfolio |-> None])

\* The index once the cache of anybody but `who` is written back.
\* Mutant of Flushed: the cache is dropped.
Dropped(index, cache, who) == index
Flushed(index, cache, who) ==
    IF cache = None \/ cache.who = who THEN index
    ELSE [index EXCEPT ![cache.who] = cache.tokens]

\* The cache for `who`, with the new token.
\* Mutant of Cached: the index is not loaded.
CachedAlone(index, cache, who, t) == [who |-> who, tokens |-> {t}]
Cached(index, cache, who, t) ==
    [who |-> who,
     tokens |-> {t} \cup (IF cache # None /\ cache.who = who THEN cache.tokens
                          ELSE index[who])]

Item == call.requests[Len(call.results) + 1]
ItemToken == store.nextTokenId + 1   \* reserve_token_id

\* What execute_mint_inner writes before it counts the token, with the caches of
\* earlier items written back.
ItemWrites ==
    LET r == Item
        t == ItemToken
    IN  [store EXCEPT
            !.nextTokenId = t,
            !.tokenData[t] = r.owner,
            !.metadata[t] = r.uri, !.metadataIndex[r.uri] = t,
            !.royalty[t] = r.royalty,
            !.royaltyPercentage[t] = Terms!TotalBps(r.royalty),
            !.creator[t] = r.creator,
            !.royaltyRecipient[t] = r.royalty.recipients[1].who,
            !.tokenClip[t] = r.clip, !.clipToken[r.clip] = t,
            !.walletTokens = Flushed(@, call.wallet, r.owner),
            !.creatorTokens = Flushed(@, call.portfolio, r.creator),
            !.ownerTokens[r.owner] = @ \cup {t},
            !.unsynced = @ \cup {t}]

ItemDue ==
    /\ Running("batch")
    /\ Len(call.results) < Len(call.requests)
    /\ ItemToken < MaxTokens

\* verify_post_mint reads back what was written and does not fail.
mint_item ==
    /\ ItemDue
    /\ store.totalSupply < MaxSupply
    /\ store' = [ItemWrites EXCEPT !.totalSupply = @ + 1]
    /\ call' = [call EXCEPT
           !.results = Append(@, ItemToken),
           !.wallet = Cached(store.walletTokens, @, Item.owner, ItemToken),
           !.portfolio = Cached(store.creatorTokens, @, Item.creator, ItemToken)]
    /\ UNCHANGED committed

mint_item_fails ==
    /\ ItemDue
    /\ store.totalSupply >= MaxSupply
    /\ store' = ItemWrites
    /\ Fail

finish_batch ==
    /\ Running("batch")
    /\ Len(call.results) = Len(call.requests)
    /\ Return([store EXCEPT !.walletTokens = Flushed(@, call.wallet, None),
                            !.creatorTokens = Flushed(@, call.portfolio, None)])

\* revert_single_mint for the finished items, and the counters as they were.
Finished == Range(call.results)
Unminted(values) == [t \in TokenId |-> IF t \in Finished THEN None ELSE values[t]]
Unlisted(index, party) ==
    [a \in Address |->
        index[a] \ {call.results[i] : i \in {j \in DOMAIN call.results :
                                                call.requests[j][party] = a}}]

RevertBatch ==
    /\ call.kind = "batch"
    /\ call.status = "failed"
    /\ store' = [store EXCEPT
           !.walletTokens = Unlisted(@, "owner"),
           !.ownerTokens = Unlisted(@, "owner"),
           !.creatorTokens = Unlisted(@, "creator"),
           !.creator = Unminted(@),
           !.tokenClip = Unminted(@),
           !.clipToken = [c \in Clip |->
               IF \E i \in DOMAIN call.results : call.requests[i].clip = c THEN None ELSE @[c]],
           !.royalty = Unminted(@), !.royaltyPercentage = Unminted(@),
           !.royaltyRecipient = Unminted(@),
           !.metadata = Unminted(@), !.tokenData = Unminted(@),
           !.nextTokenId = committed.nextTokenId,
           !.totalSupply = committed.totalSupply]
    /\ call' = [call EXCEPT !.status = "reverted"]
    /\ UNCHANGED committed

-----------------------------------------------------------------------------
OneStepCalls ==
    \/ \E a \in Caller : init(a)
    \/ \E a \in Address : \/ set_approved_minter(a) \/ remove_approved_minter(a)
                          \/ add_to_blacklist(a) \/ remove_from_blacklist(a)
    \/ \E t \in TokenId, who \in Address : reassign_creator(t, who)
    \/ \E t \in TokenId : burn_token(t)

Batches == UNION {[1 .. n -> BatchItems] : n \in 1 .. MaxBatchMint}

BeginMint ==
    \/ \E params \in MintParams : begin_mint(params)
    \/ \E c \in Caller, requests \in Batches : begin_batch_mint(c, requests)

\* What the host goes on with once a mint has begun.
ResumeMint ==
    \/ assign_owner \/ set_metadata \/ set_royalty \/ set_creator_with_name
    \/ add_token_to_creator \/ save_clip_id \/ add_token_to_wallet
    \/ mark_signature_used \/ increment_total_supply \/ commit_token_id
    \/ RevertMint
    \/ mint_item \/ mint_item_fails \/ finish_batch \/ RevertBatch
    \/ Abort

MintNext == OneStepCalls \/ BeginMint \/ ResumeMint

MintSpec == MintInit /\ [][MintNext]_mintVars

-----------------------------------------------------------------------------
(* Properties *)

\* Write by write, with caches, failures and rollbacks, the two mints are the
\* atomic steps the ledger and the terms take them for.
MintsAreAtomic == Terms!TermsSpec

\* A clip is minted once and stays minted, burns included: neither mint, and no
\* two items of a batch, take a clip that has a token.
ClipMintedOnce ==
    [][\A c \in Clip :
           committed.clipToken[c] # None =>
               committed'.clipToken[c] = committed.clipToken[c]]_mintVars

\* The supply counts the clips ever minted, and so do the token ids handed out,
\* although the two mints number differently and may share an id.
SupplyCountsClips ==
    /\ committed.totalSupply = Cardinality({c \in Clip : committed.clipToken[c] # None})
    /\ committed.totalSupply = committed.nextTokenId

\* A live token's clip leads back to the token, even when the id was first the
\* last one of a batch.
TokenFindsItsClip ==
    \A t \in TokenId :
        committed.tokenData[t] # None =>
            /\ committed.tokenClip[t] # None
            /\ committed.clipToken[committed.tokenClip[t]] = t

\* Whatever caches were flushed in whatever order, and whoever the creator was
\* changed to, every token with a creator is in the portfolio of some account.
CreatorIsListed ==
    \A t \in TokenId :
        committed.creator[t] # None => \E a \in Address : t \in committed.creatorTokens[a]

\* An owner record is made only by spending a signature that was never used.
OwnerSpendsSignature ==
    [][\A t \in TokenId :
           committed.tokenOwner[t] = None /\ committed'.tokenOwner[t] # None =>
               committed'.usedSignatures \ committed.usedSignatures # {}]_mintVars

Reverted == call.kind # "none" /\ call.status = "reverted"
FailingToken == committed.nextTokenId + Len(call.results) + 1

\* The contract's own rollback, before the host's.  A mint of a fresh id leaves
\* nothing but the entry of its URI in the metadata index.  A batch undoes the
\* finished items, flushed or still in memory, and leaves the writes of the item
\* that failed.
RollbackIsExact ==
    Reverted =>
        \/ /\ call.kind = "mint"
           /\ committed.tokenData[call.token] # None
              \/ store = [committed EXCEPT !.metadataIndex = store.metadataIndex]
        \/ /\ call.kind = "batch"
           /\ \A key \in {"tokenData", "metadata", "royalty", "royaltyPercentage",
                           "royaltyRecipient", "creator", "tokenClip"} :
                  \A t \in TokenId \ {FailingToken} : store[key][t] = committed[key][t]
           /\ \A key \in {"walletTokens", "creatorTokens", "nextTokenId", "totalSupply",
                           "tokenOwner", "usedSignatures"} : store[key] = committed[key]
           /\ \A a \in Address :
                  store.ownerTokens[a] \ {FailingToken} = committed.ownerTokens[a]

(* What the documents say and the code does not do; refuted. *)

\* clip_id_storage.rs: the mapping is bidirectional, each token maps to exactly
\* one clip; so no two clips lead to one token.
OneClipPerToken ==
    \A c, d \in Clip :
        c # d /\ committed.clipToken[c] # None =>
            committed.clipToken[c] # committed.clipToken[d]
=============================================================================
