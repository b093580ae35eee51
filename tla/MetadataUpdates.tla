-------------------------- MODULE MetadataUpdates --------------------------
(***************************************************************************)
(* Metadata after the mint: the one update a token's owner or creator may  *)
(* make (update_metadata), the freeze that forbids it, and the index from  *)
(* URIs to tokens, on top of the two mints and the burn of AtomicMint,     *)
(* which write and remove the same keys.                                   *)
(*                                                                         *)
(* Every call of AtomicMint stays what it is there: neither a mint nor a   *)
(* burn reads or writes MetadataUpdated or FrozenToken.  A frozen token    *)
(* can be burned, and its marks outlive it.                                *)
(***************************************************************************)
EXTENDS AtomicMint

CONSTANT AcceptedUri   \* URIs that pass validate_uri and validate_metadata_size

ASSUME UpdateAssumption == AcceptedUri \subseteq Uri

VARIABLES
    metadataUpdated,   \* DataKey::MetadataUpdated: the update slot is spent
    frozen             \* DataKey::FrozenToken

updateVars == <<metadataUpdated, frozen>>
metadataVars == <<mintVars, updateVars>>

MetadataInit ==
    /\ MintInit
    /\ metadataUpdated = {}
    /\ frozen = {}

\* administrator_storage: no entry point ever adds an administrator.  It is not
\* DataKey::Admin, which init writes and which is store.admin here.
Administrators == {}

-----------------------------------------------------------------------------
require_active(t) ==
    /\ t \notin store.burned
    /\ store.tokenData[t] # None
    /\ store.tokenOwner[t] # None

freeze_token(t) ==
    /\ require_active(t)
    /\ t \notin frozen
    /\ Administered(store)
    /\ frozen' = frozen \cup {t}
    /\ UNCHANGED metadataUpdated

unfreeze_token(t) ==
    /\ t \notin store.burned
    /\ t \in frozen
    /\ Administered(store)
    /\ frozen' = frozen \ {t}
    /\ UNCHANGED metadataUpdated

check_token_exists(t) == store.tokenOwner[t] # None

check_caller_authorized(c, t) ==
    c \in {store.tokenOwner[t], store.creator[t]} \cup Administrators

check_not_frozen(t) == t \notin frozen

\* Mutant of check_update_policy: the creator may always update.
owner_policy_only(c, t) == c = store.creator[t] \/ t \notin metadataUpdated
check_update_policy(c, t) == c \in Administrators \/ t \notin metadataUpdated

\* Mutant of check_metadata_update: any record will do, with or without owner.
check_any_record(c, t) ==
    /\ store.tokenData[t] # None
    /\ check_caller_authorized(c, t)
    /\ check_not_frozen(t)
    /\ check_update_policy(c, t)
check_metadata_update(c, t) ==
    /\ check_token_exists(t)
    /\ check_caller_authorized(c, t)
    /\ check_not_frozen(t)
    /\ check_update_policy(c, t)

validate_uri(uri) == uri \in AcceptedUri

\* The index loses the entry of the old URI, whichever token it names.
\* Mutant of reindex: the entry of the old URI is left.
indexed_too(index, t, old, uri) == [index EXCEPT ![uri] = t]
reindex(index, t, old, uri) == [index EXCEPT ![old] = None, ![uri] = t]

update_metadata(c, t, uri) ==
    LET old == store.metadata[t] IN
    /\ check_metadata_update(c, t)
    /\ validate_uri(uri)
    /\ old # None
    /\ Entry([store EXCEPT !.metadataIndex = reindex(@, t, old, uri), !.metadata[t] = uri])
    /\ metadataUpdated' = metadataUpdated \cup {t}
    /\ UNCHANGED frozen

-----------------------------------------------------------------------------
MetadataNext ==
    \/ MintNext /\ UNCHANGED updateVars
    \/ \E t \in TokenId : freeze_token(t) \/ unfreeze_token(t)
    \/ \E c \in Caller, t \in TokenId, uri \in Uri : update_metadata(c, t, uri)

\* The host runs one transaction to its end before it starts another; nobody is
\* obliged to start one.
MetadataSpec ==
    /\ MetadataInit
    /\ [][MetadataNext]_metadataVars
    /\ WF_metadataVars(ResumeMint /\ UNCHANGED updateVars)

-----------------------------------------------------------------------------
(* Properties *)

\* metadata_update_guard.rs: the URI of a recorded token changes in two ways only,
\* and each happens once in its life: an update spends the slot of a token with an
\* owner, or the atomic mint takes over the last id of a batch and gives it its
\* first owner.  Nobody is exempt, the contract's administrator included (of whom
\* the documents say something else: AdminMayAlwaysUpdate).
UriChangesOnce ==
    [][\A t \in TokenId :
           /\ committed.tokenData[t] # None /\ committed'.tokenData[t] # None
           /\ committed'.metadata[t] # committed.metadata[t]
           => \/ committed.tokenOwner[t] = None /\ committed'.tokenOwner[t] # None
              \/ /\ committed.tokenOwner[t] # None
                 /\ t \notin metadataUpdated /\ t \in metadataUpdated']_metadataVars

\* The slot of a token is unspent when it gets its owner, although the slot
\* outlives the token and the two mints can hand out one id twice.
OwnerGetsTheUpdate ==
    [][\A t \in TokenId :
           committed.tokenOwner[t] = None /\ committed'.tokenOwner[t] # None =>
               t \notin metadataUpdated']_metadataVars

\* An entry of the URI index that names a token of the atomic mint names a live
\* token with that URI, through updates, shared URIs and burns.  (An id both
\* mints handed out keeps the entry of its first URI.)
IndexNamesBearer ==
    \A u \in Uri :
        LET t == committed.metadataIndex[u] IN
        t # None /\ t \notin committed.unsynced => committed.metadata[t] = u

\* storage_cleanup.rs: the primary record is gone, and some other is not.  Three
\* of its keys are no state of these modules: Approval, RoyaltyHistory, TokenUri.
is_record_orphaned(t) ==
    /\ committed.tokenData[t] = None
    /\ \/ t \in frozen
       \/ committed.metadata[t] # None
       \/ committed.royalty[t] # None
       \/ committed.creator[t] # None
       \/ committed.royaltyRecipient[t] # None
       \/ committed.tokenClip[t] # None

\* Every burn leaves records behind, and nothing else does: no failed mint with
\* either rollback, no update and no new creator touches a token without a record.
OnlyBurnsOrphan == \A t \in TokenId : is_record_orphaned(t) <=> t \in committed.burned

\* A mint that has begun returns, or fails and is undone: no order of writes,
\* failures and rollbacks leaves a call without a next step.
EveryCallEnds == call.kind # "none" ~> call.kind = "none"

(* What the documents say and the code does not do; refuted. *)

\* metadata_update_policy.rs: the contract admin, who is DataKey::Admin there, may
\* always update any token's metadata.  (The freeze is left to the guard.)
AdminMayAlwaysUpdate ==
    \A t \in TokenId :
        /\ call = NoCall /\ store.admin # None
        /\ check_token_exists(t) /\ check_not_frozen(t)
        => check_metadata_update(store.admin, t)
=============================================================================
