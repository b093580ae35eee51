------------------------- MODULE MCMetadataUpdates -------------------------
(* Instances of MetadataUpdates (and of AtomicMint under it) for TLC. *)
EXTENDS MetadataUpdates

\* One valid value, which names a caller; so callers are not interchangeable.
OneRoyalty ==
    {[recipients |-> <<[who |-> CHOOSE a \in Caller : TRUE, bps |-> 1]>>, asset |-> NoAsset]}

\* A request that names the contract as owner or creator is refused, so items
\* are for accounts.  One URI is enough: the other mint takes either.
AccountItems ==
    {r \in MintRequest :
        {r.owner, r.creator} \subseteq Caller /\ r.uri = CHOOSE u \in Uri : TRUE}

\* The administrator mints, for itself or in batches for anybody; creators are
\* accounts.  The ledger's runs explore minters and the blacklist.
FewCalls ==
    /\ store.blacklisted = {}
    /\ store.minters = {}
    /\ \A t \in TokenId : store.creator[t] # Contract

\* Clips and signatures are numbered, and new ones are taken in order: no
\* definition tells them apart.  (A symmetry set would do the same for safety,
\* but not for liveness.)
MintedClips == {c \in Clip : committed.clipToken[c] # None}
InOrder(c, taken) == \A d \in Clip : d < c => d \in taken
TakenInOrder ==
    /\ call.kind = "mint" =>
           /\ InOrder(call.params.clip, MintedClips)
           /\ \A s \in Signature : s < call.params.signature => s \in committed.usedSignatures
    /\ call.kind = "batch" =>
           \A i \in DOMAIN call.requests :
               InOrder(call.requests[i].clip,
                       MintedClips \cup {call.requests[j].clip : j \in 1 .. i - 1})

\* One administrator, who is not named by the royalty; one token frozen at a
\* time, while no mint runs.
FewUpdates ==
    /\ FewCalls
    /\ TakenInOrder
    /\ store.admin # None => \A r \in Royalties : store.admin # r.recipients[1].who
    /\ Cardinality(frozen) <= 1
    /\ frozen # {} => call = NoCall
=============================================================================
