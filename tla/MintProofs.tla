----------------------------- MODULE MintProofs -----------------------------
(***************************************************************************)
(* The two mints and the metadata updates, for every set of accounts,      *)
(* clips, URIs, signatures and terms, and every batch size.                *)
(***************************************************************************)
EXTENDS MetadataUpdates, RoyaltyMathProofs

-----------------------------------------------------------------------------
(* Storage as a record *)

\* A record with the fields of Store and no others.
IsRecord(s) ==
    s = [admin |-> s.admin, minters |-> s.minters, blacklisted |-> s.blacklisted,
         nextTokenId |-> s.nextTokenId, totalSupply |-> s.totalSupply,
         tokenOwner |-> s.tokenOwner, tokenData |-> s.tokenData, burned |-> s.burned,
         ownerTokens |-> s.ownerTokens, walletTokens |-> s.walletTokens,
         creatorTokens |-> s.creatorTokens, metadata |-> s.metadata,
         metadataIndex |-> s.metadataIndex, royalty |-> s.royalty,
         royaltyPercentage |-> s.royaltyPercentage,
         royaltyRecipient |-> s.royaltyRecipient, creator |-> s.creator,
         tokenClip |-> s.tokenClip, clipToken |-> s.clipToken,
         usedSignatures |-> s.usedSignatures, unsynced |-> s.unsynced]

IdsTyped(s) ==
    /\ s.nextTokenId \in 0 .. MaxTokens
    /\ s.totalSupply \in 0 .. MaxSupply
    /\ s.burned \in SUBSET TokenId
    /\ s.unsynced \in SUBSET TokenId
    /\ s.usedSignatures \in SUBSET Signature
    /\ s.admin \in Address \cup {None}
    /\ s.minters \in SUBSET Address
    /\ s.blacklisted \in SUBSET Address

TokensTyped(s) ==
    /\ s.tokenOwner \in [TokenId -> Address \cup {None}]
    /\ s.tokenData \in [TokenId -> Address \cup {None}]
    /\ s.metadata \in [TokenId -> Uri \cup {None}]
    /\ s.royalty \in [TokenId -> Royalties \cup {None}]
    /\ s.royaltyPercentage \in [TokenId -> 0 .. MAX_ROYALTY_BPS \cup {None}]
    /\ s.royaltyRecipient \in [TokenId -> Address \cup {None}]
    /\ s.creator \in [TokenId -> Address \cup {None}]
    /\ s.tokenClip \in [TokenId -> Clip \cup {None}]

IndicesTyped(s) ==
    /\ s.ownerTokens \in [Address -> SUBSET TokenId]
    /\ s.walletTokens \in [Address -> SUBSET TokenId]
    /\ s.creatorTokens \in [Address -> SUBSET TokenId]
    /\ s.metadataIndex \in [Uri -> TokenId \cup {None}]
    /\ s.clipToken \in [Clip -> TokenId \cup {None}]

-----------------------------------------------------------------------------
(* What is true of the storage between calls *)

Blank(s, t) ==
    /\ s.tokenOwner[t] = None
    /\ s.metadata[t] = None
    /\ s.royalty[t] = None
    /\ s.royaltyPercentage[t] = None
    /\ s.royaltyRecipient[t] = None
    /\ s.creator[t] = None
    /\ s.tokenClip[t] = None
    /\ t \notin s.unsynced
    /\ \A u \in Uri : s.metadataIndex[u] # t
    /\ \A a \in Address :
           t \notin s.ownerTokens[a] \cup s.walletTokens[a] \cup s.creatorTokens[a]

TokenInv(s, t) ==
    /\ s.tokenData[t] = None => s.tokenOwner[t] = None
    /\ s.tokenData[t] = None /\ t \notin s.burned => Blank(s, t)
    /\ t > s.nextTokenId => s.tokenData[t] = None
    /\ t >= s.nextTokenId => s.tokenOwner[t] = None /\ t \notin s.burned
    /\ t \in s.burned => s.tokenData[t] = None /\ s.creator[t] # None
    /\ s.tokenData[t] # None => s.creator[t] # None
    /\ s.tokenData[t] # None =>
           s.tokenClip[t] # None /\ s.clipToken[s.tokenClip[t]] = t
    /\ s.creator[t] # None => \E a \in Address : t \in s.creatorTokens[a]
    /\ s.tokenData[t] # None /\ s.tokenOwner[t] = None => t \in s.unsynced
    /\ s.tokenOwner[t] # Contract

UriInv(s, u) ==
    LET t == s.metadataIndex[u] IN
    t # None /\ t \notin s.unsynced => s.metadata[t] = u

ClipsIn(s) == {c \in Clip : s.clipToken[c] # None}

CountInv(s) ==
    /\ IsFiniteSet(ClipsIn(s))
    /\ s.totalSupply = Cardinality(ClipsIn(s))
    /\ s.totalSupply = s.nextTokenId

StoreInv(s) ==
    /\ s \in Store
    /\ s.admin = None => s.nextTokenId = 0
    /\ \A t \in TokenId : TokenInv(s, t)
    /\ \A u \in Uri : UriInv(s, u)
    /\ CountInv(s)

-----------------------------------------------------------------------------
(* What is true while the atomic mint runs *)

MintStarted(p) ==
    /\ p \in MintParams
    /\ committed.nextTokenId < MaxTokens
    /\ committed.admin # None
    /\ p.owner = committed.admin \/ p.owner \in committed.minters
    /\ p.owner \notin committed.blacklisted \cup {Contract}
    /\ p.signature \notin committed.usedSignatures
    /\ committed.clipToken[p.clip] = None
    /\ Terms!validate_royalty(p.royalty)

\* The storage s2 that the writes `wrote` of a mint of t make of s.
WrittenBy(s2, s, wrote, p, t) ==
    /\ s2.tokenOwner =
           IF "owner" \in wrote THEN [s.tokenOwner EXCEPT ![t] = p.owner] ELSE s.tokenOwner
    /\ s2.tokenData =
           IF "owner" \in wrote THEN [s.tokenData EXCEPT ![t] = p.owner] ELSE s.tokenData
    /\ s2.metadata =
           IF "metadata" \in wrote THEN [s.metadata EXCEPT ![t] = p.uri] ELSE s.metadata
    /\ s2.metadataIndex =
           IF "metadata" \in wrote THEN [s.metadataIndex EXCEPT ![p.uri] = t]
           ELSE s.metadataIndex
    /\ s2.royalty =
           IF "royalty" \in wrote THEN [s.royalty EXCEPT ![t] = p.royalty] ELSE s.royalty
    /\ s2.creator =
           IF "creator" \in wrote THEN [s.creator EXCEPT ![t] = p.creator] ELSE s.creator
    /\ s2.creatorTokens =
           IF "portfolio" \in wrote
           THEN [s.creatorTokens EXCEPT ![p.creator] = @ \cup {t}] ELSE s.creatorTokens
    /\ s2.tokenClip =
           IF "clip" \in wrote THEN [s.tokenClip EXCEPT ![t] = p.clip] ELSE s.tokenClip
    /\ s2.clipToken =
           IF "clip" \in wrote THEN [s.clipToken EXCEPT ![p.clip] = t] ELSE s.clipToken
    /\ s2.walletTokens =
           IF "wallet" \in wrote
           THEN [s.walletTokens EXCEPT ![p.owner] = @ \cup {t}] ELSE s.walletTokens
    /\ s2.usedSignatures =
           IF "signature" \in wrote THEN s.usedSignatures \cup {p.signature}
           ELSE s.usedSignatures
    /\ s2.totalSupply = IF "supply" \in wrote THEN s.totalSupply + 1 ELSE s.totalSupply
    /\ s2.admin = s.admin /\ s2.minters = s.minters /\ s2.blacklisted = s.blacklisted
    /\ s2.nextTokenId = s.nextTokenId /\ s2.burned = s.burned
    /\ s2.ownerTokens = s.ownerTokens /\ s2.unsynced = s.unsynced
    /\ s2.royaltyPercentage = s.royaltyPercentage
    /\ s2.royaltyRecipient = s.royaltyRecipient

\* The first k steps.
StepsTo(k) == {MintSteps[i] : i \in 1 .. k}

MintRuns ==
    /\ call.kind = "mint"
    /\ call = [kind |-> "mint", status |-> call.status, wrote |-> call.wrote,
               token |-> call.token, params |-> call.params]
    /\ call.token = committed.nextTokenId
    /\ MintStarted(call.params)
    /\ \/ /\ call.status = "running" \/ (call.status = "failed" /\ "supply" \notin call.wrote)
          /\ \E k \in 0 .. 9 : call.wrote = StepsTo(k)
          /\ WrittenBy(store, committed, call.wrote, call.params, call.token)
          /\ "wallet" \in call.wrote =>
                 call.token \notin committed.walletTokens[call.params.owner]
       \/ /\ call.status = "reverted"
          /\ \/ committed.tokenData[call.token] # None
             \/ store = [committed EXCEPT !.metadataIndex = store.metadataIndex]

-----------------------------------------------------------------------------
(* What is true while the batch mint runs *)

\* The ids of the first n items of a batch that started on c, and those of them
\* whose `party` is a.
Ids(c, n) == c.nextTokenId + 1 .. c.nextTokenId + n
IdsFor(c, requests, n, party, a) == {t \in Ids(c, n) : requests[t - c.nextTokenId][party] = a}

BatchStarted(c, requests) ==
    /\ \E n \in 1 .. MaxBatchMint : requests \in [1 .. n -> BatchItems]
    /\ c.admin # None
    /\ \E a \in Caller : (a = c.admin \/ a \in c.minters) /\ a \notin c.blacklisted
    /\ distinct_clips(requests)
    /\ \A i \in DOMAIN requests :
           /\ requests[i].owner \notin c.blacklisted \cup {Contract}
           /\ requests[i].creator \notin c.blacklisted \cup {Contract}
           /\ c.clipToken[requests[i].clip] = None
           /\ Terms!validate_royalty(requests[i].royalty)
           /\ Terms!validate_royalty_recipients(requests[i].royalty)

\* Token t has the records of request r, or those it has in c.
HasItem(s, t, r) ==
    /\ s.tokenData[t] = r.owner
    /\ s.metadata[t] = r.uri
    /\ s.royalty[t] = r.royalty
    /\ s.royaltyPercentage[t] = Terms!TotalBps(r.royalty)
    /\ s.royaltyRecipient[t] = r.royalty.recipients[1].who
    /\ s.creator[t] = r.creator
    /\ s.tokenClip[t] = r.clip

SameItem(s, t, c) ==
    /\ s.tokenData[t] = c.tokenData[t]
    /\ s.metadata[t] = c.metadata[t]
    /\ s.royalty[t] = c.royalty[t]
    /\ s.royaltyPercentage[t] = c.royaltyPercentage[t]
    /\ s.royaltyRecipient[t] = c.royaltyRecipient[t]
    /\ s.creator[t] = c.creator[t]
    /\ s.tokenClip[t] = c.tokenClip[t]

ItemsDone(s, c, requests, n, skipped) ==
    \A t \in TokenId \ skipped :
        IF t \in Ids(c, n) THEN HasItem(s, t, requests[t - c.nextTokenId]) ELSE SameItem(s, t, c)

\* No batch writes these keys.
BatchUntouched(s, c) ==
    /\ s.admin = c.admin /\ s.minters = c.minters /\ s.blacklisted = c.blacklisted
    /\ s.tokenOwner = c.tokenOwner
    /\ s.burned = c.burned
    /\ s.usedSignatures = c.usedSignatures

\* An index as the first n items leave it.
Listed(index, c, requests, n, party) ==
    [a \in Address |-> index[a] \cup IdsFor(c, requests, n, party, a)]

\* The first n items of the batch are minted, but for the two cached indices.
BatchAt(s, c, requests, n) ==
    /\ ItemsDone(s, c, requests, n, {})
    /\ s.nextTokenId = c.nextTokenId + n
    /\ CountInv(s)
    /\ s.unsynced = c.unsynced \cup Ids(c, n)
    /\ s.ownerTokens = Listed(c.ownerTokens, c, requests, n, "owner")
    /\ \A u \in Uri :
           \/ s.metadataIndex[u] \in Ids(c, n)
           \/ s.metadataIndex[u] = c.metadataIndex[u]
    /\ \A i \in 1 .. n : s.clipToken[requests[i].clip] = c.nextTokenId + i
    /\ \A x \in Clip :
           (\A i \in 1 .. n : requests[i].clip # x) => s.clipToken[x] = c.clipToken[x]

\* An index and its cache together are `new`, and the index is on its way there
\* from `old`.
Indexed(index, cache, old, new) ==
    /\ cache \in Cache \cup {None}
    /\ Flushed(index, cache, None) = new
    /\ \A a \in Address : old[a] \subseteq index[a] /\ index[a] \subseteq new[a]

BatchIndexed(s, c, requests, n, wallet, portfolio) ==
    /\ Indexed(s.walletTokens, wallet, c.walletTokens,
               Listed(c.walletTokens, c, requests, n, "owner"))
    /\ Indexed(s.creatorTokens, portfolio, c.creatorTokens,
               Listed(c.creatorTokens, c, requests, n, "creator"))

\* The item after the first n failed when it had written its records.
FailedAt(s, c, requests, n) ==
    LET failing == c.nextTokenId + n + 1 IN
    /\ ItemsDone(s, c, requests, n, {failing})
    /\ \A a \in Address :
           /\ s.ownerTokens[a] \ {failing} = Listed(c.ownerTokens, c, requests, n, "owner")[a]
           /\ c.walletTokens[a] \subseteq s.walletTokens[a]
           /\ s.walletTokens[a] \subseteq Listed(c.walletTokens, c, requests, n, "owner")[a]
           /\ c.creatorTokens[a] \subseteq s.creatorTokens[a]
           /\ s.creatorTokens[a] \subseteq Listed(c.creatorTokens, c, requests, n, "creator")[a]

RevertedAt(s, c, n) ==
    LET failing == c.nextTokenId + n + 1 IN
    /\ \A t \in TokenId \ {failing} : SameItem(s, t, c)
    /\ s.walletTokens = c.walletTokens /\ s.creatorTokens = c.creatorTokens
    /\ s.nextTokenId = c.nextTokenId /\ s.totalSupply = c.totalSupply
    /\ \A a \in Address : s.ownerTokens[a] \ {failing} = c.ownerTokens[a]

Done == Len(call.results)

BatchRuns ==
    /\ call.kind = "batch"
    /\ call = [kind |-> "batch", status |-> call.status, requests |-> call.requests,
               results |-> call.results, wallet |-> call.wallet,
               portfolio |-> call.portfolio]
    /\ BatchStarted(committed, call.requests)
    /\ call.results \in Seq(Nat)
    /\ Done <= Len(call.requests)
    /\ \A i \in 1 .. Done : call.results[i] = committed.nextTokenId + i
    /\ Done > 0 => committed.nextTokenId + Done < MaxTokens
    /\ BatchUntouched(store, committed)
    /\ \/ /\ call.status = "running"
          /\ BatchAt(store, committed, call.requests, Done)
          /\ BatchIndexed(store, committed, call.requests, Done, call.wallet, call.portfolio)
       \/ /\ call.status = "failed"
          /\ FailedAt(store, committed, call.requests, Done)
       \/ /\ call.status = "reverted"
          /\ RevertedAt(store, committed, Done)

-----------------------------------------------------------------------------
MintInv ==
    /\ store \in Store
    /\ StoreInv(committed)
    /\ \/ call = NoCall /\ store = committed
       \/ MintRuns
       \/ BatchRuns

-----------------------------------------------------------------------------
LEMMA StoreIs ==
    ASSUME NEW s
    PROVE  s \in Store <=> IsRecord(s) /\ IdsTyped(s) /\ TokensTyped(s) /\ IndicesTyped(s)
BY DEF Store, IsRecord, IdsTyped, TokensTyped, IndicesTyped

LEMMA Constants ==
    /\ Contract \in Address /\ None \notin Address /\ None \notin Clip /\ None \notin Uri
    /\ None \notin Nat /\ None \notin TokenId /\ TokenId \subseteq Nat
    /\ MaxTokens \in Nat /\ MaxBatchMint \in Nat /\ MaxSupply \in Nat
    /\ MAX_ROYALTY_BPS \in Nat /\ None \notin Royalties /\ None \notin Cache
BY MintAssumption, RoyaltiesAssumption, BatchAssumption DEF TokenId

\* The checks of a royalty do not depend on the state.
LEMMA RoyaltyChecksFixed ==
    ASSUME NEW r
    PROVE  /\ Terms!TotalBps(r)' = Terms!TotalBps(r)
           /\ Terms!validate_royalty(r)' <=> Terms!validate_royalty(r)
           /\ Terms!validate_royalty_recipients(r)' <=> Terms!validate_royalty_recipients(r)
<1>1. Terms!TotalBps(r)' = Terms!TotalBps(r)
  BY DEF Terms!TotalBps, Terms!FoldFunction, Terms!FoldFunctionOnSet, Terms!MapThenFoldSet
<1>2. QED
  BY <1>1 DEF Terms!validate_royalty, Terms!validate_royalty_recipients, Terms!Range

-----------------------------------------------------------------------------
(* The order of the writes *)

LEMMA NextStep ==
    ASSUME NEW k \in 0 .. 9
    PROVE  /\ MintSteps[k + 1] \notin StepsTo(k)
           /\ StepsTo(k + 1) = StepsTo(k) \cup {MintSteps[k + 1]}
<1>1. \A i \in 1 .. k : MintSteps[i] # MintSteps[k + 1]
  BY DEF MintSteps
<1>2. QED
  BY <1>1 DEF StepsTo

LEMMA StepCount ==
    ASSUME NEW k \in 0 .. 9
    PROVE  Cardinality(StepsTo(k)) = k
<1> DEFINE Counts(n) == IsFiniteSet(StepsTo(n)) /\ Cardinality(StepsTo(n)) = n
<1>1. Counts(0)
  BY FS_EmptySet DEF StepsTo
<1>2. ASSUME NEW n \in 0 .. 9, Counts(n) PROVE Counts(n + 1)
  <2>1. Cardinality(StepsTo(n) \cup {MintSteps[n + 1]}) = Cardinality(StepsTo(n)) + 1
        /\ IsFiniteSet(StepsTo(n) \cup {MintSteps[n + 1]})
    BY <1>2, NextStep, FS_AddElement
  <2>2. QED
    BY <1>2, <2>1, NextStep
<1> HIDE DEF Counts
<1>3. Counts(1) /\ Counts(2) /\ Counts(3) /\ Counts(4)
  <2>1. Counts(0 + 1)
    BY <1>1, <1>2
  <2>2. Counts(1 + 1)
    BY <2>1, <1>2
  <2>3. Counts(2 + 1)
    BY <2>2, <1>2
  <2>4. Counts(3 + 1)
    BY <2>3, <1>2
  <2>5. QED
    BY <2>1, <2>2, <2>3, <2>4
<1>4. Counts(5) /\ Counts(6) /\ Counts(7) /\ Counts(8) /\ Counts(9)
  <2>1. Counts(4 + 1)
    BY <1>3, <1>2
  <2>2. Counts(5 + 1)
    BY <2>1, <1>2
  <2>3. Counts(6 + 1)
    BY <2>2, <1>2
  <2>4. Counts(7 + 1)
    BY <2>3, <1>2
  <2>5. Counts(8 + 1)
    BY <2>4, <1>2
  <2>6. QED
    BY <2>1, <2>2, <2>3, <2>4, <2>5
<1>5. Counts(k)
  BY <1>1, <1>3, <1>4
<1>6. QED
  BY <1>5 DEF Counts

\* A write that is due was not made yet, and brings the mint one step further.
LEMMA DueWrite ==
    ASSUME MintRuns, NEW step, Turn(step)
    PROVE  /\ call.status = "running"
           /\ WrittenBy(store, committed, call.wrote, call.params, call.token)
           /\ "wallet" \in call.wrote =>
                  call.token \notin committed.walletTokens[call.params.owner]
           /\ step \notin call.wrote
           /\ \E k \in 0 .. 9 : /\ call.wrote = StepsTo(k)
                                /\ step = MintSteps[k + 1]
                                /\ call.wrote \cup {step} = StepsTo(k + 1)
<1>1. call.status = "running"
  BY DEF Turn, Running
<1>2. PICK k \in 0 .. 9 : call.wrote = StepsTo(k)
  BY <1>1 DEF MintRuns
<1>3. step = MintSteps[k + 1]
  BY <1>2, StepCount DEF Turn
<1>4. QED
  BY <1>1, <1>2, <1>3, NextStep DEF MintRuns

LEMMA WriteDone ==
    ASSUME MintRuns, NEW step, NEW s \in Store, Write(step, s), step # "commit",
           WrittenBy(s, committed, call.wrote \cup {step}, call.params, call.token),
           step = "wallet" => call.token \notin committed.walletTokens[call.params.owner]
    PROVE  store' \in Store /\ committed' = committed /\ MintRuns'
<1>1. Turn(step) /\ store' = s /\ committed' = committed
      /\ call' = [call EXCEPT !.wrote = @ \cup {step}]
  BY DEF Write
<1>2. call' = [kind |-> "mint", status |-> "running", wrote |-> call.wrote \cup {step},
               token |-> call.token, params |-> call.params]
  BY <1>1, DueWrite DEF MintRuns
<1>3. PICK k \in 0 .. 9 : /\ call.wrote = StepsTo(k)
                          /\ step = MintSteps[k + 1]
                          /\ call.wrote \cup {step} = StepsTo(k + 1)
  BY <1>1, DueWrite
<1>4. k + 1 \in 0 .. 9
  BY <1>3 DEF MintSteps
<1>5. \E j \in 0 .. 9 : call'.wrote = StepsTo(j)
  BY <1>2, <1>3, <1>4
<1>6. "wallet" \in call.wrote => call.token \notin committed.walletTokens[call.params.owner]
  BY <1>1, DueWrite
<1>7. MintStarted(call.params)' /\ call'.token = committed'.nextTokenId
  BY <1>1, <1>2, RoyaltyChecksFixed DEF MintRuns, MintStarted
<1>8. WrittenBy(store', committed', call'.wrote, call'.params, call'.token)
  BY <1>1, <1>2
<1>9. /\ call'.kind = "mint" /\ call'.status = "running"
      /\ call' = [kind |-> "mint", status |-> call'.status, wrote |-> call'.wrote,
                  token |-> call'.token, params |-> call'.params]
  BY <1>2
<1>10. "wallet" \in call'.wrote =>
           call'.token \notin committed'.walletTokens[call'.params.owner]
  BY <1>1, <1>2, <1>6
<1>11. MintRuns'
  <2>1. call'.status = "running" \/ (call'.status = "failed" /\ "supply" \notin call'.wrote)
    BY <1>2
  <2>2. QED
    BY <1>5, <1>7, <1>8, <1>9, <1>10, <2>1 DEF MintRuns
<1>12. QED
  BY <1>1, <1>11

\* What the writes write.
LEMMA MintParamsTyped ==
    ASSUME MintRuns, StoreInv(committed)
    PROVE  /\ call.token \in TokenId /\ call.token \in Nat
           /\ call.params.owner \in Address \ {Contract} /\ call.params.owner # None
           /\ call.params.creator \in Address /\ call.params.creator # None
           /\ call.params.clip \in Clip /\ call.params.clip # None
           /\ call.params.uri \in Uri /\ call.params.uri # None
           /\ call.params.royalty \in Royalties /\ call.params.royalty # None
           /\ call.params.signature \in Signature
<1>1. committed.nextTokenId \in Nat /\ committed.nextTokenId < MaxTokens
  BY Constants, StoreIs DEF MintRuns, MintStarted, StoreInv, IdsTyped
<1>2. call.params \in MintParams
  BY DEF MintRuns, MintStarted
<1>3. call.token \in TokenId /\ call.token \in Nat
  BY <1>1, Constants DEF MintRuns, TokenId
<1>4. QED
  BY <1>2, <1>3, Constants DEF MintParams, Caller

LEMMA MintWrites ==
    ASSUME MintRuns, store \in Store, StoreInv(committed),
           \/ assign_owner \/ set_metadata \/ set_royalty \/ set_creator_with_name
           \/ add_token_to_creator \/ save_clip_id \/ mark_signature_used
    PROVE  store' \in Store /\ committed' = committed /\ MintRuns'
<1> DEFINE t == call.token
           p == call.params
           Goal == store' \in Store /\ committed' = committed /\ MintRuns'
<1>0. IsRecord(store) /\ IdsTyped(store) /\ TokensTyped(store) /\ IndicesTyped(store)
  BY StoreIs
<1>1. CASE assign_owner
  <2> PICK s : s = [store EXCEPT !.tokenOwner[t] = p.owner, !.tokenData[t] = p.owner]
    OBVIOUS
  <2>1. Write("owner", s) /\ Turn("owner")
    BY <1>1 DEF assign_owner, Write
  <2>2. IdsTyped(s) /\ TokensTyped(s) /\ IndicesTyped(s)
    BY <1>0, MintParamsTyped DEF IdsTyped, TokensTyped, IndicesTyped, IsRecord
  <2>3. WrittenBy(s, committed, call.wrote \cup {"owner"}, call.params, call.token)
    BY <1>0, <2>1, DueWrite DEF WrittenBy, IsRecord
  <2>4. IsRecord(s)
    BY <1>0 DEF IsRecord
  <2>5. QED
    BY <2>1, <2>2, <2>3, <2>4, StoreIs, WriteDone
<1>2. CASE set_metadata
  <2> PICK s : s = [store EXCEPT !.metadata[t] = p.uri, !.metadataIndex[p.uri] = t]
    OBVIOUS
  <2>1. Write("metadata", s) /\ Turn("metadata")
    BY <1>2 DEF set_metadata, Write
  <2>2. IdsTyped(s) /\ TokensTyped(s) /\ IndicesTyped(s)
    BY <1>0, MintParamsTyped DEF IdsTyped, TokensTyped, IndicesTyped, IsRecord
  <2>3. WrittenBy(s, committed, call.wrote \cup {"metadata"}, call.params, call.token)
    BY <1>0, <2>1, DueWrite DEF WrittenBy, IsRecord
  <2>4. IsRecord(s)
    BY <1>0 DEF IsRecord
  <2>5. QED
    BY <2>1, <2>2, <2>3, <2>4, StoreIs, WriteDone
<1>3. CASE set_royalty
  <2> PICK s : s = [store EXCEPT !.royalty[t] = p.royalty]
    OBVIOUS
  <2>1. Write("royalty", s) /\ Turn("royalty")
    BY <1>3 DEF set_royalty, Write
  <2>2. IdsTyped(s) /\ TokensTyped(s) /\ IndicesTyped(s)
    BY <1>0, MintParamsTyped DEF IdsTyped, TokensTyped, IndicesTyped, IsRecord
  <2>3. WrittenBy(s, committed, call.wrote \cup {"royalty"}, call.params, call.token)
    BY <1>0, <2>1, DueWrite DEF WrittenBy, IsRecord
  <2>4. IsRecord(s)
    BY <1>0 DEF IsRecord
  <2>5. QED
    BY <2>1, <2>2, <2>3, <2>4, StoreIs, WriteDone
<1>4. CASE set_creator_with_name
  <2> PICK s : s = [store EXCEPT !.creator[t] = p.creator]
    OBVIOUS
  <2>1. Write("creator", s) /\ Turn("creator")
    BY <1>4 DEF set_creator_with_name, Write
  <2>2. IdsTyped(s) /\ TokensTyped(s) /\ IndicesTyped(s)
    BY <1>0, MintParamsTyped DEF IdsTyped, TokensTyped, IndicesTyped, IsRecord
  <2>3. WrittenBy(s, committed, call.wrote \cup {"creator"}, call.params, call.token)
    BY <1>0, <2>1, DueWrite DEF WrittenBy, IsRecord
  <2>4. IsRecord(s)
    BY <1>0 DEF IsRecord
  <2>5. QED
    BY <2>1, <2>2, <2>3, <2>4, StoreIs, WriteDone
<1>5. CASE add_token_to_creator
  <2> PICK s : s = [store EXCEPT !.creatorTokens[p.creator] = @ \cup {t}]
    OBVIOUS
  <2>1. Write("portfolio", s) /\ Turn("portfolio")
    BY <1>5 DEF add_token_to_creator, Write
  <2>2. IdsTyped(s) /\ TokensTyped(s) /\ IndicesTyped(s)
    BY <1>0, MintParamsTyped DEF IdsTyped, TokensTyped, IndicesTyped, IsRecord
  <2>3. WrittenBy(s, committed, call.wrote \cup {"portfolio"}, call.params, call.token)
    BY <1>0, <2>1, DueWrite DEF WrittenBy, IsRecord
  <2>4. IsRecord(s)
    BY <1>0 DEF IsRecord
  <2>5. QED
    BY <2>1, <2>2, <2>3, <2>4, StoreIs, WriteDone
<1>6. CASE save_clip_id
  <2> PICK s : s = [store EXCEPT !.tokenClip[t] = p.clip, !.clipToken[p.clip] = t]
    OBVIOUS
  <2>1. Write("clip", s) /\ Turn("clip")
    BY <1>6 DEF save_clip_id, Write
  <2>2. IdsTyped(s) /\ TokensTyped(s) /\ IndicesTyped(s)
    BY <1>0, MintParamsTyped DEF IdsTyped, TokensTyped, IndicesTyped, IsRecord
  <2>3. WrittenBy(s, committed, call.wrote \cup {"clip"}, call.params, call.token)
    BY <1>0, <2>1, DueWrite DEF WrittenBy, IsRecord
  <2>4. IsRecord(s)
    BY <1>0 DEF IsRecord
  <2>5. QED
    BY <2>1, <2>2, <2>3, <2>4, StoreIs, WriteDone
<1>7. CASE mark_signature_used
  <2> PICK s : s = [store EXCEPT !.usedSignatures = @ \cup {p.signature}]
    OBVIOUS
  <2>1. Write("signature", s) /\ Turn("signature")
    BY <1>7 DEF mark_signature_used, Write
  <2>2. IdsTyped(s) /\ TokensTyped(s) /\ IndicesTyped(s)
    BY <1>0, MintParamsTyped DEF IdsTyped, TokensTyped, IndicesTyped, IsRecord
  <2>3. WrittenBy(s, committed, call.wrote \cup {"signature"}, call.params, call.token)
    BY <1>0, <2>1, DueWrite DEF WrittenBy, IsRecord
  <2>4. IsRecord(s)
    BY <1>0 DEF IsRecord
  <2>5. QED
    BY <2>1, <2>2, <2>3, <2>4, StoreIs, WriteDone
<1>8. QED
  BY <1>1, <1>2, <1>3, <1>4, <1>5, <1>6, <1>7

\* The two writes that can fail.
LEMMA MintFails ==
    ASSUME MintRuns, store \in Store, call.status = "running", "supply" \notin call.wrote,
           Fail, UNCHANGED store
    PROVE  store' \in Store /\ committed' = committed /\ MintRuns'
<1>1. /\ call' = [kind |-> "mint", status |-> "failed", wrote |-> call.wrote,
                  token |-> call.token, params |-> call.params]
      /\ committed' = committed /\ store' = store
  BY DEF Fail, MintRuns
<1>2. MintStarted(call.params)'
  BY <1>1, RoyaltyChecksFixed DEF MintRuns, MintStarted
<1>3. /\ \E k \in 0 .. 9 : call.wrote = StepsTo(k)
      /\ WrittenBy(store, committed, call.wrote, call.params, call.token)
      /\ "wallet" \in call.wrote =>
             call.token \notin committed.walletTokens[call.params.owner]
      /\ call.token = committed.nextTokenId
  BY DEF MintRuns
<1>4. QED
  BY <1>1, <1>2, <1>3 DEF MintRuns

LEMMA MintWritesOrFails ==
    ASSUME MintRuns, store \in Store, StoreInv(committed),
           add_token_to_wallet \/ increment_total_supply
    PROVE  store' \in Store /\ committed' = committed /\ MintRuns'
<1> DEFINE t == call.token
           p == call.params
<1>0. IsRecord(store) /\ IdsTyped(store) /\ TokensTyped(store) /\ IndicesTyped(store)
  BY StoreIs
<1>1. CASE add_token_to_wallet
  <2> PICK s : s = [store EXCEPT !.walletTokens[p.owner] = @ \cup {t}]
    OBVIOUS
  <2>1. CASE Turn("wallet") /\ Fail /\ UNCHANGED store
    <3>1. PICK k \in 0 .. 9 : call.wrote = StepsTo(k) /\ "wallet" = MintSteps[k + 1]
      BY <2>1, DueWrite
    <3>2. k = 6
      BY <3>1 DEF MintSteps
    <3>3. "supply" \notin StepsTo(6)
      BY DEF MintSteps, StepsTo
    <3>4. QED
      BY <2>1, <3>1, <3>2, <3>3, MintFails DEF Turn, Running
  <2>2. CASE t \notin store.walletTokens[p.owner] /\ Turn("wallet") /\ Write("wallet", s)
    <3>1. IdsTyped(s) /\ TokensTyped(s) /\ IndicesTyped(s)
      BY <1>0, MintParamsTyped DEF IdsTyped, TokensTyped, IndicesTyped, IsRecord
    <3>2. WrittenBy(s, committed, call.wrote \cup {"wallet"}, call.params, call.token)
      BY <1>0, <2>2, DueWrite DEF WrittenBy, IsRecord
    <3>3. IsRecord(s)
      BY <1>0 DEF IsRecord
    <3>4. t \notin committed.walletTokens[p.owner]
      BY <2>2, DueWrite DEF WrittenBy
    <3>5. QED
      BY <2>2, <3>1, <3>2, <3>3, <3>4, StoreIs, WriteDone
  <2>3. QED
    BY <1>1, <2>1, <2>2 DEF add_token_to_wallet
<1>2. CASE increment_total_supply
  <2> PICK s : s = [store EXCEPT !.totalSupply = @ + 1]
    OBVIOUS
  <2>1. CASE Turn("supply") /\ Fail /\ UNCHANGED store
    BY <2>1, MintFails, DueWrite DEF Turn, Running
  <2>2. CASE store.totalSupply < MaxSupply /\ Turn("supply") /\ Write("supply", s)
    <3>1. IdsTyped(s) /\ TokensTyped(s) /\ IndicesTyped(s)
      BY <1>0, <2>2, Constants DEF IdsTyped, TokensTyped, IndicesTyped, IsRecord
    <3>2. WrittenBy(s, committed, call.wrote \cup {"supply"}, call.params, call.token)
      BY <1>0, <2>2, DueWrite DEF WrittenBy, IsRecord
    <3>3. IsRecord(s)
      BY <1>0 DEF IsRecord
    <3>4. QED
      BY <2>2, <3>1, <3>2, <3>3, StoreIs, WriteDone
  <2>3. QED
    BY <1>2, <2>1, <2>2 DEF increment_total_supply, Write
<1>3. QED
  BY <1>1, <1>2

-----------------------------------------------------------------------------
(* The mint commits *)

\* s2 is s with p minted.
MintedBy(s2, s, p) ==
    LET t == s.nextTokenId IN
    /\ s2.tokenOwner = [s.tokenOwner EXCEPT ![t] = p.owner]
    /\ s2.tokenData = [s.tokenData EXCEPT ![t] = p.owner]
    /\ s2.metadata = [s.metadata EXCEPT ![t] = p.uri]
    /\ s2.metadataIndex = [s.metadataIndex EXCEPT ![p.uri] = t]
    /\ s2.royalty = [s.royalty EXCEPT ![t] = p.royalty]
    /\ s2.creator = [s.creator EXCEPT ![t] = p.creator]
    /\ s2.creatorTokens = [s.creatorTokens EXCEPT ![p.creator] = @ \cup {t}]
    /\ s2.tokenClip = [s.tokenClip EXCEPT ![t] = p.clip]
    /\ s2.clipToken = [s.clipToken EXCEPT ![p.clip] = t]
    /\ s2.walletTokens = [s.walletTokens EXCEPT ![p.owner] = @ \cup {t}]
    /\ s2.usedSignatures = s.usedSignatures \cup {p.signature}
    /\ s2.totalSupply = s.totalSupply + 1
    /\ s2.nextTokenId = t + 1
    /\ s2.admin = s.admin /\ s2.minters = s.minters /\ s2.blacklisted = s.blacklisted
    /\ s2.burned = s.burned /\ s2.ownerTokens = s.ownerTokens /\ s2.unsynced = s.unsynced
    /\ s2.royaltyPercentage = s.royaltyPercentage
    /\ s2.royaltyRecipient = s.royaltyRecipient

LEMMA MintCommits ==
    ASSUME MintRuns, store \in Store, StoreInv(committed), commit_token_id
    PROVE  /\ store' \in Store /\ committed' = store' /\ call' = NoCall
           /\ MintedBy(committed', committed, call.params)
           /\ MintStarted(call.params)
           /\ committed.nextTokenId \notin committed.walletTokens[call.params.owner]
<1>1. store' = [store EXCEPT !.nextTokenId = call.token + 1]
      /\ committed' = store' /\ call' = NoCall /\ Turn("commit")
  BY DEF commit_token_id, Return
<1>2. call.wrote = StepsTo(9)
  <2>1. PICK k \in 0 .. 9 : call.wrote = StepsTo(k) /\ "commit" = MintSteps[k + 1]
    BY <1>1, DueWrite
  <2>2. k = 9
    BY <2>1 DEF MintSteps
  <2>3. QED
    BY <2>1, <2>2
<1>3. \A step \in {"owner", "metadata", "royalty", "creator", "portfolio", "clip",
                   "wallet", "signature", "supply"} : step \in call.wrote
  BY <1>2 DEF StepsTo, MintSteps
<1>4. IsRecord(store) /\ IdsTyped(store) /\ TokensTyped(store) /\ IndicesTyped(store)
  BY StoreIs
<1>5. call.token = committed.nextTokenId /\ call.token + 1 \in 0 .. MaxTokens
      /\ MintStarted(call.params)
  BY MintParamsTyped, Constants DEF MintRuns, MintStarted
<1>6. store' \in Store
  <2>1. IsRecord(store')
    BY <1>1, <1>4 DEF IsRecord
  <2>2. IdsTyped(store') /\ TokensTyped(store') /\ IndicesTyped(store')
    BY <1>1, <1>4, <1>5 DEF IsRecord, IdsTyped, TokensTyped, IndicesTyped
  <2>3. QED
    BY <2>1, <2>2, StoreIs
<1>7. WrittenBy(store, committed, call.wrote, call.params, call.token)
      /\ call.token \notin committed.walletTokens[call.params.owner]
  BY <1>1, <1>3, DueWrite
<1>8. MintedBy(store', committed, call.params)
  BY <1>1, <1>3, <1>4, <1>5, <1>7 DEF WrittenBy, MintedBy, IsRecord
<1>9. QED
  BY <1>1, <1>5, <1>6, <1>7, <1>8

LEMMA MintedKeeps ==
    ASSUME NEW s, NEW s2 \in Store, NEW p \in MintParams, StoreInv(s), MintedBy(s2, s, p),
           s.admin # None, s.nextTokenId < MaxTokens, s.clipToken[p.clip] = None
    PROVE  StoreInv(s2)
<1> DEFINE t == s.nextTokenId
<1>1. /\ TokensTyped(s) /\ IndicesTyped(s) /\ IdsTyped(s)
      /\ TokensTyped(s2) /\ IndicesTyped(s2) /\ IdsTyped(s2)
  BY StoreIs DEF StoreInv
<1>2. /\ p.owner \in Address /\ p.owner # None /\ p.owner # Contract
      /\ p.creator \in Address /\ p.creator # None
      /\ p.clip \in Clip /\ p.clip # None /\ p.uri \in Uri
      /\ t \in TokenId /\ t \in Nat /\ t # None
  BY <1>1, Constants DEF MintParams, Caller, TokenId, IdsTyped
<1>3. ASSUME NEW x \in TokenId PROVE TokenInv(s2, x)
  <2>0. x \in Nat /\ x # None /\ TokenInv(s, x)
    BY Constants DEF StoreInv
  <2>1. CASE x = t
    <3>1. /\ s2.tokenOwner[x] = p.owner /\ s2.tokenData[x] = p.owner
          /\ s2.creator[x] = p.creator /\ x \in s2.creatorTokens[p.creator]
          /\ s2.tokenClip[x] = p.clip /\ s2.clipToken[p.clip] = x
      BY <1>1, <1>2, <2>1 DEF MintedBy, TokensTyped, IndicesTyped
    <3>2. x \notin s2.burned /\ s2.nextTokenId = x + 1
      BY <2>0, <2>1 DEF MintedBy, TokenInv
    <3>3. QED
      BY <1>2, <2>0, <3>1, <3>2 DEF TokenInv
  <2>2. CASE x # t
    <3>1. /\ s2.tokenOwner[x] = s.tokenOwner[x] /\ s2.tokenData[x] = s.tokenData[x]
          /\ s2.creator[x] = s.creator[x] /\ s2.tokenClip[x] = s.tokenClip[x]
          /\ s2.metadata[x] = s.metadata[x] /\ s2.royalty[x] = s.royalty[x]
          /\ s2.royaltyPercentage[x] = s.royaltyPercentage[x]
          /\ s2.royaltyRecipient[x] = s.royaltyRecipient[x]
          /\ s2.burned = s.burned /\ s2.unsynced = s.unsynced
          /\ s2.nextTokenId = t + 1
      BY <1>1, <1>2, <2>2 DEF MintedBy, TokensTyped
    <3>2. Blank(s, x) => Blank(s2, x)
      BY <1>1, <1>2, <2>2, <3>1 DEF MintedBy, Blank, IndicesTyped
    <3>3. \A c \in Clip : s.clipToken[c] = x => s2.clipToken[c] = x
      BY <1>1, <1>2, <2>0 DEF MintedBy, IndicesTyped
    <3>4. \A a \in Address : x \in s.creatorTokens[a] => x \in s2.creatorTokens[a]
      BY <1>1, <1>2 DEF MintedBy, IndicesTyped
    <3>5. s.tokenClip[x] # None => s.tokenClip[x] \in Clip
      BY <1>1 DEF TokensTyped
    <3>6. QED
      BY <1>2, <2>0, <2>2, <3>1, <3>2, <3>3, <3>4, <3>5 DEF TokenInv
  <2>3. QED
    BY <2>1, <2>2
<1>4. ASSUME NEW u \in Uri PROVE UriInv(s2, u)
  <2>1. UriInv(s, u)
    BY DEF StoreInv
  <2>2. s.metadataIndex[u] = t => t \in s.unsynced
    <3>1. TokenInv(s, t)
      BY <1>2 DEF StoreInv
    <3>2. s.tokenData[t] # None => t \in s.unsynced
      BY <1>2, <3>1 DEF TokenInv
    <3>3. s.tokenData[t] = None => s.metadataIndex[u] # t
      BY <1>2, <3>1 DEF TokenInv, Blank
    <3>4. QED
      BY <3>2, <3>3
  <2>3. CASE u = p.uri
    <3>1. s2.metadataIndex[u] = t /\ s2.metadata[t] = u
      BY <1>1, <1>2, <2>3 DEF MintedBy, IndicesTyped, TokensTyped
    <3>2. QED
      BY <3>1 DEF UriInv
  <2>4. CASE u # p.uri
    <3>1. s2.metadataIndex[u] = s.metadataIndex[u] /\ s2.unsynced = s.unsynced
      BY <1>1, <1>2, <2>4 DEF MintedBy, IndicesTyped
    <3>2. \A x \in TokenId : x # t => s2.metadata[x] = s.metadata[x]
      BY <1>1 DEF MintedBy, TokensTyped
    <3>3. s.metadataIndex[u] \in TokenId \cup {None}
      BY <1>1 DEF IndicesTyped
    <3>4. QED
      BY <2>1, <2>2, <3>1, <3>2, <3>3 DEF UriInv
  <2>5. QED
    BY <2>3, <2>4
<1>5. CountInv(s2)
  <2>1. ClipsIn(s2) = ClipsIn(s) \cup {p.clip} /\ p.clip \notin ClipsIn(s)
    BY <1>1, <1>2 DEF MintedBy, ClipsIn, IndicesTyped
  <2>2. CountInv(s) /\ s.totalSupply \in Nat
    BY <1>1, Constants DEF StoreInv, IdsTyped
  <2>3. IsFiniteSet(ClipsIn(s2)) /\ Cardinality(ClipsIn(s2)) = Cardinality(ClipsIn(s)) + 1
    <3>1. IsFiniteSet(ClipsIn(s))
      BY <2>2 DEF CountInv
    <3>2. /\ IsFiniteSet(ClipsIn(s) \cup {p.clip})
          /\ Cardinality(ClipsIn(s) \cup {p.clip}) = Cardinality(ClipsIn(s)) + 1
      BY <2>1, <3>1, FS_AddElement
    <3>3. QED
      BY <2>1, <3>2
  <2>4. QED
    BY <2>2, <2>3, ZenonT(60) DEF CountInv, MintedBy
<1>6. s2.admin # None
  BY DEF MintedBy
<1>7. QED
  BY <1>3, <1>4, <1>5, <1>6 DEF StoreInv

-----------------------------------------------------------------------------
(* The calls that are one step *)

\* s2 differs from s in the access lists only.
SameTokens(s2, s) ==
    /\ s2.tokenOwner = s.tokenOwner /\ s2.tokenData = s.tokenData /\ s2.burned = s.burned
    /\ s2.metadata = s.metadata /\ s2.metadataIndex = s.metadataIndex
    /\ s2.royalty = s.royalty /\ s2.royaltyPercentage = s.royaltyPercentage
    /\ s2.royaltyRecipient = s.royaltyRecipient
    /\ s2.creator = s.creator /\ s2.creatorTokens = s.creatorTokens
    /\ s2.tokenClip = s.tokenClip /\ s2.clipToken = s.clipToken
    /\ s2.ownerTokens = s.ownerTokens /\ s2.walletTokens = s.walletTokens
    /\ s2.nextTokenId = s.nextTokenId /\ s2.totalSupply = s.totalSupply
    /\ s2.unsynced = s.unsynced /\ s2.usedSignatures = s.usedSignatures

LEMMA AccessKeeps ==
    ASSUME NEW s, NEW s2 \in Store, StoreInv(s), SameTokens(s2, s), s2.admin # None
    PROVE  StoreInv(s2)
<1>1. ASSUME NEW t \in TokenId PROVE TokenInv(s2, t)
  <2>1. TokenInv(s, t)
    BY DEF StoreInv
  <2>2. Blank(s, t) => Blank(s2, t)
    BY DEF Blank, SameTokens
  <2>3. QED
    BY <2>1, <2>2 DEF TokenInv, SameTokens
<1>2. ASSUME NEW u \in Uri PROVE UriInv(s2, u)
  BY DEF StoreInv, UriInv, SameTokens
<1>3. CountInv(s2)
  BY DEF StoreInv, CountInv, ClipsIn, SameTokens
<1>4. QED
  BY <1>1, <1>2, <1>3 DEF StoreInv

LEMMA CreatorKeeps ==
    ASSUME NEW s, StoreInv(s), NEW t \in TokenId, NEW who \in Address,
           s.tokenData[t] # None, NEW s2, s2 = [s EXCEPT !.creator[t] = who]
    PROVE  StoreInv(s2)
<1>1. IsRecord(s) /\ IdsTyped(s) /\ TokensTyped(s) /\ IndicesTyped(s)
  BY StoreIs DEF StoreInv
<1>2. /\ s2 = [s EXCEPT !.creator = s2.creator]
      /\ s2.creator = [s.creator EXCEPT ![t] = who]
  BY <1>1 DEF IsRecord
<1>3. s2 \in Store
  <2>1. IsRecord(s2)
    BY <1>1 DEF IsRecord
  <2>2. IdsTyped(s2) /\ TokensTyped(s2) /\ IndicesTyped(s2)
    BY <1>1, Constants DEF IsRecord, IdsTyped, TokensTyped, IndicesTyped
  <2>3. QED
    BY <2>1, <2>2, StoreIs
<1>4. ASSUME NEW x \in TokenId PROVE TokenInv(s2, x)
  <2>1. TokenInv(s, x)
    BY DEF StoreInv
  <2>2. x # t => s2.creator[x] = s.creator[x]
    BY <1>1, <1>2 DEF TokensTyped
  <2>3. s2.creator[t] = who /\ who # None
    BY <1>1, <1>2, Constants DEF TokensTyped
  <2>4. s.creator[x] # None => s2.creator[x] # None
    BY <2>2, <2>3
  <2>5. s2.creator[x] # None => s.creator[x] # None
    BY <2>1, <2>2 DEF TokenInv
  <2>6. x # t /\ Blank(s, x) => Blank(s2, x)
    BY <1>1, <2>2 DEF Blank, IsRecord
  <2>7. x # t => (Blank(s, x) => Blank(s2, x))
    BY <2>6
  <2> HIDE DEF Blank
  <2>8. QED
    BY <1>1, <2>1, <2>4, <2>5, <2>7 DEF TokenInv, IsRecord
<1>5. ASSUME NEW u \in Uri PROVE UriInv(s2, u)
  BY <1>1 DEF StoreInv, UriInv, IsRecord
<1>6. CountInv(s2)
  BY <1>1 DEF StoreInv, CountInv, ClipsIn, IsRecord
<1>7. s2.admin = None => s2.nextTokenId = 0
  BY <1>1 DEF StoreInv, IsRecord
<1>8. QED
  BY <1>3, <1>4, <1>5, <1>6, <1>7 DEF StoreInv

\* s2 is s with t burned.
BurnedBy(s2, s, t) ==
    LET o == s.tokenOwner[t] IN
    /\ s2.ownerTokens = [s.ownerTokens EXCEPT ![o] = @ \ {t}]
    /\ s2.walletTokens = [s.walletTokens EXCEPT ![o] = @ \ {t}]
    /\ s2.tokenOwner = [s.tokenOwner EXCEPT ![t] = None]
    /\ s2.tokenData = [s.tokenData EXCEPT ![t] = None]
    /\ s2.royalty = [s.royalty EXCEPT ![t] = None]
    /\ s2.metadataIndex = [s.metadataIndex EXCEPT ![s.metadata[t]] = None]
    /\ s2.metadata = [s.metadata EXCEPT ![t] = None]
    /\ s2.burned = s.burned \cup {t}
    /\ s2.admin = s.admin /\ s2.minters = s.minters /\ s2.blacklisted = s.blacklisted
    /\ s2.nextTokenId = s.nextTokenId /\ s2.totalSupply = s.totalSupply
    /\ s2.creator = s.creator /\ s2.creatorTokens = s.creatorTokens
    /\ s2.tokenClip = s.tokenClip /\ s2.clipToken = s.clipToken
    /\ s2.royaltyPercentage = s.royaltyPercentage
    /\ s2.royaltyRecipient = s.royaltyRecipient
    /\ s2.unsynced = s.unsynced /\ s2.usedSignatures = s.usedSignatures

LEMMA BurnIs ==
    ASSUME NEW s \in Store, NEW t, NEW s2,
           s2 = [s EXCEPT
               !.ownerTokens[s.tokenOwner[t]] = @ \ {t},
               !.walletTokens[s.tokenOwner[t]] = @ \ {t},
               !.tokenOwner[t] = None, !.tokenData[t] = None, !.royalty[t] = None,
               !.metadataIndex[s.metadata[t]] = None, !.metadata[t] = None,
               !.burned = @ \cup {t}]
    PROVE  IsRecord(s2) /\ BurnedBy(s2, s, t)
<1>1. IsRecord(s)
  BY StoreIs
<1>2. IsRecord(s2)
  BY <1>1 DEF IsRecord
<1>3. BurnedBy(s2, s, t)
  BY <1>1 DEF IsRecord, BurnedBy
<1>4. QED
  BY <1>2, <1>3

LEMMA BurnKeeps ==
    ASSUME NEW s, StoreInv(s), NEW t \in TokenId,
           s.tokenData[t] # None, s.tokenOwner[t] # None,
           NEW s2, IsRecord(s2), BurnedBy(s2, s, t)
    PROVE  StoreInv(s2)
<1> DEFINE o == s.tokenOwner[t]
           old == s.metadata[t]
<1>1. IdsTyped(s) /\ TokensTyped(s) /\ IndicesTyped(s)
  BY StoreIs DEF StoreInv
<1>2. /\ o \in Address /\ old \in Uri \cup {None} /\ t # None
  BY <1>1, Constants DEF TokensTyped
<1>4. s2 \in Store
  <2>2. IdsTyped(s2)
    BY <1>1 DEF IdsTyped, BurnedBy
  <2>3. TokensTyped(s2)
    BY <1>1 DEF TokensTyped, BurnedBy
  <2>4. IndicesTyped(s2)
    <3>1. /\ s2.ownerTokens \in [Address -> SUBSET TokenId]
          /\ s2.walletTokens \in [Address -> SUBSET TokenId]
      BY <1>1, <1>2 DEF IndicesTyped, BurnedBy
    <3>2. s2.metadataIndex \in [Uri -> TokenId \cup {None}]
      BY <1>1, ZenonT(60) DEF IndicesTyped, BurnedBy
    <3>3. QED
      BY <1>1, <3>1, <3>2 DEF IndicesTyped, BurnedBy
  <2>5. QED
    BY <2>2, <2>3, <2>4, StoreIs
<1>5. ASSUME NEW x \in TokenId PROVE TokenInv(s2, x)
  <2>1. TokenInv(s, x)
    BY DEF StoreInv
  <2>2. CASE x = t
    <3>1. s2.tokenOwner[x] = None /\ s2.tokenData[x] = None /\ x \in s2.burned
      BY <1>1, <2>2 DEF BurnedBy, TokensTyped
    <3>2. x < s2.nextTokenId /\ s2.creator[x] = s.creator[x] /\ s.creator[x] # None
      BY <1>1, <2>1, <2>2, Constants DEF BurnedBy, TokenInv, IdsTyped
    <3>3. QED
      BY <2>1, <3>1, <3>2, Constants DEF BurnedBy, TokenInv
  <2>3. CASE x # t
    <3>1. /\ s2.tokenOwner[x] = s.tokenOwner[x] /\ s2.tokenData[x] = s.tokenData[x]
          /\ s2.metadata[x] = s.metadata[x] /\ s2.royalty[x] = s.royalty[x]
          /\ x \in s2.burned <=> x \in s.burned
      BY <1>1, <2>3 DEF BurnedBy, TokensTyped
    <3>2. \A u \in Uri : s2.metadataIndex[u] \in {s.metadataIndex[u], None}
      BY <1>1 DEF BurnedBy, IndicesTyped
    <3>3. \A a \in Address : /\ s2.ownerTokens[a] \subseteq s.ownerTokens[a]
                             /\ s2.walletTokens[a] \subseteq s.walletTokens[a]
      BY <1>1 DEF BurnedBy, IndicesTyped
    <3>4. Blank(s, x) => Blank(s2, x)
      BY <3>1, <3>2, <3>3, Constants DEF BurnedBy, Blank
    <3>5. QED
      BY <2>1, <3>1, <3>4 DEF BurnedBy, TokenInv
  <2>4. QED
    BY <2>2, <2>3
<1>6. ASSUME NEW u \in Uri PROVE UriInv(s2, u)
  <2>1. UriInv(s, u)
    BY DEF StoreInv
  <2>2. s2.metadataIndex[u] = IF u = old THEN None ELSE s.metadataIndex[u]
    BY <1>1 DEF BurnedBy, IndicesTyped
  <2>3. \A x \in TokenId : x # t => s2.metadata[x] = s.metadata[x]
    BY <1>1 DEF BurnedBy, TokensTyped
  <2>4. s.metadataIndex[u] \in TokenId \cup {None}
    BY <1>1 DEF IndicesTyped
  <2>5. QED
    BY <2>1, <2>2, <2>3, <2>4 DEF BurnedBy, UriInv
<1>7. CountInv(s2) /\ (s2.admin = None => s2.nextTokenId = 0)
  BY DEF BurnedBy, StoreInv, CountInv, ClipsIn
<1>8. QED
  BY <1>4, <1>5, <1>6, <1>7 DEF StoreInv

-----------------------------------------------------------------------------
(* The beginning and the rollback of the atomic mint *)

LEMMA MintBegins ==
    ASSUME StoreInv(committed), store = committed, call = NoCall,
           NEW p \in MintParams, begin_mint(p)
    PROVE  store' \in Store /\ committed' = committed /\ MintRuns'
<1>1. /\ store' = store /\ committed' = committed
      /\ call' = [kind |-> "mint", status |-> "running", wrote |-> {},
                  token |-> committed.nextTokenId, params |-> p]
  BY DEF begin_mint, Begin
<1>2. MintStarted(p)
  BY DEF begin_mint, MintStarted, require_mint_auth, ensure_signature_unused
<1>3. MintStarted(call.params)'
  BY <1>1, <1>2, RoyaltyChecksFixed DEF MintStarted
<1>4. call'.wrote = StepsTo(0)
  BY <1>1 DEF StepsTo
<1>5. WrittenBy(store', committed', call'.wrote, call'.params, call'.token)
  BY <1>1 DEF WrittenBy
<1>6. store' \in Store
  BY <1>1 DEF StoreInv
<1>7. MintRuns'
  BY <1>1, <1>3, <1>4, <1>5 DEF MintRuns
<1>8. QED
  BY <1>1, <1>6, <1>7

\* What undoing the writes `wrote` of p makes of s.
UndoneFrom(s2, s, wrote, p, t) ==
    /\ s2.usedSignatures =
           IF "signature" \in wrote THEN s.usedSignatures \ {p.signature} ELSE s.usedSignatures
    /\ s2.walletTokens =
           IF "wallet" \in wrote THEN [s.walletTokens EXCEPT ![p.owner] = @ \ {t}]
           ELSE s.walletTokens
    /\ s2.creatorTokens =
           IF "portfolio" \in wrote THEN [s.creatorTokens EXCEPT ![p.creator] = @ \ {t}]
           ELSE s.creatorTokens
    /\ s2.creator = IF "creator" \in wrote THEN [s.creator EXCEPT ![t] = None] ELSE s.creator
    /\ s2.tokenClip =
           IF "clip" \in wrote THEN [s.tokenClip EXCEPT ![t] = None] ELSE s.tokenClip
    /\ s2.clipToken =
           IF "clip" \in wrote THEN [s.clipToken EXCEPT ![p.clip] = None] ELSE s.clipToken
    /\ s2.royalty = IF "royalty" \in wrote THEN [s.royalty EXCEPT ![t] = None] ELSE s.royalty
    /\ s2.metadata =
           IF "metadata" \in wrote THEN [s.metadata EXCEPT ![t] = None] ELSE s.metadata
    /\ s2.tokenOwner =
           IF "owner" \in wrote THEN [s.tokenOwner EXCEPT ![t] = None] ELSE s.tokenOwner
    /\ s2.tokenData =
           IF "owner" \in wrote THEN [s.tokenData EXCEPT ![t] = None] ELSE s.tokenData
    /\ s2.admin = s.admin /\ s2.minters = s.minters /\ s2.blacklisted = s.blacklisted
    /\ s2.nextTokenId = s.nextTokenId /\ s2.totalSupply = s.totalSupply
    /\ s2.burned = s.burned /\ s2.ownerTokens = s.ownerTokens /\ s2.unsynced = s.unsynced
    /\ s2.metadataIndex = s.metadataIndex
    /\ s2.royaltyPercentage = s.royaltyPercentage
    /\ s2.royaltyRecipient = s.royaltyRecipient

LEMMA UndoIs ==
    ASSUME NEW S, NEW T, NEW f \in [S -> T], NEW x, NEW y, NEW c \in BOOLEAN
    PROVE  [f EXCEPT ![x] = IF c THEN y ELSE f[x]] =
           IF c THEN [f EXCEPT ![x] = y] ELSE f
OBVIOUS

LEMMA RevertIs ==
    ASSUME store \in Store, NEW s2, s2 = revert
    PROVE  IsRecord(s2) /\ UndoneFrom(s2, store, call.wrote, call.params, call.token)
<1> DEFINE t == call.token
           p == call.params
<1>1. IsRecord(store) /\ TokensTyped(store) /\ IndicesTyped(store)
  BY StoreIs
<1>2. IsRecord(s2)
  BY <1>1 DEF IsRecord, revert
<1>3. /\ s2.usedSignatures = IF "signature" \in call.wrote
                              THEN store.usedSignatures \ {p.signature}
                              ELSE store.usedSignatures
      /\ s2.walletTokens = [store.walletTokens EXCEPT ![p.owner] =
                     IF "wallet" \in call.wrote THEN @ \ {t} ELSE @]
      /\ s2.creatorTokens = [store.creatorTokens EXCEPT ![p.creator] =
                     IF "portfolio" \in call.wrote THEN @ \ {t} ELSE @]
      /\ s2.creator = [store.creator EXCEPT ![t] =
                     IF "creator" \in call.wrote THEN None ELSE @]
      /\ s2.tokenClip = [store.tokenClip EXCEPT ![t] =
                     IF "clip" \in call.wrote THEN None ELSE @]
      /\ s2.clipToken = [store.clipToken EXCEPT ![p.clip] =
                     IF "clip" \in call.wrote THEN None ELSE @]
      /\ s2.royalty = [store.royalty EXCEPT ![t] =
                     IF "royalty" \in call.wrote THEN None ELSE @]
      /\ s2.metadata = [store.metadata EXCEPT ![t] =
                     IF "metadata" \in call.wrote THEN None ELSE @]
      /\ s2.tokenOwner = [store.tokenOwner EXCEPT ![t] =
                     IF "owner" \in call.wrote THEN None ELSE @]
      /\ s2.tokenData = [store.tokenData EXCEPT ![t] =
                     IF "owner" \in call.wrote THEN None ELSE @]
  BY <1>1 DEF IsRecord, revert, Undo
<1>4. /\ s2.admin = store.admin /\ s2.minters = store.minters
      /\ s2.blacklisted = store.blacklisted
      /\ s2.nextTokenId = store.nextTokenId /\ s2.totalSupply = store.totalSupply
      /\ s2.burned = store.burned /\ s2.ownerTokens = store.ownerTokens
      /\ s2.unsynced = store.unsynced /\ s2.metadataIndex = store.metadataIndex
      /\ s2.royaltyPercentage = store.royaltyPercentage
      /\ s2.royaltyRecipient = store.royaltyRecipient
  BY <1>1 DEF IsRecord, revert
<1>5. s2.usedSignatures =
          IF "signature" \in call.wrote THEN store.usedSignatures \ {p.signature}
          ELSE store.usedSignatures
  BY <1>3
<1>10. s2.walletTokens =
          IF "wallet" \in call.wrote THEN [store.walletTokens EXCEPT ![p.owner] = @ \ {t}] ELSE store.walletTokens
  <2>1. store.walletTokens \in [Address -> SUBSET TokenId]
    BY <1>1 DEF IndicesTyped
  <2>2. QED
    BY <1>3, <2>1, UndoIs
<1>11. s2.creatorTokens =
          IF "portfolio" \in call.wrote THEN [store.creatorTokens EXCEPT ![p.creator] = @ \ {t}] ELSE store.creatorTokens
  <2>1. store.creatorTokens \in [Address -> SUBSET TokenId]
    BY <1>1 DEF IndicesTyped
  <2>2. QED
    BY <1>3, <2>1, UndoIs
<1>12. s2.creator =
          IF "creator" \in call.wrote THEN [store.creator EXCEPT ![t] = None] ELSE store.creator
  <2>1. store.creator \in [TokenId -> Address \cup {None}]
    BY <1>1 DEF TokensTyped
  <2>2. QED
    BY <1>3, <2>1, UndoIs
<1>13. s2.tokenClip =
          IF "clip" \in call.wrote THEN [store.tokenClip EXCEPT ![t] = None] ELSE store.tokenClip
  <2>1. store.tokenClip \in [TokenId -> Clip \cup {None}]
    BY <1>1 DEF TokensTyped
  <2>2. QED
    BY <1>3, <2>1, UndoIs
<1>14. s2.clipToken =
          IF "clip" \in call.wrote THEN [store.clipToken EXCEPT ![p.clip] = None] ELSE store.clipToken
  <2>1. store.clipToken \in [Clip -> TokenId \cup {None}]
    BY <1>1 DEF IndicesTyped
  <2>2. QED
    BY <1>3, <2>1, UndoIs
<1>15. s2.royalty =
          IF "royalty" \in call.wrote THEN [store.royalty EXCEPT ![t] = None] ELSE store.royalty
  <2>1. store.royalty \in [TokenId -> Royalties \cup {None}]
    BY <1>1 DEF TokensTyped
  <2>2. QED
    BY <1>3, <2>1, UndoIs
<1>16. s2.metadata =
          IF "metadata" \in call.wrote THEN [store.metadata EXCEPT ![t] = None] ELSE store.metadata
  <2>1. store.metadata \in [TokenId -> Uri \cup {None}]
    BY <1>1 DEF TokensTyped
  <2>2. QED
    BY <1>3, <2>1, UndoIs
<1>17. s2.tokenOwner =
          IF "owner" \in call.wrote THEN [store.tokenOwner EXCEPT ![t] = None] ELSE store.tokenOwner
  <2>1. store.tokenOwner \in [TokenId -> Address \cup {None}]
    BY <1>1 DEF TokensTyped
  <2>2. QED
    BY <1>3, <2>1, UndoIs
<1>18. s2.tokenData =
          IF "owner" \in call.wrote THEN [store.tokenData EXCEPT ![t] = None] ELSE store.tokenData
  <2>1. store.tokenData \in [TokenId -> Address \cup {None}]
    BY <1>1 DEF TokensTyped
  <2>2. QED
    BY <1>3, <2>1, UndoIs
<1>20. QED
  BY <1>2, <1>4, <1>5, <1>10, <1>11, <1>12, <1>13, <1>14, <1>15, <1>16, <1>17, <1>18 DEF UndoneFrom

\* Undoing what was written gives what was there.
LEMMA KeyUndone ==
    ASSUME NEW S, NEW T, NEW f \in [S -> T], NEW x, NEW old, x \in S => f[x] = old,
           NEW v, NEW wrote, NEW step, NEW g, NEW h,
           g = IF step \in wrote THEN [f EXCEPT ![x] = v] ELSE f,
           h = IF step \in wrote THEN [g EXCEPT ![x] = old] ELSE g
    PROVE  h = f
OBVIOUS

LEMMA ListUndone ==
    ASSUME NEW f \in [Address -> SUBSET TokenId], NEW x \in Address, NEW t, t \notin f[x]
    PROVE  [[f EXCEPT ![x] = @ \cup {t}] EXCEPT ![x] = @ \ {t}] = f
<1> DEFINE g == [f EXCEPT ![x] = @ \cup {t}]
           h == [g EXCEPT ![x] = @ \ {t}]
<1>1. g \in [Address -> SUBSET (TokenId \cup {t})] /\ h = [g EXCEPT ![x] = g[x] \ {t}]
  OBVIOUS
<1>2. \A y \in Address : h[y] = f[y]
  BY <1>1
<1>3. QED
  BY <1>1, <1>2

LEMMA UndoneTyped ==
    ASSUME NEW s \in Store, NEW s2, NEW wrote, NEW p, NEW t, IsRecord(s2),
           UndoneFrom(s2, s, wrote, p, t)
    PROVE  s2 \in Store
<1>1. IdsTyped(s) /\ TokensTyped(s) /\ IndicesTyped(s)
  BY StoreIs
<1>2. IdsTyped(s2)
  BY <1>1 DEF IdsTyped, UndoneFrom
<1>3. TokensTyped(s2)
  <2>1. s2.tokenOwner \in [TokenId -> Address \cup {None}]
    <3>1. s.tokenOwner \in [TokenId -> Address \cup {None}]
      BY <1>1 DEF TokensTyped
    <3>2. s2.tokenOwner = IF "owner" \in wrote THEN [s.tokenOwner EXCEPT ![t] = None] ELSE s.tokenOwner
      BY DEF UndoneFrom
    <3>3. QED
      BY <3>1, <3>2
  <2>2. s2.tokenData \in [TokenId -> Address \cup {None}]
    <3>1. s.tokenData \in [TokenId -> Address \cup {None}]
      BY <1>1 DEF TokensTyped
    <3>2. s2.tokenData = IF "owner" \in wrote THEN [s.tokenData EXCEPT ![t] = None] ELSE s.tokenData
      BY DEF UndoneFrom
    <3>3. QED
      BY <3>1, <3>2
  <2>3. s2.metadata \in [TokenId -> Uri \cup {None}]
    <3>1. s.metadata \in [TokenId -> Uri \cup {None}]
      BY <1>1 DEF TokensTyped
    <3>2. s2.metadata = IF "metadata" \in wrote THEN [s.metadata EXCEPT ![t] = None] ELSE s.metadata
      BY DEF UndoneFrom
    <3>3. QED
      BY <3>1, <3>2
  <2>4. s2.royalty \in [TokenId -> Royalties \cup {None}]
    <3>1. s.royalty \in [TokenId -> Royalties \cup {None}]
      BY <1>1 DEF TokensTyped
    <3>2. s2.royalty = IF "royalty" \in wrote THEN [s.royalty EXCEPT ![t] = None] ELSE s.royalty
      BY DEF UndoneFrom
    <3>3. QED
      BY <3>1, <3>2
  <2>5. s2.creator \in [TokenId -> Address \cup {None}]
    <3>1. s.creator \in [TokenId -> Address \cup {None}]
      BY <1>1 DEF TokensTyped
    <3>2. s2.creator = IF "creator" \in wrote THEN [s.creator EXCEPT ![t] = None] ELSE s.creator
      BY DEF UndoneFrom
    <3>3. QED
      BY <3>1, <3>2
  <2>6. s2.tokenClip \in [TokenId -> Clip \cup {None}]
    <3>1. s.tokenClip \in [TokenId -> Clip \cup {None}]
      BY <1>1 DEF TokensTyped
    <3>2. s2.tokenClip = IF "clip" \in wrote THEN [s.tokenClip EXCEPT ![t] = None] ELSE s.tokenClip
      BY DEF UndoneFrom
    <3>3. QED
      BY <3>1, <3>2
  <2>7. s2.royaltyPercentage = s.royaltyPercentage /\ s2.royaltyRecipient = s.royaltyRecipient
    BY DEF UndoneFrom
  <2>8. QED
    BY <1>1, <2>1, <2>2, <2>3, <2>4, <2>5, <2>6, <2>7 DEF TokensTyped
<1>4. IndicesTyped(s2)
  <2>1. s2.walletTokens \in [Address -> SUBSET TokenId]
    <3>1. s.walletTokens \in [Address -> SUBSET TokenId]
      BY <1>1 DEF IndicesTyped
    <3>2. s2.walletTokens = IF "wallet" \in wrote THEN [s.walletTokens EXCEPT ![p.owner] = @ \ {t}] ELSE s.walletTokens
      BY DEF UndoneFrom
    <3>3. QED
      BY <3>1, <3>2
  <2>2. s2.creatorTokens \in [Address -> SUBSET TokenId]
    <3>1. s.creatorTokens \in [Address -> SUBSET TokenId]
      BY <1>1 DEF IndicesTyped
    <3>2. s2.creatorTokens = IF "portfolio" \in wrote THEN [s.creatorTokens EXCEPT ![p.creator] = @ \ {t}] ELSE s.creatorTokens
      BY DEF UndoneFrom
    <3>3. QED
      BY <3>1, <3>2
  <2>3. s2.clipToken \in [Clip -> TokenId \cup {None}]
    BY <1>1, ZenonT(60) DEF IndicesTyped, UndoneFrom
  <2>4. s2.ownerTokens = s.ownerTokens /\ s2.metadataIndex = s.metadataIndex
    BY DEF UndoneFrom
  <2>5. QED
    BY <1>1, <2>1, <2>2, <2>3, <2>4 DEF IndicesTyped
<1>5. QED
  BY <1>2, <1>3, <1>4, StoreIs

LEMMA MintReverts ==
    ASSUME MintRuns, store \in Store, StoreInv(committed), RevertMint
    PROVE  store' \in Store /\ committed' = committed /\ MintRuns'
<1> DEFINE t == call.token
           p == call.params
<1>1. /\ store' = revert /\ committed' = committed
      /\ call' = [kind |-> "mint", status |-> "reverted", wrote |-> call.wrote,
                  token |-> call.token, params |-> call.params]
      /\ call.status = "failed"
  BY DEF RevertMint, MintRuns
<1>2. IsRecord(store') /\ UndoneFrom(store', store, call.wrote, p, t)
  BY <1>1, RevertIs
<1>0. call.status = "failed"
  BY DEF RevertMint
<1>3. /\ WrittenBy(store, committed, call.wrote, p, t)
      /\ "supply" \notin call.wrote
      /\ "wallet" \in call.wrote => t \notin committed.walletTokens[p.owner]
      /\ t = committed.nextTokenId
      /\ MintStarted(p)
  BY <1>0 DEF MintRuns
<1>5. store' \in Store
  BY <1>2, UndoneTyped
<1>6. ASSUME committed.tokenData[t] = None
      PROVE  store' = [committed EXCEPT !.metadataIndex = store'.metadataIndex]
  <2>1. Blank(committed, t)
    BY <1>3, <1>6, MintParamsTyped DEF StoreInv, TokenInv
  <2>2. IsRecord(committed) /\ TokensTyped(committed) /\ IndicesTyped(committed)
    BY StoreIs DEF StoreInv
  <2>3. store'.usedSignatures = committed.usedSignatures
    BY <1>2, <1>3 DEF UndoneFrom, WrittenBy, MintStarted
  <2>4. store'.walletTokens = committed.walletTokens
    <3>1. committed.walletTokens \in [Address -> SUBSET TokenId] /\ p.owner \in Address
      BY <2>2, MintParamsTyped DEF IndicesTyped
    <3>2. /\ store.walletTokens = IF "wallet" \in call.wrote
                                  THEN [committed.walletTokens EXCEPT ![p.owner] = @ \cup {t}]
                                  ELSE committed.walletTokens
          /\ store'.walletTokens = IF "wallet" \in call.wrote
                                   THEN [store.walletTokens EXCEPT ![p.owner] = @ \ {t}]
                                   ELSE store.walletTokens
      BY <1>2, <1>3 DEF UndoneFrom, WrittenBy
    <3>3. CASE "wallet" \in call.wrote
      BY <1>3, <3>1, <3>2, <3>3, ListUndone
    <3>4. QED
      BY <3>2, <3>3
  <2>5. store'.creatorTokens = committed.creatorTokens
    <3>1. committed.creatorTokens \in [Address -> SUBSET TokenId] /\ p.creator \in Address
      BY <2>2, MintParamsTyped DEF IndicesTyped
    <3>2. /\ store.creatorTokens = IF "portfolio" \in call.wrote
                                  THEN [committed.creatorTokens EXCEPT ![p.creator] = @ \cup {t}]
                                  ELSE committed.creatorTokens
          /\ store'.creatorTokens = IF "portfolio" \in call.wrote
                                   THEN [store.creatorTokens EXCEPT ![p.creator] = @ \ {t}]
                                   ELSE store.creatorTokens
      BY <1>2, <1>3 DEF UndoneFrom, WrittenBy
    <3>3. t \notin committed.creatorTokens[p.creator]
      BY <2>1, <3>1 DEF Blank
    <3>4. CASE "portfolio" \in call.wrote
      BY <3>1, <3>2, <3>3, <3>4, ListUndone
    <3>5. QED
      BY <3>2, <3>4
  <2>6. store'.clipToken = committed.clipToken
    <3>1. committed.clipToken \in [Clip -> TokenId \cup {None}]
          /\ committed.clipToken[p.clip] = None
      BY <1>3, <2>2 DEF IndicesTyped, MintStarted
    <3>2. /\ store.clipToken = IF "clip" \in call.wrote
                               THEN [committed.clipToken EXCEPT ![p.clip] = t]
                               ELSE committed.clipToken
          /\ store'.clipToken = IF "clip" \in call.wrote
                                THEN [store.clipToken EXCEPT ![p.clip] = None]
                                ELSE store.clipToken
      BY <1>2, <1>3 DEF UndoneFrom, WrittenBy
    <3>3. QED
      BY <3>1, <3>2, KeyUndone
  <2>7. /\ committed.tokenOwner[t] = None /\ committed.tokenData[t] = None
        /\ committed.metadata[t] = None /\ committed.royalty[t] = None
        /\ committed.creator[t] = None /\ committed.tokenClip[t] = None
    BY <1>6, <2>1 DEF Blank
  <2>20. store'.creator = committed.creator
    <3>1. /\ store.creator = IF "creator" \in call.wrote
                THEN [committed.creator EXCEPT ![t] = p.creator] ELSE committed.creator
          /\ store'.creator = IF "creator" \in call.wrote
                THEN [store.creator EXCEPT ![t] = None] ELSE store.creator
      BY <1>2, <1>3 DEF UndoneFrom, WrittenBy
    <3>2. \E T : committed.creator \in [TokenId -> T]
      BY <2>2 DEF TokensTyped
    <3>3. QED
      BY <2>7, <3>1, <3>2, KeyUndone
  <2>21. store'.tokenClip = committed.tokenClip
    <3>1. /\ store.tokenClip = IF "clip" \in call.wrote
                THEN [committed.tokenClip EXCEPT ![t] = p.clip] ELSE committed.tokenClip
          /\ store'.tokenClip = IF "clip" \in call.wrote
                THEN [store.tokenClip EXCEPT ![t] = None] ELSE store.tokenClip
      BY <1>2, <1>3 DEF UndoneFrom, WrittenBy
    <3>2. \E T : committed.tokenClip \in [TokenId -> T]
      BY <2>2 DEF TokensTyped
    <3>3. QED
      BY <2>7, <3>1, <3>2, KeyUndone
  <2>22. store'.royalty = committed.royalty
    <3>1. /\ store.royalty = IF "royalty" \in call.wrote
                THEN [committed.royalty EXCEPT ![t] = p.royalty] ELSE committed.royalty
          /\ store'.royalty = IF "royalty" \in call.wrote
                THEN [store.royalty EXCEPT ![t] = None] ELSE store.royalty
      BY <1>2, <1>3 DEF UndoneFrom, WrittenBy
    <3>2. \E T : committed.royalty \in [TokenId -> T]
      BY <2>2 DEF TokensTyped
    <3>3. QED
      BY <2>7, <3>1, <3>2, KeyUndone
  <2>23. store'.metadata = committed.metadata
    <3>1. /\ store.metadata = IF "metadata" \in call.wrote
                THEN [committed.metadata EXCEPT ![t] = p.uri] ELSE committed.metadata
          /\ store'.metadata = IF "metadata" \in call.wrote
                THEN [store.metadata EXCEPT ![t] = None] ELSE store.metadata
      BY <1>2, <1>3 DEF UndoneFrom, WrittenBy
    <3>2. \E T : committed.metadata \in [TokenId -> T]
      BY <2>2 DEF TokensTyped
    <3>3. QED
      BY <2>7, <3>1, <3>2, KeyUndone
  <2>24. store'.tokenOwner = committed.tokenOwner
    <3>1. /\ store.tokenOwner = IF "owner" \in call.wrote
                THEN [committed.tokenOwner EXCEPT ![t] = p.owner] ELSE committed.tokenOwner
          /\ store'.tokenOwner = IF "owner" \in call.wrote
                THEN [store.tokenOwner EXCEPT ![t] = None] ELSE store.tokenOwner
      BY <1>2, <1>3 DEF UndoneFrom, WrittenBy
    <3>2. \E T : committed.tokenOwner \in [TokenId -> T]
      BY <2>2 DEF TokensTyped
    <3>3. QED
      BY <2>7, <3>1, <3>2, KeyUndone
  <2>25. store'.tokenData = committed.tokenData
    <3>1. /\ store.tokenData = IF "owner" \in call.wrote
                THEN [committed.tokenData EXCEPT ![t] = p.owner] ELSE committed.tokenData
          /\ store'.tokenData = IF "owner" \in call.wrote
                THEN [store.tokenData EXCEPT ![t] = None] ELSE store.tokenData
      BY <1>2, <1>3 DEF UndoneFrom, WrittenBy
    <3>2. \E T : committed.tokenData \in [TokenId -> T]
      BY <2>2 DEF TokensTyped
    <3>3. QED
      BY <2>7, <3>1, <3>2, KeyUndone
  <2>9. /\ store'.admin = committed.admin /\ store'.minters = committed.minters
        /\ store'.blacklisted = committed.blacklisted
        /\ store'.nextTokenId = committed.nextTokenId
        /\ store'.totalSupply = committed.totalSupply
        /\ store'.burned = committed.burned /\ store'.ownerTokens = committed.ownerTokens
        /\ store'.unsynced = committed.unsynced
        /\ store'.royaltyPercentage = committed.royaltyPercentage
        /\ store'.royaltyRecipient = committed.royaltyRecipient
    BY <1>2, <1>3 DEF UndoneFrom, WrittenBy
  <2>10. QED
    BY <1>2, <2>2, <2>3, <2>4, <2>5, <2>6, <2>9, <2>20, <2>21, <2>22, <2>23, <2>24, <2>25
       DEF IsRecord
<1>7. MintStarted(call.params)'
  BY <1>1, <1>3, RoyaltyChecksFixed DEF MintStarted
<1>8. MintRuns'
  BY <1>1, <1>3, <1>6, <1>7 DEF MintRuns
<1>9. QED
  BY <1>1, <1>5, <1>8

-----------------------------------------------------------------------------
(* What a batch writes *)

LEMMA ChecksRoyalty ==
    ASSUME NEW r \in Royalties, Terms!validate_royalty(r)
    PROVE  /\ Terms!TotalBps(r) \in 0 .. MAX_ROYALTY_BPS
           /\ r.recipients[1].who \in Address
<1> DEFINE D == 1 .. Len(r.recipients)
           bps == [i \in D |-> r.recipients[i].bps]
<1>1. r \in [recipients : Seq([who : Address, bps : Nat]), asset : Asset \cup {NoAsset}]
  BY RoyaltiesAssumption DEF Terms!RoyaltyType
<1>2. r.recipients \in Seq([who : Address, bps : Nat])
  BY <1>1
<1>3. PICK n \in Nat : r.recipients \in [1 .. n -> [who : Address, bps : Nat]] /\ Len(r.recipients) = n
  <2> DEFINE R == [who : Address, bps : Nat]
  <2>1. r.recipients \in Seq(R)
    BY <1>2
  <2> HIDE DEF R
  <2>2. r.recipients \in [1 .. Len(r.recipients) -> R] /\ Len(r.recipients) \in Nat
    BY <2>1
  <2>3. QED
    BY <2>2 DEF R
<1>4. \A i \in 1 .. n : r.recipients[i].bps \in Nat /\ r.recipients[i].who \in Address
  BY <1>3
<1>5. D = 1 .. n /\ IsFiniteSet(D) /\ DOMAIN r.recipients = D
  BY <1>3, FS_Interval
<1>6. bps \in [D -> Nat] /\ \A i \in D : r.recipients[i].bps \in Int
  BY <1>4, <1>5
<1>7. Terms!TotalBps(r) = FoldFunction(LAMBDA p, sum : p.bps + sum, 0, r.recipients)
  BY DEF Terms!TotalBps, Terms!FoldFunction, Terms!FoldFunctionOnSet, Terms!MapThenFoldSet,
         FoldFunction, FoldFunctionOnSet, MapThenFoldSet
<1>8. Terms!TotalBps(r) \in Nat
  <2> HIDE DEF D
  <2>1. FoldFunction(LAMBDA p, sum : p.bps + sum, 0, r.recipients) = SumOf(bps)
    BY <1>5, <1>6, SumOfShares
  <2> HIDE DEF bps
  <2>2. SumOf(bps) \in Nat
    BY <1>5, <1>6, SumOfNats
  <2>3. QED
    BY <1>7, <2>1, <2>2
<1>9. Terms!TotalBps(r) <= MAX_ROYALTY_BPS /\ r.recipients # << >>
  BY DEF Terms!validate_royalty
<1>10. r.recipients[1].who \in Address
  <2>1. n # 0
    BY <1>3, <1>9
  <2>2. QED
    BY <1>3, <1>4, <2>1
<1>11. QED
  BY <1>8, <1>9, <1>10, Constants

\* A request as the batch takes it.
ItemTyped(r) ==
    /\ r.owner \in Address /\ r.creator \in Address
    /\ r.owner # None /\ r.creator # None
    /\ r.uri \in Uri /\ r.uri # None
    /\ r.clip \in Clip /\ r.clip # None
    /\ r.royalty \in Royalties /\ r.royalty # None
    /\ Terms!TotalBps(r.royalty) \in 0 .. MAX_ROYALTY_BPS
    /\ r.royalty.recipients[1].who \in Address

LEMMA BatchItemsTyped ==
    ASSUME NEW c, NEW requests, BatchStarted(c, requests)
    PROVE  /\ Len(requests) \in 1 .. MaxBatchMint /\ Len(requests) \in Nat
           /\ requests \in [1 .. Len(requests) -> BatchItems]
           /\ DOMAIN requests = 1 .. Len(requests)
           /\ \A i \in 1 .. Len(requests) : ItemTyped(requests[i])
<1>1. PICK n \in 1 .. MaxBatchMint : requests \in [1 .. n -> BatchItems]
  BY DEF BatchStarted
<1>2. n \in Nat /\ requests \in Seq(BatchItems) /\ Len(requests) = n
  BY <1>1, Constants
<1>3. ASSUME NEW i \in 1 .. n
      PROVE  /\ requests[i] \in MintRequest
             /\ Terms!validate_royalty(requests[i].royalty)
  BY <1>1, <1>3, BatchAssumption DEF BatchStarted
<1>4. ASSUME NEW i \in 1 .. n
      PROVE  /\ requests[i].owner \in Address /\ requests[i].creator \in Address
             /\ requests[i].uri \in Uri /\ requests[i].clip \in Clip
             /\ requests[i].royalty \in Royalties
  BY <1>3, <1>4 DEF MintRequest
<1>5. ASSUME NEW i \in 1 .. n
      PROVE  /\ Terms!TotalBps(requests[i].royalty) \in 0 .. MAX_ROYALTY_BPS
             /\ requests[i].royalty.recipients[1].who \in Address
  BY <1>3, <1>4, ChecksRoyalty
<1>6. QED
  BY <1>1, <1>2, <1>4, <1>5, Constants DEF ItemTyped

LEMMA FlushTyped ==
    ASSUME NEW index \in [Address -> SUBSET TokenId], NEW cache \in Cache \cup {None}, NEW who
    PROVE  Flushed(index, cache, who) \in [Address -> SUBSET TokenId]
BY DEF Flushed, Cache

\* Writing back the cache of another account and extending this one's comes to
\* adding the token to what the cache and the index list together.
LEMMA CacheStep ==
    ASSUME NEW index \in [Address -> SUBSET TokenId], NEW cache \in Cache \cup {None},
           NEW who \in Address, NEW t \in TokenId
    PROVE  /\ Cached(index, cache, who, t) \in Cache
           /\ Flushed(Flushed(index, cache, who), Cached(index, cache, who, t), None) =
              [Flushed(index, cache, None) EXCEPT ![who] = @ \cup {t}]
<1> DEFINE old == IF cache # None /\ cache.who = who THEN cache.tokens ELSE index[who]
<1>1. Cached(index, cache, who, t) = [who |-> who, tokens |-> {t} \cup old]
  BY DEF Cached
<1>2. old \in SUBSET TokenId
  BY DEF Cache
<1>3. Cached(index, cache, who, t) \in Cache
  BY <1>1, <1>2 DEF Cache
<1>4. /\ Cached(index, cache, who, t) # None
      /\ Cached(index, cache, who, t).who = who /\ who # None
      /\ Cached(index, cache, who, t).tokens = {t} \cup old
  BY <1>1, <1>3, Constants
<1>5. Flushed(Flushed(index, cache, who), Cached(index, cache, who, t), None) =
      [Flushed(index, cache, who) EXCEPT ![who] = {t} \cup old]
  BY <1>4 DEF Flushed
<1>6. CASE cache = None
  <2>1. Flushed(index, cache, None) = index /\ Flushed(index, cache, who) = index
    BY <1>6 DEF Flushed
  <2>2. old = index[who] /\ {t} \cup index[who] = index[who] \cup {t}
    BY <1>6
  <2> HIDE DEF old
  <2>3. QED
    BY <1>3, <1>5, <2>1, <2>2
<1>7. CASE cache # None /\ cache.who = who
  <2>1. Flushed(index, cache, None) = [index EXCEPT ![who] = cache.tokens]
        /\ Flushed(index, cache, who) = index
    BY <1>4, <1>7 DEF Flushed
  <2>2. [[index EXCEPT ![who] = cache.tokens] EXCEPT ![who] = @ \cup {t}] =
        [index EXCEPT ![who] = {t} \cup cache.tokens]
    OBVIOUS
  <2>3. old = cache.tokens
    BY <1>7
  <2> HIDE DEF old
  <2>4. QED
    BY <1>3, <1>5, <2>1, <2>2, <2>3
<1>8. CASE cache # None /\ cache.who # who
  <2>1. cache.who \in Address /\ cache.who # None
    BY <1>8, Constants DEF Cache
  <2>2. Flushed(index, cache, None) = [index EXCEPT ![cache.who] = cache.tokens]
        /\ Flushed(index, cache, who) = [index EXCEPT ![cache.who] = cache.tokens]
    BY <1>8, <2>1 DEF Flushed
  <2>3. [index EXCEPT ![cache.who] = cache.tokens][who] = index[who]
    BY <1>8, <2>1
  <2>4. old = index[who] /\ {t} \cup index[who] = index[who] \cup {t}
    BY <1>8
  <2> HIDE DEF old
  <2>5. QED
    BY <1>3, <1>5, <2>2, <2>3, <2>4
<1>9. QED
  BY <1>3, <1>6, <1>7, <1>8

\* The index with one more token for `who`.
Extended(index, who, t) == [index EXCEPT ![who] = @ \cup {t}]

LEMMA IndexStep ==
    ASSUME NEW index, NEW cache, NEW old, NEW new, NEW who, NEW t, NEW next,
           index \in [Address -> SUBSET TokenId], new \in [Address -> SUBSET TokenId],
           Indexed(index, cache, old, new), who \in Address, t \in TokenId,
           next = Extended(new, who, t)
    PROVE  /\ Indexed(Flushed(index, cache, who), Cached(index, cache, who, t), old, next)
           /\ \A a \in Address : /\ old[a] \subseteq Flushed(index, cache, who)[a]
                                 /\ Flushed(index, cache, who)[a] \subseteq new[a]
<1>1. cache \in Cache \cup {None} /\ Flushed(index, cache, None) = new
      /\ \A a \in Address : old[a] \subseteq index[a] /\ index[a] \subseteq new[a]
  BY DEF Indexed
<1>2. Flushed(index, cache, who) \in {index, new}
  <2>1. CASE cache = None
    BY <2>1 DEF Flushed
  <2>2. CASE cache # None
    <3>1. cache.who # None
      BY <1>1, <2>2, Constants DEF Cache
    <3>2. QED
      BY <1>1, <2>2, <3>1 DEF Flushed
  <2>3. QED
    BY <2>1, <2>2
<1>3. \A a \in Address : /\ old[a] \subseteq Flushed(index, cache, who)[a]
                         /\ Flushed(index, cache, who)[a] \subseteq new[a]
  BY <1>1, <1>2
<1>4. \A a \in Address : new[a] \subseteq next[a]
  BY DEF Extended
<1>5. Flushed(Flushed(index, cache, who), Cached(index, cache, who, t), None) = next
  BY <1>1, CacheStep DEF Extended
<1>6. Cached(index, cache, who, t) \in Cache
  BY <1>1, CacheStep
<1>7. QED
  BY <1>3, <1>4, <1>5, <1>6 DEF Indexed

LEMMA ListedTyped ==
    ASSUME NEW index \in [Address -> SUBSET TokenId], NEW c, NEW requests, NEW n, NEW party,
           Ids(c, n) \subseteq TokenId
    PROVE  /\ Listed(index, c, requests, n, party) \in [Address -> SUBSET TokenId]
           /\ \A a \in Address : Listed(index, c, requests, n, party)[a] =
                                 index[a] \cup IdsFor(c, requests, n, party, a)
BY DEF Listed, IdsFor

LEMMA ListedNone ==
    ASSUME NEW index \in [Address -> SUBSET TokenId], NEW c, NEW requests, NEW party,
           c.nextTokenId \in Nat
    PROVE  Listed(index, c, requests, 0, party) = index
<1>1. \A a \in Address : IdsFor(c, requests, 0, party, a) = {}
  BY DEF IdsFor, Ids
<1>2. QED
  BY <1>1 DEF Listed

LEMMA NextId ==
    ASSUME NEW c, c.nextTokenId \in Nat, NEW n \in Nat
    PROVE  /\ Ids(c, n + 1) = Ids(c, n) \cup {c.nextTokenId + n + 1}
           /\ c.nextTokenId + n + 1 \notin Ids(c, n)
<1> DEFINE k == c.nextTokenId
<1>1. k + 1 .. k + (n + 1) = (k + 1 .. k + n) \cup {k + n + 1}
      /\ k + n + 1 \notin k + 1 .. k + n
  <2> HIDE DEF k
  <2>1. k \in Nat
    BY DEF k
  <2>2. QED
    BY <2>1
<1>2. QED
  BY <1>1 DEF Ids

LEMMA ListedStep ==
    ASSUME NEW index \in [Address -> SUBSET TokenId], NEW c, c.nextTokenId \in Nat,
           NEW requests, NEW n \in Nat, NEW party
    PROVE  Listed(index, c, requests, n + 1, party) =
           Extended(Listed(index, c, requests, n, party), requests[n + 1][party],
                    c.nextTokenId + n + 1)
<1> DEFINE t == c.nextTokenId + n + 1
<1>1. t - c.nextTokenId = n + 1
  OBVIOUS
<1>2. ASSUME NEW a
      PROVE  IdsFor(c, requests, n + 1, party, a) =
             IF a = requests[n + 1][party] THEN IdsFor(c, requests, n, party, a) \cup {t}
             ELSE IdsFor(c, requests, n, party, a)
  BY <1>1, NextId DEF IdsFor
<1>3. QED
  BY <1>2 DEF Listed, Extended

-----------------------------------------------------------------------------
\* s2 is s with the records of request r for token t, and with the indices the
\* caches of earlier items were of.
ItemWritten(s2, s, r, t, wallet, portfolio) ==
    /\ s2.nextTokenId = t
    /\ s2.tokenData = [s.tokenData EXCEPT ![t] = r.owner]
    /\ s2.metadata = [s.metadata EXCEPT ![t] = r.uri]
    /\ s2.metadataIndex = [s.metadataIndex EXCEPT ![r.uri] = t]
    /\ s2.royalty = [s.royalty EXCEPT ![t] = r.royalty]
    /\ s2.royaltyPercentage = [s.royaltyPercentage EXCEPT ![t] = Terms!TotalBps(r.royalty)]
    /\ s2.royaltyRecipient =
           [s.royaltyRecipient EXCEPT ![t] = r.royalty.recipients[1].who]
    /\ s2.creator = [s.creator EXCEPT ![t] = r.creator]
    /\ s2.tokenClip = [s.tokenClip EXCEPT ![t] = r.clip]
    /\ s2.clipToken = [s.clipToken EXCEPT ![r.clip] = t]
    /\ s2.walletTokens = Flushed(s.walletTokens, wallet, r.owner)
    /\ s2.creatorTokens = Flushed(s.creatorTokens, portfolio, r.creator)
    /\ s2.ownerTokens = [s.ownerTokens EXCEPT ![r.owner] = @ \cup {t}]
    /\ s2.unsynced = s.unsynced \cup {t}
    /\ BatchUntouched(s2, s)

LEMMA ItemIs ==
    ASSUME store \in Store, NEW s2, s2 = ItemWrites
    PROVE  /\ IsRecord(s2) /\ s2.totalSupply = store.totalSupply
           /\ ItemWritten(s2, store, Item, ItemToken, call.wallet, call.portfolio)
<1>1. IsRecord(store)
  BY StoreIs
<1>2. IsRecord(s2) /\ s2.totalSupply = store.totalSupply
  BY <1>1, ZenonT(60) DEF IsRecord, ItemWrites
<1>3. ItemWritten(s2, store, Item, ItemToken, call.wallet, call.portfolio)
  BY <1>1 DEF IsRecord, ItemWrites, ItemWritten, BatchUntouched
<1>4. QED
  BY <1>2, <1>3

LEMMA CountedItemIs ==
    ASSUME store \in Store, NEW s2, s2 = [ItemWrites EXCEPT !.totalSupply = @ + 1]
    PROVE  /\ IsRecord(s2) /\ s2.totalSupply = store.totalSupply + 1
           /\ ItemWritten(s2, store, Item, ItemToken, call.wallet, call.portfolio)
<1> PICK s : s = ItemWrites
  OBVIOUS
<1>1. /\ IsRecord(s) /\ s.totalSupply = store.totalSupply
      /\ ItemWritten(s, store, Item, ItemToken, call.wallet, call.portfolio)
  BY ItemIs
<1>2. s2 = [s EXCEPT !.totalSupply = @ + 1]
  OBVIOUS
<1>3. IsRecord(s2) /\ s2.totalSupply = store.totalSupply + 1
  BY <1>1, <1>2 DEF IsRecord
<1>4. ItemWritten(s2, store, Item, ItemToken, call.wallet, call.portfolio)
  BY <1>1, <1>2 DEF IsRecord, ItemWritten, BatchUntouched
<1>5. QED
  BY <1>3, <1>4

LEMMA ItemKeepsTypes ==
    ASSUME NEW s \in Store, NEW s2, IsRecord(s2), NEW r, ItemTyped(r), NEW t \in TokenId,
           NEW wallet \in Cache \cup {None}, NEW portfolio \in Cache \cup {None},
           ItemWritten(s2, s, r, t, wallet, portfolio), s2.totalSupply \in 0 .. MaxSupply
    PROVE  s2 \in Store
<1>1. IdsTyped(s) /\ TokensTyped(s) /\ IndicesTyped(s)
  BY StoreIs
<1>2. IdsTyped(s2)
  BY <1>1, Constants DEF IdsTyped, ItemWritten, BatchUntouched, TokenId
<1>3. TokensTyped(s2)
  BY <1>1 DEF TokensTyped, ItemWritten, BatchUntouched, ItemTyped
<1>4. IndicesTyped(s2)
  <2>1. /\ s2.walletTokens \in [Address -> SUBSET TokenId]
        /\ s2.creatorTokens \in [Address -> SUBSET TokenId]
    <3>1. /\ s.walletTokens \in [Address -> SUBSET TokenId]
          /\ s.creatorTokens \in [Address -> SUBSET TokenId]
      BY <1>1 DEF IndicesTyped
    <3>2. /\ s2.walletTokens = Flushed(s.walletTokens, wallet, r.owner)
          /\ s2.creatorTokens = Flushed(s.creatorTokens, portfolio, r.creator)
      BY DEF ItemWritten
    <3>3. QED
      BY <3>1, <3>2, FlushTyped
  <2>2. s2.ownerTokens \in [Address -> SUBSET TokenId]
    <3>1. s.ownerTokens \in [Address -> SUBSET TokenId]
      BY <1>1 DEF IndicesTyped
    <3>2. s2.ownerTokens = [s.ownerTokens EXCEPT ![r.owner] = @ \cup {t}]
      BY DEF ItemWritten
    <3>3. QED
      BY <3>1, <3>2, ZenonT(60)
  <2>3. /\ s2.metadataIndex \in [Uri -> TokenId \cup {None}]
        /\ s2.clipToken \in [Clip -> TokenId \cup {None}]
    <3>1. /\ s.metadataIndex \in [Uri -> TokenId \cup {None}]
          /\ s.clipToken \in [Clip -> TokenId \cup {None}]
      BY <1>1 DEF IndicesTyped
    <3>2. /\ s2.metadataIndex = [s.metadataIndex EXCEPT ![r.uri] = t]
          /\ s2.clipToken = [s.clipToken EXCEPT ![r.clip] = t]
      BY DEF ItemWritten
    <3>3. QED
      BY <3>1, <3>2, ZenonT(60)
  <2>4. QED
    BY <2>1, <2>2, <2>3 DEF IndicesTyped
<1>5. QED
  BY <1>2, <1>3, <1>4, StoreIs

-----------------------------------------------------------------------------
(* One more item *)

LEMMA ItemRecords ==
    ASSUME NEW s \in Store, NEW s2, NEW r, NEW t \in TokenId, NEW wallet, NEW portfolio,
           ItemWritten(s2, s, r, t, wallet, portfolio)
    PROVE  HasItem(s2, t, r) /\ \A x \in TokenId \ {t} : SameItem(s2, x, s)
<1>1. TokensTyped(s)
  BY StoreIs
<1>2. HasItem(s2, t, r)
  BY <1>1 DEF TokensTyped, ItemWritten, HasItem
<1>3. ASSUME NEW x \in TokenId \ {t} PROVE SameItem(s2, x, s)
  BY <1>1 DEF TokensTyped, ItemWritten, SameItem
<1>4. QED
  BY <1>2, <1>3

LEMMA ItemsStep ==
    ASSUME NEW c, c.nextTokenId \in Nat, NEW requests, NEW n \in Nat,
           NEW s \in Store, NEW t \in TokenId, t = c.nextTokenId + n + 1,
           ItemsDone(s, c, requests, n, {}), NEW wallet, NEW portfolio,
           NEW s2, ItemWritten(s2, s, requests[n + 1], t, wallet, portfolio)
    PROVE  ItemsDone(s2, c, requests, n, {t}) /\ ItemsDone(s2, c, requests, n + 1, {})
<1>1. HasItem(s2, t, requests[n + 1]) /\ t - c.nextTokenId = n + 1
  BY ItemRecords
<1>2. ASSUME NEW x \in TokenId \ {t}
      PROVE  IF x \in Ids(c, n) THEN HasItem(s2, x, requests[x - c.nextTokenId])
             ELSE SameItem(s2, x, c)
  <2>1. SameItem(s2, x, s)
    BY ItemRecords
  <2>2. IF x \in Ids(c, n) THEN HasItem(s, x, requests[x - c.nextTokenId])
        ELSE SameItem(s, x, c)
    BY DEF ItemsDone
  <2>3. CASE x \in Ids(c, n)
    BY <2>1, <2>2, <2>3 DEF HasItem, SameItem
  <2>4. CASE x \notin Ids(c, n)
    BY <2>1, <2>2, <2>4 DEF SameItem
  <2>5. QED
    BY <2>3, <2>4
<1>3. Ids(c, n + 1) = Ids(c, n) \cup {t}
  BY NextId
<1>4. ItemsDone(s2, c, requests, n, {t})
  BY <1>2 DEF ItemsDone
<1>5. ItemsDone(s2, c, requests, n + 1, {})
  BY <1>1, <1>2, <1>3 DEF ItemsDone
<1>6. QED
  BY <1>4, <1>5

\* The clip of the next item has no token yet.
LEMMA ItemClipFree ==
    ASSUME NEW c, NEW requests, BatchStarted(c, requests), NEW n \in Nat,
           n < Len(requests), NEW s, BatchAt(s, c, requests, n)
    PROVE  /\ s.clipToken[requests[n + 1].clip] = None
           /\ \A i \in 1 .. n : requests[i].clip # requests[n + 1].clip
<1>1. n + 1 \in DOMAIN requests /\ 1 .. n \subseteq DOMAIN requests
      /\ requests[n + 1].clip \in Clip
  <2>1. n + 1 \in 1 .. Len(requests) /\ 1 .. n \subseteq 1 .. Len(requests)
    BY BatchItemsTyped
  <2>2. QED
    BY <2>1, BatchItemsTyped DEF ItemTyped
<1>2. \A i \in 1 .. n : requests[i].clip # requests[n + 1].clip
  BY <1>1 DEF BatchStarted, distinct_clips
<1>3. c.clipToken[requests[n + 1].clip] = None
  BY <1>1 DEF BatchStarted
<1>4. QED
  BY <1>1, <1>2, <1>3 DEF BatchAt

LEMMA ItemMinted ==
    ASSUME NEW c, StoreInv(c), NEW requests, BatchStarted(c, requests),
           NEW n \in Nat, n < Len(requests),
           NEW t \in TokenId, t = c.nextTokenId + n + 1,
           NEW s \in Store, BatchAt(s, c, requests, n),
           NEW wallet, NEW portfolio,
           NEW s2, ItemWritten(s2, s, requests[n + 1], t, wallet, portfolio),
           s2.totalSupply = s.totalSupply + 1
    PROVE  BatchAt(s2, c, requests, n + 1)
<1> DEFINE r == requests[n + 1]
<1>1. /\ IdsTyped(s) /\ TokensTyped(s) /\ IndicesTyped(s)
      /\ IdsTyped(c) /\ TokensTyped(c) /\ IndicesTyped(c)
      /\ c.nextTokenId \in Nat /\ s.totalSupply \in Nat
  <2>1. IdsTyped(s) /\ TokensTyped(s) /\ IndicesTyped(s)
    BY StoreIs
  <2>2. IdsTyped(c) /\ TokensTyped(c) /\ IndicesTyped(c)
    BY StoreIs DEF StoreInv
  <2>3. c.nextTokenId \in Nat /\ s.totalSupply \in Nat
    BY <2>1, <2>2, Constants DEF IdsTyped
  <2>4. QED
    BY <2>1, <2>2, <2>3
<1>2. r.owner \in Address /\ r.clip \in Clip /\ t # None
  <2>1. n + 1 \in 1 .. Len(requests)
    BY BatchItemsTyped
  <2>2. QED
    BY <2>1, BatchItemsTyped, Constants DEF ItemTyped
<1>3. Ids(c, n + 1) = Ids(c, n) \cup {t}
  BY <1>1, NextId
<1>4. ItemsDone(s2, c, requests, n + 1, {})
  BY <1>1, ItemsStep DEF BatchAt
<1>5. s2.nextTokenId = c.nextTokenId + (n + 1)
  <2>1. s2.nextTokenId = t
    BY DEF ItemWritten
  <2>2. QED
    BY <1>1, <2>1
<1>6. s2.unsynced = c.unsynced \cup Ids(c, n + 1)
  BY <1>3 DEF ItemWritten, BatchAt
<1>7. s2.ownerTokens = Listed(c.ownerTokens, c, requests, n + 1, "owner")
  <2>1. s2.ownerTokens = [Listed(c.ownerTokens, c, requests, n, "owner") EXCEPT
                             ![r.owner] = @ \cup {t}]
    BY DEF ItemWritten, BatchAt
  <2>2. c.ownerTokens \in [Address -> SUBSET TokenId]
    BY <1>1 DEF IndicesTyped
  <2>3. QED
    <3>1. Listed(c.ownerTokens, c, requests, n + 1, "owner") =
          Extended(Listed(c.ownerTokens, c, requests, n, "owner"),
                   requests[n + 1]["owner"], t)
      BY <1>1, <2>2, ListedStep
    <3>2. QED
      BY <2>1, <3>1 DEF Extended
<1>8. \A u \in Uri : \/ s2.metadataIndex[u] \in Ids(c, n + 1)
                     \/ s2.metadataIndex[u] = c.metadataIndex[u]
  <2>1. \A u \in Uri : s2.metadataIndex[u] \in {s.metadataIndex[u], t}
    BY <1>1 DEF ItemWritten, IndicesTyped
  <2>2. QED
    BY <1>3, <2>1 DEF BatchAt
<1>9. /\ s2.clipToken[r.clip] = t
      /\ \A x \in Clip : x # r.clip => s2.clipToken[x] = s.clipToken[x]
  BY <1>1, <1>2 DEF ItemWritten, IndicesTyped
<1>10. ASSUME NEW i \in 1 .. n + 1 PROVE s2.clipToken[requests[i].clip] = c.nextTokenId + i
  <2>1. CASE i = n + 1
    <3>1. c.nextTokenId + i = t /\ requests[i] = r
      BY <1>1, <2>1
    <3>2. QED
      BY <1>9, <3>1
  <2>2. CASE i \in 1 .. n
    <3>1. s.clipToken[requests[i].clip] = c.nextTokenId + i /\ requests[i].clip # r.clip
      BY <2>2, ItemClipFree DEF BatchAt
    <3>2. requests[i].clip \in Clip
      <4>1. i \in 1 .. Len(requests)
        BY BatchItemsTyped
      <4>2. QED
        BY <4>1, BatchItemsTyped DEF ItemTyped
    <3>3. QED
      BY <1>9, <3>1, <3>2
  <2>3. QED
    BY <2>1, <2>2
<1>11. ASSUME NEW x \in Clip, \A i \in 1 .. n + 1 : requests[i].clip # x
       PROVE  s2.clipToken[x] = c.clipToken[x]
  <2>1. x # r.clip /\ \A i \in 1 .. n : requests[i].clip # x
    BY <1>11
  <2>2. QED
    BY <1>9, <2>1 DEF BatchAt
<1>12. CountInv(s2)
  <2>1. r.clip \notin ClipsIn(s) /\ ClipsIn(s2) = ClipsIn(s) \cup {r.clip}
    BY <1>2, <1>9, ItemClipFree DEF ClipsIn
  <2>2. IsFiniteSet(ClipsIn(s)) /\ s.totalSupply = Cardinality(ClipsIn(s))
        /\ s.totalSupply = s.nextTokenId /\ s.nextTokenId = c.nextTokenId + n
    BY DEF BatchAt, CountInv
  <2>3. IsFiniteSet(ClipsIn(s) \cup {r.clip})
        /\ Cardinality(ClipsIn(s) \cup {r.clip}) = Cardinality(ClipsIn(s)) + 1
    BY <2>1, <2>2, FS_AddElement
  <2>4. s2.nextTokenId = t
    BY DEF ItemWritten
  <2>5. QED
    BY <1>1, <2>1, <2>2, <2>3, <2>4 DEF CountInv
<1>13. QED
  BY <1>4, <1>5, <1>6, <1>7, <1>8, <1>10, <1>11, <1>12 DEF BatchAt

LEMMA ItemIndexed ==
    ASSUME NEW c, StoreInv(c), NEW requests, BatchStarted(c, requests),
           NEW n \in Nat, n < Len(requests),
           NEW t \in TokenId, t = c.nextTokenId + n + 1,
           NEW s \in Store, NEW wallet, NEW portfolio,
           BatchIndexed(s, c, requests, n, wallet, portfolio),
           NEW s2, ItemWritten(s2, s, requests[n + 1], t, wallet, portfolio)
    PROVE  /\ BatchIndexed(s2, c, requests, n + 1,
                           Cached(s.walletTokens, wallet, requests[n + 1].owner, t),
                           Cached(s.creatorTokens, portfolio, requests[n + 1].creator, t))
           /\ \A a \in Address :
                  /\ c.walletTokens[a] \subseteq s2.walletTokens[a]
                  /\ s2.walletTokens[a] \subseteq Listed(c.walletTokens, c, requests, n, "owner")[a]
                  /\ c.creatorTokens[a] \subseteq s2.creatorTokens[a]
                  /\ s2.creatorTokens[a]
                         \subseteq Listed(c.creatorTokens, c, requests, n, "creator")[a]
<1> DEFINE r == requests[n + 1]
           wallets == Listed(c.walletTokens, c, requests, n, "owner")
           portfolios == Listed(c.creatorTokens, c, requests, n, "creator")
<1>1. IndicesTyped(s) /\ IndicesTyped(c) /\ c.nextTokenId \in Nat
  BY StoreIs, Constants DEF StoreInv, IdsTyped
<1>2. r.owner \in Address /\ r.creator \in Address
  <2>1. n + 1 \in 1 .. Len(requests)
    BY BatchItemsTyped
  <2>2. QED
    BY <2>1, BatchItemsTyped DEF ItemTyped
<1>3. Ids(c, n) \subseteq TokenId
  BY <1>1, Constants DEF Ids, TokenId
<1>4. /\ c.walletTokens \in [Address -> SUBSET TokenId]
      /\ c.creatorTokens \in [Address -> SUBSET TokenId]
      /\ s.walletTokens \in [Address -> SUBSET TokenId]
      /\ s.creatorTokens \in [Address -> SUBSET TokenId]
  BY <1>1 DEF IndicesTyped
<1>5. wallets \in [Address -> SUBSET TokenId] /\ portfolios \in [Address -> SUBSET TokenId]
  BY <1>3, <1>4, ListedTyped
<1>6. /\ Listed(c.walletTokens, c, requests, n + 1, "owner") =
             Extended(wallets, r.owner, t)
      /\ Listed(c.creatorTokens, c, requests, n + 1, "creator") =
             Extended(portfolios, r.creator, t)
  <2>1. Listed(c.walletTokens, c, requests, n + 1, "owner") =
        Extended(wallets, requests[n + 1]["owner"], t)
    <3>1. PICK index \in [Address -> SUBSET TokenId] : index = c.walletTokens
      BY <1>4
    <3>2. c.nextTokenId \in Nat
      BY <1>1
    <3>3. Listed(index, c, requests, n + 1, "owner") =
          Extended(Listed(index, c, requests, n, "owner"), requests[n + 1]["owner"],
                   c.nextTokenId + n + 1)
      BY <3>2, ListedStep
    <3>4. QED
      BY <3>1, <3>3
  <2>2. Listed(c.creatorTokens, c, requests, n + 1, "creator") =
        Extended(portfolios, requests[n + 1]["creator"], t)
    <3>1. PICK index \in [Address -> SUBSET TokenId] : index = c.creatorTokens
      BY <1>4
    <3>2. c.nextTokenId \in Nat
      BY <1>1
    <3>3. Listed(index, c, requests, n + 1, "creator") =
          Extended(Listed(index, c, requests, n, "creator"), requests[n + 1]["creator"],
                   c.nextTokenId + n + 1)
      BY <3>2, ListedStep
    <3>4. QED
      BY <3>1, <3>3
  <2>3. QED
    BY <2>1, <2>2
<1>7. /\ s2.walletTokens = Flushed(s.walletTokens, wallet, r.owner)
      /\ s2.creatorTokens = Flushed(s.creatorTokens, portfolio, r.creator)
  BY DEF ItemWritten
<1>8. /\ Indexed(s.walletTokens, wallet, c.walletTokens, wallets)
      /\ Indexed(s.creatorTokens, portfolio, c.creatorTokens, portfolios)
  BY DEF BatchIndexed
<1> HIDE DEF wallets, portfolios
<1>9. /\ Indexed(s2.walletTokens, Cached(s.walletTokens, wallet, r.owner, t),
                 c.walletTokens, Extended(wallets, r.owner, t))
      /\ \A a \in Address : /\ c.walletTokens[a] \subseteq s2.walletTokens[a]
                            /\ s2.walletTokens[a] \subseteq wallets[a]
  <2>0. PICK index, old, who, id, next :
         /\ index = s.walletTokens /\ old = c.walletTokens /\ who = r.owner /\ id = t
         /\ next = Extended(wallets, r.owner, t)
    OBVIOUS
  <2>1. /\ index \in [Address -> SUBSET TokenId] /\ wallets \in [Address -> SUBSET TokenId]
        /\ Indexed(index, wallet, old, wallets) /\ who \in Address /\ id \in TokenId
        /\ next = Extended(wallets, who, id)
    BY <2>0, <1>2, <1>4, <1>5, <1>8
  <2>2. Indexed(Flushed(index, wallet, who), Cached(index, wallet, who, id), old, next)
    BY <2>1, IndexStep
  <2>3. \A a \in Address : /\ old[a] \subseteq Flushed(index, wallet, who)[a]
                           /\ Flushed(index, wallet, who)[a] \subseteq wallets[a]
    BY <2>1, IndexStep
  <2>4. QED
    BY <2>0, <1>7, <2>2, <2>3
<1>10. /\ Indexed(s2.creatorTokens, Cached(s.creatorTokens, portfolio, r.creator, t),
                  c.creatorTokens, Extended(portfolios, r.creator, t))
       /\ \A a \in Address : /\ c.creatorTokens[a] \subseteq s2.creatorTokens[a]
                             /\ s2.creatorTokens[a] \subseteq portfolios[a]
  <2>0. PICK index, old, who, id, next :
         /\ index = s.creatorTokens /\ old = c.creatorTokens /\ who = r.creator /\ id = t
         /\ next = Extended(portfolios, r.creator, t)
    OBVIOUS
  <2>1. /\ index \in [Address -> SUBSET TokenId] /\ portfolios \in [Address -> SUBSET TokenId]
        /\ Indexed(index, portfolio, old, portfolios) /\ who \in Address /\ id \in TokenId
        /\ next = Extended(portfolios, who, id)
    BY <2>0, <1>2, <1>4, <1>5, <1>8
  <2>2. Indexed(Flushed(index, portfolio, who), Cached(index, portfolio, who, id), old, next)
    BY <2>1, IndexStep
  <2>3. \A a \in Address : /\ old[a] \subseteq Flushed(index, portfolio, who)[a]
                           /\ Flushed(index, portfolio, who)[a] \subseteq portfolios[a]
    BY <2>1, IndexStep
  <2>4. QED
    BY <2>0, <1>7, <2>2, <2>3
<1>11. QED
  BY <1>6, <1>9, <1>10 DEF BatchIndexed, wallets, portfolios

-----------------------------------------------------------------------------
(* The steps of the batch mint *)

\* What is said of a batch does not depend on the state.
LEMMA BatchFixed ==
    ASSUME NEW c, NEW requests, NEW n, NEW s, NEW skipped
    PROVE  /\ BatchStarted(c, requests)' <=> BatchStarted(c, requests)
           /\ ItemsDone(s, c, requests, n, skipped)' <=> ItemsDone(s, c, requests, n, skipped)
           /\ BatchAt(s, c, requests, n)' <=> BatchAt(s, c, requests, n)
           /\ FailedAt(s, c, requests, n)' <=> FailedAt(s, c, requests, n)
<1>1. BatchStarted(c, requests)' <=> BatchStarted(c, requests)
  BY RoyaltyChecksFixed DEF BatchStarted
<1>2. ASSUME NEW t, NEW r PROVE HasItem(s, t, r)' <=> HasItem(s, t, r)
  BY RoyaltyChecksFixed DEF HasItem
<1>3. ASSUME NEW gone
      PROVE  ItemsDone(s, c, requests, n, gone)' <=> ItemsDone(s, c, requests, n, gone)
  BY <1>2 DEF ItemsDone
<1>4. BatchAt(s, c, requests, n)' <=> BatchAt(s, c, requests, n)
  BY <1>3 DEF BatchAt
<1>5. FailedAt(s, c, requests, n)' <=> FailedAt(s, c, requests, n)
  BY <1>3 DEF FailedAt
<1>6. QED
  BY <1>1, <1>3, <1>4, <1>5

LEMMA BatchBegins ==
    ASSUME StoreInv(committed), store = committed, call = NoCall,
           NEW c \in Caller, NEW requests \in Batches, begin_batch_mint(c, requests)
    PROVE  store' \in Store /\ committed' = committed /\ BatchRuns'
<1>1. /\ store' = store /\ committed' = committed
      /\ call' = [kind |-> "batch", status |-> "running", requests |-> requests,
                  results |-> << >>, wallet |-> None, portfolio |-> None]
  BY DEF begin_batch_mint, Begin
<1>2. IndicesTyped(committed) /\ committed.nextTokenId \in Nat /\ committed \in Store
  BY StoreIs, Constants DEF StoreInv, IdsTyped
<1>3. BatchStarted(committed, requests)
  <2>1. \A i \in DOMAIN requests : validate_mint_request(requests[i])
    BY DEF begin_batch_mint
  <2>2. \E n \in 1 .. MaxBatchMint : requests \in [1 .. n -> BatchItems]
    BY DEF Batches
  <2>3. committed.admin # None
        /\ (c = committed.admin \/ c \in committed.minters) /\ c \notin committed.blacklisted
        /\ distinct_clips(requests)
    BY DEF begin_batch_mint, require_mint_auth
  <2>4. QED
    BY <2>1, <2>2, <2>3 DEF BatchStarted, validate_mint_request
<1>4. BatchAt(committed, committed, requests, 0)
  <2>1. Ids(committed, 0) = {}
    BY <1>2 DEF Ids
  <2>2. ItemsDone(committed, committed, requests, 0, {})
    BY <2>1 DEF ItemsDone, SameItem
  <2>3. committed.ownerTokens = Listed(committed.ownerTokens, committed, requests, 0, "owner")
    <3>1. committed.ownerTokens \in [Address -> SUBSET TokenId]
      BY <1>2 DEF IndicesTyped
    <3>2. QED
      BY <1>2, <3>1, ListedNone
  <2>4. CountInv(committed)
    BY DEF StoreInv
  <2>5. QED
    BY <1>2, <2>1, <2>2, <2>3, <2>4 DEF BatchAt
<1>5. BatchIndexed(committed, committed, requests, 0, None, None)
  <2>1. /\ committed.walletTokens \in [Address -> SUBSET TokenId]
        /\ committed.creatorTokens \in [Address -> SUBSET TokenId]
    BY <1>2 DEF IndicesTyped
  <2>2. committed.walletTokens = Listed(committed.walletTokens, committed, requests, 0, "owner")
    BY <1>2, <2>1, ListedNone
  <2>3. committed.creatorTokens =
        Listed(committed.creatorTokens, committed, requests, 0, "creator")
    BY <1>2, <2>1, ListedNone
  <2>4. QED
    BY <2>2, <2>3 DEF BatchIndexed, Indexed, Flushed
<1>6. Len(call'.results) = 0 /\ call'.results \in Seq(Nat) /\ 0 <= Len(requests)
  BY <1>1, <1>3, BatchItemsTyped
<1>7. BatchStarted(committed, call.requests)' /\ BatchAt(store, committed, call.requests, Done)'
  BY <1>1, <1>3, <1>4, <1>6, BatchFixed DEF Done
<1>8. BatchUntouched(store', committed')
      /\ BatchIndexed(store', committed', call'.requests, Done', call'.wallet, call'.portfolio)
  BY <1>1, <1>5, <1>6 DEF BatchUntouched, Done
<1>9. BatchRuns'
  BY <1>1, <1>6, <1>7, <1>8 DEF BatchRuns, Done
<1>10. QED
  BY <1>1, <1>2, <1>9

\* What the next item of a running batch finds.
LEMMA NextItem ==
    ASSUME BatchRuns, store \in Store, StoreInv(committed), ItemDue
    PROVE  /\ call.status = "running"
           /\ Done \in Nat /\ Done < Len(call.requests) /\ Done + 1 <= Len(call.requests)
           /\ BatchStarted(committed, call.requests)
           /\ BatchAt(store, committed, call.requests, Done)
           /\ BatchIndexed(store, committed, call.requests, Done, call.wallet, call.portfolio)
           /\ BatchUntouched(store, committed)
           /\ Item = call.requests[Done + 1] /\ ItemTyped(Item)
           /\ ItemToken \in TokenId
           /\ ItemToken = committed.nextTokenId + Done + 1
           /\ committed.nextTokenId \in Nat
<1>1. call.status = "running" /\ Done < Len(call.requests) /\ ItemToken < MaxTokens
  BY DEF ItemDue, Running, Done
<1>2. /\ BatchStarted(committed, call.requests)
      /\ BatchAt(store, committed, call.requests, Done)
      /\ BatchIndexed(store, committed, call.requests, Done, call.wallet, call.portfolio)
      /\ BatchUntouched(store, committed)
      /\ call.results \in Seq(Nat)
  BY <1>1 DEF BatchRuns
<1>3. Done \in Nat /\ Len(call.requests) \in Nat
  BY <1>2, BatchItemsTyped DEF Done
<1>4. committed.nextTokenId \in Nat
  BY StoreIs, Constants DEF StoreInv, IdsTyped
<1>5. ItemToken = committed.nextTokenId + Done + 1
  BY <1>2 DEF ItemToken, BatchAt
<1>6. ItemToken \in TokenId
  BY <1>1, <1>3, <1>4, <1>5, Constants DEF TokenId
<1>7. Item = call.requests[Done + 1]
  BY DEF Item, Done
<1>8. ItemTyped(Item)
  <2>1. Done + 1 \in 1 .. Len(call.requests)
    BY <1>1, <1>3
  <2>2. QED
    BY <1>2, <1>7, <2>1, BatchItemsTyped
<1>9. QED
  BY <1>1, <1>2, <1>3, <1>4, <1>5, <1>6, <1>7, <1>8

LEMMA MintsItem ==
    ASSUME BatchRuns, store \in Store, StoreInv(committed), mint_item
    PROVE  store' \in Store /\ committed' = committed /\ BatchRuns'
<1> DEFINE r == Item
           t == ItemToken
           wallet == Cached(store.walletTokens, call.wallet, Item.owner, ItemToken)
           portfolio == Cached(store.creatorTokens, call.portfolio, Item.creator, ItemToken)
<1>1. /\ ItemDue /\ committed' = committed
      /\ store' = [ItemWrites EXCEPT !.totalSupply = @ + 1]
      /\ call' = [kind |-> "batch", status |-> call.status, requests |-> call.requests,
                  results |-> Append(call.results, t), wallet |-> wallet,
                  portfolio |-> portfolio]
      /\ store.totalSupply < MaxSupply
  BY DEF mint_item, BatchRuns
<1>2. /\ call.status = "running"
      /\ Done \in Nat /\ Done < Len(call.requests) /\ Done + 1 <= Len(call.requests)
      /\ BatchStarted(committed, call.requests)
      /\ BatchAt(store, committed, call.requests, Done)
      /\ BatchIndexed(store, committed, call.requests, Done, call.wallet, call.portfolio)
      /\ BatchUntouched(store, committed)
      /\ r = call.requests[Done + 1] /\ ItemTyped(r)
      /\ t \in TokenId /\ t = committed.nextTokenId + Done + 1
      /\ committed.nextTokenId \in Nat
  BY <1>1, NextItem
<1>3. /\ IsRecord(store') /\ store'.totalSupply = store.totalSupply + 1
      /\ ItemWritten(store', store, r, t, call.wallet, call.portfolio)
  BY <1>1, CountedItemIs
<1> HIDE DEF r, t, wallet, portfolio
<1>4. BatchAt(store', committed, call.requests, Done + 1)
  BY <1>2, <1>3, ItemMinted
<1>5. BatchIndexed(store', committed, call.requests, Done + 1, wallet, portfolio)
  BY <1>2, <1>3, ItemIndexed DEF wallet, portfolio, r, t
<1>6. store' \in Store
  <2>1. store.totalSupply + 1 \in 0 .. MaxSupply
    BY <1>1, StoreIs, Constants DEF IdsTyped
  <2>2. call.wallet \in Cache \cup {None} /\ call.portfolio \in Cache \cup {None}
    BY <1>2 DEF BatchIndexed, Indexed
  <2>3. QED
    BY <1>2, <1>3, <2>1, <2>2, ItemKeepsTypes
<1>7. /\ call'.results \in Seq(Nat) /\ Len(call'.results) = Done + 1
      /\ \A i \in 1 .. Done + 1 : call'.results[i] = committed.nextTokenId + i
  <2>1. call.results \in Seq(Nat) /\ t \in Nat
        /\ \A i \in 1 .. Done : call.results[i] = committed.nextTokenId + i
    BY <1>2, Constants DEF BatchRuns
  <2>2. call'.results = Append(call.results, t)
    BY <1>1
  <2>3. /\ Append(call.results, t) \in Seq(Nat) /\ Len(Append(call.results, t)) = Done + 1
        /\ \A i \in 1 .. Done : Append(call.results, t)[i] = call.results[i]
        /\ Append(call.results, t)[Done + 1] = t
    BY <2>1 DEF Done
  <2>4. ASSUME NEW i \in 1 .. Done + 1
        PROVE  Append(call.results, t)[i] = committed.nextTokenId + i
    <3>0. PICK n : n = Done
      OBVIOUS
    <3>. n \in Nat /\ committed.nextTokenId \in Nat /\ i \in 1 .. n + 1
      BY <1>2, <3>0
    <3>1. t = committed.nextTokenId + n + 1
      BY <1>2, <3>0
    <3>2. t = committed.nextTokenId + (n + 1)
      BY <3>1
    <3>3. CASE i = n + 1
      BY <2>3, <3>0, <3>2, <3>3
    <3>4. CASE i # n + 1
      <4>1. i \in 1 .. n
        BY <3>4
      <4>2. QED
        BY <2>1, <2>3, <3>0, <4>1
    <3>5. QED
      BY <3>3, <3>4
  <2>5. QED
    BY <2>2, <2>3, <2>4
<1>8. committed.nextTokenId + (Done + 1) < MaxTokens
  BY <1>2, Constants DEF TokenId
<1>9. Done' = Done + 1 /\ call'.requests = call.requests /\ call'.wallet = wallet
      /\ call'.portfolio = portfolio /\ call'.status = "running" /\ call'.kind = "batch"
  BY <1>1, <1>2, <1>7 DEF Done
<1>10. BatchStarted(committed, call.requests)' /\ BatchAt(store, committed, call.requests, Done)'
  BY <1>1, <1>2, <1>4, <1>9, BatchFixed
<1>11. BatchUntouched(store', committed')
  BY <1>1, <1>2, <1>3 DEF ItemWritten, BatchUntouched
<1>12. BatchIndexed(store', committed', call'.requests, Done', call'.wallet, call'.portfolio)
  BY <1>1, <1>5, <1>9
<1>13. call' = [kind |-> "batch", status |-> call'.status, requests |-> call'.requests,
                results |-> call'.results, wallet |-> call'.wallet,
                portfolio |-> call'.portfolio]
  BY <1>1
<1>14. BatchRuns'
  BY <1>1, <1>2, <1>7, <1>8, <1>9, <1>10, <1>11, <1>12, <1>13 DEF BatchRuns
<1>15. QED
  BY <1>1, <1>6, <1>14

LEMMA ItemFails ==
    ASSUME BatchRuns, store \in Store, StoreInv(committed), mint_item_fails
    PROVE  store' \in Store /\ committed' = committed /\ BatchRuns'
<1> DEFINE r == Item
           t == ItemToken
<1>1. /\ ItemDue /\ committed' = committed /\ store' = ItemWrites
      /\ call' = [kind |-> "batch", status |-> "failed", requests |-> call.requests,
                  results |-> call.results, wallet |-> call.wallet,
                  portfolio |-> call.portfolio]
  BY DEF mint_item_fails, Fail, BatchRuns
<1>2. /\ Done \in Nat /\ Done < Len(call.requests)
      /\ BatchStarted(committed, call.requests)
      /\ BatchAt(store, committed, call.requests, Done)
      /\ BatchIndexed(store, committed, call.requests, Done, call.wallet, call.portfolio)
      /\ BatchUntouched(store, committed)
      /\ r = call.requests[Done + 1] /\ ItemTyped(r)
      /\ t \in TokenId /\ t = committed.nextTokenId + Done + 1
      /\ committed.nextTokenId \in Nat
  BY <1>1, NextItem
<1>3. /\ IsRecord(store') /\ store'.totalSupply = store.totalSupply
      /\ ItemWritten(store', store, r, t, call.wallet, call.portfolio)
  BY <1>1, ItemIs
<1> HIDE DEF r, t
<1>4. store' \in Store
  <2>1. store.totalSupply \in 0 .. MaxSupply
    BY StoreIs DEF IdsTyped
  <2>2. call.wallet \in Cache \cup {None} /\ call.portfolio \in Cache \cup {None}
    BY <1>2 DEF BatchIndexed, Indexed
  <2>3. QED
    BY <1>2, <1>3, <2>1, <2>2, ItemKeepsTypes
<1>5. FailedAt(store', committed, call.requests, Done)
  <2>1. ItemsDone(store', committed, call.requests, Done, {t})
    <3>1. ItemsDone(store, committed, call.requests, Done, {})
      BY <1>2 DEF BatchAt
    <3>2. QED
      BY <1>2, <1>3, <3>1, ItemsStep
  <2>2. ASSUME NEW a \in Address
        PROVE  store'.ownerTokens[a] \ {t} =
               Listed(committed.ownerTokens, committed, call.requests, Done, "owner")[a]
    <3>1. store.ownerTokens =
          Listed(committed.ownerTokens, committed, call.requests, Done, "owner")
      BY <1>2 DEF BatchAt
    <3>2. store.ownerTokens \in [Address -> SUBSET TokenId]
      BY StoreIs DEF IndicesTyped
    <3>3. store'.ownerTokens = [store.ownerTokens EXCEPT ![r.owner] = @ \cup {t}]
      BY <1>3 DEF ItemWritten
    <3>4. t \notin store.ownerTokens[a]
      <4>1. TokenInv(committed, t) /\ t > committed.nextTokenId
        BY <1>2 DEF StoreInv
      <4>2. Blank(committed, t)
        BY <1>2, <4>1 DEF TokenInv
      <4>3. t \notin Ids(committed, Done)
        BY <1>2, NextId
      <4>4. QED
        BY <3>1, <3>2, <4>2, <4>3 DEF Listed, IdsFor, Blank
    <3>5. store'.ownerTokens[a] \ {t} = store.ownerTokens[a]
      BY <3>2, <3>3, <3>4
    <3>6. QED
      BY <3>1, <3>5
  <2>3. \A a \in Address :
            /\ committed.walletTokens[a] \subseteq store'.walletTokens[a]
            /\ store'.walletTokens[a] \subseteq
                   Listed(committed.walletTokens, committed, call.requests, Done, "owner")[a]
            /\ committed.creatorTokens[a] \subseteq store'.creatorTokens[a]
            /\ store'.creatorTokens[a] \subseteq
                   Listed(committed.creatorTokens, committed, call.requests, Done, "creator")[a]
    BY <1>2, <1>3, ItemIndexed
  <2>4. QED
    BY <1>2, <2>1, <2>2, <2>3 DEF FailedAt
<1>6. Done' = Done /\ call'.requests = call.requests /\ call'.results = call.results
      /\ call'.status = "failed" /\ call'.kind = "batch"
  BY <1>1 DEF Done
<1>7. BatchStarted(committed, call.requests)' /\ FailedAt(store, committed, call.requests, Done)'
  BY <1>1, <1>2, <1>5, <1>6, BatchFixed
<1>8. BatchUntouched(store', committed')
  BY <1>1, <1>2, <1>3 DEF ItemWritten, BatchUntouched
<1>9. call' = [kind |-> "batch", status |-> call'.status, requests |-> call'.requests,
               results |-> call'.results, wallet |-> call'.wallet,
               portfolio |-> call'.portfolio]
  BY <1>1
<1>10. /\ call.results \in Seq(Nat) /\ Done <= Len(call.requests)
       /\ \A i \in 1 .. Done : call.results[i] = committed.nextTokenId + i
       /\ Done > 0 => committed.nextTokenId + Done < MaxTokens
  BY DEF BatchRuns
<1>11. BatchRuns'
  BY <1>1, <1>6, <1>7, <1>8, <1>9, <1>10 DEF BatchRuns
<1>12. QED
  BY <1>1, <1>4, <1>11

-----------------------------------------------------------------------------
(* The batch is finished *)

\* s2 is c with the n items of the batch minted.
BatchedBy(s2, c, requests, n) ==
    /\ BatchAt(s2, c, requests, n)
    /\ BatchUntouched(s2, c)
    /\ s2.walletTokens = Listed(c.walletTokens, c, requests, n, "owner")
    /\ s2.creatorTokens = Listed(c.creatorTokens, c, requests, n, "creator")

LEMMA BatchFinishes ==
    ASSUME BatchRuns, store \in Store, StoreInv(committed), finish_batch
    PROVE  /\ store' \in Store /\ committed' = store' /\ call' = NoCall
           /\ BatchStarted(committed, call.requests)
           /\ BatchedBy(store', committed, call.requests, Len(call.requests))
           /\ committed.nextTokenId + Len(call.requests) < MaxTokens
<1>1. /\ store' = [store EXCEPT !.walletTokens = Flushed(@, call.wallet, None),
                                !.creatorTokens = Flushed(@, call.portfolio, None)]
      /\ committed' = store' /\ call' = NoCall
      /\ call.status = "running" /\ Done = Len(call.requests)
  BY DEF finish_batch, Return, Running, Done
<1>2. /\ BatchStarted(committed, call.requests)
      /\ BatchAt(store, committed, call.requests, Done)
      /\ BatchIndexed(store, committed, call.requests, Done, call.wallet, call.portfolio)
      /\ BatchUntouched(store, committed)
      /\ Done > 0 => committed.nextTokenId + Done < MaxTokens
  BY <1>1 DEF BatchRuns
<1>3. IsRecord(store) /\ IdsTyped(store) /\ TokensTyped(store) /\ IndicesTyped(store)
  BY StoreIs
<1>4. /\ call.wallet \in Cache \cup {None} /\ call.portfolio \in Cache \cup {None}
      /\ Flushed(store.walletTokens, call.wallet, None) =
             Listed(committed.walletTokens, committed, call.requests, Done, "owner")
      /\ Flushed(store.creatorTokens, call.portfolio, None) =
             Listed(committed.creatorTokens, committed, call.requests, Done, "creator")
  BY <1>2 DEF BatchIndexed, Indexed
<1>5. /\ Flushed(store.walletTokens, call.wallet, None) \in [Address -> SUBSET TokenId]
      /\ Flushed(store.creatorTokens, call.portfolio, None) \in [Address -> SUBSET TokenId]
  BY <1>3, <1>4, FlushTyped DEF IndicesTyped
<1>6. store' \in Store
  <2>1. IsRecord(store')
    BY <1>1, <1>3 DEF IsRecord
  <2>2. IdsTyped(store') /\ TokensTyped(store') /\ IndicesTyped(store')
    BY <1>1, <1>3, <1>5 DEF IsRecord, IdsTyped, TokensTyped, IndicesTyped
  <2>3. QED
    BY <2>1, <2>2, StoreIs
<1>7. \A t : SameItem(store', t, store)
  BY <1>1, <1>3 DEF IsRecord, SameItem
<1>8. /\ store'.nextTokenId = store.nextTokenId /\ store'.totalSupply = store.totalSupply
      /\ store'.clipToken = store.clipToken /\ store'.unsynced = store.unsynced
      /\ store'.ownerTokens = store.ownerTokens
      /\ store'.metadataIndex = store.metadataIndex
      /\ BatchUntouched(store', store)
      /\ store'.walletTokens = Flushed(store.walletTokens, call.wallet, None)
      /\ store'.creatorTokens = Flushed(store.creatorTokens, call.portfolio, None)
  BY <1>1, <1>3 DEF IsRecord, BatchUntouched
<1>9. BatchAt(store', committed, call.requests, Done)
  <2>1. ItemsDone(store', committed, call.requests, Done, {})
    BY <1>2, <1>7 DEF BatchAt, ItemsDone, HasItem, SameItem
  <2>2. CountInv(store')
    BY <1>2, <1>8 DEF BatchAt, CountInv, ClipsIn
  <2>3. QED
    BY <1>2, <1>8, <2>1, <2>2 DEF BatchAt
<1>10. BatchUntouched(store', committed)
  BY <1>2, <1>8 DEF BatchUntouched
<1>11. BatchedBy(store', committed, call.requests, Len(call.requests))
  BY <1>1, <1>4, <1>8, <1>9, <1>10 DEF BatchedBy
<1>12. QED
  BY <1>1, <1>2, <1>6, <1>11, BatchItemsTyped

\* The clips of the whole batch lead to its tokens, every other clip where it did.
LEMMA BatchKeeps ==
    ASSUME NEW c, StoreInv(c), NEW requests, BatchStarted(c, requests), NEW n \in Nat,
           n = Len(requests), c.nextTokenId + n < MaxTokens,
           NEW s2 \in Store, BatchedBy(s2, c, requests, n)
    PROVE  StoreInv(s2)
<1>1. /\ IdsTyped(c) /\ TokensTyped(c) /\ IndicesTyped(c)
      /\ IdsTyped(s2) /\ TokensTyped(s2) /\ IndicesTyped(s2)
      /\ c.nextTokenId \in Nat
  <2>1. IdsTyped(c) /\ TokensTyped(c) /\ IndicesTyped(c)
    BY StoreIs DEF StoreInv
  <2>2. IdsTyped(s2) /\ TokensTyped(s2) /\ IndicesTyped(s2)
    BY StoreIs
  <2>3. c.nextTokenId \in Nat
    BY <2>1, Constants DEF IdsTyped
  <2>4. QED
    BY <2>1, <2>2, <2>3
<1>2. /\ ItemsDone(s2, c, requests, n, {})
      /\ s2.nextTokenId = c.nextTokenId + n
      /\ s2.unsynced = c.unsynced \cup Ids(c, n)
      /\ s2.tokenOwner = c.tokenOwner /\ s2.burned = c.burned /\ s2.admin = c.admin
      /\ c.admin # None
  BY DEF BatchedBy, BatchAt, BatchUntouched, BatchStarted
<1>3. \A a \in Address :
          /\ s2.ownerTokens[a] = c.ownerTokens[a] \cup IdsFor(c, requests, n, "owner", a)
          /\ s2.walletTokens[a] = c.walletTokens[a] \cup IdsFor(c, requests, n, "owner", a)
          /\ s2.creatorTokens[a] = c.creatorTokens[a] \cup IdsFor(c, requests, n, "creator", a)
  BY DEF BatchedBy, BatchAt, Listed
<1>4. ASSUME NEW t \in TokenId PROVE TokenInv(s2, t)
  <2>0. TokenInv(c, t) /\ t \in Nat /\ t # None
    BY Constants DEF StoreInv
  <2>1. CASE t \in Ids(c, n)
    <3> DEFINE i == t - c.nextTokenId
    <3>1. i \in 1 .. n /\ c.nextTokenId + i = t
      BY <1>1, <2>0, <2>1 DEF Ids
    <3>2. ItemTyped(requests[i]) /\ HasItem(s2, t, requests[i])
      <4>1. HasItem(s2, t, requests[i])
        BY <1>2, <2>1 DEF ItemsDone
      <4>2. QED
        BY <3>1, <4>1, BatchItemsTyped
    <3>3. s2.clipToken[requests[i].clip] = t
      BY <3>1 DEF BatchedBy, BatchAt
    <3>4. /\ s2.tokenData[t] # None /\ s2.creator[t] # None /\ s2.tokenClip[t] # None
          /\ s2.clipToken[s2.tokenClip[t]] = t
      BY <3>2, <3>3 DEF HasItem, ItemTyped
    <3>5. t \in s2.creatorTokens[requests[i].creator] /\ requests[i].creator \in Address
      BY <1>3, <2>1, <3>2 DEF IdsFor, ItemTyped
    <3>6. /\ s2.tokenOwner[t] = None /\ t \notin s2.burned /\ t \in s2.unsynced
          /\ ~(t > s2.nextTokenId)
      <4>1. t >= c.nextTokenId /\ ~(t > s2.nextTokenId)
        BY <1>1, <1>2, <2>1 DEF Ids
      <4>2. QED
        BY <1>2, <2>0, <2>1, <4>1 DEF TokenInv
    <3>7. QED
      BY <3>4, <3>5, <3>6, Constants DEF TokenInv
  <2>2. CASE t \notin Ids(c, n)
    <3>1. SameItem(s2, t, c)
      BY <1>2, <2>2 DEF ItemsDone
    <3>2. t > s2.nextTokenId => t > c.nextTokenId
      BY <1>1, <1>2, <2>0
    <3>3. t >= s2.nextTokenId => t >= c.nextTokenId
      BY <1>1, <1>2, <2>0
    <3>4. \A a \in Address : /\ t \in s2.ownerTokens[a] <=> t \in c.ownerTokens[a]
                             /\ t \in s2.walletTokens[a] <=> t \in c.walletTokens[a]
                             /\ t \in s2.creatorTokens[a] <=> t \in c.creatorTokens[a]
      BY <1>3, <2>2 DEF IdsFor
    <3>5. \A u \in Uri : c.metadataIndex[u] # t => s2.metadataIndex[u] # t
      BY <2>2 DEF BatchedBy, BatchAt
    <3>6. Blank(c, t) => Blank(s2, t)
      BY <1>2, <2>2, <3>1, <3>4, <3>5 DEF Blank, SameItem
    <3>7. c.tokenData[t] # None => s2.clipToken[c.tokenClip[t]] = t
      <4>1. CASE c.tokenData[t] # None
        <5>1. c.tokenClip[t] \in Clip /\ c.clipToken[c.tokenClip[t]] = t
          BY <1>1, <2>0, <4>1 DEF TokenInv, TokensTyped
        <5>2. \A i \in 1 .. n : requests[i].clip # c.tokenClip[t]
          <6>1. \A i \in 1 .. n : c.clipToken[requests[i].clip] = None
            BY BatchItemsTyped DEF BatchStarted
          <6>2. QED
            BY <2>0, <5>1, <6>1
        <5>3. QED
          BY <5>1, <5>2 DEF BatchedBy, BatchAt
      <4>2. QED
        BY <4>1
    <3>8. QED
      BY <1>2, <2>0, <2>2, <3>1, <3>2, <3>3, <3>4, <3>6, <3>7 DEF TokenInv, SameItem
  <2>3. QED
    BY <2>1, <2>2
<1>5. ASSUME NEW u \in Uri PROVE UriInv(s2, u)
  <2>1. UriInv(c, u) /\ c.metadataIndex[u] \in TokenId \cup {None}
    BY <1>1 DEF StoreInv, IndicesTyped
  <2>2. \/ s2.metadataIndex[u] \in Ids(c, n)
        \/ s2.metadataIndex[u] = c.metadataIndex[u]
    BY DEF BatchedBy, BatchAt
  <2>3. \A t \in TokenId : t \notin Ids(c, n) => s2.metadata[t] = c.metadata[t]
    BY <1>2 DEF ItemsDone, SameItem
  <2>4. QED
    BY <1>2, <2>1, <2>2, <2>3 DEF UriInv
<1>6. CountInv(s2)
  BY DEF BatchedBy, BatchAt
<1>7. QED
  BY <1>2, <1>4, <1>5, <1>6 DEF StoreInv

-----------------------------------------------------------------------------
(* The batch is undone *)

LEMMA BatchReverts ==
    ASSUME BatchRuns, store \in Store, StoreInv(committed), RevertBatch
    PROVE  store' \in Store /\ committed' = committed /\ BatchRuns'
<1> DEFINE c == committed
           failing == committed.nextTokenId + Done + 1
<1>1. /\ call.status = "failed" /\ committed' = committed
      /\ call' = [kind |-> "batch", status |-> "reverted", requests |-> call.requests,
                  results |-> call.results, wallet |-> call.wallet,
                  portfolio |-> call.portfolio]
  BY DEF RevertBatch, BatchRuns
<1>2. /\ BatchStarted(committed, call.requests)
      /\ FailedAt(store, committed, call.requests, Done)
      /\ BatchUntouched(store, committed)
      /\ call.results \in Seq(Nat) /\ Done <= Len(call.requests)
      /\ \A i \in 1 .. Done : call.results[i] = committed.nextTokenId + i
      /\ Done > 0 => committed.nextTokenId + Done < MaxTokens
  BY <1>1 DEF BatchRuns
<1>3. IsRecord(store) /\ IdsTyped(store) /\ TokensTyped(store) /\ IndicesTyped(store)
  BY StoreIs
<1>4. /\ IdsTyped(c) /\ TokensTyped(c) /\ IndicesTyped(c)
      /\ c.nextTokenId \in Nat /\ Done \in Nat
  <2>1. IdsTyped(c) /\ TokensTyped(c) /\ IndicesTyped(c)
    BY StoreIs DEF StoreInv
  <2>2. QED
    BY <1>2, <2>1, Constants DEF IdsTyped, Done
<1>5. /\ IsRecord(store') /\ BatchUntouched(store', store)
      /\ store'.walletTokens = Unlisted(store.walletTokens, "owner")
      /\ store'.ownerTokens = Unlisted(store.ownerTokens, "owner")
      /\ store'.creatorTokens = Unlisted(store.creatorTokens, "creator")
      /\ store'.creator = Unminted(store.creator)
      /\ store'.tokenClip = Unminted(store.tokenClip)
      /\ store'.clipToken = [x \in Clip |->
             IF \E i \in DOMAIN call.results : call.requests[i].clip = x THEN None
             ELSE store.clipToken[x]]
      /\ store'.royalty = Unminted(store.royalty)
      /\ store'.royaltyPercentage = Unminted(store.royaltyPercentage)
      /\ store'.royaltyRecipient = Unminted(store.royaltyRecipient)
      /\ store'.metadata = Unminted(store.metadata)
      /\ store'.tokenData = Unminted(store.tokenData)
      /\ store'.nextTokenId = c.nextTokenId /\ store'.totalSupply = c.totalSupply
      /\ store'.metadataIndex = store.metadataIndex /\ store'.unsynced = store.unsynced
  BY <1>3 DEF RevertBatch, IsRecord, BatchUntouched
<1>6. Finished = Ids(c, Done)
  <2>1. DOMAIN call.results = 1 .. Done
    BY <1>2 DEF Done
  <2>2. Finished = {call.results[i] : i \in 1 .. Done}
    BY <2>1 DEF Finished, Range
  <2>3. Finished = {c.nextTokenId + i : i \in 1 .. Done}
    BY <1>2, <2>2
  <2>4. \A x \in Ids(c, Done) : x - c.nextTokenId \in 1 .. Done
                               /\ x = c.nextTokenId + (x - c.nextTokenId)
    BY <1>4 DEF Ids
  <2>5. \A i \in 1 .. Done : c.nextTokenId + i \in Ids(c, Done)
    BY <1>4 DEF Ids
  <2>6. QED
    BY <2>3, <2>4, <2>5
<1>7. ASSUME NEW t \in TokenId, t \in Ids(c, Done) PROVE Blank(c, t) /\ c.tokenData[t] = None
  <2>1. t > c.nextTokenId
    BY <1>4, <1>7 DEF Ids
  <2>2. t >= c.nextTokenId
    BY <1>4, <1>7 DEF Ids
  <2>3. TokenInv(c, t)
    BY DEF StoreInv
  <2>4. c.tokenData[t] = None /\ t \notin c.burned
    BY <2>1, <2>2, <2>3 DEF TokenInv
  <2>5. QED
    BY <2>3, <2>4 DEF TokenInv
<1>8. ASSUME NEW index, index \in [Address -> SUBSET TokenId], NEW party
      PROVE  /\ Unlisted(index, party) \in [Address -> SUBSET TokenId]
             /\ \A a \in Address : Unlisted(index, party)[a] =
                                   index[a] \ IdsFor(c, call.requests, Done, party, a)
  <2>1. ASSUME NEW a
        PROVE  {call.results[i] : i \in {j \in DOMAIN call.results :
                                            call.requests[j][party] = a}}
               = IdsFor(c, call.requests, Done, party, a)
    <3>1. DOMAIN call.results = 1 .. Done
      BY <1>2 DEF Done
    <3>2. \A i \in 1 .. Done : c.nextTokenId + i \in Ids(c, Done)
                              /\ (c.nextTokenId + i) - c.nextTokenId = i
      BY <1>4 DEF Ids
    <3>3. \A x \in Ids(c, Done) : x - c.nextTokenId \in 1 .. Done
                                 /\ x = c.nextTokenId + (x - c.nextTokenId)
      BY <1>4 DEF Ids
    <3>4. QED
      BY <1>2, <3>1, <3>2, <3>3 DEF IdsFor
  <2>2. QED
    BY <1>8, <2>1 DEF Unlisted
<1>9. store' \in Store
  <2>1. IdsTyped(store')
    BY <1>3, <1>4, <1>5 DEF IdsTyped, BatchUntouched
  <2>2. TokensTyped(store')
    BY <1>3, <1>5 DEF TokensTyped, BatchUntouched, Unminted
  <2>3. IndicesTyped(store')
    BY <1>3, <1>5, <1>8 DEF IndicesTyped
  <2>4. QED
    BY <1>5, <2>1, <2>2, <2>3, StoreIs
<1>10. RevertedAt(store', c, Done)
  <2>1. ASSUME NEW t \in TokenId \ {failing} PROVE SameItem(store', t, c)
    <3>1. CASE t \in Ids(c, Done)
      BY <1>5, <1>6, <1>7, <3>1 DEF SameItem, Unminted, Blank
    <3>2. CASE t \notin Ids(c, Done)
      <4>1. SameItem(store, t, c)
        BY <1>2, <2>1, <3>2 DEF FailedAt, ItemsDone
      <4>2. QED
        BY <1>5, <1>6, <3>2, <4>1 DEF SameItem, Unminted
    <3>3. QED
      BY <3>1, <3>2
  <2>2. ASSUME NEW a \in Address
        PROVE  /\ IdsFor(c, call.requests, Done, "owner", a) \cap c.walletTokens[a] = {}
               /\ IdsFor(c, call.requests, Done, "owner", a) \cap c.ownerTokens[a] = {}
               /\ IdsFor(c, call.requests, Done, "creator", a) \cap c.creatorTokens[a] = {}
    BY <1>4, <1>7 DEF IdsFor, Blank, IndicesTyped
  <2>3. store'.walletTokens = c.walletTokens /\ store'.creatorTokens = c.creatorTokens
    <3>1. \A a \in Address :
              /\ c.walletTokens[a] \subseteq store.walletTokens[a]
              /\ store.walletTokens[a] \subseteq
                     c.walletTokens[a] \cup IdsFor(c, call.requests, Done, "owner", a)
              /\ c.creatorTokens[a] \subseteq store.creatorTokens[a]
              /\ store.creatorTokens[a] \subseteq
                     c.creatorTokens[a] \cup IdsFor(c, call.requests, Done, "creator", a)
      BY <1>2 DEF FailedAt, Listed
    <3>2. \A a \in Address :
              /\ store'.walletTokens[a] =
                     store.walletTokens[a] \ IdsFor(c, call.requests, Done, "owner", a)
              /\ store'.creatorTokens[a] =
                     store.creatorTokens[a] \ IdsFor(c, call.requests, Done, "creator", a)
      BY <1>3, <1>5, <1>8 DEF IndicesTyped
    <3>3. \A a \in Address : /\ store'.walletTokens[a] = c.walletTokens[a]
                             /\ store'.creatorTokens[a] = c.creatorTokens[a]
      BY <2>2, <3>1, <3>2, ZenonT(60)
    <3>4. /\ store'.walletTokens \in [Address -> SUBSET TokenId]
          /\ store'.creatorTokens \in [Address -> SUBSET TokenId]
      BY <1>9, StoreIs DEF IndicesTyped
    <3>5. QED
      BY <1>4, <3>3, <3>4 DEF IndicesTyped
  <2>4. ASSUME NEW a \in Address PROVE store'.ownerTokens[a] \ {failing} = c.ownerTokens[a]
    <3>1. store.ownerTokens[a] \ {failing} =
          c.ownerTokens[a] \cup IdsFor(c, call.requests, Done, "owner", a)
      BY <1>2 DEF FailedAt, Listed
    <3>2. store'.ownerTokens[a] =
          store.ownerTokens[a] \ IdsFor(c, call.requests, Done, "owner", a)
      BY <1>3, <1>5, <1>8 DEF IndicesTyped
    <3>3. QED
      BY <2>2, <3>1, <3>2
  <2>5. QED
    BY <1>5, <2>1, <2>3, <2>4 DEF RevertedAt
<1>11. Done' = Done /\ call'.requests = call.requests /\ call'.results = call.results
       /\ call'.status = "reverted" /\ call'.kind = "batch"
  BY <1>1 DEF Done
<1>12. BatchStarted(committed, call.requests)'
  BY <1>1, <1>2, <1>11, BatchFixed
<1>13. BatchUntouched(store', committed') /\ RevertedAt(store', committed', Done')
  BY <1>1, <1>2, <1>5, <1>10, <1>11 DEF BatchUntouched
<1>14. call' = [kind |-> "batch", status |-> call'.status, requests |-> call'.requests,
                results |-> call'.results, wallet |-> call'.wallet,
                portfolio |-> call'.portfolio]
  BY <1>1
<1>15. BatchRuns'
  BY <1>1, <1>2, <1>11, <1>12, <1>13, <1>14 DEF BatchRuns
<1>16. QED
  BY <1>1, <1>9, <1>15

-----------------------------------------------------------------------------
(* One step *)

LEMMA Idle ==
    ASSUME MintInv, call = NoCall
    PROVE  store = committed /\ committed \in Store /\ StoreInv(committed)
BY DEF MintInv, MintRuns, BatchRuns, NoCall, StoreInv

LEMMA Busy ==
    ASSUME MintInv
    PROVE  /\ store \in Store /\ StoreInv(committed) /\ committed \in Store
           /\ call.kind = "mint" => MintRuns
           /\ call.kind = "batch" => BatchRuns
           /\ call # NoCall => MintRuns \/ BatchRuns
BY DEF MintInv, MintRuns, BatchRuns, NoCall, StoreInv

\* What a call that returns makes of the storage s: other access lists, another
\* creator, a burn, a mint or a batch.
Recreated(s2, s) ==
    \E t \in TokenId, who \in Address :
        s.tokenData[t] # None /\ s2 = [s EXCEPT !.creator[t] = who]

Burned(s2, s) ==
    \E t \in TokenId :
        s.tokenData[t] # None /\ s.tokenOwner[t] # None /\ BurnedBy(s2, s, t)

Minted(s2) ==
    \E p \in MintParams : MintStarted(p) /\ MintedBy(s2, committed, p)

Batched(s2) ==
    \E requests : \E n \in Nat :
        /\ BatchStarted(committed, requests) /\ n = Len(requests)
        /\ committed.nextTokenId + n < MaxTokens
        /\ BatchedBy(s2, committed, requests, n)

LEMMA EntryIs ==
    ASSUME MintInv, NEW s, Entry(s)
    PROVE  call = NoCall /\ store = committed /\ store' = s /\ committed' = s /\ call' = NoCall
BY Idle DEF Entry, Return

LEMMA Returns ==
    ASSUME NEW s, StoreInv(s), store' = s, committed' = s, call' = NoCall
    PROVE  MintInv'
BY DEF MintInv, StoreInv

LEMMA AdminIs ==
    ASSUME NEW c, IsRecord(c), NEW a, c.nextTokenId = 0,
           NEW s, s = [c EXCEPT !.admin = a, !.nextTokenId = 0]
    PROVE  IsRecord(s) /\ s.admin = a /\ SameTokens(s, c)
BY DEF IsRecord, SameTokens

LEMMA ListsChange ==
    ASSUME MintInv,
           \/ \E a \in Caller : init(a)
           \/ \E a \in Address : \/ set_approved_minter(a) \/ remove_approved_minter(a)
                                 \/ add_to_blacklist(a) \/ remove_from_blacklist(a)
    PROVE  MintInv' /\ SameTokens(committed', committed)
<1>1. IsRecord(committed) /\ IdsTyped(committed) /\ TokensTyped(committed) /\ IndicesTyped(committed)
      /\ StoreInv(committed)
  BY Busy, StoreIs DEF StoreInv
<1>2. ASSUME NEW s, IsRecord(s), IdsTyped(s), SameTokens(s, committed), s.admin # None, Entry(s)
      PROVE  MintInv' /\ SameTokens(committed', committed)
  <2>1. TokensTyped(s) /\ IndicesTyped(s)
    BY <1>1, <1>2 DEF SameTokens, TokensTyped, IndicesTyped
  <2>2. s \in Store
    BY <1>2, <2>1, StoreIs
  <2>3. StoreInv(s)
    BY <1>1, <1>2, <2>2, AccessKeeps
  <2>4. QED
    BY <1>2, <2>3, EntryIs, Returns
<1>3. ASSUME NEW a \in Caller, init(a) PROVE MintInv' /\ SameTokens(committed', committed)
  <2> DEFINE s == [committed EXCEPT !.admin = a, !.nextTokenId = 0]
  <2>1. Entry(s) /\ committed.admin = None /\ a \in Address /\ a # None
    BY <1>3, Idle, Constants DEF init, Entry, Caller
  <2>2. committed.nextTokenId = 0
    BY <1>1, <2>1 DEF StoreInv
  <2>3. IsRecord(s) /\ s.admin # None /\ SameTokens(s, committed)
    <3>1. s = [committed EXCEPT !.admin = a, !.nextTokenId = 0]
      OBVIOUS
    <3> HIDE DEF s
    <3>2. IsRecord(s) /\ s.admin = a /\ SameTokens(s, committed)
      BY <1>1, <2>2, <3>1, AdminIs
    <3>3. QED
      BY <2>1, <3>2
  <2>4. IdsTyped(s)
    BY <1>1, <2>1, Constants DEF IsRecord, IdsTyped
  <2> HIDE DEF s
  <2>5. QED
    BY <1>2, <2>1, <2>3, <2>4
<1>4. ASSUME NEW a \in Address,
             \/ set_approved_minter(a) \/ remove_approved_minter(a)
             \/ add_to_blacklist(a) \/ remove_from_blacklist(a)
      PROVE  MintInv' /\ SameTokens(committed', committed)
  <2>1. call = NoCall /\ store = committed /\ committed.admin # None
    BY <1>4, Idle DEF set_approved_minter, remove_approved_minter, add_to_blacklist,
                      remove_from_blacklist, Administered, Entry
  <2>2. PICK m \in SUBSET Address, b \in SUBSET Address :
            Entry([committed EXCEPT !.minters = m, !.blacklisted = b])
    <3>1. committed.minters \in SUBSET Address /\ committed.blacklisted \in SUBSET Address
      BY <1>1 DEF IdsTyped
    <3>2. /\ \A m : [committed EXCEPT !.minters = m] =
                    [committed EXCEPT !.minters = m, !.blacklisted = committed.blacklisted]
          /\ \A b : [committed EXCEPT !.blacklisted = b] =
                    [committed EXCEPT !.minters = committed.minters, !.blacklisted = b]
      <4>1. ASSUME NEW c, IsRecord(c), NEW m, NEW b
            PROVE  /\ [c EXCEPT !.minters = m] =
                      [c EXCEPT !.minters = m, !.blacklisted = c.blacklisted]
                   /\ [c EXCEPT !.blacklisted = b] =
                      [c EXCEPT !.minters = c.minters, !.blacklisted = b]
        BY <4>1 DEF IsRecord
      <4>2. QED
        BY <1>1, <4>1
    <3>3. /\ committed.minters \cup {a} \in SUBSET Address
          /\ committed.minters \ {a} \in SUBSET Address
          /\ committed.blacklisted \cup {a} \in SUBSET Address
          /\ committed.blacklisted \ {a} \in SUBSET Address
      BY <3>1
    <3>4. CASE set_approved_minter(a)
      BY <2>1, <3>1, <3>2, <3>3, <3>4, ZenonT(60) DEF set_approved_minter, Administered
    <3>5. CASE remove_approved_minter(a)
      BY <2>1, <3>1, <3>2, <3>3, <3>5, ZenonT(60) DEF remove_approved_minter, Administered
    <3>6. CASE add_to_blacklist(a)
      BY <2>1, <3>1, <3>2, <3>3, <3>6 DEF add_to_blacklist, Administered
    <3>7. CASE remove_from_blacklist(a)
      BY <2>1, <3>1, <3>2, <3>3, <3>7 DEF remove_from_blacklist, Administered
    <3>8. QED
      BY <1>4, <3>4, <3>5, <3>6, <3>7
  <2> DEFINE s == [committed EXCEPT !.minters = m, !.blacklisted = b]
  <2>3. s = [committed EXCEPT !.minters = m, !.blacklisted = b] /\ Entry(s)
    BY <2>2
  <2>4. IdsTyped(s)
    BY <1>1 DEF IsRecord, IdsTyped
  <2> HIDE DEF s
  <2>5. IsRecord(s) /\ s.admin = committed.admin /\ SameTokens(s, committed)
    <3>1. IsRecord(committed)
      BY <1>1
    <3>2. QED
      BY <2>3, <3>1 DEF IsRecord, SameTokens
  <2>6. QED
    BY <1>2, <2>1, <2>3, <2>4, <2>5
<1>5. QED
  BY <1>3, <1>4

LEMMA CreatorChanges ==
    ASSUME MintInv, NEW t \in TokenId, NEW who \in Address, reassign_creator(t, who)
    PROVE  MintInv' /\ Recreated(committed', committed)
<1>1. store = committed /\ StoreInv(committed)
  BY Idle DEF reassign_creator, Administered, Entry
<1> DEFINE s == [committed EXCEPT !.creator[t] = who]
<1>2. committed.tokenData[t] # None /\ Entry(s)
  BY <1>1 DEF reassign_creator, Administered
<1>3. s = [committed EXCEPT !.creator[t] = who]
  OBVIOUS
<1> HIDE DEF s
<1>4. StoreInv(s)
  BY <1>1, <1>2, <1>3, CreatorKeeps
<1>5. committed' = s /\ MintInv'
  BY <1>2, <1>4, EntryIs, Returns
<1>6. QED
  BY <1>2, <1>3, <1>5 DEF Recreated

LEMMA TokenBurns ==
    ASSUME MintInv, NEW t \in TokenId, burn_token(t)
    PROVE  /\ MintInv' /\ committed.tokenData[t] # None /\ committed.tokenOwner[t] # None
           /\ BurnedBy(committed', committed, t)
<1>1. store = committed /\ StoreInv(committed) /\ committed \in Store
  BY Idle DEF burn_token, Entry
<1>2. PICK s : /\ s = [committed EXCEPT
                           !.ownerTokens[committed.tokenOwner[t]] = @ \ {t},
                           !.walletTokens[committed.tokenOwner[t]] = @ \ {t},
                           !.tokenOwner[t] = None, !.tokenData[t] = None, !.royalty[t] = None,
                           !.metadataIndex[committed.metadata[t]] = None, !.metadata[t] = None,
                           !.burned = @ \cup {t}]
               /\ Entry(s) /\ committed.tokenData[t] # None /\ committed.tokenOwner[t] # None
  BY <1>1 DEF burn_token
<1>3. IsRecord(s) /\ BurnedBy(s, committed, t)
  BY <1>1, <1>2, BurnIs
<1>4. StoreInv(s)
  BY <1>1, <1>2, <1>3, BurnKeeps
<1>5. QED
  BY <1>2, <1>3, <1>4, EntryIs, Returns

LEMMA Stutters ==
    ASSUME MintInv, UNCHANGED mintVars
    PROVE  MintInv'
<1>1. store' = store /\ committed' = committed /\ call' = call
  BY DEF mintVars
<1>2. CASE call = NoCall /\ store = committed
  BY <1>1, <1>2 DEF MintInv
<1>3. CASE MintRuns
  <2>1. MintStarted(call.params)'
    BY <1>1, <1>3, RoyaltyChecksFixed DEF MintRuns, MintStarted
  <2>2. MintRuns'
    BY <1>1, <1>3, <2>1 DEF MintRuns, WrittenBy, StepsTo
  <2>3. QED
    BY <1>1, <2>2 DEF MintInv
<1>4. CASE BatchRuns
  <2>1. BatchStarted(committed, call.requests)'
    BY <1>1, <1>4, BatchFixed DEF BatchRuns
  <2>2. /\ BatchAt(store, committed, call.requests, Done)' <=>
               BatchAt(store, committed, call.requests, Done)
        /\ FailedAt(store, committed, call.requests, Done)' <=>
               FailedAt(store, committed, call.requests, Done)
    BY <1>1, BatchFixed DEF Done
  <2>3. BatchRuns'
    BY <1>1, <1>4, <2>1, <2>2 DEF BatchRuns, BatchUntouched, BatchIndexed, Indexed, Listed, IdsFor, Ids,
       RevertedAt, SameItem, Done, Flushed
  <2>4. QED
    BY <1>1, <2>3 DEF MintInv
<1>5. QED
  BY <1>2, <1>3, <1>4 DEF MintInv

LEMMA Aborts ==
    ASSUME MintInv, Abort
    PROVE  MintInv' /\ committed' = committed
BY Busy, Returns DEF Abort

LEMMA Begins ==
    ASSUME MintInv, BeginMint
    PROVE  MintInv' /\ committed' = committed
<1>1. CASE \E params \in MintParams : begin_mint(params)
  <2>1. PICK p \in MintParams : begin_mint(p)
    BY <1>1
  <2>2. store' \in Store /\ committed' = committed /\ MintRuns'
    BY <2>1, Idle, MintBegins DEF begin_mint, Begin
  <2>3. QED
    BY <2>2, Busy DEF MintInv
<1>2. CASE \E c \in Caller, requests \in Batches : begin_batch_mint(c, requests)
  <2>1. PICK c \in Caller, requests \in Batches : begin_batch_mint(c, requests)
    BY <1>2
  <2>2. store' \in Store /\ committed' = committed /\ BatchRuns'
    BY <2>1, Idle, BatchBegins DEF begin_batch_mint, Begin
  <2>3. QED
    BY <2>2, Busy DEF MintInv
<1>3. QED
  BY <1>1, <1>2 DEF BeginMint

\* The kind of call each step belongs to.
LEMMA Kinds ==
    /\ assign_owner \/ set_metadata \/ set_royalty \/ set_creator_with_name
       \/ add_token_to_creator \/ save_clip_id \/ add_token_to_wallet
       \/ mark_signature_used \/ increment_total_supply \/ commit_token_id
       \/ RevertMint => call.kind = "mint"
    /\ mint_item \/ mint_item_fails \/ finish_batch \/ RevertBatch => call.kind = "batch"
BY DEF assign_owner, set_metadata, set_royalty, set_creator_with_name, add_token_to_creator,
       save_clip_id, add_token_to_wallet, mark_signature_used, increment_total_supply,
       commit_token_id, RevertMint, mint_item, mint_item_fails, finish_batch, RevertBatch,
       Write, Turn, Running, ItemDue

LEMMA MintGoesOn ==
    ASSUME MintInv,
           \/ assign_owner \/ set_metadata \/ set_royalty \/ set_creator_with_name
           \/ add_token_to_creator \/ save_clip_id \/ add_token_to_wallet
           \/ mark_signature_used \/ increment_total_supply \/ RevertMint
           \/ mint_item \/ mint_item_fails \/ RevertBatch
    PROVE  MintInv' /\ committed' = committed
<1>1. store \in Store /\ StoreInv(committed)
      /\ (call.kind = "mint" => MintRuns) /\ (call.kind = "batch" => BatchRuns)
  BY Busy
<1>2. CASE \/ assign_owner \/ set_metadata \/ set_royalty \/ set_creator_with_name
           \/ add_token_to_creator \/ save_clip_id \/ mark_signature_used
  <2>1. MintRuns
    BY <1>1, <1>2, Kinds
  <2>2. store' \in Store /\ committed' = committed /\ MintRuns'
    BY <1>1, <1>2, <2>1, MintWrites
  <2>3. QED
    BY <1>1, <2>2 DEF MintInv
<1>3. CASE add_token_to_wallet \/ increment_total_supply
  <2>1. MintRuns
    BY <1>1, <1>3, Kinds
  <2>2. store' \in Store /\ committed' = committed /\ MintRuns'
    BY <1>1, <1>3, <2>1, MintWritesOrFails
  <2>3. QED
    BY <1>1, <2>2 DEF MintInv
<1>4. CASE RevertMint
  <2>1. MintRuns
    BY <1>1, <1>4, Kinds
  <2>2. store' \in Store /\ committed' = committed /\ MintRuns'
    BY <1>1, <1>4, <2>1, MintReverts
  <2>3. QED
    BY <1>1, <2>2 DEF MintInv
<1>5. CASE mint_item \/ mint_item_fails \/ RevertBatch
  <2>1. BatchRuns
    BY <1>1, <1>5, Kinds
  <2>2. store' \in Store /\ committed' = committed /\ BatchRuns'
    BY <1>1, <1>5, <2>1, MintsItem, ItemFails, BatchReverts
  <2>3. QED
    BY <1>1, <2>2 DEF MintInv
<1>6. QED
  BY <1>2, <1>3, <1>4, <1>5

LEMMA MintReturns ==
    ASSUME MintInv, commit_token_id
    PROVE  /\ MintInv'
           /\ call.params \in MintParams /\ MintStarted(call.params)
           /\ committed.nextTokenId \notin committed.walletTokens[call.params.owner]
           /\ MintedBy(committed', committed, call.params)
<1>1. MintRuns /\ store \in Store /\ StoreInv(committed)
  BY Busy, Kinds
<1>2. /\ store' \in Store /\ committed' = store' /\ call' = NoCall
      /\ MintedBy(committed', committed, call.params)
      /\ MintStarted(call.params)
      /\ committed.nextTokenId \notin committed.walletTokens[call.params.owner]
  BY <1>1, MintCommits
<1>3. PICK s, p : s = store' /\ p = call.params
  OBVIOUS
<1>4. /\ s \in Store /\ p \in MintParams /\ MintedBy(s, committed, p)
      /\ committed.admin # None /\ committed.nextTokenId < MaxTokens
      /\ committed.clipToken[p.clip] = None
  BY <1>2, <1>3 DEF MintStarted
<1>5. StoreInv(s)
  BY <1>1, <1>4, MintedKeeps
<1>6. MintInv'
  BY <1>2, <1>3, <1>5, Returns
<1>7. QED
  BY <1>2, <1>6 DEF MintStarted

LEMMA BatchReturns ==
    ASSUME MintInv, finish_batch
    PROVE  /\ MintInv'
           /\ BatchStarted(committed, call.requests)
           /\ Len(call.requests) \in Nat
           /\ committed.nextTokenId + Len(call.requests) < MaxTokens
           /\ BatchedBy(committed', committed, call.requests, Len(call.requests))
<1>1. BatchRuns /\ store \in Store /\ StoreInv(committed)
  BY Busy, Kinds
<1>2. /\ store' \in Store /\ committed' = store' /\ call' = NoCall
      /\ BatchStarted(committed, call.requests)
      /\ BatchedBy(store', committed, call.requests, Len(call.requests))
      /\ committed.nextTokenId + Len(call.requests) < MaxTokens
  BY <1>1, BatchFinishes
<1>3. PICK s, c, requests, n :
          s = store' /\ c = committed /\ requests = call.requests /\ n = Len(call.requests)
  OBVIOUS
<1>4. /\ s \in Store /\ BatchStarted(c, requests) /\ BatchedBy(s, c, requests, n)
      /\ c.nextTokenId + n < MaxTokens /\ StoreInv(c) /\ n = Len(requests)
  BY <1>1, <1>2, <1>3
<1>5. n \in Nat
  BY <1>4, BatchItemsTyped
<1>6. StoreInv(s)
  BY <1>4, <1>5, BatchKeeps
<1>7. MintInv'
  BY <1>2, <1>3, <1>6, Returns
<1>8. BatchedBy(committed', committed, call.requests, Len(call.requests))
  BY <1>2
<1>9. QED
  BY <1>2, <1>3, <1>5, <1>7, <1>8

\* What one step makes of what the last finished call left.
Changed(s2) ==
    \/ SameTokens(s2, committed)
    \/ Recreated(s2, committed)
    \/ Burned(s2, committed)
    \/ Minted(s2)
    \/ Batched(s2)

LEMMA MintStep ==
    ASSUME MintInv, [MintNext]_mintVars
    PROVE  MintInv' /\ Changed(committed')
<1>1. committed' = committed => Changed(committed')
  BY DEF Changed, SameTokens
<1>2. CASE UNCHANGED mintVars
  BY <1>1, <1>2, Stutters DEF mintVars
<1>3. CASE OneStepCalls
  <2>1. CASE \/ \E a \in Caller : init(a)
             \/ \E a \in Address : \/ set_approved_minter(a) \/ remove_approved_minter(a)
                                   \/ add_to_blacklist(a) \/ remove_from_blacklist(a)
    BY <2>1, ListsChange DEF Changed
  <2>2. CASE \E t \in TokenId, who \in Address : reassign_creator(t, who)
    BY <2>2, CreatorChanges DEF Changed
  <2>3. CASE \E t \in TokenId : burn_token(t)
    BY <2>3, TokenBurns DEF Changed, Burned
  <2>4. QED
    BY <1>3, <2>1, <2>2, <2>3 DEF OneStepCalls
<1>4. CASE BeginMint
  BY <1>1, <1>4, Begins
<1>5. CASE commit_token_id
  BY <1>5, MintReturns DEF Changed, Minted
<1>6. CASE finish_batch
  <2>1. PICK requests, n : requests = call.requests /\ n = Len(call.requests)
    OBVIOUS
  <2>2. /\ n \in Nat /\ BatchStarted(committed, requests) /\ n = Len(requests)
        /\ committed.nextTokenId + n < MaxTokens
        /\ BatchedBy(committed', committed, requests, n)
    BY <1>6, <2>1, BatchReturns
  <2>3. Batched(committed')
    BY <2>2 DEF Batched
  <2>4. QED
    BY <1>6, <2>3, BatchReturns DEF Changed
<1>7. CASE Abort
  BY <1>1, <1>7, Aborts
<1>8. QED
  BY <1>1, <1>2, <1>3, <1>4, <1>5, <1>6, <1>7, MintGoesOn DEF MintNext, ResumeMint

-----------------------------------------------------------------------------
(* What no step of the mints may do *)

\* The clips of s2 that have a token in s have the same one.
ClipsKept(s2, s) == \A x \in Clip : s.clipToken[x] # None => s2.clipToken[x] = s.clipToken[x]

\* A token has no record, or no owner, only before its mint or after its burn.
RecordsKept(s2, s) ==
    \A t \in TokenId :
        /\ s.tokenData[t] # None \/ t \in s.burned => s2.tokenData[t] # None \/ t \in s2.burned
        /\ s.tokenOwner[t] # None \/ t \in s.burned => s2.tokenOwner[t] # None \/ t \in s2.burned

\* Only the atomic mint makes an owner record, of the next token.
OwnersMade(s2, s) ==
    \A t \in TokenId :
        s.tokenOwner[t] = None /\ s2.tokenOwner[t] # None =>
            s2.usedSignatures \ s.usedSignatures # {} /\ t = s.nextTokenId

\* The URI of a recorded token stays until the token is burned or gets its owner.
UrisKept(s2, s) ==
    \A t \in TokenId :
        s.tokenData[t] # None /\ s2.tokenData[t] # None /\ s2.metadata[t] # s.metadata[t] =>
            s.tokenOwner[t] = None /\ s2.tokenOwner[t] # None

Kept(s2, s) ==
    ClipsKept(s2, s) /\ RecordsKept(s2, s) /\ OwnersMade(s2, s) /\ UrisKept(s2, s)

LEMMA ListsKeep ==
    ASSUME NEW s, NEW s2, SameTokens(s2, s)
    PROVE  Kept(s2, s)
BY DEF SameTokens, Kept, ClipsKept, RecordsKept, OwnersMade, UrisKept

LEMMA RecreatedKeeps ==
    ASSUME NEW s, StoreInv(s), NEW s2, Recreated(s2, s)
    PROVE  Kept(s2, s)
<1>1. PICK v : s2 = [s EXCEPT !.creator = v]
  BY DEF Recreated
<1>2. IsRecord(s)
  BY StoreIs DEF StoreInv
<1>3. /\ s2.clipToken = s.clipToken /\ s2.tokenData = s.tokenData /\ s2.burned = s.burned
      /\ s2.tokenOwner = s.tokenOwner /\ s2.metadata = s.metadata
  BY <1>1, <1>2 DEF IsRecord
<1>4. QED
  BY <1>3 DEF Kept, ClipsKept, RecordsKept, OwnersMade, UrisKept

LEMMA BurnedKeeps ==
    ASSUME NEW s, StoreInv(s), NEW s2, NEW t \in TokenId, BurnedBy(s2, s, t)
    PROVE  Kept(s2, s)
<1>1. TokensTyped(s)
  BY StoreIs DEF StoreInv
<1>2. /\ s2.clipToken = s.clipToken /\ t \in s2.burned /\ s.burned \subseteq s2.burned
      /\ s2.tokenOwner[t] = None /\ s2.tokenData[t] = None
      /\ \A x \in TokenId \ {t} : /\ s2.tokenData[x] = s.tokenData[x]
                                  /\ s2.tokenOwner[x] = s.tokenOwner[x]
                                  /\ s2.metadata[x] = s.metadata[x]
  BY <1>1 DEF BurnedBy, TokensTyped
<1>3. QED
  BY <1>2 DEF Kept, ClipsKept, RecordsKept, OwnersMade, UrisKept

LEMMA MintedKeepsOthers ==
    ASSUME NEW s, StoreInv(s), NEW s2, NEW p \in MintParams, MintedBy(s2, s, p),
           s.nextTokenId < MaxTokens, s.clipToken[p.clip] = None,
           p.signature \notin s.usedSignatures
    PROVE  Kept(s2, s)
<1> DEFINE t == s.nextTokenId
<1>1. TokensTyped(s) /\ IndicesTyped(s) /\ IdsTyped(s)
  BY StoreIs DEF StoreInv
<1>2. t \in TokenId /\ s.tokenOwner[t] = None /\ t \notin s.burned
  <2>1. t \in TokenId /\ t >= t
    BY <1>1, Constants DEF IdsTyped, TokenId
  <2>2. TokenInv(s, t)
    BY <2>1 DEF StoreInv
  <2> HIDE DEF t
  <2>3. QED
    BY <2>1, <2>2 DEF TokenInv, t
<1>3. p.owner # None /\ p.clip \in Clip
  BY Constants DEF MintParams, Caller
<1>4. /\ s2.burned = s.burned
      /\ s2.tokenOwner[t] # None /\ s2.tokenData[t] # None
      /\ \A x \in TokenId \ {t} : /\ s2.tokenData[x] = s.tokenData[x]
                                  /\ s2.tokenOwner[x] = s.tokenOwner[x]
                                  /\ s2.metadata[x] = s.metadata[x]
      /\ p.signature \in s2.usedSignatures
      /\ \A x \in Clip \ {p.clip} : s2.clipToken[x] = s.clipToken[x]
  BY <1>1, <1>2, <1>3 DEF MintedBy, TokensTyped, IndicesTyped
<1> HIDE DEF t
<1>5. ClipsKept(s2, s)
  BY <1>4 DEF ClipsKept
<1>6. RecordsKept(s2, s)
  BY <1>2, <1>4 DEF RecordsKept
<1>7. OwnersMade(s2, s)
  BY <1>4 DEF OwnersMade, t
<1>8. UrisKept(s2, s)
  BY <1>2, <1>4 DEF UrisKept
<1>9. QED
  BY <1>5, <1>6, <1>7, <1>8 DEF Kept

LEMMA BatchedKeepsOthers ==
    ASSUME NEW c, StoreInv(c), NEW requests, BatchStarted(c, requests), NEW n \in Nat,
           n = Len(requests), NEW s2, BatchedBy(s2, c, requests, n)
    PROVE  Kept(s2, c)
<1>1. c.nextTokenId \in Nat
  BY StoreIs, Constants DEF StoreInv, IdsTyped
<1>2. /\ ItemsDone(s2, c, requests, n, {})
      /\ s2.tokenOwner = c.tokenOwner /\ s2.burned = c.burned
      /\ \A x \in Clip :
             (\A i \in 1 .. n : requests[i].clip # x) => s2.clipToken[x] = c.clipToken[x]
  BY DEF BatchedBy, BatchAt, BatchUntouched
<1>3. \A i \in 1 .. n : c.clipToken[requests[i].clip] = None
  BY BatchItemsTyped DEF BatchStarted
<1>4. ASSUME NEW t \in TokenId
      PROVE  /\ t \in Ids(c, n) =>
                    c.tokenData[t] = None /\ c.tokenOwner[t] = None /\ t \notin c.burned
             /\ t \notin Ids(c, n) =>
                    s2.tokenData[t] = c.tokenData[t] /\ s2.metadata[t] = c.metadata[t]
  <2>1. t \in Ids(c, n) => t > c.nextTokenId /\ t >= c.nextTokenId
    BY <1>1, Constants DEF Ids
  <2>2. TokenInv(c, t)
    BY DEF StoreInv
  <2>3. t \notin Ids(c, n) => SameItem(s2, t, c)
    BY <1>2 DEF ItemsDone
  <2>4. QED
    BY <2>1, <2>2, <2>3 DEF TokenInv, SameItem
<1>5. ClipsKept(s2, c)
  BY <1>2, <1>3 DEF ClipsKept
<1>6. RecordsKept(s2, c)
  BY <1>2, <1>4 DEF RecordsKept
<1>7. OwnersMade(s2, c)
  BY <1>2 DEF OwnersMade
<1>8. UrisKept(s2, c)
  BY <1>4 DEF UrisKept
<1>9. QED
  BY <1>5, <1>6, <1>7, <1>8 DEF Kept

LEMMA StepKeeps ==
    ASSUME MintInv, [MintNext]_mintVars
    PROVE  MintInv' /\ Kept(committed', committed)
<1>1. MintInv' /\ Changed(committed') /\ StoreInv(committed)
  BY MintStep, Busy
<1>2. CASE SameTokens(committed', committed)
  BY <1>1, <1>2, ListsKeep
<1>3. CASE Recreated(committed', committed)
  BY <1>1, <1>3, RecreatedKeeps
<1>4. CASE Burned(committed', committed)
  BY <1>1, <1>4, BurnedKeeps DEF Burned
<1>5. CASE Minted(committed')
  <2>1. PICK p \in MintParams : MintStarted(p) /\ MintedBy(committed', committed, p)
    BY <1>5 DEF Minted
  <2>2. /\ committed.nextTokenId < MaxTokens /\ committed.clipToken[p.clip] = None
        /\ p.signature \notin committed.usedSignatures
    BY <2>1 DEF MintStarted
  <2>3. QED
    BY <1>1, <2>1, <2>2, MintedKeepsOthers
<1>6. CASE Batched(committed')
  <2>1. PICK requests : \E n \in Nat :
            /\ BatchStarted(committed, requests) /\ n = Len(requests)
            /\ BatchedBy(committed', committed, requests, n)
    BY <1>6 DEF Batched
  <2>2. PICK n \in Nat : /\ BatchStarted(committed, requests) /\ n = Len(requests)
                         /\ BatchedBy(committed', committed, requests, n)
    BY <2>1
  <2>3. QED
    BY <1>1, <2>2, BatchedKeepsOthers
<1>7. QED
  BY <1>1, <1>2, <1>3, <1>4, <1>5, <1>6 DEF Changed

-----------------------------------------------------------------------------
(* The metadata calls *)

\* s2 is s with the URI of t replaced.
UpdatedBy(s2, s, t, uri) ==
    s2 = [s EXCEPT !.metadataIndex = reindex(@, t, s.metadata[t], uri), !.metadata[t] = uri]

\* s2 differs from s in the URIs and their index only.
SameButUris(s2, s) ==
    /\ s2.tokenOwner = s.tokenOwner /\ s2.tokenData = s.tokenData
    /\ s2.burned = s.burned /\ s2.nextTokenId = s.nextTokenId
    /\ s2.royalty = s.royalty /\ s2.royaltyPercentage = s.royaltyPercentage
    /\ s2.royaltyRecipient = s.royaltyRecipient
    /\ s2.creator = s.creator /\ s2.creatorTokens = s.creatorTokens
    /\ s2.tokenClip = s.tokenClip /\ s2.clipToken = s.clipToken
    /\ s2.ownerTokens = s.ownerTokens /\ s2.walletTokens = s.walletTokens
    /\ s2.totalSupply = s.totalSupply /\ s2.admin = s.admin
    /\ s2.unsynced = s.unsynced /\ s2.usedSignatures = s.usedSignatures
    /\ s2.minters = s.minters /\ s2.blacklisted = s.blacklisted

LEMMA UpdateIs ==
    ASSUME NEW s \in Store, NEW t \in TokenId, NEW uri \in Uri, s.metadata[t] # None,
           NEW s2, UpdatedBy(s2, s, t, uri)
    PROVE  /\ s2 \in Store
           /\ SameButUris(s2, s)
           /\ s2.metadata = [s.metadata EXCEPT ![t] = uri]
           /\ \A u \in Uri : s2.metadataIndex[u] = IF u = uri THEN t
                                                   ELSE IF u = s.metadata[t] THEN None
                                                   ELSE s.metadataIndex[u]
<1>1. IsRecord(s) /\ IdsTyped(s) /\ TokensTyped(s) /\ IndicesTyped(s)
  BY StoreIs
<1>2. PICK index, uris : /\ index = reindex(s.metadataIndex, t, s.metadata[t], uri)
                         /\ uris = [s.metadata EXCEPT ![t] = uri]
  OBVIOUS
<1>3. s2 = [s EXCEPT !.metadataIndex = index, !.metadata = uris]
  BY <1>1, <1>2 DEF IsRecord, UpdatedBy
<1>4. /\ IsRecord(s2) /\ s2.metadataIndex = index /\ s2.metadata = uris
      /\ SameButUris(s2, s)
  BY <1>1, <1>3 DEF IsRecord, SameButUris
<1>5. uris \in [TokenId -> Uri \cup {None}]
  BY <1>1, <1>2 DEF TokensTyped
<1>6. s.metadataIndex \in [Uri -> TokenId \cup {None}] /\ s.metadata[t] \in Uri
  BY <1>1 DEF IndicesTyped, TokensTyped
<1>7. /\ index \in [Uri -> TokenId \cup {None}]
      /\ \A u \in Uri : index[u] = IF u = uri THEN t
                                   ELSE IF u = s.metadata[t] THEN None
                                   ELSE s.metadataIndex[u]
  BY <1>2, <1>6 DEF reindex
<1>8. IdsTyped(s2) /\ TokensTyped(s2) /\ IndicesTyped(s2)
  <2>1. IdsTyped(s2)
    BY <1>1, <1>3 DEF IsRecord, IdsTyped
  <2>2. TokensTyped(s2)
    BY <1>1, <1>3, <1>5 DEF IsRecord, TokensTyped
  <2>3. IndicesTyped(s2)
    BY <1>1, <1>3, <1>7 DEF IsRecord, IndicesTyped
  <2>4. QED
    BY <2>1, <2>2, <2>3
<1>9. s2 \in Store
  BY <1>4, <1>8, StoreIs
<1>10. QED
  BY <1>2, <1>4, <1>7, <1>9

LEMMA UpdateKeeps ==
    ASSUME NEW s, StoreInv(s), NEW t \in TokenId, NEW uri \in Uri,
           s.tokenOwner[t] # None, s.metadata[t] # None,
           NEW s2, UpdatedBy(s2, s, t, uri)
    PROVE  StoreInv(s2)
<1>1. s \in Store /\ TokensTyped(s)
  BY StoreIs DEF StoreInv
<1>2. /\ s2 \in Store
      /\ s2.metadata = [s.metadata EXCEPT ![t] = uri]
      /\ \A u \in Uri : s2.metadataIndex[u] = IF u = uri THEN t
                                              ELSE IF u = s.metadata[t] THEN None
                                              ELSE s.metadataIndex[u]
      /\ SameButUris(s2, s)
  BY <1>1, UpdateIs
<1>3. /\ s2.tokenOwner = s.tokenOwner /\ s2.tokenData = s.tokenData
      /\ s2.burned = s.burned /\ s2.nextTokenId = s.nextTokenId
      /\ s2.royalty = s.royalty /\ s2.royaltyPercentage = s.royaltyPercentage
      /\ s2.royaltyRecipient = s.royaltyRecipient
      /\ s2.creator = s.creator /\ s2.creatorTokens = s.creatorTokens
      /\ s2.tokenClip = s.tokenClip /\ s2.clipToken = s.clipToken
      /\ s2.ownerTokens = s.ownerTokens /\ s2.walletTokens = s.walletTokens
      /\ s2.totalSupply = s.totalSupply /\ s2.admin = s.admin
      /\ s2.unsynced = s.unsynced
  BY <1>2 DEF SameButUris
<1>4. /\ s2.metadata[t] = uri
      /\ \A x \in TokenId \ {t} : s2.metadata[x] = s.metadata[x]
  BY <1>1, <1>2 DEF TokensTyped
<1>5. ASSUME NEW x \in TokenId PROVE TokenInv(s2, x)
  <2>1. TokenInv(s, x) /\ TokenInv(s, t)
    BY DEF StoreInv
  <2>2. s.tokenData[x] = None => x # t
    BY <2>1 DEF TokenInv
  <2>3. x # t /\ Blank(s, x) => Blank(s2, x)
    BY <1>2, <1>3, <1>4, Constants DEF Blank
  <2> HIDE DEF Blank
  <2>4. QED
    BY <1>3, <2>1, <2>2, <2>3 DEF TokenInv
<1>6. ASSUME NEW u \in Uri PROVE UriInv(s2, u)
  <2>1. UriInv(s, u)
    BY DEF StoreInv
  <2>2. CASE u = uri
    BY <1>2, <1>4, <2>2 DEF UriInv
  <2>3. CASE u # uri /\ u = s.metadata[t]
    BY <1>2, <2>3 DEF UriInv
  <2>4. CASE u # uri /\ u # s.metadata[t]
    <3>1. s2.metadataIndex[u] = s.metadataIndex[u]
      BY <1>2, <2>4
    <3>2. s.metadataIndex[u] \in TokenId \cup {None}
      BY <1>1, StoreIs DEF IndicesTyped
    <3>3. QED
      BY <1>3, <1>4, <2>1, <2>4, <3>1, <3>2 DEF UriInv
  <2>5. QED
    BY <2>2, <2>3, <2>4
<1>7. CountInv(s2)
  BY <1>3 DEF StoreInv, CountInv, ClipsIn
<1>8. s2.admin = None => s2.nextTokenId = 0
  BY <1>3 DEF StoreInv
<1>9. QED
  BY <1>2, <1>5, <1>6, <1>7, <1>8 DEF StoreInv

LEMMA Updates ==
    ASSUME MintInv, NEW c \in Caller, NEW t \in TokenId, NEW uri \in Uri,
           update_metadata(c, t, uri)
    PROVE  /\ MintInv' /\ StoreInv(committed)
           /\ committed.tokenOwner[t] # None /\ committed.metadata[t] # None
           /\ t \notin metadataUpdated /\ t \in metadataUpdated'
           /\ metadataUpdated' = metadataUpdated \cup {t} /\ frozen' = frozen
           /\ UpdatedBy(committed', committed, t, uri)
<1>1. call = NoCall /\ store = committed /\ StoreInv(committed)
  BY Idle DEF update_metadata, Entry
<1>2. PICK s : s = [committed EXCEPT !.metadataIndex = reindex(@, t, committed.metadata[t], uri),
                                     !.metadata[t] = uri]
  OBVIOUS
<1>3. /\ Entry(s) /\ UpdatedBy(s, committed, t, uri)
      /\ committed.tokenOwner[t] # None /\ committed.metadata[t] # None
      /\ t \notin metadataUpdated /\ metadataUpdated' = metadataUpdated \cup {t}
      /\ frozen' = frozen
  BY <1>1, <1>2 DEF update_metadata, UpdatedBy, check_metadata_update, check_token_exists,
                    check_update_policy, Administrators
<1>4. StoreInv(s)
  BY <1>1, <1>3, UpdateKeeps
<1>5. MintInv' /\ committed' = s
  BY <1>3, <1>4, EntryIs, Returns
<1>6. QED
  BY <1>1, <1>3, <1>5

LEMMA Freezes ==
    ASSUME MintInv, NEW t \in TokenId, freeze_token(t) \/ unfreeze_token(t)
    PROVE  /\ MintInv' /\ committed' = committed /\ metadataUpdated' = metadataUpdated
           /\ frozen' \subseteq frozen \cup {t}
           /\ t \in frozen' => committed.tokenData[t] # None
<1>1. /\ call = NoCall /\ store = committed /\ StoreInv(committed)
      /\ Entry(committed)
  BY Idle DEF freeze_token, unfreeze_token, Administered, Entry
<1>2. MintInv' /\ committed' = committed
  BY <1>1, EntryIs, Returns
<1>3. CASE freeze_token(t)
  BY <1>1, <1>2, <1>3 DEF freeze_token, require_active
<1>4. CASE unfreeze_token(t)
  BY <1>1, <1>2, <1>4 DEF unfreeze_token
<1>5. QED
  BY <1>3, <1>4

-----------------------------------------------------------------------------
(* The invariant *)

\* The marks outlive a token and never come before it.
UpdatesInv ==
    \A t \in TokenId :
        /\ t \in frozen => committed.tokenData[t] # None \/ t \in committed.burned
        /\ t \in metadataUpdated => committed.tokenOwner[t] # None \/ t \in committed.burned

LEMMA MetadataStep ==
    ASSUME MintInv, UpdatesInv, [MetadataNext]_metadataVars
    PROVE  MintInv' /\ UpdatesInv'
<1>1. CASE [MintNext]_mintVars /\ UNCHANGED updateVars
  <2>1. MintInv' /\ RecordsKept(committed', committed)
    BY <1>1, StepKeeps DEF Kept
  <2>2. frozen' = frozen /\ metadataUpdated' = metadataUpdated
    BY <1>1 DEF updateVars
  <2>3. QED
    BY <2>1, <2>2 DEF UpdatesInv, RecordsKept
<1>2. CASE \E t \in TokenId : freeze_token(t) \/ unfreeze_token(t)
  <2>1. PICK t \in TokenId : freeze_token(t) \/ unfreeze_token(t)
    BY <1>2
  <2>2. /\ MintInv' /\ committed' = committed /\ metadataUpdated' = metadataUpdated
        /\ frozen' \subseteq frozen \cup {t}
        /\ t \in frozen' => committed.tokenData[t] # None
    BY <2>1, Freezes
  <2>3. UpdatesInv'
    BY <2>2 DEF UpdatesInv
  <2>4. QED
    BY <2>2, <2>3
<1>3. CASE \E c \in Caller, t \in TokenId, uri \in Uri : update_metadata(c, t, uri)
  <2>1. PICK c \in Caller, t \in TokenId, uri \in Uri : update_metadata(c, t, uri)
    BY <1>3
  <2>2. /\ MintInv' /\ StoreInv(committed) /\ committed.tokenOwner[t] # None
        /\ committed.metadata[t] # None
        /\ metadataUpdated' = metadataUpdated \cup {t} /\ frozen' = frozen
        /\ UpdatedBy(committed', committed, t, uri)
    BY <2>1, Updates
  <2>3. /\ committed'.tokenOwner = committed.tokenOwner
        /\ committed'.tokenData = committed.tokenData
        /\ committed'.burned = committed.burned
    <3>1. committed \in Store
      BY Busy
    <3>2. SameButUris(committed', committed)
      BY <2>2, <3>1, UpdateIs
    <3>3. QED
      BY <3>2 DEF SameButUris
  <2>4. UpdatesInv'
    BY <2>2, <2>3 DEF UpdatesInv
  <2>5. QED
    BY <2>2, <2>4
<1>4. QED
  BY <1>1, <1>2, <1>3 DEF MetadataNext, metadataVars

LEMMA MintStarts == MetadataInit => MintInv /\ UpdatesInv
<1>1. SUFFICES ASSUME MetadataInit PROVE MintInv /\ UpdatesInv
  OBVIOUS
<1>2. /\ call = NoCall /\ committed = store /\ metadataUpdated = {} /\ frozen = {}
      /\ MintInit
  <2>1. MintInit /\ metadataUpdated = {} /\ frozen = {}
    BY <1>1 DEF MetadataInit
  <2>2. call = NoCall /\ committed = store
    BY <2>1 DEF MintInit
  <2>3. QED
    BY <2>1, <2>2
<1>3. IsRecord(store)
  BY <1>2 DEF MintInit, IsRecord
<1>4. /\ store.nextTokenId = 0 /\ store.totalSupply = 0 /\ store.burned = {}
      /\ store.unsynced = {} /\ store.usedSignatures = {} /\ store.admin = None
      /\ store.minters = {} /\ store.blacklisted = {}
      /\ store.tokenOwner = [t \in TokenId |-> None]
      /\ store.tokenData = [t \in TokenId |-> None]
      /\ store.metadata = [t \in TokenId |-> None]
      /\ store.royalty = [t \in TokenId |-> None]
      /\ store.royaltyPercentage = [t \in TokenId |-> None]
      /\ store.royaltyRecipient = [t \in TokenId |-> None]
      /\ store.creator = [t \in TokenId |-> None]
      /\ store.tokenClip = [t \in TokenId |-> None]
      /\ store.metadataIndex = [u \in Uri |-> None]
      /\ store.clipToken = [x \in Clip |-> None]
      /\ store.ownerTokens = [a \in Address |-> {}]
      /\ store.walletTokens = [a \in Address |-> {}]
      /\ store.creatorTokens = [a \in Address |-> {}]
  BY <1>2 DEF MintInit, NoneFor, NoTokens
<1>5. store \in Store
  <2>1. IdsTyped(store)
    BY <1>4, Constants DEF IdsTyped
  <2>2. TokensTyped(store)
    BY <1>4 DEF TokensTyped
  <2>3. IndicesTyped(store)
    BY <1>4 DEF IndicesTyped
  <2>4. QED
    BY <1>3, <2>1, <2>2, <2>3, StoreIs
<1>6. ASSUME NEW t \in TokenId PROVE TokenInv(store, t)
  <2>1. Blank(store, t)
    BY <1>4, Constants DEF Blank
  <2>2. QED
    BY <1>4, <2>1, Constants DEF TokenInv
<1>7. \A u \in Uri : UriInv(store, u)
  BY <1>4 DEF UriInv
<1>8. CountInv(store)
  <2>1. ClipsIn(store) = {}
    BY <1>4 DEF ClipsIn
  <2>2. QED
    BY <1>4, <2>1, FS_EmptySet DEF CountInv
<1>9. StoreInv(store)
  BY <1>4, <1>5, <1>6, <1>7, <1>8 DEF StoreInv
<1>10. QED
  BY <1>2, <1>5, <1>9 DEF MintInv, UpdatesInv

LEMMA MintInvariance == MetadataSpec => [](MintInv /\ UpdatesInv)
<1>1. MintInv /\ UpdatesInv /\ [MetadataNext]_metadataVars => (MintInv /\ UpdatesInv)'
  BY MetadataStep
<1>2. QED
  BY <1>1, MintStarts, PTL DEF MetadataSpec

-----------------------------------------------------------------------------
(* Invariants *)

\* Every value stored and every running call is of the kind the code declares.
THEOREM MintTypes == MetadataSpec => []MintTypeOK
<1>1. MintInv => MintTypeOK
  <2>1. SUFFICES ASSUME MintInv PROVE MintTypeOK
    OBVIOUS
  <2>2. store \in Store /\ committed \in Store
    BY <2>1, Busy
  <2>3. call.kind \in {"none", "mint", "batch"} /\ (call.kind = "none" => store = committed)
    BY <2>1 DEF MintInv, MintRuns, BatchRuns, NoCall
  <2>4. QED
    BY <2>2, <2>3 DEF MintTypeOK
<1>2. QED
  BY <1>1, MintInvariance, PTL

\* The supply and the ids handed out both count the clips ever minted.
THEOREM SupplyIsClips == MetadataSpec => []SupplyCountsClips
<1>1. MintInv => SupplyCountsClips
  BY Busy DEF StoreInv, CountInv, ClipsIn, SupplyCountsClips
<1>2. QED
  BY <1>1, MintInvariance, PTL

\* The clip of a live token leads back to the token.
THEOREM TokensFindTheirClips == MetadataSpec => []TokenFindsItsClip
<1>1. MintInv => TokenFindsItsClip
  BY Busy DEF StoreInv, TokenInv, TokenFindsItsClip
<1>2. QED
  BY <1>1, MintInvariance, PTL

\* A token with a creator is in somebody's portfolio.
THEOREM CreatorsAreListed == MetadataSpec => []CreatorIsListed
<1>1. MintInv => CreatorIsListed
  BY Busy DEF StoreInv, TokenInv, CreatorIsListed
<1>2. QED
  BY <1>1, MintInvariance, PTL

\* What each of the two rollbacks leaves for the host to undo.
THEOREM RollbacksAreExact == MetadataSpec => []RollbackIsExact
<1>1. MintInv => RollbackIsExact
  <2>1. SUFFICES ASSUME MintInv, Reverted PROVE RollbackIsExact
    BY DEF RollbackIsExact
  <2>2. CASE MintRuns
    BY <2>1, <2>2 DEF MintRuns, Reverted, RollbackIsExact
  <2>3. CASE BatchRuns
    <3>1. /\ call.kind = "batch"
          /\ RevertedAt(store, committed, Done) /\ BatchUntouched(store, committed)
      BY <2>1, <2>3 DEF BatchRuns, Reverted
    <3>2. FailingToken = committed.nextTokenId + Done + 1
      BY DEF FailingToken, Done
    <3>3. \A t \in TokenId \ {FailingToken} : SameItem(store, t, committed)
      BY <3>1, <3>2 DEF RevertedAt
    <3>4. \A key \in {"tokenData", "metadata", "royalty", "royaltyPercentage",
                      "royaltyRecipient", "creator", "tokenClip"} :
              \A t \in TokenId \ {FailingToken} : store[key][t] = committed[key][t]
      BY <3>3 DEF SameItem
    <3>5. \A key \in {"walletTokens", "creatorTokens", "nextTokenId", "totalSupply",
                      "tokenOwner", "usedSignatures"} : store[key] = committed[key]
      BY <3>1 DEF RevertedAt, BatchUntouched
    <3>6. \A a \in Address : store.ownerTokens[a] \ {FailingToken} = committed.ownerTokens[a]
      BY <3>1, <3>2 DEF RevertedAt
    <3>7. QED
      BY <3>1, <3>4, <3>5, <3>6 DEF RollbackIsExact
  <2>4. QED
    BY <2>1, <2>2, <2>3 DEF MintInv, Reverted, NoCall
<1>2. QED
  BY <1>1, MintInvariance, PTL

\* An index entry that names a token of the atomic mint names its bearer.
THEOREM IndexNamesBearers == MetadataSpec => []IndexNamesBearer
<1>1. MintInv => IndexNamesBearer
  BY Busy DEF StoreInv, UriInv, IndexNamesBearer
<1>2. QED
  BY <1>1, MintInvariance, PTL

\* Burns orphan records, and nothing else does.
THEOREM OnlyBurnsLeaveOrphans == MetadataSpec => []OnlyBurnsOrphan
<1>1. MintInv /\ UpdatesInv => OnlyBurnsOrphan
  <2>1. SUFFICES ASSUME MintInv, UpdatesInv, NEW t \in TokenId
                 PROVE  is_record_orphaned(t) <=> t \in committed.burned
    BY DEF OnlyBurnsOrphan
  <2>2. TokenInv(committed, t)
    BY <2>1, Busy DEF StoreInv
  <2>3. t \in committed.burned => is_record_orphaned(t)
    BY <2>2 DEF TokenInv, is_record_orphaned
  <2>4. committed.tokenData[t] = None /\ t \notin committed.burned => ~is_record_orphaned(t)
    BY <2>1, <2>2 DEF TokenInv, Blank, UpdatesInv, is_record_orphaned
  <2>5. QED
    BY <2>3, <2>4 DEF is_record_orphaned
<1>2. QED
  BY <1>1, MintInvariance, PTL

-----------------------------------------------------------------------------
(* Steps *)

\* A step of a mint, or one that leaves the clips and the owners alone.
LEMMA MetadataStepKeeps ==
    ASSUME MintInv, UpdatesInv, [MetadataNext]_metadataVars
    PROVE  /\ ClipsKept(committed', committed)
           /\ OwnersMade(committed', committed)
           /\ \/ UNCHANGED updateVars /\ UrisKept(committed', committed)
              \/ /\ committed'.tokenOwner = committed.tokenOwner
                 /\ committed'.metadata = committed.metadata
              \/ /\ committed'.tokenOwner = committed.tokenOwner
                 /\ \E t \in TokenId :
                        /\ committed.tokenOwner[t] # None
                        /\ t \notin metadataUpdated /\ t \in metadataUpdated'
                        /\ \A x \in TokenId \ {t} :
                               committed'.metadata[x] = committed.metadata[x]
<1>1. CASE [MintNext]_mintVars /\ UNCHANGED updateVars
  BY <1>1, StepKeeps DEF Kept
<1>2. CASE \E t \in TokenId : freeze_token(t) \/ unfreeze_token(t)
  <2>1. committed' = committed
    BY <1>2, Freezes
  <2>2. QED
    BY <2>1 DEF ClipsKept, OwnersMade
<1>3. CASE \E c \in Caller, t \in TokenId, uri \in Uri : update_metadata(c, t, uri)
  <2>1. PICK c \in Caller, t \in TokenId, uri \in Uri : update_metadata(c, t, uri)
    BY <1>3
  <2>2. /\ committed.tokenOwner[t] # None /\ committed.metadata[t] # None
        /\ t \notin metadataUpdated /\ t \in metadataUpdated'
        /\ UpdatedBy(committed', committed, t, uri)
        /\ committed \in Store /\ TokensTyped(committed)
    BY <2>1, Updates, Busy, StoreIs
  <2>3. /\ SameButUris(committed', committed)
        /\ committed'.metadata = [committed.metadata EXCEPT ![t] = uri]
    BY <2>2, UpdateIs
  <2>4. \A x \in TokenId \ {t} : committed'.metadata[x] = committed.metadata[x]
    BY <2>2, <2>3 DEF TokensTyped
  <2>5. /\ committed'.clipToken = committed.clipToken
        /\ committed'.tokenOwner = committed.tokenOwner
    BY <2>3 DEF SameButUris
  <2>6. ClipsKept(committed', committed) /\ OwnersMade(committed', committed)
    BY <2>5 DEF ClipsKept, OwnersMade
  <2>7. QED
    BY <2>2, <2>4, <2>5, <2>6
<1>4. QED
  BY <1>1, <1>2, <1>3 DEF MetadataNext, metadataVars

\* No clip gets a second token, and none loses the one it has.
THEOREM ClipsMintedOnce == MetadataSpec => ClipMintedOnce
<1>1. MintInv /\ UpdatesInv /\ [MetadataNext]_metadataVars =>
          [\A c \in Clip :
               committed.clipToken[c] # None =>
                   committed'.clipToken[c] = committed.clipToken[c]]_mintVars
  BY MetadataStepKeeps DEF ClipsKept
<1>2. QED
  BY <1>1, MintInvariance, PTL DEF MetadataSpec, ClipMintedOnce

\* An owner record costs a signature that was never used.
THEOREM OwnersSpendSignatures == MetadataSpec => OwnerSpendsSignature
<1>1. MintInv /\ UpdatesInv /\ [MetadataNext]_metadataVars =>
          [\A t \in TokenId :
               committed.tokenOwner[t] = None /\ committed'.tokenOwner[t] # None =>
                   committed'.usedSignatures \ committed.usedSignatures # {}]_mintVars
  BY MetadataStepKeeps DEF OwnersMade
<1>2. QED
  BY <1>1, MintInvariance, PTL DEF MetadataSpec, OwnerSpendsSignature

\* The URI of a recorded token changes when the token gets its first owner, or by
\* spending the update slot of a token that has one; whoever calls.
THEOREM UrisChangeOnce == MetadataSpec => UriChangesOnce
<1>1. ASSUME MintInv, UpdatesInv, [MetadataNext]_metadataVars, NEW t \in TokenId,
             committed.tokenData[t] # None, committed'.tokenData[t] # None,
             committed'.metadata[t] # committed.metadata[t]
      PROVE  \/ committed.tokenOwner[t] = None /\ committed'.tokenOwner[t] # None
             \/ /\ committed.tokenOwner[t] # None
                /\ t \notin metadataUpdated /\ t \in metadataUpdated'
  <2>1. CASE UrisKept(committed', committed)
    BY <1>1, <2>1 DEF UrisKept
  <2>2. CASE \E x \in TokenId :
                 /\ committed.tokenOwner[x] # None
                 /\ x \notin metadataUpdated /\ x \in metadataUpdated'
                 /\ \A y \in TokenId \ {x} : committed'.metadata[y] = committed.metadata[y]
    BY <1>1, <2>2
  <2>3. QED
    BY <1>1, <2>1, <2>2, MetadataStepKeeps
<1>2. MintInv /\ UpdatesInv /\ [MetadataNext]_metadataVars =>
          [\A t \in TokenId :
               /\ committed.tokenData[t] # None /\ committed'.tokenData[t] # None
               /\ committed'.metadata[t] # committed.metadata[t]
               => \/ committed.tokenOwner[t] = None /\ committed'.tokenOwner[t] # None
                  \/ /\ committed.tokenOwner[t] # None
                     /\ t \notin metadataUpdated /\ t \in metadataUpdated']_metadataVars
  BY <1>1
<1>3. QED
  BY <1>2, MintInvariance, PTL DEF MetadataSpec, UriChangesOnce

\* A token has its update unspent when it gets its owner.
THEOREM OwnersGetTheUpdate == MetadataSpec => OwnerGetsTheUpdate
<1>1. ASSUME MintInv, UpdatesInv, [MetadataNext]_metadataVars, NEW t \in TokenId,
             committed.tokenOwner[t] = None, committed'.tokenOwner[t] # None
      PROVE  t \notin metadataUpdated'
  <2>1. t = committed.nextTokenId /\ UNCHANGED updateVars
    BY <1>1, MetadataStepKeeps DEF OwnersMade
  <2>2. TokenInv(committed, t)
    BY <1>1, Busy DEF StoreInv
  <2>3. t \notin committed.burned
    BY <2>1, <2>2, Constants DEF TokenInv
  <2>4. t \notin metadataUpdated
    BY <1>1, <2>3 DEF UpdatesInv
  <2>5. QED
    BY <2>1, <2>4 DEF updateVars
<1>2. MintInv /\ UpdatesInv /\ [MetadataNext]_metadataVars =>
          [\A t \in TokenId :
               committed.tokenOwner[t] = None /\ committed'.tokenOwner[t] # None =>
                   t \notin metadataUpdated']_metadataVars
  BY <1>1
<1>3. QED
  BY <1>2, MintInvariance, PTL DEF MetadataSpec, OwnerGetsTheUpdate

-----------------------------------------------------------------------------
(* The mints implement the atomic steps of the royalty terms *)

\* The keys the terms and the ledger see are the same in s2.
SameView(s2, s) ==
    /\ s2.admin = s.admin /\ s2.minters = s.minters /\ s2.blacklisted = s.blacklisted
    /\ s2.nextTokenId = s.nextTokenId /\ s2.tokenOwner = s.tokenOwner
    /\ s2.tokenData = s.tokenData /\ s2.burned = s.burned
    /\ s2.ownerTokens = s.ownerTokens /\ s2.walletTokens = s.walletTokens
    /\ s2.unsynced = s.unsynced /\ s2.royalty = s.royalty /\ s2.creator = s.creator
    /\ s2.royaltyPercentage = s.royaltyPercentage
    /\ s2.royaltyRecipient = s.royaltyRecipient

LEMMA ViewStutters ==
    ASSUME SameView(committed', committed)
    PROVE  UNCHANGED <<Terms!ledgerVars, Terms!termsVars>>
BY DEF SameView, Terms!ledgerVars, Terms!termsVars, Terms!accessVars, Terms!grantVars,
       Terms!indexVars, Terms!statusVars, Terms!ownerVars, Terms!derivedVars

LEMMA TermsStart ==
    ASSUME MetadataInit
    PROVE  Terms!LedgerInit /\ Terms!TermsInit
<1>1. committed =
         [admin |-> None, minters |-> {}, blacklisted |-> {}, nextTokenId |-> 0,
          totalSupply |-> 0, tokenOwner |-> NoneFor(TokenId),
          tokenData |-> NoneFor(TokenId), burned |-> {}, ownerTokens |-> NoTokens,
          walletTokens |-> NoTokens, creatorTokens |-> NoTokens,
          metadata |-> NoneFor(TokenId), metadataIndex |-> NoneFor(Uri),
          royalty |-> NoneFor(TokenId), royaltyPercentage |-> NoneFor(TokenId),
          royaltyRecipient |-> NoneFor(TokenId), creator |-> NoneFor(TokenId),
          tokenClip |-> NoneFor(TokenId), clipToken |-> NoneFor(Clip),
          usedSignatures |-> {}, unsynced |-> {}]
  BY DEF MetadataInit, MintInit
<1>2. /\ committed.admin = None /\ committed.minters = {} /\ committed.blacklisted = {}
      /\ committed.nextTokenId = 0 /\ committed.tokenOwner = NoneFor(TokenId)
      /\ committed.tokenData = NoneFor(TokenId) /\ committed.burned = {}
      /\ committed.ownerTokens = NoTokens /\ committed.walletTokens = NoTokens
      /\ committed.unsynced = {} /\ committed.royalty = NoneFor(TokenId)
      /\ committed.royaltyPercentage = NoneFor(TokenId)
      /\ committed.royaltyRecipient = NoneFor(TokenId)
      /\ committed.creator = NoneFor(TokenId)
  BY <1>1
<1>3. QED
  BY <1>2 DEF Terms!LedgerInit, Terms!TermsInit, NoneFor, NoTokens, TokenId, Terms!TokenId

LEMMA ListsRefine ==
    ASSUME MintInv,
           \/ \E a \in Caller : init(a)
           \/ \E a \in Address : \/ set_approved_minter(a) \/ remove_approved_minter(a)
                                 \/ add_to_blacklist(a) \/ remove_from_blacklist(a)
    PROVE  Terms!TermsNext
<1>1. IsRecord(committed)
  BY Busy, StoreIs DEF StoreInv
<1>2. SUFFICES Terms!Administer /\ UNCHANGED Terms!termsVars
  BY DEF Terms!TermsNext, Terms!TermsStep
<1>3. /\ committed'.tokenOwner = committed.tokenOwner /\ committed'.tokenData = committed.tokenData
      /\ committed'.burned = committed.burned /\ committed'.unsynced = committed.unsynced
      /\ committed'.ownerTokens = committed.ownerTokens
      /\ committed'.walletTokens = committed.walletTokens
      /\ committed'.nextTokenId = committed.nextTokenId
      /\ committed'.royalty = committed.royalty /\ committed'.creator = committed.creator
      /\ committed'.royaltyPercentage = committed.royaltyPercentage
      /\ committed'.royaltyRecipient = committed.royaltyRecipient
  BY ListsChange DEF SameTokens
<1>4. UNCHANGED Terms!termsVars
  BY <1>3 DEF Terms!termsVars, Terms!derivedVars
<1>5. UNCHANGED <<Terms!grantVars, Terms!indexVars, Terms!statusVars, Terms!ownerVars>>
  BY <1>3 DEF Terms!grantVars, Terms!indexVars, Terms!statusVars, Terms!ownerVars
<1>6. ASSUME NEW a \in Caller, init(a) PROVE Terms!Administer
  <2>1. committed.admin = None /\ committed' = [committed EXCEPT !.admin = a, !.nextTokenId = 0]
    BY <1>6, Idle DEF init, Entry, Return
  <2>2. /\ committed'.admin = a /\ committed'.nextTokenId = 0
        /\ committed'.minters = committed.minters
        /\ committed'.blacklisted = committed.blacklisted
    BY <1>1, <2>1 DEF IsRecord
  <2>3. Terms!init(a)
    BY <1>3, <1>5, <2>1, <2>2 DEF Terms!init
  <2>4. QED
    BY <1>6, <2>3 DEF Terms!Administer, Terms!Caller, Caller
<1>7. ASSUME NEW a \in Address, set_approved_minter(a) \/ remove_approved_minter(a)
      PROVE  Terms!Administer
  <2>1. PICK m : /\ committed.admin # None /\ committed' = [committed EXCEPT !.minters = m]
                 /\ \/ set_approved_minter(a) /\ m = committed.minters \cup {a}
                    \/ remove_approved_minter(a) /\ m = committed.minters \ {a}
    BY <1>7, Idle DEF set_approved_minter, remove_approved_minter, Administered, Entry, Return
  <2>2. /\ committed'.admin = committed.admin /\ committed'.minters = m
        /\ committed'.blacklisted = committed.blacklisted
    BY <1>1, <2>1 DEF IsRecord
  <2>3. Terms!set_approved_minter(a) \/ Terms!remove_approved_minter(a)
    BY <1>3, <1>5, <2>1, <2>2 DEF Terms!set_approved_minter, Terms!remove_approved_minter
  <2>4. QED
    BY <2>3 DEF Terms!Administer
<1>8. ASSUME NEW a \in Address, add_to_blacklist(a) \/ remove_from_blacklist(a)
      PROVE  Terms!Administer
  <2>1. PICK m : /\ committed.admin # None /\ committed' = [committed EXCEPT !.blacklisted = m]
                 /\ \/ add_to_blacklist(a) /\ m = committed.blacklisted \cup {a}
                    \/ remove_from_blacklist(a) /\ m = committed.blacklisted \ {a}
    BY <1>8, Idle DEF add_to_blacklist, remove_from_blacklist, Administered, Entry, Return
  <2>2. /\ committed'.admin = committed.admin /\ committed'.blacklisted = m
        /\ committed'.minters = committed.minters
    BY <1>1, <2>1 DEF IsRecord
  <2>3. Terms!add_to_blacklist(a) \/ Terms!remove_from_blacklist(a)
    BY <1>3, <1>5, <2>1, <2>2 DEF Terms!add_to_blacklist, Terms!remove_from_blacklist
  <2>4. QED
    BY <2>3 DEF Terms!Administer
<1>9. QED
  BY <1>4, <1>6, <1>7, <1>8

LEMMA CreatorRefines ==
    ASSUME MintInv, NEW t \in TokenId, NEW who \in Address, reassign_creator(t, who)
    PROVE  Terms!TermsNext
<1>1. IsRecord(committed) /\ store = committed
  BY Busy, Idle, StoreIs DEF StoreInv, reassign_creator, Administered, Entry
<1>2. PICK v : /\ v = [committed.creator EXCEPT ![t] = who]
               /\ committed' = [committed EXCEPT !.creator = v]
               /\ committed.admin # None /\ committed.tokenData[t] # None
  BY <1>1 DEF reassign_creator, Administered, Entry, Return, IsRecord
<1>3. /\ committed'.creator = v
      /\ committed'.admin = committed.admin /\ committed'.minters = committed.minters
      /\ committed'.blacklisted = committed.blacklisted
      /\ committed'.nextTokenId = committed.nextTokenId
      /\ committed'.tokenOwner = committed.tokenOwner
      /\ committed'.tokenData = committed.tokenData /\ committed'.burned = committed.burned
      /\ committed'.ownerTokens = committed.ownerTokens
      /\ committed'.walletTokens = committed.walletTokens
      /\ committed'.unsynced = committed.unsynced /\ committed'.royalty = committed.royalty
      /\ committed'.royaltyPercentage = committed.royaltyPercentage
      /\ committed'.royaltyRecipient = committed.royaltyRecipient
  BY <1>1, <1>2 DEF IsRecord
<1>4. Terms!reassign_creator(t, who)
  BY <1>2, <1>3 DEF Terms!reassign_creator, Terms!ledgerVars, Terms!accessVars, Terms!grantVars,
       Terms!indexVars, Terms!statusVars, Terms!ownerVars, Terms!derivedVars
<1>5. QED
  BY <1>4 DEF Terms!TermsNext, Terms!TermsStep, Terms!ChangeTerms, Terms!TokenId, TokenId

LEMMA BurnRefines ==
    ASSUME MintInv, NEW t \in TokenId, burn_token(t)
    PROVE  Terms!TermsNext
<1>1. /\ committed.tokenData[t] # None /\ committed.tokenOwner[t] # None
      /\ BurnedBy(committed', committed, t) /\ StoreInv(committed)
  BY TokenBurns, Busy
<1> DEFINE o == committed.tokenOwner[t]
<1>2. o \in Caller /\ t \notin committed.burned
  <2>1. TokenInv(committed, t)
    BY <1>1 DEF StoreInv
  <2>2. o \in Address \cup {None}
    BY <1>1, StoreIs DEF StoreInv, TokensTyped
  <2>3. QED
    BY <1>1, <2>1, <2>2 DEF TokenInv, Caller
<1>3. Terms!burn_token(o, t)
  BY <1>1, <1>2 DEF Terms!burn_token, Terms!require_active, BurnedBy, Terms!accessVars,
       NoneFor
<1>4. Terms!burn_with_terms(o, t)
  BY <1>1, <1>3 DEF Terms!burn_with_terms, BurnedBy, Terms!derivedVars
<1>5. QED
  BY <1>2, <1>4 DEF Terms!TermsNext, Terms!TermsStep, Terms!MintOrBurnWithTerms, Terms!TokenId, TokenId,
       Terms!Caller, Caller

LEMMA MintRefines ==
    ASSUME MintInv, commit_token_id
    PROVE  Terms!TermsNext
<1>1. PICK p : p = call.params
  OBVIOUS
<1>2. /\ p \in MintParams /\ MintStarted(p)
      /\ committed.nextTokenId \notin committed.walletTokens[p.owner]
      /\ MintedBy(committed', committed, p)
  BY <1>1, MintReturns
<1>3. p.owner \in Caller /\ p.royalty \in Royalties /\ p.creator \in Address
  BY <1>2 DEF MintParams
<1>4. Terms!mint(p.owner)
  BY <1>2, <1>3 DEF Terms!mint, Terms!require_mint_auth, MintStarted, MintedBy, Caller,
       Terms!accessVars, Terms!grantVars, Terms!statusVars
<1>5. Terms!mint_with_terms(p.owner, p.royalty, p.creator)
  BY <1>2, <1>4 DEF Terms!mint_with_terms, MintStarted, MintedBy, Terms!derivedVars
<1>6. QED
  BY <1>3, <1>5 DEF Terms!TermsNext, Terms!TermsStep, Terms!MintOrBurnWithTerms, Terms!Caller, Caller

LEMMA BatchRefines ==
    ASSUME MintInv, finish_batch
    PROVE  Terms!TermsNext
<1>1. PICK s, c, requests, n :
          s = committed' /\ c = committed /\ requests = call.requests /\ n = Len(call.requests)
  OBVIOUS
<1>2. /\ BatchStarted(c, requests) /\ BatchedBy(s, c, requests, n) /\ StoreInv(c)
      /\ c.nextTokenId + n < MaxTokens /\ n = Len(requests) /\ s \in Store
  <2>1. committed' \in Store
    BY BatchReturns DEF MintInv, StoreInv
  <2>2. QED
    BY <1>1, <2>1, BatchReturns, Busy
<1>3. /\ n \in 1 .. MaxBatchMint /\ n \in Nat
      /\ \A i \in 1 .. n : ItemTyped(requests[i])
      /\ DOMAIN requests = 1 .. n
  BY <1>2, BatchItemsTyped
<1>4. PICK a \in Caller : (a = c.admin \/ a \in c.minters) /\ a \notin c.blacklisted /\ c.admin # None
  BY <1>2 DEF BatchStarted
<1> DEFINE owners == [i \in 1 .. n |-> requests[i].owner]
           creators == [i \in 1 .. n |-> requests[i].creator]
           rs == [i \in 1 .. n |-> requests[i].royalty]
           ids == c.nextTokenId + 1 .. c.nextTokenId + n
<1>5. /\ owners \in [1 .. n -> Address] /\ creators \in [1 .. n -> Address]
      /\ rs \in [1 .. n -> Royalties]
  BY <1>3 DEF ItemTyped
<1>6. \A i \in 1 .. n : /\ owners[i] \notin c.blacklisted \cup {Contract}
                        /\ creators[i] \notin c.blacklisted \cup {Contract}
                        /\ Terms!validate_royalty(rs[i])
                        /\ Terms!validate_royalty_recipients(rs[i])
  BY <1>2, <1>3 DEF BatchStarted
<1>7. TokensTyped(s) /\ IndicesTyped(c) /\ c.nextTokenId \in Nat
  <2>1. TokensTyped(s) /\ IndicesTyped(c) /\ IdsTyped(c)
    BY <1>2, StoreIs DEF StoreInv
  <2>2. QED
    BY <2>1, Constants DEF IdsTyped
<1>8. \A t \in ids : t - c.nextTokenId \in 1 .. n
  BY <1>3, <1>7
<1>9. ASSUME NEW t \in TokenId
      PROVE  /\ t \in ids =>
                    /\ s.tokenData[t] = owners[t - c.nextTokenId]
                    /\ s.royalty[t] = rs[t - c.nextTokenId]
                    /\ s.royaltyPercentage[t] = Terms!TotalBps(rs[t - c.nextTokenId])
                    /\ s.royaltyRecipient[t] = rs[t - c.nextTokenId].recipients[1].who
                    /\ s.creator[t] = creators[t - c.nextTokenId]
             /\ t \notin ids => SameItem(s, t, c)
  <2>1. IF t \in Ids(c, n) THEN HasItem(s, t, requests[t - c.nextTokenId]) ELSE SameItem(s, t, c)
    BY <1>2 DEF BatchedBy, BatchAt, ItemsDone
  <2>2. Ids(c, n) = ids
    BY DEF Ids
  <2>3. QED
    BY <1>8, <2>1, <2>2 DEF HasItem
<1>10. ASSUME NEW x \in Address
       PROVE  /\ IdsFor(c, requests, n, "owner", x) =
                     {t \in ids : owners[t - c.nextTokenId] = x}
  BY <1>8 DEF IdsFor, Ids
<1>11. /\ s.tokenData = [t \in TokenId |->
              IF t \in ids THEN owners[t - c.nextTokenId] ELSE c.tokenData[t]]
       /\ s.royalty = [t \in TokenId |->
              IF t \in ids THEN rs[t - c.nextTokenId] ELSE c.royalty[t]]
       /\ s.royaltyPercentage = [t \in TokenId |->
              IF t \in ids THEN Terms!TotalBps(rs[t - c.nextTokenId]) ELSE c.royaltyPercentage[t]]
       /\ s.royaltyRecipient = [t \in TokenId |->
              IF t \in ids THEN rs[t - c.nextTokenId].recipients[1].who
              ELSE c.royaltyRecipient[t]]
       /\ s.creator = [t \in TokenId |->
              IF t \in ids THEN creators[t - c.nextTokenId] ELSE c.creator[t]]
  <2> HIDE DEF ids, owners, rs, creators
  <2>1. QED
    BY <1>7, <1>9 DEF TokensTyped, SameItem
<1>12. /\ s.ownerTokens =
              [x \in Address |-> c.ownerTokens[x] \cup {t \in ids : owners[t - c.nextTokenId] = x}]
       /\ s.walletTokens =
              [x \in Address |-> c.walletTokens[x] \cup {t \in ids : owners[t - c.nextTokenId] = x}]
  <2>1. /\ s.ownerTokens = Listed(c.ownerTokens, c, requests, n, "owner")
        /\ s.walletTokens = Listed(c.walletTokens, c, requests, n, "owner")
    BY <1>2 DEF BatchedBy, BatchAt
  <2> HIDE DEF ids, owners
  <2>2. QED
    BY <1>10, <2>1 DEF Listed
<1>13. /\ s.nextTokenId = c.nextTokenId + n /\ s.unsynced = c.unsynced \cup ids
       /\ s.admin = c.admin /\ s.minters = c.minters /\ s.blacklisted = c.blacklisted
       /\ s.tokenOwner = c.tokenOwner /\ s.burned = c.burned
  BY <1>2 DEF BatchedBy, BatchAt, BatchUntouched, Ids
<1> HIDE DEF owners, creators, rs
<1>14. Terms!batch_mint(a, n, owners)
  BY <1>1, <1>2, <1>4, <1>6, <1>11, <1>12, <1>13
  DEF Terms!batch_mint, Terms!require_mint_auth, Terms!TokenId, TokenId,
      Terms!accessVars, Terms!grantVars, Terms!statusVars
<1>15. Terms!batch_mint_with_terms(a, n, owners, rs, creators)
  BY <1>1, <1>6, <1>11, <1>14
  DEF Terms!batch_mint_with_terms, Terms!TokenId, TokenId
<1>16. QED
  <2>1. a \in Terms!Caller
    BY DEF Terms!Caller, Caller
  <2>2. Terms!MintOrBurnWithTerms
    BY <1>3, <1>5, <1>15, <2>1 DEF Terms!MintOrBurnWithTerms
  <2>3. QED
    BY <2>2 DEF Terms!TermsNext, Terms!TermsStep

LEMMA StepRefines ==
    ASSUME MintInv, [MetadataNext]_metadataVars
    PROVE  [Terms!TermsNext]_<<Terms!ledgerVars, Terms!termsVars>>
<1>1. committed' = committed => UNCHANGED <<Terms!ledgerVars, Terms!termsVars>>
  BY ViewStutters DEF SameView
<1>2. CASE UNCHANGED mintVars
  BY <1>1, <1>2 DEF mintVars
<1>3. CASE OneStepCalls
  BY <1>3, ListsRefine, CreatorRefines, BurnRefines DEF OneStepCalls
<1>4. CASE BeginMint
  BY <1>1, <1>4, Begins
<1>5. CASE commit_token_id
  BY <1>5, MintRefines
<1>6. CASE finish_batch
  BY <1>6, BatchRefines
<1>7. CASE Abort
  BY <1>1, <1>7, Aborts
<1>8. CASE \/ assign_owner \/ set_metadata \/ set_royalty \/ set_creator_with_name
           \/ add_token_to_creator \/ save_clip_id \/ add_token_to_wallet
           \/ mark_signature_used \/ increment_total_supply \/ RevertMint
           \/ mint_item \/ mint_item_fails \/ RevertBatch
  BY <1>1, <1>8, MintGoesOn
<1>9. CASE \E t \in TokenId : freeze_token(t) \/ unfreeze_token(t)
  BY <1>1, <1>9, Freezes
<1>10. CASE \E c \in Caller, t \in TokenId, uri \in Uri : update_metadata(c, t, uri)
  <2>1. PICK c \in Caller, t \in TokenId, uri \in Uri : update_metadata(c, t, uri)
    BY <1>10
  <2>2. /\ committed \in Store /\ committed.metadata[t] # None
        /\ UpdatedBy(committed', committed, t, uri)
    BY <2>1, Updates, Busy
  <2>3. SameButUris(committed', committed)
    BY <2>2, UpdateIs
  <2>4. SameView(committed', committed)
    BY <2>3 DEF SameButUris, SameView
  <2>5. QED
    BY <2>4, ViewStutters
<1>11. MintNext => \/ OneStepCalls \/ BeginMint \/ commit_token_id \/ finish_batch \/ Abort
                   \/ assign_owner \/ set_metadata \/ set_royalty \/ set_creator_with_name
                   \/ add_token_to_creator \/ save_clip_id \/ add_token_to_wallet
                   \/ mark_signature_used \/ increment_total_supply \/ RevertMint
                   \/ mint_item \/ mint_item_fails \/ RevertBatch
  BY DEF MintNext, ResumeMint
<1>12. QED
  BY <1>2, <1>3, <1>4, <1>5, <1>6, <1>7, <1>8, <1>9, <1>10, <1>11 DEF MetadataNext, metadataVars

\* Write by write, with caches, failures and both rollbacks, the two mints are the
\* atomic steps of the ledger and the terms.
THEOREM MintsRefineTerms == MetadataSpec => MintsAreAtomic
<1>1. MintInv /\ [MetadataNext]_metadataVars =>
          [Terms!TermsNext]_<<Terms!ledgerVars, Terms!termsVars>>
  BY StepRefines
<1>2. QED
  BY <1>1, TermsStart, MintInvariance, PTL DEF MetadataSpec, MintsAreAtomic, Terms!TermsSpec
=============================================================================
