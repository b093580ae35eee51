--------------------------- MODULE MCRoyaltyTerms ---------------------------
(* Instances of RoyaltyTerms for TLC. *)
EXTENDS RoyaltyGuards, TLC

Symmetry == Permutations(Caller)

\* Terms that give one caller half the price; the last ones exceed the price.
OneAsset == CHOOSE x \in Asset : TRUE
MCRoyalties ==
    {[recipients |-> <<[who |-> a, bps |-> 1]>>, asset |-> OneAsset] : a \in Caller}
        \cup {[recipients |-> <<[who |-> a, bps |-> 2], [who |-> a, bps |-> 1]>>,
               asset |-> NoAsset] : a \in Caller}

\* The ledger's own runs explore grants, operators, the blacklist, minters and
\* the freeze; here those stay as they were at the start, and at most
\* one token leaves the indices behind.
LedgerKeptSmall ==
    /\ operators = {} /\ minters = {} /\ blacklisted = {} /\ frozen = {}
    /\ \A t \in TokenId : approval[t] = None
    /\ Cardinality(unsynced) <= 1
=============================================================================
