--------------------------- MODULE MCMarketplace ---------------------------
(* Instances of Marketplace for TLC. *)
EXTENDS MarketGuards

Symmetry == Permutations(Caller)

OneAsset == CHOOSE x \in Asset : TRUE

\* Half the price to one caller, or the whole of it to two in equal parts.
MCRoyalties ==
    LET part(a) == [who |-> a, bps |-> 1]
        terms(parts) == [recipients |-> parts, asset |-> OneAsset]
    IN  {terms(<<part(a)>>) : a \in Caller}
            \cup {terms(<<part(p[1]), part(p[2])>>) : p \in {q \in Caller \X Caller : q[1] # q[2]}}

\* The ledger's and the terms' own runs explore what is held fixed here: grants,
\* the blacklist, the freeze, the indices (tokens move by sales and by the
\* transfer that leaves them alone), and changes of the terms.
MarketOnly ==
    /\ operators = {} /\ minters = {} /\ blacklisted = {} /\ frozen = {}
    /\ royaltyFrozen = {}
    /\ \A t \in TokenId : /\ approval[t] = None
                          /\ creator[t] \in {None, admin}
                          /\ tokenData[t] \in {None, admin}
                          /\ royaltyPercentage[t] = None
    /\ ~(paused /\ paymentsDisabled)
    /\ currencies = {} =>
           \A t \in TokenId : activeListing[t] = None /\ listing[t] = None /\ offer[t] = None

\* One kind of listing, two payments in a row, the switches before the first.
MoneyOnly ==
    /\ MarketOnly
    /\ \A t \in TokenId : listing[t] = None
    /\ Cardinality(usedPayments) <= 2
    /\ paused \/ paymentsDisabled => usedPayments = {}
    /\ burned # {} => usedPayments = {}

\* Two tokens of the administrator's, under the same terms, and one sale; only
\* the listings that can be bought expire.
OneRoyalty == {[recipients |-> <<[who |-> a, bps |-> 1]>>, asset |-> OneAsset] : a \in Caller}
ListingsOnly ==
    /\ MarketOnly
    /\ ~paused /\ ~paymentsDisabled
    /\ burned # {} => usedPayments = {} /\ offerIndex = {}
    /\ \A t \in TokenId :
           /\ royalty[t] # None => royalty[t].recipients[1].who = admin
           /\ offer[t] # None => offer[t].deal.expiration = 0
           /\ listing[t] # None => listing[t].deal.expiration = 0
           /\ activeListing[t] # None => activeListing[t].deal.expiration # 0
    /\ usedPayments # {} => now = MaxTime
    /\ Cardinality(usedPayments) <= 1
=============================================================================
