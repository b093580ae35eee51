--------------------------- MODULE MCTokenLedger ---------------------------
(* Instances of TokenLedger for TLC. *)
EXTENDS LedgerRefinement, LedgerGuards, TLC

\* Accounts that play no special part are interchangeable.
Symmetry == Permutations(Caller)

\* Bounds on the sets that multiply the states without adding behaviour: one
\* operator grant, one blacklisted account, one approved minter at a time, and
\* two of the three together.
FewGrants ==
    /\ Cardinality(operators) <= 1
    /\ Cardinality(blacklisted) <= 1
    /\ Cardinality(minters) <= 1
    /\ Cardinality(operators) + Cardinality(blacklisted) + Cardinality(minters) <= 2
=============================================================================
