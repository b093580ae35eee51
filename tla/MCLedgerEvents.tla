--------------------------- MODULE MCLedgerEvents ---------------------------
(* The instances of MCTokenLedger with a reader of the published events. *)
EXTENDS MCTokenLedger, LedgerEvents

\* One token ever has an owner: the first, or the batch's, once the atomic mint
\* has reused its id.  The administrator mints.
OneHeldToken ==
    /\ FewGrants
    /\ minters = {}
    /\ Cardinality({t \in TokenId : tokenOwner[t] # None} \cup burned) <= 1
=============================================================================
