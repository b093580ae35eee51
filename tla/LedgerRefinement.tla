-------------------------- MODULE LedgerRefinement --------------------------
(* The refinement mapping from the token ledger to the registry of holders.  *)
EXTENDS TokenLedger

CONSTANTS Unminted, Burned   \* an id never owned, an id burned

ASSUME MarkAssumption ==
    /\ Unminted # Burned
    /\ Unminted \notin Address
    /\ Burned \notin Address

\* What the ledger says of an id, through owner_of and is_burned.
HolderOf(t) ==
    IF t \in burned THEN Burned
    ELSE IF tokenOwner[t] = None THEN Unminted ELSE tokenOwner[t]

Registry ==
    INSTANCE NftRegistry WITH
        Account <- Caller,
        holder <- [t \in TokenId |-> HolderOf(t)]

\* Seen through that mapping, every behaviour of the ledger is one of the
\* registry: the many mints, burns, transfers and sales of the source together
\* keep one holder per id, mint an id once and never bring one back.
ImplementsRegistry == Registry!RegistrySpec
=============================================================================
