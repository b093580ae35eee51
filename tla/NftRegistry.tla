---------------------------- MODULE NftRegistry ----------------------------
(***************************************************************************)
(* What the ownership ledger promises, and nothing about how: an id is      *)
(* minted at most once, then held by one account at a time, then perhaps    *)
(* burned, for ever; tokens may change hands several in a step.             *)
(***************************************************************************)
CONSTANTS TokenId, Account, Unminted, Burned

VARIABLE holder

RegistryInit == holder = [t \in TokenId |-> Unminted]

Mint(t, a) ==
    /\ holder[t] = Unminted
    /\ holder' = [holder EXCEPT ![t] = a]

Burn(t) ==
    /\ holder[t] \in Account
    /\ holder' = [holder EXCEPT ![t] = Burned]

\* Some held tokens, whatever their number, go to other accounts.
Move ==
    /\ holder' \in [TokenId -> Account \cup {Unminted, Burned}]
    /\ \A t \in TokenId :
           holder'[t] # holder[t] => {holder[t], holder'[t]} \subseteq Account

RegistryNext ==
    \/ \E t \in TokenId, a \in Account : Mint(t, a)
    \/ \E t \in TokenId : Burn(t)
    \/ Move

RegistrySpec == RegistryInit /\ [][RegistryNext]_holder
=============================================================================
