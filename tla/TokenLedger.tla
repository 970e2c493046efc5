----------------------------- MODULE TokenLedger -----------------------------
(***************************************************************************)
(* What x/tokenfactory promises to the holders of its tokens: an abstract  *)
(* specification without accounts' balances, metadata and capabilities.    *)
(* Only its creator issues a denom, and only once; only the owner changes  *)
(* its supply and hands it over; a token without an owner is frozen.       *)
(***************************************************************************)

CONSTANTS
    Denoms,    \* the denoms of token factory
    Creator,   \* the account in the name of each denom
    NoAdmin    \* no account

VARIABLES
    issued,    \* the denoms that exist
    owner,     \* the owner of each denom, NoAdmin when there is none
    supply,    \* the supply of each denom
    signer     \* who signed the last message, NoAdmin when none did

ledgerVars == <<issued, owner, supply, signer>>

Issue(d) ==
    /\ d \notin issued
    /\ signer' = Creator[d]
    /\ issued' = issued \cup {d}
    /\ owner' = [owner EXCEPT ![d] = Creator[d]]
    /\ UNCHANGED supply

(* the owner mints or burns *)
ChangeSupply(d) ==
    /\ owner[d] # NoAdmin /\ signer' = owner[d]
    /\ supply' = [supply EXCEPT ![d] = supply'[d]]
    /\ UNCHANGED <<issued, owner>>

(* the owner makes any account the owner, or gives the ownership up *)
HandOver(d) ==
    /\ owner[d] # NoAdmin /\ signer' = owner[d]
    /\ owner' = [owner EXCEPT ![d] = owner'[d]]
    /\ UNCHANGED <<issued, supply>>

(* everything else, a restart of the chain included *)
Other == UNCHANGED <<issued, owner, supply>>

Init ==
    /\ issued \subseteq Denoms
    /\ \A d \in Denoms \ issued : owner[d] = NoAdmin
    /\ signer = NoAdmin

Next == Other \/ \E d \in Denoms : Issue(d) \/ ChangeSupply(d) \/ HandOver(d)

Spec == Init /\ [][Next]_ledgerVars
=============================================================================
