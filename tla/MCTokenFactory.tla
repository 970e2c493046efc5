--------------------------- MODULE MCTokenFactory ---------------------------
(* A small instance of TokenFactory for TLC. *)
EXTENDS TokenFactory, TLC

CONSTANTS alice, contract, gov, pool, d1, d2, native, none

(* each account creates one denom; alice's was created before the genesis, *)
(* and its admin is the contract                                           *)
MCCreator == d1 :> alice @@ d2 :> contract
MCGenesis == d1 :> contract

(* the contract can pay one fee, alice holds a coin of d1 *)
MCBalances ==
    [h \in {alice, contract, gov, pool} |->
        d1 :> (IF h = alice THEN 1 ELSE 0) @@ d2 :> 0
        @@ native :> (IF h = contract THEN 1 ELSE 0)]
MCSupply == d1 :> 1 @@ d2 :> 0 @@ native :> 1

(* kiichain's capabilities, and the others *)
MCCapabilities ==
    {{"metadata", "community_pool_fee_funding"}, {"burn_from", "force_transfer"}}
=============================================================================
