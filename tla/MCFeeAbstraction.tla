-------------------------- MODULE MCFeeAbstraction --------------------------
(* A small instance of FeeAbstraction for TLC; decimals with Prec = 100. *)
EXTENDS FeeAbstraction, TLC

CONSTANTS alice, native, usd, eth

(* one native fee and a value, some coins of usd, ERC20 tokens of eth *)
Wallet == alice :> (native :> 40 @@ usd :> 2 @@ eth :> 0)
Erc20Wallet == alice :> (eth :> 12)

FeeParams ==
    [clampFactor |-> 50, fallbackNativePrice |-> 100, twapLookbackWindow |-> 2,
     enabled |-> TRUE]

(* the module is disabled, and enabled again *)
FeeParamsProposals == {FeeParams, [FeeParams EXCEPT !.enabled = FALSE]}

Usd == [denom |-> usd, oracleDenom |-> 2, decimals |-> 1, price |-> 100, enabled |-> TRUE]
Eth == [denom |-> eth, oracleDenom |-> 2, decimals |-> 1, price |-> 50, enabled |-> TRUE]

TokenCollections == {<<Usd, Eth>>}

Targets == {{1, 2}, {2}}
=============================================================================
