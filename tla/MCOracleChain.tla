---------------------------- MODULE MCOracleChain ----------------------------
(* A small instance of OracleChain for TLC. *)
EXTENDS OracleChain

CONSTANTS v1, v2

(* a window of five periods of one block; decimals with Prec = 100 *)
ChainParams ==
    [votePeriod |-> 1, voteThreshold |-> 67, rewardBand |-> 2,
     whitelist |-> <<1>>, slashFraction |-> 50, slashWindow |-> 5,
     minValidPerWindow |-> 60, lookbackDuration |-> 0]

EqualTokens == v1 :> 5 @@ v2 :> 5

(* v1 can pay one fee, v2 none *)
OneFee == v1 :> 1 @@ v2 :> 0

(* proposals that change the whitelist and the periods; one is invalid *)
ChainProposals ==
    {[ChainParams EXCEPT !.whitelist = <<1, 2>>, !.lookbackDuration = 2],
     [ChainParams EXCEPT !.whitelist = <<2>>, !.votePeriod = 2, !.slashWindow = 2],
     [ChainParams EXCEPT !.votePeriod = 2]}
=============================================================================
