------------------------------ MODULE MCOracle ------------------------------
(* Small instances of Oracle for TLC: parameters and tokens. *)
EXTENDS Oracle

CONSTANTS v1, v2, v3, f

(* decimals with Prec = 100 *)
BaseParams ==
    [votePeriod |-> 2, voteThreshold |-> 67, rewardBand |-> 2,
     whitelist |-> <<1, 2>>, slashFraction |-> 0, slashWindow |-> 4,
     minValidPerWindow |-> 5, lookbackDuration |-> 0]

NoProposals == {}

(* three validators, of power 7, 4 and 2 with two tokens to a unit; v1     *)
(* passes a ballot with either of the others                               *)
VotingTokens == v1 :> 15 @@ v2 :> 9 @@ v3 :> 5

(* a window of two periods of one block, and most of the stake at risk *)
SlashParams ==
    [BaseParams EXCEPT !.votePeriod = 1, !.slashWindow = 2, !.whitelist = <<1>>,
                       !.slashFraction = 60, !.minValidPerWindow = 60]

(* governance empties the whitelist, and makes the window longer than      *)
(* unbonding                                                               *)
LongWindow == {[SlashParams EXCEPT !.whitelist = <<>>, !.slashWindow = 4]}

EqualTokens == v1 :> 5 @@ v2 :> 5
=============================================================================
