---------------------------- MODULE OracleBallot ----------------------------
(***************************************************************************)
(* The arithmetic of an oracle ballot (x/oracle/types/ballot.go and        *)
(* x/oracle/tally.go): the weighted median, the cross rates against the    *)
(* reference denom, the reward band and the choice of the reference denom. *)
(*                                                                         *)
(* A ballot is the set of the votes [voter, rate, power] on one denom, at  *)
(* most one per voter.  The code keeps it as a slice sorted by rate; votes *)
(* of equal rate may stand in any order there, and no result depends on    *)
(* which.  Rates are raw decimals of LegacyDec.  Denoms are numbered in    *)
(* alphabetical order; NoDenom is the empty string.                        *)
(***************************************************************************)
EXTENDS LegacyDec, SequencesExt

CONSTANT SdUnit    \* raw units in 10^-6, the digits "%f" prints

ASSUME SdUnitAssumption == SdUnit \in Nat \ {0}

NoDenom == 0

(* Power: the voting power in the ballot *)
BallotPower(ballot) == SumFunctionOnSet([vote \in ballot |-> vote.power], ballot)

(* mutant: the rate at which all of the power is reached *)
WeightedMaximum(ballot) ==
    IF ballot = {} THEN 0 ELSE Max({vote.rate : vote \in ballot})

(* WeightedMedianWithAssertion: the rate of the first vote, in the order   *)
(* of rates, at which the accumulated power reaches totalPower / 2.        *)
WeightedMedian(ballot) ==
    LET accumulated(r) == BallotPower({vote \in ballot : vote.rate <= r})
        reached == {vote.rate : vote \in
                      {w \in ballot :
                          accumulated(w.rate) >= BallotPower(ballot) \div 2}}
    IN  IF ballot = {} THEN 0 ELSE Min(reached)

(* ToMap: the positive rates of the ballot, by voter *)
ToMap(ballot) ==
    LET positive == {vote \in ballot : vote.rate > 0}
    IN  [v \in {vote.voter : vote \in positive} |->
            (CHOOSE vote \in positive : vote.voter = v).rate]

(* ToCrossRateWithSort: base / rate; without a base an abstain vote *)
ToCrossRate(ballot, bases) ==
    {IF vote.voter \in DOMAIN bases /\ vote.rate > 0
     THEN [vote EXCEPT !.rate = Quo(bases[vote.voter], vote.rate)]
     ELSE [vote EXCEPT !.rate = 0, !.power = 0] : vote \in ballot}

(* The nearest multiple of SdUnit to the square root of a raw decimal: the *)
(* root is taken in floating point and printed with six digits.            *)
SqrtPrinted(variance) ==
    LET x == variance * Prec
        k == CHOOSE n \in 0 .. x + 1 :
                /\ n = 0 \/ (2 * n - 1) * (2 * n - 1) * SdUnit * SdUnit <= 4 * x
                /\ 4 * x < (2 * n + 1) * (2 * n + 1) * SdUnit * SdUnit
    IN  k * SdUnit

(* StandardDeviation: around the median, every vote counting the same *)
StandardDeviation(ballot, median) ==
    LET square == [vote \in ballot |-> Mul(vote.rate - median, vote.rate - median)]
    IN  IF ballot = {} THEN 0
        ELSE SqrtPrinted(TruncDiv(SumFunctionOnSet(square, ballot),
                                  Cardinality(ballot)))

(* Tally: the voters whose rate is within the reward spread of the median *)
Winners(ballot, rewardBand) ==
    LET median == WeightedMedian(ballot)
        band   == Mul(median, TruncDiv(rewardBand, 2))
        sd     == StandardDeviation(ballot, median)
        spread == IF sd > band THEN sd ELSE band
    IN  {vote.voter : vote \in
            {w \in ballot : median - spread <= w.rate /\ w.rate <= median + spread}}

-----------------------------------------------------------------------------
(* mutant: any power passes *)
BallotIsPassingAny(ballot, thresholdVotes) == BallotPower(ballot) # 0

(* ballotIsPassing *)
BallotIsPassing(ballot, thresholdVotes) ==
    /\ BallotPower(ballot) # 0
    /\ BallotPower(ballot) >= thresholdVotes

(* mutant: the first of two equal ballots is kept *)
PickStepNoTieBreak(picked, denom, power) ==
    IF power > picked.highest \/ picked.highest = 0
    THEN [ref |-> denom, highest |-> power] ELSE picked

(* One turn of pickReferenceDenom's loop over the passing ballots *)
PickStep(picked, denom, power) ==
    LET higher == power > picked.highest \/ picked.highest = 0
        p      == IF higher THEN [ref |-> denom, highest |-> power] ELSE picked
    IN  IF power = p.highest /\ p.ref > denom THEN [p EXCEPT !.ref = denom] ELSE p

(* pickReferenceDenom over the passing denoms, visited in the given order  *)
(* (Go visits a map in an order that differs from run to run).             *)
PickReferenceDenom(order, power) ==
    FoldLeft(LAMBDA picked, denom : PickStep(picked, denom, power[denom]),
             [ref |-> NoDenom, highest |-> 0], order).ref
=============================================================================
