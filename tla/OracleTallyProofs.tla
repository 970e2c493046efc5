-------------------------- MODULE OracleTallyProofs --------------------------
(***************************************************************************)
(* Proofs about what the oracle computes, for any number of validators and *)
(* denoms, any voting powers and any rates: the types of everything that   *)
(* is stored; that the tally is deterministic; that a rate has a quorum    *)
(* behind it and follows a majority; that a slash window counts no period  *)
(* twice; and that a period whose ballots all pass is counted fairly.      *)
(***************************************************************************)
EXTENDS OracleProofs, SetLemmas, DecLemmas

-----------------------------------------------------------------------------
(* Ballots *)

VoteType == [voter : Validators, rate : Nat, power : Nat]

IsBallot(ballot) == ballot \subseteq VoteType /\ IsFiniteSet(ballot)

(* The power of a ballot is a natural, and no part of it has more. *)
LEMMA PowerNat ==
    ASSUME NEW ballot, IsBallot(ballot)
    PROVE  /\ BallotPower(ballot) \in Nat
           /\ \A part \in SUBSET ballot :
                 /\ BallotPower(part) \in Nat
                 /\ BallotPower(part) <= BallotPower(ballot)
                 /\ BallotPower(part)
                      = SumFunctionOnSet([vote \in ballot |-> vote.power], part)
<1> DEFINE power(b) == [vote \in b |-> vote.power]
           f == power(ballot)
<1>1. \A vote \in ballot : f[vote] \in Nat
  BY DEF IsBallot, VoteType
<1>2. IsFiniteSet(ballot)
  BY DEF IsBallot
<1>3. ASSUME NEW part \in SUBSET ballot
      PROVE  BallotPower(part) = SumFunctionOnSet(f, part)
  <2>1. IsFiniteSet(part)
    BY <1>2, FS_Subset
  <2>2. \A vote \in part : power(part)[vote] = f[vote]
    OBVIOUS
  <2>3. SumFunctionOnSet(power(part), part) = SumFunctionOnSet(f, part)
    <3> HIDE DEF f, power
    <3> QED  BY <2>1, <2>2, SumEqual
  <2> QED  BY <2>3 DEF BallotPower
<1>4. \A part \in SUBSET ballot :
         /\ SumFunctionOnSet(f, part) \in Nat
         /\ SumFunctionOnSet(f, part) <= SumFunctionOnSet(f, ballot)
  <2> HIDE DEF f
  <2>1. \A part \in SUBSET ballot : SumFunctionOnSet(f, part) \in Nat
    BY <1>1, <1>2, SumNat
  <2>2. ASSUME NEW part \in SUBSET ballot
        PROVE  SumFunctionOnSet(f, part) <= SumFunctionOnSet(f, ballot)
    BY <1>1, <1>2, SumSubset
  <2> QED  BY <2>1, <2>2
<1>5. ballot \in SUBSET ballot
  OBVIOUS
<1> HIDE DEF f
<1>6. \A part \in SUBSET ballot :
         /\ BallotPower(part) \in Nat
         /\ BallotPower(part) <= BallotPower(ballot)
         /\ BallotPower(part) = SumFunctionOnSet(f, part)
  BY <1>3, <1>4, <1>5
<1> QED  BY <1>5, <1>6 DEF f

(* the rates at which half of the power is reached *)
Reached(ballot) ==
    {vote.rate : vote \in
        {w \in ballot :
            BallotPower({vote \in ballot : vote.rate <= w.rate})
               >= BallotPower(ballot) \div 2}}

(* Half of the power is reached at the highest rate at the latest, so that *)
(* the weighted median is the rate of a vote.                              *)
LEMMA MedianNat ==
    ASSUME NEW ballot, IsBallot(ballot)
    PROVE  /\ WeightedMedian(ballot) \in Nat
           /\ ballot # {} => /\ WeightedMedian(ballot) \in Reached(ballot)
                             /\ \A r \in Reached(ballot) : WeightedMedian(ballot) <= r
                             /\ \E w \in ballot : w.rate = WeightedMedian(ballot)
<1>1. CASE ballot = {}
  BY <1>1 DEF WeightedMedian
<1>2. CASE ballot # {}
  <2> DEFINE rate == [vote \in ballot |-> vote.rate]
             R == {rate[vote] : vote \in ballot}
             P == BallotPower(ballot)
  <2>1. R \subseteq Nat /\ R # {} /\ IsFiniteSet(R)
    <3>1. IsFiniteSet(R)
      <4> HIDE DEF rate
      <4> QED  BY FiniteImage DEF IsBallot
    <3> QED  BY <1>2, <3>1 DEF IsBallot, VoteType
  <2>2. Max(R) \in R /\ \A y \in R : y <= Max(R)
    <3> HIDE DEF R
    <3> QED  BY <2>1, MaxIsElement
  <2>3. PICK top \in ballot : \A vote \in ballot : vote.rate <= top.rate
    BY <2>2
  <2>4. {vote \in ballot : vote.rate <= top.rate} = ballot
    BY <2>3
  <2>5. P \in Nat /\ P >= P \div 2
    <3>1. P \in Nat
      BY PowerNat
    <3> HIDE DEF P
    <3> QED  BY <3>1
  <2>6. top.rate \in Reached(ballot)
    BY <2>4, <2>5 DEF Reached
  <2>7. Reached(ballot) \subseteq Nat
    BY DEF Reached, IsBallot, VoteType
  <2>8. /\ Min(Reached(ballot)) \in Reached(ballot)
        /\ \A y \in Reached(ballot) : Min(Reached(ballot)) <= y
    BY <2>6, <2>7, MinIsElement
  <2>9. WeightedMedian(ballot) = Min(Reached(ballot))
    BY <1>2 DEF WeightedMedian, Reached
  <2>10. \A r \in Reached(ballot) : \E w \in ballot : w.rate = r
    BY DEF Reached
  <2> QED  BY <2>7, <2>8, <2>9, <2>10
<1> QED  BY <1>1, <1>2

(* An abstain vote is a vote. *)
LEMMA AbstainVote ==
    ASSUME NEW w \in VoteType
    PROVE  /\ [w EXCEPT !.rate = 0, !.power = 0] \in VoteType
           /\ [w EXCEPT !.rate = 0, !.power = 0].voter = w.voter
           /\ [w EXCEPT !.rate = 0, !.power = 0].rate = 0
           /\ [w EXCEPT !.rate = 0, !.power = 0].power = 0
BY DEF VoteType

(* The cross rates of a ballot are a ballot. *)
LEMMA CrossRateBallot ==
    ASSUME NEW ballot, IsBallot(ballot), NEW base, IsBallot(base)
    PROVE  IsBallot(ToCrossRate(ballot, ToMap(base)))
<1> DEFINE bases == ToMap(base)
           cross(vote) == IF vote.voter \in DOMAIN bases /\ vote.rate > 0
                          THEN [vote EXCEPT !.rate = Quo(bases[vote.voter], vote.rate)]
                          ELSE [vote EXCEPT !.rate = 0, !.power = 0]
           f == [vote \in ballot |-> cross(vote)]
<1>1. \A v \in DOMAIN bases : bases[v] \in Nat \ {0}
  <2> DEFINE positive == {vote \in base : vote.rate > 0}
  <2>1. DOMAIN bases = {vote.voter : vote \in positive}
    BY DEF ToMap
  <2>2. ASSUME NEW v \in DOMAIN bases
        PROVE  bases[v] \in Nat \ {0}
    <3> DEFINE w == CHOOSE vote \in positive : vote.voter = v
    <3>1. \E vote \in positive : vote.voter = v
      BY <2>1
    <3>2. w \in positive
      BY <3>1
    <3>3. bases[v] = w.rate
      BY <2>1 DEF ToMap
    <3> HIDE DEF w, bases
    <3> QED  BY <3>2, <3>3 DEF IsBallot, VoteType
  <2> QED  BY <2>2
<1>2. ASSUME NEW vote \in ballot
      PROVE  cross(vote) \in VoteType
  <2>1. vote \in VoteType
    BY DEF IsBallot
  <2>2. CASE vote.voter \in DOMAIN bases /\ vote.rate > 0
    <3>1. Quo(bases[vote.voter], vote.rate) \in Nat
      <4>1. bases[vote.voter] \in Nat /\ vote.rate \in Nat \ {0}
        BY <1>1, <2>1, <2>2 DEF VoteType
      <4> HIDE DEF bases
      <4> QED  BY <4>1, QuoNat
    <3>2. cross(vote) = [vote EXCEPT !.rate = Quo(bases[vote.voter], vote.rate)]
      BY <2>2
    <3> HIDE DEF bases, cross
    <3> QED  BY <2>1, <3>1, <3>2 DEF VoteType
  <2>3. CASE ~(vote.voter \in DOMAIN bases /\ vote.rate > 0)
    <3>1. cross(vote) = [vote EXCEPT !.rate = 0, !.power = 0]
      BY <2>3
    <3> HIDE DEF bases, cross
    <3> QED  BY <2>1, <3>1, AbstainVote
  <2> QED  BY <2>2, <2>3
<1>3. ToCrossRate(ballot, bases) = {f[vote] : vote \in ballot}
  <2>1. ToCrossRate(ballot, bases) = {cross(vote) : vote \in ballot}
    BY Zenon DEF ToCrossRate
  <2> HIDE DEF bases, cross
  <2> QED  BY <2>1
<1>4. IsFiniteSet({f[vote] : vote \in ballot})
  <2> HIDE DEF f
  <2> QED  BY FiniteImage DEF IsBallot
<1> HIDE DEF cross, bases
<1>5. {f[vote] : vote \in ballot} \subseteq VoteType
  BY <1>2
<1> QED  BY <1>3, <1>4, <1>5 DEF IsBallot, bases

-----------------------------------------------------------------------------
(* Types *)

StakingType ==
    [status : {"bonded", "unbonding", "removed"}, jailed : BOOLEAN,
     since : 0 .. MaxHeight, tokens : Nat]

(* Tokens give a whole number of units of power, which no more tokens      *)
(* than these stand for.                                                   *)
LEMMA PowerOfTokens ==
    ASSUME NEW t \in Nat
    PROVE  /\ TokensToPower(t) \in Nat
           /\ TokensToPower(t) * PowerReduction \in 0 .. t
<1> DEFINE q == t \div PowerReduction
           r == t % PowerReduction
<1>1. /\ PowerReduction \in Nat \ {0}
      /\ r \in 0 .. PowerReduction - 1 /\ q \in Int
      /\ t = PowerReduction * q + r
  BY OracleAssumption, Division
<1>2. q \in Nat
  BY OracleAssumption
<1>. HIDE DEF q, r
<1>3. q * PowerReduction = PowerReduction * q /\ q * PowerReduction \in Nat
  BY <1>1, <1>2
<1>. QED  BY <1>1, <1>2, <1>3 DEF TokensToPower, q

LEMMA PowerOfValidator ==
    ASSUME NEW val \in StakingType
    PROVE  ConsensusPower(val) \in Nat
<1>1. val.tokens \in Nat  BY DEF StakingType
<1>. QED  BY <1>1, PowerOfTokens DEF ConsensusPower

(* TypeOK is inductive together with the validity of the parameters (a     *)
(* slash takes at most the whole stake), and with the fact that a counter  *)
(* that is stored has counted something.                                   *)
OInv ==
    /\ TypeOK
    /\ ValidParams(params)
    /\ \A v \in DOMAIN counters : TotalVotes(counters[v]) # 0

(* what the type of the store of votes says *)
LEMMA VotesType ==
    ASSUME TypeOK
    PROVE  /\ DOMAIN votes \subseteq Validators
           /\ \A v \in DOMAIN votes :
                 /\ DOMAIN votes[v] \subseteq Denoms
                 /\ \A d \in DOMAIN votes[v] :
                       /\ votes[v][d] \in VoteRates
                       /\ votes[v][d] \in Nat \ {0}
<1>1. votes \in PartialFunctions(Validators, PartialFunctions(Denoms, VoteRates))
  BY DEF TypeOK
<1>2. ASSUME NEW S, NEW T, NEW g \in PartialFunctions(S, T)
      PROVE  DOMAIN g \subseteq S /\ \A x \in DOMAIN g : g[x] \in T
  BY DEF PartialFunctions
<1>3. DOMAIN votes \subseteq Validators
      /\ \A v \in DOMAIN votes : votes[v] \in PartialFunctions(Denoms, VoteRates)
  BY <1>1, <1>2
<1>4. \A v \in DOMAIN votes :
         /\ DOMAIN votes[v] \subseteq Denoms
         /\ \A d \in DOMAIN votes[v] : votes[v][d] \in VoteRates
  BY <1>2, <1>3
<1> QED  BY <1>3, <1>4, OracleAssumption

(* storing under a key *)
LEMMA PutType ==
    ASSUME NEW S, NEW T, NEW g \in PartialFunctions(S, T), NEW k \in S, NEW x \in T
    PROVE  Put(g, k, x) \in PartialFunctions(S, T)
<1>1. DOMAIN g \subseteq S /\ \A y \in DOMAIN g : g[y] \in T
  BY DEF PartialFunctions
<1>2. Put(g, k, x) \in [DOMAIN g \cup {k} -> T]
  BY <1>1 DEF Put
<1>3. DOMAIN g \cup {k} \in SUBSET S
  BY <1>1
<1> QED  BY <1>2, <1>3 DEF PartialFunctions

LEMMA EmptyStoreType ==
    ASSUME NEW S, NEW T
    PROVE  EmptyStore \in PartialFunctions(S, T) /\ DOMAIN EmptyStore = {}
<1>1. EmptyStore \in [{} -> T] /\ DOMAIN EmptyStore = {}
  BY DEF EmptyStore
<1>2. {} \in SUBSET S
  OBVIOUS
<1> QED  BY <1>1, <1>2 DEF PartialFunctions

(* the weaker types that the argument about windows uses *)
LEMMA OInvCounterTypes ==
    ASSUME OInv
    PROVE  CounterTypes
<1>1. staking \in [Validators -> StakingType]
  BY DEF OInv, TypeOK, StakingType
<1>2. \A x \in StakingType : x \in ValidatorType
  BY OracleAssumption DEF StakingType, ValidatorType
<1>3. height \in Nat
  BY OracleAssumption DEF OInv, TypeOK
<1> QED  BY <1>1, <1>2, <1>3 DEF OInv, TypeOK, CounterTypes, Records

(* the vote of v in the ballot of d *)
VoteOf(vals, d, v) ==
    [voter |-> v, rate |-> votes[v][d],
     power |-> IF votes[v][d] > 0 THEN ConsensusPower(vals[v]) ELSE 0]

VotersOf(vals, d) == {w \in Voters(vals) : d \in DOMAIN votes[w]}

(* OrganizeBallotByDenom makes a ballot of every denom: one vote of each   *)
(* claimant that voted on it, with its power.                              *)
LEMMA BallotTyped ==
    ASSUME TypeOK, NEW vals \in [Validators -> StakingType], NEW d
    PROVE  /\ IsBallot(Ballot(vals, d))
           /\ Ballot(vals, d) = {VoteOf(vals, d, v) : v \in VotersOf(vals, d)}
           /\ VotersOf(vals, d) \subseteq Validators /\ IsFiniteSet(VotersOf(vals, d))
           /\ \A v \in VotersOf(vals, d) :
                 /\ VoteOf(vals, d, v) \in VoteType
                 /\ VoteOf(vals, d, v).power = ConsensusPower(vals[v])
<1> DEFINE V == VotersOf(vals, d)
           f == [v \in V |-> VoteOf(vals, d, v)]
<1>1. V \subseteq Validators
  BY DEF VotersOf, Voters, Claimants
<1>2. IsFiniteSet(V)
  BY <1>1, OracleAssumption, FS_Subset
<1>3. Ballot(vals, d) = {VoteOf(vals, d, v) : v \in V}
  BY DEF Ballot, VoteOf, VotersOf
<1>4. ASSUME NEW v \in V
      PROVE  /\ VoteOf(vals, d, v) \in VoteType
             /\ VoteOf(vals, d, v).power = ConsensusPower(vals[v])
  <2>1. v \in DOMAIN votes /\ d \in DOMAIN votes[v]
    BY DEF VotersOf, Voters
  <2>2. votes[v][d] \in Nat \ {0}
    BY <2>1, VotesType
  <2>3. ConsensusPower(vals[v]) \in Nat
    BY <1>1, PowerOfValidator
  <2> QED  BY <1>1, <2>2, <2>3 DEF VoteOf, VoteType
<1>5. IsFiniteSet({f[v] : v \in V})
  <2> HIDE DEF f, V
  <2> QED  BY <1>2, FiniteImage
<1>6. {f[v] : v \in V} = {VoteOf(vals, d, v) : v \in V}
  <2> HIDE DEF V
  <2> QED  OBVIOUS
<1>7. IsBallot(Ballot(vals, d))
  <2> HIDE DEF V, f
  <2> QED  BY <1>3, <1>4, <1>5, <1>6 DEF IsBallot
<1> QED  BY <1>1, <1>2, <1>3, <1>4, <1>7

(* So is what is tallied, whatever the reference denom. *)
LEMMA TalliedBallotTyped ==
    ASSUME TypeOK, NEW vals \in [Validators -> StakingType], NEW ref, NEW d
    PROVE  IsBallot(TalliedBallot(vals, ref, d))
<1>1. IsBallot(Ballot(vals, d)) /\ IsBallot(Ballot(vals, ref))
  BY BallotTyped
<1>2. IsBallot(ToCrossRate(Ballot(vals, d), ToMap(Ballot(vals, ref))))
  BY <1>1, CrossRateBallot
<1> QED  BY <1>1, <1>2 DEF TalliedBallot

(* The tally sets rates of vote targets, and they are naturals: the        *)
(* divisor of a cross rate is never zero.                                  *)
LEMMA TalliedRatesType ==
    ASSUME TypeOK, NEW vals \in [Validators -> StakingType], NEW ref
    PROVE  /\ DOMAIN TalliedRates(vals, ref) \subseteq Passing(vals)
           /\ Passing(vals) \subseteq voteTarget
           /\ \A d \in DOMAIN TalliedRates(vals, ref) :
                 TalliedRates(vals, ref)[d] \in Nat
<1> DEFINE median(d) == WeightedMedian(TalliedBallot(vals, ref, d))
           D == {e \in Passing(vals) : median(e) # 0}
<1>1. \A d : median(d) \in Nat
  BY TalliedBallotTyped, MedianNat
<1>2. TalliedRates(vals, ref) =
         [d \in D |-> IF d = ref THEN median(d) ELSE Quo(median(ref), median(d))]
  BY DEF TalliedRates
<1>3. Passing(vals) \subseteq voteTarget
  BY DEF Passing, VotedDenoms
<1> HIDE DEF median
<1>4. \A d \in D : Quo(median(ref), median(d)) \in Nat
  BY <1>1, QuoNat
<1>5. \A d \in D : TalliedRates(vals, ref)[d] \in Nat
  BY <1>1, <1>2, <1>4
<1>6. DOMAIN TalliedRates(vals, ref) = D
  BY <1>2
<1> QED  BY <1>3, <1>5, <1>6

(* Staking's EndBlocker and the slashes keep the types of the validators. *)
LEMMA StakingStepType ==
    ASSUME OInv
    PROVE  /\ staking \in [Validators -> StakingType]
           /\ \A gone : StakingEndBlock(gone) \in [Validators -> StakingType]
           /\ \A v \in Validators : Slash(v) \in StakingType
<1>1. staking \in [Validators -> StakingType] /\ height \in 0 .. MaxHeight
  BY DEF OInv, TypeOK, StakingType
<1>2. ASSUME NEW gone, NEW v \in Validators
      PROVE  StakingEndBlock(gone)[v] \in StakingType
  <2>1. /\ staking[v] \in StakingType
        /\ [staking[v] EXCEPT !.status = "removed"] \in StakingType
        /\ [staking[v] EXCEPT !.status = "unbonding", !.since = height] \in StakingType
        /\ [staking[v] EXCEPT !.status = "bonded"] \in StakingType
    BY <1>1 DEF StakingType
  <2> QED  BY <2>1 DEF StakingEndBlock
<1>3. \A gone : StakingEndBlock(gone) \in [Validators -> StakingType]
  BY <1>2 DEF StakingEndBlock
<1>4. ASSUME NEW v \in Validators
      PROVE  Slash(v) \in StakingType
  <2> DEFINE p == staking[v].tokens
             w == TokensToPower(p) * PowerReduction
             t == TruncateInt(w * params.slashFraction)
  <2>1. staking[v] \in StakingType
    BY <1>1
  <2>2. p \in Nat /\ params.slashFraction \in 0 .. Prec
    BY <2>1 DEF StakingType, OInv, ValidParams
  <2>3. t \in 0 .. p
    <3> HIDE DEF p
    <3>1. w \in Nat /\ w <= p
      BY <2>2, PowerOfTokens
    <3> HIDE DEF w
    <3>2. t \in 0 .. w
      BY <2>2, <3>1, FractionNat
    <3> HIDE DEF t
    <3> QED  BY <2>2, <3>1, <3>2
  <2>4. Slash(v) = [staking[v] EXCEPT !.tokens = p - t]
    BY <2>1 DEF Slash, StakingType
  <2> HIDE DEF t
  <2>5. p - t \in Nat
    BY <2>2, <2>3
  <2> QED  BY <2>1, <2>4, <2>5 DEF StakingType
<1> QED  BY <1>1, <1>3, <1>4

(* The tally keeps the types. *)
LEMMA TallyType ==
    ASSUME OInv, NEW gone, EndBlockTally(gone)
    PROVE  OInv'
<1> DEFINE vals == StakingEndBlock(gone)
<1>1. PICK ref : /\ rates' = SetExchangeRates(TalliedRates(vals, ref))
                 /\ counters' = CountersAfter(vals, ref)
  BY DEF EndBlockTally
<1>2. vals \in [Validators -> StakingType]
  BY StakingStepType
<1>3. staking' \in [Validators -> StakingType]
  BY <1>2 DEF EndBlockTally
<1>4. DOMAIN rates' \subseteq Denoms /\ \A d \in DOMAIN rates' : rates'[d] \in Nat
  <2> DEFINE new == TalliedRates(vals, ref)
  <2>1. DOMAIN new \subseteq Denoms /\ \A d \in DOMAIN new : new[d] \in Nat
    <3> HIDE DEF vals
    <3> QED  BY <1>2, TalliedRatesType DEF OInv, TypeOK
  <2>2. rates' = PutAll(rates, new)
    BY <1>1 DEF SetExchangeRates
  <2> HIDE DEF new
  <2> QED  BY <2>1, <2>2 DEF PutAll, OInv, TypeOK
<1>5. /\ DOMAIN counters' \subseteq Validators
      /\ \A v \in DOMAIN counters' :
            /\ counters'[v] \in [success : Nat, abstain : Nat, miss : Nat]
            /\ TotalVotes(counters'[v]) # 0
  <2> HIDE DEF vals
  <2> QED  BY <1>1, OInvCounterTypes, CountersAfterType DEF Records
<1>6. voteTarget' \subseteq Denoms /\ metadata' \subseteq Denoms
  <2>1. Range(params.whitelist) \subseteq Denoms
    <3>1. params.whitelist \in Seq(Denoms)
      BY ParamsAssumption DEF OInv, TypeOK, ParamsType
    <3> QED  BY <3>1 DEF Range
  <2> QED  BY <2>1 DEF EndBlockTally, ApplyWhitelist, OInv, TypeOK
<1>7. DOMAIN snapshots' \subseteq 0 .. time
  <2>1. time \in Nat /\ DOMAIN snapshots \subseteq 0 .. time
    BY DEF OInv, TypeOK
  <2>2. ASSUME NEW s PROVE DOMAIN AddPriceSnapshot(s) \subseteq DOMAIN snapshots \cup {time}
    BY DEF AddPriceSnapshot, Put, Restrict
  <2>3. snapshots' = snapshots \/ snapshots' = AddPriceSnapshot(rates')
    BY DEF EndBlockTally
  <2> QED  BY <2>1, <2>2, <2>3
<1>8. /\ height' = height /\ time' = time /\ params' = params /\ phase' = "idle"
      /\ feeder' = feeder /\ halted' = halted /\ votes' = EmptyStore
  BY DEF EndBlockTally
<1>9. votes' \in PartialFunctions(Validators, PartialFunctions(Denoms, VoteRates))
  BY <1>8, EmptyStoreType
<1>10. TypeOK'
  BY <1>3, <1>4, <1>5, <1>6, <1>7, <1>8, <1>9 DEF OInv, TypeOK, StakingType
<1>11. ValidParams(params)'
  BY <1>8 DEF OInv, ValidParams
<1> QED  BY <1>5, <1>10, <1>11 DEF OInv

(* So does every block that begins. *)
LEMMA BeginBlockType ==
    ASSUME OInv, NEW gap \in BlockGaps, BeginBlock(gap) \/ BeginBlockSlash(gap)
    PROVE  OInv'
<1>1. /\ height < MaxHeight /\ height' = height + 1 /\ time' = time + gap
      /\ phase' = "txs" /\ params' = params /\ feeder' = feeder /\ halted' = halted
      /\ votes' = votes /\ snapshots' = snapshots /\ voteTarget' = voteTarget
      /\ metadata' = metadata
  BY DEF BeginBlock, BeginBlockSlash, NextBlock, ballotVars
<1>2. gap \in Nat /\ MaxHeight \in Nat
  BY OracleAssumption
<1>3. /\ height' \in 0 .. MaxHeight /\ time' \in Nat
      /\ DOMAIN snapshots' \subseteq 0 .. time'
  BY <1>1, <1>2 DEF OInv, TypeOK
<1>4. staking' \in [Validators -> StakingType]
  <2>1. CASE BeginBlock(gap)
    BY <2>1, StakingStepType DEF BeginBlock
  <2>2. CASE BeginBlockSlash(gap)
    BY <2>2, StakingStepType DEF BeginBlockSlash
  <2> QED  BY <2>1, <2>2
<1>5. /\ DOMAIN rates' \subseteq DOMAIN rates
      /\ \A d \in DOMAIN rates' : rates'[d] = rates[d]
      /\ DOMAIN counters' \subseteq DOMAIN counters
      /\ \A v \in DOMAIN counters' : counters'[v] = counters[v]
  <2>1. CASE BeginBlock(gap)
    BY <2>1 DEF BeginBlock, ballotVars
  <2>2. CASE BeginBlockSlash(gap)
    BY <2>2 DEF BeginBlockSlash, CountersAfterReset, RemoveExcessFeeds, Restrict
  <2> QED  BY <2>1, <2>2
<1>6. TypeOK'
  BY <1>1, <1>3, <1>4, <1>5 DEF OInv, TypeOK, StakingType
<1>7. ValidParams(params)' /\ (\A v \in DOMAIN counters : TotalVotes(counters[v]) # 0)'
  BY <1>1, <1>5 DEF OInv, ValidParams, TotalVotes
<1> QED  BY <1>6, <1>7 DEF OInv

(* And the messages of x/staking. *)
LEMMA StakingMessageType ==
    ASSUME OInv, NEW v \in Validators, Jail(v) \/ Unjail(v) \/ CreateValidator(v)
    PROVE  OInv'
<1>1. UNCHANGED <<blockVars, params, ballotVars, feeder, halted>>
  BY DEF Jail, Unjail, CreateValidator
<1>2. staking \in [Validators -> StakingType] /\ height \in 0 .. MaxHeight
  BY StakingStepType DEF OInv, TypeOK
<1>3. \E new \in StakingType : staking' = [staking EXCEPT ![v] = new]
  <2>1. ASSUME NEW b \in BOOLEAN
        PROVE  /\ [staking[v] EXCEPT !.jailed = b] \in StakingType
               /\ [staking EXCEPT ![v].jailed = b]
                    = [staking EXCEPT ![v] = [staking[v] EXCEPT !.jailed = b]]
    BY <1>2 DEF StakingType
  <2>2. CASE Jail(v)
    BY <2>1, <2>2 DEF Jail
  <2>3. CASE Unjail(v)
    BY <2>1, <2>3 DEF Unjail
  <2>4. CASE CreateValidator(v)
    <3>1. [status |-> "unbonding", jailed |-> FALSE, since |-> height,
           tokens |-> InitTokens[v]] \in StakingType
      BY <1>2, OracleAssumption DEF StakingType
    <3> QED  BY <2>4, <3>1 DEF CreateValidator
  <2> QED  BY <2>2, <2>3, <2>4
<1>4. staking' \in [Validators -> StakingType]
  BY <1>2, <1>3
<1> QED
  BY <1>1, <1>4 DEF OInv, TypeOK, StakingType, blockVars, ballotVars, ValidParams, TotalVotes

LEMMA OInvInductive ==
    /\ Init => OInv
    /\ OInv /\ [Next]_vars => OInv'
<1>1. ASSUME Init PROVE OInv
  <2>1. \A v \in Validators : InitStaking[v] \in StakingType
    BY OracleAssumption DEF InitStaking, StakingType
  <2>2. staking \in [Validators -> StakingType]
    BY <1>1, <2>1 DEF Init, InitStaking
  <2>3. /\ votes \in PartialFunctions(Validators, PartialFunctions(Denoms, VoteRates))
        /\ feeder \in PartialFunctions(Validators, Accounts)
        /\ DOMAIN rates = {} /\ DOMAIN snapshots = {} /\ DOMAIN counters = {}
    BY <1>1, EmptyStoreType DEF Init
  <2>4. height \in 0 .. MaxHeight /\ time \in Nat /\ ValidParams(params)
    BY <1>1, OracleAssumption, ParamsAssumption DEF Init
  <2> QED  BY <1>1, <2>2, <2>3, <2>4 DEF Init, OInv, TypeOK, StakingType
<1>2. ASSUME OInv, [Next]_vars PROVE OInv'
  <2>. USE <1>2
  <2>1. ASSUME NEW gap \in BlockGaps, BeginBlock(gap) \/ BeginBlockSlash(gap)
        PROVE  OInv'
    BY <2>1, BeginBlockType
  <2>2. CASE BeginBlockPanic \/ UNCHANGED vars
    <3>1. /\ UNCHANGED <<height, time, phase, params, votes, rates, snapshots, counters,
                         voteTarget, metadata, feeder, staking>>
          /\ halted' \in BOOLEAN
      BY <2>2 DEF BeginBlockPanic, vars, blockVars, ballotVars, OInv, TypeOK
    <3> QED  BY <3>1 DEF OInv, TypeOK, ValidParams, TotalVotes
  <2>3. ASSUME NEW f, NEW v \in Validators, NEW er \in ExchangeRateTuples,
               AggregateExchangeRateVote(f, v, er)
        PROVE  OInv'
    <3>1. votes' = Put(votes, v, er)
          /\ UNCHANGED <<blockVars, params, rates, snapshots, counters, voteTarget,
                         metadata, feeder, staking, halted>>
      BY <2>3 DEF AggregateExchangeRateVote
    <3>2. votes' \in PartialFunctions(Validators, PartialFunctions(Denoms, VoteRates))
      BY <3>1, PutType DEF OInv, TypeOK, ExchangeRateTuples
    <3> QED  BY <3>1, <3>2 DEF OInv, TypeOK, ValidParams, TotalVotes, blockVars
  <2>4. ASSUME NEW v \in Validators, NEW f \in Delegates, DelegateFeedConsent(v, f)
        PROVE  OInv'
    <3>1. feeder' = Put(feeder, v, f)
          /\ UNCHANGED <<blockVars, params, ballotVars, staking, halted>>
      BY <2>4 DEF DelegateFeedConsent
    <3>2. feeder' \in PartialFunctions(Validators, Accounts)
      <4>1. f \in Accounts
        BY OracleAssumption
      <4> QED  BY <3>1, <4>1, PutType DEF OInv, TypeOK
    <3> QED
      BY <3>1, <3>2 DEF OInv, TypeOK, ValidParams, TotalVotes, blockVars, ballotVars
  <2>5. ASSUME NEW p \in ParamsProposals, UpdateParams(p) PROVE OInv'
    BY <2>5 DEF UpdateParams, OInv, TypeOK, ValidParams, TotalVotes, blockVars, ballotVars
  <2>6. ASSUME NEW v \in Faulty, Jail(v) \/ Unjail(v) \/ CreateValidator(v) PROVE OInv'
    BY <2>6, StakingMessageType, OracleAssumption
  <2>7. ASSUME NEW gone, EndBlock(gone) PROVE OInv'
    <3>1. /\ phase' = "idle" /\ staking' = StakingEndBlock(gone)
          /\ UNCHANGED <<height, time, params, ballotVars, feeder, halted>>
      BY <2>7 DEF EndBlock
    <3>2. staking' \in [Validators -> StakingType]
      BY <3>1, StakingStepType
    <3> QED
      BY <3>1, <3>2 DEF OInv, TypeOK, StakingType, ValidParams, TotalVotes, ballotVars
  <2>8. ASSUME NEW gone, EndBlockTally(gone) PROVE OInv'
    BY <2>8, TallyType
  <2>. QED
    BY <2>1, <2>2, <2>3, <2>4, <2>5, <2>6, <2>7, <2>8 DEF Next, OtherStep
<1>. QED  BY <1>1, <1>2

(* Everything the oracle stores keeps its type; in particular every rate   *)
(* is a natural, although cross rates are quotients of quotients, and no   *)
(* slash takes more than the stake.                                        *)
THEOREM OracleTypes == Spec => []TypeOK
<1>1. OInv => TypeOK
  BY DEF OInv
<1>. QED  BY <1>1, OInvInductive, PTL DEF Spec

-----------------------------------------------------------------------------
(* The reference denom *)

NothingPicked == [ref |-> NoDenom, highest |-> 0]

(* one turn of the loop, at position i of the order *)
PickAt(picked, order, power, i) == PickStep(picked, order[i], power[order[i]])

(* g is the recursive function inside the fold of pickReferenceDenom over  *)
(* the positions in D                                                      *)
PickRec(g, order, power, D) ==
    g = [s \in SUBSET D |->
           IF s = {} THEN NothingPicked
           ELSE PickAt(g[s \ {Max(s)}], order, power, Max(s))]

LEMMA PickUnfold ==
    ASSUME NEW order, NEW power
    PROVE  PickReferenceDenom(order, power)
             = (CHOOSE g : PickRec(g, order, power, DOMAIN order))[DOMAIN order].ref
BY DEF PickReferenceDenom, FoldLeft, MapThenFoldSet, PickRec, PickAt, NothingPicked

IsPositions(D) == D \subseteq Nat /\ IsFiniteSet(D)

(* two such functions agree where both are defined *)
LEMMA PickRecAgree ==
    ASSUME NEW order, NEW power, NEW D, IsPositions(D), NEW E \in SUBSET D,
           NEW g, PickRec(g, order, power, D), NEW h, PickRec(h, order, power, E)
    PROVE  \A s \in SUBSET E : g[s] = h[s]
<1> DEFINE Bad == {s \in SUBSET E : g[s] # h[s]}
<1>1. SUFFICES ASSUME Bad # {}
               PROVE  FALSE
  OBVIOUS
<1>2. IsFiniteSet(E)
  BY FS_Subset DEF IsPositions
<1>3. PICK s \in Bad : \A u \in Bad : u \subseteq s => u = s
  <2>1. Bad \in SUBSET (SUBSET E)
    OBVIOUS
  <2> HIDE DEF Bad
  <2> QED  BY <1>1, <1>2, <2>1, MinimalSet
<1>4. /\ g[s] = IF s = {} THEN NothingPicked
                ELSE PickAt(g[s \ {Max(s)}], order, power, Max(s))
      /\ h[s] = IF s = {} THEN NothingPicked
                ELSE PickAt(h[s \ {Max(s)}], order, power, Max(s))
  BY DEF PickRec
<1>5. s # {}
  BY <1>4
<1>6. Max(s) \in s
  <2>1. s \in SUBSET Nat /\ IsFiniteSet(s)
    BY <1>2, FS_Subset DEF IsPositions
  <2> QED  BY <1>5, <2>1, MaxIsElement
<1>7. s \ {Max(s)} \notin Bad
  BY <1>3, <1>6
<1>8. g[s \ {Max(s)}] = h[s \ {Max(s)}]
  BY <1>7
<1> QED  BY <1>4, <1>5, <1>8

(* the recursive function exists *)
LEMMA PickRecExists ==
    ASSUME NEW order, NEW power, NEW D, IsPositions(D)
    PROVE  PickRec(CHOOSE g : PickRec(g, order, power, D), order, power, D)
<1> DEFINE Rec(g, t) == PickRec(g, order, power, t)
           G(t) == CHOOSE g : Rec(g, t)
           Bad == {t \in SUBSET D : ~Rec(G(t), t)}
<1>1. SUFFICES ASSUME Bad # {}
               PROVE  FALSE
  <2>1. D \notin Bad => Rec(G(D), D)
    OBVIOUS
  <2> QED  BY <1>1, <2>1
<1>2. PICK T \in Bad : \A u \in Bad : u \subseteq T => u = T
  <2>1. Bad \in SUBSET (SUBSET D)
    OBVIOUS
  <2>2. IsFiniteSet(D)
    BY DEF IsPositions
  <2> HIDE DEF Bad
  <2> QED  BY <1>1, <2>1, <2>2, MinimalSet
<1>3. ASSUME NEW t \in SUBSET T, t # T
      PROVE  Rec(G(t), t)
  BY <1>2, <1>3
<1> HIDE DEF G
<1> DEFINE V(t) == G(t)[t]
           R(t) == IF t = {} THEN NothingPicked
                   ELSE PickAt(V(t \ {Max(t)}), order, power, Max(t))
           h == [t \in SUBSET T |-> R(t)]
<1>4. \A t \in SUBSET T : IsPositions(t) /\ (t # {} => Max(t) \in t)
  <2>1. \A t \in SUBSET T : IsFiniteSet(t) /\ t \in SUBSET Nat
    BY FS_Subset DEF IsPositions
  <2> QED  BY <2>1, MaxIsElement DEF IsPositions
<1>5. ASSUME NEW t \in SUBSET T, t # T
      PROVE  V(t) = R(t)
  <2>1. V(t) = IF t = {} THEN NothingPicked
               ELSE PickAt(G(t)[t \ {Max(t)}], order, power, Max(t))
    BY <1>3, <1>5 DEF PickRec
  <2>2. CASE t # {}
    <3>1. t \ {Max(t)} \in SUBSET t /\ t \ {Max(t)} \in SUBSET T /\ t \ {Max(t)} # T
      BY <1>4, <1>5, <2>2
    <3>2. G(t)[t \ {Max(t)}] = V(t \ {Max(t)})
      <4> DEFINE u == t \ {Max(t)}
      <4>1. u \in SUBSET t /\ Rec(G(u), u)
        BY <1>3, <3>1
      <4>2. IsPositions(t) /\ Rec(G(t), t)
        BY <1>3, <1>4, <1>5
      <4> HIDE DEF u
      <4>3. \A s \in SUBSET u : G(t)[s] = G(u)[s]
        BY <4>1, <4>2, PickRecAgree
      <4>4. G(t)[u] = G(u)[u]
        BY <4>3
      <4> QED  BY <4>4 DEF u
    <3> HIDE DEF V
    <3> QED  BY <2>1, <2>2, <3>2
  <2> QED  BY <2>1, <2>2
<1>6. ASSUME NEW t \in SUBSET T
      PROVE  h[t] = IF t = {} THEN NothingPicked
                    ELSE PickAt(h[t \ {Max(t)}], order, power, Max(t))
  <2>1. h[t] = R(t)
    OBVIOUS
  <2>2. CASE t # {}
    <3>1. t \ {Max(t)} \in SUBSET T /\ t \ {Max(t)} # T
      BY <1>4, <2>2
    <3>2. h[t \ {Max(t)}] = V(t \ {Max(t)})
      BY <1>5, <3>1
    <3> HIDE DEF h, V
    <3> QED  BY <2>1, <2>2, <3>2
  <2> QED  BY <2>1, <2>2
<1>7. Rec(h, T)
  <2> HIDE DEF h
  <2>1. h = [t \in SUBSET T |-> h[t]]
    BY DEF h
  <2>2. [t \in SUBSET T |-> h[t]] = [t \in SUBSET T |->
           IF t = {} THEN NothingPicked
           ELSE PickAt(h[t \ {Max(t)}], order, power, Max(t))]
    BY <1>6
  <2> QED  BY <2>1, <2>2 DEF PickRec
<1>8. Rec(G(T), T)
  BY <1>7 DEF G
<1> QED  BY <1>8

(* picked is the best of the denoms at the positions in s: the greatest    *)
(* power, and among equals the first in the alphabet                       *)
BestOf(picked, order, power, s) ==
    /\ \E i \in s : picked.ref = order[i]
    /\ picked.highest = power[picked.ref]
    /\ \A i \in s : \/ power[order[i]] < picked.highest
                    \/ power[order[i]] = picked.highest /\ picked.ref <= order[i]

(* a turn of the loop keeps the best so far *)
LEMMA PickStepBest ==
    ASSUME NEW order, NEW power, NEW t, NEW i, NEW picked,
           \A j \in t \cup {i} : /\ order[j] \in Nat
                                 /\ power[order[j]] \in Nat \ {0},
           \/ t = {} /\ picked = NothingPicked
           \/ BestOf(picked, order, power, t)
    PROVE  BestOf(PickAt(picked, order, power, i), order, power, t \cup {i})
<1> DEFINE d == order[i]
           p == power[d]
<1>1. d \in Nat /\ p \in Nat \ {0}
  OBVIOUS
<1>2. CASE t = {} /\ picked = NothingPicked
  <2>1. PickAt(picked, order, power, i) = [ref |-> d, highest |-> p]
    BY <1>1, <1>2 DEF PickAt, PickStep, NothingPicked
  <2> QED  BY <1>1, <1>2, <2>1 DEF BestOf
<1>3. CASE BestOf(picked, order, power, t)
  <2>1. PICK j \in t : picked.ref = order[j]
    BY <1>3 DEF BestOf
  <2>2. picked.ref \in Nat /\ picked.highest \in Nat \ {0} /\ picked.highest = power[picked.ref]
    BY <1>3, <2>1 DEF BestOf
  <2>3. CASE p > picked.highest
    <3>1. PickAt(picked, order, power, i) = [ref |-> d, highest |-> p]
      BY <1>1, <2>2, <2>3 DEF PickAt, PickStep
    <3> QED  BY <1>1, <1>3, <2>2, <2>3, <3>1 DEF BestOf
  <2>4. CASE ~(p > picked.highest) /\ p = picked.highest /\ picked.ref > d
    <3>1. PickAt(picked, order, power, i) = [picked EXCEPT !.ref = d]
      BY <1>1, <2>2, <2>4 DEF PickAt, PickStep
    <3> QED  BY <1>1, <1>3, <2>2, <2>4, <3>1 DEF BestOf
  <2>5. CASE ~(p > picked.highest) /\ ~(p = picked.highest /\ picked.ref > d)
    <3>1. PickAt(picked, order, power, i) = picked
      BY <1>1, <2>2, <2>5 DEF PickAt, PickStep
    <3> QED  BY <1>1, <1>3, <2>2, <2>5, <3>1 DEF BestOf
  <2> QED  BY <2>3, <2>4, <2>5
<1> QED  BY <1>2, <1>3

(* ref is the best of the n denoms of the order, if there are any *)
Finds(order, power, n, ref) ==
    /\ n = 0 => ref = NoDenom
    /\ n # 0 => /\ \E i \in 1 .. n : ref = order[i]
                /\ \A i \in 1 .. n :
                      \/ power[order[i]] < power[ref]
                      \/ power[order[i]] = power[ref] /\ ref <= order[i]

(* pickReferenceDenom, over denoms with positive powers in any order,      *)
(* finds the best of them; without any, none.                              *)
LEMMA PickIsBest ==
    ASSUME NEW order, NEW power, NEW n \in Nat, DOMAIN order = 1 .. n,
           \A i \in 1 .. n : order[i] \in Nat /\ power[order[i]] \in Nat \ {0}
    PROVE  Finds(order, power, n, PickReferenceDenom(order, power))
<1> USE DEF Finds
<1> DEFINE D == 1 .. n
           ref == PickReferenceDenom(order, power)
<1>1. IsPositions(D)
  <2>1. IsFiniteSet(1 .. n)
    BY FS_Interval
  <2> QED  BY <2>1 DEF IsPositions
<1>2. PICK g : g = (CHOOSE h : PickRec(h, order, power, D))
  OBVIOUS
<1>3. PickRec(g, order, power, D)
  <2> HIDE DEF D
  <2> QED  BY <1>1, <1>2, PickRecExists
<1>4. ref = g[D].ref
  BY <1>2, PickUnfold
<1>5. \A i \in D : order[i] \in Nat /\ power[order[i]] \in Nat \ {0}
  OBVIOUS
<1> HIDE DEF D
<1> DEFINE Good == {s \in SUBSET D :
                      IF s = {} THEN g[s] = NothingPicked
                      ELSE BestOf(g[s], order, power, s)}
<1>6. ASSUME NEW s \in SUBSET D, \A x \in s : s \ {x} \in Good
      PROVE  s \in Good
  <2>1. g[s] = IF s = {} THEN NothingPicked
               ELSE PickAt(g[s \ {Max(s)}], order, power, Max(s))
    BY <1>3 DEF PickRec
  <2>2. CASE s # {}
    <3> DEFINE x == Max(s)
               t == s \ {x}
    <3>1. x \in s
      <4>1. s \in SUBSET Nat /\ IsFiniteSet(s)
        BY <1>1, FS_Subset DEF IsPositions
      <4> QED  BY <2>2, <4>1, MaxIsElement
    <3> HIDE DEF x
    <3>2. t \in Good
      BY <1>6, <3>1
    <3>3. t \cup {x} = s
      BY <3>1
    <3>4. \/ t = {} /\ g[t] = NothingPicked
          \/ BestOf(g[t], order, power, t)
      BY <3>2
    <3>5. \A j \in t \cup {x} : order[j] \in Nat /\ power[order[j]] \in Nat \ {0}
      BY <1>5, <3>3
    <3>6. BestOf(PickAt(g[t], order, power, x), order, power, t \cup {x})
      <4> HIDE DEF t
      <4> QED  BY <3>4, <3>5, PickStepBest
    <3>7. g[s] = PickAt(g[t], order, power, x)
      BY <2>1, <2>2 DEF x
    <3> QED  BY <2>2, <3>3, <3>6, <3>7
  <2> QED  BY <2>1, <2>2
<1>7. \A s \in SUBSET D : s \in Good
  <2>1. IsFiniteSet(D)
    BY <1>1 DEF IsPositions
  <2> HIDE DEF Good
  <2> QED  BY <1>6, <2>1, SetInduction
<1>8. IF D = {} THEN g[D] = NothingPicked ELSE BestOf(g[D], order, power, D)
  <2>1. D \in Good
    BY <1>7
  <2> QED  BY <2>1
<1>9. n = 0 <=> D = {}
  BY DEF D
<1>10. CASE n = 0
  <2>1. g[D].ref = NoDenom
    BY <1>8, <1>9, <1>10 DEF NothingPicked
  <2> QED  BY <1>4, <1>10, <2>1
<1>11. CASE n # 0
  <2>1. BestOf(g[D], order, power, D)
    BY <1>8, <1>9, <1>11
  <2>2. /\ \E i \in D : ref = order[i]
        /\ \A i \in D : \/ power[order[i]] < power[ref]
                        \/ power[order[i]] = power[ref] /\ ref <= order[i]
    BY <1>4, <2>1 DEF BestOf
  <2> QED  BY <1>11, <2>2 DEF D
<1> QED  BY <1>10, <1>11

(* the orders in which Go may visit a map are permutations of its keys *)
LEMMA OrderIsOnto ==
    ASSUME NEW S, IsFiniteSet(S), NEW order \in SetToSeqs(S)
    PROVE  /\ Cardinality(S) \in Nat
           /\ order \in [1 .. Cardinality(S) -> S]
           /\ \A x \in S : \E i \in 1 .. Cardinality(S) : order[i] = x
<1> DEFINE n == Cardinality(S)
<1>1. n \in Nat
  BY FS_CardinalityType
<1>2. order \in [1 .. n -> S] /\ \A i, j \in 1 .. n : i # j => order[i] # order[j]
  BY DEF SetToSeqs
<1>3. order \in Injection(1 .. n, S)
  BY <1>2 DEF Injection, IsInjective
<1>4. Cardinality(1 .. n) = n
  BY <1>1, FS_Interval
<1>5. order \in Surjection(1 .. n, S)
  BY <1>3, <1>4, FS_Injection
<1> QED  BY <1>1, <1>2, <1>5 DEF Surjection

(* Whatever the order, the reference denom is the passing denom with the   *)
(* greatest power, and among equals the first in the alphabet.             *)
LEMMA ReferenceIsBest ==
    ASSUME TypeOK, NEW vals \in [Validators -> StakingType],
           NEW order \in SetToSeqs(Passing(vals))
    PROVE  LET ref == ReferenceDenom(vals, order)
               power(d) == BallotPower(Ballot(vals, d))
           IN  /\ Passing(vals) = {} => ref = NoDenom
               /\ Passing(vals) # {} =>
                     /\ ref \in Passing(vals)
                     /\ \A d \in Passing(vals) :
                           power(d) < power(ref) \/ (power(d) = power(ref) /\ ref <= d)
<1> DEFINE S == Passing(vals)
           pw == [d \in S |-> BallotPower(Ballot(vals, d))]
           n == Cardinality(S)
           ref == ReferenceDenom(vals, order)
<1>1. S \subseteq Denoms /\ S \subseteq Nat /\ IsFiniteSet(S)
  <2>1. S \subseteq Denoms
    BY DEF TypeOK, Passing, VotedDenoms
  <2> QED  BY <2>1, OracleAssumption, FS_Subset
<1>2. \A d \in S : pw[d] \in Nat \ {0}
  <2>1. \A d : BallotPower(Ballot(vals, d)) \in Nat
    BY BallotTyped, PowerNat
  <2>2. \A d \in S : BallotPower(Ballot(vals, d)) # 0
    BY DEF Passing, BallotIsPassing
  <2> QED  BY <2>1, <2>2
<1>3. ref = PickReferenceDenom(order, pw)
  BY DEF ReferenceDenom
<1>4. \A d \in S : pw[d] = BallotPower(Ballot(vals, d))
  OBVIOUS
<1> HIDE DEF S, pw, ref
<1>5. /\ n \in Nat /\ order \in [1 .. n -> S] /\ DOMAIN order = 1 .. n
      /\ \A x \in S : \E i \in 1 .. n : order[i] = x
  BY <1>1, OrderIsOnto DEF S
<1>6. n = 0 <=> S = {}
  BY <1>1, FS_EmptySet
<1> HIDE DEF n
<1>7. \A i \in 1 .. n : order[i] \in Nat /\ pw[order[i]] \in Nat \ {0}
  BY <1>1, <1>2, <1>5
<1>8. Finds(order, pw, n, ref)
  <2>1. n \in Nat /\ DOMAIN order = 1 .. n
    BY <1>5
  <2> QED  BY <1>3, <1>7, <2>1, PickIsBest, Zenon
<1>9. S # {} => /\ ref \in S
                /\ \A d \in S : pw[d] < pw[ref] \/ (pw[d] = pw[ref] /\ ref <= d)
  BY <1>5, <1>6, <1>8 DEF Finds
<1> QED  BY <1>4, <1>6, <1>8, <1>9 DEF S, ref, Finds

(* Every node computes the same tally: the reference denom does not depend *)
(* on the order in which Go visits the map of ballots.                     *)
THEOREM TallyIsDeterministic == Spec => []TallyDeterministic
<1>1. ASSUME OInv PROVE TallyDeterministic
  <2> DEFINE vals == StakingEndBlock({})
             power(d) == BallotPower(Ballot(vals, d))
  <2>1. vals \in [Validators -> StakingType] /\ TypeOK
    BY <1>1, StakingStepType DEF OInv
  <2>2. SUFFICES ASSUME NEW o1 \in SetToSeqs(Passing(vals)),
                        NEW o2 \in SetToSeqs(Passing(vals))
                 PROVE  ReferenceDenom(vals, o1) = ReferenceDenom(vals, o2)
    BY DEF TallyDeterministic
  <2> DEFINE r1 == ReferenceDenom(vals, o1)
             r2 == ReferenceDenom(vals, o2)
  <2>3. \A d : power(d) \in Nat
    BY <2>1, BallotTyped, PowerNat
  <2>4. Passing(vals) \subseteq Nat
    BY <2>1, OracleAssumption DEF Passing, VotedDenoms, TypeOK
  <2> HIDE DEF vals
  <2>5. CASE Passing(vals) = {}
    BY <2>1, <2>5, ReferenceIsBest
  <2>6. CASE Passing(vals) # {}
    <3>1. /\ r1 \in Passing(vals) /\ r2 \in Passing(vals)
          /\ power(r2) < power(r1) \/ (power(r2) = power(r1) /\ r1 <= r2)
          /\ power(r1) < power(r2) \/ (power(r1) = power(r2) /\ r2 <= r1)
      BY <2>1, <2>6, ReferenceIsBest
    <3>2. power(r1) \in Nat /\ power(r2) \in Nat /\ r1 \in Nat /\ r2 \in Nat
      BY <2>3, <2>4, <3>1
    <3> HIDE DEF power, r1, r2
    <3>3. r1 = r2
      BY <3>1, <3>2
    <3> QED  BY <3>3 DEF r1, r2
  <2> QED  BY <2>5, <2>6
<1>. QED  BY <1>1, OInvInductive, PTL DEF Spec

-----------------------------------------------------------------------------
(* A window counts every period once *)

(* Governance leaves the vote period and the slash window alone. *)
FixedPeriods ==
    \A p \in ParamsProposals : /\ p.slashWindow = InitParams.slashWindow
                               /\ p.votePeriod = InitParams.votePeriod

Window == InitParams.slashWindow
Period == InitParams.votePeriod

(* the blocks since the one, up to h, whose BeginBlocker reset the counters *)
SinceReset(h) == (h + 1) % Window

(* A counter holds at most one outcome of each period that has begun since *)
(* the reset.  In the last block of a period this period is not counted    *)
(* before EndBlocker.                                                      *)
OncePerPeriod ==
    \A v \in DOMAIN counters :
        /\ Period * TotalVotes(counters[v]) <= SinceReset(height) + Period
        /\ phase = "txs" /\ IsPeriodLastBlock(height, Period) =>
              Period * TotalVotes(counters[v]) <= SinceReset(height)

WInv == OInv /\ OncePerPeriod

(* The window is a whole number of periods. *)
LEMMA WindowOfPeriods ==
    /\ Window \in Nat \ {0} /\ Period \in Nat \ {0}
    /\ \E m \in Nat : Window = Period * m /\ Window \div Period = m
<1>1. Window \in Nat /\ Period \in Nat /\ Period # 0 /\ Window >= Period
      /\ Window % Period = 0
  BY ParamsAssumption DEF ParamsType, ValidParams, Window, Period
<1> HIDE DEF Window, Period
<1>2. Window \div Period \in Int /\ Window = Period * (Window \div Period) + (Window % Period)
  BY <1>1, Division
<1>3. TruncDiv(Window, Period) \in Nat /\ TruncDiv(Window, Period) = Window \div Period
  BY <1>1, TruncDivNat
<1> DEFINE m == Window \div Period
<1>4. m \in Nat /\ Window = Period * m
  BY <1>1, <1>2, <1>3
<1> QED  BY <1>1, <1>4

LEMMA SinceResetRange ==
    ASSUME NEW h \in Nat
    PROVE  SinceReset(h) \in 0 .. Window - 1
BY WindowOfPeriods, Division, h + 1 \in Nat DEF SinceReset

(* The last block of a period is a whole number of periods after a reset. *)
LEMMA PeriodsSinceReset ==
    ASSUME NEW h \in Nat, IsPeriodLastBlock(h, Period)
    PROVE  \E k \in Int : SinceReset(h) = Period * k
<1> DEFINE P == Period
           n == h + 1
           j == n \div P
           q == n \div Window
<1>1. P \in Nat \ {0} /\ Window \in Nat \ {0} /\ n \in Nat
  BY WindowOfPeriods
<1>2. PICK m \in Nat : Window = P * m
  BY WindowOfPeriods
<1>3. j \in Int /\ n = P * j
  <2>1. n = P * (n \div P) + (n % P) /\ n \div P \in Int
    BY <1>1, Division
  <2>2. n % P = 0
    BY DEF IsPeriodLastBlock
  <2> HIDE DEF P, n
  <2> QED  BY <1>1, <2>1, <2>2
<1>4. q \in Int /\ n = Window * q + SinceReset(h)
  BY <1>1, Division DEF SinceReset
<1>5. SinceReset(h) \in Int
  BY SinceResetRange
<1> HIDE DEF P, n, j, q
<1>6. P * j = (P * m) * q + SinceReset(h)
  BY <1>2, <1>3, <1>4
<1>7. (P * m) * q = P * (m * q) /\ P * (j - m * q) = P * j - P * (m * q)
  BY <1>1, <1>2, <1>3, <1>4
<1>8. j - m * q \in Int /\ P * (m * q) \in Int /\ P * j \in Int
  BY <1>1, <1>2, <1>3, <1>4
<1>9. SinceReset(h) = P * (j - m * q)
  <2> DEFINE a == P * j
             b == P * (m * q)
  <2>1. a = b + SinceReset(h) /\ P * (j - m * q) = a - b /\ a \in Int /\ b \in Int
    BY <1>6, <1>7, <1>8
  <2> HIDE DEF a, b
  <2> QED  BY <1>5, <2>1
<1> QED  BY <1>8, <1>9 DEF P

(* a multiple of the period below the next one *)
LEMMA MultipleBelow ==
    ASSUME NEW P \in Nat \ {0}, NEW t \in Int, NEW k \in Int, P * t < P * k + P
    PROVE  P * t <= P * k
<1>1. SUFFICES ASSUME k + 1 <= t
               PROVE  FALSE
  <2>1. CASE t <= k
    BY <2>1, MulMonotone
  <2> QED  BY <1>1, <2>1
<1>2. P * (k + 1) <= P * t
  BY <1>1, MulMonotone, k + 1 \in Int
<1>3. P * (k + 1) = P * k + P /\ P * k \in Int /\ P * t \in Int
  OBVIOUS
<1> QED  BY <1>2, <1>3

(* An outcome adds one to the total. *)
LEMMA IncrementTotal ==
    ASSUME NEW c \in Records, NEW o \in {"success", "abstain", "miss"}
    PROVE  TotalVotes([c EXCEPT ![o] = @ + 1]) = TotalVotes(c) + 1
<1>1. CASE o = "success"  BY <1>1 DEF Records, TotalVotes
<1>2. CASE o = "abstain"  BY <1>2 DEF Records, TotalVotes
<1>3. CASE o = "miss"     BY <1>3 DEF Records, TotalVotes
<1>. QED  BY <1>1, <1>2, <1>3

(* The tally adds at most one outcome to a counter. *)
LEMMA TallyAddsOne ==
    ASSUME OInv, NEW vals, NEW ref, NEW v \in DOMAIN CountersAfter(vals, ref)
    PROVE  \/ TotalVotes(CountersAfter(vals, ref)[v]) = 1
           \/ /\ v \in DOMAIN counters
              /\ TotalVotes(CountersAfter(vals, ref)[v])
                    \in {TotalVotes(counters[v]), TotalVotes(counters[v]) + 1}
<1> DEFINE after == CountersAfter(vals, ref)
           c == IF v \in DOMAIN counters THEN counters[v] ELSE ZeroCounter
           o == Outcome(vals, ref, v)
<1>1. c \in Records
  BY DEF OInv, TypeOK, ZeroCounter, Records
<1>2. o \in {"success", "abstain", "miss"}
  BY DEF Outcome
<1>3. DOMAIN after = DOMAIN counters \cup Claimants(vals)
  BY DEF CountersAfter
<1>4. after[v] = IF v \in Claimants(vals) THEN [c EXCEPT ![o] = @ + 1] ELSE c
  BY <1>3 DEF CountersAfter
<1>5. v \notin DOMAIN counters => TotalVotes(c) = 0
  BY DEF ZeroCounter, TotalVotes
<1>6. v \in DOMAIN counters => c = counters[v]
  OBVIOUS
<1> HIDE DEF c, o
<1>7. CASE v \in Claimants(vals)
  <2>1. TotalVotes(after[v]) = TotalVotes(c) + 1
    BY <1>1, <1>2, <1>4, <1>7, IncrementTotal
  <2> QED  BY <1>5, <1>6, <2>1
<1>8. CASE v \notin Claimants(vals)
  BY <1>3, <1>4, <1>6, <1>8
<1> QED  BY <1>7, <1>8

(* EndBlocker counts a period in its last block only. *)
LEMMA TallyOncePerPeriod ==
    ASSUME WInv, FixedPeriods, NEW gone, EndBlockTally(gone)
    PROVE  OncePerPeriod'
<1> DEFINE P == Period
           x == SinceReset(height)
<1>1. height \in Nat /\ params.votePeriod = P
  BY OracleAssumption DEF WInv, OInv, TypeOK, FixedPeriods, Period
<1>2. phase = "txs" /\ phase' = "idle" /\ height' = height /\ IsPeriodLastBlock(height, P)
  BY <1>1 DEF EndBlockTally
<1>3. PICK ref : counters' = CountersAfter(StakingEndBlock(gone), ref)
  BY DEF EndBlockTally
<1>4. P \in Nat \ {0} /\ x \in Nat
  BY <1>1, WindowOfPeriods, SinceResetRange
<1>5. \A v \in DOMAIN counters : /\ TotalVotes(counters[v]) \in Nat
                                 /\ P * TotalVotes(counters[v]) <= x
  BY <1>2 DEF WInv, OInv, TypeOK, OncePerPeriod, TotalVotes
<1> HIDE DEF P, x
<1>6. ASSUME NEW v \in DOMAIN counters'
      PROVE  P * TotalVotes(counters'[v]) <= x + P
  <2> DEFINE t == TotalVotes(counters'[v])
             s == TotalVotes(counters[v])
  <2>1. t = 1 \/ (v \in DOMAIN counters /\ t \in {s, s + 1})
    BY <1>3, <1>6, TallyAddsOne DEF WInv
  <2> HIDE DEF t
  <2>2. CASE t = 1
    BY <1>4, <2>2 DEF t
  <2>3. CASE v \in DOMAIN counters /\ t \in {s, s + 1}
    <3>1. s \in Nat /\ P * s <= x
      BY <1>5, <2>3
    <3> HIDE DEF s
    <3>2. P * (s + 1) = P * s + P /\ P * s \in Nat
      BY <1>4, <3>1
    <3>3. P * t <= x + P
      BY <1>4, <2>3, <3>1, <3>2
    <3> QED  BY <3>3 DEF t
  <2> QED  BY <2>1, <2>2, <2>3
<1> QED  BY <1>2, <1>6 DEF OncePerPeriod, P, x, SinceReset

(* A new block either resets the counters or moves on by one. *)
LEMMA BeginOncePerPeriod ==
    ASSUME WInv, FixedPeriods, NEW gap, BeginBlock(gap) \/ BeginBlockSlash(gap)
    PROVE  OncePerPeriod'
<1>1. height \in Nat /\ height' = height + 1 /\ params.slashWindow = Window
  BY OracleAssumption DEF WInv, OInv, TypeOK, FixedPeriods, Window, BeginBlock,
     BeginBlockSlash, NextBlock
<1>2. CASE BeginBlockSlash(gap)
  <2>1. counters' = Restrict(counters, {v \in DOMAIN counters : TotalVotes(counters[v]) = 0})
    BY <1>2 DEF BeginBlockSlash, CountersAfterReset
  <2>2. {v \in DOMAIN counters : TotalVotes(counters[v]) = 0} = {}
    BY DEF WInv, OInv
  <2>3. DOMAIN counters' = {}
    BY <2>1, <2>2 DEF Restrict
  <2> QED  BY <2>3 DEF OncePerPeriod
<1>3. CASE BeginBlock(gap)
  <2> DEFINE P == Period
             x == SinceReset(height)
             y == SinceReset(height + 1)
  <2>1. counters' = counters /\ ~IsPeriodLastBlock(height + 1, Window)
    BY <1>1, <1>3 DEF BeginBlock, ballotVars
  <2>2. y = x + 1
    <3>1. ((height + 1) + 1) % Window # 0
      BY <2>1 DEF IsPeriodLastBlock
    <3> QED  BY <1>1, <3>1, WindowOfPeriods, RemainderStep, height + 1 \in Nat DEF SinceReset
  <2>3. P \in Nat \ {0} /\ x \in Nat /\ y \in Nat
    BY <1>1, WindowOfPeriods, SinceResetRange, height + 1 \in Nat
  <2>4. IsPeriodLastBlock(height + 1, P) => \E k \in Int : y = P * k
    BY <1>1, PeriodsSinceReset, height + 1 \in Nat
  <2>5. \A v \in DOMAIN counters : /\ TotalVotes(counters[v]) \in Nat
                                   /\ P * TotalVotes(counters[v]) <= x + P
    BY DEF WInv, OInv, TypeOK, OncePerPeriod, TotalVotes
  <2> HIDE DEF P, x, y
  <2>6. ASSUME NEW v \in DOMAIN counters
        PROVE  /\ P * TotalVotes(counters[v]) <= y + P
               /\ IsPeriodLastBlock(height + 1, P) => P * TotalVotes(counters[v]) <= y
    <3> DEFINE t == TotalVotes(counters[v])
    <3>1. t \in Nat /\ P * t <= x + P /\ P * t \in Nat
      BY <2>3, <2>5
    <3> HIDE DEF t
    <3>2. P * t <= y + P
      BY <2>2, <2>3, <3>1
    <3>3. ASSUME IsPeriodLastBlock(height + 1, P)
          PROVE  P * t <= y
      <4>1. PICK k \in Int : y = P * k
        BY <2>4, <3>3
      <4>2. P * t < P * k + P
        BY <2>2, <2>3, <3>1, <4>1
      <4> QED  BY <2>3, <3>1, <4>1, <4>2, MultipleBelow
    <3> QED  BY <3>2, <3>3 DEF t
  <2> QED  BY <1>1, <2>1, <2>6 DEF OncePerPeriod, P, y, SinceReset
<1> QED  BY <1>2, <1>3

(* The other steps leave the counters and the height alone. *)
LEMMA OtherOncePerPeriod ==
    ASSUME OncePerPeriod, UNCHANGED <<height, counters>>,
           phase' = phase \/ phase' = "idle"
    PROVE  OncePerPeriod'
BY DEF OncePerPeriod, SinceReset

LEMMA WInvInductive ==
    ASSUME FixedPeriods
    PROVE  /\ Init => WInv
           /\ WInv /\ [Next]_vars => WInv'
<1>1. ASSUME Init PROVE WInv
  <2>1. DOMAIN counters = {}
    BY <1>1 DEF Init, EmptyStore
  <2> QED  BY <1>1, <2>1, OInvInductive DEF WInv, OncePerPeriod
<1>2. ASSUME WInv, [Next]_vars PROVE WInv'
  <2>. USE <1>2
  <2>0. OInv'
    BY OInvInductive DEF WInv
  <2>1. ASSUME NEW gap, BeginBlock(gap) \/ BeginBlockSlash(gap) PROVE OncePerPeriod'
    BY <2>1, BeginOncePerPeriod
  <2>2. ASSUME NEW gone, EndBlockTally(gone) PROVE OncePerPeriod'
    BY <2>2, TallyOncePerPeriod
  <2>3. ASSUME UNCHANGED <<height, counters>>, phase' = phase \/ phase' = "idle"
        PROVE  OncePerPeriod'
    BY <2>3, OtherOncePerPeriod DEF WInv
  <2>4. ASSUME NEW gone, EndBlock(gone)
        PROVE  UNCHANGED <<height, counters>> /\ phase' = "idle"
    BY <2>4 DEF EndBlock, ballotVars
  <2>5. ASSUME NEW v, NEW f, NEW er, AggregateExchangeRateVote(f, v, er)
        PROVE  UNCHANGED <<height, counters, phase>>
    BY <2>5 DEF AggregateExchangeRateVote, blockVars
  <2>6. ASSUME NEW v, NEW f, DelegateFeedConsent(v, f)
        PROVE  UNCHANGED <<height, counters, phase>>
    BY <2>6 DEF DelegateFeedConsent, blockVars, ballotVars
  <2>7. ASSUME NEW v, Jail(v) \/ Unjail(v) \/ CreateValidator(v)
        PROVE  UNCHANGED <<height, counters, phase>>
    BY <2>7 DEF Jail, Unjail, CreateValidator, blockVars, ballotVars
  <2>8. ASSUME NEW p, UpdateParams(p)
        PROVE  UNCHANGED <<height, counters, phase>>
    BY <2>8 DEF UpdateParams, blockVars, ballotVars
  <2>9. ASSUME BeginBlockPanic \/ UNCHANGED vars
        PROVE  UNCHANGED <<height, counters, phase>>
    BY <2>9 DEF BeginBlockPanic, vars, blockVars, ballotVars
  <2>10. OncePerPeriod'
    BY <2>1, <2>2, <2>3, <2>4, <2>5, <2>6, <2>7, <2>8, <2>9 DEF Next, OtherStep
  <2>. QED  BY <2>0, <2>10 DEF WInv
<1>. QED  BY <1>1, <1>2

(* A counter never holds more outcomes than the window has periods,        *)
(* although the reset comes in BeginBlock of the window's last block and   *)
(* the tally of that block after it.                                       *)
THEOREM WindowCountsOnce ==
    ASSUME FixedPeriods
    PROVE  Spec => []WindowAccounting
<1>1. ASSUME WInv PROVE WindowAccounting
  <2>1. /\ params.slashWindow = Window /\ params.votePeriod = Period
        /\ height \in Nat
    BY <1>1, OracleAssumption DEF WInv, OInv, TypeOK, FixedPeriods, Window, Period
  <2>2. PICK m \in Nat : Window = Period * m /\ Window \div Period = m
    BY WindowOfPeriods
  <2>3. Period \in Nat \ {0} /\ SinceReset(height) \in 0 .. Window - 1
    BY <2>1, WindowOfPeriods, SinceResetRange
  <2>4. SUFFICES ASSUME NEW v \in DOMAIN counters
                 PROVE  TotalVotes(counters[v]) \in 1 .. m
    BY <2>1, <2>2 DEF WindowAccounting
  <2> DEFINE t == TotalVotes(counters[v])
  <2>5. t \in Nat \ {0} /\ Period * t <= SinceReset(height) + Period
    BY <1>1 DEF WInv, OInv, TypeOK, OncePerPeriod, TotalVotes
  <2> HIDE DEF t, Period, Window
  <2>6. Period * t < Period * m + Period
    BY <2>2, <2>3, <2>5
  <2>7. Period * t <= Period * m
    BY <2>2, <2>3, <2>5, <2>6, MultipleBelow
  <2>8. t <= m
    BY <2>2, <2>3, <2>5, <2>7, MulCancel
  <2> QED  BY <2>2, <2>5, <2>8 DEF t
<1>. QED  BY <1>1, WInvInductive, PTL DEF Spec

-----------------------------------------------------------------------------
(* Quorums and majorities *)

(* Only the tally of the last block ends a vote period. *)
LEMMA OnlyTallyEndsPeriod ==
    ASSUME Next, EndsPeriod
    PROVE  \E gone : EndBlockTally(gone)
<1>1. ASSUME NEW gap, BeginBlock(gap) \/ BeginBlockSlash(gap) PROVE FALSE
  BY <1>1 DEF BeginBlock, BeginBlockSlash, NextBlock, EndsPeriod
<1>2. ASSUME BeginBlockPanic PROVE FALSE
  BY <1>2 DEF BeginBlockPanic, EndsPeriod
<1>3. ASSUME NEW v, NEW f, DelegateFeedConsent(v, f) PROVE FALSE
  BY <1>3 DEF DelegateFeedConsent, blockVars, EndsPeriod
<1>4. ASSUME NEW p, UpdateParams(p) PROVE FALSE
  BY <1>4 DEF UpdateParams, blockVars, EndsPeriod
<1>5. ASSUME NEW v, Jail(v) \/ Unjail(v) \/ CreateValidator(v) PROVE FALSE
  BY <1>5 DEF Jail, Unjail, CreateValidator, blockVars, EndsPeriod
<1>6. ASSUME NEW gone, EndBlock(gone) PROVE FALSE
  BY <1>6 DEF EndBlock, EndsPeriod
<1>7. ASSUME NEW f, NEW v, NEW er, AggregateExchangeRateVote(f, v, er) PROVE FALSE
  BY <1>7 DEF AggregateExchangeRateVote, blockVars, EndsPeriod
<1> QED
  BY <1>1, <1>2, <1>3, <1>4, <1>5, <1>6, <1>7 DEF Next, OtherStep

(* After staking's EndBlocker no bonded validator is jailed. *)
LEMMA BondedNotJailed ==
    ASSUME OInv, NEW gone
    PROVE  Claimants(StakingEndBlock(gone))
             = {v \in Validators : StakingEndBlock(gone)[v].status = "bonded"}
<1>1. staking \in [Validators -> StakingType]
  BY StakingStepType
<1>2. SUFFICES ASSUME NEW v \in Validators, StakingEndBlock(gone)[v].status = "bonded"
               PROVE  ~StakingEndBlock(gone)[v].jailed
  BY DEF Claimants
<1>3. staking[v] \in StakingType
  BY <1>1
<1>4. StakingEndBlock(gone)[v] =
         LET val == staking[v]
         IN  IF v \in gone THEN [val EXCEPT !.status = "removed"]
             ELSE IF val.status = "bonded" /\ ~Eligible(val)
                  THEN [val EXCEPT !.status = "unbonding", !.since = height]
             ELSE IF val.status = "unbonding" /\ Eligible(val)
                  THEN [val EXCEPT !.status = "bonded"]
             ELSE val
  BY DEF StakingEndBlock
<1>5. /\ [staking[v] EXCEPT !.status = "removed"].status = "removed"
      /\ [staking[v] EXCEPT !.status = "unbonding", !.since = height].status = "unbonding"
      /\ [staking[v] EXCEPT !.status = "bonded"].jailed = staking[v].jailed
  BY <1>3 DEF StakingType
<1>6. Eligible(staking[v]) => ~staking[v].jailed
  BY DEF Eligible
<1>7. staking[v].status \in {"bonded", "unbonding", "removed"}
  BY <1>3 DEF StakingType
<1> QED  BY <1>2, <1>4, <1>5, <1>6, <1>7

(* the power of the validators in V *)
PowerIn(vals, V) == SumFunctionOnSet([v \in Validators |-> ConsensusPower(vals[v])], V)

(* The power of a part of a ballot is the power of its voters. *)
LEMMA PartPower ==
    ASSUME TypeOK, NEW vals \in [Validators -> StakingType], NEW d,
           NEW U \in SUBSET VotersOf(vals, d)
    PROVE  BallotPower({VoteOf(vals, d, v) : v \in U}) = PowerIn(vals, U)
<1> DEFINE e == [v \in Validators |-> ConsensusPower(vals[v])]
           h == [v \in U |-> VoteOf(vals, d, v)]
           part == {VoteOf(vals, d, v) : v \in U}
           f == [vote \in part |-> vote.power]
<1>1. /\ U \subseteq Validators /\ IsFiniteSet(U)
      /\ \A v \in U : /\ VoteOf(vals, d, v) \in VoteType
                      /\ VoteOf(vals, d, v).power = ConsensusPower(vals[v])
  BY BallotTyped, FS_Subset
<1>2. (\A v \in U : h[v] \in part) /\ (\A w \in part : \E v \in U : w = h[v])
  OBVIOUS
<1>3. \A v, w \in U : h[v] = h[w] => v = w
  <2>1. \A v \in U : VoteOf(vals, d, v).voter = v
    BY DEF VoteOf
  <2> QED  BY <2>1
<1>4. \A v \in U : e[v] = f[h[v]] /\ e[v] \in Int
  <2>1. ASSUME NEW v \in U
        PROVE  e[v] = f[h[v]] /\ e[v] \in Int
    <3>1. h[v] \in part /\ h[v] = VoteOf(vals, d, v)
      OBVIOUS
    <3>2. f[h[v]] = h[v].power
      BY <3>1
    <3>3. e[v] = ConsensusPower(vals[v]) /\ ConsensusPower(vals[v]) \in Nat
      BY <1>1, PowerOfValidator
    <3> QED  BY <1>1, <3>1, <3>2, <3>3
  <2> QED  BY <2>1
<1> HIDE DEF f, h, e
<1>5. SumFunctionOnSet(f, part) = SumFunctionOnSet(e, U)
  <2>1. IsFiniteSet(U)
    BY <1>1
  <2> HIDE DEF part
  <2> QED  BY <1>2, <1>3, <1>4, <2>1, SumOnto
<1> QED  BY <1>5 DEF BallotPower, PowerIn, f, e

(* powers of sets of validators *)
LEMMA PowerInNat ==
    ASSUME NEW vals \in [Validators -> StakingType], NEW V \in SUBSET Validators
    PROVE  /\ PowerIn(vals, V) \in Nat
           /\ \A U \in SUBSET V :
                 /\ PowerIn(vals, U) \in Nat
                 /\ PowerIn(vals, U) <= PowerIn(vals, V)
                 /\ PowerIn(vals, V) = PowerIn(vals, U) + PowerIn(vals, V \ U)
<1> DEFINE e == [v \in Validators |-> ConsensusPower(vals[v])]
<1>1. IsFiniteSet(V) /\ \A v \in V : e[v] \in Nat /\ e[v] \in Int
  BY OracleAssumption, FS_Subset, PowerOfValidator
<1> HIDE DEF e
<1>2. ASSUME NEW U \in SUBSET V
      PROVE  /\ SumFunctionOnSet(e, U) \in Nat
             /\ SumFunctionOnSet(e, U) <= SumFunctionOnSet(e, V)
             /\ SumFunctionOnSet(e, V)
                  = SumFunctionOnSet(e, U) + SumFunctionOnSet(e, V \ U)
  BY <1>1, SumNat, SumSubset, SumSplit
<1>3. V \in SUBSET V
  OBVIOUS
<1>4. SumFunctionOnSet(e, V) \in Nat
  BY <1>2, <1>3
<1> QED  BY <1>2, <1>4 DEF PowerIn, e

LEMMA TotalPowerNat ==
    ASSUME NEW vals \in [Validators -> StakingType]
    PROVE  TotalBondedPower(vals) \in Nat
<1> DEFINE e == [v \in Validators |-> vals[v].tokens]
           B == {v \in Validators : vals[v].status = "bonded"}
<1>1. IsFiniteSet(B) /\ \A v \in B : e[v] \in Nat
  BY OracleAssumption, FS_Subset DEF StakingType
<1> HIDE DEF e, B
<1>2. SumFunctionOnSet(e, B) \in Nat
  BY <1>1, SumNat
<1> QED  BY <1>2, PowerOfTokens DEF TotalBondedPower, e, B

(* A passing ballot has, up to the rounding of the threshold, at least the *)
(* voting power that the threshold asks for.                               *)
LEMMA PassingPower ==
    ASSUME OInv, NEW vals \in [Validators -> StakingType], NEW d \in Passing(vals)
    PROVE  2 * Prec * PowerIn(vals, VotersOf(vals, d)) + Prec
              >= 2 * params.voteThreshold * TotalBondedPower(vals)
<1> DEFINE total == TotalBondedPower(vals)
           V == VotersOf(vals, d)
           p == PowerIn(vals, V)
           t == params.voteThreshold
           c == ChopRound(t * total)
<1>1. TypeOK
  BY DEF OInv
<1>2. BallotPower(Ballot(vals, d)) = p
  <2>1. V \in SUBSET V /\ Ballot(vals, d) = {VoteOf(vals, d, v) : v \in V}
    BY <1>1, BallotTyped
  <2> QED  BY <1>1, <2>1, PartPower
<1>3. p >= c
  BY <1>2 DEF Passing, BallotIsPassing, ThresholdVotes, RoundInt
<1>4. total \in Nat /\ p \in Nat
  <2>1. V \in SUBSET Validators
    BY <1>1, BallotTyped
  <2> HIDE DEF V, total
  <2> QED  BY <2>1, PowerInNat, TotalPowerNat DEF total
<1>5. t \in Nat /\ Prec \in Nat \ {0}
  <2>1. t \in Int /\ 100 * t > 33 * Prec /\ Prec \in Nat
    BY ParamsAssumption, PrecAssumption DEF OInv, TypeOK, ParamsType, ValidParams
  <2> HIDE DEF t
  <2> QED  BY <2>1, PrecAssumption
<1> DEFINE x == t * total
<1> HIDE DEF total, p, t
<1>6. x \in Nat
  BY <1>4, <1>5
<1>7. c \in Nat /\ 2 * x <= 2 * (Prec * c) + Prec
  <2> HIDE DEF x
  <2>1. ChopRound(x) \in Nat /\ 2 * x <= 2 * (Prec * ChopRound(x)) + Prec
    BY <1>6, ChopRoundNat
  <2> QED  BY <2>1 DEF x
<1> HIDE DEF c
<1>8. Prec * c <= Prec * p /\ Prec * c \in Nat /\ Prec * p \in Nat
  BY <1>3, <1>4, <1>5, <1>7, MulMonotone
<1>9. 2 * Prec * p = 2 * (Prec * p) /\ 2 * t * total = 2 * x
  BY <1>4, <1>5
<1>10. 2 * (Prec * p) + Prec >= 2 * x
  <2> DEFINE a == Prec * c
             b == Prec * p
  <2>1. a <= b /\ a \in Nat /\ b \in Nat /\ 2 * x <= 2 * a + Prec
    BY <1>7, <1>8
  <2> HIDE DEF a, b, x
  <2>2. 2 * b + Prec >= 2 * x
    BY <1>5, <1>6, <2>1
  <2> QED  BY <2>2 DEF b
<1> QED  BY <1>9, <1>10 DEF total, p, t

(* the step of QuorumBehindRate *)
QuorumStep ==
    EndsPeriod =>
       \A d \in DOMAIN rates' :
          (d \in DOMAIN rates => rates'[d] # rates[d]) =>
              2 * Prec * PowerOf(VotedFor(d)) + Prec
                 >= 2 * params.voteThreshold * TotalBondedPower(staking')

(* A tally only changes the rates of denoms that pass. *)
LEMMA TallyQuorum ==
    ASSUME OInv, NEW gone, EndBlockTally(gone)
    PROVE  QuorumStep
<1>1. SUFFICES ASSUME NEW d \in DOMAIN rates',
                      d \in DOMAIN rates => rates'[d] # rates[d]
               PROVE  2 * Prec * PowerOf(VotedFor(d)) + Prec
                         >= 2 * params.voteThreshold * TotalBondedPower(staking')
  BY DEF QuorumStep
<1> DEFINE vals == StakingEndBlock(gone)
<1>2. staking' = vals /\ vals \in [Validators -> StakingType]
  BY StakingStepType DEF EndBlockTally
<1>3. PICK ref : rates' = PutAll(rates, TalliedRates(vals, ref))
  BY DEF EndBlockTally, SetExchangeRates
<1> HIDE DEF vals
<1>4. d \in DOMAIN TalliedRates(vals, ref)
  BY <1>1, <1>3 DEF PutAll
<1>5. d \in Passing(vals)
  BY <1>2, <1>4, TalliedRatesType DEF OInv
<1> DEFINE V == VotersOf(vals, d)
           W == VotedFor(d)
           p == PowerIn(vals, V)
           q == PowerIn(vals, W)
           t == TotalBondedPower(vals)
<1>6. PowerOf(VotedFor(d)) = q /\ TotalBondedPower(staking') = t
  BY <1>2 DEF PowerOf, PowerIn
<1>7. 2 * Prec * p + Prec >= 2 * params.voteThreshold * t
  BY <1>2, <1>5, PassingPower
<1>8. V \in SUBSET W /\ W \in SUBSET Validators
  BY <1>2 DEF VotersOf, Voters, Claimants, VotedFor, BondedNow
<1>9. p <= q /\ p \in Nat /\ q \in Nat
  <2> HIDE DEF V, W
  <2> QED  BY <1>2, <1>8, PowerInNat
<1>10. params.voteThreshold \in Int /\ Prec \in Nat
  BY ParamsAssumption, PrecAssumption DEF OInv, TypeOK, ParamsType
<1>11. t \in Nat
  BY <1>2, TotalPowerNat
<1> HIDE DEF p, q, t
<1>12. Prec * p <= Prec * q /\ 2 * Prec * p = 2 * (Prec * p) /\ 2 * Prec * q = 2 * (Prec * q)
       /\ Prec * p \in Int /\ Prec * q \in Int /\ 2 * params.voteThreshold * t \in Int
  BY <1>9, <1>10, <1>11, MulMonotone
<1>13. 2 * Prec * q + Prec >= 2 * params.voteThreshold * t
  <2> DEFINE a == Prec * p
             b == Prec * q
             c == 2 * params.voteThreshold * t
  <2>1. a <= b /\ 2 * a + Prec >= c /\ a \in Int /\ b \in Int /\ c \in Int /\ 2 * Prec * q = 2 * b
    BY <1>7, <1>12
  <2> HIDE DEF a, b, c
  <2>2. 2 * b + Prec >= c
    BY <1>10, <2>1
  <2> QED  BY <2>1, <2>2 DEF c
<1> QED  BY <1>6, <1>13

(* A rate only changes when validators that are bonded at that moment,     *)
(* with the threshold of the bonded power, voted on it in this period.     *)
THEOREM QuorumIsBehindRate == Spec => QuorumBehindRate
<1>1. ASSUME OInv, [Next]_vars PROVE [QuorumStep]_vars
  <2>1. CASE UNCHANGED vars
    BY <2>1
  <2>2. CASE Next
    BY <1>1, <2>2, OnlyTallyEndsPeriod, TallyQuorum DEF QuorumStep
  <2> QED  BY <1>1, <2>1, <2>2
<1>2. Spec => [][QuorumStep]_vars
  BY <1>1, OInvInductive, PTL DEF Spec
<1>. QED  BY <1>2 DEF QuorumBehindRate, QuorumStep

(* A rate with clearly more than half of the power is the median. *)
LEMMA MajorityIsMedian ==
    ASSUME NEW ballot, IsBallot(ballot), NEW r \in Nat,
           2 * BallotPower({vote \in ballot : vote.rate = r}) > BallotPower(ballot) + 1
    PROVE  WeightedMedian(ballot) = r
<1> DEFINE P == BallotPower(ballot)
           U == {vote \in ballot : vote.rate = r}
           M == BallotPower(U)
           upTo(s) == {vote \in ballot : vote.rate <= s}
           f == [vote \in ballot |-> vote.power]
<1>1. /\ P \in Nat
      /\ \A part \in SUBSET ballot : /\ BallotPower(part) \in Nat
                                     /\ BallotPower(part) <= P
                                     /\ BallotPower(part) = SumFunctionOnSet(f, part)
  BY PowerNat
<1>2. M \in Nat /\ 2 * M > P + 1 /\ M <= P
  BY <1>1
<1>3. U # {}
  <2>1. SumFunctionOnSet(f, {}) = 0
    BY SumEmpty
  <2>2. BallotPower({}) = 0
    BY <1>1, <2>1
  <2> SUFFICES ASSUME U = {} PROVE FALSE
    OBVIOUS
  <2> QED  BY <1>1, <1>2, <2>2
<1>4. PICK top \in ballot : top.rate = r
  BY <1>3
<1>5. \A vote \in ballot : vote.rate \in Nat
  BY DEF IsBallot, VoteType
<1>6. BallotPower(upTo(r)) >= P \div 2
  <2>1. U \in SUBSET upTo(r) /\ IsBallot(upTo(r))
    BY <1>5, FS_Subset DEF IsBallot
  <2>2. M <= BallotPower(upTo(r)) /\ BallotPower(upTo(r)) \in Nat
    <3> HIDE DEF upTo, U
    <3> QED  BY <2>1, PowerNat
  <2> HIDE DEF M, P, upTo
  <2> QED  BY <1>1, <1>2, <2>2
<1>7. r \in Reached(ballot)
  BY <1>4, <1>6 DEF Reached
<1>8. ASSUME NEW w \in ballot, w.rate < r
      PROVE  ~(BallotPower(upTo(w.rate)) >= P \div 2)
  <2> DEFINE a == BallotPower(upTo(w.rate))
             Rest == ballot \ U
  <2>1. upTo(w.rate) \in SUBSET Rest /\ Rest \in SUBSET ballot /\ U \in SUBSET ballot
        /\ upTo(w.rate) \in SUBSET ballot
    BY <1>5, <1>8
  <2>2. P = M + BallotPower(Rest)
    <3>1. ballot \in SUBSET ballot
      OBVIOUS
    <3>2. P = SumFunctionOnSet(f, ballot) /\ M = SumFunctionOnSet(f, U)
          /\ BallotPower(Rest) = SumFunctionOnSet(f, Rest)
      BY <1>1, <2>1, <3>1
    <3>3. IsFiniteSet(ballot) /\ \A vote \in ballot : f[vote] \in Int
      BY DEF IsBallot, VoteType
    <3> HIDE DEF f, U, P, M
    <3>4. SumFunctionOnSet(f, ballot) = SumFunctionOnSet(f, U) + SumFunctionOnSet(f, ballot \ U)
      BY <2>1, <3>3, SumSplit
    <3> QED  BY <3>2, <3>4
  <2>3. a <= BallotPower(Rest) /\ a \in Nat /\ BallotPower(Rest) \in Nat
    <3>1. IsBallot(Rest)
      BY FS_Subset DEF IsBallot
    <3> HIDE DEF Rest, upTo
    <3> QED  BY <2>1, <3>1, PowerNat
  <2> HIDE DEF a, P, M
  <2>4. a < P \div 2
    BY <1>1, <1>2, <2>2, <2>3
  <2>5. P \div 2 \in Int
    BY <1>1
  <2> QED  BY <2>3, <2>4, <2>5 DEF a
<1>9. \A s \in Reached(ballot) : s >= r /\ s \in Nat
  <2>1. SUFFICES ASSUME NEW w \in ballot, BallotPower(upTo(w.rate)) >= P \div 2
                 PROVE  w.rate >= r /\ w.rate \in Nat
    BY DEF Reached
  <2> QED  BY <1>5, <1>8, <2>1
<1>10. /\ WeightedMedian(ballot) \in Reached(ballot)
       /\ \A s \in Reached(ballot) : WeightedMedian(ballot) <= s
  BY <1>4, MedianNat
<1>11. WeightedMedian(ballot) <= r /\ WeightedMedian(ballot) >= r
       /\ WeightedMedian(ballot) \in Nat
  BY <1>7, <1>9, <1>10
<1> QED  BY <1>11

(* the step of MajoritySetsRate *)
MajorityStep ==
    EndsPeriod =>
       \A d \in Denoms, r \in VoteRates :
          /\ Passing(staking') = {d}
          /\ 2 * PowerOf({v \in VotedFor(d) : votes[v][d] = r})
                > PowerOf(VotedFor(d)) + 1
          => rates'[d] = r

LEMMA TallyMajority ==
    ASSUME OInv, NEW gone, EndBlockTally(gone)
    PROVE  MajorityStep
<1>1. SUFFICES ASSUME NEW d \in Denoms, NEW r \in VoteRates, Passing(staking') = {d},
                      2 * PowerOf({v \in VotedFor(d) : votes[v][d] = r})
                         > PowerOf(VotedFor(d)) + 1
               PROVE  rates'[d] = r
  BY DEF MajorityStep
<1> DEFINE vals == StakingEndBlock(gone)
<1>2. staking' = vals /\ vals \in [Validators -> StakingType] /\ TypeOK
  BY StakingStepType DEF EndBlockTally, OInv
<1>3. VotedFor(d) = VotersOf(vals, d)
  BY <1>2, BondedNotJailed DEF VotedFor, BondedNow, VotersOf, Voters
<1>4. PICK order \in SetToSeqs(Passing(vals)) :
         rates' = PutAll(rates, TalliedRates(vals, ReferenceDenom(vals, order)))
  BY DEF EndBlockTally, SetExchangeRates
<1> HIDE DEF vals
<1>5. ReferenceDenom(vals, order) = d
  <2>1. Passing(vals) = {d}
    BY <1>1, <1>2
  <2>2. ReferenceDenom(vals, order) \in Passing(vals)
    BY <1>2, <2>1, ReferenceIsBest
  <2> QED  BY <2>1, <2>2
<1> DEFINE ballot == Ballot(vals, d)
           V == VotersOf(vals, d)
           U == {v \in V : votes[v][d] = r}
<1>6. /\ IsBallot(ballot) /\ ballot = {VoteOf(vals, d, v) : v \in V}
      /\ V \subseteq Validators
  BY <1>2, BallotTyped
<1>7. {vote \in ballot : vote.rate = r} = {VoteOf(vals, d, v) : v \in U}
  BY <1>6 DEF VoteOf
<1>8. /\ BallotPower(ballot) = PowerIn(vals, V)
      /\ BallotPower({vote \in ballot : vote.rate = r}) = PowerIn(vals, U)
  <2>1. U \in SUBSET V /\ V \in SUBSET V
    OBVIOUS
  <2>2. /\ BallotPower({VoteOf(vals, d, v) : v \in V}) = PowerIn(vals, V)
        /\ BallotPower({VoteOf(vals, d, v) : v \in U}) = PowerIn(vals, U)
    BY <1>2, <2>1, PartPower
  <2> QED  BY <1>6, <1>7, <2>2
<1>9. 2 * PowerIn(vals, U) > PowerIn(vals, V) + 1
  BY <1>1, <1>2, <1>3 DEF PowerOf, PowerIn
<1>10. r \in Nat \ {0}
  BY OracleAssumption
<1>11. WeightedMedian(ballot) = r
  <2> HIDE DEF ballot
  <2> QED  BY <1>6, <1>8, <1>9, <1>10, MajorityIsMedian
<1>12. d \in DOMAIN TalliedRates(vals, d) /\ TalliedRates(vals, d)[d] = r
  <2>1. TalliedBallot(vals, d, d) = ballot
    BY DEF TalliedBallot
  <2>2. d \in Passing(vals)
    BY <1>1, <1>2
  <2> QED  BY <1>10, <1>11, <2>1, <2>2 DEF TalliedRates
<1> QED  BY <1>4, <1>5, <1>12 DEF PutAll

(* When a single denom passes, a rate that clearly more than half of the   *)
(* power of its ballot voted becomes its exchange rate.                    *)
THEOREM MajorityRules == Spec => MajoritySetsRate
<1>1. ASSUME OInv, [Next]_vars PROVE [MajorityStep]_vars
  <2>1. CASE UNCHANGED vars
    BY <2>1
  <2>2. CASE Next
    BY <1>1, <2>2, OnlyTallyEndsPeriod, TallyMajority DEF MajorityStep
  <2> QED  BY <1>1, <2>1, <2>2
<1>2. Spec => [][MajorityStep]_vars
  BY <1>1, OInvInductive, PTL DEF Spec
<1>. QED  BY <1>2, PTL DEF MajoritySetsRate, MajorityStep

-----------------------------------------------------------------------------
(* Fairness of the counters *)

(* The root that is printed exists: CHOOSE finds it. *)
LEMMA SqrtPrintedNat ==
    ASSUME NEW variance \in Nat
    PROVE  SqrtPrinted(variance) \in Nat
<1> DEFINE x == variance * Prec
           below(n) == 4 * x < (2 * n + 1) * (2 * n + 1) * SdUnit * SdUnit
           root(n) == /\ n = 0 \/ (2 * n - 1) * (2 * n - 1) * SdUnit * SdUnit <= 4 * x
                      /\ below(n)
           S == {n \in 0 .. x + 1 : below(n)}
<1>1. x \in Nat /\ SdUnit \in Nat \ {0}
  BY PrecAssumption, SdUnitAssumption
<1> HIDE DEF x
<1>2. below(x + 1)
  <2> DEFINE s == (2 * (x + 1) + 1) * (2 * (x + 1) + 1)
             u == SdUnit * SdUnit
  <2>1. s = 4 * (x * x) + 12 * x + 9 /\ x * x \in Nat
    BY <1>1
  <2>2. s \in Nat /\ s > 4 * x
    <3> DEFINE y == x * x
    <3>1. y \in Nat /\ s = 4 * y + 12 * x + 9
      BY <2>1
    <3> HIDE DEF y, s
    <3> QED  BY <1>1, <3>1
  <2>3. u \in Nat /\ u >= 1
    <3>1. SdUnit * 1 <= SdUnit * SdUnit
      BY <1>1, MulMonotone
    <3> QED  BY <1>1, <3>1
  <2>4. s * SdUnit * SdUnit = s * u
    <3> HIDE DEF s
    <3> QED  BY <1>1, <2>2
  <2> HIDE DEF s, u
  <2>5. s * 1 <= s * u /\ s * u \in Nat
    BY <2>2, <2>3, MulMonotone
  <2>6. 4 * x < s * SdUnit * SdUnit
    BY <1>1, <2>2, <2>4, <2>5
  <2> QED  BY <2>6 DEF s
<1>3. S \in SUBSET Nat /\ S # {}
  <2>1. x + 1 \in S
    BY <1>1, <1>2
  <2>2. 0 .. x + 1 \subseteq Nat
    BY <1>1
  <2>3. S \subseteq 0 .. x + 1
    OBVIOUS
  <2> HIDE DEF S
  <2> QED  BY <2>1, <2>2, <2>3
<1>4. PICK k \in S : \A n \in S : k <= n
  <2> HIDE DEF S
  <2> QED  BY <1>3, MinIsElement
<1>5. k \in 0 .. x + 1 /\ below(k)
  OBVIOUS
<1>6. k = 0 \/ (2 * k - 1) * (2 * k - 1) * SdUnit * SdUnit <= 4 * x
  <2>1. SUFFICES ASSUME k # 0
                 PROVE  (2 * k - 1) * (2 * k - 1) * SdUnit * SdUnit <= 4 * x
    OBVIOUS
  <2>2. k - 1 \in 0 .. x + 1 /\ k - 1 \notin S
    BY <1>1, <1>4, <1>5, <2>1
  <2>3. ~below(k - 1)
    BY <2>2
  <2>4. 2 * (k - 1) + 1 = 2 * k - 1
    BY <1>5
  <2>5. ~(4 * x < (2 * k - 1) * (2 * k - 1) * SdUnit * SdUnit)
    BY <2>3, <2>4
  <2>6. (2 * k - 1) * (2 * k - 1) * SdUnit * SdUnit \in Int
    BY <1>1, <1>5
  <2> DEFINE z == (2 * k - 1) * (2 * k - 1) * SdUnit * SdUnit
  <2>7. ~(4 * x < z) /\ z \in Int
    BY <2>5, <2>6
  <2> HIDE DEF z
  <2>8. z <= 4 * x
    BY <1>1, <2>7
  <2> QED  BY <2>8 DEF z
<1>7. root(k)
  BY <1>5, <1>6
<1>8. (CHOOSE n \in 0 .. x + 1 : root(n)) \in 0 .. x + 1
  <2> HIDE DEF root
  <2> QED  BY <1>5, <1>7
<1>9. SqrtPrinted(variance) = (CHOOSE n \in 0 .. x + 1 : root(n)) * SdUnit
  BY DEF SqrtPrinted, x
<1> DEFINE c == CHOOSE n \in 0 .. x + 1 : root(n)
<1> HIDE DEF c
<1>10. c \in Nat
  BY <1>1, <1>8 DEF c
<1> QED  BY <1>1, <1>9, <1>10 DEF c

(* A square is not negative, and neither is the deviation. *)
LEMMA DeviationNat ==
    ASSUME NEW ballot, IsBallot(ballot), NEW median \in Nat
    PROVE  StandardDeviation(ballot, median) \in Nat
<1>1. CASE ballot = {}
  BY <1>1 DEF StandardDeviation
<1>2. CASE ballot # {}
  <2> DEFINE square == [vote \in ballot |-> Mul(vote.rate - median, vote.rate - median)]
             n == Cardinality(ballot)
             s == SumFunctionOnSet(square, ballot)
  <2>1. \A a \in Int : Mul(a, a) \in Nat
    <3>1. SUFFICES ASSUME NEW a \in Int
                   PROVE  Mul(a, a) \in Nat
      OBVIOUS
    <3>2. a * a \in Nat
      <4>1. CASE a >= 0
        BY <4>1
      <4>2. CASE a < 0
        <5>1. PICK b \in Int : b = -a
          OBVIOUS
        <5>2. b \in Nat /\ a = -b
          BY <4>2, <5>1
        <5>3. a * a = b * b /\ b * b \in Nat
          BY <5>2
        <5> QED  BY <5>3
      <4> QED  BY <4>1, <4>2
    <3> QED  BY <3>2, ChopRoundNat DEF Mul
  <2>2. \A vote \in ballot : square[vote] \in Nat
    <3>1. \A vote \in ballot : vote.rate - median \in Int
      BY DEF IsBallot, VoteType
    <3> QED  BY <2>1, <3>1
  <2>3. IsFiniteSet(ballot) /\ ballot \in SUBSET ballot
    BY DEF IsBallot
  <2>4. s \in Nat
    <3> HIDE DEF square
    <3> QED  BY <2>2, <2>3, SumNat
  <2>5. n \in Nat \ {0}
    BY <1>2, <2>3, FS_CardinalityType, FS_EmptySet
  <2>6. StandardDeviation(ballot, median) = SqrtPrinted(TruncDiv(s, n))
    BY <1>2 DEF StandardDeviation
  <2> HIDE DEF s, n
  <2> QED  BY <2>4, <2>5, <2>6, TruncDivNat, SqrtPrintedNat
<1> QED  BY <1>1, <1>2

(* A vote at the median wins. *)
LEMMA MedianWins ==
    ASSUME NEW ballot, IsBallot(ballot), NEW band \in Nat, NEW w \in ballot,
           w.rate = WeightedMedian(ballot)
    PROVE  w.voter \in Winners(ballot, band)
<1> DEFINE median == WeightedMedian(ballot)
           b  == Mul(median, TruncDiv(band, 2))
           sd == StandardDeviation(ballot, median)
           spread == IF sd > b THEN sd ELSE b
<1>1. median \in Nat
  BY MedianNat
<1>2. b \in Nat /\ sd \in Nat
  <2>1. TruncDiv(band, 2) \in Nat
    BY TruncDivNat
  <2> HIDE DEF median
  <2> QED  BY <1>1, <2>1, MulNat, DeviationNat
<1>3. spread \in Nat
  <2> HIDE DEF b, sd
  <2> QED  BY <1>2
<1>4. median - spread <= w.rate /\ w.rate <= median + spread
  <2> HIDE DEF median, spread
  <2> QED  BY <1>1, <1>3 DEF median
<1>5. Winners(ballot, band) =
         {vote.voter : vote \in {u \in ballot : /\ median - spread <= u.rate
                                               /\ u.rate <= median + spread}}
  BY DEF Winners
<1> HIDE DEF spread, median
<1> QED  BY <1>4, <1>5

(* Whoever wins has a vote in the ballot. *)
LEMMA WinnersVoted ==
    ASSUME NEW ballot, NEW band, NEW v \in Winners(ballot, band)
    PROVE  \E vote \in ballot : vote.voter = v
BY DEF Winners

(* A vote with two units of power wins if every other vote either agrees   *)
(* with it or is an abstention without power: half of the power is then at *)
(* least one, and abstentions do not reach it.                             *)
LEMMA AgreedVoteWins ==
    ASSUME NEW ballot, IsBallot(ballot), NEW band \in Nat, NEW w \in ballot,
           w.power >= 2,
           \A u \in ballot : u.rate = w.rate \/ (u.rate = 0 /\ u.power = 0)
    PROVE  w.voter \in Winners(ballot, band)
<1> DEFINE median == WeightedMedian(ballot)
           f == [vote \in ballot |-> vote.power]
           total == BallotPower(ballot)
<1>1. median \in Reached(ballot) /\ \E u \in ballot : u.rate = median
  BY MedianNat
<1>2. SUFFICES ASSUME median # w.rate
               PROVE  FALSE
  BY MedianWins
<1>3. median = 0
  BY <1>1, <1>2
<1>4. ballot \subseteq VoteType /\ IsFiniteSet(ballot)
  BY DEF IsBallot
<1> DEFINE low == {vote \in ballot : vote.rate <= median}
<1>5. \A vote \in low : f[vote] = 0
  <2>1. ASSUME NEW vote \in low
        PROVE  vote.rate = 0
    <3>1. vote.rate \in Nat /\ vote.rate <= median
      BY <1>4 DEF VoteType
    <3> HIDE DEF median
    <3> QED  BY <1>3, <3>1
  <2> QED  BY <1>2, <1>3, <2>1
<1>6. BallotPower(low) = 0
  <2>1. low \in SUBSET ballot
    OBVIOUS
  <2>2. BallotPower(low) = SumFunctionOnSet(f, low)
    BY <2>1, PowerNat
  <2>3. IsFiniteSet(low)
    BY <1>4, <2>1, FS_Subset
  <2> HIDE DEF f, low
  <2> QED  BY <1>5, <2>2, <2>3, SumZero
<1>7. total \in Nat /\ total >= 2
  <2>1. \A vote \in ballot : f[vote] \in Nat
    BY <1>4 DEF VoteType
  <2>2. total \in Nat
    BY PowerNat
  <2>3. total = SumFunctionOnSet(f, ballot)
    BY DEF BallotPower
  <2>4. f[w] >= 2
    OBVIOUS
  <2>5. f[w] <= SumFunctionOnSet(f, ballot) /\ f[w] \in Nat
    <3> HIDE DEF f
    <3> QED  BY <1>4, <2>1, SumPart
  <2> HIDE DEF f, total
  <2> QED  BY <2>2, <2>3, <2>4, <2>5
<1>8. BallotPower(low) >= total \div 2
  BY <1>1 DEF Reached
<1> HIDE DEF low, total
<1> QED  BY <1>6, <1>7, <1>8

(* The bases of the cross rates are the voters' rates on the reference     *)
(* denom.                                                                  *)
LEMMA BasesOf ==
    ASSUME TypeOK, NEW vals \in [Validators -> StakingType], NEW ref
    PROVE  LET bases == ToMap(Ballot(vals, ref))
           IN  /\ DOMAIN bases = VotersOf(vals, ref)
               /\ \A v \in VotersOf(vals, ref) : bases[v] = votes[v][ref]
<1> DEFINE ballot == Ballot(vals, ref)
           V == VotersOf(vals, ref)
           positive == {vote \in ballot : vote.rate > 0}
           bases == ToMap(ballot)
<1>1. ballot = {VoteOf(vals, ref, v) : v \in V}
  BY BallotTyped
<1>2. \A v \in V : votes[v][ref] \in Nat \ {0}
  BY VotesType DEF VotersOf, Voters
<1>3. \A v : VoteOf(vals, ref, v).voter = v /\ VoteOf(vals, ref, v).rate = votes[v][ref]
  BY DEF VoteOf
<1>4. positive = ballot
  <2>1. \A vote \in ballot : \E v \in V : vote.rate = votes[v][ref]
    BY <1>1, <1>3
  <2> HIDE DEF ballot, V
  <2> QED  BY <1>2, <2>1
<1>5. bases = [v \in {vote.voter : vote \in ballot} |->
                 (CHOOSE vote \in ballot : vote.voter = v).rate]
  <2>1. bases = [v \in {vote.voter : vote \in positive} |->
                   (CHOOSE vote \in positive : vote.voter = v).rate]
    BY DEF ToMap
  <2> HIDE DEF positive, ballot, bases
  <2> QED  BY <1>4, <2>1
<1> HIDE DEF ballot, V, bases
<1>6. {vote.voter : vote \in ballot} = V
  BY <1>1, <1>3
<1>7. ASSUME NEW v \in V
      PROVE  bases[v] = votes[v][ref]
  <2> DEFINE c == CHOOSE vote \in ballot : vote.voter = v
  <2>1. VoteOf(vals, ref, v) \in ballot /\ VoteOf(vals, ref, v).voter = v
    BY <1>1, <1>3
  <2>2. c \in ballot /\ c.voter = v
    BY <2>1
  <2>3. bases[v] = c.rate
    BY <1>5, <1>6
  <2> HIDE DEF c
  <2> QED  BY <1>1, <1>3, <2>2, <2>3
<1> QED  BY <1>5, <1>6, <1>7 DEF ballot, V, bases

(* In every ballot that is tallied, the vote of a validator that voted on  *)
(* every target like everyone else is agreed to or abstained from.         *)
LEMMA UnanimousBallot ==
    ASSUME TypeOK, NEW vals \in [Validators -> StakingType], NEW v \in Voters(vals),
           Unanimous(v), NEW ref \in voteTarget, NEW d \in voteTarget
    PROVE  \E w \in TalliedBallot(vals, ref, d) :
              /\ w.voter = v /\ w.power = ConsensusPower(vals[v])
              /\ \A u \in TalliedBallot(vals, ref, d) :
                    u.rate = w.rate \/ (u.rate = 0 /\ u.power = 0)
<1> DEFINE V == VotersOf(vals, d)
           ballot == Ballot(vals, d)
           x == VoteOf(vals, d, v)
           bases == ToMap(Ballot(vals, ref))
           tallied == TalliedBallot(vals, ref, d)
<1>1. /\ ballot = {VoteOf(vals, d, u) : u \in V}
      /\ \A u \in V : /\ VoteOf(vals, d, u) \in VoteType
                      /\ VoteOf(vals, d, u).power = ConsensusPower(vals[u])
  BY BallotTyped
<1>2. /\ \A e \in voteTarget : v \in VotersOf(vals, e)
      /\ \A e \in voteTarget : \A u \in VotersOf(vals, e) :
            votes[u][e] = votes[v][e] /\ votes[u][e] \in Nat \ {0}
  BY VotesType DEF Unanimous, VotersOf, Voters
<1>3. \A u : VoteOf(vals, d, u).voter = u /\ VoteOf(vals, d, u).rate = votes[u][d]
  BY DEF VoteOf
<1>4. CASE tallied = ballot
  <2>1. x \in ballot /\ x.voter = v /\ x.power = ConsensusPower(vals[v]) /\ x.rate = votes[v][d]
    BY <1>1, <1>2, <1>3
  <2>2. \A u \in ballot : u.rate = x.rate
    BY <1>1, <1>2, <1>3
  <2> QED  BY <1>4, <2>1, <2>2
<1>5. CASE tallied = ToCrossRate(ballot, bases)
  <2> DEFINE q == Quo(votes[v][ref], votes[v][d])
             cross(vote) == IF vote.voter \in DOMAIN bases /\ vote.rate > 0
                            THEN [vote EXCEPT !.rate = Quo(bases[vote.voter], vote.rate)]
                            ELSE [vote EXCEPT !.rate = 0, !.power = 0]
  <2>1. /\ DOMAIN bases = VotersOf(vals, ref)
        /\ \A u \in VotersOf(vals, ref) : bases[u] = votes[v][ref]
    BY <1>2, BasesOf
  <2>2. tallied = {cross(vote) : vote \in ballot}
    BY <1>5, Zenon DEF ToCrossRate
  <2> HIDE DEF bases
  <2>3. ASSUME NEW u \in V
        PROVE  LET y == VoteOf(vals, d, u)
               IN  /\ u \in VotersOf(vals, ref) =>
                        /\ cross(y) = [y EXCEPT !.rate = q]
                        /\ cross(y).voter = u /\ cross(y).rate = q
                        /\ cross(y).power = ConsensusPower(vals[u])
                   /\ u \notin VotersOf(vals, ref) =>
                        cross(y).rate = 0 /\ cross(y).power = 0
    <3> DEFINE y == VoteOf(vals, d, u)
    <3>1. /\ y \in VoteType /\ y.power = ConsensusPower(vals[u]) /\ y.voter = u
          /\ y.rate = votes[v][d] /\ y.rate > 0
      BY <1>1, <1>2, <1>3
    <3> HIDE DEF y
    <3>2. CASE u \in VotersOf(vals, ref)
      <4>1. cross(y) = [y EXCEPT !.rate = q]
        BY <2>1, <3>1, <3>2
      <4> HIDE DEF cross, q
      <4>2. cross(y).voter = u /\ cross(y).rate = q /\ cross(y).power = ConsensusPower(vals[u])
        BY <3>1, <4>1 DEF VoteType
      <4> QED  BY <3>2, <4>1, <4>2 DEF y
    <3>3. CASE u \notin VotersOf(vals, ref)
      <4>1. cross(y) = [y EXCEPT !.rate = 0, !.power = 0]
        BY <2>1, <3>1, <3>3
      <4> HIDE DEF cross, q
      <4>2. cross(y).rate = 0 /\ cross(y).power = 0
        BY <3>1, <4>1, AbstainVote
      <4> QED  BY <3>3, <4>2 DEF y
    <3> QED  BY <3>2, <3>3
  <2> HIDE DEF cross, q
  <2> DEFINE z == cross(x)
  <2>4. z \in tallied /\ z.voter = v /\ z.rate = q /\ z.power = ConsensusPower(vals[v])
    <3>1. v \in V /\ v \in VotersOf(vals, ref)
      BY <1>2
    <3>2. z.voter = v /\ z.rate = q /\ z.power = ConsensusPower(vals[v])
      BY <2>3, <3>1
    <3> QED  BY <1>1, <2>2, <3>1, <3>2
  <2>5. ASSUME NEW u \in tallied
        PROVE  u.rate = z.rate \/ (u.rate = 0 /\ u.power = 0)
    <3>1. PICK i \in V : u = cross(VoteOf(vals, d, i))
      BY <1>1, <2>2
    <3> QED  BY <2>3, <2>4, <3>1
  <2> HIDE DEF z, tallied
  <2> QED  BY <2>4, <2>5 DEF tallied
<1> QED  BY <1>4, <1>5 DEF TalliedBallot

(* A tally counts a period once, as what Outcome says. *)
LEMMA GainsOutcome ==
    ASSUME OInv, NEW vals, NEW ref, NEW v \in Claimants(vals),
           counters' = CountersAfter(vals, ref),
           NEW kind \in {"success", "abstain", "miss"}, Gains(v, kind)
    PROVE  Outcome(vals, ref, v) = kind
<1> DEFINE c == CounterOf(counters, v)
           o == Outcome(vals, ref, v)
<1>1. c \in Records
  BY OInvCounterTypes DEF CounterTypes, OInv, TypeOK, CounterOf, ZeroCounter, Records
<1>2. CounterOf(counters', v) = [c EXCEPT ![o] = @ + 1]
  BY DEF CountersAfter, CounterOf
<1>3. [c EXCEPT ![o] = @ + 1][kind] = c[kind] + 1
  BY <1>2 DEF Gains
<1>4. o \in {"success", "abstain", "miss"}
  BY DEF Outcome
<1>5. c[kind] \in Nat
  BY <1>1 DEF Records
<1>6. kind \in DOMAIN c
  BY <1>1 DEF Records
<1> HIDE DEF c, o
<1>7. o # kind => [c EXCEPT ![o] = @ + 1][kind] = c[kind]
  BY <1>6
<1>8. o = kind
  BY <1>3, <1>5, <1>7
<1> QED  BY <1>8 DEF o

FairStep ==
    EndsPeriod /\ voteTarget # {} /\ BelowThreshold(staking') = {} =>
       /\ \A v \in BondedNow \ DOMAIN votes : ~Gains(v, "success")
       /\ \A v \in BondedNow \cap DOMAIN votes :
             Unanimous(v) /\ ConsensusPower(staking'[v]) >= 2 => ~Gains(v, "miss")

LEMMA TallyFair ==
    ASSUME OInv, NEW gone, EndBlockTally(gone)
    PROVE  FairStep
<1>1. SUFFICES ASSUME voteTarget # {}, BelowThreshold(staking') = {}
               PROVE  /\ \A v \in BondedNow \ DOMAIN votes : ~Gains(v, "success")
                      /\ \A v \in BondedNow \cap DOMAIN votes :
                            Unanimous(v) /\ ConsensusPower(staking'[v]) >= 2 => ~Gains(v, "miss")
  BY DEF FairStep
<1> DEFINE vals == StakingEndBlock(gone)
<1>2. staking' = vals /\ vals \in [Validators -> StakingType] /\ TypeOK
  BY StakingStepType DEF EndBlockTally, OInv
<1>3. BondedNow = Claimants(vals)
  BY <1>2, BondedNotJailed DEF BondedNow
<1>4. PICK order \in SetToSeqs(Passing(vals)) :
         counters' = CountersAfter(vals, ReferenceDenom(vals, order))
  BY DEF EndBlockTally
<1> HIDE DEF vals
<1> DEFINE ref == ReferenceDenom(vals, order)
           won(v) == {d \in VotedDenoms(vals) :
                        v \in Winners(TalliedBallot(vals, ref, d), params.rewardBand)}
           n == Cardinality(voteTarget)
<1>5. IsFiniteSet(voteTarget) /\ n \in Nat \ {0}
  <2>1. IsFiniteSet(voteTarget)
    BY <1>2, OracleAssumption, FS_Subset DEF TypeOK
  <2> QED  BY <1>1, <2>1, FS_CardinalityType, FS_EmptySet
<1>6. LocalTargets(vals) = voteTarget
  BY <1>1, <1>2 DEF LocalTargets
<1>7. \A v : WinCount(vals, ref, v) = Cardinality(won(v))
  BY DEF WinCount
<1>8. params.rewardBand \in Nat
  BY PrecAssumption DEF OInv, ValidParams
<1>9. ASSUME NEW v \in BondedNow \ DOMAIN votes
      PROVE  ~Gains(v, "success")
  <2>1. ASSUME NEW d \in voteTarget
        PROVE  v \notin Winners(TalliedBallot(vals, ref, d), params.rewardBand)
    <3>1. \A e : \A u \in Ballot(vals, e) : u.voter # v
      BY <1>9 DEF Ballot, Voters
    <3>2. ASSUME NEW e, NEW bases, NEW u \in ToCrossRate(Ballot(vals, e), bases)
          PROVE  u.voter # v
      <4>1. PICK y \in Ballot(vals, e) :
               \/ u = [y EXCEPT !.rate = Quo(bases[y.voter], y.rate)]
               \/ u = [y EXCEPT !.rate = 0, !.power = 0]
        BY Zenon DEF ToCrossRate
      <4>2. y \in VoteType
        BY <1>2, BallotTyped DEF IsBallot
      <4>3. u.voter = y.voter
        BY <4>1, <4>2, AbstainVote DEF VoteType
      <4> QED  BY <3>1, <4>3
    <3>3. \A u \in TalliedBallot(vals, ref, d) : u.voter # v
      BY <3>1, <3>2 DEF TalliedBallot
    <3> QED  BY <3>3, WinnersVoted
  <2>2. won(v) = {}
    BY <2>1 DEF VotedDenoms
  <2>3. WinCount(vals, ref, v) = 0
    BY <1>7, <2>2, FS_EmptySet
  <2>4. Outcome(vals, ref, v) # "success"
    BY <1>5, <1>6, <2>3 DEF Outcome
  <2> QED  BY <1>3, <1>4, <1>9, <2>4, GainsOutcome
<1>10. ASSUME NEW v \in BondedNow \cap DOMAIN votes, Unanimous(v), ConsensusPower(staking'[v]) >= 2
       PROVE  ~Gains(v, "miss")
  <2>1. v \in Voters(vals)
    BY <1>3 DEF Voters
  <2>2. VotedDenoms(vals) = voteTarget
    BY <1>10, <2>1 DEF VotedDenoms, Unanimous
  <2>3. ref \in voteTarget
    <3>1. Passing(vals) = voteTarget
      BY <1>1, <1>2, <2>2 DEF BelowThreshold, Passing
    <3> QED  BY <1>1, <1>2, <3>1, ReferenceIsBest
  <2> HIDE DEF ref
  <2>4. ASSUME NEW d \in voteTarget
        PROVE  v \in Winners(TalliedBallot(vals, ref, d), params.rewardBand)
    <3> DEFINE ballot == TalliedBallot(vals, ref, d)
    <3>1. PICK w \in ballot :
              /\ w.voter = v /\ w.power = ConsensusPower(vals[v])
              /\ \A u \in ballot : u.rate = w.rate \/ (u.rate = 0 /\ u.power = 0)
      BY <1>2, <1>10, <2>1, <2>3, UnanimousBallot
    <3>2. IsBallot(ballot)
      BY <1>2, TalliedBallotTyped
    <3>3. w.power >= 2
      BY <1>2, <1>10, <3>1
    <3> HIDE DEF ballot
    <3>4. w.voter \in Winners(ballot, params.rewardBand)
      BY <1>8, <3>1, <3>2, <3>3, AgreedVoteWins
    <3> QED  BY <3>1, <3>4 DEF ballot
  <2>5. won(v) = voteTarget
    BY <2>2, <2>4
  <2>6. Outcome(vals, ref, v) = "success"
    BY <1>6, <1>7, <2>5 DEF Outcome
  <2>7. v \in Claimants(vals) /\ counters' = CountersAfter(vals, ref)
    BY <1>3, <1>4 DEF ref
  <2> QED  BY <2>6, <2>7, GainsOutcome
<1> QED  BY <1>9, <1>10

(* A period in which no voted denom stays below the threshold is counted   *)
(* fairly: who did not vote gains no success, and who voted on every       *)
(* target like everyone else, with two units of power or more, no miss.    *)
THEOREM PeriodsAreFair == Spec => FairWhenAllPass
<1>1. ASSUME OInv, [Next]_vars PROVE [FairStep]_vars
  <2>1. CASE UNCHANGED vars
    BY <2>1
  <2>2. CASE Next
    BY <1>1, <2>2, OnlyTallyEndsPeriod, TallyFair DEF FairStep
  <2> QED  BY <1>1, <2>1, <2>2
<1>2. Spec => [][FairStep]_vars
  BY <1>1, OInvInductive, PTL DEF Spec
<1>. QED  BY <1>2, PTL DEF FairWhenAllPass, FairStep
=============================================================================
