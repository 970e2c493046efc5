------------------------------- MODULE Oracle -------------------------------
(***************************************************************************)
(* x/oracle: validators, or the feeders they delegate to, vote on exchange *)
(* rates; the last block of every vote period tallies the votes into the   *)
(* stored rates and counts who voted well; the last block of every slash   *)
(* window slashes the validators that did not.                             *)
(*                                                                         *)
(* A block is BeginBlock, the transactions, EndBlock.  x/staking is        *)
(* external: validators are jailed (by x/slashing, before the oracle's     *)
(* BeginBlocker, or in a transaction), unjailed, removed and created, and  *)
(* its own EndBlocker runs before the oracle's.                            *)
(***************************************************************************)
EXTENDS OracleBallot

CONSTANTS
    Validators,       \* operator addresses; each is also an account
    Feeders,          \* accounts that are not validators
    Denoms,           \* denoms, numbered in alphabetical order
    VoteRates,        \* bound: the rates that are voted, raw decimals
    InitParams,       \* the genesis parameters
    ParamsProposals,  \* bound: the parameters governance proposes
    PowerReduction,   \* the tokens of a unit of consensus power
    InitTokens,       \* the tokens of each validator
    Delegates,        \* bound: the accounts that are named as delegates
    Faulty,           \* bound: the validators that are jailed
    UnbondingBlocks,  \* how long a validator unbonds, in blocks
    BlockGaps,        \* bound: the seconds between two blocks
    MaxHeight         \* bound: the last block

Accounts == Validators \cup Feeders

ASSUME OracleAssumption ==
    /\ IsFiniteSet(Validators) /\ IsFiniteSet(Denoms)
    /\ Validators \cap Feeders = {}
    /\ Denoms \subseteq Nat \ {NoDenom}
    /\ VoteRates \subseteq Nat \ {0}
    /\ Delegates \subseteq Accounts /\ Faulty \subseteq Validators
    /\ PowerReduction \in Nat \ {0}
    /\ InitTokens \in [Validators -> Nat]
    /\ UnbondingBlocks \in Nat /\ MaxHeight \in Nat
    /\ BlockGaps \subseteq Nat

VARIABLES
    height, time,   \* of the last block begun
    phase,          \* "idle" between blocks, "txs" inside one
    params,         \* Params
    voteTarget,     \* VoteTarget, the denoms of the collection
    votes,          \* AggregateExchangeRateVote, by validator
    feeder,         \* FeederDelegation, by validator
    rates,          \* ExchangeRate, by denom
    snapshots,      \* PriceSnapshot, by timestamp
    counters,       \* VotePenaltyCounter, by validator
    metadata,       \* the denoms whose metadata x/bank knows
    staking,        \* x/staking's validators
    halted          \* a BeginBlocker panicked: the chain has stopped

blockVars == <<height, time, phase>>
ballotVars == <<votes, rates, snapshots, counters, voteTarget, metadata>>
vars == <<blockVars, params, ballotVars, feeder, staking, halted>>

PartialFunctions(S, T) == UNION {[D -> T] : D \in SUBSET S}

(* collections: a store without entries, Set of one key, Set of several *)
EmptyStore == [k \in {} |-> 0]

Put(store, key, value) ==
    [k \in DOMAIN store \cup {key} |-> IF k = key THEN value ELSE store[k]]

PutAll(store, new) ==
    [k \in DOMAIN store \cup DOMAIN new |->
        IF k \in DOMAIN new THEN new[k] ELSE store[k]]

ZeroCounter == [success |-> 0, abstain |-> 0, miss |-> 0]

TotalVotes(c) == c.success + c.abstain + c.miss

(* utils.IsPeriodLastBlock *)
IsPeriodLastBlock(h, period) == (h + 1) % period = 0

ParamsType ==
    [votePeriod : Nat, voteThreshold : Int, rewardBand : Int,
     whitelist : Seq(Denoms), slashFraction : Int, slashWindow : Nat,
     minValidPerWindow : Int, lookbackDuration : Nat]

(* Params.Validate *)
ValidParams(p) ==
    /\ p.votePeriod # 0
    /\ 100 * p.voteThreshold > 33 * Prec
    /\ p.rewardBand \in 0 .. Prec
    /\ p.slashFraction \in 0 .. Prec
    /\ p.slashWindow >= p.votePeriod
    /\ p.slashWindow % p.votePeriod = 0
    /\ p.minValidPerWindow \in 0 .. Prec

ASSUME ParamsAssumption ==
    /\ InitParams \in ParamsType /\ ValidParams(InitParams)
    /\ ParamsProposals \subseteq ParamsType

-----------------------------------------------------------------------------
(* x/staking, external *)

InitStaking ==
    [v \in Validators |-> [status |-> "bonded", jailed |-> FALSE,
                           since |-> 0, tokens |-> InitTokens[v]]]

(* TokensToConsensusPower, and a validator's GetConsensusPower *)
TokensToPower(tokens) == tokens \div PowerReduction

ConsensusPower(val) == TokensToPower(val.tokens)

IsBonded(v) == staking[v].status = "bonded"

(* a bonded validator is jailed for a fault; the status follows in EndBlock *)
Jail(v) ==
    /\ ~halted
    /\ IsBonded(v) /\ ~staking[v].jailed
    /\ staking' = [staking EXCEPT ![v].jailed = TRUE]
    /\ UNCHANGED <<blockVars, params, ballotVars, feeder, halted>>

Unjail(v) ==
    /\ ~halted
    /\ phase = "txs"
    /\ staking[v].status # "removed" /\ staking[v].jailed
    /\ staking' = [staking EXCEPT ![v].jailed = FALSE]
    /\ UNCHANGED <<blockVars, params, ballotVars, feeder, halted>>

CreateValidator(v) ==
    /\ ~halted
    /\ phase = "txs"
    /\ staking[v].status = "removed"
    /\ staking' = [staking EXCEPT ![v] = [status |-> "unbonding", jailed |-> FALSE,
                                          since |-> height, tokens |-> InitTokens[v]]]
    /\ UNCHANGED <<blockVars, params, ballotVars, feeder, halted>>

(* jailed validators whose unbonding is over can lose their last delegation *)
Mature ==
    {v \in Validators : /\ staking[v].status = "unbonding"
                        /\ staking[v].jailed
                        /\ height >= staking[v].since + UnbondingBlocks}

(* x/staking bonds it: it is not jailed, and has power *)
Eligible(val) == ~val.jailed /\ ConsensusPower(val) > 0

(* staking's EndBlocker: the validators that are no longer eligible leave  *)
(* the set and the others join it; the ones in gone are removed            *)
StakingEndBlock(gone) ==
    [v \in Validators |->
        LET val == staking[v]
        IN  IF v \in gone THEN [val EXCEPT !.status = "removed"]
            ELSE IF val.status = "bonded" /\ ~Eligible(val)
                 THEN [val EXCEPT !.status = "unbonding", !.since = height]
            ELSE IF val.status = "unbonding" /\ Eligible(val)
                 THEN [val EXCEPT !.status = "bonded"]
            ELSE val]

-----------------------------------------------------------------------------
(* Messages.  One that fails its checks is rolled back: not a step.        *)

(* ValidateFeeder: the validator's own account, or its delegate, for a     *)
(* bonded validator (a jailed one is bonded until the block ends)          *)
ValidateFeeder(f, v) ==
    /\ \/ f = v
       \/ v \in DOMAIN feeder /\ feeder[v] = f
    /\ IsBonded(v)

(* ParseExchangeRateTuples: a rate for each of some denoms, none twice *)
ExchangeRateTuples == PartialFunctions(Denoms, VoteRates)

(* NewAggregateExchangeRateVote's check *)
AllPositive(exchangeRates) ==
    \A d \in DOMAIN exchangeRates : exchangeRates[d] > 0

(* AggregateExchangeRateVote: rates for some vote targets; it replaces the *)
(* validator's vote of this period                                         *)
AggregateExchangeRateVote(f, v, exchangeRates) ==
    /\ ~halted
    /\ phase = "txs"
    /\ ValidateFeeder(f, v)
    /\ DOMAIN exchangeRates \subseteq voteTarget
    /\ AllPositive(exchangeRates)
    /\ votes' = Put(votes, v, exchangeRates)
    /\ UNCHANGED <<blockVars, params, rates, snapshots, counters, voteTarget,
                   metadata, feeder, staking, halted>>

(* DelegateFeedConsent *)
DelegateFeedConsent(v, f) ==
    /\ ~halted
    /\ phase = "txs"
    /\ staking[v].status # "removed"
    /\ feeder' = Put(feeder, v, f)
    /\ UNCHANGED <<blockVars, params, ballotVars, staking, halted>>

(* mutant: a new whitelist is applied at once *)
UpdateParamsAndTargets(p) ==
    /\ ~halted
    /\ phase = "txs"
    /\ ValidParams(p)
    /\ params' = p
    /\ voteTarget' = Range(p.whitelist)
    /\ UNCHANGED <<blockVars, votes, rates, snapshots, counters, metadata,
                   feeder, staking, halted>>

(* UpdateParams, by governance *)
UpdateParams(p) ==
    /\ ~halted
    /\ phase = "txs"
    /\ ValidParams(p)
    /\ params' = p
    /\ UNCHANGED <<blockVars, ballotVars, feeder, staking, halted>>

-----------------------------------------------------------------------------
(* BeginBlocker *)

(* the validators SlashAndResetCounters finds below MinValidPerWindow *)
Underperforming ==
    {v \in DOMAIN counters :
        LET c == counters[v]
        IN  /\ TotalVotes(c) # 0
            /\ TruncDiv(DecFromInt(c.success), TotalVotes(c))
                  < params.minValidPerWindow}

Slashed ==
    {v \in Underperforming : IsBonded(v) /\ ~staking[v].jailed}

(* mutant: the tokens are passed as the power *)
SlashTokensAsPower(v) ==
    [staking[v] EXCEPT
        !.tokens = @ - TruncateInt(@ * PowerReduction * params.slashFraction)]

(* StakingKeeper.Slash: the fraction of the tokens that the power stands for *)
Slash(v) ==
    [staking[v] EXCEPT
        !.tokens = @ - TruncateInt(TokensToPower(@) * PowerReduction
                                     * params.slashFraction)]

(* mutant: only the counters of the validators it penalises are reset *)
CountersOfOthers == Restrict(counters, DOMAIN counters \ Underperforming)

(* the counters SlashAndResetCounters leaves *)
CountersAfterReset ==
    Restrict(counters, {v \in DOMAIN counters : TotalVotes(counters[v]) = 0})

(* RemoveExcessFeeds: the rates of denoms that are still vote targets *)
RemoveExcessFeeds == Restrict(rates, DOMAIN rates \cap voteTarget)

NextBlock(gap) ==
    /\ ~halted
    /\ phase = "idle"
    /\ height < MaxHeight
    /\ height' = height + 1
    /\ time' = time + gap
    /\ phase' = "txs"

BeginBlock(gap) ==
    /\ NextBlock(gap)
    /\ ~IsPeriodLastBlock(height', params.slashWindow)
    /\ UNCHANGED <<params, ballotVars, feeder, staking, halted>>

(* the last block of a slash window: SlashAndResetCounters, then           *)
(* RemoveExcessFeeds                                                       *)
BeginBlockSlash(gap) ==
    /\ NextBlock(gap)
    /\ IsPeriodLastBlock(height', params.slashWindow)
    /\ \A v \in Underperforming : staking[v].status # "removed"
    /\ staking' = [v \in Validators |-> IF v \in Slashed THEN Slash(v) ELSE staking[v]]
    /\ counters' = CountersAfterReset
    /\ rates' = RemoveExcessFeeds
    /\ UNCHANGED <<params, votes, snapshots, voteTarget, metadata, feeder, halted>>

(* StakingKeeper.Validator does not find an underperforming operator: panic *)
BeginBlockPanic ==
    /\ ~halted
    /\ phase = "idle"
    /\ height < MaxHeight
    /\ IsPeriodLastBlock(height + 1, params.slashWindow)
    /\ \E v \in Underperforming : staking[v].status = "removed"
    /\ halted' = TRUE
    /\ UNCHANGED <<blockVars, params, ballotVars, feeder, staking>>
-----------------------------------------------------------------------------
(* EndBlocker, on the validators vals that staking's EndBlocker leaves *)

(* mutant: validators that are not bonded count as well *)
EveryValidator(vals) == DOMAIN vals

(* the keys of validatorClaimMap: the bonded validators of the power index *)
Claimants(vals) ==
    {v \in Validators : vals[v].status = "bonded" /\ ~vals[v].jailed}

Voters(vals) == Claimants(vals) \cap DOMAIN votes

(* OrganizeBallotByDenom *)
Ballot(vals, d) ==
    {[voter |-> v, rate |-> votes[v][d],
      power |-> IF votes[v][d] > 0 THEN ConsensusPower(vals[v]) ELSE 0] :
        v \in {w \in Voters(vals) : d \in DOMAIN votes[w]}}

(* the denoms of voteMap that are vote targets *)
VotedDenoms(vals) ==
    voteTarget \cap UNION {DOMAIN votes[v] : v \in Voters(vals)}

(* the power of all bonded tokens, which may be more than the powers of    *)
(* their validators add up to                                              *)
TotalBondedPower(vals) ==
    TokensToPower(SumFunctionOnSet([v \in Validators |-> vals[v].tokens],
                                   {v \in Validators : vals[v].status = "bonded"}))

ThresholdVotes(vals) == RoundInt(params.voteThreshold * TotalBondedPower(vals))

(* pickReferenceDenom's split of the ballots *)
Passing(vals) ==
    {d \in VotedDenoms(vals) : BallotIsPassing(Ballot(vals, d), ThresholdVotes(vals))}

BelowThreshold(vals) == VotedDenoms(vals) \ Passing(vals)

(* the map voteTargets after pickReferenceDenom deleted from it *)
LocalTargets(vals) == voteTarget \ BelowThreshold(vals)

ReferenceDenom(vals, order) ==
    PickReferenceDenom(order, [d \in Passing(vals) |-> BallotPower(Ballot(vals, d))])

(* the ballot that is tallied for d when ref is the reference denom *)
TalliedBallot(vals, ref, d) ==
    IF d = ref \/ d \in BelowThreshold(vals)
    THEN Ballot(vals, d)
    ELSE ToCrossRate(Ballot(vals, d), ToMap(Ballot(vals, ref)))

(* the rates the passing ballots set: a zero median sets none, a cross     *)
(* rate is transformed back                                                *)
TalliedRates(vals, ref) ==
    LET median(d) == WeightedMedian(TalliedBallot(vals, ref, d))
    IN  [d \in {e \in Passing(vals) : median(e) # 0} |->
            IF d = ref THEN median(d) ELSE Quo(median(ref), median(d))]

WinCount(vals, ref, v) ==
    Cardinality({d \in VotedDenoms(vals) :
                   v \in Winners(TalliedBallot(vals, ref, d), params.rewardBand)})

DidVote(vals, v) ==
    \E d \in VotedDenoms(vals) : v \in Voters(vals) /\ d \in DOMAIN votes[v]

(* mutant: more wins than targets are asked for *)
OutcomeStrict(vals, ref, v) ==
    IF WinCount(vals, ref, v) > Cardinality(LocalTargets(vals)) THEN "success"
    ELSE IF ~DidVote(vals, v) THEN "abstain"
    ELSE "miss"

(* the counter of v the period adds to *)
Outcome(vals, ref, v) ==
    IF WinCount(vals, ref, v) = Cardinality(LocalTargets(vals)) THEN "success"
    ELSE IF ~DidVote(vals, v) THEN "abstain"
    ELSE "miss"

CountersAfter(vals, ref) ==
    [v \in DOMAIN counters \cup Claimants(vals) |->
        LET c == IF v \in DOMAIN counters THEN counters[v] ELSE ZeroCounter
        IN  IF v \in Claimants(vals)
            THEN [c EXCEPT ![Outcome(vals, ref, v)] = @ + 1]
            ELSE c]

(* mutant: only the lengths are compared *)
UpdateRequiredByLength(vals) ==
    Cardinality(LocalTargets(vals)) # Len(params.whitelist)

(* the local copy of the targets differs in length from the whitelist, or  *)
(* lacks one of its denoms                                                 *)
UpdateRequired(vals) ==
    \/ Cardinality(LocalTargets(vals)) # Len(params.whitelist)
    \/ \E d \in Range(params.whitelist) : d \notin LocalTargets(vals)

(* ApplyWhitelist: the whitelist becomes the targets, and the bank learns  *)
(* about the denoms it has no metadata of                                  *)
ApplyWhitelist(vals) ==
    IF UpdateRequired(vals)
    THEN /\ voteTarget' = Range(params.whitelist)
         /\ metadata' = metadata \cup Range(params.whitelist)
    ELSE UNCHANGED <<voteTarget, metadata>>

(* mutant: a tally replaces the store *)
ReplaceExchangeRates(new) == new

(* SetBaseExchangeRateWithEvent, for every denom of the tally *)
SetExchangeRates(new) == PutAll(rates, new)

(* AddPriceSnapshot: store it and delete the ones older than the lookback *)
AddPriceSnapshot(snapshot) ==
    LET added == Put(snapshots, time, snapshot)
    IN  Restrict(added, {t \in DOMAIN added : t + params.lookbackDuration >= time})

EndBlock(gone) ==
    /\ ~halted
    /\ phase = "txs"
    /\ ~IsPeriodLastBlock(height, params.votePeriod)
    /\ phase' = "idle"
    /\ staking' = StakingEndBlock(gone)
    /\ UNCHANGED <<height, time, params, ballotVars, feeder, halted>>

(* the last block of a vote period; Go chooses the order over the map *)
EndBlockTally(gone) ==
    LET vals == StakingEndBlock(gone)
    IN  /\ ~halted
        /\ phase = "txs"
        /\ IsPeriodLastBlock(height, params.votePeriod)
        /\ phase' = "idle"
        /\ staking' = vals
        /\ \E order \in SetToSeqs(Passing(vals)) :
              LET ref == ReferenceDenom(vals, order)
              IN  /\ rates' = SetExchangeRates(TalliedRates(vals, ref))
                  /\ counters' = CountersAfter(vals, ref)
        /\ votes' = EmptyStore
        /\ ApplyWhitelist(vals)
        /\ snapshots' = IF DOMAIN rates' = {} THEN snapshots ELSE AddPriceSnapshot(rates')
        /\ UNCHANGED <<height, time, params, feeder, halted>>

-----------------------------------------------------------------------------
(* InitGenesis with the default genesis: every store but the params empty. *)
(* (OracleChain's RestartFromGenesis is InitGenesis with the genesis of a  *)
(* running chain, which has votes and no vote targets.)                    *)
Init ==
    /\ height = 0 /\ time = 0 /\ phase = "idle"
    /\ params = InitParams
    /\ voteTarget = {} /\ metadata = {}
    /\ votes = EmptyStore /\ feeder = EmptyStore /\ rates = EmptyStore
    /\ snapshots = EmptyStore /\ counters = EmptyStore
    /\ staking = InitStaking
    /\ halted = FALSE

(* the steps that are no votes and no tallies *)
OtherStep ==
    \/ \E gap \in BlockGaps : BeginBlock(gap) \/ BeginBlockSlash(gap)
    \/ BeginBlockPanic
    \/ \E v \in Validators, f \in Delegates : DelegateFeedConsent(v, f)
    \/ \E p \in ParamsProposals : UpdateParams(p)
    \/ \E v \in Faulty : Jail(v) \/ Unjail(v) \/ CreateValidator(v)
    \/ \E gone \in SUBSET Mature : EndBlock(gone)

Next ==
    \/ \E f \in Accounts, v \in Validators, er \in ExchangeRateTuples :
           AggregateExchangeRateVote(f, v, er)
    \/ OtherStep
    \/ \E gone \in SUBSET Mature : EndBlockTally(gone)

Spec == Init /\ [][Next]_vars
-----------------------------------------------------------------------------
(* The types of the collections of keeper.go, of the validators and of the *)
(* clock.                                                                  *)
TypeOK ==
    /\ height \in 0 .. MaxHeight /\ time \in Nat /\ phase \in {"idle", "txs"}
    /\ params \in {InitParams} \cup ParamsProposals
    /\ voteTarget \subseteq Denoms /\ metadata \subseteq Denoms
    /\ votes \in PartialFunctions(Validators, PartialFunctions(Denoms, VoteRates))
    /\ feeder \in PartialFunctions(Validators, Accounts)
    /\ DOMAIN rates \subseteq Denoms /\ \A d \in DOMAIN rates : rates[d] \in Nat
    /\ DOMAIN snapshots \subseteq 0 .. time
    /\ DOMAIN counters \subseteq Validators
    /\ \A v \in DOMAIN counters :
          counters[v] \in [success : Nat, abstain : Nat, miss : Nat]
    /\ staking \in [Validators ->
          [status : {"bonded", "unbonding", "removed"}, jailed : BOOLEAN,
           since : 0 .. MaxHeight, tokens : Nat]]
    /\ halted \in BOOLEAN

(* Every node computes the same tally: the reference denom, and with it    *)
(* every rate, does not depend on the order in which Go iterates the map   *)
(* of ballots in pickReferenceDenom.                                       *)
TallyDeterministic ==
    phase = "txs" /\ IsPeriodLastBlock(height, params.votePeriod) =>
        LET vals == StakingEndBlock({})
        IN  \A o1, o2 \in SetToSeqs(Passing(vals)) :
               ReferenceDenom(vals, o1) = ReferenceDenom(vals, o2)

(* A slash window counts no vote period twice: while the parameters stay   *)
(* as they are, a validator's counter never holds more outcomes than the   *)
(* window has periods, although the counters are reset in BeginBlock of    *)
(* the window's last block and that block's own tally comes after it.      *)
WindowAccounting ==
    \A v \in DOMAIN counters :
        TotalVotes(counters[v]) \in 1 .. params.slashWindow \div params.votePeriod

(* A validator that has a counter still exists when SlashAndResetCounters  *)
(* looks it up, so its panic is unreachable, as long as unbonding takes at *)
(* least a slash window.  (With a longer window BeginBlockPanic happens.)  *)
CountersHaveValidators ==
    UnbondingBlocks >= params.slashWindow =>
        \A v \in DOMAIN counters : staking[v].status # "removed"

(* the step is the EndBlocker of the last block of a vote period *)
EndsPeriod ==
    /\ phase = "txs" /\ phase' = "idle"
    /\ IsPeriodLastBlock(height, params.votePeriod)

PowerOf(V) ==
    SumFunctionOnSet([v \in Validators |-> ConsensusPower(staking'[v])], V)

BondedNow == {v \in Validators : staking'[v].status = "bonded"}

VotedFor(d) == {v \in BondedNow \cap DOMAIN votes : d \in DOMAIN votes[v]}

(* A rate only changes in a tally when validators that are bonded at that  *)
(* moment, with at least VoteThreshold of the bonded power (up to the      *)
(* rounding of the product), have voted on it in this very period.         *)
QuorumBehindRate ==
    [][EndsPeriod =>
         \A d \in DOMAIN rates' :
            (d \in DOMAIN rates => rates'[d] # rates[d]) =>
                2 * Prec * PowerOf(VotedFor(d)) + Prec
                   >= 2 * params.voteThreshold * TotalBondedPower(staking')]_vars

(* When a single denom passes, a rate voted by clearly more than half of   *)
(* the power of its ballot (a whole unit more) becomes its exchange rate,  *)
(* whatever the other validators voted.                                    *)
MajoritySetsRate ==
    [][EndsPeriod =>
         \A d \in Denoms, r \in VoteRates :
            /\ Passing(staking') = {d}
            /\ 2 * PowerOf({v \in VotedFor(d) : votes[v][d] = r})
                  > PowerOf(VotedFor(d)) + 1
            => rates'[d] = r]_vars

CounterOf(store, v) == IF v \in DOMAIN store THEN store[v] ELSE ZeroCounter

(* the period counted as kind for v *)
Gains(v, kind) == CounterOf(counters', v)[kind] = CounterOf(counters, v)[kind] + 1

(* v voted on every target, and no stored vote differs from its votes *)
Unanimous(v) ==
    /\ DOMAIN votes[v] = voteTarget
    /\ \A w \in DOMAIN votes, d \in voteTarget :
          d \in DOMAIN votes[w] => votes[w][d] = votes[v][d]

(* A period in which no voted denom stays below the threshold is counted   *)
(* fairly, over jailings and changes of powers between the votes and the   *)
(* tally: a validator that is bonded at the end of it and has not voted    *)
(* gains no success, and one with two units of power or more that voted on *)
(* every target like everyone else no miss.  (With a denom below the       *)
(* threshold both fail: see UnanimousVoterNeverMisses.  With one unit, if  *)
(* the others' cross rates are all abstentions, half of the power is zero, *)
(* an abstention reaches it, and the median is zero.)                      *)
FairWhenAllPass ==
    [][EndsPeriod /\ voteTarget # {} /\ BelowThreshold(staking') = {} =>
         /\ \A v \in BondedNow \ DOMAIN votes : ~Gains(v, "success")
         /\ \A v \in BondedNow \cap DOMAIN votes :
               Unanimous(v) /\ ConsensusPower(staking'[v]) >= 2 => ~Gains(v, "miss")]_vars

(* README: validators are slashed "if they didn't submit enough votes":    *)
(* one that voted on every target, in a period in which every vote stored  *)
(* agrees with its own, is not counted as having missed.                   *)
UnanimousVoterNeverMisses ==
    [][EndsPeriod =>
         \A v \in BondedNow \cap DOMAIN votes :
            Unanimous(v) => ~Gains(v, "miss")]_vars
=============================================================================
