----------------------------- MODULE OracleChain -----------------------------
(***************************************************************************)
(* The oracle in the chain: votes arrive in transactions that pass the     *)
(* FeelessDecorator of ante/feeless.go, and the chain may be restarted     *)
(* from the genesis that it exports.  Every other step is one of Oracle's. *)
(***************************************************************************)
EXTENDS Oracle

CONSTANTS
    InitFunds,     \* bound: how many fees each account can pay
    RestartGaps,   \* bound: the seconds before the chain restarts
    MaxRestarts,   \* bound: how often it restarts
    Horizon        \* above every LookbackDuration, see PriceFeed

ASSUME ChainAssumption ==
    /\ InitFunds \in [Accounts -> Nat]
    /\ RestartGaps \subseteq Nat /\ MaxRestarts \in Nat
    /\ Horizon \in Nat
    /\ \A p \in {InitParams} \cup ParamsProposals : p.lookbackDuration < Horizon

VARIABLES
    funds,      \* the fees each account can still pay
    free,       \* history: votes stored without a fee since the last tally
    restarts    \* how often the chain has been restarted

chainVars == <<vars, funds, free, restarts>>

-----------------------------------------------------------------------------
(* IsTxFeeless: the vote is alone in its transaction, and the validator    *)
(* has no vote yet.  (A feeder that ValidateFeeder refuses is an error.)   *)
IsTxFeeless(v, others) == ~others /\ v \notin DOMAIN votes

(* the fee decorator that FeelessDecorator wraps *)
DeductFee(f) ==
    /\ funds[f] > 0
    /\ funds' = [funds EXCEPT ![f] = @ - 1]

(* FeelessDecorator.AnteHandle *)
AnteHandle(f, v, others) ==
    /\ others \/ ValidateFeeder(f, v)
    /\ \/ IsTxFeeless(v, others) /\ UNCHANGED funds
       \/ ~IsTxFeeless(v, others) /\ DeductFee(f)

(* a transaction with a vote, alone or with another message, succeeds *)
DeliverVote(f, v, exchangeRates, others) ==
    /\ AnteHandle(f, v, others)
    /\ AggregateExchangeRateVote(f, v, exchangeRates)
    /\ free' = [free EXCEPT ![v] = IF IsTxFeeless(v, others) THEN @ + 1 ELSE @]
    /\ UNCHANGED restarts

(* its message fails, on a denom that is no target: it keeps the fee *)
DeliverFailing(f, v, others) ==
    /\ ~halted
    /\ phase = "txs"
    /\ AnteHandle(f, v, others)
    /\ UNCHANGED <<vars, free, restarts>>

-----------------------------------------------------------------------------
(* AddPriceSnapshot of every exported snapshot, at the genesis time t *)
ImportedSnapshots(t) ==
    Restrict(snapshots, {s \in DOMAIN snapshots : s + params.lookbackDuration >= t})

(* mutant: the votes are not imported *)
RestartWithoutVotes(gap) ==
    /\ ~halted
    /\ phase = "idle" /\ restarts < MaxRestarts
    /\ restarts' = restarts + 1
    /\ time' = time + gap
    /\ voteTarget' = {}
    /\ votes' = EmptyStore
    /\ snapshots' = ImportedSnapshots(time')
    /\ UNCHANGED <<height, phase, params, rates, counters, metadata, feeder,
                   staking, halted, funds, free>>

(* ExportGenesis, then InitGenesis in a new chain that goes on at the next *)
(* height: everything but the vote targets is imported                     *)
RestartFromGenesis(gap) ==
    /\ ~halted
    /\ phase = "idle" /\ restarts < MaxRestarts
    /\ restarts' = restarts + 1
    /\ time' = time + gap
    /\ voteTarget' = {}
    /\ snapshots' = ImportedSnapshots(time')
    /\ UNCHANGED <<height, phase, params, votes, rates, counters, metadata,
                   feeder, staking, halted, funds, free>>

-----------------------------------------------------------------------------
ChainInit ==
    /\ Init
    /\ funds = InitFunds
    /\ free = [v \in Validators |-> 0]
    /\ restarts = 0

(* a tally that clears the votes starts the next voting period *)
TallyStep ==
    /\ \E gone \in SUBSET Mature : EndBlockTally(gone)
    /\ free' = [v \in Validators |-> 0]
    /\ UNCHANGED <<funds, restarts>>

ChainNext ==
    \/ \E f \in Accounts, v \in Validators, others \in BOOLEAN :
          \/ \E er \in ExchangeRateTuples : DeliverVote(f, v, er, others)
          \/ DeliverFailing(f, v, others)
    \/ OtherStep /\ UNCHANGED <<funds, free, restarts>>
    \/ TallyStep
    \/ \E gap \in RestartGaps : RestartFromGenesis(gap)

ChainSpec == ChainInit /\ [][ChainNext]_chainVars
-----------------------------------------------------------------------------
(* README: a vote "is feeless as long as its the first vote for the        *)
(* validator in the current voting period": whoever sends them, and over a *)
(* restart in the middle of the period, no validator gets two votes stored *)
(* for free.  (A transaction that fails stores none.)                      *)
AtMostOneFreeVote == \A v \in Validators : free[v] <= 1

(* A vote is checked against the vote targets when it is stored, and       *)
(* tallied blocks later: the targets do not change under a stored vote,    *)
(* whatever governance does, because EndBlocker clears the votes in the    *)
(* step that applies a new whitelist.  Only the votes that a restart       *)
(* imports, which forgets the targets, name denoms that are none, until    *)
(* the next tally: they are what pickReferenceDenom drops.                 *)
VotesOnTargets ==
    restarts = 0 \/ voteTarget # {} =>
        \A v \in DOMAIN votes : DOMAIN votes[v] \subseteq voteTarget

(* ApplyWhitelist compares the whitelist, by length and then denom by      *)
(* denom, with the map of targets that pickReferenceDenom has deleted from *)
(* and not with the store.  No tally leaves a denom of the whitelist       *)
(* without a target; and one that deleted nothing, or the first one after  *)
(* a restart, which forgets the targets, leaves the targets that are on    *)
(* the whitelist, whatever was voted.  (When the ballot of a denom that    *)
(* governance took off the whitelist is below the threshold, the map may   *)
(* already look like the whitelist, and the denom stays a target; so it    *)
(* may when the whitelist has a denom twice.)                              *)
WhitelistApplied ==
    [][EndsPeriod =>
         /\ Range(params.whitelist) \subseteq voteTarget'
         /\ \/ voteTarget = {}
            \/ /\ BelowThreshold(staking') = {}
               /\ Cardinality(Range(params.whitelist)) = Len(params.whitelist)
            => voteTarget' = Range(params.whitelist)]_chainVars

(* the snapshots by their age, merged from Horizon on *)
AgedSnapshots ==
    LET ages == {time - t : t \in DOMAIN snapshots}
        old  == {a \in ages : a >= Horizon}
    IN  [a \in (ages \ old) \cup (IF old = {} THEN {} ELSE {Horizon}) |->
            snapshots[time - IF a < Horizon THEN a ELSE Min(old)]]

Feed ==
    INSTANCE PriceFeed WITH
        targets <- voteTarget,
        lookback <- params.lookbackDuration,
        snapshots <- AgedSnapshots,
        Values <- Nat,
        Whitelists <- SUBSET Denoms,
        Lookbacks <- 0 .. Horizon - 1,
        Gaps <- BlockGaps \cup RestartGaps

(* The oracle is a price feed: votes, powers, thresholds and cross rates   *)
(* implement the abstract specification that the fee module relies on,     *)
(* through changes of the parameters and restarts.                         *)
FeedSpec == Feed!Spec
=============================================================================
