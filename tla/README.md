# TLA+ models of kiichain

kiichain is a Cosmos SDK chain with an EVM.  Its own logic lives in four modules
(`x/oracle`, `x/rewards`, `x/feeabstraction`, `x/tokenfactory`), in the ante handlers
under `ante/`, and in bindings and precompiles that call them.  This directory models
the parts of it that keep state across blocks, checks them with TLC on small
instances and proves their safety properties and refinements with TLAPS for all constants.

## Inventory

A block is: BeginBlockers (rewards, ..., staking, oracle, feeabstraction, in the order of
`app/modules.go`), the transactions (each through the ante handlers; a failing
message is rolled back), EndBlockers (governance, staking, ..., oracle).  Execution is
sequential and must be deterministic; the concurrency is between the actors that
order transactions between the blocks: validators, feeders, governance, staking.
An error or a panic in a BeginBlocker or EndBlocker stops the chain.

| Component | State | Operations | Hard behaviour | What makes it correct |
|---|---|---|---|---|
| oracle | params, vote targets, votes, feeders, rates, snapshots, penalty counters | `AggregateExchangeRateVote`, `DelegateFeedConsent`, `UpdateParams`, BeginBlocker (slash window), EndBlocker (tally) | votes are checked blocks before they are tallied; validators leave in between; parameters change; Go map order | a rate has a quorum of currently bonded power behind it; every node computes the same; each period is counted once; nothing panics |
| rewards | params, community pool, release schedule; coins in x/bank | `FundPool`, `ChangeSchedule`, `UpdateParams`, BeginBlocker | two ledgers of the same coins; funds checked once and spent later; time truncated to seconds | the ledgers agree; a schedule stays covered; it ends, and pays everything |
| feeabstraction | params, fee tokens with prices | `UpdateParams`, `UpdateFeeTokens`, BeginBlocker (prices), conversion of a fee in the ante handlers | prices from the oracle's averages, missing or zero; clamping; conversion of ERC20 balances | a fee paid in a token is worth the native fee; a token without a price is not accepted; prices reach the oracle's; no division by zero |
| tokenfactory | denoms by creator, admins; metadata and coins in x/bank | `CreateDenom`, `Mint`, `Burn`, `ForceTransfer`, `ChangeAdmin`, `SetDenomMetadata`, `UpdateParams` | who may do what is spread over three stores, one of which other modules write; admins change between messages; restarts | only the admin changes the supply; nobody else takes coins; the stores agree |
| ante | none of its own | feeless votes, governance vote and expedited filters | checked against the state before the transaction | one feeless vote per validator and period |
| wasmbinding | none | messages of contracts to token factory, queries | mint, then send; errors of the second step | what succeeds did what it says |
| precompiles | none | dispatch to the modules | - | - |
| app, cmd, client | wiring, migrations, input and output | - | - | - |

## Modules

| Module | Models |
|---|---|
| `LegacyDec` | the fixed-point decimals of `cosmossdk.io/math` (external): truncating division, banker's rounding |
| `Rewards` | `x/rewards` |
| `RewardsProofs` | its theorems |
| `OracleBallot` | the pure part of the tally: weighted median, cross rates, standard deviation, reward band, reference denom |
| `Oracle` | `x/oracle`, with x/staking as an external component |
| `OracleChain` | the oracle composed with the feeless decorator of `ante/feeless.go` and with restarts from an exported genesis |
| `PriceFeed` | abstract: what the oracle promises to the modules that read its prices |
| `FeeAbstraction` | `x/feeabstraction` and its ante decorators, over any `PriceFeed`; `CalculateTwaps` of the oracle |
| `TokenFactory` | `x/tokenfactory`, the contract messages of `wasmbinding/tokenfactory`, and the other writers of the state they share |
| `TokenLedger` | abstract: what token factory promises to the holders of its tokens |
| `OracleProofs`, `OracleTallyProofs`, `OracleChainProofs`, `FeeAbstractionProofs`, `TokenFactoryProofs` | theorems |
| `SetLemmas`, `DecLemmas` | lemmas about finite sets and sums over them, and about the decimals |
| `MCRewards`, `MCOracle`, `MCOracleChain`, `MCFeeAbstraction`, `MCTokenFactory` | instances for TLC, one `.cfg` per run |

`OracleChain` extends `Oracle` and implements `PriceFeed`; `FeeAbstraction` extends
`PriceFeed`.  The fee module is thereby checked against everything a feed may do, and the oracle
shown to do nothing else.  `TokenFactory` implements `TokenLedger`.

Definitions marked "mutant" in the modules are not part of the specifications.  Each
is a plausible mistake in the definition that follows it; with the mistake in place the run
named in `PROJECT.json` finds the property violated.

### Rewards

`pool`, `schedule` and `tokenDenom` are the three collections of the keeper, `bank` the
balances of the depositor, the module account and the fee collector.  `FundPool`,
`ChangeSchedule` and `UpdateParams` are the messages.  BeginBlocker is a disjunction
with one action per path: `BeginIdle` (inactive), `BeginFirst` (no release time yet),
`BeginFinish` (nothing left: switch off), `BeginRelease` (send, deduct, record) and
`BeginHalt` (an error or a panic; `halted` says which).  `CalculateReward` keeps the
decimals of the code: elapsed and total duration are truncated to seconds, the
proportion is rounded to the precision, the product is truncated to coins, at least one
coin and at most all that remains.  The wall clock that `validateSchedule` reads is any
tick up to `MaxLead` after the last block time.

Block times are ticks, several to a second.  The clock saturates at `Horizon`, beyond
every end time; from there on a release no longer depends on the block time (either the
schedule empties, or the proportion is negative and one coin is paid), so saturation
adds no behaviour and removes none that the properties could tell apart.

### OracleBallot and Oracle

A ballot is a set of votes [voter, rate, power]; the code's slice is sorted by rate and
no result depends on the order of equal rates.  Denoms are numbers in alphabetical
order, rates raw decimals.  `SdUnit` is the number of raw units in the last of the six
digits to which the code prints the standard deviation.  The map of ballots is
iterated in an order Go does not fix: `PickReferenceDenom` takes the order as an
argument, `EndBlockTally` chooses one, and `TallyDeterministic` says that the choice
does not matter.

`BeginBlock`, `BeginBlockSlash` and `BeginBlockPanic` are BeginBlocker (no window ends;
the window ends; the window ends and the operator of a counter is gone).  `EndBlock` and
`EndBlockTally` are staking's EndBlocker followed by the oracle's.  `LocalTargets` is the
map `voteTargets` from which `pickReferenceDenom` deletes: the tally's outcome and
`ApplyWhitelist` use it, as in the code, and not the stored targets.

x/staking is modelled from its use: a validator is bonded, unbonding or removed, may be
jailed at any time (jailed ones stay bonded until EndBlock), is unjailed, unbonds for
`UnbondingBlocks` and can then be removed and created again.  It has tokens, and its power is
the tokens divided by `PowerReduction`, truncated.  The total that the threshold is a share of is the power
of all bonded tokens, which may exceed the sum of the validators' powers.  `Slash` takes a truncated fraction of the
tokens that the power stands for; a validator left without power leaves the set in EndBlock as a
jailed one does (it is not removed: only jailed validators mature in the model).  `Init` is the
default genesis; a genesis exported from a running chain is imported by `RestartFromGenesis` of `OracleChain`.  Left out: the height and timestamp stored with a rate (nothing
in the module reads them back except queries), the overflow of `Quo` in `ToCrossRate`
(recovered as an abstention), events, and `Claim.Weight`, which is never read.

### OracleChain and PriceFeed

A vote is delivered in a transaction, alone or with another message, by any account:
`AnteHandle` refuses it, waives the fee or deducts one of the account's `funds`; the
message then succeeds (`DeliverVote`) or fails and leaves the fee paid (`DeliverFailing`).
`free` is a history variable, the votes stored without a fee since the last tally.
`RestartFromGenesis` is `ExportGenesis` followed by `InitGenesis` after a pause: everything is
imported but the vote targets, and `AddPriceSnapshot` drops the snapshots that the pause made
too old.  Until the next tally there are then votes on denoms that are no targets, which
`pickReferenceDenom` drops (`VotedDenoms`); `VotesOnTargets` excepts them, and no others.

`PriceFeed` has no validators and no votes: a tally may set rates of targets to anything and
drops none, rates disappear only at the start of a block and only of denoms that are no
targets, snapshots hold all rates.  Its readers only subtract timestamps from the block time, so
it keeps snapshots by age, and merges the ages beyond `Horizon`, which no window reaches; the
refinement mapping (`AgedSnapshots`) turns the oracle's timestamps into ages.

### FeeAbstraction

`params` and `feeTokens` are the collections of the keeper; `balances`, `erc20` and `collector`
the external ledgers.  `BeginBlock` is the oracle's BeginBlocker and then
`CalculateFeeTokenPrices` on the averages of the new block time; `BeginBlockFails` is its error,
which stops the chain.  `CalculateTwap` visits the snapshots from the youngest on, as the code,
and weighs each by the time since the previous one *that holds the denom*.  `PayFee` is
`ConvertNativeFee` and the deduction of what it returns: native coins if there are enough, else
the first enabled token, in the order of the collection, of which the account has enough coins,
or else enough ERC20 tokens.  (A fee is in the native denom, as both decorators make it, and the conversion of
ERC20 tokens that the account has does not fail: an error would only refuse the transaction.)  `CheckDeductFee` and `MonoAnteHandle` are the two decorators; the second
checks the transferred value before and after the deduction.  This module's genesis is validated when it is
imported.  `governed` is a history variable: governance acted in this block.

After `MaxBlocks` blocks the messages stop and the oracle's rates rest, but blocks go on, so that
convergence can be checked on a finite graph.

### TokenFactory and TokenLedger

`admin`, `created` and `metadata` are the three stores that say who may do what: the authority
metadata and the creators' stores of the module, and the metadata of x/bank.  Metadata is "none",
"default" (what the module writes) or "custom".  One action per message; `PerformCreateDenom` and
`PerformMint` are the contract messages that do more than the module's own, and
`SetDenomMetadata` covers the binding's, which does not ask for the capability.  `ValidNewAdmin` is what
`ValidateBasic` adds to `ChangeAdmin`: the handler itself takes an empty admin, and so does `HandOver` of
`TokenLedger`.  The capabilities
are those of the chain and never change; both kiichain's (`app/keepers/keepers.go`) and the
others are in the instance.  `ApplyWhitelist` is the oracle's writing of bank metadata.  `signer` and
`rcpt` are history variables.

## Runs

The runs of rewards, oracle and fees set CHECK_DEADLOCK FALSE: the chain can stop in a
BeginBlocker, and the oracle's instances stop at `MaxHeight`.  Token factory never stops.  `Prec` is 100, small and even so that ties and rounding
occur with small numbers.

| Run | Instance | Shows |
|---|---|---|
| rewards_safety | 2 denominations, 2 coins each, half-second ticks, end times with and without a whole second left, and that pass before the first iteration | `TypeOK`, `PoolBacked`, `ScheduleFunded`, `NeverInsolvent`, `EndReleasesAll`, `NearExactShare`, `FinishedMeansPaid`, `ScheduleDrains` |
| oracle_voting | 15, 9 and 5 tokens, two to a unit: powers 7, 4 and 2 of 14; 2 denoms, 2 rates; a validator that is jailed and returns | `TallyDeterministic`, `QuorumBehindRate`, `MajoritySetsRate`, `FairWhenAllPass` |
| oracle_slash | 7 blocks, windows of 2 periods, slashes until a validator has no power, unbonding of 2 blocks, a delegated feeder, a proposal that empties the whitelist and makes the window longer than unbonding | `TypeOK`, `WindowAccounting`, `CountersHaveValidators` |
| oracle_chain | 2 validators, one of which can pay a fee, 2 denoms, 3 proposals that change whitelist, periods and lookback (one invalid), immediate unbonding, a restart | `AtMostOneFreeVote`, `VotesOnTargets`, `QuorumBehindRate`, `WhitelistApplied`, `FeedSpec` |
| fee | 2 oracle denoms with 2 values, windows of 1 and 2 seconds, blocks 0 or 1 second apart, a token held as coins and one as ERC20 tokens, 4 blocks with messages | `FeeTypeOK`, `TwapIsAverage`, `FeeIsWorth`, `PricedWhenUsed`, `PriceConverges` |
| tokenfactory | an account, a contract, two module accounts (one blocked), a denom from genesis and one that is created, 2 sets of capabilities | `TypeOK`, `StoresAgree`, `SupplyBacked`, `TakenOnlyByRight`, `LedgerSpec` |

The bounds are enough for the cases the properties are about: two passing ballots of
equal and of different power, a ballot below the threshold, a zero and an odd total
power, a validator that votes and leaves before the tally, several windows, schedules
with less than a second left, schedules whose end passes before they start, and
proportions that round up; a restart between a vote and its tally and one that outlasts a snapshot;
snapshots that lack a denom, blocks within one second, prices clamped from both sides, a fee that needs the
second token; a denom whose admin is another account, a module or nobody, and one whose metadata was written
before it was created.

### Disagreements between the code and what is said of it

Six runs expect a violation; each quotes what it refutes.

* `rewards_halt`: the guard in `CalculateReward` against a division by zero compares the
  times, but the division is by whole seconds.  A schedule with less than a second left
  makes BeginBlocker panic and stops the chain (and the error of the guard itself does).
* `rewards_end`: when a schedule's end passes before its first iteration, the remaining
  reward is not distributed at once but one coin per block.
* `oracle_miss`: ballots below the threshold add wins but no targets, so that a validator
  that voted on everything, like everyone else, is counted as having missed.
* `fee_halt`: an average over zero seconds is zero and not missing, so that the fallback price
  is not used, the price update divides by zero, and BeginBlocker stops the chain.
* `fee_price`: the README divides a token's price by the native coin's, and so does a test; the code divides the native
  coin's by the token's, which is what a fee has to be multiplied by to be worth the same.  (The test starts at the price
  it expects, and the clamp keeps one update near it.)  `FeeIsWorth` and `PriceConverges` do not take a
  side: the one is about the amount at the stored price, the other about the price at which what is paid is worth
  the fee (`AtWorth`).
* `tf_mint`: a contract's mint to a blocked address succeeds, and the coins stay with the
  contract.

Met while modelling, visible in the models, and without a run of their own:

* oracle: when every ballot is below the threshold, no local target is left, and a validator that
  did not vote is counted as successful; with an odd total power the median may be reached by less
  than half of it; `ApplyWhitelist` compares the whitelist with the targets that the tally reduced, so
  that a denom governance removed stays a target when its ballot is below the threshold and the reduced map looks like the
  whitelist, and may stay one when the whitelist has a denom twice (`WhitelistApplied` excepts the two cases; without the
  exceptions the run violates it); a validator with one unit
  of power that voted like everyone else may be counted as having missed, when the others' cross rates are all
  abstentions: half of the power is then zero, an abstention reaches it, and the median is zero.
* rewards: the error of the rounded proportion multiplies what remains, so that a release of more coins than the
  precision (10^18) may be off by several coins, not one; what it is off by is paid later.
* feeabstraction: a token disabled for want of a price has price zero, which
  `FeeTokenMetadata.Validate` refuses, so that the exported genesis cannot be imported
  (`RestartFromGenesis` is not enabled then) and an update that keeps the token is refused; a restart leaves no vote
  targets, hence no averages, and the first BeginBlocker disables every fee token; so does
  lowering the oracle's lookback below the fee module's window; a fee grant is charged in the
  native coin while the granter may pay in a token; an EVM sender that has the fee and the value in
  native coins, but not their sum, is refused although it holds tokens.
* tokenfactory: the README (lines 16-18) lets `ChangeAdmin` set an empty admin, and tests that call the handler
  (`keeper/admins_test.go:102` and `380`) expect it to succeed, as it does; delivered as a message it is refused by
  `ValidateBasic` (`types/msgs.go:219`), which the binding calls too, so that a running chain has no step to
  an empty admin (`ValidNewAdmin`); a genesis may have one;
  burning from and transferring between other accounts, which the README describes, are not among the
  app's capabilities; a restart replaces custom metadata by the default; an oracle whitelist that names a
  factory denom nobody has created writes its metadata, and nobody can create it any more; the binding's
  SetMetadata does not ask for the metadata capability.

## Fairness

`Rewards` assumes weak fairness of BeginBlocker alone: consensus goes on producing
blocks.  Messages and governance are never assumed to happen.  `ScheduleDrains` is
stated for behaviours in which governance eventually leaves the schedule alone; without
that it could replace it for ever.

`FeeAbstraction` assumes weak fairness of EndBlock (a block that began ends) and strong fairness of
the beginning of a block in a later second: consensus makes block times strictly increasing, so the
Unix second that the averages read advances again and again, though not with every block.
`PriceConverges` says that the prices of the enabled tokens then reach the quotient of the averages
and stay, up to the last raw unit that the clamp's own rounding cannot cross.

`Oracle`, `OracleChain` and `TokenFactory` have safety properties only, and no fairness.

## Proofs

Every invariant, action property and refinement that a passing run checks is also a
theorem, for every value of the constants.  What the runs add is liveness, the
disagreements, and that the hypotheses of the properties do occur.

The assumptions are those of the modules: types of the constants, a positive precision,
validators, denoms and holders finite in number, valid parameters at genesis (the fee module's
`InitGenesis` validates them; the oracle's does not, only the `ValidateGenesis` of its genesis file), and that powers of ten are positive (`FeeGenesisAssumption`), which is
arithmetic that the provers do not know.  Two groups of theorems assume more about
governance, `FixedWindow` and `FixedPeriods`, and say so in their statements.

### Lemmas

`SetLemmas`.  The models add up balances and voting powers with a fold over a set, and the
induction theorems of the library take an operator, which the provers cannot
instantiate.  Induction is therefore by a least counterexample: the set of naturals, or of
subsets of a finite set, that violate a claim has a minimal element (`MinIsElement`,
`MinimalSet`).  On this rest the lemmas about sums: adding or changing an element, parts and
unions, monotonicity.

`DecLemmas`.  By how much truncation and banker's rounding may be off, for either sign,
and `MulMonotone` and `MulCancel`.  Non-linear inequalities are brought to a common
scale, and each step of them is then an instance of one of these two.

### RewardsProofs

For every supply, horizon, tick, precision and set of denominations.
`NeverInsolvent` is not inductive: a release preserves it only if what remains is in the
pool and the pool is in the bank.  The inductive invariant is `IInv`, the conjunction of
`TypeOK`, `PoolBacked`, `ScheduleFunded` and `NeverInsolvent`.  The argument rests on
`RewardBounds` (a reward is between 0 and what remains), and has one lemma per action.
From the same invariant follow the action properties:

* `OffMeansPaid`: a reward of zero means that nothing remains.
* `EndEmptiesSchedule`: at the end time elapsed and total time truncate to the same
  seconds (or more), so that the proportion is at least one, exactly, in spite of the rounding.
* `ReleasesNearShare`: the chain of quotient, rounding, product and truncation is
  within a coin and `ShareError` of the exact share.  A block before the last release (the
  wall clock was ahead) has a negative proportion and is a case of its own.

### OracleProofs

For any validators, denoms, rates and parameters:

* `CountedValidatorsExist` and `SlashNeverPanics`, under `FixedWindow`: governance does
  not change the slash window, and unbonding takes at least one.  `CountersHaveValidators`
  is not inductive; `PInv` adds that a counted validator that unbonds began after
  the last reset of the counters (`LastReset`), hence less than a window ago, hence it is
  not mature.  The lemmas on remainders say that `LastReset` only moves in the block that
  resets the counters.  In the run `oracle_slash` governance may
  make the window longer than unbonding, and `BeginBlockPanic` then happens: the assumption is needed.

### OracleTallyProofs

What the tally computes, for any powers and ballots.  The inductive invariant `OInv` is `TypeOK`, valid
parameters, and no empty counter in the store: without the last a slash would divide by zero, and without valid
parameters take more than the stake.  (`PowerOfTokens`: the tokens that a power stands for are no more than there are.)

* `TallyIsDeterministic`: whatever the order of the map, the fold over it ends with the denom that is
  first in the alphabet among those of the greatest power (`BestOf`, kept by every turn of the loop: `PickStepBest`).
* `QuorumIsBehindRate`: a passing ballot is made of votes of validators bonded after staking's EndBlocker,
  and its power is the sum of theirs.
* `MajorityRules`: the weighted median is the lowest rate up to which the power reaches half; without a rate that has
  clearly more than half of the power, no lower rate reaches it.
* `PeriodsAreFair`: with all ballots passing no target is dropped, so that who did not vote wins none of them
  and who wins all has no miss.  In every ballot of cross rates the others of a unanimous voter agree with it or abstain without
  power (`UnanimousBallot`), and then its rate is the median (`AgreedVoteWins`), at the centre of the band.
* `WindowCountsOnce`, under `FixedPeriods` (governance keeps vote period and slash window, as
  a shorter period in the middle of a window breaks the count).  `WInv` adds that a counter holds at most one outcome for
  each period begun since the reset (`SinceReset`), and one less in a last block that is not yet counted.

### OracleChainProofs

* `OneFreeVote`: `FreeIsStored` adds to the property that a validator with a free vote has a vote
  stored, which only a tally removes, together with the count.  A restart keeps the votes;
  that is why the votes have to be in the exported genesis.
* `VotesStayOnTargets`: only EndBlocker changes the targets, and it clears the votes in the same step; a
  restart changes them too, and leaves none, which is the exception in the property.
* `WhitelistIsApplied`: when nothing is written, every denom of the whitelist is in the local copy and hence in
  the store; when nothing was deleted from the copy as well, it has no other denom, because the two are of the same size.
* `QuorumInChain`: `OInv` is preserved by restarts too, and a restart changes no rate.
* `OracleIsPriceFeed`: the initial states map to initial states, and every step of the chain to
  a step of the feed or a stutter.  The mapping turns timestamps into ages and merges the old ones: `AgeShift` says that
  a pause ages the mapped snapshots as the feed does, `KeptAges` that removing by timestamp is
  removing by age, `PublishedAges` that a new snapshot is the one of age zero.

### FeeAbstractionProofs

For any feed, fee tokens, parameters and balances.  The inductive invariant `FInv` has the types of
the module and of the feed, valid parameters, and decimals between 1 and those of the native coin.

* `FeeTypes`: no balance, and no price, becomes negative.
* `TwapIsExact`: the code makes one pass over the snapshots and weighs each by the time to the previous one
  that holds the denom; the property speaks of the rate in effect in each second.  `WeightsAreSeconds` is the
  induction over the snapshots in order of age that makes one the other.
* `FeesAreWorth`: `RoundingChain` bounds what quotient, product and the final rounding may lose, `AmountWorth`
  carries it through the two changes of decimals.
* `FeesPricedWhenUsed`: the property is about a payment, the invariant `Backed` about the block: once
  BeginBlocker has run and until governance acts, every enabled token has an average (`PricesBacked`), because
  BeginBlocker disables the others and no transaction changes what the averages are computed from.  `Distinct` adds that
  no two tokens are of the same coin, without which a payment in one could be taken for a payment in the other.

### TokenFactoryProofs

For any accounts, denoms, capabilities and genesis:

* `StoresAlwaysAgree`: inductive with the types of the stores (`StoresOK`).
* `TypeCorrect` and `CoinsTakenOnlyByRight`: from `BankOK`, with lemmas about what crediting,
  debiting, sending, minting and burning do to each balance, and one case per message.
* `SupplyAlwaysBacked`: the same steps change the sum of the balances as they change the supply.
* `ImplementsLedger`: the initial states map to initial states, and every step to a step of
  `TokenLedger` or a stutter.  The step that needs `StoresAgree` is the creation of a denom: metadata is the only
  thing the code looks at, and the invariant turns "no metadata" into "never issued".

### What the proofs changed

Three properties held on the instances and not for all constants; the proofs failed, and TLC found the
counterexample on another instance.

* `FairWhenAllPass` is false for a validator with one unit of power (see above; powers 10, 10, 1 with a
  threshold of half show it) and is now stated for two units or more.
* `NearExactShare` bounded the difference by one coin; that is false for amounts above the precision.  `ShareError` is
  the part that grows with the amount; below the precision the bound is still a coin or two.
* `FeeIsWorth` bounded it by one unit of the token; `RoundingError` is what the three roundings allow for any
  decimals and price.

### Only model-checked

`PriceConverges` and `ScheduleDrains`: liveness under fairness is beyond the prover.  So are the runs that
expect a violation, of which there is nothing to prove.

## Not modelled, and plan

Next: the fee module over the oracle itself.  `FeeAbstraction` is proved over any `PriceFeed`, and the
oracle is proved to be one; the composition of the two theorems is by reading.  And the conditions under which
the refuted statements do hold (schedules with at least a second left; periods in which all ballots pass is
`FairWhenAllPass`).

Left out for good: command line, clients (the bundles of swagger-ui under `client/docs` are
third-party code), protobuf and wiring: no protocol state.  The one-off upgrade handlers.  The precompiles
and the remaining wasm bindings: argument packing around the handlers modelled here.  The
governance filters of `ante/`: predicates over one transaction.  Signature verification, nonces and
gas accounting, which are those of the libraries.  Two nodes with different wall clocks in
`validateSchedule`: the model is of one chain.
