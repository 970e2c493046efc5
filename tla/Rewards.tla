------------------------------ MODULE Rewards ------------------------------
(***************************************************************************)
(* x/rewards: a community pool anyone can fund, a release schedule that    *)
(* governance sets, and a BeginBlocker that streams the scheduled amount   *)
(* to the fee collector, linearly in time, until the end time.             *)
(*                                                                         *)
(* Time is counted in ticks, TicksPerSecond of them in a second, because   *)
(* block times are finer than the whole seconds CalculateReward works in.  *)
(* The clock saturates at Horizon, which no end time reaches: a release    *)
(* at or after Horizon does not depend on the block time any more (it      *)
(* either empties the schedule or has a non-positive proportion).          *)
(***************************************************************************)
EXTENDS LegacyDec

CONSTANTS
    Denoms,          \* the coin denominations of the bank
    NoDenom,         \* the denomination of the empty coin sdk.Coin{}
    Supply,          \* the coins of each denomination the depositor starts with
    MaxAmount,       \* bound: the largest amount in a message
    TicksPerSecond,  \* the resolution of block times
    Horizon,         \* bound: the last tick of the clock
    EndTimes,        \* bound: the end times governance proposes
    LastTimes,       \* bound: the last release times governance proposes
    MaxLead          \* bound: how far a node's wall clock is ahead of block time

ASSUME RewardsAssumption ==
    /\ NoDenom \notin Denoms
    /\ Supply \in Nat /\ MaxAmount \in Nat /\ MaxLead \in Nat
    /\ TicksPerSecond \in Nat \ {0}
    /\ Horizon \in Nat \ {0}
    /\ EndTimes \subseteq 1 .. Horizon - 1
    /\ LastTimes \subseteq 0 .. Horizon

VARIABLES
    time,         \* the block time of the last block
    tokenDenom,   \* Params.TokenDenom
    pool,         \* RewardPool.CommunityPool
    schedule,     \* ReleaseSchedule
    bank,         \* the balances x/bank keeps
    halted        \* why BeginBlocker failed, which stops the chain; or "no"

vars == <<time, tokenDenom, pool, schedule, bank, halted>>

Accounts == {"depositor", "rewards", "fee_collector"}

ZeroTime == 0     \* time.Time{}; every block time is later

Amounts == 0 .. MaxAmount

Schedules ==
    [denom : Denoms, total : Amounts, released : Amounts,
     endTime : EndTimes, lastReleaseTime : LastTimes,
     active : BOOLEAN]

InitialReleaseSchedule ==
    [denom |-> NoDenom, total |-> 0, released |-> 0, endTime |-> ZeroTime,
     lastReleaseTime |-> ZeroTime, active |-> FALSE]

(* bank keeper: move n coins of d; the senders check the balance first *)
Send(from, to, d, n) ==
    [bank EXCEPT ![from][d] = @ - n, ![to][d] = @ + n]

-----------------------------------------------------------------------------
(* types/reward.go *)

(* int64(duration.Seconds()) *)
Seconds(ticks) == TruncDiv(ticks, TicksPerSecond)

Remaining(s) == s.total - s.released

(* CalculateReward returns an error when EndTime equals LastReleaseTime,   *)
(* and Quo panics when the duration has no whole second.                   *)
CalculateRewardFails(s) ==
    /\ Remaining(s) # 0
    /\ Seconds(s.endTime - s.lastReleaseTime) = 0

MaxInt(a, b) == IF a < b THEN b ELSE a
MinInt(a, b) == IF a < b THEN a ELSE b

(* mutant: the last second that elapsed is not counted *)
LinearShareOneBehind(blockTime, s) ==
    LET elapsed  == Seconds(blockTime - s.lastReleaseTime) - 1
        duration == Seconds(s.endTime - s.lastReleaseTime)
    IN  TruncateInt(Mul(DecFromInt(Remaining(s)),
                        Quo(DecFromInt(elapsed), DecFromInt(duration))))

(* mutant: the share that is left is released *)
LinearShareLeft(blockTime, s) ==
    LET left     == Seconds(s.endTime - blockTime)
        duration == Seconds(s.endTime - s.lastReleaseTime)
    IN  TruncateInt(Mul(DecFromInt(Remaining(s)),
                        Quo(DecFromInt(left), DecFromInt(duration))))

(* The share of the remaining amount the elapsed whole seconds are of the  *)
(* whole seconds left, truncated to coins; at least one coin, at most all. *)
LinearShare(blockTime, s) ==
    LET elapsed    == Seconds(blockTime - s.lastReleaseTime)
        duration   == Seconds(s.endTime - s.lastReleaseTime)
        proportion == Quo(DecFromInt(elapsed), DecFromInt(duration))
    IN  TruncateInt(Mul(DecFromInt(Remaining(s)), proportion))

(* mutant: no cap at the remaining amount *)
CalculateRewardUncapped(blockTime, s) ==
    IF Remaining(s) = 0 THEN 0 ELSE MaxInt(LinearShare(blockTime, s), 1)

(* mutant: no minimum of one coin *)
CalculateRewardNoMinimum(blockTime, s) ==
    IF Remaining(s) = 0 THEN 0 ELSE MinInt(LinearShare(blockTime, s), Remaining(s))

CalculateReward(blockTime, s) ==
    IF Remaining(s) = 0
    THEN 0
    ELSE MinInt(MaxInt(LinearShare(blockTime, s), 1), Remaining(s))

-----------------------------------------------------------------------------
(* Messages.  A message that fails its checks is rolled back and changes   *)
(* nothing, so it is not a step.                                           *)

(* mutant: the depositor's balance is not checked *)
FundCommunityPoolUnchecked(d, n) ==
    /\ n > 0
    /\ bank' = Send("depositor", "rewards", d, n)
    /\ pool' = [pool EXCEPT ![d] = @ + n]

(* FundCommunityPool: the bank moves the coins, then the pool counts them *)
FundCommunityPool(d, n) ==
    /\ n > 0                            \* the bank refuses an empty coin
    /\ bank["depositor"][d] >= n
    /\ bank' = Send("depositor", "rewards", d, n)
    /\ pool' = [pool EXCEPT ![d] = @ + n]

(* FundPool: anyone sends coins of the module's denomination to the pool.  *)
FundPool(d, n) ==
    /\ halted = "no"
    /\ d = tokenDenom
    /\ FundCommunityPool(d, n)
    /\ UNCHANGED <<time, tokenDenom, schedule, halted>>

(* validateSchedule, evaluated when the node's wall clock shows now *)
ValidSchedule(s, now) ==
    /\ s.denom = tokenDenom
    /\ s.released <= s.total
    /\ s.endTime # ZeroTime
    /\ s.endTime >= now
    /\ s.lastReleaseTime # ZeroTime =>
         /\ s.lastReleaseTime <= now
         /\ s.lastReleaseTime <= s.endTime
    /\ s.active => s.total # 0

(* mutant: the amount is looked for in any denomination *)
FundsAvailableAnyDenom(s) == \E d \in Denoms : s.total <= pool[d]

FundsAvailable(s) == s.total <= pool[s.denom]

(* ChangeSchedule: governance replaces the schedule *)
ChangeSchedule(s) ==
    /\ halted = "no"
    /\ \E now \in time .. time + MaxLead : ValidSchedule(s, now)
    /\ FundsAvailable(s)
    /\ schedule' = s
    /\ UNCHANGED <<time, tokenDenom, pool, bank, halted>>

(* UpdateParams: governance changes the denomination of the module *)
UpdateParams(d) ==
    /\ halted = "no"
    /\ tokenDenom' = d
    /\ UNCHANGED <<time, pool, schedule, bank, halted>>

-----------------------------------------------------------------------------
(* BeginBlocker, one disjunct per way through it.  Block times increase.   *)

NextTimes == IF time < Horizon THEN time + 1 .. Horizon ELSE {Horizon}

(* the schedule makes a release of this block's reward *)
Releasing ==
    /\ schedule.active
    /\ schedule.total # 0
    /\ schedule.lastReleaseTime # ZeroTime

(* the bank cannot pay the reward, or the pool would become negative *)
Insolvent(reward) ==
    \/ bank["rewards"][schedule.denom] < reward
    \/ pool[schedule.denom] < reward

BeginIdle(t) ==
    /\ halted = "no"
    /\ time' = t
    /\ ~(schedule.active /\ schedule.total # 0)
    /\ UNCHANGED <<tokenDenom, pool, schedule, bank, halted>>

BeginFirst(t) ==
    /\ halted = "no"
    /\ time' = t
    /\ schedule.active /\ schedule.total # 0
    /\ schedule.lastReleaseTime = ZeroTime
    /\ schedule' = [schedule EXCEPT !.lastReleaseTime = t]
    /\ UNCHANGED <<tokenDenom, pool, bank, halted>>

(* mutant: the schedule is not switched off *)
BeginFinishStaysActive(t) ==
    /\ halted = "no"
    /\ time' = t
    /\ Releasing
    /\ ~CalculateRewardFails(schedule)
    /\ CalculateReward(t, schedule) = 0
    /\ UNCHANGED <<tokenDenom, pool, schedule, bank, halted>>

BeginFinish(t) ==
    /\ halted = "no"
    /\ time' = t
    /\ Releasing
    /\ ~CalculateRewardFails(schedule)
    /\ CalculateReward(t, schedule) = 0
    /\ schedule' = [schedule EXCEPT !.active = FALSE]
    /\ UNCHANGED <<tokenDenom, pool, bank, halted>>

(* mutant: the reward is not deducted from the pool *)
BeginReleaseKeepsPool(t) ==
    LET reward == CalculateReward(t, schedule)
    IN  /\ halted = "no"
        /\ time' = t
        /\ Releasing
        /\ ~CalculateRewardFails(schedule)
        /\ reward # 0
        /\ ~Insolvent(reward)
        /\ bank' = Send("rewards", "fee_collector", schedule.denom, reward)
        /\ schedule' = [schedule EXCEPT !.lastReleaseTime = t,
                                        !.released = @ + reward]
        /\ UNCHANGED <<tokenDenom, pool, halted>>

BeginRelease(t) ==
    LET reward == CalculateReward(t, schedule)
        d      == schedule.denom
    IN  /\ halted = "no"
        /\ time' = t
        /\ Releasing
        /\ ~CalculateRewardFails(schedule)
        /\ reward # 0
        /\ ~Insolvent(reward)
        /\ bank' = Send("rewards", "fee_collector", d, reward)
        /\ pool' = [pool EXCEPT ![d] = @ - reward]
        /\ schedule' = [schedule EXCEPT !.lastReleaseTime = t,
                                        !.released = @ + reward]
        /\ UNCHANGED <<tokenDenom, halted>>

(* an error or a panic in BeginBlocker: the block is never committed *)
FailureOf(t) ==
    IF CalculateRewardFails(schedule) THEN "calculation"
    ELSE IF Insolvent(CalculateReward(t, schedule)) THEN "insolvent"
    ELSE "no"

BeginHalt(t) ==
    /\ halted = "no"
    /\ UNCHANGED <<time, tokenDenom, pool, schedule, bank>>
    /\ Releasing
    /\ FailureOf(t) # "no"
    /\ halted' = FailureOf(t)

BeginBlocker ==
    \E t \in NextTimes :
        \/ BeginIdle(t)
        \/ BeginFirst(t)
        \/ BeginFinish(t)
        \/ BeginRelease(t)
        \/ BeginHalt(t)

-----------------------------------------------------------------------------
Init ==
    /\ time = 1
    /\ tokenDenom \in Denoms
    /\ pool = [d \in Denoms |-> 0]
    /\ schedule = InitialReleaseSchedule
    /\ bank = [a \in Accounts |->
                 [d \in Denoms |-> IF a = "depositor" THEN Supply ELSE 0]]
    /\ halted = "no"

Next ==
    \/ \E d \in Denoms, n \in Amounts : FundPool(d, n)
    \/ \E s \in Schedules : ChangeSchedule(s)
    \/ \E d \in Denoms : UpdateParams(d)
    \/ BeginBlocker

(* Consensus keeps producing blocks: fairness of BeginBlocker alone. *)
Spec == Init /\ [][Next]_vars /\ WF_vars(BeginBlocker)
-----------------------------------------------------------------------------
(* The types of the variables: keeper.go's three collections, the bank and *)
(* the clock.                                                              *)
TypeOK ==
    /\ time \in 1 .. Horizon
    /\ tokenDenom \in Denoms
    /\ pool \in [Denoms -> Nat]
    /\ schedule \in [denom : Denoms \cup {NoDenom}, total : Nat,
                     released : Nat, endTime : Nat,
                     lastReleaseTime : Nat, active : BOOLEAN]
    /\ bank \in [Accounts -> [Denoms -> Nat]]
    /\ halted \in {"no", "calculation", "insolvent"}

(* The pool is a second ledger of the module account's coins, written by   *)
(* FundCommunityPool and by BeginBlocker next to the bank's own: the two   *)
(* never disagree, whatever the order of messages, blocks and changes of   *)
(* the denomination.                                                       *)
PoolBacked == \A d \in Denoms : pool[d] = bank["rewards"][d]

(* fundsAvailable is checked once, when the schedule is set.  What an      *)
(* active schedule still owes stays covered by the pool, in the schedule's *)
(* own denomination, until it is released, although UpdateParams may have  *)
(* changed the module's denomination since.                                *)
ScheduleFunded ==
    schedule.active =>
        /\ schedule.denom \in Denoms
        /\ schedule.released <= schedule.total
        /\ Remaining(schedule) <= pool[schedule.denom]

(* BeginBlocker never stops the chain for want of funds: neither           *)
(* SendCoinsFromModuleToModule nor the subtraction from the pool fails.    *)
NeverInsolvent == halted # "insolvent"

(* BeginBlocker switches a schedule off because there is nothing to        *)
(* distribute in this block: that is only so when all of it was released,  *)
(* never because a block came too soon after the last one.                 *)
FinishedMeansPaid ==
    [][(\E t \in NextTimes : BeginFinish(t)) => Remaining(schedule) = 0]_vars

(* The last iteration: when a release happens at or after the end time,    *)
(* and the previous one was at least a second before it, nothing remains,  *)
(* in spite of the truncation to seconds and the rounding of the share.    *)
EndReleasesAll ==
    [][\A t \in NextTimes :
         /\ BeginRelease(t)
         /\ t >= schedule.endTime
         /\ schedule.endTime - schedule.lastReleaseTime >= TicksPerSecond
         => Remaining(schedule') = 0]_vars

(* The proportion is rounded to half a raw unit, after a digit that is     *)
(* truncated; each of the remaining coins may lose as much.                *)
ShareError(remaining) == (remaining * (Prec + 2)) \div (2 * Prec * Prec)

(* The decimal arithmetic of CalculateReward stays within one coin and the *)
(* error of the proportion of the exact share, between nothing and all, of *)
(* a schedule whose last release is before its end: floor(remaining *      *)
(* elapsed / duration).  The block may even be before the last release,    *)
(* which the wall clock of a node was compared with.                       *)
NearExactShare ==
    [][\A t \in NextTimes :
         /\ BeginRelease(t)
         /\ schedule.lastReleaseTime < schedule.endTime
         => LET elapsed  == Seconds(t - schedule.lastReleaseTime)
                duration == Seconds(schedule.endTime - schedule.lastReleaseTime)
                exact    == TruncDiv(Remaining(schedule) * elapsed, duration)
                paid     == schedule'.released - schedule.released
            IN  Abs(MaxInt(0, MinInt(exact, Remaining(schedule))) - paid)
                   <= 1 + ShareError(Remaining(schedule))]_vars

(* a step that changes the schedule and is no BeginBlocker: ChangeSchedule *)
GovernanceStep == schedule' # schedule /\ ~BeginBlocker

(* Once governance leaves the schedule alone, every active schedule        *)
(* becomes inactive (or the chain halts in CalculateReward): the minimum   *)
(* of one coin per block makes even a schedule whose end time passed       *)
(* before its first iteration drain.                                       *)
ScheduleDrains ==
    <>[][~GovernanceStep]_vars
        => (schedule.active ~> (~schedule.active \/ halted = "calculation"))

(* reward.go:21 guards the division because "If total duration would be 0, *)
(* there would be a div by 0": the calculation never stops the chain.      *)
CalculationNeverHalts == halted # "calculation"

(* README: "Once the EndTime is passed, all the remaining reward will be   *)
(* distributed": a release after the end time leaves nothing.              *)
PastEndReleasesAll ==
    [][\A t \in NextTimes :
         BeginRelease(t) /\ t > schedule.endTime
         => Remaining(schedule') = 0]_vars
=============================================================================
