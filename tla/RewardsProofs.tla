--------------------------- MODULE RewardsProofs ---------------------------
(***************************************************************************)
(* Proofs about Rewards: the ledgers of the module agree and an active     *)
(* schedule is always covered, so that BeginBlocker never lacks the coins  *)
(* it sends; and its arithmetic releases the share it should, all of it at *)
(* the end; for every supply, horizon, resolution and precision.           *)
(***************************************************************************)
EXTENDS Rewards, DecLemmas, TLAPS

(* The inductive invariant: NeverInsolvent is the property of interest,    *)
(* ScheduleFunded and PoolBacked are what BeginRelease needs to preserve   *)
(* it (the reward is at most what remains, which the pool and hence the    *)
(* module account hold).                                                   *)
IInv == TypeOK /\ PoolBacked /\ ScheduleFunded /\ NeverInsolvent

-----------------------------------------------------------------------------
(* The reward of a block *)

(* CalculateReward's share is an integer when the duration has a second. *)
LEMMA LinearShareInt ==
    ASSUME NEW t \in Int, NEW s,
           s.total \in Int, s.released \in Int,
           s.endTime \in Int, s.lastReleaseTime \in Int,
           Seconds(s.endTime - s.lastReleaseTime) # 0
    PROVE  LinearShare(t, s) \in Int
<1> DEFINE elapsed    == Seconds(t - s.lastReleaseTime)
           duration   == Seconds(s.endTime - s.lastReleaseTime)
           proportion == Quo(DecFromInt(elapsed), DecFromInt(duration))
<1>1. elapsed \in Int /\ duration \in Int \ {0}
  <2>1. t - s.lastReleaseTime \in Int /\ s.endTime - s.lastReleaseTime \in Int
    OBVIOUS
  <2>2. TicksPerSecond \in Int \ {0}  BY RewardsAssumption
  <2>. QED  BY <2>1, <2>2, TruncDivInt DEF Seconds
<1>2. DecFromInt(elapsed) \in Int /\ DecFromInt(duration) \in Int \ {0}
  <2>. HIDE DEF elapsed, duration
  <2>1. DecFromInt(elapsed) \in Int  BY <1>1, PrecAssumption DEF DecFromInt
  <2>. QED  BY <1>1, <2>1, DecFromIntNonZero
<1>3. proportion \in Int
  <2>1. DecFromInt(elapsed) * Prec * Prec \in Int
    <3>. HIDE DEF elapsed
    <3>. QED  BY <1>2, PrecAssumption
  <2>2. TruncDiv(DecFromInt(elapsed) * Prec * Prec, DecFromInt(duration)) \in Int
    <3>. HIDE DEF elapsed, duration
    <3>. QED  BY <1>2, <2>1, TruncDivInt
  <2>. QED  BY <2>2, ChopRoundInt DEF Quo
<1>4. Remaining(s) \in Int  BY DEF Remaining
<1>5. DecFromInt(Remaining(s)) * proportion \in Int
  <2>. HIDE DEF proportion
  <2>1. DecFromInt(Remaining(s)) \in Int  BY <1>4, PrecAssumption DEF DecFromInt
  <2>. QED  BY <1>3, <2>1
<1>6. Mul(DecFromInt(Remaining(s)), proportion) \in Int
  <2>. HIDE DEF proportion
  <2>. QED  BY <1>5, ChopRoundInt DEF Mul
<1>7. TruncateInt(Mul(DecFromInt(Remaining(s)), proportion)) \in Int
  <2>. HIDE DEF proportion
  <2>. QED  BY <1>6, TruncDivInt, PrecAssumption DEF TruncateInt
<1>. QED  BY <1>7 DEF LinearShare

(* CalculateReward returns nothing when nothing remains, and otherwise     *)
(* between one coin and all that remains.                                  *)
LEMMA RewardBounds ==
    ASSUME NEW t \in Int, NEW s,
           s.total \in Nat, s.released \in Nat, s.released <= s.total,
           s.endTime \in Int, s.lastReleaseTime \in Int,
           ~CalculateRewardFails(s)
    PROVE  /\ CalculateReward(t, s) \in Nat
           /\ CalculateReward(t, s) <= Remaining(s)
<1>1. Remaining(s) \in Nat  BY DEF Remaining
<1>2. CASE Remaining(s) = 0
  BY <1>2 DEF CalculateReward
<1>3. CASE Remaining(s) # 0
  <2>1. Seconds(s.endTime - s.lastReleaseTime) # 0
    BY <1>3 DEF CalculateRewardFails
  <2>2. LinearShare(t, s) \in Int
    BY <2>1, LinearShareInt
  <2>. QED  BY <1>1, <1>3, <2>2 DEF CalculateReward, MaxInt, MinInt
<1>. QED  BY <1>2, <1>3

-----------------------------------------------------------------------------
(* Every step preserves the inductive invariant. *)

(* Funding the pool: both ledgers grow by the same amount. *)
LEMMA FundPoolKeeps ==
    ASSUME IInv, NEW d \in Denoms, NEW n \in Amounts, FundPool(d, n)
    PROVE  IInv'
<1>. USE DEF IInv, TypeOK, FundPool, FundCommunityPool
<1>1. n \in Nat  BY RewardsAssumption DEF Amounts
<1>2. /\ bank["depositor"][d] \in Nat /\ bank["rewards"][d] \in Nat
      /\ bank["depositor"][d] - n \in Nat
  BY <1>1 DEF Accounts
<1>3. bank' \in [Accounts -> [Denoms -> Nat]]
  BY <1>1, <1>2 DEF Send, Accounts
<1>4. pool' \in [Denoms -> Nat]  BY <1>1
<1>5. TypeOK'  BY <1>3, <1>4
<1>6. PoolBacked'
  BY <1>1, <1>2, <1>4 DEF PoolBacked, Send, Accounts
<1>7. ScheduleFunded'
  BY <1>1, <1>4 DEF ScheduleFunded, Remaining
<1>8. NeverInsolvent'  BY DEF NeverInsolvent
<1>. QED  BY <1>5, <1>6, <1>7, <1>8

(* A new schedule is covered by the pool when it is set. *)
LEMMA ChangeScheduleKeeps ==
    ASSUME IInv, NEW s \in Schedules, ChangeSchedule(s)
    PROVE  IInv'
<1>. USE DEF IInv, ChangeSchedule
<1>1. /\ s \in [denom : Denoms \cup {NoDenom}, total : Nat,
                released : Nat, endTime : Nat,
                lastReleaseTime : Nat, active : BOOLEAN]
      /\ s.denom \in Denoms /\ s.total \in Nat /\ s.released \in Nat
  <2>1. /\ Amounts \subseteq Nat /\ EndTimes \subseteq Nat
        /\ LastTimes \subseteq Nat
    BY RewardsAssumption DEF Amounts
  <2>. QED  BY <2>1 DEF Schedules
<1>2. s.released <= s.total /\ s.total <= pool[s.denom]
  BY DEF ValidSchedule, FundsAvailable
<1>3. pool[s.denom] \in Nat  BY <1>1 DEF TypeOK
<1>4. TypeOK'  BY <1>1 DEF TypeOK
<1>5. ScheduleFunded'  BY <1>1, <1>2, <1>3 DEF ScheduleFunded, Remaining
<1>. QED  BY <1>4, <1>5 DEF PoolBacked, NeverInsolvent

(* Changing the denomination leaves the schedule with its own. *)
LEMMA UpdateParamsKeeps ==
    ASSUME IInv, NEW d \in Denoms, UpdateParams(d)
    PROVE  IInv'
BY DEF IInv, TypeOK, PoolBacked, ScheduleFunded, NeverInsolvent, UpdateParams,
       Remaining

(* The next block time is a tick of the clock. *)
LEMMA NextTimesType ==
    ASSUME TypeOK, NEW t \in NextTimes
    PROVE  t \in 1 .. Horizon
BY RewardsAssumption DEF TypeOK, NextTimes

(* A release moves the same amount out of both ledgers and into released, *)
(* so what remains shrinks with the pool.                                  *)
LEMMA BeginReleaseKeeps ==
    ASSUME IInv, NEW t \in NextTimes, BeginRelease(t)
    PROVE  IInv'
<1> DEFINE reward == CalculateReward(t, schedule)
           d      == schedule.denom
<1>1. t \in 1 .. Horizon  BY NextTimesType DEF IInv
<1>2. /\ schedule.total \in Nat /\ schedule.released \in Nat
      /\ schedule.endTime \in Nat /\ schedule.lastReleaseTime \in Nat
  BY DEF IInv, TypeOK
<1>3. /\ schedule.active /\ d \in Denoms
      /\ schedule.released <= schedule.total
      /\ Remaining(schedule) <= pool[d]
  BY DEF IInv, ScheduleFunded, BeginRelease, Releasing
<1>4. reward \in Nat /\ reward <= Remaining(schedule)
  <2>1. ~CalculateRewardFails(schedule)  BY DEF BeginRelease
  <2>2. t \in Int  BY <1>1, RewardsAssumption
  <2>. QED  BY <1>2, <1>3, <2>1, <2>2, RewardBounds
<1>. HIDE DEF reward
<1>5. /\ pool[d] \in Nat /\ bank["rewards"][d] = pool[d]
      /\ bank["fee_collector"][d] \in Nat
  BY <1>3 DEF IInv, TypeOK, PoolBacked, Accounts
<1>6. pool[d] - reward \in Nat  BY <1>2, <1>3, <1>4, <1>5 DEF Remaining
<1>7. /\ bank' = Send("rewards", "fee_collector", d, reward)
      /\ pool' = [pool EXCEPT ![d] = @ - reward]
      /\ time' = t
      /\ schedule' = [schedule EXCEPT !.lastReleaseTime = t,
                                      !.released = @ + reward]
      /\ tokenDenom' = tokenDenom /\ halted' = halted
  BY DEF BeginRelease, reward
<1>8. bank' \in [Accounts -> [Denoms -> Nat]]
  BY <1>3, <1>4, <1>5, <1>6, <1>7 DEF IInv, TypeOK, Send, Accounts
<1>9. pool' \in [Denoms -> Nat]
  BY <1>6, <1>7 DEF IInv, TypeOK
<1>10. schedule' \in [denom : Denoms \cup {NoDenom}, total : Nat,
                      released : Nat, endTime : Nat,
                      lastReleaseTime : Nat, active : BOOLEAN]
  <2>1. t \in Nat /\ schedule.released + reward \in Nat
    BY <1>1, <1>2, <1>4, RewardsAssumption
  <2>2. schedule \in [denom : Denoms \cup {NoDenom}, total : Nat,
                      released : Nat, endTime : Nat,
                      lastReleaseTime : Nat, active : BOOLEAN]
    BY DEF IInv, TypeOK
  <2>. QED  BY <1>7, <2>1, <2>2
<1>11. TypeOK'
  BY <1>1, <1>7, <1>8, <1>9, <1>10 DEF IInv, TypeOK
<1>12. PoolBacked'
  BY <1>3, <1>5, <1>7, <1>9 DEF IInv, TypeOK, PoolBacked, Send, Accounts
<1>13. ScheduleFunded'
  <2>1. /\ schedule'.denom = d /\ schedule'.total = schedule.total
        /\ schedule'.released = schedule.released + reward
    BY <1>7 DEF IInv, TypeOK
  <2>2. pool'[d] = pool[d] - reward  BY <1>3, <1>7 DEF IInv, TypeOK
  <2>. QED
    BY <1>2, <1>3, <1>4, <1>5, <2>1, <2>2 DEF ScheduleFunded, Remaining
<1>14. NeverInsolvent'  BY <1>7 DEF IInv, NeverInsolvent
<1>. QED  BY <1>11, <1>12, <1>13, <1>14 DEF IInv

(* The steps of BeginBlocker that move no coins. *)
LEMMA BeginOtherKeeps ==
    ASSUME IInv, NEW t \in NextTimes,
           BeginIdle(t) \/ BeginFirst(t) \/ BeginFinish(t)
    PROVE  IInv'
<1>1. t \in 1 .. Horizon /\ t \in Nat
  BY NextTimesType, RewardsAssumption DEF IInv
<1>2. CASE BeginIdle(t)
  BY <1>1, <1>2 DEF IInv, TypeOK, PoolBacked, ScheduleFunded, NeverInsolvent,
                    BeginIdle, Remaining
<1>3. CASE BeginFirst(t)
  BY <1>1, <1>3 DEF IInv, TypeOK, PoolBacked, ScheduleFunded, NeverInsolvent,
                    BeginFirst, Remaining
<1>4. CASE BeginFinish(t)
  BY <1>1, <1>4 DEF IInv, TypeOK, PoolBacked, ScheduleFunded, NeverInsolvent,
                    BeginFinish, Remaining
<1>. QED  BY <1>2, <1>3, <1>4

(* The chain only halts in the calculation: the funds are always there. *)
LEMMA BeginHaltKeeps ==
    ASSUME IInv, NEW t \in NextTimes, BeginHalt(t)
    PROVE  IInv'
<1>1. halted' = "calculation"
  <2>. SUFFICES ASSUME ~CalculateRewardFails(schedule) PROVE FALSE
    BY DEF BeginHalt, FailureOf
  <2>1. t \in Int  BY NextTimesType, RewardsAssumption DEF IInv
  <2>2. /\ schedule.total \in Nat /\ schedule.released \in Nat
        /\ schedule.endTime \in Nat /\ schedule.lastReleaseTime \in Nat
    BY DEF IInv, TypeOK
  <2>3. /\ schedule.denom \in Denoms
        /\ schedule.released <= schedule.total
        /\ Remaining(schedule) <= pool[schedule.denom]
    BY DEF IInv, ScheduleFunded, BeginHalt, Releasing
  <2>4. /\ CalculateReward(t, schedule) \in Nat
        /\ CalculateReward(t, schedule) <= Remaining(schedule)
    BY <2>1, <2>2, <2>3, RewardBounds
  <2>5. /\ pool[schedule.denom] \in Nat
        /\ bank["rewards"][schedule.denom] = pool[schedule.denom]
    BY <2>3 DEF IInv, TypeOK, PoolBacked
  <2>6. ~Insolvent(CalculateReward(t, schedule))
    BY <2>2, <2>3, <2>4, <2>5 DEF Insolvent, Remaining
  <2>. QED  BY <2>6 DEF BeginHalt, FailureOf
<1>. QED
  BY <1>1 DEF IInv, TypeOK, PoolBacked, ScheduleFunded, NeverInsolvent,
              BeginHalt, Remaining

(* The invariant is inductive: it holds initially and every step keeps it. *)
THEOREM Inductive == Spec => []IInv
<1>1. Init => IInv
  BY RewardsAssumption DEF Init, IInv, TypeOK, PoolBacked, ScheduleFunded,
     NeverInsolvent, InitialReleaseSchedule, Accounts, ZeroTime
<1>2. IInv /\ [Next]_vars => IInv'
  <2>. SUFFICES ASSUME IInv, [Next]_vars PROVE IInv'
    OBVIOUS
  <2>1. CASE \E d \in Denoms, n \in Amounts : FundPool(d, n)
    BY <2>1, FundPoolKeeps
  <2>2. CASE \E s \in Schedules : ChangeSchedule(s)
    BY <2>2, ChangeScheduleKeeps
  <2>3. CASE \E d \in Denoms : UpdateParams(d)
    BY <2>3, UpdateParamsKeeps
  <2>4. CASE BeginBlocker
    BY <2>4, BeginReleaseKeeps, BeginOtherKeeps, BeginHaltKeeps DEF BeginBlocker
  <2>5. CASE UNCHANGED vars
    BY <2>5 DEF vars, IInv, TypeOK, PoolBacked, ScheduleFunded, NeverInsolvent,
                Remaining
  <2>. QED  BY <2>1, <2>2, <2>3, <2>4, <2>5 DEF Next
<1>. QED  BY <1>1, <1>2, PTL DEF Spec

(* The variables keep their types. *)
THEOREM TypeCorrect == Spec => []TypeOK
BY Inductive, PTL DEF IInv

(* The pool and the module account always hold the same coins. *)
THEOREM LedgersAgree == Spec => []PoolBacked
BY Inductive, PTL DEF IInv

(* What an active schedule still owes is always in the pool. *)
THEOREM AlwaysFunded == Spec => []ScheduleFunded
BY Inductive, PTL DEF IInv

(* BeginBlocker never stops the chain for want of funds. *)
THEOREM Solvency == Spec => []NeverInsolvent
BY Inductive, PTL DEF IInv

(* A reward of zero means that nothing remains. *)
LEMMA ZeroRewardMeansPaid ==
    ASSUME NEW t \in Int, NEW s,
           s.total \in Nat, s.released \in Nat, s.released <= s.total,
           s.endTime \in Int, s.lastReleaseTime \in Int,
           ~CalculateRewardFails(s), CalculateReward(t, s) = 0
    PROVE  Remaining(s) = 0
<1>. SUFFICES ASSUME Remaining(s) # 0 PROVE FALSE  OBVIOUS
<1>1. Remaining(s) \in Nat  BY DEF Remaining
<1>2. Seconds(s.endTime - s.lastReleaseTime) # 0  BY DEF CalculateRewardFails
<1>3. LinearShare(t, s) \in Int  BY <1>1, <1>2, LinearShareInt
<1>. QED  BY <1>1, <1>3 DEF CalculateReward, MaxInt, MinInt

(* A schedule is only switched off by BeginBlocker when it is paid out. *)
THEOREM OffMeansPaid == Spec => FinishedMeansPaid
<1>1. IInv => ((\E t \in NextTimes : BeginFinish(t)) => Remaining(schedule) = 0)
  <2>. SUFFICES ASSUME IInv, NEW t \in NextTimes, BeginFinish(t)
                PROVE  Remaining(schedule) = 0
    OBVIOUS
  <2>1. t \in Int  BY NextTimesType, RewardsAssumption DEF IInv
  <2>2. /\ schedule.total \in Nat /\ schedule.released \in Nat
        /\ schedule.endTime \in Int /\ schedule.lastReleaseTime \in Int
    BY DEF IInv, TypeOK
  <2>3. schedule.released <= schedule.total
    BY DEF IInv, ScheduleFunded, BeginFinish, Releasing
  <2>4. ~CalculateRewardFails(schedule) /\ CalculateReward(t, schedule) = 0
    BY DEF BeginFinish
  <2>. QED  BY <2>1, <2>2, <2>3, <2>4, ZeroRewardMeansPaid
<1>. QED  BY <1>1, Inductive, PTL DEF FinishedMeansPaid

-----------------------------------------------------------------------------
(* How much is released *)

(* The proportion p of e elapsed seconds of d, with x the quotient that is *)
(* rounded, and the share s of r coins: multiplied up to a common scale,   *)
(* the share is within the error of the exact one.                         *)
LEMMA ShareChain ==
    ASSUME NEW P \in Nat, NEW d \in Nat, NEW e \in Nat, NEW r \in Nat,
           NEW x \in Nat, NEW p \in Nat, NEW s \in Nat,
           d * x <= e * (P * P), e * (P * P) <= d * x + d,
           2 * (P * p) <= 2 * x + P, 2 * x <= 2 * (P * p) + P,
           P * s <= r * p, r * p <= P * s + P
    PROVE  LET n == 2 * P * P
           IN  /\ (n * d) * s <= n * (r * e) + r * P * d
               /\ n * (r * e) <= (n * d) * (s + 1) + r * (P + 2) * d
<1> DEFINE k1 == 2 * P * d
           k2 == r * d
           k3 == 2 * r
           ls == k1 * (P * s)
           bp == k1 * (r * p)
           cx == k2 * (2 * x)
           de == k3 * (e * (P * P))
           e1 == k1 * P
           e2 == k2 * P
           e3 == k3 * d
<1>1. k1 \in Nat /\ k2 \in Nat /\ k3 \in Nat
  OBVIOUS
<1>2. ls <= bp /\ bp <= k1 * (P * s + P)
  <2>1. P * s \in Int /\ r * p \in Int /\ P * s + P \in Int
    OBVIOUS
  <2> HIDE DEF k1
  <2> QED  BY <1>1, <2>1, MulMonotone
<1>3. k2 * (2 * (P * p)) <= k2 * (2 * x + P) /\ cx <= k2 * (2 * (P * p) + P)
  <2>1. 2 * (P * p) \in Int /\ 2 * x + P \in Int /\ 2 * x \in Int
          /\ 2 * (P * p) + P \in Int
    OBVIOUS
  <2> HIDE DEF k2
  <2> QED  BY <1>1, <2>1, MulMonotone
<1>4. k3 * (d * x) <= de /\ de <= k3 * (d * x + d)
  <2>1. d * x \in Int /\ d * x + d \in Int /\ e * (P * P) \in Int
    OBVIOUS
  <2> HIDE DEF k3
  <2> QED  BY <1>1, <2>1, MulMonotone
<1>5. /\ k1 * (P * s + P) = ls + e1
      /\ k2 * (2 * (P * p)) = bp /\ k2 * (2 * x + P) = cx + e2
      /\ k2 * (2 * (P * p) + P) = bp + e2
      /\ k3 * (d * x) = cx /\ k3 * (d * x + d) = cx + e3
  OBVIOUS
<1>6. /\ ls \in Int /\ bp \in Int /\ cx \in Int /\ de \in Int
      /\ e1 \in Int /\ e2 \in Int /\ e3 \in Int
  OBVIOUS
<1>7. ls <= de + e2 /\ de <= ls + e1 + e2 + e3
  <2>1. ls <= bp /\ bp <= ls + e1 /\ bp <= cx + e2 /\ cx <= bp + e2
          /\ cx <= de /\ de <= cx + e3
    BY <1>2, <1>3, <1>4, <1>5
  <2> HIDE DEF ls, bp, cx, de, e1, e2, e3
  <2>2. ls <= de + e2
    BY <1>6, <2>1
  <2>3. de <= ls + e1 + e2 + e3
    <3>1. PICK z \in Int : z = ls + e1
      BY <1>6
    <3>2. cx <= z + e2
      BY <1>6, <2>1, <3>1
    <3>3. de <= z + e2 + e3
      BY <1>6, <2>1, <3>1, <3>2
    <3> QED  BY <3>1, <3>3
  <2> QED  BY <2>2, <2>3
<1>8. /\ (2 * P * P * d) * s = ls /\ (2 * P * P) * (r * e) = de
      /\ r * P * d = e2
      /\ (2 * P * P * d) * (s + 1) + r * (P + 2) * d = ls + e1 + e2 + e3
  OBVIOUS
<1> QED  BY <1>7, <1>8

(* The share of a block that is not before the last release *)
LEMMA ShareNear ==
    ASSUME NEW t \in Int, NEW s,
           Remaining(s) \in Nat,
           Seconds(t - s.lastReleaseTime) \in Nat,
           Seconds(s.endTime - s.lastReleaseTime) \in Nat \ {0}
    PROVE  LET elapsed  == Seconds(t - s.lastReleaseTime)
               duration == Seconds(s.endTime - s.lastReleaseTime)
               exact    == TruncDiv(Remaining(s) * elapsed, duration)
               share    == LinearShare(t, s)
           IN  /\ share \in Nat /\ exact \in Nat
               /\ share <= exact + 1 + ShareError(Remaining(s))
               /\ exact <= share + 1 + ShareError(Remaining(s))
               /\ elapsed >= duration => share >= Remaining(s) /\ exact >= Remaining(s)
<1> DEFINE P == Prec
           e == Seconds(t - s.lastReleaseTime)
           d == Seconds(s.endTime - s.lastReleaseTime)
           r == Remaining(s)
           x == TruncDiv(DecFromInt(e) * Prec * Prec, DecFromInt(d))
           p == ChopRound(x)
           share == LinearShare(t, s)
           exact == TruncDiv(r * e, d)
<1>1. P \in Nat \ {0} /\ e \in Nat /\ d \in Nat \ {0} /\ r \in Nat
  BY PrecAssumption
<1>2. share = TruncDiv(ChopRound((r * P) * p), P)
  BY DEF LinearShare, TruncateInt, Mul, Quo, DecFromInt
<1> HIDE DEF e, d, r, share
<1>3. x \in Nat /\ d * x <= e * (P * P) /\ e * (P * P) < d * x + d
  <2> DEFINE a == e * P * P * P
             b == d * P
  <2>1. a \in Nat /\ b \in Nat \ {0} /\ x = TruncDiv(a, b)
    BY <1>1 DEF DecFromInt
  <2> HIDE DEF x, a, b
  <2>2. x \in Nat /\ b * x <= a /\ a < b * x + b
    BY <2>1, TruncDivNat
  <2>3. d * x \in Int /\ d * x + d \in Int /\ e * (P * P) \in Int
    BY <1>1, <2>2
  <2>4. P * (d * x) = b * x /\ P * (e * (P * P)) = a /\ P * (d * x + d) = b * x + b
    BY <1>1, <2>2 DEF a, b
  <2>5. d * x <= e * (P * P)
    BY <1>1, <2>2, <2>3, <2>4, MulCancel
  <2>6. e * (P * P) < d * x + d
    <3>1. SUFFICES ASSUME d * x + d <= e * (P * P)
                   PROVE  FALSE
      BY <2>3
    <3>2. P * (d * x + d) <= P * (e * (P * P))
      BY <1>1, <2>3, <3>1, MulMonotone
    <3> QED  BY <2>1, <2>2, <2>4, <3>2
  <2> QED  BY <2>2, <2>5, <2>6
<1> HIDE DEF x
<1>4. p \in Nat /\ 2 * (P * p) <= 2 * x + P /\ 2 * x <= 2 * (P * p) + P
  BY <1>3, ChopRoundNat
<1> HIDE DEF p
<1>5. share = TruncDiv(r * p, P) /\ r * p \in Nat
  <2>1. r * p \in Nat /\ (r * P) * p = (r * p) * Prec
    BY <1>1, <1>4
  <2> QED  BY <1>2, <2>1, ChopExact
<1>6. share \in Nat /\ P * share <= r * p /\ r * p < P * share + P
  BY <1>1, <1>5, TruncDivNat
<1>7. exact \in Nat /\ d * exact <= r * e /\ r * e < d * exact + d
  BY <1>1, r * e \in Nat, TruncDivNat
<1> HIDE DEF exact
<1> DEFINE n == 2 * P * P
           err == r * (P + 2)
<1>8. /\ (n * d) * share <= n * (r * e) + r * P * d
      /\ n * (r * e) <= (n * d) * (share + 1) + err * d
  <2>1. /\ e * (P * P) <= d * x + d /\ r * p <= P * share + P
    <3>1. e * (P * P) \in Int /\ d * x + d \in Int /\ P * share + P \in Int
      BY <1>1, <1>3, <1>6
    <3> QED  BY <1>3, <1>5, <1>6, <3>1
  <2> HIDE DEF P
  <2> QED  BY <1>1, <1>3, <1>4, <1>6, <2>1, ShareChain
<1>9. n \in Nat \ {0} /\ err \in Nat /\ ShareError(r) = err \div n
  BY <1>1 DEF ShareError
<1>10. share <= exact + 1 + ShareError(r)
  <2>1. SUFFICES ASSUME share - exact - 1 \in Nat
                 PROVE  share - exact - 1 <= err \div n
    <3>1. err \div n \in Nat
      BY <1>9, TruncDivNat
    <3> QED  BY <1>6, <1>7, <1>9, <3>1
  <2>2. PICK k \in Nat : share = exact + 1 + k
    BY <1>6, <1>7, <2>1
  <2>3. n * (r * e) <= n * (d * exact + d)
    <3>1. r * e \in Int /\ d * exact + d \in Int /\ r * e <= d * exact + d
      BY <1>1, <1>7
    <3> HIDE DEF n
    <3> QED  BY <1>9, <3>1, MulMonotone
  <2>4. (n * d) * share = n * (d * exact + d) + d * (n * k)
    BY <1>1, <1>7, <2>2
  <2>5. d * (n * k) <= d * (r * P)
    <3> DEFINE y1 == (n * d) * share
               y2 == n * (r * e)
               y3 == n * (d * exact + d)
    <3>1. y1 \in Int /\ y2 \in Int /\ y3 \in Int /\ d * (n * k) \in Int /\ d * (r * P) \in Int
            /\ r * P * d = d * (r * P)
      BY <1>1, <1>6, <1>7, <1>9, <2>2
    <3>2. y1 <= y2 + d * (r * P) /\ y2 <= y3 /\ y1 = y3 + d * (n * k)
      BY <1>8, <2>3, <2>4, <3>1
    <3> HIDE DEF y1, y2, y3
    <3> QED  BY <3>1, <3>2
  <2>6. n * k <= r * P
    BY <1>1, <1>9, <2>2, <2>5, MulCancel, n * k \in Int, r * P \in Int
  <2>7. n * k <= err
    <3>1. err = r * P + 2 * r /\ r * P \in Int /\ n * k \in Int
      BY <1>1, <1>9, <2>2
    <3> HIDE DEF n, err
    <3> QED  BY <1>1, <2>6, <3>1
  <2>8. k <= err \div n
    <3> HIDE DEF n, err
    <3> QED  BY <1>9, <2>2, <2>7, DivBound
  <2>9. share - exact - 1 = k
    BY <1>7, <2>2
  <2> QED  BY <2>8, <2>9
<1>11. exact <= share + 1 + ShareError(r)
  <2>1. SUFFICES ASSUME exact - share - 1 \in Nat
                 PROVE  exact - share - 1 <= err \div n
    <3>1. err \div n \in Nat
      BY <1>9, TruncDivNat
    <3> QED  BY <1>6, <1>7, <1>9, <3>1
  <2>2. PICK k \in Nat : exact = share + 1 + k
    BY <1>6, <1>7, <2>1
  <2>3. n * (d * exact) <= n * (r * e)
    <3>1. r * e \in Int /\ d * exact \in Int
      BY <1>1, <1>7
    <3> HIDE DEF n
    <3> QED  BY <1>7, <1>9, <3>1, MulMonotone
  <2>4. n * (d * exact) = (n * d) * (share + 1) + d * (n * k)
    BY <1>1, <1>6, <2>2
  <2>5. d * (n * k) <= d * err
    <3> DEFINE y1 == n * (d * exact)
               y2 == n * (r * e)
               y3 == (n * d) * (share + 1)
    <3>1. y1 \in Int /\ y2 \in Int /\ y3 \in Int /\ d * (n * k) \in Int /\ d * err \in Int
            /\ err * d = d * err
      BY <1>1, <1>6, <1>7, <1>9, <2>2
    <3>2. y2 <= y3 + d * err /\ y1 <= y2 /\ y1 = y3 + d * (n * k)
      BY <1>8, <2>3, <2>4, <3>1
    <3> HIDE DEF y1, y2, y3
    <3> QED  BY <3>1, <3>2
  <2>6. n * k <= err
    BY <1>1, <1>9, <2>2, <2>5, MulCancel, n * k \in Int
  <2>7. k <= err \div n
    <3> HIDE DEF n, err
    <3> QED  BY <1>9, <2>2, <2>6, DivBound
  <2>8. exact - share - 1 = k
    BY <1>6, <2>2
  <2> QED  BY <2>7, <2>8
<1>12. ASSUME e >= d
       PROVE  share >= r /\ exact >= r
  <2>1. r * d <= r * e
    BY <1>1, <1>12, MulMonotone
  <2>2. exact >= r
    <3>1. d * r < d * (exact + 1)
      <4>1. d * r = r * d /\ d * (exact + 1) = d * exact + d /\ d * r \in Int
              /\ r * e \in Int /\ d * exact \in Int
        BY <1>1, <1>7
      <4> QED  BY <1>1, <1>7, <2>1, <4>1
    <3>2. SUFFICES ASSUME exact + 1 <= r
                   PROVE  FALSE
      BY <1>1, <1>7
    <3>3. d * (exact + 1) <= d * r
      BY <1>1, <1>7, <3>2, MulMonotone, exact + 1 \in Int
    <3>4. d * (exact + 1) \in Int /\ d * r \in Int
      BY <1>1, <1>7
    <3> QED  BY <3>1, <3>3, <3>4
  <2>3. x >= P * P
    <3>1. d * (P * P) <= e * (P * P)
      <4>1. (P * P) * d <= (P * P) * e
        BY <1>1, <1>12, MulMonotone, P * P \in Nat
      <4>2. (P * P) * d = d * (P * P) /\ (P * P) * e = e * (P * P)
        BY <1>1
      <4> QED  BY <4>1, <4>2
    <3>2. SUFFICES ASSUME x + 1 <= P * P
                   PROVE  FALSE
      BY <1>1, <1>3
    <3>3. d * (x + 1) <= d * (P * P)
      BY <1>1, <1>3, <3>2, MulMonotone, x + 1 \in Int, P * P \in Int
    <3>4. d * (x + 1) = d * x + d /\ d * x \in Int /\ d * (P * P) \in Int
            /\ e * (P * P) \in Int
      BY <1>1, <1>3
    <3> QED  BY <1>1, <1>3, <3>1, <3>3, <3>4
  <2>4. p >= P
    <3>1. SUFFICES ASSUME p + 1 <= P
                   PROVE  FALSE
      BY <1>1, <1>4
    <3>2. P * (p + 1) <= P * P
      BY <1>1, <1>4, <3>1, MulMonotone, p + 1 \in Int
    <3>3. P * (p + 1) = P * p + P /\ P * p \in Int /\ P * P \in Int
      BY <1>1, <1>4
    <3> QED  BY <1>1, <1>3, <1>4, <2>3, <3>2, <3>3
  <2>5. share >= r
    <3>1. SUFFICES ASSUME share + 1 <= r
                   PROVE  FALSE
      BY <1>1, <1>6
    <3>2. P * (share + 1) <= P * r
      BY <1>1, <1>6, <3>1, MulMonotone, share + 1 \in Int
    <3>3. r * P <= r * p
      BY <1>1, <1>4, <2>4, MulMonotone
    <3>4. /\ P * (share + 1) = P * share + P /\ P * r = r * P
          /\ P * share \in Int /\ r * P \in Int /\ r * p \in Int
      BY <1>1, <1>4, <1>6
    <3> QED  BY <1>1, <1>6, <3>2, <3>3, <3>4
  <2> QED  BY <2>2, <2>5
<1> QED  BY <1>6, <1>7, <1>10, <1>11, <1>12 DEF e, d, r, share, exact

(* the share of a block before the last release *)
LEMMA ShareBefore ==
    ASSUME NEW t \in Int, NEW s,
           Remaining(s) \in Nat,
           Seconds(t - s.lastReleaseTime) \in Int,
           Seconds(t - s.lastReleaseTime) <= 0,
           Seconds(s.endTime - s.lastReleaseTime) \in Nat \ {0}
    PROVE  LET elapsed  == Seconds(t - s.lastReleaseTime)
               duration == Seconds(s.endTime - s.lastReleaseTime)
               exact    == TruncDiv(Remaining(s) * elapsed, duration)
               share    == LinearShare(t, s)
           IN  share \in Int /\ share <= 0 /\ exact \in Int /\ exact <= 0
<1> DEFINE e == Seconds(t - s.lastReleaseTime)
           d == Seconds(s.endTime - s.lastReleaseTime)
           r == Remaining(s)
           x == TruncDiv(DecFromInt(e) * Prec * Prec, DecFromInt(d))
           p == ChopRound(x)
           share == LinearShare(t, s)
<1>1. Prec \in Nat \ {0} /\ e \in Int /\ e <= 0 /\ d \in Nat \ {0} /\ r \in Nat
  BY PrecAssumption
<1>2. share = TruncDiv(ChopRound((r * Prec) * p), Prec)
  BY DEF LinearShare, TruncateInt, Mul, Quo, DecFromInt
<1> HIDE DEF e, d, r, share
<1>3. x \in Int /\ x <= 0
  <2>1. DecFromInt(d) \in Nat \ {0}
    BY <1>1 DEF DecFromInt
  <2>2. DecFromInt(e) * Prec * Prec = (Prec * Prec * Prec) * e /\ Prec * Prec * Prec \in Nat
    BY <1>1 DEF DecFromInt
  <2>3. (Prec * Prec * Prec) * e \in Int /\ (Prec * Prec * Prec) * e <= 0
    BY <1>1, <2>2, MulNeg
  <2> QED  BY <2>1, <2>2, <2>3, TruncDivNeg
<1> HIDE DEF x
<1>4. p \in Int /\ p <= 0
  BY <1>3, ChopRoundNeg
<1> HIDE DEF p
<1>5. (r * Prec) * p \in Int /\ (r * Prec) * p <= 0
  BY <1>1, <1>4, MulNeg, r * Prec \in Nat
<1>6. share \in Int /\ share <= 0
  BY <1>1, <1>2, <1>5, ChopRoundNeg, TruncDivNeg
<1>7. r * e \in Int /\ r * e <= 0
  BY <1>1, MulNeg
<1>8. TruncDiv(r * e, d) \in Int /\ TruncDiv(r * e, d) <= 0
  BY <1>1, <1>7, TruncDivNeg
<1> QED  BY <1>6, <1>8 DEF e, d, r, share

(* the whole seconds between two ticks *)
LEMMA SecondsIs ==
    ASSUME NEW a \in Int
    PROVE  /\ Seconds(a) \in Int
           /\ a >= 0 => Seconds(a) \in Nat
           /\ a <= 0 => Seconds(a) <= 0
           /\ \A b \in Int : 0 <= b /\ b <= a => Seconds(b) <= Seconds(a)
           /\ a >= TicksPerSecond => Seconds(a) # 0
<1> DEFINE T == TicksPerSecond
           n == Seconds(a)
<1>1. T \in Nat \ {0}
  BY RewardsAssumption
<1>2. n \in Int /\ (a >= 0 => n \in Nat /\ a < T * n + T) /\ (a <= 0 => n <= 0)
  <2>1. n \in Int
    BY <1>1, TruncDivInt DEF Seconds
  <2>2. ASSUME a >= 0
        PROVE  n \in Nat /\ a < T * n + T
    BY <1>1, <2>2, TruncDivNat, a \in Nat DEF Seconds
  <2>3. ASSUME a <= 0
        PROVE  n <= 0
    BY <1>1, <2>3, TruncDivNeg DEF Seconds
  <2> QED  BY <2>1, <2>2, <2>3
<1>3. ASSUME a >= T
      PROVE  n # 0
  <2>1. a >= 0
    BY <1>1, <1>3
  <2> HIDE DEF n
  <2>2. SUFFICES ASSUME n = 0
                 PROVE  FALSE
    BY DEF n
  <2>3. T * n + T = T
    BY <1>1, <2>2
  <2> QED  BY <1>1, <1>2, <1>3, <2>1, <2>3
<1>4. ASSUME NEW b \in Int, 0 <= b, b <= a
      PROVE  Seconds(b) <= Seconds(a)
  <2> DEFINE k == Seconds(b)
  <2>1. a \in Nat /\ b \in Nat
    BY <1>4
  <2>2. k \in Nat /\ T * k <= b
    BY <1>1, <2>1, TruncDivNat DEF Seconds
  <2>3. n \in Nat /\ a < T * n + T
    BY <1>2, <2>1
  <2> HIDE DEF n, k
  <2>4. SUFFICES ASSUME n + 1 <= k
                 PROVE  FALSE
    BY <2>2, <2>3 DEF n, k
  <2>5. T * (n + 1) <= T * k
    BY <1>1, <2>2, <2>3, <2>4, MulMonotone, n + 1 \in Int
  <2>6. T * (n + 1) = T * n + T /\ T * n \in Int /\ T * k \in Int
    BY <1>1, <2>2, <2>3
  <2> QED  BY <1>1, <1>4, <2>1, <2>2, <2>3, <2>5, <2>6
<1> QED  BY <1>2, <1>3, <1>4

(* a release: what the calculation starts from, and what it adds *)
LEMMA ReleaseFacts ==
    ASSUME IInv, NEW t \in NextTimes, BeginRelease(t)
    PROVE  LET reward   == CalculateReward(t, schedule)
               duration == Seconds(schedule.endTime - schedule.lastReleaseTime)
           IN  /\ t \in Int
               /\ schedule.endTime \in Int /\ schedule.lastReleaseTime \in Int
               /\ schedule.released \in Int /\ Remaining(schedule) \in Nat \ {0}
               /\ duration \in Int \ {0}
               /\ LinearShare(t, schedule) \in Int
               /\ reward = MinInt(MaxInt(LinearShare(t, schedule), 1), Remaining(schedule))
               /\ schedule'.released = schedule.released + reward
               /\ Remaining(schedule') = Remaining(schedule) - reward
<1> DEFINE reward == CalculateReward(t, schedule)
<1>1. t \in Int
  BY NextTimesType, RewardsAssumption DEF IInv
<1>2. /\ schedule.total \in Nat /\ schedule.released \in Nat
      /\ schedule.endTime \in Nat /\ schedule.lastReleaseTime \in Nat
      /\ schedule \in [denom : Denoms \cup {NoDenom}, total : Nat,
                       released : Nat, endTime : Nat,
                       lastReleaseTime : Nat, active : BOOLEAN]
  BY DEF IInv, TypeOK
<1>3. schedule.released <= schedule.total
  BY DEF IInv, ScheduleFunded, BeginRelease, Releasing
<1>4. ~CalculateRewardFails(schedule) /\ reward # 0
  BY DEF BeginRelease
<1>5. Remaining(schedule) \in Nat \ {0}
  BY <1>2, <1>3, <1>4 DEF Remaining, CalculateReward
<1>6. Seconds(schedule.endTime - schedule.lastReleaseTime) # 0
  BY <1>4, <1>5 DEF CalculateRewardFails
<1>7. Seconds(schedule.endTime - schedule.lastReleaseTime) \in Int
  BY <1>2, SecondsIs, schedule.endTime - schedule.lastReleaseTime \in Int
<1>8. LinearShare(t, schedule) \in Int
  BY <1>1, <1>2, <1>6, LinearShareInt
<1>9. reward = MinInt(MaxInt(LinearShare(t, schedule), 1), Remaining(schedule))
  BY <1>5 DEF CalculateReward
<1>10. reward \in Int
  BY <1>5, <1>8, <1>9 DEF MinInt, MaxInt
<1>11. schedule' = [schedule EXCEPT !.lastReleaseTime = t, !.released = @ + reward]
  BY DEF BeginRelease
<1> HIDE DEF reward
<1>12. schedule'.released = schedule.released + reward /\ schedule'.total = schedule.total
  BY <1>2, <1>11
<1>13. Remaining(schedule') = Remaining(schedule) - reward
  BY <1>2, <1>10, <1>12 DEF Remaining
<1> QED  BY <1>1, <1>2, <1>5, <1>6, <1>7, <1>8, <1>9, <1>12, <1>13 DEF reward

(* a step that ends a schedule, and one that releases the share *)
EndStep ==
    \A t \in NextTimes :
       /\ BeginRelease(t)
       /\ t >= schedule.endTime
       /\ schedule.endTime - schedule.lastReleaseTime >= TicksPerSecond
       => Remaining(schedule') = 0

NearStep ==
    \A t \in NextTimes :
       /\ BeginRelease(t)
       /\ schedule.lastReleaseTime < schedule.endTime
       => LET elapsed  == Seconds(t - schedule.lastReleaseTime)
              duration == Seconds(schedule.endTime - schedule.lastReleaseTime)
              exact    == TruncDiv(Remaining(schedule) * elapsed, duration)
              paid     == schedule'.released - schedule.released
          IN  Abs(MaxInt(0, MinInt(exact, Remaining(schedule))) - paid)
                 <= 1 + ShareError(Remaining(schedule))

LEMMA EndOfSchedule ==
    ASSUME IInv
    PROVE  EndStep
<1>1. SUFFICES ASSUME NEW t \in NextTimes, BeginRelease(t), t >= schedule.endTime,
                      schedule.endTime - schedule.lastReleaseTime >= TicksPerSecond
               PROVE  Remaining(schedule') = 0
  BY DEF EndStep
<1> DEFINE e == Seconds(t - schedule.lastReleaseTime)
           d == Seconds(schedule.endTime - schedule.lastReleaseTime)
           r == Remaining(schedule)
           share == LinearShare(t, schedule)
<1>2. /\ t \in Int /\ schedule.endTime \in Int /\ schedule.lastReleaseTime \in Int
      /\ r \in Nat \ {0} /\ d # 0
      /\ Remaining(schedule')
            = r - MinInt(MaxInt(LinearShare(t, schedule), 1), Remaining(schedule))
  BY <1>1, ReleaseFacts
<1>3. d \in Nat \ {0} /\ e \in Nat /\ e >= d
  <2>1. PICK a \in Int, b \in Int : /\ a = t - schedule.lastReleaseTime
                                    /\ b = schedule.endTime - schedule.lastReleaseTime
    BY <1>2
  <2>2. b <= a /\ 0 <= b /\ b >= TicksPerSecond
    BY <1>1, <1>2, <2>1, RewardsAssumption
  <2>3. Seconds(a) \in Nat /\ Seconds(b) \in Nat /\ Seconds(b) <= Seconds(a)
    BY <2>2, SecondsIs
  <2> QED  BY <1>2, <2>1, <2>3
<1>4. share \in Nat /\ share >= r
  BY <1>2, <1>3, ShareNear
<1> HIDE DEF share, r
<1>5. MinInt(MaxInt(share, 1), r) = r
  BY <1>2, <1>4 DEF MinInt, MaxInt
<1> QED  BY <1>2, <1>5 DEF share, r

LEMMA NearTheShare ==
    ASSUME IInv
    PROVE  NearStep
<1>1. SUFFICES ASSUME NEW t \in NextTimes, BeginRelease(t),
                      schedule.lastReleaseTime < schedule.endTime
               PROVE  LET elapsed  == Seconds(t - schedule.lastReleaseTime)
                          duration == Seconds(schedule.endTime - schedule.lastReleaseTime)
                          exact    == TruncDiv(Remaining(schedule) * elapsed, duration)
                          paid     == schedule'.released - schedule.released
                      IN  Abs(MaxInt(0, MinInt(exact, Remaining(schedule))) - paid)
                             <= 1 + ShareError(Remaining(schedule))
  BY DEF NearStep
<1> DEFINE e == Seconds(t - schedule.lastReleaseTime)
           d == Seconds(schedule.endTime - schedule.lastReleaseTime)
           r == Remaining(schedule)
           share == LinearShare(t, schedule)
           exact == TruncDiv(r * e, d)
           paid == schedule'.released - schedule.released
           err == ShareError(r)
<1>2. /\ t \in Int /\ schedule.endTime \in Int /\ schedule.lastReleaseTime \in Int
      /\ r \in Nat \ {0} /\ d # 0 /\ share \in Int
      /\ schedule.released \in Int
      /\ schedule'.released = schedule.released + MinInt(MaxInt(share, 1), r)
  BY <1>1, ReleaseFacts
<1>3. d \in Nat \ {0} /\ e \in Int
  <2>1. PICK a \in Int, b \in Int : /\ a = t - schedule.lastReleaseTime
                                    /\ b = schedule.endTime - schedule.lastReleaseTime
    BY <1>2
  <2>2. 0 <= b
    BY <1>1, <1>2, <2>1
  <2>3. Seconds(a) \in Int /\ Seconds(b) \in Nat
    BY <2>2, SecondsIs
  <2> QED  BY <1>2, <2>1, <2>3
<1>4. paid = MinInt(MaxInt(share, 1), r)
  <2>1. MinInt(MaxInt(share, 1), r) \in Int
    BY <1>2 DEF MinInt, MaxInt
  <2> HIDE DEF share, r
  <2> QED  BY <1>2, <2>1
<1>5. err \in Nat
  <2>1. r * (Prec + 2) \in Nat /\ 2 * Prec * Prec \in Nat \ {0}
    <3> HIDE DEF r
    <3> QED  BY <1>2, PrecAssumption
  <2> HIDE DEF r
  <2> QED  BY <2>1, TruncDivNat DEF ShareError
<1>6. CASE e >= 0
  <2>1. /\ share \in Nat /\ exact \in Nat
        /\ share <= exact + 1 + err /\ exact <= share + 1 + err
    BY <1>2, <1>3, <1>6, ShareNear
  <2> HIDE DEF share, exact, paid, err, r
  <2>2. Abs(MaxInt(0, MinInt(exact, r)) - paid) <= 1 + err
    BY <1>2, <1>4, <1>5, <2>1 DEF MinInt, MaxInt, Abs
  <2> QED  BY <2>2 DEF exact, paid, err, r
<1>7. CASE e <= 0
  <2>1. share \in Int /\ share <= 0 /\ exact \in Int /\ exact <= 0
    BY <1>2, <1>3, <1>7, ShareBefore
  <2> HIDE DEF share, exact, paid, err, r
  <2>2. Abs(MaxInt(0, MinInt(exact, r)) - paid) <= 1 + err
    BY <1>2, <1>4, <1>5, <2>1 DEF MinInt, MaxInt, Abs
  <2> QED  BY <2>2 DEF exact, paid, err, r
<1> QED  BY <1>3, <1>6, <1>7

(* For every supply, resolution of block times and precision: a release at *)
(* or after the end time empties the schedule if the previous one was at   *)
(* least a second before the end.                                          *)
THEOREM EndEmptiesSchedule == Spec => EndReleasesAll
<1>1. IInv /\ [Next]_vars => [EndStep]_vars
  BY EndOfSchedule
<1>2. Spec => [][EndStep]_vars
  BY <1>1, Inductive, PTL DEF Spec
<1> QED  BY <1>2 DEF EndReleasesAll, EndStep

(* For every amount, also above the precision, and for every distance of   *)
(* the clocks: a release differs from the exact share by at most a coin    *)
(* and the error of the proportion.                                        *)
THEOREM ReleasesNearShare == Spec => NearExactShare
<1>1. IInv /\ [Next]_vars => [NearStep]_vars
  BY NearTheShare
<1>2. Spec => [][NearStep]_vars
  BY <1>1, Inductive, PTL DEF Spec
<1> QED  BY <1>2 DEF NearExactShare, NearStep
=============================================================================
