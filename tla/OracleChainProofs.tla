-------------------------- MODULE OracleChainProofs --------------------------
(***************************************************************************)
(* Proofs about the oracle in the chain, through restarts: a validator has *)
(* at most one free vote in a voting period, votes are on vote targets but *)
(* for the ones that a restart imports, every tally applies the whitelist, *)
(* a rate has a quorum behind it, and the oracle implements PriceFeed.     *)
(* For the last, the snapshots by timestamp are mapped to snapshots by     *)
(* age; the lemmas say what the pause between two blocks, the removal of   *)
(* old snapshots and the publication of a new one do to the ages.          *)
(***************************************************************************)
EXTENDS OracleChain, OracleTallyProofs

(* a free vote is one that is still stored *)
FreeIsStored ==
    /\ free \in [Validators -> {0, 1}]
    /\ \A v \in Validators : free[v] = 1 => v \in DOMAIN votes

LEMMA FreeInit ==
    ASSUME ChainInit
    PROVE  FreeIsStored
BY DEF ChainInit, Init, FreeIsStored

(* the steps that are neither votes nor tallies leave the votes and the    *)
(* targets alone                                                           *)
LEMMA OtherKeepsVotes ==
    ASSUME OtherStep
    PROVE  UNCHANGED <<votes, voteTarget>>
<1>1. ASSUME NEW gap \in BlockGaps, BeginBlock(gap) \/ BeginBlockSlash(gap)
      PROVE  UNCHANGED <<votes, voteTarget>>
  BY <1>1 DEF BeginBlock, BeginBlockSlash, ballotVars
<1>2. ASSUME BeginBlockPanic
      PROVE  UNCHANGED <<votes, voteTarget>>
  BY <1>2 DEF BeginBlockPanic, ballotVars
<1>3. ASSUME NEW v \in Validators, NEW f \in Delegates, DelegateFeedConsent(v, f)
      PROVE  UNCHANGED <<votes, voteTarget>>
  BY <1>3 DEF DelegateFeedConsent, ballotVars
<1>4. ASSUME NEW p \in ParamsProposals, UpdateParams(p)
      PROVE  UNCHANGED <<votes, voteTarget>>
  BY <1>4 DEF UpdateParams, ballotVars
<1>5. ASSUME NEW v \in Faulty, Jail(v) \/ Unjail(v) \/ CreateValidator(v)
      PROVE  UNCHANGED <<votes, voteTarget>>
  BY <1>5 DEF Jail, Unjail, CreateValidator, ballotVars
<1>6. ASSUME NEW gone \in SUBSET Mature, EndBlock(gone)
      PROVE  UNCHANGED <<votes, voteTarget>>
  BY <1>6 DEF EndBlock, ballotVars
<1> QED
  BY <1>1, <1>2, <1>3, <1>4, <1>5, <1>6, Zenon DEF OtherStep

LEMMA FreeStep ==
    ASSUME FreeIsStored, [ChainNext]_chainVars
    PROVE  FreeIsStored'
<1>1. CASE UNCHANGED <<free, votes>>
  BY <1>1 DEF FreeIsStored
<1>2. CASE UNCHANGED chainVars
  BY <1>1, <1>2 DEF chainVars, vars, ballotVars
<1>3. ASSUME NEW f \in Accounts, NEW v \in Validators, NEW others \in BOOLEAN,
             NEW er \in ExchangeRateTuples, DeliverVote(f, v, er, others)
      PROVE  FreeIsStored'
  <2>1. votes' = Put(votes, v, er)
    BY <1>3 DEF DeliverVote, AggregateExchangeRateVote
  <2>2. DOMAIN votes' = DOMAIN votes \cup {v}
    BY <2>1 DEF Put
  <2>3. CASE IsTxFeeless(v, others)
    <3>1. free[v] = 0
      BY <2>3 DEF FreeIsStored, IsTxFeeless
    <3>2. free' = [free EXCEPT ![v] = 1]
      BY <1>3, <2>3, <3>1 DEF DeliverVote
    <3> QED  BY <2>2, <3>2 DEF FreeIsStored
  <2>4. CASE ~IsTxFeeless(v, others)
    <3>1. free' = free
      BY <1>3, <2>4 DEF DeliverVote, FreeIsStored
    <3> QED  BY <2>2, <3>1 DEF FreeIsStored
  <2> QED  BY <2>3, <2>4
<1>4. ASSUME NEW f \in Accounts, NEW v \in Validators, NEW others \in BOOLEAN,
             DeliverFailing(f, v, others)
      PROVE  UNCHANGED <<free, votes>>
  BY <1>4 DEF DeliverFailing, vars, ballotVars
<1>5. ASSUME OtherStep /\ UNCHANGED <<funds, free, restarts>>
      PROVE  UNCHANGED <<free, votes>>
  BY <1>5, OtherKeepsVotes
<1>6. CASE TallyStep
  <2>1. free' = [v \in Validators |-> 0]
    BY <1>6 DEF TallyStep
  <2> QED  BY <2>1 DEF FreeIsStored
<1>7. ASSUME NEW gap \in RestartGaps, RestartFromGenesis(gap)
      PROVE  UNCHANGED <<free, votes>>
  BY <1>7 DEF RestartFromGenesis
<1> QED
  BY <1>1, <1>2, <1>3, <1>4, <1>5, <1>6, <1>7, Zenon DEF ChainNext

(* For every set of validators and feeders and every number of restarts,   *)
(* FeelessDecorator waives the fee of at most one vote of a validator in a *)
(* voting period.                                                          *)
THEOREM OneFreeVote == ChainSpec => []AtMostOneFreeVote
<1>1. ChainSpec => []FreeIsStored
  BY FreeInit, FreeStep, PTL DEF ChainSpec
<1>2. FreeIsStored => AtMostOneFreeVote
  BY DEF FreeIsStored, AtMostOneFreeVote
<1> QED  BY <1>1, <1>2, PTL

-----------------------------------------------------------------------------
(* Votes and targets *)

(* Storing a vote on targets keeps every vote on targets. *)
LEMMA PutOnTargets ==
    ASSUME \A w \in DOMAIN votes : DOMAIN votes[w] \subseteq voteTarget,
           NEW v, NEW er, DOMAIN er \subseteq voteTarget
    PROVE  \A w \in DOMAIN Put(votes, v, er) :
               DOMAIN Put(votes, v, er)[w] \subseteq voteTarget
BY DEF Put

TargetInv == restarts \in Nat /\ VotesOnTargets

LEMMA TargetStep ==
    ASSUME TargetInv, [ChainNext]_chainVars
    PROVE  TargetInv'
<1>1. CASE UNCHANGED <<votes, voteTarget, restarts>>
  BY <1>1 DEF TargetInv, VotesOnTargets
<1>2. CASE UNCHANGED chainVars
  BY <1>1, <1>2 DEF chainVars, vars, ballotVars
<1>3. ASSUME NEW f \in Accounts, NEW v \in Validators, NEW others \in BOOLEAN,
             NEW er \in ExchangeRateTuples, DeliverVote(f, v, er, others)
      PROVE  TargetInv'
  <2>1. /\ DOMAIN er \subseteq voteTarget
        /\ votes' = Put(votes, v, er) /\ UNCHANGED <<voteTarget, restarts>>
    BY <1>3 DEF DeliverVote, AggregateExchangeRateVote
  <2>2. CASE restarts = 0 \/ voteTarget # {}
    <3>1. \A w \in DOMAIN votes : DOMAIN votes[w] \subseteq voteTarget
      BY <2>2 DEF TargetInv, VotesOnTargets
    <3> QED  BY <2>1, <3>1, PutOnTargets DEF TargetInv, VotesOnTargets
  <2>3. CASE ~(restarts = 0 \/ voteTarget # {})
    BY <2>1, <2>3 DEF TargetInv, VotesOnTargets
  <2> QED  BY <2>2, <2>3
<1>4. ASSUME NEW f \in Accounts, NEW v \in Validators, NEW others \in BOOLEAN,
             DeliverFailing(f, v, others)
      PROVE  UNCHANGED <<votes, voteTarget, restarts>>
  BY <1>4 DEF DeliverFailing, vars, ballotVars
<1>5. ASSUME OtherStep /\ UNCHANGED <<funds, free, restarts>>
      PROVE  UNCHANGED <<votes, voteTarget, restarts>>
  BY <1>5, OtherKeepsVotes
<1>6. CASE TallyStep
  <2>1. DOMAIN votes' = {} /\ restarts' = restarts
    BY <1>6 DEF TallyStep, EndBlockTally, EmptyStore
  <2> QED  BY <2>1 DEF TargetInv, VotesOnTargets
<1>7. ASSUME NEW gap \in RestartGaps, RestartFromGenesis(gap)
      PROVE  TargetInv'
  <2>1. restarts' = restarts + 1 /\ voteTarget' = {}
    BY <1>7 DEF RestartFromGenesis
  <2>2. restarts' \in Nat /\ restarts' # 0
    BY <2>1 DEF TargetInv
  <2> QED  BY <2>1, <2>2 DEF TargetInv, VotesOnTargets
<1> QED
  BY <1>1, <1>2, <1>3, <1>4, <1>5, <1>6, <1>7, Zenon DEF ChainNext

(* Votes are on targets through every change of the whitelist: only        *)
(* EndBlocker changes the targets, and it clears the votes in the same     *)
(* step.  The exception is the votes that a restart imports, whose targets *)
(* it forgets; it ends with the first tally that makes a denom a target.   *)
THEOREM VotesStayOnTargets == ChainSpec => []VotesOnTargets
<1>1. ChainInit => TargetInv
  BY DEF ChainInit, Init, TargetInv, VotesOnTargets, EmptyStore
<1>2. TargetInv => VotesOnTargets
  BY DEF TargetInv
<1> QED  BY <1>1, <1>2, TargetStep, PTL DEF ChainSpec

-----------------------------------------------------------------------------
(* The whitelist *)

(* the step of WhitelistApplied *)
WhitelistStep ==
    EndsPeriod =>
       /\ Range(params.whitelist) \subseteq voteTarget'
       /\ \/ voteTarget = {}
          \/ /\ BelowThreshold(staking') = {}
             /\ Cardinality(Range(params.whitelist)) = Len(params.whitelist)
          => voteTarget' = Range(params.whitelist)

(* The targets stay as they are only when the local copy has every denom   *)
(* of the whitelist, and as many as the whitelist is long.                 *)
LEMMA TargetsAfterTally ==
    ASSUME OInv, NEW gone, EndBlockTally(gone)
    PROVE  WhitelistStep
<1> DEFINE vals == StakingEndBlock(gone)
           W == Range(params.whitelist)
           n == Len(params.whitelist)
<1>1. ApplyWhitelist(vals) /\ staking' = vals
  BY DEF EndBlockTally
<1> HIDE DEF vals
<1>2. CASE UpdateRequired(vals)
  BY <1>1, <1>2 DEF ApplyWhitelist, WhitelistStep
<1>3. CASE ~UpdateRequired(vals)
  <2>1. /\ voteTarget' = voteTarget
        /\ Cardinality(LocalTargets(vals)) = n /\ W \subseteq LocalTargets(vals)
    BY <1>1, <1>3 DEF ApplyWhitelist, UpdateRequired
  <2>2. IsFiniteSet(voteTarget)
    BY OracleAssumption, FS_Subset DEF OInv, TypeOK
  <2> HIDE DEF W, n
  <2>3. W \subseteq voteTarget
    BY <2>1 DEF LocalTargets
  <2>4. ASSUME BelowThreshold(staking') = {}, Cardinality(W) = n
        PROVE  voteTarget = W
    <3>1. LocalTargets(vals) = voteTarget
      BY <1>1, <2>4 DEF LocalTargets
    <3>2. Cardinality(W) = Cardinality(voteTarget)
      BY <2>1, <2>4, <3>1
    <3> QED  BY <2>2, <2>3, <3>2, FS_Subset
  <2> QED  BY <2>1, <2>3, <2>4 DEF WhitelistStep, W, n
<1> QED  BY <1>2, <1>3

(* the steps of OtherStep that do not end a block *)
LEMMA OtherEnds ==
    ASSUME OtherStep, EndsPeriod
    PROVE  FALSE
<1>1. ASSUME NEW gap \in BlockGaps, BeginBlock(gap) \/ BeginBlockSlash(gap)
      PROVE  FALSE
  BY <1>1 DEF BeginBlock, BeginBlockSlash, NextBlock, EndsPeriod
<1>2. ASSUME BeginBlockPanic
      PROVE  FALSE
  BY <1>2 DEF BeginBlockPanic, EndsPeriod
<1>3. ASSUME NEW v \in Validators, NEW f \in Delegates, DelegateFeedConsent(v, f)
      PROVE  FALSE
  BY <1>3 DEF DelegateFeedConsent, blockVars, EndsPeriod
<1>4. ASSUME NEW p \in ParamsProposals, UpdateParams(p)
      PROVE  FALSE
  BY <1>4 DEF UpdateParams, blockVars, EndsPeriod
<1>5. ASSUME NEW v \in Faulty, Jail(v) \/ Unjail(v) \/ CreateValidator(v)
      PROVE  FALSE
  BY <1>5 DEF Jail, Unjail, CreateValidator, blockVars, EndsPeriod
<1>6. ASSUME NEW gone \in SUBSET Mature, EndBlock(gone)
      PROVE  FALSE
  BY <1>6 DEF EndBlock, EndsPeriod
<1> QED
  BY <1>1, <1>2, <1>3, <1>4, <1>5, <1>6, Zenon DEF OtherStep

(* only a tally ends a voting period *)
LEMMA OnlyTallyEnds ==
    ASSUME ChainNext, EndsPeriod
    PROVE  \E gone \in SUBSET Mature : EndBlockTally(gone)
<1>1. ASSUME NEW f \in Accounts, NEW v \in Validators, NEW others \in BOOLEAN,
             \/ DeliverFailing(f, v, others)
             \/ \E er \in ExchangeRateTuples : DeliverVote(f, v, er, others)
      PROVE  FALSE
  BY <1>1 DEF DeliverFailing, DeliverVote, AggregateExchangeRateVote, vars, blockVars,
              EndsPeriod
<1>2. ASSUME NEW gap \in RestartGaps, RestartFromGenesis(gap)
      PROVE  FALSE
  BY <1>2 DEF RestartFromGenesis, EndsPeriod
<1>3. ASSUME TallyStep
      PROVE  \E gone \in SUBSET Mature : EndBlockTally(gone)
  BY <1>3 DEF TallyStep
<1> QED
  BY <1>1, <1>2, <1>3, OtherEnds, Zenon DEF ChainNext

-----------------------------------------------------------------------------
(* The invariant of OracleTallyProofs holds through restarts *)

(* a step of the chain is one of Oracle's, or a restart, or changes none   *)
(* of its variables                                                        *)
LEMMA ChainStepIs ==
    ASSUME [ChainNext]_chainVars
    PROVE  [Next]_vars \/ \E gap \in RestartGaps : RestartFromGenesis(gap)
<1>1. CASE UNCHANGED chainVars
  BY <1>1 DEF chainVars
<1>2. ASSUME NEW f \in Accounts, NEW v \in Validators, NEW others \in BOOLEAN,
             NEW er \in ExchangeRateTuples, DeliverVote(f, v, er, others)
      PROVE  Next
  BY <1>2 DEF DeliverVote, Next
<1>3. ASSUME NEW f \in Accounts, NEW v \in Validators, NEW others \in BOOLEAN,
             DeliverFailing(f, v, others)
      PROVE  UNCHANGED vars
  BY <1>3 DEF DeliverFailing
<1>4. ASSUME OtherStep
      PROVE  Next
  BY <1>4 DEF Next
<1>5. ASSUME TallyStep
      PROVE  Next
  BY <1>5 DEF TallyStep, Next
<1> QED
  BY <1>1, <1>2, <1>3, <1>4, <1>5, Zenon DEF ChainNext

LEMMA RestartType ==
    ASSUME OInv, NEW gap \in RestartGaps, RestartFromGenesis(gap)
    PROVE  OInv'
<1>1. /\ time' = time + gap /\ gap \in Nat
      /\ voteTarget' = {} /\ snapshots' = ImportedSnapshots(time')
      /\ UNCHANGED <<height, phase, params, votes, rates, counters, metadata, feeder,
                     staking, halted>>
  BY ChainAssumption DEF RestartFromGenesis
<1>2. DOMAIN snapshots' \subseteq DOMAIN snapshots
  BY <1>1 DEF ImportedSnapshots, Restrict
<1>3. time' \in Nat /\ DOMAIN snapshots' \subseteq 0 .. time'
  BY <1>1, <1>2 DEF OInv, TypeOK
<1> QED  BY <1>1, <1>3 DEF OInv, TypeOK, ValidParams, TotalVotes

LEMMA ChainTypes == ChainSpec => []OInv
<1>1. ChainInit => OInv
  BY OInvInductive DEF ChainInit
<1>2. OInv /\ [ChainNext]_chainVars => OInv'
  BY ChainStepIs, RestartType, OInvInductive
<1> QED  BY <1>1, <1>2, PTL DEF ChainSpec

(* In the chain as well, through restarts that forget the targets and keep *)
(* the votes, a tally only changes a rate that a quorum voted on.          *)
THEOREM QuorumInChain == ChainSpec => QuorumBehindRate
<1>1. ASSUME OInv, [ChainNext]_chainVars
      PROVE  [QuorumStep]_vars
  <2>1. CASE UNCHANGED chainVars
    BY <2>1 DEF chainVars
  <2>2. CASE ChainNext
    BY <1>1, <2>2, OnlyTallyEnds, TallyQuorum DEF QuorumStep
  <2> QED  BY <1>1, <2>1, <2>2
<1>2. ChainSpec => [][QuorumStep]_vars
  BY <1>1, ChainTypes, PTL DEF ChainSpec
<1> QED  BY <1>2, PTL DEF QuorumBehindRate, QuorumStep

(* Whatever was voted and whoever is bonded, a tally leaves every denom of *)
(* the whitelist a target; and the whitelist becomes the targets when      *)
(* there are none, as after every restart from an exported genesis, or     *)
(* when no ballot is below the threshold.                                  *)
THEOREM WhitelistIsApplied == ChainSpec => WhitelistApplied
<1>1. OInv /\ [ChainNext]_chainVars => [WhitelistStep]_chainVars
  BY OnlyTallyEnds, TargetsAfterTally DEF WhitelistStep
<1>2. ChainSpec => [][WhitelistStep]_chainVars
  BY <1>1, ChainTypes, PTL DEF ChainSpec
<1> QED  BY <1>2 DEF WhitelistApplied, WhitelistStep
-----------------------------------------------------------------------------
(* The oracle is a price feed *)

(* the ages at the time now of the snapshots, and the ones that are merged *)
Ages(snaps, now) == {now - t : t \in DOMAIN snaps}

OldAges(snaps, now) == {a \in Ages(snaps, now) : a >= Horizon}

(* AgedSnapshots, of any snapshots at any time *)
AgedAt(snaps, now) ==
    [a \in (Ages(snaps, now) \ OldAges(snaps, now))
              \cup (IF OldAges(snaps, now) = {} THEN {} ELSE {Horizon}) |->
        snaps[now - IF a < Horizon THEN a ELSE Min(OldAges(snaps, now))]]

(* the operators that PriceFeed takes from the library are the same *)
LEMMA FeedOperators ==
    /\ \A S : Feed!Min(S) = Min(S)
    /\ \A g, S : Feed!Restrict(g, S) = Restrict(g, S)
BY DEF Feed!Min, Min, Feed!Restrict, Restrict

LEMMA HorizonPositive == Horizon \in Nat \ {0}
BY ChainAssumption, ParamsAssumption DEF ParamsType

LEMMA AgesNat ==
    ASSUME NEW now \in Nat, NEW snaps, DOMAIN snaps \subseteq 0 .. now
    PROVE  /\ Ages(snaps, now) \subseteq Nat
           /\ \A a \in Ages(snaps, now) : now - a \in DOMAIN snaps
           /\ \A t \in DOMAIN snaps : now - t \in Ages(snaps, now)
           /\ OldAges(snaps, now) \subseteq Nat
BY DEF Ages, OldAges

LEMMA AgedAtIs ==
    /\ AgedSnapshots = AgedAt(snapshots, time)
    /\ AgedSnapshots' = AgedAt(snapshots', time')
BY DEF AgedSnapshots, AgedAt, Ages, OldAges

LEMMA AgedAtPoints ==
    ASSUME NEW now \in Nat, NEW snaps, DOMAIN snaps \subseteq 0 .. now
    PROVE  LET A == AgedAt(snaps, now)
               old == OldAges(snaps, now)
           IN  /\ DOMAIN A = {b \in Ages(snaps, now) : b < Horizon}
                                \cup (IF old = {} THEN {} ELSE {Horizon})
               /\ \A a \in Ages(snaps, now) : a < Horizon => A[a] = snaps[now - a]
               /\ old # {} => A[Horizon] = snaps[now - Min(old)]
               /\ DOMAIN A \subseteq 0 .. Horizon
               /\ A = [a \in DOMAIN A |-> A[a]]
<1> DEFINE A == AgedAt(snaps, now)
           old == OldAges(snaps, now)
           D == {b \in Ages(snaps, now) : b < Horizon}
                   \cup (IF old = {} THEN {} ELSE {Horizon})
<1>1. Ages(snaps, now) \subseteq Nat /\ Horizon \in Nat
  BY AgesNat, HorizonPositive
<1>2. A = [a \in D |-> snaps[now - IF a < Horizon THEN a ELSE Min(old)]]
  <2>1. Ages(snaps, now) \ old = {b \in Ages(snaps, now) : b < Horizon}
    BY <1>1 DEF OldAges
  <2> HIDE DEF old
  <2>2. A = [a \in (Ages(snaps, now) \ old) \cup (IF old = {} THEN {} ELSE {Horizon}) |->
               snaps[now - IF a < Horizon THEN a ELSE Min(old)]]
    BY DEF AgedAt, old
  <2> QED  BY <2>1, <2>2
<1> HIDE DEF A, old
<1>3. DOMAIN A = D
  BY <1>2
<1>4. \A a \in Ages(snaps, now) : a < Horizon => A[a] = snaps[now - a]
  BY <1>2
<1>5. old # {} => A[Horizon] = snaps[now - Min(old)]
  BY <1>1, <1>2
<1>6. D \subseteq 0 .. Horizon
  BY <1>1
<1>7. A = [a \in DOMAIN A |-> A[a]]
  BY <1>2
<1> QED  BY <1>3, <1>4, <1>5, <1>6, <1>7 DEF A, old

(* two functions on the same domain that agree on it *)
LEMMA SameFunction ==
    ASSUME NEW f, NEW g, f = [x \in DOMAIN f |-> f[x]], g = [x \in DOMAIN g |-> g[x]],
           DOMAIN f = DOMAIN g, \A x \in DOMAIN f : f[x] = g[x]
    PROVE  f = g
OBVIOUS

(* Snapshots that are gap seconds older are the ones the feed has then. *)
LEMMA AgeShift ==
    ASSUME NEW now \in Nat, NEW snaps, DOMAIN snaps \subseteq 0 .. now,
           NEW gap \in Nat, NEW after \in Nat, after = now + gap
    PROVE  AgedAt(snaps, after) = Feed!Aged(AgedAt(snaps, now), gap)
<1> DEFINE H == Horizon
           A == AgedAt(snaps, now)
           B == AgedAt(snaps, after)
           C == Feed!Aged(A, gap)
           ages == Ages(snaps, now)
           later == Ages(snaps, after)
           old == OldAges(snaps, now)
           oldLater == OldAges(snaps, after)
           older == {a \in DOMAIN A : a + gap >= H}
           E == {b + gap : b \in DOMAIN A \ older} \cup (IF older = {} THEN {} ELSE {H})
<1>1. H \in Nat \ {0} /\ DOMAIN snaps \subseteq 0 .. after
  BY HorizonPositive
<1>2. /\ ages \subseteq Nat /\ later \subseteq Nat /\ old \subseteq Nat
      /\ oldLater \subseteq Nat
  BY <1>1, AgesNat
<1>3. /\ \A b \in ages : b + gap \in later
      /\ \A a \in later : a - gap \in ages
  BY DEF Ages
<1>4. /\ \A a : a \in old <=> a \in ages /\ a >= H
      /\ \A a : a \in oldLater <=> a \in later /\ a >= H
  BY DEF OldAges
<1>5. /\ DOMAIN A = {b \in ages : b < H} \cup (IF old = {} THEN {} ELSE {H})
      /\ \A a \in ages : a < H => A[a] = snaps[now - a]
      /\ old # {} => A[H] = snaps[now - Min(old)]
  BY AgedAtPoints
<1>6. /\ DOMAIN B = {b \in later : b < H} \cup (IF oldLater = {} THEN {} ELSE {H})
      /\ \A a \in later : a < H => B[a] = snaps[after - a]
      /\ oldLater # {} => B[H] = snaps[after - Min(oldLater)]
      /\ B = [a \in DOMAIN B |-> B[a]]
  BY <1>1, AgedAtPoints
<1>7. C = [a \in E |-> IF a < H THEN A[a - gap] ELSE A[Min(older)]]
  BY FeedOperators DEF Feed!Aged
<1> HIDE DEF A, B, C, ages, later, old, oldLater, H
<1>8. older # {} <=> oldLater # {}
  <2>1. ASSUME NEW a \in older
        PROVE  oldLater # {}
    <3>1. CASE a \in ages /\ a < H
      BY <1>1, <1>2, <1>3, <1>4, <3>1
    <3>2. CASE old # {} /\ a = H
      <4>1. PICK b \in ages : b >= H
        BY <1>4, <3>2
      <4>2. b + gap \in oldLater
        BY <1>1, <1>2, <1>3, <1>4, <4>1
      <4> QED  BY <4>2
    <3> QED  BY <1>5, <3>1, <3>2
  <2>2. ASSUME NEW a \in oldLater
        PROVE  older # {}
    <3> DEFINE b == a - gap
    <3>1. b \in ages /\ b \in Nat /\ b + gap >= H
      BY <1>1, <1>2, <1>3, <1>4
    <3> HIDE DEF b
    <3>2. CASE b < H
      <4>1. b \in older
        BY <1>5, <3>1, <3>2
      <4> QED  BY <4>1
    <3>3. CASE b >= H
      <4>1. old # {}
        BY <1>4, <3>1, <3>3
      <4>2. H \in older
        BY <1>1, <1>5, <4>1
      <4> QED  BY <4>2
    <3> QED  BY <1>1, <3>1, <3>2, <3>3
  <2> QED  BY <2>1, <2>2
<1>9. {b + gap : b \in DOMAIN A \ older} = {b \in later : b < H}
  <2>1. ASSUME NEW b \in DOMAIN A \ older
        PROVE  b + gap \in later /\ b + gap < H
    <3>1. b # H
      BY <1>1
    <3>2. b \in ages /\ b < H
      BY <1>5, <3>1
    <3> QED  BY <1>1, <1>2, <1>3, <3>2
  <2>2. ASSUME NEW a \in later, a < H
        PROVE  a - gap \in DOMAIN A \ older /\ a = a - gap + gap
    <3>1. a - gap \in ages /\ a - gap \in Nat /\ a \in Nat
      BY <1>2, <1>3
    <3> QED  BY <1>1, <1>5, <2>2, <3>1
  <2> HIDE DEF older
  <2>3. \A a \in later : a < H => \E b \in DOMAIN A \ older : a = b + gap
    BY <2>2
  <2> QED  BY <2>1, <2>3
<1>10. DOMAIN C = DOMAIN B
  <2>1. DOMAIN C = E
    BY <1>7
  <2>2. E = {b \in later : b < H} \cup (IF older = {} THEN {} ELSE {H})
    BY <1>9
  <2> HIDE DEF older, E
  <2> QED  BY <1>6, <1>8, <2>1, <2>2
<1>11. ASSUME NEW a \in later, a < H
       PROVE  C[a] = B[a]
  <2>1. a \in DOMAIN C
    BY <1>6, <1>10, <1>11
  <2>2. C[a] = A[a - gap]
    <3> HIDE DEF E
    <3> QED  BY <1>7, <1>11, <2>1
  <2>3. a - gap \in ages /\ a - gap \in Nat /\ a \in Nat
    BY <1>2, <1>3
  <2>4. a - gap < H
    BY <1>1, <1>11, <2>3
  <2>5. A[a - gap] = snaps[now - (a - gap)] /\ now - (a - gap) = after - a
    BY <1>5, <2>3, <2>4
  <2> QED  BY <1>6, <1>11, <2>2, <2>5
<1>12. ASSUME oldLater # {}
       PROVE  C[H] = B[H]
  <2>1. PICK M \in Nat : /\ M = Min(oldLater) /\ M \in oldLater
                         /\ \A a \in oldLater : M <= a
    BY <1>2, <1>12, MinIsElement
  <2> DEFINE m == M - gap
             k == Min(older)
  <2>2. older \subseteq Nat /\ older # {}
    BY <1>1, <1>2, <1>5, <1>8, <1>12
  <2>3. k \in older /\ \A a \in older : k <= a
    <3> HIDE DEF older
    <3> QED  BY <2>2, MinIsElement
  <2>4. C[H] = A[k]
    <3>1. H \in DOMAIN C
      BY <1>6, <1>10, <1>12
    <3> HIDE DEF E, k, older
    <3> QED  BY <1>1, <1>7, <3>1 DEF k
  <2>5. m \in ages /\ m \in Nat /\ m + gap >= H
    <3>1. M \in later /\ M >= H
      BY <1>4, <2>1
    <3>2. m \in ages /\ m \in Nat
      BY <1>2, <1>3, <3>1
    <3> QED  BY <1>1, <3>1, <3>2
  <2>6. ASSUME NEW b \in ages, b + gap >= H
        PROVE  m <= b
    <3>1. b + gap \in oldLater /\ b \in Nat
      BY <1>2, <1>3, <1>4, <2>6
    <3>2. M <= b + gap
      BY <2>1, <3>1
    <3> QED  BY <3>1, <3>2
  <2>7. B[H] = snaps[now - m]
    <3>1. after - M = now - m
      OBVIOUS
    <3> QED  BY <1>6, <1>12, <2>1, <3>1
  <2> HIDE DEF m, k
  <2>8. CASE m < H
    <3>1. m \in older
      BY <1>5, <2>5, <2>8
    <3>2. ASSUME NEW a \in older
          PROVE  m <= a
      <4>1. a = H \/ (a \in ages /\ a + gap >= H)
        BY <1>5
      <4>2. CASE a = H
        BY <1>1, <2>5, <2>8, <4>2
      <4>3. CASE a \in ages /\ a + gap >= H
        BY <2>6, <4>3
      <4> QED  BY <4>1, <4>2, <4>3
    <3>3. k = m
      BY <2>2, <2>3, <2>5, <3>1, <3>2
    <3> QED  BY <1>5, <2>4, <2>5, <2>7, <2>8, <3>3
  <2>9. CASE m >= H
    <3>1. m \in old
      BY <1>4, <2>5, <2>9
    <3>2. \A b \in old : m <= b
      BY <1>1, <1>2, <1>4, <2>6
    <3>3. PICK n \in Nat : n = Min(old) /\ n \in old /\ \A b \in old : n <= b
      BY <1>2, <3>1, MinIsElement
    <3>4. Min(old) = m
      <4>1. n <= m /\ m <= n
        BY <3>1, <3>2, <3>3
      <4>2. n = m
        BY <2>5, <4>1
      <4> QED  BY <3>3, <4>2
    <3>5. ASSUME NEW a \in older, a # H
          PROVE  FALSE
      <4>1. a \in ages /\ a < H /\ a + gap >= H /\ a \in Nat
        BY <1>2, <1>5, <3>5
      <4>2. m <= a
        BY <2>6, <4>1
      <4> QED  BY <1>1, <2>5, <2>9, <4>1, <4>2
    <3>6. k = H
      BY <2>3, <3>5
    <3> QED  BY <1>5, <2>4, <2>7, <3>1, <3>4, <3>6
  <2> QED  BY <1>1, <2>5, <2>8, <2>9
<1>13. C = [a \in DOMAIN C |-> C[a]]
  <2> HIDE DEF E, older
  <2> QED  BY <1>7
<1>14. \A a \in DOMAIN B : B[a] = C[a]
  BY <1>6, <1>11, <1>12
<1>15. B = C
  BY <1>6, <1>10, <1>13, <1>14, SameFunction
<1> QED  BY <1>15 DEF A, B, C

(* To drop the snapshots before now - lb is to drop the ages above lb. *)
LEMMA KeptAges ==
    ASSUME NEW now \in Nat, NEW snaps, DOMAIN snaps \subseteq 0 .. now,
           NEW lb \in Nat, lb < Horizon
    PROVE  AgedAt(Restrict(snaps, {t \in DOMAIN snaps : t + lb >= now}), now)
             = Restrict(AgedAt(snaps, now), {a \in DOMAIN AgedAt(snaps, now) : a <= lb})
<1> DEFINE H == Horizon
           T == {t \in DOMAIN snaps : t + lb >= now}
           kept == Restrict(snaps, T)
           A == AgedAt(snaps, now)
           B == AgedAt(kept, now)
           D == {a \in DOMAIN A : a <= lb}
           C == Restrict(A, D)
           ages == Ages(snaps, now)
           recent == Ages(kept, now)
<1>1. H \in Nat \ {0}
  BY HorizonPositive
<1>2. kept = [t \in T |-> snaps[t]] /\ DOMAIN kept = T /\ C = [a \in D |-> A[a]]
  BY DEF Restrict
<1>3. /\ ages \subseteq Nat
      /\ \A a \in ages : now - a \in DOMAIN snaps
      /\ \A t \in DOMAIN snaps : now - t \in ages
  BY AgesNat
<1>4. recent = {a \in ages : a <= lb}
  <2>1. ASSUME NEW t \in T
        PROVE  now - t \in ages /\ now - t <= lb
    BY <1>3
  <2>2. ASSUME NEW a \in ages, a <= lb
        PROVE  now - a \in T /\ a = now - (now - a)
    <3>1. now - a \in DOMAIN snaps /\ a \in Nat /\ now - a \in Nat
      BY <1>3, <2>2
    <3> QED  BY <2>2, <3>1
  <2>3. recent = {now - t : t \in T}
    BY <1>2 DEF Ages
  <2> HIDE DEF T, ages, recent
  <2>4. \A a \in ages : a <= lb => \E t \in T : a = now - t
    BY <2>2
  <2> QED  BY <2>1, <2>3, <2>4
<1>5. OldAges(kept, now) = {}
  <2> HIDE DEF recent
  <2> QED  BY <1>1, <1>3, <1>4 DEF OldAges, recent
<1>6. /\ DOMAIN A = {b \in ages : b < H} \cup (IF OldAges(snaps, now) = {} THEN {} ELSE {H})
      /\ \A a \in ages : a < H => A[a] = snaps[now - a]
  BY AgedAtPoints
<1>7. /\ DOMAIN B = {b \in recent : b < H}
      /\ \A a \in recent : a < H => B[a] = kept[now - a]
      /\ B = [a \in DOMAIN B |-> B[a]]
  <2>1. DOMAIN kept \subseteq 0 .. now
    BY <1>2
  <2> HIDE DEF kept
  <2> QED  BY <1>5, <2>1, AgedAtPoints
<1> HIDE DEF A, B, ages, recent, kept, T, H
<1>8. D = {a \in ages : a <= lb}
  <2>1. ~(H <= lb) /\ \A a \in ages : a <= lb => a < H
    BY <1>1, <1>3 DEF H
  <2>2. \A a \in DOMAIN A : a \in ages \/ a = H
    BY <1>6
  <2>3. \A a \in ages : a < H => a \in DOMAIN A
    BY <1>6
  <2> QED  BY <2>1, <2>2, <2>3
<1>9. DOMAIN B = DOMAIN C
  <2>1. {b \in recent : b < H} = {a \in ages : a <= lb}
    <3>1. \A a \in ages : a <= lb => a < H
      BY <1>1, <1>3 DEF H
    <3> QED  BY <1>4, <3>1
  <2>2. DOMAIN C = D
    BY <1>2
  <2> HIDE DEF D, C
  <2> QED  BY <1>7, <1>8, <2>1, <2>2
<1>10. ASSUME NEW a \in DOMAIN B
       PROVE  B[a] = C[a]
  <2>1. a \in ages /\ a \in recent /\ a <= lb /\ a < H /\ a \in D
    BY <1>3, <1>4, <1>7, <1>8
  <2>2. C[a] = A[a] /\ A[a] = snaps[now - a]
    BY <1>2, <1>6, <2>1
  <2>3. now - a \in T
    <3>1. a \in Nat /\ now - a \in DOMAIN snaps
      BY <1>3, <2>1
    <3> QED  BY <2>1, <3>1 DEF T
  <2>4. B[a] = snaps[now - a]
    BY <1>2, <1>7, <2>1, <2>3
  <2> QED  BY <2>2, <2>4
<1>11. C = [a \in DOMAIN C |-> C[a]]
  <2> HIDE DEF D
  <2> QED  BY <1>2
<1> HIDE DEF C
<1>12. B = C
  BY <1>7, <1>9, <1>10, <1>11, SameFunction
<1> QED  BY <1>12 DEF A, B, C, kept, T

(* snapshots by age, and one of age 0 *)
WithNewest(snaps, x) ==
    [a \in DOMAIN snaps \cup {0} |-> IF a = 0 THEN x ELSE snaps[a]]

(* A snapshot of the block that is executed has age 0. *)
LEMMA PublishedAges ==
    ASSUME NEW now \in Nat, NEW snaps, DOMAIN snaps \subseteq 0 .. now, NEW x
    PROVE  AgedAt(Put(snaps, now, x), now) = WithNewest(AgedAt(snaps, now), x)
<1> DEFINE H == Horizon
           put == Put(snaps, now, x)
           A == AgedAt(snaps, now)
           B == AgedAt(put, now)
           C == [a \in DOMAIN A \cup {0} |-> IF a = 0 THEN x ELSE A[a]]
           ages == Ages(snaps, now)
           all == Ages(put, now)
           old == OldAges(snaps, now)
<1>1. H \in Nat \ {0}
  BY HorizonPositive
<1>2. put = [k \in DOMAIN snaps \cup {now} |-> IF k = now THEN x ELSE snaps[k]]
  BY DEF Put
<1>3. DOMAIN put = DOMAIN snaps \cup {now} /\ DOMAIN put \subseteq 0 .. now
  BY <1>2
<1>4. /\ ages \subseteq Nat
      /\ \A a \in ages : now - a \in DOMAIN snaps
      /\ \A t \in DOMAIN snaps : now - t \in ages
  BY AgesNat
<1>5. all = ages \cup {0}
  <2>1. now - now = 0
    OBVIOUS
  <2>2. all = {now - t : t \in DOMAIN snaps \cup {now}} /\ ages = {now - t : t \in DOMAIN snaps}
    BY <1>3 DEF Ages
  <2> HIDE DEF all, ages
  <2> QED  BY <2>1, <2>2
<1>6. OldAges(put, now) = old
  <2>1. OldAges(put, now) = {a \in all : a >= H} /\ old = {a \in ages : a >= H}
    BY DEF OldAges
  <2> HIDE DEF all, ages, old
  <2> QED  BY <1>1, <1>5, <2>1
<1>7. /\ DOMAIN A = {b \in ages : b < H} \cup (IF old = {} THEN {} ELSE {H})
      /\ \A a \in ages : a < H => A[a] = snaps[now - a]
      /\ old # {} => A[H] = snaps[now - Min(old)]
  BY AgedAtPoints
<1>8. /\ DOMAIN B = {b \in all : b < H} \cup (IF old = {} THEN {} ELSE {H})
      /\ \A a \in all : a < H => B[a] = put[now - a]
      /\ old # {} => B[H] = put[now - Min(old)]
      /\ B = [a \in DOMAIN B |-> B[a]]
  <2> HIDE DEF put, old
  <2>2. /\ DOMAIN B = {b \in all : b < H}
                         \cup (IF OldAges(put, now) = {} THEN {} ELSE {H})
        /\ \A a \in all : a < H => B[a] = put[now - a]
        /\ OldAges(put, now) # {} => B[H] = put[now - Min(OldAges(put, now))]
        /\ B = [a \in DOMAIN B |-> B[a]]
    BY <1>3, AgedAtPoints
  <2> HIDE DEF B, all
  <2> QED  BY <1>6, <2>2
<1>9. old \subseteq ages /\ \A a \in old : a >= H
  BY DEF OldAges
<1> HIDE DEF A, B, ages, all, put, old, H
<1>10. DOMAIN B = DOMAIN C
  <2>1. DOMAIN C = DOMAIN A \cup {0}
    OBVIOUS
  <2> HIDE DEF C
  <2> QED  BY <1>1, <1>5, <1>7, <1>8, <2>1
<1>11. \A a \in ages : a # 0 => put[now - a] = snaps[now - a]
  <2>1. ASSUME NEW a \in ages, a # 0
        PROVE  now - a # now /\ now - a \in DOMAIN snaps
    BY <1>4, <2>1
  <2> QED  BY <1>2, <2>1
<1>12. ASSUME NEW a \in DOMAIN B
       PROVE  B[a] = C[a]
  <2>1. CASE a = 0
    <3>1. C[a] = x
      BY <2>1
    <3>2. B[0] = put[now - 0] /\ now - 0 = now
      BY <1>1, <1>5, <1>8
    <3>3. put[now] = x
      BY <1>2
    <3> QED  BY <2>1, <3>1, <3>2, <3>3
  <2>2. CASE a # 0 /\ a \in ages /\ a < H
    <3>1. C[a] = A[a]
      BY <1>7, <2>2
    <3> QED  BY <1>5, <1>7, <1>8, <1>11, <2>2, <3>1
  <2>3. CASE a # 0 /\ a = H /\ old # {}
    <3>1. C[a] = A[a]
      BY <1>7, <2>3
    <3>2. old \subseteq Nat
      BY <1>4, <1>9
    <3>3. Min(old) \in old
      BY <2>3, <3>2, MinIsElement
    <3>4. Min(old) \in ages /\ Min(old) # 0
      BY <1>1, <1>9, <3>3
    <3> QED  BY <1>7, <1>8, <1>11, <2>3, <3>1, <3>4
  <2> QED  BY <1>5, <1>8, <2>1, <2>2, <2>3
<1>13. C = [a \in DOMAIN C |-> C[a]]
  OBVIOUS
<1> HIDE DEF C
<1>14. B = C
  BY <1>8, <1>10, <1>12, <1>13, SameFunction
<1> QED  BY <1>14 DEF A, B, C, put, WithNewest

(* what the mapping says of the lookback *)
LEMMA LookbackBound ==
    ASSUME OInv
    PROVE  params.lookbackDuration \in 0 .. Horizon - 1
<1>1. params \in {InitParams} \cup ParamsProposals
  BY DEF OInv, TypeOK
<1>2. params.lookbackDuration < Horizon /\ params \in ParamsType
  BY <1>1, ChainAssumption, ParamsAssumption
<1>3. params.lookbackDuration \in Nat
  BY <1>2 DEF ParamsType
<1> QED  BY <1>2, <1>3, HorizonPositive

(* AddPriceSnapshot publishes a snapshot. *)
LEMMA AddIsPublished ==
    ASSUME OInv, NEW x
    PROVE  AgedAt(AddPriceSnapshot(x), time) = Feed!Published(x)
<1> DEFINE lb == params.lookbackDuration
           added == Put(snapshots, time, x)
           A == AgedAt(added, time)
<1>1. /\ lb \in Nat /\ lb < Horizon
      /\ time \in Nat /\ DOMAIN snapshots \subseteq 0 .. time
  BY LookbackBound, HorizonPositive DEF OInv, TypeOK
<1>2. DOMAIN added \subseteq 0 .. time
  BY <1>1 DEF Put
<1>3. AddPriceSnapshot(x) = Restrict(added, {t \in DOMAIN added : t + lb >= time})
  BY DEF AddPriceSnapshot
<1>4. A = WithNewest(AgedSnapshots, x)
  BY <1>1, AgedAtIs, PublishedAges
<1>5. Feed!Published(x) = Restrict(A, {a \in DOMAIN A : a <= lb})
  BY <1>4, FeedOperators DEF Feed!Published, Feed!Kept, WithNewest
<1> HIDE DEF added, lb
<1> QED  BY <1>1, <1>2, <1>3, <1>5, KeptAges DEF A

(* steps that leave what the feed shows alone *)
LEMMA FeedStutter ==
    ASSUME UNCHANGED <<phase, time, rates, snapshots, voteTarget>>,
           params'.lookbackDuration = params.lookbackDuration
    PROVE  UNCHANGED Feed!feedVars
BY DEF Feed!feedVars, AgedSnapshots

LEMMA BeginIsFeed ==
    ASSUME OInv, OInv', NEW gap \in BlockGaps, BeginBlock(gap) \/ BeginBlockSlash(gap)
    PROVE  Feed!NewBlock(gap)
<1>1. /\ phase = "idle" /\ phase' = "txs" /\ time' = time + gap
      /\ UNCHANGED <<params, snapshots, voteTarget>>
      /\ rates' = rates \/ rates' = RemoveExcessFeeds
  BY DEF BeginBlock, BeginBlockSlash, NextBlock, ballotVars
<1>2. AgedSnapshots' = Feed!Aged(AgedSnapshots, gap)
  <2>1. /\ time \in Nat /\ time' \in Nat /\ gap \in Nat
        /\ DOMAIN snapshots \subseteq 0 .. time
    BY <1>1, OracleAssumption DEF OInv, TypeOK
  <2>2. AgedAt(snapshots, time') = Feed!Aged(AgedAt(snapshots, time), gap)
    BY <1>1, <2>1, AgeShift
  <2> QED  BY <1>1, <2>2, AgedAtIs
<1>3. RemoveExcessFeeds = Feed!Restrict(rates, DOMAIN rates \cap voteTarget)
  BY FeedOperators DEF RemoveExcessFeeds
<1> QED  BY <1>1, <1>2, <1>3 DEF Feed!NewBlock

LEMMA TallyIsFeed ==
    ASSUME OInv, OInv', NEW gone, EndBlockTally(gone)
    PROVE  Feed!Tally
<1> DEFINE vals == StakingEndBlock(gone)
<1>1. PICK order \in SetToSeqs(Passing(vals)) :
         rates' = PutAll(rates, TalliedRates(vals, ReferenceDenom(vals, order)))
  BY DEF EndBlockTally, SetExchangeRates
<1> DEFINE new == TalliedRates(vals, ReferenceDenom(vals, order))
<1>2. DOMAIN new \subseteq voteTarget
  <2>1. vals \in [Validators -> StakingType] /\ TypeOK
    BY StakingStepType DEF OInv
  <2> HIDE DEF vals
  <2> QED  BY <2>1, TalliedRatesType
<1>3. /\ phase = "txs" /\ phase' = "idle" /\ UNCHANGED <<time, params>>
      /\ snapshots' = IF DOMAIN rates' = {} THEN snapshots ELSE AddPriceSnapshot(rates')
  BY DEF EndBlockTally
<1>4. rates' = [d \in DOMAIN rates \cup DOMAIN new |->
                  IF d \in DOMAIN new THEN new[d] ELSE rates[d]]
  BY <1>1 DEF PutAll
<1> HIDE DEF new
<1>5. DOMAIN rates' = DOMAIN rates \cup DOMAIN new
  BY <1>4
<1>6. DOMAIN rates' \in SUBSET Denoms /\ rates' \in [DOMAIN rates' -> Nat]
  <2>1. DOMAIN rates' \subseteq Denoms /\ \A d \in DOMAIN rates' : rates'[d] \in Nat
    BY DEF OInv, TypeOK
  <2>2. rates' = [d \in DOMAIN rates' |-> rates'[d]]
    BY <1>4
  <2> QED  BY <2>1, <2>2
<1>7. \A d \in DOMAIN rates' \ voteTarget : d \in DOMAIN rates /\ rates'[d] = rates[d]
  BY <1>2, <1>4
<1>8. voteTarget' \in SUBSET Denoms
  BY DEF OInv, TypeOK
<1>9. AgedSnapshots' = IF DOMAIN rates' = {} THEN AgedSnapshots ELSE Feed!Published(rates')
  <2>1. CASE DOMAIN rates' = {}
    BY <1>3, <2>1, AgedAtIs
  <2>2. CASE DOMAIN rates' # {}
    <3>1. AgedAt(AddPriceSnapshot(rates'), time) = Feed!Published(rates')
      BY AddIsPublished
    <3> QED  BY <1>3, <2>2, <3>1, AgedAtIs
  <2> QED  BY <2>1, <2>2
<1>10. \E D \in SUBSET Denoms : DOMAIN rates \subseteq D /\ rates' \in [D -> Nat]
  BY <1>5, <1>6
<1> QED  BY <1>3, <1>7, <1>8, <1>9, <1>10 DEF Feed!Tally

LEMMA RestartIsFeed ==
    ASSUME OInv, OInv', NEW gap \in RestartGaps, RestartFromGenesis(gap)
    PROVE  Feed!Restart(gap)
<1> DEFINE lb == params.lookbackDuration
           A == AgedAt(snapshots, time')
<1>1. /\ phase = "idle" /\ time' = time + gap /\ voteTarget' = {}
      /\ snapshots' = ImportedSnapshots(time')
      /\ UNCHANGED <<phase, params, rates>>
  BY DEF RestartFromGenesis
<1>2. /\ time \in Nat /\ time' \in Nat /\ gap \in Nat
      /\ DOMAIN snapshots \subseteq 0 .. time /\ DOMAIN snapshots \subseteq 0 .. time'
      /\ lb \in Nat /\ lb < Horizon
  BY <1>1, ChainAssumption, LookbackBound, HorizonPositive DEF OInv, TypeOK
<1>3. A = Feed!Aged(AgedSnapshots, gap)
  BY <1>1, <1>2, AgeShift, AgedAtIs
<1>4. snapshots' = Restrict(snapshots, {t \in DOMAIN snapshots : t + lb >= time'})
  BY <1>1 DEF ImportedSnapshots
<1>5. AgedSnapshots' = Restrict(A, {a \in DOMAIN A : a <= lb})
  <2> HIDE DEF lb
  <2> QED  BY <1>2, <1>4, KeptAges, AgedAtIs
<1>6. Feed!Kept(A) = Restrict(A, {a \in DOMAIN A : a <= lb})
  BY FeedOperators DEF Feed!Kept
<1> HIDE DEF A, lb
<1>7. AgedSnapshots' = Feed!Kept(Feed!Aged(AgedSnapshots, gap))
  BY <1>3, <1>5, <1>6
<1> QED  BY <1>1, <1>7 DEF Feed!Restart

LEMMA OtherIsFeed ==
    ASSUME OInv, OInv', OtherStep
    PROVE  [Feed!Next]_Feed!feedVars
<1>1. ASSUME NEW gap \in BlockGaps, BeginBlock(gap) \/ BeginBlockSlash(gap)
      PROVE  Feed!Next
  BY <1>1, BeginIsFeed DEF Feed!Next
<1>2. ASSUME BeginBlockPanic
      PROVE  UNCHANGED Feed!feedVars
  BY <1>2, FeedStutter DEF BeginBlockPanic, blockVars, ballotVars
<1>3. ASSUME NEW v \in Validators, NEW f \in Delegates, DelegateFeedConsent(v, f)
      PROVE  UNCHANGED Feed!feedVars
  BY <1>3, FeedStutter DEF DelegateFeedConsent, blockVars, ballotVars
<1>4. ASSUME NEW p \in ParamsProposals, UpdateParams(p)
      PROVE  Feed!Next
  <2>1. /\ phase = "txs" /\ params' = p
        /\ UNCHANGED <<phase, time, rates, snapshots, voteTarget>>
    BY <1>4 DEF UpdateParams, blockVars, ballotVars
  <2>2. p.lookbackDuration \in 0 .. Horizon - 1
    BY ChainAssumption, ParamsAssumption, HorizonPositive DEF ParamsType
  <2>3. AgedSnapshots' = AgedSnapshots
    BY <2>1, AgedAtIs
  <2> QED  BY <2>1, <2>2, <2>3 DEF Feed!Next, Feed!SetLookback
<1>5. ASSUME NEW v \in Faulty, Jail(v) \/ Unjail(v) \/ CreateValidator(v)
      PROVE  UNCHANGED Feed!feedVars
  BY <1>5, FeedStutter DEF Jail, Unjail, CreateValidator, blockVars, ballotVars
<1>6. ASSUME NEW gone \in SUBSET Mature, EndBlock(gone)
      PROVE  Feed!Next
  <2>1. /\ phase = "txs" /\ phase' = "idle"
        /\ UNCHANGED <<params, time, rates, snapshots, voteTarget>>
    BY <1>6 DEF EndBlock, ballotVars
  <2>2. AgedSnapshots' = AgedSnapshots
    BY <2>1, AgedAtIs
  <2> QED  BY <2>1, <2>2 DEF Feed!Next, Feed!QuietEnd
<1> QED
  BY <1>1, <1>2, <1>3, <1>4, <1>5, <1>6, Zenon DEF OtherStep

LEMMA FeedInit ==
    ASSUME ChainInit
    PROVE  Feed!Init
<1>1. /\ phase = "idle" /\ params = InitParams /\ voteTarget = {}
      /\ rates = EmptyStore /\ snapshots = EmptyStore /\ time = 0
  BY DEF ChainInit, Init
<1>2. rates = Feed!NoRates
  BY <1>1 DEF EmptyStore, Feed!NoRates
<1>3. AgedSnapshots = Feed!NoRates
  <2>1. Ages(snapshots, time) = {} /\ OldAges(snapshots, time) = {}
    BY <1>1 DEF Ages, OldAges, EmptyStore
  <2>2. AgedAt(snapshots, time) = [a \in {} |-> 0]
    BY <2>1 DEF AgedAt
  <2> QED  BY <2>2, AgedAtIs DEF Feed!NoRates
<1>4. params.lookbackDuration \in 0 .. Horizon - 1
  <2>1. InitParams.lookbackDuration < Horizon /\ InitParams.lookbackDuration \in Nat
    BY ChainAssumption, ParamsAssumption DEF ParamsType
  <2> QED  BY <1>1, <2>1, HorizonPositive
<1> QED  BY <1>1, <1>2, <1>3, <1>4 DEF Feed!Init

LEMMA FeedStep ==
    ASSUME OInv, OInv', [ChainNext]_chainVars
    PROVE  [Feed!Next]_Feed!feedVars
<1>1. CASE UNCHANGED chainVars
  BY <1>1, FeedStutter DEF chainVars, vars, blockVars, ballotVars
<1>2. ASSUME NEW f \in Accounts, NEW v \in Validators, NEW others \in BOOLEAN,
             \/ DeliverFailing(f, v, others)
             \/ \E er \in ExchangeRateTuples : DeliverVote(f, v, er, others)
      PROVE  UNCHANGED Feed!feedVars
  BY <1>2, FeedStutter DEF DeliverFailing, DeliverVote, AggregateExchangeRateVote,
     vars, blockVars, ballotVars
<1>3. ASSUME TallyStep
      PROVE  Feed!Next
  BY <1>3, TallyIsFeed DEF TallyStep, Feed!Next
<1>4. ASSUME NEW gap \in RestartGaps, RestartFromGenesis(gap)
      PROVE  Feed!Next
  BY <1>4, RestartIsFeed DEF Feed!Next
<1> QED
  BY <1>1, <1>2, <1>3, <1>4, OtherIsFeed, Zenon DEF ChainNext

(* The oracle implements the price feed that the fee module relies on: for *)
(* every set of validators and denoms, all parameters and any number of    *)
(* restarts, every step of the chain is a step of PriceFeed or changes     *)
(* nothing that its readers see.                                           *)
THEOREM OracleIsPriceFeed == ChainSpec => FeedSpec
<1>1. ChainInit => Feed!Init
  BY FeedInit
<1>2. OInv /\ OInv' /\ [ChainNext]_chainVars => [Feed!Next]_Feed!feedVars
  BY FeedStep
<1> QED  BY <1>1, <1>2, ChainTypes, PTL DEF ChainSpec, FeedSpec, Feed!Spec
=============================================================================
