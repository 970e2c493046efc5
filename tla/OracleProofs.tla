---------------------------- MODULE OracleProofs ----------------------------
(***************************************************************************)
(* Proofs about Oracle, for any number of validators, denoms and feeders,  *)
(* any rates and any parameters: while the slash window is fixed and no    *)
(* longer than unbonding, no validator with a penalty counter is ever      *)
(* removed, so that the panic of SlashAndResetCounters is unreachable.     *)
(***************************************************************************)
EXTENDS Oracle, TLAPS

-----------------------------------------------------------------------------
(* Arithmetic of periods *)

(* A positive multiple of W is at least W. *)
LEMMA MultipleBound ==
    ASSUME NEW W \in Nat \ {0}, NEW k \in Nat \ {0}
    PROVE  W * k >= W
OBVIOUS

(* A remainder is determined by the number it is a remainder of. *)
LEMMA RemainderUnique ==
    ASSUME NEW W \in Nat \ {0}, NEW q \in Int, NEW p \in Int,
           NEW r \in 0 .. W - 1, NEW s \in 0 .. W - 1,
           W * q + r = W * p + s
    PROVE  r = s
<1>1. ~(q > p)
  <2>. SUFFICES ASSUME q > p PROVE FALSE  OBVIOUS
  <2>1. W * (q - p) >= W  BY MultipleBound, q - p \in Nat \ {0}
  <2>2. W * (q - p) = W * q - W * p  OBVIOUS
  <2>. QED  BY <2>1, <2>2
<1>2. ~(p > q)
  <2>. SUFFICES ASSUME p > q PROVE FALSE  OBVIOUS
  <2>1. W * (p - q) >= W  BY MultipleBound, p - q \in Nat \ {0}
  <2>2. W * (p - q) = W * p - W * q  OBVIOUS
  <2>. QED  BY <2>1, <2>2
<1>. QED  BY <1>1, <1>2

(* Division with remainder. *)
LEMMA Division ==
    ASSUME NEW W \in Nat \ {0}, NEW n \in Nat
    PROVE  /\ n % W \in 0 .. W - 1
           /\ n \div W \in Int
           /\ n = W * (n \div W) + (n % W)
OBVIOUS

(* The remainder grows with the number, except where it returns to 0. *)
LEMMA RemainderStep ==
    ASSUME NEW W \in Nat \ {0}, NEW n \in Nat, (n + 1) % W # 0
    PROVE  (n + 1) % W = (n % W) + 1
<1> DEFINE q == n \div W        r == n % W
           p == (n + 1) \div W  s == (n + 1) % W
<1>1. r \in 0 .. W - 1 /\ q \in Int /\ n = W * q + r  BY Division
<1>2. s \in 0 .. W - 1 /\ p \in Int /\ n + 1 = W * p + s
  BY Division, n + 1 \in Nat
<1>. HIDE DEF q, r, p, s
<1>3. s # 0  BY DEF s
<1>4. s - 1 \in 0 .. W - 1  BY <1>2, <1>3
<1>5. W * p + (s - 1) = W * q + r  BY <1>1, <1>2
<1>6. s - 1 = r  BY <1>1, <1>2, <1>4, <1>5, RemainderUnique
<1>. QED  BY <1>1, <1>2, <1>6 DEF r, s
-----------------------------------------------------------------------------
(* Counters and validators *)

(* Governance leaves the slash window alone, and unbonding takes at least  *)
(* that long.                                                              *)
FixedWindow ==
    /\ \A p \in ParamsProposals : p.slashWindow = InitParams.slashWindow
    /\ InitParams.slashWindow <= UnbondingBlocks

(* the height of the last block, up to h, whose BeginBlocker reset the     *)
(* counters (or -1)                                                        *)
LastReset(h) == h - ((h + 1) % InitParams.slashWindow)

Records == [success : Nat, abstain : Nat, miss : Nat]

ValidatorType ==
    [status : {"bonded", "unbonding", "removed"}, jailed : BOOLEAN,
     since : Nat, tokens : Int]

(* the types the argument needs *)
CounterTypes ==
    /\ height \in Nat
    /\ params \in {InitParams} \cup ParamsProposals
    /\ DOMAIN counters \subseteq Validators
    /\ \A v \in DOMAIN counters :
          counters[v] \in Records /\ TotalVotes(counters[v]) # 0
    /\ staking \in [Validators -> ValidatorType]

(* a counted validator exists, and if it is unbonding it began in the      *)
(* current window, so that it cannot be mature yet                         *)
CountedRecently ==
    \A v \in DOMAIN counters :
        /\ staking[v].status # "removed"
        /\ staking[v].status = "unbonding" => staking[v].since >= LastReset(height)

PInv == CounterTypes /\ CountedRecently

(* The slash window is a positive number, and every params has it. *)
LEMMA WindowType ==
    ASSUME FixedWindow
    PROVE  /\ InitParams.slashWindow \in Nat \ {0}
           /\ \A p \in {InitParams} \cup ParamsProposals :
                 p.slashWindow = InitParams.slashWindow
<1>1. InitParams.slashWindow \in Nat /\ InitParams.votePeriod \in Nat
  BY ParamsAssumption DEF ParamsType
<1>2. InitParams.votePeriod # 0 /\ InitParams.slashWindow >= InitParams.votePeriod
  BY ParamsAssumption DEF ValidParams
<1>. QED  BY <1>1, <1>2 DEF FixedWindow

(* Less than a window has passed since the last reset. *)
LEMMA ResetIsRecent ==
    ASSUME FixedWindow, NEW h \in Nat
    PROVE  /\ LastReset(h) \in Int
           /\ LastReset(h) <= h
           /\ h < LastReset(h) + InitParams.slashWindow
<1>1. (h + 1) % InitParams.slashWindow \in 0 .. InitParams.slashWindow - 1
  BY WindowType, Division, h + 1 \in Nat
<1>. QED  BY <1>1, WindowType DEF LastReset

(* A block that is not the last of its window keeps the last reset. *)
LEMMA ResetKept ==
    ASSUME FixedWindow, NEW h \in Nat,
           ~IsPeriodLastBlock(h + 1, InitParams.slashWindow)
    PROVE  LastReset(h + 1) = LastReset(h)
<1> DEFINE W == InitParams.slashWindow
<1>1. W \in Nat \ {0}  BY WindowType
<1>. HIDE DEF W
<1>2. ((h + 1) + 1) % W # 0  BY DEF IsPeriodLastBlock, W
<1>3. ((h + 1) + 1) % W = ((h + 1) % W) + 1
  BY <1>1, <1>2, RemainderStep, h + 1 \in Nat
<1>4. (h + 1) % W \in Int  BY <1>1, Division, h + 1 \in Nat
<1>. QED  BY <1>3, <1>4 DEF LastReset, W

(* A counter that is incremented is a counter with votes. *)
LEMMA IncrementType ==
    ASSUME NEW c \in Records, NEW o \in {"success", "abstain", "miss"}
    PROVE  /\ [c EXCEPT ![o] = @ + 1] \in Records
           /\ TotalVotes([c EXCEPT ![o] = @ + 1]) # 0
<1>1. CASE o = "success"  BY <1>1 DEF Records, TotalVotes
<1>2. CASE o = "abstain"  BY <1>2 DEF Records, TotalVotes
<1>3. CASE o = "miss"     BY <1>3 DEF Records, TotalVotes
<1>. QED  BY <1>1, <1>2, <1>3

(* The tally leaves counters with votes, of old holders and claimants. *)
LEMMA CountersAfterType ==
    ASSUME CounterTypes, NEW vals, NEW ref
    PROVE  LET after == CountersAfter(vals, ref)
           IN  /\ DOMAIN after = DOMAIN counters \cup Claimants(vals)
               /\ DOMAIN after \subseteq Validators
               /\ \A v \in DOMAIN after :
                     after[v] \in Records /\ TotalVotes(after[v]) # 0
<1> DEFINE after == CountersAfter(vals, ref)
<1>1. DOMAIN after = DOMAIN counters \cup Claimants(vals)
  BY DEF CountersAfter
<1>2. DOMAIN after \subseteq Validators
  BY <1>1 DEF CounterTypes, Claimants
<1>3. ASSUME NEW v \in DOMAIN after
      PROVE  after[v] \in Records /\ TotalVotes(after[v]) # 0
  <2> DEFINE c == IF v \in DOMAIN counters THEN counters[v] ELSE ZeroCounter
             o == Outcome(vals, ref, v)
  <2>1. c \in Records  BY DEF CounterTypes, ZeroCounter, Records
  <2>2. o \in {"success", "abstain", "miss"}  BY DEF Outcome
  <2>3. after[v] = IF v \in Claimants(vals) THEN [c EXCEPT ![o] = @ + 1] ELSE c
    BY <1>1, <1>3 DEF CountersAfter
  <2>. HIDE DEF c, o
  <2>4. CASE v \in Claimants(vals)
    <3>1. after[v] = [c EXCEPT ![o] = @ + 1]  BY <2>3, <2>4
    <3>. QED  BY <2>1, <2>2, <3>1, IncrementType
  <2>5. CASE v \notin Claimants(vals)
    <3>1. v \in DOMAIN counters  BY <1>1, <1>3, <2>5
    <3>2. after[v] = counters[v]  BY <2>3, <2>5, <3>1 DEF c
    <3>. QED  BY <3>1, <3>2 DEF CounterTypes
  <2>. QED  BY <2>4, <2>5
<1>. QED  BY <1>1, <1>2, <1>3
(* Staking's EndBlocker keeps the types of its validators. *)
LEMMA StakingEndBlockType ==
    ASSUME CounterTypes, NEW gone
    PROVE  StakingEndBlock(gone) \in [Validators -> ValidatorType]
<1>. SUFFICES ASSUME NEW v \in Validators
              PROVE  StakingEndBlock(gone)[v] \in ValidatorType
  BY DEF StakingEndBlock
<1>1. staking[v] \in ValidatorType /\ height \in Nat  BY DEF CounterTypes
<1>2. /\ [staking[v] EXCEPT !.status = "removed"] \in ValidatorType
      /\ [staking[v] EXCEPT !.status = "unbonding", !.since = height] \in ValidatorType
      /\ [staking[v] EXCEPT !.status = "bonded"] \in ValidatorType
  BY <1>1 DEF ValidatorType
<1>. QED  BY <1>1, <1>2 DEF StakingEndBlock

(* EndBlocker keeps the invariant: a counted validator began to unbond in  *)
(* this window, which is shorter than unbonding, so it is not removed.     *)
LEMMA EndBlockKeeps ==
    ASSUME FixedWindow, PInv, NEW gone \in SUBSET Mature,
           UNCHANGED <<height, params>>,
           staking' = StakingEndBlock(gone),
           \/ counters' = counters
           \/ \E ref : counters' = CountersAfter(StakingEndBlock(gone), ref)
    PROVE  PInv'
<1>. USE DEF PInv
<1>1. staking' \in [Validators -> ValidatorType]  BY StakingEndBlockType
<1>2. /\ DOMAIN counters' \subseteq DOMAIN counters \cup Claimants(staking')
      /\ DOMAIN counters' \subseteq Validators
      /\ \A v \in DOMAIN counters' :
            counters'[v] \in Records /\ TotalVotes(counters'[v]) # 0
  <2>1. CASE counters' = counters  BY <2>1 DEF CounterTypes
  <2>2. CASE \E ref : counters' = CountersAfter(StakingEndBlock(gone), ref)
    <3>1. PICK ref : counters' = CountersAfter(staking', ref)  BY <2>2
    <3>. QED  BY <3>1, CountersAfterType
  <2>. QED  BY <2>1, <2>2
<1>3. CounterTypes'  BY <1>1, <1>2 DEF CounterTypes
<1>4. ASSUME NEW v \in DOMAIN counters'
      PROVE  /\ staking'[v].status # "removed"
             /\ staking'[v].status = "unbonding" => staking'[v].since >= LastReset(height)
  <2>1. CASE v \in Claimants(staking')
    BY <2>1 DEF Claimants
  <2>2. CASE v \in DOMAIN counters
    <3>1. /\ v \in Validators /\ staking[v] \in ValidatorType /\ height \in Nat
          /\ staking[v].status # "removed"
          /\ staking[v].status = "unbonding" => staking[v].since >= LastReset(height)
      BY <2>2 DEF CounterTypes, CountedRecently
    <3>2. staking[v].since \in Nat /\ UnbondingBlocks \in Nat
      BY <3>1, OracleAssumption DEF ValidatorType
    <3>3. /\ LastReset(height) \in Int /\ LastReset(height) <= height
          /\ height < LastReset(height) + InitParams.slashWindow
          /\ InitParams.slashWindow \in Nat
      BY <3>1, ResetIsRecent, WindowType
    <3>4. v \notin gone
      <4>. SUFFICES ASSUME v \in gone PROVE FALSE  OBVIOUS
      <4>1. /\ staking[v].status = "unbonding"
            /\ height >= staking[v].since + UnbondingBlocks
        BY DEF Mature
      <4>. QED  BY <3>1, <3>2, <3>3, <4>1 DEF FixedWindow
    <3>5. staking'[v] =
            LET val == staking[v]
            IN  IF val.status = "bonded" /\ ~Eligible(val)
                THEN [val EXCEPT !.status = "unbonding", !.since = height]
                ELSE IF val.status = "unbonding" /\ Eligible(val)
                     THEN [val EXCEPT !.status = "bonded"]
                ELSE val
      BY <3>1, <3>4 DEF StakingEndBlock
    <3>6. CASE staking[v].status = "bonded" /\ ~Eligible(staking[v])
      <4>1. staking'[v] = [staking[v] EXCEPT !.status = "unbonding", !.since = height]
        BY <3>5, <3>6
      <4>2. staking'[v].status = "unbonding" /\ staking'[v].since = height
        BY <3>1, <4>1 DEF ValidatorType
      <4>. QED  BY <3>1, <3>3, <4>2
    <3>7. CASE staking[v].status = "unbonding" /\ Eligible(staking[v])
      <4>1. staking'[v] = [staking[v] EXCEPT !.status = "bonded"]
        BY <3>5, <3>7
      <4>2. staking'[v].status = "bonded"  BY <3>1, <4>1 DEF ValidatorType
      <4>. QED  BY <4>2
    <3>8. CASE /\ ~(staking[v].status = "bonded" /\ ~Eligible(staking[v]))
               /\ ~(staking[v].status = "unbonding" /\ Eligible(staking[v]))
      <4>1. staking'[v] = staking[v]  BY <3>5, <3>8
      <4>. QED  BY <3>1, <4>1
    <3>. QED  BY <3>6, <3>7, <3>8
  <2>. QED  BY <1>2, <2>1, <2>2
<1>5. LastReset(height') = LastReset(height)  BY DEF LastReset
<1>6. CountedRecently'  BY <1>4, <1>5 DEF CountedRecently, LastReset
<1>. QED  BY <1>3, <1>6
(* Slashing leaves a validator of the right type and the same status. *)
LEMMA SlashType ==
    ASSUME CounterTypes, NEW v \in Validators
    PROVE  Slash(v) \in ValidatorType
<1>1. params.slashFraction \in Int
  BY ParamsAssumption DEF CounterTypes, ParamsType
<1>2. staking[v] \in ValidatorType  BY DEF CounterTypes
<1>3. staking[v].tokens \in Int  BY <1>2 DEF ValidatorType
<1> DEFINE w == TokensToPower(staking[v].tokens)
           x == w * PowerReduction * params.slashFraction
<1>0. w \in Int  BY <1>3, OracleAssumption DEF TokensToPower
<1>. HIDE DEF w
<1>4. x \in Int  BY <1>0, <1>1, OracleAssumption
<1>. HIDE DEF x
<1>5. Abs(x) \in Int /\ Abs(Prec) \in Nat \ {0}  BY <1>4, PrecAssumption DEF Abs
<1>6. Abs(x) \div Abs(Prec) \in Int  BY <1>5
<1>7. TruncateInt(x) \in Int  BY <1>6 DEF TruncateInt, TruncDiv
<1>8. Slash(v) = [staking[v] EXCEPT !.tokens = staking[v].tokens - TruncateInt(x)]
  BY <1>2 DEF Slash, x, w, ValidatorType
<1>9. staking[v].tokens - TruncateInt(x) \in Int  BY <1>3, <1>7
<1>. QED  BY <1>2, <1>8, <1>9 DEF ValidatorType

(* BeginBlocker keeps the invariant: it moves the last reset only in the   *)
(* step that removes every counter.                                        *)
LEMMA BeginBlockKeeps ==
    ASSUME FixedWindow, PInv, NEW gap, BeginBlock(gap) \/ BeginBlockSlash(gap)
    PROVE  PInv'
<1>. USE DEF PInv
<1>1. height \in Nat /\ height' = height + 1 /\ height' \in Nat
  BY DEF BeginBlock, BeginBlockSlash, NextBlock, CounterTypes
<1>2. params' = params /\ params.slashWindow = InitParams.slashWindow
  BY WindowType DEF BeginBlock, BeginBlockSlash, CounterTypes
<1>3. CASE BeginBlock(gap)
  <2>1. counters' = counters /\ staking' = staking
    BY <1>3 DEF BeginBlock, ballotVars
  <2>2. ~IsPeriodLastBlock(height + 1, InitParams.slashWindow)
    BY <1>1, <1>2, <1>3 DEF BeginBlock
  <2>3. LastReset(height + 1) = LastReset(height)
    BY <1>1, <2>2, ResetKept
  <2>4. CounterTypes'  BY <1>1, <1>2, <2>1 DEF CounterTypes
  <2>5. CountedRecently'  BY <1>1, <2>1, <2>3 DEF CountedRecently, LastReset
  <2>. QED  BY <2>4, <2>5
<1>4. CASE BeginBlockSlash(gap)
  <2>1. DOMAIN counters' = {}
    <3>1. counters' = Restrict(counters, {v \in DOMAIN counters : TotalVotes(counters[v]) = 0})
      BY <1>4 DEF BeginBlockSlash, CountersAfterReset
    <3>2. {v \in DOMAIN counters : TotalVotes(counters[v]) = 0} = {}
      BY DEF CounterTypes
    <3>. QED  BY <3>1, <3>2 DEF Restrict
  <2>2. staking' \in [Validators -> ValidatorType]
    <3>1. staking' = [v \in Validators |-> IF v \in Slashed THEN Slash(v) ELSE staking[v]]
      BY <1>4 DEF BeginBlockSlash
    <3>2. \A v \in Validators : Slash(v) \in ValidatorType /\ staking[v] \in ValidatorType
      BY SlashType DEF CounterTypes
    <3>. QED  BY <3>1, <3>2
  <2>3. CounterTypes'  BY <1>1, <1>2, <2>1, <2>2 DEF CounterTypes
  <2>4. CountedRecently'  BY <2>1 DEF CountedRecently
  <2>. QED  BY <2>3, <2>4
<1>. QED  BY <1>3, <1>4

(* The messages of staking keep it: they neither remove a validator nor    *)
(* make a counted one unbond.                                              *)
LEMMA StakingKeeps ==
    ASSUME FixedWindow, PInv, NEW v \in Validators,
           Jail(v) \/ Unjail(v) \/ CreateValidator(v)
    PROVE  PInv'
<1>. USE DEF PInv
<1>1. counters' = counters /\ height' = height /\ params' = params
  BY DEF Jail, Unjail, CreateValidator, ballotVars, blockVars
<1>2. staking[v] \in ValidatorType /\ staking \in [Validators -> ValidatorType]
      /\ height \in Nat
  BY DEF CounterTypes
<1>3. CASE Jail(v) \/ Unjail(v)
  <2>1. PICK b \in BOOLEAN : staking' = [staking EXCEPT ![v].jailed = b]
    BY <1>3 DEF Jail, Unjail
  <2>2. [staking[v] EXCEPT !.jailed = b] \in ValidatorType
    BY <1>2 DEF ValidatorType
  <2>3. staking' \in [Validators -> ValidatorType]
    BY <1>2, <2>1, <2>2
  <2>4. \A w \in Validators : /\ staking'[w].status = staking[w].status
                             /\ staking'[w].since = staking[w].since
    BY <1>2, <2>1 DEF ValidatorType
  <2>5. CounterTypes'  BY <1>1, <2>3 DEF CounterTypes
  <2>6. CountedRecently'
    BY <1>1, <2>4 DEF CountedRecently, CounterTypes, LastReset
  <2>. QED  BY <2>5, <2>6
<1>4. CASE CreateValidator(v)
  <2> DEFINE new == [status |-> "unbonding", jailed |-> FALSE,
                     since |-> height, tokens |-> InitTokens[v]]
  <2>1. staking' = [staking EXCEPT ![v] = new] /\ staking[v].status = "removed"
    BY <1>4 DEF CreateValidator
  <2>2. new \in ValidatorType
    BY <1>2, OracleAssumption DEF ValidatorType
  <2>. HIDE DEF new
  <2>3. staking' \in [Validators -> ValidatorType]  BY <1>2, <2>1, <2>2
  <2>4. v \notin DOMAIN counters  BY <2>1 DEF CountedRecently
  <2>5. \A w \in DOMAIN counters : staking'[w] = staking[w]
    BY <1>2, <2>1, <2>4 DEF CounterTypes
  <2>6. CounterTypes'  BY <1>1, <2>3 DEF CounterTypes
  <2>7. CountedRecently'  BY <1>1, <2>5 DEF CountedRecently, LastReset
  <2>. QED  BY <2>6, <2>7
<1>. QED  BY <1>3, <1>4

(* Steps that leave the counters, the validators and the height alone keep *)
(* it too.                                                                 *)
LEMMA OtherKeeps ==
    ASSUME PInv, UNCHANGED <<height, counters, staking>>,
           params' \in {InitParams} \cup ParamsProposals
    PROVE  PInv'
BY DEF PInv, CounterTypes, CountedRecently, LastReset

(* The invariant is inductive. *)
LEMMA PInvInductive ==
    ASSUME FixedWindow
    PROVE  /\ Init => PInv
           /\ PInv /\ [Next]_vars => PInv'
<1>1. ASSUME Init PROVE PInv
  <2>1. counters = EmptyStore /\ height = 0 /\ params = InitParams /\ staking = InitStaking
    BY <1>1 DEF Init
  <2>2. DOMAIN counters = {}  BY <2>1 DEF EmptyStore
  <2>3. \A v \in Validators : InitStaking[v] \in ValidatorType
    BY OracleAssumption DEF InitStaking, ValidatorType
  <2>4. staking \in [Validators -> ValidatorType]
    BY <2>1, <2>3 DEF InitStaking
  <2>. QED  BY <2>1, <2>2, <2>4 DEF PInv, CounterTypes, CountedRecently
<1>2. ASSUME PInv, [Next]_vars PROVE PInv'
  <2>. USE <1>2
  <2>0. params \in {InitParams} \cup ParamsProposals  BY DEF PInv, CounterTypes
  <2>1. ASSUME NEW gap, BeginBlock(gap) \/ BeginBlockSlash(gap) PROVE PInv'
    BY <2>1, BeginBlockKeeps
  <2>2. CASE BeginBlockPanic \/ UNCHANGED vars
    BY <2>0, <2>2, OtherKeeps DEF BeginBlockPanic, vars, blockVars, ballotVars
  <2>3. ASSUME NEW f, NEW v, NEW er, AggregateExchangeRateVote(f, v, er) PROVE PInv'
    BY <2>0, <2>3, OtherKeeps DEF AggregateExchangeRateVote, blockVars
  <2>4. ASSUME NEW v, NEW f, DelegateFeedConsent(v, f) PROVE PInv'
    BY <2>0, <2>4, OtherKeeps DEF DelegateFeedConsent, blockVars, ballotVars
  <2>5. ASSUME NEW p \in ParamsProposals, UpdateParams(p) PROVE PInv'
    BY <2>5, OtherKeeps DEF UpdateParams, blockVars, ballotVars
  <2>6. ASSUME NEW v \in Faulty, Jail(v) \/ Unjail(v) \/ CreateValidator(v) PROVE PInv'
    BY <2>6, StakingKeeps, OracleAssumption
  <2>7. ASSUME NEW gone \in SUBSET Mature, EndBlock(gone) PROVE PInv'
    BY <2>7, EndBlockKeeps DEF EndBlock, ballotVars
  <2>8. ASSUME NEW gone \in SUBSET Mature, EndBlockTally(gone) PROVE PInv'
    <3>1. /\ UNCHANGED <<height, params>>
          /\ staking' = StakingEndBlock(gone)
          /\ \E ref : counters' = CountersAfter(StakingEndBlock(gone), ref)
      BY <2>8 DEF EndBlockTally
    <3>. QED  BY <3>1, EndBlockKeeps
  <2>. QED
    BY <2>1, <2>2, <2>3, <2>4, <2>5, <2>6, <2>7, <2>8 DEF Next, OtherStep
<1>. QED  BY <1>1, <1>2

(* A validator with a penalty counter still exists, whatever is jailed,    *)
(* unjailed, removed and created between the blocks.                       *)
THEOREM CountedValidatorsExist ==
    ASSUME FixedWindow
    PROVE  Spec => []CountersHaveValidators
<1>1. PInv => CountersHaveValidators
  BY DEF PInv, CountedRecently, CountersHaveValidators
<1>. QED  BY <1>1, PInvInductive, PTL DEF Spec

(* SlashAndResetCounters never panics: the chain does not halt. *)
THEOREM SlashNeverPanics ==
    ASSUME FixedWindow
    PROVE  Spec => []~halted
<1> DEFINE J == PInv /\ ~halted
<1>1. Init => J  BY PInvInductive DEF Init
<1>2. ASSUME J, [Next]_vars PROVE J'
  <2>1. PInv'  BY <1>2, PInvInductive
  <2>2. ~BeginBlockPanic
    BY <1>2 DEF PInv, CountedRecently, BeginBlockPanic, Underperforming
  <2>3. halted' = halted
    BY <1>2, <2>2 DEF Next, OtherStep, vars, BeginBlock, BeginBlockSlash,
       AggregateExchangeRateVote, DelegateFeedConsent, UpdateParams, Jail,
       Unjail, CreateValidator, EndBlock, EndBlockTally
  <2>. QED  BY <1>2, <2>1, <2>3
<1>3. J => ~halted  OBVIOUS
<1>. QED  BY <1>1, <1>2, <1>3, PTL DEF Spec
=============================================================================
