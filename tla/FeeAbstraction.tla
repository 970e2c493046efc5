--------------------------- MODULE FeeAbstraction ---------------------------
(***************************************************************************)
(* x/feeabstraction: an account that cannot pay a fee in the native coin   *)
(* pays it in a fee token, at a price that BeginBlocker derives from the   *)
(* oracle's time-weighted averages.                                        *)
(*                                                                         *)
(* The oracle is the abstract feed of PriceFeed, which OracleChain shows   *)
(* x/oracle to implement.  x/bank and x/erc20 are external: an account has *)
(* a balance of coins and, of the coins with a token pair, one of ERC20    *)
(* tokens.  Prices are raw decimals of LegacyDec.                          *)
(***************************************************************************)
EXTENDS PriceFeed, LegacyDec, Sequences

CONSTANTS
    Accounts,         \* the accounts that send transactions
    Coins,            \* the bank denoms of fee tokens
    Native,           \* the native denom: Params.NativeDenom
    Paired,           \* the coins with a registered ERC20 pair
    NativeOracleDenom,
    BaseDenomUnit,    \* the decimals of the native coin
    InitBalance,      \* bound: the coins each account starts with
    InitErc20,        \* bound: and its ERC20 tokens
    Fees,             \* bound: the fees of transactions
    EVMValues,        \* bound: the native amounts that EVM transactions send
    InitFeeParams,    \* the parameters at genesis
    FeeProposals,     \* bound: the parameters governance proposes
    TokenProposals,   \* bound: the fee tokens governance proposes
    MaxBlocks         \* bound: after so many blocks there are no messages,
                      \* and the oracle's rates and targets stay as they are

VARIABLES
    params,       \* Params
    feeTokens,    \* FeeTokenMetadataCollection
    balances,     \* x/bank, by account and denom
    erc20,        \* x/erc20, by account and denom
    collector,    \* the fee collector's coins, by denom
    blocks,       \* how many blocks have begun, up to MaxBlocks
    governed,     \* history: governance acted in this block
    halted        \* BeginBlocker returned an error: the chain has stopped

bankVars == <<balances, erc20, collector>>
moduleVars == <<params, feeTokens>>
feeVars == <<feedVars, moduleVars, bankVars, blocks, governed, halted>>

AllCoins == Coins \cup {Native}

FeeParamsType ==
    [clampFactor : Int, fallbackNativePrice : Int, twapLookbackWindow : Nat,
     enabled : BOOLEAN]

TokenType ==
    [denom : Coins, oracleDenom : Denoms, decimals : Nat, price : Nat,
     enabled : BOOLEAN]

ASSUME FeeAssumption ==
    /\ Native \notin Coins /\ Paired \subseteq Coins
    /\ BaseDenomUnit \in Nat \ {0} /\ MaxBlocks \in Nat
    /\ Fees \subseteq Nat /\ EVMValues \subseteq Nat
    /\ InitBalance \in [Accounts -> [AllCoins -> Nat]]
    /\ InitErc20 \in [Accounts -> [Paired -> Nat]]
    /\ InitFeeParams \in FeeParamsType /\ FeeProposals \subseteq FeeParamsType
    /\ TokenProposals \subseteq Seq(TokenType)

-----------------------------------------------------------------------------
(* CalculateTwaps of x/oracle *)

(* ValidateLookBackSeconds *)
ValidLookBack(window) == window # 0 /\ window <= lookback

(* the snapshots the iteration visits: the ones in the window, and the one *)
(* in effect when the window began                                         *)
Visited(snaps, window) ==
    LET older == {a \in DOMAIN snaps : a > window}
    IN  (DOMAIN snaps \ older) \cup (IF older = {} THEN {} ELSE {Min(older)})

Holding(snaps, window, d) ==
    {a \in Visited(snaps, window) : d \in DOMAIN snaps[a]}

(* timeTraversed at the snapshot of age a *)
Traversed(a, window) == IF a > window THEN window ELSE a

(* timeTraversed at the one of the given ages that comes before age a *)
Previous(ages, window, a) ==
    Max({Traversed(b, window) : b \in {c \in ages : c < a}} \cup {0})

(* mutant: a snapshot weighs since the one visited before it, whether it   *)
(* has the denom or not                                                    *)
CalculateTwapAnyPrevious(snaps, window, d) ==
    LET ages == Holding(snaps, window, d)
        visited == Visited(snaps, window)
        weighted == [a \in ages |-> snaps[a][d] *
                       (Traversed(a, window) - Previous(visited, window, a))]
        duration == Traversed(Max(ages), window)
    IN  IF duration = 0 THEN 0
        ELSE TruncDiv(SumFunctionOnSet(weighted, ages), duration)

(* the average of a denom that some visited snapshot has *)
CalculateTwap(snaps, window, d) ==
    LET ages == Holding(snaps, window, d)
        weighted == [a \in ages |-> snaps[a][d] *
                       (Traversed(a, window) - Previous(ages, window, a))]
        duration == Traversed(Max(ages), window)
    IN  IF duration = 0 THEN 0
        ELSE TruncDiv(SumFunctionOnSet(weighted, ages), duration)

(* the averages of the vote targets; an error counts as no average *)
CalculateTwaps(snaps, window) ==
    [d \in {e \in targets : ValidLookBack(window) /\ Holding(snaps, window, e) # {}} |->
        CalculateTwap(snaps, window, d)]

-----------------------------------------------------------------------------
(* BeginBlocker: CalculateFeeTokenPrices *)

(* mutant: a price outside of the bounds is refused *)
ClampPriceRefused(prevPrice, newPrice, clampFactor) ==
    LET low  == Mul(prevPrice, Prec - clampFactor)
        high == Mul(prevPrice, Prec + clampFactor)
    IN  IF prevPrice = 0 \/ clampFactor = 0 THEN newPrice
        ELSE IF newPrice < low \/ newPrice > high THEN prevPrice
        ELSE newPrice

ClampPrice(prevPrice, newPrice, clampFactor) ==
    LET low  == Mul(prevPrice, Prec - clampFactor)
        high == Mul(prevPrice, Prec + clampFactor)
    IN  IF prevPrice = 0 \/ clampFactor = 0 THEN newPrice
        ELSE IF newPrice < low THEN low
        ELSE IF newPrice > high THEN high
        ELSE newPrice

BaseTokenPrice(twaps) ==
    IF NativeOracleDenom \in DOMAIN twaps THEN twaps[NativeOracleDenom]
    ELSE params.fallbackNativePrice

TokenTwap(twaps, token) ==
    IF token.oracleDenom \in DOMAIN twaps THEN twaps[token.oracleDenom] ELSE 0

(* CalculateTokenPrice refuses a zero base *)
PriceFails(twaps, token) ==
    token.enabled /\ TokenTwap(twaps, token) # 0 /\ BaseTokenPrice(twaps) = 0

(* mutant: a token without an average keeps its price *)
UpdatedTokenKept(twaps, token) ==
    LET twap == TokenTwap(twaps, token)
    IN  IF ~token.enabled \/ twap = 0 THEN token
        ELSE [token EXCEPT !.price = ClampPrice(@, Quo(BaseTokenPrice(twaps), twap),
                                                params.clampFactor)]

(* a turn of calculatePriceTokens' loop *)
UpdatedToken(twaps, token) ==
    LET twap == TokenTwap(twaps, token)
    IN  IF ~token.enabled THEN token
        ELSE IF twap = 0 THEN [token EXCEPT !.enabled = FALSE, !.price = 0]
        ELSE [token EXCEPT !.price = ClampPrice(@, Quo(BaseTokenPrice(twaps), twap),
                                                params.clampFactor)]

(* the error of calculatePriceTokens *)
Fails(twaps) ==
    params.enabled /\ \E i \in DOMAIN feeTokens : PriceFails(twaps, feeTokens[i])

(* the fee tokens CalculateFeeTokenPrices saves *)
UpdatedTokens(twaps) ==
    IF params.enabled
    THEN [i \in DOMAIN feeTokens |-> UpdatedToken(twaps, feeTokens[i])]
    ELSE feeTokens

(* the averages of the block that is being executed *)
CurrentTwaps == CalculateTwaps(snapshots, params.twapLookbackWindow)

(* the blocks of the bound are over *)
Calm == blocks = MaxBlocks

(* the oracle's BeginBlocker, then the fee module's *)
BeginBlock(gap) ==
    /\ ~halted
    /\ NewBlock(gap)
    /\ Calm => rates' = rates
    /\ UNCHANGED <<params, bankVars, halted>>
    /\ \E twaps \in {CurrentTwaps'} :
          ~Fails(twaps) /\ feeTokens' = UpdatedTokens(twaps)
    /\ blocks' = IF Calm THEN blocks ELSE blocks + 1
    /\ governed' = FALSE

(* the error of BeginBlocker stops the chain *)
BeginBlockFails(gap) ==
    /\ ~halted
    /\ phase = "idle"
    /\ Fails(CalculateTwaps(Aged(snapshots, gap), params.twapLookbackWindow))
    /\ halted' = TRUE
    /\ UNCHANGED <<feedVars, moduleVars, bankVars, blocks, governed>>

EndBlock ==
    /\ ~halted
    /\ QuietEnd \/ Tally
    /\ Calm => rates' = rates /\ targets' = targets
    /\ UNCHANGED <<moduleVars, bankVars, blocks, governed, halted>>

-----------------------------------------------------------------------------
(* Transactions.  One whose fee cannot be paid is refused: not a step.     *)

(* mutant: the price is the other way round *)
CalculateTokenAmountInverted(price, amount, decimalsBase, decimalsOther) ==
    IF amount = 0 \/ price = 0 THEN 0
    ELSE Mul(Quo(Quo(DecFromInt(amount), DecFromInt(10 ^ decimalsBase)), price),
             DecFromInt(10 ^ decimalsOther))

CalculateTokenAmountWithDecimals(price, amount, decimalsBase, decimalsOther) ==
    IF amount = 0 \/ price = 0 THEN 0
    ELSE Mul(Mul(Quo(DecFromInt(amount), DecFromInt(10 ^ decimalsBase)), price),
             DecFromInt(10 ^ decimalsOther))

TokenAmount(token, fee) ==
    RoundInt(CalculateTokenAmountWithDecimals(token.price, fee, BaseDenomUnit,
                                              token.decimals))

(* mutant: the ERC20 balance is not compared with the amount *)
HasTokensUnchecked(a, denom, amount) ==
    balances[a][denom] >= amount \/ denom \in Paired

(* convertERC20ToNative: enough coins, or enough ERC20 tokens of a pair *)
HasTokens(a, denom, amount) ==
    \/ balances[a][denom] >= amount
    \/ denom \in Paired /\ erc20[a][denom] >= amount

(* the fee tokens of convertERC20ForFees' loop the account can pay with *)
Payable(a, fee) ==
    {i \in DOMAIN feeTokens :
        /\ feeTokens[i].enabled
        /\ TokenAmount(feeTokens[i], fee) # 0
        /\ HasTokens(a, feeTokens[i].denom, TokenAmount(feeTokens[i], fee))}

(* DeductFees: coins go to the fee collector *)
Charge(a, denom, amount) ==
    /\ balances' = [balances EXCEPT ![a][denom] = @ - amount]
    /\ collector' = [collector EXCEPT ![denom] = @ + amount]
    /\ UNCHANGED erc20

(* the fee in a token; without enough coins of it ConvertERC20 turns ERC20 *)
(* tokens into the amount that is then deducted                            *)
ChargeToken(a, denom, amount) ==
    \/ balances[a][denom] >= amount /\ Charge(a, denom, amount)
    \/ /\ balances[a][denom] < amount
       /\ erc20' = [erc20 EXCEPT ![a][denom] = @ - amount]
       /\ collector' = [collector EXCEPT ![denom] = @ + amount]
       /\ UNCHANGED balances

(* ConvertNativeFee, then the deduction of what it returns.  The fee is one *)
(* amount of the native coin, which is all that the fee market's decorator *)
(* and the EVM pass on; a conversion that x/erc20 refuses is an error, and *)
(* the transaction no step.                                                *)
PayFee(a, fee) ==
    IF fee = 0 \/ ~params.enabled \/ balances[a][Native] >= fee
    THEN balances[a][Native] >= fee /\ Charge(a, Native, fee)
    ELSE /\ Payable(a, fee) # {}
         /\ LET token == feeTokens[Min(Payable(a, fee))]
            IN  ChargeToken(a, token.denom, TokenAmount(token, fee))

(* a transaction of messages: checkDeductFee.  With a fee grant, which     *)
(* x/feegrant checks, a is the granter.                                    *)
CheckDeductFee(a, fee) ==
    /\ ~halted /\ ~Calm
    /\ phase = "txs"
    /\ PayFee(a, fee)
    /\ UNCHANGED <<feedVars, moduleVars, blocks, governed, halted>>

(* an EVM transaction: the value is covered before the fee is deducted     *)
(* (CanTransfer) and after it (VerifyAccountBalance)                       *)
MonoAnteHandle(a, fee, value) ==
    /\ ~halted /\ ~Calm
    /\ phase = "txs"
    /\ balances[a][Native] >= value
    /\ PayFee(a, fee)
    /\ balances'[a][Native] >= value
    /\ UNCHANGED <<feedVars, moduleVars, blocks, governed, halted>>

(* Params.Validate *)
ValidFeeParams(p) ==
    /\ p.clampFactor \in 0 .. Prec
    /\ p.fallbackNativePrice > 0
    /\ p.twapLookbackWindow # 0

(* FeeTokenMetadataCollection.Validate; at most 18 decimals, which is what *)
(* the native coin has                                                     *)
ValidFeeTokens(tokens) ==
    /\ \A i \in DOMAIN tokens :
          tokens[i].decimals \in 1 .. BaseDenomUnit /\ tokens[i].price > 0
    /\ \A i, j \in DOMAIN tokens : tokens[i].denom = tokens[j].denom => i = j

(* InitGenesis validates the parameters.  The powers of ten are positive,  *)
(* which the provers do not know.                                          *)
ASSUME FeeGenesisAssumption ==
    /\ ValidFeeParams(InitFeeParams)
    /\ \A n \in 0 .. BaseDenomUnit : 10 ^ n > 0

UpdateParams(p) ==
    /\ ~halted /\ ~Calm
    /\ phase = "txs"
    /\ ValidFeeParams(p) /\ ValidLookBack(p.twapLookbackWindow)
    /\ params' = p
    /\ governed' = TRUE
    /\ UNCHANGED <<feedVars, feeTokens, bankVars, blocks, halted>>

UpdateFeeTokens(tokens) ==
    /\ ~halted /\ ~Calm
    /\ phase = "txs"
    /\ ValidFeeTokens(tokens)
    /\ \A i \in DOMAIN tokens : tokens[i].oracleDenom \in targets
    /\ feeTokens' = tokens
    /\ governed' = TRUE
    /\ UNCHANGED <<feedVars, params, bankVars, blocks, halted>>

(* governance changes the oracle's lookback, which no one compares with    *)
(* the window of the fee module                                            *)
UpdateOracleParams ==
    /\ ~halted /\ ~Calm
    /\ SetLookback
    /\ governed' = TRUE
    /\ UNCHANGED <<moduleVars, bankVars, blocks, halted>>

(* ExportGenesis and InitGenesis, which validates what was exported *)
RestartFromGenesis(gap) ==
    /\ ~halted /\ ~Calm
    /\ Restart(gap)
    /\ ValidFeeParams(params) /\ ValidFeeTokens(feeTokens)
    /\ UNCHANGED <<moduleVars, bankVars, blocks, governed, halted>>
-----------------------------------------------------------------------------
(* the default genesis has no fee tokens *)
FeeInit ==
    /\ Init
    /\ params = InitFeeParams /\ feeTokens = <<>>
    /\ balances = InitBalance /\ erc20 = InitErc20
    /\ collector = [c \in AllCoins |-> 0]
    /\ blocks = 0 /\ governed = FALSE /\ halted = FALSE

FeeNext ==
    \/ \E gap \in Gaps : BeginBlock(gap) \/ BeginBlockFails(gap) \/ RestartFromGenesis(gap)
    \/ EndBlock
    \/ \E a \in Accounts, fee \in Fees :
          \/ \E value \in EVMValues : MonoAnteHandle(a, fee, value)
          \/ CheckDeductFee(a, fee)
    \/ \E p \in FeeProposals : UpdateParams(p)
    \/ \E tokens \in TokenProposals : UpdateFeeTokens(tokens)
    \/ UpdateOracleParams

(* Blocks are produced for ever, and their times differ by at least a      *)
(* millisecond: the Unix second advances again and again.                  *)
Fairness ==
    /\ WF_feeVars(EndBlock)
    /\ SF_feeVars(\E gap \in Gaps \ {0} : BeginBlock(gap) \/ BeginBlockFails(gap))

FeeSpec == FeeInit /\ [][FeeNext]_feeVars /\ Fairness
-----------------------------------------------------------------------------
(* The types of the module's collections and of the ledgers: no balance    *)
(* that fees are taken from becomes negative.                              *)
FeeTypeOK ==
    /\ params \in FeeParamsType
    /\ feeTokens \in Seq(TokenType)
    /\ balances \in [Accounts -> [AllCoins -> Nat]]
    /\ erc20 \in [Accounts -> [Paired -> Nat]]
    /\ collector \in [AllCoins -> Nat]
    /\ blocks \in 0 .. MaxBlocks
    /\ governed \in BOOLEAN /\ halted \in BOOLEAN

(* the rate in effect s seconds ago, as far as the window knows it *)
RateAgo(window, d, s) ==
    snapshots[Min({a \in Holding(snapshots, window, d) : a >= s})][d]

(* CalculateTwaps computes, in one pass over snapshots of which some lack  *)
(* the denom, the average over every second of the window of the rate that *)
(* was in effect then.                                                     *)
TwapIsAverage ==
    \A window \in 1 .. lookback, d \in Denoms :
        LET ages == Holding(snapshots, window, d)
            seconds == 1 .. Traversed(Max(ages), window)
        IN  ages # {} /\ seconds # {} =>
               CalculateTwap(snapshots, window, d) =
                  TruncDiv(SumFunctionOnSet([s \in seconds |-> RateAgo(window, d, s)],
                                            seconds),
                           Max(seconds))

(* a pays a fee in this step *)
Pays(a, fee) ==
    \/ CheckDeductFee(a, fee)
    \/ \E value \in EVMValues : MonoAnteHandle(a, fee, value)

Collected(c) == collector'[c] - collector[c]

Holdings(a, c) == balances[a][c] + IF c \in Paired THEN erc20[a][c] ELSE 0

(* The amount of a token times Prec * 10 ^ BaseDenomUnit may differ from   *)
(* the fee at its price by half a unit of the token, by half a raw unit of *)
(* the product with the price, and by half a raw unit, and a digit that is *)
(* truncated before, of the quotient that the price multiplies.            *)
RoundingError(token) ==
    LET unit  == 10 ^ BaseDenomUnit
        other == 10 ^ token.decimals
    IN  (Prec * Prec * Prec * unit + Prec * Prec * unit * other
           + token.price * unit * other * (Prec + 2)) \div (2 * Prec * Prec)

(* Whatever the account holds, and in whichever form, it pays a fee in     *)
(* exactly one denomination, never nothing, all of it to the collector: in *)
(* the native coin the fee itself, in a token the fee at the token's price *)
(* to within the rounding error, after three roundings and two changes of  *)
(* decimals.                                                               *)
FeeIsWorth ==
    [][\A a \in Accounts, fee \in Fees \ {0} :
          Pays(a, fee) =>
             \E c \in AllCoins :
                /\ Collected(c) > 0
                /\ Holdings(a, c)' = Holdings(a, c) - Collected(c)
                /\ \A b \in AllCoins \ {c} :
                      Collected(b) = 0 /\ Holdings(a, b)' = Holdings(a, b)
                /\ \/ c = Native /\ Collected(c) = fee
                   \/ \E i \in DOMAIN feeTokens :
                         /\ feeTokens[i].denom = c
                         /\ Abs(Collected(c) * Prec * 10 ^ BaseDenomUnit
                                  - feeTokens[i].price * fee * 10 ^ feeTokens[i].decimals)
                               <= RoundingError(feeTokens[i])]_feeVars

(* A price is never used after the data behind it is gone: a fee is paid   *)
(* in a token only while the oracle has an average of it, through changes  *)
(* of the vote targets, of the lookback and of the window, disabling and   *)
(* enabling of the module, and restarts; or in the very block in which     *)
(* governance acted.                                                       *)
PricedWhenUsed ==
    [][\A i \in DOMAIN feeTokens :
          collector'[feeTokens[i].denom] # collector[feeTokens[i].denom] /\ ~governed =>
             TokenTwap(CurrentTwaps, feeTokens[i]) # 0]_feeVars

(* A fee is multiplied by the price: what is paid is worth the fee when    *)
(* the price times the token's average is the native coin's, up to the     *)
(* rounding of the price.  Or the clamp leaves the price where it is,      *)
(* because its bound is less than half a raw unit away.                    *)
AtWorth(token) ==
    LET twap == TokenTwap(CurrentTwaps, token)
    IN  \/ /\ twap # 0
           /\ 2 * Prec * Abs(token.price * twap - BaseTokenPrice(CurrentTwaps) * Prec)
                 <= twap * (Prec + 2)
        \/ 2 * token.price * params.clampFactor <= Prec

(* Once the oracle's rates and governance rest, the clamped prices of the  *)
(* enabled tokens reach the ones at which payments are worth the fees,     *)
(* however far they were, and stay; or the chain has halted.               *)
PriceConverges ==
    <>[](\/ halted \/ phase = "idle" \/ ~params.enabled
         \/ \A i \in DOMAIN feeTokens :
               feeTokens[i].enabled => AtWorth(feeTokens[i]))

(* README: "price_in_gas_token = price_in_usd / gas_price_in_usd": the     *)
(* price that BeginBlocker stores of an enabled token is the quotient of   *)
(* the token's average and the native coin's, clamped.                     *)
PriceInGasToken ==
    [][phase = "idle" /\ phase' = "txs" /\ params.enabled =>
         \A i \in DOMAIN feeTokens :
            feeTokens'[i].enabled =>
               feeTokens'[i].price =
                  ClampPrice(feeTokens[i].price,
                             Quo(TokenTwap(CurrentTwaps', feeTokens[i]),
                                 BaseTokenPrice(CurrentTwaps')),
                             params.clampFactor)]_feeVars

(* README: "FallbackNativePrice is the fallback price for the native token *)
(* if the oracle price is not available": no price of the native token     *)
(* makes BeginBlocker fail.                                                *)
FallbackPreventsHalt == ~halted
=============================================================================
