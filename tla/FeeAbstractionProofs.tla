------------------------ MODULE FeeAbstractionProofs ------------------------
(***************************************************************************)
(* Proofs about the fee module over the abstract price feed: the types, so *)
(* that no balance becomes negative; that CalculateTwaps averages the      *)
(* rates of every second; that a fee is paid in one denomination, at its   *)
(* price to within the rounding error; and that a fee is never paid in a   *)
(* token whose oracle price is gone.                                       *)
(***************************************************************************)
EXTENDS FeeAbstraction, SetLemmas, DecLemmas

-----------------------------------------------------------------------------
(* The averages *)

(* snapshots by age, of rates that are naturals *)
SnapsOK(snaps) ==
    /\ DOMAIN snaps \subseteq 0 .. Horizon
    /\ \A a \in DOMAIN snaps : \A d \in DOMAIN snaps[a] : snaps[a][d] \in Nat

LEMMA TraversedIs ==
    ASSUME NEW window \in Nat, NEW a \in Nat
    PROVE  /\ Traversed(a, window) \in Nat
           /\ Traversed(a, window) <= a /\ Traversed(a, window) <= window
           /\ a <= window => Traversed(a, window) = a
           /\ \A b \in Nat : b < a => Traversed(b, window) <= Traversed(a, window)
BY DEF Traversed

(* Previous is the largest time traversed before a, or 0. *)
LEMMA PreviousIs ==
    ASSUME NEW ages \in SUBSET Nat, IsFiniteSet(ages), NEW window \in Nat, NEW a \in Nat
    PROVE  LET p == Previous(ages, window, a)
           IN  /\ p \in Nat /\ p <= Traversed(a, window)
               /\ \A b \in ages : b < a => Traversed(b, window) <= p
               /\ \/ p = 0
                  \/ \E b \in ages : b < a /\ p = Traversed(b, window)
<1> DEFINE f == [b \in ages |-> Traversed(b, window)]
           before == {c \in ages : c < a}
           S == {Traversed(b, window) : b \in before} \cup {0}
           p == Previous(ages, window, a)
<1>1. \A b \in ages : f[b] = Traversed(b, window) /\ f[b] \in Nat
  BY TraversedIs
<1>2. S = {f[b] : b \in before} \cup {0}
  OBVIOUS
<1>3. IsFiniteSet(S) /\ S # {} /\ S \in SUBSET Nat
  <2>1. IsFiniteSet(before)
    BY FS_Subset
  <2> HIDE DEF f
  <2>2. IsFiniteSet({f[b] : b \in before})
    BY <2>1, FiniteImage
  <2>3. IsFiniteSet({0})
    BY FS_Singleton
  <2>4. IsFiniteSet(S)
    BY <1>2, <2>2, <2>3, FS_Union
  <2>5. S \subseteq Nat
    BY <1>1, <1>2
  <2> QED  BY <2>4, <2>5
<1>4. p = Max(S)
  BY DEF Previous
<1>5. p \in S /\ \A y \in S : y <= p
  <2> HIDE DEF S, p
  <2> QED  BY <1>3, <1>4, MaxIsElement
<1> HIDE DEF p
<1>6. p = 0 \/ \E b \in ages : b < a /\ p = Traversed(b, window)
  BY <1>5
<1>7. \A b \in ages : b < a => Traversed(b, window) <= p
  BY <1>5
<1>8. p \in Nat /\ p <= Traversed(a, window)
  BY <1>6, TraversedIs
<1> QED  BY <1>6, <1>7, <1>8 DEF p

(* The iteration visits the snapshots of the window and at most one that   *)
(* is older.                                                               *)
LEMMA HoldingIs ==
    ASSUME NEW snaps, SnapsOK(snaps), NEW window \in Nat, NEW d
    PROVE  LET ages == Holding(snaps, window, d)
           IN  /\ ages \in SUBSET Nat /\ IsFiniteSet(ages)
               /\ \A a \in ages : a \in DOMAIN snaps /\ snaps[a][d] \in Nat
               /\ \A a, b \in ages : a > window /\ b > window => a = b
               /\ ages # {} => Max(ages) \in ages /\ \A a \in ages : a <= Max(ages)
<1> DEFINE ages == Holding(snaps, window, d)
           older == {a \in DOMAIN snaps : a > window}
<1>1. DOMAIN snaps \subseteq Nat /\ IsFiniteSet(DOMAIN snaps)
  <2>1. 0 .. Horizon \subseteq Nat /\ IsFiniteSet(0 .. Horizon)
    BY FeedAssumption, FS_Interval
  <2> QED  BY <2>1, FS_Subset DEF SnapsOK
<1>2. Visited(snaps, window) =
         (DOMAIN snaps \ older) \cup (IF older = {} THEN {} ELSE {Min(older)})
  BY DEF Visited
<1>3. older # {} => Min(older) \in older
  <2>1. older \in SUBSET Nat
    BY <1>1
  <2> HIDE DEF older
  <2> QED  BY <2>1, MinIsElement
<1>4. ages \subseteq Visited(snaps, window) /\ \A a \in ages : d \in DOMAIN snaps[a]
  BY DEF Holding
<1> HIDE DEF ages
<1>5. ages \subseteq DOMAIN snaps
  BY <1>2, <1>3, <1>4
<1>6. ages \in SUBSET Nat /\ IsFiniteSet(ages)
  BY <1>1, <1>5, FS_Subset
<1>7. \A a \in ages : a \in DOMAIN snaps /\ snaps[a][d] \in Nat
  BY <1>4, <1>5 DEF SnapsOK
<1>8. \A a, b \in ages : a > window /\ b > window => a = b
  BY <1>2, <1>4, <1>5
<1>9. ages # {} => Max(ages) \in ages /\ \A a \in ages : a <= Max(ages)
  BY <1>6, MaxIsElement
<1> QED  BY <1>6, <1>7, <1>8, <1>9 DEF ages

(* the weight of the snapshot of age a times its rate *)
Weighted(snaps, window, d) ==
    LET ages == Holding(snaps, window, d)
    IN  [a \in ages |-> snaps[a][d] *
           (Traversed(a, window) - Previous(ages, window, a))]

LEMMA WeightedNat ==
    ASSUME NEW snaps, SnapsOK(snaps), NEW window \in Nat, NEW d,
           NEW a \in Holding(snaps, window, d)
    PROVE  Weighted(snaps, window, d)[a] \in Nat
<1> DEFINE ages == Holding(snaps, window, d)
           t == Traversed(a, window)
           p == Previous(ages, window, a)
           r == snaps[a][d]
<1>1. ages \in SUBSET Nat /\ IsFiniteSet(ages) /\ a \in Nat /\ r \in Nat
  BY HoldingIs
<1>2. t \in Nat /\ p \in Nat /\ p <= t
  <2> HIDE DEF ages
  <2> QED  BY <1>1, PreviousIs, TraversedIs
<1>3. Weighted(snaps, window, d)[a] = r * (t - p)
  BY DEF Weighted
<1> HIDE DEF r, t, p
<1>4. t - p \in Nat
  BY <1>2
<1> QED  BY <1>1, <1>3, <1>4

LEMMA TwapIs ==
    ASSUME NEW snaps, SnapsOK(snaps), NEW window \in Nat, NEW d,
           Holding(snaps, window, d) # {}
    PROVE  LET ages == Holding(snaps, window, d)
               duration == Traversed(Max(ages), window)
               s == SumFunctionOnSet(Weighted(snaps, window, d), ages)
           IN  /\ duration \in Nat /\ s \in Nat
               /\ CalculateTwap(snaps, window, d)
                    = IF duration = 0 THEN 0 ELSE TruncDiv(s, duration)
               /\ CalculateTwap(snaps, window, d) \in Nat
<1> DEFINE ages == Holding(snaps, window, d)
           duration == Traversed(Max(ages), window)
           w == Weighted(snaps, window, d)
           s == SumFunctionOnSet(w, ages)
<1>1. duration \in Nat
  BY HoldingIs, TraversedIs
<1>2. s \in Nat
  <2>1. \A a \in ages : w[a] \in Nat
    BY WeightedNat
  <2>2. IsFiniteSet(ages) /\ ages \in SUBSET ages
    BY HoldingIs
  <2> HIDE DEF w, ages
  <2> QED  BY <2>1, <2>2, SumNat
<1>3. CalculateTwap(snaps, window, d) = IF duration = 0 THEN 0 ELSE TruncDiv(s, duration)
  BY DEF CalculateTwap, Weighted
<1> HIDE DEF duration, s
<1>4. CalculateTwap(snaps, window, d) \in Nat
  BY <1>1, <1>2, <1>3, TruncDivNat
<1> QED  BY <1>1, <1>2, <1>3, <1>4 DEF duration, s

-----------------------------------------------------------------------------
(* The types *)

(* The feed's rates are naturals, and its lookback is one it may have. *)
FeedTyped ==
    /\ lookback \in Lookbacks
    /\ \A d \in DOMAIN rates : rates[d] \in Nat
    /\ SnapsOK(snapshots)

(* FeeTypeOK is inductive together with the types of the feed, with the    *)
(* validity of the parameters (a clamp factor in 0 .. 1 keeps prices from  *)
(* becoming negative) and with the bounds of the decimals.                 *)
FInv ==
    /\ FeeTypeOK
    /\ FeedTyped
    /\ ValidFeeParams(params)
    /\ \A i \in DOMAIN feeTokens : feeTokens[i].decimals \in 1 .. BaseDenomUnit

LEMMA AgedOK ==
    ASSUME NEW snaps, SnapsOK(snaps), NEW gap \in Nat
    PROVE  SnapsOK(Aged(snaps, gap))
<1> DEFINE old == {a \in DOMAIN snaps : a + gap >= Horizon}
           D == {b + gap : b \in DOMAIN snaps \ old}
                   \cup (IF old = {} THEN {} ELSE {Horizon})
           A == Aged(snaps, gap)
<1>1. A = [a \in D |-> IF a < Horizon THEN snaps[a - gap] ELSE snaps[Min(old)]]
  BY DEF Aged
<1>2. Horizon \in Nat /\ DOMAIN snaps \subseteq 0 .. Horizon
  BY FeedAssumption DEF SnapsOK
<1>3. old # {} => Min(old) \in DOMAIN snaps
  <2>1. old \in SUBSET Nat /\ old \subseteq DOMAIN snaps
    BY <1>2
  <2> HIDE DEF old
  <2> QED  BY <2>1, MinIsElement
<1>4. DOMAIN A = D
  BY <1>1
<1>5. ASSUME NEW a \in D
      PROVE  a \in 0 .. Horizon /\ \E b \in DOMAIN snaps : A[a] = snaps[b]
  <2>1. CASE \E b \in DOMAIN snaps \ old : a = b + gap
    <3>1. PICK b \in DOMAIN snaps \ old : a = b + gap
      BY <2>1
    <3>2. a \in Nat /\ a < Horizon /\ a - gap = b
      BY <1>2, <3>1
    <3>3. A[a] = snaps[b]
      <4> HIDE DEF D, A
      <4> QED  BY <1>1, <1>5, <3>2
    <3>4. a \in 0 .. Horizon
      BY <1>2, <3>2
    <3> HIDE DEF A
    <3> QED  BY <3>3, <3>4
  <2>2. CASE old # {} /\ a = Horizon
    <3>1. A[a] = snaps[Min(old)]
      <4>1. ~(a < Horizon)
        BY <1>2, <2>2
      <4> HIDE DEF D, A, old
      <4> QED  BY <1>1, <1>5, <4>1
    <3>2. a \in 0 .. Horizon
      BY <1>2, <2>2
    <3> HIDE DEF A, old
    <3> QED  BY <1>3, <2>2, <3>1, <3>2
  <2> QED  BY <1>5, <2>1, <2>2
<1> HIDE DEF A, D
<1>6. DOMAIN A \subseteq 0 .. Horizon
  BY <1>4, <1>5
<1>7. \A a \in DOMAIN A : \A d \in DOMAIN A[a] : A[a][d] \in Nat
  BY <1>4, <1>5 DEF SnapsOK
<1> QED  BY <1>6, <1>7 DEF SnapsOK, A

LEMMA KeptOK ==
    ASSUME NEW snaps, SnapsOK(snaps)
    PROVE  SnapsOK(Kept(snaps))
<1> DEFINE D == {a \in DOMAIN snaps : a <= lookback}
<1>1. Kept(snaps) = [a \in D |-> snaps[a]]
  BY DEF Kept, Restrict
<1>2. D \subseteq DOMAIN snaps
  OBVIOUS
<1> HIDE DEF D
<1> QED  BY <1>1, <1>2 DEF SnapsOK

LEMMA PublishedOK ==
    ASSUME FeedTyped, NEW x, \A d \in DOMAIN x : x[d] \in Nat
    PROVE  SnapsOK(Published(x))
<1> DEFINE all == [a \in DOMAIN snapshots \cup {0} |-> IF a = 0 THEN x ELSE snapshots[a]]
<1>1. SnapsOK(all)
  BY FeedAssumption DEF FeedTyped, SnapsOK
<1>2. Published(x) = Kept(all)
  BY DEF Published
<1> HIDE DEF all
<1> QED  BY <1>1, <1>2, KeptOK

(* every step of the feed keeps its types *)
LEMMA FeedStepTyped ==
    ASSUME FeedTyped, Next \/ UNCHANGED feedVars
    PROVE  FeedTyped'
<1>1. CASE UNCHANGED feedVars
  BY <1>1 DEF FeedTyped, feedVars
<1>2. ASSUME NEW gap \in Gaps, NewBlock(gap)
      PROVE  FeedTyped'
  <2>1. SnapsOK(snapshots')
    BY <1>2, AgedOK, FeedAssumption DEF FeedTyped, NewBlock
  <2>2. \A d \in DOMAIN rates' : rates'[d] \in Nat
    BY <1>2 DEF FeedTyped, NewBlock, Restrict
  <2> QED  BY <1>2, <2>1, <2>2 DEF FeedTyped, NewBlock
<1>3. ASSUME NEW gap \in Gaps, Restart(gap)
      PROVE  FeedTyped'
  <2>1. SnapsOK(snapshots')
    BY <1>3, AgedOK, KeptOK, FeedAssumption DEF FeedTyped, Restart
  <2> QED  BY <1>3, <2>1 DEF FeedTyped, Restart
<1>4. CASE QuietEnd
  BY <1>4 DEF FeedTyped, QuietEnd
<1>5. CASE Tally
  <2>1. \A d \in DOMAIN rates' : rates'[d] \in Nat
    BY <1>5, FeedAssumption DEF Tally
  <2>2. SnapsOK(snapshots')
    <3>1. SnapsOK(Published(rates'))
      BY <2>1, PublishedOK
    <3> QED  BY <1>5, <3>1 DEF Tally, FeedTyped
  <2> QED  BY <1>5, <2>1, <2>2 DEF FeedTyped, Tally
<1>6. CASE SetLookback
  BY <1>6 DEF FeedTyped, SetLookback
<1> QED  BY <1>1, <1>2, <1>3, <1>4, <1>5, <1>6 DEF Next

(* the averages are naturals *)
TwapsOK(twaps) == \A d \in DOMAIN twaps : twaps[d] \in Nat

LEMMA TwapsNat ==
    ASSUME NEW snaps, SnapsOK(snaps), NEW window \in Nat
    PROVE  TwapsOK(CalculateTwaps(snaps, window))
<1> DEFINE D == {e \in targets : ValidLookBack(window) /\ Holding(snaps, window, e) # {}}
<1>1. CalculateTwaps(snaps, window) = [d \in D |-> CalculateTwap(snaps, window, d)]
  BY DEF CalculateTwaps
<1>2. \A d \in D : CalculateTwap(snaps, window, d) \in Nat
  BY TwapIs
<1> HIDE DEF D
<1> QED  BY <1>1, <1>2 DEF TwapsOK

LEMMA ClampNat ==
    ASSUME NEW prev \in Nat, NEW new \in Nat, NEW factor \in 0 .. Prec
    PROVE  ClampPrice(prev, new, factor) \in Nat
<1>1. Prec - factor \in Nat /\ Prec + factor \in Nat
  BY PrecAssumption
<1>2. Mul(prev, Prec - factor) \in Nat /\ Mul(prev, Prec + factor) \in Nat
  BY <1>1, MulNat
<1> QED  BY <1>2 DEF ClampPrice

(* a token with another price, and one that is switched off *)
LEMMA TokenPrice ==
    ASSUME NEW token \in TokenType, NEW p \in Nat
    PROVE  LET new == [token EXCEPT !.price = p]
           IN  /\ new \in TokenType /\ new.denom = token.denom
               /\ new.oracleDenom = token.oracleDenom
               /\ new.decimals = token.decimals /\ new.enabled = token.enabled
BY DEF TokenType

LEMMA TokenOff ==
    ASSUME NEW token \in TokenType
    PROVE  LET new == [token EXCEPT !.enabled = FALSE, !.price = 0]
           IN  /\ new \in TokenType /\ new.denom = token.denom
               /\ new.decimals = token.decimals /\ ~new.enabled
BY DEF TokenType

(* What the price update does to a token: it stays of its coin and its     *)
(* decimals, has a price that is a natural, and if it is enabled then it   *)
(* has an average.                                                         *)
LEMMA UpdatedTokenType ==
    ASSUME params \in FeeParamsType, ValidFeeParams(params),
           NEW twaps, TwapsOK(twaps), NEW token \in TokenType, ~PriceFails(twaps, token)
    PROVE  LET new == UpdatedToken(twaps, token)
           IN  /\ new \in TokenType /\ new.denom = token.denom
               /\ new.decimals = token.decimals
               /\ new.enabled => TokenTwap(twaps, new) # 0
<1> DEFINE twap == TokenTwap(twaps, token)
<1>1. CASE ~token.enabled
  BY <1>1 DEF UpdatedToken
<1>2. CASE token.enabled /\ twap = 0
  <2> DEFINE off == [token EXCEPT !.enabled = FALSE, !.price = 0]
  <2>1. /\ off \in TokenType /\ off.denom = token.denom
        /\ off.decimals = token.decimals /\ ~off.enabled
    BY TokenOff
  <2>2. UpdatedToken(twaps, token) = off
    BY <1>2 DEF UpdatedToken
  <2> HIDE DEF off
  <2> QED  BY <2>1, <2>2
<1>3. CASE token.enabled /\ twap # 0
  <2> DEFINE base == BaseTokenPrice(twaps)
             price == ClampPrice(token.price, Quo(base, twap), params.clampFactor)
  <2>1. twap \in Nat \ {0} /\ base \in Nat
    BY <1>3 DEF TokenTwap, BaseTokenPrice, TwapsOK, ValidFeeParams, FeeParamsType
  <2>2. token.price \in Nat /\ params.clampFactor \in 0 .. Prec
    BY DEF TokenType, ValidFeeParams
  <2>3. price \in Nat
    <3> HIDE DEF twap, base
    <3> QED  BY <2>1, <2>2, QuoNat, ClampNat
  <2>4. UpdatedToken(twaps, token) = [token EXCEPT !.price = price]
    BY <1>3 DEF UpdatedToken
  <2> HIDE DEF price
  <2>5. LET new == [token EXCEPT !.price = price]
        IN  /\ new \in TokenType /\ new.denom = token.denom
            /\ new.oracleDenom = token.oracleDenom
            /\ new.decimals = token.decimals
    BY <2>3, TokenPrice
  <2> QED  BY <1>3, <2>4, <2>5 DEF TokenTwap
<1> QED  BY <1>1, <1>2, <1>3

LEMMA UpdatedTokensType ==
    ASSUME params \in FeeParamsType, ValidFeeParams(params), feeTokens \in Seq(TokenType),
           NEW twaps, TwapsOK(twaps), ~Fails(twaps)
    PROVE  LET new == UpdatedTokens(twaps)
           IN  /\ new \in Seq(TokenType) /\ DOMAIN new = DOMAIN feeTokens
               /\ \A i \in DOMAIN feeTokens :
                     /\ new[i].denom = feeTokens[i].denom
                     /\ new[i].decimals = feeTokens[i].decimals
                     /\ params.enabled /\ new[i].enabled => TokenTwap(twaps, new[i]) # 0
<1>1. CASE ~params.enabled
  BY <1>1 DEF UpdatedTokens
<1>2. CASE params.enabled
  <2> DEFINE new == [i \in DOMAIN feeTokens |-> UpdatedToken(twaps, feeTokens[i])]
  <2>1. UpdatedTokens(twaps) = new
    BY <1>2 DEF UpdatedTokens
  <2>2. ASSUME NEW i \in DOMAIN feeTokens
        PROVE  /\ new[i] \in TokenType
               /\ new[i].denom = feeTokens[i].denom
               /\ new[i].decimals = feeTokens[i].decimals
               /\ new[i].enabled => TokenTwap(twaps, new[i]) # 0
    <3>1. feeTokens[i] \in TokenType /\ ~PriceFails(twaps, feeTokens[i])
      BY <1>2 DEF Fails
    <3>2. new[i] = UpdatedToken(twaps, feeTokens[i])
      OBVIOUS
    <3> HIDE DEF new
    <3> QED  BY <3>1, <3>2, UpdatedTokenType
  <2>3. DOMAIN new = DOMAIN feeTokens /\ DOMAIN feeTokens = 1 .. Len(feeTokens)
    OBVIOUS
  <2>4. new = [i \in 1 .. Len(feeTokens) |-> new[i]]
    BY <2>3
  <2> HIDE DEF new
  <2>5. new \in [1 .. Len(feeTokens) -> TokenType]
    BY <2>2, <2>3, <2>4
  <2>6. new \in Seq(TokenType)
    <3>1. Len(feeTokens) \in Nat
      OBVIOUS
    <3> QED  BY <2>5, <3>1
  <2> QED  BY <2>1, <2>2, <2>3, <2>6
<1> QED  BY <1>1, <1>2

(* a power of ten that the decimals of a coin stand for *)
LEMMA PowerNat ==
    ASSUME NEW n \in 0 .. BaseDenomUnit
    PROVE  10 ^ n \in Nat \ {0}
<1>1. 10 ^ n > 0
  BY FeeGenesisAssumption
<1>2. 10 ^ n \in Int
  <2>1. n \in Nat
    BY FeeAssumption
  <2> QED  BY <2>1
<1> QED  BY <1>1, <1>2

LEMMA AmountNat ==
    ASSUME NEW token \in TokenType, token.decimals \in 1 .. BaseDenomUnit, NEW fee \in Nat
    PROVE  TokenAmount(token, fee) \in Nat
<1> DEFINE unit == 10 ^ BaseDenomUnit
           other == 10 ^ token.decimals
           q == Quo(DecFromInt(fee), DecFromInt(unit))
           c == CalculateTokenAmountWithDecimals(token.price, fee, BaseDenomUnit,
                                                 token.decimals)
<1>1. unit \in Nat \ {0} /\ other \in Nat \ {0} /\ token.price \in Nat
  <2>1. BaseDenomUnit \in 0 .. BaseDenomUnit /\ token.decimals \in 0 .. BaseDenomUnit
    BY FeeAssumption
  <2> QED  BY <2>1, PowerNat DEF TokenType
<1> HIDE DEF unit, other
<1>2. /\ DecFromInt(fee) \in Nat /\ DecFromInt(unit) \in Nat \ {0}
      /\ DecFromInt(other) \in Nat
  BY <1>1, PrecAssumption DEF DecFromInt
<1>3. q \in Nat
  BY <1>2, QuoNat
<1> HIDE DEF q
<1>4. Mul(Mul(q, token.price), DecFromInt(other)) \in Nat
  BY <1>1, <1>2, <1>3, MulNat
<1>5. c = IF fee = 0 \/ token.price = 0 THEN 0
          ELSE Mul(Mul(q, token.price), DecFromInt(other))
  BY DEF CalculateTokenAmountWithDecimals, q, unit, other
<1> HIDE DEF c
<1>6. c \in Nat
  BY <1>4, <1>5
<1> QED  BY <1>6, ChopRoundNat DEF TokenAmount, RoundInt, c

(* A fee is paid in the native coin, or, while the module is enabled, in   *)
(* an enabled token of the collection of which the account has the amount. *)
LEMMA PaidIn ==
    ASSUME FInv, NEW a \in Accounts, NEW fee \in Fees, PayFee(a, fee)
    PROVE  \/ balances[a][Native] >= fee /\ Charge(a, Native, fee)
           \/ /\ params.enabled
              /\ \E i \in DOMAIN feeTokens :
                    LET amount == TokenAmount(feeTokens[i], fee)
                    IN  /\ feeTokens[i].enabled
                        /\ amount \in Nat \ {0}
                        /\ HasTokens(a, feeTokens[i].denom, amount)
                        /\ ChargeToken(a, feeTokens[i].denom, amount)
<1>1. CASE fee = 0 \/ ~params.enabled \/ balances[a][Native] >= fee
  BY <1>1 DEF PayFee
<1>2. CASE ~(fee = 0 \/ ~params.enabled \/ balances[a][Native] >= fee)
  <2> DEFINE i == Min(Payable(a, fee))
  <2>1. Payable(a, fee) # {} /\ Payable(a, fee) \subseteq DOMAIN feeTokens
    BY <1>2 DEF PayFee, Payable
  <2>2. DOMAIN feeTokens \subseteq Nat /\ \A j \in DOMAIN feeTokens : feeTokens[j] \in TokenType
    BY DEF FInv, FeeTypeOK
  <2>3. i \in Payable(a, fee)
    BY <2>1, <2>2, MinIsElement
  <2>4. ChargeToken(a, feeTokens[i].denom, TokenAmount(feeTokens[i], fee))
    BY <1>2 DEF PayFee
  <2> HIDE DEF i
  <2>5. /\ i \in DOMAIN feeTokens /\ feeTokens[i].enabled
        /\ TokenAmount(feeTokens[i], fee) # 0
        /\ HasTokens(a, feeTokens[i].denom, TokenAmount(feeTokens[i], fee))
    BY <2>3 DEF Payable
  <2>6. TokenAmount(feeTokens[i], fee) \in Nat
    BY <2>2, <2>5, AmountNat, FeeAssumption DEF FInv
  <2> QED  BY <1>2, <2>4, <2>5, <2>6
<1> QED  BY <1>1, <1>2

BankTyped ==
    /\ balances \in [Accounts -> [AllCoins -> Nat]]
    /\ erc20 \in [Accounts -> [Paired -> Nat]]
    /\ collector \in [AllCoins -> Nat]

(* taking what is there leaves a natural *)
LEMMA TakeFrom ==
    ASSUME NEW C, NEW ledger \in [Accounts -> [C -> Nat]], NEW a \in Accounts,
           NEW c \in C, NEW n \in Nat, ledger[a][c] >= n
    PROVE  [ledger EXCEPT ![a][c] = @ - n] \in [Accounts -> [C -> Nat]]
<1>1. ledger[a] \in [C -> Nat] /\ ledger[a][c] - n \in Nat
  OBVIOUS
<1>2. [ledger[a] EXCEPT ![c] = @ - n] \in [C -> Nat]
  BY <1>1
<1> QED  BY <1>2

LEMMA ChargeTyped ==
    ASSUME BankTyped, NEW a \in Accounts, NEW c \in AllCoins, NEW n \in Nat,
           balances[a][c] >= n, Charge(a, c, n)
    PROVE  BankTyped'
<1>1. balances' \in [Accounts -> [AllCoins -> Nat]]
  BY TakeFrom DEF BankTyped, Charge
<1>2. collector' \in [AllCoins -> Nat]
  BY DEF BankTyped, Charge
<1> QED  BY <1>1, <1>2 DEF BankTyped, Charge

LEMMA ChargeTokenTyped ==
    ASSUME BankTyped, NEW a \in Accounts, NEW c \in Coins, NEW n \in Nat,
           HasTokens(a, c, n), ChargeToken(a, c, n)
    PROVE  BankTyped'
<1>1. c \in AllCoins /\ balances[a][c] \in Nat
  BY DEF AllCoins, BankTyped
<1>2. CASE balances[a][c] >= n
  <2>1. Charge(a, c, n)
    BY <1>1, <1>2 DEF ChargeToken
  <2> QED  BY <1>1, <1>2, <2>1, ChargeTyped
<1>3. CASE ~(balances[a][c] >= n)
  <2>1. c \in Paired /\ erc20[a][c] >= n
    BY <1>3 DEF HasTokens
  <2>2. /\ erc20' = [erc20 EXCEPT ![a][c] = @ - n]
        /\ collector' = [collector EXCEPT ![c] = @ + n] /\ UNCHANGED balances
    BY <1>3 DEF ChargeToken
  <2>3. erc20' \in [Accounts -> [Paired -> Nat]]
    BY <2>1, <2>2, TakeFrom DEF BankTyped
  <2>4. collector' \in [AllCoins -> Nat]
    BY <1>1, <2>2 DEF BankTyped
  <2> QED  BY <2>2, <2>3, <2>4 DEF BankTyped
<1> QED  BY <1>2, <1>3

LEMMA PayTyped ==
    ASSUME FInv, NEW a \in Accounts, NEW fee \in Fees, PayFee(a, fee)
    PROVE  BankTyped'
<1>1. BankTyped /\ fee \in Nat /\ Native \in AllCoins
  BY FeeAssumption DEF FInv, FeeTypeOK, BankTyped, AllCoins
<1>2. CASE balances[a][Native] >= fee /\ Charge(a, Native, fee)
  BY <1>1, <1>2, ChargeTyped
<1>3. ASSUME NEW i \in DOMAIN feeTokens, TokenAmount(feeTokens[i], fee) \in Nat \ {0},
             HasTokens(a, feeTokens[i].denom, TokenAmount(feeTokens[i], fee)),
             ChargeToken(a, feeTokens[i].denom, TokenAmount(feeTokens[i], fee))
      PROVE  BankTyped'
  <2>1. feeTokens[i] \in TokenType
    BY DEF FInv, FeeTypeOK
  <2>2. feeTokens[i].denom \in Coins
    BY <2>1 DEF TokenType
  <2> QED  BY <1>1, <1>3, <2>2, ChargeTokenTyped
<1> QED  BY <1>2, <1>3, PaidIn

-----------------------------------------------------------------------------
(* the actions that take a fee *)
PaySteps == \E a \in Accounts, fee \in Fees : Pays(a, fee)

LEMMA StepCases ==
    ASSUME FeeNext
    PROVE  \/ PaySteps
           \/ \E gap \in Gaps :
                 BeginBlock(gap) \/ BeginBlockFails(gap) \/ RestartFromGenesis(gap)
           \/ EndBlock
           \/ \E p \in FeeProposals : UpdateParams(p)
           \/ \E tokens \in TokenProposals : UpdateFeeTokens(tokens)
           \/ UpdateOracleParams
BY Zenon DEF FeeNext, PaySteps, Pays

LEMMA PayFacts ==
    ASSUME NEW a \in Accounts, NEW fee \in Fees, Pays(a, fee)
    PROVE  /\ phase = "txs" /\ PayFee(a, fee)
           /\ UNCHANGED <<feedVars, moduleVars, blocks, governed, halted>>
BY DEF Pays, CheckDeductFee, MonoAnteHandle

LEMMA TypesInit ==
    ASSUME FeeInit
    PROVE  FInv
<1>1. FeeTypeOK
  <2>1. feeTokens \in Seq(TokenType)
    BY DEF FeeInit
  <2>2. collector \in [AllCoins -> Nat] /\ blocks \in 0 .. MaxBlocks
    BY FeeAssumption DEF FeeInit
  <2> QED  BY <2>1, <2>2, FeeAssumption DEF FeeInit, FeeTypeOK
<1>2. FeedTyped
  BY DEF FeeInit, Init, FeedTyped, SnapsOK, NoRates
<1>3. ValidFeeParams(params)
  BY FeeGenesisAssumption DEF FeeInit
<1>4. DOMAIN feeTokens = {}
  BY DEF FeeInit
<1> QED  BY <1>1, <1>2, <1>3, <1>4 DEF FInv

(* the part of the invariant that is about the fee module alone *)
ModuleTyped ==
    /\ params \in FeeParamsType /\ ValidFeeParams(params)
    /\ feeTokens \in Seq(TokenType)
    /\ \A i \in DOMAIN feeTokens : feeTokens[i].decimals \in 1 .. BaseDenomUnit
    /\ blocks \in 0 .. MaxBlocks
    /\ governed \in BOOLEAN /\ halted \in BOOLEAN

LEMMA TypedParts ==
    /\ FInv <=> (ModuleTyped /\ BankTyped /\ FeedTyped)
    /\ FInv' <=> (ModuleTyped' /\ BankTyped' /\ FeedTyped')
BY DEF FInv, FeeTypeOK, ModuleTyped, BankTyped

(* the averages with which BeginBlocker computes the prices *)
LEMMA NewTwaps ==
    ASSUME FInv, NEW gap \in Gaps, BeginBlock(gap)
    PROVE  /\ TwapsOK(CurrentTwaps') /\ ~Fails(CurrentTwaps')
           /\ feeTokens' = UpdatedTokens(CurrentTwaps')
           /\ FeedTyped'
<1>1. FeedTyped'
  BY FeedStepTyped DEF BeginBlock, Next, FInv
<1>2. CurrentTwaps' = CalculateTwaps(snapshots', params.twapLookbackWindow)
  BY DEF CurrentTwaps, CalculateTwaps, ValidLookBack, BeginBlock, NewBlock
<1>3. SnapsOK(snapshots') /\ params.twapLookbackWindow \in Nat
  BY <1>1 DEF FeedTyped, FInv, FeeTypeOK, FeeParamsType
<1>4. TwapsOK(CurrentTwaps')
  BY <1>2, <1>3, TwapsNat
<1> QED  BY <1>1, <1>4 DEF BeginBlock

LEMMA TypesStep ==
    ASSUME FInv, [FeeNext]_feeVars
    PROVE  FInv'
<1>0. ModuleTyped /\ BankTyped /\ FeedTyped
  BY TypedParts
<1>1. CASE UNCHANGED feeVars
  <2>1. UNCHANGED <<feedVars, moduleVars, bankVars, blocks, governed, halted>>
    BY <1>1 DEF feeVars
  <2>2. FeedTyped'
    BY <1>0, <2>1, FeedStepTyped
  <2>3. ModuleTyped' /\ BankTyped'
    BY <1>0, <2>1 DEF ModuleTyped, BankTyped, moduleVars, bankVars
  <2> QED  BY <2>2, <2>3, TypedParts
<1>2. CASE PaySteps
  <2>1. PICK a \in Accounts, fee \in Fees : Pays(a, fee)
    BY <1>2 DEF PaySteps
  <2>2. PayFee(a, fee) /\ UNCHANGED <<feedVars, moduleVars, blocks, governed, halted>>
    BY <2>1, PayFacts
  <2>3. BankTyped'
    BY <2>2, PayTyped
  <2>4. FeedTyped'
    BY <1>0, <2>2, FeedStepTyped
  <2>5. ModuleTyped'
    BY <1>0, <2>2 DEF ModuleTyped, moduleVars
  <2> QED  BY <2>3, <2>4, <2>5, TypedParts
<1>3. ASSUME NEW gap \in Gaps, BeginBlock(gap)
      PROVE  FInv'
  <2> DEFINE twaps == CurrentTwaps'
  <2>1. TwapsOK(twaps) /\ ~Fails(twaps) /\ feeTokens' = UpdatedTokens(twaps) /\ FeedTyped'
    BY <1>3, NewTwaps
  <2> HIDE DEF twaps
  <2>2. /\ feeTokens' \in Seq(TokenType) /\ DOMAIN feeTokens' = DOMAIN feeTokens
        /\ \A i \in DOMAIN feeTokens : feeTokens'[i].decimals = feeTokens[i].decimals
    BY <1>0, <2>1, UpdatedTokensType DEF ModuleTyped
  <2>3. blocks' \in 0 .. MaxBlocks
    BY <1>0, <1>3, FeeAssumption DEF ModuleTyped, BeginBlock, Calm
  <2>4. ModuleTyped'
    BY <1>0, <1>3, <2>2, <2>3 DEF ModuleTyped, BeginBlock
  <2>5. BankTyped'
    BY <1>0, <1>3 DEF BankTyped, BeginBlock, bankVars
  <2> QED  BY <2>1, <2>4, <2>5, TypedParts
<1>4. ASSUME NEW gap \in Gaps, BeginBlockFails(gap) \/ RestartFromGenesis(gap)
      PROVE  FInv'
  <2>1. FeedTyped'
    BY <1>0, <1>4, FeedStepTyped DEF BeginBlockFails, RestartFromGenesis, Next
  <2>2. ModuleTyped' /\ BankTyped'
    BY <1>0, <1>4 DEF ModuleTyped, BankTyped, BeginBlockFails, RestartFromGenesis,
                      moduleVars, bankVars
  <2> QED  BY <2>1, <2>2, TypedParts
<1>5. CASE EndBlock \/ UpdateOracleParams
  <2>1. FeedTyped'
    BY <1>0, <1>5, FeedStepTyped DEF EndBlock, UpdateOracleParams, Next
  <2>2. ModuleTyped' /\ BankTyped'
    BY <1>0, <1>5 DEF ModuleTyped, BankTyped, EndBlock, UpdateOracleParams,
                      moduleVars, bankVars
  <2> QED  BY <2>1, <2>2, TypedParts
<1>6. ASSUME NEW p \in FeeProposals, UpdateParams(p)
      PROVE  FInv'
  <2>1. FeedTyped' /\ BankTyped'
    BY <1>0, <1>6, FeedStepTyped DEF UpdateParams, BankTyped, bankVars
  <2>2. ModuleTyped'
    BY <1>0, <1>6, FeeAssumption DEF ModuleTyped, UpdateParams
  <2> QED  BY <2>1, <2>2, TypedParts
<1>7. ASSUME NEW tokens \in TokenProposals, UpdateFeeTokens(tokens)
      PROVE  FInv'
  <2>1. FeedTyped' /\ BankTyped'
    BY <1>0, <1>7, FeedStepTyped DEF UpdateFeeTokens, BankTyped, bankVars
  <2>2. ModuleTyped'
    BY <1>0, <1>7, FeeAssumption DEF ModuleTyped, UpdateFeeTokens, ValidFeeTokens
  <2> QED  BY <2>1, <2>2, TypedParts
<1> QED
  BY <1>1, <1>2, <1>3, <1>4, <1>5, <1>6, <1>7, StepCases, Zenon

LEMMA TypesAlways == FeeSpec => []FInv
BY TypesInit, TypesStep, PTL DEF FeeSpec

(* For every set of accounts, coins, fee tokens, prices and parameters:    *)
(* the collections and the ledgers keep their types.  In particular no     *)
(* conversion of ERC20 tokens and no deduction of a fee takes more than    *)
(* the account has, and the clamp makes no price negative.                 *)
THEOREM FeeTypes == FeeSpec => []FeeTypeOK
<1>1. FInv => FeeTypeOK
  BY DEF FInv
<1> QED  BY <1>1, TypesAlways, PTL

-----------------------------------------------------------------------------
(* Prices *)

(* no two fee tokens are of the same coin: the coins that were collected   *)
(* tell which token they were paid in                                      *)
Distinct(tokens) ==
    \A i, j \in DOMAIN tokens : tokens[i].denom = tokens[j].denom => i = j

(* within a block in which governance did not act, enabled tokens have an  *)
(* average                                                                 *)
PricesBacked ==
    phase = "txs" /\ params.enabled /\ ~governed =>
       \A i \in DOMAIN feeTokens :
          feeTokens[i].enabled => TokenTwap(CurrentTwaps, feeTokens[i]) # 0

Backed == FInv /\ Distinct(feeTokens) /\ PricesBacked

LEMMA BackedInit ==
    ASSUME FeeInit
    PROVE  Backed
<1>1. DOMAIN feeTokens = {} /\ phase = "idle"
  BY DEF FeeInit, Init
<1> QED  BY <1>1, TypesInit DEF Backed, Distinct, PricesBacked

LEMMA BackedStep ==
    ASSUME Backed, [FeeNext]_feeVars
    PROVE  Backed'
<1>0. FInv'
  BY TypesStep DEF Backed
<1>1. CASE UNCHANGED feeVars \/ PaySteps
  <2>1. UNCHANGED <<feedVars, moduleVars, governed>>
    BY <1>1, PayFacts DEF feeVars, PaySteps
  <2> QED
    BY <1>0, <2>1 DEF Backed, Distinct, PricesBacked, CurrentTwaps, CalculateTwaps,
                      TokenTwap, ValidLookBack, feedVars, moduleVars
<1>2. ASSUME NEW gap \in Gaps, BeginBlock(gap)
      PROVE  Backed'
  <2> DEFINE twaps == CurrentTwaps'
  <2>1. TwapsOK(twaps) /\ ~Fails(twaps) /\ feeTokens' = UpdatedTokens(twaps)
    BY <1>2, NewTwaps DEF Backed
  <2>2. params' = params
    BY <1>2 DEF BeginBlock
  <2> HIDE DEF twaps
  <2>3. /\ DOMAIN feeTokens' = DOMAIN feeTokens
        /\ \A i \in DOMAIN feeTokens :
              /\ feeTokens'[i].denom = feeTokens[i].denom
              /\ params.enabled /\ feeTokens'[i].enabled =>
                    TokenTwap(twaps, feeTokens'[i]) # 0
    BY <2>1, UpdatedTokensType DEF Backed, FInv, FeeTypeOK
  <2>4. Distinct(feeTokens)'
    BY <2>3 DEF Backed, Distinct
  <2>5. PricesBacked'
    BY <2>2, <2>3 DEF PricesBacked, TokenTwap, twaps
  <2> QED  BY <1>0, <2>4, <2>5 DEF Backed
<1>3. ASSUME \/ EndBlock
             \/ \E gap \in Gaps : BeginBlockFails(gap) \/ RestartFromGenesis(gap)
      PROVE  Backed'
  <2>1. phase' = "idle" /\ feeTokens' = feeTokens
    BY <1>3 DEF EndBlock, QuietEnd, Tally, BeginBlockFails, RestartFromGenesis,
                Restart, feedVars, moduleVars
  <2> QED  BY <1>0, <2>1 DEF Backed, Distinct, PricesBacked
<1>4. ASSUME \/ \E p \in FeeProposals : UpdateParams(p)
             \/ \E tokens \in TokenProposals : UpdateFeeTokens(tokens)
             \/ UpdateOracleParams
      PROVE  Backed'
  <2>1. governed' = TRUE
    BY <1>4 DEF UpdateParams, UpdateFeeTokens, UpdateOracleParams
  <2>2. Distinct(feeTokens)'
    BY <1>4 DEF UpdateParams, UpdateFeeTokens, UpdateOracleParams, moduleVars, Backed,
                Distinct, ValidFeeTokens
  <2> QED  BY <1>0, <2>1, <2>2 DEF Backed, PricesBacked
<1> QED
  BY <1>1, <1>2, <1>3, <1>4, StepCases, Zenon

(* every step that takes no fee leaves the collected coins alone *)
LEMMA CollectorStays ==
    ASSUME FeeNext, ~PaySteps
    PROVE  collector' = collector
<1>1. ASSUME NEW gap \in Gaps,
             BeginBlock(gap) \/ BeginBlockFails(gap) \/ RestartFromGenesis(gap)
      PROVE  collector' = collector
  BY <1>1 DEF BeginBlock, BeginBlockFails, RestartFromGenesis, bankVars
<1>2. ASSUME \/ EndBlock \/ UpdateOracleParams
             \/ \E p \in FeeProposals : UpdateParams(p)
             \/ \E tokens \in TokenProposals : UpdateFeeTokens(tokens)
      PROVE  collector' = collector
  BY <1>2 DEF EndBlock, UpdateOracleParams, UpdateParams, UpdateFeeTokens, bankVars
<1> QED  BY <1>1, <1>2, StepCases, Zenon

(* a step that uses no price of the past *)
PricedStep ==
    \A i \in DOMAIN feeTokens :
       collector'[feeTokens[i].denom] # collector[feeTokens[i].denom] /\ ~governed =>
          TokenTwap(CurrentTwaps, feeTokens[i]) # 0

LEMMA PaidAtPrice ==
    ASSUME Backed, FeeNext
    PROVE  PricedStep
<1>1. CASE ~PaySteps
  BY <1>1, CollectorStays DEF PricedStep
<1>2. CASE PaySteps
  <2>1. SUFFICES ASSUME NEW i \in DOMAIN feeTokens, ~governed,
                        collector'[feeTokens[i].denom] # collector[feeTokens[i].denom]
                 PROVE  TokenTwap(CurrentTwaps, feeTokens[i]) # 0
    BY DEF PricedStep
  <2>2. /\ \A j \in DOMAIN feeTokens : feeTokens[j] \in TokenType
        /\ collector \in [AllCoins -> Nat]
    BY DEF Backed, FInv, FeeTypeOK
  <2>3. feeTokens[i].denom \in Coins /\ Native \notin Coins
    BY <2>2, FeeAssumption DEF TokenType
  <2>4. PICK a \in Accounts, fee \in Fees : Pays(a, fee)
    BY <1>2 DEF PaySteps
  <2>5. phase = "txs" /\ PayFee(a, fee)
    BY <2>4, PayFacts
  <2>6. ~Charge(a, Native, fee)
    BY <2>1, <2>2, <2>3 DEF Charge, AllCoins
  <2>7. PICK j \in DOMAIN feeTokens :
           /\ params.enabled /\ feeTokens[j].enabled
           /\ ChargeToken(a, feeTokens[j].denom, TokenAmount(feeTokens[j], fee))
    BY <2>5, <2>6, PaidIn DEF Backed
  <2>8. feeTokens[j].denom = feeTokens[i].denom
    BY <2>1, <2>2, <2>3, <2>7 DEF ChargeToken, Charge, AllCoins
  <2>9. j = i
    BY <2>8 DEF Backed, Distinct
  <2> QED  BY <2>1, <2>5, <2>7, <2>9 DEF Backed, PricesBacked
<1> QED  BY <1>1, <1>2

(* For every set of accounts, tokens, prices and parameters: a fee is paid *)
(* in a token only while the oracle has an average of it, or in the very   *)
(* block in which governance acted.                                        *)
THEOREM FeesPricedWhenUsed == FeeSpec => PricedWhenUsed
<1>1. FeeSpec => []Backed
  BY BackedInit, BackedStep, PTL DEF FeeSpec
<1>2. Backed /\ [FeeNext]_feeVars => [PricedStep]_feeVars
  BY PaidAtPrice
<1>3. FeeSpec => [][PricedStep]_feeVars
  BY <1>1, <1>2, PTL DEF FeeSpec
<1> QED  BY <1>3 DEF PricedWhenUsed, PricedStep

-----------------------------------------------------------------------------
(* The averages, second by second *)

(* the seconds up to which a set of snapshots reaches *)
Reach(T, window) == Max({Traversed(b, window) : b \in T} \cup {0})

(* what the last one of a set of snapshots adds to the seconds *)
LEMMA ReachOfLast ==
    ASSUME NEW T \in SUBSET Nat, IsFiniteSet(T), NEW window \in Nat, NEW m \in T,
           \A b \in T : b <= m
    PROVE  Reach(T, window) = Traversed(m, window)
<1> DEFINE S == {Traversed(b, window) : b \in T} \cup {0}
           t == Traversed(m, window)
<1>1. t \in Nat /\ \A b \in T : Traversed(b, window) \in Nat /\ Traversed(b, window) <= t
  BY TraversedIs
<1>2. t \in S /\ \A y \in S : y \in Nat /\ y <= t
  BY <1>1
<1> HIDE DEF S, t
<1>3. S \in SUBSET Nat /\ S # {}
  BY <1>2
<1>4. Max(S) \in S /\ \A y \in S : y <= Max(S)
  BY <1>1, <1>2, <1>3, BoundedMax
<1>5. Max(S) = t
  BY <1>2, <1>4
<1> QED  BY <1>5 DEF Reach, S, t

(* f gives, for every second between one snapshot and the next, the rate r *)
(* of the latter; w weighs these rates; no snapshot reaches further than D *)
Stairs(A, window, f, r, w, D) ==
    /\ \A a \in A : r[a] \in Nat
    /\ \A a \in A : w[a] = r[a] * (Traversed(a, window) - Previous(A, window, a))
    /\ \A a \in A :
          \A s \in Previous(A, window, a) + 1 .. Traversed(a, window) : f[s] = r[a]
    /\ \A s \in 1 .. D : f[s] \in Int
    /\ \A a \in A : Traversed(a, window) <= D

(* Then the weighted rates add up to the sum of f over the seconds: by     *)
(* induction over the snapshots in order of age.                           *)
LEMMA WeightsAreSeconds ==
    ASSUME NEW A \in SUBSET Nat, IsFiniteSet(A), NEW window \in Nat, NEW f, NEW r, NEW w,
           NEW D \in Nat, Stairs(A, window, f, r, w, D)
    PROVE  SumFunctionOnSet(w, A) = SumFunctionOnSet(f, 1 .. Reach(A, window))
<1> USE DEF Stairs
<1> DEFINE Initial(T) == \A a \in T, b \in A : b < a => b \in T
           Same(T) == SumFunctionOnSet(w, T) = SumFunctionOnSet(f, 1 .. Reach(T, window))
           Good == {T \in SUBSET A : Initial(T) => Same(T)}
<1>0. \A a \in A : /\ Traversed(a, window) \in Nat /\ Previous(A, window, a) \in Nat
                   /\ Previous(A, window, a) <= Traversed(a, window)
  BY TraversedIs, PreviousIs
<1>1. ASSUME NEW T \in SUBSET A, \A x \in T : T \ {x} \in Good
      PROVE  T \in Good
  <2>1. SUFFICES ASSUME Initial(T)
                 PROVE  Same(T)
    OBVIOUS
  <2>2. CASE T = {}
    <3>1. {Traversed(b, window) : b \in T} \cup {0} = {0}
      BY <2>2
    <3>2. Max({0}) = 0
      BY BoundedMax, {0} \in SUBSET Nat
    <3>3. Reach(T, window) = 0
      BY <3>1, <3>2 DEF Reach
    <3>4. 1 .. 0 = {}
      OBVIOUS
    <3> QED  BY <2>2, <3>3, <3>4, SumEmpty
  <2>3. CASE T # {}
    <3> DEFINE m == Max(T)
               U == T \ {m}
               t == Traversed(m, window)
               p == Previous(A, window, m)
    <3>1. T \in SUBSET Nat /\ IsFiniteSet(T)
      BY FS_Subset
    <3>2. m \in T /\ \A b \in T : b <= m
      BY <2>3, <3>1, MaxIsElement
    <3> HIDE DEF m
    <3>3. U = {c \in A : c < m}
      <4>1. \A c \in A : c \in Nat /\ m \in A
        BY <3>2
      <4>2. ASSUME NEW c \in U
            PROVE  c \in A /\ c < m
        <5>1. c \in A /\ c # m /\ c <= m /\ c \in Nat /\ m \in Nat
          BY <3>2, <4>1
        <5> QED  BY <5>1
      <4>3. ASSUME NEW c \in A, c < m
            PROVE  c \in U
        <5>1. c \in T
          BY <2>1, <3>2, <4>3
        <5>2. c # m
          BY <4>1, <4>3
        <5> QED  BY <5>1, <5>2
      <4> HIDE DEF U
      <4> QED  BY <4>2, <4>3
    <3>4. Reach(U, window) = p
      BY <3>3 DEF Reach, Previous
    <3>5. Reach(T, window) = t
      BY <3>1, <3>2, ReachOfLast
    <3>6. Initial(U)
      BY <2>1, <3>2, <3>3
    <3>7. SumFunctionOnSet(w, U) = SumFunctionOnSet(f, 1 .. p)
      BY <1>1, <3>2, <3>4, <3>6
    <3>8. t \in Nat /\ p \in Nat /\ p <= t /\ t <= D
      BY <1>0, <3>2
    <3>9. w[m] = r[m] * (t - p) /\ r[m] \in Nat
      BY <3>2
    <3>10. \A s \in p + 1 .. t : f[s] = r[m]
      BY <3>2
    <3>11. SumFunctionOnSet(w, T) = w[m] + SumFunctionOnSet(w, U)
      <4>1. \A a \in T : w[a] \in Int
        <5>1. ASSUME NEW a \in T
              PROVE  w[a] \in Int
          <6>1. PICK u \in Int : u = Traversed(a, window) - Previous(A, window, a)
            BY <1>0
          <6>2. w[a] = r[a] * u /\ r[a] \in Int
            BY <6>1
          <6> QED  BY <6>2
        <5> QED  BY <5>1
      <4> QED  BY <3>1, <3>2, <4>1, SumRemove
    <3> HIDE DEF t, p, U
    <3>12. SumFunctionOnSet(f, p + 1 .. t) = r[m] * (t - p)
      <4>1. PICK q \in Int : q = p + 1
        BY <3>8
      <4>2. IsFiniteSet(q .. t) /\ Cardinality(q .. t) = IF q > t THEN 0 ELSE t - q + 1
        BY <3>8, FS_Interval
      <4>3. Cardinality(q .. t) = t - p
        BY <3>8, <4>1, <4>2
      <4>4. SumFunctionOnSet(f, q .. t) = r[m] * Cardinality(q .. t)
        <5>1. \A s \in q .. t : f[s] = r[m]
          BY <3>10, <4>1
        <5>2. r[m] \in Int
          BY <3>9
        <5> DEFINE S == q .. t
        <5> HIDE DEF S
        <5> QED  BY <4>2, <5>1, <5>2, SumConstant DEF S
      <4> QED  BY <4>1, <4>3, <4>4
    <3>13. SumFunctionOnSet(f, 1 .. t)
             = SumFunctionOnSet(f, 1 .. p) + SumFunctionOnSet(f, p + 1 .. t)
      <4>1. IsFiniteSet(1 .. t) /\ \A s \in 1 .. t : f[s] \in Int
        BY <3>8, FS_Interval
      <4>2. 1 .. p \in SUBSET (1 .. t) /\ (1 .. t) \ (1 .. p) = p + 1 .. t
        BY <3>8
      <4> DEFINE S == 1 .. t
                 V == 1 .. p
      <4>3. IsFiniteSet(S) /\ (\A s \in S : f[s] \in Int) /\ V \in SUBSET S
        BY <4>1, <4>2
      <4>4. S \ V = p + 1 .. t
        BY <4>2
      <4>5. SumFunctionOnSet(f, S)
              = SumFunctionOnSet(f, V) + SumFunctionOnSet(f, S \ V)
        <5> HIDE DEF S, V
        <5> QED  BY <4>3, SumSplit
      <4> QED  BY <4>4, <4>5
    <3>14. SumFunctionOnSet(f, 1 .. p) \in Int
      <4>1. IsFiniteSet(1 .. p) /\ (\A s \in 1 .. p : f[s] \in Int)
               /\ 1 .. p \in SUBSET (1 .. p)
        BY <3>8, FS_Interval
      <4> QED  BY <4>1, SumInt
    <3>15. PICK x \in Int : x = r[m] * (t - p)
      BY <3>8, <3>9
    <3> QED  BY <3>5, <3>7, <3>9, <3>11, <3>12, <3>13, <3>14, <3>15
  <2> QED  BY <2>2, <2>3
<1>2. \A T \in SUBSET A : T \in Good
  <2> HIDE DEF Good
  <2> QED  BY <1>1, SetInduction
<1>3. A \in SUBSET A /\ Initial(A)
  OBVIOUS
<1> QED  BY <1>2, <1>3

(* a window of the snapshots *)
LEMMA WindowAverage ==
    ASSUME SnapsOK(snapshots), NEW window \in Nat \ {0}, NEW d,
           Holding(snapshots, window, d) # {},
           1 .. Traversed(Max(Holding(snapshots, window, d)), window) # {}
    PROVE  LET seconds == 1 .. Traversed(Max(Holding(snapshots, window, d)), window)
           IN  CalculateTwap(snapshots, window, d) =
                  TruncDiv(SumFunctionOnSet([s \in seconds |-> RateAgo(window, d, s)],
                                            seconds),
                           Max(seconds))
<1> DEFINE A == Holding(snapshots, window, d)
           D == Traversed(Max(A), window)
           f == [s \in 1 .. D |-> RateAgo(window, d, s)]
           r == [a \in A |-> snapshots[a][d]]
           w == Weighted(snapshots, window, d)
<1>1. /\ A \in SUBSET Nat /\ IsFiniteSet(A)
      /\ \A a \in A : r[a] \in Nat
      /\ \A a, b \in A : a > window /\ b > window => a = b
      /\ Max(A) \in A /\ \A a \in A : a <= Max(A)
  BY HoldingIs
<1>2. \A a \in A : w[a] = r[a] * (Traversed(a, window) - Previous(A, window, a))
  BY DEF Weighted
<1>3. CalculateTwap(snapshots, window, d) =
         IF D = 0 THEN 0 ELSE TruncDiv(SumFunctionOnSet(w, A), D)
  BY TwapIs
<1>4. \A s \in 1 .. D : f[s] = r[Min({a \in A : a >= s})] \/ {a \in A : a >= s} = {}
  <2>1. ASSUME NEW s \in 1 .. D, {a \in A : a >= s} # {}
        PROVE  f[s] = r[Min({a \in A : a >= s})]
    <3> DEFINE S == {a \in A : a >= s}
    <3>1. S \in SUBSET Nat /\ S \subseteq A
      BY <1>1
    <3>2. f[s] = snapshots[Min(S)][d]
      BY DEF RateAgo
    <3> HIDE DEF S
    <3>3. Min(S) \in A
      BY <2>1, <3>1, MinIsElement DEF S
    <3> HIDE DEF A, f
    <3> QED  BY <3>2, <3>3 DEF S
  <2> HIDE DEF f, r, A, D
  <2> QED  BY <2>1
<1> HIDE DEF A, r, w, f
<1>5. D \in Nat /\ D <= Max(A) /\ \A a \in A : Traversed(a, window) <= D
  <2>1. Max(A) \in Nat /\ \A a \in A : a \in Nat
    BY <1>1
  <2>2. D \in Nat /\ D <= Max(A)
    BY <2>1, TraversedIs
  <2>3. ASSUME NEW a \in A
        PROVE  Traversed(a, window) <= D
    <3>1. CASE a = Max(A)
      BY <2>2, <3>1
    <3>2. CASE a < Max(A)
      BY <2>1, <3>2, TraversedIs
    <3> QED  BY <1>1, <2>1, <3>1, <3>2
  <2> QED  BY <2>2, <2>3
<1>6. D # 0
  BY <1>5 DEF A
<1>7. Reach(A, window) = D
  BY <1>1, ReachOfLast
<1> HIDE DEF D
<1>8. ASSUME NEW s \in 1 .. D
      PROVE  f[s] \in Int
  <2> DEFINE S == {a \in A : a >= s}
  <2>1. Max(A) \in S /\ S \in SUBSET Nat
    <3>1. S \in SUBSET Nat
      BY <1>1
    <3>2. Max(A) >= s
      <4>1. Max(A) \in Nat
        BY <1>1
      <4>2. PICK x \in Nat : x = Max(A)
        BY <4>1
      <4> QED  BY <1>5, <4>2
    <3> QED  BY <1>1, <3>1, <3>2
  <2>2. Min(S) \in S
    <3> HIDE DEF S
    <3> QED  BY <2>1, MinIsElement
  <2> QED  BY <1>1, <1>4, <2>1, <2>2
<1>9. ASSUME NEW a \in A, NEW s \in Previous(A, window, a) + 1 .. Traversed(a, window)
      PROVE  f[s] = r[a]
  <2> DEFINE S == {b \in A : b >= s}
             p == Previous(A, window, a)
  <2>1. /\ p \in Nat /\ \A b \in A : b < a => Traversed(b, window) <= p
        /\ Traversed(a, window) \in Nat /\ Traversed(a, window) <= a
    BY <1>1, PreviousIs, TraversedIs
  <2>2. s \in Nat /\ s > p /\ s <= Traversed(a, window) /\ s \in 1 .. D
    <3> HIDE DEF p
    <3>1. Traversed(a, window) <= D
      BY <1>5
    <3> QED  BY <1>5, <1>9, <2>1, <3>1 DEF p
  <2>3. a \in S
    BY <1>1, <2>1, <2>2
  <2>4. ASSUME NEW b \in A, b < a
        PROVE  ~(b >= s)
    <3>1. b \in Nat /\ a \in Nat /\ b <= window
      BY <1>1, <2>4
    <3>2. Traversed(b, window) = b
      BY <3>1, TraversedIs
    <3> HIDE DEF p
    <3> QED  BY <2>1, <2>2, <2>4, <3>1, <3>2
  <2>5. Min(S) = a
    <3>1. S \in SUBSET Nat /\ \A b \in S : a <= b
      <4>1. S \in SUBSET Nat
        BY <1>1
      <4>2. ASSUME NEW b \in S
            PROVE  a <= b
        <5>1. b \in A /\ b \in Nat /\ a \in Nat /\ ~(b < a)
          BY <1>1, <2>4
        <5> QED  BY <5>1
      <4> QED  BY <4>1, <4>2
    <3>2. Min(S) \in S /\ \A b \in S : Min(S) <= b
      <4> HIDE DEF S
      <4> QED  BY <2>3, <3>1, MinIsElement
    <3>3. a \in Nat /\ Min(S) \in Nat /\ a <= Min(S) /\ Min(S) <= a
      <4> HIDE DEF S
      <4> QED  BY <1>1, <2>3, <3>1, <3>2
    <3> QED  BY <3>3
  <2> HIDE DEF S
  <2> QED  BY <1>4, <2>2, <2>3, <2>5 DEF S
<1>10. SumFunctionOnSet(w, A) = SumFunctionOnSet(f, 1 .. D)
  <2>1. A \in SUBSET Nat /\ IsFiniteSet(A) /\ window \in Nat /\ D \in Nat
    BY <1>1, <1>5
  <2>2. \A a \in A : r[a] \in Nat
    BY <1>1
  <2>3. \A a \in A :
           \A s \in Previous(A, window, a) + 1 .. Traversed(a, window) : f[s] = r[a]
    BY <1>9
  <2>4. (\A s \in 1 .. D : f[s] \in Int) /\ \A a \in A : Traversed(a, window) <= D
    BY <1>5, <1>8
  <2>5. Stairs(A, window, f, r, w, D)
    BY <1>2, <2>2, <2>3, <2>4 DEF Stairs
  <2> QED  BY <1>7, <2>1, <2>5, WeightsAreSeconds
<1>11. Max(1 .. D) = D
  <2> DEFINE S == 1 .. D
  <2>1. D \in S /\ S \in SUBSET Nat /\ \A x \in S : x <= D
    BY <1>5, <1>6
  <2> HIDE DEF S
  <2>2. Max(S) \in S /\ \A y \in S : y <= Max(S)
    BY <1>5, <2>1, BoundedMax
  <2>3. Max(S) \in Nat /\ Max(S) <= D /\ D <= Max(S)
    BY <1>5, <2>1, <2>2
  <2> QED  BY <1>5, <2>3 DEF S
<1>12. CalculateTwap(snapshots, window, d) = TruncDiv(SumFunctionOnSet(f, 1 .. D), Max(1 .. D))
  BY <1>3, <1>6, <1>10, <1>11
<1> QED  BY <1>12 DEF f, D, A

(* For every history of prices, every lookback and every window: the one   *)
(* pass of CalculateTwaps over the snapshots computes the average of the   *)
(* rates of every second of the window.                                    *)
THEOREM TwapIsExact == FeeSpec => []TwapIsAverage
<1>1. FInv => TwapIsAverage
  <2>1. SUFFICES ASSUME FInv, NEW window \in 1 .. lookback, NEW d \in Denoms,
                        Holding(snapshots, window, d) # {},
                        1 .. Traversed(Max(Holding(snapshots, window, d)), window) # {}
                 PROVE  LET seconds == 1 .. Traversed(Max(Holding(snapshots, window, d)),
                                                      window)
                        IN  CalculateTwap(snapshots, window, d) =
                               TruncDiv(SumFunctionOnSet(
                                          [s \in seconds |-> RateAgo(window, d, s)],
                                          seconds),
                                        Max(seconds))
    BY DEF TwapIsAverage
  <2>2. SnapsOK(snapshots) /\ window \in Nat \ {0}
    BY <2>1, FeedAssumption DEF FInv, FeedTyped
  <2> QED  BY <2>1, <2>2, WindowAverage
<1> QED  BY <1>1, TypesAlways, PTL

-----------------------------------------------------------------------------
(* What a fee is worth *)

(* The quotient q of the fee by its unit, its product m with the price and *)
(* its amount t in the other unit: each rounding is multiplied up to the   *)
(* scale of the whole.                                                     *)
LEMMA RoundingChain ==
    ASSUME NEW P \in Nat, NEW U \in Nat, NEW V \in Nat, NEW p \in Nat, NEW f \in Nat,
           NEW x \in Nat, NEW q \in Nat, NEW m \in Nat, NEW t \in Nat,
           U * x <= f * (P * P), f * (P * P) <= U * x + U,
           2 * (P * q) <= 2 * x + P, 2 * x <= 2 * (P * q) + P,
           2 * (P * m) <= 2 * (q * p) + P, 2 * (q * p) <= 2 * (P * m) + P,
           2 * (P * t) <= 2 * (m * V) + P, 2 * (m * V) <= 2 * (P * t) + P
    PROVE  LET n == 2 * P * P
               e == P * P * P * U + P * P * U * V + p * U * V * (P + 2)
           IN  /\ n * (t * P * U) <= n * (p * f * V) + e
               /\ n * (p * f * V) <= n * (t * P * U) + e
<1> DEFINE k1 == P * P * U
           k2 == P * U * V
           k3 == U * V * p
           k4 == 2 * (V * p)
           at == k1 * (2 * (P * t))
           am == k1 * (2 * (m * V))
           bq == k2 * (2 * (q * p))
           cx == k3 * (2 * x)
           df == k4 * (f * (P * P))
           e1 == k1 * P
           e2 == k2 * P
           e3 == k3 * P
           e4 == k4 * U
<1>1. k1 \in Nat /\ k2 \in Nat /\ k3 \in Nat /\ k4 \in Nat
  OBVIOUS
<1>2. /\ at <= k1 * (2 * (m * V) + P)
      /\ am <= k1 * (2 * (P * t) + P)
  <2>1. 2 * (P * t) \in Int /\ 2 * (m * V) \in Int /\ 2 * (P * t) + P \in Int
          /\ 2 * (m * V) + P \in Int
    OBVIOUS
  <2> HIDE DEF k1
  <2> QED  BY <1>1, <2>1, MulMonotone
<1>3. /\ k2 * (2 * (P * m)) <= k2 * (2 * (q * p) + P)
      /\ bq <= k2 * (2 * (P * m) + P)
  <2>1. 2 * (P * m) \in Int /\ 2 * (q * p) \in Int /\ 2 * (P * m) + P \in Int
          /\ 2 * (q * p) + P \in Int
    OBVIOUS
  <2> HIDE DEF k2
  <2> QED  BY <1>1, <2>1, MulMonotone
<1>4. /\ k3 * (2 * (P * q)) <= k3 * (2 * x + P)
      /\ cx <= k3 * (2 * (P * q) + P)
  <2>1. 2 * (P * q) \in Int /\ 2 * x \in Int /\ 2 * (P * q) + P \in Int
          /\ 2 * x + P \in Int
    OBVIOUS
  <2> HIDE DEF k3
  <2> QED  BY <1>1, <2>1, MulMonotone
<1>5. /\ k4 * (U * x) <= df
      /\ df <= k4 * (U * x + U)
  <2>1. U * x \in Int /\ U * x + U \in Int /\ f * (P * P) \in Int
    OBVIOUS
  <2> HIDE DEF k4
  <2> QED  BY <1>1, <2>1, MulMonotone
<1>6. /\ k1 * (2 * (m * V) + P) = am + e1 /\ k1 * (2 * (P * t) + P) = at + e1
      /\ k2 * (2 * (q * p) + P) = bq + e2 /\ k2 * (2 * (P * m) + P) = am + e2
      /\ k2 * (2 * (P * m)) = am
  OBVIOUS
<1>7. /\ k3 * (2 * x + P) = cx + e3 /\ k3 * (2 * (P * q) + P) = bq + e3
      /\ k3 * (2 * (P * q)) = bq
      /\ k4 * (U * x) = cx /\ k4 * (U * x + U) = cx + e4
  OBVIOUS
<1>8. /\ at \in Int /\ am \in Int /\ bq \in Int /\ cx \in Int /\ df \in Int
      /\ e1 \in Int /\ e2 \in Int /\ e3 \in Int /\ e4 \in Int
  OBVIOUS
<1>9. at <= df + (e1 + e2 + e3 + e4) /\ df <= at + (e1 + e2 + e3 + e4)
  <2>1. /\ at <= am + e1 /\ am <= at + e1 /\ am <= bq + e2 /\ bq <= am + e2
    BY <1>2, <1>3, <1>6
  <2>2. /\ bq <= cx + e3 /\ cx <= bq + e3 /\ cx <= df /\ df <= cx + e4
    BY <1>4, <1>5, <1>7
  <2> HIDE DEF at, am, bq, cx, df, e1, e2, e3, e4
  <2>3. e1 >= 0 /\ e2 >= 0 /\ e3 >= 0 /\ e4 >= 0
    BY <1>1 DEF e1, e2, e3, e4
  <2> QED  BY <1>8, <2>1, <2>2, <2>3
<1>10. /\ (2 * P * P) * (t * P * U) = at /\ (2 * P * P) * (p * f * V) = df
       /\ P * P * P * U + P * P * U * V + p * U * V * (P + 2) = e1 + e2 + e3 + e4
  OBVIOUS
<1> QED  BY <1>9, <1>10

(* the amount of a token is the fee at its price, up to the roundings *)
LEMMA AmountWorth ==
    ASSUME NEW token \in TokenType, token.decimals \in 1 .. BaseDenomUnit, NEW fee \in Nat,
           TokenAmount(token, fee) # 0
    PROVE  Abs(TokenAmount(token, fee) * Prec * 10 ^ BaseDenomUnit
                 - token.price * fee * 10 ^ token.decimals) <= RoundingError(token)
<1> DEFINE P == Prec
           U == 10 ^ BaseDenomUnit
           V == 10 ^ token.decimals
           p == token.price
           x == TruncDiv(DecFromInt(fee) * Prec * Prec, DecFromInt(U))
           q == ChopRound(x)
           m == ChopRound(q * p)
           t == TokenAmount(token, fee)
<1>1. P \in Nat \ {0} /\ U \in Nat \ {0} /\ V \in Nat \ {0} /\ p \in Nat
  <2>1. BaseDenomUnit \in 0 .. BaseDenomUnit /\ token.decimals \in 0 .. BaseDenomUnit
    BY FeeAssumption
  <2> QED  BY <2>1, PowerNat, PrecAssumption DEF TokenType
<1>2. fee # 0 /\ p # 0
  <2>1. SUFFICES ASSUME fee = 0 \/ p = 0
                 PROVE  t = 0
    OBVIOUS
  <2>2. t = ChopRound(0)
    BY <2>1 DEF TokenAmount, RoundInt, CalculateTokenAmountWithDecimals
  <2>3. ChopRound(0 * Prec) = 0 /\ 0 * Prec = 0
    BY ChopExact, PrecAssumption
  <2> QED  BY <2>2, <2>3
<1>3. t = ChopRound(ChopRound(m * (V * P)))
  BY <1>2 DEF TokenAmount, RoundInt, CalculateTokenAmountWithDecimals, Mul, Quo, DecFromInt
<1> HIDE DEF U, V, t
<1>4. x \in Nat /\ U * x <= fee * (P * P) /\ fee * (P * P) <= U * x + U
  <2> DEFINE a == fee * P * P * P
             b == U * P
  <2>1. a \in Nat /\ b \in Nat \ {0} /\ x = TruncDiv(a, b)
    BY <1>1 DEF DecFromInt
  <2> HIDE DEF x, a, b
  <2>2. x \in Nat /\ b * x <= a /\ a <= b * x + b
    BY <2>1, TruncDivNat
  <2>3. P * (U * x) <= P * (fee * (P * P))
    <3>1. P * (U * x) = b * x /\ P * (fee * (P * P)) = a
      BY <1>1, <2>2 DEF a, b
    <3> QED  BY <2>2, <3>1
  <2>4. P * (fee * (P * P)) <= P * (U * x + U)
    <3>1. P * (U * x + U) = b * x + b /\ P * (fee * (P * P)) = a
      BY <1>1, <2>2 DEF a, b
    <3> QED  BY <2>2, <3>1
  <2>5. U * x \in Int /\ U * x + U \in Int /\ fee * (P * P) \in Int
    BY <1>1, <2>2
  <2> QED  BY <1>1, <2>2, <2>3, <2>4, <2>5, MulCancel
<1> HIDE DEF x
<1>5. q \in Nat /\ 2 * (P * q) <= 2 * x + P /\ 2 * x <= 2 * (P * q) + P
  BY <1>4, ChopRoundNat
<1> HIDE DEF q
<1>6. m \in Nat /\ 2 * (P * m) <= 2 * (q * p) + P /\ 2 * (q * p) <= 2 * (P * m) + P
  <2>1. q * p \in Nat
    BY <1>1, <1>5
  <2> QED  BY <2>1, ChopRoundNat
<1> HIDE DEF m
<1>7. t \in Nat /\ 2 * (P * t) <= 2 * (m * V) + P /\ 2 * (m * V) <= 2 * (P * t) + P
  <2>1. m * V \in Nat /\ m * (V * P) = (m * V) * Prec
    BY <1>1, <1>6
  <2>2. t = ChopRound(m * V)
    BY <1>3, <2>1, ChopExact
  <2> QED  BY <2>1, <2>2, ChopRoundNat
<1> DEFINE n == 2 * P * P
           e == P * P * P * U + P * P * U * V + p * U * V * (P + 2)
           left == t * P * U
           right == p * fee * V
<1>8. n * left <= n * right + e /\ n * right <= n * left + e
  <2> HIDE DEF P, p
  <2> QED  BY <1>1, <1>4, <1>5, <1>6, <1>7, RoundingChain
<1>9. /\ n \in Nat \ {0} /\ e \in Nat /\ left \in Nat /\ right \in Nat
  BY <1>1, <1>7
<1>10. RoundingError(token) = e \div n
  BY DEF RoundingError, U, V
<1> HIDE DEF n, e, left, right
<1>11. Abs(left - right) <= e \div n
  <2>1. CASE left >= right
    <3>1. left - right \in Nat /\ Abs(left - right) = left - right
      BY <1>9, <2>1 DEF Abs
    <3>2. n * (left - right) = n * left - n * right /\ n * left \in Int /\ n * right \in Int
      BY <1>9
    <3>3. n * (left - right) <= e
      BY <1>8, <1>9, <3>2
    <3> QED  BY <1>9, <3>1, <3>3, DivBound
  <2>2. CASE left < right
    <3>1. right - left \in Nat /\ Abs(left - right) = right - left
      BY <1>9, <2>2 DEF Abs
    <3>2. n * (right - left) = n * right - n * left /\ n * left \in Int /\ n * right \in Int
      BY <1>9
    <3>3. n * (right - left) <= e
      BY <1>8, <1>9, <3>2
    <3> QED  BY <1>9, <3>1, <3>3, DivBound
  <2> QED  BY <1>9, <2>1, <2>2
<1> QED  BY <1>10, <1>11 DEF left, right, t, U, V

(* an account pays n of one coin *)
PaysIn(a, c, n) ==
    /\ Collected(c) = n
    /\ Holdings(a, c)' = Holdings(a, c) - n
    /\ \A b \in AllCoins \ {c} : Collected(b) = 0 /\ Holdings(a, b)' = Holdings(a, b)

LEMMA ChargePays ==
    ASSUME BankTyped, NEW a \in Accounts, NEW c \in AllCoins, NEW n \in Nat,
           Charge(a, c, n)
    PROVE  PaysIn(a, c, n)
<1>1. /\ collector'[c] = collector[c] + n /\ collector[c] \in Nat
      /\ balances'[a][c] = balances[a][c] - n /\ balances[a][c] \in Nat
      /\ erc20' = erc20
      /\ c \in Paired => erc20[a][c] \in Nat
  BY DEF BankTyped, Charge
<1>2. \A b \in AllCoins \ {c} : /\ collector'[b] = collector[b] /\ collector[b] \in Nat
                                /\ balances'[a][b] = balances[a][b]
  BY DEF BankTyped, Charge
<1>3. Collected(c) = n
  BY <1>1 DEF Collected
<1>4. Holdings(a, c)' = Holdings(a, c) - n
  BY <1>1 DEF Holdings
<1>5. ASSUME NEW b \in AllCoins \ {c}
      PROVE  Collected(b) = 0 /\ Holdings(a, b)' = Holdings(a, b)
  BY <1>1, <1>2 DEF Collected, Holdings
<1> QED  BY <1>3, <1>4, <1>5 DEF PaysIn

LEMMA ChargeTokenPays ==
    ASSUME BankTyped, NEW a \in Accounts, NEW c \in Coins, NEW n \in Nat,
           HasTokens(a, c, n), ChargeToken(a, c, n)
    PROVE  PaysIn(a, c, n)
<1>1. c \in AllCoins /\ balances[a][c] \in Nat
  BY DEF AllCoins, BankTyped
<1>2. CASE balances[a][c] >= n
  <2>1. Charge(a, c, n)
    BY <1>1, <1>2 DEF ChargeToken
  <2> QED  BY <1>1, <2>1, ChargePays
<1>3. CASE ~(balances[a][c] >= n)
  <2>1. c \in Paired
    BY <1>3 DEF HasTokens
  <2>2. /\ erc20' = [erc20 EXCEPT ![a][c] = @ - n]
        /\ collector' = [collector EXCEPT ![c] = @ + n] /\ balances' = balances
    BY <1>3 DEF ChargeToken
  <2>3. /\ collector'[c] = collector[c] + n /\ collector[c] \in Nat
        /\ erc20'[a][c] = erc20[a][c] - n /\ erc20[a][c] \in Nat
    BY <1>1, <2>1, <2>2 DEF BankTyped
  <2>4. \A b \in AllCoins \ {c} : /\ collector'[b] = collector[b] /\ collector[b] \in Nat
                                  /\ b \in Paired => erc20'[a][b] = erc20[a][b]
    BY <1>1, <2>1, <2>2 DEF BankTyped
  <2>5. Collected(c) = n
    BY <2>3 DEF Collected
  <2>6. Holdings(a, c)' = Holdings(a, c) - n
    BY <1>1, <2>1, <2>2, <2>3 DEF Holdings
  <2>7. ASSUME NEW b \in AllCoins \ {c}
        PROVE  Collected(b) = 0 /\ Holdings(a, b)' = Holdings(a, b)
    BY <2>2, <2>4 DEF Collected, Holdings
  <2> QED  BY <2>5, <2>6, <2>7 DEF PaysIn
<1> QED  BY <1>2, <1>3

(* the fee is paid in c, and it is what the fee is worth *)
WorthIn(a, fee, c) ==
    /\ Collected(c) > 0
    /\ Holdings(a, c)' = Holdings(a, c) - Collected(c)
    /\ \A b \in AllCoins \ {c} :
          Collected(b) = 0 /\ Holdings(a, b)' = Holdings(a, b)
    /\ \/ c = Native /\ Collected(c) = fee
       \/ \E i \in DOMAIN feeTokens :
             /\ feeTokens[i].denom = c
             /\ Abs(Collected(c) * Prec * 10 ^ BaseDenomUnit
                      - feeTokens[i].price * fee * 10 ^ feeTokens[i].decimals)
                   <= RoundingError(feeTokens[i])

LEMMA PaidWorth ==
    ASSUME FInv, NEW a \in Accounts, NEW fee \in Fees \ {0}, Pays(a, fee)
    PROVE  \E c \in AllCoins : WorthIn(a, fee, c)
<1>1. BankTyped /\ fee \in Nat \ {0} /\ Native \in AllCoins /\ PayFee(a, fee)
  BY FeeAssumption, TypedParts, PayFacts DEF AllCoins
<1>2. CASE Charge(a, Native, fee)
  <2>1. PaysIn(a, Native, fee)
    BY <1>1, <1>2, ChargePays
  <2>2. WorthIn(a, fee, Native)
    BY <1>1, <2>1 DEF PaysIn, WorthIn
  <2> QED  BY <1>1, <2>2
<1>3. ASSUME NEW i \in DOMAIN feeTokens, TokenAmount(feeTokens[i], fee) \in Nat \ {0},
             HasTokens(a, feeTokens[i].denom, TokenAmount(feeTokens[i], fee)),
             ChargeToken(a, feeTokens[i].denom, TokenAmount(feeTokens[i], fee))
      PROVE  \E c \in AllCoins : WorthIn(a, fee, c)
  <2> DEFINE c == feeTokens[i].denom
             n == TokenAmount(feeTokens[i], fee)
  <2>1. feeTokens[i] \in TokenType /\ feeTokens[i].decimals \in 1 .. BaseDenomUnit
    BY DEF FInv, FeeTypeOK
  <2>2. c \in Coins /\ c \in AllCoins
    BY <2>1 DEF TokenType, AllCoins
  <2>3. PaysIn(a, c, n)
    BY <1>1, <1>3, <2>2, ChargeTokenPays
  <2>4. /\ Collected(c) = n /\ n \in Nat \ {0}
        /\ Holdings(a, c)' = Holdings(a, c) - n
        /\ \A b \in AllCoins \ {c} :
              Collected(b) = 0 /\ Holdings(a, b)' = Holdings(a, b)
    BY <1>3, <2>3 DEF PaysIn
  <2>5. Abs(n * Prec * 10 ^ BaseDenomUnit
              - feeTokens[i].price * fee * 10 ^ feeTokens[i].decimals)
           <= RoundingError(feeTokens[i])
    BY <1>1, <1>3, <2>1, AmountWorth
  <2> HIDE DEF n
  <2>6. Collected(c) > 0
    BY <2>4
  <2>7. WorthIn(a, fee, c)
    BY <2>4, <2>5, <2>6, Zenon DEF WorthIn
  <2> QED  BY <2>2, <2>7
<1> QED  BY <1>1, <1>2, <1>3, PaidIn, Zenon

(* whoever pays a fee pays what it is worth *)
WorthStep ==
    \A a \in Accounts, fee \in Fees \ {0} :
       Pays(a, fee) => \E c \in AllCoins : WorthIn(a, fee, c)

(* For every set of accounts, tokens, prices, decimals and precision, a    *)
(* fee is paid in one denomination, is never nothing, and goes to the      *)
(* collector: the fee itself in the native coin, or the fee at the price   *)
(* of a token to within the error of its three roundings.                  *)
THEOREM FeesAreWorth == FeeSpec => FeeIsWorth
<1>1. FInv /\ [FeeNext]_feeVars => [WorthStep]_feeVars
  BY PaidWorth DEF WorthStep
<1>2. FeeSpec => [][WorthStep]_feeVars
  BY <1>1, TypesAlways, PTL DEF FeeSpec
<1> QED  BY <1>2 DEF FeeIsWorth, WorthStep, WorthIn
=============================================================================
