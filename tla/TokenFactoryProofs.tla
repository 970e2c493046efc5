------------------------- MODULE TokenFactoryProofs -------------------------
(***************************************************************************)
(* Proofs about TokenFactory: its types, the agreement of its stores, that *)
(* coins are taken only by right, that the supply is backed by balances,   *)
(* and that it implements TokenLedger.                                     *)
(***************************************************************************)
EXTENDS TokenFactory, SetLemmas, TLAPS

(* the steps of Next, without their inputs: what a proof by cases needs *)
LEMMA StepCases ==
    ASSUME Next
    PROVE  \/ \E s \in Accounts, d \in Denoms :
                 \/ CreateDenom(s, d) \/ PerformCreateDenom(s, d)
                 \/ SetDenomMetadata(s, d)
           \/ \E s \in Accounts, d \in Denoms, h \in Holders : ChangeAdmin(s, d, h)
           \/ \E s \in Accounts, d \in Denoms, n \in Amounts, h \in Holders :
                 Mint(s, d, n, h) \/ PerformMint(s, d, n, h) \/ Burn(s, d, n, h)
           \/ \E s \in Accounts, d \in Denoms, n \in Amounts, from, to \in Holders :
                 ForceTransfer(s, d, n, from, to)
           \/ \E from \in Accounts, to \in Holders, coin \in Coins, n \in Amounts :
                 BankSend(from, to, coin, n)
           \/ \E newFee \in Fees : UpdateParams(newFee)
           \/ \E d \in Denoms : ApplyWhitelist(d)
           \/ RestartFromGenesis
<1>1. ASSUME NEW s \in Accounts, NEW d \in Denoms,
             NEW h \in Holders \cup {NoAdmin}, ChangeAdmin(s, d, h)
      PROVE  h \in Holders
  BY <1>1 DEF ChangeAdmin, ValidNewAdmin
<1> QED  BY <1>1, Zenon DEF Next, Message

-----------------------------------------------------------------------------
(* what x/bank's operations preserve, for amounts that are naturals *)
BankOK ==
    /\ balances \in [Holders -> [Coins -> Nat]]
    /\ supply \in [Coins -> Nat]

LEMMA CreditOK ==
    ASSUME NEW bal \in [Holders -> [Coins -> Nat]],
           NEW h \in Holders, NEW coin \in Coins, NEW n \in Nat
    PROVE  /\ Credit(bal, h, coin, n) \in [Holders -> [Coins -> Nat]]
           /\ \A g \in Holders, x \in Coins :
                 Credit(bal, h, coin, n)[g][x] >= bal[g][x]
<1>1. bal[h] \in [Coins -> Nat]
  OBVIOUS
<1>2. /\ [bal[h] EXCEPT ![coin] = @ + n] \in [Coins -> Nat]
      /\ \A x \in Coins : [bal[h] EXCEPT ![coin] = @ + n][x] >= bal[h][x]
  BY <1>1
<1>3. Credit(bal, h, coin, n) = [bal EXCEPT ![h] = [bal[h] EXCEPT ![coin] = @ + n]]
  BY DEF Credit
<1> QED  BY <1>2, <1>3

LEMMA DebitOK ==
    ASSUME NEW bal \in [Holders -> [Coins -> Nat]],
           NEW h \in Holders, NEW coin \in Coins, NEW n \in Nat, n <= bal[h][coin]
    PROVE  /\ Debit(bal, h, coin, n) \in [Holders -> [Coins -> Nat]]
           /\ \A g \in Holders, x \in Coins :
                 g # h \/ x # coin => Debit(bal, h, coin, n)[g][x] = bal[g][x]
<1>1. bal[h] \in [Coins -> Nat]
  OBVIOUS
<1>2. /\ [bal[h] EXCEPT ![coin] = @ - n] \in [Coins -> Nat]
      /\ \A x \in Coins : x # coin => [bal[h] EXCEPT ![coin] = @ - n][x] = bal[h][x]
  BY <1>1
<1>3. Debit(bal, h, coin, n) = [bal EXCEPT ![h] = [bal[h] EXCEPT ![coin] = @ - n]]
  BY DEF Debit
<1> QED  BY <1>2, <1>3

(* SendCoins keeps the types, and takes coins only from its sender *)
LEMMA SendPreserves ==
    ASSUME BankOK, NEW from \in Holders, NEW to \in Holders, NEW coin \in Coins,
           NEW n \in Nat, SendCoins(from, to, coin, n)
    PROVE  /\ BankOK'
           /\ \A g \in Holders, x \in Coins :
                 g # from \/ x # coin => balances'[g][x] >= balances[g][x]
<1> DEFINE mid == Debit(balances, from, coin, n)
<1>1. /\ mid \in [Holders -> [Coins -> Nat]]
      /\ \A g \in Holders, x \in Coins :
            g # from \/ x # coin => mid[g][x] = balances[g][x]
  BY DebitOK DEF BankOK, SendCoins
<1>2. balances' = Credit(mid, to, coin, n)
  BY DEF SendCoins
<1> HIDE DEF mid
<1>3. /\ balances' \in [Holders -> [Coins -> Nat]]
      /\ \A g \in Holders, x \in Coins : balances'[g][x] >= mid[g][x]
  BY <1>1, <1>2, CreditOK
<1> QED  BY <1>1, <1>3 DEF BankOK, SendCoins

(* MintCoins keeps the types, and takes nothing *)
LEMMA MintPreserves ==
    ASSUME BankOK, NEW to \in Holders, NEW coin \in Coins, NEW n \in Nat,
           MintCoins(to, coin, n)
    PROVE  /\ BankOK'
           /\ \A g \in Holders, x \in Coins : balances'[g][x] >= balances[g][x]
           /\ \A x \in Coins : x # coin => supply'[x] = supply[x]
<1>1. /\ balances' \in [Holders -> [Coins -> Nat]]
      /\ \A g \in Holders, x \in Coins : balances'[g][x] >= balances[g][x]
  BY CreditOK DEF BankOK, MintCoins
<1>2. /\ supply' \in [Coins -> Nat]
      /\ \A x \in Coins : x # coin => supply'[x] = supply[x]
  BY DEF BankOK, MintCoins
<1> QED  BY <1>1, <1>2 DEF BankOK

(* BurnCoins keeps the types, and takes coins only from their holder *)
LEMMA BurnPreserves ==
    ASSUME BankOK, NEW from \in Holders, NEW coin \in Coins, NEW n \in Nat,
           BurnCoins(from, coin, n)
    PROVE  /\ BankOK'
           /\ \A g \in Holders, x \in Coins :
                 g # from \/ x # coin => balances'[g][x] = balances[g][x]
           /\ \A x \in Coins : x # coin => supply'[x] = supply[x]
           /\ n # 0 => supply'[coin] < supply[coin]
<1>1. /\ balances' \in [Holders -> [Coins -> Nat]]
      /\ \A g \in Holders, x \in Coins :
            g # from \/ x # coin => balances'[g][x] = balances[g][x]
  BY DebitOK DEF BankOK, BurnCoins
<1>2. /\ supply' \in [Coins -> Nat]
      /\ \A x \in Coins : x # coin => supply'[x] = supply[x]
      /\ n # 0 => supply'[coin] < supply[coin]
  BY DEF BankOK, BurnCoins
<1> QED  BY <1>1, <1>2 DEF BankOK

(* the creation fee is taken from the creator, in the native coin *)
LEMMA ChargePreserves ==
    ASSUME BankOK, NEW c \in Accounts, fee \in Nat, chargeForCreateDenom(c)
    PROVE  /\ BankOK'
           /\ \A g \in Holders, x \in Coins :
                 g # c => balances'[g][x] >= balances[g][x]
           /\ \A d \in Denoms : supply'[d] = supply[d]
<1>1. /\ c \in Holders /\ Community \in Holders /\ Native \in Coins
      /\ \A d \in Denoms : d \in Coins /\ d # Native
  BY FactoryAssumption DEF Holders, Coins
<1>2. CASE SendCoins(c, Community, Native, fee)
  BY <1>1, <1>2, SendPreserves DEF SendCoins
<1>3. CASE BurnCoins(c, Native, fee)
  <2>1. /\ BankOK'
        /\ \A g \in Holders, x \in Coins :
              g # c \/ x # Native => balances'[g][x] = balances[g][x]
        /\ \A x \in Coins : x # Native => supply'[x] = supply[x]
    BY <1>1, <1>3, BurnPreserves
  <2>2. \A g \in Holders, x \in Coins : balances[g][x] \in Nat
    BY DEF BankOK
  <2> QED  BY <1>1, <2>1, <2>2
<1> QED
  BY <1>2, <1>3 DEF chargeForCreateDenom

-----------------------------------------------------------------------------
(* StoresAgree is inductive with the types of the stores.                  *)
StoresOK ==
    /\ admin \in [Denoms -> Holders \cup {NoAdmin}]
    /\ created \subseteq Denoms
    /\ metadata \in [Denoms -> {"none", "default", "custom"}]

(* what a creation does to the stores *)
LEMMA CreatePreserves ==
    ASSUME StoresOK, StoresAgree, NEW c \in Accounts, NEW d \in Denoms,
           NEW md \in {"default", "custom"}, createDenomAfterValidation(c, d, md)
    PROVE  StoresOK' /\ StoresAgree'
<1>1. c \in Holders
  BY DEF Holders
<1>2. StoresOK'
  BY <1>1 DEF StoresOK, createDenomAfterValidation
<1>3. \A e \in Denoms : admin'[e] # NoAdmin => e \in created'
  BY DEF StoresOK, StoresAgree, createDenomAfterValidation
<1>4. \A e \in created' : metadata'[e] # "none"
  BY DEF StoresOK, StoresAgree, createDenomAfterValidation
<1> QED  BY <1>2, <1>3, <1>4 DEF StoresAgree

LEMMA StoresStep ==
    ASSUME StoresOK, StoresAgree, [Next]_vars
    PROVE  StoresOK' /\ StoresAgree'
<1>1. CASE UNCHANGED storeVars
  BY <1>1 DEF StoresOK, StoresAgree, storeVars
<1>2. CASE UNCHANGED vars
  BY <1>1, <1>2 DEF vars
<1>3. ASSUME NEW s \in Accounts, NEW d \in Denoms,
             CreateDenom(s, d) \/ PerformCreateDenom(s, d)
      PROVE  StoresOK' /\ StoresAgree'
  BY <1>3, CreatePreserves DEF CreateDenom, PerformCreateDenom
<1>4. ASSUME NEW s \in Accounts, NEW d \in Denoms, SetDenomMetadata(s, d)
      PROVE  StoresOK' /\ StoresAgree'
  BY <1>4 DEF SetDenomMetadata, StoresOK, StoresAgree
<1>5. ASSUME NEW s \in Accounts, NEW d \in Denoms, NEW h \in Holders,
             ChangeAdmin(s, d, h)
      PROVE  StoresOK' /\ StoresAgree'
  <2>1. s # NoAdmin
    BY FactoryAssumption DEF Holders
  <2>2. d \in created
    BY <1>5, <2>1 DEF ChangeAdmin, StoresAgree
  <2> QED  BY <1>5, <2>2 DEF ChangeAdmin, StoresOK, StoresAgree
<1>6. ASSUME NEW d \in Denoms, ApplyWhitelist(d)
      PROVE  StoresOK' /\ StoresAgree'
  BY <1>6 DEF ApplyWhitelist, StoresOK, StoresAgree
<1>7. CASE RestartFromGenesis
  BY <1>7 DEF RestartFromGenesis, StoresOK, StoresAgree
<1>8. ASSUME NEW s \in Accounts, NEW d \in Denoms, NEW n \in Amounts, NEW h \in Holders,
             Mint(s, d, n, h) \/ PerformMint(s, d, n, h) \/ Burn(s, d, n, h)
      PROVE  UNCHANGED storeVars
  BY <1>8 DEF Mint, PerformMint, Burn
<1>9. ASSUME NEW s \in Accounts, NEW d \in Denoms, NEW n \in Amounts,
             NEW from \in Holders, NEW to \in Holders, ForceTransfer(s, d, n, from, to)
      PROVE  UNCHANGED storeVars
  BY <1>9 DEF ForceTransfer
<1>10. ASSUME NEW from \in Accounts, NEW to \in Holders, NEW coin \in Coins,
              NEW n \in Amounts, BankSend(from, to, coin, n)
       PROVE  UNCHANGED storeVars
  BY <1>10 DEF BankSend
<1>11. ASSUME NEW newFee \in Fees, UpdateParams(newFee)
       PROVE  UNCHANGED storeVars
  BY <1>11 DEF UpdateParams
<1> QED
  BY <1>1, <1>2, <1>3, <1>4, <1>5, <1>6, <1>7, <1>8, <1>9, <1>10, <1>11,
     StepCases, Zenon

LEMMA StoresInit ==
    ASSUME Init
    PROVE  StoresOK /\ StoresAgree
BY FactoryAssumption DEF Init, StoresOK, StoresAgree

(* The stores of token factory and of x/bank agree in every reachable      *)
(* state, for every set of accounts, denoms and capabilities: a denom with *)
(* an admin is exported by ExportGenesis, and one that was created can     *)
(* never be created again.                                                 *)
THEOREM StoresAlwaysAgree == Spec => []StoresAgree
<1>1. Spec => [](StoresOK /\ StoresAgree)
  BY StoresInit, StoresStep, PTL DEF Spec
<1> QED  BY <1>1, PTL

-----------------------------------------------------------------------------
Scalars ==
    /\ capabilities \in CapabilitySets
    /\ fee \in Fees
    /\ signer \in Accounts \cup {NoAdmin}
    /\ rcpt \in Holders \cup {NoAdmin}

LEMMA Amounts1 == Fees \subseteq Nat /\ \A n \in Amounts : n \in Nat /\ n # 0
BY FactoryAssumption

LEMMA Places ==
    /\ \A c \in Accounts : c \in Holders /\ c # NoAdmin
    /\ \A d \in Denoms : d \in Coins /\ d # Native
BY FactoryAssumption DEF Holders, Coins

LEMMA ScalarsStep ==
    ASSUME Scalars, [Next]_vars
    PROVE  Scalars'
<1>1. CASE UNCHANGED vars
  BY <1>1 DEF Scalars, vars
<1>2. ASSUME NEW s \in Accounts, NEW d \in Denoms,
             \/ CreateDenom(s, d) \/ PerformCreateDenom(s, d)
             \/ SetDenomMetadata(s, d)
             \/ \E h \in Holders : ChangeAdmin(s, d, h)
      PROVE  Scalars'
  BY <1>2 DEF Scalars, CreateDenom, PerformCreateDenom, SetDenomMetadata,
              ChangeAdmin, Signed
<1>3. ASSUME NEW s \in Accounts, NEW d \in Denoms, NEW n \in Amounts, NEW h \in Holders,
             Mint(s, d, n, h) \/ PerformMint(s, d, n, h) \/ Burn(s, d, n, h)
      PROVE  Scalars'
  BY <1>3 DEF Scalars, Mint, PerformMint, Burn, Signed
<1>4. ASSUME NEW s \in Accounts, NEW d \in Denoms, NEW n \in Amounts,
             NEW from \in Holders, NEW to \in Holders, ForceTransfer(s, d, n, from, to)
      PROVE  Scalars'
  BY <1>4 DEF Scalars, ForceTransfer, Signed
<1>5. ASSUME NEW from \in Accounts, NEW to \in Holders, NEW coin \in Coins,
             NEW n \in Amounts, BankSend(from, to, coin, n)
      PROVE  Scalars'
  BY <1>5 DEF Scalars, BankSend, Signed
<1>6. ASSUME NEW newFee \in Fees, UpdateParams(newFee)
      PROVE  Scalars'
  BY <1>6 DEF Scalars, UpdateParams, Signed
<1>7. ASSUME NEW d \in Denoms, ApplyWhitelist(d)
      PROVE  Scalars'
  BY <1>7 DEF Scalars, ApplyWhitelist, Signed
<1>8. CASE RestartFromGenesis
  BY <1>8 DEF Scalars, RestartFromGenesis, Signed
<1> QED
  BY <1>1, <1>2, <1>3, <1>4, <1>5, <1>6, <1>7, <1>8, StepCases, Zenon

-----------------------------------------------------------------------------
(* every loss of a step is rightful *)
RightfulStep ==
    \A h \in Holders, coin \in Coins :
       balances'[h][coin] < balances[h][coin] => Rightful(h, coin)

LEMMA BankSame ==
    ASSUME BankOK, UNCHANGED bankVars
    PROVE  BankOK' /\ RightfulStep
<1>1. BankOK' /\ balances' = balances
  BY DEF BankOK, bankVars
<1>2. \A h \in Holders, coin \in Coins : balances[h][coin] \in Nat
  BY DEF BankOK
<1> QED  BY <1>1, <1>2 DEF RightfulStep

(* a step in which no balance shrinks but rightfully *)
LEMMA NoOtherLoss ==
    ASSUME BankOK, BankOK',
           \A g \in Holders, x \in Coins :
              balances'[g][x] >= balances[g][x] \/ Rightful(g, x)
    PROVE  RightfulStep
<1>1. \A g \in Holders, x \in Coins :
         balances[g][x] \in Nat /\ balances'[g][x] \in Nat
  BY DEF BankOK
<1>2. ASSUME NEW g \in Holders, NEW x \in Coins, balances'[g][x] < balances[g][x]
      PROVE  Rightful(g, x)
  BY <1>1, <1>2
<1> QED  BY <1>2, Zenon DEF RightfulStep

LEMMA BankStep ==
    ASSUME BankOK, Scalars, [Next]_vars
    PROVE  BankOK' /\ RightfulStep
<1> USE Amounts1, Places
<1>1. CASE UNCHANGED bankVars
  BY <1>1, BankSame
<1>2. CASE UNCHANGED vars
  BY <1>1, <1>2 DEF vars
<1>3. ASSUME NEW s \in Accounts, NEW d \in Denoms,
             CreateDenom(s, d) \/ PerformCreateDenom(s, d)
      PROVE  BankOK' /\ RightfulStep
  <2>1. chargeForCreateDenom(s) /\ signer' = s /\ fee \in Nat
    BY <1>3 DEF CreateDenom, PerformCreateDenom, Signed, Scalars
  <2>2. /\ BankOK'
        /\ \A g \in Holders, x \in Coins : g # s => balances'[g][x] >= balances[g][x]
    BY <2>1, ChargePreserves
  <2>3. \A x \in Coins : Rightful(s, x)
    BY <2>1 DEF Rightful
  <2> QED  BY <2>2, <2>3, NoOtherLoss
<1>4. ASSUME NEW s \in Accounts, NEW d \in Denoms, NEW n \in Amounts, NEW h \in Holders,
             Mint(s, d, n, h) \/ PerformMint(s, d, n, h)
      PROVE  BankOK' /\ RightfulStep
  <2>1. PICK to \in Holders : MintCoins(to, d, n)
    BY <1>4 DEF Mint, PerformMint
  <2>2. BankOK' /\ \A g \in Holders, x \in Coins : balances'[g][x] >= balances[g][x]
    BY <2>1, MintPreserves
  <2> QED  BY <2>2, NoOtherLoss
<1>5. ASSUME NEW s \in Accounts, NEW d \in Denoms, NEW n \in Amounts, NEW from \in Holders,
             Burn(s, d, n, from)
      PROVE  BankOK' /\ RightfulStep
  <2>1. /\ BankOK'
        /\ \A g \in Holders, x \in Coins :
              g # from \/ x # d => balances'[g][x] = balances[g][x]
        /\ supply'[d] < supply[d]
    BY <1>5, BurnPreserves DEF Burn
  <2>2. Rightful(from, d)
    BY <1>5, <2>1 DEF Burn, Signed, Rightful
  <2>3. \A g \in Holders, x \in Coins :
           balances[g][x] \in Nat
    BY DEF BankOK
  <2>4. \A g \in Holders, x \in Coins :
           g # from \/ x # d => balances'[g][x] >= balances[g][x]
    BY <2>1, <2>3
  <2> QED  BY <2>1, <2>2, <2>4, NoOtherLoss
<1>6. ASSUME NEW s \in Accounts, NEW d \in Denoms, NEW n \in Amounts,
             NEW from \in Holders, NEW to \in Holders, ForceTransfer(s, d, n, from, to)
      PROVE  BankOK' /\ RightfulStep
  <2>1. /\ BankOK'
        /\ \A g \in Holders, x \in Coins :
              g # from \/ x # d => balances'[g][x] >= balances[g][x]
    BY <1>6, SendPreserves DEF ForceTransfer
  <2>2. Rightful(from, d)
    BY <1>6 DEF ForceTransfer, Signed, Rightful
  <2> QED  BY <2>1, <2>2, NoOtherLoss
<1>7. ASSUME NEW from \in Accounts, NEW to \in Holders, NEW coin \in Coins,
             NEW n \in Amounts, BankSend(from, to, coin, n)
      PROVE  BankOK' /\ RightfulStep
  <2>1. /\ BankOK'
        /\ \A g \in Holders, x \in Coins :
              g # from \/ x # coin => balances'[g][x] >= balances[g][x]
    BY <1>7, SendPreserves DEF BankSend
  <2>2. Rightful(from, coin)
    BY <1>7 DEF BankSend, Signed, Rightful
  <2> QED  BY <2>1, <2>2, NoOtherLoss
<1>8. ASSUME NEW s \in Accounts, NEW d \in Denoms,
             SetDenomMetadata(s, d) \/ \E h \in Holders : ChangeAdmin(s, d, h)
      PROVE  UNCHANGED bankVars
  BY <1>8 DEF SetDenomMetadata, ChangeAdmin
<1>9. ASSUME NEW newFee \in Fees, UpdateParams(newFee)
      PROVE  UNCHANGED bankVars
  BY <1>9 DEF UpdateParams
<1>10. ASSUME NEW d \in Denoms, ApplyWhitelist(d)
       PROVE  UNCHANGED bankVars
  BY <1>10 DEF ApplyWhitelist
<1>11. CASE RestartFromGenesis
  BY <1>1, <1>11 DEF RestartFromGenesis
<1> HIDE Amounts1, Places
<1> QED
  BY <1>1, <1>2, <1>3, <1>4, <1>5, <1>6, <1>7, <1>8, <1>9, <1>10, <1>11,
     StepCases, Zenon

LEMMA ScalarsInit ==
    ASSUME Init
    PROVE  Scalars /\ BankOK
BY FactoryAssumption DEF Init, Scalars, BankOK

(* Types, among them that no balance and no supply becomes negative.       *)
THEOREM TypeCorrect == Spec => []TypeOK
<1>1. Spec => [](StoresOK /\ StoresAgree)
  BY StoresInit, StoresStep, PTL DEF Spec
<1>2. Spec => [](Scalars /\ BankOK)
  BY ScalarsInit, ScalarsStep, BankStep, PTL DEF Spec
<1>3. StoresOK /\ Scalars /\ BankOK => TypeOK
  BY DEF StoresOK, Scalars, BankOK, TypeOK
<1> QED  BY <1>1, <1>2, <1>3, PTL

(* Nobody but the holder takes coins of it, except the admin of the denom  *)
(* by a capability of the chain; never the native coin, and never, by a    *)
(* forced transfer, from a module account.                                 *)
THEOREM CoinsTakenOnlyByRight == Spec => TakenOnlyByRight
<1>1. Spec => [](Scalars /\ BankOK)
  BY ScalarsInit, ScalarsStep, BankStep, PTL DEF Spec
<1>2. Scalars /\ BankOK /\ [Next]_vars => [RightfulStep]_vars
  BY BankStep
<1>3. Spec => [][RightfulStep]_vars
  BY <1>1, <1>2, PTL DEF Spec
<1> QED  BY <1>3 DEF TakenOnlyByRight, RightfulStep

-----------------------------------------------------------------------------
(* a balance that changes by k changes the sum of its coin by k *)
LEMMA SupplyShift ==
    ASSUME NEW bal \in [Holders -> [Coins -> Nat]], NEW new \in [Holders -> [Coins -> Nat]],
           NEW h \in Holders, NEW coin \in Coins, NEW k \in Int,
           new[h][coin] = bal[h][coin] + k,
           \A g \in Holders, x \in Coins :
              g # h \/ x # coin => new[g][x] = bal[g][x]
    PROVE  /\ SupplyOf(new, coin) = SupplyOf(bal, coin) + k
           /\ \A x \in Coins : x # coin => SupplyOf(new, x) = SupplyOf(bal, x)
<1>1. IsFiniteSet(Holders)
  BY FactoryAssumption
<1>2. SupplyOf(new, coin) = SupplyOf(bal, coin) + k
  <2> DEFINE f == [g \in Holders |-> bal[g][coin]]
             e == [g \in Holders |-> new[g][coin]]
  <2>1. \A g \in Holders : f[g] \in Int /\ e[g] \in Int
    OBVIOUS
  <2>2. \A g \in Holders \ {h} : f[g] = e[g]
    OBVIOUS
  <2>3. e[h] - f[h] = k
    OBVIOUS
  <2> HIDE DEF e, f
  <2>4. SumFunctionOnSet(e, Holders) = SumFunctionOnSet(f, Holders) + (e[h] - f[h])
    BY <1>1, <2>1, <2>2, SumUpdate
  <2> QED  BY <2>3, <2>4 DEF SupplyOf, e, f
<1>3. ASSUME NEW x \in Coins, x # coin
      PROVE  SupplyOf(new, x) = SupplyOf(bal, x)
  <2>1. [g \in Holders |-> new[g][x]] = [g \in Holders |-> bal[g][x]]
    BY <1>3
  <2> QED  BY <2>1 DEF SupplyOf
<1> QED  BY <1>2, <1>3

LEMMA SupplyOfInt ==
    ASSUME NEW bal \in [Holders -> [Coins -> Nat]], NEW coin \in Coins
    PROVE  SupplyOf(bal, coin) \in Int
<1>1. IsFiniteSet(Holders)
  BY FactoryAssumption
<1> DEFINE f == [g \in Holders |-> bal[g][coin]]
<1>2. \A g \in Holders : f[g] \in Int
  OBVIOUS
<1> HIDE DEF f
<1>3. Holders \in SUBSET Holders
  OBVIOUS
<1>4. SumFunctionOnSet(f, Holders) \in Int
  BY <1>1, <1>2, <1>3, SumInt
<1> QED  BY <1>4 DEF SupplyOf, f

LEMMA CreditSupply ==
    ASSUME NEW bal \in [Holders -> [Coins -> Nat]],
           NEW h \in Holders, NEW coin \in Coins, NEW n \in Nat
    PROVE  /\ SupplyOf(Credit(bal, h, coin, n), coin) = SupplyOf(bal, coin) + n
           /\ \A x \in Coins :
                 x # coin => SupplyOf(Credit(bal, h, coin, n), x) = SupplyOf(bal, x)
<1> DEFINE new == Credit(bal, h, coin, n)
<1>1. new \in [Holders -> [Coins -> Nat]]
  BY CreditOK
<1>2. /\ new[h][coin] = bal[h][coin] + n
      /\ \A g \in Holders, x \in Coins : g # h \/ x # coin => new[g][x] = bal[g][x]
  BY DEF Credit
<1> HIDE DEF new
<1>3. /\ SupplyOf(new, coin) = SupplyOf(bal, coin) + n
      /\ \A x \in Coins : x # coin => SupplyOf(new, x) = SupplyOf(bal, x)
  BY <1>1, <1>2, SupplyShift
<1> QED  BY <1>3 DEF new

LEMMA DebitSupply ==
    ASSUME NEW bal \in [Holders -> [Coins -> Nat]],
           NEW h \in Holders, NEW coin \in Coins, NEW n \in Nat, n <= bal[h][coin]
    PROVE  /\ SupplyOf(Debit(bal, h, coin, n), coin) = SupplyOf(bal, coin) - n
           /\ \A x \in Coins :
                 x # coin => SupplyOf(Debit(bal, h, coin, n), x) = SupplyOf(bal, x)
<1> DEFINE new == Debit(bal, h, coin, n)
<1>1. new \in [Holders -> [Coins -> Nat]]
  BY DebitOK
<1>2. PICK k \in Int : k = -n
  OBVIOUS
<1>3. /\ new[h][coin] = bal[h][coin] + k
      /\ \A g \in Holders, x \in Coins : g # h \/ x # coin => new[g][x] = bal[g][x]
  BY <1>2 DEF Debit
<1> HIDE DEF new
<1>4. /\ SupplyOf(new, coin) = SupplyOf(bal, coin) + k
      /\ \A x \in Coins : x # coin => SupplyOf(new, x) = SupplyOf(bal, x)
  BY <1>1, <1>3, SupplyShift
<1> QED  BY <1>2, <1>4, SupplyOfInt DEF new

(* x/bank's operations keep the supply backed *)
LEMMA SendBacked ==
    ASSUME BankOK, SupplyBacked, NEW from \in Holders, NEW to \in Holders,
           NEW coin \in Coins, NEW n \in Nat, SendCoins(from, to, coin, n)
    PROVE  SupplyBacked'
<1> DEFINE mid == Debit(balances, from, coin, n)
<1>1. mid \in [Holders -> [Coins -> Nat]]
  BY DebitOK DEF BankOK, SendCoins
<1>2. /\ SupplyOf(mid, coin) = SupplyOf(balances, coin) - n
      /\ \A x \in Coins : x # coin => SupplyOf(mid, x) = SupplyOf(balances, x)
  BY DebitSupply DEF BankOK, SendCoins
<1>3. balances' = Credit(mid, to, coin, n) /\ supply' = supply
  BY DEF SendCoins
<1> HIDE DEF mid
<1>4. /\ SupplyOf(balances', coin) = SupplyOf(mid, coin) + n
      /\ \A x \in Coins : x # coin => SupplyOf(balances', x) = SupplyOf(mid, x)
  BY <1>1, <1>3, CreditSupply
<1>5. \A x \in Coins : SupplyOf(balances, x) \in Int
  BY SupplyOfInt DEF BankOK
<1>6. \A x \in Coins : SupplyOf(balances', x) = SupplyOf(balances, x)
  BY <1>2, <1>4, <1>5
<1> QED  BY <1>3, <1>6 DEF SupplyBacked, SupplyOf

LEMMA MintBacked ==
    ASSUME BankOK, SupplyBacked, NEW to \in Holders, NEW coin \in Coins,
           NEW n \in Nat, MintCoins(to, coin, n)
    PROVE  SupplyBacked'
<1>1. /\ SupplyOf(balances', coin) = SupplyOf(balances, coin) + n
      /\ \A x \in Coins : x # coin => SupplyOf(balances', x) = SupplyOf(balances, x)
  BY CreditSupply DEF BankOK, MintCoins
<1>2. /\ supply'[coin] = supply[coin] + n
      /\ \A x \in Coins : x # coin => supply'[x] = supply[x]
  BY DEF BankOK, MintCoins
<1>3. \A x \in Coins : supply'[x] = SupplyOf(balances', x)
  BY <1>1, <1>2 DEF SupplyBacked
<1> QED  BY <1>3 DEF SupplyBacked, SupplyOf

LEMMA BurnBacked ==
    ASSUME BankOK, SupplyBacked, NEW from \in Holders, NEW coin \in Coins,
           NEW n \in Nat, BurnCoins(from, coin, n)
    PROVE  SupplyBacked'
<1>1. /\ SupplyOf(balances', coin) = SupplyOf(balances, coin) - n
      /\ \A x \in Coins : x # coin => SupplyOf(balances', x) = SupplyOf(balances, x)
  BY DebitSupply DEF BankOK, BurnCoins
<1>2. /\ supply'[coin] = supply[coin] - n
      /\ \A x \in Coins : x # coin => supply'[x] = supply[x]
  BY DEF BankOK, BurnCoins
<1>3. \A x \in Coins : supply'[x] = SupplyOf(balances', x)
  BY <1>1, <1>2 DEF SupplyBacked
<1> QED  BY <1>3 DEF SupplyBacked, SupplyOf

LEMMA BackedStep ==
    ASSUME BankOK, Scalars, SupplyBacked, [Next]_vars
    PROVE  SupplyBacked'
<1> USE Amounts1, Places
<1>1. CASE UNCHANGED bankVars
  BY <1>1 DEF bankVars, SupplyBacked, SupplyOf
<1>2. CASE UNCHANGED vars
  BY <1>1, <1>2 DEF vars
<1>3. ASSUME NEW s \in Accounts, NEW d \in Denoms,
             CreateDenom(s, d) \/ PerformCreateDenom(s, d)
      PROVE  SupplyBacked'
  <2>1. chargeForCreateDenom(s) /\ fee \in Nat
    BY <1>3 DEF CreateDenom, PerformCreateDenom, Scalars
  <2>2. Community \in Holders /\ Native \in Coins
    BY FactoryAssumption DEF Holders, Coins
  <2>3. SendCoins(s, Community, Native, fee) \/ BurnCoins(s, Native, fee)
    BY <2>1 DEF chargeForCreateDenom
  <2> QED  BY <2>1, <2>2, <2>3, SendBacked, BurnBacked
<1>4. ASSUME NEW s \in Accounts, NEW d \in Denoms, NEW n \in Amounts, NEW h \in Holders,
             Mint(s, d, n, h) \/ PerformMint(s, d, n, h)
      PROVE  SupplyBacked'
  <2>1. PICK to \in Holders : MintCoins(to, d, n)
    BY <1>4 DEF Mint, PerformMint
  <2> QED  BY <2>1, MintBacked
<1>5. ASSUME NEW s \in Accounts, NEW d \in Denoms, NEW n \in Amounts, NEW from \in Holders,
             Burn(s, d, n, from)
      PROVE  SupplyBacked'
  BY <1>5, BurnBacked DEF Burn
<1>6. ASSUME NEW s \in Accounts, NEW d \in Denoms, NEW n \in Amounts,
             NEW from \in Holders, NEW to \in Holders, ForceTransfer(s, d, n, from, to)
      PROVE  SupplyBacked'
  BY <1>6, SendBacked DEF ForceTransfer
<1>7. ASSUME NEW from \in Accounts, NEW to \in Holders, NEW coin \in Coins,
             NEW n \in Amounts, BankSend(from, to, coin, n)
      PROVE  SupplyBacked'
  BY <1>7, SendBacked DEF BankSend
<1>8. ASSUME NEW s \in Accounts, NEW d \in Denoms,
             SetDenomMetadata(s, d) \/ \E h \in Holders : ChangeAdmin(s, d, h)
      PROVE  UNCHANGED bankVars
  BY <1>8 DEF SetDenomMetadata, ChangeAdmin
<1>9. ASSUME NEW newFee \in Fees, UpdateParams(newFee)
      PROVE  UNCHANGED bankVars
  BY <1>9 DEF UpdateParams
<1>10. ASSUME NEW d \in Denoms, ApplyWhitelist(d)
       PROVE  UNCHANGED bankVars
  BY <1>10 DEF ApplyWhitelist
<1>11. CASE RestartFromGenesis
  BY <1>1, <1>11 DEF RestartFromGenesis
<1> HIDE Amounts1, Places
<1> QED
  BY <1>1, <1>2, <1>3, <1>4, <1>5, <1>6, <1>7, <1>8, <1>9, <1>10, <1>11,
     StepCases, Zenon

(* The supply that x/bank reports is the sum of all balances in every      *)
(* reachable state, for any finite set of accounts and any history of      *)
(* mints, burns, transfers, creation fees and restarts: no step of token   *)
(* factory leaves coins behind that no holder has, and none destroys       *)
(* coins that the supply still counts.                                     *)
THEOREM SupplyAlwaysBacked == Spec => []SupplyBacked
<1>1. Spec => [](Scalars /\ BankOK)
  BY ScalarsInit, ScalarsStep, BankStep, PTL DEF Spec
<1>2. Init => SupplyBacked
  BY FactoryAssumption DEF Init, SupplyBacked
<1>3. BankOK /\ Scalars /\ SupplyBacked /\ [Next]_vars => SupplyBacked'
  BY BackedStep
<1> QED  BY <1>1, <1>2, <1>3, PTL DEF Spec

-----------------------------------------------------------------------------
(* a step of token factory is a step of the ledger *)
LEMMA LedgerInit ==
    ASSUME Init
    PROVE  Ledger!Init
BY FactoryAssumption DEF Init, Ledger!Init

(* a step that changes neither owners nor denoms nor their supply *)
LEMMA LedgerOther ==
    ASSUME UNCHANGED <<admin, created>>, \A d \in Denoms : supply'[d] = supply[d]
    PROVE  Ledger!Other
BY DEF Ledger!Other

(* a step of the admin that changes the supply of its denom *)
LEMMA LedgerSupply ==
    ASSUME NEW s \in Accounts, NEW d \in Denoms, s = admin[d], signer' = s,
           UNCHANGED storeVars,
           \A x \in Coins : x # d => supply'[x] = supply[x]
    PROVE  Ledger!ChangeSupply(d)
<1>1. s # NoAdmin
  BY Places
<1>2. [e \in Denoms |-> supply'[e]]
         = [[e \in Denoms |-> supply[e]] EXCEPT ![d] = [e \in Denoms |-> supply'[e]][d]]
  BY Places
<1> QED  BY <1>1, <1>2 DEF Ledger!ChangeSupply, storeVars

LEMMA LedgerStep ==
    ASSUME BankOK, Scalars, StoresOK, StoresAgree, [Next]_vars
    PROVE  [Ledger!Next]_(Ledger!ledgerVars)
<1> USE Amounts1, Places
<1>1. CASE UNCHANGED vars
  BY <1>1 DEF vars, storeVars, bankVars, Ledger!ledgerVars
<1>2. ASSUME NEW s \in Accounts, NEW d \in Denoms,
             CreateDenom(s, d) \/ PerformCreateDenom(s, d)
      PROVE  Ledger!Issue(d)
  <2>1. d \notin created /\ s = Creator[d]
    BY <1>2 DEF CreateDenom, PerformCreateDenom, StoresAgree
  <2>2. \A e \in Denoms : supply'[e] = supply[e]
    <3>1. chargeForCreateDenom(s) /\ fee \in Nat
      BY <1>2 DEF CreateDenom, PerformCreateDenom, Scalars
    <3> QED  BY <3>1, ChargePreserves
  <2>3. /\ admin' = [admin EXCEPT ![d] = s] /\ created' = created \cup {d}
        /\ signer' = s
    BY <1>2 DEF CreateDenom, PerformCreateDenom, createDenomAfterValidation, Signed
  <2> QED  BY <2>1, <2>2, <2>3 DEF Ledger!Issue
<1>3. ASSUME NEW s \in Accounts, NEW d \in Denoms, NEW n \in Amounts, NEW h \in Holders,
             Mint(s, d, n, h) \/ PerformMint(s, d, n, h)
      PROVE  Ledger!ChangeSupply(d)
  <2>1. PICK to \in Holders : MintCoins(to, d, n)
    BY <1>3 DEF Mint, PerformMint
  <2>2. \A x \in Coins : x # d => supply'[x] = supply[x]
    BY <2>1, MintPreserves
  <2>3. s = admin[d] /\ signer' = s /\ UNCHANGED storeVars
    BY <1>3 DEF Mint, PerformMint
  <2> QED  BY <2>2, <2>3, LedgerSupply
<1>4. ASSUME NEW s \in Accounts, NEW d \in Denoms, NEW n \in Amounts, NEW h \in Holders,
             Burn(s, d, n, h)
      PROVE  Ledger!ChangeSupply(d)
  <2>1. \A x \in Coins : x # d => supply'[x] = supply[x]
    BY <1>4, BurnPreserves DEF Burn
  <2>2. s = admin[d] /\ signer' = s /\ UNCHANGED storeVars
    BY <1>4 DEF Burn, Signed
  <2> QED  BY <2>1, <2>2, LedgerSupply
<1>5. ASSUME NEW s \in Accounts, NEW d \in Denoms, NEW h \in Holders, ChangeAdmin(s, d, h)
      PROVE  Ledger!HandOver(d)
  <2>1. /\ s = admin[d] /\ signer' = s /\ admin' = [admin EXCEPT ![d] = h]
        /\ UNCHANGED <<created, supply>>
    BY <1>5 DEF ChangeAdmin, Signed, bankVars
  <2>2. admin' = [admin EXCEPT ![d] = admin'[d]] /\ admin'[d] = h
    BY <2>1 DEF StoresOK
  <2> QED  BY <2>1, <2>2 DEF Ledger!HandOver
<1>6. ASSUME NEW s \in Accounts, NEW d \in Denoms, SetDenomMetadata(s, d)
      PROVE  Ledger!Other
  BY <1>6, LedgerOther DEF SetDenomMetadata, bankVars
<1>7. ASSUME NEW s \in Accounts, NEW d \in Denoms, NEW n \in Amounts,
             NEW from \in Holders, NEW to \in Holders, ForceTransfer(s, d, n, from, to)
      PROVE  Ledger!Other
  BY <1>7, LedgerOther DEF ForceTransfer, SendCoins, storeVars
<1>8. ASSUME NEW from \in Accounts, NEW to \in Holders, NEW coin \in Coins,
             NEW n \in Amounts, BankSend(from, to, coin, n)
      PROVE  Ledger!Other
  BY <1>8, LedgerOther DEF BankSend, SendCoins, storeVars
<1>9. ASSUME NEW newFee \in Fees, UpdateParams(newFee)
      PROVE  Ledger!Other
  BY <1>9, LedgerOther DEF UpdateParams, storeVars, bankVars
<1>10. ASSUME NEW d \in Denoms, ApplyWhitelist(d)
       PROVE  Ledger!Other
  BY <1>10, LedgerOther DEF ApplyWhitelist, bankVars
<1>11. CASE RestartFromGenesis
  <2>1. UNCHANGED <<created, supply>>
    BY <1>11 DEF RestartFromGenesis, bankVars
  <2>2. admin' = admin
    BY <1>11 DEF RestartFromGenesis, StoresOK, StoresAgree
  <2> QED  BY <2>1, <2>2, LedgerOther DEF Ledger!Next
<1> HIDE Amounts1, Places
<1> QED
  BY <1>1, <1>2, <1>3, <1>4, <1>5, <1>6, <1>7, <1>8, <1>9, <1>10, <1>11,
     StepCases, Zenon DEF Ledger!Next

(* Token factory implements the ledger: only its creator issues a denom,   *)
(* and only once; only its admin changes its supply or hands it over; and  *)
(* a restart from the exported genesis changes no owner and no supply.     *)
THEOREM ImplementsLedger == Spec => LedgerSpec
<1>1. Spec => [](StoresOK /\ StoresAgree)
  BY StoresInit, StoresStep, PTL DEF Spec
<1>2. Spec => [](Scalars /\ BankOK)
  BY ScalarsInit, ScalarsStep, BankStep, PTL DEF Spec
<1>3. BankOK /\ Scalars /\ StoresOK /\ StoresAgree /\ [Next]_vars
         => [Ledger!Next]_(Ledger!ledgerVars)
  BY LedgerStep
<1> QED
  BY <1>1, <1>2, <1>3, LedgerInit, PTL DEF Spec, LedgerSpec, Ledger!Spec
=============================================================================
