---------------------------- MODULE TokenFactory ----------------------------
(***************************************************************************)
(* x/tokenfactory and the messages that contracts send to it through       *)
(* wasmbinding/tokenfactory.  Who may do what is spread over three stores: *)
(* the admins and the creators' denoms of the module, and the metadata of  *)
(* x/bank, which every module writes and by which the module tells that a  *)
(* denom exists.  x/bank is external; a message that fails changes         *)
(* nothing and is not a step.                                              *)
(***************************************************************************)
EXTENDS Integers, FiniteSetsExt, Functions

CONSTANTS
    Denoms,          \* names factory/{creator}/{subdenom}
    Creator,         \* the creator in the name of each denom
    Accounts,        \* the accounts that sign messages
    Contracts,       \* the accounts that are contracts
    Modules,         \* module accounts; they sign nothing
    Blocked,         \* the module accounts that must not receive coins
    Community,       \* the module account of the community pool
    NoAdmin,         \* the empty address
    Native,          \* the coin of the creation fee
    CapabilitySets,  \* the enabled capabilities of the chains considered
    GenesisAdmins,   \* the denoms in the genesis, with their admins
    InitBalances,    \* the genesis of x/bank
    InitSupply,      \* and its supply, which x/bank validates
    Fees,            \* bound: the creation fees governance proposes
    Amounts,         \* bound: the amounts in messages
    MaxSupply        \* bound: the supply of a denom

Holders == Accounts \cup Modules
Coins == Denoms \cup {Native}

SupplyOf(bal, coin) == SumFunctionOnSet([h \in Holders |-> bal[h][coin]], Holders)

ASSUME FactoryAssumption ==
    /\ Native \notin Denoms /\ NoAdmin \notin Holders
    /\ IsFiniteSet(Holders) /\ Accounts \cap Modules = {}
    /\ Contracts \subseteq Accounts /\ Blocked \subseteq Modules
    /\ Community \in Modules
    /\ Creator \in [Denoms -> Accounts]
    /\ DOMAIN GenesisAdmins \subseteq Denoms
    /\ \A d \in DOMAIN GenesisAdmins : GenesisAdmins[d] \in Holders \cup {NoAdmin}
    /\ InitBalances \in [Holders -> [Coins -> Nat]]
    /\ InitSupply \in [Coins -> Nat]
    /\ \A coin \in Coins : InitSupply[coin] = SupplyOf(InitBalances, coin)
    /\ Fees \subseteq Nat /\ Amounts \subseteq Nat \ {0} /\ MaxSupply \in Nat

VARIABLES
    capabilities,  \* enabledCapabilities, fixed for a chain
    fee,           \* Params.DenomCreationFee
    admin,         \* DenomAuthorityMetadata.Admin; no entry reads as NoAdmin
    created,       \* the stores of all creators
    metadata,      \* x/bank: metadata of a denom, if any
    balances,      \* x/bank: balances, by holder
    supply,        \* x/bank: total supply
    signer,        \* history: who signed the last message
    rcpt           \* history: whom the last message mints to, if it mints

storeVars == <<admin, created, metadata>>
bankVars == <<balances, supply>>
vars == <<capabilities, fee, storeVars, bankVars, signer, rcpt>>

-----------------------------------------------------------------------------
(* IsCapabilityEnabled *)
Enabled(capability) == capability \in capabilities

(* the message is signed by s and does not mint *)
Signed(s) == signer' = s /\ rcpt' = NoAdmin

(* SendCoins, MintCoins with SendCoinsFromModuleToAccount, and             *)
(* SendCoinsFromAccountToModule with BurnCoins, of x/bank.  BurnCoins      *)
(* panics rather than make the supply negative.                            *)
Credit(bal, h, coin, n) == [bal EXCEPT ![h][coin] = @ + n]
Debit(bal, h, coin, n) == [bal EXCEPT ![h][coin] = @ - n]

SendCoins(from, to, coin, n) ==
    /\ n <= balances[from][coin]
    /\ balances' = Credit(Debit(balances, from, coin, n), to, coin, n)
    /\ UNCHANGED supply

MintCoins(to, coin, n) ==
    /\ balances' = Credit(balances, to, coin, n)
    /\ supply' = [supply EXCEPT ![coin] = @ + n]

BurnCoins(from, coin, n) ==
    /\ n <= balances[from][coin] /\ n <= supply[coin]
    /\ balances' = Debit(balances, from, coin, n)
    /\ supply' = [supply EXCEPT ![coin] = @ - n]

-----------------------------------------------------------------------------
(* chargeForCreateDenom.  A fee that is kept by the module would be a leak *)
(* of the supply (ChargeUnburned, a mutant).                               *)
ChargeUnburned(c) ==
    /\ fee <= balances[c][Native]
    /\ balances' = Debit(balances, c, Native, fee)
    /\ UNCHANGED supply

chargeForCreateDenom(c) ==
    IF Enabled("community_pool_fee_funding")
    THEN SendCoins(c, Community, Native, fee)
    ELSE BurnCoins(c, Native, fee)

(* createDenomAfterValidation; a mutant forgets the creator's store *)
createDenomUnindexed(c, d, md) ==
    /\ metadata' = [metadata EXCEPT ![d] = md]
    /\ admin' = [admin EXCEPT ![d] = c]
    /\ UNCHANGED created

createDenomAfterValidation(c, d, md) ==
    /\ metadata' = [metadata EXCEPT ![d] = md]
    /\ admin' = [admin EXCEPT ![d] = c]
    /\ created' = created \cup {d}

(* Keeper.CreateDenom *)
CreateDenom(c, d) ==
    /\ c = Creator[d] /\ metadata[d] = "none"
    /\ chargeForCreateDenom(c)
    /\ createDenomAfterValidation(c, d, "default")
    /\ Signed(c)
    /\ UNCHANGED <<capabilities, fee>>

(* the binding's CreateDenom with metadata: PerformSetMetadata runs on the *)
(* denom whose admin the contract has just become                          *)
PerformCreateDenom(c, d) ==
    /\ c \in Contracts
    /\ c = Creator[d] /\ metadata[d] = "none"
    /\ chargeForCreateDenom(c)
    /\ createDenomAfterValidation(c, d, "custom")
    /\ Signed(c)
    /\ UNCHANGED <<capabilities, fee>>

(* msgServer.Mint with mintTo *)
Mint(s, d, n, to) ==
    /\ metadata[d] # "none" /\ s = admin[d]
    /\ to \notin Blocked
    /\ supply[d] + n <= MaxSupply
    /\ MintCoins(to, d, n)
    /\ signer' = s /\ rcpt' = to
    /\ UNCHANGED <<capabilities, fee, storeVars>>

(* PerformMint: a MsgMint to the contract itself, then the coins are sent  *)
(* on.  For a blocked recipient it returns the wrapping of a nil error,    *)
(* which is nil: the message succeeds and the contract keeps the coins.    *)
PerformMint(c, d, n, to) ==
    /\ c \in Contracts
    /\ metadata[d] # "none" /\ c = admin[d]
    /\ supply[d] + n <= MaxSupply
    /\ MintCoins(IF to \in Blocked THEN c ELSE to, d, n)
    /\ signer' = c /\ rcpt' = to
    /\ UNCHANGED <<capabilities, fee, storeVars>>

(* msgServer.Burn with burnFrom; mutants burn anyone's coins, or more      *)
(* coins than there are                                                    *)
BurnAnyones(s, d, n, from) ==
    /\ s = admin[d]
    /\ from \notin Blocked
    /\ BurnCoins(from, d, n)
    /\ Signed(s)
    /\ UNCHANGED <<capabilities, fee, storeVars>>

BurnUnchecked(s, d, n, from) ==
    /\ s = admin[d]
    /\ from = s \/ Enabled("burn_from")
    /\ from \notin Blocked
    /\ balances' = Debit(balances, from, d, n)
    /\ supply' = [supply EXCEPT ![d] = @ - n]
    /\ Signed(s)
    /\ UNCHANGED <<capabilities, fee, storeVars>>

Burn(s, d, n, from) ==
    /\ s = admin[d]
    /\ from = s \/ Enabled("burn_from")
    /\ from \notin Blocked
    /\ BurnCoins(from, d, n)
    /\ Signed(s)
    /\ UNCHANGED <<capabilities, fee, storeVars>>

(* msgServer.ForceTransfer with forceTransfer *)
ForceTransfer(s, d, n, from, to) ==
    /\ Enabled("force_transfer")
    /\ s = admin[d]
    /\ from \notin Modules /\ to \notin Blocked
    /\ SendCoins(from, to, d, n)
    /\ Signed(s)
    /\ UNCHANGED <<capabilities, fee, storeVars>>

(* MsgChangeAdmin.ValidateBasic: every message that is delivered, and the  *)
(* binding's, names an address, of which nothing says that anybody can     *)
(* sign for it                                                             *)
ValidNewAdmin(newAdmin) == newAdmin # NoAdmin

(* msgServer.ChangeAdmin with setAdmin, which itself would take no admin   *)
ChangeAdmin(s, d, newAdmin) ==
    /\ ValidNewAdmin(newAdmin)
    /\ s = admin[d]
    /\ admin' = [admin EXCEPT ![d] = newAdmin]
    /\ Signed(s)
    /\ UNCHANGED <<capabilities, fee, created, metadata, bankVars>>

(* msgServer.SetDenomMetadata, and the binding's PerformSetMetadata, which *)
(* does not ask for the capability                                         *)
SetDenomMetadata(s, d) ==
    /\ Enabled("metadata") \/ s \in Contracts
    /\ s = admin[d]
    /\ metadata' = [metadata EXCEPT ![d] = "custom"]
    /\ Signed(s)
    /\ UNCHANGED <<capabilities, fee, admin, created, bankVars>>

(* msgServer.UpdateParams *)
UpdateParams(newFee) ==
    /\ fee' = newFee
    /\ Signed(NoAdmin)
    /\ UNCHANGED <<capabilities, storeVars, bankVars>>

(* x/bank's MsgSend *)
BankSend(from, to, coin, n) ==
    /\ to \notin Blocked
    /\ SendCoins(from, to, coin, n)
    /\ Signed(from)
    /\ UNCHANGED <<capabilities, fee, storeVars>>

(* x/oracle's ApplyWhitelist gives every denom of the whitelist metadata,  *)
(* a denom of token factory that nobody has created included               *)
ApplyWhitelist(d) ==
    /\ metadata[d] = "none"
    /\ metadata' = [metadata EXCEPT ![d] = "custom"]
    /\ Signed(NoAdmin)
    /\ UNCHANGED <<capabilities, fee, admin, created, bankVars>>

(* ExportGenesis lists the denoms of the creators' stores, InitGenesis     *)
(* creates them again and then sets their admins (a mutant does not);      *)
(* x/bank is restored before                                               *)
RestartWithCreators ==
    /\ metadata' = [d \in Denoms |-> IF d \in created THEN "default" ELSE metadata[d]]
    /\ admin' = [d \in Denoms |-> IF d \in created THEN Creator[d] ELSE NoAdmin]
    /\ Signed(NoAdmin)
    /\ UNCHANGED <<capabilities, fee, created, bankVars>>

RestartFromGenesis ==
    /\ metadata' = [d \in Denoms |-> IF d \in created THEN "default" ELSE metadata[d]]
    /\ admin' = [d \in Denoms |-> IF d \in created THEN admin[d] ELSE NoAdmin]
    /\ Signed(NoAdmin)
    /\ UNCHANGED <<capabilities, fee, created, bankVars>>

-----------------------------------------------------------------------------
(* InitGenesis *)
Init ==
    /\ capabilities \in CapabilitySets
    /\ fee \in Fees
    /\ created = DOMAIN GenesisAdmins
    /\ admin = [d \in Denoms |-> IF d \in created THEN GenesisAdmins[d] ELSE NoAdmin]
    /\ metadata = [d \in Denoms |-> IF d \in created THEN "default" ELSE "none"]
    /\ balances = InitBalances
    /\ supply = InitSupply
    /\ signer = NoAdmin /\ rcpt = NoAdmin

(* a message of s about a denom d *)
Message(s, d) ==
    \/ CreateDenom(s, d)
    \/ PerformCreateDenom(s, d)
    \/ SetDenomMetadata(s, d)
    \/ \E newAdmin \in Holders \cup {NoAdmin} : ChangeAdmin(s, d, newAdmin)
    \/ \E n \in Amounts, h \in Holders :
          Mint(s, d, n, h) \/ PerformMint(s, d, n, h) \/ Burn(s, d, n, h)
    \/ \E n \in Amounts, from, to \in Holders : ForceTransfer(s, d, n, from, to)

Next ==
    \/ \E s \in Accounts, d \in Denoms : Message(s, d)
    \/ \E from \in Accounts, to \in Holders, coin \in Coins, n \in Amounts :
          BankSend(from, to, coin, n)
    \/ \E newFee \in Fees : UpdateParams(newFee)
    \/ \E d \in Denoms : ApplyWhitelist(d)
    \/ RestartFromGenesis

Spec == Init /\ [][Next]_vars

-----------------------------------------------------------------------------
TypeOK ==
    /\ capabilities \in CapabilitySets
    /\ fee \in Fees
    /\ admin \in [Denoms -> Holders \cup {NoAdmin}]
    /\ created \subseteq Denoms
    /\ metadata \in [Denoms -> {"none", "default", "custom"}]
    /\ balances \in [Holders -> [Coins -> Nat]]
    /\ supply \in [Coins -> Nat]
    /\ signer \in Accounts \cup {NoAdmin}
    /\ rcpt \in Holders \cup {NoAdmin}

(* The three stores agree: an admin belongs to a denom that an export will *)
(* list, and a denom that was created has metadata, without which its      *)
(* creator could create it again and take it over.                         *)
StoresAgree ==
    /\ \A d \in Denoms : admin[d] # NoAdmin => d \in created
    /\ \A d \in created : metadata[d] # "none"

(* x/bank's supply is the sum of the balances: nothing that mints, burns,  *)
(* moves or charges coins leaves some behind in the module's account.      *)
SupplyBacked == \A coin \in Coins : supply[coin] = SupplyOf(balances, coin)

(* the loss of a holder in a step is its own doing, or the admin's by right *)
Rightful(h, coin) ==
    \/ signer' = h
    \/ /\ coin \in Denoms /\ signer' = admin[coin]
       /\ \/ Enabled("burn_from") /\ supply'[coin] < supply[coin]
          \/ Enabled("force_transfer") /\ h \notin Modules

(* Nobody loses coins but by a message of its own, or by one of the admin  *)
(* of the denom on a chain with the capability for it (msgServer.Burn,     *)
(* msgServer.ForceTransfer); the admin of a token never reaches the native *)
(* coin, nor, by a forced transfer, a module account.                      *)
TakenOnlyByRight ==
    [][\A h \in Holders, coin \in Coins :
          balances'[h][coin] < balances[h][coin] => Rightful(h, coin)]_vars

(* Token factory keeps the ledger that TokenLedger promises, through       *)
(* changes of the admin, messages of contracts, metadata written by other  *)
(* modules and restarts.                                                   *)
Ledger == INSTANCE TokenLedger WITH
    issued <- created, owner <- admin, supply <- [d \in Denoms |-> supply[d]]

LedgerSpec == Ledger!Spec

(* "minting coins to blocked address", an error of PerformMint: a mint     *)
(* that succeeds reaches the recipient that its message names.             *)
MintReachesRecipient ==
    [][\A d \in Denoms :
          supply'[d] > supply[d] => balances'[rcpt'][d] > balances[rcpt'][d]]_vars
=============================================================================
