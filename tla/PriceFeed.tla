------------------------------ MODULE PriceFeed ------------------------------
(***************************************************************************)
(* What x/oracle promises to the modules that read its prices: an abstract *)
(* specification without validators, votes and powers.  A tally may only   *)
(* set rates of vote targets and drops none; a stored rate disappears only *)
(* at the start of a block, and only when its denom is no longer a target; *)
(* a snapshot holds all the rates there are, is dated to its block, and is *)
(* kept for the lookback.                                                  *)
(*                                                                         *)
(* The readers only subtract timestamps from the block time, so snapshots  *)
(* are kept by age in seconds.  They stop at the first snapshot older than *)
(* a window of at most the lookback, so the ages from Horizon on are not   *)
(* told apart, and only the youngest snapshot of them is kept.  Oracle     *)
(* implements this specification (see OracleChain), FeeAbstraction reads   *)
(* it.                                                                     *)
(***************************************************************************)
EXTENDS Integers, Functions, FiniteSetsExt

CONSTANTS
    Denoms,     \* the denoms of the oracle
    Values,     \* the values of exchange rates, raw decimals
    Whitelists, \* the sets of denoms that become vote targets
    Lookbacks,  \* the values of LookbackDuration
    Gaps,       \* the seconds between two blocks
    Horizon     \* bound: the age from which snapshots are merged

ASSUME FeedAssumption ==
    /\ Values \subseteq Nat /\ Gaps \subseteq Nat
    /\ Whitelists \subseteq SUBSET Denoms
    /\ Horizon \in Nat /\ Lookbacks \subseteq 0 .. Horizon - 1

VARIABLES
    phase,      \* "idle" between blocks, "txs" inside one
    lookback,   \* Params.LookbackDuration
    targets,    \* VoteTarget
    rates,      \* ExchangeRate, by denom
    snapshots   \* PriceSnapshot, by age

feedVars == <<phase, lookback, targets, rates, snapshots>>

NoRates == [d \in {} |-> 0]

(* the snapshots gap seconds later *)
Aged(snaps, gap) ==
    LET old == {a \in DOMAIN snaps : a + gap >= Horizon}
    IN  [a \in {b + gap : b \in DOMAIN snaps \ old}
                  \cup (IF old = {} THEN {} ELSE {Horizon}) |->
            IF a < Horizon THEN snaps[a - gap] ELSE snaps[Min(old)]]

(* the snapshots that are not older than the lookback *)
Kept(snaps) == Restrict(snaps, {a \in DOMAIN snaps : a <= lookback})

(* AddPriceSnapshot in the block that is being executed *)
Published(snapshot) ==
    Kept([a \in DOMAIN snapshots \cup {0} |->
            IF a = 0 THEN snapshot ELSE snapshots[a]])

(* a block begins; RemoveExcessFeeds may run *)
NewBlock(gap) ==
    /\ phase = "idle"
    /\ phase' = "txs"
    /\ snapshots' = Aged(snapshots, gap)
    /\ rates' \in {rates, Restrict(rates, DOMAIN rates \cap targets)}
    /\ UNCHANGED <<lookback, targets>>

(* a block ends without a tally *)
QuietEnd ==
    /\ phase = "txs"
    /\ phase' = "idle"
    /\ UNCHANGED <<lookback, targets, rates, snapshots>>

(* a block ends with a tally: new rates of targets, then the whitelist,    *)
(* then the snapshot                                                       *)
Tally ==
    /\ phase = "txs"
    /\ phase' = "idle"
    /\ \E D \in SUBSET Denoms :
          DOMAIN rates \subseteq D /\ rates' \in [D -> Values]
    /\ \A d \in DOMAIN rates' \ targets :
          d \in DOMAIN rates /\ rates'[d] = rates[d]
    /\ targets' \in Whitelists
    /\ snapshots' = IF DOMAIN rates' = {} THEN snapshots ELSE Published(rates')
    /\ UNCHANGED lookback

(* governance changes the parameters *)
SetLookback ==
    /\ phase = "txs"
    /\ lookback' \in Lookbacks
    /\ UNCHANGED <<phase, targets, rates, snapshots>>

(* the chain restarts from its exported genesis, which has no targets *)
Restart(gap) ==
    /\ phase = "idle"
    /\ targets' = {}
    /\ snapshots' = Kept(Aged(snapshots, gap))
    /\ UNCHANGED <<phase, lookback, rates>>

Init ==
    /\ phase = "idle"
    /\ lookback \in Lookbacks
    /\ targets = {}
    /\ rates = NoRates /\ snapshots = NoRates

Next ==
    \/ \E gap \in Gaps : NewBlock(gap) \/ Restart(gap)
    \/ QuietEnd \/ Tally \/ SetLookback

Spec == Init /\ [][Next]_feedVars
=============================================================================
