----------------------------- MODULE MCRewards -----------------------------
(* Small instances of Rewards for TLC. *)
EXTENDS Rewards
=============================================================================
