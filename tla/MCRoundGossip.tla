---------------------------- MODULE MCRoundGossip ----------------------------
(* One task that its miner, its validators and a peer may all decide.      *)
EXTENDS RoundGossip, MCValidationRound, TLC

Alike == Permutations(Validators)
=============================================================================
