---------------------------- MODULE MCPoolWork ----------------------------
(* Two workers and two tasks. The first is raced for or cut into digits,   *)
(* the second, in which work on the first may still arrive, is raced for.  *)
EXTENDS PoolWork, TLC

CONSTANTS w1, w2

Symmetry == Permutations({w1, w2})

SecondIsRace == DOMAIN chunks'[2] \subseteq {1}
===============================================================================
