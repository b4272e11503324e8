---------------------------- MODULE MCConsensusNode ----------------------------
EXTENDS ConsensusNode, TLC

CONSTANTS a1, a2, b1, b2, c1, v1, v2, v3, genesis

TwoForks  == {a1, a2, b1, b2}
TwoParent == a1 :> genesis @@ b1 :> genesis @@ a2 :> a1 @@ b2 :> b1
TwoHeight == a1 :> 1 @@ b1 :> 1 @@ a2 :> 2 @@ b2 :> 2

(* And a third block at height 1, which no import accepts. *)
ThreeForks  == TwoForks \cup {c1}
ThreeParent == c1 :> genesis @@ TwoParent
ThreeHeight == c1 :> 1 @@ TwoHeight

ForkTips   == {a1, b1}
TipParent  == a1 :> genesis @@ b1 :> genesis
TipHeight  == a1 :> 1 @@ b1 :> 1

ThreeValidators == {v1, v2, v3}
HeavyFirst      == [v \in Validators |-> IF v = v1 THEN 3 ELSE 1]
===============================================================================
