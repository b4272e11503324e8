------------------------------ MODULE NodeAccounts ------------------------------
(***************************************************************************)
(* The books of a node's chain and its science reserve, side by side: a    *)
(* block adds to both, and they have nothing else in common.  The reserve  *)
(* begins empty, or where its governance has activated the payouts and its *)
(* requester has staked.                                                   *)
(***************************************************************************)
EXTENDS BlockExecution, ScienceReserve

(* Staked, and activated by all signers: a state before the first job.       *)
Staked    == [status |-> "active", used |-> 0, month |-> 1]
Activated == [status |-> "active", timelock |-> "over", approvals |-> SetToSeq(Signers), activated |-> TRUE]

ScienceActivated == Cardinality(Signers) >= Threshold /\ ScienceFrom(Staked, Activated, Signers)

NodeInit == Init /\ (ScienceInit \/ ScienceActivated)

OfBooks(A)   == A /\ UNCHANGED scienceVars
OfScience(A) == A /\ UNCHANGED vars

NodeNext == OfBooks(Next) \/ OfScience(ScienceNext)

NodeSpec == NodeInit /\ [][NodeNext]_<< vars, scienceVars >>

(* Rows and tasks have the statuses the code knows, and no balance, amount  *)
(* of the reserve or of one of its months is ever below zero.               *)
NodeTypeOK == TypeOK /\ ScienceTypeOK
===============================================================================
