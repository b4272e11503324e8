---------------------------- MODULE CanonicalChain ----------------------------
(***************************************************************************)
(* What a node promises about its table blocks, whatever its proposals,    *)
(* votes, queued headers and replay do: the chain grows by one linked      *)
(* block at a time, and nothing written is changed except that the tip may *)
(* give way to a sibling which a certified child confirms.                 *)
(***************************************************************************)
EXTENDS Integers, Sequences

CONSTANTS Blocks, Genesis, Parent, Certified

VARIABLE chain

TipOf(c) == IF c = << >> THEN Genesis ELSE c[Len(c)]

Init == chain = << >>

Grow(b) ==
    /\ Parent[b] = TipOf(chain)
    /\ chain' = Append(chain, b)

(* The depth of a reorg is one: everything below the tip is final. *)
Displace(parent, child) ==
    /\ chain # << >>
    /\ LET below == SubSeq(chain, 1, Len(chain) - 1)
       IN  /\ Parent[parent] = TipOf(below)
           /\ parent # TipOf(chain)
           /\ Parent[child] = parent
           /\ child \in Certified
           /\ chain' = below \o << parent, child >>

Next ==
    \/ \E b \in Blocks : Grow(b)
    \/ \E parent, child \in Blocks : Displace(parent, child)

Spec == Init /\ [][Next]_chain
===============================================================================
