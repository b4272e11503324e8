----------------------------- MODULE PaymentChain -----------------------------
(***************************************************************************)
(* What the wallets of a node may rely on, whatever the mempool, the tasks *)
(* and the reorgs do: the chain executes transactions in the order of      *)
(* their sender's nonces and only if they are covered, and a balance is a  *)
(* function of the chain alone: what was held at height 0, the transfers   *)
(* and fees of the blocks, and the rewards of the blocks deep enough.      *)
(***************************************************************************)
EXTENDS Integers, Sequences, FiniteSets, FiniteSetsExt

CONSTANTS Txs, Sender, Recipient, Nonce, Amount, Fee, Wallets, Premine,
          MaturityDepth, MinerReward

VARIABLES
    blocks,    \* [miner, txs] by height
    balance    \* of every wallet

Positions(c) == UNION { { << h, i >> : i \in DOMAIN c[h].txs } : h \in DOMAIN c }

(* What one transaction, in a block of that miner, brings to a wallet.     *)
Effect(w, x, miner) ==
      (IF Recipient[x] = w THEN Amount[x] ELSE 0)
    + (IF miner = w THEN Fee[x] ELSE 0)
    - (IF Sender[x] = w THEN Amount[x] + Fee[x] ELSE 0)

Holds(c, w, height) ==
      Premine[w]
    + MapThenSumSet(LAMBDA p : Effect(w, c[p[1]].txs[p[2]], c[p[1]].miner), Positions(c))
    + MinerReward * Cardinality({ h \in DOMAIN c : c[h].miner = w /\ h + MaturityDepth <= height })

Executed(c, s) == { p \in Positions(c) : Sender[c[p[1]].txs[p[2]]] = s }

(* The rewards that mature at the height of a block come after its         *)
(* transactions; without a maturity its own comes before them.             *)
Valid(c, block) ==
    \A i \in DOMAIN block.txs :
        LET x      == block.txs[i]
            before == Append(c, [block EXCEPT !.txs = SubSeq(@, 1, i - 1)])
            height == IF MaturityDepth = 0 THEN Len(c) + 1 ELSE Len(c)
        IN  /\ Nonce[x] = Cardinality(Executed(before, Sender[x])) + 1
            /\ Amount[x] + Fee[x] <= Holds(before, Sender[x], height)

Balances(c) == [w \in Wallets |-> Holds(c, w, Len(c))]

Init ==
    /\ blocks = << >>
    /\ balance = Premine

Becomes(c) ==
    /\ blocks' = c
    /\ balance' = Balances(c)

(* One valid block on the chain, or on what is below the tip two of them.  *)
Next ==
    LET last  == Len(blocks')
        added == blocks'[last]
    IN  /\ blocks' # blocks /\ last > 0
        /\ Becomes(blocks')
        /\ Valid(SubSeq(blocks', 1, last - 1), added)
        /\ \/ SubSeq(blocks', 1, last - 1) = blocks
           \/ /\ last = Len(blocks) + 1 /\ last > 1
              /\ SubSeq(blocks', 1, last - 2) = SubSeq(blocks, 1, last - 2)
              /\ Valid(SubSeq(blocks', 1, last - 2), blocks'[last - 1])

Spec == Init /\ [][Next]_<< blocks, balance >>
===============================================================================
