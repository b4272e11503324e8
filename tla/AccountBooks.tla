----------------------------- MODULE AccountBooks -----------------------------
(***************************************************************************)
(* The tables a block writes beside blocks: the mempool, account nonces,   *)
(* miner rewards, the ledger with its balances, and the scientific         *)
(* development treasury (transactions.py, rewards.py, treasury.py and the   *)
(* reorg part of consensus.py).  They are the fields of one record, the    *)
(* books; an operator takes the books before one of these functions runs   *)
(* to the books after it, and a handler is a composition of operators.     *)
(*                                                                         *)
(* A balance is the running sum of the ledger entries of its account; the  *)
(* science reserve and the validators' pool are one account each, their    *)
(* own tables are not part of the books.  All transactions are transfers.  *)
(***************************************************************************)
EXTENDS Integers, Sequences, FiniteSets, SequencesExt

CONSTANTS
    Txs,            \* transactions that wallets sign, by hash
    TxOrder,        \* all of them by fee, then hash
    Sender, Recipient, Nonce, Amount, Fee,
    Wallets,        \* addresses of senders, recipients and miners
    Premine,        \* balance of every wallet at height 0
    NoTask,
    MaxPerBlock,    \* MAX_TRANSACTIONS_PER_BLOCK
    MaturityDepth,  \* BLOCK_MATURITY_DEPTH
    MinerReward,    \* share of the miner in a block's reward
    PoolReward,     \* share of the validators
    ReserveShare,   \* share of the science reserve
    TreasuryShare,  \* share of the treasury
    Quarters        \* 1..n, the epochs of the treasury

ASSUME BooksAssumption ==
    /\ TxOrder \in Seq(Txs) /\ IsInjective(TxOrder) /\ ToSet(TxOrder) = Txs
    /\ \A x \in Txs : /\ Sender[x] \in Wallets /\ Recipient[x] \in Wallets
                       /\ Amount[x] \in Nat \ {0} /\ Fee[x] \in Nat /\ Nonce[x] \in Nat \ {0}
    /\ IsFiniteSet(Wallets) /\ Premine \in [Wallets -> Nat]
    /\ {MinerReward, PoolReward, ReserveShare, TreasuryShare} \subseteq Nat
    /\ MaturityDepth \in Nat /\ MaxPerBlock \in Nat \ {0}
    /\ IsFiniteSet(Quarters) /\ 1 \in Quarters

NoHeight  == -1   \* NULL in the column block_height
Treasury  == "treasury"
Reserve   == "science reserve"
Pool      == "validators"
Claimant  == "treasury wallet"
Accounts  == Wallets \cup {Treasury, Reserve, Pool, Claimant}

ASSUME NoWalletIsBuiltIn == Wallets \cap {Treasury, Reserve, Pool, Claimant} = {}

AbsentRow == [status |-> "absent", height |-> NoHeight, task |-> NoTask, late |-> FALSE]
FreshRow  == [AbsentRow EXCEPT !.status = "pending"]

Entry(type, account, amount, height, related) ==
    [type |-> type, account |-> account, amount |-> amount, height |-> height, related |-> related]

InitialBooks ==
    [ rows     |-> [x \in Txs |-> AbsentRow],
      nonces   |-> [w \in Wallets |-> 0],
      rewards  |-> << >>,
      ledger   |-> SetToSeq({ Entry("genesis", w, Premine[w], 0, "genesis") : w \in Wallets }),
      balances |-> [a \in Accounts |-> IF a \in Wallets THEN Premine[a] ELSE 0],
      fund     |-> [total |-> 0, locked |-> 0, unlocked |-> 0, claimed |-> 0, current |-> 0],
      epochs   |-> [q \in Quarters |-> [locked |-> 0, unlocked |-> 0, status |-> "none"]] ]

MaxOr0(S) == Max(S \cup {0})

(* Sum of f over the elements of a sequence. *)
SumSeq(amounts) ==
    LET upTo[i \in 0..Len(amounts)] == IF i = 0 THEN 0 ELSE upTo[i - 1] + amounts[i]
    IN  upTo[Len(amounts)]
Total(s, f(_)) == SumSeq([i \in DOMAIN s |-> f(s[i])])

---------------------------------------------------------------------------
(* Mempool *)

Rivals(x) == { y \in Txs \ {x} : Sender[y] = Sender[x] /\ Nonce[y] = Nonce[x] }
Present(b, x) == b.rows[x].status # "absent"
Debit(x) == Amount[x] + Fee[x]

(* submit_transaction: a hash that is known is left alone, a rival that may *)
(* still be mined or was mined refuses it, a dead one gives way.            *)
CanSubmit(b, x) ==
    /\ ~Present(b, x)
    /\ \A y \in Rivals(x) : b.rows[y].status \in {"absent", "failed", "expired"}

Submitted(b, x) ==
    [b EXCEPT !.rows = [y \in Txs |-> IF y = x THEN FreshRow
                                      ELSE IF y \in Rivals(x) THEN AbsentRow ELSE @[y]]]

Expired(b) ==
    [b EXCEPT !.rows = [x \in Txs |-> IF @[x].status = "pending" /\ @[x].late
                                      THEN [@[x] EXCEPT !.status = "expired"] ELSE @[x]]]

ConfirmedNonce(b, s) ==
    MaxOr0({b.nonces[s]} \cup
           { Nonce[x] : x \in { y \in Txs : Sender[y] = s /\ b.rows[y].status = "confirmed" } })

ConsiderUnreserved(b, pick, x) ==   \* mutant: nothing is reserved for earlier picks
    LET expected == ConfirmedNonce(b, Sender[x]) + 1
                    + Cardinality({ y \in ToSet(pick.txs) : Sender[y] = Sender[x] })
    IN  IF b.rows[x].status = "pending" /\ Len(pick.txs) < MaxPerBlock
           /\ Nonce[x] = expected /\ b.balances[Sender[x]] >= Debit(x)
        THEN [pick EXCEPT !.txs = Append(@, x)] ELSE pick

(* One row of a pass of select_transactions_for_task.  Only what the same  *)
(* sender has in the selection is reserved; credits of the selection do    *)
(* not count.                                                              *)
Consider(b, pick, x) ==
    LET ofSender == { y \in ToSet(pick.txs) : Sender[y] = Sender[x] }
        expected == ConfirmedNonce(b, Sender[x]) + 1 + Cardinality(ofSender)
        reserved == SumFunctionOnSet([y \in ofSender |-> Debit(y)], ofSender)
        funds    == b.balances[Sender[x]]
    IN  IF \/ b.rows[x].status # "pending"
           \/ Len(pick.txs) = MaxPerBlock
           \/ Contains(pick.txs, x)
           \/ Nonce[x] > expected
        THEN pick
        ELSE IF Nonce[x] < expected \/ funds < Debit(x)
        THEN [pick EXCEPT !.failed = @ \cup {x}]
        ELSE IF funds < reserved + Debit(x)
        THEN pick
        ELSE [pick EXCEPT !.txs = Append(@, x)]

SelectionPass(b, pick) == FoldLeft(LAMBDA p, x : Consider(b, p, x), pick, TxOrder)

(* Passes are repeated while they select something: one per transaction    *)
(* is enough.                                                              *)
Selection(b) ==
    FoldLeft(LAMBDA p, x : SelectionPass(b, p), [txs |-> << >>, failed |-> {}], TxOrder)

(* The selected rows belong to the task, those that can never apply fail.  *)
Frozen(b, pick, t) ==
    [b EXCEPT !.rows =
        [x \in Txs |-> IF Contains(pick.txs, x)
                       THEN [@[x] EXCEPT !.status = "selected", !.task = t]
                       ELSE IF x \in pick.failed
                       THEN [@[x] EXCEPT !.status = "failed"] ELSE @[x]]]

Freed(row) == [row EXCEPT !.status = IF row.late THEN "expired" ELSE "pending",
                          !.task = NoTask, !.height = NoHeight]

Released(b, tasks) ==
    [b EXCEPT !.rows = [x \in Txs |-> IF @[x].status = "selected" /\ @[x].task \in tasks
                                      THEN Freed(@[x]) ELSE @[x]]]

(* ensure_block_transactions_in_mempool: a rival that is not confirmed is  *)
(* deleted, a selected one too; a new row expires with its block.          *)
Ensured(b, txs) ==
    LET new == { x \in ToSet(txs) : ~Present(b, x) }
    IN  [b EXCEPT !.rows =
            [x \in Txs |-> IF x \in new THEN [FreshRow EXCEPT !.late = TRUE]
                           ELSE IF \E y \in new : x \in Rivals(y) THEN AbsentRow ELSE @[x]]]

---------------------------------------------------------------------------
(* Ledger and rewards *)

Pay(b, type, account, amount, height, related) ==
    [b EXCEPT !.ledger = Append(@, Entry(type, account, amount, height, related)),
              !.balances[account] = @ + amount]

(* A local block must continue the nonces; an imported one may skip some.  *)
Applicable(b, x, replay) ==
    LET expected == ConfirmedNonce(b, Sender[x]) + 1
    IN  /\ Nonce[x] = expected \/ (replay /\ Nonce[x] > expected)
        /\ b.balances[Sender[x]] >= Debit(x)

Transferred(b, x, miner, h) ==
    LET debited  == Pay(b, "transfer_debit", Sender[x], -Debit(x), h, x)
        credited == Pay(debited, "transfer_credit", Recipient[x], Amount[x], h, x)
        paid     == IF Fee[x] = 0 THEN credited
                    ELSE Pay(credited, "transaction_fee_reward", miner, Fee[x], h, x)
    IN  [paid EXCEPT !.rows[x] = [@ EXCEPT !.status = "confirmed", !.height = h, !.task = NoTask],
                     !.nonces[Sender[x]] = MaxOr0({@, Nonce[x]})]

(* apply_block_transactions: all or nothing. *)
Execution(b, txs, miner, h, replay) ==
    FoldLeft(LAMBDA r, x : IF r.ok /\ Applicable(r.books, x, replay)
                           THEN [r EXCEPT !.books = Transferred(@, x, miner, h)]
                           ELSE [r EXCEPT !.ok = FALSE],
             [ok |-> TRUE, books |-> b], txs)

Rewarded(b, miner, h, related) ==
    LET reward == [height |-> h, account |-> miner, due |-> h + MaturityDepth,
                   mature |-> MaturityDepth = 0, related |-> related]
        noted  == [b EXCEPT !.rewards = Append(@, reward)]
    IN  IF reward.mature THEN Pay(noted, "block_reward", miner, MinerReward, h, related)
        ELSE noted

PaidBefore(b, r) ==
    \E i \in DOMAIN b.ledger : /\ b.ledger[i].type = "block_reward"
                               /\ b.ledger[i].account = r.account
                               /\ b.ledger[i].related = r.related

(* mature_block_rewards *)
Matured(b, h) ==
    LET due(r) == ~r.mature /\ r.due <= h
        payOne(c, r) == IF due(r) /\ ~PaidBefore(c, r)
                        THEN Pay(c, "block_reward", r.account, MinerReward, h, r.related) ELSE c
        marked == [i \in DOMAIN b.rewards |-> [b.rewards[i] EXCEPT !.mature = @ \/ due(b.rewards[i])]]
    IN  [FoldLeft(payOne, b, b.rewards) EXCEPT !.rewards = marked]

(* record_science_reserve_for_block, the treasury's accrual in the quarter *)
(* q, and the pool of the validators.                                      *)
Accrued(b, h, q) ==
    LET reserve == Pay(b, "science_reserve_accrual", Reserve, ReserveShare, h, h)
        fund    == Pay(reserve, "treasury_accrual", Treasury, TreasuryShare, h, h)
    IN  [Pay(fund, "validator_reward", Pool, PoolReward, h, h) EXCEPT
            !.fund.total = @ + TreasuryShare, !.fund.locked = @ + TreasuryShare,
            !.fund.current = q,
            !.epochs[q].locked = @ + TreasuryShare, !.epochs[q].status = "locked"]

(* A block at height h on the books b: its reward, its transactions, the    *)
(* accruals, then what matures at h.                                        *)
Block(b, txs, miner, h, related, q, replay) ==
    LET run == Execution(Rewarded(b, miner, h, related), txs, miner, h, replay)
    IN  [ok |-> run.ok, books |-> Matured(Accrued(run.books, h, q), h)]

---------------------------------------------------------------------------
(* Treasury *)

AtLeast0(n) == IF n < 0 THEN 0 ELSE n

(* _unlock_matured_epochs, past being the epochs whose unlock_at is over.  *)
Unlocked(b, past) ==
    LET open   == { q \in past : b.epochs[q].status = "locked" /\ b.epochs[q].locked > 0 }
        amount == Total(SetToSeq(open), LAMBDA q : b.epochs[q].locked)
    IN  [b EXCEPT
            !.epochs = [q \in Quarters |->
                IF q \in open THEN [locked |-> 0, unlocked |-> @[q].unlocked + @[q].locked,
                                    status |-> "unlocked"]
                ELSE @[q]],
            !.fund.locked = AtLeast0(@ - amount), !.fund.unlocked = @ + amount]

CanClaimUnbacked(b) == b.fund.unlocked > 0   \* mutant: the account is not asked

CanClaim(b) == b.fund.unlocked > 0 /\ b.balances[Treasury] >= b.fund.unlocked

Claimed(b) ==
    LET amount == b.fund.unlocked
        debit  == Pay(b, "treasury_claim", Treasury, -amount, NoHeight, "claim")
    IN  [Pay(debit, "treasury_claim", Claimant, amount, NoHeight, "claim") EXCEPT
            !.epochs = [q \in Quarters |-> IF @[q].unlocked > 0
                                           THEN [@[q] EXCEPT !.unlocked = 0, !.status = "claimed"]
                                           ELSE @[q]],
            !.fund.claimed = @ + amount, !.fund.unlocked = 0]

---------------------------------------------------------------------------
(* _remove_local_orphan_tip_for_reorg: the books without the block at h.   *)

RowsWithout(b, h) ==
    [x \in Txs |-> IF b.rows[x].status = "confirmed" /\ b.rows[x].height >= h
                   THEN Freed(b.rows[x]) ELSE b.rows[x]]

RewardsWithoutKeepMature(b, h) ==   \* mutant: what matured at h stays mature
    SelectSeq(b.rewards, LAMBDA r : r.height < h)

(* What matured at h matures again. *)
RewardsWithout(b, h) ==
    FoldLeft(LAMBDA rest, r : IF r.height < h
                              THEN Append(rest, [r EXCEPT !.mature = @ /\ r.due < h]) ELSE rest,
             << >>, b.rewards)

LedgerWithoutOffByOne(b, h) ==      \* mutant: > h instead of >= h is deleted
    SelectSeq(b.ledger, LAMBDA e : e.height <= h)

(* Entries without a height stay. *)
LedgerWithout(b, h) ==
    FoldLeft(LAMBDA rest, e : IF e.height < h THEN Append(rest, e) ELSE rest, << >>, b.ledger)

NoncesFromStored(b, rows) ==    \* mutant: the table is not rebuilt
    b.nonces

NoncesFrom(b, rows) ==
    [w \in Wallets |-> MaxOr0({ Nonce[x] : x \in
        { y \in Txs : Sender[y] = w /\ rows[y].status = "confirmed" } })]

BalancesFrom(ledger) ==
    [a \in Accounts |-> Total(ledger, LAMBDA e : IF e.account = a THEN e.amount ELSE 0)]

AccruedFromTip(b, h) ==      \* mutant: the side tables see only blocks above the tip
    Total(b.ledger, LAMBDA e : IF e.type = "treasury_accrual" /\ e.height > h THEN e.amount ELSE 0)

AccruedFrom(b, h) ==
    Total(b.ledger, LAMBDA e : IF e.type = "treasury_accrual" /\ e.height >= h THEN e.amount ELSE 0)

(* _reverse_reorg_side_table_accruals takes the reversed amount from the    *)
(* current epoch, whether it is still locked or not.                        *)
WithoutBlock(b, h) ==
    LET reversed == AccruedFrom(b, h)
    IN  [ rows     |-> RowsWithout(b, h),
          nonces   |-> NoncesFrom(b, RowsWithout(b, h)),
          rewards  |-> RewardsWithout(b, h),
          ledger   |-> LedgerWithout(b, h),
          balances |-> BalancesFrom(LedgerWithout(b, h)),
          fund     |-> [b.fund EXCEPT !.total = AtLeast0(@ - reversed),
                                      !.locked = AtLeast0(@ - reversed)],
          epochs   |-> [q \in Quarters |-> IF q = b.fund.current
                            THEN [b.epochs[q] EXCEPT !.locked = AtLeast0(@ - reversed)]
                            ELSE b.epochs[q]] ]
===============================================================================
