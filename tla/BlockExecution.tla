---------------------------- MODULE BlockExecution ----------------------------
(***************************************************************************)
(* What blocks do to the accounts of one node: transactions wait in the    *)
(* mempool, the tasks of a round freeze a snapshot of them, the block of a *)
(* task or of another node executes them, rewards mature, the treasury and *)
(* the retarget epochs advance, and a reorg takes the block of the tip     *)
(* back.  How a block comes to be accepted is ConsensusNode's and          *)
(* ValidationRound's subject; here any finished candidate may be.          *)
(*                                                                         *)
(* Every action is one transaction of the database under its write lock.   *)
(***************************************************************************)
EXTENDS AccountBooks

CONSTANTS
    Tasks,          \* tasks of the local miner, each for one round
    Foreign,        \* blocks of other nodes
    Previous,       \* the foreign block each of them extends, or NoBlock if it extends
                    \* whatever its producer had in common with this node
    NoBlock,
    Payload,        \* the transactions of each foreign block
    Miner,          \* the reward wallet of every task and foreign block
    RetargetBlocks, \* max(RETARGET_EPOCH_BLOCKS, RETARGET_WINDOW_BLOCKS)
    MaxHeight,      \* no block is produced above this height
    ForcedHeights,  \* heights at which an operator may force a retarget
    Aging,          \* transactions whose TTL may pass
    MaxClaimed      \* the treasury is claimed up to this amount

ASSUME BlocksAssumption ==
    /\ Tasks \cap Foreign = {} /\ NoBlock \notin Tasks \cup Foreign /\ NoTask \notin Tasks
    /\ \A f \in Foreign : Payload[f] \in Seq(Txs)
    /\ \A i \in Tasks \cup Foreign : Miner[i] \in Wallets
    /\ RetargetBlocks \in Nat \ {0}

VARIABLES
    chain,     \* table blocks: [id, txs] by height
    arrived,   \* foreign blocks imported so far
    books,     \* see AccountBooks
    tasks,     \* table tasks: [status, seed, snap]
    snapshots, \* task_tx_snapshots by task_id
    retarget,  \* [events, active, params]: retarget_events, protocol_params
    quarter    \* the current quarter

vars == << chain, arrived, books, tasks, snapshots, retarget, quarter >>

NoSnap == [task |-> NoTask, height |-> 0, txs |-> << >>]
Open   == {"assigned", "committed"}

Height == Len(chain)
Tip == IF chain = << >> THEN NoBlock ELSE chain[Height].id

Init ==
    /\ chain = << >>
    /\ arrived = {}
    /\ books = InitialBooks
    /\ tasks = [t \in Tasks |-> [status |-> "none", seed |-> NoBlock, snap |-> NoSnap]]
    /\ snapshots = [t \in Tasks |-> NoSnap]
    /\ retarget = [events |-> << >>, active |-> {1}, params |-> 1]
    /\ quarter = 1

---------------------------------------------------------------------------
(* Mempool *)

SubmitTransaction(x) ==
    /\ CanSubmit(books, x)
    /\ books' = Submitted(books, x)
    /\ UNCHANGED << chain, arrived, tasks, snapshots, retarget, quarter >>

(* The clock passes expires_at of a row. *)
TtlPasses(x) ==
    /\ x \in Aging /\ books.rows[x].status \in {"pending", "selected", "confirmed"}
    /\ ~books.rows[x].late
    /\ books' = [books EXCEPT !.rows[x].late = TRUE]
    /\ UNCHANGED << chain, arrived, tasks, snapshots, retarget, quarter >>

ExpireMempool ==
    /\ Expired(books) # books
    /\ books' = Expired(books)
    /\ UNCHANGED << chain, arrived, tasks, snapshots, retarget, quarter >>

---------------------------------------------------------------------------
(* Tasks and their snapshots *)

(* freeze_transactions_for_competitive_round_task: a task takes over the    *)
(* snapshot of another task of its round, without a row of its own.         *)
SharedSnaps(t, seed) ==
    { snapshots[u] : u \in { v \in Tasks \ {t} : /\ snapshots[v] # NoSnap
                                               /\ snapshots[v].height = Height + 1
                                               /\ tasks[v].seed = seed } }

FreezeFor(t, b, status) ==
    LET shared == SharedSnaps(t, Tip)
        pick   == Selection(b)
        own    == [task |-> t, height |-> Height + 1, txs |-> pick.txs]
    IN  IF shared # {}
        THEN \E s \in shared :
                /\ tasks' = [tasks EXCEPT ![t] = [status |-> status, seed |-> Tip, snap |-> s]]
                /\ books' = b
                /\ UNCHANGED snapshots
        ELSE /\ tasks' = [tasks EXCEPT ![t] = [status |-> status, seed |-> Tip, snap |-> own]]
             /\ snapshots' = [snapshots EXCEPT ![t] = own]
             /\ books' = Frozen(b, pick, t)

NextTask(t) ==
    /\ tasks[t].status = "none" /\ Height < MaxHeight
    /\ FreezeFor(t, books, "assigned")
    /\ UNCHANGED << chain, arrived, retarget, quarter >>

CommitTask(t) ==
    /\ tasks[t].status = "assigned" /\ tasks[t].seed = Tip
    /\ tasks' = [tasks EXCEPT ![t].status = "committed"]
    /\ UNCHANGED << chain, arrived, books, snapshots, retarget, quarter >>

EndedKeepsRows(t, status) ==    \* mutant: nothing is released
    /\ tasks' = [tasks EXCEPT ![t].status = status]
    /\ UNCHANGED << chain, arrived, books, snapshots, retarget, quarter >>

(* A task runs out of time (one that has committed to nothing is called     *)
(* lapsed here), or is closed: its candidate is refused, or its round is    *)
(* over.  Its selected rows are released.                                   *)
Ended(t, status) ==
    /\ tasks' = [tasks EXCEPT ![t].status = status]
    /\ books' = Released(books, {t})
    /\ UNCHANGED << chain, arrived, snapshots, retarget, quarter >>

ExpireTask(t) ==
    \/ tasks[t].status = "assigned"  /\ Ended(t, "lapsed")
    \/ tasks[t].status = "committed" /\ Ended(t, "expired")

CloseTask(t) ==
    /\ tasks[t].status = "committed" \/ (tasks[t].status = "assigned" /\ tasks[t].seed # Tip)
    /\ Ended(t, "closed")

(* _reactivate_expired_competitive_task: a committed task keeps what it     *)
(* committed to, another one freezes again.                                 *)
ReviveCommitted(t) ==
    /\ tasks[t].status = "expired" /\ tasks[t].seed = Tip
    /\ tasks' = [tasks EXCEPT ![t].status = "committed"]
    /\ UNCHANGED << chain, arrived, books, snapshots, retarget, quarter >>

ReviveAssigned(t) ==
    /\ tasks[t].status = "lapsed" /\ tasks[t].seed = Tip
    /\ FreezeFor(t, Released(books, {t}), "assigned")
    /\ UNCHANGED << chain, arrived, retarget, quarter >>

---------------------------------------------------------------------------
(* Blocks *)

(* load_snapshot_transactions: the row of the task, else the row whose id   *)
(* the task carries, else nothing.                                          *)
Loaded(t) ==
    IF snapshots[t] # NoSnap THEN snapshots[t].txs
    ELSE IF tasks[t].snap \in { snapshots[u] : u \in Tasks } THEN tasks[t].snap.txs
    ELSE << >>

LocalBlock(t) == Block(books, Loaded(t), Miner[t], Height + 1, t, quarter, FALSE)

Finalizable(t) ==
    /\ Loaded(t) = tasks[t].snap.txs
    /\ \A x \in ToSet(Loaded(t)) : Present(books, x)
    /\ LocalBlock(t).ok

LastRetarget == IF retarget.events = << >> THEN 0 ELSE Last(retarget.events).end

(* _maybe_retarget_after_block: an event for the blocks since the last one, *)
(* with new parameters unless the measured times say keep.                  *)
Retargeted(h, keep) ==
    LET new == retarget.params + 1
        prev == CHOOSE p \in retarget.active : TRUE
        event(p) == [end |-> h, prev |-> prev, new |-> p]
    IN  IF keep
        THEN [retarget EXCEPT !.events = Append(@, event(prev))]
        ELSE [retarget EXCEPT !.events = Append(@, event(new)), !.active = {new}, !.params = new]

RetargetAfter(h) ==
    IF h - LastRetarget >= RetargetBlocks
    THEN \E keep \in BOOLEAN : retarget' = Retargeted(h, keep)
    ELSE UNCHANGED retarget

(* _close_competitive_round_after_block *)
Rivalry(t) == { u \in Tasks \ {t} : tasks[u].status \in Open /\ tasks[u].seed = tasks[t].seed }

AcceptBlock(t) ==
    /\ tasks[t].status = "committed" /\ tasks[t].seed = Tip
    /\ Finalizable(t)
    /\ chain' = Append(chain, [id |-> t, txs |-> Loaded(t)])
    /\ books' = Released(LocalBlock(t).books, Rivalry(t))
    /\ tasks' = [u \in Tasks |-> IF u = t THEN [tasks[u] EXCEPT !.status = "accepted"]
                                 ELSE IF u \in Rivalry(t)
                                 THEN [tasks[u] EXCEPT !.status = "closed"] ELSE tasks[u]]
    /\ RetargetAfter(Height + 1)
    /\ UNCHANGED << arrived, snapshots, quarter >>

(* The savepoint is rolled back, the task and its job are rejected. *)
AcceptFails(t) ==
    /\ tasks[t].status = "committed" /\ tasks[t].seed = Tip
    /\ ~Finalizable(t)
    /\ Ended(t, "closed")

(* _import_finalized_block on the books b; its producer had executed the    *)
(* transactions on the same state, so they continue its nonces.             *)
ForeignBlock(b, f, h, replay) ==
    Block(Ensured(b, Payload[f]), Payload[f], Miner[f], h, f, quarter, replay)
Buildable(b, f, h) == ForeignBlock(b, f, h, FALSE).ok
Imported(b, f, h)  == ForeignBlock(b, f, h, TRUE).books

NewBlock(f) == [id |-> f, txs |-> Payload[f]]

Import(f) ==
    /\ f \notin arrived /\ Height < MaxHeight
    /\ Previous[f] \in {NoBlock, Tip}
    /\ Buildable(books, f, Height + 1)
    /\ books' = Imported(books, f, Height + 1)
    /\ chain' = Append(chain, NewBlock(f))
    /\ arrived' = arrived \cup {f}
    /\ UNCHANGED << tasks, snapshots, retarget, quarter >>

(* A remote transaction whose nonce another row of this node has.           *)
NonceConflict(f) ==
    \E x \in ToSet(Payload[f]) : \E y \in Rivals(x) : Present(books, y)

RetargetKeepsActive(h) ==   \* mutant: the events go, the parameters stay
    [retarget EXCEPT !.events = SelectSeq(@, LAMBDA e : e.end < h)]

(* _rollback_reorg_retarget_events: events are in the order of their ends,  *)
(* and what was active before the first that goes is active again.         *)
RetargetWithout(h) ==
    LET gone  == { i \in DOMAIN retarget.events : retarget.events[i].end >= h }
        first == Min(gone)
    IN  IF gone = {} THEN retarget
        ELSE [retarget EXCEPT !.events = SubSeq(@, 1, first - 1),
                              !.active = {retarget.events[first].prev}]

(* _apply_selected_orphan_reorg: the block of the tip gives way to a        *)
(* sibling p and its child c.                                               *)
Reorg(p, c) ==
    LET h      == Height
        below  == WithoutBlock(books, h)
        branch == Imported(below, p, h)
    IN  /\ h > 0 /\ h < MaxHeight
        /\ p \notin arrived /\ c \notin arrived
        /\ Previous[p] = NoBlock \/ (h > 1 /\ Previous[p] = chain[h - 1].id)
        /\ Previous[c] = p
        /\ ~NonceConflict(p) /\ ~NonceConflict(c)
        /\ Buildable(below, p, h) /\ Buildable(branch, c, h + 1)
        /\ books' = Imported(branch, c, h + 1)
        /\ arrived' = arrived \cup {p, c}
        /\ chain' = SubSeq(chain, 1, h - 1) \o << NewBlock(p), NewBlock(c) >>
        /\ retarget' = RetargetWithout(h)
        /\ tasks' = [t \in Tasks |-> IF t = Tip THEN [tasks[t] EXCEPT !.status = "closed"]
                                     ELSE tasks[t]]
        /\ UNCHANGED << snapshots, quarter >>

(* run_retarget with force *)
ForceRetarget(keep) ==
    /\ Height > LastRetarget
    /\ Height \in ForcedHeights
    /\ retarget' = Retargeted(Height, keep)
    /\ UNCHANGED << chain, arrived, books, tasks, snapshots, quarter >>

---------------------------------------------------------------------------
(* Treasury *)

(* The quarter of the first block is the first. *)
NextQuarter ==
    /\ chain # << >> /\ quarter + 1 \in Quarters
    /\ quarter' = quarter + 1
    /\ UNCHANGED << chain, arrived, books, tasks, snapshots, retarget >>

(* unlock_at of an epoch is 90 days after its first block, before or after  *)
(* the end of its quarter: which epochs are past it is left open.           *)
UnlockTreasury(past) ==
    /\ Unlocked(books, past) # books
    /\ books' = Unlocked(books, past)
    /\ UNCHANGED << chain, arrived, tasks, snapshots, retarget, quarter >>

ClaimTreasury(past) ==
    /\ CanClaim(Unlocked(books, past)) /\ books.fund.claimed < MaxClaimed
    /\ books' = Claimed(Unlocked(books, past))
    /\ UNCHANGED << chain, arrived, tasks, snapshots, retarget, quarter >>

MempoolNext == ExpireMempool \/ \E x \in Txs : SubmitTransaction(x) \/ TtlPasses(x)

TasksNext == \E t \in Tasks :
    \/ NextTask(t) \/ CommitTask(t) \/ ExpireTask(t) \/ CloseTask(t)
    \/ ReviveCommitted(t) \/ ReviveAssigned(t)

ChainNext ==
    \/ \E t \in Tasks : AcceptBlock(t) \/ AcceptFails(t)
    \/ \E f \in Foreign : Import(f) \/ \E c \in Foreign : Reorg(f, c)
    \/ \E keep \in BOOLEAN : ForceRetarget(keep)

TreasuryNext ==
    \/ NextQuarter
    \/ \E past \in SUBSET Quarters : UnlockTreasury(past) \/ ClaimTreasury(past)

Next == MempoolNext \/ TasksNext \/ ChainNext \/ TreasuryNext

Spec == Init /\ [][Next]_vars

---------------------------------------------------------------------------
(* Properties *)

TypeOK ==
    /\ \A i \in DOMAIN chain : chain[i].id \in Tasks \cup arrived /\ ToSet(chain[i].txs) \subseteq Txs
    /\ arrived \subseteq Foreign
    /\ \A x \in Txs : books.rows[x].status \in
            {"absent", "pending", "selected", "confirmed", "failed", "expired"}
    /\ books.balances \in [Accounts -> Nat] /\ books.nonces \in [Wallets -> Nat]
    /\ \A t \in Tasks : tasks[t].status \in
            {"none", "assigned", "committed", "lapsed", "expired", "closed", "accepted"}
    /\ quarter \in Quarters

(* Whatever happens in between, the balances of the wallets are what the     *)
(* canonical chain says: apply_block_transactions, mature_block_rewards and  *)
(* the rollback of a reorg leave no trace of a block that is gone.           *)
Payments == INSTANCE PaymentChain WITH
    blocks  <- [i \in DOMAIN chain |-> [miner |-> Miner[chain[i].id], txs |-> chain[i].txs]],
    balance <- [w \in Wallets |-> books.balances[w]]
PaymentsFollowChain == Payments!Spec

(* A row of the mempool is confirmed at a height iff the block there carries *)
(* it, and an account's nonce is the last one on the chain: a reorg that     *)
(* forgets a row or a nonce lets a transaction in twice or never again.      *)
ConfirmedIsOnChain ==
    /\ \A x \in Txs, h \in 1..Height :
          Contains(chain[h].txs, x) <=>
              books.rows[x].status = "confirmed" /\ books.rows[x].height = h
    /\ \A x \in Txs : books.rows[x].status = "confirmed" => books.rows[x].height \in 1..Height
    /\ \A w \in Wallets : books.nonces[w] =
          MaxOr0({ Nonce[x] : x \in { y \in Txs : Sender[y] = w
                                                 /\ books.rows[y].status = "confirmed" } })

(* Every block of the chain has one reward, which is in the ledger once if   *)
(* the chain is deep enough and not at all otherwise, also when its maturity *)
(* height was orphaned and reached again.                                    *)
RewardEntries(r) ==
    { i \in DOMAIN books.ledger : /\ books.ledger[i].type = "block_reward"
                                 /\ books.ledger[i].related = r.related }
RewardsMatureOnce ==
    /\ Len(books.rewards) = Height
    /\ \A h \in 1..Height :
          LET r == books.rewards[h]
          IN  /\ r.related = chain[h].id
              /\ r.mature <=> h + MaturityDepth <= Height
              /\ Cardinality(RewardEntries(r)) = IF r.mature THEN 1 ELSE 0

(* A selected transaction belongs to an open task whose snapshot contains    *)
(* it: when tasks expire, share a snapshot, revive or lose their round, no    *)
(* transaction stays reserved for a task that will never mine it.            *)
SelectedHasOwner ==
    \A x \in Txs : books.rows[x].status = "selected" =>
        /\ books.rows[x].task \in Tasks
        /\ tasks[books.rows[x].task].status \in Open
        /\ Contains(snapshots[books.rows[x].task].txs, x)

(* As long as its round is open, the transactions a task has frozen and can   *)
(* still load execute on the tip, all of them: reservations by sender and    *)
(* nonce order are enough, whatever was submitted or released since.         *)
FrozenStaysExecutable ==
    \A t \in Tasks :
        /\ tasks[t].status \in Open \cup {"expired"} /\ tasks[t].seed = Tip
        /\ \A x \in ToSet(Loaded(t)) : Present(books, x)
        => LocalBlock(t).ok

(* The treasury's account holds all that was accrued on the chain and not    *)
(* claimed, and its tables promise no less: no accrual of an orphaned block  *)
(* stays, none is lost.  (They may promise more: see the README.)            *)
TreasuryAccounted ==
    LET accrued == Total(books.ledger, LAMBDA e : IF e.type = "treasury_accrual" THEN e.amount ELSE 0)
    IN  /\ books.fund.total = Height * TreasuryShare /\ accrued = books.fund.total
        /\ books.balances[Treasury] = books.fund.total - books.fund.claimed
        /\ books.balances[Treasury] <= books.fund.locked + books.fund.unlocked

(* One row of protocol_params is active: the one the last retarget event     *)
(* that is not orphaned installed; epochs do not overlap or pass the tip.    *)
ParamsFollowEvents ==
    LET events == retarget.events
    IN  /\ retarget.active = {IF events = << >> THEN 1 ELSE Last(events).new}
        /\ LastRetarget <= Height
        /\ \A i \in 1..(Len(events) - 1) : /\ events[i].end < events[i + 1].end
                                          /\ events[i + 1].prev = events[i].new
===============================================================================
