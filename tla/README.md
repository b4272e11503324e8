# PICOIN verification project

TLA+ specifications of the PICOIN node (`src/picoin-proof-of-pi`), of its mining pool
(`src/picoin-pool`) and of the compute marketplace (`src/picoin-marketplace`), the TLC
instances that check them and the TLAPS proofs about them. `PROJECT.json` is the
index: components, runs, the lines every definition models, hazards, theorems.

Contents: 1 inventory, 2 modules and how they correspond to the code, 3 runs,
4 fairness, 5 proofs, 6 where the code and what is said of it disagree,
7 what is not modelled, 8 plan.

## 1. Inventory

### 1.1 The node (`src/picoin-proof-of-pi/app`)

A node is one Python process: FastAPI routes run the service functions in worker
threads, background threads run the replay worker and the periodic
reconciliations, and everything is kept in one SQLite database. There is no
lock around a handler. `PicoinConnection` (`db/database.py:61-118`) takes the
process-wide write lock at the *first statement that writes* and keeps it to
commit or rollback, so what a handler read before that is a snapshot that may be
stale when it writes. That is the grain of every node module here.

| component | state | operations | what is hard | what makes it correct |
|---|---|---|---|---|
| consensus and replay (`services/consensus.py`) | `blocks`, `consensus_block_proposals`, `consensus_votes`, `consensus_finalizations`, `network_block_headers`, `_REPLAY_HEALTH` | propose, vote, finalize, record a local block, replay batch, reorg of the tip, health | checks before the lock; replay and reorg against requests in flight; starvation of the replay queue; restart | the chain is linked; statuses follow the chain; a block gets in by a quorum only; rejected stays out; the queue drains or is reported |
| proposal queue (`consensus_queue.py`) | asyncio priority queue, one worker | submit, run, stop | stop with an item taken, order of heights | every submit is answered |
| header intake and sync (`network.py`) | headers, peers, cursors | receive header, heartbeat, pull | repeated and late headers against replay | a header leaves the queue only when its height is taken |
| mining round (`mining.py`) | `tasks`, `validation_jobs`, `validation_votes`, `tasks.status`, ledger | next task, commit, reveal, submit, get job, vote, sweep | two votes in flight; repeated votes; deadlines against votes; reorg under a round | accepted follows the chain; validators are paid for blocks on the chain, once; a decision is final; each job is decided |
| gossip of tasks, jobs and votes (`mining.py` 1115-2250) | the same tables, on every node | receive task, job, vote | any order, repetition, conflicting local decisions | a decision of a quorum is the same on every node |
| audits, penalties, trust (`mining.py`) | penalties, bans, trust scores | audit, slash, ban | concurrent penalties of one participant | penalised once per cause |
| mempool (`transactions.py`) | `mempool_transactions`, `account_nonces`, snapshots of tasks | submit, select, freeze, apply, release | selection for parallel tasks; nonces after a reorg | a transaction confirms once, in nonce order; a snapshot stays applicable |
| rewards and ledger (`rewards.py`, consensus 1950-2260) | `rewards`, `ledger_entries`, balances | record, mature, roll back | maturity height orphaned and reached again | each reward is paid once at most, balances are the sum of the entries |
| checkpoints and snapshots (`state.py`) | checkpoints, imports, base | create, export, import, restore | restart in the middle; replay across the base | a restored node has the state root of the base |
| science reserve and treasury (`science.py`, `treasury.py`) | reserve per epoch, jobs, governance | stake, job, transition, pay, accrue, unlock, claim | two requests for one job; the budget of a month against jobs of the one before; a reorg of an accrual | what the account holds covers the jobs that count on it; a worker is paid once; payouts are on only after enough signers signed |
| difficulty (`difficulty_service.py`) | protocol parameters, retarget events | retarget, roll back | reorg across an epoch | one retarget per epoch of the chain |
| wallets, signatures, pi, Merkle, money, settings (`core/`, `wallet.py`) | none | pure functions | – | inputs of the above |
| genesis, bootstrap, readiness, API, tools, web | – | set-up, reports, routing | – | – |
| miner, validator, CLI (`miner/`, `validator/`, `picoin/`) | – | polling loops | repetition, silence | – |

Interaction: miner and validator clients poll the API; the round calls
`_accept_block_in_connection`, which writes `blocks`, the ledger, the mempool
and records a local proposal; peers deliver proposals, votes, headers, tasks and
jobs; consensus imports blocks through the same tables and, in a reorg, undoes
the block of the tip together with its task, rewards and transactions.

### 1.2 Around the node

| component | state | what is hard | what makes it correct |
|---|---|---|---|
| mining pool (`src/picoin-pool`) | tasks, chunks, shares, rewards, payouts in SQLite | chunk reassigned during verification; payout sent and not recorded; nonce after an ambiguous error | a unit is credited once; a share is paid once |
| marketplace (`src/picoin-marketplace`) | deposits, ledger, listings, bookings, payments, settlements | read-modify-write over separate connections; release, expiry, payment and settlement in any order | a transfer is credited once and none is skipped; only paid work runs and settles, once; the listing recovers from stale writes |
| forge L2 (`src/picoin-layer2/picoin-forge-l2`) | AI requests, workloads, challenges, epochs | two workers claim one request; a late result after its lease | one worker per request; a verified result stays; an epoch closes once |
| forge AI, desktop applications, web | – | – | user interfaces and prototypes |

The full list, with the parts left out and why, is `components` in
`PROJECT.json`; what is hard to test, line by line, is `hazards`.

## 2. Modules

```
node         ForkChoice ---- ConsensusNode ---- MCConsensusNode      (TLC)
                              |        \------- ConsensusNode_proofs (TLAPS)
             CanonicalChain --/ (abstract)
             ValidationRound ---------------- MCValidationRound
                \-- RoundGossip ------------- MCRoundGossip, Round_proofs
             AccountBooks -- BlockExecution -- NodeAccounts -- MCBlockExecution, Execution_proofs
                              |          |      |                                |
             PaymentChain ----/          |      |                                |
               (abstract)                \------------- Books_proofs ------------/
             ScienceReserve --------------------/
pool         PoolLedger --- PoolPayouts ------ MCPoolPayouts, PoolPayouts_proofs
             (abstract) \-- PoolWork --------- MCPoolWork, PoolWork_proofs
marketplace  MarketDeposits ---------------\
             MarketBookings ---------------- Market, Market_proofs
                |
             MarketEscrow (abstract)
proofs       SetSums (sums over finite sets, for the books, the reserve and the pool)
```

The abstract modules are reached by `INSTANCE ... WITH`, and the detailed module has
the abstract specification as a property of its run. `PoolLedger` is used twice:
`PoolWork` implements it, `PoolPayouts` extends it, so payouts are checked against
whatever the work may do without its chunks and threads.

**ForkChoice** — `select_fork_choice` and its sort key, as operators on the
proposals of one fork: status rank, approval weight, rejection weight,
approvals, arrival, hash.

**CanonicalChain** — the abstract specification: a chain of linked blocks that
grows by one block, or gives its last block up for a sibling and a certified
child of it.

**ConsensusNode** — one node under concurrent requests.

| code | specification |
|---|---|
| `blocks` | `chain`, a sequence of blocks by height |
| status, arrival, votes of a proposal | `proposals`, `created`, `votes` |
| `network_block_headers.status` | `headers` |
| request threads between read and write | `inflight` |
| the batch under `_REPLAY_LOCK` | `replay` (idle, rows, record) |
| `_REPLAY_HEALTH` | `health` |
| enabled, online and synchronised validators | `active` |
| `propose_block` | `ProposeCheck`, `ProposeCommit`, `PromoteAfterSync` |
| `vote_on_proposal` with its nested `finalize_proposal` | `VoteCheck`, `VoteCommit` |
| `finalize_proposal` | `FinalizeCheck`, `FinalizeCommit` |
| `receive_block_header` | `HeaderCheck`, `HeaderCommit` |
| `record_local_block_proposal` | `MineLocal` |
| `replay_finalized_blocks`, its rows, commit and health update | `ReplayStart`, `ReplayImports`, `ReplaySkips`, `ReplayFails`, `ReplayCommit`, `ReplayRecord` |
| `get_replay_status` | `ReplayStatusRead` |
| `_apply_selected_orphan_reorg` | `ReorgApply` |
| liveness of participants, restart | `ValidatorToggles`, `Crash` |

A replay batch is one transaction: the others only see its commit, so no
request is checked or committed while it runs, and a crash in it is a crash
before it. `created` is a rank of arrival; `received_at` ties are left open
(which rows a batch takes among equal heights is nondeterministic). A block whose
replay is a divergence (state root mismatch) is in `Unreplayable`; one that no import accepts, without
that being a divergence (result of an ancestor, transactions, certificate), is in `Refused`: its header
stays queued and the worker goes on. Both are functions of the block, since its ancestors are fixed. A
block a reorg refuses (audit height, ledger types, transactions) in `Pinned`. The
list of reorg candidates is ordered in the code; the model may take any of them, a
superset. `consensus_finalizations` always changes with the status of a proposal
and is folded into it. Validators have a constant weight.

**ValidationRound** — the mining round of one node, competitive mode.

A round *is* the block it extends: seed, range and result hash of its tasks are
functions of the tip at creation (`Current`, `Duplicate`).

| code | specification |
|---|---|
| task and validation job of a task | `row` (status, round, job, assigned, rank) |
| `validation_votes` | `vote` |
| ledger entries of validators, penalties | `paid`, `penalty` |
| `blocks`, blocks of other nodes seen | `chain`, `arrived` |
| requests between read and write | `asking`, `voting` |
| `create_next_task` | `NextTask` when its sweep wrote first, else `AskTask`, `GiveTask` |
| `commit_task`, `reveal_task`, `submit_task` | `CommitTask`, `RevealTask`, `RejectReveal`, `SubmitTask` |
| `get_validation_job` | `GetValidationJob` |
| `submit_validation_result`, `receive_validation_vote_gossip` | `VoteCheck`, then `VoteCommit` (first vote, repeated vote, or read and write of a retry) |
| `_expire_assigned_tasks`, `cleanup_expired_tasks` | `Swept`, `CleanupExpiredTasks` |
| import, reorg | `ImportForeign`, `ReorgTip` |

Commit, reveal and submit take the write lock with the first UPDATE of their sweep
and are atomic; an exception rolls back, so it is no step. Time is abstract: any
task may be past its deadline and any assignment timed out, whenever a sweep looks.
The oldest active task of a miner is any of them. `Direct` is the set of miners that
use the legacy one-step `POST /tasks/submit`, which accepts a block without a vote.
A task whose frozen transactions no longer apply is in `Unmineable`.

**RoundGossip** — the same round on a node that hears of tasks, jobs and blocks from
its peers. It extends `ValidationRound`: every step of the round, and the messages
between them.

| code | specification |
|---|---|
| a message about a row the node has, between its reads and its writes | `hearing`, with what it will write |
| tasks whose block a peer mined | `imported` |
| `_TASK_GOSSIP_STATUS_RANK` and its comparison | `StatusRank`, `Outranks` |
| `receive_task_gossip` | `HearUnknown`, or `HearTask` then `HearCommit` |
| `receive_validation_job_gossip` with `_promote_task_for_pending_validation_job_gossip` | `HearUnknown`, or `HearJob` then `HearCommit` |
| `_import_finalized_block` of a block whose task is known | `ImportPeerBlock` |

A peer is not a second round: it may say of a task any status (`Heard`), at any time and
again, hence also what is old, overtaken or was never true. That covers loss,
repetition and reordering and is a superset of what honest peers send. A message about a
row the node has reads it before its first write takes the lock; one that inserts the row
is a single transaction, and loses to whatever inserted it first. The id of a task is a function
of its round and its miner, so a peer may know it before this node (`HeardRounds`); the id of a
job is random, and a second job of a task is refused with all the message wrote. Blocks of tasks
this node never heard of are `Foreign`.

**AccountBooks** — what a block writes beside `blocks`, as the fields of one record;
each function of the code is an operator from the books before it to the books after it.

| code | specification |
|---|---|
| `mempool_transactions`, `account_nonces` | `rows` (status, height, task, late), `nonces` |
| `rewards`, `ledger_entries`, balances | `rewards`, `ledger`, `balances` |
| treasury and its epochs | `fund`, `epochs` |
| `submit_transaction`, `expire_mempool` | `CanSubmit`, `Submitted`, `Expired` |
| `select_transactions_for_task`, freeze, release | `Consider`, `Selection`, `Frozen`, `Released` |
| `ensure_block_transactions_in_mempool`, `apply_block_transactions` | `Ensured`, `Applicable`, `Transferred`, `Execution` |
| reward of a block, `mature_block_rewards` | `Rewarded`, `Matured` |
| reserve, treasury and validator accruals | `Accrued` |
| unlock and claim of the treasury | `Unlocked`, `CanClaim`, `Claimed` |
| `_remove_local_orphan_tip_for_reorg` and the reversal of side tables | `WithoutBlock` and its parts |

**BlockExecution** — the books of one node beside its chain, its tasks with their
frozen transactions (`snapshots`), and the difficulty (`retarget`). Actions:
`SubmitTransaction`, `TtlPasses`, `ExpireMempool`; `NextTask`, `CommitTask`, `ExpireTask`,
`CloseTask`, `ReviveCommitted`, `ReviveAssigned`; `AcceptBlock`, `AcceptFails`, `Import`,
`Reorg`; `ForceRetarget`; `NextQuarter`, `UnlockTreasury`, `ClaimTreasury`. A handler is one
step here: what races it has are in the two modules above; this one is about what each
leaves in a dozen tables. UNIQUE(sender, nonce) (`database.py:739`) makes submission
atomic. Which epochs of the treasury are past `unlock_at` is left open. Committing
abstracts commit, reveal and the votes, which do not touch the books.

**PaymentChain** — its abstract specification: balances of wallets are a function of
the chain (transfers, fees, mature rewards), and the chain executes covered transactions
in nonce order, also when a reorg replaces its tip.

**ScienceReserve** — the science layer of the node: a requester, its jobs, the reserve that
pays them and the signers of the payouts.

| code (`science.py`) | specification |
|---|---|
| `science_stake_accounts`, `science_jobs` | `account`, `job` |
| `science_reward_reserve`, its row updated last, the account of the reserve | `reserve`, `latest`, `balance` |
| ledger entries of accruals and of workers | `accrued`, `payments` |
| `science_reserve_governance`, the signers in its event log | `governance`, `signed` |
| requests between their reads and their first write | `flight` |
| `stake_science_access`, `unstake_science_access` | `BeginStake`, `FinishStake`, `BeginUnstake`, `FinishUnstake` |
| `create_science_job` | `BeginCreate`, `FinishCreate`; `CreateAfterReset` when resetting the quota took the lock |
| `transition_science_job`, `pay_science_worker` | `BeginTransition`, `FinishTransition`, `BeginPay`, `FinishPay` |
| propose, approve, execute, pause, unpause | `BeginPropose` ... `FinishUnpause`, `PauseReserve`, `TimelockEnds` |
| `record_science_reserve_for_block`, reversal in a reorg | `AccrueBlock`, `ReorgAccruals` |
| `current_epoch`, `get_science_reserve` | `NextMonth`, `ReadReserve` |

One requester; `rejected`, `disputed` and `expired` jobs are "ended", since all give their
budget back; amounts are whole units and a block accrues one. `payouts_enabled` and
`emergency_paused` follow from the status wherever they are read. A requester posts no more
jobs than `Jobs` has (`Unused`). `pause` reads nothing it needs later and is one step.

**NodeAccounts** — the books and the reserve side by side: a block adds to both, in tables of
their own. The reserve begins empty, or with payouts that its governance has activated.

**PoolWork** — the pool's coordinator: tasks cut into chunks for workers.

| code (`pool_server.py`) | specification |
|---|---|
| `pool_tasks`, `pool_chunks`, `pool_shares` | `task`, `chunks`, `shares` |
| a submission between the two sections that hold the lock | `flight` |
| `finalize_task`, by a thread or by the tick | `finalizers` |
| `ensure_active_task`, `expire_stale_assignments` | `EnsureActiveTask`, `ExpireStaleAssignments` |
| `claim_work`, `submit_work` | `ClaimWork`, `BeginSubmit`, `RefuseSegment`, `CompleteChunk`, `CreditLateShare` |
| `finalize_task`: status, commit, reveal, record or error | `BeginFinalize`, `Commit`, `Reveal`, `Record`, `FailTask` |
| `_finalize_ready_tasks`, settlement passes | `FinalizeReadyTasks`, the settlement actions |
| the node, restart | `mainnet`, `Crash` |

The clock counts completed tasks only, which is all that creation times are compared with.
The parts of a tick may come in any order, a superset. The node hands out one task at a
time.

**PoolPayouts** — what is owed and paid: `Earned` is `summarize_round_window_payouts` over
the closed tasks of `PoolLedger`; `StartPass`, `LookUp`, `Release`, `AfterPass` are
`reconcile_payout_statuses`, row by row, the lookup of a row apart from the question for the node's health;
`InsertPayout`, `PostPayout`, `HearPayout`, `EndRun`
are `run_payouts`; `NodeReceives`, `NodeMines`, `NodeReplays` are the node; `Crash`. An answer
may be lost, a request may arrive late, a transfer may be mined or run out of time, and a replay of
the node may begin and end at any step. `unseen` remembers the payouts that were released on a lookup
made during a replay. Assumed: the grace period outlasts a request on its way, and a transfer that
failed never lands later.

**MarketDeposits** — passes of the scanner process and of API callers over one database,
every read and write a transaction of its own.

| code (`marketplace.py`) | specification |
|---|---|
| status and block of a `deposits` row, credit in `ledger_entries`, checkpoint | `deposit`, `block`, `credits`, `checkpoint` |
| a pass: its height, range, rows read, transfers it will not record | `pass` |
| `poll_evm_token_transfers`, `poll_evm_native_transfers` by the scanner process | `Poll`, `EndPass` |
| the same, with the range, height and node of a request | `PollAsked`, `EndPass` |
| `accept_deposit` in a scan, recording or refusing | `AcceptDeposit` |
| `POST /scanner/deposits` | `Report` |
| `process_confirmations` | `ReadRows`, `ProcessConfirmations`, `Confirm` |
| `credit_deposit` | `LoadDeposit`, `EnterCredit`, `MarkCredited` |
| crash, RPC error, refused INSERT | `PassDies` |

The scanner process asks the chain; a caller of the API is believed, as in the code: it may report a
transfer with any block and status, name any height, and poll any range of any node. `accept_deposit` may refuse any
transfer that has no row (chain or token disabled, wallet not verified, another destination) and the scan
goes on. Two histories keep what follows from that: `told`, the greatest height a caller
has named, and `passedOver`, the transfers that scans set their checkpoint past without showing them
to the deposits or because they were refused. An import, and the scanner of the Picoin chain, which has no
checkpoint, are `Report`s followed by `ProcessConfirmations`.

**MarketBookings** — reservation, payment, release and settlement against the
heartbeats of the provider. `call` is what a handler has read and still has to put back;
`BeginCreate`/`PutListing`/`PutBooking`, `BeginPay`/`PutPaymentOrder`/`DebitBalance`/`Activate`/`PutPayment`,
`BeginSubmitPayment`, `BeginRelease`/`ReadListing`/`PutReleased`, `BeginSettle`/`PutSettlement` are the
handlers cut at their transactions; `BeginHeartbeat`/`CountReserved`/`PutHeartbeat`,
`ExpireStaleWorkers` the worker side; `Crash`. `submit_payment` takes the confirmations from its request
and asks no chain: `BeginSubmitPayment` has no guard on a transfer, and the history `attested` says
for which bookings a caller has stated enough.

**MarketEscrow** — its abstract specification: a booking is debited once, and the
provider credited once, for a booking that the balance paid or a caller attested (`Attest`).

The two halves of the marketplace meet in the ledger only: deposits add to it and
bookings pay from it. **Market** composes them, a step of one leaving the other alone, `Funds`
standing for what was credited.

## 3. Runs

A project of this size has to choose: one or two runs per
module, each with everything its question needs at once. Two blocks at two heights on each of two branches
are the smallest chain on which a reorg of the tip is possible; one more height
would only repeat it, as the code reorganises one block. Two requests in flight
are the smallest number for a check–commit race, and every property relates at
most two of them. The runs check deadlock except two, where the system really stops:
`execution`, when the bounds on heights and quarters are used up, and `pool_work`, where a
pool that crashed in the middle of a submission never goes on (section 6).

| run | states | question |
|---|---|---|
| `node_votes` | 0.8 M | two competing proposals, a quorum that shrinks while a validator is offline, explicit finalize requests, a certified child that lets the loser displace the winner, restarts: `QuorumBehindVotedBlocks`, `RejectedStaysOut`, `FinalizedIsSettled`, `ImportedIsOnChain` |
| `node_races` | 0.7 M | headers of both branches, replay, votes on a proposal that waits for its parent, reorg, restarts: `ChainLinked`, refinement of `CanonicalChain`, `HeaderIsSettled`, `RequestsSettled`, `TypeOK` |
| `node_worker` | 0.2 M | liveness of the replay worker beside a proposal and its votes, with a block whose replay diverges and one that no import accepts: `StuckQueueIsReported`, `ReplayKeepsUp` |
| `node_double_vote` | – | violation: `OneVotePerFork` |
| `round_votes` | 0.8 M | one task, three validators, quorum of two; two votes in flight, or a vote and a message of a peer; blocks of peers, reorgs, restart: `RewardsFollowBlocks`, `DecisionsAreFinal` |
| `round_races` | 0.9 M | two candidates, one-step submission, expiry, revival, foreign blocks, restart: `BlocksExtendTheirRound`, `AcceptanceIsAnchored`, `TypeOK` |
| `round_live` | 64 k | a miner with two tries, the first of which cannot be turned into a block: `CandidateDecided` |
| `round_late_vote` | – | violation: `BlockTaskStaysAccepted` |
| `execution` | 0.9 M | the books: three heights, a local and a foreign branch, two tasks of a round, one retarget, with four transactions of two senders and a rival nonce, or with two quarters of the treasury: `ConfirmedIsOnChain`, `RewardsMatureOnce`, `SelectedHasOwner`, `FrozenStaysExecutable`, `TreasuryAccounted`, `ParamsFollowEvents`, refinement of `PaymentChain`; beside them, in scenes of their own, the science reserve: two jobs, two crossing requests, two months, two signers, a reorg: `JobsStayCovered`, `PaymentsAreDue`; of both (`NodeAccounts`) `NodeTypeOK`: rows and tasks are well formed and no balance is negative |
| `pool_work` | 0.9 M | two workers, two tasks of two digits, the first raced or divided, the second raced, late shares, two finalizers, lost answers, a crash: `SharesMatchWork`, `NoShareLeftUncredited`, refinement of `PoolLedger` |
| `pool_payouts` | 0.4 M | two workers, two tasks, the first of which has closed, two payouts, a crash or a replay at any step: `PaidAtMostEarned`, `EarningsNeverShrink`, `PayoutsSettle` |
| `market` | 0.4 M | two overlapping passes over two transfers, one of which dies, or a pass and a report of a caller, refusals; two bookings of one unit, none or one of them made, three calls by two handlers, heartbeats, a crash: `NoTransferSkipped`, `CreditedOnce`, `TransfersAreCredited`, `ActiveIsPaid`, refinement of `MarketEscrow`, `ListingHeals` |

Bounds: `Proposed`, `Announced`, `Refused`, `Unreplayable`, `Mined`, `Volatile`, `MaxInflight`, `MayCrash`
(ConsensusNode) and `Tasks`, `Foreign`, `Volatile`, `Direct`, `Unmineable`,
`MaxAsking`, `MaxVoting`, `MayCrash` (ValidationRound), `MaxMessages`, `MaxRequests`
(RoundGossip), `Tasks`, `Foreign`, `MaxHeight`,
`ForcedHeights`, `Aging`, `MaxClaimed` (BlockExecution), `Rewards`, `MaxAccrued`, `scene` (the
science half of `execution`), `MaxTasks`, `TaskUnits`, `MaxCrashes`
(PoolWork), `MaxPayouts`, `MaxFaults` (PoolPayouts), `MaxHeight`, `NamedBlocks`, `ReportedAs`, `MaxPasses`, `MaxDeaths`
(MarketDeposits), `Threads`, `MaxCalls`, `MaxCrashes` (MarketBookings) select what the environment
does. Together the runs fire every action. One run is restricted by a constraint, on a step:
`SecondIsRace` of `pool_work`.
Three safety runs use symmetry: `execution` permutes two tasks of one miner, two jobs alike
and the requests, `pool_work` the workers, `round_votes` the validators, none of which is named
by a property. The type invariant of the pool modules is the first conjunct of
`SharesMatchWork` and `PaidAtMostEarned`.

Why the bounds are enough. `round_votes`: one message is enough to reopen, overwrite or
decide what the votes, the sweeps or an import have done before, between its read and its write,
or after; `MaxRequests` keeps two votes in flight possible until the message arrives and one with
it. Two messages about the task act through the row alone, which a single one may already
set to any status. `execution`: with a maturity depth of 1 and a retarget every
two blocks, three heights contain a reward that matures, is undone and matures again, and a
retarget event that is orphaned; the rival nonces meet in the mempool, in a snapshot
and on both branches. The treasury and what wallets sign
meet in the blocks only: the claim of a quarter reads no balance of a wallet, and no transfer reads the
treasury, so each has a scene with the tasks and the chain, and accruals, maturity and retargets are in
both. Its science half starts in one of three states: locked and empty, where
two signers of two are needed, so that every crossing of their requests is met; an empty account, for
staking, posting and the change of month; a staked account and an active reserve, for the races
of two jobs. The books and the reserve share no state, so nothing is lost by not interleaving
them. Two accruals pay one job of two units and not both, and the limit of pending rewards is that
of one job: a budget released twice or reserved in the wrong month is enough to promise more
than the account holds. Free jobs (`max_reward` 0) touch neither and are left out of `Rewards`. `pool_work`: a
window of accounting spans two tasks, a race and a
queue need two digits; what the second task adds is the share that arrives while it is open and the
order in which the two close, for which it need not be divided. `pool_payouts`: two payouts are the
smallest number for a nonce that a lost one blocks; nothing is earned before the first task closes, and the
workers are alike, so the run begins where w1 has worked on a task that just closed; one fault, lost answer or
replay, whose beginning and end may fall anywhere in a pass and which is enough to release a paid payout.
`Reward` is a multiple of every total of a window
(`SharesAreExact`): the code divides Decimals of 28 digits, and their rounding is not
what the properties are about. What these two runs bound, the proofs of section 5 do not.
`market`: the blocks of the two transfers are scanned by separate polls, and the second buries
the first; a caller has one pass or report, which may name the first block or one beyond the chain, enough
to credit early, to move the checkpoint past a transfer and back, and to cross a pass of the scanner; three
calls create, pay and release, or,
where a booking is made already, pay, release and settle, or contend for the one unit.

Every property has a mutant in `PROJECT.json`: a plausible slip in a modelled
function that TLC finds with the same configuration.

What the properties except, and why: `QuorumBehindVotedBlocks` and
`RejectedStaysOut` let a finalize request through that read the quorum or the
chain before the change (the code has no lock there); `DecisionsAreFinal` lets a
vote through that read an open job and a message that read the task before it was accepted;
`AcceptanceIsAnchored` a repeated vote that had
found the block; `RewardsFollowBlocks` does not ask for a quorum of legacy submissions,
and asks for votes recorded here only when the block was not a peer's; `ReplayKeepsUp` lets the worker
stop at a divergence, or have its batches filled by rows it cannot import; `PaidAtMostEarned` leaves out
the payouts released on a lookup made during a replay; `NoTransferSkipped` the transfers refused, before the
first window or left out by a caller's poll; `CreditedOnce` takes a caller's word for the height, and
`ActiveIsPaid` and `BookingsKeepEscrow` for the confirmations of a payment.
Section 6 says what each exception stands for.

## 4. Fairness

`WorkerSpec` (node_worker): weak fairness of starting a batch while the worker may
run (the queue is not empty and no divergence was found), of its rows, its commit and the record. `_replay_worker_loop`
(`consensus.py:912-935`) is a loop with a sleep that calls
`replay_finalized_blocks` until the process stops and catches what it raises.
Nothing is assumed of requests. That the worker may starve is no matter of fairness: `ReplayKeepsUp`
excuses the state in which as many rows as a batch has come first and cannot be imported (`Crowd`, section 6).

`FairSpec` (round_live): a validator keeps polling (`validator/client.py`), votes
on what it was offered, a request in flight ends, and the sweep does not overlook
for ever a task that is past its deadline again and again. Votes and sweeps have strong
fairness: the bound on requests in flight, which is the model's, disables a vote
again and again, and a task may be moved out of and into reach of the sweep.
Miners and other nodes are under no obligation. The run has no restart
and no interleaved `create_next_task`: with one, a stale revival and a wrongly
signed reveal leave a job pending for ever (`mining.py:4854`, in the hazards).

`FairSpec` (pool_payouts): the tick thread (a loop that catches what it raises) goes on
with what it has begun (lookups, releases, the run of payouts), its requests end, the node mines and does not
replay for ever.
Strong fairness of looking up a row that is older than the grace, some row: each is looked up in
every pass, and its age only grows. Nothing is assumed of the work.

`FairSpec` (market): the scanner process polls for ever (`scanner_worker.py`, `run_forever`), and
now and then its node is at the chain's height; a node that lags for ever confirms nothing.
Handlers and passes end. Heartbeats do not stop (the agent's loop). Calls and the passes of API
callers are bounded: an unbounded stream of passes with an old height could put a deposit
back just when the scanner process looks, and make its pass fail for ever.

## 5. Proofs

The theorems hold for every value of the constants that satisfies the named assumptions of the
modules, where the runs check one small instance. `PROJECT.json` lists them with a sentence each.

| module | theorems | about |
|---|---|---|
| `ConsensusNode_proofs` | `TypeCorrect`, `ChainIsLinked`, `ImplementsCanonicalChain`, `ImportedStaysOnChain`, `FinalizedStaysSettled`, `HeaderStaysSettled`, `RequestsStaySettled`, `RejectionStands`, `QuorumStandsBehind` | every safety property of `ConsensusNode` that a run checks |
| `Round_proofs` | `TypeCorrect`, `RoundsAreExtended`, `AcceptanceStaysAnchored` of `ValidationRound`; `GossipTypeCorrect`, `BlocksArePaid`, `DecisionsStand` of `RoundGossip` | every safety property of the round, with and without gossip |
| `Books_proofs` | `BooksFollowTheChain`, `SelectionsAreOwned` of `BlockExecution` | mempool, nonces, snapshots |
| `Execution_proofs` | `PaymentsFollow`, `FrozenExecutesInFull`, `ParametersFollowEvents`, `RewardsArePaidOnce`, `TreasuryFollowsTheChain` of `BlockExecution`; `ScienceTyped`, `PaymentsDue`, `ReserveCoversJobs` of `ScienceReserve`; `NodeTyped` of `NodeAccounts` | the refinement of `PaymentChain`; snapshots, retargets, rewards, treasury; the science reserve |
| `PoolWork_proofs` | `SharesArePaidOnce`, `SharesAreCreditedTogether`, `WorkImplementsLedger` | the work side of the pool, the refinement of `PoolLedger` included |
| `PoolPayouts_proofs` | `PaymentsAreEarned`, `EarningsStand` | the payouts |
| `Market_proofs` | `MarketTyped`, `TransferCreditedOnce`, `CheckpointSkipsNone`, `BookingsArePaid`, `BookingsImplementEscrow` | every safety property of `Market`, the refinement of `MarketEscrow` included |
| `SetSums` | lemmas | sums over finite sets |

Assumptions. Those of `ConsensusNode` say that hashes determine parents and heights, that the quorum
is at least one and the batch size positive. Elsewhere: the sets that the code counts or sums over are
finite (`Tasks`, `Validators`, `Jobs`, `Workers`, `Bookings`, `Signers`), months and quarters are numbers and
the first is one of them,
`TxOrder` lists every transaction once, nonces start at 1, the parties of a transfer are wallets, `Premine` is
a function of the wallets, premines, fees,
shares and rewards are naturals (`BooksAssumption`), no wallet is a built-in account (`NoWalletIsBuiltIn`), tasks and
foreign blocks have different ids and are mined by wallets (`BlocksAssumption`), and in
`PoolPayouts` a reward divides exactly (`SharesAreExact`; the code divides Decimals of 28 digits).
TLC evaluates all of them. `ScienceSpec` is the specification of one
half of a run's module; its theorems start from an empty account and a locked
reserve. `NodeTyped` starts from either of the states of the run.

### ConsensusNode

Every step changes the chain in one of two ways (`NextIsChainStep`):
a block that extends it, or the reorg, whose two blocks are linked to the block below
the tip. Hence `ChainLinked`, the refinement, and `ChainNeverShrinks`: a reorg replaces
the tip and adds one block in one transaction, so a height once taken stays taken
(`StaysSettled`). That is what makes stale reads harmless as far as they are: a
request that decided before the lock writes `imported` only together with an import
or a block it finds under the lock, and any other status it writes claims no more than
that a height is taken. `FinalizedIsSettled` and `HeaderIsSettled` alone are not
inductive, because the status comes from a request that read it earlier; the
strengthening is `RequestsSettled`, about the requests in flight. The inductive
invariant of these theorems is `Decided == FinalizedIsSettled /\
HeaderIsSettled /\ RequestsSettled` under `TypeOK`; `ImportedIsOnChain` is inductive
under `TypeOK`.
The refinement maps the chain to itself: import, local block and replay are
growth, `ReorgApply` is a replacement, the rest stutters. The two action properties are
read off the actions, one case each; `QuorumBehindVotedBlocks` needs that the rows of a replay
batch, which were read before, are headers the node was sent (`BatchIsAnnounced`).

### ValidationRound and RoundGossip

`RoundInv` is `TypeOK`, `BlocksExtendTheirRound` and what they rest on: a row that has a job has a task,
and the tasks on the chain and those of the votes in flight were given. With it, a task is
accepted off the chain only where a request had found its block (`Anchored`).
For the gossip `GossipInv == RoundInv /\ ChainInv /\ VotesInv /\ PayInv /\ HearInv`:
the chain begins with genesis, has no block twice and only foreign blocks that arrived; only a vote
that came by gossip may act on a job that has closed; a repeated vote in flight acts on a quorum that
is still there; what is paid went to approvers, unless the task was imported, and is enough for every block
on the chain; and a message between its reads and its writes does not undo an acceptance it read.
`RewardsFollowBlocks` is not inductive without the middle ones: the repeated vote pays, and what makes
that right is the quorum it read.

### BlockExecution

`ExecInv` has five parts: the types of chain, tasks and snapshots; the types of mempool,
nonces and rewards (`Kept`); the task of a block on the chain is over (`MinedIsOver`), so a reorg that closes
it leaves nobody's reservation behind; `SelectedHasOwner`; and `ConfirmedIsOnChain`, stated for any
sequence of blocks (`Carried`), because a reorg passes through two intermediate books. TLC checks `ExecInv`
on the instance of `execution`.

Its lemmas follow the functions of `AccountBooks`. A block whose transactions all apply confirms exactly
them and takes each nonce above the one its sender had (`BlockAdvances`, by the run of accumulators of
`Execution`); none of them was confirmed before, and the nonces are again the last confirmed ones
(`CarriedByBlock`). A replay of what its producer could execute ends in the same books
(`ReplayExecutesAlike`). An import deletes unconfirmed rivals only: the nonce of a confirmed rival is
not above the one its sender has, so the block would not have executed (`ForeignAdvances`). Without the block of
the tip the books are those of the chain below it (`UndoneKeeps`). What a task freezes was
pending (`SelectionPicks`), and what it mined is what it loads, so nothing stays selected for it.

`FrozenStaysExecutable` follows from `Frozens`: what a task of the present tip carries or has in
its snapshot is executable, and the tip a task was made on is one that the chain has, or had and cannot have
again, so a new block makes every snapshot of before obsolete. `Executable` says that every transaction of the
list, if its
row is there, has the next nonce of its sender after those before it, and that
what the sender pays for them and for it is covered by its balance, whatever arrives in between
(`ExecutableRuns`, by the run of accumulators). It begins with `Frozen`: the scan of the mempool
counts and reserves per sender what it has taken (`ConsiderPays`, `SelectionPays`), which is what
`_select` promises. It survives as long as the nonces stay and no
balance of a wallet falls (`StaysExecutable`), and only blocks change either.

`ParamsFollowEvents` is strengthened by the first event's `prev`: it is what is active again when all
events go.

Rewards and treasury rest on `LedgerInv == Ledgered(books, chain) /\ Arrivals`. `Ledgered` says of any chain that
no entry of the ledger is above its tip, that every balance is the sum of its account's entries (`Booked`), that
each block has one reward, paid by one entry if it is mature and by none otherwise (`Settled`), and that, below any
height, the entries have accrued to the treasury one share per block, and left it with that less the claims
(`Treasured`). It is stated for any chain for the same reason as `Carried`: a reorg passes through the books of
the chain without its tip and with one foreign block, and it says "below any height" because a reorg removes
the entries at the height of the tip, by a fold over the ledger, and rebuilds the balances from the rest.
`Arrivals` says where blocks come from (a mined task is over, an imported block has arrived), so no id
is on the chain twice and a matured reward is not paid again.

`NodeTyped` says that no account is ever in debt. A block checks what its senders can pay, so importing
one is harmless; but a reorg removes the entries of the tip, and with them money that was
spent, perhaps, before. `Solvent` is the strengthening: at every height the entries up to it
leave every account at least zero. What a block adds lies at its own height (`Since`), so
taking it back restores sums that are at least zero already, and a block that is
imported in its place checks against those. The treasury is apart, because its claims have no height:
its account is what has accrued less the claims, and `PursesInv` adds that the claims do not exceed what is
due for the blocks of the chain (`Due`), which a reorg, leaving a chain that is longer by one, does not lower.

`PaymentsFollow` maps a node to `PaymentChain` by its blocks (`Seen`) and the balances of its wallets
(`Purse`). `PaymentChain` computes a balance from the whole chain, by a sum over all the positions in
all the blocks, where the code adds to a row, transaction by transaction. The two meet in
`ExecutionHolds`: after each transaction of a block, and after the rewards that mature with
it, balances and nonces are those of the chain with that much of the block on top (`Agrees`, `With`); one
transaction is one position more in the sum (`OneMoreTx`, with `SetSums`), and a reward one more of
the rewards deep enough (`BonusGrows`). A transaction that could be executed there has the next nonce and is
covered, in the words of `PaymentChain` (`FollowsAreValid`). For a reorg this must hold of the chain below the
tip as well,
after the entries of the tip are gone: `PayInv` says that at every height the entries up to it sum to
what the blocks up to it bring (`Held`), and that the greatest nonce the blocks up to it carry is the number
of the sender's transactions there (`Numbered`). `Whole` collects what books must satisfy for a chain; accepting,
importing and taking back a block lead from `Whole` to `Whole`, and a reorg is the three in a row. The steps of
mempool, tasks, retarget and treasury leave chain and wallets as they are, and stutter.

A fold is the end of a run of accumulators. `FoldRuns` shows that the function behind `FoldLeft`
exists, once for the six folds of the books (`FoldStep` has a case for each), because an operator cannot be
the parameter of a lemma. Inductions over indices are by a least counterexample.

### ScienceReserve

`ReserveInv` types the books and says what a request in flight may rely on: its job is posted with the
reward it had, and whoever had signed has signed. Payouts can be on only behind a threshold of signatures,
each by one signer. For `JobsStayCovered`, months to come are empty, and the sum of the rewards that
count on the account changes by one job's share in a step (`ClaimsAdd`, with `SetSums`).

### The pool

`PoolWork`: `WorkInv` relates chunks, submissions in flight, finalizers, shares and credits; the credit of
a task is the sum of the digits its shares cover, each digit in one share. `DatesInv` adds the order in
which tasks close; both give the refinement of `PoolLedger`, whose credit of a worker is the sum over its
shares. `PoolPayouts`: `LedgerInv` (tasks close in order, with full credit once they are done), `PayCore` (what
was released is dead or in `unseen`; a run or a pass belongs to a payout that is open) and `DueIsEarned` (paid and due
together are at most earned). `EarningsNeverShrink` splits the window of the next accepted task at the
one that came late between, which needs the exact division.

### The marketplace

Scanners and handlers work on copies, so the invariants are about copies: what a pass holds is sound for
the deposits and the ledger whenever it puts it back, and the transfers between its range and what it recorded
are in its `skips` (`DepositsInv`); a copy of a booking that runs or is
paid has its debit, or was attested (`Warranted`, `BookingsInv`). Both imply that credits and payments happen once; the
second gives the refinement of `MarketEscrow`. `Halves` carries what holds of one half over to `Market`.

### What is model-checked only

Liveness and everything about ENABLED are outside the prover: `CandidateDecided`, `StuckQueueIsReported`,
`ReplayKeepsUp`, `TransfersAreCredited`, `ListingHeals` and `PayoutsSettle` are checked by TLC, under the
fairness of section 4.
Every other property of a passing run is stated by a theorem.
The two violation runs refute what is said of the code and have nothing to prove.

## 6. Where the code and what is said of it disagree

Two runs expect a violation; `findings` quotes the lines.

| run | what is said | what TLC finds |
|---|---|---|
| `node_double_vote` | a validator does not vote for two proposals of a fork | both votes pass the check before either writes |
| `round_late_vote` | the gossip path keeps the task of a block accepted | a vote through the API that read an open job rejects it |

More of the kind came up while modelling. The models contain the behaviour, and the
properties are stated around it:

- `_fork_choice_sort_key` compares the status before any vote, so a proposal that waited
  for its parent loses to a pending one with less approval weight; `FORK_CHOICE_RULE` and
  `README.md:1652` name the votes only. `ForkChoice` models the code.
- `finalize_proposal` called by the API decides before the lock and only the PRIMARY KEY of
  `blocks` stops it after: when it had found the block on the chain and a reorg came in
  between, two proposals of one fork end up final. Hence the exception of `RejectedStaysOut`,
  and `FinalizedIsSettled` claims that the height is taken, not by whom.
- Headers of a losing branch, and of blocks that no import accepts, are never dropped and are the lowest in
  the queue; with `REPLAY_BATCH_SIZE` of them nothing else is replayed. Hence the exception `Crowd` of
  `ReplayKeepsUp`; without it TLC finds the starvation on `node_worker`.
- A rejection and an approval in flight with a quorum of one both decide: the miner is
  penalised and has its block. Hence `LateVote` in `DecisionsAreFinal`.
- A poll expires a revealed task past its deadline without closing its job, and a second
  candidate of the round is offered beside it; `tests/test_assignment.py:938` expects one.
- A repeated vote reads the block of its task before its first write; a reorg in between
  leaves the task accepted without a block. Hence the exception of `AcceptanceIsAnchored`.

Tasks and jobs of peers (`RoundGossip`):

- `receive_task_gossip` compares the ranks with the task it read before the lock, and its
  UPDATE has no condition (`mining.py:1446`): a message that read the task while it was open
  can write over `accepted`. Hence `LateGossip` in `DecisionsAreFinal`.
- Statuses of one rank overwrite each other: what a peer calls expired replaces `rejected` or
  `stale`, and `_reactivate_expired_competitive_task` may then bring it back.
- `accepted` has the highest rank and needs no block here: the task of a pending job may be
  accepted by hearsay. `AcceptanceIsAnchored` is therefore a property of `ValidationRound`, not
  of `RoundGossip`.

Transactions, rewards and treasury:

- The reversal of an accrual takes its amount from the locked part of the current epoch. When
  the epoch was unlocked between the block and its reorg, nothing is taken back, and the tables
  promise more than the account holds; the claim then finds the account short. Hence
  `TreasuryAccounted` bounds the account by the tables and not the tables by the account.
- A committed task that expires and is revived keeps its snapshot, but its rows were released
  and may be mined or expire elsewhere. An assigned one freezes again under its own id, so
  tasks that share the earlier snapshot fail with "tx snapshot mismatch".
  `README-public-testnet.md:492` says the frozen snapshot is used. `FrozenStaysExecutable`
  is stated for what a task can still load.
- Selection is ordered by fee, then hash (`transactions.py`); `README-public-testnet.md:486` has the time
  of creation between them.
- A nonce that any local row shares with a transaction of the remote branch refuses the
  reorg, whatever that row's status, and nothing removes it (`consensus.py:1848`).

Science reserve (no run of its own; `JobsStayCovered` and `PaymentsAreDue` state the exceptions, and
TLC finds a counterexample without any of them):

- `pay_science_worker` does not look at the job again once it has the lock (`science.py:432-467`): two
  crossing requests pay the worker twice. `README.md:647` says the job "has not been paid
  before", and `tests/test_science_layer.py:134` tests it for requests one after the other.
- Two crossing cancellations release the budget of a job twice, and what is then free may be
  promised to another job.
- The reversal of an accrual takes it from the row updated last (`consensus.py:2136-2146`): a GET of another month's
  reserve, which inserts its row, or the change of the month makes that the wrong one.
- A stake that ends while a job is being created leaves the job without an active account.
- A job paid below its `max_reward` leaves the rest in `total_pending` for good.
- Executing an activation asks for nothing but the timelock and the approvals, so after a pause it
  switches the payouts on again, as unpausing does. Both are behind `Threshold` signatures.

Consensus, found by reading:

- A validator cannot change its vote (`consensus.py:481`): two proposals of a fork that split the votes
  never reach a quorum.
- A validator that was offered a job and never votes keeps a round whose votes are split open until the
  deadline of its task (`mining.py:7556`).

Pool:

- A pass over the payouts asks for the node's health at most once and after the lookup
  (`pool_server.py:1847-1900`). A replay that begins in the middle of a pass can release
  a payout that is on the chain, and pay it again; `test_pool_database.py:1773` expects it to stay
  reserved. Hence the exception `unseen` of `PaidAtMostEarned`; without it TLC finds the double payment.
- A crash in `submitting` wedges the pool: `ensure_active_task` waits for that task and
  nothing resets it. Hence no liveness is claimed of `PoolWork`.
- When the answer to the reveal is lost, the task ends as an error and is not looked up again,
  also if its block was mined: the reward of that block is not shared. Accepted tasks
  are not looked at again after a reorg of the node.

Marketplace:

- Two handlers may sell one unit twice: creation, release and heartbeat put back whole
  listings. `README.md:664` says a heartbeat does not overwrite reserved units. What holds is
  `ListingHeals`.
- Two payments of one account check the balance and debit it on separate connections
  (`marketplace.py:1193`): together they may overspend. A retry after a crash between debit and
  confirmation checks the balance again and may be refused, the debit staying.
- Payment does not ask whether the booking still awaits it: a released one can be paid and
  settled. `submit_payment` can put a confirmed payment back to submitted. It asks no chain and compares the
  confirmations of its request only (`marketplace.py:2145-2164`), so a caller's word makes a booking run and
  settle. Hence `attested` in `ActiveIsPaid` and in `MarketEscrow`. Bookings never expire: nothing applies the
  payment window.
- A pass with old copies may put a credited deposit back to confirming; the ledger is not
  affected (`CreditedOnce`) and the scanner credits it again (`TransfersAreCredited`).
- A scan goes on after `accept_deposit` refused a transfer (`marketplace.py:843`, `:943`), and a request may
  start it beyond the checkpoint (`:878`); the checkpoint is set past either. Never credited, unless someone
  reports them: transfers of a wallet verified after its block was scanned, transfers before the first window, blocks
  jumped by an explicit `from_block`, blocks skipped by two first polls without a checkpoint. Hence `passedOver` in
  `NoTransferSkipped`, and `TransfersAreCredited` speaks of recorded deposits.
- The caller of `POST /scanner/{chain}/confirmations/process` names the height (`api.py:241`), and any positive number
  credits at once: hence `told` in `CreditedOnce`. `POST /scanner/deposits` takes the status too (`marketplace.py:665`):
  a deposit reported as credited never enters the ledger (status "reported").
- Deposits of a block the source chain
  orphaned stay credited; REORGED is never set.

## 7. What is not modelled

Of the modelled components: snapshot bases, the accounting of an import, the
diagnostic endpoints (consensus); peers, heartbeat and pulls (network); the assigned
mode, penalties beyond their count, bans and cooldowns (round); the round of a second node
and whether two nodes agree (gossip). A displaced block is not imported again: the code reorganises one block deep.
Validator selection pools are read by the code and do not change state.
Books: science transactions as transactions of a block (`ScienceReserve` has what they do, on a reserve of its
own), stakes as money, the TTL check at submission;
a retarget follows a local acceptance or a forced call, as in the code.
Pool: registration of workers, statistics, the pool worker client; unequal rewards of blocks.
Marketplace: a source chain that gives up a block; which of its reasons `accept_deposit` refuses a transfer
for; one listing, one unit and one price per
booking, one account; offers, assignment reports, sessions, reviews; HTTP and agents.
Forge L2's queue: claims, releases and submissions put whole rows back unconditionally, so
hardly any promise survives two concurrent calls; it stays in the plan.
The desktop applications carry copies of the node's `services/`, which are not mapped again.
Cryptography, pi digits, Merkle trees, formatting and HTTP are inputs.
Everything listed `not_modelled` in `PROJECT.json` has its reason there.

## 8. Plan

In this order; a module that is to be proved about uses no RECURSIVE operator (none does).

1. **RoundNetwork**: two nodes, each a `RoundGossip` whose messages are what the other
   has sent; **FinalityNetwork**: several `ConsensusNode`s and the validators between them.
2. **AIAccessQueue** and **ForgeEpoch** (L2): leases, late results, epochs.
3. **ProposalQueue**, **SnapshotRestore**; science transactions in `BlockExecution`, which then
   drives `ScienceReserve` instead of running beside it.
