---------------------------- MODULE ScienceReserve ----------------------------
(***************************************************************************)
(* The science layer of a node (science.py): a requester that stakes, the  *)
(* jobs it posts against a reserve that every block adds to, the workers   *)
(* paid from it, and the signers that switch the payouts on and off.       *)
(*                                                                         *)
(* A request reads before its first write and takes the database lock only *)
(* with it, so two requests may cross between the reads (Begin...) and     *)
(* the writes (Finish...).  What arrives as a transaction of a block takes *)
(* both steps in a row.  Tiers, hashes, compute units and the workers'     *)
(* names are left out, amounts are whole, and payouts_enabled and          *)
(* emergency_paused are what the status implies where they are read.       *)
(***************************************************************************)
EXTENDS Integers, Sequences, FiniteSets, FiniteSetsExt, SequencesExt

CONSTANTS
    Jobs,           \* science jobs of the requester, by job_id
    Requests,       \* requests the node serves at a time
    Signers,        \* SCIENCE_RESERVE_AUTHORIZED_SIGNERS
    Threshold,      \* SCIENCE_RESERVE_GOVERNANCE_MULTISIG_THRESHOLD
    Rewards,        \* max_reward a requester may ask for
    MonthlyQuota,   \* of the requester's tier
    MaxPending,     \* SCIENCE_MAX_PENDING_PER_REQUESTER
    MaxPaid,        \* SCIENCE_MAX_PAYOUT_PER_EPOCH
    Months,         \* 1..n, the epochs of the reserve
    MaxAccrued      \* bound: blocks that add to the reserve

ASSUME ScienceAssumption ==
    /\ Rewards \subseteq Nat /\ Months \subseteq Nat /\ 1 \in Months
    /\ IsFiniteSet(Jobs) /\ IsFiniteSet(Signers)
    /\ {Threshold, MonthlyQuota, MaxPending, MaxPaid, MaxAccrued} \subseteq Nat

VARIABLES
    account,    \* science_stake_accounts: [status, used, month]
    job,        \* science_jobs: [status, max, payout, paid]
    payments,   \* of each job, ledger entries that credit a worker
    reserve,    \* science_reward_reserve: [open, reserved, paid, pending] by epoch
    latest,     \* the epoch whose row was updated last
    balance,    \* of the account science_compute_reserve
    accrued,    \* science_reserve_accrual entries of the chain
    month,      \* current_epoch()
    governance, \* science_reserve_governance: [status, timelock, approvals, activated]
    signed,     \* who proposed or approved, by the event log
    flight      \* requests between their reads and their writes

jobVars     == << job, payments >>
reserveVars == << reserve, latest, balance, accrued >>
signVars    == << governance, signed >>
scienceVars == << account, jobVars, reserveVars, month, signVars, flight >>

(* rejected, disputed and expired differ in their name only: "ended".      *)
Path == << "created", "queued", "assigned", "committed", "submitted", "verified", "accepted" >>
Unpaid == ToSet(Path)

NoJob     == [status |-> "none", max |-> 0, payout |-> 0, paid |-> FALSE]
NoRow     == [open |-> FALSE, reserved |-> 0, paid |-> 0, pending |-> 0]
NoRequest == [op |-> "none"]
NoAccount == [status |-> "none", used |-> 0, month |-> 1]
Locked    == [status |-> "locked", timelock |-> "none", approvals |-> << >>, activated |-> FALSE]

(* The node before its first science job.                                  *)
ScienceFrom(requester, council, who) ==
    /\ account = requester
    /\ job = [j \in Jobs |-> NoJob]
    /\ payments = [j \in Jobs |-> 0]
    /\ reserve = [m \in Months |-> NoRow]
    /\ latest = 1 /\ balance = 0 /\ accrued = 0 /\ month = 1
    /\ governance = council /\ signed = who
    /\ flight = [r \in Requests |-> NoRequest]

ScienceInit == ScienceFrom(NoAccount, Locked, {})

(* What a request has read goes with it to its writes. *)
Begins(r, request) ==
    /\ flight[r] = NoRequest
    /\ flight' = [flight EXCEPT ![r] = request]
    /\ UNCHANGED << account, jobVars, reserveVars, month, signVars >>

Answers(r, op) ==
    /\ flight[r].op = op
    /\ flight' = [flight EXCEPT ![r] = NoRequest]
    /\ UNCHANGED month

---------------------------------------------------------------------------
(* Accounts *)

Active(j) == job[j].status \in Unpaid /\ ~job[j].paid
Promised == SumFunctionOnSet([j \in Jobs |-> job[j].max], { j \in Jobs : Active(j) })

(* A quota of an earlier month starts again at zero.                       *)
UsedNow == IF account.month = month THEN account.used ELSE 0

BeginStake(r) == Begins(r, [op |-> "stake", used |-> UsedNow, month |-> month])

(* The quota that was read is written back.                                *)
FinishStake(r) ==
    /\ Answers(r, "stake")
    /\ account' = [status |-> "active", used |-> flight[r].used, month |-> flight[r].month]
    /\ UNCHANGED << jobVars, reserveVars, signVars >>

BeginUnstake(r) ==
    /\ account.status # "none"
    /\ \A j \in Jobs : ~Active(j)
    /\ Begins(r, [op |-> "unstake"])

FinishUnstake(r) ==
    /\ Answers(r, "unstake")
    /\ account' = [account EXCEPT !.status = "unstaking"]
    /\ UNCHANGED << jobVars, reserveVars, signVars >>

---------------------------------------------------------------------------
(* Posting a job *)

(* Every write to the reserve goes to the row of the current epoch, and     *)
(* opens it.                                                               *)
Row == reserve[month]
WriteRow(row) ==
    /\ reserve' = [reserve EXCEPT ![month] = [row EXCEPT !.open = TRUE]]
    /\ latest' = month

Available(row) == row.reserved - row.paid - row.pending

CoversWithoutPending(max) == max = 0 \/ max <= Row.reserved - Row.paid   \* mutant: - total_pending forgotten

Covers(max) == max = 0 \/ max <= Available(Row)

(* Bound: the requester posts no more jobs than there are Jobs.            *)
Unused == { j \in Jobs : job[j] = NoJob }

MayPost(max) ==
    /\ account.status = "active" /\ Unused # {}
    /\ UsedNow < MonthlyQuota
    /\ max = 0 \/ Promised + max <= MaxPending

Post(j, max) ==
    /\ Covers(max)
    /\ job' = [job EXCEPT ![j] = [NoJob EXCEPT !.status = "created", !.max = max]]
    /\ IF max > 0 THEN WriteRow([Row EXCEPT !.pending = @ + max]) ELSE UNCHANGED << reserve, latest >>
    /\ UNCHANGED << payments, balance, accrued, signVars >>

(* The account, its quota and its pending rewards are read before the lock, *)
(* except in the first request of a month, which resets the quota first.   *)
BeginCreate(r, max) ==
    /\ account.month = month /\ MayPost(max)
    /\ Begins(r, [op |-> "create", max |-> max])

FinishCreate(r) ==
    /\ Answers(r, "create")
    /\ \/ /\ ~Covers(flight[r].max)
          /\ UNCHANGED << account, jobVars, reserveVars, signVars >>
       \/ /\ \E j \in Unused : Post(j, flight[r].max)
          /\ account' = [account EXCEPT !.used = @ + 1]

CreateAfterReset(max) ==
    /\ account.month # month /\ MayPost(max)
    /\ \E j \in Unused : Post(j, max)
    /\ account' = [account EXCEPT !.used = 1, !.month = month]
    /\ UNCHANGED << month, flight >>

---------------------------------------------------------------------------
(* Work and payment *)

Floored(n) == IF n < 0 THEN 0 ELSE n

(* A job goes one step along the path or ends; only one that is accepted    *)
(* cannot end.                                                             *)
Allowed(status) ==
    UNION { {Path[i + 1], "ended"} : i \in { k \in 1..(Len(Path) - 1) : Path[k] = status } }

(* An accepted job is worth the units used, up to its reward.              *)
Worth(j, status) ==
    IF status = "accepted" /\ job[j].max > 0 THEN 1..job[j].max ELSE {job[j].payout}

BeginTransition(r, j) ==
    \E status \in Allowed(job[j].status) : \E payout \in Worth(j, status) :
        Begins(r, [op |-> "transition", job |-> j, read |-> job[j], status |-> status, payout |-> payout])

(* The row is written whatever it has become since it was read; a job that *)
(* ends gives its budget back.                                             *)
FinishTransition(r) ==
    LET j == flight[r].job
    IN  /\ Answers(r, "transition")
        /\ job' = [job EXCEPT ![j].status = flight[r].status, ![j].payout = flight[r].payout]
        /\ IF flight[r].status = "ended" /\ job[j].max > 0 /\ ~job[j].paid
           THEN WriteRow([Row EXCEPT !.pending = Floored(@ - job[j].max)])
           ELSE UNCHANGED << reserve, latest >>
        /\ UNCHANGED << account, payments, balance, accrued, signVars >>

PayableAgain(j) == job[j].status \in {"accepted", "paid"} /\ job[j].payout > 0   \* mutant: paid is not looked at

Payable(j) == job[j].status = "accepted" /\ ~job[j].paid /\ job[j].payout > 0

BeginPay(r, j) ==
    /\ governance.status = "active" /\ Payable(j)
    /\ Begins(r, [op |-> "pay", job |-> j, read |-> job[j]])

(* The limit of the month and the balance are checked under the lock, the  *)
(* job is not.                                                             *)
FinishPay(r) ==
    LET j == flight[r].job
        amount == flight[r].read.payout
    IN  /\ Answers(r, "pay")
        /\ IF Row.paid + amount <= MaxPaid /\ amount <= balance
           THEN /\ balance' = balance - amount
                /\ payments' = [payments EXCEPT ![j] = @ + 1]
                /\ WriteRow([Row EXCEPT !.paid = @ + amount, !.pending = Floored(@ - amount)])
                /\ job' = [job EXCEPT ![j].status = "paid", ![j].paid = TRUE]
                /\ UNCHANGED accrued
           ELSE UNCHANGED << jobVars, reserveVars >>
        /\ UNCHANGED << account, signVars >>

(* get_science_reserve opens the row of any epoch it is asked for.         *)
ReadReserve(m) ==
    /\ ~reserve[m].open
    /\ reserve' = [reserve EXCEPT ![m].open = TRUE]
    /\ latest' = m
    /\ UNCHANGED << account, jobVars, balance, accrued, month, signVars, flight >>

---------------------------------------------------------------------------
(* Blocks: each adds one to the reserve *)

AccrueBlock ==
    /\ accrued < MaxAccrued
    /\ WriteRow([Row EXCEPT !.reserved = @ + 1])
    /\ balance' = balance + 1 /\ accrued' = accrued + 1
    /\ UNCHANGED << account, jobVars, month, signVars, flight >>

(* A reorg takes the share of the block of the tip from the row that was    *)
(* updated last; the two blocks of the branch add to the current one.      *)
ReorgAccruals ==
    LET below == [reserve EXCEPT ![latest].reserved = Floored(@ - 1)]
    IN  /\ accrued \in 1..(MaxAccrued - 1)
        /\ reserve' = [below EXCEPT ![month].open = TRUE, ![month].reserved = @ + 2]
        /\ latest' = month
        /\ balance' = balance + 1 /\ accrued' = accrued + 1
        /\ UNCHANGED << account, jobVars, month, signVars, flight >>

NextMonth ==
    /\ month + 1 \in Months
    /\ month' = month + 1
    /\ UNCHANGED << account, jobVars, reserveVars, signVars, flight >>

---------------------------------------------------------------------------
(* Governance of the payouts *)

BeginPropose(r, s) ==
    /\ governance.status # "active"
    /\ Begins(r, [op |-> "propose", signer |-> s, approvals |-> governance.approvals])

SignedBy(approvals, s) == IF Contains(approvals, s) THEN approvals ELSE Append(approvals, s)

FinishPropose(r) ==
    /\ Answers(r, "propose")
    /\ governance' = [governance EXCEPT !.status = "pending", !.timelock = "running",
                                        !.approvals = SignedBy(flight[r].approvals, flight[r].signer)]
    /\ signed' = signed \cup {flight[r].signer}
    /\ UNCHANGED << account, jobVars, reserveVars >>

BeginApprove(r, s) ==
    /\ governance.status # "active" /\ governance.timelock # "none"
    /\ Begins(r, [op |-> "approve", signer |-> s, approvals |-> governance.approvals])

FinishApprove(r) ==
    /\ Answers(r, "approve")
    /\ governance' = [governance EXCEPT !.approvals = SignedBy(flight[r].approvals, flight[r].signer)]
    /\ signed' = signed \cup {flight[r].signer}
    /\ UNCHANGED << account, jobVars, reserveVars >>

TimelockEnds ==
    /\ governance.timelock = "running"
    /\ governance' = [governance EXCEPT !.timelock = "over"]
    /\ UNCHANGED << account, jobVars, reserveVars, month, signed, flight >>

BeginExecute(r) ==
    /\ governance.status # "active" /\ governance.timelock = "over"
    /\ Len(governance.approvals) >= Threshold
    /\ Begins(r, [op |-> "execute"])

FinishExecute(r) ==
    /\ Answers(r, "execute")
    /\ governance' = [governance EXCEPT !.status = "active", !.activated = TRUE]
    /\ UNCHANGED << account, jobVars, reserveVars, signed >>

PauseReserve ==
    /\ governance.status # "paused"
    /\ governance' = [governance EXCEPT !.status = "paused"]
    /\ UNCHANGED << account, jobVars, reserveVars, month, signed, flight >>

BeginUnpause(r) == Begins(r, [op |-> "unpause", activated |-> governance.activated])

FinishUnpause(r) ==
    /\ Answers(r, "unpause")
    /\ governance' = [governance EXCEPT !.status = IF flight[r].activated THEN "active" ELSE "locked"]
    /\ UNCHANGED << account, jobVars, reserveVars, signed >>

---------------------------------------------------------------------------

AccountsNext == \E r \in Requests : BeginStake(r) \/ FinishStake(r) \/ BeginUnstake(r) \/ FinishUnstake(r)

PostingNext == \E max \in Rewards, r \in Requests : BeginCreate(r, max) \/ FinishCreate(r) \/ CreateAfterReset(max)

WorkNext == \E r \in Requests :
    \/ \E j \in Jobs : BeginTransition(r, j) \/ BeginPay(r, j)
    \/ FinishTransition(r) \/ FinishPay(r)

BlocksNext == AccrueBlock \/ ReorgAccruals \/ NextMonth \/ \E m \in Months : ReadReserve(m)

SignersNext ==
    \/ \E r \in Requests :
        \/ \E s \in Signers : BeginPropose(r, s) \/ BeginApprove(r, s)
        \/ FinishPropose(r) \/ FinishApprove(r)
        \/ BeginExecute(r) \/ FinishExecute(r) \/ BeginUnpause(r) \/ FinishUnpause(r)
    \/ TimelockEnds \/ PauseReserve

ScienceNext == AccountsNext \/ PostingNext \/ WorkNext \/ BlocksNext \/ SignersNext

ScienceSpec == ScienceInit /\ [][ScienceNext]_scienceVars

---------------------------------------------------------------------------
(* Properties *)

ScienceTypeOK ==
    /\ account.status \in {"none", "active", "unstaking"} /\ {account.month, month, latest} \subseteq Months
    /\ \A j \in Jobs : /\ job[j].status \in Unpaid \cup {"none", "ended", "paid"}
                       /\ job[j].payout \in 0..job[j].max
                       /\ job[j].paid <=> payments[j] > 0
    /\ \A m \in Months : {reserve[m].reserved, reserve[m].paid, reserve[m].pending} \subseteq Nat
    /\ balance \in Nat
    /\ governance.status \in {"locked", "pending", "active", "paused"}

(* A request writes although its job is no longer what it read.            *)
Overtaken(r) ==
    /\ flight[r].op \in {"transition", "pay"} /\ flight'[r] = NoRequest
    /\ job[flight[r].job] # flight[r].read

(* What may still be promised this month and what is promised to jobs.     *)
Covered == Floored(Available(Row)) + Promised <= balance

(* The account of the reserve can pay every job that counts on it, across   *)
(* months, floors at zero, cancellations and reorgs: budgets are reserved,  *)
(* released and paid in the row of whatever month it is.  Two ways lose it: *)
(* a request overtaken by another on the same job (a budget is released    *)
(* twice), and a reorg whose orphaned accrual is not taken from the row of *)
(* the current month.                                                      *)
JobsStayCovered ==
    [][ Covered => \/ Covered'
                   \/ \E r \in Requests : Overtaken(r)
                   \/ ReorgAccruals /\ ~ (latest = month /\ Row.reserved > 0) ]_scienceVars

(* Payouts are on only after Threshold signers signed, also when approvals, *)
(* activation and pauses cross on what each of them read; and a worker is   *)
(* paid once, unless a pay request was overtaken by another for its job.   *)
PaymentsAreDue ==
    [][ /\ governance'.status = "active" => Cardinality(signed') >= Threshold
        /\ \A j \in Jobs : payments'[j] # payments[j] =>
              payments[j] = 0 \/ \E r \in Requests : Overtaken(r) /\ flight[r].job = j ]_scienceVars
===============================================================================
