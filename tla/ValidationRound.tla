---------------------------- MODULE ValidationRound ----------------------------
(***************************************************************************)
(* The competitive mining round of one coordinator node (app/services/     *)
(* mining.py): miners are given a task of the round that extends the tip,  *)
(* commit and reveal a result, validators vote on the validation job of    *)
(* the revealed task, and a quorum of approvals puts its block on the      *)
(* chain, or a quorum of rejections rejects it.                            *)
(*                                                                         *)
(* A round is the block it extends: the next height and the previous hash, *)
(* hence the range, the assignment seed and the result hash, are functions *)
(* of the tip.  Time is abstracted: any task may be past its deadline and  *)
(* any assignment of a job timed out when a handler looks.                 *)
(*                                                                         *)
(* A handler that writes first holds the write lock from there on and is   *)
(* one action.  submit_validation_result, receive_validation_vote_gossip   *)
(* and create_next_task read before their first write: they are a request  *)
(* in flight, with what it read, and a second action that commits it.      *)
(***************************************************************************)
EXTENDS Integers, FiniteSets, Sequences

CONSTANTS
    Miners,       \* miners that ask for tasks
    Tasks,        \* pairs of a miner and a number: the tasks it may be given
    Validators,   \* validators that vote on jobs
    Required,     \* required_validator_approvals of the protocol parameters
    Volatile,     \* validators that go offline and come back
    Unmineable,   \* tasks whose transaction snapshot no longer matches
    Direct,       \* miners that also submit in one step, without validators
    Foreign,      \* blocks other nodes produce, imported by consensus
    Genesis,      \* the tip before the first block
    MayCrash,     \* whether the process restarts
    MaxAsking,    \* bound: task requests between their reads and their insert
    MaxVoting     \* bound: vote requests between their reads and their insert

Miner(t) == t[1]

ASSUME RoundConstants ==
    /\ Required \in Nat \ {0}
    /\ IsFiniteSet(Validators)
    /\ Volatile \subseteq Validators
    /\ Unmineable \subseteq Tasks
    /\ Tasks \subseteq Miners \X Nat /\ IsFiniteSet(Tasks)
    /\ Direct \subseteq Miners
    /\ MayCrash \in BOOLEAN
    /\ MaxAsking \in Nat /\ MaxVoting \in Nat
    /\ Genesis \notin Tasks
    /\ Foreign \cap (Tasks \cup {Genesis}) = {}

VARIABLES
    row,       \* task -> its row in tasks, with its commitment and its validation job
    vote,      \* task -> validator -> the row in validation_votes
    paid,      \* task -> validators paid by the ledger entries of its block
    penalty,   \* task -> penalties its miner got from rejection quorums
    chain,     \* the canonical blocks, the genesis first
    arrived,   \* foreign blocks that have been imported once
    online,    \* validators _eligible_validator_rows returns
    asking,    \* create_next_task calls between their reads and their insert
    voting     \* vote requests between their reads and their insert

vars == <<row, vote, paid, penalty, chain, arrived, online, asking, voting>>

TaskStatus == {"none", "assigned", "committed", "revealed",
               "accepted", "rejected", "stale", "expired"}
Active == {"assigned", "committed", "revealed"}
JobStatus == {"none", "pending", "approved", "rejected", "expired"}
Decided == {"approved", "rejected", "expired"}
Blocks == Tasks \cup Foreign \cup {Genesis}
Rows == [status: TaskStatus, round: Blocks, committed: BOOLEAN,
         job: JobStatus, assigned: BOOLEAN, rank: Nat]
Ballots == [Validators -> {"none", "yes", "no"}]

Asks == [task: Tasks, round: Blocks, revives: BOOLEAN]
VoteRequests == [task: Tasks, validator: Validators, approved: BOOLEAN,
                 path: {"submit", "gossip", "retry", "own", "other", "missed"}, open: BOOLEAN]

Tip == chain[Len(chain)]
OnChain == {chain[i] : i \in 1..Len(chain)}

Approvers(ballot) == {v \in Validators : ballot[v] = "yes"}
Rejecters(ballot) == {v \in Validators : ballot[v] = "no"}
ApprovalQuorum(ballot) == Cardinality(Approvers(ballot)) >= Required
RejectionQuorum(ballot) == Cardinality(Rejecters(ballot)) >= Required

-----------------------------------------------------------------------------
(* The helpers that close tasks, as functions of a row.                    *)

Current(r) == r.round = Tip

MarkedStaleJob(r) ==       \* mutant: writes the status of the task into the job
    [r EXCEPT !.status = IF @ \in Active THEN "stale" ELSE @,
              !.job = IF @ = "pending" THEN "stale" ELSE @]

MarkedStale(r) ==
    [r EXCEPT !.status = IF @ \in Active THEN "stale" ELSE @,
              !.job = IF @ = "pending" THEN "rejected" ELSE @]

Released(r, timedOut) ==
    [r EXCEPT !.assigned = @ /\ ~(timedOut /\ r.job = "pending")]

ClosedTerminal(t, r) ==
    IF r.status = "revealed" /\ r.job \in Decided
    THEN [r EXCEPT !.status =
            IF r.job # "approved" THEN r.job
            ELSE IF t \in OnChain THEN "accepted" ELSE "expired"]
    ELSE r

ClosedObsolete(r) ==
    IF r.job = "pending" /\ r.status \in Active /\ ~Current(r)
    THEN MarkedStale(r) ELSE r

QuorumPathOfAnyVote(t, r) ==   \* mutant: does not ask who can still vote
    /\ r.job = "pending"
    /\ r.assigned \/ \E v \in Validators : vote[t][v] # "none"

HasQuorumPath(t, r) ==
    /\ r.job = "pending"
    /\ \/ ApprovalQuorum(vote[t])
       \/ RejectionQuorum(vote[t])
       \/ /\ r.assigned \/ \E v \in Validators : vote[t][v] # "none"
          /\ \E v \in online : vote[t][v] = "none"

PastDeadline(t, r, due) ==
    IF /\ due
       /\ \/ r.status \in {"assigned", "committed"}
          \/ r.status = "revealed" /\ ~HasQuorumPath(t, r)
    THEN [r EXCEPT !.status = "expired",
                   !.job = IF @ = "pending" THEN "expired" ELSE @]
    ELSE r

(* _expire_assigned_tasks: every handler below runs it before it reads.    *)
Swept(due, timedOut) ==
    [t \in Tasks |->
        PastDeadline(t, ClosedObsolete(ClosedTerminal(t, Released(row[t], t \in timedOut))),
                     t \in due)]

Assigned == {t \in Tasks : row[t].assigned}
Sweeps == {Swept(due, timedOut) :
             due \in SUBSET {t \in Tasks : row[t].status \in Active}, timedOut \in SUBSET Assigned}

RoundTasks(r, b) == {t \in Tasks : r[t].status # "none" /\ r[t].round = b}

(* A revealed candidate of round b, other than t, that waits for votes.    *)
PendingCandidate(r, b, t) ==
    \E u \in RoundTasks(r, b) \ {t} : r[u].status = "revealed" /\ r[u].job = "pending"

(* _reactivate_expired_competitive_task without an assignment: only a task *)
(* whose commitment is stored, for the round of the current tip.           *)
Resumable(x) == x.status = "expired" /\ x.job = "none" /\ x.committed /\ Current(x)
Revived(x) == [x EXCEPT !.status = IF x.committed THEN "committed" ELSE "assigned"]
Resumed(x) == IF Resumable(x) THEN Revived(x) ELSE x
-----------------------------------------------------------------------------
(* create_next_task.                                                       *)

Mine(m) == {t \in Tasks : Miner(t) = m}
ActiveOf(r, m) == {t \in Mine(m) : r[t].status \in Active}
ResumableOf(r, m) == {t \in Mine(m) : Resumable(r[t])}

(* The round waits for validation: nobody is given a new task of it.       *)
RoundWaits(r) ==
    \E t \in RoundTasks(r, Tip) : r[t].status = "revealed" /\ r[t].job \in {"pending", "approved"}

(* The task the miner gets: its first of the round, if that has expired    *)
(* without a job, or a new one, whose number is none it has in the round.  *)
FirstOf(r, m) == {t \in Mine(m) \cap RoundTasks(r, Tip) :
                    \A u \in Mine(m) \cap RoundTasks(r, Tip) : t[2] <= u[2]}
Unused(r, m) ==
    {t \in Mine(m) : /\ r[t].status = "none"
                     /\ \A u \in Mine(m) \cap RoundTasks(r, Tip) : u[2] < t[2]
                     /\ \A q \in asking : q.task = t => q.round = Tip}
Offers(r, m) ==
    LET expired == {t \in FirstOf(r, m) : r[t].status = "expired" /\ r[t].job = "none"}
    IN IF expired # {}
       THEN [task: expired, round: {Tip}, revives: {TRUE}]
       ELSE [task: Unused(r, m), round: {Tip}, revives: {FALSE}]

NewTask(b) == [status |-> "assigned", round |-> b, committed |-> FALSE,
               job |-> "none", assigned |-> FALSE, rank |-> 0]

(* An insert that finds the task there revives it, unless its round is won *)
(* or it has a job; an update that was decided before looks at the status. *)
Revivable(r, q) ==
    /\ r[q.task].status = "expired"
    /\ q.revives \/ (r[q.task].job = "none" /\ RoundTasks(r, q.round) \cap OnChain = {})
Given(r, q) ==
    IF r[q.task].status = "none" THEN [r EXCEPT ![q.task] = NewTask(q.round)]
    ELSE IF Revivable(r, q) THEN [r EXCEPT ![q.task] = Revived(@)]
    ELSE r

(* The active task of the miner, past its deadline or its round closed.    *)
ActiveClosed(x) ==
    {[x EXCEPT !.status = "expired"]} \cup (IF Current(x) THEN {} ELSE {MarkedStale(x)})

(* The whole call under the write lock, after a sweep or without one (it   *)
(* runs at most every EXPIRED_TASK_CLEANUP_MIN_INTERVAL_SECONDS).  Where   *)
(* the code raises, its transaction is rolled back: nothing changes.       *)
NextTask(m) ==
    /\ \E r \in {row} \cup Sweeps :
        \/ \E t \in ResumableOf(r, m) : row' = [r EXCEPT ![t] = Revived(@)]
        \/ /\ ResumableOf(r, m) = {}
           /\ \E t \in ActiveOf(r, m) :
                \/ Current(r[t]) /\ row' = r
                \/ \E x \in ActiveClosed(r[t]) :
                     LET closed == [r EXCEPT ![t] = x] IN
                     /\ ActiveOf(closed, m) = {}
                     /\ ~RoundWaits(closed)
                     /\ \E q \in Offers(closed, m) : row' = Given(closed, q)
        \/ /\ ResumableOf(r, m) = {} /\ ActiveOf(r, m) = {}
           /\ ~RoundWaits(r)
           /\ \E q \in Offers(r, m) : row' = Given(r, q)
    /\ UNCHANGED <<vote, paid, penalty, chain, arrived, online, asking, voting>>

(* The call without a sweep: its reads precede the write lock ...          *)
AskTask(m) ==
    /\ Cardinality(asking) < MaxAsking
    /\ ResumableOf(row, m) = {} /\ ActiveOf(row, m) = {}
    /\ ~RoundWaits(row)
    /\ \E q \in Offers(row, m) : asking' = asking \cup {q}
    /\ UNCHANGED <<row, vote, paid, penalty, chain, arrived, online, voting>>

(* ... and its insert, or its update of an expired task, comes later.      *)
GiveTask(q) ==
    /\ q \in asking
    /\ asking' = asking \ {q}
    /\ row' = Given(row, q)
    /\ UNCHANGED <<vote, paid, penalty, chain, arrived, online, voting>>
-----------------------------------------------------------------------------
(* commit_task and reveal_task.                                            *)

CommittedRow(x) ==
    IF x.status # "assigned" \/ x.committed THEN x
    ELSE IF Current(x) THEN [x EXCEPT !.status = "committed", !.committed = TRUE]
    ELSE MarkedStale(x)

CommitTask(t) ==
    /\ \E r \in Sweeps :
        /\ r[t].status # "none"
        /\ row' = [r EXCEPT ![t] = CommittedRow(Resumed(@))]
    /\ UNCHANGED <<vote, paid, penalty, chain, arrived, online, asking, voting>>

JobsCreated(r) == Cardinality({t \in Tasks : r[t].job # "none"})

RevealedRow(r, t) ==
    LET x == Resumed(r[t]) IN
    IF x.status # "committed" THEN x
    ELSE IF ~Current(x) THEN MarkedStale(x)
    ELSE IF PendingCandidate(r, x.round, t) \/ x.job # "none" THEN x
    ELSE [x EXCEPT !.status = "revealed", !.job = "pending", !.rank = JobsCreated(r)]

RevealTask(t) ==
    /\ \E r \in Sweeps :
        /\ r[t].committed
        /\ row' = [r EXCEPT ![t] = RevealedRow(r, t)]
    /\ UNCHANGED <<vote, paid, penalty, chain, arrived, online, asking, voting>>

(* A reveal whose signature does not verify.                               *)
RejectReveal(t) ==
    /\ \E r \in Sweeps :
        LET x == Resumed(r[t]) IN
        /\ r[t].committed /\ x.status = "committed" /\ Current(x)
        /\ ~PendingCandidate(r, x.round, t)
        /\ row' = [r EXCEPT ![t] = [x EXCEPT !.status = "rejected"]]
    /\ UNCHANGED <<vote, paid, penalty, chain, arrived, online, asking, voting>>

(* submit_task, the one-step submission: the node checks the whole segment *)
(* itself and mines the block without a job.                               *)
Submitted(r, t) ==
    [u \in Tasks |->
        IF u = t THEN [r[t] EXCEPT !.status = "accepted"]
        ELSE IF u \in RoundTasks(r, r[t].round) /\ r[u].status \in Active
        THEN MarkedStale(r[u]) ELSE r[u]]

SubmitTask(t) ==
    /\ Miner(t) \in Direct
    /\ \E r \in Sweeps :
        /\ r[t].status = "assigned"
        /\ \/ ~Current(r[t]) /\ row' = [r EXCEPT ![t] = MarkedStale(@)] /\ UNCHANGED chain
           \/ /\ Current(r[t])
              /\ \/ row' = [r EXCEPT ![t].status = "rejected"] /\ UNCHANGED chain
                 \/ row' = Submitted(r, t) /\ chain' = Append(chain, t)
    /\ UNCHANGED <<vote, paid, penalty, arrived, online, asking, voting>>

(* cleanup_expired_tasks, and every read endpoint that sweeps.             *)
CleanupExpiredTasks ==
    /\ row' \in Sweeps
    /\ UNCHANGED <<vote, paid, penalty, chain, arrived, online, asking, voting>>
-----------------------------------------------------------------------------
(* get_validation_job.                                                     *)

Promoted(x) ==
    IF x.job \in {"pending", "approved"} /\ x.status \in {"assigned", "committed", "expired"}
    THEN [x EXCEPT !.status = "revealed"] ELSE x

Candidates(r, v) ==
    LET open == {t \in Tasks : r[t].job = "pending" /\ r[t].status = "revealed"}
    IN {t \in open : /\ vote[t][v] = "none"
                     /\ \A u \in open : r[u].round = r[t].round => r[u].rank >= r[t].rank}

GetValidationJob(v) ==
    /\ v \in online
    /\ \E timedOut \in SUBSET Assigned :
        LET r == [t \in Tasks |-> Promoted(Released(row[t], t \in timedOut))] IN
        IF Candidates(r, v) = {} THEN row' = r
        ELSE \E t \in Candidates(r, v) : row' = [r EXCEPT ![t].assigned = TRUE]
    /\ UNCHANGED <<vote, paid, penalty, chain, arrived, online, asking, voting>>
-----------------------------------------------------------------------------
(* submit_validation_result and receive_validation_vote_gossip.            *)

(* What a vote request reads before its insert takes the write lock.  The  *)
(* API answers at once when the job is closed; gossip remembers it.        *)
VoteCheck(t, v, approved, path) ==
    /\ Cardinality(voting) < MaxVoting
    /\ row[t].job # "none"
    /\ path = "submit" => row[t].job = "pending"
    /\ path \in {"submit", "gossip"} => vote[t][v] = "none"
    /\ path = "retry" => vote[t][v] # "none" /\ row[t].job = "pending" /\ approved
    /\ voting' = voting \cup {[task |-> t, validator |-> v, approved |-> approved,
                               path |-> path, open |-> row[t].job = "pending"]}
    /\ UNCHANGED <<row, vote, paid, penalty, chain, arrived, online, asking>>

(* A block of the round is on the chain: the same result hash or task id.  *)
Duplicate(t) == row[t].round \in OnChain \ {Tip}

RejectedRow(x) == [x EXCEPT !.status = "rejected", !.job = "rejected"]

(* _accept_block_in_connection and _close_competitive_round_after_block.   *)
RoundWon(r, t) ==
    [u \in Tasks |->
        IF u = t THEN [r[t] EXCEPT !.status = "accepted", !.job = "approved"]
        ELSE IF u \in RoundTasks(r, r[t].round) /\ r[u].status \in Active
        THEN MarkedStale(r[u]) ELSE r[u]]

AcceptBlockAnywhere(t, ballot) ==   \* mutant: the parent need not be the tip
    /\ t \notin Unmineable
    /\ row' = RoundWon(row, t)
    /\ chain' = Append(chain, t)
    /\ paid' = [paid EXCEPT ![t] = Approvers(ballot)]

AcceptBlock(t, ballot) ==
    /\ Current(row[t]) /\ t \notin Unmineable
    /\ row' = RoundWon(row, t)
    /\ chain' = Append(chain, t)
    /\ paid' = [paid EXCEPT ![t] = Approvers(ballot)]

(* The snapshot no longer matches: the savepoint is rolled back and the    *)
(* task rejected; the API keeps a stale task stale.                        *)
AcceptFails(t, path) ==
    /\ Current(row[t]) /\ t \in Unmineable
    /\ row' = [row EXCEPT ![t] = IF path = "submit" /\ @.status = "stale"
                                 THEN [@ EXCEPT !.job = "rejected"]
                                 ELSE RejectedRow(@)]
    /\ UNCHANGED <<chain, paid>>

(* The parent is not the tip: the job is left as it is, with its votes.    *)
AcceptDeferred(t) == ~Current(row[t]) /\ UNCHANGED <<row, chain, paid>>

(* A block with the task id is there, unseen by the duplicate check.       *)
AcceptExisting(t) ==
    /\ t \in OnChain
    /\ row' = [row EXCEPT ![t].job = "approved"]
    /\ UNCHANGED <<chain, paid>>

Accept(t, ballot, path) ==
    \/ AcceptExisting(t)
    \/ /\ t \notin OnChain
       /\ AcceptBlock(t, ballot) \/ AcceptFails(t, path) \/ AcceptDeferred(t)

AcceptedRow(x) == [x EXCEPT !.status = "accepted", !.job = "approved"]

(* The block is there already: the API rejects the task whatever the block *)
(* is, gossip recognises the task's own.                                   *)
DuplicateRow(t, path) ==
    IF path # "submit" /\ t \in OnChain THEN AcceptedRow(row[t]) ELSE RejectedRow(row[t])

FinalizeApproved(t, ballot, path) ==
    /\ IF Duplicate(t)
       THEN row' = [row EXCEPT ![t] = DuplicateRow(t, path)] /\ UNCHANGED <<chain, paid>>
       ELSE Accept(t, ballot, path)
    /\ UNCHANGED penalty

FinalizeRejected(t) ==
    /\ row' = [row EXCEPT ![t] = RejectedRow(@)]
    /\ penalty' = [penalty EXCEPT ![t] = @ + 1]
    /\ UNCHANGED <<chain, paid>>

Recorded(q) == [vote[q.task] EXCEPT ![q.validator] = IF q.approved THEN "yes" ELSE "no"]

(* The first vote of the validator: it is counted, and the quorum acted on *)
(* if the request read a pending job.                                      *)
VoteInserted(q) ==
    LET ballot == Recorded(q) IN
    /\ q.path \in {"submit", "gossip"} /\ vote[q.task][q.validator] = "none"
    /\ vote' = [vote EXCEPT ![q.task] = ballot]
    /\ IF q.open /\ q.approved /\ ApprovalQuorum(ballot)
       THEN FinalizeApproved(q.task, ballot, q.path)
       ELSE IF q.open /\ ~q.approved /\ RejectionQuorum(ballot)
       THEN FinalizeRejected(q.task)
       ELSE UNCHANGED <<row, chain, paid, penalty>>

(* The vote came in twice: the API looks at the quorum under the lock,     *)
(* gossip fails on the constraint and is rolled back.                      *)
VoteRepeated(q) ==
    /\ q.path \in {"submit", "gossip"} /\ vote[q.task][q.validator] # "none"
    /\ UNCHANGED vote
    /\ IF q.path = "submit" /\ ApprovalQuorum(vote[q.task])
       THEN FinalizeApproved(q.task, vote[q.task], "gossip")
       ELSE UNCHANGED <<row, chain, paid, penalty>>

(* A vote that was there before: the quorum and the block of the round are *)
(* read before the first write ...                                         *)
RetryReads(q) ==
    /\ q.path = "retry"
    /\ voting' = (voting \ {q}) \cup
         IF ~ApprovalQuorum(vote[q.task]) THEN {}
         ELSE {[q EXCEPT !.path = IF ~Duplicate(q.task) THEN "missed"
                                  ELSE IF q.task \in OnChain THEN "own" ELSE "other"]}
    /\ UNCHANGED <<row, vote, chain, paid, penalty>>

(* ... and acted on after.                                                 *)
RetryWrites(q) ==
    /\ \/ q.path = "own" /\ row' = [row EXCEPT ![q.task] = AcceptedRow(@)] /\ UNCHANGED <<chain, paid>>
       \/ q.path = "other" /\ row' = [row EXCEPT ![q.task] = RejectedRow(@)] /\ UNCHANGED <<chain, paid>>
       \/ q.path = "missed" /\ Accept(q.task, vote[q.task], "gossip")
    /\ UNCHANGED <<vote, penalty>>

VoteCommit(q) ==
    /\ q \in voting
    /\ \/ RetryReads(q)
       \/ voting' = voting \ {q} /\ (VoteInserted(q) \/ VoteRepeated(q) \/ RetryWrites(q))
    /\ UNCHANGED <<arrived, online, asking>>
-----------------------------------------------------------------------------
(* The rest of the node.                                                   *)

(* Consensus imports a block of another node; it leaves the tasks alone.   *)
ImportForeign(b) ==
    /\ b \notin arrived
    /\ arrived' = arrived \cup {b}
    /\ chain' = Append(chain, b)
    /\ UNCHANGED <<row, vote, paid, penalty, online, asking, voting>>

OrphanedRow(x) ==
    [x EXCEPT !.status = "stale", !.job = IF @ = "pending" THEN "rejected" ELSE @]

ReorgKeepsPay(b, c) ==   \* mutant: leaves the ledger entries of the height
    /\ Len(chain) > 1 /\ b # c /\ {b, c} \cap arrived = {}
    /\ arrived' = arrived \cup {b, c}
    /\ chain' = SubSeq(chain, 1, Len(chain) - 1) \o <<b, c>>
    /\ row' = [t \in Tasks |-> IF t = Tip THEN OrphanedRow(row[t]) ELSE row[t]]
    /\ UNCHANGED <<paid, vote, penalty, online, asking, voting>>

ReorgKeepsTask(b, c) ==   \* mutant: leaves the task of the tip as it is
    /\ Len(chain) > 1 /\ b # c /\ {b, c} \cap arrived = {}
    /\ arrived' = arrived \cup {b, c}
    /\ chain' = SubSeq(chain, 1, Len(chain) - 1) \o <<b, c>>
    /\ paid' = [t \in Tasks |-> IF t = Tip THEN {} ELSE paid[t]]
    /\ UNCHANGED <<row, vote, penalty, online, asking, voting>>

(* _apply_selected_orphan_reorg: the tip gives way to a sibling and its    *)
(* child, the ledger entries of its height are deleted.                    *)
ReorgTip(b, c) ==
    /\ Len(chain) > 1 /\ b # c /\ {b, c} \cap arrived = {}
    /\ arrived' = arrived \cup {b, c}
    /\ chain' = SubSeq(chain, 1, Len(chain) - 1) \o <<b, c>>
    /\ row' = [t \in Tasks |-> IF t = Tip THEN OrphanedRow(row[t]) ELSE row[t]]
    /\ paid' = [t \in Tasks |-> IF t = Tip THEN {} ELSE paid[t]]
    /\ UNCHANGED <<vote, penalty, online, asking, voting>>

ValidatorToggles(v) ==
    /\ v \in Volatile
    /\ online' = IF v \in online THEN online \ {v} ELSE online \cup {v}
    /\ UNCHANGED <<row, vote, paid, penalty, chain, arrived, asking, voting>>

(* The process stops: what was committed stays, the requests are lost.     *)
Restart ==
    /\ MayCrash
    /\ asking' = {} /\ voting' = {}
    /\ UNCHANGED <<row, vote, paid, penalty, chain, arrived, online>>

Init ==
    /\ row = [t \in Tasks |-> [NewTask(Genesis) EXCEPT !.status = "none"]]
    /\ vote = [t \in Tasks |-> [v \in Validators |-> "none"]]
    /\ paid = [t \in Tasks |-> {}]
    /\ penalty = [t \in Tasks |-> 0]
    /\ chain = <<Genesis>>
    /\ arrived = {}
    /\ online = Validators
    /\ asking = {} /\ voting = {}

Vote(t, v) == \E approved \in BOOLEAN, path \in {"submit", "gossip", "retry"} :
                    VoteCheck(t, v, approved, path)

RoundStep ==
    \/ \E m \in Miners : NextTask(m) \/ AskTask(m)
    \/ \E q \in asking : GiveTask(q)
    \/ \E t \in Tasks : CommitTask(t) \/ RevealTask(t) \/ RejectReveal(t) \/ SubmitTask(t)
    \/ CleanupExpiredTasks
    \/ \E v \in Validators : GetValidationJob(v) \/ ValidatorToggles(v)
    \/ \E t \in Tasks, v \in Validators : Vote(t, v)
    \/ \E q \in voting : VoteCommit(q)
    \/ \E b \in Foreign : ImportForeign(b)
    \/ \E b, c \in Foreign : ReorgTip(b, c)

Next == RoundStep \/ Restart

Spec == Init /\ [][Next]_vars
-----------------------------------------------------------------------------
(* Properties.                                                             *)

(* Every row, vote and request holds a value the handlers know.            *)
TypeOK ==
    /\ row \in [Tasks -> Rows]
    /\ vote \in [Tasks -> Ballots]
    /\ paid \in [Tasks -> SUBSET Validators]
    /\ penalty \in [Tasks -> Nat]
    /\ chain \in Seq(Blocks) /\ Len(chain) > 0
    /\ arrived \subseteq Foreign
    /\ online \subseteq Validators
    /\ asking \subseteq Asks
    /\ voting \subseteq VoteRequests

(* A task is accepted only while its block is on the chain, whatever late  *)
(* votes, sweeps and reorgs interleave with it: only a repeated vote that  *)
(* had found the block before a reorg took it away can accept it after.    *)
AcceptedOffChain(t) == row[t].status = "accepted" /\ t \notin OnChain
AcceptanceIsAnchored ==
    [][\A t \in Tasks : AcceptedOffChain(t)' /\ ~AcceptedOffChain(t) =>
            \E q \in voting : q.task = t /\ q.path = "own"]_vars

(* A block mined here extends the block its round was opened on: a vote    *)
(* that completes the quorum after a reorg never puts it elsewhere.        *)
BlocksExtendTheirRound ==
    \A i \in 2..Len(chain) : chain[i] \in Tasks => row[chain[i]].round = chain[i - 1]

(* Every validation job is decided in the end: by its votes, by its        *)
(* deadline or because its round closed.                                   *)
CandidateDecided == \A t \in Tasks : row[t].job = "pending" ~> row[t].job # "pending"

(* What the gossip path keeps and the API path does not: a late vote       *)
(* leaves the task of a block accepted.                                    *)
BlockTaskStaysAccepted == \A t \in Tasks : t \in OnChain => row[t].status = "accepted"
-----------------------------------------------------------------------------
(* Fairness: every validator polls and votes on the jobs it can, the bound *)
(* on requests in flight, which is the model's, does not keep a vote out,  *)
(* and the cleanup does not miss for ever a task that is past its deadline *)
(* again and again (the call that would bring it back runs the cleanup     *)
(* itself, once per interval).                                             *)

Submits(t, v) == \E approved \in BOOLEAN : VoteCheck(t, v, approved, "submit")
CleanupCloses(t) ==
    /\ row' = Swept(Tasks, Tasks) /\ row'[t] # row[t]
    /\ UNCHANGED <<vote, paid, penalty, chain, arrived, online, asking, voting>>

FairSpec ==
    /\ Spec
    /\ \A t \in Tasks : SF_vars(CleanupCloses(t))
    /\ \A v \in Validators : WF_vars(GetValidationJob(v))
    /\ \A t \in Tasks, v \in Validators : SF_vars(Submits(t, v))
    /\ WF_vars(\E q \in voting : VoteCommit(q))
=============================================================================
