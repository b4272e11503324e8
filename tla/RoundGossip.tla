------------------------------ MODULE RoundGossip ------------------------------
(***************************************************************************)
(* The mining round of a node that also hears of tasks, validation jobs    *)
(* and blocks from its peers (receive_task_gossip and                      *)
(* receive_validation_job_gossip of mining.py, the import of consensus.py; *)
(* votes that arrive by gossip are in ValidationRound).                    *)
(*                                                                         *)
(* A peer is any node that runs the same program: what it says of a task   *)
(* may be old, repeated, overtaken by later messages, or untrue here. A    *)
(* message about a row that exists is compared with the row before the     *)
(* first write takes the lock, and written after; one that inserts the     *)
(* row is one step.  The id of a job is drawn where the task is revealed:  *)
(* a second job of a task, whose id is another, is refused as a whole.     *)
(***************************************************************************)
EXTENDS ValidationRound

CONSTANTS
    MaxMessages,    \* bound: messages from peers
    MaxRequests     \* bound: messages so far and requests in flight

ASSUME GossipConstants == MaxMessages \in Nat /\ MaxRequests \in Nat

VARIABLES
    hearing,    \* messages between their reads and their writes
    imported,   \* tasks whose block came from a peer, with its certificate
    messages    \* messages so far

gossipVars == <<vars, hearing, imported, messages>>

Arrives == messages < MaxMessages /\ messages' = messages + 1

(* What a message will write: the status of the task, a commitment, a job; *)
(* settled says whether it read a task that was already accepted.          *)
Silence == [status |-> "none", commits |-> FALSE, job |-> "none"]

StatusRank(status) ==
    CASE status = "assigned" -> 10
      [] status = "committed" -> 20
      [] status = "revealed" -> 30
      [] status \in {"expired", "rejected", "stale"} -> 40
      [] status = "accepted" -> 50

(* A peer's task and whether its commitment comes with it.                 *)
Heard == {h \in [status: TaskStatus \ {"none"}, committed: BOOLEAN] :
            /\ h.status = "assigned" => ~h.committed
            /\ h.status \in {"committed", "revealed"} => h.committed}

-----------------------------------------------------------------------------
(* A task or a job this node has no row for.  The id of a task is a        *)
(* function of its round, which the peer may know before this node.  A     *)
(* message of a job brings the task without its commitment.                *)

HeardRounds(t) ==
    {b \in OnChain \cup Foreign : \A q \in asking : q.task = t => q.round = b}

HearUnknown(t) ==
    /\ Arrives
    /\ row[t].status = "none"
    /\ \E h \in Heard, b \in HeardRounds(t), job \in JobStatus :
          /\ job # "none" => h.committed
          /\ row' = [row EXCEPT ![t] =
                [NewTask(b) EXCEPT !.status = h.status, !.job = job, !.rank = JobsCreated(row),
                                   !.committed = h.committed /\ job = "none"]]
    /\ UNCHANGED <<vote, paid, penalty, chain, arrived, online, asking, voting, hearing, imported>>

-----------------------------------------------------------------------------
(* A task this node knows. *)

Listens(t, written) ==
    /\ Arrives
    /\ written # Silence
    /\ hearing' = hearing \cup
         {[task |-> t, settled |-> row[t].status = "accepted", written |-> written]}
    /\ UNCHANGED <<row, vote, paid, penalty, chain, arrived, online, asking, voting, imported>>

OutranksAlways(status, seen) == TRUE   \* mutant: the status of the message is taken

(* _TASK_GOSSIP_STATUS_RANK: equals overwrite each other.                  *)
Outranks(status, seen) == StatusRank(status) >= StatusRank(seen)

HearTask(t) ==
    /\ row[t].status # "none"
    /\ \E h \in Heard :
          Listens(t, [Silence EXCEPT !.status = IF Outranks(h.status, row[t].status) THEN h.status ELSE @,
                                     !.commits = h.committed /\ ~row[t].committed])

(* The task of a pending job is brought back; a job this node has is left. *)
HearJob(t) ==
    /\ row[t].status # "none"
    /\ \E job \in JobStatus \ {"none"} :
          LET known == row[t].job # "none"
              open  == (IF known THEN row[t].job ELSE job) = "pending"
          IN Listens(t, [Silence EXCEPT
                !.status = IF open /\ row[t].status \in {"assigned", "committed", "expired"}
                           THEN "revealed" ELSE @,
                !.job = IF known THEN @ ELSE job])

(* An INSERT of what came in between is refused, and all is rolled back.   *)
HearCommit(q) ==
    LET w == q.written
        x == row[q.task]
        refused == (w.commits /\ x.committed) \/ (w.job # "none" /\ x.job # "none")
    IN /\ q \in hearing
       /\ hearing' = hearing \ {q}
       /\ row' = IF refused THEN row
                 ELSE [row EXCEPT ![q.task] =
                        [x EXCEPT !.status = IF w.status = "none" THEN @ ELSE w.status,
                                  !.committed = @ \/ w.commits,
                                  !.job = IF w.job = "none" THEN @ ELSE w.job,
                                  !.rank = IF w.job = "none" THEN @ ELSE JobsCreated(row)]]
       /\ UNCHANGED <<vote, paid, penalty, chain, arrived, online, asking, voting, imported, messages>>

-----------------------------------------------------------------------------
(* The block a peer made, by a quorum, of a task this node knows: the      *)
(* import pays the validators the payload names and leaves the row of the  *)
(* task; the certificate brings the job, if this node has none.  At most   *)
(* once for a task: a bound.                                               *)
ImportPeerBlock(t) ==
    /\ row[t].status # "none" /\ Current(row[t])
    /\ t \notin OnChain
    /\ t \notin imported /\ imported' = imported \cup {t}
    /\ chain' = Append(chain, t)
    /\ \E named \in SUBSET Validators :
          /\ Cardinality(named) = Required
          /\ paid' = [paid EXCEPT ![t] = named]
    /\ row' = [row EXCEPT ![t].job = IF @ = "none" THEN "approved" ELSE @,
                          ![t].rank = IF row[t].job = "none" THEN JobsCreated(row) ELSE @]
    /\ UNCHANGED <<vote, penalty, arrived, online, asking, voting, hearing, messages>>

GossipInit == Init /\ hearing = {} /\ imported = {} /\ messages = 0

GossipStep ==
    \/ RoundStep /\ UNCHANGED <<hearing, imported, messages>>
    \/ Restart /\ hearing' = {} /\ UNCHANGED <<imported, messages>>
    \/ \E t \in Tasks : HearUnknown(t) \/ HearTask(t) \/ HearJob(t) \/ ImportPeerBlock(t)
    \/ \E q \in hearing : HearCommit(q)

GossipNext ==
    GossipStep /\ messages' + Cardinality(voting') + Cardinality(asking') <= MaxRequests

GossipSpec == GossipInit /\ [][GossipNext]_gossipVars
-----------------------------------------------------------------------------
(* Properties.                                                             *)

(* The ledger pays the validators of a block exactly while the block is on *)
(* the chain, where it is once: a reorg takes the payment back, a late     *)
(* vote never pays again, whether the block was mined here, by a quorum of *)
(* those that approved its job, or came from a peer before or after the    *)
(* votes did.                                                              *)
RewardsFollowBlocks ==
    \A t \in Tasks :
        /\ t \notin imported => paid[t] \subseteq Approvers(vote[t])
        /\ t \in OnChain => Miner(t) \in Direct \/ Cardinality(paid[t]) >= Required
        /\ t \notin OnChain => paid[t] = {}
        /\ Cardinality({i \in 1..Len(chain) : chain[i] = t}) <= 1

(* The job of a task is decided once, and an accepted task stays accepted  *)
(* while its block is there, whatever the peers say of it (the ranks of    *)
(* receive_task_gossip): only a request that read the job while it was     *)
(* pending, or the task before it was accepted, and commits after, can     *)
(* undo a decision.                                                        *)
LateVote(t) == \E q \in voting : q.task = t /\ q.open
LateGossip(t) == \E q \in hearing : q.task = t /\ ~q.settled /\ q \notin hearing'
DecisionsAreFinal ==
    [][\A t \in Tasks : ~LateVote(t) =>
        /\ row[t].job \in Decided => row'[t].job = row[t].job
        /\ row[t].status = "accepted" /\ t \in OnChain' /\ ~LateGossip(t)
             => row'[t].status = "accepted"]_gossipVars
=============================================================================
