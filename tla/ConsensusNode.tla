----------------------------- MODULE ConsensusNode -----------------------------
(***************************************************************************)
(* Distributed consensus on one PICOIN node: the proposals, votes, queued  *)
(* headers and canonical chain kept by app/services/consensus.py and       *)
(* app/services/network.py, under requests that run concurrently.          *)
(*                                                                         *)
(* A request handler reads the database outside any lock and takes the     *)
(* process-wide write lock with its first write statement, so a handler is *)
(* two actions: a Check that reads and leaves a request in inflight, and a *)
(* Commit that writes.  What a Commit reads after its first write is read  *)
(* in the Commit.  A replay batch is one transaction and is modelled row   *)
(* by row; no other request commits while it runs, and a read made during  *)
(* the batch sees the state before it, so no Check is taken either.        *)
(***************************************************************************)
EXTENDS Integers, Sequences, FiniteSets, SequencesExt, ForkChoice

CONSTANTS
    Blocks,         \* block hashes that may ever reach this node
    Validators,     \* registered validators
    Genesis,        \* GENESIS_HASH, the parent of the blocks at height 1
    Parent,         \* previous_hash of every block
    Height,         \* height of every block
    Certified,      \* blocks whose payload carries a finality certificate with quorum
    Unreplayable,   \* blocks whose replay is a divergence (state_root mismatch)
    Refused,        \* blocks whose import is refused (result_hash of an ancestor,
                    \* transactions, finality certificate)
    Pinned,         \* blocks a reorg refuses to undo or apply (audit height, ledger types)
    Qualified,      \* validators with enough stake and trust to count for quorum
    Weight,         \* trust and stake weight of every validator
    Required,       \* REQUIRED_VALIDATOR_APPROVALS
    ReplayLimit,    \* REPLAY_BATCH_SIZE
    StallFailures   \* REPLAY_STALL_FAILURES

(* Bounds on the environment: what may happen in a run, not what the code is. *)
CONSTANTS
    Proposed,       \* blocks somebody proposes to this node
    Announced,      \* blocks received as headers during block sync
    Mined,          \* blocks the local validation round may produce
    Volatile,       \* validators that go offline and come back
    MaxInflight,    \* requests between their Check and their Commit
    MayCrash        \* whether the process may be restarted

ASSUME BlocksAssumption ==
    /\ IsFiniteSet(Blocks)
    /\ Genesis \notin Blocks
    /\ Parent \in [Blocks -> Blocks \cup {Genesis}]
    /\ Height \in [Blocks -> Nat \ {0}]
    /\ \A b \in Blocks :
         Height[b] = IF Parent[b] = Genesis THEN 1 ELSE Height[Parent[b]] + 1
    /\ Certified \subseteq Blocks
    /\ Unreplayable \subseteq Blocks
    /\ Refused \subseteq Blocks
    /\ Pinned \subseteq Blocks

ASSUME QuorumAssumption ==
    /\ IsFiniteSet(Validators)
    /\ Qualified \subseteq Validators
    /\ Weight \in [Validators -> Nat]
    /\ Required \in Nat \ {0}
    /\ ReplayLimit \in Nat \ {0}
    /\ StallFailures \in Nat \ {0}

ASSUME EnvironmentAssumption ==
    /\ Proposed \subseteq Blocks
    /\ Announced \subseteq Blocks
    /\ Mined \subseteq Blocks
    /\ Volatile \subseteq Validators
    /\ MaxInflight \in Nat
    /\ MayCrash \in BOOLEAN

VARIABLES
    chain,       \* table blocks: the block at every height
    proposals,   \* consensus_block_proposals.status
    created,     \* consensus_block_proposals.created_at, as an arrival rank
    votes,       \* consensus_votes
    headers,     \* network_block_headers.status
    active,      \* validators vote_on_proposal accepts: enabled, online, in sync
    inflight,    \* requests that have checked and not yet written
    replay,      \* the batch under _REPLAY_LOCK
    health       \* _REPLAY_HEALTH

vars == << chain, proposals, created, votes, headers, active, inflight, replay, health >>

ProposalStatus == { "none", "pending", "pending_missing_ancestors", "known",
                    "finalized", "imported", "rejected" }
HeaderStatus == { "none", "pending_replay", "pending_missing_ancestors", "known", "imported" }
QueuedHeader == { "pending_replay", "pending_missing_ancestors" }
Final == { "finalized", "imported" }
Vote == { "none", "approve", "reject" }

ProposeRequest == [kind : {"propose"}, block : Blocks,
                   status : { "pending", "pending_missing_ancestors", "known" }]
SyncRequest     == [kind : {"sync"}, block : Blocks]
VoteRequest     == [kind : {"vote"}, block : Blocks, validator : Validators,
                    vote : { "approve", "reject" }]
FinalizeRequest == [kind : {"finalize"}, block : Blocks, exists : BOOLEAN]
HeaderRequest   == [kind : {"header"}, block : Blocks, status : HeaderStatus \ {"none"}]
Request == ProposeRequest \cup SyncRequest \cup VoteRequest \cup FinalizeRequest
             \cup HeaderRequest

Batch(phase, todo, progress, divergent) ==
    [phase |-> phase, todo |-> todo, progress |-> progress, divergent |-> divergent]
ReplayIdle == Batch("idle", {}, FALSE, FALSE)

Liveness(status, failures) == [status |-> status, failures |-> failures]
Healthy == Liveness("healthy", 0)

TypeOK ==
    /\ chain \in Seq(Blocks)
    /\ proposals \in [Blocks -> ProposalStatus]
    /\ created \in [Blocks -> Nat]
    /\ votes \in [Blocks -> [Validators -> Vote]]
    /\ headers \in [Blocks -> HeaderStatus]
    /\ active \subseteq Validators
    /\ inflight \subseteq Request
    /\ replay \in [phase : { "idle", "rows", "record" }, todo : SUBSET Blocks,
                   progress : BOOLEAN, divergent : BOOLEAN]
    /\ health \in [status : { "healthy", "catching_up", "stalled", "divergent" },
                   failures : 0 .. StallFailures]

Init ==
    /\ chain = << >>
    /\ proposals = [b \in Blocks |-> "none"]
    /\ created = [b \in Blocks |-> 0]
    /\ votes = [b \in Blocks |-> [v \in Validators |-> "none"]]
    /\ headers = [b \in Blocks |-> "none"]
    /\ active = Validators
    /\ inflight = {}
    /\ replay = ReplayIdle
    /\ health = Healthy

-------------------------------------------------------------------------------
(* The chain.                                                              *)

(* The hash of the block at height h of chain c, _latest_tip at h = Len(c). *)
HashAt(c, h) == IF h = 0 THEN Genesis ELSE c[h]

OnChain(c, b) == Height[b] \in DOMAIN c /\ c[Height[b]] = b

Extends(c, b) == Height[b] = Len(c) + 1 /\ Parent[b] = HashAt(c, Len(c))

(* _promote_ready_missing_ancestor_proposals: the parent of b is on chain c. *)
ParentOnChain(c, b) ==
    /\ Height[b] - 1 \in 0 .. Len(c)
    /\ HashAt(c, Height[b] - 1) = Parent[b]

(* _import_finalized_block: what it finds for block b and chain c.          *)
Conflicts(c, b)        == Height[b] <= Len(c) /\ c[Height[b]] # b
MissingAncestors(c, b) == Height[b] > Len(c) /\ ~Extends(c, b)
Refuses(c, b)          == Extends(c, b) /\ b \in Refused
Diverges(c, b)         == Extends(c, b) /\ b \in Unreplayable \ Refused
Replayable(b)          == b \notin Unreplayable \cup Refused
Importable(c, b)       == Extends(c, b) /\ Replayable(b)

(* One of these ends every import that neither appends b nor finds it; only *)
(* the last has one of the _DIVERGENCE_MARKERS.                             *)
ImportFails(c, b) == Conflicts(c, b) \/ MissingAncestors(c, b) \/ Refuses(c, b) \/ Diverges(c, b)

Promoted(p, c) ==
    [b \in Blocks |-> IF p[b] = "pending_missing_ancestors" /\ ParentOnChain(c, b)
                      THEN "pending" ELSE p[b]]

Inserted(b) ==
    IF created[b] # 0 THEN created
    ELSE [created EXCEPT ![b] = Cardinality({ x \in Blocks : created[x] # 0 }) + 1]

-------------------------------------------------------------------------------
(* Votes and quorum.                                                       *)

Approvers(vs, b) == { v \in Validators : vs[b][v] = "approve" }
Rejecters(vs, b) == { v \in Validators : vs[b][v] = "reject" }

(* _required_validator_approvals_for_quorum: the quorum shrinks with the    *)
(* number of eligible validators, but not to zero.                          *)
RequiredApprovals ==
    LET eligible == Cardinality(active \cap Qualified)
    IN  IF eligible > 0 /\ eligible < Required THEN eligible ELSE Required

SameFork(b, d) == Height[b] = Height[d] /\ Parent[b] = Parent[d]

TotalWeight(S) == MapThenSumSet(LAMBDA v : Weight[v], S)

Scored(vs, b) ==
    [ block            |-> b,
      status           |-> proposals[b],
      approval_weight  |-> TotalWeight(Approvers(vs, b)),
      rejection_weight |-> TotalWeight(Rejecters(vs, b)),
      approvals        |-> Cardinality(Approvers(vs, b)),
      rejections       |-> Cardinality(Rejecters(vs, b)),
      created_at       |-> created[b] ]

(* The rows select_fork_choice reads for the fork b belongs to. *)
Candidates(b) ==
    { d \in Blocks : /\ SameFork(b, d)
                     /\ proposals[d] \notin { "none", "rejected" }
                     /\ Height[d] <= Len(chain) => chain[Height[d]] = d }

(* select_fork_choice returns the winner, or None when no row is left. *)
WinsFork(vs, b) ==
    LET candidates == { Scored(vs, d) : d \in Candidates(b) }
    IN  candidates = {} \/ Scored(vs, b) \in Winners(candidates)

-------------------------------------------------------------------------------
(* Requests.                                                               *)

(* Only one transaction writes at a time: a replay batch holds the lock. *)
Unlocked == replay.phase # "rows"

Open(request) ==
    /\ Unlocked
    /\ Cardinality(inflight) < MaxInflight
    /\ inflight' = inflight \cup {request}
    /\ UNCHANGED << chain, proposals, created, votes, headers, active, replay, health >>

Close(request) ==
    /\ Unlocked
    /\ request \in inflight
    /\ inflight' = inflight \ {request}
    /\ UNCHANGED << active, replay, health >>

-------------------------------------------------------------------------------
(* propose_block.                                                          *)

ProposeCheck(b) ==
    /\ b \in Proposed
    /\ \/ /\ OnChain(chain, b)
          /\ Open([kind |-> "propose", block |-> b, status |-> "known"])
       \/ /\ Extends(chain, b)
          /\ Open([kind |-> "propose", block |-> b, status |-> "pending"])
       \/ /\ MissingAncestors(chain, b)
          /\ Open([kind |-> "propose", block |-> b,
                   status |-> "pending_missing_ancestors"])

(* Mutated: only a finalized or imported row keeps its status. *)
ProposeCommitReopens(b) ==
    \E r \in ProposeRequest \cap inflight :
        /\ r.block = b
        /\ Unlocked
        /\ proposals' = [proposals EXCEPT ![b] = IF @ \in Final THEN @ ELSE r.status]
        /\ created' = Inserted(b)
        /\ inflight' = inflight \ {r}
        /\ UNCHANGED << chain, votes, headers, active, replay, health >>

ProposeCommit(b) ==
    \E r \in ProposeRequest \cap inflight :
        /\ r.block = b
        /\ Unlocked
        /\ proposals' = [proposals EXCEPT ![b] =
                           IF @ \in Final \cup {"rejected"} THEN @ ELSE r.status]
        /\ created' = Inserted(b)
        /\ inflight' = IF r.status = "pending_missing_ancestors"
                       THEN (inflight \ {r}) \cup {[kind |-> "sync", block |-> b]}
                       ELSE inflight \ {r}
        /\ UNCHANGED << chain, votes, headers, active, replay, health >>

(* After _sync_missing_ancestors_for_proposer, whatever it fetched. *)
PromoteAfterSync(b) ==
    /\ Close([kind |-> "sync", block |-> b])
    /\ proposals' = Promoted(proposals, chain)
    /\ UNCHANGED << chain, created, votes, headers >>

-------------------------------------------------------------------------------
(* vote_on_proposal.                                                       *)

VotedOnCompetitor(v, b) ==
    \E d \in Blocks \ {b} : /\ SameFork(b, d)
                            /\ votes[d][v] # "none"
                            /\ proposals[d] # "rejected"

VoteCheck(v, b, vote) ==
    /\ proposals[b] \notin Final \cup { "none", "rejected" }
    /\ v \in active
    /\ votes[b][v] = "none"
    /\ ~VotedOnCompetitor(v, b)
    /\ Open([kind |-> "vote", block |-> b, validator |-> v, vote |-> vote])

(* The votes once r is inserted. *)
VotesWith(r) == [votes EXCEPT ![r.block][r.validator] = r.vote]

(* Mutated: one approval short of the quorum is enough. *)
ApprovalQuorumOffByOne(vs, b) == Cardinality(Approvers(vs, b)) + 1 >= RequiredApprovals

ApprovalQuorum(vs, b)  == Cardinality(Approvers(vs, b)) >= RequiredApprovals
RejectionQuorum(vs, b) == Cardinality(Rejecters(vs, b)) >= RequiredApprovals

(* Mutated: the import is left to the replay worker. *)
FinalizeLeavesImport(b) ==
    /\ proposals' = [proposals EXCEPT ![b] = "finalized"]
    /\ UNCHANGED chain

(* finalize_proposal past its quorum test: an import that appends b, and    *)
(* one that finds b on the chain already.                                   *)
FinalizeImports(b) ==
    /\ chain' = Append(chain, b)
    /\ proposals' = [Promoted(proposals, chain') EXCEPT ![b] = "imported"]

FinalizeFinds(b) ==
    /\ proposals' = [proposals EXCEPT ![b] = "finalized"]
    /\ UNCHANGED chain

FinalizeFails(vs, b) ==
    /\ proposals[b] \notin Final
    /\ \/ ~WinsFork(vs, b)
       \/ ~Importable(chain, b) /\ ~OnChain(chain, b)

(* UNIQUE(proposal_id, validator_id) on consensus_votes. *)
FirstVote(r) == votes[r.block][r.validator] = "none"

VoteRecorded(r) ==
    /\ Close(r)
    /\ FirstVote(r)
    /\ votes' = VotesWith(r)
    /\ \/ /\ ~ApprovalQuorum(votes', r.block)
          /\ ~RejectionQuorum(votes', r.block)
       \/ /\ ApprovalQuorum(votes', r.block)
          /\ proposals[r.block] \in Final
    /\ UNCHANGED << chain, proposals, created, headers >>

VoteFinalizes(r) ==
    /\ Close(r)
    /\ FirstVote(r)
    /\ votes' = VotesWith(r)
    /\ ApprovalQuorum(votes', r.block)
    /\ proposals[r.block] \notin Final
    /\ WinsFork(votes', r.block)
    /\ \/ Importable(chain, r.block) /\ FinalizeImports(r.block)
       \/ OnChain(chain, r.block) /\ FinalizeFinds(r.block)
    /\ UNCHANGED << created, headers >>

VoteRejects(r) ==
    /\ Close(r)
    /\ FirstVote(r)
    /\ votes' = VotesWith(r)
    /\ ~ApprovalQuorum(votes', r.block)
    /\ RejectionQuorum(votes', r.block)
    /\ proposals' = [proposals EXCEPT ![r.block] = "rejected"]
    /\ UNCHANGED << chain, created, headers >>

(* An exception in finalize_proposal, or the UNIQUE constraint, rolls the   *)
(* transaction back and the vote with it.                                   *)
VoteRolledBack(r) ==
    /\ Close(r)
    /\ \/ ~FirstVote(r)
       \/ /\ ApprovalQuorum(VotesWith(r), r.block)
          /\ FinalizeFails(VotesWith(r), r.block)
    /\ UNCHANGED << chain, proposals, created, votes, headers >>

VoteCommit ==
    \E r \in VoteRequest \cap inflight :
        VoteRecorded(r) \/ VoteFinalizes(r) \/ VoteRejects(r) \/ VoteRolledBack(r)

-------------------------------------------------------------------------------
(* POST /consensus/proposals/{id}/finalize: reads without a lock, then writes. *)

FinalizeCheck(b) ==
    /\ proposals[b] \notin Final \cup {"none"}
    /\ ApprovalQuorum(votes, b)
    /\ ~FinalizeFails(votes, b)
    /\ Open([kind |-> "finalize", block |-> b, exists |-> OnChain(chain, b)])

(* PRIMARY KEY(height) on blocks refuses an append the tip has overtaken;   *)
(* nothing re-checks a block that was found on the chain.                   *)
FinalizeCommit(b) ==
    \E r \in FinalizeRequest \cap inflight :
        /\ r.block = b
        /\ Close(r)
        /\ \/ r.exists /\ FinalizeFinds(b)
           \/ ~r.exists /\ Extends(chain, b) /\ FinalizeImports(b)
           \/ /\ ~r.exists /\ ~Extends(chain, b)
              /\ UNCHANGED << chain, proposals >>
        /\ UNCHANGED << created, votes, headers >>

-------------------------------------------------------------------------------
(* receive_block_header (network.py).                                      *)

HeaderCheck(b) ==
    /\ b \in Announced
    /\ \E status \in HeaderStatus \ {"none"} :
          /\ \/ OnChain(chain, b) /\ status = "known"
             \/ ~OnChain(chain, b) /\ headers[b] # "none" /\ status = headers[b]
             \/ /\ headers[b] = "none"
                /\ \/ /\ Extends(chain, b)
                      /\ status = "pending_replay"
                   \/ /\ MissingAncestors(chain, b)
                      /\ status = "pending_missing_ancestors"
                   \/ /\ Conflicts(chain, b)
                      /\ Height[b] = Len(chain)
                      /\ ParentOnChain(chain, b)
                      /\ status = "pending_missing_ancestors"
          /\ Open([kind |-> "header", block |-> b, status |-> status])

HeaderCommit(b) ==
    \E r \in HeaderRequest \cap inflight :
        /\ r.block = b
        /\ Close(r)
        /\ headers' = [headers EXCEPT ![b] = r.status]
        /\ UNCHANGED << chain, proposals, created, votes >>

-------------------------------------------------------------------------------
(* _accept_block_in_connection ends in record_local_block_proposal.        *)

MineLocal(b) ==
    /\ Unlocked
    /\ b \in Mined
    /\ Extends(chain, b)
    /\ chain' = Append(chain, b)
    /\ proposals' = [proposals EXCEPT ![b] = IF @ \in Final THEN @ ELSE "imported"]
    /\ created' = Inserted(b)
    /\ UNCHANGED << votes, headers, active, inflight, replay, health >>

-------------------------------------------------------------------------------
(* replay_finalized_blocks.                                                *)

QueuedHeaders == { b \in Blocks : headers[b] \in QueuedHeader }
FinalizedQueue == { b \in Blocks : proposals[b] = "finalized" }
QueueSize == Cardinality(QueuedHeaders) + Cardinality(FinalizedQueue)

(* _mark_existing_block_proposals_imported. *)
Normalised ==
    [b \in Blocks |-> IF proposals[b] \notin { "none", "imported", "rejected" }
                         /\ OnChain(chain, b)
                      THEN "imported" ELSE proposals[b]]

(* Mutated: a header that once missed its ancestors is not picked again. *)
HeaderBatchesReadyOnly(n) ==
    LET ready == { b \in Blocks : headers[b] = "pending_replay" }
    IN  { S \in SUBSET ready :
            Cardinality(S) = IF Cardinality(ready) < n THEN Cardinality(ready) ELSE n }

(* ORDER BY height, received_at LIMIT n: no queued header left out is lower *)
(* than one taken; which of two at one height arrived first is left open.   *)
HeaderBatches(n) ==
    { S \in SUBSET QueuedHeaders :
        /\ Cardinality(S) = IF Cardinality(QueuedHeaders) < n
                            THEN Cardinality(QueuedHeaders) ELSE n
        /\ \A b \in S, d \in QueuedHeaders \ S : Height[b] <= Height[d] }

(* The finalized rows whose block is not on the chain come first.  Theirs   *)
(* is always a conflict (FinalizedIsSettled): the import raises, the row    *)
(* stays finalized and counts against the limit of the batch.               *)
ReplayStart ==
    /\ replay.phase = "idle"
    /\ proposals' = Normalised
    /\ LET stuck == Cardinality({ b \in Blocks : proposals'[b] = "finalized" })
       IN  \E batch \in HeaderBatches(IF stuck < ReplayLimit THEN ReplayLimit - stuck ELSE 0) :
             replay' = Batch("rows", batch, proposals' # proposals, FALSE)
    /\ UNCHANGED << chain, created, votes, headers, active, inflight, health >>

(* The next row of the batch, in order of height. *)
NextRow(b) ==
    /\ replay.phase = "rows"
    /\ b \in replay.todo
    /\ \A d \in replay.todo : Height[b] <= Height[d]
    /\ UNCHANGED << created, votes, active, inflight, health >>

ReplayImports(b) ==
    /\ NextRow(b)
    /\ Importable(chain, b)
    /\ chain' = Append(chain, b)
    /\ headers' = [headers EXCEPT ![b] = "imported"]
    /\ proposals' = [Promoted(proposals, chain') EXCEPT
                       ![b] = IF @ \in { "none", "rejected" } THEN @ ELSE "imported"]
    /\ replay' = Batch("rows", replay.todo \ {b}, TRUE, replay.divergent)

ReplaySkips(b) ==
    /\ NextRow(b)
    /\ OnChain(chain, b)
    /\ headers' = [headers EXCEPT ![b] = "known"]
    /\ replay' = Batch("rows", replay.todo \ {b}, replay.progress, replay.divergent)
    /\ UNCHANGED << chain, proposals >>

(* Mutated: the header is marked before the import, and stays marked. *)
ReplayFailsWithoutRollback(b) ==
    /\ NextRow(b)
    /\ ImportFails(chain, b)
    /\ headers' = [headers EXCEPT ![b] = "imported"]
    /\ replay' = Batch("rows", replay.todo \ {b}, replay.progress,
                       replay.divergent \/ Diverges(chain, b))
    /\ UNCHANGED << chain, proposals >>

(* ROLLBACK TO SAVEPOINT: only the header row remembers the failure, and    *)
(* the batch if it is a divergence.                                         *)
ReplayFails(b) ==
    /\ NextRow(b)
    /\ ImportFails(chain, b)
    /\ headers' = [headers EXCEPT ![b] =
                     IF MissingAncestors(chain, b) THEN "pending_missing_ancestors"
                     ELSE "pending_replay"]
    /\ replay' = Batch("rows", replay.todo \ {b}, replay.progress,
                       replay.divergent \/ Diverges(chain, b))
    /\ UNCHANGED << chain, proposals >>

(* Commit; _REPLAY_LOCK stays held until the metrics are recorded. *)
ReplayCommit ==
    /\ replay.phase = "rows"
    /\ replay.todo = {}
    /\ replay' = Batch("record", {}, replay.progress, replay.divergent)
    /\ UNCHANGED << chain, proposals, created, votes, headers, active, inflight, health >>

(* Mutated: the failure count is not kept within its threshold. *)
FailedUncapped == health.failures + 1

(* _update_replay_liveness; the failure count is kept up to its threshold. *)
Failed == IF health.failures < StallFailures THEN health.failures + 1 ELSE health.failures

(* Mutated: a batch that failed on no divergence counts as healthy. *)
ReplayRecordForgets ==
    /\ replay.phase = "record"
    /\ replay' = ReplayIdle
    /\ health' = IF replay.divergent THEN Liveness("divergent", Failed) ELSE Healthy
    /\ UNCHANGED << chain, proposals, created, votes, headers, active, inflight >>

ReplayRecord ==
    /\ replay.phase = "record"
    /\ replay' = ReplayIdle
    /\ \/ /\ replay.divergent
          /\ health' = Liveness("divergent", Failed)
       \/ /\ ~replay.divergent /\ replay.progress
          /\ health' = Liveness(IF QueueSize > 0 THEN "catching_up" ELSE "healthy", 0)
       \/ /\ ~replay.divergent /\ ~replay.progress /\ QueueSize > 0
          /\ health' = Liveness(IF Failed = StallFailures THEN "stalled" ELSE "catching_up",
                                Failed)
       \/ /\ ~replay.divergent /\ ~replay.progress /\ QueueSize = 0
          /\ health' = Healthy
    /\ UNCHANGED << chain, proposals, created, votes, headers, active, inflight >>

(* get_replay_status resets the health of an empty queue. *)
ReplayStatusRead ==
    /\ replay.phase = "idle"
    /\ QueueSize = 0
    /\ health' = Healthy
    /\ UNCHANGED << chain, proposals, created, votes, headers, active, inflight, replay >>

-------------------------------------------------------------------------------
(* apply_orphan_reorg, depth 1, one transaction under _REPLAY_LOCK.        *)

(* _find_queued_block_by_hash and _queued_block_candidates. *)
Findable(b)  == proposals[b] \notin { "none", "rejected" } \/ headers[b] # "none"
Candidate(b) == \/ proposals[b] \notin { "none", "rejected", "imported" }
                \/ headers[b] \in QueuedHeader

(* Mutated: the certificate of the child, or the place of the parent, is    *)
(* not checked.                                                             *)
CanReorgUncertified(parent, child) ==
    /\ chain # << >>
    /\ Candidate(child)
    /\ Parent[child] = parent
    /\ Height[child] = Len(chain) + 1
    /\ Findable(parent)
    /\ parent # chain[Len(chain)]
    /\ { chain[Len(chain)], parent, child } \cap Pinned = {}
    /\ Importable(Front(chain), parent)
    /\ Replayable(child)

CanReorgAnywhere(parent, child) ==
    /\ chain # << >>
    /\ Candidate(child)
    /\ child \in Certified
    /\ Parent[child] = parent
    /\ Findable(parent)
    /\ parent # chain[Len(chain)]
    /\ Replayable(child)

(* The local tip is orphaned by parent, which child certifies. *)
CanReorg(parent, child) ==
    /\ chain # << >>
    /\ Candidate(child)
    /\ child \in Certified
    /\ Parent[child] = parent
    /\ Height[child] = Len(chain) + 1
    /\ Findable(parent)
    /\ parent # chain[Len(chain)]
    /\ { chain[Len(chain)], parent, child } \cap Pinned = {}
    /\ Importable(Front(chain), parent)
    /\ Replayable(child)

(* Mutated: the orphan keeps its status; or the tip is removed and the two  *)
(* imports are left to another transaction.                                 *)
ReorgKeepsOrphan(parent, child) ==
    /\ replay.phase = "idle"
    /\ CanReorg(parent, child)
    /\ chain' = Front(chain) \o << parent, child >>
    /\ proposals' = Promoted(proposals, chain')
    /\ health' = Liveness("catching_up", 0)
    /\ UNCHANGED << created, votes, headers, active, inflight, replay >>

ReorgInTwoSteps(parent, child) ==
    /\ replay.phase = "idle"
    /\ CanReorg(parent, child)
    /\ chain' = Front(chain)
    /\ health' = Liveness("catching_up", 0)
    /\ UNCHANGED << proposals, created, votes, headers, active, inflight, replay >>

ReorgApply(parent, child) ==
    /\ replay.phase = "idle"
    /\ CanReorg(parent, child)
    /\ chain' = Front(chain) \o << parent, child >>
    /\ headers' = [b \in Blocks |-> IF b \in {parent, child} /\ headers[b] # "none"
                                    THEN "imported" ELSE headers[b]]
    /\ LET orphan == chain[Len(chain)]
           marked == [b \in Blocks |->
                        IF proposals[b] = "none" THEN "none"
                        ELSE IF b = orphan THEN "rejected"
                        ELSE IF b \in {parent, child} /\ proposals[b] # "rejected"
                        THEN "imported" ELSE proposals[b]]
       IN  proposals' = Promoted(marked, chain')
    /\ health' = Liveness("catching_up", 0)
    /\ UNCHANGED << created, votes, active, inflight, replay >>

-------------------------------------------------------------------------------
(* The environment.                                                        *)

(* Heartbeats, heartbeat timeouts and bans move a validator in and out. *)
ValidatorToggles(v) ==
    /\ Unlocked
    /\ v \in Volatile
    /\ active' = IF v \in active THEN active \ {v} ELSE active \cup {v}
    /\ UNCHANGED << chain, proposals, created, votes, headers, inflight, replay, health >>

(* A restart keeps the database and loses what is in memory.  A crash       *)
(* during a batch rolls it back and equals a crash before it.               *)
Crash ==
    /\ MayCrash
    /\ Unlocked
    /\ inflight' = {}
    /\ replay' = ReplayIdle
    /\ health' = Healthy
    /\ UNCHANGED << chain, proposals, created, votes, headers, active >>

-------------------------------------------------------------------------------
Handler(b) ==
    \/ ProposeCheck(b) \/ ProposeCommit(b) \/ PromoteAfterSync(b)
    \/ FinalizeCheck(b) \/ FinalizeCommit(b)
    \/ HeaderCheck(b) \/ HeaderCommit(b)
    \/ MineLocal(b)
    \/ \E v \in Validators, vote \in { "approve", "reject" } : VoteCheck(v, b, vote)

ReplayRow == \E b \in Blocks : ReplayImports(b) \/ ReplaySkips(b) \/ ReplayFails(b)

Replay == ReplayStart \/ ReplayRow \/ ReplayCommit \/ ReplayRecord

Next ==
    \/ \E b \in Blocks : Handler(b)
    \/ VoteCommit
    \/ Replay
    \/ ReplayStatusRead
    \/ \E parent, child \in Blocks : ReorgApply(parent, child)
    \/ \E v \in Validators : ValidatorToggles(v)
    \/ Crash

Spec == Init /\ [][Next]_vars

(* The replay worker: get_replay_status, then a batch when there is work,   *)
(* unless the node is divergent; the loop never ends.                       *)
WorkerMayRun == QueueSize > 0 /\ health.status # "divergent"

ReplayWorker ==
    /\ WF_vars(ReplayStart /\ WorkerMayRun)
    /\ WF_vars(ReplayRow)
    /\ WF_vars(ReplayCommit)
    /\ WF_vars(ReplayRecord)

WorkerSpec == Spec /\ ReplayWorker

-------------------------------------------------------------------------------
(* Properties.                                                             *)

(* Every block sits on its parent at its own height, through imports, local *)
(* blocks, replays and reorgs (_import_finalized_block, apply_orphan_reorg). *)
ChainLinked ==
    \A h \in DOMAIN chain : /\ Height[chain[h]] = h
                            /\ Parent[chain[h]] = HashAt(chain, h - 1)

(* A proposal is called imported only while its block is on the chain: a    *)
(* reorg takes the word back from the block it orphans, and no handler that *)
(* read the old chain writes it again.                                      *)
ImportedIsOnChain ==
    \A b \in Blocks : proposals[b] = "imported" => OnChain(chain, b)

(* The height of b is taken, by b or by another block. *)
Settled(b) == OnChain(chain, b) \/ Conflicts(chain, b)

(* A finalized proposal is on the chain, or its height is taken for good:   *)
(* the finalized loop of replay_finalized_blocks never has one to import.   *)
FinalizedIsSettled ==
    \A b \in Blocks : proposals[b] = "finalized" => Settled(b)

(* A header leaves the replay queue only when its height is decided, even   *)
(* when a stale handler overwrites the status a replay has just written.    *)
HeaderIsSettled ==
    \A b \in Blocks : headers[b] \in { "known", "imported" } => Settled(b)

(* A height a handler has found taken is still taken when it writes: what   *)
(* finalize_proposal and receive_block_header read before the lock stays    *)
(* true in this respect, whatever a replay or a reorg did meanwhile.        *)
RequestsSettled ==
    \A r \in inflight :
        \/ r.kind = "finalize" /\ r.exists
        \/ r.kind = "header" /\ r.status \in { "known", "imported" }
        => Settled(r.block)

(* A block gets on the chain with a quorum of approvals recorded for it,    *)
(* unless it was validated here, synced as a header, or certified (itself   *)
(* or by a child whose certificate the reorg follows).                      *)
VouchedFor(b) ==
    \/ b \in Mined
    \/ headers[b] # "none"
    \/ b \in Certified
    \/ \E child \in Certified : Parent[child] = b

(* A finalize request that has read the quorum, or the block on the chain,  *)
(* and not written yet: either may be gone when it writes.                  *)
ReadQuorum(b) == \E r \in inflight : r.kind = "finalize" /\ r.block = b
ReadOnChain(b) == \E r \in inflight : r.kind = "finalize" /\ r.block = b /\ r.exists

QuorumBehindVotedBlocks ==
    [][\A b \in Blocks : \/ OnChain(chain, b) \/ ~OnChain(chain', b)
                         \/ VouchedFor(b) \/ ReadQuorum(b)
                         \/ Cardinality(Approvers(votes', b)) >= RequiredApprovals]_vars

(* A handler never turns a proposal rejected by quorum or by a reorg back   *)
(* unless its block is on the chain, or was when the handler looked.        *)
RejectedStaysOut ==
    [][\A b \in Blocks : proposals[b] = "rejected" /\ proposals'[b] # "rejected"
                            => OnChain(chain', b) \/ ReadOnChain(b)]_vars

(* The chain of this node is a canonical chain. *)
Canonical == INSTANCE CanonicalChain WITH
    Blocks <- Blocks, Genesis <- Genesis, Parent <- Parent,
    Certified <- Certified, chain <- chain
CanonicalSpec == Canonical!Spec

(* A queue that never empties is reported: batches that import nothing add  *)
(* up to a stall, whatever headers and reorgs come in between.              *)
StuckQueueIsReported ==
    (<>[](QueueSize > 0)) => []<>(health.status \in { "stalled", "divergent" })

(* The rows that a batch may take before header b and that it leaves where  *)
(* they are.                                                                *)
Crowd(b) ==
    Cardinality(FinalizedQueue)
      + Cardinality({ d \in QueuedHeaders \ {b} : Height[d] <= Height[b] /\ ~Importable(chain, d) })

(* The worker imports every queued header that extends the chain, beside    *)
(* headers that no import accepts and that it retries for ever: unless one  *)
(* of those diverges, which stops it, or they fill its batches.             *)
ReplayKeepsUp ==
    \A b \in Announced \ Refused :
        (headers[b] \in QueuedHeader /\ Extends(chain, b))
            ~> (Len(chain) >= Height[b] \/ health.status = "divergent" \/ Crowd(b) >= ReplayLimit)

-------------------------------------------------------------------------------
(* What the README says, and the code refutes.                             *)

(* README.md: "A validator cannot vote for two competing proposals from the *)
(* same fork."                                                              *)
OneVotePerFork ==
    \A b, d \in Blocks, v \in Validators :
        /\ b # d /\ SameFork(b, d)
        /\ proposals[b] # "rejected" /\ proposals[d] # "rejected"
        => votes[b][v] = "none" \/ votes[d][v] = "none"
===============================================================================
