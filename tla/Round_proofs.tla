------------------------------ MODULE Round_proofs ------------------------------
(***************************************************************************)
(* Proofs about ValidationRound and about RoundGossip, which extends it,   *)
(* for every set of miners, tasks, validators and foreign blocks, every    *)
(* quorum, and however many requests and messages are in flight.           *)
(***************************************************************************)
EXTENDS RoundGossip, FiniteSetTheorems, SequenceTheorems, TLAPS

(* A row that has a job has a task.                                        *)
TaskRows == {x \in Rows : x.job # "none" => x.status # "none"}

(* How a row may change: a task that was given stays given and keeps its   *)
(* round, and becomes accepted only among the blocks in on.                *)
Follows(t, x, y, on) ==
    /\ y \in TaskRows
    /\ x.status # "none" => y.status # "none" /\ y.round = x.round
    /\ y.status = "accepted" => x.status = "accepted" \/ t \in on

RowsFollow(r, s, on) ==
    s \in [Tasks -> TaskRows] /\ \A t \in Tasks : Follows(t, r[t], s[t], on)

LEMMA FollowsSelf == \A t, on : \A x \in TaskRows : Follows(t, x, x, on)
  BY DEF Follows

LEMMA FollowsOn ==
    ASSUME NEW t, NEW on, NEW x, NEW y, NEW z,
           Follows(t, x, y, on), Follows(t, y, z, on)
    PROVE  Follows(t, x, z, on)
  BY DEF Follows

LEMMA MarkedStaleFollows ==
    ASSUME NEW x \in TaskRows
    PROVE  \A t, on : Follows(t, x, MarkedStale(x), on)
  <1>1. MarkedStale(x) \in Rows
    BY DEF MarkedStale, TaskRows, Rows, TaskStatus, JobStatus, Active
  <1> QED  BY <1>1 DEF Follows, MarkedStale, TaskRows, Rows, Active

LEMMA ReleasedFollows ==
    ASSUME NEW x \in TaskRows, NEW timedOut
    PROVE  \A t, on : Follows(t, x, Released(x, timedOut), on)
  <1>1. Released(x, timedOut) \in Rows
    BY DEF Released, TaskRows, Rows
  <1> QED  BY <1>1 DEF Follows, Released, TaskRows, Rows

LEMMA ClosedTerminalFollows ==
    ASSUME NEW x \in TaskRows, NEW t
    PROVE  Follows(t, x, ClosedTerminal(t, x), OnChain)
  <1>1. ClosedTerminal(t, x) \in Rows
    BY DEF ClosedTerminal, TaskRows, Rows, TaskStatus, JobStatus, Decided
  <1> QED  BY <1>1 DEF Follows, ClosedTerminal, TaskRows, Rows, Decided

LEMMA ClosedObsoleteFollows ==
    ASSUME NEW x \in TaskRows
    PROVE  \A t, on : Follows(t, x, ClosedObsolete(x), on)
  BY MarkedStaleFollows, FollowsSelf DEF ClosedObsolete

LEMMA PastDeadlineFollows ==
    ASSUME NEW x \in TaskRows, NEW t, NEW due
    PROVE  \A on : Follows(t, x, PastDeadline(t, x, due), on)
  <1> DEFINE y == [x EXCEPT !.status = "expired", !.job = IF @ = "pending" THEN "expired" ELSE @]
  <1>1. PastDeadline(t, x, due) = x \/ PastDeadline(t, x, due) = y
    BY DEF PastDeadline
  <1>2. y \in Rows
    BY DEF TaskRows, Rows, TaskStatus, JobStatus
  <1>3. \A on : Follows(t, x, y, on)
    BY <1>2 DEF Follows, TaskRows, Rows
  <1> HIDE DEF y
  <1> QED  BY <1>1, <1>3, FollowsSelf

LEMMA SweepFollows ==
    ASSUME row \in [Tasks -> TaskRows], NEW r \in Sweeps
    PROVE  RowsFollow(row, r, OnChain)
  <1>1. PICK due, timedOut : r = Swept(due, timedOut)
    BY DEF Sweeps
  <1>2. r = [t \in Tasks |-> r[t]]
    BY <1>1 DEF Swept
  <1>3. ASSUME NEW t \in Tasks  PROVE Follows(t, row[t], r[t], OnChain)
    <2> DEFINE a == Released(row[t], t \in timedOut)
               b == ClosedTerminal(t, a)
               c == ClosedObsolete(b)
               d == PastDeadline(t, c, t \in due)
    <2>1. r[t] = d
      BY <1>1 DEF Swept
    <2>2. Follows(t, row[t], a, OnChain)
      BY ReleasedFollows
    <2> HIDE DEF a
    <2>3. Follows(t, a, b, OnChain)
      BY <2>2, ClosedTerminalFollows DEF Follows
    <2> HIDE DEF b
    <2>4. Follows(t, b, c, OnChain)
      BY <2>3, ClosedObsoleteFollows DEF Follows
    <2> HIDE DEF c
    <2>5. Follows(t, c, d, OnChain)
      BY <2>4, PastDeadlineFollows DEF Follows
    <2> HIDE DEF d
    <2> QED  BY <2>1, <2>2, <2>3, <2>4, <2>5, FollowsOn
  <1> QED  BY <1>2, <1>3 DEF RowsFollow, Follows

-------------------------------------------------------------------------------
(* The rows that the handlers write.                                       *)

LEMMA RevivedFollows ==
    ASSUME NEW x \in TaskRows
    PROVE  \A t, on : Follows(t, x, Revived(x), on)
  <1>1. Revived(x) \in Rows
    BY DEF Revived, TaskRows, Rows, TaskStatus
  <1> QED  BY <1>1 DEF Follows, Revived, TaskRows, Rows

LEMMA ResumedFollows ==
    ASSUME NEW x \in TaskRows
    PROVE  \A t, on : Follows(t, x, Resumed(x), on)
  BY RevivedFollows, FollowsSelf DEF Resumed

LEMMA CommittedFollows ==
    ASSUME NEW x \in TaskRows
    PROVE  \A t, on : Follows(t, x, CommittedRow(x), on)
  <1> DEFINE y == [x EXCEPT !.status = "committed", !.committed = TRUE]
  <1>1. CommittedRow(x) \in {x, y, MarkedStale(x)}
    BY DEF CommittedRow
  <1>2. y \in Rows
    BY DEF TaskRows, Rows, TaskStatus
  <1>3. x.status = "assigned" => \A t, on : Follows(t, x, y, on)
    BY <1>2 DEF Follows, TaskRows, Rows
  <1>4. x.status # "assigned" => CommittedRow(x) = x
    BY DEF CommittedRow
  <1> HIDE DEF y
  <1> QED  BY <1>1, <1>3, <1>4, FollowsSelf, MarkedStaleFollows

LEMMA RevealedFollows ==
    ASSUME NEW r \in [Tasks -> TaskRows], NEW t \in Tasks
    PROVE  \A on : Follows(t, r[t], RevealedRow(r, t), on)
  <1> DEFINE x == Resumed(r[t])
             y == [x EXCEPT !.status = "revealed", !.job = "pending", !.rank = JobsCreated(r)]
  <1>1. x \in TaskRows /\ \A on : Follows(t, r[t], x, on)
    BY ResumedFollows DEF Follows
  <1>2. JobsCreated(r) \in Nat
    BY RoundConstants, FS_Subset, FS_CardinalityType DEF JobsCreated
  <1>3. RevealedRow(r, t) \in {x, y, MarkedStale(x)}
    BY DEF RevealedRow
  <1>4. x.status # "committed" => RevealedRow(r, t) = x
    BY DEF RevealedRow
  <1> HIDE DEF x
  <1>5. y \in Rows
    BY <1>1, <1>2 DEF TaskRows, Rows, TaskStatus, JobStatus
  <1>6. x.status = "committed" => \A on : Follows(t, x, y, on)
    BY <1>1, <1>5 DEF Follows, TaskRows, Rows
  <1> HIDE DEF y
  <1>7. \A on : Follows(t, x, RevealedRow(r, t), on)
    BY <1>1, <1>3, <1>4, <1>6, FollowsSelf, MarkedStaleFollows
  <1> QED  BY <1>1, <1>7, FollowsOn

LEMMA PromotedFollows ==
    ASSUME NEW x \in TaskRows
    PROVE  \A t, on : Follows(t, x, Promoted(x), on)
  <1>1. Promoted(x) \in Rows
    BY DEF Promoted, TaskRows, Rows, TaskStatus
  <1> QED  BY <1>1 DEF Follows, Promoted, TaskRows, Rows

LEMMA OrphanedFollows ==
    ASSUME NEW x \in TaskRows
    PROVE  \A t, on : Follows(t, x, OrphanedRow(x), on)
  <1>1. OrphanedRow(x) \in Rows
    BY DEF OrphanedRow, TaskRows, Rows, TaskStatus, JobStatus
  <1> QED  BY <1>1 DEF Follows, OrphanedRow, TaskRows, Rows

LEMMA RejectedFollows ==
    ASSUME NEW x \in TaskRows
    PROVE  \A t, on : Follows(t, x, RejectedRow(x), on)
  <1>1. RejectedRow(x) \in Rows
    BY DEF RejectedRow, TaskRows, Rows, TaskStatus, JobStatus
  <1> QED  BY <1>1 DEF Follows, RejectedRow, TaskRows, Rows

LEMMA AcceptedFollows ==
    ASSUME NEW x \in TaskRows, NEW t, NEW on, t \in on
    PROVE  Follows(t, x, AcceptedRow(x), on)
  <1>1. AcceptedRow(x) \in Rows
    BY DEF AcceptedRow, TaskRows, Rows, TaskStatus, JobStatus
  <1> QED  BY <1>1 DEF Follows, AcceptedRow, TaskRows, Rows

(* A write to one row, and one after another.                              *)
LEMMA OneFollows ==
    ASSUME NEW r \in [Tasks -> TaskRows], NEW t \in Tasks, NEW y, NEW on,
           Follows(t, r[t], y, on)
    PROVE  RowsFollow(r, [r EXCEPT ![t] = y], on)
  <1> DEFINE s == [r EXCEPT ![t] = y]
  <1>1. y \in TaskRows
    BY DEF Follows
  <1>2. s \in [Tasks -> TaskRows]
    BY <1>1
  <1>3. ASSUME NEW u \in Tasks  PROVE Follows(u, r[u], s[u], on)
    BY <1>3, FollowsSelf
  <1> HIDE DEF s
  <1>4. RowsFollow(r, s, on)
    BY <1>2, <1>3 DEF RowsFollow
  <1> QED  BY <1>4 DEF s

LEMMA RowsFollowOn ==
    ASSUME NEW on, NEW q, NEW r, NEW s, RowsFollow(q, r, on), RowsFollow(r, s, on)
    PROVE  RowsFollow(q, s, on)
  BY FollowsOn DEF RowsFollow

LEMMA RowsFollowSelf ==
    ASSUME NEW on, NEW r \in [Tasks -> TaskRows]
    PROVE  RowsFollow(r, r, on)
  BY FollowsSelf DEF RowsFollow

LEMMA GivenFollows ==
    ASSUME NEW r \in [Tasks -> TaskRows], NEW q \in Asks, NEW on
    PROVE  RowsFollow(r, Given(r, q), on)
  <1>1. q.task \in Tasks /\ q.round \in Blocks
    BY DEF Asks
  <1>2. CASE r[q.task].status = "none"
    <2>1. NewTask(q.round) \in TaskRows
      BY <1>1 DEF NewTask, TaskRows, Rows, TaskStatus, JobStatus
    <2>2. Follows(q.task, r[q.task], NewTask(q.round), on)
      BY <1>2, <2>1 DEF Follows, NewTask
    <2> QED  BY <1>1, <1>2, <2>2, OneFollows DEF Given
  <1>3. CASE r[q.task].status # "none"
    <2>1. Follows(q.task, r[q.task], Revived(r[q.task]), on)
      BY <1>1, RevivedFollows
    <2> QED  BY <1>1, <1>3, <2>1, OneFollows, RowsFollowSelf DEF Given
  <1> QED  BY <1>2, <1>3

(* _close_competitive_round_after_block, for the block of task t.          *)
LEMMA WonFollows ==
    ASSUME NEW r \in [Tasks -> TaskRows], NEW t \in Tasks, NEW on, t \in on
    PROVE  RowsFollow(r, RoundWon(r, t), on) /\ RowsFollow(r, Submitted(r, t), on)
  <1>1. ASSUME NEW y \in {AcceptedRow(r[t]), [r[t] EXCEPT !.status = "accepted"]}
        PROVE  Follows(t, r[t], y, on)
    <2>1. CASE y = AcceptedRow(r[t])
      BY <2>1, AcceptedFollows
    <2>2. CASE y = [r[t] EXCEPT !.status = "accepted"]
      BY <2>2 DEF Follows, TaskRows, Rows, TaskStatus
    <2> QED  BY <1>1, <2>1, <2>2
  <1>2. ASSUME NEW s, NEW y, Follows(t, r[t], y, on),
               s = [u \in Tasks |->
                       IF u = t THEN y
                       ELSE IF u \in RoundTasks(r, r[t].round) /\ r[u].status \in Active
                       THEN MarkedStale(r[u]) ELSE r[u]]
        PROVE  RowsFollow(r, s, on)
    <2>1. \A u \in Tasks : Follows(u, r[u], s[u], on)
      BY <1>2, MarkedStaleFollows, FollowsSelf
    <2>2. s \in [Tasks -> TaskRows]
      BY <1>2, <2>1 DEF Follows
    <2> QED  BY <2>1, <2>2 DEF RowsFollow
  <1>3. RowsFollow(r, RoundWon(r, t), on)
    BY <1>1, <1>2 DEF RoundWon, AcceptedRow
  <1>4. RowsFollow(r, Submitted(r, t), on)
    BY <1>1, <1>2 DEF Submitted
  <1> QED  BY <1>3, <1>4

-------------------------------------------------------------------------------
(* What a step does to the chain and the rows: it leaves the chain alone,  *)
(* puts there a task of the round of the tip, a foreign block, or two of   *)
(* them in the place of the tip.                                           *)

RoundInv ==
    /\ TypeOK
    /\ row \in [Tasks -> TaskRows]
    /\ \A t \in Tasks \cap OnChain : row[t].status # "none"
    /\ \A q \in voting : row[q.task].status # "none"
    /\ BlocksExtendTheirRound

Stays == chain' = chain /\ RowsFollow(row, row', OnChain)

AcceptsOwn(q) ==
    q.path = "own" /\ chain' = chain /\ RowsFollow(row, row', OnChain \cup {q.task})

Wins(t) ==
    /\ chain' = Append(chain, t)
    /\ row'[t].round = Tip /\ row'[t].status # "none"
    /\ RowsFollow(row, row', OnChain \cup {t})

GivesWay(b, c) ==
    /\ Len(chain) > 1
    /\ chain' = SubSeq(chain, 1, Len(chain) - 1) \o << b, c >>
    /\ RowsFollow(row, row', OnChain)
    /\ \A t \in Tasks : t = Tip => row'[t].status # "accepted"

ChainStep ==
    \/ Stays
    \/ \E q \in voting : AcceptsOwn(q)
    \/ \E t \in Tasks : Wins(t)
    \/ \E b \in Foreign : chain' = Append(chain, b) /\ row' = row
    \/ \E b, c \in Foreign : GivesWay(b, c)

LEMMA TipIsBlock == TypeOK => Tip \in Blocks
  BY DEF TypeOK, Tip

LEMMA OffersAreAsks ==
    ASSUME TypeOK, NEW r, NEW m, NEW q \in Offers(r, m)
    PROVE  q \in Asks
  BY TipIsBlock DEF Offers, FirstOf, Unused, Mine, Asks

LEMMA NextTaskStays ==
    ASSUME RoundInv, NEW m, NextTask(m)
    PROVE  Stays
  <1>1. PICK r \in {row} \cup Sweeps :
        \/ \E t \in ResumableOf(r, m) : row' = [r EXCEPT ![t] = Revived(@)]
        \/ \E t \in ActiveOf(r, m) :
             \/ row' = r
             \/ \E x \in ActiveClosed(r[t]) :
                  LET closed == [r EXCEPT ![t] = x]
                  IN  \E q \in Offers(closed, m) : row' = Given(closed, q)
        \/ \E q \in Offers(r, m) : row' = Given(r, q)
    BY DEF NextTask
  <1>2. RowsFollow(row, r, OnChain)
    BY SweepFollows, RowsFollowSelf DEF RoundInv
  <1>3. r \in [Tasks -> TaskRows]
    BY <1>2 DEF RowsFollow
  <1>4. RowsFollow(r, row', OnChain)
    <2>1. ASSUME NEW t \in ResumableOf(r, m), row' = [r EXCEPT ![t] = Revived(@)]
          PROVE  RowsFollow(r, row', OnChain)
      <3>1. t \in Tasks
        BY DEF ResumableOf, Mine
      <3> QED  BY <1>3, <2>1, <3>1, RevivedFollows, OneFollows
    <2>2. ASSUME NEW t \in ActiveOf(r, m), NEW x \in ActiveClosed(r[t]),
                 NEW q \in Offers([r EXCEPT ![t] = x], m),
                 row' = Given([r EXCEPT ![t] = x], q)
          PROVE  RowsFollow(r, row', OnChain)
      <3> DEFINE closed == [r EXCEPT ![t] = x]
      <3>1. t \in Tasks /\ r[t] \in TaskRows /\ r[t].status \in Active
        BY <1>3 DEF ActiveOf, Mine
      <3>2. Follows(t, r[t], [r[t] EXCEPT !.status = "expired"], OnChain)
        BY <3>1 DEF Follows, TaskRows, Rows, TaskStatus, Active
      <3>3. Follows(t, r[t], x, OnChain)
        BY <3>1, <3>2, MarkedStaleFollows DEF ActiveClosed
      <3>4. RowsFollow(r, closed, OnChain)
        BY <1>3, <3>1, <3>3, OneFollows
      <3>5. row' = Given(closed, q) /\ q \in Asks
        BY <2>2, OffersAreAsks DEF RoundInv
      <3> HIDE DEF closed
      <3>6. RowsFollow(closed, row', OnChain)
        BY <3>4, <3>5, GivenFollows DEF RowsFollow
      <3> QED  BY <3>4, <3>6, RowsFollowOn
    <2>3. ASSUME NEW q \in Offers(r, m), row' = Given(r, q)
          PROVE  RowsFollow(r, row', OnChain)
      BY <1>3, <2>3, OffersAreAsks, GivenFollows DEF RoundInv
    <2> QED  BY <1>1, <1>3, <2>1, <2>2, <2>3, RowsFollowSelf
  <1> QED  BY <1>2, <1>4, RowsFollowOn DEF Stays, NextTask

(* A handler that sweeps and then writes the row of one task.              *)
LEMMA SweptWriteFollows ==
    ASSUME RoundInv, NEW r \in Sweeps, NEW t \in Tasks, NEW y,
           row' = [r EXCEPT ![t] = y], Follows(t, r[t], y, OnChain)
    PROVE  RowsFollow(row, row', OnChain)
  <1>1. RowsFollow(row, r, OnChain)
    BY SweepFollows DEF RoundInv
  <1> QED  BY <1>1, OneFollows, RowsFollowOn DEF RowsFollow

LEMMA TaskHandlerSteps ==
    ASSUME RoundInv, NEW t \in Tasks,
           CommitTask(t) \/ RevealTask(t) \/ RejectReveal(t) \/ SubmitTask(t)
    PROVE  Stays \/ Wins(t)
  <1>1. ASSUME NEW r \in Sweeps  PROVE r \in [Tasks -> TaskRows] /\ RowsFollow(row, r, OnChain)
    BY SweepFollows DEF RoundInv, RowsFollow
  <1>2. CASE CommitTask(t)
    <2>1. PICK r \in Sweeps : row' = [r EXCEPT ![t] = CommittedRow(Resumed(@))]
      BY <1>2 DEF CommitTask
    <2>2. Follows(t, r[t], CommittedRow(Resumed(r[t])), OnChain)
      <3>1. Follows(t, r[t], Resumed(r[t]), OnChain)
        BY <1>1, ResumedFollows
      <3>2. Follows(t, Resumed(r[t]), CommittedRow(Resumed(r[t])), OnChain)
        BY <3>1, CommittedFollows DEF Follows
      <3> QED  BY <3>1, <3>2, FollowsOn
    <2> QED  BY <1>2, <2>1, <2>2, SweptWriteFollows DEF CommitTask, Stays
  <1>3. CASE RevealTask(t)
    <2>1. PICK r \in Sweeps : row' = [r EXCEPT ![t] = RevealedRow(r, t)]
      BY <1>3 DEF RevealTask
    <2>2. Follows(t, r[t], RevealedRow(r, t), OnChain)
      BY <1>1, RevealedFollows
    <2> QED  BY <1>3, <2>1, <2>2, SweptWriteFollows DEF RevealTask, Stays
  <1>4. CASE RejectReveal(t)
    <2>1. PICK r \in Sweeps :
            row' = [r EXCEPT ![t] = [Resumed(r[t]) EXCEPT !.status = "rejected"]]
      BY <1>4 DEF RejectReveal
    <2>2. Follows(t, r[t], [Resumed(r[t]) EXCEPT !.status = "rejected"], OnChain)
      <3>1. Follows(t, r[t], Resumed(r[t]), OnChain)
        BY <1>1, ResumedFollows
      <3>2. Follows(t, Resumed(r[t]), [Resumed(r[t]) EXCEPT !.status = "rejected"], OnChain)
        BY <3>1 DEF Follows, TaskRows, Rows, TaskStatus
      <3> QED  BY <3>1, <3>2, FollowsOn
    <2> QED  BY <1>4, <2>1, <2>2, SweptWriteFollows DEF RejectReveal, Stays
  <1>5. CASE SubmitTask(t)
    <2>1. PICK r \in Sweeps :
            /\ r[t].status = "assigned"
            /\ \/ row' = [r EXCEPT ![t] = MarkedStale(@)] /\ UNCHANGED chain
               \/ row' = [r EXCEPT ![t].status = "rejected"] /\ UNCHANGED chain
               \/ Current(r[t]) /\ row' = Submitted(r, t) /\ chain' = Append(chain, t)
      BY <1>5 DEF SubmitTask
    <2>2. CASE row' = [r EXCEPT ![t] = MarkedStale(@)] /\ UNCHANGED chain
      <3>1. Follows(t, r[t], MarkedStale(r[t]), OnChain)
        BY <1>1, MarkedStaleFollows
      <3> QED  BY <2>2, <3>1, SweptWriteFollows DEF Stays
    <2>3. CASE row' = [r EXCEPT ![t].status = "rejected"] /\ UNCHANGED chain
      <3>1. Follows(t, r[t], [r[t] EXCEPT !.status = "rejected"], OnChain)
        <4>1. r[t] \in TaskRows
          BY <1>1
        <4> QED  BY <4>1 DEF Follows, TaskRows, Rows, TaskStatus
      <3> QED  BY <2>3, <3>1, SweptWriteFollows DEF Stays
    <2>4. CASE Current(r[t]) /\ row' = Submitted(r, t) /\ chain' = Append(chain, t)
      <3> DEFINE on == OnChain \cup {t}
      <3>1. RowsFollow(r, row', on)
        BY <1>1, <2>4, WonFollows
      <3>2. RowsFollow(row, r, on)
        BY <1>1 DEF RowsFollow, Follows
      <3>3. RowsFollow(row, row', on)
        BY <3>1, <3>2, RowsFollowOn
      <3>4. row'[t].round = Tip /\ row'[t].status # "none"
        BY <2>1, <2>4, <3>1 DEF RowsFollow, Follows, Current
      <3> QED  BY <2>4, <3>3, <3>4 DEF Wins
    <2> QED  BY <2>1, <2>2, <2>3, <2>4
  <1> QED  BY <1>2, <1>3, <1>4, <1>5

(* What Accept does with the block of a task.                              *)
LEMMA AcceptSteps ==
    ASSUME RoundInv, NEW t \in Tasks, row[t].status # "none", NEW ballot, NEW path,
           Accept(t, ballot, path)
    PROVE  Stays \/ Wins(t)
  <1>1. row \in [Tasks -> TaskRows] /\ row[t] \in TaskRows
    BY DEF RoundInv
  <1>2. CASE AcceptExisting(t)
    <2>1. Follows(t, row[t], [row[t] EXCEPT !.job = "approved"], OnChain)
      BY <1>1 DEF Follows, TaskRows, Rows, JobStatus
    <2> QED  BY <1>1, <1>2, <2>1, OneFollows DEF AcceptExisting, Stays
  <1>3. CASE AcceptBlock(t, ballot)
    <2>1. RowsFollow(row, row', OnChain \cup {t}) /\ chain' = Append(chain, t)
      BY <1>1, <1>3, WonFollows DEF AcceptBlock
    <2> QED  BY <1>3, <2>1 DEF AcceptBlock, Current, RowsFollow, Follows, Wins
  <1>4. CASE AcceptFails(t, path)
    <2>1. PICK y \in {[row[t] EXCEPT !.job = "rejected"], RejectedRow(row[t])} :
            row' = [row EXCEPT ![t] = y] /\ UNCHANGED chain
      BY <1>4 DEF AcceptFails
    <2>2. Follows(t, row[t], [row[t] EXCEPT !.job = "rejected"], OnChain)
      BY <1>1 DEF Follows, TaskRows, Rows, JobStatus
    <2>3. Follows(t, row[t], RejectedRow(row[t]), OnChain)
      BY <1>1, RejectedFollows
    <2> QED  BY <1>1, <2>1, <2>2, <2>3, OneFollows DEF Stays
  <1>5. CASE AcceptDeferred(t)
    BY <1>1, <1>5, RowsFollowSelf DEF AcceptDeferred, Stays
  <1> QED  BY <1>2, <1>3, <1>4, <1>5 DEF Accept

LEMMA FinalizeSteps ==
    ASSUME RoundInv, NEW t \in Tasks, row[t].status # "none", NEW ballot, NEW path,
           FinalizeApproved(t, ballot, path)
    PROVE  Stays \/ Wins(t)
  <1>1. row \in [Tasks -> TaskRows] /\ row[t] \in TaskRows
    BY DEF RoundInv
  <1>2. CASE Duplicate(t)
    <2>1. row' = [row EXCEPT ![t] = DuplicateRow(t, path)] /\ UNCHANGED chain
      BY <1>2 DEF FinalizeApproved
    <2>2. Follows(t, row[t], DuplicateRow(t, path), OnChain)
      BY <1>1, AcceptedFollows, RejectedFollows DEF DuplicateRow
    <2> QED  BY <1>1, <2>1, <2>2, OneFollows DEF Stays
  <1>3. CASE ~ Duplicate(t)
    BY <1>3, AcceptSteps DEF FinalizeApproved
  <1> QED  BY <1>2, <1>3

LEMMA VoteSteps ==
    ASSUME RoundInv, NEW q \in voting, VoteCommit(q)
    PROVE  Stays \/ AcceptsOwn(q) \/ Wins(q.task)
  <1>1. /\ row \in [Tasks -> TaskRows] /\ q.task \in Tasks /\ row[q.task] \in TaskRows
        /\ row[q.task].status # "none"
    BY DEF RoundInv, TypeOK, VoteRequests
  <1>2. ASSUME UNCHANGED << row, chain >>  PROVE Stays
    BY <1>1, <1>2, RowsFollowSelf DEF Stays
  <1>3. ASSUME UNCHANGED chain, row' = [row EXCEPT ![q.task] = RejectedRow(@)]
        PROVE  Stays
    BY <1>1, <1>3, RejectedFollows, OneFollows DEF Stays
  <1>4. CASE RetryReads(q)
    BY <1>2, <1>4 DEF RetryReads
  <1>5. CASE VoteInserted(q)
    <2>1. \/ FinalizeApproved(q.task, Recorded(q), q.path)
          \/ FinalizeRejected(q.task)
          \/ UNCHANGED << row, chain >>
      BY <1>5 DEF VoteInserted
    <2> QED  BY <1>1, <1>2, <1>3, <2>1, FinalizeSteps DEF FinalizeRejected
  <1>6. CASE VoteRepeated(q)
    <2>1. FinalizeApproved(q.task, vote[q.task], "gossip") \/ UNCHANGED << row, chain >>
      BY <1>6 DEF VoteRepeated
    <2> QED  BY <1>1, <1>2, <2>1, FinalizeSteps
  <1>7. CASE RetryWrites(q)
    <2>1. CASE /\ q.path = "own" /\ UNCHANGED chain
               /\ row' = [row EXCEPT ![q.task] = AcceptedRow(@)]
      <3>1. Follows(q.task, row[q.task], AcceptedRow(row[q.task]), OnChain \cup {q.task})
        BY <1>1, AcceptedFollows
      <3> QED  BY <1>1, <2>1, <3>1, OneFollows DEF AcceptsOwn
    <2>2. CASE UNCHANGED chain /\ row' = [row EXCEPT ![q.task] = RejectedRow(@)]
      BY <1>3, <2>2
    <2>3. CASE Accept(q.task, vote[q.task], "gossip")
      BY <1>1, <2>3, AcceptSteps
    <2> QED  BY <1>7, <2>1, <2>2, <2>3 DEF RetryWrites
  <1> QED  BY <1>4, <1>5, <1>6, <1>7 DEF VoteCommit

LEMMA JobSteps ==
    ASSUME RoundInv, NEW v, GetValidationJob(v)
    PROVE  Stays
  <1>1. PICK timedOut \in SUBSET Assigned :
          LET r == [t \in Tasks |-> Promoted(Released(row[t], t \in timedOut))]
          IN  row' = r \/ \E t \in Candidates(r, v) : row' = [r EXCEPT ![t].assigned = TRUE]
    BY DEF GetValidationJob
  <1> DEFINE r == [t \in Tasks |-> Promoted(Released(row[t], t \in timedOut))]
  <1>2. RowsFollow(row, r, OnChain)
    <2>1. ASSUME NEW t \in Tasks  PROVE Follows(t, row[t], r[t], OnChain)
      <3> DEFINE x == Released(row[t], t \in timedOut)
      <3>1. Follows(t, row[t], x, OnChain)
        BY ReleasedFollows DEF RoundInv
      <3>2. r[t] = Promoted(x)
        OBVIOUS
      <3> HIDE DEF x
      <3>3. Follows(t, x, Promoted(x), OnChain)
        BY <3>1, PromotedFollows DEF Follows
      <3> QED  BY <3>1, <3>2, <3>3, FollowsOn
    <2>2. r = [t \in Tasks |-> r[t]]
      OBVIOUS
    <2> HIDE DEF r
    <2> QED  BY <2>1, <2>2 DEF RowsFollow, Follows
  <1> HIDE DEF r
  <1>3. RowsFollow(r, row', OnChain)
    <2>1. ASSUME NEW t \in Candidates(r, v), row' = [r EXCEPT ![t].assigned = TRUE]
          PROVE  RowsFollow(r, row', OnChain)
      <3>1. t \in Tasks /\ r[t] \in TaskRows
        BY <1>2 DEF Candidates, RowsFollow
      <3>2. Follows(t, r[t], [r[t] EXCEPT !.assigned = TRUE], OnChain)
        BY <3>1 DEF Follows, TaskRows, Rows
      <3>3. row' = [r EXCEPT ![t] = [r[t] EXCEPT !.assigned = TRUE]]
        BY <2>1
      <3>4. r \in [Tasks -> TaskRows]
        BY <1>2 DEF RowsFollow
      <3> QED  BY <3>1, <3>2, <3>3, <3>4, OneFollows
    <2> QED  BY <1>1, <1>2, <2>1, RowsFollowSelf DEF r, RowsFollow
  <1> QED  BY <1>2, <1>3, RowsFollowOn DEF Stays, GetValidationJob

LEMMA NextIsChainStep ==
    ASSUME RoundInv, [Next]_vars
    PROVE  ChainStep
  <1>1. ASSUME UNCHANGED << row, chain >>  PROVE Stays
    BY <1>1, RowsFollowSelf DEF Stays, RoundInv
  <1>2. ASSUME NEW m, NextTask(m) \/ AskTask(m)  PROVE Stays
    BY <1>1, <1>2, NextTaskStays DEF AskTask
  <1>3. ASSUME NEW q \in asking, GiveTask(q)  PROVE Stays
    BY <1>3, GivenFollows DEF GiveTask, Stays, RoundInv, TypeOK
  <1>4. ASSUME CleanupExpiredTasks  PROVE Stays
    BY <1>4, SweepFollows DEF CleanupExpiredTasks, Stays, RoundInv
  <1>5. ASSUME NEW v, GetValidationJob(v) \/ ValidatorToggles(v)  PROVE Stays
    BY <1>1, <1>5, JobSteps DEF ValidatorToggles
  <1>6. ASSUME NEW t, NEW v, Vote(t, v)  PROVE Stays
    BY <1>1, <1>6 DEF Vote, VoteCheck
  <1>7. ASSUME NEW b \in Foreign, ImportForeign(b)  PROVE ChainStep
    BY <1>7 DEF ImportForeign, ChainStep
  <1>8. ASSUME NEW b \in Foreign, NEW c \in Foreign, ReorgTip(b, c)  PROVE GivesWay(b, c)
    <2>1. row' = [t \in Tasks |-> IF t = Tip THEN OrphanedRow(row[t]) ELSE row[t]]
      BY <1>8 DEF ReorgTip
    <2>2. ASSUME NEW t \in Tasks  PROVE Follows(t, row[t], row'[t], OnChain)
      BY <2>1, OrphanedFollows, FollowsSelf DEF RoundInv
    <2>3. RowsFollow(row, row', OnChain)
      BY <2>1, <2>2 DEF RowsFollow, Follows
    <2>4. \A t \in Tasks : t = Tip => row'[t].status # "accepted"
      BY <2>1 DEF OrphanedRow, RoundInv, TaskRows, Rows
    <2> QED  BY <1>8, <2>3, <2>4 DEF ReorgTip, GivesWay
  <1>9. ASSUME Restart \/ UNCHANGED vars  PROVE Stays
    BY <1>1, <1>9 DEF Restart, vars
  <1>10. ASSUME NEW t \in Tasks,
                CommitTask(t) \/ RevealTask(t) \/ RejectReveal(t) \/ SubmitTask(t)
         PROVE  ChainStep
    BY <1>10, TaskHandlerSteps DEF ChainStep
  <1>11. ASSUME NEW q \in voting, VoteCommit(q)  PROVE ChainStep
    <2>1. q.task \in Tasks
      BY DEF RoundInv, TypeOK, VoteRequests
    <2> QED  BY <1>11, <2>1, VoteSteps DEF ChainStep
  <1>12. Stays => ChainStep
    BY DEF ChainStep
  <1>13. ASSUME NEW b \in Foreign, NEW c \in Foreign, ReorgTip(b, c)  PROVE ChainStep
    BY <1>8, <1>13 DEF ChainStep
  <1> QED
    BY <1>2, <1>3, <1>4, <1>5, <1>6, <1>7, <1>9, <1>10, <1>11, <1>12, <1>13
       DEF Next, RoundStep

-------------------------------------------------------------------------------
(* Type correctness and the rounds of the blocks.                          *)

LEMMA ChainStepTypes ==
    ASSUME RoundInv, ChainStep
    PROVE  /\ row' \in [Tasks -> TaskRows]
           /\ chain' \in Seq(Blocks) /\ Len(chain') > 0
           /\ \A t \in Tasks : row[t].status # "none" =>
                 row'[t].status # "none" /\ row'[t].round = row[t].round
  <1>1. chain \in Seq(Blocks) /\ Len(chain) > 0 /\ row \in [Tasks -> TaskRows]
    BY DEF RoundInv, TypeOK
  <1>2. ASSUME NEW on, RowsFollow(row, row', on)
        PROVE  /\ row' \in [Tasks -> TaskRows]
               /\ \A t \in Tasks : row[t].status # "none" =>
                     row'[t].status # "none" /\ row'[t].round = row[t].round
    BY <1>2 DEF RowsFollow, Follows
  <1>3. ASSUME NEW b \in Blocks, chain' = Append(chain, b)
        PROVE  chain' \in Seq(Blocks) /\ Len(chain') > 0
    BY <1>1, <1>3
  <1>4. ASSUME NEW b \in Foreign, NEW c \in Foreign, GivesWay(b, c)
        PROVE  chain' \in Seq(Blocks) /\ Len(chain') > 0
    <2>1. SubSeq(chain, 1, Len(chain) - 1) \in Seq(Blocks) /\ << b, c >> \in Seq(Blocks)
      BY <1>1, <1>4 DEF GivesWay, Blocks
    <2> QED  BY <1>4, <2>1, ConcatProperties DEF GivesWay
  <1>5. CASE Stays
    BY <1>1, <1>2, <1>5 DEF Stays
  <1>6. ASSUME NEW q \in voting, AcceptsOwn(q)
        PROVE  row' \in [Tasks -> TaskRows] /\ chain' = chain
    BY <1>2, <1>6 DEF AcceptsOwn
  <1>7. ASSUME NEW q \in voting, AcceptsOwn(q)
        PROVE  \A t \in Tasks : row[t].status # "none" =>
                  row'[t].status # "none" /\ row'[t].round = row[t].round
    BY <1>2, <1>7 DEF AcceptsOwn
  <1>8. CASE \E t \in Tasks : Wins(t)
    BY <1>2, <1>3, <1>8 DEF Wins, Blocks
  <1>9. CASE \E b \in Foreign : chain' = Append(chain, b) /\ row' = row
    BY <1>1, <1>3, <1>9 DEF Blocks
  <1>10. CASE \E b, c \in Foreign : GivesWay(b, c)
    BY <1>2, <1>4, <1>10 DEF GivesWay
  <1> QED  BY <1>1, <1>5, <1>6, <1>7, <1>8, <1>9, <1>10 DEF ChainStep

LEMMA StepTypes ==
    ASSUME RoundInv, [Next]_vars
    PROVE  /\ vote' \in [Tasks -> Ballots]
           /\ paid' \in [Tasks -> SUBSET Validators]
           /\ penalty' \in [Tasks -> Nat]
           /\ arrived' \subseteq Foreign
           /\ online' \subseteq Validators
           /\ asking' \subseteq Asks
           /\ voting' \subseteq VoteRequests
           /\ \A q \in voting' : row[q.task].status # "none"
  <1> USE DEF RoundInv, TypeOK
  <1>1. CASE UNCHANGED << vote, paid, penalty, arrived, online, asking, voting >>
    BY <1>1
  <1>2. ASSUME NEW m, AskTask(m)
        PROVE  asking' \subseteq Asks /\ UNCHANGED << vote, paid, penalty, arrived, online, voting >>
    BY <1>2, OffersAreAsks DEF AskTask
  <1>3. ASSUME NEW q \in asking, GiveTask(q)
        PROVE  asking' \subseteq Asks /\ UNCHANGED << vote, paid, penalty, arrived, online, voting >>
    BY <1>3 DEF GiveTask
  <1>4. ASSUME NEW t \in Tasks, NEW v \in Validators, Vote(t, v)
        PROVE  /\ voting' \subseteq VoteRequests
               /\ \A q \in voting' : row[q.task].status # "none"
               /\ UNCHANGED << vote, paid, penalty, arrived, online, asking >>
    <2>1. PICK approved \in BOOLEAN, path \in {"submit", "gossip", "retry"} :
            VoteCheck(t, v, approved, path)
      BY <1>4 DEF Vote
    <2> DEFINE q == [task |-> t, validator |-> v, approved |-> approved,
                     path |-> path, open |-> row[t].job = "pending"]
    <2>2. q \in VoteRequests /\ q.task = t
      BY DEF VoteRequests
    <2>3. row[t].status # "none"
      BY <2>1 DEF VoteCheck, TaskRows
    <2>4. voting' = voting \cup {q} /\ UNCHANGED << vote, paid, penalty, arrived, online, asking >>
      BY <2>1 DEF VoteCheck
    <2> HIDE DEF q
    <2> QED  BY <2>2, <2>3, <2>4
  <1>5. ASSUME NEW q \in voting, VoteCommit(q)
        PROVE  /\ vote' \in [Tasks -> Ballots]
               /\ paid' \in [Tasks -> SUBSET Validators]
               /\ penalty' \in [Tasks -> Nat]
               /\ voting' \subseteq VoteRequests
               /\ \A p \in voting' : row[p.task].status # "none"
               /\ UNCHANGED << arrived, online, asking >>
    <2>1. q \in VoteRequests /\ q.task \in Tasks /\ q.validator \in Validators
      BY DEF VoteRequests
    <2>2. ASSUME NEW ballot, NEW path, Accept(q.task, ballot, path)
          PROVE  paid' \in [Tasks -> SUBSET Validators]
      BY <2>2 DEF Accept, AcceptExisting, AcceptBlock, AcceptFails, AcceptDeferred, Approvers
    <2>3. ASSUME NEW ballot, NEW path, FinalizeApproved(q.task, ballot, path)
          PROVE  paid' \in [Tasks -> SUBSET Validators] /\ penalty' = penalty
      BY <2>2, <2>3 DEF FinalizeApproved
    <2>4. ASSUME FinalizeRejected(q.task)
          PROVE  paid' = paid /\ penalty' \in [Tasks -> Nat]
      BY <2>1, <2>4 DEF FinalizeRejected
    <2>5. CASE RetryReads(q)
      <3>1. \A path \in {"missed", "own", "other"} :
              [q EXCEPT !.path = path] \in VoteRequests /\ [q EXCEPT !.path = path].task = q.task
        BY <2>1 DEF VoteRequests
      <3>2. \E path \in {"missed", "own", "other"} :
              voting' \subseteq (voting \cup {[q EXCEPT !.path = path]})
        BY <2>5 DEF RetryReads
      <3> QED  BY <1>5, <2>5, <3>1, <3>2 DEF RetryReads, VoteCommit
    <2>6. CASE voting' = voting \ {q} /\ VoteInserted(q)
      <3>1. Recorded(q) \in Ballots
        BY <2>1 DEF Recorded, Ballots
      <3>2. vote' \in [Tasks -> Ballots]
        BY <2>6, <3>1 DEF VoteInserted
      <3>3. \/ FinalizeApproved(q.task, Recorded(q), q.path)
            \/ FinalizeRejected(q.task)
            \/ UNCHANGED << paid, penalty >>
        BY <2>6 DEF VoteInserted
      <3> QED  BY <1>5, <2>3, <2>4, <2>6, <3>2, <3>3 DEF VoteCommit
    <2>7. CASE voting' = voting \ {q} /\ VoteRepeated(q)
      <3>1. FinalizeApproved(q.task, vote[q.task], "gossip") \/ UNCHANGED << paid, penalty >>
        BY <2>7 DEF VoteRepeated
      <3> QED  BY <1>5, <2>3, <2>7, <3>1 DEF VoteCommit, VoteRepeated
    <2>8. CASE voting' = voting \ {q} /\ RetryWrites(q)
      <3>1. Accept(q.task, vote[q.task], "gossip") \/ UNCHANGED paid
        BY <2>8 DEF RetryWrites
      <3> QED  BY <1>5, <2>2, <2>8, <3>1 DEF VoteCommit, RetryWrites
    <2> QED  BY <1>5, <2>5, <2>6, <2>7, <2>8 DEF VoteCommit
  <1>6. ASSUME NEW b \in Foreign, NEW c \in Foreign, ReorgTip(b, c)
        PROVE  /\ paid' \in [Tasks -> SUBSET Validators] /\ arrived' \subseteq Foreign
               /\ UNCHANGED << vote, penalty, online, asking, voting >>
    BY <1>6 DEF ReorgTip
  <1>7. CASE Restart
    BY <1>7 DEF Restart
  <1>8. ASSUME NEW v \in Validators, ValidatorToggles(v)
        PROVE  online' \subseteq Validators /\ UNCHANGED << vote, paid, penalty, arrived, asking, voting >>
    BY <1>8 DEF ValidatorToggles
  <1>9. ASSUME NEW b \in Foreign, ImportForeign(b)
        PROVE  arrived' \subseteq Foreign /\ UNCHANGED << vote, paid, penalty, online, asking, voting >>
    BY <1>9 DEF ImportForeign
  <1>10. ASSUME \/ \E m \in Miners : NextTask(m)
                \/ \E t \in Tasks : CommitTask(t) \/ RevealTask(t) \/ RejectReveal(t) \/ SubmitTask(t)
                \/ CleanupExpiredTasks
                \/ \E v \in Validators : GetValidationJob(v)
                \/ UNCHANGED vars
         PROVE  UNCHANGED << vote, paid, penalty, arrived, online, asking, voting >>
    BY <1>10 DEF NextTask, CommitTask, RevealTask, RejectReveal, SubmitTask, CleanupExpiredTasks,
       GetValidationJob, vars
  <1> QED
    BY <1>1, <1>2, <1>3, <1>4, <1>5, <1>6, <1>7, <1>8, <1>9, <1>10 DEF Next, RoundStep

(* The blocks of a chain that are tasks were given and extend their rounds.*)
Anchored(c, r) ==
    \A i \in 1..Len(c) : c[i] \in Tasks =>
        r[c[i]].status # "none" /\ (i > 1 => r[c[i]].round = c[i - 1])

LEMMA RoundInvIsAnchored == RoundInv => Anchored(chain, row)
  <1> SUFFICES ASSUME RoundInv  PROVE Anchored(chain, row)
    OBVIOUS
  <1>1. ASSUME NEW i \in 1..Len(chain), chain[i] \in Tasks
        PROVE  row[chain[i]].status # "none"
    <2>1. chain[i] \in OnChain
      BY DEF OnChain
    <2> QED  BY <1>1, <2>1 DEF RoundInv
  <1>2. Len(chain) \in Nat
    BY DEF RoundInv, TypeOK
  <1> QED  BY <1>1, <1>2 DEF RoundInv, BlocksExtendTheirRound, Anchored

LEMMA ForeignAreNoTasks == Foreign \cap Tasks = {} /\ Genesis \notin Tasks
  BY RoundConstants

LEMMA AppendAnchored ==
    ASSUME chain \in Seq(Blocks), Len(chain) > 0, Anchored(chain, row'),
           NEW b \in Blocks, chain' = Append(chain, b),
           b \in Tasks => row'[b].status # "none" /\ row'[b].round = Tip
    PROVE  Anchored(chain', row')
  <1>1. /\ Len(chain) \in Nat /\ Len(chain') = Len(chain) + 1 /\ chain'[Len(chain) + 1] = b
        /\ \A i \in 1..Len(chain) : chain'[i] = chain[i]
    OBVIOUS
  <1>2. SUFFICES ASSUME NEW i \in 1..(Len(chain) + 1), chain'[i] \in Tasks
                 PROVE  /\ row'[chain'[i]].status # "none"
                        /\ i > 1 => row'[chain'[i]].round = chain'[i - 1]
    BY <1>1 DEF Anchored
  <1>3. CASE i \in 1..Len(chain)
    <2>1. chain'[i] = chain[i] /\ (i > 1 => chain'[i - 1] = chain[i - 1])
      BY <1>1, <1>3
    <2> QED  BY <1>2, <1>3, <2>1 DEF Anchored
  <1>4. CASE i = Len(chain) + 1
    <2>1. chain'[i] = b /\ chain'[i - 1] = Tip
      BY <1>1, <1>4 DEF Tip
    <2> QED  BY <1>2, <2>1
  <1> QED  BY <1>1, <1>3, <1>4

LEMMA StaysAnchored ==
    ASSUME RoundInv, ChainStep
    PROVE  Anchored(chain', row')
  <1>1. /\ chain \in Seq(Blocks) /\ Len(chain) \in Nat /\ Len(chain) > 0
        /\ Anchored(chain, row)
    BY RoundInvIsAnchored DEF RoundInv, TypeOK
  <1>2. \A t \in Tasks : row[t].status # "none" =>
            row'[t].status # "none" /\ row'[t].round = row[t].round
    BY ChainStepTypes
  <1>3. Anchored(chain, row')
    BY <1>1, <1>2 DEF Anchored
  <1>4. ASSUME NEW b \in Blocks, chain' = Append(chain, b),
               b \in Tasks => row'[b].status # "none" /\ row'[b].round = Tip
        PROVE  Anchored(chain', row')
    BY <1>1, <1>3, <1>4, AppendAnchored
  <1>5. ASSUME NEW b \in Foreign, NEW c \in Foreign, GivesWay(b, c)
        PROVE  Anchored(chain', row')
    <2> DEFINE front == SubSeq(chain, 1, Len(chain) - 1)
    <2>1. /\ front \in Seq(Blocks) /\ Len(front) = Len(chain) - 1
          /\ \A i \in 1..(Len(chain) - 1) : front[i] = chain[i]
          /\ << b, c >> \in Seq(Blocks) /\ Len(<< b, c >>) = 2
      BY <1>1, <1>5 DEF GivesWay, Blocks
    <2> HIDE DEF front
    <2>2. /\ chain' = front \o << b, c >>
          /\ Len(chain') = Len(chain) + 1
          /\ \A i \in 1..(Len(chain) + 1) :
                chain'[i] = IF i <= Len(front) THEN front[i] ELSE << b, c >>[i - Len(front)]
      <3>1. chain' = front \o << b, c >>
        BY <1>5 DEF GivesWay, front
      <3>2. Len(front) + Len(<< b, c >>) = Len(chain) + 1
        BY <1>1, <2>1
      <3> QED  BY <2>1, <3>1, <3>2, ConcatProperties
    <2>3. SUFFICES ASSUME NEW i \in 1..(Len(chain) + 1), chain'[i] \in Tasks
                   PROVE  /\ row'[chain'[i]].status # "none"
                          /\ i > 1 => row'[chain'[i]].round = chain'[i - 1]
      BY <2>2 DEF Anchored
    <2>4. CASE i \in 1..(Len(chain) - 1)
      <3>1. chain'[i] = chain[i]
        BY <1>1, <2>1, <2>2, <2>4
      <3>2. i > 1 => chain'[i - 1] = chain[i - 1]
        BY <1>1, <2>1, <2>2, <2>4
      <3> QED  BY <1>1, <1>3, <2>3, <2>4, <3>1, <3>2 DEF Anchored
    <2>5. CASE i \in {Len(chain), Len(chain) + 1}
      <3>1. chain'[i] \in {b, c}
        BY <1>1, <2>1, <2>2, <2>5
      <3> QED  BY <2>3, <3>1, ForeignAreNoTasks
    <2> QED  BY <1>1, <2>4, <2>5
  <1>6. CASE Stays
    BY <1>3, <1>6 DEF Stays
  <1>7. ASSUME NEW q \in voting, AcceptsOwn(q)  PROVE Anchored(chain', row')
    BY <1>3, <1>7 DEF AcceptsOwn
  <1>8. ASSUME NEW t \in Tasks, Wins(t)  PROVE Anchored(chain', row')
    BY <1>4, <1>8 DEF Wins, Blocks
  <1>9. ASSUME NEW b \in Foreign, chain' = Append(chain, b)  PROVE Anchored(chain', row')
    BY <1>4, <1>9, ForeignAreNoTasks DEF Blocks
  <1> QED  BY <1>5, <1>6, <1>7, <1>8, <1>9 DEF ChainStep

LEMMA InitHasInv == Init => RoundInv
  <1> SUFFICES ASSUME Init  PROVE RoundInv
    OBVIOUS
  <1>1. [NewTask(Genesis) EXCEPT !.status = "none"] \in TaskRows
    BY DEF NewTask, TaskRows, Rows, TaskStatus, JobStatus, Blocks
  <1>2. row \in [Tasks -> TaskRows] /\ TaskRows \subseteq Rows
    BY <1>1 DEF Init, TaskRows
  <1>3. chain \in Seq(Blocks) /\ Len(chain) = 1 /\ chain[1] = Genesis
    BY DEF Init, Blocks
  <1>4. OnChain = {Genesis} /\ BlocksExtendTheirRound
    BY <1>3 DEF OnChain, BlocksExtendTheirRound
  <1>5. vote \in [Tasks -> Ballots]
    BY DEF Init, Ballots
  <1>6. TypeOK
    <2>1. paid \in [Tasks -> SUBSET Validators] /\ penalty \in [Tasks -> Nat]
      BY DEF Init
    <2>2. arrived \subseteq Foreign /\ online \subseteq Validators
      BY DEF Init
    <2>3. asking \subseteq Asks /\ voting \subseteq VoteRequests
      BY DEF Init
    <2> QED  BY <1>2, <1>3, <1>5, <2>1, <2>2, <2>3 DEF TypeOK
  <1>7. Tasks \cap OnChain = {} /\ voting = {}
    BY <1>4, ForeignAreNoTasks DEF Init
  <1> QED  BY <1>2, <1>4, <1>6, <1>7 DEF RoundInv

LEMMA AnchoredInv ==
    ASSUME TypeOK', row' \in [Tasks -> TaskRows], Anchored(chain', row'),
           \A q \in voting' : row'[q.task].status # "none"
    PROVE  RoundInv'
  <1>1. \A t \in Tasks \cap OnChain' : row'[t].status # "none"
    BY DEF OnChain, Anchored
  <1>2. BlocksExtendTheirRound'
    BY DEF TypeOK, BlocksExtendTheirRound, Anchored
  <1> QED  BY <1>1, <1>2 DEF RoundInv

LEMMA RoundInvStep == ASSUME RoundInv, [Next]_vars  PROVE RoundInv'
  <1>1. ChainStep
    BY NextIsChainStep
  <1>2. /\ row' \in [Tasks -> TaskRows] /\ TaskRows \subseteq Rows
        /\ chain' \in Seq(Blocks) /\ Len(chain') > 0
        /\ \A t \in Tasks : row[t].status # "none" => row'[t].status # "none"
    BY <1>1, ChainStepTypes DEF TaskRows
  <1>3. Anchored(chain', row')
    BY <1>1, StaysAnchored
  <1>4. TypeOK'
    BY <1>2, StepTypes DEF TypeOK
  <1>5. \A q \in voting' : row'[q.task].status # "none"
    BY <1>2, StepTypes DEF VoteRequests
  <1> QED  BY <1>2, <1>3, <1>4, <1>5, AnchoredInv

LEMMA RoundInvHolds == Spec => []RoundInv
  <1>1. RoundInv /\ [Next]_vars => RoundInv'
    BY RoundInvStep
  <1> QED  BY <1>1, InitHasInv, PTL DEF Spec

(* Whatever the handlers read before the lock, what they write is a value  *)
(* the code knows.                                                         *)
THEOREM TypeCorrect == Spec => []TypeOK
  <1>1. RoundInv => TypeOK
    BY DEF RoundInv
  <1> QED  BY <1>1, RoundInvHolds, PTL

(* No quorum that completes late, and no reorg between a vote's reads and  *)
(* its write, puts a task's block on another block than its round's.       *)
THEOREM RoundsAreExtended == Spec => []BlocksExtendTheirRound
  <1>1. RoundInv => BlocksExtendTheirRound
    BY DEF RoundInv
  <1> QED  BY <1>1, RoundInvHolds, PTL

-------------------------------------------------------------------------------
(* Acceptance.                                                             *)

LEMMA AcceptanceStep ==
    ASSUME RoundInv, [Next]_vars, NEW t \in Tasks,
           row'[t].status = "accepted", t \notin OnChain',
           ~ (row[t].status = "accepted" /\ t \notin OnChain)
    PROVE  \E q \in voting : q.task = t /\ q.path = "own"
  <1>1. ChainStep
    BY NextIsChainStep
  <1>2. chain \in Seq(Blocks) /\ Len(chain) \in Nat /\ Len(chain) > 0
    BY DEF RoundInv, TypeOK
  <1>3. ASSUME NEW b \in Blocks, chain' = Append(chain, b)
        PROVE  OnChain \cup {b} \subseteq OnChain'
    <2>1. /\ Len(chain') = Len(chain) + 1 /\ chain'[Len(chain) + 1] = b
          /\ \A i \in 1..Len(chain) : chain'[i] = chain[i]
      BY <1>2, <1>3
    <2> QED  BY <1>2, <2>1 DEF OnChain
  <1>4. CASE Stays
    BY <1>4 DEF Stays, RowsFollow, Follows, OnChain
  <1>5. ASSUME NEW q \in voting, AcceptsOwn(q)
        PROVE  \E p \in voting : p.task = t /\ p.path = "own"
    <2>1. t \in OnChain \/ t = q.task \/ row[t].status = "accepted"
      BY <1>5 DEF AcceptsOwn, RowsFollow, Follows
    <2>2. OnChain' = OnChain
      BY <1>5 DEF AcceptsOwn, OnChain
    <2> QED  BY <1>5, <2>1, <2>2 DEF AcceptsOwn
  <1>6. ASSUME NEW u \in Tasks, Wins(u)  PROVE FALSE
    <2>1. OnChain \cup {u} \subseteq OnChain'
      BY <1>3, <1>6 DEF Wins, Blocks
    <2> QED  BY <1>6, <2>1 DEF Wins, RowsFollow, Follows
  <1>7. ASSUME NEW b \in Foreign, chain' = Append(chain, b), row' = row  PROVE FALSE
    <2>1. OnChain \cup {b} \subseteq OnChain'
      BY <1>3, <1>7 DEF Blocks
    <2> QED  BY <1>7, <2>1
  <1>8. ASSUME NEW b \in Foreign, NEW c \in Foreign, GivesWay(b, c)  PROVE FALSE
    <2>1. t \in OnChain
      BY <1>8 DEF GivesWay, RowsFollow, Follows
    <2>2. PICK i \in 1..Len(chain) : t = chain[i]
      BY <2>1 DEF OnChain
    <2>3. i # Len(chain)
      BY <1>8, <2>2 DEF GivesWay, Tip
    <2> DEFINE front == SubSeq(chain, 1, Len(chain) - 1)
    <2>4. /\ front \in Seq(Blocks) /\ Len(front) = Len(chain) - 1 /\ front[i] = chain[i]
          /\ << b, c >> \in Seq(Blocks) /\ Len(<< b, c >>) = 2
      BY <1>2, <1>8, <2>3 DEF GivesWay, Blocks
    <2>5. chain' = front \o << b, c >>
      BY <1>8 DEF GivesWay
    <2> HIDE DEF front
    <2>6. i \in 1..Len(front) + Len(<< b, c >>) /\ i <= Len(front)
      BY <1>2, <2>3, <2>4
    <2>7. chain'[i] = front[i] /\ Len(chain') = Len(front) + Len(<< b, c >>)
      BY <2>4, <2>5, <2>6, ConcatProperties
    <2>8. t \in OnChain'
      BY <2>2, <2>4, <2>6, <2>7 DEF OnChain
    <2> QED  BY <2>8
  <1> QED  BY <1>1, <1>4, <1>5, <1>6, <1>7, <1>8 DEF ChainStep

(* A task becomes accepted off the chain by no sweep, vote, block or reorg,*)
(* but only by the repeated vote that read its block before a reorg took it*)
(* away.                                                                   *)
THEOREM AcceptanceStaysAnchored == Spec => AcceptanceIsAnchored
  <1> DEFINE Anchor ==
        \A t \in Tasks : AcceptedOffChain(t)' /\ ~AcceptedOffChain(t) =>
            \E q \in voting : q.task = t /\ q.path = "own"
  <1>1. RoundInv /\ [Next]_vars => [Anchor]_vars
    BY AcceptanceStep DEF AcceptedOffChain
  <1> QED  BY <1>1, RoundInvHolds, PTL DEF Spec, AcceptanceIsAnchored

-------------------------------------------------------------------------------
(* The messages of the peers: who is paid for a block, and that a decision *)
(* is not undone, whatever they say and in whatever order.                 *)

(* The chain: no block comes twice.                                        *)

Distinct(s) == \A i, j \in 1..Len(s) : s[i] = s[j] => i = j
Elements(s) == {s[i] : i \in 1..Len(s)}

LEMMA DistinctAppend ==
    ASSUME NEW S, NEW s \in Seq(S), NEW b \in S, Distinct(s)
    PROVE  /\ Elements(Append(s, b)) = Elements(s) \cup {b}
           /\ b \notin Elements(s) => Distinct(Append(s, b))
           /\ Len(s) > 0 => Append(s, b)[1] = s[1]
  <1> DEFINE t == Append(s, b)
  <1>1. /\ Len(s) \in Nat /\ Len(t) = Len(s) + 1 /\ t[Len(s) + 1] = b
        /\ \A i \in 1..Len(s) : t[i] = s[i]
    OBVIOUS
  <1> HIDE DEF t
  <1>2. Elements(t) = Elements(s) \cup {b}
    <2>1. \A x \in Elements(s) \cup {b} : x \in Elements(t)
      BY <1>1 DEF Elements
    <2>2. \A x \in Elements(t) : x \in Elements(s) \cup {b}
      BY <1>1 DEF Elements
    <2> QED  BY <2>1, <2>2
  <1>3. b \notin Elements(s) => Distinct(t)
    BY <1>1 DEF Elements, Distinct
  <1>4. Len(s) > 0 => t[1] = s[1]
    BY <1>1
  <1> QED  BY <1>2, <1>3, <1>4 DEF t

(* A sibling of the last element and its child in the place of it.         *)
Forked(s, b, c, t) ==
    /\ Elements(t) = (Elements(s) \ {s[Len(s)]}) \cup {b, c}
    /\ {b, c} \cap Elements(s) = {} => Distinct(t)
    /\ t[1] = s[1]

LEMMA DistinctFork ==
    ASSUME NEW S, NEW s \in Seq(S), NEW b \in S, NEW c \in S, Distinct(s), Len(s) > 1, b # c,
           NEW t, t = SubSeq(s, 1, Len(s) - 1) \o << b, c >>
    PROVE  Forked(s, b, c, t)
  <1> DEFINE front == SubSeq(s, 1, Len(s) - 1)
             pair == << b, c >>
             n == Len(s) - 1
  <1>1. /\ n \in Nat \ {0} /\ Len(s) = n + 1
        /\ front \in Seq(S) /\ Len(front) = n
        /\ \A i \in 1..n : front[i] = s[i]
        /\ pair \in Seq(S) /\ Len(pair) = 2 /\ pair[1] = b /\ pair[2] = c
    OBVIOUS
  <1>2. t = front \o pair
    OBVIOUS
  <1> HIDE DEF front, pair, n
  <1>3. /\ Len(t) = n + 2
        /\ \A i \in 1..(n + 2) : t[i] = IF i <= n THEN front[i] ELSE pair[i - n]
    BY <1>1, <1>2, ConcatProperties
  <1>4. t[n + 1] = b /\ t[n + 2] = c /\ \A i \in 1..n : t[i] = s[i]
    <2>1. /\ n + 1 \in 1..(n + 2) /\ ~(n + 1 <= n) /\ (n + 1) - n = 1
          /\ n + 2 \in 1..(n + 2) /\ ~(n + 2 <= n) /\ (n + 2) - n = 2
      BY <1>1
    <2>2. t[n + 1] = b /\ t[n + 2] = c
      BY <1>1, <1>3, <2>1
    <2>3. \A i \in 1..n : i \in 1..(n + 2) /\ i <= n
      BY <1>1
    <2> QED  BY <1>1, <1>3, <2>2, <2>3
  <1>5. Elements(t) = (Elements(s) \ {s[n + 1]}) \cup {b, c}
    <2>1. \A x \in Elements(t) : x \in (Elements(s) \ {s[n + 1]}) \cup {b, c}
      BY <1>1, <1>3, <1>4 DEF Elements, Distinct
    <2>2. \A x \in (Elements(s) \ {s[n + 1]}) \cup {b, c} : x \in Elements(t)
      <3>1. b \in Elements(t) /\ c \in Elements(t)
        BY <1>1, <1>3, <1>4 DEF Elements
      <3>2. ASSUME NEW x \in Elements(s), x # s[n + 1]  PROVE x \in Elements(t)
        <4>1. PICK i \in 1..(n + 1) : x = s[i]
          BY <1>1 DEF Elements
        <4>2. i # n + 1
          BY <3>2, <4>1
        <4>3. i \in 1..n /\ i \in 1..(n + 2)
          BY <1>1, <4>2
        <4> QED  BY <1>3, <1>4, <4>1, <4>3 DEF Elements
      <3> QED  BY <3>1, <3>2
    <2> QED  BY <2>1, <2>2
  <1>6. {b, c} \cap Elements(s) = {} => Distinct(t)
    <2> SUFFICES ASSUME {b, c} \cap Elements(s) = {},
                        NEW i \in 1..(n + 2), NEW j \in 1..(n + 2), i < j
                 PROVE  t[i] # t[j]
      BY <1>1, <1>3 DEF Distinct
    <2>1. CASE j <= n
      <3>1. i \in 1..n /\ j \in 1..n /\ i \in 1..(n + 1) /\ j \in 1..(n + 1)
        BY <1>1, <2>1
      <3> QED  BY <1>1, <1>4, <3>1 DEF Distinct
    <2>2. CASE i <= n /\ j > n
      <3>1. i \in 1..n /\ i \in 1..Len(s) /\ j \in {n + 1, n + 2}
        BY <1>1, <2>2
      <3>2. t[i] \in Elements(s)
        BY <1>4, <3>1 DEF Elements
      <3> QED  BY <1>4, <3>1, <3>2
    <2>3. CASE i > n
      <3>1. i = n + 1 /\ j = n + 2
        BY <1>1, <2>3
      <3> QED  BY <1>4, <3>1
    <2> QED  BY <1>1, <2>1, <2>2, <2>3
  <1>7. t[1] = s[1]
    <2>1. 1 \in 1..n
      BY <1>1
    <2> QED  BY <1>4, <2>1
  <1>8. s[n + 1] = s[Len(s)]
    BY <1>1
  <1> QED  BY <1>5, <1>6, <1>7, <1>8 DEF Forked

-------------------------------------------------------------------------------
(* What a row may not lose: the decision of its job, the acceptance of its *)
(* task.                                                                   *)

Keeps(x, y) ==
    /\ x.job \in Decided => y.job = x.job
    /\ x.status = "accepted" => y.status = "accepted"

LEMMA KeepsOn ==
    ASSUME NEW x, NEW y, NEW z, Keeps(x, y), Keeps(y, z)
    PROVE  Keeps(x, z)
  BY DEF Keeps

LEMMA RowKeeps ==
    ASSUME NEW x \in TaskRows, NEW t
    PROVE  /\ Keeps(x, MarkedStale(x))
           /\ \A timedOut : Keeps(x, Released(x, timedOut))
           /\ Keeps(x, ClosedTerminal(t, x))
           /\ Keeps(x, ClosedObsolete(x))
           /\ \A due : Keeps(x, PastDeadline(t, x, due))
           /\ Keeps(x, Resumed(x))
           /\ x.status = "expired" => Keeps(x, Revived(x))
           /\ Keeps(x, CommittedRow(x))
           /\ Keeps(x, Promoted(x))
  <1>1. Keeps(x, MarkedStale(x))
    BY DEF Keeps, MarkedStale, TaskRows, Rows, Active, Decided
  <1>2. ASSUME NEW timedOut  PROVE Keeps(x, Released(x, timedOut))
    BY DEF Keeps, Released, TaskRows, Rows
  <1>3. Keeps(x, ClosedTerminal(t, x))
    BY DEF Keeps, ClosedTerminal, TaskRows, Rows
  <1>4. Keeps(x, ClosedObsolete(x))
    BY <1>1 DEF Keeps, ClosedObsolete
  <1>5. ASSUME NEW due  PROVE Keeps(x, PastDeadline(t, x, due))
    <2> DEFINE y == [x EXCEPT !.status = "expired", !.job = IF @ = "pending" THEN "expired" ELSE @]
    <2>1. PastDeadline(t, x, due) = x \/ (PastDeadline(t, x, due) = y /\ x.status # "accepted")
      BY DEF PastDeadline
    <2>2. x.status # "accepted" => Keeps(x, y)
      BY DEF Keeps, TaskRows, Rows, Decided
    <2> HIDE DEF y
    <2> QED  BY <2>1, <2>2 DEF Keeps
  <1>6. x.status = "expired" => Keeps(x, Revived(x))
    BY DEF Keeps, Revived, TaskRows, Rows
  <1>7. Keeps(x, Resumed(x))
    BY <1>6 DEF Keeps, Resumed, Resumable
  <1>8. Keeps(x, CommittedRow(x))
    <2>1. x.status # "assigned" => Keeps(x, CommittedRow(x))
      BY DEF Keeps, CommittedRow
    <2>2. x.status = "assigned" => Keeps(x, CommittedRow(x))
      <3>1. Keeps(x, [x EXCEPT !.status = "committed", !.committed = TRUE]) \/ x.status # "assigned"
        BY DEF Keeps, TaskRows, Rows
      <3> QED  BY <1>1, <3>1 DEF Keeps, CommittedRow
    <2> QED  BY <2>1, <2>2
  <1>9. Keeps(x, Promoted(x))
    BY DEF Keeps, Promoted, TaskRows, Rows
  <1> QED  BY <1>1, <1>2, <1>3, <1>4, <1>5, <1>6, <1>7, <1>8, <1>9

LEMMA SweepKeeps ==
    ASSUME row \in [Tasks -> TaskRows], NEW r \in Sweeps, NEW t \in Tasks
    PROVE  Keeps(row[t], r[t])
  <1>1. PICK due, timedOut : r = Swept(due, timedOut)
    BY DEF Sweeps
  <1> DEFINE a == Released(row[t], t \in timedOut)
             b == ClosedTerminal(t, a)
             c == ClosedObsolete(b)
             d == PastDeadline(t, c, t \in due)
  <1>2. r[t] = d
    BY <1>1 DEF Swept
  <1>3. a \in TaskRows /\ Keeps(row[t], a)
    BY RowKeeps, ReleasedFollows DEF Follows
  <1> HIDE DEF a
  <1>4. b \in TaskRows /\ Keeps(a, b)
    BY <1>3, RowKeeps, ClosedTerminalFollows DEF Follows
  <1> HIDE DEF b
  <1>5. c \in TaskRows /\ Keeps(b, c)
    BY <1>4, RowKeeps, ClosedObsoleteFollows DEF Follows
  <1> HIDE DEF c
  <1>6. Keeps(c, d)
    BY <1>5, RowKeeps
  <1> HIDE DEF d
  <1> QED  BY <1>2, <1>3, <1>4, <1>5, <1>6, KeepsOn

(* The write of one row after a sweep.                                     *)
LEMMA SweptWriteKeeps ==
    ASSUME row \in [Tasks -> TaskRows], NEW r \in Sweeps, NEW u \in Tasks, NEW y,
           row' = [r EXCEPT ![u] = y], Keeps(r[u], y), NEW t \in Tasks
    PROVE  Keeps(row[t], row'[t])
  <1>1. r \in [Tasks -> TaskRows] /\ Keeps(row[t], r[t])
    BY SweepFollows, SweepKeeps DEF RowsFollow
  <1>2. row'[t] = IF t = u THEN y ELSE r[t]
    BY <1>1
  <1>3. Keeps(r[t], row'[t])
    BY <1>2 DEF Keeps
  <1> QED  BY <1>1, <1>3, KeepsOn

LEMMA GivenKeeps ==
    ASSUME NEW r \in [Tasks -> TaskRows], NEW q \in Asks, NEW t \in Tasks
    PROVE  Keeps(r[t], Given(r, q)[t])
  <1>1. q.task \in Tasks /\ r[q.task] \in TaskRows
    BY DEF Asks
  <1>2. CASE r[q.task].status = "none"
    <2>1. Keeps(r[q.task], NewTask(q.round))
      BY <1>1, <1>2 DEF Keeps, TaskRows, Decided
    <2>2. Given(r, q) = [r EXCEPT ![q.task] = NewTask(q.round)]
      BY <1>2 DEF Given
    <2> QED  BY <1>1, <2>1, <2>2 DEF Keeps
  <1>3. CASE Revivable(r, q) /\ r[q.task].status # "none"
    <2>1. Keeps(r[q.task], Revived(r[q.task]))
      BY <1>1, <1>3, RowKeeps DEF Revivable
    <2>2. Given(r, q) = [r EXCEPT ![q.task] = Revived(r[q.task])]
      BY <1>1, <1>3 DEF Given
    <2> QED  BY <1>1, <2>1, <2>2 DEF Keeps
  <1>4. CASE ~ Revivable(r, q) /\ r[q.task].status # "none"
    BY <1>4 DEF Given, Keeps
  <1> QED  BY <1>2, <1>3, <1>4

LEMMA NextTaskKeeps ==
    ASSUME RoundInv, NEW m, NextTask(m), NEW t \in Tasks
    PROVE  Keeps(row[t], row'[t])
  <1>1. PICK r \in {row} \cup Sweeps :
        \/ \E u \in ResumableOf(r, m) : row' = [r EXCEPT ![u] = Revived(@)]
        \/ \E u \in ActiveOf(r, m) :
             \/ row' = r
             \/ \E x \in ActiveClosed(r[u]) :
                  LET closed == [r EXCEPT ![u] = x]
                  IN  \E q \in Offers(closed, m) : row' = Given(closed, q)
        \/ \E q \in Offers(r, m) : row' = Given(r, q)
    BY DEF NextTask
  <1>2. r \in [Tasks -> TaskRows] /\ Keeps(row[t], r[t])
    BY SweepFollows, SweepKeeps DEF RoundInv, RowsFollow, Keeps
  <1>3. Keeps(r[t], row'[t])
    <2>1. ASSUME NEW u \in ResumableOf(r, m), row' = [r EXCEPT ![u] = Revived(@)]
          PROVE  Keeps(r[t], row'[t])
      <3>1. u \in Tasks /\ Keeps(r[u], Revived(r[u]))
        BY <1>2, RowKeeps DEF ResumableOf, Mine, Resumable
      <3> QED  BY <1>2, <2>1, <3>1 DEF Keeps
    <2>2. ASSUME NEW u \in ActiveOf(r, m), NEW x \in ActiveClosed(r[u]),
                 NEW q \in Offers([r EXCEPT ![u] = x], m),
                 row' = Given([r EXCEPT ![u] = x], q)
          PROVE  Keeps(r[t], row'[t])
      <3> DEFINE closed == [r EXCEPT ![u] = x]
      <3>1. u \in Tasks /\ r[u] \in TaskRows /\ r[u].status \in Active
        BY <1>2 DEF ActiveOf, Mine
      <3>2. Follows(u, r[u], [r[u] EXCEPT !.status = "expired"], OnChain)
        BY <3>1 DEF Follows, TaskRows, Rows, TaskStatus, Active
      <3>3. Follows(u, r[u], x, OnChain)
        BY <3>1, <3>2, MarkedStaleFollows DEF ActiveClosed
      <3>4. Keeps(r[u], x)
        <4>1. Keeps(r[u], [r[u] EXCEPT !.status = "expired"])
          BY <3>1 DEF Keeps, TaskRows, Rows, Active
        <4> QED  BY <3>1, <4>1, RowKeeps DEF ActiveClosed
      <3>5. closed \in [Tasks -> TaskRows]
        BY <1>2, <3>3 DEF Follows
      <3>6. Keeps(r[t], closed[t])
        BY <1>2, <3>1, <3>4 DEF Keeps
      <3>7. row' = Given(closed, q) /\ q \in Asks
        BY <2>2, OffersAreAsks DEF RoundInv
      <3> HIDE DEF closed
      <3>8. Keeps(closed[t], row'[t])
        BY <3>5, <3>7, GivenKeeps
      <3> QED  BY <3>6, <3>8, KeepsOn
    <2>3. ASSUME NEW q \in Offers(r, m), row' = Given(r, q)
          PROVE  Keeps(r[t], row'[t])
      BY <1>2, <2>3, OffersAreAsks, GivenKeeps DEF RoundInv
    <2>4. row' = r => Keeps(r[t], row'[t])
      BY DEF Keeps
    <2> QED  BY <1>1, <2>1, <2>2, <2>3, <2>4
  <1> QED  BY <1>2, <1>3, KeepsOn

(* The rest of the round, when t's block wins.                             *)
LEMMA WonKeeps ==
    ASSUME NEW r \in [Tasks -> TaskRows], NEW u \in Tasks, NEW t \in Tasks
    PROVE  /\ t # u => Keeps(r[t], RoundWon(r, u)[t])
           /\ Keeps(r[t], Submitted(r, u)[t])
  <1>1. Keeps(r[t], MarkedStale(r[t])) /\ Keeps(r[t], r[t])
    BY RowKeeps DEF Keeps
  <1>2. t # u => Keeps(r[t], RoundWon(r, u)[t])
    BY <1>1 DEF RoundWon
  <1>3. Keeps(r[u], [r[u] EXCEPT !.status = "accepted"])
    BY DEF Keeps, TaskRows, Rows
  <1>4. Keeps(r[t], Submitted(r, u)[t])
    BY <1>1, <1>3 DEF Submitted
  <1> QED  BY <1>2, <1>4

LEMMA TaskHandlerKeeps ==
    ASSUME RoundInv, NEW u \in Tasks, NEW t \in Tasks,
           CommitTask(u) \/ RevealTask(u) \/ RejectReveal(u) \/ SubmitTask(u)
    PROVE  Keeps(row[t], row'[t])
  <1>1. row \in [Tasks -> TaskRows]
    BY DEF RoundInv
  <1>2. ASSUME NEW r \in Sweeps
        PROVE  r \in [Tasks -> TaskRows] /\ r[u] \in TaskRows /\ Keeps(row[t], r[t])
    BY <1>1, SweepFollows, SweepKeeps DEF RowsFollow
  <1>3. CASE CommitTask(u)
    <2>1. PICK r \in Sweeps : row' = [r EXCEPT ![u] = CommittedRow(Resumed(@))]
      BY <1>3 DEF CommitTask
    <2>2. Resumed(r[u]) \in TaskRows /\ Keeps(r[u], Resumed(r[u]))
      BY <1>2, ResumedFollows, RowKeeps DEF Follows
    <2>3. Keeps(r[u], CommittedRow(Resumed(r[u])))
      BY <2>2, RowKeeps, KeepsOn
    <2> QED  BY <1>1, <2>1, <2>3, SweptWriteKeeps
  <1>4. CASE RevealTask(u)
    <2>1. PICK r \in Sweeps : row' = [r EXCEPT ![u] = RevealedRow(r, u)]
      BY <1>4 DEF RevealTask
    <2> DEFINE x == Resumed(r[u])
               y == [x EXCEPT !.status = "revealed", !.job = "pending", !.rank = JobsCreated(r)]
    <2>2. x \in TaskRows /\ Keeps(r[u], x)
      BY <1>2, ResumedFollows, RowKeeps DEF Follows
    <2>3. \/ RevealedRow(r, u) = x
          \/ RevealedRow(r, u) = MarkedStale(x)
          \/ RevealedRow(r, u) = y /\ x.status = "committed" /\ x.job = "none"
      BY DEF RevealedRow
    <2> HIDE DEF x
    <2>4. x.status = "committed" /\ x.job = "none" => Keeps(x, y)
      BY DEF Keeps, Decided
    <2> HIDE DEF y
    <2>5. Keeps(x, RevealedRow(r, u))
      BY <2>2, <2>3, <2>4, RowKeeps DEF Keeps
    <2> QED  BY <1>1, <2>1, <2>2, <2>5, KeepsOn, SweptWriteKeeps
  <1>5. CASE RejectReveal(u)
    <2>1. PICK r \in Sweeps :
            /\ Resumed(r[u]).status = "committed"
            /\ row' = [r EXCEPT ![u] = [Resumed(r[u]) EXCEPT !.status = "rejected"]]
      BY <1>5 DEF RejectReveal
    <2> DEFINE x == Resumed(r[u])
    <2>2. x \in TaskRows /\ Keeps(r[u], x) /\ x.status = "committed"
      BY <1>2, <2>1, ResumedFollows, RowKeeps DEF Follows
    <2>3. row' = [r EXCEPT ![u] = [x EXCEPT !.status = "rejected"]]
      BY <2>1
    <2> HIDE DEF x
    <2>4. Keeps(x, [x EXCEPT !.status = "rejected"])
      BY <2>2 DEF Keeps, TaskRows, Rows
    <2> QED  BY <1>1, <2>2, <2>3, <2>4, KeepsOn, SweptWriteKeeps
  <1>6. CASE SubmitTask(u)
    <2>1. PICK r \in Sweeps :
            /\ r[u].status = "assigned"
            /\ \/ row' = [r EXCEPT ![u] = MarkedStale(@)]
               \/ row' = [r EXCEPT ![u].status = "rejected"]
               \/ row' = Submitted(r, u)
      BY <1>6 DEF SubmitTask
    <2>2. CASE row' = [r EXCEPT ![u] = MarkedStale(@)]
      BY <1>1, <1>2, <2>2, RowKeeps, SweptWriteKeeps
    <2>3. CASE row' = [r EXCEPT ![u].status = "rejected"]
      <3>1. Keeps(r[u], [r[u] EXCEPT !.status = "rejected"])
        BY <1>2, <2>1 DEF Keeps, TaskRows, Rows
      <3> QED  BY <1>1, <2>3, <3>1, SweptWriteKeeps
    <2>4. CASE row' = Submitted(r, u)
      BY <1>2, <2>4, WonKeeps, KeepsOn
    <2> QED  BY <2>1, <2>2, <2>3, <2>4
  <1> QED  BY <1>3, <1>4, <1>5, <1>6

LEMMA JobKeeps ==
    ASSUME RoundInv, NEW v, GetValidationJob(v), NEW t \in Tasks
    PROVE  Keeps(row[t], row'[t])
  <1>1. PICK timedOut \in SUBSET Assigned :
          LET r == [u \in Tasks |-> Promoted(Released(row[u], u \in timedOut))]
          IN  row' = r \/ \E u \in Candidates(r, v) : row' = [r EXCEPT ![u].assigned = TRUE]
    BY DEF GetValidationJob
  <1> DEFINE r == [u \in Tasks |-> Promoted(Released(row[u], u \in timedOut))]
             x == Released(row[t], t \in timedOut)
  <1>2. x \in TaskRows /\ Keeps(row[t], x)
    BY RowKeeps, ReleasedFollows DEF RoundInv, Follows
  <1>3. r[t] = Promoted(x) /\ r = [u \in Tasks |-> r[u]]
    OBVIOUS
  <1> HIDE DEF x, r
  <1>4. r[t] \in TaskRows /\ Keeps(row[t], r[t])
    BY <1>2, <1>3, PromotedFollows, RowKeeps, KeepsOn DEF Follows
  <1>5. Keeps(r[t], row'[t])
    <2>1. ASSUME NEW u \in Candidates(r, v), row' = [r EXCEPT ![u].assigned = TRUE]
          PROVE  Keeps(r[t], row'[t])
      <3>1. row'[t] = r[t] \/ row'[t] = [r[t] EXCEPT !.assigned = TRUE]
        BY <1>3, <2>1
      <3> QED  BY <1>4, <3>1 DEF Keeps, TaskRows, Rows
    <2>2. row' = r => Keeps(r[t], row'[t])
      BY DEF Keeps
    <2> QED  BY <1>1, <2>1, <2>2 DEF r
  <1> QED  BY <1>4, <1>5, KeepsOn

-------------------------------------------------------------------------------
(* Votes: what was read before the lock decides what a vote may undo.      *)

LEMMA OthersKeep ==
    ASSUME row \in [Tasks -> TaskRows], NEW u \in Tasks, NEW t \in Tasks \ {u}, NEW ballot, NEW path,
           Accept(u, ballot, path) \/ FinalizeApproved(u, ballot, path) \/ FinalizeRejected(u)
    PROVE  Keeps(row[t], row'[t])
  <1>1. ASSUME NEW y, row' = [row EXCEPT ![u] = y]  PROVE Keeps(row[t], row'[t])
    BY <1>1 DEF Keeps
  <1>2. ASSUME Accept(u, ballot, path)  PROVE Keeps(row[t], row'[t])
    <2>1. AcceptExisting(u) => Keeps(row[t], row'[t])
      BY DEF AcceptExisting, Keeps
    <2>2. AcceptBlock(u, ballot) => Keeps(row[t], row'[t])
      BY WonKeeps DEF AcceptBlock
    <2>3. AcceptFails(u, path) => Keeps(row[t], row'[t])
      BY <1>1 DEF AcceptFails
    <2>4. AcceptDeferred(u) => Keeps(row[t], row'[t])
      BY DEF AcceptDeferred, Keeps
    <2> QED  BY <1>2, <2>1, <2>2, <2>3, <2>4 DEF Accept
  <1>3. ASSUME FinalizeApproved(u, ballot, path)  PROVE Keeps(row[t], row'[t])
    BY <1>1, <1>2, <1>3 DEF FinalizeApproved
  <1>4. ASSUME FinalizeRejected(u)  PROVE Keeps(row[t], row'[t])
    BY <1>1, <1>4 DEF FinalizeRejected
  <1> QED  BY <1>2, <1>3, <1>4

(* A request that found the job closed is gossip, and writes its vote only.*)
LEMMA VoteKeeps ==
    ASSUME RoundInv, NEW q \in voting, VoteCommit(q), NEW t \in Tasks,
           q.path # "gossip" => q.open, ~ (q.task = t /\ q.open)
    PROVE  Keeps(row[t], row'[t])
  <1>1. row \in [Tasks -> TaskRows] /\ q.task \in Tasks
    BY DEF RoundInv, TypeOK, VoteRequests
  <1>2. row' = row => Keeps(row[t], row'[t])
    BY DEF Keeps
  <1>3. CASE RetryReads(q)
    BY <1>2, <1>3 DEF RetryReads
  <1>4. CASE VoteInserted(q)
    <2>1. CASE q.task = t
      BY <1>2, <1>4, <2>1 DEF VoteInserted
    <2>2. CASE q.task # t
      <3>1. \/ FinalizeApproved(q.task, Recorded(q), q.path)
            \/ FinalizeRejected(q.task)
            \/ row' = row
        BY <1>4 DEF VoteInserted
      <3> QED  BY <1>1, <1>2, <2>2, <3>1, OthersKeep
    <2> QED  BY <2>1, <2>2
  <1>5. CASE VoteRepeated(q)
    <2>1. CASE q.task = t
      BY <1>2, <1>5, <2>1 DEF VoteRepeated
    <2>2. CASE q.task # t
      <3>1. FinalizeApproved(q.task, vote[q.task], "gossip") \/ row' = row
        BY <1>5 DEF VoteRepeated
      <3> QED  BY <1>1, <1>2, <2>2, <3>1, OthersKeep
    <2> QED  BY <2>1, <2>2
  <1>6. CASE RetryWrites(q)
    <2>1. q.task # t
      BY <1>6 DEF RetryWrites
    <2>2. \/ \E y : row' = [row EXCEPT ![q.task] = y]
          \/ Accept(q.task, vote[q.task], "gossip")
      BY <1>6 DEF RetryWrites
    <2>3. (\E y : row' = [row EXCEPT ![q.task] = y]) => Keeps(row[t], row'[t])
      BY <1>1, <2>1 DEF Keeps
    <2> QED  BY <1>1, <2>1, <2>2, <2>3, OthersKeep
  <1> QED  BY <1>3, <1>4, <1>5, <1>6 DEF VoteCommit

(* What a step of the round keeps of a task no late vote is about.         *)
LEMMA RoundKeeps ==
    ASSUME RoundInv, [Next]_vars, NEW t \in Tasks, ~ LateVote(t),
           \A q \in voting : q.path # "gossip" => q.open
    PROVE  Keeps(row[t], row'[t]) \/
           \E b, c \in Foreign : ReorgTip(b, c) /\ t = Tip /\ row'[t] = OrphanedRow(row[t])
  <1>1. row' = row => Keeps(row[t], row'[t])
    BY DEF Keeps
  <1>2. ASSUME NEW m, NextTask(m) \/ AskTask(m)  PROVE Keeps(row[t], row'[t])
    BY <1>1, <1>2, NextTaskKeeps DEF AskTask
  <1>3. ASSUME NEW q \in asking, GiveTask(q)  PROVE Keeps(row[t], row'[t])
    BY <1>3, GivenKeeps DEF GiveTask, RoundInv, TypeOK
  <1>4. ASSUME CleanupExpiredTasks  PROVE Keeps(row[t], row'[t])
    BY <1>4, SweepKeeps DEF CleanupExpiredTasks, RoundInv
  <1>5. ASSUME NEW v, GetValidationJob(v) \/ ValidatorToggles(v)  PROVE Keeps(row[t], row'[t])
    BY <1>1, <1>5, JobKeeps DEF ValidatorToggles
  <1>6. ASSUME NEW u, NEW v, Vote(u, v)  PROVE row' = row
    BY <1>6 DEF Vote, VoteCheck
  <1>7. ASSUME NEW b \in Foreign, ImportForeign(b)  PROVE row' = row
    BY <1>7 DEF ImportForeign
  <1>8. ASSUME NEW b \in Foreign, NEW c \in Foreign, ReorgTip(b, c)
        PROVE  Keeps(row[t], row'[t]) \/ (t = Tip /\ row'[t] = OrphanedRow(row[t]))
    BY <1>8 DEF ReorgTip, Keeps
  <1>9. Restart \/ UNCHANGED vars => row' = row
    BY DEF Restart, vars
  <1>10. ASSUME NEW u \in Tasks,
                CommitTask(u) \/ RevealTask(u) \/ RejectReveal(u) \/ SubmitTask(u)
         PROVE  Keeps(row[t], row'[t])
    BY <1>10, TaskHandlerKeeps
  <1>11. ASSUME NEW q \in voting, VoteCommit(q)  PROVE Keeps(row[t], row'[t])
    BY <1>11, VoteKeeps DEF LateVote
  <1> QED
    BY <1>1, <1>2, <1>3, <1>4, <1>5, <1>6, <1>7, <1>8, <1>9, <1>10, <1>11 DEF Next, RoundStep

-------------------------------------------------------------------------------
(* The invariant.                                                          *)

(* A block is on the chain once; a foreign one that is there has arrived.  *)
ChainInv ==
    /\ chain[1] = Genesis
    /\ Distinct(chain)
    /\ Foreign \cap OnChain \subseteq arrived

(* Only gossip is remembered about a job that was closed; a repeated vote  *)
(* acts on a quorum that is still there.                                   *)
VotesInv ==
    \A q \in voting :
        /\ q.path # "gossip" => q.open
        /\ q.path \in {"own", "other", "missed"} => ApprovalQuorum(vote[q.task])

PayInv ==
    \A t \in Tasks :
        /\ t \notin imported => paid[t] \subseteq Approvers(vote[t])
        /\ t \in OnChain => Miner(t) \in Direct \/ Cardinality(paid[t]) >= Required
        /\ t \notin OnChain => paid[t] = {}

(* A message that read an accepted task writes no other status.            *)
HearInv ==
    \A q \in hearing :
        /\ q.task \in Tasks /\ row[q.task].status # "none"
        /\ q.written \in [status: TaskStatus, commits: BOOLEAN, job: JobStatus]
        /\ q.settled => q.written.status \in {"none", "accepted"}

GossipInv == RoundInv /\ ChainInv /\ VotesInv /\ PayInv /\ HearInv

(* A round that is open on the tip has no block of its own task.           *)
LEMMA OpenRoundIsUnmined ==
    ASSUME RoundInv, ChainInv, NEW t \in Tasks, row[t].round = Tip
    PROVE  t \notin OnChain
  <1> SUFFICES ASSUME t \in OnChain  PROVE FALSE
    OBVIOUS
  <1>1. PICK i \in 1..Len(chain) : chain[i] = t
    BY DEF OnChain
  <1>2. Len(chain) \in Nat /\ Len(chain) > 0
    BY DEF RoundInv, TypeOK
  <1>3. i > 1
    BY <1>1, <1>2, ForeignAreNoTasks DEF ChainInv
  <1>4. chain[i - 1] = chain[Len(chain)]
    BY <1>1, <1>3, RoundInvIsAnchored DEF Anchored, Tip
  <1>5. i - 1 \in 1..Len(chain) /\ Len(chain) \in 1..Len(chain) /\ i - 1 # Len(chain)
    BY <1>2, <1>3
  <1> QED  BY <1>4, <1>5 DEF ChainInv, Distinct

(* A ballot that holds.                                                    *)
VotesGrow == \A t \in Tasks : Approvers(vote[t]) \subseteq Approvers(vote'[t])

LEMMA QuorumLasts ==
    ASSUME NEW t \in Tasks, VotesGrow, ApprovalQuorum(vote[t])
    PROVE  ApprovalQuorum(vote'[t])
  <1>1. IsFiniteSet(Approvers(vote'[t])) /\ IsFiniteSet(Approvers(vote[t]))
    BY RoundConstants, FS_Subset DEF Approvers
  <1>2. Approvers(vote[t]) \subseteq Approvers(vote'[t])
    BY DEF VotesGrow
  <1>3. Cardinality(Approvers(vote[t])) <= Cardinality(Approvers(vote'[t]))
    BY <1>1, <1>2, FS_Subset
  <1>4. Cardinality(Approvers(vote[t])) \in Nat /\ Cardinality(Approvers(vote'[t])) \in Nat
    BY <1>1, FS_CardinalityType
  <1> QED  BY <1>3, <1>4, RoundConstants DEF ApprovalQuorum

LEMMA VoteCommitGrows ==
    ASSUME RoundInv, NEW q \in voting, VoteCommit(q)
    PROVE  VotesGrow
  <1>1. q.task \in Tasks /\ q.validator \in Validators /\ vote \in [Tasks -> Ballots]
    BY DEF RoundInv, TypeOK, VoteRequests
  <1>2. vote' = vote \/ (/\ vote[q.task][q.validator] = "none"
                         /\ vote' = [vote EXCEPT ![q.task] = Recorded(q)])
    BY DEF VoteCommit, RetryReads, VoteInserted, VoteRepeated, RetryWrites
  <1>3. CASE vote' = vote
    BY <1>3 DEF VotesGrow
  <1>4. CASE /\ vote[q.task][q.validator] = "none"
             /\ vote' = [vote EXCEPT ![q.task] = Recorded(q)]
    <2>1. Approvers(vote[q.task]) \subseteq Approvers(Recorded(q))
      BY <1>1, <1>4 DEF Approvers, Recorded, Ballots
    <2> QED  BY <1>1, <1>4, <2>1 DEF VotesGrow
  <1> QED  BY <1>2, <1>3, <1>4

-------------------------------------------------------------------------------
(* What a step of the round pays.                                          *)

PaysNobody == UNCHANGED << chain, paid, arrived >>

PaysBlock(t) ==
    /\ t \notin OnChain /\ chain' = Append(chain, t) /\ UNCHANGED arrived
    /\ \/ Miner(t) \in Direct /\ UNCHANGED paid
       \/ ApprovalQuorum(vote'[t]) /\ paid' = [paid EXCEPT ![t] = Approvers(vote'[t])]

PayStep ==
    \/ PaysNobody
    \/ \E t \in Tasks : PaysBlock(t)
    \/ \E b \in Foreign : ImportForeign(b)
    \/ \E b, c \in Foreign : ReorgTip(b, c)

LEMMA AcceptPays ==
    ASSUME NEW t \in Tasks, NEW path, NEW ballot, ballot = vote'[t], ApprovalQuorum(ballot),
           UNCHANGED arrived,
           Accept(t, ballot, path) \/ FinalizeApproved(t, ballot, path)
    PROVE  PaysNobody \/ PaysBlock(t)
  <1>1. Accept(t, ballot, path) => PaysNobody \/ PaysBlock(t)
    BY DEF Accept, AcceptExisting, AcceptBlock, AcceptFails, AcceptDeferred, PaysNobody, PaysBlock
  <1>2. FinalizeApproved(t, ballot, path) => PaysNobody \/ Accept(t, ballot, path)
    BY DEF FinalizeApproved, PaysNobody
  <1> QED  BY <1>1, <1>2

LEMMA VotePays ==
    ASSUME RoundInv, VotesInv, NEW q \in voting, VoteCommit(q)
    PROVE  PaysNobody \/ PaysBlock(q.task)
  <1>1. q.task \in Tasks /\ vote \in [Tasks -> Ballots] /\ UNCHANGED arrived
    BY DEF RoundInv, TypeOK, VoteRequests, VoteCommit
  <1>2. CASE RetryReads(q)
    BY <1>1, <1>2 DEF RetryReads, PaysNobody
  <1>3. CASE VoteInserted(q)
    <2>1. vote'[q.task] = Recorded(q)
      BY <1>1, <1>3 DEF VoteInserted
    <2>2. \/ ApprovalQuorum(Recorded(q)) /\ FinalizeApproved(q.task, Recorded(q), q.path)
          \/ FinalizeRejected(q.task)
          \/ UNCHANGED << chain, paid >>
      BY <1>3 DEF VoteInserted
    <2>3. FinalizeRejected(q.task) => UNCHANGED << chain, paid >>
      BY DEF FinalizeRejected
    <2> QED  BY <1>1, <2>1, <2>2, <2>3, AcceptPays DEF PaysNobody
  <1>4. CASE VoteRepeated(q)
    <2>1. vote' = vote
      BY <1>4 DEF VoteRepeated
    <2>2. \/ ApprovalQuorum(vote[q.task]) /\ FinalizeApproved(q.task, vote[q.task], "gossip")
          \/ UNCHANGED << chain, paid >>
      BY <1>4 DEF VoteRepeated
    <2> QED  BY <1>1, <2>1, <2>2, AcceptPays DEF PaysNobody
  <1>5. CASE RetryWrites(q)
    <2>1. vote' = vote
      BY <1>5 DEF RetryWrites
    <2>2. \/ q.path = "missed" /\ Accept(q.task, vote[q.task], "gossip")
          \/ UNCHANGED << chain, paid >>
      BY <1>5 DEF RetryWrites
    <2>3. q.path = "missed" => ApprovalQuorum(vote[q.task])
      BY DEF VotesInv
    <2> QED  BY <1>1, <2>1, <2>2, <2>3, AcceptPays DEF PaysNobody
  <1> QED  BY <1>2, <1>3, <1>4, <1>5 DEF VoteCommit

LEMMA SubmitPays ==
    ASSUME RoundInv, ChainInv, NEW t \in Tasks, SubmitTask(t)
    PROVE  PaysNobody \/ PaysBlock(t)
  <1>1. PICK r \in Sweeps :
          \/ UNCHANGED chain
          \/ Current(r[t]) /\ chain' = Append(chain, t)
    BY DEF SubmitTask
  <1>2. Miner(t) \in Direct /\ UNCHANGED << paid, arrived >>
    BY DEF SubmitTask
  <1>3. CASE UNCHANGED chain
    BY <1>2, <1>3 DEF PaysNobody
  <1>4. CASE Current(r[t]) /\ chain' = Append(chain, t)
    <2>1. row[t].status # "none" => row[t].round = Tip
      BY <1>4, SweepFollows DEF RoundInv, RowsFollow, Follows, Current
    <2>2. t \notin OnChain
      BY <2>1, OpenRoundIsUnmined DEF RoundInv
    <2> QED  BY <1>2, <1>4, <2>2 DEF PaysBlock
  <1> QED  BY <1>1, <1>3, <1>4

LEMMA RoundPays ==
    ASSUME RoundInv, ChainInv, VotesInv, [Next]_vars
    PROVE  PayStep /\ VotesGrow
  <1>1. UNCHANGED vote => VotesGrow
    BY DEF VotesGrow
  <1>2. CASE UNCHANGED << vote, chain, paid, arrived >>
    BY <1>1, <1>2 DEF PayStep, PaysNobody
  <1>3. ASSUME NEW m, NextTask(m) \/ AskTask(m)
        PROVE  UNCHANGED << vote, chain, paid, arrived >>
    BY <1>3 DEF NextTask, AskTask
  <1>4. ASSUME NEW q, GiveTask(q)  PROVE UNCHANGED << vote, chain, paid, arrived >>
    BY <1>4 DEF GiveTask
  <1>5. ASSUME NEW t, CommitTask(t) \/ RevealTask(t) \/ RejectReveal(t) \/ CleanupExpiredTasks
        PROVE  UNCHANGED << vote, chain, paid, arrived >>
    BY <1>5 DEF CommitTask, RevealTask, RejectReveal, CleanupExpiredTasks
  <1>6. ASSUME NEW v, GetValidationJob(v) \/ ValidatorToggles(v)
        PROVE  UNCHANGED << vote, chain, paid, arrived >>
    BY <1>6 DEF GetValidationJob, ValidatorToggles
  <1>7. ASSUME NEW t, NEW v, Vote(t, v)  PROVE UNCHANGED << vote, chain, paid, arrived >>
    BY <1>7 DEF Vote, VoteCheck
  <1>8. Restart \/ UNCHANGED vars => UNCHANGED << vote, chain, paid, arrived >>
    BY DEF Restart, vars
  <1>9. ASSUME NEW t \in Tasks, SubmitTask(t)  PROVE PayStep /\ VotesGrow
    BY <1>1, <1>9, SubmitPays DEF SubmitTask, PayStep
  <1>10. ASSUME NEW q \in voting, VoteCommit(q)  PROVE PayStep /\ VotesGrow
    <2>1. q.task \in Tasks
      BY DEF RoundInv, TypeOK, VoteRequests
    <2> QED  BY <1>10, <2>1, VotePays, VoteCommitGrows DEF PayStep
  <1>11. ASSUME NEW b \in Foreign, ImportForeign(b)  PROVE PayStep /\ VotesGrow
    BY <1>1, <1>11 DEF PayStep, ImportForeign
  <1>12. ASSUME NEW b \in Foreign, NEW c \in Foreign, ReorgTip(b, c)  PROVE PayStep /\ VotesGrow
    BY <1>1, <1>12 DEF PayStep, ReorgTip
  <1> QED
    BY <1>2, <1>3, <1>4, <1>5, <1>6, <1>7, <1>8, <1>9, <1>10, <1>11, <1>12 DEF Next, RoundStep

-------------------------------------------------------------------------------
(* The parts of the invariant, when the step is one of the round.          *)

LEMMA ChainGrows ==
    ASSUME RoundInv, ChainInv, NEW b \in Blocks, b \notin OnChain, chain' = Append(chain, b),
           arrived \subseteq arrived', b \in Foreign => b \in arrived'
    PROVE  ChainInv' /\ OnChain' = OnChain \cup {b}
  <1>1. chain \in Seq(Blocks) /\ Len(chain) > 0 /\ Distinct(chain) /\ OnChain = Elements(chain)
    BY DEF RoundInv, TypeOK, ChainInv, OnChain, Elements
  <1>2. /\ Elements(chain') = Elements(chain) \cup {b}
        /\ Distinct(chain') /\ chain'[1] = chain[1]
    BY <1>1, DistinctAppend
  <1>3. OnChain' = Elements(chain')
    BY DEF OnChain, Elements
  <1> QED  BY <1>1, <1>2, <1>3 DEF ChainInv

LEMMA ChainForks ==
    ASSUME RoundInv, ChainInv, NEW b \in Foreign, NEW c \in Foreign, ReorgTip(b, c)
    PROVE  ChainInv' /\ OnChain' = (OnChain \ {Tip}) \cup {b, c}
  <1>1. /\ chain \in Seq(Blocks) /\ Len(chain) > 1 /\ Distinct(chain) /\ OnChain = Elements(chain)
        /\ b \in Blocks /\ c \in Blocks /\ b # c /\ {b, c} \cap Elements(chain) = {}
        /\ chain' = SubSeq(chain, 1, Len(chain) - 1) \o << b, c >>
    BY DEF RoundInv, TypeOK, ChainInv, OnChain, Elements, ReorgTip, Blocks
  <1>2. Forked(chain, b, c, chain')
    BY <1>1, DistinctFork
  <1>3. /\ Elements(chain') = (Elements(chain) \ {chain[Len(chain)]}) \cup {b, c}
        /\ Distinct(chain') /\ chain'[1] = chain[1]
    BY <1>1, <1>2 DEF Forked
  <1>4. OnChain' = Elements(chain')
    BY DEF OnChain, Elements
  <1> QED  BY <1>1, <1>3, <1>4 DEF ChainInv, Tip, ReorgTip

LEMMA RoundChainInv ==
    ASSUME RoundInv, ChainInv, PayStep
    PROVE  ChainInv'
  <1>1. PaysNobody => ChainInv'
    BY DEF PaysNobody, ChainInv, OnChain
  <1>2. ASSUME NEW t \in Tasks, PaysBlock(t)  PROVE ChainInv'
    BY <1>2, ChainGrows, ForeignAreNoTasks DEF PaysBlock, Blocks
  <1>3. ASSUME NEW b \in Foreign, ImportForeign(b)  PROVE ChainInv'
    BY <1>3, ChainGrows DEF ImportForeign, Blocks, ChainInv
  <1> QED  BY <1>1, <1>2, <1>3, ChainForks DEF PayStep

LEMMA RoundPayInv ==
    ASSUME RoundInv, ChainInv, PayInv, PayStep, VotesGrow, UNCHANGED imported
    PROVE  PayInv'
  <1>1. paid \in [Tasks -> SUBSET Validators]
    BY DEF RoundInv, TypeOK
  <1>2. ASSUME PaysNobody  PROVE PayInv'
    BY <1>2 DEF PaysNobody, PayInv, VotesGrow, OnChain
  <1>3. ASSUME NEW t \in Tasks, PaysBlock(t)  PROVE PayInv'
    <2>1. OnChain' = OnChain \cup {t}
      BY <1>3, ChainGrows, ForeignAreNoTasks DEF PaysBlock, Blocks
    <2>2. \A u \in Tasks \ {t} : paid'[u] = paid[u]
      BY <1>1, <1>3 DEF PaysBlock
    <2>3. Miner(t) \in Direct \/ Cardinality(paid'[t]) >= Required
      BY <1>1, <1>3 DEF PaysBlock, ApprovalQuorum
    <2>4. t \notin imported => paid'[t] \subseteq Approvers(vote'[t])
      BY <1>1, <1>3 DEF PaysBlock, PayInv, VotesGrow
    <2> QED  BY <2>1, <2>2, <2>3, <2>4 DEF PayInv, VotesGrow
  <1>4. ASSUME NEW b \in Foreign, ImportForeign(b)  PROVE PayInv'
    <2>1. OnChain' = OnChain \cup {b}
      BY <1>4, ChainGrows DEF ImportForeign, Blocks, ChainInv
    <2>2. UNCHANGED << paid, vote >>
      BY <1>4 DEF ImportForeign
    <2> QED  BY <2>1, <2>2, ForeignAreNoTasks DEF PayInv
  <1>5. ASSUME NEW b \in Foreign, NEW c \in Foreign, ReorgTip(b, c)  PROVE PayInv'
    <2>1. OnChain' = (OnChain \ {Tip}) \cup {b, c}
      BY <1>5, ChainForks
    <2>2. UNCHANGED vote /\ \A t \in Tasks : paid'[t] = IF t = Tip THEN {} ELSE paid[t]
      BY <1>5 DEF ReorgTip
    <2> QED  BY <2>1, <2>2, ForeignAreNoTasks DEF PayInv
  <1> QED  BY <1>2, <1>3, <1>4, <1>5 DEF PayStep

LEMMA RoundVotesInv ==
    ASSUME RoundInv, VotesInv, VotesGrow, [Next]_vars
    PROVE  VotesInv'
  <1>1. \A q \in voting : q.task \in Tasks
    BY DEF RoundInv, TypeOK, VoteRequests
  <1>2. ASSUME voting' \subseteq voting  PROVE VotesInv'
    BY <1>1, <1>2, QuorumLasts DEF VotesInv
  <1>3. ASSUME NEW t \in Tasks, NEW v \in Validators, Vote(t, v)  PROVE VotesInv'
    <2>1. PICK approved \in BOOLEAN, path \in {"submit", "gossip", "retry"} :
            VoteCheck(t, v, approved, path)
      BY <1>3 DEF Vote
    <2> DEFINE q == [task |-> t, validator |-> v, approved |-> approved,
                     path |-> path, open |-> row[t].job = "pending"]
    <2>2. voting' = voting \cup {q} /\ vote' = vote
      BY <2>1 DEF VoteCheck
    <2>3. (q.path # "gossip" => q.open) /\ q.path \notin {"own", "other", "missed"}
      BY <2>1 DEF VoteCheck
    <2> HIDE DEF q
    <2> QED  BY <2>2, <2>3 DEF VotesInv
  <1>4. ASSUME NEW q \in voting, VoteCommit(q)  PROVE VotesInv'
    <2>1. CASE voting' \subseteq voting
      BY <1>2, <2>1
    <2>2. CASE RetryReads(q)
      <3>1. q \in VoteRequests /\ q.open /\ vote' = vote
        BY <2>2 DEF RetryReads, VotesInv, RoundInv, TypeOK
      <3>2. PICK path : voting' \subseteq voting \cup {[q EXCEPT !.path = path]} /\
                        (voting' \subseteq voting \/ ApprovalQuorum(vote[q.task]))
        BY <2>2 DEF RetryReads
      <3>3. /\ [q EXCEPT !.path = path].open = q.open
            /\ [q EXCEPT !.path = path].task = q.task
        BY <3>1 DEF VoteRequests
      <3> DEFINE p == [q EXCEPT !.path = path]
      <3> HIDE DEF p
      <3>4. ASSUME NEW x \in voting', x = p, ~ (voting' \subseteq voting)
            PROVE  x.open /\ ApprovalQuorum(vote'[x.task])
        BY <3>1, <3>2, <3>3, <3>4 DEF p
      <3> QED  BY <1>2, <3>1, <3>2, <3>4 DEF VotesInv, p
    <2> QED  BY <1>4, <2>1, <2>2 DEF VoteCommit
  <1>5. ASSUME \/ \E m \in Miners : NextTask(m) \/ AskTask(m)
               \/ \E q \in asking : GiveTask(q)
               \/ \E t \in Tasks : CommitTask(t) \/ RevealTask(t) \/ RejectReveal(t) \/ SubmitTask(t)
               \/ CleanupExpiredTasks
               \/ \E v \in Validators : GetValidationJob(v) \/ ValidatorToggles(v)
               \/ \E b \in Foreign : ImportForeign(b)
               \/ \E b, c \in Foreign : ReorgTip(b, c)
               \/ Restart \/ UNCHANGED vars
        PROVE  voting' \subseteq voting
    BY <1>5 DEF NextTask, AskTask, GiveTask, CommitTask, RevealTask, RejectReveal, SubmitTask,
       CleanupExpiredTasks, GetValidationJob, ValidatorToggles, ImportForeign, ReorgTip, Restart, vars
  <1> QED  BY <1>2, <1>3, <1>4, <1>5 DEF Next, RoundStep

(* The messages a row outlives.                                            *)
LEMMA HeardStays ==
    ASSUME HearInv, hearing' \subseteq hearing,
           \A t \in Tasks : row[t].status # "none" => row'[t].status # "none"
    PROVE  HearInv'
  BY DEF HearInv

LEMMA RoundGossipInv ==
    ASSUME GossipInv, [Next]_vars, hearing' \subseteq hearing, UNCHANGED imported
    PROVE  GossipInv'
  <1>1. PayStep /\ VotesGrow /\ RoundInv'
    BY RoundPays, RoundInvStep DEF GossipInv
  <1>2. \A t \in Tasks : row[t].status # "none" => row'[t].status # "none"
    BY NextIsChainStep, ChainStepTypes DEF GossipInv
  <1> QED
    BY <1>1, <1>2, RoundChainInv, RoundPayInv, RoundVotesInv, HeardStays DEF GossipInv

-------------------------------------------------------------------------------
(* The parts of the invariant, when the step is a message from a peer.     *)

RowsStay ==
    /\ row' \in [Tasks -> TaskRows]
    /\ \A t \in Tasks : row[t].status # "none" =>
          row'[t].status # "none" /\ row'[t].round = row[t].round

LEMMA RowsStayInv ==
    ASSUME GossipInv, RowsStay, HearInv',
           UNCHANGED << vote, paid, penalty, chain, arrived, online, asking, voting, imported >>
    PROVE  GossipInv'
  <1>1. row' \in [Tasks -> Rows] /\ TypeOK'
    BY DEF GossipInv, RoundInv, TypeOK, RowsStay, TaskRows
  <1>2. Anchored(chain, row')
    BY RoundInvIsAnchored DEF GossipInv, Anchored, RowsStay
  <1>3. \A q \in voting' : row'[q.task].status # "none"
    BY DEF GossipInv, RoundInv, TypeOK, VoteRequests, RowsStay
  <1>4. RoundInv'
    BY <1>1, <1>2, <1>3, AnchoredInv DEF RowsStay
  <1>5. ChainInv' /\ VotesInv' /\ PayInv'
    BY DEF GossipInv, ChainInv, VotesInv, PayInv, OnChain
  <1> QED  BY <1>4, <1>5 DEF GossipInv

LEMMA JobsCounted == \A r : JobsCreated(r) \in Nat
  BY RoundConstants, FS_Subset, FS_CardinalityType DEF JobsCreated

LEMMA HearUnknownRow ==
    ASSUME GossipInv, NEW t \in Tasks, HearUnknown(t)
    PROVE  RowsStay /\ \A u \in Tasks : Keeps(row[u], row'[u])
  <1>1. row \in [Tasks -> TaskRows] /\ row[t].status = "none"
    BY DEF HearUnknown, GossipInv, RoundInv
  <1>2. PICK h \in Heard, b \in HeardRounds(t), job \in JobStatus :
          /\ job # "none" => h.committed
          /\ row' = [row EXCEPT ![t] =
                [NewTask(b) EXCEPT !.status = h.status, !.job = job, !.rank = JobsCreated(row),
                                   !.committed = h.committed /\ job = "none"]]
    BY DEF HearUnknown
  <1> DEFINE y == [NewTask(b) EXCEPT !.status = h.status, !.job = job, !.rank = JobsCreated(row),
                                     !.committed = h.committed /\ job = "none"]
  <1>3. b \in Blocks
    BY DEF HeardRounds, OnChain, Blocks, GossipInv, RoundInv, TypeOK
  <1>4. h.status \in TaskStatus \ {"none"} /\ (h.committed /\ job = "none") \in BOOLEAN
    BY DEF Heard
  <1>5. y \in TaskRows
    BY <1>3, <1>4, JobsCounted DEF NewTask, TaskRows, Rows
  <1>6. row' = [row EXCEPT ![t] = y]
    BY <1>2
  <1> HIDE DEF y
  <1>7. RowsStay
    BY <1>1, <1>5, <1>6 DEF RowsStay
  <1>8. Keeps(row[t], y)
    BY <1>1 DEF Keeps, TaskRows, Decided
  <1> QED  BY <1>1, <1>6, <1>7, <1>8 DEF Keeps

LEMMA HearUnknownInv ==
    ASSUME GossipInv, NEW t \in Tasks, HearUnknown(t)
    PROVE  GossipInv'
  <1>1. HearInv'
    BY HearUnknownRow, HeardStays DEF HearUnknown, GossipInv, RowsStay
  <1> QED  BY <1>1, HearUnknownRow, RowsStayInv DEF HearUnknown

LEMMA ListensInv ==
    ASSUME GossipInv, NEW t \in Tasks, HearTask(t) \/ HearJob(t)
    PROVE  GossipInv'
  <1>1. /\ row \in [Tasks -> TaskRows] /\ row[t].status # "none"
        /\ Silence \in [status: TaskStatus, commits: BOOLEAN, job: JobStatus]
        /\ Silence.status = "none"
    BY DEF HearTask, HearJob, GossipInv, RoundInv, Silence, TaskStatus, JobStatus
  <1>2. ASSUME NEW written, Listens(t, written),
               written \in [status: TaskStatus, commits: BOOLEAN, job: JobStatus],
               row[t].status = "accepted" => written.status \in {"none", "accepted"}
        PROVE  GossipInv'
    <2> DEFINE q == [task |-> t, settled |-> row[t].status = "accepted", written |-> written]
    <2>1. hearing' = hearing \cup {q} /\ row' = row
      BY <1>2 DEF Listens
    <2>2. q.task = t /\ q.written = written /\ (q.settled => row[t].status = "accepted")
      OBVIOUS
    <2> HIDE DEF q
    <2>3. HearInv'
      BY <1>1, <1>2, <2>1, <2>2 DEF HearInv, GossipInv
    <2>4. RowsStay
      BY <1>1, <2>1 DEF RowsStay
    <2> QED  BY <1>2, <2>3, <2>4, RowsStayInv DEF Listens
  <1>3. CASE HearTask(t)
    <2>1. PICK h \in Heard :
            Listens(t, [Silence EXCEPT
                !.status = IF Outranks(h.status, row[t].status) THEN h.status ELSE @,
                !.commits = h.committed /\ ~row[t].committed])
      BY <1>3 DEF HearTask
    <2> DEFINE w == [Silence EXCEPT
                !.status = IF Outranks(h.status, row[t].status) THEN h.status ELSE @,
                !.commits = h.committed /\ ~row[t].committed]
    <2>2. h.status \in TaskStatus
      BY DEF Heard
    <2>3. w \in [status: TaskStatus, commits: BOOLEAN, job: JobStatus]
      BY <1>1, <2>2
    <2>4. row[t].status = "accepted" /\ Outranks(h.status, row[t].status) => h.status = "accepted"
      BY <2>2 DEF Outranks, StatusRank, Heard, TaskStatus
    <2>5. row[t].status = "accepted" => w.status \in {"none", "accepted"}
      BY <1>1, <2>4
    <2>6. Listens(t, w)
      BY <2>1
    <2> HIDE DEF w
    <2> QED  BY <1>2, <2>3, <2>5, <2>6
  <1>4. CASE HearJob(t)
    <2>1. PICK job \in JobStatus \ {"none"} :
          LET known == row[t].job # "none"
              open  == (IF known THEN row[t].job ELSE job) = "pending"
          IN Listens(t, [Silence EXCEPT
                !.status = IF open /\ row[t].status \in {"assigned", "committed", "expired"}
                           THEN "revealed" ELSE @,
                !.job = IF known THEN @ ELSE job])
      BY <1>4 DEF HearJob
    <2> DEFINE known == row[t].job # "none"
               open == (IF known THEN row[t].job ELSE job) = "pending"
               w == [Silence EXCEPT
                !.status = IF open /\ row[t].status \in {"assigned", "committed", "expired"}
                           THEN "revealed" ELSE @,
                !.job = IF known THEN @ ELSE job]
    <2>2. w \in [status: TaskStatus, commits: BOOLEAN, job: JobStatus]
      BY <1>1 DEF TaskStatus
    <2>3. row[t].status = "accepted" => w.status \in {"none", "accepted"}
      BY <1>1
    <2>4. Listens(t, w)
      BY <2>1
    <2> HIDE DEF w, known, open
    <2> QED  BY <1>2, <2>2, <2>3, <2>4
  <1> QED  BY <1>3, <1>4

(* A message is written: over a status that outranked nothing it may take  *)
(* the acceptance of a task, but never the decision of a job.              *)
LEMMA HearCommitRow ==
    ASSUME GossipInv, NEW q \in hearing, HearCommit(q)
    PROVE  /\ RowsStay
           /\ \A t \in Tasks : row[t].job \in Decided => row'[t].job = row[t].job
           /\ \A t \in Tasks : (t = q.task => q.settled) => Keeps(row[t], row'[t])
  <1> DEFINE w == q.written
             x == row[q.task]
             refused == (w.commits /\ x.committed) \/ (w.job # "none" /\ x.job # "none")
             y == [x EXCEPT !.status = IF w.status = "none" THEN @ ELSE w.status,
                            !.committed = @ \/ w.commits,
                            !.job = IF w.job = "none" THEN @ ELSE w.job,
                            !.rank = IF w.job = "none" THEN @ ELSE JobsCreated(row)]
  <1>1. /\ row \in [Tasks -> TaskRows] /\ q.task \in Tasks /\ x \in TaskRows /\ x.status # "none"
        /\ w \in [status: TaskStatus, commits: BOOLEAN, job: JobStatus]
        /\ q.settled => w.status \in {"none", "accepted"}
    BY DEF GossipInv, RoundInv, HearInv
  <1>2. row' = row \/ (~ refused /\ row' = [row EXCEPT ![q.task] = y])
    BY DEF HearCommit
  <1>3. /\ y.status = (IF w.status = "none" THEN x.status ELSE w.status)
        /\ y.round = x.round
        /\ y.job = (IF w.job = "none" THEN x.job ELSE w.job)
    BY <1>1 DEF TaskRows, Rows
  <1>4. y \in TaskRows
    BY <1>1, JobsCounted DEF TaskRows, Rows
  <1>5. ~ refused => (x.job \in Decided => y.job = x.job)
    BY <1>3 DEF Decided
  <1>6. q.settled /\ ~ refused => Keeps(x, y)
    BY <1>1, <1>3, <1>5 DEF Keeps
  <1> HIDE DEF refused, w, y
  <1>7. RowsStay
    <2>1. y.status # "none"
      BY <1>1, <1>3
    <2> QED  BY <1>1, <1>2, <1>3, <1>4, <2>1 DEF RowsStay
  <1>8. \A t \in Tasks : row[t].job \in Decided => row'[t].job = row[t].job
    BY <1>1, <1>2, <1>5
  <1>9. \A t \in Tasks : (t = q.task => q.settled) => Keeps(row[t], row'[t])
    BY <1>1, <1>2, <1>6 DEF Keeps
  <1> QED  BY <1>7, <1>8, <1>9

LEMMA HearCommitInv ==
    ASSUME GossipInv, NEW q \in hearing, HearCommit(q)
    PROVE  GossipInv'
  <1>1. HearInv'
    BY HearCommitRow, HeardStays DEF HearCommit, GossipInv, RowsStay
  <1> QED  BY <1>1, HearCommitRow, RowsStayInv DEF HearCommit

(* The block of a peer: its task was waiting on the tip.                   *)
LEMMA ImportPeerRow ==
    ASSUME GossipInv, NEW t \in Tasks, ImportPeerBlock(t)
    PROVE  RowsStay /\ row'[t].round = Tip /\ \A u \in Tasks : Keeps(row[u], row'[u])
  <1>1. row \in [Tasks -> TaskRows] /\ row[t].status # "none" /\ row[t].round = Tip
    BY DEF ImportPeerBlock, GossipInv, RoundInv, Current
  <1> DEFINE job == IF row[t].job = "none" THEN "approved" ELSE row[t].job
             rank == IF row[t].job = "none" THEN JobsCreated(row) ELSE row[t].rank
             y == [row[t] EXCEPT !.job = job, !.rank = rank]
  <1>2. row' = [row EXCEPT ![t] = y]
    <2>1. row' = [row EXCEPT ![t].job = IF @ = "none" THEN "approved" ELSE @,
                             ![t].rank = IF row[t].job = "none" THEN JobsCreated(row) ELSE @]
      BY DEF ImportPeerBlock
    <2> QED  BY <1>1, <2>1 DEF TaskRows, Rows
  <1>3. job \in JobStatus /\ rank \in Nat
    BY <1>1, JobsCounted DEF TaskRows, Rows, JobStatus
  <1>4. row[t].job \in Decided => job = row[t].job
    BY DEF Decided
  <1> HIDE DEF job, rank
  <1>5. y \in TaskRows /\ y.round = row[t].round /\ y.status = row[t].status /\ y.job = job
    BY <1>1, <1>3 DEF TaskRows, Rows
  <1> HIDE DEF y
  <1>6. RowsStay
    BY <1>1, <1>2, <1>5 DEF RowsStay
  <1>7. Keeps(row[t], y)
    BY <1>4, <1>5 DEF Keeps
  <1> QED  BY <1>1, <1>2, <1>5, <1>6, <1>7 DEF Keeps

LEMMA ImportPeerInv ==
    ASSUME GossipInv, NEW t \in Tasks, ImportPeerBlock(t)
    PROVE  GossipInv'
  <1> USE DEF GossipInv
  <1>1. /\ t \notin OnChain /\ chain' = Append(chain, t) /\ imported' = imported \cup {t}
        /\ UNCHANGED << vote, penalty, arrived, online, asking, voting, hearing, messages >>
    BY DEF ImportPeerBlock
  <1>2. PICK named \in SUBSET Validators :
          Cardinality(named) = Required /\ paid' = [paid EXCEPT ![t] = named]
    BY DEF ImportPeerBlock
  <1>3. RowsStay /\ row'[t].round = Tip /\ row[t].status # "none"
    BY ImportPeerRow DEF ImportPeerBlock
  <1>4. ChainInv' /\ OnChain' = OnChain \cup {t}
    BY <1>1, ChainGrows, ForeignAreNoTasks DEF Blocks
  <1>5. paid \in [Tasks -> SUBSET Validators] /\ paid' \in [Tasks -> SUBSET Validators]
    BY <1>2 DEF RoundInv, TypeOK
  <1>6. TypeOK'
    <2>1. chain' \in Seq(Blocks) /\ Len(chain') > 0
      BY <1>1 DEF RoundInv, TypeOK, Blocks
    <2>2. row' \in [Tasks -> Rows]
      BY <1>3 DEF RowsStay, TaskRows
    <2> QED  BY <1>1, <1>5, <2>1, <2>2 DEF RoundInv, TypeOK
  <1>7. Anchored(chain', row')
    <2>1. Anchored(chain, row')
      BY <1>3, RoundInvIsAnchored DEF Anchored, RowsStay
    <2>2. chain \in Seq(Blocks) /\ Len(chain) > 0 /\ t \in Blocks /\ row'[t].status # "none"
      BY <1>3 DEF RoundInv, TypeOK, Blocks, RowsStay
    <2> QED  BY <1>1, <1>3, <2>1, <2>2, AppendAnchored
  <1>8. RoundInv'
    <2>1. \A q \in voting' : row'[q.task].status # "none"
      BY <1>1, <1>3 DEF RoundInv, TypeOK, VoteRequests, RowsStay
    <2> QED  BY <1>3, <1>6, <1>7, <2>1, AnchoredInv DEF RowsStay
  <1>9. PayInv'
    <2>1. paid'[t] = named /\ \A u \in Tasks \ {t} : paid'[u] = paid[u]
      BY <1>2, <1>5
    <2>2. Cardinality(paid'[t]) >= Required
      BY <1>2, <2>1, RoundConstants
    <2> QED  BY <1>1, <1>4, <2>1, <2>2 DEF PayInv
  <1>10. VotesInv'
    BY <1>1 DEF VotesInv
  <1>11. HearInv'
    BY <1>1, <1>3, HeardStays DEF RowsStay
  <1> QED  BY <1>4, <1>8, <1>9, <1>10, <1>11

-------------------------------------------------------------------------------
(* The theorems.                                                           *)

LEMMA GossipInitHasInv == GossipInit => GossipInv
  <1> SUFFICES ASSUME GossipInit  PROVE GossipInv
    OBVIOUS
  <1>1. RoundInv
    BY InitHasInv DEF GossipInit
  <1>2. chain = << Genesis >> /\ OnChain = {Genesis}
    BY DEF GossipInit, Init, OnChain
  <1>3. ChainInv
    BY <1>2, RoundConstants DEF ChainInv, Distinct
  <1>4. PayInv
    <2>1. Tasks \cap OnChain = {} /\ \A t \in Tasks : paid[t] = {}
      BY <1>2, ForeignAreNoTasks DEF GossipInit, Init
    <2> QED  BY <2>1 DEF PayInv
  <1>5. VotesInv /\ HearInv
    BY DEF GossipInit, Init, VotesInv, HearInv
  <1> QED  BY <1>1, <1>3, <1>4, <1>5 DEF GossipInv

(* A step of the round, with what it does to the messages.                 *)
LEMMA GossipSteps ==
    ASSUME [GossipNext]_gossipVars
    PROVE  \/ [Next]_vars /\ hearing' \subseteq hearing /\ UNCHANGED imported
           \/ \E t \in Tasks : HearUnknown(t) \/ HearTask(t) \/ HearJob(t) \/ ImportPeerBlock(t)
           \/ \E q \in hearing : HearCommit(q)
  <1>1. CASE RoundStep /\ UNCHANGED << hearing, imported, messages >>
    BY <1>1 DEF Next
  <1>2. CASE Restart /\ hearing' = {} /\ UNCHANGED << imported, messages >>
    BY <1>2 DEF Next
  <1>3. CASE UNCHANGED gossipVars
    BY <1>3 DEF gossipVars
  <1> QED  BY <1>1, <1>2, <1>3 DEF GossipNext, GossipStep

LEMMA GossipInvHolds == GossipSpec => []GossipInv
  <1>1. ASSUME GossipInv, [GossipNext]_gossipVars  PROVE GossipInv'
    BY <1>1, GossipSteps, RoundGossipInv, HearUnknownInv, ListensInv, ImportPeerInv, HearCommitInv
  <1> QED  BY <1>1, GossipInitHasInv, PTL DEF GossipSpec

(* Whatever the peers say, a handler writes values the code knows, and a   *)
(* block is put on the block its round was opened on.                      *)
THEOREM GossipTypeCorrect == GossipSpec => [](TypeOK /\ BlocksExtendTheirRound)
  <1>1. GossipInv => TypeOK /\ BlocksExtendTheirRound
    BY DEF GossipInv, RoundInv
  <1> QED  BY <1>1, GossipInvHolds, PTL

(* The ledger pays the validators of a block exactly while it is on the    *)
(* chain, where it is once.                                                *)
THEOREM BlocksArePaid == GossipSpec => []RewardsFollowBlocks
  <1>1. GossipInv => RewardsFollowBlocks
    <2> SUFFICES ASSUME GossipInv, NEW t \in Tasks
                 PROVE  Cardinality({i \in 1..Len(chain) : chain[i] = t}) <= 1
      BY DEF GossipInv, PayInv, RewardsFollowBlocks
    <2> DEFINE S == {i \in 1..Len(chain) : chain[i] = t}
    <2>1. S = {} \/ \E i : S = {i}
      <3>1. \A i, j \in S : i = j
        BY DEF GossipInv, ChainInv, Distinct
      <3> HIDE DEF S
      <3> QED  BY <3>1
    <2> HIDE DEF S
    <2>2. Cardinality(S) \in {0, 1}
      BY <2>1, FS_EmptySet, FS_Singleton
    <2> QED  BY <2>2 DEF S
  <1> QED  BY <1>1, GossipInvHolds, PTL

LEMMA DecisionsStep ==
    ASSUME GossipInv, [GossipNext]_gossipVars, NEW t \in Tasks, ~ LateVote(t)
    PROVE  /\ row[t].job \in Decided => row'[t].job = row[t].job
           /\ row[t].status = "accepted" /\ t \in OnChain' /\ ~ LateGossip(t)
                => row'[t].status = "accepted"
  <1>1. CASE [Next]_vars
    <2>1. \A q \in voting : q.path # "gossip" => q.open
      BY DEF GossipInv, VotesInv
    <2>2. ASSUME NEW b \in Foreign, NEW c \in Foreign,
                 ReorgTip(b, c), t = Tip, row'[t] = OrphanedRow(row[t])
          PROVE  t \notin OnChain' /\ (row[t].job \in Decided => row'[t].job = row[t].job)
      <3>1. t \notin OnChain'
        BY <2>2, ChainForks, ForeignAreNoTasks DEF GossipInv
      <3>2. row[t] \in TaskRows
        BY DEF GossipInv, RoundInv
      <3>3. row[t].job \in Decided => OrphanedRow(row[t]).job = row[t].job
        BY <3>2 DEF OrphanedRow, Decided, TaskRows, Rows
      <3> QED  BY <2>2, <3>1, <3>3
    <2> QED  BY <1>1, <2>1, <2>2, RoundKeeps DEF GossipInv, Keeps
  <1>2. ASSUME NEW u \in Tasks, HearUnknown(u) \/ ImportPeerBlock(u)
        PROVE  Keeps(row[t], row'[t])
    BY <1>2, HearUnknownRow, ImportPeerRow
  <1>3. ASSUME NEW u \in Tasks, HearTask(u) \/ HearJob(u)  PROVE row' = row
    BY <1>3 DEF HearTask, HearJob, Listens
  <1>4. ASSUME NEW q \in hearing, HearCommit(q)
        PROVE  /\ row[t].job \in Decided => row'[t].job = row[t].job
               /\ ~ LateGossip(t) => Keeps(row[t], row'[t])
    <2>1. ~ LateGossip(t) /\ q.task = t => q.settled
      BY <1>4 DEF LateGossip, HearCommit
    <2> QED  BY <1>4, <2>1, HearCommitRow
  <1> QED  BY <1>1, <1>2, <1>3, <1>4, GossipSteps DEF Keeps

(* Only a request that read the job while it was pending, or the task      *)
(* before it was accepted, can undo a decision: no sweep, vote, block,     *)
(* reorg or later message does.                                            *)
THEOREM DecisionsStand == GossipSpec => DecisionsAreFinal
  <1> DEFINE Final ==
        \A t \in Tasks : ~ LateVote(t) =>
            /\ row[t].job \in Decided => row'[t].job = row[t].job
            /\ row[t].status = "accepted" /\ t \in OnChain' /\ ~ LateGossip(t)
                 => row'[t].status = "accepted"
  <1>1. GossipInv /\ [GossipNext]_gossipVars => [Final]_gossipVars
    BY DecisionsStep
  <1> QED  BY <1>1, GossipInvHolds, PTL DEF GossipSpec, DecisionsAreFinal
===============================================================================
