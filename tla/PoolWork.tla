------------------------------- MODULE PoolWork -------------------------------
(***************************************************************************)
(* The mining pool's side of a task: one identity asks the node for tasks, *)
(* cuts each into chunks for its workers, submits the assembled result and *)
(* follows what the chain makes of it (pool_server.py, PoolCoordinator).   *)
(*                                                                         *)
(* Three kinds of threads share one database lock: the HTTP handlers of    *)
(* the workers, which drop the lock between the check and the write of a   *)
(* submission; the tick thread; and a finalizer thread per completed task. *)
(* They also share the node, which is external: mainnet is what it made of *)
(* a task.                                                                 *)
(***************************************************************************)
EXTENDS Integers, FiniteSets, FiniteSetsExt

CONSTANTS
    Workers,
    MaxTasks,       \* bound: tasks the node hands out
    TaskUnits,      \* digits in a task
    HybridRace,     \* --chunk-size hybrid-race
    MaxCrashes      \* bound

ASSUME PoolAssumption ==
    /\ MaxTasks \in Nat /\ TaskUnits \in Nat \ {0} /\ MaxCrashes \in Nat
    /\ HybridRace \in BOOLEAN /\ IsFiniteSet(Workers)

VARIABLES
    task,       \* pool_tasks: [status, done (completed_at), block]
    chunks,     \* pool_chunks of a task, by first digit: [status, worker]
    shares,     \* pool_shares
    flight,     \* submission of a worker between its check and its write
    finalizers, \* finalize_task calls under way: [by, task, step]
    mainnet,    \* status of the task on the node
    clock,      \* tasks completed so far: all that created_at is compared with
    tick,       \* what the tick thread is in the middle of
    crashes

vars == << task, chunks, shares, flight, finalizers, mainnet, clock, tick, crashes >>

Tasks == 1..MaxTasks
NoWorker == "no worker"
NoRequest == [task |-> 0, chunk |-> 0, path |-> "none"]

Unasked == [status |-> "none", done |-> 0, block |-> FALSE]
Gathering == { t \in Tasks : task[t].status = "gathering" }

IsRace(t) == Cardinality(DOMAIN chunks[t]) = 1 /\ HybridRace
Units(t) == IF IsRace(t) THEN TaskUnits ELSE 1
Completed(t) == \A c \in DOMAIN chunks[t] : chunks[t][c].status = "completed"

Init ==
    /\ task = [t \in Tasks |-> Unasked]
    /\ chunks = [t \in Tasks |-> << >>]
    /\ shares = {}
    /\ flight = [w \in Workers |-> NoRequest]
    /\ finalizers = {}
    /\ mainnet = [t \in Tasks |-> "none"]
    /\ clock = 0
    /\ tick = "idle"
    /\ crashes = 0

---------------------------------------------------------------------------
(* Tick thread: ask for a task *)

(* _resolve_chunks: the workers seen lately decide between one chunk that  *)
(* all race for and a queue of single digits.                              *)
Cut(active) ==
    IF HybridRace /\ TaskUnits > active THEN {1} ELSE 1..TaskUnits

(* The node answers with the task it has already assigned while that one   *)
(* is open; mainnet_task_id is UNIQUE, so the pool drops the answer.       *)
EnsureActiveTask ==
    /\ tick = "idle"
    /\ \A t \in Tasks : task[t].status \notin {"gathering", "submitting"}
    /\ \A t \in Tasks : mainnet[t] # "open"
    /\ \E t \in Tasks, active \in 1..Cardinality(Workers) :
        /\ task[t].status = "none"
        /\ \A u \in 1..(t - 1) : task[u].status # "none"
        /\ task' = [task EXCEPT ![t].status = "gathering"]
        /\ mainnet' = [mainnet EXCEPT ![t] = "open"]
        /\ chunks' = [chunks EXCEPT ![t] =
                        [c \in Cut(active) |-> [status |-> "pending", worker |-> NoWorker]]]
    /\ UNCHANGED << shares, flight, finalizers, clock, tick, crashes >>

(* expire_stale_assignments: everything assigned before the cutoff.        *)
ExpireStaleAssignments ==
    /\ tick = "idle"
    /\ \E t \in Tasks : \E expired \in SUBSET { c \in DOMAIN chunks[t] : chunks[t][c].status = "assigned" } :
        /\ expired # {}
        /\ chunks' = [chunks EXCEPT ![t] = [c \in DOMAIN @ |->
                        IF c \in expired THEN [status |-> "pending", worker |-> NoWorker] ELSE @[c]]]
    /\ UNCHANGED << task, shares, flight, finalizers, mainnet, clock, tick, crashes >>

---------------------------------------------------------------------------
(* Workers *)

(* The first pending chunk, or, when all are taken, one that another       *)
(* worker is busy with.                                                    *)
ClaimWork(w) ==
    /\ \E t \in Gathering, c \in 1..TaskUnits :
        /\ c \in DOMAIN chunks[t]
        /\ LET pending == { d \in DOMAIN chunks[t] : chunks[t][d].status = "pending" }
           IN  \/ pending # {} /\ c = Min(pending)
               \/ pending = {} /\ chunks[t][c].status = "assigned" /\ chunks[t][c].worker # w
        /\ chunks' = [chunks EXCEPT ![t][c] = [status |-> "assigned", worker |-> w]]
    /\ UNCHANGED << task, shares, flight, finalizers, mainnet, clock, tick, crashes >>

(* submit_work up to where it drops the lock. The check of the segment     *)
(* against pi, and the late credit of a race, come after.                  *)
BeginSubmit(w) ==
    /\ flight[w] = NoRequest
    /\ \E t \in Tasks : \E c \in DOMAIN chunks[t] :
        \/ /\ chunks[t][c].status = "completed" /\ IsRace(t)
           /\ task[t].status \in {"gathering", "submitting"}
           /\ flight' = [flight EXCEPT ![w] = [task |-> t, chunk |-> c, path |-> "late"]]
        \/ /\ chunks[t][c].status # "completed" /\ t \in Gathering
           /\ \E path \in {"valid", "invalid"} :
                flight' = [flight EXCEPT ![w] = [task |-> t, chunk |-> c, path |-> path]]
    /\ UNCHANGED << task, chunks, shares, finalizers, mainnet, clock, tick, crashes >>

Answered(w) == flight' = [flight EXCEPT ![w] = NoRequest]

(* A segment that is not pi's puts the chunk back.                         *)
RefuseSegment(w) ==
    /\ flight[w].path = "invalid"
    /\ Answered(w)
    /\ LET t == flight[w].task
           c == flight[w].chunk
       IN  chunks' = IF chunks[t][c].status = "completed" THEN chunks
                     ELSE [chunks EXCEPT ![t][c] = [status |-> "pending", worker |-> NoWorker]]
    /\ UNCHANGED << task, shares, finalizers, mainnet, clock, tick, crashes >>

Share(t, c, w, units) ==
    [task |-> t, chunk |-> c, worker |-> w, units |-> units, credited |-> FALSE, created |-> clock]

\* mutant: the chunk read before the check decides, not the row
OpenUnchecked(t, c) == TRUE

(* WHERE chunk_id = ? AND status IN ('assigned', 'pending')                *)
StillOpen(t, c) == chunks[t][c].status # "completed"

(* The write: the first to get here has the chunk, whoever claimed it. The *)
(* last chunk starts a finalizer thread.                                   *)
CompleteChunk(w) ==
    LET t == flight[w].task
        c == flight[w].chunk
    IN  /\ flight[w].path = "valid"
        /\ Answered(w)
        /\ IF StillOpen(t, c)
           THEN /\ chunks' = [chunks EXCEPT ![t][c] = [status |-> "completed", worker |-> w]]
                /\ shares' = shares \cup { Share(t, c, w, Units(t)) }
                /\ finalizers' = IF (\A d \in DOMAIN chunks[t] : chunks'[t][d].status = "completed")
                                    /\ t \in Gathering
                                 THEN finalizers \cup { [by |-> "thread", task |-> t, step |-> "begin"] }
                                 ELSE finalizers
           ELSE UNCHANGED << chunks, shares, finalizers >>
        /\ UNCHANGED << task, mainnet, clock, tick, crashes >>

\* mutant: the task's status is not read again under the lock
CreditableUnchecked(t, c, w) == ~ \E s \in shares : s.task = t /\ s.chunk = c /\ s.worker = w

(* The task may have been submitted since the check.                       *)
LateCreditable(t, c, w) ==
    /\ task[t].status \in {"gathering", "submitting"}
    /\ ~ \E s \in shares : s.task = t /\ s.chunk = c /\ s.worker = w

(* A slower racer's share shrinks with its time: any part of the task.     *)
CreditLateShare(w) ==
    LET t == flight[w].task
        c == flight[w].chunk
    IN  /\ flight[w].path = "late"
        /\ Answered(w)
        /\ IF LateCreditable(t, c, w)
           THEN \E units \in 1..TaskUnits : shares' = shares \cup { Share(t, c, w, units) }
           ELSE UNCHANGED shares
        /\ UNCHANGED << task, chunks, finalizers, mainnet, clock, tick, crashes >>

---------------------------------------------------------------------------
(* finalize_task, by the thread of the last submission or by the tick *)

FinalizeReadyTasks ==
    /\ tick = "idle"
    /\ \E t \in Gathering :
        /\ Completed(t)
        /\ finalizers' = finalizers \cup { [by |-> "tick", task |-> t, step |-> "begin"] }
    /\ tick' = "finalize"
    /\ UNCHANGED << task, chunks, shares, flight, mainnet, clock, crashes >>

Goes(f, step) == finalizers' = (finalizers \ {f}) \cup { [f EXCEPT !.step = step] }

Ends(f) ==
    /\ finalizers' = finalizers \ {f}
    /\ tick' = IF f.by = "tick" THEN "idle" ELSE tick

Takes(f) == task[f.task].status = "gathering"

BeginFinalize(f) ==
    /\ f.step = "begin"
    /\ IF Takes(f)
       THEN task' = [task EXCEPT ![f.task].status = "submitting"] /\ Goes(f, "commit") /\ UNCHANGED tick
       ELSE Ends(f) /\ UNCHANGED task
    /\ UNCHANGED << chunks, shares, flight, mainnet, clock, crashes >>

(* commit_result. A round won by another refuses it, and so may any error. *)
Commit(f) ==
    /\ f.step = "commit"
    /\ \/ mainnet[f.task] = "open" /\ Goes(f, "reveal")
       \/ Goes(f, "failed")
    /\ UNCHANGED << task, chunks, shares, flight, mainnet, clock, tick, crashes >>

(* reveal_samples: what the node does, and the answer that reaches the     *)
(* pool, which may be none.                                                *)
Reveal(f) ==
    /\ f.step = "reveal"
    /\ IF mainnet[f.task] = "open"
       THEN \E outcome \in {"won", "pending", "lost"} :
              /\ mainnet' = [mainnet EXCEPT ![f.task] = outcome]
              /\ \E answer \in {outcome, "failed"} \cup (IF outcome = "won" THEN {"blockless"} ELSE {}) :
                    Goes(f, answer)
       ELSE UNCHANGED mainnet /\ Goes(f, "failed")
    /\ UNCHANGED << task, chunks, shares, flight, clock, tick, crashes >>

StatusOf(step) ==
    CASE step = "won" -> "accepted"
      [] step = "blockless" -> "submitted"
      [] step = "pending" -> "validation_pending"
      [] step = "lost" -> "rejected"

CreditedBy(step) == step # "lost"

(* The answer is recorded, and with it the shares are credited.            *)
Record(f) ==
    /\ f.step \in {"won", "blockless", "pending", "lost"}
    /\ Ends(f)
    /\ clock' = clock + 1
    /\ task' = [task EXCEPT ![f.task] = [status |-> StatusOf(f.step), done |-> clock', block |-> f.step = "won"]]
    /\ shares' = { IF s.task = f.task /\ CreditedBy(f.step) THEN [s EXCEPT !.credited = TRUE] ELSE s : s \in shares }
    /\ UNCHANGED << chunks, flight, mainnet, crashes >>

(* An exception: lost when it says so, an error otherwise.                 *)
FailTask(f) ==
    /\ f.step = "failed"
    /\ Ends(f)
    /\ clock' = clock + 1
    /\ \E status \in {"error"} \cup (IF mainnet[f.task] = "lost" THEN {"lost"} ELSE {}) :
        task' = [task EXCEPT ![f.task].status = status, ![f.task].done = clock']
    /\ UNCHANGED << chunks, shares, flight, mainnet, crashes >>

FinalizerStep == \E f \in finalizers :
    BeginFinalize(f) \/ Commit(f) \/ Reveal(f) \/ Record(f) \/ FailTask(f)

---------------------------------------------------------------------------
(* Tick thread: settlement *)

(* What _pending_settlement_tasks and _pending_mainnet_status_tasks list.  *)
Unsettled == { t \in Tasks : task[t].status \in {"submitted", "validation_pending"} }

\* mutant: completed_at = ?
SettledNow(t) == clock

(* completed_at = COALESCE(completed_at, ?): the time of the reveal stays. *)
SettledAt(t) == task[t].done

Settle(t, status) ==
    /\ task' = [task EXCEPT ![t] = [status |-> status, done |-> SettledAt(t), block |-> status = "accepted"]]
    /\ UNCHANGED << chunks, shares, flight, finalizers, mainnet, clock, tick, crashes >>

(* From the recent blocks: this task's block, or another's at its height.  *)
ReconcileWonBlocks ==
    /\ tick = "idle"
    /\ \E t \in Unsettled :
        \/ mainnet[t] = "won" /\ Settle(t, "accepted")
        \/ mainnet[t] = "lost" /\ Settle(t, "lost")

(* From the task's status on the node.                                     *)
ReconcileTaskStatuses ==
    /\ tick = "idle"
    /\ \E t \in Unsettled :
        \/ mainnet[t] = "won" /\ Settle(t, "accepted")
        \/ mainnet[t] = "lost" /\ Settle(t, "stale")
        \/ mainnet[t] = "pending" /\ task[t].status = "submitted" /\ Settle(t, "validation_pending")

---------------------------------------------------------------------------
(* Environment *)

(* The round ends on the node: for a revealed task either way, for one not *)
(* yet revealed only against it.                                           *)
MainnetDecides(t) ==
    /\ \/ mainnet[t] = "pending" /\ \E outcome \in {"won", "lost"} : mainnet' = [mainnet EXCEPT ![t] = outcome]
       \/ mainnet[t] = "open" /\ mainnet' = [mainnet EXCEPT ![t] = "lost"]
    /\ UNCHANGED << task, chunks, shares, flight, finalizers, clock, tick, crashes >>

(* The process dies and comes back with its database: requests and threads *)
(* are gone, and nothing looks for what they were doing.                   *)
Crash ==
    /\ crashes < MaxCrashes
    /\ crashes' = crashes + 1
    /\ flight' = [w \in Workers |-> NoRequest]
    /\ finalizers' = {}
    /\ tick' = "idle"
    /\ UNCHANGED << task, chunks, shares, mainnet, clock >>

Next ==
    \/ EnsureActiveTask \/ ExpireStaleAssignments
    \/ \E w \in Workers :
        ClaimWork(w) \/ BeginSubmit(w) \/ RefuseSegment(w) \/ CompleteChunk(w) \/ CreditLateShare(w)
    \/ FinalizeReadyTasks
    \/ \E f \in finalizers : BeginFinalize(f) \/ Commit(f) \/ Reveal(f) \/ Record(f) \/ FailTask(f)
    \/ ReconcileWonBlocks \/ ReconcileTaskStatuses
    \/ \E t \in Tasks : MainnetDecides(t)
    \/ Crash

Spec == Init /\ [][Next]_vars

---------------------------------------------------------------------------
(* Properties *)

TypeOK ==
    /\ \A t \in Tasks :
        /\ task[t].status \in {"none", "gathering", "submitting", "submitted", "validation_pending",
                               "accepted", "rejected", "lost", "stale", "error"}
        /\ task[t].done \in 0..clock
        /\ mainnet[t] \in {"none", "open", "pending", "won", "lost"}
        /\ DOMAIN chunks[t] \subseteq 1..TaskUnits
    /\ clock \in 0..MaxTasks
    /\ tick = "finalize" <=> \E f \in finalizers : f.by = "tick"

(* However the submissions of the workers cross (submit_work and the late  *)
(* credit of a race drop the lock between check and write), a completed    *)
(* chunk pays the worker it records, whole, and nobody twice; outside a    *)
(* race it pays nobody else. (With the types of the module.)               *)
SharesMatchWork ==
    TypeOK /\ \A t \in Tasks : \A c \in DOMAIN chunks[t] :
        LET paid == { s \in shares : s.task = t /\ s.chunk = c }
        IN  /\ chunks[t][c].status = "completed" =>
                \E s \in paid : s.worker = chunks[t][c].worker /\ s.units = Units(t)
            /\ chunks[t][c].status # "completed" => paid = {}
            /\ \A r, s \in paid : r # s => IsRace(t) /\ r.worker # s.worker

(* A share is credited with its task or not at all: a late race share that *)
(* crosses the end of finalize_task is not left behind without its credit. *)
NoShareLeftUncredited ==
    \A r, s \in shares : r.task = s.task => r.credited = s.credited

Outcome(status) ==
    CASE status \in {"none", "gathering", "submitting"} -> "open"
      [] status \in {"submitted", "validation_pending"} -> "pending"
      [] status = "accepted" -> "accepted"
      [] OTHER -> "ended"

CreditOf(t, w) ==
    LET counted == { s \in shares : s.task = t /\ s.worker = w /\ s.credited /\ s.created = task[t].done - 1 }
    IN  SumFunction([s \in counted |-> s.units])

Ledger == INSTANCE PoolLedger WITH
    state <- [t \in Tasks |-> Outcome(task[t].status)],
    done <- [t \in Tasks |-> task[t].done],
    credit <- [t \in Tasks |-> [w \in Workers |-> CreditOf(t, w)]]

(* The tick and the thread of the last chunk both finalize, shares arrive  *)
(* while they do, settlements come late and out of order: for whoever      *)
(* accounts, a task closes once, at a time that never moves, with all the  *)
(* credit of the work done for it, dated before it closed.                 *)
WorkKeepsLedger == Ledger!LedgerSpec

===============================================================================
