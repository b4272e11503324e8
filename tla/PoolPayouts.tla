------------------------------ MODULE PoolPayouts ------------------------------
(***************************************************************************)
(* What the pool owes and pays its workers: a block's reward is shared     *)
(* over the work since the pool's previous block, payouts go out as        *)
(* transfers of the payout wallet, and the tick thread follows them on the *)
(* node. An answer may be lost, a request may arrive late, the node may    *)
(* replay its chain and forget for a while, the pool may crash: anywhere.  *)
(***************************************************************************)
EXTENDS PoolLedger, Sequences

CONSTANTS
    Reward,         \* of a block, in payout units: every block pays the same
    MinPayout, Fee,
    Funds,          \* confirmed balance of the payout wallet
    MaxPayouts,     \* bound: rows of pool_payouts
    MaxFaults       \* bound: replays of the node and crashes of the pool

ASSUME PayoutAssumption ==
    /\ {Reward, MinPayout, Fee, Funds, MaxPayouts, MaxFaults} \subseteq Nat
    /\ MinPayout > 0

(* The code divides rewards as Decimals: the payout unit is fine enough    *)
(* for every total of units a window can have.                             *)
ASSUME SharesAreExact ==
    \A n \in 1..(MaxTasks * (TaskUnits * Cardinality(Workers))) : Reward % n = 0

VARIABLES
    payouts,    \* pool_payouts: [worker, amount, status] in order of creation
    wire,       \* of each, how far its transaction got: [at, nonce]
    run,        \* run_payouts under way: who is left, at what nonce and balance
    pass,       \* reconcile_payout_statuses under way: rows left, node healthy?
    tick,       \* what the tick thread is in the middle of
    replaying,  \* the node replays: it is not healthy and finds no transaction
    unseen,     \* history: payouts released on a lookup made while it replayed
    faults

vars == << ledgerVars, payouts, wire, run, pass, tick, replaying, unseen, faults >>

Rows == DOMAIN payouts
NoRun == [due |-> [w \in Workers |-> 0], nonce |-> 0, left |-> 0, row |-> 0]

(* row is the payout about to be released; blind is history: whether it was*)
(* looked up while the node replayed.                                      *)
NoPass == [rows |-> {}, health |-> "unknown", row |-> 0, blind |-> FALSE]

Init ==
    /\ LedgerInit
    /\ payouts = << >>
    /\ wire = << >>
    /\ run = NoRun
    /\ pass = NoPass
    /\ replaying = FALSE
    /\ unseen = {}
    /\ faults = 0
    /\ tick = "idle"

---------------------------------------------------------------------------
(* Accounting: summarize_round_window_payouts *)

Accepted == { t \in Tasks : state[t] = "accepted" }

\* mutant: no end of the window
WindowOpen(t) == { u \in Closed : \A b \in Accepted : done[b] < done[t] => done[b] < done[u] }

(* The tasks closed since the block before this one, this one included.    *)
Window(t) ==
    { u \in Closed : /\ done[u] <= done[t]
                     /\ \A b \in Accepted : done[b] < done[t] => done[b] < done[u] }

UnitsIn(W, S) == SumFunctionOnSet([u \in W |-> SumFunctionOnSet(credit[u], S)], W)

Share(t, w) == (Reward * UnitsIn(Window(t), {w})) \div UnitsIn(Window(t), Workers)
Earned(w) == SumFunctionOnSet([t \in Accepted |-> Share(t, w)], Accepted)

AmountOf(S) == SumFunctionOnSet([i \in S |-> payouts[i].amount], S)

\* mutant: WHERE status = 'confirmed'
CountedConfirmed == {"confirmed"}

(* _paid_payout_rows: whatever may have been paid counts as paid.          *)
Counted == {"submitting", "submitted", "confirmed"}

Paid(w) == AmountOf({ i \in Rows : payouts[i].worker = w /\ payouts[i].status \in Counted })
Pending(w) == Max({0, Earned(w) - Paid(w)})

---------------------------------------------------------------------------
(* The node, for transfers of the payout wallet *)

Landed == { i \in Rows : wire[i].at = "confirmed" }
Spent(S) == SumFunctionOnSet([i \in S |-> payouts[i].amount + Fee], S)
Balance == Funds - Spent(Landed)
Known == { i \in Rows : wire[i].at \in {"pending", "confirmed"} }
NextNonce == 1 + Cardinality(Known)
Reserved == Spent({ i \in Rows : payouts[i].status \in {"submitting", "submitted"} })

Moves(i, at) == wire' = [wire EXCEPT ![i].at = at]

(* A transfer is accepted at the wallet's next nonce, and only if covered. *)
(* One that is lost on the way is one refused whose answer is lost.        *)
NodeReceives(i) ==
    /\ wire[i].at = "flying"
    /\ ~ replaying
    /\ \/ /\ wire[i].nonce = NextNonce
          /\ payouts[i].amount + Fee <= Balance
          /\ Moves(i, "pending")
       \/ Moves(i, "refused")
    /\ UNCHANGED << ledgerVars, tick, payouts, run, pass, replaying, unseen, faults >>

(* Mined in the order of the nonces; the last one may also run out of time.*)
NodeMines(i) ==
    /\ wire[i].at = "pending"
    /\ \/ /\ \A j \in Known : wire[j].nonce < wire[i].nonce => wire[j].at = "confirmed"
          /\ Moves(i, "confirmed")
       \/ /\ wire[i].nonce = NextNonce - 1
          /\ Moves(i, "expired")
    /\ UNCHANGED << ledgerVars, tick, payouts, run, pass, replaying, unseen, faults >>

(* A replay begins and ends whatever the pool is doing.                    *)
NodeReplays ==
    /\ \/ ~ replaying /\ faults < MaxFaults /\ replaying' = TRUE /\ faults' = faults + 1
       \/ replaying /\ replaying' = FALSE /\ UNCHANGED faults
    /\ UNCHANGED << ledgerVars, tick, payouts, wire, run, pass, unseen >>

---------------------------------------------------------------------------
(* reconcile_payout_statuses *)

Status(i, status) == payouts' = [payouts EXCEPT ![i].status = status]

\* mutant: WHERE status = 'submitted'
ListedSubmitted == { i \in Rows : payouts[i].status = "submitted" }

(* What reconcile_payout_statuses lists.                                   *)
Listed == { i \in Rows : payouts[i].status \in {"submitting", "submitted"} }

(* Listed first, then looked up one by one.                                *)
StartPass ==
    /\ tick = "idle" /\ Listed # {}
    /\ tick' = "reconcile"
    /\ pass' = [NoPass EXCEPT !.rows = Listed]
    /\ UNCHANGED << ledgerVars, payouts, wire, run, replaying, unseen, faults >>

(* Found, the row follows its transaction; failed, or not found for the    *)
(* length of the grace, it is to be released. No request of the pool is on *)
(* its way for as long as the grace.                                       *)
LookUp(i, aged) ==
    /\ tick = "reconcile" /\ pass.row = 0 /\ pass.rows # {} /\ i = Min(pass.rows)
    /\ aged => wire[i].at # "flying"
    /\ LET found   == IF replaying THEN "nothing" ELSE wire[i].at
           release == found = "expired" \/ (found \notin {"pending", "confirmed"} /\ aged)
       IN  /\ pass' = [pass EXCEPT !.rows  = @ \ {i},
                                   !.row   = IF release THEN i ELSE 0,
                                   !.blind = release /\ replaying]
           /\ \/ found = "confirmed" /\ Status(i, "confirmed")
              \/ found = "pending" /\ Status(i, "submitted")
              \/ found \notin {"confirmed", "pending"} /\ UNCHANGED payouts
    /\ UNCHANGED << ledgerVars, tick, wire, run, replaying, unseen, faults >>

(* _payout_status_source_healthy is asked after the lookup, and at most    *)
(* once in a pass: the node may have begun or ended a replay in between.   *)
Health == IF pass.health # "unknown" THEN pass.health ELSE IF replaying THEN "no" ELSE "yes"

(* Released if the node is, or was, healthy; else left to a later pass.    *)
Release ==
    /\ pass.row # 0
    /\ pass' = [pass EXCEPT !.health = Health, !.row = 0, !.blind = FALSE]
    /\ IF Health = "yes"
       THEN /\ Status(pass.row, "error")
            /\ unseen' = IF pass.blind THEN unseen \cup {pass.row} ELSE unseen
       ELSE UNCHANGED << payouts, unseen >>
    /\ UNCHANGED << ledgerVars, tick, wire, run, replaying, faults >>

---------------------------------------------------------------------------
(* run_payouts *)

Idle == tick' = "idle" /\ run' = NoRun /\ pass' = NoPass

(* The tick ends here, or the interval is over: what is due to every       *)
(* worker, the nonce, and the balance less what is already promised. A     *)
(* node that replays answers from the start of its chain.                  *)
AfterPass ==
    /\ \/ tick = "reconcile" /\ pass.rows = {} /\ pass.row = 0
       \/ tick = "idle" /\ Listed = {}
    /\ \/ Idle
       \/ LET due == [w \in Workers |-> IF Pending(w) >= MinPayout THEN Pending(w) ELSE 0]
          IN  /\ \E w \in Workers : due[w] > 0
              /\ tick' = "pay"
              /\ pass' = NoPass
              /\ run' = [due   |-> due,
                         nonce |-> IF replaying THEN 1 ELSE NextNonce,
                         left  |-> Max({0, (IF replaying THEN Funds ELSE Balance) - Reserved}),
                         row   |-> 0]
    /\ UNCHANGED << ledgerVars, payouts, wire, replaying, unseen, faults >>

(* The row is written before the transaction leaves.                       *)
InsertPayout(w) ==
    /\ tick = "pay" /\ run.row = 0 /\ run.due[w] > 0
    /\ IF run.due[w] + Fee <= run.left /\ Len(payouts) < MaxPayouts
       THEN /\ payouts' = Append(payouts, [worker |-> w, amount |-> run.due[w], status |-> "submitting"])
            /\ wire' = Append(wire, [at |-> "unsent", nonce |-> run.nonce])
            /\ run' = [run EXCEPT !.due[w] = 0, !.row = Len(payouts')]
       ELSE run' = [run EXCEPT !.due[w] = 0] /\ UNCHANGED << payouts, wire >>
    /\ UNCHANGED << ledgerVars, tick, pass, replaying, unseen, faults >>

PostPayout ==
    /\ tick = "pay" /\ run.row # 0 /\ wire[run.row].at = "unsent"
    /\ Moves(run.row, "flying")
    /\ UNCHANGED << ledgerVars, tick, payouts, run, pass, replaying, unseen, faults >>

(* 4xx is a refusal; after anything else the transfer may have arrived.    *)
AfterFailure(at) == IF at = "refused" THEN "error" ELSE "submitted"

HearPayout ==
    /\ tick = "pay" /\ run.row # 0
    /\ LET i  == run.row
           at == wire[i].at
       IN  /\ at # "unsent"
           /\ \/ /\ at \in {"pending", "confirmed", "expired"}
                 /\ Status(i, "submitted")
                 /\ run' = [run EXCEPT !.row = 0, !.nonce = @ + 1,
                                       !.left = Max({0, @ - (payouts[i].amount + Fee)})]
                 /\ UNCHANGED << tick, pass >>
              \/ Status(i, AfterFailure(at)) /\ Idle
    /\ UNCHANGED << ledgerVars, wire, replaying, unseen, faults >>

EndRun ==
    /\ tick = "pay" /\ run.row = 0 /\ \A w \in Workers : run.due[w] = 0
    /\ Idle
    /\ UNCHANGED << ledgerVars, payouts, wire, replaying, unseen, faults >>

---------------------------------------------------------------------------

(* The process dies and comes back with its database.                      *)
Crash ==
    /\ faults < MaxFaults
    /\ faults' = faults + 1
    /\ Idle
    /\ UNCHANGED << ledgerVars, payouts, wire, replaying, unseen >>

(* The finalizer threads and the tick close and settle tasks.              *)
Work ==
    /\ LedgerNext
    /\ UNCHANGED << payouts, wire, run, pass, tick, replaying, unseen, faults >>

Next ==
    \/ Work
    \/ StartPass \/ AfterPass
    \/ \E i \in Rows, aged \in BOOLEAN : LookUp(i, aged)
    \/ Release
    \/ \E w \in Workers : InsertPayout(w)
    \/ PostPayout \/ HearPayout \/ EndRun
    \/ \E i \in Rows : NodeReceives(i) \/ NodeMines(i)
    \/ NodeReplays
    \/ Crash

Spec == Init /\ [][Next]_vars

(* The tick thread goes on with what it has begun and its requests end.    *)
(* The node mines, and does not replay for ever. A row looked up again and *)
(* again is in the end older than the grace (SF).                          *)
Fairness ==
    /\ WF_vars(StartPass \/ AfterPass \/ Release \/ \E i \in Rows : LookUp(i, FALSE))
    /\ SF_vars(\E i \in Rows : LookUp(i, TRUE))
    /\ WF_vars((\E w \in Workers : InsertPayout(w)) \/ PostPayout \/ HearPayout \/ EndRun)
    /\ WF_vars(\E i \in Rows : NodeReceives(i) \/ NodeMines(i))
    /\ SF_vars(replaying /\ NodeReplays)

FairSpec == Spec /\ Fairness

---------------------------------------------------------------------------
(* Properties *)

TypeOK ==
    /\ tick \in {"idle", "reconcile", "pay"}
    /\ DOMAIN wire = Rows
    /\ run.row \in Rows \cup {0} /\ pass.rows \subseteq Rows
    /\ pass.row \in Rows \cup {0} /\ unseen \subseteq Rows
    /\ run # NoRun => tick = "pay"
    /\ pass # NoPass => tick = "reconcile"
    /\ \A i \in Rows :
        /\ payouts[i].worker \in Workers /\ payouts[i].amount \in Nat \ {0}
        /\ payouts[i].status \in {"submitting", "submitted", "confirmed", "error"}

(* What the chain has paid a worker, whatever the pool believes of it, was *)
(* earned: no reply lost, crash or stale figure makes run_payouts pay the  *)
(* same work twice. One replay does: reconcile_payout_statuses looks a paid*)
(* payout up while the node replays, has asked for the node's health before*)
(* it began or asks once it is over, and releases it. Beyond the payouts so*)
(* released nothing is paid twice. (With the types of the module.)         *)
Seen == Landed \ unseen

PaidAtMostEarned ==
    TypeOK /\ \A w \in { payouts[i].worker : i \in Seen } :
        AmountOf({ i \in Seen : payouts[i].worker = w }) <= Earned(w)

(* run_payouts pays from figures it read before: a task that settles late, *)
(* between others already paid for, splits their window but takes nothing  *)
(* from anyone.                                                            *)
EarningsNeverShrink ==
    [][state' # state => \A w \in Workers : Earned(w) <= Earned(w)']_ledgerVars

(* A row written before a crash, or left open by a lost reply, does not    *)
(* hold the worker's money for ever.                                       *)
PayoutsSettle ==
    \A i \in 1..MaxPayouts :
        LET open == i \in Rows /\ payouts[i].status \in {"submitting", "submitted"}
        IN  open ~> ~ open
===============================================================================
