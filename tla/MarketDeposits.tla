---------------------------- MODULE MarketDeposits ----------------------------
(***************************************************************************)
(* Deposits of the compute marketplace (marketplace.py, scanner_worker.py):*)
(* a scanner reads the transfers to the escrow address from a chain, block *)
(* range by block range, records them as deposits, and credits those that  *)
(* are deep enough to the ledger of their account.                         *)
(*                                                                         *)
(* The scanner process and the handlers of the marketplace's API make      *)
(* passes over one database, and every read and every write is a           *)
(* transaction of its own: passes interleave between any two of them, work *)
(* on copies of rows, and may end anywhere.                                *)
(*                                                                         *)
(* The scanner process asks the chain. A caller of the API is believed: it *)
(* may report a transfer with any block and status, name any height, and   *)
(* poll any range of any node.                                             *)
(***************************************************************************)
EXTENDS Integers, FiniteSetsExt

CONSTANTS
    Scanners,       \* whoever makes passes: the scanner process, API callers
    Worker,         \* the scanner process, which never stops making them
    Transfers,      \* by block: the transfers to the escrow address
    MaxHeight,      \* bound: blocks of the chain
    NamedBlocks,    \* blocks that callers name in their requests
    ReportedAs,     \* statuses that their reports have
    Required,       \* confirmations_required
    BatchSize,      \* blocks scanned by a poll
    MaxPasses,      \* bound: passes and reports of the others
    MaxDeaths       \* bound: passes that die half way

ASSUME DepositsAssumption ==
    /\ Worker \in Scanners
    /\ Transfers \subseteq 1..MaxHeight /\ NamedBlocks \subseteq Nat \ {0}
    /\ ReportedAs \subseteq {"detected", "confirming", "confirmed", "reported"}
    /\ MaxHeight \in Nat /\ Required \in Nat \ {0} /\ BatchSize \in Nat \ {0}
    /\ MaxPasses \in Nat /\ MaxDeaths \in Nat

VARIABLES
    height,         \* of the chain
    deposit,        \* deposits: status of a transfer's row, or "none"
    block,          \* deposits: block_number of that row
    credits,        \* ledger_entries: entries that credit a transfer
    checkpoint,     \* scanner_checkpoints: last block scanned
    pass,           \* what a scanner is in the middle of
    told,           \* history: greatest height a caller has named
    passedOver,     \* history: transfers that scans set their checkpoint past
                    \* though they were refused, jumped over or not shown
    passes,
    deaths

depositVars ==
    << height, deposit, block, credits, checkpoint, pass, told, passedOver, passes, deaths >>

(* "reported" is a row whose report said that it is credited, or reorged:  *)
(* nothing looks at it again.                                              *)
Pending == {"detected", "confirming", "confirmed"}

NoBlock == -1

(* to is NoBlock for a pass that sets no checkpoint; todo are the transfers*)
(* it found, then the rows it read and still has to do; row is the one it  *)
(* is crediting; skips are the transfers up to to that it will not record. *)
NoPass == [step |-> "idle", latest |-> 0, to |-> NoBlock, skips |-> {},
           todo |-> {}, rows |-> << >>, row |-> 0]

DepositsInit ==
    /\ height = 0
    /\ deposit = [t \in Transfers |-> "none"]
    /\ block = [t \in Transfers |-> 0]
    /\ credits = [t \in Transfers |-> 0]
    /\ checkpoint = NoBlock
    /\ pass = [s \in Scanners |-> NoPass]
    /\ told = 0
    /\ passedOver = {}
    /\ passes = 0
    /\ deaths = 0

Grow ==
    /\ height < MaxHeight
    /\ height' = height + 1
    /\ UNCHANGED << deposit, block, credits, checkpoint, pass, told, passedOver, passes, deaths >>

Starts(s) ==
    /\ pass[s].step = "idle"
    /\ IF s = Worker THEN UNCHANGED passes ELSE passes < MaxPasses /\ passes' = passes + 1

Goes(s, record) == pass' = [pass EXCEPT ![s] = record]

(* resolve_scan_from_block: without a checkpoint the latest window only.   *)
ScanFrom(latest) == IF checkpoint = NoBlock THEN Max({0, latest - BatchSize + 1}) ELSE checkpoint + 1

Before(from) == { t \in Transfers : checkpoint = NoBlock /\ t < from }

(* poll_evm_token_transfers, poll_evm_native_transfers, by the scanner     *)
(* process: its node may lag behind the chain.                             *)
Poll(s, latest) ==
    /\ s = Worker /\ Starts(s)
    /\ latest \in 1..height
    /\ LET from == ScanFrom(latest)
           to == Min({latest, from + BatchSize - 1})
       IN  Goes(s, [NoPass EXCEPT !.step = "accept", !.latest = latest, !.to = to,
                                  !.skips = Before(from), !.todo = Transfers \cap (from..to)])
    /\ UNCHANGED << height, deposit, block, credits, checkpoint, told, passedOver, deaths >>

Names(latest) == told' = Max({told, latest})

(* The same, for a caller that names from_block, to_block, batch_size,     *)
(* latest_block_number and rpc_url: any range, any height, any transfers.  *)
PollAsked(s) ==
    /\ s # Worker /\ Starts(s)
    /\ \E to, latest \in NamedBlocks, found \in SUBSET Transfers :
        /\ \A t \in found : t <= to
        /\ Names(latest)
        /\ Goes(s, [NoPass EXCEPT !.step = "accept", !.latest = latest, !.to = to, !.todo = found,
                       !.skips = { t \in Transfers : checkpoint < t /\ t <= to } \ found])
    /\ UNCHANGED << height, deposit, block, credits, checkpoint, passedOver, deaths >>

Records(t, at, status) ==
    /\ deposit[t] = "none"
    /\ deposit' = [deposit EXCEPT ![t] = status]
    /\ block' = [block EXCEPT ![t] = at]

(* accept_deposit: UNIQUE (chain_code, tx_hash, log_index); a row that     *)
(* exists stays. It refuses a transfer while its chain or its token is     *)
(* disabled or its wallet is not verified, and the scan goes on without it.*)
AcceptDeposit(s) ==
    /\ pass[s].step = "accept" /\ pass[s].todo # {}
    /\ LET t == Min(pass[s].todo)
       IN  \/ Records(t, t, "detected") /\ Goes(s, [pass[s] EXCEPT !.todo = @ \ {t}])
           \/ /\ deposit[t] = "none"
              /\ Goes(s, [pass[s] EXCEPT !.todo = @ \ {t}, !.skips = @ \cup {t}])
              /\ UNCHANGED << deposit, block >>
           \/ /\ deposit[t] # "none"
              /\ Goes(s, [pass[s] EXCEPT !.todo = @ \ {t}])
              /\ UNCHANGED << deposit, block >>
    /\ UNCHANGED << height, credits, checkpoint, told, passedOver, passes, deaths >>

(* POST /scanner/deposits, and the rows of an import: a caller says what   *)
(* happened, in which block and how far it is.                             *)
Report(t) ==
    /\ passes < MaxPasses /\ passes' = passes + 1
    /\ \E at \in NamedBlocks, status \in ReportedAs : Records(t, at, status)
    /\ UNCHANGED << height, credits, checkpoint, pass, told, passedOver, deaths >>

(* process_confirmations reads its rows, and passes over those that are    *)
(* newer than the height it was given.                                     *)
Rows(latest) == { t \in Transfers : deposit[t] \in Pending /\ block[t] <= latest }

Confirms(s, record) ==
    LET rows == Rows(record.latest)
    IN  Goes(s, [record EXCEPT !.step = "confirm", !.todo = rows, !.rows = [t \in rows |-> deposit[t]]])

ReadRows(s) ==
    /\ pass[s].step = "accept" /\ pass[s].todo = {}
    /\ Confirms(s, pass[s])
    /\ UNCHANGED << height, deposit, block, credits, checkpoint, told, passedOver, passes, deaths >>

(* POST /scanner/{chain}/confirmations/process, and the end of an import.  *)
ProcessConfirmations(s) ==
    /\ s # Worker /\ Starts(s)
    /\ \E latest \in NamedBlocks : Names(latest) /\ Confirms(s, [NoPass EXCEPT !.latest = latest])
    /\ UNCHANGED << height, deposit, block, credits, checkpoint, passedOver, deaths >>

Deep(at, latest) == latest - at + 1 >= Required

(* put_deposit overwrites the row with the copy, whatever it has become.   *)
Confirm(s) ==
    /\ pass[s].step = "confirm"
    /\ \E t \in pass[s].todo :
        /\ \A u \in pass[s].todo : block[t] <= block[u]
        /\ IF Deep(block[t], pass[s].latest)
           THEN /\ deposit' = [deposit EXCEPT ![t] = "confirmed"]
                /\ Goes(s, [pass[s] EXCEPT !.step = "load", !.todo = @ \ {t}, !.row = t])
           ELSE /\ deposit' = [deposit EXCEPT ![t] =
                                IF pass[s].rows[t] = "detected" THEN "confirming" ELSE pass[s].rows[t]]
                /\ Goes(s, [pass[s] EXCEPT !.todo = @ \ {t}])
    /\ UNCHANGED << height, block, credits, checkpoint, told, passedOver, passes, deaths >>

Credited(s) == Goes(s, [pass[s] EXCEPT !.step = "confirm", !.row = 0])

(* credit_deposit reads the row again: another pass may have put an older  *)
(* copy over it, which ends this one with an error.                        *)
LoadDeposit(s) ==
    /\ pass[s].step = "load"
    /\ LET t == pass[s].row
       IN  CASE deposit[t] \notin {"confirmed", "credited"} -> Goes(s, NoPass)
             [] deposit[t] \in {"confirmed", "credited"} /\ credits[t] = 0 ->
                    Goes(s, [pass[s] EXCEPT !.step = "enter"])
             [] deposit[t] = "confirmed" /\ credits[t] > 0 ->
                    Goes(s, [pass[s] EXCEPT !.step = "mark"])
             [] deposit[t] = "credited" /\ credits[t] > 0 -> Credited(s)
    /\ UNCHANGED << height, deposit, block, credits, checkpoint, told, passedOver, passes, deaths >>

\* mutant: INSERT without ON CONFLICT(reference_type, reference_id) DO NOTHING
EntriesOfAgain(t) == credits[t] + 1

EntriesOf(t) == IF credits[t] > 0 THEN credits[t] ELSE 1

(* put_ledger_entry.                                                       *)
EnterCredit(s) ==
    /\ pass[s].step = "enter"
    /\ LET t == pass[s].row
       IN  credits' = [credits EXCEPT ![t] = EntriesOf(t)]
    /\ Goes(s, [pass[s] EXCEPT !.step = "mark"])
    /\ UNCHANGED << height, deposit, block, checkpoint, told, passedOver, passes, deaths >>

\* mutant: the deposit is left confirmed once its entry exists
MarkedLeft(s, t) == deposit

Marked(s, t) == [deposit EXCEPT ![t] = "credited"]

MarkCredited(s) ==
    /\ pass[s].step = "mark"
    /\ deposit' = Marked(s, pass[s].row)
    /\ Credited(s)
    /\ UNCHANGED << height, block, credits, checkpoint, told, passedOver, passes, deaths >>

\* mutant: the checkpoint is the height polled, not the end of the range
ScannedToLatest(s) == pass[s].latest

ScannedTo(s) == pass[s].to

(* set_scanner_checkpoint comes last, and may move it back.                *)
EndPass(s) ==
    /\ pass[s].step = "confirm" /\ pass[s].todo = {}
    /\ checkpoint' = IF pass[s].to = NoBlock THEN checkpoint ELSE ScannedTo(s)
    /\ passedOver' = passedOver \cup pass[s].skips
    /\ Goes(s, NoPass)
    /\ UNCHANGED << height, deposit, block, credits, told, passes, deaths >>

(* The process crashes, the node does not answer, or the INSERT of a       *)
(* transfer that another pass has just recorded is refused.                *)
PassDies(s) ==
    /\ pass[s].step # "idle" /\ deaths < MaxDeaths
    /\ deaths' = deaths + 1
    /\ Goes(s, NoPass)
    /\ UNCHANGED << height, deposit, block, credits, checkpoint, told, passedOver, passes >>

PassStep(s) ==
    \/ AcceptDeposit(s) \/ ReadRows(s) \/ Confirm(s) \/ LoadDeposit(s)
    \/ EnterCredit(s) \/ MarkCredited(s) \/ EndPass(s)

DepositsNext ==
    \/ Grow
    \/ \E t \in Transfers : Report(t)
    \/ \E s \in Scanners :
        \/ \E latest \in 1..MaxHeight : Poll(s, latest)
        \/ PollAsked(s) \/ ProcessConfirmations(s) \/ PassStep(s) \/ PassDies(s)

---------------------------------------------------------------------------
(* Properties *)

DepositsTypeOK ==
    /\ height \in 0..MaxHeight /\ told \in NamedBlocks \cup {0}
    /\ checkpoint \in (NoBlock..MaxHeight) \cup NamedBlocks
    /\ \A t \in Transfers :
        /\ deposit[t] \in Pending \cup {"none", "credited", "reported"}
        /\ block[t] \in NamedBlocks \cup {0, t}
    /\ \A s \in Scanners : pass[s].latest \in (0..MaxHeight) \cup NamedBlocks /\ pass[s].todo \subseteq Transfers

(* The checkpoint says that a block need never be looked at again: passes  *)
(* that overlap, move it back or die (set_scanner_checkpoint is a plain    *)
(* upsert) may not carry it past a transfer that no deposit records, but   *)
(* for those that accept_deposit refused, that lay before the first window *)
(* or that a caller's range or node left out (poll_evm_token_transfers).   *)
NoTransferSkipped ==
    \A t \in Transfers : t <= checkpoint => deposit[t] # "none" \/ t \in passedOver

(* Duplicate scans and reports, overlapping passes, stale copies put over a*)
(* credited deposit, deaths between the entry and the mark: the ledger has *)
(* a transfer once (README.md:354, "prevents double-crediting"), only when *)
(* the chain, or a caller's word for it, had buried its row's block; and   *)
(* what a pass has marked credited is in the ledger.                       *)
CreditedOnce ==
    \A t \in Transfers :
        /\ credits[t] <= 1
        /\ credits[t] = 1 => Deep(block[t], Max({height, told}))
        /\ deposit[t] = "credited" => credits[t] = 1

(* Although a pass may put a deposit back to an older status and makes     *)
(* another one fail, the scanner process ends up crediting every recorded  *)
(* deposit that the chain has buried, for good (process_confirmations,     *)
(* scanner_worker run_forever). A deposit reported as credited is not one. *)
TransfersAreCredited ==
    \A t \in Transfers :
        []( deposit[t] \in Pending /\ Deep(block[t], height)
            => <>[](deposit[t] = "credited" /\ credits[t] = 1) )
===============================================================================
