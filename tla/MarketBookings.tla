---------------------------- MODULE MarketBookings ----------------------------
(***************************************************************************)
(* Bookings of the compute marketplace (marketplace.py): a requester       *)
(* reserves a unit of a provider's listing, pays for it from the balance   *)
(* or with a transfer on chain, releases it, and the operator settles with *)
(* the provider, whose agent reports its units again and again. Nothing    *)
(* asks the chain about a payment's transfer: a caller that submits one    *)
(* states its confirmations, and is believed.                              *)
(*                                                                         *)
(* The API's handlers run in threads and hold no lock: each reads rows,    *)
(* decides, and puts whole rows back, one transaction at a time. Reads     *)
(* that directly follow one another are one step where no write in between *)
(* could tell.                                                             *)
(***************************************************************************)
EXTENDS Integers, FiniteSets, FiniteSetsExt

CONSTANTS
    Bookings,       \* 1..n: ids are fresh, they are numbered as they come
    Threads,        \* 1..n: handlers under way at once
    UnitsTotal,     \* of the listing; a booking takes one
    Funds,          \* bookings the account's deposits can pay for
    MaxCalls,       \* bound: calls of the API
    MaxCrashes      \* bound

ASSUME BookingsAssumption ==
    /\ Threads \subseteq Nat /\ Bookings \subseteq Nat /\ IsFiniteSet(Bookings)
    /\ UnitsTotal \in Nat \ {0} /\ Funds \in Nat
    /\ MaxCalls \in Nat /\ MaxCrashes \in Nat

VARIABLES
    listing,        \* [available, active]
    booking,        \* status of its row
    payment,        \* status of its row
    debits,         \* ledger_entries: debits for a booking's payment
    attested,       \* history: a caller stated enough confirmations for it
    settlements,    \* provider_settlements: rows of a booking
    call,           \* what a thread is in the middle of
    report,         \* a heartbeat under way
    calls,
    crashes

bookingVars ==
    << listing, booking, payment, debits, attested, settlements, call, report, calls, crashes >>

NoCall == [step |-> "idle"]
NoReport == [step |-> "idle"]

(* The bookings in made are created, unpaid, and no call is under way.     *)
BookingsFrom(made) ==
    /\ listing = [available |-> UnitsTotal - Cardinality(made), active |-> TRUE]
    /\ booking = [b \in Bookings |-> IF b \in made THEN "awaiting" ELSE "none"]
    /\ payment = [b \in Bookings |-> IF b \in made THEN "pending" ELSE "none"]
    /\ debits = [b \in Bookings |-> 0]
    /\ attested = [b \in Bookings |-> FALSE]
    /\ settlements = [b \in Bookings |-> 0]
    /\ call = [h \in Threads |-> NoCall]
    /\ report = NoReport
    /\ calls = 0
    /\ crashes = 0

BookingsInit == BookingsFrom({})

(* Which thread serves a call does not matter: the first that is free.     *)
Serves(h, record) ==
    /\ call[h].step = "idle" /\ \A g \in Threads : g < h => call[g].step # "idle"
    /\ calls < MaxCalls
    /\ calls' = calls + 1
    /\ call' = [call EXCEPT ![h] = record]

GoesOn(h, step) == call' = [call EXCEPT ![h].step = step]
Returns(h) == call' = [call EXCEPT ![h] = NoCall]

At(h, step) == call[h].step = step

---------------------------------------------------------------------------
(* create_booking *)

Named(b) == booking[b] # "none" \/ \E h \in Threads : ~ At(h, "idle") /\ call[h].b = b

BeginCreate(h, b) ==
    /\ ~ Named(b) /\ \A c \in Bookings : c < b => Named(c)
    /\ listing.active /\ listing.available >= 1
    /\ Serves(h, [step |-> "take", b |-> b, copy |-> [listing EXCEPT !.available = @ - 1]])
    /\ UNCHANGED << listing, booking, payment, debits, attested, settlements, report, crashes >>

(* put_listing, here and in release_booking, puts back what was read.      *)
PutListing(h) ==
    /\ \/ At(h, "take") /\ GoesOn(h, "reserve")
       \/ At(h, "give back") /\ GoesOn(h, "release")
    /\ listing' = call[h].copy
    /\ UNCHANGED << booking, payment, debits, attested, settlements, report, calls, crashes >>

PutBooking(h) ==
    /\ At(h, "reserve") /\ GoesOn(h, "order")
    /\ booking' = [booking EXCEPT ![call[h].b] = "awaiting"]
    /\ UNCHANGED << listing, payment, debits, attested, settlements, report, calls, crashes >>

PutPaymentOrder(h) ==
    /\ At(h, "order") /\ Returns(h)
    /\ payment' = [payment EXCEPT ![call[h].b] = "pending"]
    /\ UNCHANGED << listing, booking, debits, attested, settlements, report, calls, crashes >>

---------------------------------------------------------------------------
(* pay_payment_from_balance, submit_payment *)

AvailableBalance == Funds - MapThenSumSet(LAMBDA b : debits[b], Bookings)

\* mutant: the booking is activated before the balance is debited
PaysFirstLate(b) == IF booking[b] = "awaiting" THEN "activate" ELSE "debit"

PaysFirst(b) == "debit"

(* The balance is read here and debited later. A confirmed payment is      *)
(* answered without a change.                                              *)
BeginPay(h, b) ==
    /\ payment[b] \in {"pending", "submitted"}
    /\ AvailableBalance >= 1
    /\ Serves(h, [step |-> PaysFirst(b), b |-> b, booking |-> booking[b], final |-> "confirmed"])
    /\ UNCHANGED << listing, booking, payment, debits, attested, settlements, report, crashes >>

Activates(h) == call[h].booking = "awaiting" /\ call[h].final = "confirmed"

(* put_ledger_entry: ON CONFLICT(reference_type, reference_id) DO NOTHING. *)
DebitBalance(h) ==
    /\ At(h, "debit") /\ GoesOn(h, IF Activates(h) THEN "activate" ELSE "mark paid")
    /\ debits' = [debits EXCEPT ![call[h].b] = Max({@, 1})]
    /\ UNCHANGED << listing, booking, payment, attested, settlements, report, calls, crashes >>

(* The caller states the confirmations of a transaction, enough or not,    *)
(* whatever the payment's status: a confirmed one may fall back.           *)
BeginSubmitPayment(h, b) ==
    /\ payment[b] # "none"
    /\ \E final \in {"submitted", "confirmed"} :
        /\ Serves(h, [step |-> IF final = "confirmed" /\ booking[b] = "awaiting" THEN "activate" ELSE "mark paid",
                      b |-> b, booking |-> booking[b], final |-> final])
        /\ attested' = [attested EXCEPT ![b] = @ \/ final = "confirmed"]
    /\ UNCHANGED << listing, booking, payment, debits, settlements, report, crashes >>

(* put_booking with the copy: a booking released meanwhile is active again.*)
Activate(h) ==
    /\ At(h, "activate") /\ GoesOn(h, "mark paid")
    /\ booking' = [booking EXCEPT ![call[h].b] = "active"]
    /\ UNCHANGED << listing, payment, debits, attested, settlements, report, calls, crashes >>

PutPayment(h) ==
    /\ At(h, "mark paid") /\ Returns(h)
    /\ payment' = [payment EXCEPT ![call[h].b] = call[h].final]
    /\ UNCHANGED << listing, booking, debits, attested, settlements, report, calls, crashes >>

---------------------------------------------------------------------------
(* release_booking, settle_booking *)

BeginRelease(h, b) ==
    /\ booking[b] \in {"awaiting", "active"}
    /\ Serves(h, [step |-> "read listing", b |-> b])
    /\ UNCHANGED << listing, booking, payment, debits, attested, settlements, report, crashes >>

ReadListing(h) ==
    /\ At(h, "read listing")
    /\ call' = [call EXCEPT ![h] = [step |-> "give back", b |-> @.b,
                    copy |-> [listing EXCEPT !.available = Min({UnitsTotal, @ + 1})]]]
    /\ UNCHANGED << listing, booking, payment, debits, attested, settlements, report, calls, crashes >>

PutReleased(h) ==
    /\ At(h, "release") /\ Returns(h)
    /\ booking' = [booking EXCEPT ![call[h].b] = "released"]
    /\ UNCHANGED << listing, payment, debits, attested, settlements, report, calls, crashes >>

BeginSettle(h, b) ==
    /\ payment[b] = "confirmed" /\ booking[b] \in {"active", "released"}
    /\ settlements[b] = 0
    /\ Serves(h, [step |-> "settle", b |-> b])
    /\ UNCHANGED << listing, booking, payment, debits, attested, settlements, report, crashes >>

\* mutant: INSERT without ON CONFLICT(booking_id) DO NOTHING
SettledTimesAgain(b) == settlements[b] + 1

SettledTimes(b) == Max({settlements[b], 1})

PutSettlement(h) ==
    /\ At(h, "settle") /\ Returns(h)
    /\ settlements' = [settlements EXCEPT ![call[h].b] = SettledTimes(call[h].b)]
    /\ UNCHANGED << listing, booking, payment, debits, attested, report, calls, crashes >>

---------------------------------------------------------------------------
(* heartbeat_worker, register_worker, expire_stale_workers *)

Reserved == Cardinality({ b \in Bookings : booking[b] \in {"awaiting", "active"} })

(* The agent reports all its units or none in particular; a worker that    *)
(* registers again reports all.                                            *)
BeginHeartbeat ==
    /\ report.step = "idle"
    /\ \E online \in BOOLEAN, available \in {listing.available, UnitsTotal} :
        report' = [step |-> "count", online |-> online, available |-> available]
    /\ UNCHANGED << listing, booking, payment, debits, attested, settlements, call, calls, crashes >>

\* mutant: what the agent reports is taken as it is
OffersReported(available) == available

\* mutant: two bookings of one unit leave less than none
OffersUnfloored(available) == Min({available, UnitsTotal - Reserved})

Offers(available) == Max({0, Min({available, UnitsTotal - Reserved})})

CountReserved ==
    /\ report.step = "count"
    /\ report' = [report EXCEPT !.step = "put", !.available = IF report.online THEN Offers(@) ELSE 0]
    /\ UNCHANGED << listing, booking, payment, debits, attested, settlements, call, calls, crashes >>

PutHeartbeat ==
    /\ report.step = "put"
    /\ report' = NoReport
    /\ listing' = [available |-> report.available, active |-> report.online]
    /\ UNCHANGED << booking, payment, debits, attested, settlements, call, calls, crashes >>

ExpireStaleWorkers ==
    /\ listing.active
    /\ listing' = [available |-> 0, active |-> FALSE]
    /\ UNCHANGED << booking, payment, debits, attested, settlements, call, report, calls, crashes >>

(* The server dies and comes back with its database.                       *)
Crash ==
    /\ crashes < MaxCrashes
    /\ crashes' = crashes + 1
    /\ call' = [h \in Threads |-> NoCall]
    /\ report' = NoReport
    /\ UNCHANGED << listing, booking, payment, debits, attested, settlements, calls >>

CallStep(h) ==
    \/ PutListing(h) \/ PutBooking(h) \/ PutPaymentOrder(h) \/ DebitBalance(h) \/ Activate(h)
    \/ PutPayment(h) \/ ReadListing(h) \/ PutReleased(h) \/ PutSettlement(h)

Heartbeat == BeginHeartbeat \/ CountReserved \/ PutHeartbeat

BookingsNext ==
    \/ \E h \in Threads :
        \/ \E b \in Bookings :
            \/ BeginCreate(h, b) \/ BeginPay(h, b) \/ BeginSubmitPayment(h, b)
            \/ BeginRelease(h, b) \/ BeginSettle(h, b)
        \/ CallStep(h)
    \/ Heartbeat \/ ExpireStaleWorkers \/ Crash

---------------------------------------------------------------------------
(* Properties *)

BookingsTypeOK ==
    /\ listing.available \in 0..UnitsTotal /\ listing.active \in BOOLEAN
    /\ \A b \in Bookings :
        /\ booking[b] \in {"none", "awaiting", "active", "released"}
        /\ payment[b] \in {"none", "pending", "submitted", "confirmed"}
        /\ booking[b] = "none" => payment[b] = "none"

(* Two handlers that pay, release or settle one booking work on copies,    *)
(* and a crash may leave each half done: still nothing calls a booking     *)
(* paid, or runs it, but for a debit of the balance or a caller's word     *)
(* that its transfer is confirmed (submit_payment takes confirmations from *)
(* the request, README.md:899-914).                                        *)
ActiveIsPaid ==
    \A b \in Bookings :
        booking[b] = "active" \/ payment[b] = "confirmed" => debits[b] > 0 \/ attested[b]

Escrow == INSTANCE MarketEscrow WITH
    debited <- debits,
    settled <- settlements

(* Whatever calls cross, are repeated or die, the requester's balance pays *)
(* once and the provider earns once, for a booking that the balance paid   *)
(* or a caller stated the confirmed transfer of (README.md:549,            *)
(* "settlements are idempotent by booking_id").                            *)
BookingsKeepEscrow == Escrow!EscrowSpec

(* Handlers that put back old copies of the listing may offer a unit that  *)
(* is reserved (create_booking, release_booking); once the calls stop, the *)
(* agent's heartbeats take it back for good.                               *)
ListingHeals == <>[](listing.available <= Max({0, UnitsTotal - Reserved}))
===============================================================================
