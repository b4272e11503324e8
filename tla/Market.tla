--------------------------------- MODULE Market ---------------------------------
(***************************************************************************)
(* Both halves of the marketplace, each from its first state, side by      *)
(* side: they meet only in the ledger, to which deposits add and from      *)
(* which bookings pay, and Funds stands for what they added. Some bookings *)
(* may have been made when the calls begin, as many as the listing has     *)
(* units for.                                                              *)
(***************************************************************************)
EXTENDS MarketDeposits, MarketBookings

VARIABLE half

vars == << half, depositVars, bookingVars >>

BookingsBegin ==
    \E made \in SUBSET Bookings : Cardinality(made) <= UnitsTotal /\ BookingsFrom(made)

Init ==
    /\ DepositsInit
    /\ \/ half = "deposits" /\ BookingsInit
       \/ half = "bookings" /\ BookingsBegin

OfDeposits(A) == half = "deposits" /\ A /\ UNCHANGED << half, bookingVars >>
OfBookings(A) == half = "bookings" /\ A /\ UNCHANGED << half, depositVars >>

Next == OfDeposits(DepositsNext) \/ OfBookings(BookingsNext)

Spec == Init /\ [][Next]_vars

(* The scanner process polls for ever and now and then its node is at the  *)
(* chain's height, every handler ends, and the agent's heartbeats do not   *)
(* stop.                                                                   *)
FairSpec ==
    /\ Spec
    /\ SF_vars(OfDeposits(Poll(Worker, height)))
    /\ \A s \in Scanners : WF_vars(OfDeposits(PassStep(s)))
    /\ \A h \in Threads : WF_vars(OfBookings(CallStep(h)))
    /\ WF_vars(OfBookings(BeginHeartbeat)) /\ WF_vars(OfBookings(CountReserved \/ PutHeartbeat))

(* Deposits, credits and passes of scanners, listing, bookings, payments   *)
(* and what a handler read before its commit keep their types.             *)
TypeOK == DepositsTypeOK /\ BookingsTypeOK
===============================================================================
