----------------------------- MODULE MarketEscrow -----------------------------
(***************************************************************************)
(* What the marketplace owes its two sides for a booking: the requester    *)
(* pays it from the balance once at most, and the provider is credited     *)
(* once, for a booking that the balance paid or that a caller has stated   *)
(* the confirmed transfer of.                                              *)
(***************************************************************************)
EXTENDS Integers

CONSTANT Bookings

VARIABLES
    debited,    \* times the requester's account paid for a booking
    attested,   \* a caller stated a confirmed transfer for it
    settled     \* times the provider was credited for it

escrowVars == << debited, attested, settled >>

EscrowInit ==
    /\ debited = [b \in Bookings |-> 0]
    /\ attested = [b \in Bookings |-> FALSE]
    /\ settled = [b \in Bookings |-> 0]

Debit(b) ==
    /\ debited[b] = 0
    /\ debited' = [debited EXCEPT ![b] = 1]
    /\ UNCHANGED << attested, settled >>

Attest(b) ==
    /\ attested' = [attested EXCEPT ![b] = TRUE]
    /\ UNCHANGED << debited, settled >>

Settle(b) ==
    /\ debited[b] = 1 \/ attested[b]
    /\ settled[b] = 0
    /\ settled' = [settled EXCEPT ![b] = 1]
    /\ UNCHANGED << debited, attested >>

EscrowNext == \E b \in Bookings : Debit(b) \/ Attest(b) \/ Settle(b)

EscrowSpec == EscrowInit /\ [][EscrowNext]_escrowVars
===============================================================================
