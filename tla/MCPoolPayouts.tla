---------------------------- MODULE MCPoolPayouts ----------------------------
(* Two workers and two tasks that may settle in either order. Nothing is   *)
(* earned before the first is done: it has just closed, with its block     *)
(* pending or accepted. The workers are alike, and w1 worked on it.        *)
EXTENDS PoolPayouts

CONSTANTS w1, w2

FirstClosed ==
    /\ \E outcome \in {"pending", "accepted"}, units \in [Workers -> 0..TaskUnits] :
        /\ units[w1] = TaskUnits
        /\ state = [t \in Tasks |-> IF t = 1 THEN outcome ELSE "open"]
        /\ credit = [t \in Tasks |-> IF t = 1 THEN units ELSE NoCredit]
    /\ done = [t \in Tasks |-> IF t = 1 THEN 1 ELSE 0]
    /\ payouts = << >> /\ wire = << >>
    /\ run = NoRun /\ pass = NoPass /\ tick = "idle"
    /\ replaying = FALSE /\ unseen = {} /\ faults = 0

FirstSpec == FirstClosed /\ [][Next]_vars /\ Fairness
===============================================================================
