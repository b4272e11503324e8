------------------------------ MODULE PoolLedger ------------------------------
(***************************************************************************)
(* What the pool's accounting may rely on: the tasks of the pool close one *)
(* after the other, a task closes once and with all its credit, and what   *)
(* it earned may be known only later. PoolWork implements it, PoolPayouts  *)
(* pays from it.                                                           *)
(***************************************************************************)
EXTENDS Integers, FiniteSets, FiniteSetsExt

CONSTANTS
    Workers,
    MaxTasks,       \* bound: tasks the node hands out
    TaskUnits       \* digits in a task

ASSUME LedgerAssumption ==
    MaxTasks \in Nat /\ TaskUnits \in Nat \ {0} /\ IsFiniteSet(Workers)

VARIABLES
    state,      \* of a task: "open", "pending", "accepted", "ended"
    done,       \* order in which the tasks closed: completed_at
    credit      \* units credited to a worker for a task

ledgerVars == << state, done, credit >>

Tasks == 1..MaxTasks
Closed == { t \in Tasks : state[t] # "open" }
NoCredit == [w \in Workers |-> 0]

LedgerInit ==
    /\ state = [t \in Tasks |-> "open"]
    /\ done = [t \in Tasks |-> 0]
    /\ credit = [t \in Tasks |-> NoCredit]

(* A race credits the winner with the whole task and others with a part of *)
(* it; otherwise the digits of the task are divided.                       *)
Close(t) ==
    /\ state[t] = "open"
    /\ done' = [done EXCEPT ![t] = Cardinality(Closed) + 1]
    /\ \/ /\ state' = [state EXCEPT ![t] = "ended"]
          /\ UNCHANGED credit
       \/ \E outcome \in {"pending", "accepted"}, units \in [Workers -> 0..TaskUnits] :
            /\ SumFunction(units) >= TaskUnits
            /\ state' = [state EXCEPT ![t] = outcome]
            /\ credit' = [credit EXCEPT ![t] = units]

(* The credit stays whatever becomes of the task.                          *)
SettleTask(t) ==
    /\ state[t] = "pending"
    /\ \E outcome \in {"accepted", "ended"} : state' = [state EXCEPT ![t] = outcome]
    /\ UNCHANGED << done, credit >>

LedgerNext == \E t \in Tasks : (\A u \in 1..(t - 1) : u \in Closed) /\ (Close(t) \/ SettleTask(t))

LedgerSpec == LedgerInit /\ [][LedgerNext]_ledgerVars
===============================================================================
