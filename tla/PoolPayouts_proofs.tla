-------------------------- MODULE PoolPayouts_proofs --------------------------
(***************************************************************************)
(* Proofs about PoolPayouts, for every set of workers, every number of     *)
(* tasks, units and payouts, and however often the node replays its chain  *)
(* or the pool crashes: what a worker has earned never shrinks, and what   *)
(* the chain has paid it was earned.                                       *)
(***************************************************************************)
EXTENDS PoolPayouts, SetSums, SequenceTheorems

-------------------------------------------------------------------------------
(* Shares of a reward.                                                     *)

LEMMA ExactDivision ==
    ASSUME NEW R \in Nat, NEW n \in Nat \ {0}, R % n = 0
    PROVE  R \div n \in Nat /\ R = n * (R \div n)
  OBVIOUS

LEMMA QuotientOfProduct ==
    ASSUME NEW n \in Nat \ {0}, NEW m \in Nat, NEW q \in Nat, m = n * q
    PROVE  m \div n = q
  OBVIOUS

LEMMA ShareIsExact ==
    ASSUME NEW R \in Nat, NEW n \in Nat \ {0}, R % n = 0, NEW u \in Nat
    PROVE  (R * u) \div n = (R \div n) * u
  <1> DEFINE k == R \div n
             m == R * u
  <1>1. k \in Nat /\ R = n * k
    BY ExactDivision
  <1> HIDE DEF k
  <1>2. m = n * (k * u) /\ m \in Nat /\ k * u \in Nat
    BY <1>1
  <1> HIDE DEF m
  <1>3. m \div n = k * u
    BY <1>2, QuotientOfProduct
  <1> QED  BY <1>3 DEF m, k

(* The larger the total, the smaller the reward of a unit.                 *)
LEMMA UnitPaysLess ==
    ASSUME NEW R \in Nat, NEW n \in Nat \ {0}, NEW m \in Nat \ {0}, m <= n, R % n = 0, R % m = 0
    PROVE  R \div n <= R \div m
  <1> DEFINE k == R \div n
             l == R \div m
  <1>1. k \in Nat /\ l \in Nat /\ n * k = m * l
    BY ExactDivision
  <1> HIDE DEF k, l
  <1>2. k <= l
    <2> SUFFICES ASSUME l < k  PROVE FALSE
      BY <1>1
    <2>1. (l + 1) * m <= k * m /\ k * m <= k * n
      BY <1>1
    <2>2. (l + 1) * m = l * m + m
      BY <1>1
    <2> QED  BY <1>1, <2>1, <2>2
  <1> QED  BY <1>2 DEF k, l

(* A window that is split pays everyone at least as much.                  *)
LEMMA SplitShares ==
    ASSUME NEW R \in Nat, NEW n \in Nat \ {0}, NEW m \in Nat \ {0},
           R % n = 0, R % m = 0, R % (n + m) = 0, NEW u \in Nat, NEW v \in Nat
    PROVE  (R * (u + v)) \div (n + m) <= (R * u) \div n + (R * v) \div m
  <1> DEFINE k == R \div (n + m)
             i == R \div n
             j == R \div m
  <1>1. k \in Nat /\ i \in Nat /\ j \in Nat
    BY ExactDivision
  <1>2. k <= i /\ k <= j
    BY UnitPaysLess
  <1>3. /\ (R * (u + v)) \div (n + m) = k * (u + v)
        /\ (R * u) \div n = i * u /\ (R * v) \div m = j * v
    <2>1. n + m \in Nat \ {0} /\ u + v \in Nat
      OBVIOUS
    <2>2. (R * (u + v)) \div (n + m) = (R \div (n + m)) * (u + v)
      BY <2>1, ShareIsExact
    <2>3. (R * u) \div n = (R \div n) * u /\ (R * v) \div m = (R \div m) * v
      BY ShareIsExact
    <2> QED  BY <2>2, <2>3
  <1> HIDE DEF k, i, j
  <1>4. k * u <= i * u /\ k * v <= j * v /\ k * (u + v) = k * u + k * v
    BY <1>1, <1>2
  <1> QED  BY <1>1, <1>3, <1>4

-------------------------------------------------------------------------------
(* Units of work, for the credit c of the tasks.                           *)

Credits == [Tasks -> [Workers -> 0..TaskUnits]]
UnitsOf(c, S) == [u \in Tasks |-> Sum(c[u], S)]
Units(c, W, S) == Sum(UnitsOf(c, S), W)
MaxUnits == TaskUnits * Cardinality(Workers)

LEMMA TasksAreFinite == IsFiniteSet(Tasks) /\ Cardinality(Tasks) = MaxTasks /\ MaxTasks \in Nat
  BY LedgerAssumption, FS_Interval DEF Tasks

LEMMA WorkersAreFinite == IsFiniteSet(Workers) /\ Cardinality(Workers) \in Nat
  BY LedgerAssumption, FS_CardinalityType

LEMMA UnitsTyped ==
    ASSUME NEW c \in Credits, NEW S \in SUBSET Workers
    PROVE  \A u \in Tasks : UnitsOf(c, S)[u] \in 0..MaxUnits
  <1> SUFFICES ASSUME NEW u \in Tasks  PROVE Sum(c[u], S) \in 0..MaxUnits
    BY DEF UnitsOf
  <1>1. IsFiniteSet(S) /\ Cardinality(S) \in Nat /\ Cardinality(S) <= Cardinality(Workers)
    BY WorkersAreFinite, FS_Subset, FS_CardinalityType
  <1>2. \A w \in S : c[u][w] \in 0..TaskUnits
    BY DEF Credits
  <1>3. TaskUnits \in Nat
    BY LedgerAssumption
  <1>4. Sum(c[u], S) \in 0..(Cardinality(S) * TaskUnits)
    BY <1>1, <1>2, <1>3, SumIsBounded
  <1>5. Cardinality(S) * TaskUnits <= TaskUnits * Cardinality(Workers)
    BY <1>1, <1>3, WorkersAreFinite
  <1> QED  BY <1>1, <1>3, <1>4, <1>5, WorkersAreFinite DEF MaxUnits

LEMMA UnitsBounded ==
    ASSUME NEW c \in Credits, NEW S \in SUBSET Workers, NEW W \in SUBSET Tasks
    PROVE  /\ Units(c, W, S) \in Nat /\ Units(c, W, S) <= MaxTasks * MaxUnits
           /\ Terms(UnitsOf(c, S), W)
  <1>1. IsFiniteSet(W) /\ Cardinality(W) \in Nat /\ Cardinality(W) <= MaxTasks
    BY TasksAreFinite, FS_Subset, FS_CardinalityType
  <1>2. MaxUnits \in Nat
    BY LedgerAssumption, WorkersAreFinite DEF MaxUnits
  <1>3. Sum(UnitsOf(c, S), W) \in 0..(Cardinality(W) * MaxUnits)
    BY <1>1, <1>2, UnitsTyped, SumIsBounded
  <1>4. Cardinality(W) * MaxUnits <= MaxTasks * MaxUnits
    BY <1>1, <1>2, TasksAreFinite
  <1>5. Terms(UnitsOf(c, S), W)
    BY <1>1, <1>2, UnitsTyped DEF Terms
  <1> QED  BY <1>1, <1>2, <1>3, <1>4, <1>5, TasksAreFinite DEF Units

(* Disjoint windows.                                                       *)
LEMMA UnitsOfUnion ==
    ASSUME NEW c \in Credits, NEW S \in SUBSET Workers,
           NEW V \in SUBSET Tasks, NEW W \in SUBSET Tasks, V \cap W = {}
    PROVE  Units(c, V \cup W, S) = Units(c, V, S) + Units(c, W, S)
  BY UnitsBounded, SumOfUnion DEF Units

(* A task that is fully credited makes the total positive.                 *)
Covered(c, A) == \A t \in A : Sum(c[t], Workers) >= TaskUnits

LEMMA UnitsArePositive ==
    ASSUME NEW c \in Credits, NEW W \in SUBSET Tasks, NEW t \in W, Covered(c, {t})
    PROVE  Units(c, W, Workers) \in Nat \ {0} /\ Reward % Units(c, W, Workers) = 0
  <1>1. Terms(UnitsOf(c, Workers), W) /\ Units(c, W, Workers) \in Nat
    BY UnitsBounded
  <1>2. Sum(UnitsOf(c, Workers), W) =
            UnitsOf(c, Workers)[t] + Sum(UnitsOf(c, Workers), W \ {t})
    BY <1>1, SumWithout
  <1>3. Sum(UnitsOf(c, Workers), W \ {t}) \in Nat
    BY UnitsBounded DEF Units
  <1>4. UnitsOf(c, Workers)[t] \in Nat /\ UnitsOf(c, Workers)[t] >= TaskUnits
    BY UnitsTyped, LedgerAssumption, WorkersAreFinite DEF UnitsOf, Covered, MaxUnits
  <1>5. Units(c, W, Workers) >= 1
    BY <1>2, <1>3, <1>4, LedgerAssumption DEF Units
  <1>6. Units(c, W, Workers) <= MaxTasks * MaxUnits
    BY UnitsBounded
  <1>7. MaxTasks * MaxUnits \in Nat
    BY LedgerAssumption, WorkersAreFinite DEF MaxUnits
  <1> QED  BY <1>1, <1>5, <1>6, <1>7, SharesAreExact DEF MaxUnits

-------------------------------------------------------------------------------
(* Earnings, for the credit c of the tasks and the accepted tasks A: tasks *)
(* close in the order of their numbers.                                    *)

WindowIn(A, t) == {u \in 1..t : \A b \in A : b < t => b < u}
ShareIn(c, A, t, w) ==
    (Reward * Units(c, WindowIn(A, t), {w})) \div Units(c, WindowIn(A, t), Workers)
SharesIn(c, A, w) == [t \in A |-> ShareIn(c, A, t, w)]
EarnedIn(c, A, w) == Sum(SharesIn(c, A, w), A)

LEMMA WindowHasTask ==
    ASSUME NEW A \in SUBSET Tasks, NEW t \in Tasks
    PROVE  WindowIn(A, t) \in SUBSET Tasks /\ t \in WindowIn(A, t)
  BY LedgerAssumption DEF WindowIn, Tasks

LEMMA QuotientIsNat ==
    ASSUME NEW m \in Nat, NEW n \in Nat \ {0}
    PROVE  m \div n \in Nat
  OBVIOUS

LEMMA ShareIsNat ==
    ASSUME NEW c \in Credits, NEW A \in SUBSET Tasks, NEW t \in Tasks, Covered(c, {t}),
           NEW w \in Workers
    PROVE  ShareIn(c, A, t, w) \in Nat
  <1> DEFINE W == WindowIn(A, t)
  <1>1. W \in SUBSET Tasks /\ t \in W
    BY WindowHasTask
  <1> HIDE DEF W
  <1>2. Units(c, W, {w}) \in Nat /\ Units(c, W, Workers) \in Nat \ {0} /\ Reward \in Nat
    BY <1>1, UnitsBounded, UnitsArePositive, PayoutAssumption
  <1>3. Reward * Units(c, W, {w}) \in Nat
    BY <1>2
  <1> QED  BY <1>2, <1>3, QuotientIsNat DEF ShareIn, W

LEMMA SharesAreTerms ==
    ASSUME NEW c \in Credits, NEW A \in SUBSET Tasks, Covered(c, A), NEW w \in Workers
    PROVE  /\ Terms(SharesIn(c, A, w), A)
           /\ \A t \in A : SharesIn(c, A, w)[t] = ShareIn(c, A, t, w) /\ ShareIn(c, A, t, w) \in Nat
           /\ EarnedIn(c, A, w) \in Nat
  <1>1. IsFiniteSet(A)
    BY TasksAreFinite, FS_Subset
  <1>2. ASSUME NEW t \in A
        PROVE  SharesIn(c, A, w)[t] = ShareIn(c, A, t, w) /\ ShareIn(c, A, t, w) \in Nat
    BY ShareIsNat DEF SharesIn, Covered
  <1>3. Terms(SharesIn(c, A, w), A)
    BY <1>1, <1>2 DEF Terms
  <1> QED  BY <1>1, <1>2, <1>3, SumIsNat DEF EarnedIn

(* Only the credit of the tasks that came before matters.                  *)
LEMMA EarnedFromPast ==
    ASSUME NEW c \in Credits, NEW d \in Credits, NEW A \in SUBSET Tasks, Covered(c, A),
           NEW w \in Workers, \A t \in A : \A u \in 1..t : d[u] = c[u]
    PROVE  Covered(d, A) /\ EarnedIn(d, A, w) = EarnedIn(c, A, w)
  <1>1. Covered(d, A)
    BY DEF Covered, Tasks
  <1>2. ASSUME NEW t \in A, NEW S \in SUBSET Workers
        PROVE  Units(d, WindowIn(A, t), S) = Units(c, WindowIn(A, t), S)
    <2> DEFINE W == WindowIn(A, t)
    <2>1. W \in SUBSET Tasks /\ W \subseteq 1..t
      BY WindowHasTask DEF WindowIn
    <2> HIDE DEF W
    <2>2. \A u \in W : UnitsOf(c, S)[u] = UnitsOf(d, S)[u]
      BY <2>1 DEF UnitsOf
    <2>3. Terms(UnitsOf(c, S), W)
      BY <2>1, UnitsBounded
    <2>4. Sum(UnitsOf(c, S), W) = Sum(UnitsOf(d, S), W)
      BY <2>2, <2>3, SumSame
    <2> QED  BY <2>4 DEF Units, W
  <1>3. ASSUME NEW t \in A  PROVE ShareIn(d, A, t, w) = ShareIn(c, A, t, w)
    BY <1>2 DEF ShareIn
  <1>4. SharesIn(d, A, w) = SharesIn(c, A, w)
    BY <1>3 DEF SharesIn
  <1> QED  BY <1>1, <1>4 DEF EarnedIn

(* A task that is accepted late: the window of the next accepted task is   *)
(* split, the others stay.                                                 *)
LEMMA OtherWindows ==
    ASSUME NEW A \in SUBSET Tasks, NEW b \in Tasks, NEW t \in A,
           t < b \/ \E a \in A : b < a /\ a < t
    PROVE  WindowIn(A \cup {b}, t) = WindowIn(A, t)
  BY DEF WindowIn, Tasks

LEMMA NextWindow ==
    ASSUME NEW A \in SUBSET Tasks, NEW b \in Tasks \ A, NEW t \in A, b < t,
           \A a \in A : b < a => t <= a
    PROVE  /\ WindowIn(A, t) = WindowIn(A \cup {b}, b) \cup WindowIn(A \cup {b}, t)
           /\ WindowIn(A \cup {b}, b) \cap WindowIn(A \cup {b}, t) = {}
  <1>1. WindowIn(A \cup {b}, b) \cap WindowIn(A \cup {b}, t) = {}
    BY DEF WindowIn, Tasks
  <1>2. ASSUME NEW u \in WindowIn(A, t)
        PROVE  u \in WindowIn(A \cup {b}, b) \cup WindowIn(A \cup {b}, t)
    BY DEF WindowIn, Tasks
  <1>3. ASSUME NEW u \in WindowIn(A \cup {b}, b)  PROVE u \in WindowIn(A, t)
    BY DEF WindowIn, Tasks
  <1>4. ASSUME NEW u \in WindowIn(A \cup {b}, t)  PROVE u \in WindowIn(A, t)
    BY DEF WindowIn, Tasks
  <1> QED  BY <1>1, <1>2, <1>3, <1>4

LEMMA EarnedGrows ==
    ASSUME NEW c \in Credits, NEW A \in SUBSET Tasks, NEW b \in Tasks \ A, Covered(c, A \cup {b}),
           NEW w \in Workers
    PROVE  EarnedIn(c, A, w) <= EarnedIn(c, A \cup {b}, w)
  <1> DEFINE B == A \cup {b}
             f == SharesIn(c, A, w)
             g == SharesIn(c, B, w)
  <1>1. /\ B \in SUBSET Tasks /\ b \in B /\ B \ {b} = A
        /\ Covered(c, A) /\ Covered(c, B) /\ \A t \in B : Covered(c, {t})
    BY DEF Covered
  <1>2. /\ Terms(f, A) /\ EarnedIn(c, A, w) \in Nat
        /\ \A t \in A : f[t] = ShareIn(c, A, t, w) /\ f[t] \in Nat
    BY <1>1, SharesAreTerms
  <1>3. /\ Terms(g, B) /\ EarnedIn(c, B, w) \in Nat
        /\ \A t \in B : g[t] = ShareIn(c, B, t, w) /\ g[t] \in Nat
    <2> HIDE DEF B
    <2> QED  BY <1>1, SharesAreTerms
  <1>4. EarnedIn(c, A, w) = Sum(f, A) /\ EarnedIn(c, B, w) = Sum(g, B)
    BY DEF EarnedIn
  <1>5. ASSUME NEW t \in A, t < b \/ \E a \in A : b < a /\ a < t  PROVE g[t] = f[t]
    BY <1>1, <1>2, <1>3, <1>5, OtherWindows DEF ShareIn
  <1>6. ASSUME NEW t \in A, b < t, \A a \in A : b < a => t <= a  PROVE f[t] <= g[b] + g[t]
    <2> DEFINE V == WindowIn(B, b)
               W == WindowIn(B, t)
               u == Units(c, V, {w})
               v == Units(c, W, {w})
               n == Units(c, V, Workers)
               m == Units(c, W, Workers)
    <2>1. WindowIn(A, t) = V \cup W /\ V \cap W = {}
      BY <1>6, NextWindow
    <2>2. V \in SUBSET Tasks /\ W \in SUBSET Tasks /\ b \in V /\ t \in W
      BY <1>1, WindowHasTask
    <2> HIDE DEF V, W
    <2>3. /\ Units(c, V \cup W, {w}) = u + v
          /\ Units(c, V \cup W, Workers) = n + m
      BY <2>1, <2>2, UnitsOfUnion
    <2>4. u \in Nat /\ v \in Nat
      BY <2>2, UnitsBounded
    <2>5. n \in Nat \ {0} /\ Reward % n = 0 /\ m \in Nat \ {0} /\ Reward % m = 0
      BY <1>1, <2>2, UnitsArePositive
    <2>6. Reward % (n + m) = 0
      BY <1>1, <2>2, <2>3, UnitsArePositive
    <2>7. /\ f[t] = (Reward * Units(c, V \cup W, {w})) \div Units(c, V \cup W, Workers)
          /\ g[b] = (Reward * u) \div n /\ g[t] = (Reward * v) \div m
      BY <1>1, <1>2, <1>3, <2>1 DEF ShareIn, V, W
    <2> HIDE DEF u, v, n, m
    <2>8. (Reward * (u + v)) \div (n + m) <= (Reward * u) \div n + (Reward * v) \div m
      BY <2>4, <2>5, <2>6, SplitShares, PayoutAssumption
    <2> QED  BY <2>3, <2>7, <2>8
  <1> HIDE DEF f, g, B
  <1>7. Sum(g, B) = g[b] + Sum(g, A) /\ Terms(g, A) /\ Sum(g, A) \in Int
    BY <1>1, <1>3, SumWithout, PartOfTerms, SumIsInt
  <1>8. CASE \A a \in A : a < b
    <2>1. Sum(f, A) = Sum(g, A)
      BY <1>2, <1>5, <1>8, SumSame
    <2> QED  BY <1>1, <1>2, <1>3, <1>4, <1>7, <2>1 DEF B
  <1>9. CASE \E a \in A : ~ (a < b)
    <2>1. PICK t \in {a \in A : b < a} : \A a \in {x \in A : b < x} : t <= a
      <3>1. PICK a \in A : ~ (a < b)
        BY <1>9
      <3>2. a \in Nat /\ b \in Nat /\ a # b
        BY DEF Tasks
      <3>3. b < a
        BY <3>1, <3>2
      <3> DEFINE Above == {x \in A : b < x}
      <3>4. a \in Above
        BY <3>3
      <3>5. Above \in SUBSET Nat
        <4>1. \A x \in A : x \in Nat
          BY DEF Tasks
        <4> QED  BY <4>1
      <3> HIDE DEF Above
      <3>6. \E n \in Above : \A m \in Above : n <= m
        BY <3>4, <3>5, SmallestNat
      <3> QED  BY <3>6 DEF Above
    <2>2. \A x \in A : x # t => g[x] = f[x]
      <3> SUFFICES ASSUME NEW x \in A, x # t  PROVE x < b \/ \E a \in A : b < a /\ a < x
        BY <1>5
      <3>1. x \in Nat /\ b \in Nat /\ t \in Nat /\ x # b
        BY DEF Tasks
      <3>2. CASE b < x
        BY <2>1, <3>1, <3>2
      <3>3. CASE ~ (b < x)
        BY <3>1, <3>3
      <3> QED  BY <3>2, <3>3
    <2>3. Sum(g, A) = Sum(f, A) - f[t] + g[t]
      <3>1. t \in A /\ g[t] \in Int
        BY <1>1, <1>3, <2>1 DEF B
      <3> QED  BY <1>2, <2>2, <3>1, SumChangedAt
    <2>4. f[t] <= g[b] + g[t]
      BY <1>6, <2>1
    <2>5. f[t] \in Nat /\ g[t] \in Nat /\ g[b] \in Nat /\ Sum(f, A) \in Nat
      BY <1>1, <1>2, <1>3, <1>4, <2>1 DEF B
    <2> QED  BY <1>4, <1>7, <2>3, <2>4, <2>5 DEF B
  <1> QED  BY <1>8, <1>9

-------------------------------------------------------------------------------
(* The ledger: tasks close in the order of their numbers.                  *)

FullyCredited == {t \in Tasks : state[t] \in {"pending", "accepted"}}

LedgerInv ==
    /\ state \in [Tasks -> {"open", "pending", "accepted", "ended"}]
    /\ done \in [Tasks -> Nat]
    /\ credit \in Credits
    /\ Covered(credit, FullyCredited)
    /\ \E n \in 0..MaxTasks : Closed = 1..n /\ \A t \in 1..n : done[t] = t

LEMMA SumOfRange == \A f : SumFunction(f) = Sum(f, DOMAIN f)
  BY DEF SumFunction, FoldFunction, Sum, SumFunctionOnSet, FoldFunctionOnSet

LEMMA LedgerStart == LedgerInit => LedgerInv
  <1> SUFFICES ASSUME LedgerInit  PROVE LedgerInv
    OBVIOUS
  <1>1. credit \in Credits
    BY LedgerAssumption DEF LedgerInit, NoCredit, Credits
  <1>2. FullyCredited = {} /\ Closed = 1..0 /\ 0 \in 0..MaxTasks
    BY LedgerAssumption DEF LedgerInit, FullyCredited, Closed
  <1> QED  BY <1>1, <1>2 DEF LedgerInv, LedgerInit, Covered

LEMMA CloseKeepsLedger ==
    ASSUME LedgerInv, NEW t \in Tasks, \A u \in 1..(t - 1) : u \in Closed, Close(t)
    PROVE  /\ LedgerInv' /\ t \notin Accepted
           /\ \A u \in Tasks : u # t => credit'[u] = credit[u]
           /\ Accepted' = Accepted \/ Accepted' = Accepted \cup {t}
           /\ \A u \in Accepted : u < t
  <1> DEFINE Outcomes == {"open", "pending", "accepted", "ended"}
  <1>1. /\ state \in [Tasks -> Outcomes] /\ done \in [Tasks -> Nat] /\ credit \in Credits
        /\ Covered(credit, FullyCredited) /\ t \in Nat
    BY LedgerAssumption DEF LedgerInv, Tasks
  <1>2. PICK n \in 0..MaxTasks : Closed = 1..n /\ \A u \in 1..n : done[u] = u
    BY DEF LedgerInv
  <1>3. t = n + 1 /\ n \in Nat /\ t \in 0..MaxTasks
    <2>1. t \notin Closed /\ t >= 1 /\ t <= MaxTasks /\ n \in Nat
      BY LedgerAssumption DEF Close, Closed, Tasks
    <2>2. t > n
      BY <1>1, <1>2, <2>1
    <2>3. CASE t = 1
      BY <2>1, <2>2, <2>3, LedgerAssumption
    <2>4. CASE t > 1
      <3>1. t - 1 \in 1..(t - 1)
        BY <1>1, <2>4
      <3>2. t - 1 \in 1..n
        BY <1>2, <3>1
      <3> QED  BY <1>1, <2>1, <2>2, <3>2, LedgerAssumption
    <2> QED  BY <1>1, <2>1, <2>3, <2>4
  <1>4. done' = [done EXCEPT ![t] = t]
    <2>1. Cardinality(Closed) = n
      BY <1>2, <1>3, FS_Interval
    <2> QED  BY <1>1, <1>3, <2>1 DEF Close
  <1>5. PICK o \in {"pending", "accepted", "ended"} : state' = [state EXCEPT ![t] = o]
    BY DEF Close
  <1>6. /\ credit' \in Credits /\ \A u \in Tasks : u # t => credit'[u] = credit[u]
        /\ o # "ended" => Sum(credit'[t], Workers) >= TaskUnits
    <2>1. CASE UNCHANGED credit /\ o = "ended"
      BY <1>1, <2>1
    <2>2. CASE \E outcome \in {"pending", "accepted"}, units \in [Workers -> 0..TaskUnits] :
                  /\ SumFunction(units) >= TaskUnits
                  /\ state' = [state EXCEPT ![t] = outcome]
                  /\ credit' = [credit EXCEPT ![t] = units]
      <3>1. PICK units \in [Workers -> 0..TaskUnits] :
                  SumFunction(units) >= TaskUnits /\ credit' = [credit EXCEPT ![t] = units]
        BY <2>2
      <3>2. credit' \in Credits /\ credit'[t] = units /\ \A u \in Tasks : u # t => credit'[u] = credit[u]
        BY <1>1, <3>1 DEF Credits
      <3>3. SumFunction(units) = Sum(units, Workers)
        <4>1. DOMAIN units = Workers
          OBVIOUS
        <4> QED  BY <4>1, SumOfRange
      <3> QED  BY <3>1, <3>2, <3>3
    <2>3. state'[t] = o
      BY <1>1, <1>5
    <2>4. CASE state' = [state EXCEPT ![t] = "ended"] /\ UNCHANGED credit
      BY <1>1, <2>1, <2>3, <2>4
    <2> QED  BY <2>2, <2>4 DEF Close
  <1>7. state' \in [Tasks -> Outcomes] /\ done' \in [Tasks -> Nat]
    BY <1>1, <1>4, <1>5
  <1>8. Covered(credit', FullyCredited')
    <2> SUFFICES ASSUME NEW u \in FullyCredited'  PROVE Sum(credit'[u], Workers) >= TaskUnits
      BY DEF Covered
    <2>1. CASE u = t
      BY <1>1, <1>5, <1>6, <2>1 DEF FullyCredited
    <2>2. CASE u # t
      <3>1. u \in FullyCredited /\ credit'[u] = credit[u]
        BY <1>1, <1>5, <1>6, <2>2 DEF FullyCredited
      <3> QED  BY <1>1, <3>1 DEF Covered
    <2> QED  BY <2>1, <2>2
  <1>9. Closed' = 1..t /\ \A u \in 1..t : done'[u] = u
    <2>1. Closed' = Closed \cup {t}
      BY <1>1, <1>5 DEF Closed
    <2>2. 1..t = (1..n) \cup {t}
      BY <1>3
    <2>3. ASSUME NEW u \in 1..t  PROVE done'[u] = u
      <3>1. u \in Tasks
        BY <1>3, LedgerAssumption DEF Tasks
      <3> QED  BY <1>1, <1>2, <1>4, <2>2, <3>1
    <2> QED  BY <1>2, <2>1, <2>2, <2>3
  <1>10. LedgerInv'
    BY <1>3, <1>6, <1>7, <1>8, <1>9 DEF LedgerInv
  <1>11. t \notin Accepted /\ (Accepted' = Accepted \/ Accepted' = Accepted \cup {t})
    BY <1>1, <1>5 DEF Accepted, Close
  <1>12. ASSUME NEW u \in Accepted  PROVE u < t
    BY <1>2, <1>3 DEF Accepted, Closed
  <1> QED  BY <1>6, <1>10, <1>11, <1>12

LEMMA SettleKeepsLedger ==
    ASSUME LedgerInv, NEW t \in Tasks, SettleTask(t)
    PROVE  /\ LedgerInv' /\ t \notin Accepted /\ t \in FullyCredited /\ credit' = credit
           /\ Accepted' = Accepted \/ Accepted' = Accepted \cup {t}
  <1> DEFINE Outcomes == {"open", "pending", "accepted", "ended"}
  <1>1. /\ state \in [Tasks -> Outcomes] /\ done \in [Tasks -> Nat] /\ credit \in Credits
        /\ Covered(credit, FullyCredited) /\ state[t] = "pending"
    BY DEF LedgerInv, SettleTask
  <1>2. PICK o \in {"accepted", "ended"} : state' = [state EXCEPT ![t] = o]
    BY DEF SettleTask
  <1>3. UNCHANGED << done, credit >>
    BY DEF SettleTask
  <1>4. FullyCredited' \subseteq FullyCredited /\ t \in FullyCredited
    BY <1>1, <1>2 DEF FullyCredited
  <1>5. Covered(credit', FullyCredited')
    BY <1>1, <1>3, <1>4 DEF Covered
  <1>6. Closed' = Closed
    BY <1>1, <1>2 DEF Closed
  <1>7. state' \in [Tasks -> Outcomes]
    BY <1>1, <1>2
  <1>8. \E n \in 0..MaxTasks : Closed' = 1..n /\ \A u \in 1..n : done'[u] = u
    BY <1>3, <1>6 DEF LedgerInv
  <1>9. LedgerInv'
    BY <1>1, <1>3, <1>5, <1>7, <1>8 DEF LedgerInv
  <1>10. t \notin Accepted /\ (Accepted' = Accepted \/ Accepted' = Accepted \cup {t})
    BY <1>1, <1>2 DEF Accepted
  <1> QED  BY <1>3, <1>4, <1>9, <1>10

(* What the pool computes from its rows is what the ledger says.           *)
LEMMA WindowIsKnown ==
    ASSUME LedgerInv, NEW t \in Accepted
    PROVE  Window(t) = WindowIn(Accepted, t) /\ t \in Tasks
  <1>1. PICK n \in 0..MaxTasks : Closed = 1..n /\ \A u \in 1..n : done[u] = u
    BY DEF LedgerInv
  <1>2. Accepted \subseteq Closed /\ Closed \subseteq Tasks
    BY DEF Accepted, Closed
  <1>3. t \in 1..n /\ n \in Nat
    BY <1>1, <1>2, LedgerAssumption
  <1>4. ASSUME NEW u \in Closed
        PROVE  u \in Window(t) <=> u \in WindowIn(Accepted, t)
    <2>1. done[u] = u /\ done[t] = t /\ u \in 1..n
      BY <1>1, <1>3, <1>4
    <2>2. \A b \in Accepted : done[b] = b /\ b \in Nat
      BY <1>1, <1>2
    <2> QED  BY <1>3, <2>1, <2>2 DEF Window, WindowIn
  <1>5. Window(t) \subseteq Closed /\ WindowIn(Accepted, t) \subseteq Closed
    BY <1>1, <1>3 DEF Window, WindowIn
  <1>6. Window(t) = WindowIn(Accepted, t)
    BY <1>4, <1>5
  <1> QED  BY <1>2, <1>6

LEMMA UnitsAreKnown ==
    ASSUME LedgerInv, NEW W \in SUBSET Tasks, NEW S \in SUBSET Workers
    PROVE  UnitsIn(W, S) = Units(credit, W, S)
  <1> DEFINE f == [u \in W |-> SumFunctionOnSet(credit[u], S)]
  <1>1. credit \in Credits
    BY DEF LedgerInv
  <1>2. Terms(UnitsOf(credit, S), W)
    BY <1>1, UnitsBounded
  <1>3. \A u \in W : UnitsOf(credit, S)[u] = f[u]
    BY DEF UnitsOf, Sum
  <1> HIDE DEF f
  <1>4. Sum(UnitsOf(credit, S), W) = Sum(f, W)
    BY <1>2, <1>3, SumSame
  <1> QED  BY <1>4 DEF UnitsIn, Units, Sum, f

EarningsKnown ==
    /\ credit \in Credits /\ Accepted \in SUBSET Tasks /\ Covered(credit, Accepted)
    /\ \A w \in Workers : Earned(w) = EarnedIn(credit, Accepted, w) /\ Earned(w) \in Nat

LEMMA EarnedIsKnown == LedgerInv => EarningsKnown
  <1> SUFFICES ASSUME LedgerInv  PROVE EarningsKnown
    OBVIOUS
  <1>1. /\ credit \in Credits /\ Accepted \in SUBSET Tasks /\ Covered(credit, Accepted)
    BY DEF LedgerInv, Covered, Accepted, FullyCredited
  <1>2. ASSUME NEW w \in Workers
        PROVE  Earned(w) = EarnedIn(credit, Accepted, w) /\ Earned(w) \in Nat
    <2>1. ASSUME NEW t \in Accepted  PROVE Share(t, w) = ShareIn(credit, Accepted, t, w)
      <3>1. Window(t) = WindowIn(Accepted, t) /\ WindowIn(Accepted, t) \in SUBSET Tasks
        BY <1>1, WindowIsKnown, WindowHasTask
      <3>2. {w} \in SUBSET Workers /\ Workers \in SUBSET Workers
        OBVIOUS
      <3> QED  BY <3>1, <3>2, UnitsAreKnown DEF Share, ShareIn
    <2>2. [t \in Accepted |-> Share(t, w)] = SharesIn(credit, Accepted, w)
      BY <2>1 DEF SharesIn
    <2>3. Earned(w) = EarnedIn(credit, Accepted, w)
      BY <2>2 DEF Earned, EarnedIn, Sum
    <2> QED  BY <1>1, <2>3, SharesAreTerms
  <1> QED  BY <1>1, <1>2 DEF EarningsKnown

(* Every step of the ledger keeps what was earned.                         *)
LEMMA LedgerStep ==
    LedgerInv /\ [LedgerNext]_ledgerVars => LedgerInv' /\ \A w \in Workers : Earned(w) <= Earned(w)'
  <1> SUFFICES ASSUME LedgerInv, [LedgerNext]_ledgerVars
               PROVE  LedgerInv' /\ \A w \in Workers : Earned(w) <= Earned(w)'
    OBVIOUS
  <1>1. /\ credit \in Credits /\ Accepted \in SUBSET Tasks /\ Covered(credit, Accepted)
        /\ \A w \in Workers : Earned(w) = EarnedIn(credit, Accepted, w) /\ Earned(w) \in Nat
    BY EarnedIsKnown DEF EarningsKnown
  <1>2. ASSUME LedgerInv'
        PROVE  /\ credit' \in Credits /\ Accepted' \in SUBSET Tasks /\ Covered(credit', Accepted')
               /\ \A w \in Workers : Earned(w)' = EarnedIn(credit', Accepted', w)
    <2>1. LedgerInv' => EarningsKnown'
      BY EarnedIsKnown, PTL
    <2> QED  BY <1>2, <2>1 DEF EarningsKnown
  <1>3. CASE UNCHANGED ledgerVars
    <2>1. LedgerInv'
      BY <1>3 DEF ledgerVars, LedgerInv, FullyCredited, Covered, Closed
    <2>2. \A w \in Workers : Earned(w)' = Earned(w)
      BY <1>3 DEF ledgerVars, Earned, Share, Window, UnitsIn, Accepted, Closed
    <2> QED  BY <1>1, <2>1, <2>2
  <1>4. ASSUME NEW t \in Tasks, \A u \in 1..(t - 1) : u \in Closed, Close(t)
        PROVE  LedgerInv' /\ \A w \in Workers : Earned(w) <= Earned(w)'
    <2>1. /\ LedgerInv' /\ t \notin Accepted
          /\ \A u \in Tasks : u # t => credit'[u] = credit[u]
          /\ Accepted' = Accepted \/ Accepted' = Accepted \cup {t}
          /\ \A u \in Accepted : u < t
      BY <1>4, CloseKeepsLedger
    <2>2. /\ credit' \in Credits /\ Covered(credit', Accepted')
          /\ \A w \in Workers : Earned(w)' = EarnedIn(credit', Accepted', w)
      BY <1>2, <2>1
    <2>3. ASSUME NEW w \in Workers  PROVE Earned(w) <= Earned(w)'
      <3>1. \A a \in Accepted : \A u \in 1..a : credit'[u] = credit[u]
        BY <1>1, <2>1, LedgerAssumption DEF Tasks
      <3>2. Covered(credit', Accepted) /\ EarnedIn(credit', Accepted, w) = EarnedIn(credit, Accepted, w)
        BY <1>1, <2>2, <3>1, EarnedFromPast
      <3>3. CASE Accepted' = Accepted
        BY <1>1, <2>2, <3>2, <3>3
      <3>4. CASE Accepted' = Accepted \cup {t}
        <4>1. EarnedIn(credit', Accepted, w) <= EarnedIn(credit', Accepted \cup {t}, w)
          BY <1>1, <2>1, <2>2, <3>4, EarnedGrows
        <4> QED  BY <1>1, <2>2, <3>2, <3>4, <4>1
      <3> QED  BY <2>1, <3>3, <3>4
    <2> QED  BY <2>1, <2>3
  <1>5. ASSUME NEW t \in Tasks, SettleTask(t)
        PROVE  LedgerInv' /\ \A w \in Workers : Earned(w) <= Earned(w)'
    <2>1. /\ LedgerInv' /\ t \notin Accepted /\ credit' = credit
          /\ Accepted' = Accepted \/ Accepted' = Accepted \cup {t}
      BY <1>5, SettleKeepsLedger
    <2>2. /\ Covered(credit, Accepted')
          /\ \A w \in Workers : Earned(w)' = EarnedIn(credit, Accepted', w)
      BY <1>2, <2>1
    <2>3. ASSUME NEW w \in Workers  PROVE Earned(w) <= Earned(w)'
      <3>1. CASE Accepted' = Accepted
        BY <1>1, <2>2, <3>1
      <3>2. CASE Accepted' = Accepted \cup {t}
        <4>1. EarnedIn(credit, Accepted, w) <= EarnedIn(credit, Accepted \cup {t}, w)
          BY <1>1, <2>1, <2>2, <3>2, EarnedGrows
        <4> QED  BY <1>1, <2>2, <3>2, <4>1
      <3> QED  BY <2>1, <3>1, <3>2
    <2> QED  BY <2>1, <2>3
  <1> QED  BY <1>3, <1>4, <1>5 DEF LedgerNext

-------------------------------------------------------------------------------
(* Sums over the rows of pool_payouts.                                     *)

Statuses == {"submitting", "submitted", "confirmed", "error"}
Row == [worker: Workers, amount: Nat \ {0}, status: Statuses]
Wire == [at: {"unsent", "flying", "pending", "confirmed", "refused", "expired"}, nonce: Int]

Amounts(p) == [i \in DOMAIN p |-> p[i].amount]
PaidRows(p, w) == {i \in DOMAIN p : p[i].worker = w /\ p[i].status \in Counted}
PaidIn(p, w) == Sum(Amounts(p), PaidRows(p, w))

LEMMA RowsAreFinite ==
    ASSUME NEW p \in Seq(Row)
    PROVE  /\ DOMAIN p = 1..Len(p) /\ Len(p) \in Nat /\ IsFiniteSet(DOMAIN p)
           /\ \A i \in DOMAIN p : p[i] \in Row
  BY FS_Interval, ElementOfSeq, LenProperties

LEMMA AmountsAreTerms ==
    ASSUME NEW p \in Seq(Row), NEW S \in SUBSET DOMAIN p
    PROVE  Terms(Amounts(p), S) /\ \A i \in S : Amounts(p)[i] \in Nat
  <1>1. IsFiniteSet(S)
    BY RowsAreFinite, FS_Subset
  <1>2. \A i \in S : Amounts(p)[i] \in Nat
    BY RowsAreFinite DEF Amounts, Row
  <1> QED  BY <1>1, <1>2 DEF Terms

LEMMA PaidIsNat ==
    ASSUME NEW p \in Seq(Row), NEW w
    PROVE  PaidIn(p, w) \in Nat
  <1>1. PaidRows(p, w) \in SUBSET DOMAIN p
    BY DEF PaidRows
  <1> QED  BY <1>1, AmountsAreTerms, SumIsNat DEF PaidIn, Terms

LEMMA AmountIsSum ==
    ASSUME payouts \in Seq(Row), NEW S \in SUBSET DOMAIN payouts
    PROVE  AmountOf(S) = Sum(Amounts(payouts), S)
  <1> DEFINE f == [i \in S |-> payouts[i].amount]
  <1>1. \A i \in S : Amounts(payouts)[i] = f[i]
    BY DEF Amounts
  <1>2. Terms(Amounts(payouts), S)
    BY AmountsAreTerms
  <1> HIDE DEF f
  <1>3. Sum(Amounts(payouts), S) = Sum(f, S)
    BY <1>1, <1>2, SumSame
  <1> QED  BY <1>3 DEF AmountOf, Sum, f

LEMMA PaidIsSum ==
    ASSUME payouts \in Seq(Row), NEW w
    PROVE  Paid(w) = PaidIn(payouts, w)
  <1>1. PaidRows(payouts, w) \in SUBSET DOMAIN payouts
    BY DEF PaidRows
  <1>2. Paid(w) = AmountOf(PaidRows(payouts, w))
    BY DEF Paid, PaidRows, Rows
  <1> QED  BY <1>1, <1>2, AmountIsSum DEF PaidIn

(* A new status never makes more of the rows count, unless the row is one  *)
(* that was given up.                                                      *)
LEMMA NewStatusPays ==
    ASSUME NEW p \in Seq(Row), NEW i \in DOMAIN p, NEW s \in Statuses,
           p[i].status \in Counted \/ s \notin Counted
    PROVE  /\ [p EXCEPT ![i].status = s] \in Seq(Row)
           /\ \A w \in Workers : PaidIn([p EXCEPT ![i].status = s], w) <= PaidIn(p, w)
  <1> DEFINE q == [p EXCEPT ![i].status = s]
  <1>1. /\ DOMAIN p = 1..Len(p) /\ Len(p) \in Nat /\ \A j \in DOMAIN p : p[j] \in Row
    BY RowsAreFinite
  <1>2. q \in [1..Len(p) -> Row]
    <2>1. p \in [1..Len(p) -> Row]
      BY <1>1
    <2>2. [p[i] EXCEPT !.status = s] \in Row
      BY <1>1 DEF Row
    <2> QED  BY <1>1, <2>1, <2>2
  <1>3. q \in Seq(Row)
    BY <1>1, <1>2, SeqDef
  <1>4. \A j \in DOMAIN p : /\ q[j].worker = p[j].worker /\ q[j].amount = p[j].amount
                            /\ q[j].status = IF j = i THEN s ELSE p[j].status
    BY <1>1 DEF Row
  <1>5. DOMAIN q = DOMAIN p
    OBVIOUS
  <1> HIDE DEF q
  <1>6. Amounts(q) = Amounts(p)
    BY <1>4, <1>5 DEF Amounts
  <1>7. ASSUME NEW w \in Workers  PROVE PaidIn(q, w) <= PaidIn(p, w)
    <2>1. PaidRows(q, w) \subseteq PaidRows(p, w) /\ PaidRows(p, w) \in SUBSET DOMAIN p
      BY <1>4, <1>5 DEF PaidRows
    <2>2. Terms(Amounts(p), PaidRows(p, w)) /\ \A j \in PaidRows(p, w) : Amounts(p)[j] \in Nat
      BY <2>1, AmountsAreTerms
    <2>3. \A j \in PaidRows(p, w) : Amounts(p)[j] >= 0
      BY <2>2
    <2>4. Sum(Amounts(p), PaidRows(q, w)) <= Sum(Amounts(p), PaidRows(p, w))
      BY <2>1, <2>2, <2>3, SumOfMore
    <2> QED  BY <1>6, <2>4 DEF PaidIn
  <1> QED  BY <1>3, <1>7 DEF q

LEMMA NewRowPays ==
    ASSUME NEW p \in Seq(Row), NEW r \in Row, r.status \in Counted
    PROVE  /\ Append(p, r) \in Seq(Row)
           /\ \A w \in Workers : PaidIn(Append(p, r), w) =
                                 PaidIn(p, w) + IF w = r.worker THEN r.amount ELSE 0
  <1> DEFINE q == Append(p, r)
             n == Len(p) + 1
  <1>1. /\ DOMAIN p = 1..Len(p) /\ Len(p) \in Nat /\ \A j \in DOMAIN p : p[j] \in Row
    BY RowsAreFinite
  <1>2. q \in Seq(Row) /\ Len(q) = n /\ q[n] = r /\ \A j \in 1..Len(p) : q[j] = p[j]
    BY AppendProperties
  <1>3. DOMAIN q = DOMAIN p \cup {n} /\ n \notin DOMAIN p
    BY <1>1, <1>2, RowsAreFinite
  <1> HIDE DEF q, n
  <1>4. ASSUME NEW w \in Workers
        PROVE  PaidIn(q, w) = PaidIn(p, w) + IF w = r.worker THEN r.amount ELSE 0
    <2> DEFINE S == PaidRows(p, w)
    <2>1. S \in SUBSET DOMAIN p /\ S \in SUBSET DOMAIN q
      BY <1>3 DEF PaidRows
    <2>2. Sum(Amounts(p), S) = Sum(Amounts(q), S) /\ Sum(Amounts(p), S) \in Nat
      <3>1. \A j \in S : Amounts(p)[j] = Amounts(q)[j]
        BY <1>1, <1>2, <1>3, <2>1 DEF Amounts
      <3>2. Terms(Amounts(p), S)
        BY <2>1, AmountsAreTerms
      <3> HIDE DEF S
      <3>3. Sum(Amounts(p), S) = Sum(Amounts(q), S)
        BY <3>1, <3>2, SumSame
      <3> QED  BY <3>3, PaidIsNat DEF PaidIn, S
    <2>3. CASE w = r.worker
      <3>1. PaidRows(q, w) = S \cup {n} /\ n \notin S
        BY <1>1, <1>2, <1>3, <2>3 DEF PaidRows
      <3>2. S \cup {n} \in SUBSET DOMAIN q
        BY <1>3, <2>1
      <3> HIDE DEF S
      <3>3. Terms(Amounts(q), S \cup {n})
        BY <1>2, <3>2, AmountsAreTerms
      <3>4. Sum(Amounts(q), S \cup {n}) = Amounts(q)[n] + Sum(Amounts(q), S)
        BY <3>1, <3>3, SumWith
      <3>5. Amounts(q)[n] = r.amount /\ r.amount \in Nat
        BY <1>2, <1>3 DEF Amounts, Row
      <3> QED  BY <2>2, <2>3, <3>1, <3>4, <3>5 DEF PaidIn, S
    <2>4. CASE w # r.worker
      <3>1. PaidRows(q, w) = S
        BY <1>1, <1>2, <1>3, <2>4 DEF PaidRows
      <3> QED  BY <2>2, <2>4, <3>1 DEF PaidIn
    <2> QED  BY <2>3, <2>4
  <1> QED  BY <1>2, <1>4 DEF q

-------------------------------------------------------------------------------
(* The payouts under way.                                                  *)

Passes == [rows: SUBSET Nat, health: {"unknown", "yes", "no"}, row: Nat, blind: BOOLEAN]

PayTypes ==
    /\ payouts \in Seq(Row) /\ wire \in Seq(Wire) /\ Len(wire) = Len(payouts)
    /\ run \in [due: [Workers -> Nat], nonce: Int, left: Int, row: Nat]
    /\ pass \in Passes
    /\ replaying \in BOOLEAN

(* A row is released only when its transfer can no longer be mined, or when*)
(* it was looked up in a replay.                                           *)
Dead(i) == \/ wire[i].at \in {"refused", "expired"}
           \/ wire[i].at = "unsent" /\ run.row # i

ReleasedIsDead == \A i \in Rows : payouts[i].status = "error" => Dead(i) \/ i \in unseen

RunIsSubmitting == run.row # 0 => payouts[run.row].status = "submitting"

PassIsOpen ==
    /\ \A i \in pass.rows : payouts[i].status \in {"submitting", "submitted"}
    /\ pass.row # 0 => /\ pass.row \notin pass.rows
                       /\ payouts[pass.row].status \in {"submitting", "submitted"}
                       /\ pass.blind \/ wire[pass.row].at \in {"unsent", "refused", "expired"}

PayCore == PayTypes /\ TypeOK /\ ReleasedIsDead /\ RunIsSubmitting /\ PassIsOpen

(* What run_payouts is going to pay was computed before.                   *)
DueIsEarned == \A w \in Workers : PaidIn(payouts, w) + run.due[w] <= Earned(w)

PayInv == LedgerInv /\ PayCore /\ DueIsEarned

(* The same, for figures of the state before the step.                     *)
DueStays == \A w \in Workers : PaidIn(payouts', w) + run'.due[w] <= Earned(w)

LEMMA WireMoves ==
    ASSUME NEW i \in DOMAIN wire, NEW at, Moves(i, at), wire \in Seq(Wire),
           at \in {"unsent", "flying", "pending", "confirmed", "refused", "expired"}
    PROVE  /\ wire' \in Seq(Wire) /\ Len(wire') = Len(wire) /\ DOMAIN wire' = DOMAIN wire
           /\ \A j \in DOMAIN wire : wire'[j].at = IF j = i THEN at ELSE wire[j].at
  <1>1. /\ wire \in [1..Len(wire) -> Wire] /\ DOMAIN wire = 1..Len(wire) /\ Len(wire) \in Nat
    BY ElementOfSeq, LenProperties
  <1>2. wire' = [wire EXCEPT ![i].at = at]
    BY DEF Moves
  <1>3. [wire[i] EXCEPT !.at = at] \in Wire /\ [wire[i] EXCEPT !.at = at].at = at
    BY <1>1 DEF Wire
  <1>4. wire' \in [1..Len(wire) -> Wire]
    BY <1>1, <1>2, <1>3
  <1>5. wire' \in Seq(Wire) /\ Len(wire') = Len(wire)
    BY <1>1, <1>4, SeqDef, LenProperties
  <1>6. \A j \in DOMAIN wire : wire'[j].at = IF j = i THEN at ELSE wire[j].at
    BY <1>1, <1>2, <1>3
  <1> QED  BY <1>1, <1>4, <1>5, <1>6

LEMMA RowsAndWires ==
    ASSUME PayTypes
    PROVE  /\ DOMAIN payouts = 1..Len(payouts) /\ DOMAIN wire = 1..Len(payouts)
           /\ Len(payouts) \in Nat /\ Rows = DOMAIN payouts
           /\ \A i \in Rows : payouts[i] \in Row /\ wire[i] \in Wire
  BY RowsAreFinite, ElementOfSeq, LenProperties DEF PayTypes, Rows

LEMMA LargerOfTwo ==
    ASSUME NEW a \in Int, NEW b \in Int
    PROVE  Max({a, b}) \in Int /\ Max({a, b}) \in {a, b} /\ a <= Max({a, b}) /\ b <= Max({a, b})
  <1>1. \E x \in {a, b} : \A y \in {a, b} : x >= y
    <2>1. CASE a >= b
      BY <2>1
    <2>2. CASE ~ (a >= b)
      BY <2>2
    <2> QED  BY <2>1, <2>2
  <1>2. Max({a, b}) \in {a, b} /\ \A y \in {a, b} : Max({a, b}) >= y
    BY <1>1 DEF Max
  <1> QED  BY <1>2

LEMMA PositivePart == \A x \in Int : Max({0, x}) \in Int
  <1> TAKE x \in Int
  <1>1. 0 \in Int
    OBVIOUS
  <1> QED  BY <1>1, LargerOfTwo

LEMMA RunChanges ==
    ASSUME NEW r \in [due: [Workers -> Nat], nonce: Int, left: Int, row: Nat],
           NEW due \in [Workers -> Nat], NEW nonce \in Int, NEW left \in Int, NEW row \in Nat
    PROVE  /\ [r EXCEPT !.due = due, !.row = row] \in
                    [due: [Workers -> Nat], nonce: Int, left: Int, row: Nat]
           /\ [r EXCEPT !.due = due, !.row = row].due = due
           /\ [r EXCEPT !.due = due, !.row = row].row = row
           /\ [r EXCEPT !.row = row, !.nonce = nonce, !.left = left] \in
                    [due: [Workers -> Nat], nonce: Int, left: Int, row: Nat]
           /\ [r EXCEPT !.row = row, !.nonce = nonce, !.left = left].due = r.due
           /\ [r EXCEPT !.row = row, !.nonce = nonce, !.left = left].row = row
  <1> DEFINE q == [r EXCEPT !.due = due]
             p == [r EXCEPT !.row = row]
  <1>1. q \in [due: [Workers -> Nat], nonce: Int, left: Int, row: Nat] /\ q.due = due
    OBVIOUS
  <1>2. p \in [due: [Workers -> Nat], nonce: Int, left: Int, row: Nat] /\ p.row = row /\ p.due = r.due
    OBVIOUS
  <1>3. [r EXCEPT !.due = due, !.row = row] = [q EXCEPT !.row = row]
    OBVIOUS
  <1> DEFINE m == [p EXCEPT !.nonce = nonce]
  <1>4. [r EXCEPT !.row = row, !.nonce = nonce, !.left = left] = [m EXCEPT !.left = left]
    OBVIOUS
  <1> HIDE DEF q, p
  <1>5. m \in [due: [Workers -> Nat], nonce: Int, left: Int, row: Nat] /\ m.row = row /\ m.due = r.due
    BY <1>2
  <1> HIDE DEF m
  <1>6. /\ [m EXCEPT !.left = left] \in [due: [Workers -> Nat], nonce: Int, left: Int, row: Nat]
        /\ [m EXCEPT !.left = left].due = r.due /\ [m EXCEPT !.left = left].row = row
    BY <1>5
  <1>7. /\ [q EXCEPT !.row = row] \in [due: [Workers -> Nat], nonce: Int, left: Int, row: Nat]
        /\ [q EXCEPT !.row = row].due = due /\ [q EXCEPT !.row = row].row = row
    BY <1>1
  <1> QED  BY <1>3, <1>4, <1>6, <1>7

LEMMA MinIsElement ==
    ASSUME NEW S \in SUBSET Nat, S # {}
    PROVE  Min(S) \in S
  BY SmallestNat DEF Min

(* The node.                                                               *)
LEMMA NodeMoves ==
    ASSUME PayCore, DueIsEarned, NEW i \in Rows, NEW at, Moves(i, at),
           \/ wire[i].at = "flying" /\ at \in {"pending", "refused"}
           \/ wire[i].at = "pending" /\ at \in {"confirmed", "expired"},
           UNCHANGED << tick, payouts, run, pass, replaying, unseen >>
    PROVE  PayCore' /\ DueStays
  <1>1. /\ DOMAIN payouts = 1..Len(payouts) /\ DOMAIN wire = 1..Len(payouts)
        /\ Rows = DOMAIN payouts /\ Rows' = Rows
    BY RowsAndWires DEF PayCore, Rows
  <1>2. /\ wire' \in Seq(Wire) /\ Len(wire') = Len(wire) /\ DOMAIN wire' = DOMAIN wire
        /\ \A j \in DOMAIN wire : wire'[j].at = IF j = i THEN at ELSE wire[j].at
    BY <1>1, WireMoves DEF PayCore, PayTypes
  <1>3. PayTypes'
    BY <1>2 DEF PayCore, PayTypes
  <1>4. TypeOK'
    BY <1>1, <1>2 DEF PayCore, TypeOK, NoRun, NoPass
  <1>5. ReleasedIsDead'
    <2> SUFFICES ASSUME NEW j \in Rows, payouts[j].status = "error", j \notin unseen  PROVE Dead(j)'
      BY <1>1 DEF ReleasedIsDead
    <2>1. Dead(j)
      BY DEF PayCore, ReleasedIsDead
    <2> QED  BY <1>1, <1>2, <2>1 DEF Dead
  <1>6. PassIsOpen'
    <2>1. pass.row \in Rows \cup {0}
      BY DEF PayCore, TypeOK
    <2> QED  BY <1>1, <1>2, <2>1 DEF PayCore, PassIsOpen
  <1>7. RunIsSubmitting' /\ DueStays
    BY DEF PayCore, RunIsSubmitting, DueIsEarned, DueStays
  <1> QED  BY <1>3, <1>4, <1>5, <1>6, <1>7 DEF PayCore

LEMMA NodeStep ==
    ASSUME PayCore, DueIsEarned, NEW i \in Rows, NodeReceives(i) \/ NodeMines(i)
    PROVE  PayCore' /\ DueStays
  <1>1. /\ UNCHANGED << tick, payouts, run, pass, replaying, unseen >>
        /\ \E at : /\ Moves(i, at)
                   /\ \/ wire[i].at = "flying" /\ at \in {"pending", "refused"}
                      \/ wire[i].at = "pending" /\ at \in {"confirmed", "expired"}
    BY DEF NodeReceives, NodeMines
  <1> QED  BY <1>1, NodeMoves

LEMMA ReplayStep ==
    ASSUME PayCore, DueIsEarned, NodeReplays
    PROVE  PayCore' /\ DueStays
  <1>1. UNCHANGED << tick, payouts, wire, run, pass, unseen >> /\ replaying' \in BOOLEAN
    BY DEF NodeReplays
  <1>2. PayTypes' /\ TypeOK' /\ ReleasedIsDead' /\ RunIsSubmitting'
    BY <1>1 DEF PayCore, PayTypes, TypeOK, ReleasedIsDead, RunIsSubmitting, Dead, Rows, NoRun, NoPass
  <1>3. PassIsOpen' /\ DueStays
    BY <1>1 DEF PayCore, PassIsOpen, DueIsEarned, DueStays
  <1> QED  BY <1>2, <1>3 DEF PayCore

(* The tick thread.                                                        *)
LEMMA NoRunIsTyped ==
    /\ NoRun \in [due: [Workers -> Nat], nonce: Int, left: Int, row: Nat] /\ NoRun.row = 0
    /\ \A w \in Workers : NoRun.due[w] = 0
    /\ NoPass \in Passes /\ NoPass.rows = {} /\ NoPass.row = 0
  BY DEF NoRun, NoPass, Passes

LEMMA IdleStep ==
    ASSUME PayCore, DueIsEarned, \A w \in Workers : Earned(w) \in Nat, Idle, UNCHANGED << payouts, wire, unseen >>, replaying' \in BOOLEAN
    PROVE  PayCore' /\ DueStays
  <1>1. tick' = "idle" /\ run' = NoRun /\ pass' = NoPass
    BY DEF Idle
  <1>2. Rows' = Rows /\ Rows = 1..Len(payouts)
    BY RowsAndWires DEF PayCore, Rows
  <1>3. PayTypes'
    BY <1>1, NoRunIsTyped DEF PayCore, PayTypes
  <1>4. TypeOK'
    <2>1. NoRun' = NoRun /\ NoPass' = NoPass
      BY DEF NoRun, NoPass
    <2> QED  BY <1>1, <1>2, <2>1, NoRunIsTyped DEF PayCore, TypeOK
  <1>5. ReleasedIsDead'
    <2>1. \A i \in Rows : i # 0
      BY <1>2, RowsAndWires DEF PayCore
    <2> QED  BY <1>1, <1>2, <2>1, NoRunIsTyped DEF PayCore, ReleasedIsDead, Dead
  <1>6. RunIsSubmitting' /\ PassIsOpen'
    BY <1>1, NoRunIsTyped DEF RunIsSubmitting, PassIsOpen
  <1>7. DueStays
    <2> SUFFICES ASSUME NEW w \in Workers  PROVE PaidIn(payouts', w) + run'.due[w] <= Earned(w)
      BY DEF DueStays
    <2>1. /\ PaidIn(payouts, w) + run.due[w] <= Earned(w)
          /\ PaidIn(payouts, w) \in Nat /\ run.due[w] \in Nat
      BY PaidIsNat DEF PayCore, PayTypes, DueIsEarned
    <2>2. payouts' = payouts /\ run'.due[w] = 0
      BY <1>1, NoRunIsTyped
    <2>3. PaidIn(payouts', w) = PaidIn(payouts, w)
      BY <2>2
    <2> QED  BY <2>1, <2>2, <2>3
  <1> QED  BY <1>3, <1>4, <1>5, <1>6, <1>7 DEF PayCore

LEMMA StatusChange ==
    ASSUME PayCore, NEW i \in Rows, NEW s \in Statuses, Status(i, s),
           payouts[i].status \in Counted \/ s \notin Counted
    PROVE  /\ payouts' \in Seq(Row) /\ Rows' = Rows /\ Len(payouts') = Len(payouts)
           /\ \A j \in Rows : /\ payouts'[j] \in Row
                              /\ payouts'[j].status = IF j = i THEN s ELSE payouts[j].status
           /\ \A w \in Workers : PaidIn(payouts', w) <= PaidIn(payouts, w)
  <1>1. payouts \in Seq(Row) /\ i \in DOMAIN payouts /\ \A j \in DOMAIN payouts : payouts[j] \in Row
    BY RowsAreFinite DEF PayCore, PayTypes, Rows
  <1>2. payouts' = [payouts EXCEPT ![i].status = s]
    BY DEF Status
  <1>3. payouts' \in Seq(Row) /\ \A w \in Workers : PaidIn(payouts', w) <= PaidIn(payouts, w)
    BY <1>1, <1>2, NewStatusPays
  <1>4. DOMAIN payouts' = DOMAIN payouts
    BY <1>2
  <1>5. \A j \in DOMAIN payouts : payouts'[j].status = IF j = i THEN s ELSE payouts[j].status
    BY <1>1, <1>2 DEF Row
  <1>6. Len(payouts') = Len(payouts)
    BY <1>1, <1>3, <1>4, LenProperties
  <1> QED  BY <1>3, <1>4, <1>5, <1>6, RowsAreFinite DEF Rows

LEMMA StartStep ==
    ASSUME PayCore, DueIsEarned, StartPass
    PROVE  PayCore' /\ DueStays
  <1>1. /\ tick' = "reconcile" /\ pass' = [NoPass EXCEPT !.rows = Listed]
        /\ UNCHANGED << payouts, wire, run, replaying, unseen >>
        /\ tick = "idle" /\ Listed # {}
    BY DEF StartPass
  <1>2. Listed \subseteq Rows /\ Rows \subseteq Nat /\ Rows' = Rows
    BY <1>1, RowsAndWires DEF PayCore, Rows, Listed
  <1>3. pass' \in Passes /\ pass'.rows = Listed /\ pass'.row = 0
    BY <1>1, <1>2 DEF Passes, NoPass
  <1>4. PayTypes'
    BY <1>1, <1>3 DEF PayCore, PayTypes
  <1>5. TypeOK'
    BY <1>1, <1>2, <1>3 DEF PayCore, TypeOK, NoRun, NoPass
  <1>6. ReleasedIsDead' /\ RunIsSubmitting' /\ PassIsOpen' /\ DueStays
    BY <1>1, <1>2, <1>3
       DEF PayCore, ReleasedIsDead, Dead, RunIsSubmitting, PassIsOpen, Listed, DueIsEarned, DueStays
  <1> QED  BY <1>4, <1>5, <1>6 DEF PayCore

(* What a step on one listed row has to show.                              *)
LEMMA RowChanges ==
    ASSUME PayCore, DueIsEarned, \A w \in Workers : Earned(w) \in Nat,
           NEW i \in Rows, payouts[i].status \in {"submitting", "submitted"},
           \/ UNCHANGED payouts
           \/ \E s \in Statuses : Status(i, s) /\ (s = "error" => Dead(i) \/ i \in unseen'),
           tick = "reconcile", UNCHANGED << tick, wire, run, replaying >>,
           unseen \subseteq unseen', unseen' \subseteq Rows,
           pass' \in Passes, pass'.rows \subseteq pass.rows \ {i}, pass'.row \in Rows \cup {0}
    PROVE  /\ PayTypes' /\ TypeOK' /\ ReleasedIsDead' /\ RunIsSubmitting' /\ DueStays
           /\ \A j \in pass'.rows : payouts'[j].status \in {"submitting", "submitted"}
           /\ run.row = 0
  <1>1. /\ payouts' \in Seq(Row) /\ Rows' = Rows /\ Len(payouts') = Len(payouts)
        /\ \A j \in Rows : payouts'[j] \in Row
        /\ \A j \in Rows : \/ payouts'[j].status = payouts[j].status
                           \/ j = i /\ (payouts'[j].status = "error" => Dead(i) \/ i \in unseen')
        /\ \A w \in Workers : PaidIn(payouts', w) <= PaidIn(payouts, w)
    <2>1. CASE UNCHANGED payouts
      <3>1. \A w \in Workers : PaidIn(payouts', w) = PaidIn(payouts, w) /\ PaidIn(payouts, w) \in Nat
        BY <2>1, PaidIsNat DEF PayCore, PayTypes
      <3>2. \A w \in Workers : PaidIn(payouts', w) <= PaidIn(payouts, w)
        BY <3>1
      <3> QED  BY <2>1, <3>2, RowsAndWires DEF PayCore, PayTypes, Rows
    <2>2. CASE \E s \in Statuses : Status(i, s) /\ (s = "error" => Dead(i) \/ i \in unseen')
      <3>1. PICK s \in Statuses : Status(i, s) /\ (s = "error" => Dead(i) \/ i \in unseen')
        BY <2>2
      <3>2. payouts[i].status \in Counted
        BY DEF Counted
      <3> QED  BY <3>1, <3>2, StatusChange
    <2> QED  BY <2>1, <2>2
  <1>2. run = NoRun /\ run.row = 0
    BY NoRunIsTyped DEF PayCore, TypeOK
  <1>3. PayTypes'
    BY <1>1 DEF PayCore, PayTypes
  <1>4. TypeOK'
    <2>1. NoRun' = NoRun
      BY DEF NoRun
    <2> QED  BY <1>1, <1>2, <2>1 DEF PayCore, TypeOK, Row, Statuses
  <1>5. ReleasedIsDead'
    BY <1>1 DEF PayCore, ReleasedIsDead, Dead
  <1>6. RunIsSubmitting'
    BY <1>2 DEF RunIsSubmitting
  <1>7. ASSUME NEW j \in pass'.rows  PROVE payouts'[j].status \in {"submitting", "submitted"}
    <2>1. j \in pass.rows /\ j # i /\ j \in Rows
      BY DEF PayCore, TypeOK
    <2> QED  BY <1>1, <2>1 DEF PayCore, PassIsOpen
  <1>8. DueStays
    <2> SUFFICES ASSUME NEW w \in Workers  PROVE PaidIn(payouts', w) + run'.due[w] <= Earned(w)
      BY DEF DueStays
    <2>1. /\ PaidIn(payouts, w) + run.due[w] <= Earned(w) /\ run' = run /\ run.due[w] \in Nat
          /\ PaidIn(payouts, w) \in Nat /\ PaidIn(payouts', w) \in Nat
          /\ PaidIn(payouts', w) <= PaidIn(payouts, w)
      BY <1>1, PaidIsNat DEF PayCore, PayTypes, DueIsEarned
    <2> QED  BY <2>1
  <1> QED  BY <1>2, <1>3, <1>4, <1>5, <1>6, <1>7, <1>8

LEMMA LookUpStep ==
    ASSUME PayCore, DueIsEarned, \A w \in Workers : Earned(w) \in Nat,
           NEW i \in Rows, NEW aged \in BOOLEAN, LookUp(i, aged)
    PROVE  PayCore' /\ DueStays
  <1> DEFINE found   == IF replaying THEN "nothing" ELSE wire[i].at
             release == found = "expired" \/ (found \notin {"pending", "confirmed"} /\ aged)
  <1>1. /\ tick = "reconcile" /\ i = Min(pass.rows) /\ pass.rows # {}
        /\ aged => wire[i].at # "flying"
        /\ pass' = [pass EXCEPT !.rows = @ \ {i}, !.row = IF release THEN i ELSE 0,
                                !.blind = release /\ replaying]
        /\ UNCHANGED << tick, wire, run, replaying, unseen >>
    BY DEF LookUp
  <1>2. \/ ~ release /\ found = "confirmed" /\ Status(i, "confirmed")
        \/ ~ release /\ found = "pending" /\ Status(i, "submitted")
        \/ UNCHANGED payouts
    BY DEF LookUp
  <1>3. i \in pass.rows /\ payouts[i].status \in {"submitting", "submitted"}
    BY <1>1, MinIsElement DEF PayCore, PayTypes, Passes, PassIsOpen
  <1>4. /\ i # 0 /\ Rows \subseteq Nat /\ wire[i] \in Wire /\ replaying \in BOOLEAN /\ pass \in Passes
        /\ unseen \subseteq Rows
    BY RowsAndWires DEF PayCore, PayTypes, TypeOK
  <1>5. release => replaying \/ wire[i].at \in {"unsent", "refused", "expired"}
    BY <1>1, <1>4 DEF Wire
  <1> HIDE DEF found, release
  <1>6. /\ pass' \in Passes /\ pass'.rows = pass.rows \ {i}
        /\ pass'.row = (IF release THEN i ELSE 0) /\ pass'.blind = (release /\ replaying)
    <2>1. (IF release THEN i ELSE 0) \in Nat /\ (release /\ replaying) \in BOOLEAN
      BY <1>4
    <2> QED  BY <1>1, <1>4, <2>1 DEF Passes
  <1>7. UNCHANGED payouts \/ \E s \in Statuses : Status(i, s) /\ s # "error"
    BY <1>2 DEF Statuses
  <1>8. /\ PayTypes' /\ TypeOK' /\ ReleasedIsDead' /\ RunIsSubmitting' /\ DueStays
        /\ \A j \in pass'.rows : payouts'[j].status \in {"submitting", "submitted"}
    BY <1>1, <1>3, <1>4, <1>6, <1>7, RowChanges
  <1>9. PassIsOpen'
    <2>1. CASE release
      <3>1. UNCHANGED payouts
        BY <1>2, <2>1
      <3> QED  BY <1>1, <1>3, <1>5, <1>6, <1>8, <2>1, <3>1 DEF PassIsOpen
    <2>2. CASE ~ release
      BY <1>6, <1>8, <2>2 DEF PassIsOpen
    <2> QED  BY <2>1, <2>2
  <1> QED  BY <1>8, <1>9 DEF PayCore

LEMMA ReleaseStep ==
    ASSUME PayCore, DueIsEarned, \A w \in Workers : Earned(w) \in Nat, Release
    PROVE  PayCore' /\ DueStays
  <1> DEFINE i == pass.row
  <1>1. /\ i # 0 /\ pass' = [pass EXCEPT !.health = Health, !.row = 0, !.blind = FALSE]
        /\ UNCHANGED << tick, wire, run, replaying >>
        /\ \/ /\ Status(i, "error")
              /\ unseen' = IF pass.blind THEN unseen \cup {i} ELSE unseen
           \/ UNCHANGED << payouts, unseen >>
    BY DEF Release
  <1>2. /\ i \in Rows /\ payouts[i].status \in {"submitting", "submitted"} /\ i \notin pass.rows
        /\ pass.blind \/ wire[i].at \in {"unsent", "refused", "expired"}
        /\ pass \in Passes /\ unseen \subseteq Rows
    BY <1>1 DEF PayCore, PayTypes, TypeOK, PassIsOpen
  <1>3. tick = "reconcile" /\ run.row = 0
    BY <1>1, NoRunIsTyped DEF PayCore, TypeOK
  <1>4. pass' \in Passes /\ pass'.rows = pass.rows /\ pass'.row = 0
    <2>1. Health \in {"unknown", "yes", "no"}
      BY <1>2 DEF Health, Passes
    <2> QED  BY <1>1, <1>2, <2>1 DEF Passes
  <1>5. /\ unseen \subseteq unseen' /\ unseen' \subseteq Rows
        /\ \/ UNCHANGED payouts
           \/ \E s \in Statuses : Status(i, s) /\ (s = "error" => Dead(i) \/ i \in unseen')
    <2>1. pass.blind \/ Dead(i)
      BY <1>1, <1>2, <1>3 DEF Dead
    <2> QED  BY <1>1, <1>2, <2>1 DEF Statuses
  <1>6. pass'.rows \subseteq pass.rows \ {i} /\ pass'.row \in Rows \cup {0}
    BY <1>2, <1>4
  <1> HIDE DEF i
  <1>7. /\ PayTypes' /\ TypeOK' /\ ReleasedIsDead' /\ RunIsSubmitting' /\ DueStays
        /\ \A j \in pass'.rows : payouts'[j].status \in {"submitting", "submitted"}
    BY <1>1, <1>2, <1>3, <1>4, <1>5, <1>6, RowChanges
  <1> QED  BY <1>4, <1>7 DEF PayCore, PassIsOpen

LEMMA SpentIsInt ==
    ASSUME PayTypes, NEW S \in SUBSET Rows
    PROVE  Spent(S) \in Int
  <1> DEFINE f == [i \in S |-> payouts[i].amount + Fee]
  <1>1. IsFiniteSet(S)
    BY RowsAreFinite, FS_Subset DEF PayTypes, Rows
  <1>2. \A i \in S : f[i] \in Int
    BY RowsAndWires, PayoutAssumption DEF Row
  <1> HIDE DEF f
  <1>3. Terms(f, S)
    BY <1>1, <1>2 DEF Terms
  <1>4. Sum(f, S) \in Int
    BY <1>3, SumIsInt
  <1> QED  BY <1>4 DEF Spent, Sum, f

LEMMA FiguresAreInts ==
    ASSUME PayTypes
    PROVE  NextNonce \in Int /\ Balance \in Int /\ Reserved \in Int
  <1>1. IsFiniteSet(Known)
    BY RowsAreFinite, FS_Subset DEF PayTypes, Known, Rows
  <1>2. NextNonce \in Int
    BY <1>1, FS_CardinalityType DEF NextNonce
  <1>3. Balance \in Int
    <2>1. Landed \in SUBSET Rows
      BY DEF Landed
    <2>2. Spent(Landed) \in Int
      BY <2>1, SpentIsInt
    <2> QED  BY <2>2, PayoutAssumption DEF Balance
  <1>4. Reserved \in Int
    BY SpentIsInt DEF Reserved
  <1> QED  BY <1>2, <1>3, <1>4

LEMMA AfterStep ==
    ASSUME PayCore, DueIsEarned, \A w \in Workers : Earned(w) \in Nat, AfterPass
    PROVE  PayCore' /\ DueStays
  <1>1. UNCHANGED << payouts, wire, replaying, unseen >> /\ PayTypes
    BY DEF AfterPass, PayCore
  <1>2. CASE Idle
    BY <1>1, <1>2, IdleStep DEF PayTypes
  <1> DEFINE due  == [w \in Workers |-> IF Pending(w) >= MinPayout THEN Pending(w) ELSE 0]
             left == Max({0, (IF replaying THEN Funds ELSE Balance) - Reserved})
             nonce == IF replaying THEN 1 ELSE NextNonce
  <1>3. CASE /\ tick' = "pay" /\ pass' = NoPass
             /\ run' = [due |-> due, nonce |-> nonce, left |-> left, row |-> 0]
    <2>1. ASSUME NEW w \in Workers
          PROVE  Pending(w) \in Nat /\ PaidIn(payouts, w) \in Nat /\ Pending(w) + PaidIn(payouts, w) <= Earned(w)
      <3>1. PaidIn(payouts, w) \in Nat /\ Paid(w) = PaidIn(payouts, w)
        BY <1>1, PaidIsNat, PaidIsSum DEF PayTypes
      <3>2. PaidIn(payouts, w) <= Earned(w)
        <4>1. PaidIn(payouts, w) + run.due[w] <= Earned(w) /\ run.due[w] \in Nat
          BY <1>1 DEF DueIsEarned, PayTypes
        <4> QED  BY <3>1, <4>1
      <3>3. Pending(w) \in {0, Earned(w) - Paid(w)} /\ Pending(w) >= 0
        <4> DEFINE rest == Earned(w) - Paid(w)
        <4>1. rest \in Int
          BY <3>1
        <4> HIDE DEF rest
        <4>2. Max({0, rest}) \in {0, rest} /\ 0 <= Max({0, rest}) /\ Max({0, rest}) \in Int
          BY <4>1, LargerOfTwo, SMTT(40)
        <4> QED  BY <4>2 DEF Pending, rest
      <3> QED  BY <3>1, <3>2, <3>3
    <2>2. due \in [Workers -> Nat]
      BY <2>1
    <2>3. left \in Int /\ nonce \in Int
      <3> DEFINE rest == (IF replaying THEN Funds ELSE Balance) - Reserved
      <3>1. rest \in Int
        BY <1>1, FiguresAreInts, PayoutAssumption
      <3>2. left = Max({0, rest})
        OBVIOUS
      <3> HIDE DEF rest, left
      <3>3. Max({0, rest}) \in Int
        BY <3>1, PositivePart
      <3> QED  BY <1>1, <3>2, <3>3, FiguresAreInts
    <2>4. DueStays
      <3> SUFFICES ASSUME NEW w \in Workers  PROVE PaidIn(payouts', w) + run'.due[w] <= Earned(w)
        BY DEF DueStays
      <3>1. run'.due[w] \in {0, Pending(w)} /\ PaidIn(payouts', w) = PaidIn(payouts, w)
        BY <1>1, <1>3
      <3> QED  BY <2>1, <3>1
    <2> HIDE DEF due, left, nonce
    <2>5. PayTypes'
      BY <1>1, <1>3, <2>2, <2>3, NoRunIsTyped DEF PayTypes
    <2>6. TypeOK'
      <3>1. NoPass' = NoPass /\ Rows' = Rows
        BY <1>1 DEF NoPass, Rows
      <3> QED  BY <1>1, <1>3, <3>1, NoRunIsTyped DEF PayCore, TypeOK
    <2>7. ReleasedIsDead'
      <3>1. Rows' = Rows /\ \A i \in Rows : i # 0
        BY <1>1, RowsAndWires DEF Rows
      <3> QED  BY <1>1, <1>3, <3>1 DEF PayCore, ReleasedIsDead, Dead
    <2>8. RunIsSubmitting' /\ PassIsOpen'
      BY <1>3, NoRunIsTyped DEF RunIsSubmitting, PassIsOpen
    <2> QED  BY <2>4, <2>5, <2>6, <2>7, <2>8 DEF PayCore
  <1> QED  BY <1>2, <1>3 DEF AfterPass

LEMMA PostStep ==
    ASSUME PayCore, DueIsEarned, PostPayout
    PROVE  PayCore' /\ DueStays
  <1>1. /\ tick = "pay" /\ run.row # 0 /\ wire[run.row].at = "unsent" /\ Moves(run.row, "flying")
        /\ UNCHANGED << tick, payouts, run, pass, replaying, unseen >>
    BY DEF PostPayout
  <1>2. /\ DOMAIN wire = 1..Len(payouts) /\ Rows = 1..Len(payouts) /\ Rows' = Rows
        /\ run.row \in Rows
    BY <1>1, RowsAndWires DEF PayCore, TypeOK, Rows
  <1>3. /\ wire' \in Seq(Wire) /\ Len(wire') = Len(wire) /\ DOMAIN wire' = DOMAIN wire
        /\ \A j \in DOMAIN wire : wire'[j].at = IF j = run.row THEN "flying" ELSE wire[j].at
    BY <1>1, <1>2, WireMoves DEF PayCore, PayTypes
  <1>4. PayTypes'
    BY <1>1, <1>3 DEF PayCore, PayTypes
  <1>5. TypeOK'
    BY <1>1, <1>2, <1>3 DEF PayCore, TypeOK, NoRun, NoPass
  <1>6. ReleasedIsDead'
    <2> SUFFICES ASSUME NEW j \in Rows, payouts[j].status = "error", j \notin unseen  PROVE Dead(j)'
      BY <1>1, <1>2 DEF ReleasedIsDead
    <2>1. Dead(j) /\ j # run.row
      BY <1>1 DEF PayCore, ReleasedIsDead, RunIsSubmitting
    <2> QED  BY <1>1, <1>2, <1>3, <2>1 DEF Dead
  <1>7. PassIsOpen'
    <2>1. pass = NoPass
      BY <1>1 DEF PayCore, TypeOK
    <2> QED  BY <1>1, <2>1, NoRunIsTyped DEF PassIsOpen
  <1>8. RunIsSubmitting' /\ DueStays
    BY <1>1 DEF PayCore, RunIsSubmitting, DueIsEarned, DueStays
  <1> QED  BY <1>4, <1>5, <1>6, <1>7, <1>8 DEF PayCore

LEMMA InsertStep ==
    ASSUME PayCore, DueIsEarned, \A w \in Workers : Earned(w) \in Nat,
           NEW v \in Workers, InsertPayout(v)
    PROVE  PayCore' /\ DueStays
  <1>1. /\ PayTypes /\ tick = "pay" /\ run.row = 0 /\ run.due[v] > 0
        /\ UNCHANGED << tick, pass, replaying, unseen >>
    BY DEF InsertPayout, PayCore
  <1>2. /\ Rows = 1..Len(payouts) /\ Len(payouts) \in Nat /\ DOMAIN payouts = Rows /\ DOMAIN wire = Rows
        /\ run.due \in [Workers -> Nat] /\ run.due[v] \in Nat \ {0} /\ run.nonce \in Int
    BY <1>1, RowsAndWires DEF PayTypes
  <1> DEFINE rest == [run.due EXCEPT ![v] = 0]
             n == Len(payouts) + 1
  <1>3. rest \in [Workers -> Nat] /\ rest[v] = 0 /\ \A w \in Workers : w # v => rest[w] = run.due[w]
    BY <1>2
  <1>4. CASE run' = [run EXCEPT !.due[v] = 0] /\ UNCHANGED << payouts, wire >>
    <2>1. run' = [run EXCEPT !.due = rest]
      BY <1>1, <1>4 DEF PayTypes
    <2> HIDE DEF rest
    <2>2. /\ run' \in [due: [Workers -> Nat], nonce: Int, left: Int, row: Nat]
          /\ run'.due = rest /\ run'.row = 0
      BY <1>1, <1>3, <2>1 DEF PayTypes
    <2>3. PayTypes'
      BY <1>1, <1>4, <2>2 DEF PayTypes
    <2>4. TypeOK'
      <3>1. NoPass' = NoPass /\ Rows' = Rows
        BY <1>4 DEF NoPass, Rows
      <3> QED  BY <1>1, <1>4, <2>2, <3>1 DEF PayCore, TypeOK
    <2>5. ReleasedIsDead' /\ RunIsSubmitting' /\ PassIsOpen'
      BY <1>1, <1>4, <2>2 DEF PayCore, ReleasedIsDead, Dead, RunIsSubmitting, PassIsOpen, Rows
    <2>6. DueStays
      <3> SUFFICES ASSUME NEW w \in Workers  PROVE PaidIn(payouts', w) + run'.due[w] <= Earned(w)
        BY DEF DueStays
      <3>1. /\ PaidIn(payouts, w) + run.due[w] <= Earned(w) /\ run.due[w] \in Nat
            /\ PaidIn(payouts, w) \in Nat
        BY <1>1, <1>2, PaidIsNat DEF DueIsEarned, PayTypes
      <3>2. PaidIn(payouts', w) = PaidIn(payouts, w)
        BY <1>4
      <3>3. rest[w] \in {0, run.due[w]}
        BY <1>3
      <3> QED  BY <2>2, <3>1, <3>2, <3>3
    <2> QED  BY <2>3, <2>4, <2>5, <2>6 DEF PayCore
  <1> DEFINE r == [worker |-> v, amount |-> run.due[v], status |-> "submitting"]
             t == [at |-> "unsent", nonce |-> run.nonce]
  <1>5. CASE /\ payouts' = Append(payouts, r) /\ wire' = Append(wire, t)
             /\ run' = [run EXCEPT !.due[v] = 0, !.row = Len(payouts')]
    <2>1. r \in Row /\ r.status = "submitting" /\ r.worker = v /\ r.amount = run.due[v]
      BY <1>2 DEF Row, Statuses
    <2>2. t \in Wire /\ t.at = "unsent"
      BY <1>2 DEF Wire
    <2> HIDE DEF r, t
    <2>3. /\ payouts' \in Seq(Row) /\ Len(payouts') = n /\ payouts'[n] = r
          /\ \A i \in Rows : payouts'[i] = payouts[i]
          /\ \A w \in Workers : PaidIn(payouts', w) =
                                PaidIn(payouts, w) + IF w = v THEN run.due[v] ELSE 0
      <3>1. r.status \in Counted
        BY <2>1 DEF Counted
      <3>2. /\ Append(payouts, r) \in Seq(Row)
            /\ \A w \in Workers : PaidIn(Append(payouts, r), w) =
                                  PaidIn(payouts, w) + IF w = r.worker THEN r.amount ELSE 0
        BY <1>1, <2>1, <3>1, NewRowPays DEF PayTypes
      <3>3. /\ Len(Append(payouts, r)) = n /\ Append(payouts, r)[n] = r
            /\ \A i \in 1..Len(payouts) : Append(payouts, r)[i] = payouts[i]
        BY <1>1, <2>1, AppendProperties DEF PayTypes
      <3> QED  BY <1>2, <1>5, <2>1, <3>2, <3>3
    <2>4. /\ wire' \in Seq(Wire) /\ Len(wire') = n /\ wire'[n] = t
          /\ \A i \in Rows : wire'[i] = wire[i]
      BY <1>1, <1>2, <1>5, <2>2, AppendProperties DEF PayTypes
    <2>5. run' = [run EXCEPT !.due = rest, !.row = n]
      BY <1>1, <1>5, <2>3 DEF PayTypes
    <2> HIDE DEF rest, n
    <2>6. /\ run' \in [due: [Workers -> Nat], nonce: Int, left: Int, row: Nat]
          /\ run'.due = rest /\ run'.row = n
      <3>1. n \in Nat
        BY <1>2 DEF n
      <3> QED  BY <1>1, <1>3, <2>5, <3>1, RunChanges DEF PayTypes
    <2>7. PayTypes'
      BY <1>1, <2>3, <2>4, <2>6 DEF PayTypes
    <2>8. Rows' = Rows \cup {n} /\ DOMAIN wire' = Rows \cup {n} /\ n \notin Rows /\ n # 0
      <3>1. Rows' = 1..n /\ DOMAIN wire' = 1..n
        BY <2>3, <2>4, <1>2, LenProperties DEF Rows
      <3> QED  BY <1>2, <3>1 DEF n
    <2>9. TypeOK'
      <3>1. NoPass' = NoPass
        BY DEF NoPass
      <3>2. \A i \in Rows' : payouts'[i] \in Row
        BY <2>3, RowsAreFinite DEF Rows
      <3> QED  BY <1>1, <2>6, <2>8, <3>1, <3>2 DEF PayCore, TypeOK, Row, Statuses
    <2>10. ReleasedIsDead'
      <3> SUFFICES ASSUME NEW i \in Rows', payouts'[i].status = "error", i \notin unseen  PROVE Dead(i)'
        BY <1>1 DEF ReleasedIsDead
      <3>1. i \in Rows /\ payouts[i].status = "error" /\ wire'[i] = wire[i]
        BY <2>1, <2>3, <2>4, <2>8
      <3>2. Dead(i)
        BY <3>1 DEF PayCore, ReleasedIsDead
      <3> QED  BY <2>6, <2>8, <3>1, <3>2 DEF Dead
    <2>11. RunIsSubmitting'
      BY <2>1, <2>3, <2>6 DEF RunIsSubmitting
    <2>12. PassIsOpen'
      <3>1. pass = NoPass
        BY <1>1 DEF PayCore, TypeOK
      <3> QED  BY <1>1, <3>1, NoRunIsTyped DEF PassIsOpen
    <2>13. DueStays
      <3> SUFFICES ASSUME NEW w \in Workers  PROVE PaidIn(payouts', w) + run'.due[w] <= Earned(w)
        BY DEF DueStays
      <3>1. /\ PaidIn(payouts, w) + run.due[w] <= Earned(w) /\ run.due[w] \in Nat
            /\ PaidIn(payouts, w) \in Nat
        BY <1>1, <1>2, PaidIsNat DEF DueIsEarned, PayTypes
      <3>2. CASE w = v
        BY <1>3, <2>3, <2>6, <3>1, <3>2
      <3>3. CASE w # v
        BY <1>3, <2>3, <2>6, <3>1, <3>3
      <3> QED  BY <3>2, <3>3
    <2> QED  BY <2>7, <2>9, <2>10, <2>11, <2>12, <2>13 DEF PayCore
  <1> QED  BY <1>4, <1>5 DEF InsertPayout

LEMMA HearStep ==
    ASSUME PayCore, DueIsEarned, \A w \in Workers : Earned(w) \in Nat, HearPayout
    PROVE  PayCore' /\ DueStays
  <1> DEFINE i == run.row
  <1>1. /\ PayTypes /\ tick = "pay" /\ i # 0 /\ wire[i].at # "unsent"
        /\ UNCHANGED << wire, replaying, unseen >>
    BY DEF HearPayout, PayCore
  <1>2. /\ i \in Rows /\ payouts[i].status \in Counted /\ payouts[i] \in Row /\ wire[i] \in Wire
    BY <1>1, RowsAndWires DEF PayCore, TypeOK, RunIsSubmitting, Counted
  <1>3. PICK s \in {"submitted", "error"} :
            /\ Status(i, s)
            /\ s = "error" => wire[i].at = "refused"
            /\ \/ /\ UNCHANGED << tick, pass >>
                  /\ run' = [run EXCEPT !.row = 0, !.nonce = @ + 1,
                                        !.left = Max({0, @ - (payouts[i].amount + Fee)})]
               \/ Idle
    BY DEF HearPayout, AfterFailure
  <1>4. /\ payouts' \in Seq(Row) /\ Rows' = Rows /\ Len(payouts') = Len(payouts)
        /\ \A j \in Rows : /\ payouts'[j] \in Row
                           /\ payouts'[j].status = IF j = i THEN s ELSE payouts[j].status
        /\ \A w \in Workers : PaidIn(payouts', w) <= PaidIn(payouts, w)
    <2>1. s \in Statuses
      BY DEF Statuses
    <2> HIDE DEF i
    <2> QED  BY <1>2, <1>3, <2>1, StatusChange
  <1>5. /\ run' \in [due: [Workers -> Nat], nonce: Int, left: Int, row: Nat]
        /\ run'.row = 0
        /\ \A w \in Workers : run'.due[w] \in {0, run.due[w]}
        /\ run' # NoRun => tick' = "pay"
    <2>1. CASE Idle
      BY <2>1, NoRunIsTyped DEF Idle
    <2> DEFINE left == Max({0, run.left - (payouts[i].amount + Fee)})
    <2>2. CASE /\ UNCHANGED << tick, pass >>
               /\ run' = [run EXCEPT !.row = 0, !.nonce = @ + 1, !.left = left]
      <3> DEFINE rest == run.left - (payouts[i].amount + Fee)
      <3>1. rest \in Int
        <4>1. run.left \in Int /\ payouts[i].amount \in Int /\ Fee \in Int
          BY <1>1, <1>2, PayoutAssumption, SMTT(40) DEF PayTypes, Row
        <4> QED  BY <4>1
      <3>2. left = Max({0, rest})
        OBVIOUS
      <3> HIDE DEF rest, left
      <3>3. left \in Int
        <4>1. Max({0, rest}) \in Int
          BY <3>1, PositivePart
        <4> QED  BY <3>2, <4>1
      <3>4. run \in [due: [Workers -> Nat], nonce: Int, left: Int, row: Nat] /\ run.nonce + 1 \in Int /\ 0 \in Nat
        BY <1>1 DEF PayTypes
      <3> DEFINE next == run.nonce + 1
      <3>5. run' = [run EXCEPT !.row = 0, !.nonce = next, !.left = left]
        BY <2>2
      <3> HIDE DEF next
      <3>6. run' \in [due: [Workers -> Nat], nonce: Int, left: Int, row: Nat] /\ run'.due = run.due /\ run'.row = 0
        BY <3>3, <3>4, <3>5, RunChanges DEF next
      <3> QED  BY <1>1, <2>2, <3>6
    <2> QED  BY <1>3, <2>1, <2>2
  <1>6. pass' = NoPass /\ tick' \in {"idle", "reconcile", "pay"}
    BY <1>1, <1>3 DEF Idle, PayCore, TypeOK
  <1>7. PayTypes'
    BY <1>1, <1>4, <1>5, <1>6, NoRunIsTyped DEF PayTypes
  <1>8. TypeOK'
    <2>1. NoRun' = NoRun /\ NoPass' = NoPass
      BY DEF NoRun, NoPass
    <2> QED  BY <1>1, <1>4, <1>5, <1>6, <2>1, NoRunIsTyped DEF PayCore, TypeOK, Row, Statuses
  <1>9. ReleasedIsDead'
    <2> SUFFICES ASSUME NEW j \in Rows, payouts'[j].status = "error", j \notin unseen  PROVE Dead(j)'
      BY <1>1, <1>4 DEF ReleasedIsDead
    <2>1. j # 0
      BY <1>1, RowsAndWires
    <2>2. Dead(j)
      <3>1. CASE j = i
        BY <1>3, <1>4, <3>1 DEF Dead
      <3>2. CASE j # i
        BY <1>4, <3>2 DEF PayCore, ReleasedIsDead
      <3> QED  BY <3>1, <3>2
    <2> QED  BY <1>1, <1>5, <2>1, <2>2 DEF Dead
  <1>10. RunIsSubmitting' /\ PassIsOpen'
    BY <1>5, <1>6, NoRunIsTyped DEF RunIsSubmitting, PassIsOpen
  <1>11. DueStays
    <2> SUFFICES ASSUME NEW w \in Workers  PROVE PaidIn(payouts', w) + run'.due[w] <= Earned(w)
      BY DEF DueStays
    <2>1. /\ PaidIn(payouts, w) + run.due[w] <= Earned(w) /\ run.due[w] \in Nat
          /\ PaidIn(payouts, w) \in Nat /\ PaidIn(payouts', w) \in Nat
          /\ PaidIn(payouts', w) <= PaidIn(payouts, w)
      BY <1>1, <1>4, PaidIsNat DEF PayTypes, DueIsEarned
    <2> QED  BY <1>5, <2>1
  <1> QED  BY <1>7, <1>8, <1>9, <1>10, <1>11 DEF PayCore

-------------------------------------------------------------------------------

LEMMA PayStart == Init => PayInv
  <1> SUFFICES ASSUME Init  PROVE PayInv
    OBVIOUS
  <1>1. LedgerInv
    BY LedgerStart DEF Init
  <1>2. /\ payouts = << >> /\ wire = << >> /\ run = NoRun /\ pass = NoPass
        /\ replaying = FALSE /\ unseen = {} /\ tick = "idle"
    BY DEF Init
  <1>3. payouts \in Seq(Row) /\ wire \in Seq(Wire) /\ Len(payouts) = 0 /\ Len(wire) = 0
    BY <1>2, EmptySeq
  <1>4. Rows = {} /\ DOMAIN wire = {}
    BY <1>3, LenProperties DEF Rows
  <1>5. PayTypes
    BY <1>2, <1>3, NoRunIsTyped DEF PayTypes
  <1>6. TypeOK
    BY <1>2, <1>4, NoRunIsTyped DEF TypeOK
  <1>7. ReleasedIsDead /\ RunIsSubmitting /\ PassIsOpen
    BY <1>2, <1>4, NoRunIsTyped DEF ReleasedIsDead, RunIsSubmitting, PassIsOpen
  <1>8. DueIsEarned
    <2> SUFFICES ASSUME NEW w \in Workers  PROVE PaidIn(payouts, w) + run.due[w] <= Earned(w)
      BY DEF DueIsEarned
    <2>1. PaidRows(payouts, w) = {}
      BY <1>4 DEF PaidRows, Rows
    <2>2. PaidIn(payouts, w) = 0 /\ run.due[w] = 0
      BY <1>2, <2>1, SumEmpty, NoRunIsTyped DEF PaidIn
    <2>3. Earned(w) \in Nat
      BY <1>1, EarnedIsKnown DEF EarningsKnown
    <2> QED  BY <2>2, <2>3
  <1> QED  BY <1>1, <1>5, <1>6, <1>7, <1>8 DEF PayInv, PayCore

LEMMA PayStep == PayInv /\ [Next]_vars => PayInv'
  <1> SUFFICES ASSUME PayInv, [Next]_vars  PROVE PayInv'
    OBVIOUS
  <1>1. LedgerInv /\ PayCore /\ DueIsEarned /\ \A w \in Workers : Earned(w) \in Nat
    BY EarnedIsKnown DEF PayInv, EarningsKnown
  <1>2. [LedgerNext]_ledgerVars /\ PayCore' /\ DueStays
    <2>1. CASE Work \/ UNCHANGED vars
      <3>1. [LedgerNext]_ledgerVars /\ UNCHANGED << payouts, wire, run, pass, tick, replaying, unseen >>
        BY <2>1 DEF Work, vars
      <3>2. PayCore'
        BY <1>1, <3>1
           DEF PayCore, PayTypes, TypeOK, ReleasedIsDead, Dead, RunIsSubmitting, PassIsOpen,
               Rows, NoRun, NoPass
      <3>3. DueStays
        BY <1>1, <3>1 DEF DueIsEarned, DueStays
      <3> QED  BY <3>1, <3>2, <3>3
    <2>2. CASE StartPass
      BY <1>1, <2>2, StartStep DEF StartPass, ledgerVars
    <2>3. CASE AfterPass
      BY <1>1, <2>3, AfterStep DEF AfterPass, ledgerVars
    <2>4. CASE \E i \in Rows, aged \in BOOLEAN : LookUp(i, aged)
      BY <1>1, <2>4, LookUpStep DEF LookUp, ledgerVars
    <2>5. CASE \E w \in Workers : InsertPayout(w)
      BY <1>1, <2>5, InsertStep DEF InsertPayout, ledgerVars
    <2>6. CASE PostPayout
      BY <1>1, <2>6, PostStep DEF PostPayout, ledgerVars
    <2>7. CASE HearPayout
      BY <1>1, <2>7, HearStep DEF HearPayout, ledgerVars
    <2>8. CASE EndRun
      <3>1. Idle /\ UNCHANGED << payouts, wire, replaying, unseen >> /\ UNCHANGED ledgerVars
        BY <2>8 DEF EndRun, ledgerVars
      <3> QED  BY <1>1, <3>1, IdleStep DEF PayCore, PayTypes
    <2>9. CASE \E i \in Rows : NodeReceives(i) \/ NodeMines(i)
      BY <1>1, <2>9, NodeStep DEF NodeReceives, NodeMines, ledgerVars
    <2>10. CASE NodeReplays
      BY <1>1, <2>10, ReplayStep DEF NodeReplays, ledgerVars
    <2>11. CASE Crash
      <3>1. Idle /\ UNCHANGED << payouts, wire, replaying, unseen >> /\ UNCHANGED ledgerVars
        BY <2>11 DEF Crash, ledgerVars
      <3> QED  BY <1>1, <3>1, IdleStep DEF PayCore, PayTypes
    <2>12. CASE Release
      BY <1>1, <2>12, ReleaseStep DEF Release, ledgerVars
    <2> QED  BY <2>1, <2>2, <2>3, <2>4, <2>5, <2>6, <2>7, <2>8, <2>9, <2>10, <2>11, <2>12 DEF Next
  <1>3. LedgerInv' /\ \A w \in Workers : Earned(w) <= Earned(w)'
    BY <1>1, <1>2, LedgerStep
  <1>4. \A w \in Workers : Earned(w)' \in Nat
    <2>1. LedgerInv' => EarningsKnown'
      BY EarnedIsKnown, PTL
    <2> QED  BY <1>3, <2>1 DEF EarningsKnown
  <1>5. DueIsEarned'
    <2> SUFFICES ASSUME NEW w \in Workers
                 PROVE  PaidIn(payouts', w) + run'.due[w] <= Earned(w)'
      BY DEF DueIsEarned
    <2>1. PaidIn(payouts', w) + run'.due[w] <= Earned(w) /\ Earned(w) <= Earned(w)'
      BY <1>2, <1>3 DEF DueStays
    <2>2. PaidIn(payouts', w) \in Nat /\ run'.due[w] \in Nat /\ Earned(w) \in Nat /\ Earned(w)' \in Nat
      BY <1>1, <1>2, <1>4, PaidIsNat DEF PayCore, PayTypes
    <2> QED  BY <2>1, <2>2
  <1> QED  BY <1>2, <1>3, <1>5 DEF PayInv

(* What the chain has paid counts as paid: a row whose transfer was mined  *)
(* was never released, but for those looked up in a replay.                *)
LEMMA LandedIsCounted == PayInv => PaidAtMostEarned
  <1> SUFFICES ASSUME PayInv
               PROVE  /\ TypeOK
                      /\ \A w \in {payouts[i].worker : i \in Seen} :
                            AmountOf({i \in Seen : payouts[i].worker = w}) <= Earned(w)
    BY DEF PaidAtMostEarned
  <1>1. TypeOK /\ PayTypes /\ ReleasedIsDead /\ DueIsEarned /\ EarningsKnown
    BY EarnedIsKnown DEF PayInv, PayCore
  <1>2. ASSUME NEW w \in {payouts[i].worker : i \in Seen}
        PROVE  AmountOf({i \in Seen : payouts[i].worker = w}) <= Earned(w)
    <2> DEFINE S == {i \in Seen : payouts[i].worker = w}
    <2>1. w \in Workers /\ Seen \subseteq Rows
      BY <1>1 DEF Seen, Landed, TypeOK
    <2>2. S \subseteq PaidRows(payouts, w) /\ PaidRows(payouts, w) \in SUBSET DOMAIN payouts
      <3>1. ASSUME NEW i \in S  PROVE payouts[i].status \in Counted
        <4>1. i \in Rows /\ ~ Dead(i) /\ i \notin unseen
          BY DEF Seen, Landed, Dead
        <4>2. payouts[i].status # "error"
          BY <1>1, <4>1 DEF ReleasedIsDead
        <4> QED  BY <1>1, <4>1, <4>2 DEF TypeOK, Counted
      <3> QED  BY <2>1, <3>1 DEF PaidRows, Rows
    <2> HIDE DEF S
    <2>3. /\ Terms(Amounts(payouts), PaidRows(payouts, w))
          /\ \A i \in PaidRows(payouts, w) : Amounts(payouts)[i] \in Nat
          /\ S \in SUBSET DOMAIN payouts
      BY <1>1, <2>2, AmountsAreTerms DEF PayTypes
    <2>4. \A i \in PaidRows(payouts, w) \ S : Amounts(payouts)[i] >= 0
      BY <2>3
    <2>5. Sum(Amounts(payouts), S) <= PaidIn(payouts, w)
      BY <2>2, <2>3, <2>4, SumOfMore DEF PaidIn
    <2>6. AmountOf(S) = Sum(Amounts(payouts), S)
      BY <1>1, <2>3, AmountIsSum DEF PayTypes
    <2>7. PaidIn(payouts, w) + run.due[w] <= Earned(w) /\ run.due[w] \in Nat /\ Earned(w) \in Nat
      BY <1>1, <2>1 DEF DueIsEarned, PayTypes, EarningsKnown
    <2>8. PaidIn(payouts, w) \in Nat /\ Sum(Amounts(payouts), S) \in Int
      BY <1>1, <2>3, PaidIsNat, AmountsAreTerms, SumIsInt DEF PayTypes
    <2>9. AmountOf(S) <= Earned(w)
      BY <2>1, <2>5, <2>6, <2>7, <2>8
    <2> QED  BY <2>9 DEF S
  <1> QED  BY <1>1, <1>2

LEMMA PayInvHolds == Spec => []PayInv
  <1>1. Init => PayInv
    BY PayStart
  <1>2. PayInv /\ [Next]_vars => PayInv'
    BY PayStep
  <1> QED  BY <1>1, <1>2, PTL DEF Spec

(* However answers are lost, requests delayed and the pool restarted,      *)
(* run_payouts and reconcile_payout_statuses never pay a worker more than  *)
(* summarize_round_window_payouts gives for its work, but for the payouts  *)
(* that a pass looked up while the node replayed and released on another   *)
(* word of its health: of those, and of nothing else, the work is paid     *)
(* once more.                                                              *)
THEOREM PaymentsAreEarned == Spec => []PaidAtMostEarned
  <1>1. PayInv => PaidAtMostEarned
    BY LandedIsCounted
  <1> QED  BY <1>1, PayInvHolds, PTL

(* A task that closes, or settles late between others already paid for,    *)
(* takes nothing from what a worker had earned.                            *)
THEOREM EarningsStand == Spec => EarningsNeverShrink
  <1>1. PayInv /\ [Next]_vars =>
            [state' # state => \A w \in Workers : Earned(w) <= Earned(w)']_ledgerVars
    <2> SUFFICES ASSUME PayInv, [Next]_vars
                 PROVE  \A w \in Workers : Earned(w) <= Earned(w)'
      OBVIOUS
    <2>1. [LedgerNext]_ledgerVars
      BY DEF Next, vars, Work, StartPass, AfterPass, LookUp, Release, InsertPayout, PostPayout,
             HearPayout, EndRun, NodeReceives, NodeMines, NodeReplays, Crash, ledgerVars
    <2> QED  BY <2>1, LedgerStep DEF PayInv
  <1> QED  BY <1>1, PayInvHolds, PTL DEF Spec, EarningsNeverShrink
===============================================================================
