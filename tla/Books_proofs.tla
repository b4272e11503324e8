---------------------------- MODULE Books_proofs ------------------------------
(***************************************************************************)
(* Proofs about the books of BlockExecution, for every set of              *)
(* transactions, wallets, tasks and foreign blocks.                        *)
(*                                                                         *)
(* First the folds, then what a block, its reversal and the freezing of a  *)
(* snapshot do to mempool and nonces, with the invariant of mempool, tasks *)
(* and chain; then the sums of the ledger, and what a block and its        *)
(* reversal do to ledger, rewards and treasury.  Execution_proofs goes on  *)
(* from here to the invariants of the ledger.                              *)
(***************************************************************************)
EXTENDS BlockExecution, SetSums, SequenceTheorems

-------------------------------------------------------------------------------
(* The folds of the books are the ends of runs: each accumulator comes     *)
(* from the one before it and the next element.  The library defines a     *)
(* fold as a function of all sets of indices; here it is shown to exist,   *)
(* once for all the folds, which the first parameter tells apart.          *)

(* apply_block_transactions, one transaction.                              *)
RunStep(miner, h, replay, r, x) ==
    IF r.ok /\ Applicable(r.books, x, replay)
    THEN [r EXCEPT !.books = Transferred(@, x, miner, h)]
    ELSE [r EXCEPT !.ok = FALSE]

(* mature_block_rewards, one reward.                                       *)
MatureStep(h, c, r) ==
    IF ~r.mature /\ r.due <= h /\ ~PaidBefore(c, r)
    THEN Pay(c, "block_reward", r.account, MinerReward, h, r.related) ELSE c

(* A block is taken back: one reward, one entry of the ledger.             *)
UndoStep(h, rest, r) ==
    IF r.height < h THEN Append(rest, [r EXCEPT !.mature = @ /\ r.due < h]) ELSE rest
FilterStep(h, rest, e) == IF e.height < h THEN Append(rest, e) ELSE rest

FoldStep(k, p, q, t, r, x) ==
    CASE k = "run"    -> RunStep(p, q, t, r, x)
      [] k = "pick"   -> Consider(p, r, x)
      [] k = "pass"   -> SelectionPass(p, r)
      [] k = "mature" -> MatureStep(p, r, x)
      [] k = "undo"   -> UndoStep(p, r, x)
      [] k = "filter" -> FilterStep(p, r, x)

Greatest(u) == CHOOSE x \in u : \A y \in u : x >= y
StepOf(k, p, q, t, base, s, g, u) ==
    IF u = {} THEN base ELSE FoldStep(k, p, q, t, g[u \ {Greatest(u)}], s[Greatest(u)])
IsFold(k, p, q, t, base, s, g) ==
    g = [u \in SUBSET (DOMAIN s) |-> StepOf(k, p, q, t, base, s, g, u)]

LEMMA GreatestOfUpTo ==
    ASSUME NEW n \in Nat, NEW u \in SUBSET (1..n), u # {}
    PROVE  Greatest(u) \in u /\ \A i \in u : Greatest(u) >= i
  <1> DEFINE B == {k \in Nat : \E i \in u : k = n - i}
  <1>1. B \in SUBSET Nat /\ B # {}
    <2>1. PICK i \in u : TRUE
      OBVIOUS
    <2>2. n - i \in B
      BY <2>1
    <2> QED  BY <2>2
  <1>2. PICK k \in B : \A m \in B : k <= m
    <2> HIDE DEF B
    <2> QED  BY <1>1, SmallestNat
  <1>3. PICK i \in u : k = n - i
    BY <1>2
  <1>4. ASSUME NEW j \in u  PROVE i >= j
    <2>1. n - j \in B /\ n - i \in B
      BY <1>3
    <2>2. n - i <= n - j
      BY <1>2, <1>3, <2>1
    <2> QED  BY <2>2
  <1> QED  BY <1>4 DEF Greatest

LEMMA GreatestOfPrefix ==
    ASSUME NEW n \in Nat \ {0}
    PROVE  Greatest(1..n) = n /\ (1..n) \ {n} = 1..(n - 1)
  <1> DEFINE u == 1..n
  <1>1. u \in SUBSET (1..n) /\ u # {} /\ n \in Nat
    <2>1. n \in u
      OBVIOUS
    <2> QED  BY <2>1
  <1>2. n \in u /\ \A i \in u : n >= i
    OBVIOUS
  <1>3. Greatest(u) \in 1..n
    <2> HIDE DEF u
    <2> QED  BY <1>1, GreatestOfUpTo
  <1>4. Greatest(u) >= n
    <2> HIDE DEF u
    <2> QED  BY <1>1, <1>2, GreatestOfUpTo
  <1> QED  BY <1>3, <1>4

LEMMA IndicesRest ==
    ASSUME NEW n \in Nat, NEW u \in SUBSET (1..n), u # {}
    PROVE  u \ {Greatest(u)} \in SUBSET (1..(n - 1))
  <1>1. Greatest(u) \in u /\ \A i \in u : Greatest(u) >= i
    BY GreatestOfUpTo
  <1> DEFINE m == Greatest(u)
  <1> HIDE DEF m
  <1>2. m \in 1..n /\ \A i \in u : i \in 1..n /\ m >= i
    BY <1>1 DEF m
  <1>3. \A i \in u \ {m} : i \in 1..(n - 1)
    BY <1>2
  <1> QED  BY <1>3 DEF m

(* A function that obeys the fold on all sets of indices up to m.          *)
ObeysTo(k, p, q, t, base, s, g, m) ==
    \A u \in SUBSET (DOMAIN s) : u \in SUBSET (1..m) => g[u] = StepOf(k, p, q, t, base, s, g, u)

LEMMA FoldUpTo ==
    ASSUME NEW k, NEW p, NEW q, NEW t, NEW base, NEW s, NEW n \in Nat, DOMAIN s = 1..n
    PROVE  \E g : ObeysTo(k, p, q, t, base, s, g, n)
  <1> DEFINE G == {m \in 0..n : \E g : ObeysTo(k, p, q, t, base, s, g, m)}
  <1>1. 0 \in G
    <2> DEFINE g == [u \in SUBSET (DOMAIN s) |-> base]
    <2>1. ASSUME NEW u \in SUBSET (DOMAIN s), u \in SUBSET (1..0)
          PROVE  g[u] = StepOf(k, p, q, t, base, s, g, u)
      <3>1. u = {}
        BY <2>1
      <3> QED  BY <3>1 DEF StepOf
    <2> HIDE DEF g
    <2>2. ObeysTo(k, p, q, t, base, s, g, 0)
      BY <2>1 DEF ObeysTo
    <2> QED  BY <2>2
  <1>2. ASSUME NEW m \in 1..n, m - 1 \in G  PROVE m \in G
    <2>1. m \in Nat
      OBVIOUS
    <2>2. PICK g : ObeysTo(k, p, q, t, base, s, g, m - 1)
      BY <1>2
    <2> DEFINE h == [u \in SUBSET (DOMAIN s) |-> StepOf(k, p, q, t, base, s, g, u)]
    <2>3. ASSUME NEW u \in SUBSET (DOMAIN s), u \in SUBSET (1..(m - 1))  PROVE h[u] = g[u]
      BY <2>2, <2>3 DEF ObeysTo
    <2>4. ASSUME NEW u \in SUBSET (DOMAIN s), u \in SUBSET (1..m)
          PROVE  h[u] = StepOf(k, p, q, t, base, s, h, u)
      <3>1. h[u] = StepOf(k, p, q, t, base, s, g, u)
        OBVIOUS
      <3>2. CASE u = {}
        BY <3>1, <3>2 DEF StepOf
      <3>3. CASE u # {}
        <4>1. u \ {Greatest(u)} \in SUBSET (DOMAIN s) /\ u \ {Greatest(u)} \in SUBSET (1..(m - 1))
          BY <2>1, <2>4, <3>3, IndicesRest
        <4>2. h[u \ {Greatest(u)}] = g[u \ {Greatest(u)}]
          BY <2>3, <4>1
        <4> HIDE DEF h
        <4> QED  BY <3>1, <3>3, <4>2 DEF StepOf
      <3> QED  BY <3>2, <3>3
    <2> HIDE DEF h
    <2>5. ObeysTo(k, p, q, t, base, s, h, m)
      BY <2>4 DEF ObeysTo
    <2>6. m \in 0..n
      OBVIOUS
    <2> QED  BY <2>5, <2>6
  <1> HIDE DEF G
  <1>3. 0..n \subseteq G
    BY <1>1, <1>2, UpTo
  <1>4. n \in G
    BY <1>3
  <1> QED  BY <1>4 DEF G

LEMMA FoldExists ==
    ASSUME NEW k, NEW p, NEW q, NEW t, NEW base, NEW s, NEW n \in Nat, DOMAIN s = 1..n
    PROVE  \E g : IsFold(k, p, q, t, base, s, g)
  <1>1. PICK g : ObeysTo(k, p, q, t, base, s, g, n)
    BY FoldUpTo
  <1> DEFINE h == [u \in SUBSET (DOMAIN s) |-> StepOf(k, p, q, t, base, s, g, u)]
  <1>2. ASSUME NEW u \in SUBSET (DOMAIN s)  PROVE h[u] = g[u]
    BY <1>1 DEF ObeysTo
  <1>3. ASSUME NEW u \in SUBSET (DOMAIN s)
        PROVE  StepOf(k, p, q, t, base, s, g, u) = StepOf(k, p, q, t, base, s, h, u)
    <2>1. u # {} => u \ {Greatest(u)} \in SUBSET (DOMAIN s)
      OBVIOUS
    <2>2. u # {} => h[u \ {Greatest(u)}] = g[u \ {Greatest(u)}]
      BY <1>2, <2>1
    <2> HIDE DEF h
    <2> QED  BY <2>2 DEF StepOf
  <1>4. h = [u \in SUBSET (DOMAIN s) |-> StepOf(k, p, q, t, base, s, h, u)]
    <2>1. h = [u \in SUBSET (DOMAIN s) |-> StepOf(k, p, q, t, base, s, g, u)]
      OBVIOUS
    <2> HIDE DEF h
    <2> QED  BY <1>3, <2>1
  <1> HIDE DEF h
  <1> QED  BY <1>4 DEF IsFold

(* The run of a fold that ends in its value v.                             *)
IsRun(k, p, q, t, base, s, v, g) ==
    /\ g[0] = base /\ v = g[Len(s)]
    /\ \A i \in 1..Len(s) : g[i] = FoldStep(k, p, q, t, g[i - 1], s[i])

LEMMA FoldRuns ==
    ASSUME NEW k, NEW p, NEW q, NEW t, NEW base, NEW s, Len(s) \in Nat, DOMAIN s = 1..Len(s),
           NEW I, IsFold(k, p, q, t, base, s, I)
    PROVE  \E g : IsRun(k, p, q, t, base, s, I[DOMAIN s], g)
  <1> DEFINE g == [i \in 0..Len(s) |-> I[1..i]]
  <1>1. \A u \in SUBSET (1..Len(s)) : I[u] = StepOf(k, p, q, t, base, s, I, u)
    <2> DEFINE f == [u \in SUBSET (DOMAIN s) |-> StepOf(k, p, q, t, base, s, I, u)]
    <2>1. I = f /\ \A u \in SUBSET (1..Len(s)) : f[u] = StepOf(k, p, q, t, base, s, I, u)
      BY DEF IsFold
    <2> HIDE DEF f
    <2> QED  BY <2>1
  <1>2. g[0] = base
    <2>1. 1..0 = {} /\ 1..0 \in SUBSET (1..Len(s)) /\ g[0] = I[1..0]
      OBVIOUS
    <2> QED  BY <1>1, <2>1 DEF StepOf
  <1>3. ASSUME NEW i \in 1..Len(s)  PROVE g[i] = FoldStep(k, p, q, t, g[i - 1], s[i])
    <2>1. /\ 1..i \in SUBSET (1..Len(s)) /\ 1..i # {} /\ g[i] = I[1..i]
          /\ i - 1 \in 0..Len(s) /\ g[i - 1] = I[1..(i - 1)]
      OBVIOUS
    <2>2. Greatest(1..i) = i /\ (1..i) \ {i} = 1..(i - 1)
      BY GreatestOfPrefix
    <2>3. I[1..i] = FoldStep(k, p, q, t, I[(1..i) \ {Greatest(1..i)}], s[Greatest(1..i)])
      BY <1>1, <2>1 DEF StepOf
    <2> HIDE DEF g
    <2> QED  BY <2>1, <2>2, <2>3
  <1>4. g[Len(s)] = I[DOMAIN s]
    OBVIOUS
  <1> HIDE DEF g
  <1> QED  BY <1>2, <1>3, <1>4 DEF IsRun

Start(b) == [ok |-> TRUE, books |-> b]
NoPick == [txs |-> << >>, failed |-> {}]
Paying(b, h) == FoldLeft(LAMBDA c, r : MatureStep(h, c, r), b, b.rewards)

LEMMA MaturedIs ==
    \A b, h : Matured(b, h) =
      [Paying(b, h) EXCEPT !.rewards =
          [i \in DOMAIN b.rewards |-> [b.rewards[i] EXCEPT !.mature =
              @ \/ (~b.rewards[i].mature /\ b.rewards[i].due <= h)]]]
  BY DEF Matured, Paying, MatureStep

LEMMA OrderTyped == Len(TxOrder) \in Nat /\ DOMAIN TxOrder = 1..Len(TxOrder)
                    /\ \A i \in 1..Len(TxOrder) : TxOrder[i] \in Txs
  BY BooksAssumption

ExecutionRun(g, b, txs, miner, h, replay) ==
    /\ g[0] = Start(b)
    /\ \A i \in 1..Len(txs) : g[i] = RunStep(miner, h, replay, g[i - 1], txs[i])
    /\ Execution(b, txs, miner, h, replay) = g[Len(txs)]

LEMMA ExecutionHasRun ==
    ASSUME NEW b, NEW txs \in Seq(Txs), NEW miner, NEW h, NEW replay
    PROVE  \E g : ExecutionRun(g, b, txs, miner, h, replay)
  <1>0. Len(txs) \in Nat /\ DOMAIN txs = 1..Len(txs)
    OBVIOUS
  <1> DEFINE S(g, u) == IF u = {} THEN Start(b)
                        ELSE RunStep(miner, h, replay, g[u \ {Greatest(u)}], txs[Greatest(u)])
             I == CHOOSE g : g = [u \in SUBSET (DOMAIN txs) |-> S(g, u)]
  <1>1. Execution(b, txs, miner, h, replay) = I[DOMAIN txs]
    BY DEF Execution, RunStep, Start, FoldLeft, MapThenFoldSet, Max, Greatest
  <1>2. \A g, u : S(g, u) = StepOf("run", miner, h, replay, Start(b), txs, g, u)
    BY DEF StepOf, FoldStep
  <1> HIDE DEF S
  <1>3. PICK g : IsFold("run", miner, h, replay, Start(b), txs, g)
    BY <1>0, FoldExists
  <1>4. I = [u \in SUBSET (DOMAIN txs) |-> S(I, u)]
    BY <1>2, <1>3 DEF IsFold
  <1> HIDE DEF I
  <1>5. IsFold("run", miner, h, replay, Start(b), txs, I)
    BY <1>2, <1>4 DEF IsFold
  <1>6. \E f : IsRun("run", miner, h, replay, Start(b), txs, I[DOMAIN txs], f)
    BY <1>0, <1>5, FoldRuns
  <1> QED  BY <1>1, <1>6 DEF IsRun, FoldStep, ExecutionRun

LEMMA PassRuns ==
    ASSUME NEW b, NEW pick
    PROVE  \E g : /\ g[0] = pick /\ SelectionPass(b, pick) = g[Len(TxOrder)]
                  /\ \A i \in 1..Len(TxOrder) : g[i] = Consider(b, g[i - 1], TxOrder[i])
  <1> DEFINE S(g, u) == IF u = {} THEN pick
                        ELSE Consider(b, g[u \ {Greatest(u)}], TxOrder[Greatest(u)])
             I == CHOOSE g : g = [u \in SUBSET (DOMAIN TxOrder) |-> S(g, u)]
  <1>1. SelectionPass(b, pick) = I[DOMAIN TxOrder]
    BY DEF SelectionPass, FoldLeft, MapThenFoldSet, Max, Greatest
  <1>2. \A g, u : S(g, u) = StepOf("pick", b, 0, 0, pick, TxOrder, g, u)
    BY DEF StepOf, FoldStep
  <1> HIDE DEF S
  <1>3. PICK g : IsFold("pick", b, 0, 0, pick, TxOrder, g)
    BY FoldExists, OrderTyped
  <1>4. I = [u \in SUBSET (DOMAIN TxOrder) |-> S(I, u)]
    BY <1>2, <1>3 DEF IsFold
  <1> HIDE DEF I
  <1>5. IsFold("pick", b, 0, 0, pick, TxOrder, I)
    BY <1>2, <1>4 DEF IsFold
  <1>6. \E f : IsRun("pick", b, 0, 0, pick, TxOrder, I[DOMAIN TxOrder], f)
    BY <1>5, FoldRuns, OrderTyped
  <1> QED  BY <1>1, <1>6 DEF IsRun, FoldStep

LEMMA SelectionRuns ==
    ASSUME NEW b
    PROVE  \E g : /\ g[0] = NoPick /\ Selection(b) = g[Len(TxOrder)]
                  /\ \A i \in 1..Len(TxOrder) : g[i] = SelectionPass(b, g[i - 1])
  <1> DEFINE S(g, u) == IF u = {} THEN NoPick
                        ELSE SelectionPass(b, g[u \ {Greatest(u)}])
             I == CHOOSE g : g = [u \in SUBSET (DOMAIN TxOrder) |-> S(g, u)]
  <1>1. Selection(b) = I[DOMAIN TxOrder]
    BY DEF Selection, NoPick, FoldLeft, MapThenFoldSet, Max, Greatest
  <1>2. \A g, u : S(g, u) = StepOf("pass", b, 0, 0, NoPick, TxOrder, g, u)
    BY DEF StepOf, FoldStep
  <1> HIDE DEF S
  <1>3. PICK g : IsFold("pass", b, 0, 0, NoPick, TxOrder, g)
    BY FoldExists, OrderTyped
  <1>4. I = [u \in SUBSET (DOMAIN TxOrder) |-> S(I, u)]
    BY <1>2, <1>3 DEF IsFold
  <1> HIDE DEF I
  <1>5. IsFold("pass", b, 0, 0, NoPick, TxOrder, I)
    BY <1>2, <1>4 DEF IsFold
  <1>6. \E f : IsRun("pass", b, 0, 0, NoPick, TxOrder, I[DOMAIN TxOrder], f)
    BY <1>5, FoldRuns, OrderTyped
  <1> QED  BY <1>1, <1>6 DEF IsRun, FoldStep

LEMMA MaturedRuns ==
    ASSUME NEW b, Len(b.rewards) \in Nat, DOMAIN b.rewards = 1..Len(b.rewards), NEW h
    PROVE  \E g : /\ g[0] = b /\ Paying(b, h) = g[Len(b.rewards)]
                  /\ \A i \in 1..Len(b.rewards) : g[i] = MatureStep(h, g[i - 1], b.rewards[i])
  <1> DEFINE S(g, u) == IF u = {} THEN b
                        ELSE MatureStep(h, g[u \ {Greatest(u)}], b.rewards[Greatest(u)])
             I == CHOOSE g : g = [u \in SUBSET (DOMAIN b.rewards) |-> S(g, u)]
  <1>1. Paying(b, h) = I[DOMAIN b.rewards]
    BY DEF Paying, FoldLeft, MapThenFoldSet, Max, Greatest
  <1>2. \A g, u : S(g, u) = StepOf("mature", h, 0, 0, b, b.rewards, g, u)
    BY DEF StepOf, FoldStep
  <1> HIDE DEF S
  <1>3. PICK g : IsFold("mature", h, 0, 0, b, b.rewards, g)
    BY FoldExists
  <1>4. I = [u \in SUBSET (DOMAIN b.rewards) |-> S(I, u)]
    BY <1>2, <1>3 DEF IsFold
  <1> HIDE DEF I
  <1>5. IsFold("mature", h, 0, 0, b, b.rewards, I)
    BY <1>2, <1>4 DEF IsFold
  <1>6. \E f : IsRun("mature", h, 0, 0, b, b.rewards, I[DOMAIN b.rewards], f)
    BY <1>5, FoldRuns
  <1> QED  BY <1>1, <1>6 DEF IsRun, FoldStep

LEMMA UndoRuns ==
    ASSUME NEW b, Len(b.rewards) \in Nat, DOMAIN b.rewards = 1..Len(b.rewards), NEW h
    PROVE  \E g : /\ g[0] = << >> /\ RewardsWithout(b, h) = g[Len(b.rewards)]
                  /\ \A i \in 1..Len(b.rewards) : g[i] = UndoStep(h, g[i - 1], b.rewards[i])
  <1> DEFINE S(g, u) == IF u = {} THEN << >>
                        ELSE UndoStep(h, g[u \ {Greatest(u)}], b.rewards[Greatest(u)])
             I == CHOOSE g : g = [u \in SUBSET (DOMAIN b.rewards) |-> S(g, u)]
  <1>1. RewardsWithout(b, h) = I[DOMAIN b.rewards]
    BY DEF RewardsWithout, UndoStep, FoldLeft, MapThenFoldSet, Max, Greatest
  <1>2. \A g, u : S(g, u) = StepOf("undo", h, 0, 0, << >>, b.rewards, g, u)
    BY DEF StepOf, FoldStep
  <1> HIDE DEF S
  <1>3. PICK g : IsFold("undo", h, 0, 0, << >>, b.rewards, g)
    BY FoldExists
  <1>4. I = [u \in SUBSET (DOMAIN b.rewards) |-> S(I, u)]
    BY <1>2, <1>3 DEF IsFold
  <1> HIDE DEF I
  <1>5. IsFold("undo", h, 0, 0, << >>, b.rewards, I)
    BY <1>2, <1>4 DEF IsFold
  <1>6. \E f : IsRun("undo", h, 0, 0, << >>, b.rewards, I[DOMAIN b.rewards], f)
    BY <1>5, FoldRuns
  <1> QED  BY <1>1, <1>6 DEF IsRun, FoldStep

LEMMA FilterRuns ==
    ASSUME NEW b, Len(b.ledger) \in Nat, DOMAIN b.ledger = 1..Len(b.ledger), NEW h
    PROVE  \E g : /\ g[0] = << >> /\ LedgerWithout(b, h) = g[Len(b.ledger)]
                  /\ \A i \in 1..Len(b.ledger) : g[i] = FilterStep(h, g[i - 1], b.ledger[i])
  <1> DEFINE S(g, u) == IF u = {} THEN << >>
                        ELSE FilterStep(h, g[u \ {Greatest(u)}], b.ledger[Greatest(u)])
             I == CHOOSE g : g = [u \in SUBSET (DOMAIN b.ledger) |-> S(g, u)]
  <1>1. LedgerWithout(b, h) = I[DOMAIN b.ledger]
    BY DEF LedgerWithout, FilterStep, FoldLeft, MapThenFoldSet, Max, Greatest
  <1>2. \A g, u : S(g, u) = StepOf("filter", h, 0, 0, << >>, b.ledger, g, u)
    BY DEF StepOf, FoldStep
  <1> HIDE DEF S
  <1>3. PICK g : IsFold("filter", h, 0, 0, << >>, b.ledger, g)
    BY FoldExists
  <1>4. I = [u \in SUBSET (DOMAIN b.ledger) |-> S(I, u)]
    BY <1>2, <1>3 DEF IsFold
  <1> HIDE DEF I
  <1>5. IsFold("filter", h, 0, 0, << >>, b.ledger, I)
    BY <1>2, <1>4 DEF IsFold
  <1>6. \E f : IsRun("filter", h, 0, 0, << >>, b.ledger, I[DOMAIN b.ledger], f)
    BY <1>5, FoldRuns
  <1> QED  BY <1>1, <1>6 DEF IsRun, FoldStep

-------------------------------------------------------------------------------
(* The books: maxima of nonces, and what one row or entry changes.         *)

LEMMA FiniteHasMax ==
    ASSUME NEW S \in SUBSET Nat, IsFiniteSet(S), S # {}
    PROVE  \E m \in S : \A y \in S : m >= y
  <1> DEFINE Bad == {T \in SUBSET S : T # {} /\ ~ \E m \in T : \A y \in T : m >= y}
  <1> SUFFICES ASSUME Bad # {}  PROVE FALSE
    OBVIOUS
  <1>1. PICK T \in Bad : \A x \in T : T \ {x} \notin Bad
    <2>1. Bad \in SUBSET SUBSET S
      OBVIOUS
    <2> HIDE DEF Bad
    <2> QED  BY <2>1, SmallestSet
  <1>2. PICK x \in T : TRUE
    BY <1>1
  <1>3. T \in SUBSET Nat /\ x \in Nat
    BY <1>1
  <1>4. CASE T \ {x} = {}
    BY <1>1, <1>3, <1>4
  <1>5. CASE T \ {x} # {}
    <2>1. PICK m \in T \ {x} : \A y \in T \ {x} : m >= y
      BY <1>1, <1>5
    <2>2. CASE m >= x
      BY <1>1, <1>3, <2>1, <2>2
    <2>3. CASE ~(m >= x)
      <3>1. \A y \in T : x >= y
        BY <1>3, <2>1, <2>3
      <3> QED  BY <1>1, <3>1
    <2> QED  BY <2>2, <2>3
  <1> QED  BY <1>4, <1>5

LEMMA MaxOr0Is ==
    ASSUME NEW S \in SUBSET Nat, NEW m \in S \cup {0}, \A y \in S : m >= y
    PROVE  MaxOr0(S) = m
  <1> DEFINE U == S \cup {0}
  <1>1. m \in U /\ \A y \in U : m >= y
    OBVIOUS
  <1>2. \A x \in U : (\A y \in U : x >= y) => x = m
    OBVIOUS
  <1>3. Max(U) = m
    <2> HIDE DEF U
    <2> QED  BY <1>1, <1>2 DEF Max
  <1> QED  BY <1>3 DEF MaxOr0

LEMMA MaxOr0Bounds ==
    ASSUME NEW S \in SUBSET Nat, IsFiniteSet(S)
    PROVE  /\ MaxOr0(S) \in S \cup {0} /\ MaxOr0(S) \in Nat
           /\ \A y \in S : MaxOr0(S) >= y
  <1>1. CASE S = {}
    BY <1>1, MaxOr0Is
  <1>2. CASE S # {}
    <2>1. PICK m \in S : \A y \in S : m >= y
      BY <1>2, FiniteHasMax
    <2>2. MaxOr0(S) = m
      BY <2>1, MaxOr0Is
    <2> QED  BY <2>1, <2>2
  <1> QED  BY <1>1, <1>2

LEMMA ImageIsFinite ==
    ASSUME NEW S, IsFiniteSet(S), NEW f
    PROVE  IsFiniteSet({f[x] : x \in S})
  <1> DEFINE T == {f[x] : x \in S}
             g == [x \in S |-> f[x]]
  <1>1. g \in Surjection(S, T)
    BY DEF Surjection
  <1> HIDE DEF g, T
  <1>2. IsFiniteSet(T)
    BY <1>1, FS_Surjection
  <1> QED  BY <1>2 DEF T

LEMMA TxsAreFinite == IsFiniteSet(Txs)
  <1>1. TxOrder \in Seq(Txs) /\ ToSet(TxOrder) = Txs
    BY BooksAssumption
  <1>2. IsFiniteSet(DOMAIN TxOrder)
    BY <1>1, FS_Interval
  <1>3. Txs = {TxOrder[i] : i \in DOMAIN TxOrder}
    BY <1>1 DEF ToSet
  <1> QED  BY <1>2, <1>3, ImageIsFinite

LEMMA TxsTyped ==
    \A x \in Txs : Sender[x] \in Wallets /\ Recipient[x] \in Wallets /\ Nonce[x] \in Nat \ {0}
  BY BooksAssumption

LEMMA NoncesOf ==
    ASSUME NEW P \in SUBSET Txs
    PROVE  LET S == {Nonce[x] : x \in P} IN S \in SUBSET Nat /\ IsFiniteSet(S)
  <1>1. IsFiniteSet(P)
    BY TxsAreFinite, FS_Subset
  <1>2. IsFiniteSet({Nonce[x] : x \in P})
    BY <1>1, ImageIsFinite
  <1> QED  BY <1>2, TxsTyped

Columns == {"rows", "nonces", "rewards", "ledger", "balances", "fund", "epochs"}
RowStatus == {"absent", "pending", "selected", "confirmed", "failed", "expired"}
MempoolRows ==
    [status : RowStatus, height : Nat \cup {NoHeight}, task : Tasks \cup {NoTask}, late : BOOLEAN]

BlockIds == Tasks \cup Foreign
RewardRows ==
    [height : Nat, account : {Miner[i] : i \in BlockIds}, due : Nat, mature : BOOLEAN,
     related : BlockIds]

(* What the proofs need to know of the books.                              *)
Kept(b) ==
    /\ DOMAIN b = Columns
    /\ b.rows \in [Txs -> MempoolRows]
    /\ b.nonces \in [Wallets -> Nat]
    /\ b.rewards \in Seq(RewardRows)

SameRows(b, c) == DOMAIN c = Columns /\ c.rows = b.rows /\ c.nonces = b.nonces
Alike(b, c)    == SameRows(b, c) /\ c.rewards = b.rewards

LEMMA AlikeKept == \A b, c : Kept(b) /\ Alike(b, c) => Kept(c)
  BY DEF Kept, Alike, SameRows

LEMMA PayKeeps ==
    ASSUME NEW b, DOMAIN b = Columns, NEW type, NEW who, NEW amount, NEW h, NEW related
    PROVE  Alike(b, Pay(b, type, who, amount, h, related))
  BY DEF Alike, SameRows, Pay, Columns

ConfirmedRow(row, h) == [row EXCEPT !.status = "confirmed", !.height = h, !.task = NoTask]

Raised(nonces, x) == [nonces EXCEPT ![Sender[x]] = MaxOr0({nonces[Sender[x]], Nonce[x]})]

Transfers(b, c, x, h) ==
    /\ Kept(c)
    /\ c.rows = [b.rows EXCEPT ![x] = ConfirmedRow(b.rows[x], h)]
    /\ c.nonces = Raised(b.nonces, x)

LEMMA TransferKeeps ==
    ASSUME NEW b, Kept(b), NEW x \in Txs, NEW miner, NEW h \in Nat
    PROVE  Transfers(b, Transferred(b, x, miner, h), x, h)
  <1> DEFINE debited  == Pay(b, "transfer_debit", Sender[x], -Debit(x), h, x)
             credited == Pay(debited, "transfer_credit", Recipient[x], Amount[x], h, x)
             paid     == IF Fee[x] = 0 THEN credited
                         ELSE Pay(credited, "transaction_fee_reward", miner, Fee[x], h, x)
             row      == [b.rows[x] EXCEPT !.status = "confirmed", !.height = h, !.task = NoTask]
             rows     == [b.rows EXCEPT ![x] = row]
             nonces   == [b.nonces EXCEPT ![Sender[x]] = MaxOr0({@, Nonce[x]})]
             c        == [paid EXCEPT !.rows[x] = [@ EXCEPT !.status = "confirmed", !.height = h,
                                                            !.task = NoTask],
                                      !.nonces[Sender[x]] = MaxOr0({@, Nonce[x]})]
  <1>1. Transferred(b, x, miner, h) = c
    BY DEF Transferred
  <1>2. Alike(b, debited)
    BY PayKeeps DEF Kept
  <1>3. Alike(debited, credited)
    <2> HIDE DEF debited
    <2> QED  BY <1>2, PayKeeps DEF Alike, SameRows
  <1>4. Alike(credited, Pay(credited, "transaction_fee_reward", miner, Fee[x], h, x))
    <2> HIDE DEF credited
    <2> QED  BY <1>3, PayKeeps DEF Alike, SameRows
  <1>5. Alike(b, paid)
    <2> HIDE DEF debited, credited
    <2> QED  BY <1>2, <1>3, <1>4 DEF Alike, SameRows
  <1> HIDE DEF paid
  <1>6. /\ DOMAIN paid = Columns /\ paid.rows = b.rows /\ paid.nonces = b.nonces
        /\ paid.rewards = b.rewards
    BY <1>5 DEF Alike, SameRows
  <1>7. DOMAIN c = Columns /\ c.rows = rows /\ c.nonces = nonces /\ c.rewards = b.rewards
    BY <1>6 DEF Columns
  <1> HIDE DEF c
  <1>8. row \in MempoolRows
    BY DEF Kept, MempoolRows, RowStatus
  <1>9. rows \in [Txs -> MempoolRows]
    <2> HIDE DEF row
    <2> QED  BY <1>8 DEF Kept
  <1>10. nonces \in [Wallets -> Nat]
    <2>1. b.nonces[Sender[x]] \in Nat /\ Nonce[x] \in Nat /\ Sender[x] \in Wallets
      BY TxsTyped DEF Kept
    <2>2. MaxOr0({b.nonces[Sender[x]], Nonce[x]}) \in Nat
      <3>1. IsFiniteSet({b.nonces[Sender[x]], Nonce[x]})
        <4>1. IsFiniteSet({b.nonces[Sender[x]]})
          BY FS_Singleton
        <4>2. IsFiniteSet({b.nonces[Sender[x]]} \cup {Nonce[x]})
          BY <4>1, FS_AddElement
        <4>3. {b.nonces[Sender[x]]} \cup {Nonce[x]} = {b.nonces[Sender[x]], Nonce[x]}
          OBVIOUS
        <4> QED  BY <4>2, <4>3
      <3> QED  BY <2>1, <3>1, MaxOr0Bounds
    <2> QED  BY <2>1, <2>2 DEF Kept
  <1> QED  BY <1>1, <1>7, <1>9, <1>10 DEF Kept, ConfirmedRow, Raised, Transfers

-------------------------------------------------------------------------------
(* Executing the transactions of a block.                                  *)

LEMMA ApplicableIsNext ==
    ASSUME NEW b, Kept(b), NEW x \in Txs, NEW replay, Applicable(b, x, replay)
    PROVE  Nonce[x] > b.nonces[Sender[x]]
  <1> DEFINE P == {y \in Txs : Sender[y] = Sender[x] /\ b.rows[y].status = "confirmed"}
             N == {Nonce[y] : y \in P}
             S == {b.nonces[Sender[x]]} \cup N
  <1>1. b.nonces[Sender[x]] \in Nat /\ Nonce[x] \in Nat
    BY TxsTyped DEF Kept
  <1>2. N \in SUBSET Nat /\ IsFiniteSet(N)
    <2>1. P \in SUBSET Txs
      OBVIOUS
    <2> HIDE DEF P
    <2> QED  BY <2>1, NoncesOf
  <1>3. S \in SUBSET Nat /\ IsFiniteSet(S) /\ b.nonces[Sender[x]] \in S
    <2> HIDE DEF N
    <2>1. IsFiniteSet(N \cup {b.nonces[Sender[x]]})
      BY <1>2, FS_AddElement
    <2>2. N \cup {b.nonces[Sender[x]]} = S
      OBVIOUS
    <2> QED  BY <1>1, <1>2, <2>1, <2>2
  <1>4. ConfirmedNonce(b, Sender[x]) = MaxOr0(S)
    BY DEF ConfirmedNonce
  <1>5. MaxOr0(S) \in Nat /\ MaxOr0(S) >= b.nonces[Sender[x]]
    <2> HIDE DEF S
    <2> QED  BY <1>3, MaxOr0Bounds
  <1>6. Nonce[x] >= ConfirmedNonce(b, Sender[x]) + 1
    BY <1>1, <1>4, <1>5 DEF Applicable
  <1> HIDE DEF S
  <1> QED  BY <1>1, <1>4, <1>5, <1>6

(* The books c are the books b after the transactions in D.                *)
Advanced(b, c, D, h) ==
    /\ Kept(c)
    /\ \A x \in Txs : c.rows[x] = IF x \in D THEN ConfirmedRow(b.rows[x], h) ELSE b.rows[x]
    /\ \A x \in D : Nonce[x] > b.nonces[Sender[x]] /\ c.nonces[Sender[x]] >= Nonce[x]
    /\ \A w \in Wallets :
         /\ c.nonces[w] >= b.nonces[w]
         /\ c.nonces[w] \in {b.nonces[w]} \cup {Nonce[x] : x \in {y \in D : Sender[y] = w}}

LEMMA AdvanceByOne ==
    ASSUME NEW b, Kept(b), NEW c, NEW D \in SUBSET Txs, NEW h \in Nat, Advanced(b, c, D, h),
           NEW x \in Txs, NEW miner, NEW replay, Applicable(c, x, replay)
    PROVE  Advanced(b, Transferred(c, x, miner, h), D \cup {x}, h)
  <1>1. Kept(c)
    BY DEF Advanced
  <1> DEFINE d == Transferred(c, x, miner, h)
  <1>2. Transfers(c, d, x, h)
    BY <1>1, TransferKeeps
  <1> HIDE DEF d
  <1> DEFINE s == Sender[x]
             top == MaxOr0({c.nonces[s], Nonce[x]})
  <1>13. /\ Kept(d)
         /\ d.rows = [c.rows EXCEPT ![x] = ConfirmedRow(c.rows[x], h)]
         /\ d.nonces = [c.nonces EXCEPT ![s] = top]
    BY <1>2 DEF Raised, Transfers
  <1>3. Nonce[x] > c.nonces[s]
    BY <1>1, ApplicableIsNext
  <1>4. s \in Wallets /\ Nonce[x] \in Nat /\ c.nonces[s] \in Nat
    BY <1>1, TxsTyped DEF Kept
  <1>5. top = Nonce[x]
    <2> DEFINE S == {c.nonces[s], Nonce[x]}
    <2>1. S \in SUBSET Nat /\ Nonce[x] \in S /\ \A y \in S : Nonce[x] >= y
      BY <1>3, <1>4
    <2> HIDE DEF S
    <2>2. MaxOr0(S) = Nonce[x]
      BY <2>1, MaxOr0Is
    <2> QED  BY <2>2 DEF S
  <1> HIDE DEF top
  <1>6. /\ d.rows \in [Txs -> MempoolRows] /\ c.rows \in [Txs -> MempoolRows]
        /\ b.rows \in [Txs -> MempoolRows]
        /\ c.nonces \in [Wallets -> Nat] /\ b.nonces \in [Wallets -> Nat]
    BY <1>1, <1>13 DEF Kept
  <1>7. ASSUME NEW y \in Txs
        PROVE  d.rows[y] = IF y \in D \cup {x} THEN ConfirmedRow(b.rows[y], h) ELSE b.rows[y]
    <2>1. CASE y = x
      <3>1. d.rows[x] = ConfirmedRow(c.rows[x], h)
        BY <1>13, <1>6
      <3>2. c.rows[x] = b.rows[x] \/ c.rows[x] = ConfirmedRow(b.rows[x], h)
        BY DEF Advanced
      <3>3. ConfirmedRow(ConfirmedRow(b.rows[x], h), h) = ConfirmedRow(b.rows[x], h)
        BY <1>6 DEF ConfirmedRow, MempoolRows
      <3> QED  BY <2>1, <3>1, <3>2, <3>3
    <2>2. CASE y # x
      <3>1. d.rows[y] = c.rows[y]
        BY <1>13, <1>6, <2>2
      <3> QED  BY <2>2, <3>1 DEF Advanced
    <2> QED  BY <2>1, <2>2
  <1>8. ASSUME NEW w \in Wallets
        PROVE  d.nonces[w] = IF w = s THEN Nonce[x] ELSE c.nonces[w]
    BY <1>13, <1>5, <1>6
  <1>9. \A y \in D : y \in Txs /\ Nonce[y] \in Nat /\ Sender[y] \in Wallets
    BY TxsTyped
  <1>10. ASSUME NEW y \in D \cup {x}
         PROVE  Nonce[y] > b.nonces[Sender[y]] /\ d.nonces[Sender[y]] >= Nonce[y]
    <2>1. CASE y = x
      <3>1. c.nonces[s] >= b.nonces[s] /\ b.nonces[s] \in Nat
        BY <1>4, <1>6 DEF Advanced
      <3> QED  BY <1>3, <1>4, <1>8, <2>1, <3>1
    <2>2. CASE y \in D
      <3>1. Nonce[y] > b.nonces[Sender[y]] /\ c.nonces[Sender[y]] >= Nonce[y]
        BY <2>2 DEF Advanced
      <3>2. c.nonces[Sender[y]] \in Nat /\ Nonce[y] \in Nat /\ Sender[y] \in Wallets
        BY <1>6, <1>9, <2>2
      <3>3. d.nonces[Sender[y]] >= c.nonces[Sender[y]]
        BY <1>3, <1>4, <1>8, <3>2
      <3>4. d.nonces[Sender[y]] \in Nat
        BY <1>4, <1>8, <3>2
      <3> QED  BY <3>1, <3>2, <3>3, <3>4
    <2> QED  BY <2>1, <2>2
  <1>11. ASSUME NEW w \in Wallets
         PROVE  /\ d.nonces[w] >= b.nonces[w]
                /\ d.nonces[w] \in {b.nonces[w]}
                     \cup {Nonce[z] : z \in {y \in D \cup {x} : Sender[y] = w}}
    <2>1. /\ c.nonces[w] >= b.nonces[w] /\ b.nonces[w] \in Nat /\ c.nonces[w] \in Nat
          /\ c.nonces[w] \in {b.nonces[w]} \cup {Nonce[z] : z \in {y \in D : Sender[y] = w}}
      BY <1>6 DEF Advanced
    <2>2. CASE w = s
      BY <1>3, <1>4, <1>8, <2>1, <2>2
    <2>3. CASE w # s
      BY <1>8, <2>1, <2>3
    <2> QED  BY <2>2, <2>3
  <1>12. Advanced(b, d, D \cup {x}, h)
    BY <1>13, <1>7, <1>10, <1>11 DEF Advanced
  <1> QED  BY <1>12 DEF d

Among(txs, k) == {txs[i] : i \in 1..k}

(* A block whose transactions all apply confirms them, each above the nonce *)
(* its sender had.                                                         *)
LEMMA ExecutionAdvances ==
    ASSUME NEW b, Kept(b), NEW txs \in Seq(Txs), NEW miner, NEW h \in Nat, NEW replay,
           Execution(b, txs, miner, h, replay).ok
    PROVE  Advanced(b, Execution(b, txs, miner, h, replay).books, ToSet(txs), h)
  <1>1. PICK g : ExecutionRun(g, b, txs, miner, h, replay)
    BY ExecutionHasRun
  <1> DEFINE Good(i) == /\ DOMAIN g[i] = {"ok", "books"}
                        /\ g[i].ok => Advanced(b, g[i].books, Among(txs, i), h)
             Bad == {i \in 0..Len(txs) : ~Good(i)}
  <1>2. Bad = {}
    <2> SUFFICES ASSUME Bad # {}  PROVE FALSE
      OBVIOUS
    <2>1. PICK i \in Bad : \A j \in Bad : i <= j
      <3>1. Bad \in SUBSET Nat
        OBVIOUS
      <3> HIDE DEF Bad
      <3> QED  BY <3>1, SmallestNat
    <2>2. CASE i = 0
      <3>1. Among(txs, 0) = {}
        BY DEF Among
      <3>2. Advanced(b, b, {}, h)
        BY DEF Advanced, Kept
      <3>3. DOMAIN g[0] = {"ok", "books"} /\ g[0].books = b
        BY <1>1 DEF Start, ExecutionRun
      <3>4. Good(0)
        BY <3>1, <3>2, <3>3
      <3> QED  BY <2>1, <2>2, <3>4
    <2>3. CASE i # 0
      <3>1. i \in 1..Len(txs) /\ i - 1 \in 0..Len(txs) /\ Good(i - 1) /\ txs[i] \in Txs
        <4>1. i \in 0..Len(txs) /\ i - 1 \notin Bad
          <5>1. Bad \in SUBSET (0..Len(txs))
            OBVIOUS
          <5> HIDE DEF Bad
          <5> QED  BY <2>1, <2>3, <5>1
        <4>2. i \in 1..Len(txs) /\ i - 1 \in 0..Len(txs)
          BY <2>3, <4>1
        <4>3. txs[i] \in Txs
          BY <4>2
        <4> HIDE DEF Good
        <4> QED  BY <4>1, <4>2, <4>3
      <3>2. g[i] = RunStep(miner, h, replay, g[i - 1], txs[i])
        BY <1>1, <3>1 DEF ExecutionRun
      <3>3. DOMAIN g[i] = {"ok", "books"}
        BY <3>1, <3>2 DEF RunStep
      <3>4. Among(txs, i) = Among(txs, i - 1) \cup {txs[i]}
        <4>1. 1..i = (1..(i - 1)) \cup {i}
          BY <3>1
        <4> QED  BY <4>1 DEF Among
      <3>5. ASSUME g[i].ok  PROVE Advanced(b, g[i].books, Among(txs, i), h)
        <4>1. /\ g[i - 1].ok /\ Applicable(g[i - 1].books, txs[i], replay)
              /\ g[i].books = Transferred(g[i - 1].books, txs[i], miner, h)
          BY <3>1, <3>2, <3>5 DEF RunStep
        <4>2. Among(txs, i - 1) \in SUBSET Txs
          <5>1. 1..(i - 1) \subseteq 1..Len(txs)
            BY <3>1
          <5> QED  BY <5>1 DEF Among
        <4> QED  BY <3>1, <3>4, <4>1, <4>2, AdvanceByOne
      <3>6. Good(i)
        BY <3>3, <3>5
      <3> QED  BY <2>1, <3>6
    <2> QED  BY <2>2, <2>3
  <1>3. Len(txs) \in 0..Len(txs)
    OBVIOUS
  <1>4. Good(Len(txs))
    BY <1>2, <1>3
  <1>5. Among(txs, Len(txs)) = ToSet(txs)
    BY DEF Among, ToSet
  <1> QED  BY <1>1, <1>4, <1>5 DEF ExecutionRun

(* What a block builder could execute, a replay executes with the same end. *)
LEMMA ReplayExecutesAlike ==
    ASSUME NEW b, NEW txs \in Seq(Txs), NEW miner, NEW h,
           NEW yes, Execution(b, txs, miner, h, FALSE).ok
    PROVE  Execution(b, txs, miner, h, yes) = Execution(b, txs, miner, h, FALSE)
  <1>1. PICK f : ExecutionRun(f, b, txs, miner, h, FALSE)
    BY ExecutionHasRun
  <1>2. PICK g : ExecutionRun(g, b, txs, miner, h, yes)
    BY ExecutionHasRun
  <1> DEFINE Good(i) == DOMAIN f[i] = {"ok", "books"} /\ (f[i].ok => g[i] = f[i])
             Bad == {i \in 0..Len(txs) : ~Good(i)}
  <1>3. Bad = {}
    <2> SUFFICES ASSUME Bad # {}  PROVE FALSE
      OBVIOUS
    <2>1. PICK i \in Bad : \A j \in Bad : i <= j
      <3>1. Bad \in SUBSET Nat
        OBVIOUS
      <3> HIDE DEF Bad
      <3> QED  BY <3>1, SmallestNat
    <2>2. CASE i = 0
      <3>1. Good(0)
        BY <1>1, <1>2 DEF Start, ExecutionRun
      <3> QED  BY <2>1, <2>2, <3>1
    <2>3. CASE i # 0
      <3>1. i \in 1..Len(txs) /\ Good(i - 1)
        <4>1. i \in 0..Len(txs) /\ i - 1 \notin Bad
          <5>1. Bad \in SUBSET (0..Len(txs))
            OBVIOUS
          <5> HIDE DEF Bad
          <5> QED  BY <2>1, <2>3, <5>1
        <4>2. i \in 1..Len(txs) /\ i - 1 \in 0..Len(txs)
          BY <2>3, <4>1
        <4> HIDE DEF Good
        <4> QED  BY <4>1, <4>2
      <3>2. /\ f[i] = RunStep(miner, h, FALSE, f[i - 1], txs[i])
            /\ g[i] = RunStep(miner, h, yes, g[i - 1], txs[i])
        BY <1>1, <1>2, <3>1 DEF ExecutionRun
      <3>3. DOMAIN f[i] = {"ok", "books"}
        BY <3>1, <3>2 DEF RunStep
      <3>4. ASSUME f[i].ok  PROVE g[i] = f[i]
        <4>1. f[i - 1].ok /\ Applicable(f[i - 1].books, txs[i], FALSE)
          BY <3>1, <3>2, <3>4 DEF RunStep
        <4>2. Applicable(f[i - 1].books, txs[i], yes)
          BY <4>1 DEF Applicable
        <4> QED  BY <3>1, <3>2, <4>1, <4>2 DEF RunStep
      <3>5. Good(i)
        BY <3>3, <3>4
      <3> QED  BY <2>1, <3>5
    <2> QED  BY <2>2, <2>3
  <1>4. Len(txs) \in 0..Len(txs)
    OBVIOUS
  <1>5. Good(Len(txs))
    BY <1>3, <1>4
  <1> QED  BY <1>1, <1>2, <1>5 DEF ExecutionRun

-------------------------------------------------------------------------------
(* What a task freezes: waiting transactions only.                         *)

PendingOf(b) == {x \in Txs : b.rows[x].status = "pending"}
Picks(b) == [txs : Seq(PendingOf(b)), failed : SUBSET PendingOf(b)]

LEMMA ConsiderPicks ==
    ASSUME NEW b, NEW pick \in Picks(b), NEW x \in Txs
    PROVE  Consider(b, pick, x) \in Picks(b)
  <1> DEFINE more   == [pick EXCEPT !.txs = Append(@, x)]
             failed == [pick EXCEPT !.failed = @ \cup {x}]
  <1>1. CASE b.rows[x].status # "pending"
    BY <1>1 DEF Consider
  <1>2. CASE b.rows[x].status = "pending"
    <2>1. x \in PendingOf(b)
      BY <1>2 DEF PendingOf
    <2>2. more \in Picks(b)
      <3>1. Append(pick.txs, x) \in Seq(PendingOf(b))
        BY <2>1 DEF Picks
      <3> QED  BY <3>1 DEF Picks
    <2>3. failed \in Picks(b)
      BY <2>1 DEF Picks
    <2>4. Consider(b, pick, x) \in {pick, more, failed}
      BY DEF Consider
    <2> QED  BY <2>2, <2>3, <2>4
  <1> QED  BY <1>1, <1>2

LEMMA PassPicks ==
    ASSUME NEW b, NEW pick \in Picks(b)
    PROVE  SelectionPass(b, pick) \in Picks(b)
  <1>0. PICK n : n = Len(TxOrder)
    OBVIOUS
  <1>1. PICK g : /\ g[0] = pick /\ SelectionPass(b, pick) = g[n]
                 /\ \A i \in 1..n : g[i] = Consider(b, g[i - 1], TxOrder[i])
    BY <1>0, PassRuns
  <1> DEFINE G == {i \in 0..n : g[i] \in Picks(b)}
  <1>2. n \in Nat
    BY <1>0, OrderTyped
  <1>3. 0 \in G
    BY <1>1, <1>2
  <1>4. \A i \in 1..n : i - 1 \in G => i \in G
    BY <1>0, <1>1, <1>2, ConsiderPicks, OrderTyped
  <1> HIDE DEF G
  <1>5. n \in G
    BY <1>2, <1>3, <1>4, UpTo
  <1> QED  BY <1>1, <1>5 DEF G

LEMMA SelectionPicks == ASSUME NEW b  PROVE Selection(b) \in Picks(b)
  <1>0. PICK n : n = Len(TxOrder)
    OBVIOUS
  <1>1. PICK g : /\ g[0] = NoPick /\ Selection(b) = g[n]
                 /\ \A i \in 1..n : g[i] = SelectionPass(b, g[i - 1])
    BY <1>0, SelectionRuns
  <1> DEFINE G == {i \in 0..n : g[i] \in Picks(b)}
  <1>2. n \in Nat
    BY <1>0, OrderTyped
  <1>3. 0 \in G
    <2>1. << >> \in Seq(PendingOf(b))
      OBVIOUS
    <2>2. NoPick \in Picks(b)
      BY <2>1 DEF Picks, NoPick
    <2> QED  BY <1>1, <1>2, <2>2
  <1>4. \A i \in 1..n : i - 1 \in G => i \in G
    BY <1>1, <1>2, PassPicks
  <1> HIDE DEF G
  <1>5. n \in G
    BY <1>2, <1>3, <1>4, UpTo
  <1> QED  BY <1>1, <1>5 DEF G

-------------------------------------------------------------------------------
(* A block's rewards and accruals leave mempool and nonces alone.          *)

LEMMA AlikeAlike ==
    \A b, c, d : Alike(b, c) /\ Alike(c, d) => Alike(b, d)
  BY DEF Alike, SameRows

LEMMA RewardedKeeps ==
    ASSUME NEW b, Kept(b), NEW related \in BlockIds, NEW h \in Nat
    PROVE  LET c == Rewarded(b, Miner[related], h, related) IN Kept(c) /\ SameRows(b, c)
  <1> DEFINE miner  == Miner[related]
             reward == [height |-> h, account |-> miner, due |-> h + MaturityDepth,
                        mature |-> MaturityDepth = 0, related |-> related]
             noted  == [b EXCEPT !.rewards = Append(@, reward)]
             paid   == Pay(noted, "block_reward", miner, MinerReward, h, related)
  <1>1. Rewarded(b, miner, h, related) \in {paid, noted}
    BY DEF Rewarded
  <1>2. Kept(noted) /\ SameRows(b, noted)
    <2>1. reward \in RewardRows
      BY BooksAssumption DEF RewardRows
    <2> HIDE DEF reward
    <2>2. Append(b.rewards, reward) \in Seq(RewardRows)
      BY <2>1 DEF Kept
    <2> QED  BY <2>2 DEF SameRows, Kept, Columns
  <1> HIDE DEF noted
  <1>3. Kept(paid) /\ SameRows(b, paid)
    <2>1. Alike(noted, paid)
      BY <1>2, PayKeeps DEF Kept
    <2> QED  BY <1>2, <2>1, AlikeKept DEF Alike, SameRows
  <1> QED  BY <1>1, <1>2, <1>3

LEMMA AccruedAlike ==
    ASSUME NEW b, DOMAIN b = Columns, NEW h, NEW q
    PROVE  Alike(b, Accrued(b, h, q))
  <1> DEFINE share == Pay(b, "science_reserve_accrual", Reserve, ReserveShare, h, h)
             fund    == Pay(share, "treasury_accrual", Treasury, TreasuryShare, h, h)
             pool    == Pay(fund, "validator_reward", Pool, PoolReward, h, h)
  <1>1. Alike(b, share)
    BY PayKeeps
  <1> HIDE DEF share
  <1>2. Alike(share, fund)
    BY <1>1, PayKeeps DEF Alike, SameRows
  <1> HIDE DEF fund
  <1>3. Alike(fund, pool)
    BY <1>2, PayKeeps DEF Alike, SameRows
  <1> HIDE DEF pool
  <1>4. Alike(pool, Accrued(b, h, q))
    <2>1. DOMAIN pool = Columns
      BY <1>3 DEF Alike, SameRows
    <2> QED  BY <2>1 DEF Accrued, Alike, SameRows, Columns, share, fund, pool
  <1> QED  BY <1>1, <1>2, <1>3, <1>4 DEF Alike, SameRows

LEMMA MaturedKeeps ==
    ASSUME NEW b, Kept(b), NEW h \in Nat
    PROVE  Kept(Matured(b, h)) /\ SameRows(b, Matured(b, h))
  <1> DEFINE paid   == Paying(b, h)
             marked == [i \in DOMAIN b.rewards |->
                          [b.rewards[i] EXCEPT !.mature =
                              @ \/ (~b.rewards[i].mature /\ b.rewards[i].due <= h)]]
             n      == Len(b.rewards)
  <1>1. Matured(b, h) = [paid EXCEPT !.rewards = marked]
    BY MaturedIs
  <1>2. n \in Nat /\ DOMAIN b.rewards = 1..n
    BY DEF Kept
  <1>3. PICK g : /\ g[0] = b /\ paid = g[n]
                 /\ \A i \in 1..n : g[i] = MatureStep(h, g[i - 1], b.rewards[i])
    BY <1>2, MaturedRuns
  <1>4. ASSUME NEW c, NEW r, Alike(b, c)  PROVE Alike(b, MatureStep(h, c, r))
    <2> DEFINE p == Pay(c, "block_reward", r.account, MinerReward, h, r.related)
    <2>1. MatureStep(h, c, r) \in {c, p}
      BY DEF MatureStep
    <2>2. Alike(c, p)
      BY <1>4, PayKeeps DEF Alike, SameRows
    <2> HIDE DEF p
    <2> QED  BY <1>4, <2>1, <2>2, AlikeAlike
  <1>5. Alike(b, paid)
    <2> DEFINE G == {i \in 0..n : Alike(b, g[i])}
    <2>1. 0 \in G
      BY <1>2, <1>3 DEF Alike, SameRows, Kept
    <2>2. \A i \in 1..n : i - 1 \in G => i \in G
      BY <1>2, <1>3, <1>4
    <2> HIDE DEF G
    <2>3. n \in G
      BY <1>2, <2>1, <2>2, UpTo
    <2> QED  BY <1>3, <2>3 DEF G
  <1> HIDE DEF paid
  <1>6. DOMAIN paid = Columns /\ paid.rows = b.rows /\ paid.nonces = b.nonces
    BY <1>5 DEF Alike, SameRows
  <1>7. marked \in Seq(RewardRows)
    <2>1. \A i \in 1..Len(b.rewards) : b.rewards[i] \in RewardRows
      BY DEF Kept
    <2>2. \A i \in 1..Len(b.rewards) : marked[i] \in RewardRows
      BY <1>2, <2>1 DEF RewardRows
    <2>3. marked = [i \in 1..Len(b.rewards) |-> marked[i]]
      BY <1>2
    <2> HIDE DEF marked
    <2> QED  BY <1>2, <2>2, <2>3
  <1> HIDE DEF marked
  <1> QED  BY <1>1, <1>6, <1>7 DEF Kept, SameRows, Columns

-------------------------------------------------------------------------------
(* A block.                                                                *)

LEMMA AdvancedBetween ==
    ASSUME NEW b, NEW b1, SameRows(b, b1), NEW c, NEW c1, SameRows(c, c1), Kept(c1), NEW D, NEW h,
           Advanced(b1, c, D, h)
    PROVE  Advanced(b, c1, D, h)
  BY DEF Advanced, SameRows

LEMMA BlockAdvances ==
    ASSUME NEW b, Kept(b), NEW txs \in Seq(Txs), NEW id \in BlockIds, NEW h \in Nat, NEW q, NEW replay,
           Block(b, txs, Miner[id], h, id, q, replay).ok
    PROVE  Advanced(b, Block(b, txs, Miner[id], h, id, q, replay).books, ToSet(txs), h)
  <1> DEFINE first == Rewarded(b, Miner[id], h, id)
             run   == Execution(first, txs, Miner[id], h, replay)
             done  == Accrued(run.books, h, q)
             last  == Matured(done, h)
  <1>1. /\ Block(b, txs, Miner[id], h, id, q, replay).books = last
        /\ Block(b, txs, Miner[id], h, id, q, replay).ok = run.ok
    BY DEF Block
  <1>2. Kept(first) /\ SameRows(b, first)
    BY RewardedKeeps
  <1>3. run.ok
    BY <1>1
  <1> HIDE DEF first
  <1>4. Advanced(first, run.books, ToSet(txs), h)
    BY <1>2, <1>3, ExecutionAdvances
  <1> HIDE DEF run
  <1>5. Kept(run.books)
    BY <1>4 DEF Advanced
  <1>6. Kept(done) /\ SameRows(run.books, done)
    <2>1. Alike(run.books, done)
      BY <1>5, AccruedAlike DEF Kept
    <2> HIDE DEF done
    <2> QED  BY <1>5, <2>1, AlikeKept DEF Alike
  <1> HIDE DEF done
  <1>7. Kept(last) /\ SameRows(done, last)
    BY <1>6, MaturedKeeps
  <1> HIDE DEF last
  <1>8. SameRows(run.books, last)
    BY <1>6, <1>7 DEF SameRows
  <1>9. Advanced(b, last, ToSet(txs), h)
    BY <1>2, <1>4, <1>7, <1>8, AdvancedBetween
  <1> QED  BY <1>1, <1>9

LEMMA BlockReplays ==
    ASSUME NEW b, NEW txs \in Seq(Txs), NEW miner, NEW h, NEW id, NEW q, NEW yes,
           Block(b, txs, miner, h, id, q, FALSE).ok
    PROVE  Block(b, txs, miner, h, id, q, yes) = Block(b, txs, miner, h, id, q, FALSE)
  <1> DEFINE first == Rewarded(b, miner, h, id)
  <1>1. Execution(first, txs, miner, h, FALSE).ok
    BY DEF Block
  <1>2. Execution(first, txs, miner, h, yes) = Execution(first, txs, miner, h, FALSE)
    <2> HIDE DEF first
    <2> QED  BY <1>1, ReplayExecutesAlike
  <1> QED  BY <1>2 DEF Block

-------------------------------------------------------------------------------
(* The chain and what the mempool and the nonces say of it.                *)

ConfirmedOf(b, w) == {Nonce[x] : x \in {y \in Txs : Sender[y] = w /\ b.rows[y].status = "confirmed"}}

Carried(c, b) ==
    /\ \A x \in Txs, h \in 1..Len(c) :
         Contains(c[h].txs, x) <=> b.rows[x].status = "confirmed" /\ b.rows[x].height = h
    /\ \A x \in Txs : b.rows[x].status = "confirmed" => b.rows[x].height \in 1..Len(c)
    /\ \A w \in Wallets : b.nonces[w] = MaxOr0(ConfirmedOf(b, w))

LEMMA CarriedIsConfirmed == ConfirmedIsOnChain <=> Carried(chain, books)
  BY DEF ConfirmedIsOnChain, Carried, ConfirmedOf, Height

(* Rows and nonces change without a confirmed row among them.              *)
SameConfirmed(b, c) ==
    /\ c.nonces = b.nonces
    /\ \A x \in Txs : /\ c.rows[x].status = "confirmed" <=> b.rows[x].status = "confirmed"
                      /\ c.rows[x].status = "confirmed" => c.rows[x].height = b.rows[x].height

LEMMA CarriedOver ==
    ASSUME NEW s, NEW b, NEW c, Carried(s, b), SameConfirmed(b, c)
    PROVE  Carried(s, c)
  <1>1. ASSUME NEW w \in Wallets  PROVE ConfirmedOf(c, w) = ConfirmedOf(b, w)
    <2>1. {y \in Txs : Sender[y] = w /\ c.rows[y].status = "confirmed"}
            = {y \in Txs : Sender[y] = w /\ b.rows[y].status = "confirmed"}
      BY DEF SameConfirmed
    <2> QED  BY <2>1 DEF ConfirmedOf
  <1> QED  BY <1>1 DEF Carried, SameConfirmed

LEMMA ConfirmedBounded ==
    ASSUME NEW b, NEW w
    PROVE  ConfirmedOf(b, w) \in SUBSET Nat /\ IsFiniteSet(ConfirmedOf(b, w))
  <1> DEFINE P == {y \in Txs : Sender[y] = w /\ b.rows[y].status = "confirmed"}
  <1>1. P \in SUBSET Txs
    OBVIOUS
  <1> HIDE DEF P
  <1>2. {Nonce[x] : x \in P} \in SUBSET Nat /\ IsFiniteSet({Nonce[x] : x \in P})
    BY <1>1, NoncesOf
  <1> QED  BY <1>2 DEF ConfirmedOf, P

(* A block on top confirms its transactions. *)
LEMMA CarriedByBlock ==
    ASSUME NEW s, Len(s) \in Nat, NEW b, Kept(b), Carried(s, b), NEW id, NEW txs \in Seq(Txs), NEW c,
           Advanced(b, c, ToSet(txs), Len(s) + 1), NEW s1, Len(s1) = Len(s) + 1,
           \A h \in 1..Len(s) : s1[h] = s[h], s1[Len(s) + 1].txs = txs
    PROVE  Carried(s1, c)
  <1> DEFINE D == ToSet(txs)
             n == Len(s) + 1
  <1>1. D \in SUBSET Txs /\ \A x : Contains(txs, x) <=> x \in D
    BY DEF ToSet, Contains
  <1> HIDE DEF D
  <1>2. /\ b.rows \in [Txs -> MempoolRows] /\ b.nonces \in [Wallets -> Nat]
        /\ c.nonces \in [Wallets -> Nat]
    BY DEF Advanced, Kept
  <1>3. Advanced(b, c, D, n)
    BY DEF D
  <1>4. ASSUME NEW x \in D  PROVE b.rows[x].status # "confirmed"
    <2> SUFFICES ASSUME b.rows[x].status = "confirmed"  PROVE FALSE
      OBVIOUS
    <2>1. x \in Txs /\ Sender[x] \in Wallets /\ Nonce[x] \in Nat
      BY <1>1, TxsTyped
    <2>2. Nonce[x] \in ConfirmedOf(b, Sender[x])
      BY <2>1 DEF ConfirmedOf
    <2>3. MaxOr0(ConfirmedOf(b, Sender[x])) >= Nonce[x]
      <3> DEFINE S == ConfirmedOf(b, Sender[x])
      <3>1. S \in SUBSET Nat /\ IsFiniteSet(S)
        BY ConfirmedBounded
      <3> HIDE DEF S
      <3>2. \A y \in S : MaxOr0(S) >= y
        BY <3>1, MaxOr0Bounds
      <3> QED  BY <2>2, <3>2 DEF S
    <2>4. b.nonces[Sender[x]] >= Nonce[x] /\ b.nonces[Sender[x]] \in Nat
      BY <1>2, <2>1, <2>3 DEF Carried
    <2>5. Nonce[x] > b.nonces[Sender[x]]
      BY <1>3 DEF Advanced
    <2> QED  BY <2>1, <2>4, <2>5
  <1>5. ASSUME NEW x \in Txs
        PROVE  IF x \in D THEN c.rows[x].status = "confirmed" /\ c.rows[x].height = n
               ELSE c.rows[x] = b.rows[x]
    BY <1>2, <1>3, ZenonT(60) DEF Advanced, ConfirmedRow, MempoolRows
  <1>6. ASSUME NEW x \in Txs, NEW h \in 1..n
        PROVE  Contains(s1[h].txs, x) <=> c.rows[x].status = "confirmed" /\ c.rows[x].height = h
    <2>1. CASE h = n
      <3>1. s1[h].txs = txs
        BY <2>1
      <3>2. b.rows[x].status = "confirmed" => b.rows[x].height \in 1..Len(s)
        BY DEF Carried
      <3> QED  BY <1>1, <1>5, <2>1, <3>1, <3>2
    <2>2. CASE h # n
      <3>1. h \in 1..Len(s) /\ s1[h] = s[h]
        BY <2>2
      <3>2. Contains(s[h].txs, x) <=> b.rows[x].status = "confirmed" /\ b.rows[x].height = h
        BY <3>1 DEF Carried
      <3> QED  BY <1>4, <1>5, <2>2, <3>1, <3>2
    <2> QED  BY <2>1, <2>2
  <1>7. ASSUME NEW x \in Txs, c.rows[x].status = "confirmed"  PROVE c.rows[x].height \in 1..n
    <2>1. CASE x \in D
      BY <1>5, <2>1
    <2>2. CASE x \notin D
      BY <1>5, <1>7, <2>2 DEF Carried
    <2> QED  BY <2>1, <2>2
  <1>8. ASSUME NEW w \in Wallets  PROVE c.nonces[w] = MaxOr0(ConfirmedOf(c, w))
    <2> DEFINE S == ConfirmedOf(c, w)
    <2>1. S \in SUBSET Nat /\ IsFiniteSet(S)
      BY ConfirmedBounded
    <2>2. b.nonces[w] \in ConfirmedOf(b, w) \cup {0}
      <3> DEFINE B == ConfirmedOf(b, w)
      <3>1. B \in SUBSET Nat /\ IsFiniteSet(B)
        BY ConfirmedBounded
      <3> HIDE DEF B
      <3>2. MaxOr0(B) \in B \cup {0}
        BY <3>1, MaxOr0Bounds
      <3> QED  BY <3>2 DEF B, Carried
    <2>3. \A y \in ConfirmedOf(b, w) : y <= b.nonces[w]
      <3> DEFINE B == ConfirmedOf(b, w)
      <3>1. B \in SUBSET Nat /\ IsFiniteSet(B)
        BY ConfirmedBounded
      <3> HIDE DEF B
      <3>2. MaxOr0(B) \in Nat /\ \A y \in B : MaxOr0(B) >= y
        BY <3>1, MaxOr0Bounds
      <3>3. b.nonces[w] = MaxOr0(B)
        BY DEF B, Carried
      <3>4. \A y \in B : y <= b.nonces[w]
        BY <3>1, <3>2, <3>3
      <3> QED  BY <3>4 DEF B
    <2>4. S = ConfirmedOf(b, w) \cup {Nonce[x] : x \in {y \in D : Sender[y] = w}}
      <3>1. {y \in Txs : Sender[y] = w /\ c.rows[y].status = "confirmed"}
              = {y \in Txs : Sender[y] = w /\ b.rows[y].status = "confirmed"}
                  \cup {y \in D : Sender[y] = w}
        BY <1>1, <1>5
      <3> QED  BY <3>1 DEF ConfirmedOf
    <2>5. c.nonces[w] \in S \cup {0}
      <3>1. c.nonces[w] \in {b.nonces[w]} \cup {Nonce[x] : x \in {y \in D : Sender[y] = w}}
        BY <1>3 DEF Advanced
      <3> HIDE DEF S
      <3> QED  BY <2>2, <2>4, <3>1
    <2>6. ASSUME NEW y \in S  PROVE c.nonces[w] >= y
      <3>1. c.nonces[w] >= b.nonces[w] /\ c.nonces[w] \in Nat /\ b.nonces[w] \in Nat /\ y \in Nat
        BY <1>2, <1>3, <2>1 DEF Advanced
      <3>2. CASE y \in ConfirmedOf(b, w)
        BY <2>3, <3>1, <3>2
      <3>3. CASE \E x \in D : Sender[x] = w /\ y = Nonce[x]
        BY <1>3, <3>3 DEF Advanced
      <3> HIDE DEF S
      <3> QED  BY <2>4, <3>2, <3>3
    <2> HIDE DEF S
    <2>7. MaxOr0(S) = c.nonces[w]
      BY <2>1, <2>5, <2>6, MaxOr0Is
    <2> QED  BY <2>7 DEF S
  <1> QED  BY <1>6, <1>7, <1>8 DEF Carried

(* No transaction is selected that was not, for the same task, before.     *)
NoNewOwners(b, c) ==
    \A x \in Txs : c.rows[x].status = "selected" =>
        b.rows[x].status = "selected" /\ c.rows[x].task = b.rows[x].task

LEMMA OwnersBetween ==
    \A b, c, d : NoNewOwners(b, c) /\ NoNewOwners(c, d) => NoNewOwners(b, d)
  BY DEF NoNewOwners

LEMMA AdvancedOwners ==
    ASSUME NEW b, Kept(b), NEW c, NEW D, NEW h, Advanced(b, c, D, h)
    PROVE  NoNewOwners(b, c) /\ \A x \in Txs \cap D : c.rows[x].status = "confirmed"
  <1>1. b.rows \in [Txs -> MempoolRows]
    BY DEF Kept
  <1> QED  BY <1>1 DEF Advanced, NoNewOwners, ConfirmedRow, MempoolRows

(* Only rows change. *)
LEMMA RowsKept ==
    ASSUME NEW b, Kept(b), NEW rows \in [Txs -> MempoolRows], NEW c, c = [b EXCEPT !.rows = rows]
    PROVE  Kept(c) /\ c.rows = rows /\ c.nonces = b.nonces
  BY DEF Kept, Columns

LEMMA RowsTyped ==
    AbsentRow \in MempoolRows /\ FreshRow \in MempoolRows
    /\ \A row \in MempoolRows : Freed(row) \in MempoolRows /\ Freed(row).status \in {"expired", "pending"}
  BY DEF AbsentRow, FreshRow, Freed, MempoolRows, RowStatus

LEMMA ReleasedKeeps ==
    ASSUME NEW b, Kept(b), NEW ts
    PROVE  LET c == Released(b, ts)
           IN  /\ Kept(c) /\ SameConfirmed(b, c) /\ NoNewOwners(b, c)
               /\ \A x \in Txs : c.rows[x].status = "selected" => c.rows[x].task \notin ts
  <1> DEFINE rows == [x \in Txs |-> IF b.rows[x].status = "selected" /\ b.rows[x].task \in ts
                                   THEN Freed(b.rows[x]) ELSE b.rows[x]]
             c    == [b EXCEPT !.rows = rows]
  <1>1. Released(b, ts) = c
    BY DEF Released, Kept, Columns
  <1>2. b.rows \in [Txs -> MempoolRows]
    BY DEF Kept
  <1>3. rows \in [Txs -> MempoolRows]
    BY <1>2, RowsTyped
  <1>4. \A x \in Txs : rows[x] = IF b.rows[x].status = "selected" /\ b.rows[x].task \in ts
                                 THEN Freed(b.rows[x]) ELSE b.rows[x]
    OBVIOUS
  <1> HIDE DEF rows
  <1>5. Kept(c) /\ c.rows = rows /\ c.nonces = b.nonces
    BY <1>3, RowsKept
  <1> HIDE DEF c
  <1> QED  BY <1>1, <1>2, <1>4, <1>5, RowsTyped DEF SameConfirmed, NoNewOwners

LEMMA SubmittedKeeps ==
    ASSUME NEW b, Kept(b), NEW x \in Txs, CanSubmit(b, x)
    PROVE  LET c == Submitted(b, x)
           IN  Kept(c) /\ SameConfirmed(b, c) /\ NoNewOwners(b, c)
  <1> DEFINE rows == [y \in Txs |-> IF y = x THEN FreshRow
                                   ELSE IF y \in Rivals(x) THEN AbsentRow ELSE b.rows[y]]
             c    == [b EXCEPT !.rows = rows]
  <1>1. Submitted(b, x) = c
    BY DEF Submitted
  <1>2. b.rows \in [Txs -> MempoolRows]
    BY DEF Kept
  <1>3. rows \in [Txs -> MempoolRows]
    BY <1>2, RowsTyped
  <1>4. \A y \in Txs : rows[y] = IF y = x THEN FreshRow
                                 ELSE IF y \in Rivals(x) THEN AbsentRow ELSE b.rows[y]
    OBVIOUS
  <1> HIDE DEF rows
  <1>5. Kept(c) /\ c.rows = rows /\ c.nonces = b.nonces
    BY <1>3, RowsKept
  <1> HIDE DEF c
  <1>6. FreshRow.status = "pending" /\ AbsentRow.status = "absent"
    BY DEF FreshRow, AbsentRow
  <1>7. b.rows[x].status = "absent"
        /\ \A y \in Rivals(x) : b.rows[y].status \in {"absent", "failed", "expired"}
    BY DEF CanSubmit, Present
  <1> QED  BY <1>1, <1>4, <1>5, <1>6, <1>7 DEF SameConfirmed, NoNewOwners

LEMMA AgedKeeps ==
    ASSUME NEW b, Kept(b), NEW x \in Txs
    PROVE  LET c == [b EXCEPT !.rows[x].late = TRUE]
           IN  Kept(c) /\ SameConfirmed(b, c) /\ NoNewOwners(b, c)
  <1> DEFINE row  == [b.rows[x] EXCEPT !.late = TRUE]
             rows == [b.rows EXCEPT ![x] = row]
             c    == [b EXCEPT !.rows = rows]
  <1>1. [b EXCEPT !.rows[x].late = TRUE] = c
    BY DEF Kept, Columns
  <1>2. b.rows \in [Txs -> MempoolRows]
    BY DEF Kept
  <1>3. /\ row \in MempoolRows /\ row.status = b.rows[x].status
        /\ row.height = b.rows[x].height /\ row.task = b.rows[x].task
    BY <1>2 DEF MempoolRows
  <1> HIDE DEF row
  <1>4. rows \in [Txs -> MempoolRows] /\ \A y \in Txs : rows[y] = IF y = x THEN row ELSE b.rows[y]
    BY <1>2, <1>3
  <1> HIDE DEF rows
  <1>5. Kept(c) /\ c.rows = rows /\ c.nonces = b.nonces
    BY <1>4, RowsKept
  <1> HIDE DEF c
  <1> QED  BY <1>1, <1>3, <1>4, <1>5 DEF SameConfirmed, NoNewOwners

LEMMA ExpiredKeeps ==
    ASSUME NEW b, Kept(b)
    PROVE  LET c == Expired(b)
           IN  Kept(c) /\ SameConfirmed(b, c) /\ NoNewOwners(b, c)
  <1> DEFINE rows == [x \in Txs |-> IF b.rows[x].status = "pending" /\ b.rows[x].late
                                   THEN [b.rows[x] EXCEPT !.status = "expired"] ELSE b.rows[x]]
             c    == [b EXCEPT !.rows = rows]
  <1>1. Expired(b) = c
    BY DEF Expired
  <1>2. b.rows \in [Txs -> MempoolRows]
    BY DEF Kept
  <1>3. rows \in [Txs -> MempoolRows]
    BY <1>2 DEF MempoolRows, RowStatus
  <1>4. \A x \in Txs : \/ rows[x] = b.rows[x]
                       \/ b.rows[x].status = "pending" /\ rows[x].status = "expired"
    BY <1>2 DEF MempoolRows
  <1> HIDE DEF rows
  <1>5. Kept(c) /\ c.rows = rows /\ c.nonces = b.nonces
    BY <1>3, RowsKept
  <1> HIDE DEF c
  <1> QED  BY <1>1, <1>4, <1>5 DEF SameConfirmed, NoNewOwners

(* What is frozen was waiting, and is the task's now.                      *)
LEMMA FrozenKeeps ==
    ASSUME NEW b, Kept(b), NEW pick \in Picks(b), NEW t \in Tasks
    PROVE  LET c == Frozen(b, pick, t)
           IN  /\ Kept(c) /\ SameConfirmed(b, c)
               /\ \A x \in Txs : c.rows[x].status = "selected" =>
                    IF Contains(pick.txs, x) THEN c.rows[x].task = t
                    ELSE b.rows[x].status = "selected" /\ c.rows[x].task = b.rows[x].task
  <1> DEFINE rows == [x \in Txs |->
                        IF Contains(pick.txs, x)
                        THEN [b.rows[x] EXCEPT !.status = "selected", !.task = t]
                        ELSE IF x \in pick.failed
                        THEN [b.rows[x] EXCEPT !.status = "failed"] ELSE b.rows[x]]
             c    == [b EXCEPT !.rows = rows]
  <1>1. Frozen(b, pick, t) = c
    BY DEF Frozen
  <1>2. b.rows \in [Txs -> MempoolRows]
    BY DEF Kept
  <1>3. rows \in [Txs -> MempoolRows]
    BY <1>2 DEF MempoolRows, RowStatus
  <1>4. ASSUME NEW x \in Txs
        PROVE  /\ Contains(pick.txs, x) => rows[x].status = "selected" /\ rows[x].task = t
               /\ ~Contains(pick.txs, x) => \/ rows[x] = b.rows[x]
                                            \/ x \in pick.failed /\ rows[x].status = "failed"
    BY <1>2 DEF MempoolRows
  <1> HIDE DEF rows
  <1>5. Kept(c) /\ c.rows = rows /\ c.nonces = b.nonces
    BY <1>3, RowsKept
  <1> HIDE DEF c
  <1>6. \A x : Contains(pick.txs, x) \/ x \in pick.failed => b.rows[x].status = "pending"
    <2>1. pick.txs \in Seq(PendingOf(b)) /\ pick.failed \in SUBSET PendingOf(b)
      BY DEF Picks
    <2>2. \A x : Contains(pick.txs, x) => x \in PendingOf(b)
      BY <2>1 DEF Contains
    <2> QED  BY <2>1, <2>2 DEF PendingOf
  <1> QED  BY <1>1, <1>4, <1>5, <1>6 DEF SameConfirmed

LEMMA EnsuredKeeps ==
    ASSUME NEW b, Kept(b), NEW txs \in Seq(Txs)
    PROVE  LET c == Ensured(b, txs)
           IN  /\ Kept(c) /\ NoNewOwners(b, c) /\ c.nonces = b.nonces
               /\ \A x \in Txs :
                    \/ c.rows[x] = b.rows[x]
                    \/ c.rows[x].status # "confirmed" /\ b.rows[x].status = "absent"
                    \/ c.rows[x].status = "absent" /\ \E y \in ToSet(txs) : x \in Rivals(y)
  <1> DEFINE new  == {x \in ToSet(txs) : ~Present(b, x)}
             rows == [x \in Txs |-> IF x \in new THEN [FreshRow EXCEPT !.late = TRUE]
                                   ELSE IF \E y \in new : x \in Rivals(y) THEN AbsentRow
                                   ELSE b.rows[x]]
             c    == [b EXCEPT !.rows = rows]
  <1>1. Ensured(b, txs) = c
    BY DEF Ensured
  <1>2. b.rows \in [Txs -> MempoolRows]
    BY DEF Kept
  <1>3. [FreshRow EXCEPT !.late = TRUE] \in MempoolRows
        /\ [FreshRow EXCEPT !.late = TRUE].status = "pending" /\ AbsentRow.status = "absent"
    BY DEF FreshRow, AbsentRow, MempoolRows, RowStatus
  <1>4. rows \in [Txs -> MempoolRows]
    BY <1>2, <1>3, RowsTyped
  <1>5. \A x \in Txs : \/ rows[x] = b.rows[x]
                       \/ rows[x].status = "pending" /\ b.rows[x].status = "absent"
                       \/ rows[x].status = "absent" /\ \E y \in ToSet(txs) : x \in Rivals(y)
    BY <1>3 DEF Present
  <1> HIDE DEF rows
  <1>6. Kept(c) /\ c.rows = rows /\ c.nonces = b.nonces
    BY <1>4, RowsKept
  <1> HIDE DEF c
  <1> QED  BY <1>1, <1>5, <1>6 DEF NoNewOwners

-------------------------------------------------------------------------------
(* An imported block and a block taken back.                               *)

LEMMA NonceOfConfirmed ==
    ASSUME NEW s, NEW b, Kept(b), Carried(s, b), NEW x \in Txs, b.rows[x].status = "confirmed"
    PROVE  b.nonces[Sender[x]] >= Nonce[x] /\ b.nonces[Sender[x]] \in Nat /\ Nonce[x] \in Nat
  <1> DEFINE S == ConfirmedOf(b, Sender[x])
  <1>1. Sender[x] \in Wallets /\ Nonce[x] \in Nat
    BY TxsTyped
  <1>2. Nonce[x] \in S
    BY DEF ConfirmedOf
  <1>3. S \in SUBSET Nat /\ IsFiniteSet(S)
    BY ConfirmedBounded
  <1>4. b.nonces[Sender[x]] = MaxOr0(S)
    BY <1>1 DEF Carried
  <1> HIDE DEF S
  <1>5. MaxOr0(S) \in Nat /\ \A y \in S : MaxOr0(S) >= y
    BY <1>3, MaxOr0Bounds
  <1> QED  BY <1>1, <1>2, <1>4, <1>5

(* An import that executes deletes no row the chain carries.               *)
LEMMA ForeignAdvances ==
    ASSUME NEW s, NEW b, Kept(b), Carried(s, b), NEW f \in Foreign, NEW h \in Nat,
           Buildable(b, f, h)
    PROVE  LET e == Ensured(b, Payload[f])
           IN  /\ Kept(e) /\ Carried(s, e)
               /\ Advanced(e, Imported(b, f, h), ToSet(Payload[f]), h)
               /\ Kept(Imported(b, f, h)) /\ NoNewOwners(b, Imported(b, f, h))
  <1> DEFINE txs == Payload[f]
             e == Ensured(b, txs)
             c == Block(e, txs, Miner[f], h, f, quarter, FALSE)
             yes == TRUE
             r == Block(e, txs, Miner[f], h, f, quarter, yes)
  <1>1. txs \in Seq(Txs) /\ f \in BlockIds
    BY BlocksAssumption DEF BlockIds
  <1>2. c.ok /\ Imported(b, f, h) = r.books
    BY DEF Buildable, ForeignBlock, Imported
  <1> HIDE DEF txs, yes
  <1>3. /\ Kept(e) /\ NoNewOwners(b, e) /\ e.nonces = b.nonces
        /\ \A x \in Txs :
             \/ e.rows[x] = b.rows[x]
             \/ e.rows[x].status # "confirmed" /\ b.rows[x].status = "absent"
             \/ e.rows[x].status = "absent" /\ \E y \in ToSet(txs) : x \in Rivals(y)
    BY <1>1, EnsuredKeeps
  <1> HIDE DEF e
  <1>4. r = c
    BY <1>1, <1>2, BlockReplays
  <1> HIDE DEF r
  <1>5. Advanced(e, c.books, ToSet(txs), h)
    BY <1>1, <1>2, <1>3, BlockAdvances
  <1> HIDE DEF c
  <1>6. ASSUME NEW x \in Txs, b.rows[x].status = "confirmed", NEW y \in ToSet(txs), x \in Rivals(y)
        PROVE  FALSE
    <2>1. y \in Txs
      BY <1>1 DEF ToSet
    <2>2. Sender[y] = Sender[x] /\ Nonce[y] = Nonce[x]
      BY <1>6 DEF Rivals
    <2>3. Nonce[y] > e.nonces[Sender[y]]
      BY <1>5, <2>1 DEF Advanced
    <2>4. b.nonces[Sender[x]] >= Nonce[x] /\ b.nonces[Sender[x]] \in Nat /\ Nonce[x] \in Nat
      BY <1>6, NonceOfConfirmed
    <2> QED  BY <1>3, <2>2, <2>3, <2>4
  <1>7. SameConfirmed(b, e)
    <2>1. ASSUME NEW x \in Txs
          PROVE  /\ e.rows[x].status = "confirmed" <=> b.rows[x].status = "confirmed"
                 /\ e.rows[x].status = "confirmed" => e.rows[x].height = b.rows[x].height
      <3>1. CASE e.rows[x] = b.rows[x]
        BY <3>1
      <3>2. CASE e.rows[x].status # "confirmed" /\ b.rows[x].status = "absent"
        BY <3>2
      <3>3. CASE e.rows[x].status = "absent" /\ \E y \in ToSet(txs) : x \in Rivals(y)
        BY <1>6, <3>3
      <3> QED  BY <1>3, <3>1, <3>2, <3>3
    <2> QED  BY <1>3, <2>1 DEF SameConfirmed
  <1>8. Carried(s, e)
    BY <1>7, CarriedOver
  <1>9. Kept(c.books) /\ NoNewOwners(e, c.books)
    <2>1. Kept(c.books)
      BY <1>5 DEF Advanced
    <2> DEFINE d == c.books
               D == ToSet(txs)
    <2>2. Advanced(e, d, D, h)
      BY <1>5
    <2> HIDE DEF d, D
    <2>3. NoNewOwners(e, d)
      BY <1>3, <2>2, AdvancedOwners
    <2> QED  BY <2>1, <2>3 DEF d
  <1>10. NoNewOwners(b, c.books)
    BY <1>3, <1>9, OwnersBetween
  <1> QED  BY <1>2, <1>3, <1>4, <1>5, <1>8, <1>9, <1>10 DEF e, txs

LEMMA RewardsWithoutTyped ==
    ASSUME NEW b, Kept(b), NEW h \in Nat
    PROVE  RewardsWithout(b, h) \in Seq(RewardRows)
  <1>0. PICK n : n = Len(b.rewards)
    OBVIOUS
  <1> DEFINE R == Seq(RewardRows)
  <1>1. n \in Nat /\ DOMAIN b.rewards = 1..n /\ \A i \in 1..n : b.rewards[i] \in RewardRows
    BY <1>0 DEF Kept
  <1>2. PICK g : /\ g[0] = << >> /\ RewardsWithout(b, h) = g[n]
                 /\ \A i \in 1..n : g[i] = UndoStep(h, g[i - 1], b.rewards[i])
    BY <1>0, <1>1, UndoRuns
  <1> DEFINE G == {i \in 0..n : g[i] \in R}
  <1>3. 0 \in G
    <2>1. << >> \in R
      OBVIOUS
    <2> HIDE DEF R
    <2> QED  BY <1>1, <1>2, <2>1
  <1>4. ASSUME NEW i \in 1..n, i - 1 \in G  PROVE i \in G
    <2> DEFINE row  == [b.rewards[i] EXCEPT !.mature = @ /\ b.rewards[i].due < h]
               rest == g[i - 1]
    <2>1. row \in RewardRows
      BY <1>1 DEF RewardRows
    <2>2. UndoStep(h, rest, b.rewards[i]) \in {rest, Append(rest, row)}
      BY DEF UndoStep
    <2> HIDE DEF row
    <2>3. rest \in R
      BY <1>4
    <2> HIDE DEF rest
    <2>4. UndoStep(h, rest, b.rewards[i]) \in R
      BY <2>1, <2>2, <2>3
    <2> QED  BY <1>1, <1>2, <2>4 DEF rest
  <1> HIDE DEF G
  <1>5. n \in G
    BY <1>1, <1>3, <1>4, UpTo
  <1> QED  BY <1>2, <1>5 DEF G

LEMMA UndoneKeeps ==
    ASSUME NEW b, Kept(b), NEW s, Len(s) \in Nat \ {0}, Carried(s, b), NEW s1,
           Len(s1) = Len(s) - 1, \A h \in 1..Len(s1) : s1[h] = s[h]
    PROVE  LET c == WithoutBlock(b, Len(s)) IN Kept(c) /\ Carried(s1, c) /\ NoNewOwners(b, c)
  <1> DEFINE n == Len(s)
             rows == RowsWithout(b, n)
             c == WithoutBlock(b, n)
  <1>1. /\ DOMAIN c = Columns /\ c.rows = rows /\ c.nonces = NoncesFrom(b, rows)
        /\ c.rewards = RewardsWithout(b, n)
    BY DEF WithoutBlock, Columns
  <1> HIDE DEF c
  <1>2. b.rows \in [Txs -> MempoolRows]
    BY DEF Kept
  <1>3. rows \in [Txs -> MempoolRows]
    BY <1>2, RowsTyped DEF RowsWithout
  <1>4. ASSUME NEW x \in Txs
        PROVE  IF b.rows[x].status = "confirmed" /\ b.rows[x].height >= n
               THEN rows[x].status \in {"expired", "pending"} ELSE rows[x] = b.rows[x]
    BY <1>2, RowsTyped DEF RowsWithout
  <1> HIDE DEF rows
  <1>5. ASSUME NEW w \in Wallets  PROVE c.nonces[w] = MaxOr0(ConfirmedOf(c, w))
    BY <1>1 DEF NoncesFrom, ConfirmedOf
  <1>6. c.nonces \in [Wallets -> Nat]
    <2>1. c.nonces = [w \in Wallets |-> c.nonces[w]]
      BY <1>1 DEF NoncesFrom
    <2>2. ASSUME NEW w \in Wallets  PROVE c.nonces[w] \in Nat
      <3> DEFINE S == ConfirmedOf(c, w)
      <3>1. S \in SUBSET Nat /\ IsFiniteSet(S)
        BY ConfirmedBounded
      <3> HIDE DEF S
      <3>2. MaxOr0(S) \in Nat
        BY <3>1, MaxOr0Bounds
      <3> QED  BY <1>5, <3>2 DEF S
    <2> QED  BY <2>1, <2>2
  <1>7. Kept(c)
    BY <1>1, <1>3, <1>6, RewardsWithoutTyped DEF Kept
  <1>8. ASSUME NEW x \in Txs, NEW h \in 1..Len(s1)
        PROVE  Contains(s1[h].txs, x) <=> c.rows[x].status = "confirmed" /\ c.rows[x].height = h
    <2>1. h \in 1..n /\ h < n /\ s1[h] = s[h]
      OBVIOUS
    <2>2. Contains(s[h].txs, x) <=> b.rows[x].status = "confirmed" /\ b.rows[x].height = h
      BY <2>1 DEF Carried
    <2> QED  BY <1>1, <1>4, <2>1, <2>2
  <1>9. ASSUME NEW x \in Txs, c.rows[x].status = "confirmed"  PROVE c.rows[x].height \in 1..Len(s1)
    <2>1. c.rows[x] = b.rows[x] /\ ~(b.rows[x].height >= n)
      BY <1>1, <1>4, <1>9
    <2>2. b.rows[x].height \in 1..n
      BY <1>9, <2>1 DEF Carried
    <2> QED  BY <2>1, <2>2
  <1>10. Carried(s1, c)
    BY <1>5, <1>8, <1>9 DEF Carried
  <1>11. NoNewOwners(b, c)
    BY <1>1, <1>4 DEF NoNewOwners
  <1> QED  BY <1>7, <1>10, <1>11 DEF c

-------------------------------------------------------------------------------
(* The inductive invariant of mempool, tasks and chain.                    *)

SnapRows == [task : Tasks \cup {NoTask}, height : Nat, txs : Seq(Txs)]
TaskStatus == {"none", "assigned", "committed", "lapsed", "expired", "closed", "accepted"}
TaskRows == [status : TaskStatus, seed : BlockIds \cup {NoBlock}, snap : SnapRows]
ChainRows == [id : BlockIds, txs : Seq(Txs)]

ExecTyped ==
    /\ chain \in Seq(ChainRows)
    /\ tasks \in [Tasks -> TaskRows]
    /\ snapshots \in [Tasks -> SnapRows]

(* The task of a block on the chain is over. *)
MinedIsOver ==
    \A h \in 1..Height : chain[h].id \in Tasks => tasks[chain[h].id].status \in {"accepted", "closed"}

Owned(b, ts, ss) ==
    \A x \in Txs : b.rows[x].status = "selected" =>
        /\ b.rows[x].task \in Tasks
        /\ ts[b.rows[x].task].status \in Open
        /\ Contains(ss[b.rows[x].task].txs, x)

ExecInv == ExecTyped /\ Kept(books) /\ MinedIsOver /\ Owned(books, tasks, snapshots)
           /\ Carried(chain, books)

LEMMA HeightTyped == ExecTyped => Height \in Nat
  BY DEF ExecTyped, Height

LEMMA TipTyped == ExecTyped => Tip \in BlockIds \cup {NoBlock}
  <1> SUFFICES ASSUME ExecTyped, chain # << >>  PROVE chain[Height].id \in BlockIds
    BY DEF Tip
  <1>1. Height \in 1..Len(chain)
    BY DEF ExecTyped, Height
  <1>2. chain[Height] \in ChainRows
    BY <1>1 DEF ExecTyped
  <1> QED  BY <1>2 DEF ChainRows

LEMMA LoadedTyped == ExecTyped => \A t \in Tasks : Loaded(t) \in Seq(Txs)
  BY DEF ExecTyped, Loaded, TaskRows, SnapRows

LEMMA ExecInitially == Init => ExecInv
  <1> SUFFICES ASSUME Init  PROVE ExecInv
    OBVIOUS
  <1>1. NoSnap \in SnapRows
    BY DEF NoSnap, SnapRows
  <1>2. ExecTyped /\ MinedIsOver
    BY <1>1 DEF Init, ExecTyped, MinedIsOver, Height, TaskRows, TaskStatus
  <1>3. /\ DOMAIN books = Columns /\ books.rows = [x \in Txs |-> AbsentRow]
        /\ books.nonces = [w \in Wallets |-> 0] /\ books.rewards = << >>
    BY DEF Init, InitialBooks, Columns
  <1>4. Kept(books)
    BY <1>3, RowsTyped DEF Kept
  <1>5. \A x \in Txs : books.rows[x].status = "absent"
    BY <1>3 DEF AbsentRow
  <1>6. \A w \in Wallets : ConfirmedOf(books, w) = {}
    BY <1>5 DEF ConfirmedOf
  <1>7. MaxOr0({}) = 0
    BY MaxOr0Is
  <1>8. chain = << >> /\ 1..Len(chain) = {}
    BY DEF Init
  <1> QED  BY <1>2, <1>3, <1>4, <1>5, <1>6, <1>7, <1>8 DEF ExecInv, Owned, Carried

(* Only the mempool changes. *)
LEMMA MempoolStep ==
    ASSUME ExecInv, chain' = chain, tasks' = tasks, snapshots' = snapshots,
           Kept(books'), SameConfirmed(books, books'), NoNewOwners(books, books')
    PROVE  ExecInv'
  <1>1. Carried(chain, books')
    BY CarriedOver DEF ExecInv
  <1>2. Owned(books', tasks, snapshots)
    BY DEF ExecInv, Owned, NoNewOwners
  <1> QED  BY <1>1, <1>2 DEF ExecInv, ExecTyped, MinedIsOver, Height, Carried

(* One task that is not over changes, with its own transactions.           *)
LEMMA TaskStep ==
    ASSUME ExecInv, NEW t \in Tasks, tasks[t].status \notin {"accepted", "closed"},
           chain' = chain, NEW row \in TaskRows, tasks' = [tasks EXCEPT ![t] = row],
           snapshots' \in [Tasks -> SnapRows],
           Kept(books'), SameConfirmed(books, books'), Owned(books', tasks', snapshots')
    PROVE  ExecInv'
  <1>1. Carried(chain, books')
    BY CarriedOver DEF ExecInv
  <1>2. ExecTyped'
    BY DEF ExecInv, ExecTyped
  <1>3. MinedIsOver'
    BY DEF ExecInv, ExecTyped, MinedIsOver, Height
  <1> QED  BY <1>1, <1>2, <1>3 DEF ExecInv, Carried, Owned

LEMMA TaskEnds ==
    ASSUME ExecInv, NEW t \in Tasks, tasks[t].status \in Open, NEW status \in TaskStatus,
           chain' = chain, snapshots' = snapshots, tasks' = [tasks EXCEPT ![t].status = status],
           books' = Released(books, {t})
    PROVE  ExecInv'
  <1> DEFINE row == [tasks[t] EXCEPT !.status = status]
             b   == Released(books, {t})
  <1>1. tasks \in [Tasks -> TaskRows] /\ snapshots \in [Tasks -> SnapRows] /\ Kept(books)
    BY DEF ExecInv, ExecTyped
  <1>2. row \in TaskRows /\ tasks' = [tasks EXCEPT ![t] = row]
    BY <1>1 DEF TaskRows
  <1> HIDE DEF row
  <1>3. /\ Kept(b) /\ SameConfirmed(books, b) /\ NoNewOwners(books, b)
        /\ \A x \in Txs : b.rows[x].status = "selected" => b.rows[x].task # t
    BY <1>1, ReleasedKeeps
  <1>4. books' = b
    OBVIOUS
  <1> HIDE DEF b
  <1>5. Owned(books', tasks', snapshots')
    BY <1>1, <1>2, <1>3, <1>4 DEF ExecInv, Owned, NoNewOwners
  <1>6. tasks[t].status \notin {"accepted", "closed"}
    BY DEF Open
  <1> QED  BY <1>1, <1>2, <1>3, <1>4, <1>5, <1>6, TaskStep

(* A task freezes, or takes over what another task of the round has frozen. *)
LEMMA TaskFreezes ==
    ASSUME ExecInv, NEW t \in Tasks, tasks[t].status \in {"none", "lapsed"}, chain' = chain,
           NEW b, Kept(b), SameConfirmed(books, b), NoNewOwners(books, b), FreezeFor(t, b, "assigned")
    PROVE  ExecInv'
  <1>1. tasks \in [Tasks -> TaskRows] /\ snapshots \in [Tasks -> SnapRows]
    BY DEF ExecInv, ExecTyped
  <1>2. Height \in Nat /\ Tip \in BlockIds \cup {NoBlock}
    BY HeightTyped, TipTyped DEF ExecInv
  <1>3. tasks[t].status \notin {"accepted", "closed"} /\ tasks[t].status \notin Open
    BY DEF Open
  <1>4. Owned(b, tasks, snapshots) /\ \A x \in Txs : b.rows[x].status = "selected" => b.rows[x].task # t
    <2>1. Owned(b, tasks, snapshots)
      BY DEF ExecInv, Owned, NoNewOwners
    <2> QED  BY <1>3, <2>1 DEF Owned
  <1>5. CASE SharedSnaps(t, Tip) # {}
    <2>1. PICK s \in SharedSnaps(t, Tip) :
            /\ tasks' = [tasks EXCEPT ![t] = [status |-> "assigned", seed |-> Tip, snap |-> s]]
            /\ books' = b /\ snapshots' = snapshots
      BY <1>5 DEF FreezeFor
    <2> DEFINE row == [status |-> "assigned", seed |-> Tip, snap |-> s]
    <2>2. s \in SnapRows
      BY <1>1, <2>1 DEF SharedSnaps
    <2>3. row \in TaskRows
      BY <1>2, <2>2 DEF TaskRows, TaskStatus
    <2>4. tasks' = [tasks EXCEPT ![t] = row]
      BY <2>1
    <2> HIDE DEF row
    <2>5. Owned(books', tasks', snapshots')
      BY <1>1, <1>4, <2>1, <2>4 DEF Owned
    <2> QED  BY <1>1, <1>3, <2>1, <2>3, <2>4, <2>5, TaskStep
  <1>6. CASE SharedSnaps(t, Tip) = {}
    <2> DEFINE pick == Selection(b)
               own  == [task |-> t, height |-> Height + 1, txs |-> pick.txs]
               row  == [status |-> "assigned", seed |-> Tip, snap |-> own]
               c    == Frozen(b, pick, t)
    <2>1. /\ tasks' = [tasks EXCEPT ![t] = row] /\ snapshots' = [snapshots EXCEPT ![t] = own]
          /\ books' = c
      BY <1>6 DEF FreezeFor
    <2>2. pick \in Picks(b)
      BY SelectionPicks
    <2> HIDE DEF pick
    <2>3. pick.txs \in Seq(Txs)
      BY <2>2 DEF Picks, PendingOf
    <2>4. own \in SnapRows /\ own.txs = pick.txs
      BY <1>2, <2>3 DEF SnapRows
    <2> HIDE DEF own
    <2>5. row \in TaskRows /\ row.status \in Open
      BY <1>2, <2>4 DEF TaskRows, TaskStatus, Open
    <2> HIDE DEF row
    <2>6. /\ Kept(c) /\ SameConfirmed(b, c)
          /\ \A x \in Txs : c.rows[x].status = "selected" =>
                IF Contains(pick.txs, x) THEN c.rows[x].task = t
                ELSE b.rows[x].status = "selected" /\ c.rows[x].task = b.rows[x].task
      BY <2>2, FrozenKeeps
    <2> HIDE DEF c
    <2>7. ASSUME NEW x \in Txs, c.rows[x].status = "selected"
          PROVE  /\ c.rows[x].task \in Tasks
                 /\ tasks'[c.rows[x].task].status \in Open
                 /\ Contains(snapshots'[c.rows[x].task].txs, x)
      <3>1. CASE Contains(pick.txs, x)
        <4>1. c.rows[x].task = t
          BY <2>6, <2>7, <3>1
        <4>2. tasks'[t] = row /\ snapshots'[t] = own
          BY <1>1, <2>1
        <4> QED  BY <2>4, <2>5, <3>1, <4>1, <4>2
      <3>2. CASE ~Contains(pick.txs, x)
        <4>1. b.rows[x].status = "selected" /\ c.rows[x].task = b.rows[x].task
          BY <2>6, <2>7, <3>2
        <4>2. /\ c.rows[x].task \in Tasks /\ c.rows[x].task # t
              /\ tasks[c.rows[x].task].status \in Open
              /\ Contains(snapshots[c.rows[x].task].txs, x)
          BY <1>4, <4>1 DEF Owned
        <4> QED  BY <1>1, <2>1, <4>2
      <3> QED  BY <3>1, <3>2
    <2>8. Owned(books', tasks', snapshots')
      BY <2>1, <2>7 DEF Owned
    <2>9. SameConfirmed(books, c)
      BY <2>6 DEF SameConfirmed
    <2>10. snapshots' \in [Tasks -> SnapRows]
      BY <1>1, <2>1, <2>4
    <2> QED  BY <1>3, <2>1, <2>5, <2>6, <2>8, <2>9, <2>10, TaskStep
  <1> QED  BY <1>5, <1>6

LEMMA MempoolKeepsInv == ExecInv /\ MempoolNext => ExecInv'
  <1> SUFFICES ASSUME ExecInv, MempoolNext  PROVE ExecInv'
    OBVIOUS
  <1>1. Kept(books)
    BY DEF ExecInv
  <1>2. CASE ExpireMempool
    <2>1. books' = Expired(books) /\ UNCHANGED << chain, tasks, snapshots >>
      BY <1>2 DEF ExpireMempool
    <2> QED  BY <1>1, <2>1, ExpiredKeeps, MempoolStep
  <1>3. ASSUME NEW x \in Txs, SubmitTransaction(x)  PROVE ExecInv'
    <2>1. CanSubmit(books, x) /\ books' = Submitted(books, x) /\ UNCHANGED << chain, tasks, snapshots >>
      BY <1>3 DEF SubmitTransaction
    <2> QED  BY <1>1, <2>1, SubmittedKeeps, MempoolStep
  <1>4. ASSUME NEW x \in Txs, TtlPasses(x)  PROVE ExecInv'
    <2> DEFINE b == [books EXCEPT !.rows[x].late = TRUE]
    <2>1. books' = b /\ UNCHANGED << chain, tasks, snapshots >>
      BY <1>4 DEF TtlPasses
    <2>2. Kept(b) /\ SameConfirmed(books, b) /\ NoNewOwners(books, b)
      BY <1>1, AgedKeeps
    <2> HIDE DEF b
    <2> QED  BY <2>1, <2>2, MempoolStep
  <1> QED  BY <1>2, <1>3, <1>4 DEF MempoolNext

LEMMA TasksKeepInv == ExecInv /\ TasksNext => ExecInv'
  <1> SUFFICES ASSUME ExecInv, NEW t \in Tasks,
                      \/ NextTask(t) \/ CommitTask(t) \/ ExpireTask(t) \/ CloseTask(t)
                      \/ ReviveCommitted(t) \/ ReviveAssigned(t)
               PROVE  ExecInv'
    BY DEF TasksNext
  <1>1. /\ tasks \in [Tasks -> TaskRows] /\ snapshots \in [Tasks -> SnapRows] /\ Kept(books)
        /\ Owned(books, tasks, snapshots)
    BY DEF ExecInv, ExecTyped
  <1>2. SameConfirmed(books, books) /\ NoNewOwners(books, books)
    BY DEF SameConfirmed, NoNewOwners
  <1>3. ASSUME tasks[t].status \in {"assigned", "expired"}, books' = books, chain' = chain,
               snapshots' = snapshots, tasks' = [tasks EXCEPT ![t].status = "committed"]
        PROVE  ExecInv'
    <2> DEFINE row == [tasks[t] EXCEPT !.status = "committed"]
    <2>1. row \in TaskRows /\ row.status = "committed" /\ tasks' = [tasks EXCEPT ![t] = row]
      BY <1>1, <1>3 DEF TaskRows, TaskStatus
    <2> HIDE DEF row
    <2>2. Owned(books', tasks', snapshots')
      BY <1>1, <1>3, <2>1 DEF Owned, Open
    <2> QED  BY <1>1, <1>2, <1>3, <2>1, <2>2, TaskStep
  <1>4. CASE NextTask(t)
    <2>1. tasks[t].status = "none" /\ FreezeFor(t, books, "assigned") /\ chain' = chain
      BY <1>4 DEF NextTask
    <2> QED  BY <1>1, <1>2, <2>1, TaskFreezes
  <1>5. CASE CommitTask(t)
    BY <1>3, <1>5 DEF CommitTask
  <1>6. CASE ExpireTask(t)
    BY <1>6, TaskEnds DEF ExpireTask, Ended, Open, TaskStatus
  <1>7. CASE CloseTask(t)
    BY <1>7, TaskEnds DEF CloseTask, Ended, Open, TaskStatus
  <1>8. CASE ReviveCommitted(t)
    BY <1>3, <1>8 DEF ReviveCommitted
  <1>9. CASE ReviveAssigned(t)
    <2> DEFINE b == Released(books, {t})
    <2>1. tasks[t].status = "lapsed" /\ FreezeFor(t, b, "assigned") /\ chain' = chain
      BY <1>9 DEF ReviveAssigned
    <2>2. Kept(b) /\ SameConfirmed(books, b) /\ NoNewOwners(books, b)
      BY <1>1, ReleasedKeeps
    <2> HIDE DEF b
    <2> QED  BY <2>1, <2>2, TaskFreezes
  <1> QED  BY <1>4, <1>5, <1>6, <1>7, <1>8, <1>9

LEMMA AcceptKeepsInv == ASSUME ExecInv, NEW t \in Tasks, AcceptBlock(t)  PROVE ExecInv'
  <1> DEFINE txs  == Loaded(t)
             n    == Height + 1
             done == LocalBlock(t).books
             b    == Released(done, Rivalry(t))
             blk  == [id |-> t, txs |-> txs]
  <1>1. /\ tasks \in [Tasks -> TaskRows] /\ snapshots \in [Tasks -> SnapRows] /\ Kept(books)
        /\ Owned(books, tasks, snapshots) /\ Carried(chain, books) /\ chain \in Seq(ChainRows)
        /\ Height \in Nat /\ Height = Len(chain) /\ ExecTyped
    BY HeightTyped DEF ExecInv, ExecTyped, Height
  <1>2. /\ tasks[t].status = "committed"
        /\ chain' = Append(chain, blk) /\ books' = b /\ snapshots' = snapshots
        /\ tasks' = [u \in Tasks |-> IF u = t THEN [tasks[u] EXCEPT !.status = "accepted"]
                                     ELSE IF u \in Rivalry(t)
                                     THEN [tasks[u] EXCEPT !.status = "closed"] ELSE tasks[u]]
        /\ LocalBlock(t).ok
    BY DEF AcceptBlock, Finalizable
  <1>3. txs \in Seq(Txs) /\ t \in BlockIds
    BY <1>1, LoadedTyped DEF BlockIds
  <1>4. Advanced(books, done, ToSet(txs), n)
    <2> HIDE DEF txs
    <2>1. LocalBlock(t) = Block(books, txs, Miner[t], n, t, quarter, FALSE)
      BY DEF LocalBlock, txs
    <2>2. n \in Nat
      BY <1>1
    <2> HIDE DEF n
    <2> QED  BY <1>1, <1>2, <1>3, <2>1, <2>2, BlockAdvances DEF done
  <1>5. \A x \in Txs : Contains(snapshots[t].txs, x) => x \in ToSet(txs)
    <2>1. snapshots[t] = NoSnap => \A x : ~Contains(snapshots[t].txs, x)
      BY DEF NoSnap, Contains
    <2>2. snapshots[t] # NoSnap => txs = snapshots[t].txs
      BY DEF Loaded
    <2>3. \A x : Contains(txs, x) => x \in ToSet(txs)
      <3> HIDE DEF txs
      <3> QED  BY <1>3 DEF Contains, ToSet
    <2> HIDE DEF txs
    <2> QED  BY <2>1, <2>2, <2>3
  <1> HIDE DEF txs, done
  <1>6. Kept(done)
    BY <1>4 DEF Advanced
  <1>7. NoNewOwners(books, done) /\ \A x \in Txs \cap ToSet(txs) : done.rows[x].status = "confirmed"
    <2> DEFINE D == ToSet(txs)
    <2>1. Advanced(books, done, D, n)
      BY <1>4
    <2> HIDE DEF D
    <2>2. NoNewOwners(books, done) /\ \A x \in Txs \cap D : done.rows[x].status = "confirmed"
      BY <1>1, <2>1, AdvancedOwners
    <2> QED  BY <2>2 DEF D
  <1>8. /\ Kept(b) /\ SameConfirmed(done, b) /\ NoNewOwners(done, b)
        /\ \A x \in Txs : b.rows[x].status = "selected" => b.rows[x].task \notin Rivalry(t)
    BY <1>6, ReleasedKeeps
  <1> HIDE DEF b
  <1>9. blk \in ChainRows /\ blk.txs = txs /\ blk.id = t
    BY <1>3 DEF ChainRows
  <1> HIDE DEF blk
  <1>10. /\ chain' \in Seq(ChainRows) /\ Len(chain') = n /\ chain'[n] = blk
         /\ \A h \in 1..Height : chain'[h] = chain[h]
    BY <1>1, <1>2, <1>9
  <1>11. Carried(chain', books')
    <2>1. Carried(chain', done)
      BY <1>1, <1>3, <1>4, <1>9, <1>10, CarriedByBlock
    <2> QED  BY <1>2, <1>8, <2>1, CarriedOver
  <1>12. ExecTyped'
    <2>1. tasks' \in [Tasks -> TaskRows]
      BY <1>1, <1>2 DEF TaskRows, TaskStatus
    <2> QED  BY <1>1, <1>2, <1>10, <2>1 DEF ExecTyped
  <1>13. \A u \in Tasks : /\ u = t => tasks'[u].status = "accepted"
                          /\ u \in Rivalry(t) /\ u # t => tasks'[u].status = "closed"
                          /\ u \notin Rivalry(t) /\ u # t => tasks'[u] = tasks[u]
    BY <1>1, <1>2 DEF TaskRows
  <1>14. MinedIsOver'
    <2> SUFFICES ASSUME NEW h \in 1..n, chain'[h].id \in Tasks
                 PROVE  tasks'[chain'[h].id].status \in {"accepted", "closed"}
      BY <1>10 DEF MinedIsOver, Height
    <2>1. CASE h = n
      BY <1>9, <1>10, <1>13, <2>1
    <2>2. CASE h # n
      <3>1. h \in 1..Height /\ chain'[h] = chain[h]
        BY <1>1, <1>10, <2>2
      <3>2. tasks[chain[h].id].status \in {"accepted", "closed"}
        BY <3>1 DEF ExecInv, MinedIsOver
      <3> QED  BY <1>13, <3>1, <3>2
    <2> QED  BY <2>1, <2>2
  <1>15. Owned(books', tasks', snapshots')
    <2> SUFFICES ASSUME NEW x \in Txs, b.rows[x].status = "selected"
                 PROVE  /\ b.rows[x].task \in Tasks
                        /\ tasks'[b.rows[x].task].status \in Open
                        /\ Contains(snapshots[b.rows[x].task].txs, x)
      BY <1>2 DEF Owned
    <2>1. done.rows[x].status = "selected" /\ b.rows[x].task = done.rows[x].task
      BY <1>8 DEF NoNewOwners
    <2>2. books.rows[x].status = "selected" /\ b.rows[x].task = books.rows[x].task
      BY <1>7, <2>1 DEF NoNewOwners
    <2>3. /\ b.rows[x].task \in Tasks /\ tasks[b.rows[x].task].status \in Open
          /\ Contains(snapshots[b.rows[x].task].txs, x)
      BY <1>1, <2>2 DEF Owned
    <2>4. b.rows[x].task # t
      BY <1>5, <1>7, <2>1, <2>3
    <2>5. b.rows[x].task \notin Rivalry(t)
      BY <1>8
    <2> QED  BY <1>13, <2>3, <2>4, <2>5
  <1> QED  BY <1>2, <1>8, <1>11, <1>12, <1>14, <1>15 DEF ExecInv, Carried

LEMMA ForeignIsNoTask == \A f \in Foreign : f \in BlockIds /\ f \notin Tasks /\ Payload[f] \in Seq(Txs)
  BY BlocksAssumption DEF BlockIds

LEMMA ImportKeepsInv == ASSUME ExecInv, NEW f \in Foreign, Import(f)  PROVE ExecInv'
  <1> DEFINE n   == Height + 1
             b   == Imported(books, f, n)
             e   == Ensured(books, Payload[f])
             blk == NewBlock(f)
  <1>1. /\ Kept(books) /\ Owned(books, tasks, snapshots) /\ Carried(chain, books)
        /\ chain \in Seq(ChainRows) /\ Height \in Nat /\ Height = Len(chain)
    BY HeightTyped DEF ExecInv, ExecTyped, Height
  <1>2. /\ Buildable(books, f, n) /\ books' = b /\ chain' = Append(chain, blk)
        /\ tasks' = tasks /\ snapshots' = snapshots
    BY DEF Import
  <1>3. n \in Nat
    BY <1>1
  <1>4. /\ Kept(e) /\ Carried(chain, e) /\ Advanced(e, b, ToSet(Payload[f]), n)
        /\ Kept(b) /\ NoNewOwners(books, b)
    <2> HIDE DEF n
    <2> QED  BY <1>1, <1>2, <1>3, ForeignAdvances
  <1> HIDE DEF b, e
  <1>5. blk \in ChainRows /\ blk.txs = Payload[f] /\ blk.id = f
    BY ForeignIsNoTask DEF NewBlock, ChainRows
  <1> HIDE DEF blk
  <1>6. /\ chain' \in Seq(ChainRows) /\ Len(chain') = n /\ chain'[n] = blk
        /\ \A h \in 1..Height : chain'[h] = chain[h]
    BY <1>1, <1>2, <1>5
  <1>7. Carried(chain', b)
    BY <1>1, <1>4, <1>5, <1>6, ForeignIsNoTask, CarriedByBlock
  <1>8. MinedIsOver'
    <2> SUFFICES ASSUME NEW h \in 1..n, chain'[h].id \in Tasks
                 PROVE  tasks[chain'[h].id].status \in {"accepted", "closed"}
      BY <1>2, <1>6 DEF MinedIsOver, Height
    <2>1. h # n
      BY <1>5, <1>6, ForeignIsNoTask
    <2>2. h \in 1..Height /\ chain'[h] = chain[h]
      BY <1>1, <1>6, <2>1
    <2> QED  BY <2>2 DEF ExecInv, MinedIsOver
  <1>9. Owned(b, tasks, snapshots)
    BY <1>1, <1>4 DEF Owned, NoNewOwners
  <1>10. ExecTyped'
    BY <1>2, <1>6 DEF ExecInv, ExecTyped
  <1> QED  BY <1>2, <1>4, <1>7, <1>8, <1>9, <1>10 DEF ExecInv, Carried, Owned

LEMMA ReorgKeepsInv == ASSUME ExecInv, NEW p \in Foreign, NEW f \in Foreign, Reorg(p, f)  PROVE ExecInv'
  <1> DEFINE n      == Height
             below  == WithoutBlock(books, n)
             branch == Imported(below, p, n)
             b      == Imported(branch, f, n + 1)
             e      == Ensured(below, Payload[p])
             e2     == Ensured(branch, Payload[f])
             s0     == SubSeq(chain, 1, n - 1)
             s1     == Append(s0, NewBlock(p))
             s2     == Append(s1, NewBlock(f))
  <1>1. /\ Kept(books) /\ Owned(books, tasks, snapshots) /\ Carried(chain, books)
        /\ chain \in Seq(ChainRows) /\ Height \in Nat /\ Height = Len(chain)
        /\ tasks \in [Tasks -> TaskRows] /\ snapshots \in [Tasks -> SnapRows]
    BY HeightTyped DEF ExecInv, ExecTyped, Height
  <1>2. /\ n > 0 /\ Buildable(below, p, n) /\ Buildable(branch, f, n + 1)
        /\ books' = b /\ snapshots' = snapshots
        /\ chain' = s0 \o << NewBlock(p), NewBlock(f) >>
        /\ tasks' = [t \in Tasks |-> IF t = Tip THEN [tasks[t] EXCEPT !.status = "closed"]
                                     ELSE tasks[t]]
    BY DEF Reorg
  <1>3. /\ s0 \in Seq(ChainRows) /\ Len(s0) = n - 1 /\ \A h \in 1..(n - 1) : s0[h] = chain[h]
    BY <1>1, <1>2
  <1> HIDE DEF s0
  <1>4. /\ NewBlock(p) \in ChainRows /\ NewBlock(p).txs = Payload[p] /\ NewBlock(p).id = p
        /\ NewBlock(f) \in ChainRows /\ NewBlock(f).txs = Payload[f] /\ NewBlock(f).id = f
    BY ForeignIsNoTask DEF NewBlock, ChainRows
  <1>5. /\ s1 \in Seq(ChainRows) /\ Len(s1) = n /\ s1[n] = NewBlock(p)
        /\ \A h \in 1..(n - 1) : s1[h] = s0[h]
    BY <1>1, <1>2, <1>3, <1>4
  <1>6. chain' = s2
    BY <1>2, <1>3, <1>4
  <1> HIDE DEF s1
  <1>7. /\ s2 \in Seq(ChainRows) /\ Len(s2) = n + 1 /\ s2[n + 1] = NewBlock(f)
        /\ \A h \in 1..n : s2[h] = s1[h]
    BY <1>1, <1>4, <1>5
  <1> HIDE DEF s2
  <1>8. Kept(below) /\ Carried(s0, below) /\ NoNewOwners(books, below)
    <2>1. Len(chain) \in Nat \ {0} /\ Len(s0) = Len(chain) - 1 /\ \A h \in 1..Len(s0) : s0[h] = chain[h]
      BY <1>1, <1>2, <1>3
    <2> HIDE DEF below
    <2>2. below = WithoutBlock(books, Len(chain))
      BY <1>1 DEF below
    <2> QED  BY <1>1, <2>1, <2>2, UndoneKeeps
  <1> HIDE DEF below
  <1>9. /\ Kept(e) /\ Carried(s0, e) /\ Advanced(e, branch, ToSet(Payload[p]), n)
        /\ Kept(branch) /\ NoNewOwners(below, branch)
    BY <1>1, <1>2, <1>8, ForeignAdvances
  <1> HIDE DEF branch, e
  <1>10. Carried(s1, branch)
    <2>1. /\ Len(s0) \in Nat /\ Len(s0) + 1 = n /\ Len(s1) = Len(s0) + 1
          /\ \A h \in 1..Len(s0) : s1[h] = s0[h]
          /\ s1[Len(s0) + 1].txs = Payload[p]
      BY <1>1, <1>2, <1>3, <1>4, <1>5
    <2>2. Advanced(e, branch, ToSet(Payload[p]), Len(s0) + 1)
      BY <1>9, <2>1
    <2>3. Payload[p] \in Seq(Txs)
      BY ForeignIsNoTask
    <2> QED  BY <1>9, <2>1, <2>2, <2>3, CarriedByBlock
  <1>11. /\ Kept(e2) /\ Carried(s1, e2) /\ Advanced(e2, b, ToSet(Payload[f]), n + 1)
         /\ Kept(b) /\ NoNewOwners(branch, b)
    <2> DEFINE m == n + 1
    <2>1. m \in Nat /\ Buildable(branch, f, m)
      BY <1>1, <1>2
    <2> HIDE DEF m
    <2>2. /\ Kept(e2) /\ Carried(s1, e2) /\ Advanced(e2, Imported(branch, f, m), ToSet(Payload[f]), m)
          /\ Kept(Imported(branch, f, m)) /\ NoNewOwners(branch, Imported(branch, f, m))
      BY <1>9, <1>10, <2>1, ForeignAdvances
    <2> QED  BY <2>2 DEF m
  <1> HIDE DEF b, e2
  <1>12. Carried(s2, b)
    <2>1. /\ Len(s1) \in Nat /\ Len(s1) + 1 = n + 1 /\ Len(s2) = Len(s1) + 1
          /\ \A h \in 1..Len(s1) : s2[h] = s1[h]
          /\ s2[Len(s1) + 1].txs = Payload[f]
      BY <1>1, <1>4, <1>5, <1>7
    <2>2. Advanced(e2, b, ToSet(Payload[f]), Len(s1) + 1)
      BY <1>11, <2>1
    <2>3. Payload[f] \in Seq(Txs)
      BY ForeignIsNoTask
    <2> QED  BY <1>11, <2>1, <2>2, <2>3, CarriedByBlock
  <1>13. \A t \in Tasks : IF t = Tip THEN tasks'[t].status = "closed" ELSE tasks'[t] = tasks[t]
    BY <1>1, <1>2 DEF TaskRows
  <1>14. MinedIsOver'
    <2> SUFFICES ASSUME NEW h \in 1..(n + 1), s2[h].id \in Tasks
                 PROVE  tasks'[s2[h].id].status \in {"accepted", "closed"}
      BY <1>6, <1>7 DEF MinedIsOver, Height
    <2>1. h # n /\ h # n + 1
      <3>1. s2[n].id = p /\ s2[n + 1].id = f
        <4>1. n \in 1..n
          BY <1>1, <1>2
        <4> QED  BY <1>4, <1>5, <1>7, <4>1
      <3> HIDE DEF n
      <3> QED  BY <3>1, ForeignIsNoTask
    <2>2. h \in 1..(n - 1) /\ s2[h] = chain[h]
      BY <1>1, <1>3, <1>5, <1>7, <2>1
    <2>3. tasks[chain[h].id].status \in {"accepted", "closed"}
      BY <1>1, <2>2 DEF ExecInv, MinedIsOver
    <2> QED  BY <1>13, <2>2, <2>3
  <1>15. NoNewOwners(books, b)
    BY <1>8, <1>9, <1>11, OwnersBetween
  <1>16. Owned(b, tasks', snapshots)
    <2> SUFFICES ASSUME NEW x \in Txs, b.rows[x].status = "selected"
                 PROVE  /\ b.rows[x].task \in Tasks
                        /\ tasks'[b.rows[x].task].status \in Open
                        /\ Contains(snapshots[b.rows[x].task].txs, x)
      BY DEF Owned
    <2>1. /\ b.rows[x].task \in Tasks /\ tasks[b.rows[x].task].status \in Open
          /\ Contains(snapshots[b.rows[x].task].txs, x)
      BY <1>1, <1>15 DEF Owned, NoNewOwners
    <2>2. Tip \in Tasks => tasks[Tip].status \in {"accepted", "closed"}
      <3>1. Tip = chain[n].id /\ n \in 1..Height
        BY <1>1, <1>2 DEF Tip
      <3> QED  BY <3>1 DEF ExecInv, MinedIsOver
    <2>3. b.rows[x].task # Tip
      BY <2>1, <2>2 DEF Open
    <2> QED  BY <1>13, <2>1, <2>3
  <1>17. ExecTyped'
    <2>1. tasks' \in [Tasks -> TaskRows]
      BY <1>1, <1>2 DEF TaskRows, TaskStatus
    <2> QED  BY <1>1, <1>2, <1>6, <1>7, <2>1 DEF ExecTyped
  <1> QED  BY <1>2, <1>6, <1>11, <1>12, <1>14, <1>16, <1>17 DEF ExecInv, Carried, Owned

LEMMA TreasuryKeepsInv == ExecInv /\ TreasuryNext => ExecInv'
  <1> SUFFICES ASSUME ExecInv, TreasuryNext  PROVE ExecInv'
    OBVIOUS
  <1>1. Kept(books)
    BY DEF ExecInv
  <1>2. SameConfirmed(books, books) /\ NoNewOwners(books, books)
    BY DEF SameConfirmed, NoNewOwners
  <1>3. \A b : Alike(books, b) => Kept(b) /\ SameConfirmed(books, b) /\ NoNewOwners(books, b)
    BY <1>1, <1>2, AlikeKept DEF Alike, SameRows, SameConfirmed, NoNewOwners
  <1>4. \A past : Alike(books, Unlocked(books, past))
    BY <1>1 DEF Unlocked, Alike, SameRows, Kept, Columns
  <1>5. ASSUME NEW b, Alike(books, b)  PROVE Alike(books, Claimed(b))
    <2> DEFINE debit == Pay(b, "treasury_claim", Treasury, -b.fund.unlocked, NoHeight, "claim")
               both  == Pay(debit, "treasury_claim", Claimant, b.fund.unlocked, NoHeight, "claim")
    <2>1. Alike(b, debit)
      BY <1>5, PayKeeps DEF Alike, SameRows
    <2> HIDE DEF debit
    <2>2. Alike(debit, both)
      BY <2>1, PayKeeps DEF Alike, SameRows
    <2> HIDE DEF both
    <2>3. Alike(both, Claimed(b))
      <3>1. DOMAIN both = Columns
        BY <2>2 DEF Alike, SameRows
      <3> QED  BY <3>1 DEF Claimed, Alike, SameRows, Columns, debit, both
    <2> QED  BY <1>5, <2>1, <2>2, <2>3 DEF Alike, SameRows
  <1>6. CASE NextQuarter
    BY <1>1, <1>2, <1>6, MempoolStep DEF NextQuarter
  <1>7. ASSUME NEW past \in SUBSET Quarters, UnlockTreasury(past)  PROVE ExecInv'
    BY <1>3, <1>4, <1>7, MempoolStep DEF UnlockTreasury
  <1>8. ASSUME NEW past \in SUBSET Quarters, ClaimTreasury(past)  PROVE ExecInv'
    <2> DEFINE b == Claimed(Unlocked(books, past))
    <2>1. books' = b /\ UNCHANGED << chain, tasks, snapshots >>
      BY <1>8 DEF ClaimTreasury
    <2>2. Alike(books, b)
      BY <1>4, <1>5
    <2> HIDE DEF b
    <2> QED  BY <1>3, <2>1, <2>2, MempoolStep
  <1> QED  BY <1>6, <1>7, <1>8 DEF TreasuryNext

LEMMA ChainKeepsInv == ExecInv /\ ChainNext => ExecInv'
  <1> SUFFICES ASSUME ExecInv, ChainNext  PROVE ExecInv'
    OBVIOUS
  <1>1. ASSUME NEW t \in Tasks, AcceptBlock(t)  PROVE ExecInv'
    BY <1>1, AcceptKeepsInv
  <1>2. ASSUME NEW t \in Tasks, AcceptFails(t)  PROVE ExecInv'
    BY <1>2, TaskEnds DEF AcceptFails, Ended, Open, TaskStatus
  <1>3. ASSUME NEW f \in Foreign, Import(f)  PROVE ExecInv'
    BY <1>3, ImportKeepsInv
  <1>4. ASSUME NEW f \in Foreign, NEW g \in Foreign, Reorg(f, g)  PROVE ExecInv'
    BY <1>4, ReorgKeepsInv
  <1>5. ASSUME NEW keep \in BOOLEAN, ForceRetarget(keep)  PROVE ExecInv'
    <2>1. Kept(books) /\ SameConfirmed(books, books) /\ NoNewOwners(books, books)
      BY DEF ExecInv, SameConfirmed, NoNewOwners
    <2> QED  BY <1>5, <2>1, MempoolStep DEF ForceRetarget
  <1> QED  BY <1>1, <1>2, <1>3, <1>4, <1>5 DEF ChainNext

LEMMA ExecStep == ExecInv /\ [Next]_vars => ExecInv'
  <1> SUFFICES ASSUME ExecInv, [Next]_vars  PROVE ExecInv'
    OBVIOUS
  <1>1. CASE UNCHANGED vars
    BY <1>1 DEF vars, ExecInv, ExecTyped, MinedIsOver, Height, Owned, Carried
  <1>2. CASE Next
    BY <1>2, MempoolKeepsInv, TasksKeepInv, ChainKeepsInv, TreasuryKeepsInv DEF Next
  <1> QED  BY <1>1, <1>2

LEMMA ExecAlways == Spec => []ExecInv
  <1>1. Init => ExecInv
    BY ExecInitially
  <1>2. ExecInv /\ [Next]_vars => ExecInv'
    BY ExecStep
  <1> QED  BY <1>1, <1>2, PTL DEF Spec

(* A row of the mempool is confirmed at a height iff the block there carries *)
(* it, and a nonce is the last confirmed one of its account, whatever blocks *)
(* were mined, imported or taken back: ConfirmedIsOnChain for every set of   *)
(* transactions, wallets, tasks and blocks.                                 *)
THEOREM BooksFollowTheChain == Spec => []ConfirmedIsOnChain
  <1>1. ExecInv => ConfirmedIsOnChain
    BY CarriedIsConfirmed DEF ExecInv
  <1> QED  BY <1>1, ExecAlways, PTL

(* No transaction stays reserved for a task that expired, was closed or was  *)
(* mined, or that never froze it: SelectedHasOwner in every instance.       *)
THEOREM SelectionsAreOwned == Spec => []SelectedHasOwner
  <1>1. ExecInv => SelectedHasOwner
    BY DEF ExecInv, Owned, SelectedHasOwner
  <1> QED  BY <1>1, ExecAlways, PTL

-------------------------------------------------------------------------------
(* Sums over a sequence: the running sums exist, each is the one before it *)
(* and the next amount.                                                    *)

SumFcn(w) == CHOOSE u : u = [i \in 0..Len(w) |-> IF i = 0 THEN 0 ELSE u[i - 1] + w[i]]

LEMMA SumIsFcn == \A w : SumSeq(w) = SumFcn(w)[Len(w)]
  BY DEF SumSeq, SumFcn

IsSum(w, u, m) ==
    u[0] = 0 /\ \A i \in 1..Len(w) : i <= m => u[i] = u[i - 1] + w[i]

LEMMA SumsUpTo ==
    ASSUME NEW w, Len(w) \in Nat, NEW m \in Nat
    PROVE  \E u : IsSum(w, u, m)
  <1> DEFINE Bad == {k \in Nat : ~ \E u : IsSum(w, u, k)}
  <1> SUFFICES ASSUME Bad # {}  PROVE FALSE
    OBVIOUS
  <1>1. PICK k \in Bad : \A j \in Bad : k <= j
    <2>1. Bad \in SUBSET Nat
      OBVIOUS
    <2> HIDE DEF Bad
    <2> QED  BY <2>1, SmallestNat
  <1>2. CASE k = 0
    <2>1. IsSum(w, [i \in 0..Len(w) |-> 0], 0)
      BY DEF IsSum
    <2> QED  BY <1>1, <1>2, <2>1
  <1>3. CASE k # 0
    <2>1. k \in Nat /\ k - 1 \in Nat /\ k - 1 \notin Bad
      <3>1. Bad \in SUBSET Nat
        OBVIOUS
      <3> HIDE DEF Bad
      <3> QED  BY <1>1, <1>3, <3>1
    <2>2. PICK v : IsSum(w, v, k - 1)
      BY <2>1
    <2> DEFINE u == [i \in 0..Len(w) |-> IF i < k THEN v[i] ELSE v[k - 1] + w[k]]
    <2>3. u[0] = 0
      BY <2>1, <1>3, <2>2 DEF IsSum
    <2>4. ASSUME NEW i \in 1..Len(w), i <= k  PROVE u[i] = u[i - 1] + w[i]
      <3>1. CASE i < k
        <4>1. i <= k - 1 /\ i - 1 < k /\ i \in 0..Len(w) /\ i - 1 \in 0..Len(w)
          BY <2>1, <3>1
        <4> QED  BY <2>2, <3>1, <4>1 DEF IsSum
      <3>2. CASE ~(i < k)
        BY <2>1, <2>4, <3>2
      <3> QED  BY <3>1, <3>2
    <2> HIDE DEF u
    <2>5. IsSum(w, u, k)
      BY <2>3, <2>4 DEF IsSum
    <2> QED  BY <1>1, <2>5
  <1> QED  BY <1>2, <1>3

LEMMA SumRuns ==
    ASSUME NEW w, Len(w) \in Nat
    PROVE  \E u : /\ u[0] = 0 /\ \A i \in 1..Len(w) : u[i] = u[i - 1] + w[i]
                  /\ SumSeq(w) = u[Len(w)]
  <1>1. PICK v : IsSum(w, v, Len(w))
    BY SumsUpTo
  <1> DEFINE u == [i \in 0..Len(w) |-> v[i]]
             F(f) == [i \in 0..Len(w) |-> IF i = 0 THEN 0 ELSE f[i - 1] + w[i]]
  <1>2. u = F(u)
    <2>1. ASSUME NEW i \in 0..Len(w)  PROVE u[i] = F(u)[i]
      <3>1. CASE i = 0
        BY <1>1, <3>1 DEF IsSum
      <3>2. CASE i # 0
        <4>1. i \in 1..Len(w) /\ i <= Len(w) /\ i - 1 \in 0..Len(w)
          BY <3>2
        <4> QED  BY <1>1, <3>2, <4>1 DEF IsSum
      <3> QED  BY <3>1, <3>2
    <2> QED  BY <2>1
  <1>3. SumFcn(w) = F(SumFcn(w))
    <2> HIDE DEF u
    <2> QED  BY <1>2 DEF SumFcn
  <1> DEFINE g == SumFcn(w)
  <1>4. g[0] = 0
    <2>1. 0 \in 0..Len(w)
      OBVIOUS
    <2> HIDE DEF g
    <2> QED  BY <1>3, <2>1 DEF g
  <1>5. ASSUME NEW i \in 1..Len(w)  PROVE g[i] = g[i - 1] + w[i]
    <2>1. i \in 0..Len(w) /\ i # 0
      OBVIOUS
    <2> HIDE DEF g
    <2> QED  BY <1>3, <2>1 DEF g
  <1> HIDE DEF g
  <1> QED  BY <1>4, <1>5, SumIsFcn DEF g

LEMMA SumRunsTo ==
    ASSUME NEW w, NEW n \in Nat, Len(w) = n
    PROVE  \E u : /\ u[0] = 0 /\ \A i \in 1..n : u[i] = u[i - 1] + w[i]
                  /\ SumSeq(w) = u[n]
  BY SumRuns

LEMMA RunIsInt ==
    ASSUME NEW w \in Seq(Int), NEW u, u[0] = 0, \A i \in 1..Len(w) : u[i] = u[i - 1] + w[i]
    PROVE  \A i \in 0..Len(w) : u[i] \in Int
  <1> DEFINE Bad == {i \in 0..Len(w) : u[i] \notin Int}
  <1> SUFFICES ASSUME Bad # {}  PROVE FALSE
    OBVIOUS
  <1>1. PICK i \in Bad : \A j \in Bad : i <= j
    <2>1. Bad \in SUBSET Nat
      OBVIOUS
    <2> HIDE DEF Bad
    <2> QED  BY <2>1, SmallestNat
  <1>2. i \in 1..Len(w) /\ i - 1 \in 0..Len(w)
    BY <1>1
  <1>3. i - 1 \notin Bad
    <2>1. ~(i <= i - 1)
      BY <1>2
    <2> HIDE DEF Bad
    <2> QED  BY <1>1, <2>1
  <1>4. u[i - 1] \in Int /\ w[i] \in Int
    BY <1>2, <1>3
  <1> QED  BY <1>1, <1>2, <1>4

LEMMA SeqSumIsInt ==
    ASSUME NEW w \in Seq(Int)
    PROVE  SumSeq(w) \in Int
  <1>1. PICK u : /\ u[0] = 0 /\ \A i \in 1..Len(w) : u[i] = u[i - 1] + w[i]
                 /\ SumSeq(w) = u[Len(w)]
    BY SumRuns
  <1>2. Len(w) \in 0..Len(w)
    OBVIOUS
  <1>3. \A i \in 0..Len(w) : u[i] \in Int
    BY <1>1, RunIsInt
  <1> QED  BY <1>1, <1>2, <1>3

(* Two runs whose amounts are related are related at their ends.            *)
LEMMA SumAppends ==
    ASSUME NEW w \in Seq(Int), NEW n \in Int
    PROVE  SumSeq(Append(w, n)) = SumSeq(w) + n
  <1> DEFINE v == Append(w, n)
  <1>1. /\ v \in Seq(Int) /\ Len(v) = Len(w) + 1 /\ v[Len(w) + 1] = n
        /\ \A i \in 1..Len(w) : v[i] = w[i]
    OBVIOUS
  <1> HIDE DEF v
  <1>2. PICK u : /\ u[0] = 0 /\ \A i \in 1..Len(w) : u[i] = u[i - 1] + w[i]
                 /\ SumSeq(w) = u[Len(w)]
    BY SumRuns
  <1>3. PICK t : /\ t[0] = 0 /\ \A i \in 1..(Len(w) + 1) : t[i] = t[i - 1] + v[i]
                 /\ SumSeq(v) = t[Len(w) + 1]
    <2>1. Len(w) + 1 \in Nat
      OBVIOUS
    <2> QED  BY <1>1, <2>1, SumRunsTo
  <1> DEFINE Bad == {i \in 0..Len(w) : u[i] # t[i]}
  <1>4. Bad = {}
    <2> SUFFICES ASSUME Bad # {}  PROVE FALSE
      OBVIOUS
    <2>1. PICK i \in Bad : \A j \in Bad : i <= j
      <3>1. Bad \in SUBSET Nat
        OBVIOUS
      <3> HIDE DEF Bad
      <3> QED  BY <3>1, SmallestNat
    <2>2. i \in 1..Len(w) /\ i - 1 \in 0..Len(w)
      BY <1>2, <1>3, <2>1
    <2>3. i - 1 \notin Bad
      <3>1. ~(i <= i - 1)
        BY <2>2
      <3> HIDE DEF Bad
      <3> QED  BY <2>1, <3>1
    <2>4. u[i - 1] = t[i - 1] /\ v[i] = w[i] /\ i \in 1..(Len(w) + 1)
      BY <1>1, <2>2, <2>3
    <2> QED  BY <1>2, <1>3, <2>1, <2>2, <2>4
  <1>5. u[Len(w)] = t[Len(w)] /\ Len(w) + 1 \in 1..(Len(w) + 1)
    BY <1>4
  <1>6. t[Len(w) + 1] = t[(Len(w) + 1) - 1] + n /\ (Len(w) + 1) - 1 = Len(w)
    BY <1>1, <1>3, <1>5
  <1> QED  BY <1>1, <1>2, <1>3, <1>5, <1>6 DEF v

(* Sums of related amounts: one more lemma for what is added at each index. *)
LEMMA SumAdds ==
    ASSUME NEW w \in Seq(Int), NEW v \in Seq(Int), NEW x \in Seq(Int),
           Len(v) = Len(w), Len(x) = Len(w), \A i \in 1..Len(w) : x[i] = w[i] + v[i]
    PROVE  SumSeq(x) = SumSeq(w) + SumSeq(v)
  <1> DEFINE n == Len(w)
  <1>0. n \in Nat /\ Len(v) = n /\ Len(x) = n /\ Len(w) = n
    OBVIOUS
  <1> HIDE DEF n
  <1>1. PICK u : /\ u[0] = 0 /\ \A i \in 1..n : u[i] = u[i - 1] + w[i]
                 /\ SumSeq(w) = u[n]
    BY <1>0, SumRunsTo
  <1>2. PICK t : /\ t[0] = 0 /\ \A i \in 1..n : t[i] = t[i - 1] + v[i]
                 /\ SumSeq(v) = t[n]
    BY <1>0, SumRunsTo
  <1>3. PICK y : /\ y[0] = 0 /\ \A i \in 1..n : y[i] = y[i - 1] + x[i]
                 /\ SumSeq(x) = y[n]
    BY <1>0, SumRunsTo
  <1>4. \A i \in 0..n : u[i] \in Int /\ t[i] \in Int
    <2>1. \A i \in 0..Len(w) : u[i] \in Int
      BY <1>0, <1>1, RunIsInt
    <2>2. \A i \in 0..Len(v) : t[i] \in Int
      BY <1>0, <1>2, RunIsInt
    <2> QED  BY <1>0, <2>1, <2>2
  <1> DEFINE Bad == {i \in 0..n : y[i] # u[i] + t[i]}
  <1>5. Bad = {}
    <2> SUFFICES ASSUME Bad # {}  PROVE FALSE
      OBVIOUS
    <2>1. PICK i \in Bad : \A j \in Bad : i <= j
      <3>1. Bad \in SUBSET Nat
        BY <1>0
      <3> HIDE DEF Bad
      <3> QED  BY <3>1, SmallestNat
    <2>2. i \in 1..n /\ i - 1 \in 0..n
      BY <1>0, <1>1, <1>2, <1>3, <2>1
    <2>3. i - 1 \notin Bad
      <3>1. ~(i <= i - 1)
        BY <1>0, <2>2
      <3> HIDE DEF Bad
      <3> QED  BY <2>1, <3>1
    <2>4. y[i - 1] = u[i - 1] + t[i - 1]
      BY <2>2, <2>3
    <2>5. u[i - 1] \in Int /\ t[i - 1] \in Int /\ w[i] \in Int /\ v[i] \in Int
      BY <1>0, <1>4, <2>2, SMTT(40)
    <2>7. y[i] = y[i - 1] + x[i] /\ u[i] = u[i - 1] + w[i] /\ t[i] = t[i - 1] + v[i]
      BY <1>1, <1>2, <1>3, <2>2
    <2>8. x[i] = w[i] + v[i]
      BY <1>0, <2>2 DEF n
    <2>6. y[i] = u[i] + t[i]
      BY <2>4, <2>5, <2>7, <2>8, SMTT(40)
    <2> QED  BY <2>1, <2>6
  <1>6. n \in 0..n
    BY <1>0
  <1> QED  BY <1>1, <1>2, <1>3, <1>5, <1>6

(* At most one amount counts.                                              *)
LEMMA SumOfOne ==
    ASSUME NEW w \in Seq(Int), NEW j \in Nat, \A i \in 1..Len(w) : i # j => w[i] = 0
    PROVE  SumSeq(w) = IF j \in 1..Len(w) THEN w[j] ELSE 0
  <1>1. PICK u : /\ u[0] = 0 /\ \A i \in 1..Len(w) : u[i] = u[i - 1] + w[i]
                 /\ SumSeq(w) = u[Len(w)]
    BY SumRuns
  <1>2. \A i \in 0..Len(w) : u[i] \in Int
    BY <1>1, RunIsInt
  <1> DEFINE Bad == {i \in 0..Len(w) : u[i] # IF j \in 1..i THEN w[j] ELSE 0}
  <1>3. Bad = {}
    <2> SUFFICES ASSUME Bad # {}  PROVE FALSE
      OBVIOUS
    <2>1. PICK i \in Bad : \A k \in Bad : i <= k
      <3>1. Bad \in SUBSET Nat
        OBVIOUS
      <3> HIDE DEF Bad
      <3> QED  BY <3>1, SmallestNat
    <2>2. i \in 1..Len(w) /\ i - 1 \in 0..Len(w)
      BY <1>1, <2>1
    <2>3. i - 1 \notin Bad
      <3>1. ~(i <= i - 1)
        BY <2>2
      <3> HIDE DEF Bad
      <3> QED  BY <2>1, <3>1
    <2>4. u[i - 1] = IF j \in 1..(i - 1) THEN w[j] ELSE 0
      BY <2>2, <2>3
    <2>5. u[i] = u[i - 1] + w[i] /\ w[i] \in Int /\ u[i - 1] \in Int
      BY <1>1, <1>2, <2>2
    <2>6. CASE i = j
      BY <2>1, <2>2, <2>4, <2>5, <2>6
    <2>7. CASE i # j
      <3>1. w[i] = 0 /\ u[i] = u[i - 1]
        BY <2>2, <2>5, <2>7
      <3>2. j \in 1..i <=> j \in 1..(i - 1)
        BY <2>2, <2>7
      <3> QED  BY <2>1, <2>4, <3>1, <3>2
    <2> QED  BY <2>6, <2>7
  <1>4. Len(w) \in 0..Len(w)
    OBVIOUS
  <1> QED  BY <1>1, <1>3, <1>4

-------------------------------------------------------------------------------
(* The ledger: what of it lies below a height, by type and account, and    *)
(* what is left of it below the height that a reorg takes back.            *)

EntryTypes ==
    {"genesis", "transfer_debit", "transfer_credit", "transaction_fee_reward", "block_reward",
     "science_reserve_accrual", "treasury_accrual", "validator_reward", "treasury_claim"}
Heights == Nat \cup {NoHeight}
LedgerRows ==
    [type : EntryTypes, account : Accounts, amount : Int, height : Heights,
     related : {"genesis", "claim"} \cup Txs \cup BlockIds \cup Nat]

Counted(e, types, who, k) ==
    IF e.type \in types /\ e.account \in who /\ e.height < k THEN e.amount ELSE 0
CountedIn(L, types, who, k) == [i \in DOMAIN L |-> Counted(L[i], types, who, k)]
Below(L, types, who, k) == SumSeq(CountedIn(L, types, who, k))

LEMMA HeightsAreInt == \A k \in Heights : k \in Int
  BY DEF Heights, NoHeight

LEMMA CountedTyped ==
    ASSUME NEW L \in Seq(LedgerRows), NEW types, NEW who, NEW k \in Int
    PROVE  LET w == CountedIn(L, types, who, k)
           IN  /\ w \in Seq(Int) /\ Len(w) = Len(L)
               /\ \A i \in 1..Len(L) : w[i] = Counted(L[i], types, who, k)
  <1> DEFINE w == CountedIn(L, types, who, k)
             n == Len(L)
  <1>1. n \in Nat /\ DOMAIN L = 1..n /\ \A i \in 1..n : L[i] \in LedgerRows
    OBVIOUS
  <1> HIDE DEF n
  <1>2. w = [i \in 1..n |-> Counted(L[i], types, who, k)]
    BY <1>1 DEF CountedIn
  <1>3. \A i \in 1..n : Counted(L[i], types, who, k) \in Int
    BY <1>1 DEF Counted, LedgerRows
  <1>4. \A i \in 1..n : w[i] = Counted(L[i], types, who, k) /\ w[i] \in Int
    BY <1>2, <1>3
  <1>5. w = [i \in 1..n |-> w[i]]
    BY <1>2
  <1> HIDE DEF w
  <1>6. w \in Seq(Int) /\ Len(w) = n
    BY <1>1, <1>4, <1>5
  <1> QED  BY <1>4, <1>6 DEF w, n

LEMMA BelowIsInt ==
    ASSUME NEW L \in Seq(LedgerRows), NEW types, NEW who, NEW k \in Int
    PROVE  Below(L, types, who, k) \in Int
  BY CountedTyped, SeqSumIsInt DEF Below

LEMMA BelowAppends ==
    ASSUME NEW L \in Seq(LedgerRows), NEW e \in LedgerRows, NEW types, NEW who, NEW k \in Int
    PROVE  Below(Append(L, e), types, who, k) = Below(L, types, who, k) + Counted(e, types, who, k)
  <1> DEFINE M == Append(L, e)
             w == CountedIn(L, types, who, k)
             x == CountedIn(M, types, who, k)
             n == Counted(e, types, who, k)
  <1>1. M \in Seq(LedgerRows) /\ Len(M) = Len(L) + 1 /\ M[Len(L) + 1] = e
        /\ \A i \in 1..Len(L) : M[i] = L[i]
    OBVIOUS
  <1> HIDE DEF M
  <1>2. w \in Seq(Int) /\ Len(w) = Len(L) /\ \A i \in 1..Len(L) : w[i] = Counted(L[i], types, who, k)
    BY CountedTyped
  <1>3. x \in Seq(Int) /\ Len(x) = Len(M) /\ \A i \in 1..Len(M) : x[i] = Counted(M[i], types, who, k)
    BY <1>1, CountedTyped
  <1>4. n \in Int
    BY DEF Counted, LedgerRows
  <1> HIDE DEF w, x, n
  <1>5. x = Append(w, n)
    <2>1. Len(L) \in Nat /\ Len(L) + 1 \in 1..Len(M) /\ \A i \in 1..Len(L) : i \in 1..Len(M)
      BY <1>1
    <2>2. x[Len(L) + 1] = n
      BY <1>1, <1>3, <2>1 DEF n
    <2>3. \A i \in 1..Len(L) : x[i] = w[i]
      BY <1>1, <1>2, <1>3, <2>1
    <2> DEFINE y == Append(w, n)
    <2>4. y \in Seq(Int) /\ Len(y) = Len(L) + 1 /\ y[Len(L) + 1] = n /\ \A i \in 1..Len(L) : y[i] = w[i]
      BY <1>2, <1>4
    <2> HIDE DEF y
    <2>7. Len(x) = Len(L) + 1 /\ Len(y) = Len(L) + 1
      BY <1>1, <1>3, <2>4
    <2>8. ASSUME NEW i \in 1..(Len(L) + 1)  PROVE x[i] = y[i]
      <3>1. i = Len(L) + 1 \/ i \in 1..Len(L)
        BY <2>1
      <3> QED  BY <2>2, <2>3, <2>4, <3>1
    <2>5. Len(x) = Len(y) /\ \A i \in 1..Len(x) : x[i] = y[i]
      BY <2>7, <2>8
    <2>6. x = y
      BY <1>3, <2>4, <2>5, SeqEqual
    <2> QED  BY <2>6 DEF y
  <1>6. SumSeq(x) = SumSeq(w) + n
    BY <1>2, <1>4, <1>5, SumAppends
  <1> QED  BY <1>6 DEF Below, w, x, n, M

LEMMA BelowEmpty == \A types, who, k : Below(<< >>, types, who, k) = 0
  <1> SUFFICES ASSUME NEW types, NEW who, NEW k  PROVE Below(<< >>, types, who, k) = 0
    OBVIOUS
  <1> DEFINE w == CountedIn(<< >>, types, who, k)
  <1>1. w = << >>
    BY DEF CountedIn
  <1> HIDE DEF w
  <1>2. w \in Seq(Int) /\ Len(w) = 0 /\ \A i \in 1..Len(w) : i # 0 => w[i] = 0
    BY <1>1
  <1>3. SumSeq(w) = IF 0 \in 1..Len(w) THEN w[0] ELSE 0
    BY <1>2, SumOfOne
  <1> QED  BY <1>2, <1>3 DEF Below, w

(* The same entries count. *)
LEMMA BelowSame ==
    ASSUME NEW L \in Seq(LedgerRows), NEW types, NEW who, NEW k \in Int,
           NEW types2, NEW who2, NEW k2 \in Int,
           \A i \in 1..Len(L) : Counted(L[i], types, who, k) = Counted(L[i], types2, who2, k2)
    PROVE  Below(L, types, who, k) = Below(L, types2, who2, k2)
  <1>1. DOMAIN L = 1..Len(L)
    OBVIOUS
  <1>2. CountedIn(L, types, who, k) = CountedIn(L, types2, who2, k2)
    BY <1>1 DEF CountedIn
  <1> QED  BY <1>2 DEF Below

(* M has the entries of L below h, those up to i; f says where they were.   *)
Selects(L, h, M, i, f) ==
    /\ M \in Seq(LedgerRows)
    /\ \A l \in 1..Len(M) : f[l] \in 1..i /\ M[l] = L[f[l]] /\ L[f[l]].height < h
    /\ \A l, m \in 1..Len(M) : f[l] = f[m] => l = m
    /\ \A j \in 1..i : L[j].height < h => \E l \in 1..Len(M) : f[l] = j

LEMMA SelectsNext ==
    ASSUME NEW L \in Seq(LedgerRows), NEW h \in Int, NEW i \in 1..Len(L), NEW M, NEW f,
           Selects(L, h, M, i - 1, f)
    PROVE  \E f2 : Selects(L, h, FilterStep(h, M, L[i]), i, f2)
  <1>1. /\ M \in Seq(LedgerRows) /\ Len(M) \in Nat
        /\ \A l \in 1..Len(M) : f[l] \in 1..(i - 1) /\ M[l] = L[f[l]] /\ L[f[l]].height < h
        /\ \A l, m \in 1..Len(M) : f[l] = f[m] => l = m
        /\ \A j \in 1..(i - 1) : L[j].height < h => \E l \in 1..Len(M) : f[l] = j
    BY DEF Selects
  <1>2. L[i] \in LedgerRows /\ i \in Nat
    OBVIOUS
  <1>3. \A j : j \in 1..i <=> j = i \/ j \in 1..(i - 1)
    BY <1>2
  <1>4. CASE ~(L[i].height < h)
    <2>1. FilterStep(h, M, L[i]) = M
      BY <1>4 DEF FilterStep
    <2>2. Selects(L, h, M, i, f)
      BY <1>1, <1>3, <1>4 DEF Selects
    <2> QED  BY <2>1, <2>2
  <1>5. CASE L[i].height < h
    <2> DEFINE N  == Append(M, L[i])
               n  == Len(M) + 1
               f2 == [l \in 1..n |-> IF l = n THEN i ELSE f[l]]
    <2>1. FilterStep(h, M, L[i]) = N
      BY <1>5 DEF FilterStep
    <2>2. /\ N \in Seq(LedgerRows) /\ Len(N) = n /\ N[n] = L[i]
          /\ \A l \in 1..Len(M) : N[l] = M[l]
      BY <1>1, <1>2
    <2> HIDE DEF N
    <2>3. n \in 1..n /\ \A l : l \in 1..n <=> l = n \/ (l \in 1..Len(M) /\ l # n)
      BY <1>1
    <2>4. f2[n] = i /\ \A l \in 1..Len(M) : f2[l] = f[l] /\ f[l] # i
      <3>1. \A l \in 1..Len(M) : f[l] # i
        BY <1>1, <1>2
      <3> QED  BY <2>3, <3>1
    <2> HIDE DEF f2, n
    <2>5. \A l \in 1..n : f2[l] \in 1..i /\ N[l] = L[f2[l]] /\ L[f2[l]].height < h
      BY ZenonT(40), <1>1, <1>3, <1>5, <2>2, <2>3, <2>4
    <2>6. \A l, m \in 1..n : f2[l] = f2[m] => l = m
      BY SMTT(40), <1>1, <2>3, <2>4
    <2>7. \A j \in 1..i : L[j].height < h => \E l \in 1..n : f2[l] = j
      BY <1>1, <1>3, <2>3, <2>4
    <2>8. Selects(L, h, N, i, f2)
      BY <2>2, <2>5, <2>6, <2>7 DEF Selects
    <2> QED  BY <2>1, <2>8
  <1> QED  BY <1>4, <1>5

LEMMA LedgerWithoutSelects ==
    ASSUME NEW b, b.ledger \in Seq(LedgerRows), NEW h \in Int
    PROVE  \E f : Selects(b.ledger, h, LedgerWithout(b, h), Len(b.ledger), f)
  <1> DEFINE L == b.ledger
             n == Len(L)
  <1>1. PICK g : /\ g[0] = << >>
                 /\ \A i \in 1..n : g[i] = FilterStep(h, g[i - 1], L[i])
                 /\ LedgerWithout(b, h) = g[n]
    BY FilterRuns
  <1>2. L \in Seq(LedgerRows) /\ n \in Nat
    OBVIOUS
  <1> HIDE DEF L
  <1> DEFINE Bad == {i \in 0..n : ~ \E f : Selects(L, h, g[i], i, f)}
  <1>3. Bad = {}
    <2> SUFFICES ASSUME Bad # {}  PROVE FALSE
      OBVIOUS
    <2>1. PICK i \in Bad : \A j \in Bad : i <= j
      <3>1. Bad \in SUBSET Nat
        BY <1>2
      <3> HIDE DEF Bad
      <3> QED  BY <3>1, SmallestNat
    <2>2. CASE i = 0
      <3>1. Selects(L, h, << >>, 0, << >>)
        BY DEF Selects
      <3> QED  BY <1>1, <2>1, <2>2, <3>1
    <2>3. CASE i # 0
      <3>1. i \in 1..n /\ i - 1 \in 0..n
        BY <1>2, <2>1, <2>3
      <3>2. i - 1 \notin Bad
        <4>1. ~(i <= i - 1)
          BY <3>1
        <4> HIDE DEF Bad
        <4> QED  BY <2>1, <4>1
      <3>3. PICK f : Selects(L, h, g[i - 1], i - 1, f)
        BY <3>1, <3>2
      <3>4. g[i] = FilterStep(h, g[i - 1], L[i])
        BY <1>1, <3>1
      <3>5. \E f2 : Selects(L, h, g[i], i, f2)
        BY <1>2, <3>1, <3>3, <3>4, SelectsNext
      <3> QED  BY <2>1, <3>5
    <2> QED  BY <2>2, <2>3
  <1>4. n \in 0..n
    BY <1>2
  <1> QED  BY <1>1, <1>3, <1>4 DEF L

Lower(k, h) == IF k < h THEN k ELSE h

(* What is left below h sums to what was below it.                         *)
LEMMA LedgerWithoutSums ==
    ASSUME NEW b, b.ledger \in Seq(LedgerRows), NEW h \in Int, NEW types, NEW who, NEW k \in Int
    PROVE  Below(LedgerWithout(b, h), types, who, k) = Below(b.ledger, types, who, Lower(k, h))
  <1> DEFINE L == b.ledger
             n == Len(L)
             w == CountedIn(L, types, who, Lower(k, h))
  <1>1. PICK g : /\ g[0] = << >>
                 /\ \A i \in 1..n : g[i] = FilterStep(h, g[i - 1], L[i])
                 /\ LedgerWithout(b, h) = g[n]
    BY FilterRuns
  <1>2. L \in Seq(LedgerRows) /\ n \in Nat /\ \A i \in 1..n : L[i] \in LedgerRows
    OBVIOUS
  <1> HIDE DEF L
  <1>3. Lower(k, h) \in Int
    BY DEF Lower
  <1>4. /\ w \in Seq(Int) /\ Len(w) = n
        /\ \A i \in 1..n : w[i] = Counted(L[i], types, who, Lower(k, h))
    BY <1>2, <1>3, CountedTyped
  <1> HIDE DEF n, w
  <1>5. PICK u : u[0] = 0 /\ (\A i \in 1..n : u[i] = u[i - 1] + w[i]) /\ SumSeq(w) = u[n]
    BY <1>2, <1>4, SumRunsTo
  <1> DEFINE Good(i) == g[i] \in Seq(LedgerRows) /\ Below(g[i], types, who, k) = u[i]
             Bad == {i \in 0..n : ~Good(i)}
  <1>6. Bad = {}
    <2> SUFFICES ASSUME Bad # {}  PROVE FALSE
      OBVIOUS
    <2>1. PICK i \in Bad : \A j \in Bad : i <= j
      <3>1. Bad \in SUBSET Nat
        BY <1>2
      <3> HIDE DEF Bad
      <3> QED  BY <3>1, SmallestNat
    <2>2. CASE i = 0
      <3>1. Good(0)
        BY <1>1, <1>5, BelowEmpty
      <3> QED  BY <2>1, <2>2, <3>1
    <2>3. CASE i # 0
      <3>1. i \in 1..n /\ i - 1 \in 0..n
        BY <1>2, <2>1, <2>3
      <3>2. i - 1 \notin Bad
        <4>1. ~(i <= i - 1)
          BY <3>1
        <4> HIDE DEF Bad
        <4> QED  BY <2>1, <4>1
      <3>3. g[i - 1] \in Seq(LedgerRows) /\ Below(g[i - 1], types, who, k) = u[i - 1]
        BY <3>1, <3>2
      <3>4. g[i] = FilterStep(h, g[i - 1], L[i]) /\ L[i] \in LedgerRows
        BY <1>1, <1>2, <3>1 DEF n
      <3>5. w[i] = Counted(L[i], types, who, Lower(k, h)) /\ u[i] = u[i - 1] + w[i]
        BY <1>4, <1>5, <3>1
      <3>6. L[i].height \in Int /\ L[i].amount \in Int
        BY <3>4, HeightsAreInt DEF LedgerRows
      <3>7. u[i - 1] \in Int
        BY <3>3, BelowIsInt
      <3>8. CASE L[i].height < h
        <4> DEFINE M == g[i - 1]
                   e == L[i]
        <4>1. g[i] = Append(M, e) /\ M \in Seq(LedgerRows) /\ e \in LedgerRows
          BY <3>3, <3>4, <3>8 DEF FilterStep
        <4> HIDE DEF M, e
        <4>5. Below(Append(M, e), types, who, k)
                = Below(M, types, who, k) + Counted(e, types, who, k)
          BY <4>1, BelowAppends
        <4>2. Below(g[i], types, who, k) = u[i - 1] + Counted(L[i], types, who, k)
          BY <3>3, <4>1, <4>5 DEF M, e
        <4>3. Counted(L[i], types, who, k) = w[i]
          BY <3>5, <3>6, <3>8 DEF Counted, Lower
        <4>4. g[i] \in Seq(LedgerRows)
          BY <4>1
        <4> QED  BY <2>1, <3>5, <4>2, <4>3, <4>4
      <3>9. CASE ~(L[i].height < h)
        <4>1. g[i] = g[i - 1]
          BY <3>4, <3>9 DEF FilterStep
        <4>2. w[i] = 0
          BY <3>5, <3>6, <3>9 DEF Counted, Lower
        <4> QED  BY <2>1, <3>3, <3>5, <3>7, <4>1, <4>2
      <3> QED  BY <3>8, <3>9
    <2> QED  BY <2>2, <2>3
  <1>7. n \in 0..n
    BY <1>2
  <1> QED  BY <1>1, <1>5, <1>6, <1>7 DEF Below, w, L, n

-------------------------------------------------------------------------------
(* The books as a ledger: balances are its sums, and what payments leave   *)
(* alone.                                                                  *)

(* Every entry is below k, and a balance is the sum of its entries.         *)
Booked(b, k) ==
    /\ DOMAIN b = Columns
    /\ b.ledger \in Seq(LedgerRows)
    /\ \A i \in 1..Len(b.ledger) : b.ledger[i].height < k
    /\ b.balances \in [Accounts -> Int]
    /\ \A a \in Accounts : b.balances[a] = Below(b.ledger, EntryTypes, {a}, k)

Accrual == {"treasury_accrual"}

SameTreasury(L, M) ==
    \A j \in Int : /\ Below(M, Accrual, Accounts, j) = Below(L, Accrual, Accounts, j)
                   /\ Below(M, EntryTypes, {Treasury}, j) = Below(L, EntryTypes, {Treasury}, j)

(* The rewards of the blocks of s at the heights in P are paid, once each,  *)
(* and no other is.                                                        *)
PaidFor(L, s, P) ==
    /\ \A i \in 1..Len(L) : L[i].type = "block_reward" =>
          \E k \in P : /\ L[i].related = s[k].id /\ L[i].account = Miner[s[k].id]
                       /\ L[i].height = k + MaturityDepth
    /\ \A k \in P : \E i \in 1..Len(L) :
          /\ L[i].type = "block_reward"
          /\ L[i].related = s[k].id /\ L[i].account = Miner[s[k].id]
    /\ \A i, j \in 1..Len(L) :
          /\ L[i].type = "block_reward" /\ L[j].type = "block_reward"
          /\ L[i].related = L[j].related
          => i = j
SamePaid(L, M) == \A s, P : PaidFor(L, s, P) => PaidFor(M, s, P)

(* From b to c nothing of the treasury moves, nor a reward.                 *)
Quiet(b, c, k) ==
    /\ Booked(c, k) /\ c.fund = b.fund /\ c.epochs = b.epochs
    /\ SameTreasury(b.ledger, c.ledger)
Moves(b, c, k) == Quiet(b, c, k) /\ c.rewards = b.rewards /\ SamePaid(b.ledger, c.ledger)

LEMMA QuietFollows ==
    \A b, c, d, k : Quiet(b, c, k) /\ Quiet(c, d, k) => Quiet(b, d, k)
  BY DEF Quiet, SameTreasury

LEMMA MovesFollow ==
    \A b, c, d, k : Moves(b, c, k) /\ Moves(c, d, k) => Moves(b, d, k)
  BY QuietFollows DEF Moves, SamePaid

LEMMA MovesNowhere == \A b, k : Booked(b, k) => Moves(b, b, k)
  BY DEF Moves, Quiet, SameTreasury, SamePaid

LEMMA BookedHigher ==
    ASSUME NEW b, NEW k \in Int, Booked(b, k), NEW k2 \in Int, k <= k2
    PROVE  Booked(b, k2)
  <1> DEFINE L == b.ledger
  <1>4. L \in Seq(LedgerRows) /\ \A i \in 1..Len(L) : L[i].height < k
    BY DEF Booked
  <1>5. \A i \in 1..Len(L) : L[i] \in LedgerRows
    <2> HIDE DEF L
    <2> QED  BY <1>4
  <1>1. \A i \in 1..Len(L) : L[i].height < k /\ L[i].height \in Int
    <2> HIDE DEF L
    <2> QED  BY <1>4, <1>5, HeightsAreInt DEF LedgerRows
  <1>2. \A i \in 1..Len(L) : L[i].height < k2
    BY <1>1
  <1>3. ASSUME NEW a \in Accounts
        PROVE  Below(L, EntryTypes, {a}, k) = Below(L, EntryTypes, {a}, k2)
    <2>1. \A i \in 1..Len(L) :
            Counted(L[i], EntryTypes, {a}, k) = Counted(L[i], EntryTypes, {a}, k2)
      BY <1>1, <1>2 DEF Counted
    <2> DEFINE A == {a}
    <2>2. \A i \in 1..Len(L) : Counted(L[i], EntryTypes, A, k) = Counted(L[i], EntryTypes, A, k2)
      BY <2>1
    <2> HIDE DEF L, A
    <2>3. Below(L, EntryTypes, A, k) = Below(L, EntryTypes, A, k2)
      BY <1>4, <2>2, BelowSame
    <2> QED  BY <2>3 DEF A
  <1>6. \A a \in Accounts : b.balances[a] = Below(L, EntryTypes, {a}, k2)
    BY <1>3 DEF Booked
  <1> QED  BY <1>2, <1>6 DEF Booked

LEMMA PayBooks ==
    ASSUME NEW b, NEW k \in Int, Booked(b, k), NEW type \in EntryTypes, NEW who \in Accounts,
           NEW amount \in Int, NEW h \in Heights, h < k,
           NEW related \in {"genesis", "claim"} \cup Txs \cup BlockIds \cup Nat
    PROVE  LET c == Pay(b, type, who, amount, h, related)
               e == Entry(type, who, amount, h, related)
           IN  /\ Booked(c, k) /\ c.ledger = Append(b.ledger, e) /\ e \in LedgerRows
               /\ c.fund = b.fund /\ c.epochs = b.epochs /\ c.rewards = b.rewards
               /\ Alike(b, c)
  <1> DEFINE e == Entry(type, who, amount, h, related)
             c == Pay(b, type, who, amount, h, related)
             L == b.ledger
             M == Append(L, e)
  <1>1. e \in LedgerRows /\ e.type = type /\ e.account = who /\ e.amount = amount /\ e.height = h
    BY DEF Entry, LedgerRows
  <1> HIDE DEF e
  <1>2. DOMAIN b = Columns /\ L \in Seq(LedgerRows)
        /\ (\A i \in 1..Len(L) : L[i].height < k) /\ b.balances \in [Accounts -> Int]
    BY DEF Booked
  <1>3. /\ DOMAIN c = Columns /\ c.ledger = M
        /\ c.balances = [b.balances EXCEPT ![who] = @ + amount]
        /\ c.fund = b.fund /\ c.epochs = b.epochs /\ c.rewards = b.rewards
    BY <1>2 DEF Pay, Columns, e
  <1>4. Alike(b, c)
    BY <1>2, PayKeeps
  <1> HIDE DEF c
  <1>5. M \in Seq(LedgerRows) /\ \A i \in 1..Len(M) : M[i].height < k
    <2>1. /\ M \in Seq(LedgerRows) /\ Len(M) = Len(L) + 1 /\ M[Len(L) + 1] = e
          /\ \A i \in 1..Len(L) : M[i] = L[i]
      BY <1>1, <1>2
    <2>2. \A i \in 1..(Len(L) + 1) : i = Len(L) + 1 \/ i \in 1..Len(L)
      BY <1>2
    <2> HIDE DEF M, L
    <2> QED  BY <1>1, <1>2, <2>1, <2>2
  <1>6. ASSUME NEW a \in Accounts  PROVE c.balances[a] = Below(M, EntryTypes, {a}, k)
    <2>1. Below(M, EntryTypes, {a}, k) = Below(L, EntryTypes, {a}, k) + Counted(e, EntryTypes, {a}, k)
      BY <1>1, <1>2, BelowAppends
    <2>2. Counted(e, EntryTypes, {a}, k) = IF a = who THEN amount ELSE 0
      BY <1>1 DEF Counted
    <2>3. b.balances[a] = Below(L, EntryTypes, {a}, k) /\ b.balances[a] \in Int
      BY <1>2 DEF Booked
    <2>4. c.balances[a] = IF a = who THEN b.balances[a] + amount ELSE b.balances[a]
      BY <1>2, <1>3
    <2> HIDE DEF M, L
    <2> QED  BY <2>1, <2>2, <2>3, <2>4
  <1>7. c.balances \in [Accounts -> Int]
    BY <1>2, <1>3
  <1> HIDE DEF M
  <1> QED  BY <1>1, <1>3, <1>4, <1>5, <1>6, <1>7 DEF Booked, c, e, M

LEMMA AppendKeepsTreasury ==
    ASSUME NEW L \in Seq(LedgerRows), NEW e \in LedgerRows,
           e.type \notin Accrual, e.account # Treasury
    PROVE  SameTreasury(L, Append(L, e))
  <1> SUFFICES ASSUME NEW j \in Int
               PROVE  /\ Below(Append(L, e), Accrual, Accounts, j) = Below(L, Accrual, Accounts, j)
                      /\ Below(Append(L, e), EntryTypes, {Treasury}, j)
                           = Below(L, EntryTypes, {Treasury}, j)
    BY DEF SameTreasury
  <1>1. Counted(e, Accrual, Accounts, j) = 0 /\ Counted(e, EntryTypes, {Treasury}, j) = 0
    BY DEF Counted
  <1>2. /\ Below(Append(L, e), Accrual, Accounts, j)
             = Below(L, Accrual, Accounts, j) + Counted(e, Accrual, Accounts, j)
        /\ Below(Append(L, e), EntryTypes, {Treasury}, j)
             = Below(L, EntryTypes, {Treasury}, j) + Counted(e, EntryTypes, {Treasury}, j)
    BY BelowAppends
  <1>3. Below(L, Accrual, Accounts, j) \in Int /\ Below(L, EntryTypes, {Treasury}, j) \in Int
    BY BelowIsInt
  <1> QED  BY <1>1, <1>2, <1>3

LEMMA AppendKeepsPaid ==
    ASSUME NEW L \in Seq(LedgerRows), NEW e \in LedgerRows, e.type # "block_reward"
    PROVE  SamePaid(L, Append(L, e))
  <1> SUFFICES ASSUME NEW s, NEW P, PaidFor(L, s, P)  PROVE PaidFor(Append(L, e), s, P)
    BY DEF SamePaid
  <1> DEFINE M == Append(L, e)
             n == Len(L)
  <1>1. n \in Nat /\ Len(M) = n + 1 /\ M[n + 1] = e /\ \A i \in 1..n : M[i] = L[i]
    OBVIOUS
  <1> HIDE DEF M
  <1>2. \A i : i \in 1..(n + 1) <=> i = n + 1 \/ i \in 1..n
    BY <1>1
  <1>3. \A i \in 1..Len(M) : M[i].type = "block_reward" => i \in 1..n /\ M[i] = L[i]
    BY <1>1, <1>2
  <1> HIDE DEF n
  <1>4. /\ \A i \in 1..n : L[i].type = "block_reward" =>
             \E k \in P : /\ L[i].related = s[k].id /\ L[i].account = Miner[s[k].id]
                          /\ L[i].height = k + MaturityDepth
        /\ \A k \in P : \E i \in 1..n :
             /\ L[i].type = "block_reward"
             /\ L[i].related = s[k].id /\ L[i].account = Miner[s[k].id]
        /\ \A i, j \in 1..n : /\ L[i].type = "block_reward" /\ L[j].type = "block_reward"
                              /\ L[i].related = L[j].related
                              => i = j
    BY DEF PaidFor, n
  <1>5. \A k \in P : \E i \in 1..Len(M) :
             /\ M[i].type = "block_reward"
             /\ M[i].related = s[k].id /\ M[i].account = Miner[s[k].id]
    <2> SUFFICES ASSUME NEW k \in P
                 PROVE  \E i \in 1..Len(M) :
                          /\ M[i].type = "block_reward"
                          /\ M[i].related = s[k].id /\ M[i].account = Miner[s[k].id]
      OBVIOUS
    <2>1. PICK i \in 1..n : /\ L[i].type = "block_reward"
                            /\ L[i].related = s[k].id /\ L[i].account = Miner[s[k].id]
      BY <1>4
    <2>2. i \in 1..Len(M) /\ M[i] = L[i]
      BY <1>1, <1>2
    <2> QED  BY <2>1, <2>2
  <1>6. \A i \in 1..Len(M) : M[i].type = "block_reward" =>
             \E k \in P : /\ M[i].related = s[k].id /\ M[i].account = Miner[s[k].id]
                          /\ M[i].height = k + MaturityDepth
    BY <1>3, <1>4
  <1>7. \A i, j \in 1..Len(M) : /\ M[i].type = "block_reward" /\ M[j].type = "block_reward"
                                /\ M[i].related = M[j].related
                                => i = j
    BY <1>3, <1>4
  <1>8. PaidFor(M, s, P)
    BY <1>5, <1>6, <1>7 DEF PaidFor
  <1> QED  BY <1>8 DEF M

LEMMA WalletsAreAccounts ==
    /\ Wallets \subseteq Accounts /\ {Treasury, Reserve, Pool, Claimant} \subseteq Accounts
    /\ \A w \in Wallets : w # Treasury
    /\ Reserve # Treasury /\ Pool # Treasury /\ Claimant # Treasury
  <1>1. Reserve # Treasury /\ Pool # Treasury /\ Claimant # Treasury
    BY DEF Treasury, Reserve, Pool, Claimant
  <1>2. \A w \in Wallets : w # Treasury
    BY NoWalletIsBuiltIn
  <1>3. Wallets \subseteq Accounts /\ {Treasury, Reserve, Pool, Claimant} \subseteq Accounts
    BY DEF Accounts
  <1> QED  BY <1>1, <1>2, <1>3

LEMMA PayMoves ==
    ASSUME NEW b, NEW k \in Int, Booked(b, k),
           NEW type \in EntryTypes \ {"treasury_accrual", "block_reward"},
           NEW who \in Accounts \ {Treasury},
           NEW amount \in Int, NEW h \in Heights, h < k,
           NEW related \in {"genesis", "claim"} \cup Txs \cup BlockIds \cup Nat
    PROVE  Moves(b, Pay(b, type, who, amount, h, related), k)
  <1> DEFINE e == Entry(type, who, amount, h, related)
             c == Pay(b, type, who, amount, h, related)
  <1>1. /\ Booked(c, k) /\ c.ledger = Append(b.ledger, e) /\ e \in LedgerRows
        /\ c.fund = b.fund /\ c.epochs = b.epochs /\ c.rewards = b.rewards
    <2>1. type \in EntryTypes /\ who \in Accounts
      OBVIOUS
    <2> HIDE DEF c, e
    <2>2. LET d == Pay(b, type, who, amount, h, related)
              r == Entry(type, who, amount, h, related)
          IN  /\ Booked(d, k) /\ d.ledger = Append(b.ledger, r) /\ r \in LedgerRows
              /\ d.fund = b.fund /\ d.epochs = b.epochs /\ d.rewards = b.rewards
      BY <2>1, PayBooks
    <2> QED  BY <2>2 DEF c, e
  <1>2. e.type \notin Accrual /\ e.type # "block_reward" /\ e.account # Treasury
    BY DEF Entry, Accrual
  <1> HIDE DEF e, c
  <1> DEFINE L == b.ledger
  <1>3. L \in Seq(LedgerRows)
    BY DEF Booked
  <1> HIDE DEF L
  <1>5. SameTreasury(L, Append(L, e)) /\ SamePaid(L, Append(L, e))
    BY <1>1, <1>2, <1>3, AppendKeepsTreasury, AppendKeepsPaid
  <1>4. SameTreasury(b.ledger, c.ledger) /\ SamePaid(b.ledger, c.ledger)
    BY <1>1, <1>5 DEF L
  <1> QED  BY <1>1, <1>4 DEF Moves, Quiet, c

LEMMA TransferMoves ==
    ASSUME NEW b, NEW k \in Int, Booked(b, k), NEW x \in Txs, NEW miner \in Wallets,
           NEW h \in Nat, h < k
    PROVE  Moves(b, Transferred(b, x, miner, h), k)
  <1> DEFINE debited  == Pay(b, "transfer_debit", Sender[x], -Debit(x), h, x)
             credited == Pay(debited, "transfer_credit", Recipient[x], Amount[x], h, x)
             feePaid  == Pay(credited, "transaction_fee_reward", miner, Fee[x], h, x)
             paid     == IF Fee[x] = 0 THEN credited ELSE feePaid
             c        == [paid EXCEPT !.rows[x] = [@ EXCEPT !.status = "confirmed", !.height = h,
                                                            !.task = NoTask],
                                      !.nonces[Sender[x]] = MaxOr0({@, Nonce[x]})]
  <1>1. Transferred(b, x, miner, h) = c
    BY DEF Transferred
  <1>2. /\ Sender[x] \in Accounts \ {Treasury} /\ Recipient[x] \in Accounts \ {Treasury}
        /\ miner \in Accounts \ {Treasury}
        /\ Amount[x] \in Int /\ Fee[x] \in Int /\ -Debit(x) \in Int /\ h \in Heights
        /\ x \in {"genesis", "claim"} \cup Txs \cup BlockIds \cup Nat
        /\ {"transfer_debit", "transfer_credit", "transaction_fee_reward"}
              \subseteq EntryTypes \ {"treasury_accrual", "block_reward"}
    BY BooksAssumption, WalletsAreAccounts DEF Debit, Heights, EntryTypes
  <1>3. Moves(b, debited, k)
    <2> DEFINE amount == -Debit(x)
    <2>1. amount \in Int
      BY <1>2
    <2> HIDE DEF amount
    <2>2. Moves(b, Pay(b, "transfer_debit", Sender[x], amount, h, x), k)
      BY <1>2, <2>1, PayMoves
    <2> QED  BY <2>2 DEF amount
  <1> HIDE DEF debited
  <1>4. Moves(debited, credited, k)
    BY <1>2, <1>3, PayMoves DEF Moves, Quiet
  <1> HIDE DEF credited
  <1>5. Moves(credited, feePaid, k)
    BY <1>2, <1>4, PayMoves DEF Moves, Quiet
  <1> HIDE DEF feePaid
  <1>6. Moves(b, paid, k)
    BY <1>3, <1>4, <1>5, MovesFollow
  <1> HIDE DEF paid
  <1>7. /\ DOMAIN c = DOMAIN paid
        /\ c.ledger = paid.ledger /\ c.balances = paid.balances
        /\ c.fund = paid.fund /\ c.epochs = paid.epochs /\ c.rewards = paid.rewards
    <2>1. DOMAIN paid = Columns
      BY <1>6 DEF Moves, Quiet, Booked
    <2> QED  BY <2>1 DEF Columns
  <1> HIDE DEF c
  <1>8. Booked(c, k)
    BY <1>6, <1>7 DEF Moves, Quiet, Booked
  <1>9. Moves(b, c, k)
    BY <1>6, <1>7, <1>8 DEF Moves, Quiet
  <1> QED  BY <1>1, <1>9

LEMMA ExecutionMoves ==
    ASSUME NEW b, NEW k \in Int, Booked(b, k), NEW txs \in Seq(Txs), NEW miner \in Wallets,
           NEW h \in Nat, h < k, NEW replay
    PROVE  Moves(b, Execution(b, txs, miner, h, replay).books, k)
  <1>1. PICK g : ExecutionRun(g, b, txs, miner, h, replay)
    BY ExecutionHasRun
  <1> DEFINE Good(r) == DOMAIN r = {"ok", "books"} /\ Moves(b, r.books, k)
             Bad == {i \in 0..Len(txs) : ~Good(g[i])}
  <1>2. ASSUME NEW r, NEW x \in Txs, Good(r)  PROVE Good(RunStep(miner, h, replay, r, x))
    <2>1. RunStep(miner, h, replay, r, x).books \in {r.books, Transferred(r.books, x, miner, h)}
          /\ DOMAIN RunStep(miner, h, replay, r, x) = {"ok", "books"}
      BY <1>2 DEF RunStep
    <2>2. Moves(r.books, Transferred(r.books, x, miner, h), k)
      BY <1>2, TransferMoves DEF Moves, Quiet
    <2>3. Moves(b, Transferred(r.books, x, miner, h), k)
      BY <1>2, <2>2, MovesFollow
    <2> QED  BY <1>2, <2>1, <2>3
  <1>3. Bad = {}
    <2> SUFFICES ASSUME Bad # {}  PROVE FALSE
      OBVIOUS
    <2>1. PICK i \in Bad : \A j \in Bad : i <= j
      <3>1. Bad \in SUBSET Nat
        OBVIOUS
      <3> HIDE DEF Bad
      <3> QED  BY <3>1, SmallestNat
    <2>2. i # 0
      <3>1. Good(Start(b))
        BY MovesNowhere DEF Start
      <3> QED  BY <1>1, <2>1, <3>1 DEF ExecutionRun
    <2>3. i \in 1..Len(txs) /\ i - 1 \in 0..Len(txs) /\ txs[i] \in Txs
      <3>1. i \in 1..Len(txs)
        BY <2>1, <2>2
      <3> QED  BY <3>1
    <2>4. i - 1 \notin Bad
      <3>1. ~(i <= i - 1)
        BY <2>3
      <3> HIDE DEF Bad
      <3> QED  BY <2>1, <3>1
    <2>5. Good(g[i - 1])
      BY <2>3, <2>4
    <2>6. g[i] = RunStep(miner, h, replay, g[i - 1], txs[i])
      BY <1>1, <2>3 DEF ExecutionRun
    <2>7. Good(g[i])
      <3> HIDE DEF Good
      <3> QED  BY <1>2, <2>3, <2>5, <2>6
    <2> QED  BY <2>1, <2>7
  <1>4. Len(txs) \in 0..Len(txs)
    OBVIOUS
  <1> QED  BY <1>1, <1>3, <1>4 DEF ExecutionRun

-------------------------------------------------------------------------------
(* Rewards: one for each block, paid when it is deep enough.               *)

Distinct(s) == \A k, l \in 1..Len(s) : s[k].id = s[l].id => k = l
Named(s) == Len(s) \in Nat /\ \A k \in 1..Len(s) : s[k].id \in BlockIds

RewardFor(s, k, m) ==
    [height |-> k, account |-> Miner[s[k].id], due |-> k + MaturityDepth,
     mature |-> k + MaturityDepth <= m, related |-> s[k].id]
RewardsOf(rs, s, m) == Len(rs) = Len(s) /\ \A k \in 1..Len(s) : rs[k] = RewardFor(s, k, m)
Mature(s, m) == {k \in 1..Len(s) : k + MaturityDepth <= m}

(* The rewards of s, those that mature up to m paid. *)
Settled(b, s, m) == RewardsOf(b.rewards, s, m) /\ PaidFor(b.ledger, s, Mature(s, m))

LEMMA MovesSettled ==
    \A b, c, k, s, m : Moves(b, c, k) /\ Settled(b, s, m) => Settled(c, s, m)
  BY DEF Moves, Settled, SamePaid

LEMMA DepthTyped == MaturityDepth \in Nat /\ MinerReward \in Nat
  BY BooksAssumption

LEMMA PaidAlike ==
    \A L, s, s2, P : (\A k \in P : s2[k] = s[k]) /\ PaidFor(L, s, P) => PaidFor(L, s2, P)
  BY DEF PaidFor

DueAt(k, h) == h = k + MaturityDepth

(* One more reward is paid. *)
LEMMA PaysReward ==
    ASSUME NEW b, NEW k \in Int, Booked(b, k), NEW s, Named(s), Distinct(s),
           NEW P \in SUBSET (1..Len(s)), PaidFor(b.ledger, s, P),
           NEW l \in 1..Len(s), l \notin P, NEW h \in Nat, DueAt(l, h), h < k
    PROVE  LET c == Pay(b, "block_reward", Miner[s[l].id], MinerReward, h, s[l].id)
           IN  /\ Quiet(b, c, k) /\ c.rewards = b.rewards /\ Alike(b, c)
               /\ PaidFor(c.ledger, s, P \cup {l})
  <1> DEFINE id == s[l].id
             e == Entry("block_reward", Miner[id], MinerReward, h, id)
             c == Pay(b, "block_reward", Miner[id], MinerReward, h, id)
             L == b.ledger
             n == Len(L)
  <1>1. id \in BlockIds /\ Miner[id] \in Wallets /\ Miner[id] \in Accounts /\ Miner[id] # Treasury
    BY BlocksAssumption, WalletsAreAccounts DEF Named, BlockIds
  <1>2. "block_reward" \in EntryTypes /\ MinerReward \in Int /\ h \in Heights
        /\ id \in {"genesis", "claim"} \cup Txs \cup BlockIds \cup Nat
    BY <1>1, DepthTyped DEF EntryTypes, Heights
  <1> HIDE DEF id
  <1>3. /\ Booked(c, k) /\ c.ledger = Append(L, e) /\ e \in LedgerRows
        /\ c.fund = b.fund /\ c.epochs = b.epochs /\ c.rewards = b.rewards /\ Alike(b, c)
    <2> DEFINE who  == Miner[id]
               type == "block_reward"
    <2>1. who \in Accounts /\ type \in EntryTypes /\ MinerReward \in Int /\ h \in Heights /\ h < k
          /\ id \in {"genesis", "claim"} \cup Txs \cup BlockIds \cup Nat
      BY <1>1, <1>2
    <2> HIDE DEF c, e, who, type
    <2>2. LET d == Pay(b, type, who, MinerReward, h, id)
              r == Entry(type, who, MinerReward, h, id)
          IN  /\ Booked(d, k) /\ d.ledger = Append(b.ledger, r) /\ r \in LedgerRows
              /\ d.fund = b.fund /\ d.epochs = b.epochs /\ d.rewards = b.rewards /\ Alike(b, d)
      BY <2>1, PayBooks, SMTT(60)
    <2> QED  BY <2>2 DEF c, e, who, type
  <1>4. /\ e.type = "block_reward" /\ e.type \notin Accrual /\ e.account = Miner[id]
        /\ e.height = h /\ e.related = id
    BY DEF Entry, Accrual
  <1> HIDE DEF c, e
  <1>5. L \in Seq(LedgerRows) /\ n \in Nat
    BY DEF Booked
  <1>6. /\ \A i \in 1..n : L[i].type = "block_reward" =>
             \E j \in P : /\ L[i].related = s[j].id /\ L[i].account = Miner[s[j].id]
                          /\ L[i].height = j + MaturityDepth
        /\ \A j \in P : \E i \in 1..n :
             /\ L[i].type = "block_reward"
             /\ L[i].related = s[j].id /\ L[i].account = Miner[s[j].id]
        /\ \A i, j \in 1..n : /\ L[i].type = "block_reward" /\ L[j].type = "block_reward"
                              /\ L[i].related = L[j].related
                              => i = j
    BY DEF PaidFor
  <1> HIDE DEF L
  <1> DEFINE M == Append(L, e)
  <1>7. Len(M) = n + 1 /\ M[n + 1] = e /\ \A i \in 1..n : M[i] = L[i]
    BY <1>3, <1>5
  <1> HIDE DEF M, n
  <1>8. \A i : i \in 1..Len(M) <=> i = n + 1 \/ i \in 1..n
    BY <1>5, <1>7
  <1>9. SameTreasury(L, M)
    BY <1>1, <1>3, <1>4, <1>5, AppendKeepsTreasury DEF M
  <1>10. \A i \in 1..n : L[i].type = "block_reward" => L[i].related # id
    BY <1>6 DEF id, Distinct
  <1>11. ASSUME NEW i \in 1..Len(M), M[i].type = "block_reward"
         PROVE  \E j \in P \cup {l} : /\ M[i].related = s[j].id /\ M[i].account = Miner[s[j].id]
                                      /\ M[i].height = j + MaturityDepth
    <2>1. CASE i = n + 1
      BY <1>4, <1>7, <2>1 DEF id, DueAt
    <2>2. CASE i \in 1..n
      BY <1>6, <1>7, <1>11, <2>2
    <2> QED  BY <1>8, <2>1, <2>2
  <1>12. ASSUME NEW j \in P \cup {l}
         PROVE  \E i \in 1..Len(M) : /\ M[i].type = "block_reward"
                                     /\ M[i].related = s[j].id /\ M[i].account = Miner[s[j].id]
    <2>1. CASE j = l
      <3>1. n + 1 \in 1..Len(M)
        BY <1>8
      <3> QED  BY <1>4, <1>7, <2>1, <3>1 DEF id
    <2>2. CASE j \in P
      <3>1. PICK i \in 1..n : /\ L[i].type = "block_reward"
                              /\ L[i].related = s[j].id /\ L[i].account = Miner[s[j].id]
        BY <1>6, <2>2
      <3>2. i \in 1..Len(M) /\ M[i] = L[i]
        BY <1>7, <1>8
      <3> QED  BY <3>1, <3>2
    <2> QED  BY <2>1, <2>2
  <1>13. ASSUME NEW i \in 1..Len(M), NEW j \in 1..Len(M),
                M[i].type = "block_reward", M[j].type = "block_reward", M[i].related = M[j].related
         PROVE  i = j
    <2>1. CASE i \in 1..n /\ j \in 1..n
      BY <1>6, <1>7, <1>13, <2>1
    <2>2. CASE i \in 1..n /\ j = n + 1
      BY <1>4, <1>7, <1>10, <1>13, <2>2
    <2>3. CASE i = n + 1 /\ j \in 1..n
      BY <1>4, <1>7, <1>10, <1>13, <2>3
    <2> QED  BY <1>8, <2>1, <2>2, <2>3
  <1>14. PaidFor(M, s, P \cup {l})
    BY <1>11, <1>12, <1>13 DEF PaidFor
  <1> QED  BY <1>3, <1>9, <1>14 DEF Quiet, c, id, L, M

(* A block begins with its reward. *)
LEMMA RewardedSettles ==
    ASSUME NEW b, Kept(b), NEW h \in Nat \ {0}, Booked(b, h + 1),
           NEW s, Len(s) = h - 1, Settled(b, s, h - 1),
           NEW s2, Len(s2) = h, \A k \in 1..(h - 1) : s2[k] = s[k], Named(s2), Distinct(s2)
    PROVE  LET c == Rewarded(b, Miner[s2[h].id], h, s2[h].id)
           IN  /\ Quiet(b, c, h + 1)
               /\ Settled(c, s2, IF MaturityDepth = 0 THEN h ELSE h - 1)
  <1> DEFINE id     == s2[h].id
             reward == [height |-> h, account |-> Miner[id], due |-> h + MaturityDepth,
                        mature |-> MaturityDepth = 0, related |-> id]
             noted  == [b EXCEPT !.rewards = Append(@, reward)]
             m      == IF MaturityDepth = 0 THEN h ELSE h - 1
  <1>1. MaturityDepth \in Nat /\ h \in 1..h /\ Len(s2) = h /\ h - 1 \in Nat
    BY DepthTyped
  <1>2. id \in BlockIds
    BY <1>1 DEF Named
  <1>3. reward = RewardFor(s2, h, m)
    BY <1>1 DEF RewardFor
  <1>4. \A k \in 1..(h - 1) : RewardFor(s2, k, m) = RewardFor(s, k, h - 1)
    <2> SUFFICES ASSUME NEW k \in 1..(h - 1)  PROVE RewardFor(s2, k, m) = RewardFor(s, k, h - 1)
      OBVIOUS
    <2>1. s2[k] = s[k] /\ (k + MaturityDepth <= m <=> k + MaturityDepth <= h - 1)
      BY <1>1
    <2> HIDE DEF m
    <2> QED  BY <2>1 DEF RewardFor
  <1>5. b.rewards \in Seq(RewardRows) /\ Len(b.rewards) = h - 1
        /\ \A k \in 1..(h - 1) : b.rewards[k] = RewardFor(s, k, h - 1)
    BY <1>1 DEF Settled, RewardsOf, Kept
  <1>6. reward \in RewardRows
    BY <1>1, <1>2 DEF RewardRows
  <1> HIDE DEF reward
  <1>7. RewardsOf(Append(b.rewards, reward), s2, m)
    <2> DEFINE rs == Append(b.rewards, reward)
    <2>1. Len(rs) = h /\ rs[h] = reward /\ \A k \in 1..(h - 1) : rs[k] = b.rewards[k]
      BY <1>1, <1>5, <1>6
    <2> HIDE DEF rs, m
    <2>2. \A k \in 1..h : k = h \/ k \in 1..(h - 1)
      BY <1>1
    <2>3. RewardsOf(rs, s2, m)
      BY <1>3, <1>4, <1>5, <2>1, <2>2 DEF RewardsOf
    <2> QED  BY <2>3 DEF rs
  <1>8. /\ DOMAIN noted = Columns /\ noted.rewards = Append(b.rewards, reward)
        /\ noted.ledger = b.ledger /\ noted.balances = b.balances
        /\ noted.fund = b.fund /\ noted.epochs = b.epochs
    BY DEF Kept, Columns
  <1> HIDE DEF noted
  <1>9. Booked(noted, h + 1) /\ Quiet(b, noted, h + 1)
    BY <1>8 DEF Booked, Quiet, SameTreasury
  <1>10. PaidFor(noted.ledger, s2, Mature(s, h - 1))
    <2>1. \A k \in Mature(s, h - 1) : s2[k] = s[k]
      BY DEF Mature
    <2>2. PaidFor(b.ledger, s, Mature(s, h - 1))
      BY DEF Settled
    <2> QED  BY <1>8, <2>1, <2>2, PaidAlike
  <1>11. CASE MaturityDepth # 0
    <2>1. Mature(s2, h - 1) = Mature(s, h - 1)
      BY <1>1, <1>11 DEF Mature
    <2>2. m = h - 1 /\ Rewarded(b, Miner[id], h, id) = noted
      BY <1>11 DEF Rewarded, noted, reward
    <2> QED  BY <1>7, <1>8, <1>9, <1>10, <1>11, <2>1, <2>2 DEF Settled
  <1>12. CASE MaturityDepth = 0
    <2> DEFINE P == Mature(s, h - 1)
               c == Pay(noted, "block_reward", Miner[s2[h].id], MinerReward, h, s2[h].id)
    <2>1. m = h /\ Rewarded(b, Miner[id], h, id) = c
      BY <1>12 DEF Rewarded, noted, reward
    <2>2. P \in SUBSET (1..Len(s2)) /\ h \notin P /\ h \in 1..Len(s2) /\ h = h + MaturityDepth
          /\ h < h + 1 /\ h + 1 \in Int /\ h \in Nat
      BY <1>1, <1>12 DEF Mature
    <2>3. Mature(s2, h) = P \cup {h}
      BY <1>1, <1>12 DEF Mature
    <2> HIDE DEF P
    <2>4. /\ Quiet(noted, c, h + 1) /\ c.rewards = noted.rewards
          /\ PaidFor(c.ledger, s2, P \cup {h})
      <3> DEFINE k == h + 1
      <3>1. k \in Int /\ h < k /\ Booked(noted, k) /\ PaidFor(noted.ledger, s2, P)
        BY <1>9, <1>10, <2>2 DEF P
      <3> DEFINE n == noted
      <3>3. Booked(n, k) /\ PaidFor(n.ledger, s2, P) /\ Named(s2) /\ Distinct(s2)
        BY <3>1
      <3> DEFINE l == h
      <3>4. /\ l \in 1..Len(s2) /\ l \notin P /\ DueAt(l, h) /\ h < k /\ h \in Nat
            /\ k \in Int /\ P \in SUBSET (1..Len(s2))
        BY <2>2, <3>1 DEF DueAt
      <3> HIDE DEF k, c, n, l
      <3>2. LET d == Pay(n, "block_reward", Miner[s2[l].id], MinerReward, h, s2[l].id)
            IN  /\ Quiet(n, d, k) /\ d.rewards = n.rewards
                /\ PaidFor(d.ledger, s2, P \cup {l})
        <4> DEFINE d == Pay(n, "block_reward", Miner[s2[l].id], MinerReward, h, s2[l].id)
        <4>1. Quiet(n, d, k) /\ PaidFor(d.ledger, s2, P \cup {l}) /\ Alike(n, d)
          BY <3>3, <3>4, PaysReward
        <4> HIDE DEF d
        <4>2. d.rewards = n.rewards
          BY <4>1 DEF Alike
        <4> QED  BY <4>1, <4>2 DEF d
      <3> QED  BY <3>2 DEF k, c, n, l
    <2> HIDE DEF c
    <2>5. Quiet(b, c, h + 1)
      BY <1>9, <2>4, QuietFollows
    <2> QED  BY <1>7, <1>8, <1>12, <2>1, <2>3, <2>4, <2>5 DEF Settled
  <1> QED  BY <1>11, <1>12

PayBalance(balances, a, n) == [balances EXCEPT ![a] = @ + n]
LEMMA PayIsBalance ==
    ASSUME NEW b, DOMAIN b = Columns, NEW type, NEW who, NEW amount, NEW h, NEW related
    PROVE  LET c == Pay(b, type, who, amount, h, related)
           IN  DOMAIN c = Columns /\ c.balances = PayBalance(b.balances, who, amount)
  BY DEF Pay, PayBalance, Columns

(* mature_block_rewards pays what is due at the height of the block.        *)
PaidOut(s, m, h, w) ==
    IF m # h /\ h - MaturityDepth \in 1..h /\ Miner[s[h - MaturityDepth].id] = w
    THEN MinerReward ELSE 0

LEMMA MaturedPays ==
    ASSUME NEW b, Kept(b), NEW h \in Nat \ {0}, Booked(b, h + 1),
           NEW s, Len(s) = h, Named(s), Distinct(s),
           NEW m \in {h - 1, h}, Settled(b, s, m)
    PROVE  LET c == Matured(b, h)
           IN  /\ Quiet(b, c, h + 1) /\ Settled(c, s, h)
               /\ \A w \in Wallets : c.balances[w] = b.balances[w] + PaidOut(s, m, h, w)
  <1> DEFINE Due == {k \in 1..h : ~(k + MaturityDepth <= m) /\ k + MaturityDepth <= h}
             P(i) == Mature(s, m) \cup {k \in Due : k <= i}
             Share(i, w) == IF \E k \in Due : k <= i /\ Miner[s[k].id] = w THEN MinerReward ELSE 0
             marked == [i \in DOMAIN b.rewards |->
                          [b.rewards[i] EXCEPT !.mature =
                              @ \/ (~b.rewards[i].mature /\ b.rewards[i].due <= h)]]
             paid   == Paying(b, h)
  <1>1. Matured(b, h) = [paid EXCEPT !.rewards = marked]
    BY MaturedIs
  <1>2. /\ b.rewards \in Seq(RewardRows) /\ Len(b.rewards) = h /\ DOMAIN b.rewards = 1..h
        /\ \A k \in 1..h : b.rewards[k] = RewardFor(s, k, m)
    BY DEF Settled, RewardsOf, Kept
  <1>3. MaturityDepth \in Nat /\ m \in Int /\ h \in Nat /\ Len(s) = h /\ m <= h /\ h <= m + 1
    BY DepthTyped
  <1>5. PICK g : /\ g[0] = b /\ paid = g[h]
                 /\ \A i \in 1..h : g[i] = MatureStep(h, g[i - 1], b.rewards[i])
    <2>1. Len(b.rewards) \in Nat /\ DOMAIN b.rewards = 1..Len(b.rewards) /\ Len(b.rewards) = h
      BY <1>2, <1>3
    <2> QED  BY <2>1, MaturedRuns
  <1> HIDE DEF paid
  <1> DEFINE Good(i) == /\ Quiet(b, g[i], h + 1) /\ Alike(b, g[i])
                        /\ PaidFor(g[i].ledger, s, P(i))
                        /\ \A w \in Wallets : g[i].balances[w] = b.balances[w] + Share(i, w)
             Bad == {i \in 0..h : ~Good(i)}
  <1>6. Bad = {}
    <2> SUFFICES ASSUME Bad # {}  PROVE FALSE
      OBVIOUS
    <2>1. PICK i \in Bad : \A j \in Bad : i <= j
      <3>1. Bad \in SUBSET Nat
        BY <1>3
      <3> HIDE DEF Bad
      <3> QED  BY <3>1, SmallestNat
    <2>2. i # 0
      <3>1. P(0) = Mature(s, m)
        BY <1>3
      <3>2. Quiet(b, b, h + 1) /\ Alike(b, b)
        BY DEF Quiet, SameTreasury, Alike, SameRows, Kept
      <3>3. PaidFor(b.ledger, s, P(0))
        BY <3>1 DEF Settled
      <3>4. \A w \in Wallets : b.balances[w] = b.balances[w] + Share(0, w)
        <4>1. \A w \in Wallets : b.balances[w] \in Int
          BY WalletsAreAccounts DEF Booked
        <4>2. \A w \in Wallets : Share(0, w) = 0
          BY <1>3
        <4> HIDE DEF Share
        <4> QED  BY <4>1, <4>2
      <3>5. Good(0)
        <4> HIDE DEF P, Share
        <4>1. g[0] = b
          BY <1>5
        <4> QED  BY <4>1, <3>2, <3>3, <3>4
      <3> HIDE DEF Good
      <3> QED  BY <2>1, <3>5
    <2>3. i \in 1..h /\ i - 1 \in 0..h
      BY <1>3, <2>1, <2>2
    <2>4. i - 1 \notin Bad
      <3>1. ~(i <= i - 1)
        BY <2>3
      <3> HIDE DEF Bad
      <3> QED  BY <2>1, <3>1
    <2>5. Good(i - 1)
      BY <2>3, <2>4
    <2> DEFINE r == b.rewards[i]
               c == g[i - 1]
               p == Pay(c, "block_reward", Miner[s[i].id], MinerReward, h, s[i].id)
    <2>6. g[i] = MatureStep(h, c, r)
      BY <1>5, <2>3
    <2>7. /\ r.account = Miner[s[i].id] /\ r.related = s[i].id /\ r.due = i + MaturityDepth
          /\ r.mature <=> i + MaturityDepth <= m
      <3>1. r = RewardFor(s, i, m)
        BY <1>2, <2>3
      <3> HIDE DEF r
      <3> QED  BY <3>1 DEF RewardFor
    <2>8. Quiet(b, c, h + 1) /\ Alike(b, c) /\ PaidFor(c.ledger, s, P(i - 1))
          /\ \A w \in Wallets : c.balances[w] = b.balances[w] + Share(i - 1, w)
      <3> HIDE DEF P, Share
      <3> QED  BY <2>5
    <2>9. i \in Due <=> ~r.mature /\ r.due <= h
      BY <2>3, <2>7
    <2>10. (i \notin P(i - 1) /\ P(i - 1) \in SUBSET (1..Len(s))) \/ i \notin Due
      BY <1>3, <2>3 DEF Mature
    <2> HIDE DEF r, c
    <2>11. CASE i \in Due
      <3>1. P(i) = P(i - 1) \cup {i} /\ h = i + MaturityDepth
            /\ i \notin P(i - 1) /\ P(i - 1) \in SUBSET (1..Len(s))
        BY <1>3, <2>3, <2>10, <2>11
      <3>9. ASSUME NEW w \in Wallets
            PROVE  Share(i - 1, w) = 0 /\ Share(i, w) = IF Miner[s[i].id] = w THEN MinerReward ELSE 0
        <4>1. \A k \in Due : k = i
          BY <1>3, <2>3, <2>11, <3>1
        <4>2. i <= i /\ ~(i <= i - 1)
          BY <2>3
        <4> HIDE DEF Due
        <4> QED  BY <2>11, <4>1, <4>2
      <3> HIDE DEF Share
      <3> DEFINE Q == P(i - 1)
                 k == h + 1
      <3>2. k \in Int /\ h < k /\ Booked(c, k) /\ Q \in SUBSET (1..Len(s)) /\ i \notin Q
            /\ PaidFor(c.ledger, s, Q) /\ i \in 1..Len(s) /\ DueAt(i, h)
        BY <1>3, <2>3, <2>8, <3>1 DEF Quiet, DueAt
      <3> HIDE DEF Q, k, P
      <3>3. ~PaidBefore(c, r)
        <4>1. c.ledger \in Seq(LedgerRows)
          BY <3>2 DEF Booked
        <4>2. ASSUME NEW j \in DOMAIN c.ledger, c.ledger[j].type = "block_reward",
                     c.ledger[j].related = s[i].id
              PROVE FALSE
          <5>1. j \in 1..Len(c.ledger)
            BY <4>1
          <5>2. PICK l \in Q : c.ledger[j].related = s[l].id
            BY <3>2, <4>2, <5>1 DEF PaidFor
          <5>3. l \in 1..Len(s) /\ l = i
            BY <3>2, <4>2, <5>2 DEF Distinct
          <5> QED  BY <3>2, <5>2, <5>3
        <4> QED  BY <2>7, <4>2 DEF PaidBefore
      <3>4. g[i] = p
        BY <2>6, <2>7, <2>9, <2>11, <3>3 DEF MatureStep
      <3>5. Quiet(c, p, k) /\ Alike(c, p) /\ PaidFor(p.ledger, s, Q \cup {i})
        <4> HIDE DEF p
        <4>1. LET d == Pay(c, "block_reward", Miner[s[i].id], MinerReward, h, s[i].id)
              IN  /\ Quiet(c, d, k) /\ d.rewards = c.rewards /\ Alike(c, d)
                  /\ PaidFor(d.ledger, s, Q \cup {i})
          BY <3>1, <3>2, PaysReward
        <4> QED  BY <4>1 DEF p
      <3> HIDE DEF p
      <3>6. Quiet(b, p, h + 1) /\ Alike(b, p)
        BY <2>8, <3>5, QuietFollows, AlikeAlike DEF k
      <3>7. PaidFor(p.ledger, s, P(i))
        BY <3>1, <3>5 DEF Q
      <3>10. \A w \in Wallets : p.balances[w] = b.balances[w] + Share(i, w)
        <4>1. p.balances = PayBalance(c.balances, Miner[s[i].id], MinerReward)
          <5>1. DOMAIN c = Columns
            BY <2>8 DEF Quiet, Booked
          <5> QED  BY <5>1, PayIsBalance DEF p
        <4>2. b.balances \in [Accounts -> Int] /\ c.balances \in [Accounts -> Int] /\ MinerReward \in Int
          BY <2>8, DepthTyped DEF Quiet, Booked
        <4>3. \A w \in Wallets : w \in Accounts /\ c.balances[w] = b.balances[w] + 0
          BY <2>8, <3>9, WalletsAreAccounts
        <4>4. \A w \in Wallets : p.balances[w] = c.balances[w]
                                + IF Miner[s[i].id] = w THEN MinerReward ELSE 0
          BY <4>1, <4>2, <4>3 DEF PayBalance
        <4>5. \A w \in Wallets : b.balances[w] \in Int /\ c.balances[w] = b.balances[w]
          BY <4>2, <4>3
        <4> QED  BY <3>9, <4>4, <4>5
      <3>8. Good(i)
        BY <3>4, <3>6, <3>7, <3>10
      <3> HIDE DEF Good
      <3> QED  BY <2>1, <3>8
    <2>12. CASE i \notin Due
      <3>1. P(i) = P(i - 1)
        BY <1>3, <2>3, <2>12
      <3>2. g[i] = c
        BY <2>6, <2>9, <2>12 DEF MatureStep
      <3>4. \A w : Share(i, w) = Share(i - 1, w)
        <4>1. \A k \in Due : k <= i <=> k <= i - 1
          BY <1>3, <2>3, <2>12
        <4> QED  BY <4>1
      <3>3. Good(i)
        <4> HIDE DEF P, Share
        <4> QED  BY <2>8, <3>1, <3>2, <3>4
      <3> HIDE DEF Good
      <3> QED  BY <2>1, <3>3
    <2> QED  BY <2>11, <2>12
  <1>7. Good(h)
    <2>1. h \in 0..h
      BY <1>3
    <2> HIDE DEF Good
    <2> QED  BY <1>6, <2>1
  <1>8. P(h) = Mature(s, h)
    BY <1>3 DEF Mature
  <1>9. RewardsOf(marked, s, h)
    <2>1. DOMAIN marked = 1..h /\ Len(marked) = h
      <3>1. marked = [i \in 1..h |-> marked[i]]
        BY <1>2
      <3> HIDE DEF marked
      <3> QED  BY <1>3, <3>1
    <2>2. ASSUME NEW k \in 1..h  PROVE marked[k] = RewardFor(s, k, h)
      <3> DEFINE r == b.rewards[k]
      <3>1. r = RewardFor(s, k, m)
        BY <1>2
      <3> DEFINE v == r.mature \/ (~r.mature /\ r.due <= h)
      <3>2. marked[k] = [r EXCEPT !.mature = v]
        <4>1. k \in DOMAIN b.rewards
          BY <1>2
        <4> QED  BY <4>1
      <3> HIDE DEF r, marked
      <3> DEFINE w == k + MaturityDepth <= h
      <3>3. r.due = k + MaturityDepth /\ (r.mature <=> k + MaturityDepth <= m)
        BY <3>1 DEF RewardFor
      <3>4. k \in Int /\ (v <=> w)
        BY <1>3, <3>3
      <3>5. v = w
        <4>1. v \in BOOLEAN /\ w \in BOOLEAN
          OBVIOUS
        <4> HIDE DEF v, w
        <4> QED  BY <3>4, <4>1
      <3>6. [r EXCEPT !.mature = w] = RewardFor(s, k, h)
        BY <3>1 DEF RewardFor
      <3> HIDE DEF v, w
      <3> QED  BY <3>2, <3>5, <3>6
    <2> HIDE DEF marked
    <2> QED  BY <1>3, <2>1, <2>2 DEF RewardsOf
  <1> HIDE DEF marked
  <1>10. Quiet(b, paid, h + 1) /\ Alike(b, paid) /\ PaidFor(paid.ledger, s, Mature(s, h))
         /\ \A w \in Wallets : paid.balances[w] = b.balances[w] + Share(h, w)
    <2> HIDE DEF P, Share
    <2> QED  BY <1>5, <1>7, <1>8
  <1> DEFINE c == [paid EXCEPT !.rewards = marked]
  <1>11. /\ DOMAIN c = Columns /\ c.ledger = paid.ledger /\ c.balances = paid.balances
         /\ c.fund = paid.fund /\ c.epochs = paid.epochs /\ c.rewards = marked
    <2>1. DOMAIN paid = Columns
      BY <1>10 DEF Quiet, Booked
    <2> QED  BY <2>1 DEF Columns
  <1> HIDE DEF c
  <1>12. Booked(c, h + 1)
    BY <1>10, <1>11 DEF Quiet, Booked
  <1>13. Quiet(b, c, h + 1) /\ Settled(c, s, h)
    BY <1>9, <1>10, <1>11, <1>12 DEF Quiet, Settled
  <1>14. ASSUME NEW w  PROVE Share(h, w) = PaidOut(s, m, h, w)
    <2> DEFINE l == h - MaturityDepth
    <2>1. \A k : k \in Due <=> m # h /\ l \in 1..h /\ k = l
      BY <1>3
    <2>2. \A k \in Due : k <= h
      BY <1>3
    <2> HIDE DEF Due, l
    <2>3. (\E k \in Due : k <= h /\ Miner[s[k].id] = w) <=> m # h /\ l \in 1..h /\ Miner[s[l].id] = w
      BY <2>1, <2>2
    <2> QED  BY <2>3 DEF l, PaidOut
  <1> HIDE DEF Share
  <1> QED  BY <1>1, <1>10, <1>11, <1>13, <1>14 DEF c

LEMMA MaturedSettles ==
    ASSUME NEW b, Kept(b), NEW h \in Nat \ {0}, Booked(b, h + 1),
           NEW s, Len(s) = h, Named(s), Distinct(s),
           NEW m \in {h - 1, h}, Settled(b, s, m)
    PROVE  Quiet(b, Matured(b, h), h + 1) /\ Settled(Matured(b, h), s, h)
  BY MaturedPays

-------------------------------------------------------------------------------
(* The treasury: every block below a height accrued one share, and what was *)
(* claimed has left the account.                                           *)

Due(n) == n * TreasuryShare

(* L accrued for n blocks and paid c; j goes up to the height above top.    *)
Backed(L, top, n, c) ==
    \A j \in 1..(top + 1) :
        /\ Below(L, Accrual, Accounts, j) = Due(Lower(j - 1, n))
        /\ Below(L, EntryTypes, {Treasury}, j) = Due(Lower(j - 1, n)) - c

EpochRows == [locked : Int, unlocked : Int, status : {"none", "locked", "unlocked", "claimed"}]
FundFields == {"total", "locked", "unlocked", "claimed", "current"}
FundOk(b, n) ==
    /\ DOMAIN b.fund = FundFields
    /\ b.fund.total = Due(n)
    /\ b.fund.locked \in Int /\ b.fund.unlocked \in Int /\ b.fund.claimed \in Int
    /\ Due(n) - b.fund.claimed <= b.fund.locked + b.fund.unlocked
    /\ b.epochs \in [Quarters -> EpochRows]

(* The books with the rewards of the blocks s, those up to m mature, when   *)
(* n of them have accrued.                                                 *)
Treasured(b, top, n) == Backed(b.ledger, top, n, b.fund.claimed) /\ FundOk(b, n)
Ledgered(b, s) ==
    /\ Booked(b, Len(s) + 1) /\ Settled(b, s, Len(s))
    /\ Treasured(b, Len(s), Len(s))
    /\ Distinct(s) /\ Named(s)

LEMMA DueTyped ==
    /\ \A n \in Nat : Due(n) \in Int /\ Due(n + 1) = Due(n) + TreasuryShare
    /\ TreasuryShare \in Nat /\ Due(0) = 0
  <1>1. TreasuryShare \in Nat
    BY BooksAssumption
  <1> QED  BY <1>1 DEF Due

LEMMA QuietTreasured ==
    ASSUME NEW b, NEW c, NEW k, Quiet(b, c, k), NEW top \in Nat, NEW n \in Nat, Treasured(b, top, n)
    PROVE  Treasured(c, top, n)
  <1>1. \A j \in 1..(top + 1) : j \in Int
    OBVIOUS
  <1>2. c.fund = b.fund /\ c.epochs = b.epochs /\ SameTreasury(b.ledger, c.ledger)
    BY DEF Quiet
  <1> QED  BY <1>1, <1>2 DEF Treasured, Backed, FundOk, SameTreasury

(* No entry is at the height above the tip yet. *)
LEMMA TreasuredHigher ==
    ASSUME NEW b, NEW n \in Nat, Booked(b, n + 1), Treasured(b, n, n)
    PROVE  Booked(b, n + 2) /\ Treasured(b, n + 1, n)
  <1> DEFINE L == b.ledger
             k == n + 1
             k2 == n + 2
  <1>1. k \in Int /\ k2 \in Int /\ k <= k2 /\ Booked(b, k)
    OBVIOUS
  <1>2. Booked(b, k2)
    <2> HIDE DEF k, k2
    <2> QED  BY <1>1, BookedHigher
  <1>3. L \in Seq(LedgerRows) /\ \A i \in 1..Len(L) : L[i].height < k
    BY <1>1 DEF Booked
  <1>4. \A i \in 1..Len(L) : L[i].height \in Int
    <2> HIDE DEF L
    <2>1. \A i \in 1..Len(L) : L[i] \in LedgerRows
      BY <1>3
    <2> QED  BY <2>1, HeightsAreInt DEF LedgerRows
  <1>5. \A i \in 1..Len(L) : L[i].height < k2
    BY <1>3, <1>4
  <1>6. ASSUME NEW types, NEW who
        PROVE  Below(L, types, who, k2) = Below(L, types, who, k)
    <2> HIDE DEF L, k, k2
    <2>1. \A i \in 1..Len(L) : Counted(L[i], types, who, k2) = Counted(L[i], types, who, k)
      BY <1>3, <1>5 DEF Counted
    <2> QED  BY <1>1, <1>3, <2>1, BelowSame
  <1>7. ASSUME NEW j \in 1..(k + 1)
        PROVE  /\ Below(L, Accrual, Accounts, j) = Due(Lower(j - 1, n))
               /\ Below(L, EntryTypes, {Treasury}, j) = Due(Lower(j - 1, n)) - b.fund.claimed
    <2>1. \A i \in 1..(n + 1) :
             /\ Below(L, Accrual, Accounts, i) = Due(Lower(i - 1, n))
             /\ Below(L, EntryTypes, {Treasury}, i) = Due(Lower(i - 1, n)) - b.fund.claimed
      BY DEF Treasured, Backed
    <2>2. CASE j \in 1..(n + 1)
      BY <2>1, <2>2
    <2>3. CASE j = k2
      <3>1. Lower(k2 - 1, n) = n /\ Lower(k - 1, n) = n /\ k \in 1..(n + 1)
        BY DEF Lower
      <3>2. /\ Below(L, Accrual, Accounts, k) = Due(n)
            /\ Below(L, EntryTypes, {Treasury}, k) = Due(n) - b.fund.claimed
        <4> HIDE DEF L, k
        <4> QED  BY <2>1, <3>1
      <3> HIDE DEF L, k, k2
      <3> QED  BY <1>6, <2>3, <3>1, <3>2
    <2> QED  BY <2>2, <2>3
  <1>8. Treasured(b, n + 1, n)
    <2> HIDE DEF L
    <2>1. \A j \in 1..((n + 1) + 1) :
             /\ Below(L, Accrual, Accounts, j) = Due(Lower(j - 1, n))
             /\ Below(L, EntryTypes, {Treasury}, j) = Due(Lower(j - 1, n)) - b.fund.claimed
      BY <1>7
    <2> QED  BY <2>1 DEF Treasured, Backed, L
  <1> QED  BY <1>2, <1>8

LEMMA EpochLocks ==
    ASSUME NEW r \in EpochRows
    PROVE  [r EXCEPT !.locked = @ + TreasuryShare, !.status = "locked"] \in EpochRows
  <1>1. r.locked + TreasuryShare \in Int
    BY DueTyped DEF EpochRows
  <1> QED  BY <1>1 DEF EpochRows

(* An entry of the treasury is added, before height k. *)
LEMMA AppendAccrues ==
    ASSUME NEW L \in Seq(LedgerRows), NEW h \in Nat \ {0}, NEW c, c \in Int,
           Backed(L, h, h - 1, c),
           NEW e \in LedgerRows, e.type = "treasury_accrual", e.account = Treasury,
           e.amount = TreasuryShare, e.height = h
    PROVE  Backed(Append(L, e), h, h, c)
  <1> DEFINE M == Append(L, e)
  <1> SUFFICES ASSUME NEW j \in 1..(h + 1)
               PROVE  /\ Below(M, Accrual, Accounts, j) = Due(Lower(j - 1, h))
                      /\ Below(M, EntryTypes, {Treasury}, j) = Due(Lower(j - 1, h)) - c
    BY DEF Backed
  <1> DEFINE n == IF h < j THEN TreasuryShare ELSE 0
  <1>1. j \in Int /\ h - 1 \in Nat /\ j - 1 \in Nat /\ (h - 1) + 1 = h
    OBVIOUS
  <1>2. Counted(e, Accrual, Accounts, j) = n /\ Counted(e, EntryTypes, {Treasury}, j) = n
    BY WalletsAreAccounts DEF Counted, Accrual, EntryTypes
  <1>3. /\ Below(M, Accrual, Accounts, j) = Below(L, Accrual, Accounts, j) + n
        /\ Below(M, EntryTypes, {Treasury}, j) = Below(L, EntryTypes, {Treasury}, j) + n
    <2>1. /\ Below(M, Accrual, Accounts, j)
               = Below(L, Accrual, Accounts, j) + Counted(e, Accrual, Accounts, j)
          /\ Below(M, EntryTypes, {Treasury}, j)
               = Below(L, EntryTypes, {Treasury}, j) + Counted(e, EntryTypes, {Treasury}, j)
      BY <1>1, BelowAppends
    <2> HIDE DEF n, M
    <2> QED  BY <1>2, <2>1
  <1>4. /\ Below(L, Accrual, Accounts, j) = Due(Lower(j - 1, h - 1))
        /\ Below(L, EntryTypes, {Treasury}, j) = Due(Lower(j - 1, h - 1)) - c
    BY DEF Backed
  <1>5. Due(Lower(j - 1, h)) = Due(Lower(j - 1, h - 1)) + n
        /\ Due(Lower(j - 1, h - 1)) \in Int /\ n \in Int
    <2>1. CASE h < j
      <3>1. Lower(j - 1, h) = h /\ Lower(j - 1, h - 1) = h - 1 /\ n = TreasuryShare
        BY <1>1, <2>1 DEF Lower
      <3> DEFINE g == h - 1
      <3>2. g \in Nat /\ g + 1 = h
        BY <1>1
      <3> HIDE DEF g
      <3>3. Due(g + 1) = Due(g) + TreasuryShare /\ Due(g) \in Int
        BY <3>2, DueTyped
      <3>4. TreasuryShare \in Int
        BY DueTyped
      <3> QED  BY <3>1, <3>2, <3>3, <3>4 DEF g
    <2>2. CASE ~(h < j)
      <3>1. Lower(j - 1, h) = j - 1 /\ Lower(j - 1, h - 1) = j - 1 /\ n = 0
        BY <1>1, <2>2 DEF Lower
      <3>2. Due(j - 1) \in Int
        BY <1>1, DueTyped
      <3> QED  BY <3>1, <3>2
    <2> QED  BY <2>1, <2>2
  <1> HIDE DEF n, M
  <1> QED  BY <1>3, <1>4, <1>5

(* What a block accrues to the treasury is an entry like the others.      *)
LEMMA AccrualBooks ==
    ASSUME NEW b, NEW k \in Int, Booked(b, k), NEW h \in Nat, h < k
    PROVE  LET c == Pay(b, "treasury_accrual", Treasury, TreasuryShare, h, h)
               e == Entry("treasury_accrual", Treasury, TreasuryShare, h, h)
           IN  /\ Booked(c, k) /\ c.ledger = Append(b.ledger, e) /\ e \in LedgerRows
               /\ c.fund = b.fund /\ c.epochs = b.epochs /\ c.rewards = b.rewards
  <1> DEFINE type    == "treasury_accrual"
             owner   == Treasury
             amount  == TreasuryShare
             related == h
  <1>1. /\ type \in EntryTypes /\ owner \in Accounts /\ amount \in Int /\ h \in Heights
        /\ related \in {"genesis", "claim"} \cup Txs \cup BlockIds \cup Nat
    BY BooksAssumption, WalletsAreAccounts DEF Heights, EntryTypes
  <1> HIDE DEF type, owner, amount, related
  <1>2. LET c == Pay(b, type, owner, amount, h, related)
            e == Entry(type, owner, amount, h, related)
        IN  /\ Booked(c, k) /\ c.ledger = Append(b.ledger, e) /\ e \in LedgerRows
            /\ c.fund = b.fund /\ c.epochs = b.epochs /\ c.rewards = b.rewards
    BY <1>1, PayBooks
  <1> QED  BY <1>2 DEF type, owner, amount, related

LEMMA AccruedPays ==
    ASSUME NEW b, NEW h \in Nat \ {0}, Booked(b, h + 1), NEW s, NEW m, Settled(b, s, m),
           Treasured(b, h, h - 1), NEW q
    PROVE  LET c == Accrued(b, h, q)
           IN  Booked(c, h + 1) /\ Settled(c, s, m) /\ Treasured(c, h, h)
  <1> DEFINE share == Pay(b, "science_reserve_accrual", Reserve, ReserveShare, h, h)
             fund  == Pay(share, "treasury_accrual", Treasury, TreasuryShare, h, h)
             pool  == Pay(fund, "validator_reward", Pool, PoolReward, h, h)
             c     == Accrued(b, h, q)
             k     == h + 1
             e     == Entry("treasury_accrual", Treasury, TreasuryShare, h, h)
  <1>1. /\ k \in Int /\ h < k /\ h \in Heights
        /\ h \in {"genesis", "claim"} \cup Txs \cup BlockIds \cup Nat
        /\ {"science_reserve_accrual", "validator_reward"} \subseteq EntryTypes \ {"treasury_accrual", "block_reward"}
        /\ "treasury_accrual" \in EntryTypes
        /\ Reserve \in Accounts \ {Treasury} /\ Pool \in Accounts \ {Treasury} /\ Treasury \in Accounts
        /\ ReserveShare \in Int /\ TreasuryShare \in Int /\ PoolReward \in Int
    BY BooksAssumption, WalletsAreAccounts DEF Heights, EntryTypes
  <1>2. Booked(b, k)
    OBVIOUS
  <1> HIDE DEF k
  <1>3. Moves(b, share, k)
    <2> DEFINE type == "science_reserve_accrual"
    <2>1. type \in EntryTypes \ {"treasury_accrual", "block_reward"}
      BY <1>1
    <2> HIDE DEF type
    <2>2. Moves(b, Pay(b, type, Reserve, ReserveShare, h, h), k)
      BY <1>1, <1>2, <2>1, PayMoves
    <2> QED  BY <2>2 DEF type
  <1> HIDE DEF share
  <1>4. Booked(share, k) /\ Settled(share, s, m) /\ Treasured(share, h, h - 1)
    <2>1. Quiet(b, share, k) /\ h - 1 \in Nat
      BY <1>3 DEF Moves
    <2>2. Treasured(share, h, h - 1)
      BY <2>1, QuietTreasured
    <2> QED  BY <1>3, <2>1, <2>2, MovesSettled DEF Quiet
  <1>5. /\ Booked(fund, k) /\ fund.ledger = Append(share.ledger, e) /\ e \in LedgerRows
        /\ fund.fund = share.fund /\ fund.epochs = share.epochs /\ fund.rewards = share.rewards
    <2> HIDE DEF fund, e
    <2>1. LET d == Pay(share, "treasury_accrual", Treasury, TreasuryShare, h, h)
              r == Entry("treasury_accrual", Treasury, TreasuryShare, h, h)
          IN  /\ Booked(d, k) /\ d.ledger = Append(share.ledger, r) /\ r \in LedgerRows
              /\ d.fund = share.fund /\ d.epochs = share.epochs /\ d.rewards = share.rewards
      BY <1>1, <1>4, AccrualBooks
    <2> QED  BY <2>1 DEF fund, e
  <1>6. /\ e.type = "treasury_accrual" /\ e.account = Treasury /\ e.amount = TreasuryShare
        /\ e.height = h
    BY DEF Entry
  <1> HIDE DEF e, fund
  <1> DEFINE L == share.ledger
             f == b.fund.claimed
  <1>7. L \in Seq(LedgerRows) /\ Backed(L, h, h - 1, f) /\ f \in Int /\ share.fund = b.fund
        /\ share.epochs = b.epochs
    BY <1>3, <1>4 DEF Booked, Treasured, FundOk, Moves, Quiet
  <1>8. Settled(fund, s, m)
    <2> HIDE DEF L
    <2>1. SamePaid(L, Append(L, e))
      BY <1>5, <1>6, <1>7, AppendKeepsPaid
    <2> QED  BY <1>4, <1>5, <2>1 DEF Settled, SamePaid, L
  <1>9. Backed(fund.ledger, h, h, f)
    <2> HIDE DEF L, f
    <2>1. Backed(Append(L, e), h, h, f)
      BY <1>5, <1>6, <1>7, AppendAccrues
    <2> QED  BY <1>5, <2>1 DEF L
  <1> HIDE DEF L
  <1>10. Moves(fund, pool, k)
    <2> DEFINE type == "validator_reward"
    <2>1. type \in EntryTypes \ {"treasury_accrual", "block_reward"}
      BY <1>1
    <2> HIDE DEF type
    <2>2. Moves(fund, Pay(fund, type, Pool, PoolReward, h, h), k)
      BY <1>1, <1>5, <2>1, PayMoves
    <2> QED  BY <2>2 DEF type
  <1>11. c = [pool EXCEPT !.fund.total = @ + TreasuryShare, !.fund.locked = @ + TreasuryShare,
                          !.fund.current = q,
                          !.epochs[q].locked = @ + TreasuryShare, !.epochs[q].status = "locked"]
    BY DEF Accrued, share, fund
  <1> HIDE DEF pool, c
  <1>12. /\ DOMAIN pool = Columns /\ Booked(pool, k) /\ Settled(pool, s, m)
         /\ pool.fund = b.fund /\ pool.epochs = b.epochs
    BY <1>5, <1>7, <1>8, <1>10, MovesSettled DEF Moves, Quiet, Booked
  <1>13. Backed(pool.ledger, h, h, f)
    <2>1. \A j \in 1..(h + 1) : j \in Int
      OBVIOUS
    <2>2. SameTreasury(fund.ledger, pool.ledger)
      BY <1>10 DEF Moves, Quiet
    <2> HIDE DEF f
    <2> QED  BY <1>9, <2>1, <2>2 DEF Backed, SameTreasury
  <1> DEFINE was == b.fund
             new == [was EXCEPT !.total = @ + TreasuryShare, !.locked = @ + TreasuryShare, !.current = q]
             ep  == b.epochs
             nep == [ep EXCEPT ![q].locked = @ + TreasuryShare, ![q].status = "locked"]
  <1>14. /\ DOMAIN c = Columns /\ c.ledger = pool.ledger /\ c.balances = pool.balances
         /\ c.rewards = pool.rewards /\ c.fund = new /\ c.epochs = nep
    <2>1. DOMAIN c = Columns
      BY <1>11, <1>12
    <2>2. c.ledger = pool.ledger /\ c.balances = pool.balances /\ c.rewards = pool.rewards
      BY <1>11, <1>12 DEF Columns
    <2>3. c.fund = new
      BY <1>11, <1>12 DEF Columns
    <2>4. c.epochs = nep
      BY <1>11, <1>12 DEF Columns
    <2> QED  BY <2>1, <2>2, <2>3, <2>4
  <1>15. Booked(c, k) /\ Settled(c, s, m)
    BY <1>12, <1>14 DEF Booked, Settled
  <1>16. /\ DOMAIN was = FundFields /\ was.total = Due(h - 1) /\ was.locked \in Int
         /\ was.unlocked \in Int /\ was.claimed \in Int
         /\ Due(h - 1) - was.claimed <= was.locked + was.unlocked
         /\ ep \in [Quarters -> EpochRows]
    BY <1>7, <1>4 DEF Treasured, FundOk
  <1>17. Due(h) = Due(h - 1) + TreasuryShare /\ Due(h - 1) \in Int /\ Due(h) \in Int
    <2> DEFINE g == h - 1
    <2>1. g \in Nat /\ g + 1 = h
      OBVIOUS
    <2> HIDE DEF g
    <2>2. Due(g + 1) = Due(g) + TreasuryShare /\ Due(g) \in Int
      BY <2>1, DueTyped
    <2> QED  BY <1>1, <2>1, <2>2 DEF g
  <1>18. nep \in [Quarters -> EpochRows]
    <2>1. CASE q \in Quarters
      <3> HIDE DEF ep
      <3>1. ep[q] \in EpochRows
        BY <1>16, <2>1
      <3> DEFINE row == [ep[q] EXCEPT !.locked = @ + TreasuryShare, !.status = "locked"]
      <3>3. row \in EpochRows /\ nep = [ep EXCEPT ![q] = row]
        <4> DEFINE r == ep[q]
        <4>1. r \in EpochRows
          BY <3>1
        <4> HIDE DEF r
        <4>2. [r EXCEPT !.locked = @ + TreasuryShare, !.status = "locked"] \in EpochRows
          BY <4>1, EpochLocks
        <4> QED  BY <4>2 DEF r
      <3> HIDE DEF row, nep
      <3> QED  BY <1>16, <2>1, <3>3
    <2>2. CASE q \notin Quarters
      <3> HIDE DEF ep
      <3>1. DOMAIN ep = Quarters
        BY <1>16
      <3>2. nep = ep
        <4>1. DOMAIN nep = Quarters /\ \A x \in Quarters : nep[x] = ep[x]
          BY <2>2, <3>1
        <4>2. nep = [x \in Quarters |-> nep[x]] /\ ep = [x \in Quarters |-> ep[x]]
          BY <1>16, <3>1
        <4> HIDE DEF nep
        <4> QED  BY <4>1, <4>2
      <3> QED  BY <1>16, <3>2
    <2> QED  BY <2>1, <2>2
  <1> HIDE DEF ep, nep, was
  <1>19. /\ DOMAIN new = FundFields /\ new.total = was.total + TreasuryShare
         /\ new.locked = was.locked + TreasuryShare /\ new.unlocked = was.unlocked
         /\ new.claimed = was.claimed
    BY <1>16 DEF FundFields
  <1> HIDE DEF new
  <1>20. FundOk(c, h)
    BY <1>1, <1>14, <1>16, <1>17, <1>18, <1>19 DEF FundOk
  <1>21. Treasured(c, h, h)
    BY <1>13, <1>14, <1>19, <1>20 DEF Treasured, was
  <1> QED  BY <1>15, <1>21 DEF k, c

(* s2 is s, up to n, with one more block at h, of id. *)
Extends(s, n, s2, h, id) ==
    /\ Len(s) = n /\ h = n + 1 /\ Len(s2) = h /\ \A k \in 1..n : s2[k] = s[k]
    /\ id = s2[h].id /\ Named(s2) /\ Distinct(s2)

(* The books while a block is executed.                                    *)
FirstOf(b, id, h) == Rewarded(b, Miner[id], h, id)
RunOf(b, txs, id, h, replay) == Execution(FirstOf(b, id, h), txs, Miner[id], h, replay)
DoneOf(b, txs, id, h, q, replay) == Accrued(RunOf(b, txs, id, h, replay).books, h, q)

(* Up to which height rewards have matured while the transactions of the   *)
(* block above n run.                                                      *)
TopOf(n) == IF MaturityDepth = 0 THEN n + 1 ELSE n

LEMMA BlockInParts ==
    ASSUME NEW b, Kept(b), NEW n \in Nat, NEW s, Ledgered(b, s), NEW h \in Nat \ {0},
           NEW s2, NEW id, Extends(s, n, s2, h, id), NEW txs \in Seq(Txs), NEW q, NEW replay,
           Block(b, txs, Miner[id], h, id, q, replay).ok
    PROVE  LET first == FirstOf(b, id, h)
               run   == RunOf(b, txs, id, h, replay)
               done  == DoneOf(b, txs, id, h, q, replay)
               last  == Matured(done, h)
           IN  /\ Block(b, txs, Miner[id], h, id, q, replay) = [ok |-> run.ok, books |-> last]
               /\ Kept(first) /\ SameRows(b, first) /\ Booked(first, h + 1)
               /\ Booked(run.books, h + 1) /\ Kept(run.books) /\ DOMAIN run.books.fund = FundFields
               /\ Booked(done, h + 1) /\ Kept(done) /\ Settled(done, s2, TopOf(h - 1))
               /\ Ledgered(last, s2)
  <1> USE DEF Extends
  <1> DEFINE first == FirstOf(b, id, h)
             run   == RunOf(b, txs, id, h, replay)
             done  == DoneOf(b, txs, id, h, q, replay)
             last  == Matured(done, h)
             k     == h + 1
             m     == TopOf(h - 1)
  <1>1. /\ Block(b, txs, Miner[id], h, id, q, replay).books = last
        /\ Block(b, txs, Miner[id], h, id, q, replay).ok = run.ok
    BY DEF Block, DoneOf, RunOf, FirstOf
  <1>2. id \in BlockIds /\ Miner[id] \in Wallets
    <2>1. h \in 1..Len(s2)
      OBVIOUS
    <2>2. id \in BlockIds
      BY <2>1 DEF Named
    <2> QED  BY <2>2, BlocksAssumption DEF BlockIds
  <1>3. Kept(first) /\ SameRows(b, first)
    BY <1>2, RewardedKeeps DEF FirstOf
  <1>4. Booked(b, k) /\ Treasured(b, h, n) /\ Settled(b, s, n) /\ k \in Int /\ h < k
        /\ m \in {h - 1, h} /\ n = h - 1
    <2>1. Booked(b, n + 1) /\ Treasured(b, n, n) /\ Settled(b, s, n)
      BY DEF Ledgered
    <2>2. Booked(b, n + 2) /\ Treasured(b, n + 1, n)
      BY <2>1, TreasuredHigher
    <2>3. n + 2 = k /\ n + 1 = h /\ n = h - 1 /\ k \in Int /\ h < k
      OBVIOUS
    <2>4. m \in {h - 1, h}
      BY <2>3 DEF TopOf
    <2> HIDE DEF k, m
    <2> QED  BY <2>1, <2>2, <2>3, <2>4
  <1>5. Quiet(b, first, k) /\ Settled(first, s2, m)
    <2>1. /\ Len(s) = h - 1 /\ Settled(b, s, h - 1) /\ Booked(b, h + 1)
          /\ \A i \in 1..(h - 1) : s2[i] = s[i]
      BY <1>4
    <2>2. LET c == Rewarded(b, Miner[s2[h].id], h, s2[h].id)
          IN  /\ Quiet(b, c, h + 1)
              /\ Settled(c, s2, IF MaturityDepth = 0 THEN h ELSE h - 1)
      BY <2>1, RewardedSettles
    <2>3. m = IF MaturityDepth = 0 THEN h ELSE h - 1
      BY <1>4 DEF TopOf
    <2>4. first = Rewarded(b, Miner[s2[h].id], h, s2[h].id)
      BY DEF FirstOf
    <2> HIDE DEF first, m
    <2> QED  BY <2>2, <2>3, <2>4
  <1> HIDE DEF first, m
  <1>6. run.ok
    BY <1>1
  <1>7. Kept(run.books)
    <2>2. run = Execution(first, txs, Miner[id], h, replay)
      BY DEF RunOf, first
    <2> HIDE DEF run
    <2>1. Advanced(first, run.books, ToSet(txs), h)
      BY <1>3, <1>6, <2>2, ExecutionAdvances
    <2> QED  BY <2>1 DEF Advanced
  <1>8. Moves(first, run.books, k)
    <2> HIDE DEF k
    <2>1. Booked(first, k)
      BY <1>5 DEF Quiet
    <2>2. run = Execution(first, txs, Miner[id], h, replay)
      BY DEF RunOf, first
    <2> HIDE DEF run
    <2> QED  BY <1>2, <1>4, <2>1, <2>2, ExecutionMoves
  <1> HIDE DEF run
  <1>9. Booked(run.books, k) /\ Settled(run.books, s2, m) /\ Treasured(run.books, h, h - 1)
    <2> HIDE DEF k
    <2>1. Quiet(first, run.books, k)
      BY <1>8 DEF Moves
    <2>2. Quiet(b, run.books, k)
      BY <1>5, <2>1, QuietFollows
    <2>3. Treasured(run.books, h, n)
      BY <1>4, <2>2, QuietTreasured
    <2>4. Settled(run.books, s2, m)
      BY <1>5, <1>8, MovesSettled
    <2>5. n = h - 1
      BY <1>4
    <2> QED  BY <2>2, <2>3, <2>4, <2>5 DEF Quiet
  <1>10. Booked(done, k) /\ Settled(done, s2, m) /\ Treasured(done, h, h)
    <2> DEFINE r == run.books
    <2>1. Booked(r, h + 1) /\ Settled(r, s2, m) /\ Treasured(r, h, h - 1)
      BY <1>9
    <2>3. done = Accrued(r, h, q)
      BY DEF DoneOf, run
    <2> HIDE DEF r, done
    <2>2. LET c == Accrued(r, h, q)
          IN  Booked(c, h + 1) /\ Settled(c, s2, m) /\ Treasured(c, h, h)
      BY <2>1, AccruedPays
    <2> QED  BY <2>2, <2>3
  <1>11. Kept(done)
    <2>1. Alike(run.books, done)
      BY <1>7, AccruedAlike DEF Kept, DoneOf, run
    <2> HIDE DEF done
    <2> QED  BY <1>7, <2>1, AlikeKept
  <1> HIDE DEF done
  <1>12. Quiet(done, last, k) /\ Settled(last, s2, h)
    <2>1. Booked(done, h + 1)
      BY <1>10
    <2>2. Quiet(done, Matured(done, h), h + 1) /\ Settled(Matured(done, h), s2, h)
      BY <1>4, <1>10, <1>11, <2>1, MaturedSettles
    <2> QED  BY <2>2
  <1> HIDE DEF last
  <1>13. Treasured(last, h, h)
    <2> HIDE DEF k
    <2>1. h \in Nat
      OBVIOUS
    <2> QED  BY <1>10, <1>12, <2>1, QuietTreasured
  <1>14. Ledgered(last, s2)
    BY <1>12, <1>13 DEF Ledgered, Quiet
  <1>15. Booked(first, h + 1) /\ Booked(run.books, h + 1) /\ Booked(done, h + 1)
         /\ DOMAIN run.books.fund = FundFields
    BY <1>5, <1>9, <1>10 DEF Quiet, Treasured, FundOk
  <1>16. Block(b, txs, Miner[id], h, id, q, replay) = [ok |-> run.ok, books |-> last]
    BY DEF Block, DoneOf, RunOf, FirstOf, first, run, done, last
  <1>17. Settled(done, s2, m)
    BY <1>10
  <1> QED  BY <1>3, <1>7, <1>11, <1>14, <1>15, <1>16, <1>17 DEF first, run, done, last, m

(* A block adds its reward, its accrual, and what matures with it.          *)
LEMMA BlockLedgered ==
    ASSUME NEW b, Kept(b), NEW n \in Nat, NEW s, Ledgered(b, s), NEW h \in Nat \ {0},
           NEW s2, NEW id, Extends(s, n, s2, h, id), NEW txs \in Seq(Txs), NEW q, NEW replay,
           Block(b, txs, Miner[id], h, id, q, replay).ok
    PROVE  Ledgered(Block(b, txs, Miner[id], h, id, q, replay).books, s2)
  <1> DEFINE run == RunOf(b, txs, id, h, replay)
             last == Matured(DoneOf(b, txs, id, h, q, replay), h)
  <1>1. Block(b, txs, Miner[id], h, id, q, replay) = [ok |-> run.ok, books |-> last] /\ Ledgered(last, s2)
    BY BlockInParts
  <1> HIDE DEF last, run
  <1> QED  BY <1>1

-------------------------------------------------------------------------------
(* A block is taken back.                                                  *)

LEMMA RowsOfLedger ==
    ASSUME NEW L \in Seq(LedgerRows)
    PROVE  /\ Len(L) \in Nat /\ DOMAIN L = 1..Len(L)
           /\ \A i \in 1..Len(L) : /\ L[i] \in LedgerRows /\ L[i].type \in EntryTypes
                                   /\ L[i].account \in Accounts /\ L[i].amount \in Int
                                   /\ L[i].height \in Int
  <1>1. Len(L) \in Nat /\ DOMAIN L = 1..Len(L) /\ \A i \in 1..Len(L) : L[i] \in LedgerRows
    OBVIOUS
  <1> QED  BY <1>1, HeightsAreInt DEF LedgerRows

(* Every balance is rebuilt from the whole ledger. *)
LEMMA BalancesAreBelow ==
    ASSUME NEW L \in Seq(LedgerRows), NEW k \in Int, \A i \in 1..Len(L) : L[i].height < k
    PROVE  /\ BalancesFrom(L) \in [Accounts -> Int]
           /\ \A a \in Accounts : BalancesFrom(L)[a] = Below(L, EntryTypes, {a}, k)
  <1>1. ASSUME NEW a \in Accounts  PROVE BalancesFrom(L)[a] = Below(L, EntryTypes, {a}, k)
    <2> DEFINE w == [i \in DOMAIN L |-> IF L[i].account = a THEN L[i].amount ELSE 0]
    <2>1. w = CountedIn(L, EntryTypes, {a}, k)
      <3>1. \A i \in DOMAIN L : w[i] = Counted(L[i], EntryTypes, {a}, k)
        BY RowsOfLedger DEF Counted
      <3> HIDE DEF w
      <3>2. w = [i \in DOMAIN L |-> w[i]]
        BY DEF w
      <3> QED  BY <3>1, <3>2 DEF CountedIn
    <2>2. BalancesFrom(L)[a] = SumSeq(w)
      BY DEF BalancesFrom, Total
    <2> HIDE DEF w
    <2> QED  BY <2>1, <2>2 DEF Below
  <1>2. \A a \in Accounts : BalancesFrom(L)[a] \in Int
    BY <1>1, BelowIsInt
  <1>3. BalancesFrom(L) = [a \in Accounts |-> BalancesFrom(L)[a]]
    BY DEF BalancesFrom
  <1> QED  BY <1>1, <1>2, <1>3

(* What the treasury accrued at h and above is what it accrued without it.  *)
LEMMA AccruedAbove ==
    ASSUME NEW b, b.ledger \in Seq(LedgerRows), NEW h \in Int, NEW k \in Int, h <= k,
           \A i \in 1..Len(b.ledger) : b.ledger[i].height < k
    PROVE  /\ AccruedFrom(b, h) \in Int
           /\ Below(b.ledger, Accrual, Accounts, k)
                = Below(b.ledger, Accrual, Accounts, h) + AccruedFrom(b, h)
  <1> DEFINE L == b.ledger
             w == CountedIn(L, Accrual, Accounts, h)
             x == CountedIn(L, Accrual, Accounts, k)
             v == [i \in DOMAIN L |->
                     IF L[i].type = "treasury_accrual" /\ L[i].height >= h THEN L[i].amount ELSE 0]
  <1>1. AccruedFrom(b, h) = SumSeq(v)
    BY DEF AccruedFrom, Total
  <1>2. L \in Seq(LedgerRows) /\ \A i \in 1..Len(L) : L[i].height < k
    OBVIOUS
  <1> HIDE DEF L
  <1>3. /\ w \in Seq(Int) /\ Len(w) = Len(L) /\ x \in Seq(Int) /\ Len(x) = Len(L)
        /\ \A i \in 1..Len(L) : /\ w[i] = Counted(L[i], Accrual, Accounts, h)
                                /\ x[i] = Counted(L[i], Accrual, Accounts, k)
    BY <1>2, CountedTyped
  <1>4. /\ Len(L) \in Nat /\ DOMAIN L = 1..Len(L)
        /\ \A i \in 1..Len(L) : /\ L[i].account \in Accounts /\ L[i].amount \in Int
                                /\ L[i].height \in Int
    BY <1>2, RowsOfLedger
  <1>5. v \in Seq(Int) /\ Len(v) = Len(L)
    <2>1. \A i \in 1..Len(L) : v[i] \in Int
      BY <1>4
    <2>2. v = [i \in 1..Len(L) |-> v[i]]
      BY <1>4
    <2> HIDE DEF v
    <2> QED  BY <1>4, <2>1, <2>2
  <1>6. \A i \in 1..Len(L) : x[i] = w[i] + v[i]
    <2> SUFFICES ASSUME NEW i \in 1..Len(L)  PROVE x[i] = w[i] + v[i]
      OBVIOUS
    <2>1. /\ w[i] = Counted(L[i], Accrual, Accounts, h) /\ x[i] = Counted(L[i], Accrual, Accounts, k)
          /\ v[i] = IF L[i].type = "treasury_accrual" /\ L[i].height >= h THEN L[i].amount ELSE 0
      BY <1>3, <1>4
    <2> HIDE DEF w, x, v
    <2> QED  BY <1>2, <1>4, <2>1 DEF Counted, Accrual
  <1> HIDE DEF w, x, v
  <1>7. SumSeq(x) = SumSeq(w) + SumSeq(v)
    <2>1. Len(v) = Len(w) /\ Len(x) = Len(w) /\ \A i \in 1..Len(w) : x[i] = w[i] + v[i]
      BY <1>3, <1>5, <1>6
    <2> QED  BY <1>3, <1>5, <2>1, SumAdds
  <1>8. SumSeq(v) \in Int
    BY <1>5, SeqSumIsInt
  <1> QED  BY <1>1, <1>7, <1>8 DEF Below, w, x, L

LEMMA UndoneBooked ==
    ASSUME NEW b, NEW k \in Int, Booked(b, k), NEW h \in Int
    PROVE  Booked(WithoutBlock(b, h), h)
  <1> DEFINE c == WithoutBlock(b, h)
             M == LedgerWithout(b, h)
  <1>1. DOMAIN c = Columns /\ c.ledger = M /\ c.balances = BalancesFrom(M)
    BY DEF WithoutBlock, Columns
  <1> HIDE DEF c
  <1>2. PICK f : Selects(b.ledger, h, M, Len(b.ledger), f)
    BY LedgerWithoutSelects DEF Booked
  <1> HIDE DEF M
  <1>3. M \in Seq(LedgerRows) /\ \A i \in 1..Len(M) : M[i].height < h
    BY <1>2 DEF Selects
  <1> QED  BY <1>1, <1>3, BalancesAreBelow DEF Booked, c

LEMMA UndonePaid ==
    ASSUME NEW b, b.ledger \in Seq(LedgerRows), NEW n \in Nat \ {0}, NEW s, Len(s) = n, Distinct(s),
           PaidFor(b.ledger, s, Mature(s, n)),
           NEW s1, Len(s1) = n - 1, \A k \in 1..(n - 1) : s1[k] = s[k]
    PROVE  PaidFor(LedgerWithout(b, n), s1, Mature(s1, n - 1))
  <1> DEFINE L == b.ledger
             M == LedgerWithout(b, n)
             P == Mature(s, n)
             Q == Mature(s1, n - 1)
  <1>1. PICK f : Selects(L, n, M, Len(L), f)
    BY LedgerWithoutSelects
  <1> HIDE DEF M
  <1>2. /\ \A l \in 1..Len(M) : f[l] \in 1..Len(L) /\ M[l] = L[f[l]] /\ L[f[l]].height < n
        /\ \A l, m \in 1..Len(M) : f[l] = f[m] => l = m
        /\ \A j \in 1..Len(L) : L[j].height < n => \E l \in 1..Len(M) : f[l] = j
    BY <1>1 DEF Selects
  <1>3. /\ \A i \in 1..Len(L) : L[i].type = "block_reward" =>
             \E k \in P : /\ L[i].related = s[k].id /\ L[i].account = Miner[s[k].id]
                          /\ L[i].height = k + MaturityDepth
        /\ \A k \in P : \E i \in 1..Len(L) :
             /\ L[i].type = "block_reward"
             /\ L[i].related = s[k].id /\ L[i].account = Miner[s[k].id]
        /\ \A i, j \in 1..Len(L) :
             /\ L[i].type = "block_reward" /\ L[j].type = "block_reward"
             /\ L[i].related = L[j].related
             => i = j
    BY DEF PaidFor
  <1>4. \A k : k \in Q <=> k \in P /\ k + MaturityDepth < n
    BY DepthTyped DEF Mature
  <1>5. \A k \in Q : s1[k] = s[k]
    BY DEF Mature
  <1>6. \A k, l \in P : s[k].id = s[l].id => k = l
    BY DEF Distinct, Mature
  <1> HIDE DEF L, P, Q
  <1>7. ASSUME NEW l \in 1..Len(M), M[l].type = "block_reward"
        PROVE  \E k \in Q : /\ M[l].related = s1[k].id /\ M[l].account = Miner[s1[k].id]
                            /\ M[l].height = k + MaturityDepth
    <2>1. f[l] \in 1..Len(L) /\ M[l] = L[f[l]] /\ L[f[l]].height < n
      BY <1>2
    <2>2. PICK k \in P : /\ M[l].related = s[k].id /\ M[l].account = Miner[s[k].id]
                         /\ M[l].height = k + MaturityDepth
      BY <1>3, <1>7, <2>1
    <2>3. k \in Q
      BY <1>4, <2>1, <2>2
    <2> QED  BY <1>5, <2>2, <2>3
  <1>8. ASSUME NEW k \in Q
        PROVE  \E l \in 1..Len(M) : /\ M[l].type = "block_reward"
                                    /\ M[l].related = s1[k].id /\ M[l].account = Miner[s1[k].id]
    <2>1. k \in P /\ k + MaturityDepth < n /\ s1[k] = s[k]
      BY <1>4, <1>5
    <2>2. PICK i \in 1..Len(L) : /\ L[i].type = "block_reward"
                                 /\ L[i].related = s[k].id /\ L[i].account = Miner[s[k].id]
      BY <1>3, <2>1
    <2>3. PICK j \in P : L[i].related = s[j].id /\ L[i].height = j + MaturityDepth
      BY <1>3, <2>2
    <2>4. j = k
      BY <1>6, <2>1, <2>2, <2>3
    <2>5. PICK l \in 1..Len(M) : f[l] = i
      BY <1>2, <2>1, <2>3, <2>4
    <2>6. M[l] = L[i]
      BY <1>2, <2>5
    <2> QED  BY <2>1, <2>2, <2>6
  <1>9. ASSUME NEW l \in 1..Len(M), NEW m \in 1..Len(M),
               M[l].type = "block_reward", M[m].type = "block_reward", M[l].related = M[m].related
        PROVE  l = m
    <2>1. /\ f[l] \in 1..Len(L) /\ M[l] = L[f[l]]
          /\ f[m] \in 1..Len(L) /\ M[m] = L[f[m]]
      BY <1>2
    <2>2. f[l] = f[m]
      BY <1>3, <1>9, <2>1
    <2> QED  BY <1>2, <2>2
  <1>10. PaidFor(M, s1, Q)
    BY <1>7, <1>8, <1>9 DEF PaidFor
  <1> QED  BY <1>10 DEF M, Q

LEMMA UndoneRewards ==
    ASSUME NEW b, Kept(b), NEW n \in Nat \ {0}, NEW s, Len(s) = n, RewardsOf(b.rewards, s, n),
           NEW s1, Len(s1) = n - 1, \A k \in 1..(n - 1) : s1[k] = s[k]
    PROVE  RewardsOf(RewardsWithout(b, n), s1, n - 1)
  <1> DEFINE R == b.rewards
  <1>1. PICK g : /\ g[0] = << >> /\ RewardsWithout(b, n) = g[n]
                 /\ \A i \in 1..n : g[i] = UndoStep(n, g[i - 1], R[i])
    <2>1. Len(b.rewards) \in Nat /\ DOMAIN b.rewards = 1..Len(b.rewards) /\ Len(b.rewards) = n
      BY DEF Kept, RewardsOf
    <2> QED  BY <2>1, UndoRuns
  <1>2. /\ Len(R) = n /\ DOMAIN R = 1..Len(R) /\ Len(R) \in Nat
        /\ \A k \in 1..n : R[k] = RewardFor(s, k, n)
    BY DEF Kept, RewardsOf
  <1> HIDE DEF R
  <1>3. /\ g[0] = << >> /\ RewardsWithout(b, n) = g[n]
        /\ \A i \in 1..n : g[i] = UndoStep(n, g[i - 1], R[i])
    BY <1>1
  <1>4. ASSUME NEW k \in 1..n
        PROVE  g[k] = IF k < n THEN Append(g[k - 1], RewardFor(s1, k, n - 1)) ELSE g[k - 1]
    <2> DEFINE r == R[k]
               v == r.mature /\ r.due < n
               w == k + MaturityDepth <= n - 1
    <2>1. r = RewardFor(s, k, n) /\ g[k] = UndoStep(n, g[k - 1], r)
      BY <1>2, <1>3
    <2> HIDE DEF r
    <2>2. r.height = k /\ r.due = k + MaturityDepth /\ (r.mature <=> k + MaturityDepth <= n)
      BY <2>1 DEF RewardFor
    <2>3. v = w
      <3>1. v <=> w
        BY <2>2, DepthTyped
      <3>2. v \in BOOLEAN /\ w \in BOOLEAN
        OBVIOUS
      <3> HIDE DEF v, w
      <3> QED  BY <3>1, <3>2
    <2>4. k < n => [r EXCEPT !.mature = w] = RewardFor(s1, k, n - 1)
      <3> SUFFICES ASSUME k < n  PROVE [r EXCEPT !.mature = w] = RewardFor(s1, k, n - 1)
        OBVIOUS
      <3>1. s1[k] = s[k]
        OBVIOUS
      <3> QED  BY <2>1, <3>1 DEF RewardFor
    <2>5. g[k] = IF k < n THEN Append(g[k - 1], [r EXCEPT !.mature = v]) ELSE g[k - 1]
      BY <2>1, <2>2 DEF UndoStep
    <2> HIDE DEF v, w
    <2> QED  BY <2>3, <2>4, <2>5
  <1> DEFINE Good(i) == /\ g[i] \in Seq(RewardRows) /\ Len(g[i]) = i
                        /\ \A k \in 1..i : g[i][k] = RewardFor(s1, k, n - 1)
             Bad == {i \in 0..(n - 1) : ~Good(i)}
  <1>5. \A k \in 1..(n - 1) : RewardFor(s1, k, n - 1) \in RewardRows
    <2> SUFFICES ASSUME NEW k \in 1..(n - 1)  PROVE RewardFor(s1, k, n - 1) \in RewardRows
      OBVIOUS
    <2>1. s1[k] = s[k] /\ k \in 1..n
      OBVIOUS
    <2>2. RewardFor(s, k, n) \in RewardRows
      <3>1. R[k] \in RewardRows
        BY <1>2, <2>1 DEF Kept, R
      <3> QED  BY <1>2, <2>1, <3>1
    <2>3. s[k].id \in BlockIds /\ k + MaturityDepth \in Nat
      BY <2>2, DepthTyped DEF RewardFor, RewardRows
    <2> QED  BY <2>1, <2>3 DEF RewardFor, RewardRows
  <1>6. Bad = {}
    <2> SUFFICES ASSUME Bad # {}  PROVE FALSE
      OBVIOUS
    <2>1. PICK i \in Bad : \A j \in Bad : i <= j
      <3>1. Bad \in SUBSET Nat
        OBVIOUS
      <3> HIDE DEF Bad
      <3> QED  BY <3>1, SmallestNat
    <2>2. i # 0
      <3>1. Good(0)
        BY <1>3
      <3> QED  BY <2>1, <3>1
    <2>3. i \in 1..(n - 1) /\ i - 1 \in 0..(n - 1) /\ i < n /\ i \in 1..n
      <3>1. i \in 0..(n - 1)
        BY <2>1
      <3> QED  BY <2>2, <3>1
    <2>4. i - 1 \notin Bad
      <3>1. ~(i <= i - 1)
        BY <2>3
      <3> HIDE DEF Bad
      <3> QED  BY <2>1, <3>1
    <2>5. Good(i - 1)
      BY <2>3, <2>4
    <2> DEFINE rest == g[i - 1]
               row  == RewardFor(s1, i, n - 1)
    <2>6. g[i] = Append(rest, row) /\ row \in RewardRows
      BY <1>4, <1>5, <2>3
    <2>7. /\ rest \in Seq(RewardRows) /\ Len(rest) = i - 1
          /\ \A k \in 1..(i - 1) : rest[k] = RewardFor(s1, k, n - 1)
      BY <2>5
    <2> HIDE DEF rest, row
    <2>8. /\ g[i] \in Seq(RewardRows) /\ Len(g[i]) = i /\ g[i][i] = row
          /\ \A k \in 1..(i - 1) : g[i][k] = rest[k]
      BY <2>3, <2>6, <2>7
    <2>9. \A k \in 1..i : k = i \/ k \in 1..(i - 1)
      BY <2>3
    <2>10. Good(i)
      BY <2>7, <2>8, <2>9 DEF row
    <2> QED  BY <2>1, <2>10
  <1>7. Good(n - 1) /\ g[n] = g[n - 1]
    <2>1. n - 1 \in 0..(n - 1) /\ n \in 1..n /\ ~(n < n)
      OBVIOUS
    <2>2. g[n] = g[n - 1]
      BY <1>4, <2>1
    <2> QED  BY <1>6, <2>1, <2>2
  <1> QED  BY <1>3, <1>7 DEF RewardsOf

LEMMA UndoneTreasured ==
    ASSUME NEW b, NEW n \in Nat \ {0}, Booked(b, n + 1), Treasured(b, n, n)
    PROVE  Treasured(WithoutBlock(b, n), n - 1, n - 1)
  <1> DEFINE c == WithoutBlock(b, n)
             M == LedgerWithout(b, n)
             L == b.ledger
             x == AccruedFrom(b, n)
             f == b.fund
  <1>1. /\ c.ledger = M
        /\ c.fund = [f EXCEPT !.total = AtLeast0(@ - x), !.locked = AtLeast0(@ - x)]
        /\ c.epochs = [q \in Quarters |-> IF q = f.current
                            THEN [b.epochs[q] EXCEPT !.locked = AtLeast0(@ - x)] ELSE b.epochs[q]]
    BY DEF WithoutBlock
  <1> HIDE DEF c
  <1>2. L \in Seq(LedgerRows) /\ \A i \in 1..Len(L) : L[i].height < n + 1
    BY DEF Booked
  <1>3. /\ \A j \in 1..(n + 1) : /\ Below(L, Accrual, Accounts, j) = Due(Lower(j - 1, n))
                                 /\ Below(L, EntryTypes, {Treasury}, j)
                                      = Due(Lower(j - 1, n)) - f.claimed
        /\ DOMAIN f = FundFields /\ f.total = Due(n)
        /\ f.locked \in Int /\ f.unlocked \in Int /\ f.claimed \in Int
        /\ Due(n) - f.claimed <= f.locked + f.unlocked
        /\ b.epochs \in [Quarters -> EpochRows]
    BY DEF Treasured, Backed, FundOk
  <1>4. /\ Due(n) = Due(n - 1) + TreasuryShare /\ Due(n - 1) \in Int /\ TreasuryShare \in Int
        /\ Due(n - 1) >= 0
    <2> DEFINE g == n - 1
    <2>1. g \in Nat /\ g + 1 = n /\ TreasuryShare \in Nat
      BY DueTyped
    <2> HIDE DEF g
    <2>2. Due(g + 1) = Due(g) + TreasuryShare /\ Due(g) \in Int
      BY <2>1, DueTyped
    <2>3. Due(g) >= 0
      BY <2>1 DEF Due
    <2> QED  BY <2>1, <2>2, <2>3 DEF g
  <1>5. x = TreasuryShare
    <2> DEFINE k == n + 1
    <2>1. Below(L, Accrual, Accounts, k) = Due(n) /\ Below(L, Accrual, Accounts, n) = Due(n - 1)
      <3>1. Lower(k - 1, n) = n /\ Lower(n - 1, n) = n - 1 /\ k \in 1..(n + 1) /\ n \in 1..(n + 1)
        BY DEF Lower
      <3> HIDE DEF k, L
      <3> QED  BY <1>3, <3>1
    <2>2. x \in Int /\ Below(L, Accrual, Accounts, k) = Below(L, Accrual, Accounts, n) + x
      <3>1. k \in Int /\ n \in Int /\ n <= k /\ \A i \in 1..Len(b.ledger) : b.ledger[i].height < k
        BY <1>2
      <3> HIDE DEF k
      <3> QED  BY <1>2, <3>1, AccruedAbove
    <2> HIDE DEF k, L, x
    <2> QED  BY <1>4, <2>1, <2>2
  <1>6. ASSUME NEW j \in 1..((n - 1) + 1)
        PROVE  /\ Below(M, Accrual, Accounts, j) = Due(Lower(j - 1, n - 1))
               /\ Below(M, EntryTypes, {Treasury}, j) = Due(Lower(j - 1, n - 1)) - f.claimed
    <2>1. Lower(j - 1, n) = j - 1 /\ Lower(j - 1, n - 1) = j - 1 /\ j \in 1..(n + 1) /\ j \in Int
          /\ Below(L, Accrual, Accounts, Lower(j, n)) = Below(L, Accrual, Accounts, j)
          /\ Below(L, EntryTypes, {Treasury}, Lower(j, n)) = Below(L, EntryTypes, {Treasury}, j)
      <3>1. Lower(j, n) = j
        BY DEF Lower
      <3> QED  BY <3>1 DEF Lower
    <2>2. /\ Below(M, Accrual, Accounts, j) = Below(L, Accrual, Accounts, Lower(j, n))
          /\ Below(M, EntryTypes, {Treasury}, j) = Below(L, EntryTypes, {Treasury}, Lower(j, n))
      BY <1>2, <2>1, LedgerWithoutSums
    <2> HIDE DEF L, M, f
    <2> QED  BY <1>3, <2>1, <2>2
  <1> HIDE DEF x
  <1>7. b.epochs \in [Quarters -> EpochRows] => c.epochs \in [Quarters -> EpochRows]
    <2> SUFFICES ASSUME b.epochs \in [Quarters -> EpochRows], NEW q \in Quarters
                 PROVE  c.epochs[q] \in EpochRows
      BY <1>1
    <2> DEFINE r == b.epochs[q]
    <2>1. r \in EpochRows
      OBVIOUS
    <2>2. c.epochs[q] \in {r, [r EXCEPT !.locked = AtLeast0(@ - x)]}
      BY <1>1
    <2> HIDE DEF r
    <2>3. AtLeast0(r.locked - x) \in Int
      BY <1>4, <1>5, <2>1 DEF AtLeast0, EpochRows
    <2>4. [r EXCEPT !.locked = AtLeast0(@ - x)] \in EpochRows
      BY <2>1, <2>3 DEF EpochRows
    <2> QED  BY <2>1, <2>2, <2>4
  <1>8. FundOk(c, n - 1)
    <2> DEFINE t == c.fund
    <2>1. /\ DOMAIN t = FundFields /\ t.total = AtLeast0(f.total - x)
          /\ t.locked = AtLeast0(f.locked - x) /\ t.unlocked = f.unlocked /\ t.claimed = f.claimed
      <3> HIDE DEF f
      <3> QED  BY <1>1, <1>3 DEF FundFields
    <2> HIDE DEF t, f
    <2>2. t.total = Due(n - 1)
      BY <1>3, <1>4, <1>5, <2>1 DEF AtLeast0
    <2>3. t.locked \in Int /\ t.locked >= f.locked - x
      BY <1>3, <1>4, <1>5, <2>1 DEF AtLeast0
    <2>4. Due(n - 1) - t.claimed <= t.locked + t.unlocked
      BY <1>3, <1>4, <1>5, <2>1, <2>3
    <2> QED  BY <1>3, <1>7, <2>1, <2>2, <2>3, <2>4 DEF FundOk, t
  <1>9. c.fund.claimed = f.claimed
    <2> HIDE DEF f
    <2> QED  BY <1>1, <1>3 DEF FundFields
  <1>10. Backed(c.ledger, n - 1, n - 1, c.fund.claimed)
    <2> HIDE DEF M, f
    <2> QED  BY <1>1, <1>6, <1>9 DEF Backed
  <1> QED  BY <1>8, <1>10 DEF Treasured, c

LEMMA UndoneLedgered ==
    ASSUME NEW b, Kept(b), NEW n \in Nat \ {0}, NEW s, Len(s) = n, Ledgered(b, s),
           NEW s1, Len(s1) = n - 1, \A k \in 1..(n - 1) : s1[k] = s[k]
    PROVE  Ledgered(WithoutBlock(b, n), s1)
  <1> DEFINE c == WithoutBlock(b, n)
  <1>1. /\ Booked(b, n + 1) /\ RewardsOf(b.rewards, s, n) /\ PaidFor(b.ledger, s, Mature(s, n))
        /\ Treasured(b, n, n) /\ Distinct(s) /\ Named(s) /\ b.ledger \in Seq(LedgerRows)
    BY DEF Ledgered, Settled, Booked
  <1>2. Distinct(s1) /\ Named(s1) /\ (n - 1) + 1 = n
    BY <1>1 DEF Distinct, Named
  <1>3. Booked(c, n)
    BY <1>1, UndoneBooked
  <1>4. Settled(c, s1, n - 1)
    <2>1. RewardsOf(RewardsWithout(b, n), s1, n - 1)
      BY <1>1, UndoneRewards
    <2>2. PaidFor(LedgerWithout(b, n), s1, Mature(s1, n - 1))
      BY <1>1, UndonePaid
    <2>3. c.rewards = RewardsWithout(b, n) /\ c.ledger = LedgerWithout(b, n)
      BY DEF WithoutBlock
    <2> QED  BY <2>1, <2>2, <2>3 DEF Settled
  <1>5. Treasured(c, n - 1, n - 1)
    BY <1>1, UndoneTreasured
  <1> QED  BY <1>2, <1>3, <1>4, <1>5 DEF Ledgered

-------------------------------------------------------------------------------
(* The treasury unlocks and is claimed.                                    *)

SameLedger(b, c) ==
    /\ DOMAIN c = Columns /\ c.ledger = b.ledger /\ c.balances = b.balances
    /\ c.rewards = b.rewards /\ c.fund = b.fund /\ c.epochs = b.epochs

LEMMA LedgeredStays ==
    \A b, c, s : Ledgered(b, s) /\ SameLedger(b, c) => Ledgered(c, s)
  BY DEF Ledgered, SameLedger, Booked, Settled, Treasured, FundOk

LEMMA SetToSeqOf ==
    ASSUME NEW S, IsFiniteSet(S)
    PROVE  /\ SetToSeq(S) \in Seq(S) /\ SetToSeq(S) \in Surjection(1..Len(SetToSeq(S)), S)
           /\ \A i, j \in 1..Len(SetToSeq(S)) : SetToSeq(S)[i] = SetToSeq(S)[j] => i = j
  <1> DEFINE n == Cardinality(S)
             f == SetToSeq(S)
  <1>1. n \in Nat /\ ExistsBijection(1..n, S)
    BY FS_CardinalityType
  <1>2. PICK g \in [1..n -> S] : \A i, j \in 1..n : g[i] = g[j] => i = j
    <2>1. PICK g \in Bijection(1..n, S) : TRUE
      BY <1>1 DEF ExistsBijection
    <2>2. g \in Injection(1..n, S)
      BY <2>1 DEF Bijection
    <2> QED  BY <2>2 DEF Injection, IsInjective
  <1>3. g \in [1..n -> S] /\ IsInjective(g)
    BY <1>2 DEF IsInjective
  <1>4. f \in [1..n -> S] /\ IsInjective(f)
    BY <1>3 DEF SetToSeq
  <1> HIDE DEF n, f
  <1>5. f \in Seq(S) /\ Len(f) = n /\ DOMAIN f = 1..n
    BY <1>1, <1>4
  <1>6. \A i, j \in 1..n : f[i] = f[j] => i = j
    BY <1>4, <1>5 DEF IsInjective
  <1>7. f \in Injection(1..n, S)
    BY <1>4, <1>6 DEF Injection
  <1>8. Cardinality(1..n) = Cardinality(S)
    <2>1. Cardinality(1..n) = n
      BY <1>1, FS_Interval
    <2> QED  BY <2>1 DEF n
  <1>9. f \in Surjection(1..n, S)
    BY <1>7, <1>8, FS_Injection
  <1> QED  BY <1>5, <1>6, <1>9 DEF f

LEMMA UnlockedLedgered ==
    ASSUME NEW b, NEW n \in Nat, NEW s, Len(s) = n, Ledgered(b, s), NEW past \in SUBSET Quarters
    PROVE  Ledgered(Unlocked(b, past), s)
  <1> DEFINE open   == { q \in past : b.epochs[q].status = "locked" /\ b.epochs[q].locked > 0 }
             amount == Total(SetToSeq(open), LAMBDA q : b.epochs[q].locked)
             c      == Unlocked(b, past)
             f      == b.fund
             t      == c.fund
  <1>1. /\ Booked(b, n + 1) /\ Settled(b, s, n) /\ Backed(b.ledger, n, n, f.claimed)
        /\ Distinct(s) /\ Named(s) /\ DOMAIN b = Columns
        /\ DOMAIN f = FundFields /\ f.total = Due(n)
        /\ f.locked \in Int /\ f.unlocked \in Int /\ f.claimed \in Int
        /\ Due(n) - f.claimed <= f.locked + f.unlocked
        /\ b.epochs \in [Quarters -> EpochRows]
    BY DEF Ledgered, Treasured, FundOk, Booked
  <1>2. c = [b EXCEPT
            !.epochs = [q \in Quarters |->
                IF q \in open THEN [locked |-> 0, unlocked |-> @[q].unlocked + @[q].locked,
                                    status |-> "unlocked"]
                ELSE @[q]],
            !.fund.locked = AtLeast0(@ - amount), !.fund.unlocked = @ + amount]
    BY DEF Unlocked
  <1>3. amount \in Int
    <2> DEFINE o == SetToSeq(open)
               w == [i \in DOMAIN o |-> b.epochs[o[i]].locked]
    <2>1. o \in Seq(open)
      <3>1. IsFiniteSet(open)
        BY BooksAssumption, FS_Subset
      <3> HIDE DEF open
      <3> QED  BY <3>1, SetToSeqOf
    <2>2. \A q \in open : b.epochs[q].locked \in Int
      BY <1>1 DEF EpochRows
    <2>3. amount = SumSeq(w)
      BY DEF Total
    <2> HIDE DEF o, open
    <2>4. Len(o) \in Nat /\ DOMAIN o = 1..Len(o) /\ \A i \in 1..Len(o) : o[i] \in open
      BY <2>1
    <2>5. \A i \in 1..Len(o) : w[i] \in Int
      BY <2>2, <2>4
    <2>6. w = [i \in 1..Len(o) |-> w[i]]
      BY <2>4
    <2> HIDE DEF w
    <2>7. w \in Seq(Int)
      BY <2>4, <2>5, <2>6
    <2> HIDE DEF amount
    <2> QED  BY <2>3, <2>7, SeqSumIsInt
  <1> HIDE DEF amount, c
  <1>4. /\ DOMAIN c = Columns /\ c.ledger = b.ledger /\ c.balances = b.balances
        /\ c.rewards = b.rewards
    BY <1>1, <1>2 DEF Columns
  <1>5. c.epochs = [q \in Quarters |->
                IF q \in open THEN [locked |-> 0, unlocked |-> b.epochs[q].unlocked + b.epochs[q].locked,
                                    status |-> "unlocked"]
                ELSE b.epochs[q]]
    BY <1>1, <1>2 DEF Columns
  <1>6. t = [f EXCEPT !.locked = AtLeast0(@ - amount), !.unlocked = @ + amount]
    BY <1>1, <1>2 DEF Columns
  <1>7. /\ DOMAIN t = FundFields /\ t.total = f.total /\ t.claimed = f.claimed
        /\ t.locked = AtLeast0(f.locked - amount) /\ t.unlocked = f.unlocked + amount
    <2> HIDE DEF f, t
    <2> QED  BY <1>1, <1>6 DEF FundFields
  <1>8. c.epochs \in [Quarters -> EpochRows]
    <2> SUFFICES ASSUME NEW q \in Quarters  PROVE c.epochs[q] \in EpochRows
      BY <1>5
    <2> DEFINE r == b.epochs[q]
               v == [locked |-> 0, unlocked |-> r.unlocked + r.locked, status |-> "unlocked"]
    <2>1. r \in EpochRows
      BY <1>1
    <2>2. c.epochs[q] \in {r, v}
      BY <1>5
    <2> HIDE DEF r
    <2>3. v \in EpochRows
      BY <2>1 DEF EpochRows
    <2> QED  BY <2>1, <2>2, <2>3
  <1>9. FundOk(c, n)
    <2> HIDE DEF f
    <2>1. /\ t.locked \in Int /\ t.unlocked \in Int
          /\ t.locked + t.unlocked >= f.locked + f.unlocked
      <3> HIDE DEF t
      <3> QED  BY <1>1, <1>3, <1>7, SMTT(30) DEF AtLeast0
    <2>2. Due(n) \in Int
      BY DueTyped
    <2>3. Due(n) - t.claimed <= t.locked + t.unlocked
      <3> HIDE DEF t
      <3> QED  BY <1>1, <1>7, <2>1, <2>2
    <2> QED  BY <1>1, <1>7, <1>8, <2>1, <2>3 DEF FundOk
  <1>10. Booked(c, n + 1) /\ Settled(c, s, n) /\ Backed(c.ledger, n, n, c.fund.claimed)
    BY <1>1, <1>4, <1>7 DEF Booked, Settled
  <1> QED  BY <1>1, <1>9, <1>10 DEF Ledgered, Treasured, c

(* A claim leaves the account of the treasury, at no height. *)
LEMMA AppendClaims ==
    ASSUME NEW L \in Seq(LedgerRows), NEW n \in Nat, NEW c \in Int, Backed(L, n, n, c),
           NEW amount \in Int, NEW e \in LedgerRows, e.type = "treasury_claim",
           e.account = Treasury, e.amount = -amount, e.height = NoHeight
    PROVE  Backed(Append(L, e), n, n, c + amount)
  <1> DEFINE M == Append(L, e)
             d == -amount
  <1> SUFFICES ASSUME NEW j \in 1..(n + 1)
               PROVE  /\ Below(M, Accrual, Accounts, j) = Due(Lower(j - 1, n))
                      /\ Below(M, EntryTypes, {Treasury}, j) = Due(Lower(j - 1, n)) - (c + amount)
    BY DEF Backed
  <1>1. j \in Int /\ Lower(j - 1, n) \in Nat /\ d \in Int /\ e.amount = d /\ NoHeight < j
    BY DEF Lower, NoHeight
  <1> HIDE DEF d
  <1>2. Counted(e, Accrual, Accounts, j) = 0 /\ Counted(e, EntryTypes, {Treasury}, j) = d
    BY <1>1 DEF Counted, Accrual, EntryTypes
  <1>3. /\ Below(M, Accrual, Accounts, j)
             = Below(L, Accrual, Accounts, j) + Counted(e, Accrual, Accounts, j)
        /\ Below(M, EntryTypes, {Treasury}, j)
             = Below(L, EntryTypes, {Treasury}, j) + Counted(e, EntryTypes, {Treasury}, j)
    BY <1>1, BelowAppends
  <1>4. /\ Below(L, Accrual, Accounts, j) = Due(Lower(j - 1, n))
        /\ Below(L, EntryTypes, {Treasury}, j) = Due(Lower(j - 1, n)) - c
    BY DEF Backed
  <1>5. Due(Lower(j - 1, n)) \in Int
    BY <1>1, DueTyped
  <1> HIDE DEF M
  <1> QED  BY <1>1, <1>2, <1>3, <1>4, <1>5 DEF d

LEMMA EpochClaims ==
    ASSUME NEW r \in EpochRows
    PROVE  [r EXCEPT !.unlocked = 0, !.status = "claimed"] \in EpochRows
  <1> DEFINE zero == 0
             over == "claimed"
  <1>1. zero \in Int /\ over \in {"none", "locked", "unlocked", "claimed"}
    OBVIOUS
  <1> HIDE DEF zero, over
  <1>2. [r EXCEPT !.unlocked = zero, !.status = over] \in EpochRows
    BY <1>1 DEF EpochRows
  <1> QED  BY <1>2 DEF zero, over

LEMMA ClaimedLedgered ==
    ASSUME NEW b, NEW n \in Nat, NEW s, Len(s) = n, Ledgered(b, s)
    PROVE  Ledgered(Claimed(b), s)
  <1> DEFINE amount == b.fund.unlocked
             d      == -amount
             debit  == Pay(b, "treasury_claim", Treasury, -amount, NoHeight, "claim")
             paid   == Pay(debit, "treasury_claim", Claimant, amount, NoHeight, "claim")
             e      == Entry("treasury_claim", Treasury, -amount, NoHeight, "claim")
             c      == Claimed(b)
             f      == b.fund
             t      == c.fund
             k      == n + 1
  <1>1. /\ Booked(b, k) /\ Settled(b, s, n) /\ Backed(b.ledger, n, n, f.claimed)
        /\ Distinct(s) /\ Named(s) /\ DOMAIN b = Columns
        /\ DOMAIN f = FundFields /\ f.total = Due(n)
        /\ f.locked \in Int /\ f.unlocked \in Int /\ f.claimed \in Int
        /\ Due(n) - f.claimed <= f.locked + f.unlocked
        /\ b.epochs \in [Quarters -> EpochRows]
    BY DEF Ledgered, Treasured, FundOk, Booked
  <1>2. /\ k \in Int /\ NoHeight \in Heights /\ NoHeight < k
        /\ "claim" \in {"genesis", "claim"} \cup Txs \cup BlockIds \cup Nat
        /\ "treasury_claim" \in EntryTypes
        /\ "treasury_claim" \in EntryTypes \ {"treasury_accrual", "block_reward"}
        /\ Treasury \in Accounts /\ Claimant \in Accounts \ {Treasury}
        /\ amount \in Int /\ d \in Int
    BY <1>1, WalletsAreAccounts DEF EntryTypes, Heights, NoHeight
  <1>3. c = [paid EXCEPT
            !.epochs = [q \in Quarters |-> IF @[q].unlocked > 0
                                           THEN [@[q] EXCEPT !.unlocked = 0, !.status = "claimed"]
                                           ELSE @[q]],
            !.fund.claimed = @ + amount, !.fund.unlocked = 0]
    BY DEF Claimed
  <1> HIDE DEF k, c
  <1>4. /\ Booked(debit, k) /\ debit.ledger = Append(b.ledger, e) /\ e \in LedgerRows
        /\ debit.fund = b.fund /\ debit.epochs = b.epochs /\ debit.rewards = b.rewards
    <2> DEFINE type == "treasury_claim"
               related == "claim"
               owner   == Treasury
               h       == NoHeight
    <2>1. /\ Booked(b, k) /\ k \in Int /\ type \in EntryTypes
          /\ related \in {"genesis", "claim"} \cup Txs \cup BlockIds \cup Nat
          /\ owner \in Accounts /\ d \in Int /\ h \in Heights /\ h < k
      BY <1>1, <1>2
    <2>2. Entry(type, owner, d, h, related) = e
          /\ Pay(b, type, owner, d, h, related) = debit
      OBVIOUS
    <2> HIDE DEF debit, e, type, related, d, owner, h
    <2>3. LET y == Pay(b, type, owner, d, h, related)
              r == Entry(type, owner, d, h, related)
          IN  /\ Booked(y, k) /\ y.ledger = Append(b.ledger, r) /\ r \in LedgerRows
              /\ y.fund = b.fund /\ y.epochs = b.epochs /\ y.rewards = b.rewards
              /\ Alike(b, y)
      BY <2>1, PayBooks
    <2> QED  BY <2>2, <2>3
  <1>5. /\ e.type = "treasury_claim" /\ e.account = Treasury /\ e.amount = -amount
        /\ e.height = NoHeight
    BY DEF Entry
  <1> HIDE DEF e, debit
  <1>6. Settled(debit, s, n) /\ Backed(debit.ledger, n, n, f.claimed + amount)
    <2> DEFINE L == b.ledger
    <2>1. L \in Seq(LedgerRows) /\ Backed(L, n, n, f.claimed) /\ f.claimed \in Int
      BY <1>1 DEF Booked
    <2> HIDE DEF L, f, amount
    <2>2. SamePaid(L, Append(L, e))
      BY <1>4, <1>5, <2>1, AppendKeepsPaid
    <2>3. Backed(Append(L, e), n, n, f.claimed + amount)
      BY <1>2, <1>4, <1>5, <2>1, AppendClaims
    <2> QED  BY <1>1, <1>4, <2>2, <2>3 DEF Settled, SamePaid, L
  <1>7. Moves(debit, paid, k)
    <2> DEFINE type == "treasury_claim"
               related == "claim"
    <2>1. /\ type \in EntryTypes \ {"treasury_accrual", "block_reward"}
          /\ related \in {"genesis", "claim"} \cup Txs \cup BlockIds \cup Nat
      BY <1>2
    <2>2. paid = Pay(debit, type, Claimant, amount, NoHeight, related)
      OBVIOUS
    <2> HIDE DEF type, related, amount, paid
    <2>3. Moves(debit, Pay(debit, type, Claimant, amount, NoHeight, related), k)
      BY <1>2, <1>4, <2>1, PayMoves
    <2> QED  BY <2>2, <2>3
  <1> HIDE DEF paid
  <1>8. /\ DOMAIN paid = Columns /\ Booked(paid, k) /\ Settled(paid, s, n)
        /\ paid.fund = f /\ paid.epochs = b.epochs
    BY <1>4, <1>6, <1>7, MovesSettled DEF Moves, Quiet, Booked
  <1>9. Backed(paid.ledger, n, n, f.claimed + amount)
    <2>1. \A j \in 1..(n + 1) : j \in Int
      OBVIOUS
    <2>2. SameTreasury(debit.ledger, paid.ledger)
      BY <1>7 DEF Moves, Quiet
    <2> HIDE DEF f, amount
    <2> QED  BY <1>6, <2>1, <2>2 DEF Backed, SameTreasury
  <1>10. /\ DOMAIN c = Columns /\ c.ledger = paid.ledger /\ c.balances = paid.balances
         /\ c.rewards = paid.rewards
    BY <1>3, <1>8 DEF Columns
  <1>11. c.epochs = [q \in Quarters |-> IF b.epochs[q].unlocked > 0
                             THEN [b.epochs[q] EXCEPT !.unlocked = 0, !.status = "claimed"]
                             ELSE b.epochs[q]]
    BY <1>3, <1>8 DEF Columns
  <1>12. t = [f EXCEPT !.claimed = @ + amount, !.unlocked = 0]
    BY <1>3, <1>8 DEF Columns
  <1>13. /\ DOMAIN t = FundFields /\ t.total = f.total /\ t.claimed = f.claimed + amount
         /\ t.locked = f.locked /\ t.unlocked = 0
    <2> HIDE DEF f, t, amount
    <2> QED  BY <1>1, <1>12 DEF FundFields
  <1>14. c.epochs \in [Quarters -> EpochRows]
    <2> SUFFICES ASSUME NEW q \in Quarters  PROVE c.epochs[q] \in EpochRows
      BY <1>11
    <2> DEFINE r == b.epochs[q]
               v == [r EXCEPT !.unlocked = 0, !.status = "claimed"]
    <2>1. r \in EpochRows
      BY <1>1
    <2>2. c.epochs[q] \in {r, v}
      BY <1>11
    <2> HIDE DEF r
    <2>3. v \in EpochRows
      BY <2>1, EpochClaims
    <2> QED  BY <2>1, <2>2, <2>3
  <1>15. FundOk(c, n)
    <2>1. Due(n) \in Int
      BY DueTyped
    <2>2. amount = f.unlocked
      OBVIOUS
    <2> HIDE DEF f, t, amount
    <2>3. t.claimed \in Int /\ t.locked \in Int /\ t.unlocked \in Int
          /\ Due(n) - t.claimed <= t.locked + t.unlocked
      BY <1>1, <1>13, <2>1, <2>2
    <2> QED  BY <1>1, <1>13, <1>14, <2>3 DEF FundOk, t
  <1>16. Booked(c, k) /\ Settled(c, s, n) /\ Backed(c.ledger, n, n, c.fund.claimed)
    BY <1>8, <1>9, <1>10, <1>13 DEF Booked, Settled
  <1> QED  BY <1>1, <1>15, <1>16 DEF Ledgered, Treasured, c, k

(* Before the first block there is only the premine. *)
LEMMA InitiallyLedgered == Ledgered(InitialBooks, << >>)
  <1> DEFINE b == InitialBooks
             G == { Entry("genesis", w, Premine[w], 0, "genesis") : w \in Wallets }
             L == SetToSeq(G)
             f == b.fund
  <1>1. /\ DOMAIN b = Columns /\ b.rewards = << >> /\ b.ledger = L
        /\ b.balances = [a \in Accounts |-> IF a \in Wallets THEN Premine[a] ELSE 0]
        /\ f = [total |-> 0, locked |-> 0, unlocked |-> 0, claimed |-> 0, current |-> 0]
        /\ b.epochs = [q \in Quarters |-> [locked |-> 0, unlocked |-> 0, status |-> "none"]]
    BY DEF InitialBooks, Columns
  <1> HIDE DEF b
  <1>2. IsFiniteSet(G)
    <2> DEFINE g == [w \in Wallets |-> Entry("genesis", w, Premine[w], 0, "genesis")]
    <2>1. G = {g[w] : w \in Wallets}
      OBVIOUS
    <2> HIDE DEF g, G
    <2> QED  BY <2>1, BooksAssumption, ImageIsFinite
  <1>3. \A e \in G : /\ e \in LedgerRows /\ e.type = "genesis" /\ e.height = 0
                     /\ e.account \in Wallets /\ e.amount = Premine[e.account]
                     /\ e = Entry("genesis", e.account, e.amount, 0, "genesis")
    <2> SUFFICES ASSUME NEW w \in Wallets
                 PROVE  LET e == Entry("genesis", w, Premine[w], 0, "genesis")
                        IN  /\ e \in LedgerRows /\ e.type = "genesis" /\ e.height = 0
                            /\ e.account = w /\ e.amount = Premine[w]
      OBVIOUS
    <2>1. w \in Accounts /\ Premine[w] \in Int /\ "genesis" \in EntryTypes /\ 0 \in Heights
      BY BooksAssumption, WalletsAreAccounts DEF EntryTypes, Heights
    <2> QED  BY <2>1 DEF Entry, LedgerRows
  <1>4. \A w \in Wallets : \E e \in G : e.account = w
    <2> SUFFICES ASSUME NEW w \in Wallets  PROVE \E e \in G : e.account = w
      OBVIOUS
    <2> DEFINE e == Entry("genesis", w, Premine[w], 0, "genesis")
    <2>1. e \in G
      OBVIOUS
    <2>2. e.account = w
      BY DEF Entry
    <2> HIDE DEF e, G
    <2> QED  BY <2>1, <2>2
  <1> HIDE DEF G
  <1>5. /\ L \in Seq(G) /\ L \in Surjection(1..Len(L), G)
        /\ \A i, j \in 1..Len(L) : L[i] = L[j] => i = j
    BY <1>2, SetToSeqOf
  <1> HIDE DEF L
  <1>6. /\ Len(L) \in Nat /\ L \in Seq(LedgerRows)
        /\ \A i \in 1..Len(L) : L[i] \in G
        /\ \A e \in G : \E i \in 1..Len(L) : L[i] = e
    BY <1>3, <1>5 DEF Surjection
  <1>7. ASSUME NEW a \in Accounts, NEW types
        PROVE  Below(L, types, {a}, 1) =
                 IF a \in Wallets /\ "genesis" \in types THEN Premine[a] ELSE 0
    <2> DEFINE w == CountedIn(L, types, {a}, 1)
    <2>1. /\ w \in Seq(Int) /\ Len(w) = Len(L)
          /\ \A i \in 1..Len(L) : w[i] = Counted(L[i], types, {a}, 1)
      <3> DEFINE A == {a}
      <3> HIDE DEF A
      <3>1. LET v == CountedIn(L, types, A, 1)
            IN  /\ v \in Seq(Int) /\ Len(v) = Len(L)
                /\ \A i \in 1..Len(L) : v[i] = Counted(L[i], types, A, 1)
        BY <1>6, CountedTyped
      <3> QED  BY <3>1 DEF A
    <2> HIDE DEF w
    <2>2. \A i \in 1..Len(L) :
            w[i] = IF "genesis" \in types /\ L[i].account = a THEN Premine[a] ELSE 0
      BY <1>3, <1>6, <2>1, SMTT(30) DEF Counted
    <2>3. CASE a \in Wallets
      <3>1. PICK e \in G : e.account = a
        BY <1>4, <2>3
      <3>2. PICK j \in 1..Len(L) : L[j] = e
        BY <1>6, <3>1
      <3>3. \A i \in 1..Len(L) : L[i].account = a => i = j
        <4> SUFFICES ASSUME NEW i \in 1..Len(L), L[i].account = a  PROVE i = j
          OBVIOUS
        <4> DEFINE u == L[i]
        <4>1. u \in G /\ u.account = a
          BY <1>6
        <4> HIDE DEF u
        <4>2. u = Entry("genesis", a, Premine[a], 0, "genesis")
          BY <1>3, <4>1
        <4>3. e = Entry("genesis", a, Premine[a], 0, "genesis")
          BY <1>3, <3>1
        <4>4. L[i] = L[j]
          BY <3>2, <4>2, <4>3 DEF u
        <4> QED  BY <1>5, <4>4
      <3>4. \A i \in 1..Len(w) : i # j => w[i] = 0
        BY <2>1, <2>2, <3>3
      <3>5. SumSeq(w) = w[j] /\ j \in Nat
        <4>1. j \in Nat /\ j \in 1..Len(w)
          BY <2>1
        <4> QED  BY <2>1, <3>4, <4>1, SumOfOne
      <3>6. w[j] = IF "genesis" \in types THEN Premine[a] ELSE 0
        BY <2>2, <3>1, <3>2
      <3> QED  BY <2>3, <3>5, <3>6 DEF Below, w
    <2>4. CASE a \notin Wallets
      <3>1. \A i \in 1..Len(w) : w[i] = 0
        BY <1>3, <1>6, <2>1, <2>2, <2>4
      <3>2. SumSeq(w) = 0
        <4>1. 0 \notin 1..Len(w) /\ \A i \in 1..Len(w) : i # 0 => w[i] = 0
          BY <3>1
        <4>2. SumSeq(w) = IF 0 \in 1..Len(w) THEN w[0] ELSE 0
          BY <2>1, <4>1, SumOfOne
        <4> QED  BY <4>1, <4>2
      <3> QED  BY <2>4, <3>2 DEF Below, w
    <2> QED  BY <2>3, <2>4
  <1>8. Below(L, Accrual, Accounts, 1) = 0
    <2> DEFINE w == CountedIn(L, Accrual, Accounts, 1)
    <2>1. /\ w \in Seq(Int) /\ Len(w) = Len(L)
          /\ \A i \in 1..Len(L) : w[i] = Counted(L[i], Accrual, Accounts, 1)
      BY <1>6, CountedTyped
    <2> HIDE DEF w
    <2>2. \A i \in 1..Len(w) : w[i] = 0
      BY <1>3, <1>6, <2>1 DEF Counted, Accrual
    <2>3. 0 \notin 1..Len(w) /\ \A i \in 1..Len(w) : i # 0 => w[i] = 0
      BY <2>2
    <2>4. SumSeq(w) = IF 0 \in 1..Len(w) THEN w[0] ELSE 0
      BY <2>1, <2>3, SumOfOne
    <2> QED  BY <2>3, <2>4 DEF Below, w
  <1>9. Booked(b, 1)
    <2>1. \A i \in 1..Len(L) : L[i].height < 1
      BY <1>3, <1>6
    <2>2. b.balances \in [Accounts -> Int]
      BY <1>1, BooksAssumption
    <2>3. ASSUME NEW a \in Accounts  PROVE b.balances[a] = Below(L, EntryTypes, {a}, 1)
      BY <1>1, <1>7 DEF EntryTypes
    <2> QED  BY <1>1, <1>6, <2>1, <2>2, <2>3 DEF Booked
  <1>10. Settled(b, << >>, 0)
    <2>1. Mature(<< >>, 0) = {} /\ RewardsOf(b.rewards, << >>, 0)
      BY <1>1 DEF Mature, RewardsOf
    <2>2. \A i \in 1..Len(L) : L[i].type # "block_reward"
      BY <1>3, <1>6
    <2>3. PaidFor(L, << >>, {})
      BY <2>2 DEF PaidFor
    <2> QED  BY <1>1, <2>1, <2>3 DEF Settled
  <1>11. Treasured(b, 0, 0)
    <2>1. FundOk(b, 0)
      <3>1. Due(0) = 0
        BY DueTyped
      <3>2. b.epochs \in [Quarters -> EpochRows]
        BY <1>1 DEF EpochRows
      <3> QED  BY <1>1, <3>1, <3>2 DEF FundOk, FundFields
    <2>2. Backed(L, 0, 0, 0)
      <3> SUFFICES ASSUME NEW j \in 1..(0 + 1)
                   PROVE  /\ Below(L, Accrual, Accounts, j) = Due(Lower(j - 1, 0))
                          /\ Below(L, EntryTypes, {Treasury}, j) = Due(Lower(j - 1, 0)) - 0
        BY DEF Backed
      <3>1. j = 1 /\ Lower(j - 1, 0) = 0 /\ Due(0) = 0
        BY DueTyped DEF Lower
      <3>2. Below(L, EntryTypes, {Treasury}, 1) = 0
        BY <1>7, WalletsAreAccounts
      <3> QED  BY <1>8, <3>1, <3>2
    <2> QED  BY <1>1, <2>1, <2>2 DEF Treasured
  <1>12. Len(<< >>) = 0 /\ Distinct(<< >>) /\ Named(<< >>)
    BY DEF Distinct, Named
  <1> QED  BY <1>9, <1>10, <1>11, <1>12 DEF Ledgered, b
===============================================================================
