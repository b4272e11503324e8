--------------------------- MODULE Execution_proofs ---------------------------
(***************************************************************************)
(* Proofs about BlockExecution, for every set of transactions, wallets,    *)
(* tasks and foreign blocks, and about ScienceReserve, for every set of    *)
(* jobs, signers, months and rewards, every threshold and limit, and any    *)
(* number of requests in flight.                                           *)
(*                                                                         *)
(* On top of Books_proofs: the invariant of the ledger, with rewards and   *)
(* treasury; the one of what tasks froze, and the one of what no account   *)
(* may owe, on top of both; then the refinement of PaymentChain, and the   *)
(* invariant of the retarget events; last the science reserve, and both as *)
(* one node.                                                               *)
(***************************************************************************)
EXTENDS NodeAccounts, Books_proofs

-------------------------------------------------------------------------------
(* Rewards and treasury as an invariant of the node.                       *)

Arrivals ==
    /\ arrived \subseteq Foreign
    /\ \A h \in 1..Height : chain[h].id \in Foreign => chain[h].id \in arrived
LedgerInv == Ledgered(books, chain) /\ Arrivals

(* What only writes rows of the mempool. *)
LEMMA RowsLeaveLedger ==
    ASSUME NEW b, DOMAIN b = Columns
    PROVE  /\ SameLedger(b, b) /\ SameLedger(b, Expired(b))
           /\ \A ts : SameLedger(b, Released(b, ts))
           /\ \A x : SameLedger(b, Submitted(b, x))
           /\ \A x : SameLedger(b, [b EXCEPT !.rows[x].late = TRUE])
           /\ \A pick, t : SameLedger(b, Frozen(b, pick, t))
           /\ \A txs : SameLedger(b, Ensured(b, txs))
  <1>1. \A rows : SameLedger(b, [b EXCEPT !.rows = rows])
    BY DEF SameLedger, Columns
  <1>2. SameLedger(b, b)
    BY DEF SameLedger
  <1>3. SameLedger(b, Expired(b))
    BY <1>1 DEF Expired
  <1>4. ASSUME NEW ts  PROVE SameLedger(b, Released(b, ts))
    BY <1>1 DEF Released
  <1>5. ASSUME NEW x  PROVE SameLedger(b, Submitted(b, x))
    BY <1>1 DEF Submitted
  <1>6. ASSUME NEW x  PROVE SameLedger(b, [b EXCEPT !.rows[x].late = TRUE])
    BY DEF SameLedger, Columns
  <1>7. ASSUME NEW pick, NEW t  PROVE SameLedger(b, Frozen(b, pick, t))
    BY <1>1 DEF Frozen
  <1>8. ASSUME NEW txs  PROVE SameLedger(b, Ensured(b, txs))
    BY <1>1 DEF Ensured
  <1> QED  BY <1>2, <1>3, <1>4, <1>5, <1>6, <1>7, <1>8

LEMMA LedgerStays ==
    ASSUME LedgerInv, chain' = chain, arrived' = arrived, SameLedger(books, books')
    PROVE  LedgerInv'
  <1>1. Ledgered(books', chain)
    BY LedgeredStays DEF LedgerInv
  <1>2. Ledgered(books', chain')
    BY <1>1
  <1>3. Arrivals'
    BY DEF LedgerInv, Arrivals, Height
  <1> QED  BY <1>2, <1>3 DEF LedgerInv

LEMMA LedgerInitially == Init => LedgerInv
  <1> SUFFICES ASSUME Init  PROVE LedgerInv
    OBVIOUS
  <1>1. chain = << >> /\ books = InitialBooks /\ arrived = {}
    BY DEF Init
  <1>2. 1..Height = {}
    BY <1>1 DEF Height
  <1> QED  BY <1>1, <1>2, InitiallyLedgered DEF LedgerInv, Arrivals

(* Mempool and tasks write rows only.                                      *)
LEMMA MempoolRowsOnly ==
    ASSUME DOMAIN books = Columns, MempoolNext
    PROVE  SameLedger(books, books') /\ UNCHANGED << chain, arrived, quarter >>
  <1>1. UNCHANGED << chain, arrived, quarter >>
    BY DEF MempoolNext, ExpireMempool, SubmitTransaction, TtlPasses
  <1>2. CASE ExpireMempool
    BY <1>1, <1>2, RowsLeaveLedger DEF ExpireMempool
  <1>3. ASSUME NEW x \in Txs, SubmitTransaction(x)  PROVE SameLedger(books, books')
    BY <1>3, RowsLeaveLedger DEF SubmitTransaction
  <1>4. ASSUME NEW x \in Txs, TtlPasses(x)  PROVE SameLedger(books, books')
    BY <1>4, RowsLeaveLedger DEF TtlPasses
  <1> QED  BY <1>1, <1>2, <1>3, <1>4 DEF MempoolNext

LEMMA MempoolLedger == ASSUME LedgerInv, MempoolNext  PROVE LedgerInv'
  <1>1. DOMAIN books = Columns
    BY DEF LedgerInv, Ledgered, Booked
  <1> QED  BY <1>1, MempoolRowsOnly, LedgerStays

LEMMA FreezeLedger ==
    ASSUME NEW t, NEW b, DOMAIN b = Columns, NEW status, FreezeFor(t, b, status)
    PROVE  SameLedger(b, books')
  <1>1. \/ books' = b
        \/ books' = Frozen(b, Selection(b), t)
    BY DEF FreezeFor
  <1> QED  BY <1>1, RowsLeaveLedger

LEMMA TasksRowsOnly ==
    ASSUME DOMAIN books = Columns, TasksNext
    PROVE  SameLedger(books, books') /\ UNCHANGED << chain, arrived, quarter >>
  <1>1. PICK t \in Tasks : \/ NextTask(t) \/ CommitTask(t) \/ ExpireTask(t) \/ CloseTask(t)
                           \/ ReviveCommitted(t) \/ ReviveAssigned(t)
    BY DEF TasksNext
  <1>2. UNCHANGED << chain, arrived, quarter >>
    BY <1>1 DEF NextTask, CommitTask, ExpireTask, CloseTask, ReviveCommitted, ReviveAssigned, Ended
  <1>3. CASE ReviveAssigned(t)
    <2> DEFINE b == Released(books, {t})
    <2>1. SameLedger(books, b)
      BY RowsLeaveLedger
    <2>2. FreezeFor(t, b, "assigned")
      BY <1>3 DEF ReviveAssigned
    <2> HIDE DEF b
    <2>3. SameLedger(b, books')
      BY <2>1, <2>2, FreezeLedger DEF SameLedger
    <2>4. SameLedger(books, books')
      BY <2>1, <2>3 DEF SameLedger
    <2> QED  BY <1>2, <2>4
  <1>4. CASE NextTask(t)
    <2>1. SameLedger(books, books')
      BY <1>4, FreezeLedger DEF NextTask
    <2> QED  BY <1>2, <2>1
  <1>5. CASE CommitTask(t) \/ ReviveCommitted(t)
    <2>1. books' = books
      BY <1>5 DEF CommitTask, ReviveCommitted
    <2> QED  BY <1>2, <2>1, RowsLeaveLedger
  <1>6. CASE ExpireTask(t) \/ CloseTask(t)
    <2>1. books' = Released(books, {t})
      BY <1>6 DEF ExpireTask, CloseTask, Ended
    <2> QED  BY <1>2, <2>1, RowsLeaveLedger
  <1> QED  BY <1>1, <1>3, <1>4, <1>5, <1>6

LEMMA TasksLedger == ASSUME LedgerInv, TasksNext  PROVE LedgerInv'
  <1>1. DOMAIN books = Columns
    BY DEF LedgerInv, Ledgered, Booked
  <1> QED  BY <1>1, TasksRowsOnly, LedgerStays

(* The ids of a chain with one more block are its ids and a new one. *)
LEMMA OneMoreBlock ==
    ASSUME NEW n \in Nat, NEW s, Len(s) = n, Distinct(s), Named(s),
           NEW h, h = n + 1, NEW s2, Len(s2) = h, \A k \in 1..n : s2[k] = s[k],
           s2[h].id \in BlockIds, \A k \in 1..n : s[k].id # s2[h].id
    PROVE  Extends(s, n, s2, h, s2[h].id)
  <1>1. \A k \in 1..h : k \in 1..n \/ k = h
    OBVIOUS
  <1>2. \A k \in 1..n : s2[k].id = s[k].id /\ s[k].id \in BlockIds
    BY DEF Named
  <1>3. Distinct(s2) /\ Named(s2)
    BY <1>1, <1>2 DEF Distinct, Named
  <1> QED  BY <1>3 DEF Extends

LEMMA AcceptLedger ==
    ASSUME ExecInv, LedgerInv, NEW t \in Tasks, AcceptBlock(t)
    PROVE  LedgerInv'
  <1> DEFINE n    == Height
             h    == n + 1
             txs  == Loaded(t)
             done == LocalBlock(t).books
             b    == Released(done, Rivalry(t))
             s2   == chain'
             id   == s2[h].id
  <1>1. /\ Kept(books) /\ chain \in Seq(ChainRows) /\ n \in Nat /\ n = Len(chain) /\ ExecTyped
        /\ Ledgered(books, chain) /\ Arrivals
    BY HeightTyped DEF ExecInv, ExecTyped, Height, LedgerInv
  <1>2. /\ tasks[t].status = "committed" /\ arrived' = arrived
        /\ chain' = Append(chain, [id |-> t, txs |-> txs]) /\ books' = b
        /\ LocalBlock(t).ok
    BY DEF AcceptBlock, Finalizable
  <1>3. txs \in Seq(Txs) /\ t \in BlockIds /\ t \notin Foreign
    BY <1>1, LoadedTyped, BlocksAssumption DEF BlockIds
  <1> HIDE DEF txs
  <1>4. /\ Len(s2) = h /\ s2[h].id = t /\ s2[h].id \in BlockIds
        /\ \A k \in 1..n : s2[k] = chain[k]
    BY <1>1, <1>2, <1>3
  <1>5. \A k \in 1..n : chain[k].id # id
    BY <1>2, <1>4 DEF ExecInv, MinedIsOver
  <1>6. Distinct(chain) /\ Named(chain)
    BY <1>1 DEF Ledgered
  <1>7. LocalBlock(t) = Block(books, txs, Miner[t], h, t, quarter, FALSE)
    BY DEF LocalBlock, txs
  <1>8. Ledgered(done, s2)
    <2> DEFINE no == FALSE
               s  == chain
    <2>1. LocalBlock(t) = Block(books, txs, Miner[t], h, t, quarter, no)
      BY <1>7
    <2>2. Extends(s, n, s2, h, t)
      <3>1. /\ n \in Nat /\ Len(s) = n /\ Distinct(s) /\ Named(s) /\ h = n + 1
            /\ Len(s2) = h /\ \A k \in 1..n : s2[k] = s[k]
            /\ s2[h].id \in BlockIds /\ \A k \in 1..n : s[k].id # s2[h].id
        BY <1>1, <1>4, <1>5, <1>6
      <3> HIDE DEF s, s2, n, h
      <3> QED  BY <1>4, <3>1, OneMoreBlock
    <2>3. h \in Nat \ {0} /\ Ledgered(books, s)
      BY <1>1
    <2> HIDE DEF s, s2, n, h, no
    <2>4. Block(books, txs, Miner[t], h, t, quarter, no).ok
      BY <1>2, <2>1
    <2>5. Ledgered(Block(books, txs, Miner[t], h, t, quarter, no).books, s2)
      BY <1>1, <1>3, <2>2, <2>3, <2>4, BlockLedgered
    <2> QED  BY <2>1, <2>5
  <1>9. Ledgered(b, s2)
    <2> HIDE DEF done, s2
    <2>1. DOMAIN done = Columns
      BY <1>8 DEF Ledgered, Booked
    <2>2. SameLedger(done, b)
      BY <2>1, RowsLeaveLedger
    <2> HIDE DEF b
    <2> QED  BY <1>8, <2>2, LedgeredStays
  <1> HIDE DEF b, done
  <1>10. Ledgered(books', chain')
    BY <1>2, <1>9
  <1>11. Arrivals'
    <2> SUFFICES ASSUME NEW k \in 1..h, chain'[k].id \in Foreign  PROVE chain'[k].id \in arrived
      BY <1>1, <1>2, <1>4 DEF Arrivals, Height
    <2>1. k # h
      BY <1>3, <1>4
    <2>2. k \in 1..n /\ chain'[k] = chain[k]
      BY <1>1, <1>4, <2>1
    <2> QED  BY <1>1, <2>2 DEF Arrivals
  <1> QED  BY <1>10, <1>11 DEF LedgerInv

(* A block that could be built is imported as it was built. *)
LEMMA BuildableReplays ==
    ASSUME NEW b, NEW f \in Foreign, NEW h, Buildable(b, f, h), NEW yes, yes = TRUE
    PROVE  LET r == Block(Ensured(b, Payload[f]), Payload[f], Miner[f], h, f, quarter, yes)
           IN  r.ok /\ Imported(b, f, h) = r.books
  <1> DEFINE txs == Payload[f]
             e   == Ensured(b, txs)
             m   == Miner[f]
             c   == Block(e, txs, m, h, f, quarter, FALSE)
             r   == Block(e, txs, m, h, f, quarter, yes)
  <1>1. txs \in Seq(Txs)
    BY BlocksAssumption
  <1>2. c.ok /\ Imported(b, f, h) = r.books
    BY DEF Buildable, ForeignBlock, Imported
  <1> HIDE DEF txs, e, m
  <1>3. r = c
    BY <1>1, <1>2, BlockReplays
  <1> HIDE DEF r, c
  <1>4. r.ok /\ Imported(b, f, h) = r.books
    BY <1>2, <1>3
  <1> QED  BY <1>4 DEF r, e, txs, m

LEMMA ForeignLedgered ==
    ASSUME NEW b, Kept(b), NEW n \in Nat, NEW s, Ledgered(b, s), NEW f \in Foreign,
           NEW h \in Nat \ {0}, Buildable(b, f, h), NEW s2, Extends(s, n, s2, h, f)
    PROVE  Ledgered(Imported(b, f, h), s2)
  <1> DEFINE txs == Payload[f]
             e == Ensured(b, txs)
             yes == TRUE
             r == Block(e, txs, Miner[f], h, f, quarter, yes)
  <1>1. txs \in Seq(Txs) /\ f \in BlockIds
    BY BlocksAssumption DEF BlockIds
  <1>2. yes = TRUE
    OBVIOUS
  <1> HIDE DEF txs, yes
  <1>3. r.ok /\ Imported(b, f, h) = r.books
    BY <1>2, BuildableReplays DEF txs
  <1>4. Kept(e)
    BY <1>1, EnsuredKeeps
  <1>5. Ledgered(e, s)
    <2>1. DOMAIN b = Columns
      BY DEF Ledgered, Booked
    <2>2. SameLedger(b, e)
      BY <2>1, RowsLeaveLedger
    <2> HIDE DEF e
    <2> QED  BY <2>2, LedgeredStays
  <1> HIDE DEF e
  <1>6. Ledgered(r.books, s2)
    BY <1>1, <1>3, <1>4, <1>5, BlockLedgered
  <1> QED  BY <1>3, <1>6

LEMMA ImportLedger ==
    ASSUME ExecInv, LedgerInv, NEW f \in Foreign, Import(f)
    PROVE  LedgerInv'
  <1> DEFINE n  == Height
             h  == n + 1
             b  == Imported(books, f, h)
             s  == chain
             s2 == chain'
  <1>1. /\ Kept(books) /\ chain \in Seq(ChainRows) /\ n \in Nat /\ n = Len(chain)
        /\ Carried(chain, books) /\ Ledgered(books, chain) /\ Arrivals
    BY HeightTyped DEF ExecInv, ExecTyped, Height, LedgerInv
  <1>2. /\ f \notin arrived /\ Buildable(books, f, h) /\ books' = b
        /\ chain' = Append(chain, NewBlock(f)) /\ arrived' = arrived \cup {f}
    BY DEF Import
  <1>3. NewBlock(f).id = f
    BY DEF NewBlock
  <1>4. /\ Len(s2) = h /\ s2[h].id = f /\ \A k \in 1..n : s2[k] = s[k]
    BY <1>1, <1>2, <1>3
  <1>5. \A k \in 1..n : s[k].id # f
    BY <1>1, <1>2 DEF Arrivals
  <1>6. Ledgered(b, s2)
    <2>1. Extends(s, n, s2, h, f)
      <3>1. /\ n \in Nat /\ Len(s) = n /\ Distinct(s) /\ Named(s) /\ h = n + 1
            /\ Len(s2) = h /\ \A k \in 1..n : s2[k] = s[k]
            /\ s2[h].id \in BlockIds /\ \A k \in 1..n : s[k].id # s2[h].id
        BY <1>1, <1>4, <1>5, ForeignIsNoTask DEF Ledgered
      <3> HIDE DEF s, s2, n, h
      <3> QED  BY <1>4, <3>1, OneMoreBlock
    <2>2. h \in Nat \ {0} /\ Ledgered(books, s)
      BY <1>1
    <2> HIDE DEF s, s2, n, h
    <2> QED  BY <1>1, <1>2, <2>1, <2>2, ForeignLedgered
  <1> HIDE DEF b
  <1>7. Ledgered(books', chain')
    BY <1>2, <1>6
  <1>8. Arrivals'
    <2>1. arrived' \subseteq Foreign
      BY <1>1, <1>2 DEF Arrivals
    <2>2. ASSUME NEW k \in 1..h, chain'[k].id \in Foreign  PROVE chain'[k].id \in arrived'
      <3>1. CASE k = h
        BY <1>2, <1>4, <3>1
      <3>2. CASE k # h
        <4>1. k \in 1..n /\ chain'[k] = chain[k]
          BY <1>1, <1>4, <3>2
        <4> QED  BY <1>1, <1>2, <2>2, <4>1 DEF Arrivals
      <3> QED  BY <3>1, <3>2
    <2> QED  BY <1>4, <2>1, <2>2 DEF Arrivals, Height
  <1> QED  BY <1>7, <1>8 DEF LedgerInv

LEMMA ReorgLedger ==
    ASSUME ExecInv, LedgerInv, NEW p \in Foreign, NEW f \in Foreign, Reorg(p, f)
    PROVE  LedgerInv'
  <1> DEFINE n      == Height
             below  == WithoutBlock(books, n)
             branch == Imported(below, p, n)
             b      == Imported(branch, f, n + 1)
             e      == Ensured(below, Payload[p])
             s0     == SubSeq(chain, 1, n - 1)
             s1     == Append(s0, NewBlock(p))
             s2     == Append(s1, NewBlock(f))
  <1>1. /\ Kept(books) /\ Carried(chain, books) /\ Ledgered(books, chain) /\ Arrivals
        /\ chain \in Seq(ChainRows) /\ n \in Nat /\ n = Len(chain)
    BY HeightTyped DEF ExecInv, ExecTyped, Height, LedgerInv
  <1>2. /\ n > 0 /\ Buildable(below, p, n) /\ Buildable(branch, f, n + 1)
        /\ p \notin arrived /\ f \notin arrived /\ Previous[f] = p
        /\ Previous[p] = NoBlock \/ (n > 1 /\ Previous[p] = chain[n - 1].id)
        /\ books' = b /\ arrived' = arrived \cup {p, f}
        /\ chain' = s0 \o << NewBlock(p), NewBlock(f) >>
    BY DEF Reorg
  <1>3. /\ s0 \in Seq(ChainRows) /\ Len(s0) = n - 1 /\ \A k \in 1..(n - 1) : s0[k] = chain[k]
    BY <1>1, <1>2
  <1> HIDE DEF s0
  <1>4. /\ NewBlock(p) \in ChainRows /\ NewBlock(p).id = p
        /\ NewBlock(f) \in ChainRows /\ NewBlock(f).id = f
    BY ForeignIsNoTask DEF NewBlock, ChainRows
  <1>5. chain' = s2
    BY <1>2, <1>3, <1>4
  <1>6. /\ Len(s1) = n /\ s1[n] = NewBlock(p) /\ \A k \in 1..(n - 1) : s1[k] = s0[k]
        /\ s1 \in Seq(ChainRows)
    BY <1>1, <1>2, <1>3, <1>4
  <1> HIDE DEF s1
  <1>7. /\ Len(s2) = n + 1 /\ s2[n + 1] = NewBlock(f) /\ \A k \in 1..n : s2[k] = s1[k]
    BY <1>1, <1>4, <1>6
  <1> HIDE DEF s2
  <1>8. \A k \in 1..(n - 1) : s0[k].id # p /\ s0[k].id # f
    <2> SUFFICES ASSUME NEW k \in 1..(n - 1)  PROVE s0[k].id # p /\ s0[k].id # f
      OBVIOUS
    <2>1. k \in 1..n /\ s0[k] = chain[k]
      BY <1>1, <1>3
    <2>2. chain[k].id \in Foreign => chain[k].id \in arrived
      BY <1>1, <2>1 DEF Arrivals
    <2> QED  BY <1>2, <2>1, <2>2
  <1>9. p # f
    <2> SUFFICES ASSUME p = f  PROVE FALSE
      OBVIOUS
    <2>1. p # NoBlock
      BY BlocksAssumption
    <2>2. n > 1 /\ p = chain[n - 1].id
      BY <1>2, <2>1
    <2>3. n - 1 \in 1..n
      BY <1>1, <2>2
    <2> QED  BY <1>1, <1>2, <2>2, <2>3 DEF Arrivals
  <1>10. Kept(below) /\ Ledgered(below, s0)
    <2> DEFINE s == chain
    <2>1. /\ n \in Nat \ {0} /\ Len(s) = n /\ Ledgered(books, s)
          /\ Len(s0) = n - 1 /\ \A k \in 1..(n - 1) : s0[k] = s[k]
      BY <1>1, <1>2, <1>3
    <2>2. /\ Len(s) \in Nat \ {0} /\ Carried(s, books)
          /\ Len(s0) = Len(s) - 1 /\ \A k \in 1..Len(s0) : s0[k] = s[k]
      BY <1>1, <2>1
    <2> HIDE DEF below, n, s
    <2>3. Ledgered(WithoutBlock(books, n), s0)
      BY <1>1, <2>1, UndoneLedgered
    <2>4. Kept(WithoutBlock(books, Len(s)))
      BY <1>1, <2>2, UndoneKeeps
    <2> QED  BY <2>1, <2>3, <2>4 DEF below
  <1>11. Carried(s0, below)
    <2> DEFINE s == chain
    <2>1. /\ Len(s) \in Nat \ {0} /\ Carried(s, books) /\ Len(s) = n
          /\ Len(s0) = Len(s) - 1 /\ \A k \in 1..Len(s0) : s0[k] = s[k]
      BY <1>1, <1>2, <1>3
    <2> HIDE DEF below, n, s
    <2>2. Carried(s0, WithoutBlock(books, Len(s)))
      BY <1>1, <2>1, UndoneKeeps
    <2> QED  BY <2>1, <2>2 DEF below
  <1> HIDE DEF below
  <1>12. Extends(s0, n - 1, s1, n, p)
    <2> DEFINE l == n - 1
    <2>1. /\ l \in Nat /\ Len(s0) = l /\ Distinct(s0) /\ Named(s0) /\ n = l + 1
          /\ Len(s1) = n /\ \A k \in 1..l : s1[k] = s0[k]
          /\ s1[n].id \in BlockIds /\ \A k \in 1..l : s0[k].id # s1[n].id
      BY <1>1, <1>2, <1>3, <1>4, <1>6, <1>8, <1>10, ForeignIsNoTask DEF Ledgered
    <2> HIDE DEF l, n
    <2>2. Extends(s0, l, s1, n, s1[n].id)
      BY <2>1, OneMoreBlock
    <2> QED  BY <1>4, <1>6, <2>2 DEF l
  <1>13. Ledgered(branch, s1) /\ Kept(branch)
    <2> DEFINE l == n - 1
    <2>1. l \in Nat /\ n \in Nat \ {0} /\ n \in Nat /\ Extends(s0, l, s1, n, p) /\ Buildable(below, p, n)
      BY <1>1, <1>2, <1>12
    <2> HIDE DEF l, n
    <2>2. Ledgered(Imported(below, p, n), s1)
      BY <1>10, <2>1, ForeignLedgered
    <2>3. Kept(Imported(below, p, n))
      BY <1>10, <1>11, <2>1, ForeignAdvances
    <2> QED  BY <2>2, <2>3
  <1> HIDE DEF branch
  <1>14. \A k \in 1..n : s1[k].id # f
    <2> SUFFICES ASSUME NEW k \in 1..n  PROVE s1[k].id # f
      OBVIOUS
    <2>1. CASE k = n
      BY <1>4, <1>6, <1>9, <2>1
    <2>2. CASE k # n
      <3>1. k \in 1..(n - 1) /\ s1[k] = s0[k]
        BY <1>1, <1>6, <2>2
      <3> QED  BY <1>8, <3>1
    <2> QED  BY <2>1, <2>2
  <1>15. Extends(s1, n, s2, n + 1, f)
    <2> DEFINE h == n + 1
    <2>1. /\ n \in Nat /\ Len(s1) = n /\ Distinct(s1) /\ Named(s1) /\ h = n + 1
          /\ Len(s2) = h /\ \A k \in 1..n : s2[k] = s1[k]
          /\ s2[h].id \in BlockIds /\ \A k \in 1..n : s1[k].id # s2[h].id
      BY <1>1, <1>4, <1>6, <1>7, <1>13, <1>14, ForeignIsNoTask DEF Ledgered
    <2>2. s2[h].id = f
      BY <1>4, <1>7
    <2> HIDE DEF h, n
    <2>3. Extends(s1, n, s2, h, s2[h].id)
      BY <2>1, OneMoreBlock
    <2> QED  BY <2>2, <2>3 DEF h
  <1>16. Ledgered(b, s2)
    <2> DEFINE h == n + 1
    <2>1. /\ n \in Nat /\ h \in Nat \ {0} /\ Extends(s1, n, s2, h, f) /\ Buildable(branch, f, h)
      BY <1>1, <1>2, <1>15
    <2> HIDE DEF h, n
    <2>2. Ledgered(Imported(branch, f, h), s2)
      BY <1>13, <2>1, ForeignLedgered
    <2> QED  BY <2>2 DEF h
  <1> HIDE DEF b
  <1>17. Ledgered(books', chain')
    BY <1>2, <1>5, <1>16
  <1>18. Arrivals'
    <2>1. arrived' \subseteq Foreign
      BY <1>1, <1>2 DEF Arrivals
    <2>2. ASSUME NEW k \in 1..(n + 1), s2[k].id \in Foreign  PROVE s2[k].id \in arrived'
      <3>1. CASE k = n + 1
        BY <1>2, <1>4, <1>7, <3>1
      <3>2. CASE k = n
        <4>1. n \in 1..n
          BY <1>1, <1>2
        <4>2. s2[n].id = p
          BY <1>4, <1>6, <1>7, <4>1
        <4> QED  BY <1>2, <3>2, <4>2
      <3>3. CASE k # n /\ k # n + 1
        <4>1. k \in 1..(n - 1) /\ k \in 1..n
          BY <1>1, <3>3
        <4>2. s2[k] = chain[k]
          BY <1>3, <1>6, <1>7, <4>1
        <4> QED  BY <1>1, <1>2, <2>2, <4>1, <4>2 DEF Arrivals
      <3> QED  BY <3>1, <3>2, <3>3
    <2> QED  BY <1>5, <1>7, <2>1, <2>2 DEF Arrivals, Height
  <1> QED  BY <1>17, <1>18 DEF LedgerInv

LEMMA TreasuryLedger == ASSUME ExecInv, LedgerInv, TreasuryNext  PROVE LedgerInv'
  <1> DEFINE s == chain
             n == Len(chain)
  <1>1. n \in Nat /\ Len(s) = n /\ Ledgered(books, s) /\ DOMAIN books = Columns
    BY DEF LedgerInv, ExecInv, ExecTyped, Ledgered, Booked
  <1>2. chain' = chain /\ arrived' = arrived
    BY DEF TreasuryNext, NextQuarter, UnlockTreasury, ClaimTreasury
  <1>3. Arrivals'
    BY <1>2 DEF LedgerInv, Arrivals, Height
  <1> HIDE DEF n, s
  <1>4. \A past \in SUBSET Quarters : Ledgered(Unlocked(books, past), s)
    BY <1>1, UnlockedLedgered
  <1>5. Ledgered(books', s)
    <2>1. CASE NextQuarter
      BY <1>1, <2>1 DEF NextQuarter
    <2>2. ASSUME NEW past \in SUBSET Quarters, UnlockTreasury(past)  PROVE Ledgered(books', s)
      BY <1>4, <2>2 DEF UnlockTreasury
    <2>3. ASSUME NEW past \in SUBSET Quarters, ClaimTreasury(past)  PROVE Ledgered(books', s)
      <3> DEFINE b == Unlocked(books, past)
      <3>1. Ledgered(b, s) /\ books' = Claimed(b)
        BY <1>4, <2>3 DEF ClaimTreasury
      <3> HIDE DEF b
      <3> QED  BY <1>1, <3>1, ClaimedLedgered
    <2> QED  BY <2>1, <2>2, <2>3 DEF TreasuryNext
  <1>6. Ledgered(books', chain')
    BY <1>2, <1>5 DEF s
  <1> QED  BY <1>3, <1>6 DEF LedgerInv

LEMMA LedgerStep == ExecInv /\ LedgerInv /\ [Next]_vars => LedgerInv'
  <1> SUFFICES ASSUME ExecInv, LedgerInv, [Next]_vars  PROVE LedgerInv'
    OBVIOUS
  <1>1. DOMAIN books = Columns
    BY DEF LedgerInv, Ledgered, Booked
  <1>2. CASE UNCHANGED vars
    BY <1>1, <1>2, LedgerStays, RowsLeaveLedger DEF vars
  <1>3. ASSUME NEW t \in Tasks, AcceptFails(t)  PROVE LedgerInv'
    <2>1. books' = Released(books, {t}) /\ chain' = chain /\ arrived' = arrived
      BY <1>3 DEF AcceptFails, Ended
    <2> QED  BY <1>1, <2>1, LedgerStays, RowsLeaveLedger
  <1>4. ASSUME NEW keep \in BOOLEAN, ForceRetarget(keep)  PROVE LedgerInv'
    <2>1. books' = books /\ chain' = chain /\ arrived' = arrived
      BY <1>4 DEF ForceRetarget
    <2> QED  BY <1>1, <2>1, LedgerStays, RowsLeaveLedger
  <1>5. CASE ChainNext
    BY <1>3, <1>4, <1>5, AcceptLedger, ImportLedger, ReorgLedger DEF ChainNext
  <1>6. CASE Next
    BY <1>5, <1>6, MempoolLedger, TasksLedger, TreasuryLedger DEF Next
  <1> QED  BY <1>2, <1>6

LEMMA LedgerAlways == Spec => []LedgerInv
  <1>1. Init => LedgerInv
    BY LedgerInitially
  <1>2. ExecInv /\ LedgerInv /\ [Next]_vars => LedgerInv'
    BY LedgerStep
  <1> QED  BY <1>1, <1>2, ExecAlways, PTL DEF Spec

LEMMA RewardsOnce == ExecInv /\ LedgerInv => RewardsMatureOnce
  <1> SUFFICES ASSUME ExecInv, LedgerInv  PROVE RewardsMatureOnce
    OBVIOUS
  <1> DEFINE L == books.ledger
             n == Height
             s == chain
  <1>1. /\ n = Len(s) /\ RewardsOf(books.rewards, s, n) /\ PaidFor(L, s, Mature(s, n))
        /\ Distinct(s) /\ L \in Seq(LedgerRows)
    BY DEF LedgerInv, Ledgered, Settled, Booked, Height
  <1>2. DOMAIN L = 1..Len(L)
    BY <1>1, RowsOfLedger
  <1>3. ASSUME NEW h \in 1..n
        PROVE  LET r == books.rewards[h]
               IN  /\ r.related = s[h].id
                   /\ r.mature <=> h + MaturityDepth <= n
                   /\ Cardinality(RewardEntries(r)) = IF r.mature THEN 1 ELSE 0
    <2> DEFINE r == books.rewards[h]
               E == RewardEntries(r)
    <2>1. r = RewardFor(s, h, n) /\ h \in 1..Len(s)
      BY <1>1, <1>3 DEF RewardsOf
    <2>2. r.related = s[h].id /\ r.mature = (h + MaturityDepth <= n)
      <3> HIDE DEF r
      <3> QED  BY <2>1 DEF RewardFor
    <2>3. E = {i \in 1..Len(L) : L[i].type = "block_reward" /\ L[i].related = s[h].id}
      BY <1>2, <2>2 DEF RewardEntries
    <2> HIDE DEF r, E, L, s, n
    <2>4. CASE h + MaturityDepth <= n
      <3>1. h \in Mature(s, n)
        BY <2>1, <2>4 DEF Mature
      <3>2. PICK i \in 1..Len(L) : L[i].type = "block_reward" /\ L[i].related = s[h].id
        BY <1>1, <3>1 DEF PaidFor
      <3>3. E = {i}
        BY <1>1, <2>3, <3>2 DEF PaidFor
      <3>4. Cardinality(E) = 1
        BY <3>3, FS_Singleton
      <3>5. r.mature
        BY <2>2, <2>4
      <3> QED  BY <2>2, <2>4, <3>4, <3>5 DEF r, E, s
    <2>5. CASE ~(h + MaturityDepth <= n)
      <3>1. h \notin Mature(s, n)
        BY <2>5 DEF Mature
      <3>2. E = {}
        <4> SUFFICES ASSUME NEW i \in 1..Len(L), L[i].type = "block_reward", L[i].related = s[h].id
                     PROVE  FALSE
          BY <2>3
        <4>1. PICK k \in Mature(s, n) : L[i].related = s[k].id
          BY <1>1 DEF PaidFor
        <4>2. k \in 1..Len(s) /\ s[k].id = s[h].id
          BY <4>1 DEF Mature
        <4>3. k = h
          BY <1>1, <2>1, <4>2 DEF Distinct
        <4> QED  BY <3>1, <4>1, <4>3
      <3>3. Cardinality(E) = 0
        BY <3>2, FS_EmptySet
      <3>4. ~r.mature
        BY <2>2, <2>5
      <3> QED  BY <2>2, <2>5, <3>3, <3>4 DEF r, E, s
    <2> QED  BY <2>4, <2>5
  <1>4. Len(books.rewards) = n
    BY <1>1 DEF RewardsOf
  <1> HIDE DEF n
  <1>5. \A h \in 1..n :
          LET r == books.rewards[h]
          IN  /\ r.related = chain[h].id
              /\ r.mature <=> h + MaturityDepth <= n
              /\ Cardinality(RewardEntries(r)) = IF r.mature THEN 1 ELSE 0
    BY <1>3
  <1> QED  BY <1>4, <1>5 DEF RewardsMatureOnce, n

LEMMA TreasuryHolds == ExecInv /\ LedgerInv => TreasuryAccounted
  <1> SUFFICES ASSUME ExecInv, LedgerInv  PROVE TreasuryAccounted
    OBVIOUS
  <1> DEFINE L == books.ledger
             n == Height
             k == n + 1
             f == books.fund
             w == [i \in DOMAIN L |-> IF L[i].type = "treasury_accrual" THEN L[i].amount ELSE 0]
  <1>1. /\ n \in Nat /\ L \in Seq(LedgerRows) /\ \A i \in 1..Len(L) : L[i].height < k
        /\ Backed(L, n, n, f.claimed)
        /\ \A a \in Accounts : books.balances[a] = Below(L, EntryTypes, {a}, k)
        /\ f.total = Due(n) /\ Due(n) - f.claimed <= f.locked + f.unlocked
    BY HeightTyped DEF ExecInv, LedgerInv, Ledgered, Booked, Treasured, FundOk, Height
  <1>2. w = CountedIn(L, Accrual, Accounts, k)
    <2> HIDE DEF L, k
    <2>1. \A i \in DOMAIN L :
            (IF L[i].type = "treasury_accrual" THEN L[i].amount ELSE 0)
              = Counted(L[i], Accrual, Accounts, k)
      BY <1>1, RowsOfLedger DEF Counted, Accrual
    <2> QED  BY <2>1 DEF CountedIn
  <1>3. Total(books.ledger, LAMBDA e : IF e.type = "treasury_accrual" THEN e.amount ELSE 0) = SumSeq(w)
    BY DEF Total
  <1> HIDE DEF w
  <1>4. SumSeq(w) = Below(L, Accrual, Accounts, k)
    BY <1>2 DEF Below
  <1>5. /\ Below(L, Accrual, Accounts, k) = Due(n)
        /\ Below(L, EntryTypes, {Treasury}, k) = Due(n) - f.claimed
    <2>1. k \in 1..(n + 1) /\ Lower(k - 1, n) = n
      BY <1>1 DEF Lower
    <2> HIDE DEF L, f, n, k
    <2> QED  BY <1>1, <2>1 DEF Backed
  <1>6. books.balances[Treasury] = Due(n) - f.claimed
    <2>1. Treasury \in Accounts
      BY DEF Accounts
    <2> HIDE DEF L, f, n, k
    <2> QED  BY <1>1, <1>5, <2>1
  <1>7. Due(n) = Height * TreasuryShare
    BY DEF Due
  <1> HIDE DEF L, n, k
  <1> QED  BY <1>1, <1>3, <1>4, <1>5, <1>6, <1>7 DEF TreasuryAccounted

(* Every block of the chain, mined, imported or the survivor of a reorg, has *)
(* one reward, and it is in the ledger exactly once from the height at which *)
(* it matures and not before: RewardsMatureOnce in every instance.           *)
THEOREM RewardsArePaidOnce == Spec => []RewardsMatureOnce
  <1>1. ExecInv /\ LedgerInv => RewardsMatureOnce
    BY RewardsOnce
  <1> QED  BY <1>1, ExecAlways, LedgerAlways, PTL

(* The treasury's account holds one share for every block of the chain less  *)
(* what was claimed, and its tables promise no less, whatever was unlocked,  *)
(* claimed or taken back: TreasuryAccounted in every instance.               *)
THEOREM TreasuryFollowsTheChain == Spec => []TreasuryAccounted
  <1>1. ExecInv /\ LedgerInv => TreasuryAccounted
    BY TreasuryHolds
  <1> QED  BY <1>1, ExecAlways, LedgerAlways, PTL

-------------------------------------------------------------------------------
(* What a task freezes can be executed: every transaction has the next nonce *)
(* of its sender and is covered, with what the sender pays before it.       *)

Debits == [x \in Txs |-> Debit(x)]
OfSender(D, w) == {y \in D : Sender[y] = w}

(* On the books b, x can follow the transactions in D. *)
Affords(b, D, x) ==
    /\ Nonce[x] = b.nonces[Sender[x]] + 1 + Cardinality(OfSender(D, Sender[x]))
    /\ Sum(Debits, OfSender(D, Sender[x])) + Debit(x) <= b.balances[Sender[x]]
Executable(b, txs) ==
    /\ txs \in Seq(Txs)
    /\ \A i, j \in 1..Len(txs) : txs[i] = txs[j] => i = j
    /\ \A i \in 1..Len(txs) : Affords(b, Among(txs, i - 1), txs[i])

(* The table of nonces is not behind the confirmed rows. *)
NoncesHold(b) ==
    /\ b.nonces \in [Wallets -> Nat]
    /\ \A w \in Wallets : ConfirmedNonce(b, w) = b.nonces[w]

LEMMA DebitsTyped ==
    /\ \A x \in Txs : Debits[x] = Debit(x) /\ Debit(x) \in Nat /\ Amount[x] \in Nat /\ Fee[x] \in Nat
                      /\ Debit(x) = Amount[x] + Fee[x]
    /\ \A D \in SUBSET Txs : \A w : /\ OfSender(D, w) \in SUBSET Txs /\ Terms(Debits, OfSender(D, w))
                                     /\ IsFiniteSet(OfSender(D, w))
  <1>1. \A x \in Txs : Debits[x] = Debit(x) /\ Debit(x) \in Nat /\ Amount[x] \in Nat /\ Fee[x] \in Nat
                       /\ Debit(x) = Amount[x] + Fee[x]
    BY BooksAssumption DEF Debits, Debit
  <1>2. ASSUME NEW D \in SUBSET Txs, NEW w
        PROVE  /\ OfSender(D, w) \in SUBSET Txs /\ Terms(Debits, OfSender(D, w))
               /\ IsFiniteSet(OfSender(D, w))
    <2>1. OfSender(D, w) \in SUBSET Txs
      BY DEF OfSender
    <2>2. IsFiniteSet(OfSender(D, w))
      BY <2>1, TxsAreFinite, FS_Subset
    <2> QED  BY <1>1, <2>1, <2>2 DEF Terms
  <1> QED  BY <1>1, <1>2

LEMMA AmongTyped ==
    ASSUME NEW txs \in Seq(Txs)
    PROVE  /\ \A i \in 0..Len(txs) : Among(txs, i) \in SUBSET Txs
           /\ \A i \in 1..Len(txs) : Among(txs, i) = Among(txs, i - 1) \cup {txs[i]}
           /\ Among(txs, 0) = {} /\ Among(txs, Len(txs)) = ToSet(txs)
  <1>1. ASSUME NEW i \in 0..Len(txs)  PROVE Among(txs, i) \in SUBSET Txs
    <2>1. 1..i \subseteq 1..Len(txs)
      OBVIOUS
    <2> QED  BY <2>1 DEF Among
  <1>2. ASSUME NEW i \in 1..Len(txs)  PROVE Among(txs, i) = Among(txs, i - 1) \cup {txs[i]}
    <2>1. 1..i = (1..(i - 1)) \cup {i}
      OBVIOUS
    <2> QED  BY <2>1 DEF Among
  <1>3. Among(txs, 0) = {} /\ Among(txs, Len(txs)) = ToSet(txs)
    BY DEF Among, ToSet
  <1> QED  BY <1>1, <1>2, <1>3

(* One transaction more of a sender. *)
LEMMA OneMoreOfSender ==
    ASSUME NEW D \in SUBSET Txs, NEW x \in Txs \ D, NEW w
    PROVE  IF Sender[x] = w
           THEN /\ Cardinality(OfSender(D \cup {x}, w)) = Cardinality(OfSender(D, w)) + 1
                /\ Sum(Debits, OfSender(D \cup {x}, w)) = Sum(Debits, OfSender(D, w)) + Debit(x)
           ELSE OfSender(D \cup {x}, w) = OfSender(D, w)
  <1>1. CASE Sender[x] # w
    BY <1>1 DEF OfSender
  <1>2. CASE Sender[x] = w
    <2> DEFINE S == OfSender(D, w)
               T == OfSender(D \cup {x}, w)
    <2>1. T = S \cup {x} /\ x \notin S
      BY <1>2 DEF OfSender
    <2>2. IsFiniteSet(S) /\ Terms(Debits, T) /\ Terms(Debits, S)
      BY DebitsTyped
    <2>3. Debits[x] = Debit(x) /\ Debit(x) \in Int
      BY DebitsTyped
    <2> HIDE DEF S, T
    <2>4. Cardinality(S \cup {x}) = Cardinality(S) + 1
      BY <2>1, <2>2, FS_AddElement
    <2>5. Sum(Debits, S \cup {x}) = Debits[x] + Sum(Debits, S)
      BY <2>1, <2>2, SumWith
    <2>6. Sum(Debits, S) \in Int
      BY <2>2, SumIsInt
    <2>7. Cardinality(T) = Cardinality(S) + 1 /\ Sum(Debits, T) = Sum(Debits, S) + Debit(x)
      BY <2>1, <2>3, <2>4, <2>5, <2>6
    <2> QED  BY <1>2, <2>7 DEF S, T
  <1> QED  BY <1>1, <1>2

LEMMA ConsiderPays ==
    ASSUME NEW b, NoncesHold(b), b.balances \in [Accounts -> Int], NEW pick \in Picks(b),
           Executable(b, pick.txs), NEW x \in Txs
    PROVE  Executable(b, Consider(b, pick, x).txs)
  <1> DEFINE w == Sender[x]
             S == OfSender(ToSet(pick.txs), w)
             T == Append(pick.txs, x)
             n == Len(pick.txs)
  <1>1. /\ pick.txs \in Seq(Txs) /\ n \in Nat /\ w \in Wallets
        /\ ToSet(pick.txs) \in SUBSET Txs
    BY TxsTyped, AmongTyped DEF Executable
  <1>2. CASE Consider(b, pick, x).txs = pick.txs
    BY <1>2
  <1>3. CASE Consider(b, pick, x).txs # pick.txs
    <2>1. /\ Consider(b, pick, x) = [pick EXCEPT !.txs = T]
          /\ ~Contains(pick.txs, x)
          /\ ~(Nonce[x] > ConfirmedNonce(b, w) + 1 + Cardinality(S))
          /\ ~(Nonce[x] < ConfirmedNonce(b, w) + 1 + Cardinality(S))
          /\ ~(b.balances[w] < SumFunctionOnSet([y \in S |-> Debit(y)], S) + Debit(x))
      BY <1>3 DEF Consider, OfSender, Picks
    <2>2. Consider(b, pick, x).txs = T
      BY <2>1 DEF Picks
    <2>3. SumFunctionOnSet([y \in S |-> Debit(y)], S) = Sum(Debits, S)
      <3> DEFINE v == [y \in S |-> Debit(y)]
      <3>1. Terms(Debits, S) /\ \A y \in S : Debits[y] = v[y]
        BY <1>1, DebitsTyped DEF OfSender
      <3> HIDE DEF v, S
      <3>2. Sum(Debits, S) = Sum(v, S)
        BY <3>1, SumSame
      <3> QED  BY <3>2 DEF Sum, v
    <2>4. Affords(b, ToSet(pick.txs), x)
      <3>1. Cardinality(S) \in Nat /\ Sum(Debits, S) \in Int /\ Debit(x) \in Int
        <4>1. \A D \in SUBSET Txs : IsFiniteSet(OfSender(D, w)) /\ Terms(Debits, OfSender(D, w))
          BY DebitsTyped
        <4>2. IsFiniteSet(S) /\ Terms(Debits, S)
          BY <1>1, <4>1, Zenon
        <4>3. Debit(x) \in Int
          BY DebitsTyped
        <4> HIDE DEF S
        <4> QED  BY <4>2, <4>3, FS_CardinalityType, SumIsInt
      <3>2. b.nonces[w] \in Nat /\ ConfirmedNonce(b, w) = b.nonces[w] /\ Nonce[x] \in Nat
        BY <1>1, TxsTyped DEF NoncesHold
      <3>3. b.balances[w] \in Int
        BY <1>1, WalletsAreAccounts
      <3> HIDE DEF S, w
      <3>4. Nonce[x] = b.nonces[w] + 1 + Cardinality(S)
        BY <2>1, <3>1, <3>2
      <3>5. Sum(Debits, S) + Debit(x) <= b.balances[w]
        BY <2>1, <2>3, <3>1, <3>3
      <3> QED  BY <3>4, <3>5 DEF Affords, S, w
    <2>5. /\ T \in Seq(Txs) /\ Len(T) = n + 1 /\ T[n + 1] = x
          /\ \A i \in 1..n : T[i] = pick.txs[i]
      BY <1>1
    <2> HIDE DEF T, n
    <2>6. \A i \in 1..n : pick.txs[i] # x
      BY <2>1 DEF Contains, n
    <2>7. \A i \in 1..(n + 1) : i \in 1..n \/ i = n + 1
      BY <1>1
    <2>8. \A i, j \in 1..(n + 1) : T[i] = T[j] => i = j
      BY <2>5, <2>6, <2>7 DEF Executable, n
    <2>9. \A i \in 0..n : Among(T, i) = Among(pick.txs, i)
      <3> SUFFICES ASSUME NEW i \in 0..n  PROVE Among(T, i) = Among(pick.txs, i)
        OBVIOUS
      <3>1. 1..i \subseteq 1..n
        BY <1>1
      <3> QED  BY <2>5, <3>1 DEF Among
    <2>10. Among(T, n) = ToSet(pick.txs)
      BY <1>1, <2>9, AmongTyped DEF n
    <2>11. ASSUME NEW i \in 1..(n + 1)  PROVE Affords(b, Among(T, i - 1), T[i])
      <3>1. CASE i = n + 1
        <4>1. i - 1 = n
          BY <1>1, <3>1
        <4> QED  BY <2>4, <2>5, <2>10, <3>1, <4>1
      <3>2. CASE i \in 1..n
        <4>1. i - 1 \in 0..n
          BY <1>1, <3>2
        <4> QED  BY <2>5, <2>9, <3>2, <4>1 DEF Executable, n
      <3> QED  BY <2>7, <3>1, <3>2
    <2> QED  BY <2>2, <2>5, <2>8, <2>11 DEF Executable
  <1> QED  BY <1>2, <1>3

LEMMA PassPays ==
    ASSUME NEW b, NoncesHold(b), b.balances \in [Accounts -> Int], NEW pick \in Picks(b),
           Executable(b, pick.txs)
    PROVE  Executable(b, SelectionPass(b, pick).txs)
  <1>0. PICK n : n = Len(TxOrder)
    OBVIOUS
  <1>1. PICK g : /\ g[0] = pick /\ SelectionPass(b, pick) = g[n]
                 /\ \A i \in 1..n : g[i] = Consider(b, g[i - 1], TxOrder[i])
    BY <1>0, PassRuns
  <1> DEFINE G == {i \in 0..n : g[i] \in Picks(b) /\ Executable(b, g[i].txs)}
  <1>2. n \in Nat
    BY <1>0, OrderTyped
  <1>3. 0 \in G
    BY <1>1, <1>2
  <1>4. ASSUME NEW i \in 1..n, i - 1 \in G  PROVE i \in G
    <2> DEFINE r == g[i - 1]
               x == TxOrder[i]
    <2>1. /\ r \in Picks(b) /\ Executable(b, r.txs) /\ g[i] = Consider(b, r, x)
          /\ x \in Txs /\ i \in 0..n
      BY <1>0, <1>1, <1>2, <1>4, OrderTyped
    <2> HIDE DEF r, x
    <2>2. Consider(b, r, x) \in Picks(b)
      BY <2>1, ConsiderPicks
    <2>3. Executable(b, Consider(b, r, x).txs)
      BY <2>1, ConsiderPays
    <2> QED  BY <2>1, <2>2, <2>3
  <1> HIDE DEF G
  <1>5. n \in G
    BY <1>2, <1>3, <1>4, UpTo
  <1> QED  BY <1>1, <1>5 DEF G

(* Whatever waits in the mempool, a selection executes as a whole.         *)
LEMMA SelectionPays ==
    ASSUME NEW b, NoncesHold(b), b.balances \in [Accounts -> Int]
    PROVE  Executable(b, Selection(b).txs)
  <1>0. PICK n : n = Len(TxOrder)
    OBVIOUS
  <1>1. PICK g : /\ g[0] = NoPick /\ Selection(b) = g[n]
                 /\ \A i \in 1..n : g[i] = SelectionPass(b, g[i - 1])
    BY <1>0, SelectionRuns
  <1> DEFINE G == {i \in 0..n : g[i] \in Picks(b) /\ Executable(b, g[i].txs)}
  <1>2. n \in Nat
    BY <1>0, OrderTyped
  <1>3. 0 \in G
    <2>1. << >> \in Seq(PendingOf(b)) /\ << >> \in Seq(Txs) /\ Len(<< >>) = 0 /\ 1..0 = {}
      OBVIOUS
    <2>2. Executable(b, << >>)
      BY <2>1 DEF Executable
    <2>3. NoPick \in Picks(b) /\ NoPick.txs = << >>
      BY <2>1 DEF Picks, NoPick
    <2> QED  BY <1>1, <1>2, <2>2, <2>3
  <1>4. \A i \in 1..n : i - 1 \in G => i \in G
    BY <1>1, <1>2, PassPicks, PassPays
  <1> HIDE DEF G
  <1>5. n \in G
    BY <1>2, <1>3, <1>4, UpTo
  <1> QED  BY <1>1, <1>5 DEF G

(* What a transaction brings to the wallets.                               *)
LEMMA TransferBalances ==
    ASSUME NEW b, DOMAIN b = Columns, b.balances \in [Accounts -> Int], NEW x \in Txs,
           NEW miner \in Wallets, NEW h
    PROVE  LET c == Transferred(b, x, miner, h)
           IN  /\ c.balances \in [Accounts -> Int]
               /\ \A w \in Wallets : c.balances[w] = b.balances[w] + Payments!Effect(w, x, miner)
  <1> DEFINE amount   == -Debit(x)
             debited  == Pay(b, "transfer_debit", Sender[x], amount, h, x)
             credited == Pay(debited, "transfer_credit", Recipient[x], Amount[x], h, x)
             feePaid  == Pay(credited, "transaction_fee_reward", miner, Fee[x], h, x)
             paid     == IF Fee[x] = 0 THEN credited ELSE feePaid
             c        == Transferred(b, x, miner, h)
  <1>1. c = [paid EXCEPT !.rows[x] = [@ EXCEPT !.status = "confirmed", !.height = h, !.task = NoTask],
                         !.nonces[Sender[x]] = MaxOr0({@, Nonce[x]})]
    BY DEF Transferred
  <1> HIDE DEF c
  <1>2. DOMAIN debited = Columns /\ debited.balances = PayBalance(b.balances, Sender[x], amount)
    BY PayIsBalance
  <1> HIDE DEF debited
  <1>3. DOMAIN credited = Columns
        /\ credited.balances = PayBalance(debited.balances, Recipient[x], Amount[x])
    BY <1>2, PayIsBalance
  <1> HIDE DEF credited
  <1>4. DOMAIN feePaid = Columns /\ feePaid.balances = PayBalance(credited.balances, miner, Fee[x])
    BY <1>3, PayIsBalance
  <1> HIDE DEF feePaid
  <1>5. DOMAIN paid = Columns
    BY <1>3, <1>4
  <1>6. c.balances = paid.balances
    <2> HIDE DEF paid
    <2> QED  BY <1>1, <1>5 DEF Columns
  <1>7. /\ Sender[x] \in Accounts /\ Recipient[x] \in Accounts /\ miner \in Accounts
        /\ Amount[x] \in Int /\ Fee[x] \in Int /\ Debit(x) = Amount[x] + Fee[x]
        /\ amount \in Int /\ amount = -(Amount[x] + Fee[x])
    BY TxsTyped, DebitsTyped, WalletsAreAccounts
  <1> HIDE DEF amount
  <1>8. /\ debited.balances \in [Accounts -> Int]
        /\ \A w \in Wallets : debited.balances[w]
             = b.balances[w] - (IF Sender[x] = w THEN Amount[x] + Fee[x] ELSE 0)
    BY <1>2, <1>7, WalletsAreAccounts DEF PayBalance
  <1>9. /\ credited.balances \in [Accounts -> Int]
        /\ \A w \in Wallets : credited.balances[w]
             = debited.balances[w] + (IF Recipient[x] = w THEN Amount[x] ELSE 0)
    BY <1>3, <1>7, <1>8, WalletsAreAccounts DEF PayBalance
  <1>10. /\ feePaid.balances \in [Accounts -> Int]
         /\ \A w \in Wallets : feePaid.balances[w]
              = credited.balances[w] + (IF miner = w THEN Fee[x] ELSE 0)
    BY <1>4, <1>7, <1>9, WalletsAreAccounts DEF PayBalance
  <1>11. /\ paid.balances \in [Accounts -> Int]
         /\ \A w \in Wallets : paid.balances[w]
              = credited.balances[w] + (IF miner = w THEN Fee[x] ELSE 0)
    <2>1. CASE Fee[x] = 0
      BY <2>1, <1>7, <1>9, WalletsAreAccounts
    <2>2. CASE Fee[x] # 0
      BY <2>2, <1>10
    <2> QED  BY <2>1, <2>2
  <1> HIDE DEF paid
  <1>12. ASSUME NEW w \in Wallets
         PROVE  paid.balances[w] = b.balances[w] + Payments!Effect(w, x, miner)
    <2>1. b.balances[w] \in Int /\ debited.balances[w] \in Int /\ credited.balances[w] \in Int
      BY <1>8, <1>9, WalletsAreAccounts
    <2> QED  BY <1>7, <1>8, <1>9, <1>11, <2>1 DEF Payments!Effect
  <1> QED  BY <1>6, <1>11, <1>12 DEF c

(* On the way through a selection: every sender has used one nonce for each *)
(* transaction and spent no more than its amount and fee.                  *)
Follows(b, c, D) ==
    /\ c.balances \in [Accounts -> Int]
    /\ \A w \in Wallets :
         /\ c.nonces[w] = b.nonces[w] + Cardinality(OfSender(D, w))
         /\ b.balances[w] - Sum(Debits, OfSender(D, w)) <= c.balances[w]

LEMMA FollowsByOne ==
    ASSUME NEW b, Kept(b), NoncesHold(b), b.balances \in [Accounts -> Int],
           NEW c, NEW D \in SUBSET Txs, NEW h \in Nat, Advanced(b, c, D, h), Follows(b, c, D),
           NEW x \in Txs \ D, Affords(b, D, x), NEW miner \in Wallets
    PROVE  /\ Applicable(c, x, FALSE)
           /\ Follows(b, Transferred(c, x, miner, h), D \cup {x})
  <1> DEFINE s == Sender[x]
             d == Transferred(c, x, miner, h)
  <1>1. Kept(c) /\ DOMAIN c = Columns /\ c.nonces \in [Wallets -> Nat] /\ s \in Wallets
        /\ b.nonces \in [Wallets -> Nat]
    BY TxsTyped DEF Advanced, Kept
  <1>2. ConfirmedNonce(c, s) = c.nonces[s]
    <2> DEFINE N == ConfirmedOf(c, s)
    <2>1. N \in SUBSET Nat
      BY ConfirmedBounded
    <2>2. ASSUME NEW m \in N  PROVE c.nonces[s] >= m
      <3>1. PICK y \in Txs : Sender[y] = s /\ c.rows[y].status = "confirmed" /\ m = Nonce[y]
        BY <2>2 DEF ConfirmedOf
      <3>2. CASE y \in D
        BY <3>1, <3>2 DEF Advanced
      <3>3. CASE y \notin D
        <4>1. b.rows[y].status = "confirmed"
          BY <3>1, <3>3 DEF Advanced
        <4>2. Nonce[y] \in ConfirmedOf(b, s)
          BY <3>1, <4>1 DEF ConfirmedOf
        <4>3. ConfirmedNonce(b, s) = MaxOr0({b.nonces[s]} \cup ConfirmedOf(b, s))
          BY DEF ConfirmedNonce, ConfirmedOf
        <4> DEFINE M == {b.nonces[s]} \cup ConfirmedOf(b, s)
        <4>4. M \in SUBSET Nat /\ IsFiniteSet(M)
          BY <1>1, ConfirmedBounded, FS_AddElement, SMTT(40)
        <4>5. Nonce[y] <= MaxOr0(M)
          <5> HIDE DEF M
          <5>1. \A k \in M : MaxOr0(M) >= k
            BY <4>4, MaxOr0Bounds
          <5>2. Nonce[y] \in M
            BY <4>2 DEF M
          <5> QED  BY <4>4, <5>1, <5>2, MaxOr0Bounds
        <4>6. Nonce[y] <= b.nonces[s]
          BY <1>1, <4>3, <4>5 DEF NoncesHold
        <4>7. b.nonces[s] <= c.nonces[s]
          BY <1>1 DEF Advanced
        <4>8. Nonce[y] \in Nat /\ b.nonces[s] \in Nat /\ c.nonces[s] \in Nat
          BY <1>1, TxsTyped
        <4> QED  BY <3>1, <4>6, <4>7, <4>8
      <3> QED  BY <3>2, <3>3
    <2>3. ConfirmedNonce(c, s) = MaxOr0({c.nonces[s]} \cup N)
      BY DEF ConfirmedNonce, ConfirmedOf
    <2> HIDE DEF N
    <2> DEFINE M == {c.nonces[s]} \cup N
               m == c.nonces[s]
    <2>4. M \in SUBSET Nat /\ m \in M \cup {0} /\ m \in Nat
      BY <1>1, <2>1
    <2>5. \A k \in M : m >= k
      BY <2>2, <2>4
    <2> HIDE DEF M, m
    <2>6. MaxOr0(M) = m
      BY <2>4, <2>5, MaxOr0Is
    <2> QED  BY <2>3, <2>6 DEF M, m
  <1> DEFINE n   == Cardinality(OfSender(D, s))
             sum == Sum(Debits, OfSender(D, s))
  <1>3. n \in Nat /\ sum \in Int /\ Debit(x) \in Nat /\ Nonce[x] \in Nat
    <2>1. IsFiniteSet(OfSender(D, s)) /\ Terms(Debits, OfSender(D, s))
      BY DebitsTyped
    <2> QED  BY <2>1, FS_CardinalityType, SumIsInt, DebitsTyped, TxsTyped
  <1>4. /\ c.nonces[s] = b.nonces[s] + n /\ b.balances[s] - sum <= c.balances[s]
        /\ Nonce[x] = b.nonces[s] + 1 + n /\ sum + Debit(x) <= b.balances[s]
        /\ b.balances[s] \in Int /\ c.balances[s] \in Int /\ b.nonces[s] \in Nat
    BY <1>1, WalletsAreAccounts DEF Follows, Affords
  <1> HIDE DEF n, sum
  <1>5. Applicable(c, x, FALSE)
    <2>1. Nonce[x] = c.nonces[s] + 1 /\ c.balances[s] >= Debit(x)
      BY <1>3, <1>4
    <2> QED  BY <1>2, <2>1 DEF Applicable
  <1>6. /\ d.balances \in [Accounts -> Int]
        /\ \A w \in Wallets : d.balances[w] = c.balances[w] + Payments!Effect(w, x, miner)
    BY <1>1, TransferBalances DEF Follows
  <1>7. d.nonces = Raised(c.nonces, x)
    <2>1. Transfers(c, d, x, h)
      BY <1>1, TransferKeeps
    <2> HIDE DEF d
    <2> QED  BY <2>1 DEF Transfers
  <1> HIDE DEF d
  <1>8. MaxOr0({c.nonces[s], Nonce[x]}) = Nonce[x]
    <2> DEFINE M == {c.nonces[s], Nonce[x]}
               m == Nonce[x]
    <2>1. M \in SUBSET Nat /\ m \in M \cup {0} /\ \A k \in M : m >= k
      BY <1>1, <1>3, <1>4
    <2> HIDE DEF M, m
    <2>2. MaxOr0(M) = m
      BY <2>1, MaxOr0Is
    <2> QED  BY <2>2 DEF M, m
  <1>9. ASSUME NEW w \in Wallets
        PROVE  /\ d.nonces[w] = b.nonces[w] + Cardinality(OfSender(D \cup {x}, w))
               /\ b.balances[w] - Sum(Debits, OfSender(D \cup {x}, w)) <= d.balances[w]
    <2>1. /\ Amount[x] \in Nat /\ Fee[x] \in Nat /\ Debit(x) = Amount[x] + Fee[x]
          /\ b.balances[w] \in Int /\ c.balances[w] \in Int
      BY DebitsTyped, WalletsAreAccounts DEF Follows
    <2>2. IF Sender[x] = w THEN Payments!Effect(w, x, miner) >= -Debit(x)
                           ELSE Payments!Effect(w, x, miner) >= 0
      BY <2>1 DEF Payments!Effect
    <2>3. Payments!Effect(w, x, miner) \in Int
      BY <2>1 DEF Payments!Effect
    <2>4. d.balances[w] = c.balances[w] + Payments!Effect(w, x, miner)
      BY <1>6
    <2> DEFINE E == Payments!Effect(w, x, miner)
    <2> HIDE DEF E
    <2>5. CASE w = s
      <3>1. /\ Cardinality(OfSender(D \cup {x}, s)) = n + 1
            /\ Sum(Debits, OfSender(D \cup {x}, s)) = sum + Debit(x)
        BY OneMoreOfSender DEF n, sum
      <3>2. d.nonces[s] = Nonce[x]
        BY <1>1, <1>7, <1>8 DEF Raised
      <3>3. E >= -Debit(x) /\ E \in Int /\ d.balances[s] = c.balances[s] + E
        BY <2>2, <2>3, <2>4, <2>5 DEF E
      <3>4. d.nonces[s] = b.nonces[s] + (n + 1)
        <4>1. n \in Nat /\ b.nonces[s] \in Nat /\ Nonce[x] = b.nonces[s] + 1 + n
          BY <1>3, <1>4
        <4> HIDE DEF s
        <4> QED  BY <3>2, <4>1
      <3>5. b.balances[s] - (sum + Debit(x)) <= d.balances[s]
        BY <1>3, <1>4, <3>3
      <3> QED  BY <2>5, <3>1, <3>4, <3>5
    <2>6. CASE w # s
      <3>1. OfSender(D \cup {x}, w) = OfSender(D, w)
        BY <2>6 DEF OfSender
      <3>2. d.nonces[w] = c.nonces[w]
        BY <1>1, <1>7, <2>6 DEF Raised
      <3>3. Sum(Debits, OfSender(D, w)) \in Int
        <4>1. Terms(Debits, OfSender(D, w))
          BY DebitsTyped
        <4> QED  BY <4>1, SumIsInt
      <3>4. b.balances[w] - Sum(Debits, OfSender(D, w)) <= c.balances[w]
            /\ c.nonces[w] = b.nonces[w] + Cardinality(OfSender(D, w))
        BY DEF Follows
      <3>5. E >= 0 /\ E \in Int /\ d.balances[w] = c.balances[w] + E
        BY <2>2, <2>3, <2>4, <2>6 DEF E
      <3>6. b.balances[w] - Sum(Debits, OfSender(D, w)) <= d.balances[w]
        BY <2>1, <3>3, <3>4, <3>5
      <3> QED  BY <3>1, <3>2, <3>4, <3>6
    <2> QED  BY <2>5, <2>6
  <1>10. Follows(b, d, D \cup {x})
    BY <1>6, <1>9 DEF Follows
  <1> QED  BY <1>5, <1>10 DEF d

LEMMA ExecutableRuns ==
    ASSUME NEW b, Kept(b), NoncesHold(b), b.balances \in [Accounts -> Int],
           NEW txs, Executable(b, txs), NEW miner \in Wallets, NEW h \in Nat
    PROVE  Execution(b, txs, miner, h, FALSE).ok
  <1>0. txs \in Seq(Txs)
    BY DEF Executable
  <1>1. PICK g : ExecutionRun(g, b, txs, miner, h, FALSE)
    BY <1>0, ExecutionHasRun
  <1> DEFINE Good(i) == /\ DOMAIN g[i] = {"ok", "books"} /\ g[i].ok
                        /\ Advanced(b, g[i].books, Among(txs, i), h)
                        /\ Follows(b, g[i].books, Among(txs, i))
             Bad == {i \in 0..Len(txs) : ~Good(i)}
  <1>2. Good(0)
    <2>1. Among(txs, 0) = {} /\ DOMAIN g[0] = {"ok", "books"} /\ g[0].ok /\ g[0].books = b
      BY <1>0, <1>1, AmongTyped DEF Start, ExecutionRun
    <2>2. Advanced(b, b, {}, h)
      BY DEF Advanced, Kept
    <2>3. Follows(b, b, {})
      <3>1. \A w \in Wallets : b.nonces[w] \in Nat /\ b.balances[w] \in Int
        BY WalletsAreAccounts DEF NoncesHold
      <3>2. \A w : OfSender({}, w) = {}
        BY DEF OfSender
      <3>3. Cardinality({}) = 0 /\ Sum(Debits, {}) = 0
        BY FS_EmptySet, SumEmpty
      <3> QED  BY <3>1, <3>2, <3>3 DEF Follows
    <2> QED  BY <2>1, <2>2, <2>3
  <1>3. ASSUME NEW i \in 1..Len(txs), Good(i - 1)  PROVE Good(i)
    <2> DEFINE D == Among(txs, i - 1)
               c == g[i - 1].books
               x == txs[i]
    <2>1. /\ D \in SUBSET Txs /\ x \in Txs /\ Affords(b, D, x) /\ Among(txs, i) = D \cup {x}
      <3>1. i - 1 \in 0..Len(txs)
        OBVIOUS
      <3> QED  BY <1>0, <3>1, AmongTyped DEF Executable
    <2>2. x \notin D
      <3>1. \A j \in 1..(i - 1) : j \in 1..Len(txs) /\ j # i
        BY <1>0
      <3> QED  BY <3>1 DEF Among, Executable
    <2>3. Advanced(b, c, D, h) /\ Follows(b, c, D) /\ g[i - 1].ok /\ DOMAIN g[i - 1] = {"ok", "books"}
      BY <1>3
    <2> HIDE DEF D, c, x
    <2>4. Applicable(c, x, FALSE) /\ Follows(b, Transferred(c, x, miner, h), D \cup {x})
      BY <2>1, <2>2, <2>3, FollowsByOne
    <2>5. Advanced(b, Transferred(c, x, miner, h), D \cup {x}, h)
      <3> DEFINE replay == FALSE
      <3>1. Applicable(c, x, replay)
        BY <2>4
      <3> HIDE DEF replay
      <3> QED  BY <2>1, <2>3, <3>1, AdvanceByOne
    <2>6. g[i] = RunStep(miner, h, FALSE, g[i - 1], x)
      BY <1>1 DEF x, ExecutionRun
    <2>7. g[i].ok /\ DOMAIN g[i] = {"ok", "books"} /\ g[i].books = Transferred(c, x, miner, h)
      BY <2>3, <2>4, <2>6 DEF RunStep, c
    <2> QED  BY <2>1, <2>4, <2>5, <2>7
  <1> HIDE DEF Good
  <1>4. Bad = {}
    <2> SUFFICES ASSUME Bad # {}  PROVE FALSE
      OBVIOUS
    <2>1. PICK i \in Bad : \A j \in Bad : i <= j
      <3>1. Bad \in SUBSET Nat
        OBVIOUS
      <3> HIDE DEF Bad
      <3> QED  BY <3>1, SmallestNat
    <2>2. i \in 0..Len(txs) /\ i # 0 /\ ~Good(i) /\ Len(txs) \in Nat
      BY <1>0, <1>2, <2>1
    <2>3. i \in 1..Len(txs) /\ i - 1 \in 0..Len(txs) /\ ~(i <= i - 1)
      BY <2>2
    <2>4. i - 1 \notin Bad
      <3> HIDE DEF Bad
      <3> QED  BY <2>1, <2>3
    <2>5. Good(i - 1)
      BY <2>3, <2>4
    <2> QED  BY <1>3, <2>2, <2>3, <2>5
  <1>5. Good(Len(txs))
    BY <1>0, <1>4
  <1>6. g[Len(txs)].ok
    BY <1>5 DEF Good
  <1> QED  BY <1>1, <1>6 DEF ExecutionRun

(* What is affordable stays so while nonces stand and wallets only gain.   *)
LEMMA StaysExecutable ==
    ASSUME NEW b, NEW c, NEW txs, Executable(b, txs),
           \A w \in Wallets : /\ c.nonces[w] = b.nonces[w] /\ b.balances[w] <= c.balances[w]
                              /\ b.balances[w] \in Int /\ c.balances[w] \in Int
    PROVE  Executable(c, txs)
  <1> SUFFICES ASSUME NEW i \in 1..Len(txs)  PROVE Affords(c, Among(txs, i - 1), txs[i])
    BY DEF Executable
  <1> DEFINE x == txs[i]
             w == Sender[x]
             D == Among(txs, i - 1)
  <1>1. x \in Txs /\ w \in Wallets /\ D \in SUBSET Txs /\ Affords(b, D, x)
    <2>1. i - 1 \in 0..Len(txs)
      OBVIOUS
    <2> QED  BY <2>1, TxsTyped, AmongTyped DEF Executable
  <1> HIDE DEF x, D
  <1>2. Sum(Debits, OfSender(D, w)) \in Int /\ Debit(x) \in Int
    <2>1. Terms(Debits, OfSender(D, w))
      BY <1>1, DebitsTyped, Zenon
    <2>2. Debit(x) \in Int
      BY <1>1, DebitsTyped
    <2> QED  BY <2>1, <2>2, SumIsInt
  <1>3. Affords(c, D, x)
    BY <1>1, <1>2 DEF Affords
  <1> QED  BY <1>3 DEF x, D

(* A block begins with its reward: no wallet loses by it. *)
LEMMA RewardedGains ==
    ASSUME NEW b, DOMAIN b = Columns, b.balances \in [Accounts -> Int], NEW miner \in Wallets,
           NEW h, NEW related
    PROVE  LET c == Rewarded(b, miner, h, related)
           IN  /\ c.balances \in [Accounts -> Int]
               /\ \A w \in Wallets : b.balances[w] <= c.balances[w]
  <1> DEFINE reward == [height |-> h, account |-> miner, due |-> h + MaturityDepth,
                        mature |-> MaturityDepth = 0, related |-> related]
             noted  == [b EXCEPT !.rewards = Append(@, reward)]
             paid   == Pay(noted, "block_reward", miner, MinerReward, h, related)
             c      == Rewarded(b, miner, h, related)
  <1>1. c \in {noted, paid}
    BY DEF Rewarded
  <1> HIDE DEF c
  <1>2. DOMAIN noted = Columns /\ noted.balances = b.balances
    BY DEF Columns
  <1> HIDE DEF noted
  <1>3. paid.balances = PayBalance(b.balances, miner, MinerReward)
    BY <1>2, PayIsBalance
  <1> HIDE DEF paid
  <1>4. MinerReward \in Nat /\ miner \in Accounts
    BY BooksAssumption, WalletsAreAccounts
  <1>5. /\ paid.balances \in [Accounts -> Int]
        /\ \A w \in Wallets : b.balances[w] <= paid.balances[w]
    BY <1>3, <1>4, WalletsAreAccounts DEF PayBalance
  <1>6. \A w \in Wallets : b.balances[w] <= b.balances[w]
    BY WalletsAreAccounts
  <1>7. /\ c.balances \in [Accounts -> Int]
        /\ \A w \in Wallets : b.balances[w] <= c.balances[w]
    BY <1>1, <1>2, <1>5, <1>6
  <1> QED  BY <1>7 DEF c

-------------------------------------------------------------------------------
(* Frozen transactions as an invariant: a task is of a tip that the chain   *)
(* has, or had and cannot have again, and what the tasks of the present tip *)
(* froze is executable.                                                    *)

Past == {NoBlock} \cup arrived \cup {u \in Tasks : tasks[u].status \in {"accepted", "closed"}}
Frozens ==
    \A t \in Tasks :
      /\ tasks[t].seed \in Past
      /\ tasks[t].status = "none" => snapshots[t] = NoSnap
      /\ tasks[t].seed = Tip => /\ Executable(books, tasks[t].snap.txs)
                                /\ Executable(books, snapshots[t].txs)

LEMMA NothingIsExecutable == \A b : Executable(b, << >>)
  <1>1. << >> \in Seq(Txs) /\ Len(<< >>) = 0 /\ 1..0 = {}
    OBVIOUS
  <1> QED  BY <1>1 DEF Executable

LEMMA FrozenInitially == Init => Frozens
  <1> SUFFICES ASSUME Init, NEW t \in Tasks
               PROVE  /\ tasks[t].seed \in Past /\ snapshots[t] = NoSnap /\ tasks[t].snap = NoSnap
    BY NothingIsExecutable DEF Frozens, NoSnap
  <1> QED  BY DEF Init, Past

LEMMA CarriedHolds ==
    ASSUME NEW s, NEW b, Kept(b), Carried(s, b)
    PROVE  NoncesHold(b)
  <1> SUFFICES ASSUME NEW w \in Wallets  PROVE ConfirmedNonce(b, w) = b.nonces[w]
    BY DEF NoncesHold, Kept
  <1> DEFINE N == ConfirmedOf(b, w)
             m == b.nonces[w]
             M == {m} \cup N
  <1>1. /\ N \in SUBSET Nat /\ IsFiniteSet(N) /\ m \in Nat
        /\ m = MaxOr0(N)
    BY ConfirmedBounded DEF Kept, Carried
  <1>2. ConfirmedNonce(b, w) = MaxOr0(M)
    BY DEF ConfirmedNonce, ConfirmedOf
  <1> HIDE DEF N, m
  <1>3. \A y \in N : m >= y
    BY <1>1, MaxOr0Bounds
  <1>4. /\ M \in SUBSET Nat /\ m \in M \cup {0}
        /\ \A y \in M : m >= y
    <2>1. M \in SUBSET Nat /\ m \in M \cup {0}
      BY <1>1
    <2>2. ASSUME NEW y \in M  PROVE m >= y
      BY <1>1, <1>3, <2>2
    <2> QED  BY <2>1, <2>2
  <1> HIDE DEF M
  <1>5. MaxOr0(M) = m
    BY <1>1, <1>4, MaxOr0Is
  <1> QED  BY <1>2, <1>5 DEF m

(* What the books say of nonces and wallets stays. *)
SamePurse(b, c) ==
    \A w \in Wallets : c.nonces[w] = b.nonces[w] /\ c.balances[w] = b.balances[w]

LEMMA PurseIsSame ==
    \A b, c : SameConfirmed(b, c) /\ SameLedger(b, c) => SamePurse(b, c)
  BY DEF SameConfirmed, SameLedger, SamePurse

LEMMA ExecutableStays ==
    ASSUME NEW b, b.balances \in [Accounts -> Int], NEW c, SamePurse(b, c), NEW txs, Executable(b, txs)
    PROVE  Executable(c, txs)
  <1>1. \A w \in Wallets : b.balances[w] \in Int
    BY WalletsAreAccounts
  <1>2. \A w \in Wallets : /\ c.nonces[w] = b.nonces[w] /\ b.balances[w] <= c.balances[w]
                           /\ b.balances[w] \in Int /\ c.balances[w] \in Int
    BY <1>1 DEF SamePurse
  <1> QED  BY <1>2, StaysExecutable

(* A step that leaves tip, seeds and snapshots alone. *)
LEMMA FrozenKept ==
    ASSUME Frozens, books.balances \in [Accounts -> Int], chain' = chain, arrived' = arrived,
           snapshots' = snapshots, SamePurse(books, books'),
           \A t \in Tasks : /\ tasks'[t].seed = tasks[t].seed /\ tasks'[t].snap = tasks[t].snap
                            /\ tasks[t].status \in {"accepted", "closed"}
                                 => tasks'[t].status \in {"accepted", "closed"}
                            /\ tasks'[t].status = "none" => tasks[t].status = "none"
    PROVE  Frozens'
  <1>1. Tip' = Tip
    BY DEF Tip, Height
  <1>2. Past \subseteq Past'
    BY DEF Past
  <1>3. \A txs : Executable(books, txs) => Executable(books', txs)
    BY ExecutableStays
  <1> SUFFICES ASSUME NEW t \in Tasks
               PROVE  /\ tasks'[t].seed \in Past'
                      /\ tasks'[t].status = "none" => snapshots'[t] = NoSnap
                      /\ tasks'[t].seed = Tip' => /\ Executable(books', tasks'[t].snap.txs)
                                                  /\ Executable(books', snapshots'[t].txs)
    BY DEF Frozens
  <1> QED  BY <1>1, <1>2, <1>3 DEF Frozens

(* A step to a tip that never was one. *)
LEMMA FrozenPast ==
    ASSUME Frozens, snapshots' = snapshots, arrived \subseteq arrived', Tip' \notin Past,
           \A t \in Tasks : /\ tasks'[t].seed = tasks[t].seed
                            /\ tasks[t].status \in {"accepted", "closed"}
                                 => tasks'[t].status \in {"accepted", "closed"}
                            /\ tasks'[t].status = "none" => tasks[t].status = "none"
    PROVE  Frozens'
  <1>1. Past \subseteq Past'
    BY DEF Past
  <1> SUFFICES ASSUME NEW t \in Tasks
               PROVE  /\ tasks'[t].seed \in Past' /\ tasks'[t].seed # Tip'
                      /\ tasks'[t].status = "none" => snapshots'[t] = NoSnap
    BY DEF Frozens
  <1> QED  BY <1>1 DEF Frozens

LEMMA TipIsPast == ExecInv /\ Arrivals => Tip \in Past
  <1> SUFFICES ASSUME ExecInv, Arrivals, chain # << >>  PROVE Tip \in Past
    BY DEF Tip, Past
  <1>1. chain \in Seq(ChainRows) /\ Height \in Nat \ {0} /\ Height = Len(chain)
    BY HeightTyped DEF ExecInv, ExecTyped, Height
  <1>2. Tip = chain[Height].id /\ Height \in 1..Height /\ chain[Height] \in ChainRows
    BY <1>1 DEF Tip
  <1>3. Tip \in Tasks \cup Foreign
    BY <1>2 DEF ChainRows, BlockIds
  <1>4. CASE Tip \in Tasks
    BY <1>2, <1>4 DEF ExecInv, MinedIsOver, Past
  <1>5. CASE Tip \in Foreign
    BY <1>2, <1>5 DEF Arrivals, Past
  <1> QED  BY <1>3, <1>4, <1>5

(* A task freezes on the tip. *)
LEMMA FrozenFreezes ==
    ASSUME ExecInv, LedgerInv, Frozens, NEW t \in Tasks,
           tasks[t].status = "none" \/ tasks[t].seed = Tip,
           tasks[t].status \notin {"accepted", "closed"},
           chain' = chain, arrived' = arrived,
           NEW b, Kept(b), SameConfirmed(books, b), SameLedger(books, b), FreezeFor(t, b, "assigned")
    PROVE  Frozens'
  <1>1. /\ books.balances \in [Accounts -> Int] /\ b.balances \in [Accounts -> Int]
        /\ tasks \in [Tasks -> TaskRows] /\ snapshots \in [Tasks -> SnapRows]
        /\ Kept(books) /\ Carried(chain, books) /\ DOMAIN b = Columns
    BY DEF LedgerInv, Ledgered, Booked, SameLedger, ExecInv, ExecTyped
  <1>2. Tip' = Tip /\ Tip \in Past
    BY TipIsPast DEF Tip, Height, LedgerInv
  <1>3. NoncesHold(b)
    <2> DEFINE s == chain
    <2>1. Carried(s, b)
      BY <1>1, CarriedOver
    <2> HIDE DEF s
    <2> QED  BY <2>1, CarriedHolds
  <1>4. SamePurse(books, b)
    BY PurseIsSame
  <1>5. /\ Selection(b) \in Picks(b) /\ Executable(b, Selection(b).txs)
    BY <1>1, <1>3, SelectionPicks, SelectionPays
  <1>6. \A txs : Executable(books, txs) => Executable(b, txs)
    BY <1>1, <1>4, ExecutableStays
  <1>7. SamePurse(b, books')
    <2>1. books' = b \/ books' = Frozen(b, Selection(b), t)
      BY DEF FreezeFor
    <2>2. SameConfirmed(b, b) /\ SameLedger(b, b)
      BY <1>1, RowsLeaveLedger DEF SameConfirmed
    <2>3. SameConfirmed(b, Frozen(b, Selection(b), t)) /\ SameLedger(b, Frozen(b, Selection(b), t))
      BY <1>1, <1>5, FrozenKeeps, RowsLeaveLedger
    <2> QED  BY <2>1, <2>2, <2>3, PurseIsSame
  <1>8. \A txs : Executable(b, txs) => Executable(books', txs)
    BY <1>1, <1>7, ExecutableStays
  <1>9. \A txs : Executable(books, txs) => Executable(books', txs)
    BY <1>6, <1>8
  <1> DEFINE own == [task |-> t, height |-> Height + 1, txs |-> Selection(b).txs]
  <1>10. \E s : /\ tasks' = [tasks EXCEPT ![t] = [status |-> "assigned", seed |-> Tip, snap |-> s]]
                /\ \/ s \in SharedSnaps(t, Tip) /\ snapshots' = snapshots
                   \/ s = own /\ snapshots' = [snapshots EXCEPT ![t] = own]
    BY DEF FreezeFor
  <1>11. PICK s : /\ tasks' = [tasks EXCEPT ![t] = [status |-> "assigned", seed |-> Tip, snap |-> s]]
                  /\ \/ s \in SharedSnaps(t, Tip) /\ snapshots' = snapshots
                     \/ s = own /\ snapshots' = [snapshots EXCEPT ![t] = own]
    BY <1>10
  <1>12. Executable(books', s.txs)
    <2>1. CASE s = own
      BY <1>5, <1>8, <2>1
    <2>2. CASE s \in SharedSnaps(t, Tip)
      <3>1. PICK v \in Tasks : s = snapshots[v] /\ tasks[v].seed = Tip
        BY <2>2 DEF SharedSnaps
      <3> QED  BY <1>9, <3>1 DEF Frozens
    <2> QED  BY <1>11, <2>1, <2>2
  <1>13. Executable(books', snapshots'[t].txs)
    <2>1. CASE snapshots' = [snapshots EXCEPT ![t] = own]
      BY <1>1, <1>5, <1>8, <2>1
    <2>2. CASE snapshots' = snapshots
      <3>1. CASE tasks[t].status = "none"
        BY <2>2, <3>1, NothingIsExecutable DEF Frozens, NoSnap
      <3>2. CASE tasks[t].seed = Tip
        BY <1>9, <2>2, <3>2 DEF Frozens
      <3> QED  BY <3>1, <3>2
    <2> QED  BY <1>11, <2>1, <2>2
  <1>14. Past' = Past
    BY <1>1, <1>11 DEF Past
  <1> SUFFICES ASSUME NEW u \in Tasks
               PROVE  /\ tasks'[u].seed \in Past'
                      /\ tasks'[u].status = "none" => snapshots'[u] = NoSnap
                      /\ tasks'[u].seed = Tip' => /\ Executable(books', tasks'[u].snap.txs)
                                                  /\ Executable(books', snapshots'[u].txs)
    BY DEF Frozens
  <1>15. CASE u = t
    BY <1>1, <1>2, <1>11, <1>12, <1>13, <1>14, <1>15
  <1>16. CASE u # t
    <2>1. tasks'[u] = tasks[u] /\ snapshots'[u] = snapshots[u]
      BY <1>1, <1>11, <1>16
    <2> QED  BY <1>2, <1>9, <1>14, <2>1 DEF Frozens
  <1> QED  BY <1>15, <1>16

StatusOnly ==
    \A t \in Tasks : /\ tasks'[t].seed = tasks[t].seed /\ tasks'[t].snap = tasks[t].snap
                     /\ tasks[t].status \in {"accepted", "closed"}
                          => tasks'[t].status \in {"accepted", "closed"}
                     /\ tasks'[t].status = "none" => tasks[t].status = "none"

LEMMA TaskFrozen ==
    ASSUME ExecInv, LedgerInv, Frozens, NEW t \in Tasks,
           tasks[t].status \notin {"accepted", "closed"}, NEW status, status # "none",
           tasks' = [tasks EXCEPT ![t].status = status],
           books' = books \/ books' = Released(books, {t}),
           chain' = chain, arrived' = arrived, snapshots' = snapshots
    PROVE  Frozens'
  <1>1. books.balances \in [Accounts -> Int] /\ tasks \in [Tasks -> TaskRows] /\ Kept(books)
        /\ DOMAIN books = Columns
    BY DEF LedgerInv, Ledgered, Booked, ExecInv, ExecTyped
  <1>2. SamePurse(books, books')
    <2>1. SamePurse(books, books)
      BY DEF SamePurse
    <2>2. SameConfirmed(books, Released(books, {t})) /\ SameLedger(books, Released(books, {t}))
      BY <1>1, ReleasedKeeps, RowsLeaveLedger
    <2> QED  BY <2>1, <2>2, PurseIsSame
  <1>3. StatusOnly
    BY <1>1 DEF StatusOnly, TaskRows
  <1> QED  BY <1>1, <1>2, <1>3, FrozenKept DEF StatusOnly

LEMMA TasksFrozen == ASSUME ExecInv, LedgerInv, Frozens, TasksNext  PROVE Frozens'
  <1>1. PICK t \in Tasks : \/ NextTask(t) \/ CommitTask(t) \/ ExpireTask(t) \/ CloseTask(t)
                           \/ ReviveCommitted(t) \/ ReviveAssigned(t)
    BY DEF TasksNext
  <1>2. chain' = chain /\ arrived' = arrived
    BY <1>1 DEF NextTask, CommitTask, ExpireTask, CloseTask, ReviveCommitted, ReviveAssigned, Ended
  <1>3. /\ Kept(books) /\ SameConfirmed(books, books) /\ SameLedger(books, books)
        /\ DOMAIN books = Columns
    BY RowsLeaveLedger DEF ExecInv, Kept, SameConfirmed
  <1>4. CASE ReviveAssigned(t)
    <2> DEFINE b == Released(books, {t})
    <2>1. Kept(b) /\ SameConfirmed(books, b) /\ SameLedger(books, b)
      BY <1>3, ReleasedKeeps, RowsLeaveLedger
    <2>2. FreezeFor(t, b, "assigned") /\ tasks[t].status = "lapsed" /\ tasks[t].seed = Tip
      BY <1>4 DEF ReviveAssigned
    <2> HIDE DEF b
    <2> QED  BY <1>2, <2>1, <2>2, FrozenFreezes
  <1>5. CASE NextTask(t)
    <2>1. FreezeFor(t, books, "assigned") /\ tasks[t].status = "none"
      BY <1>5 DEF NextTask
    <2> QED  BY <1>2, <1>3, <2>1, FrozenFreezes
  <1>6. CASE CommitTask(t) \/ ReviveCommitted(t)
    <2>1. /\ tasks[t].status \in {"assigned", "expired"} /\ books' = books /\ snapshots' = snapshots
          /\ tasks' = [tasks EXCEPT ![t].status = "committed"]
      BY <1>6 DEF CommitTask, ReviveCommitted
    <2> QED  BY <1>2, <2>1, TaskFrozen
  <1>7. CASE ExpireTask(t) \/ CloseTask(t)
    <2>1. PICK status \in {"lapsed", "expired", "closed"} :
             tasks[t].status \in Open /\ Ended(t, status)
      BY <1>7 DEF ExpireTask, CloseTask, Open
    <2>2. /\ tasks[t].status \notin {"accepted", "closed"} /\ status # "none"
          /\ tasks' = [tasks EXCEPT ![t].status = status] /\ snapshots' = snapshots
          /\ books' = Released(books, {t})
      BY <2>1 DEF Ended, Open
    <2> QED  BY <1>2, <2>2, TaskFrozen
  <1> QED  BY <1>1, <1>4, <1>5, <1>6, <1>7

LEMMA MempoolFrozen == ASSUME ExecInv, LedgerInv, Frozens, MempoolNext  PROVE Frozens'
  <1>1. Kept(books) /\ DOMAIN books = Columns /\ books.balances \in [Accounts -> Int]
    BY DEF ExecInv, Kept, LedgerInv, Ledgered, Booked
  <1>2. UNCHANGED << chain, arrived, tasks, snapshots >>
    BY DEF MempoolNext, ExpireMempool, SubmitTransaction, TtlPasses
  <1>3. SamePurse(books, books')
    <2>1. CASE ExpireMempool
      BY <1>1, <2>1, RowsLeaveLedger, ExpiredKeeps, PurseIsSame DEF ExpireMempool
    <2>2. ASSUME NEW x \in Txs, SubmitTransaction(x)  PROVE SamePurse(books, books')
      BY <1>1, <2>2, RowsLeaveLedger, SubmittedKeeps, PurseIsSame DEF SubmitTransaction
    <2>3. ASSUME NEW x \in Txs, TtlPasses(x)  PROVE SamePurse(books, books')
      BY <1>1, <2>3, RowsLeaveLedger, AgedKeeps, PurseIsSame DEF TtlPasses
    <2> QED  BY <2>1, <2>2, <2>3 DEF MempoolNext
  <1> QED  BY <1>1, <1>2, <1>3, FrozenKept

LEMMA TreasuryFrozen == ASSUME ExecInv, LedgerInv, Frozens, TreasuryNext  PROVE Frozens'
  <1>1. Kept(books) /\ DOMAIN books = Columns /\ books.balances \in [Accounts -> Int]
    BY DEF ExecInv, Kept, LedgerInv, Ledgered, Booked
  <1>2. UNCHANGED << chain, arrived, tasks, snapshots >>
    BY DEF TreasuryNext, NextQuarter, UnlockTreasury, ClaimTreasury
  <1>3. ASSUME NEW past
        PROVE  LET b == Unlocked(books, past)
               IN  /\ DOMAIN b = Columns /\ b.nonces = books.nonces /\ b.balances = books.balances
    BY <1>1 DEF Unlocked, Columns
  <1>4. ASSUME NEW b, DOMAIN b = Columns, b.nonces = books.nonces, b.balances = books.balances
        PROVE  SamePurse(books, Claimed(b))
    <2> DEFINE amount == b.fund.unlocked
               less   == -amount
               debit  == Pay(b, "treasury_claim", Treasury, less, NoHeight, "claim")
               both   == Pay(debit, "treasury_claim", Claimant, amount, NoHeight, "claim")
    <2>1. /\ DOMAIN debit = Columns /\ debit.nonces = b.nonces
          /\ debit.balances = PayBalance(b.balances, Treasury, less)
      BY <1>4, PayIsBalance, PayKeeps DEF Alike, SameRows
    <2> HIDE DEF debit
    <2>2. /\ DOMAIN both = Columns /\ both.nonces = debit.nonces
          /\ both.balances = PayBalance(debit.balances, Claimant, amount)
      BY <2>1, PayIsBalance, PayKeeps DEF Alike, SameRows
    <2> HIDE DEF both
    <2>3. Claimed(b).nonces = both.nonces /\ Claimed(b).balances = both.balances
      BY <2>2 DEF Claimed, Columns, both, debit
    <2>4. \A w \in Wallets : w \in Accounts /\ w # Treasury /\ w # Claimant
      BY NoWalletIsBuiltIn, WalletsAreAccounts
    <2>5. \A w \in Wallets : both.balances[w] = books.balances[w]
      BY <1>1, <1>4, <2>1, <2>2, <2>4 DEF PayBalance
    <2> QED  BY <1>4, <2>1, <2>2, <2>3, <2>5 DEF SamePurse
  <1>5. SamePurse(books, books')
    <2>1. CASE NextQuarter
      BY <2>1 DEF NextQuarter, SamePurse
    <2>2. ASSUME NEW past \in SUBSET Quarters, UnlockTreasury(past)  PROVE SamePurse(books, books')
      BY <1>3, <2>2 DEF UnlockTreasury, SamePurse
    <2>3. ASSUME NEW past \in SUBSET Quarters, ClaimTreasury(past)  PROVE SamePurse(books, books')
      BY <1>3, <1>4, <2>3 DEF ClaimTreasury
    <2> QED  BY <2>1, <2>2, <2>3 DEF TreasuryNext
  <1> QED  BY <1>1, <1>2, <1>5, FrozenKept

LEMMA ChainFrozen == ASSUME ExecInv, LedgerInv, Frozens, ChainNext  PROVE Frozens'
  <1>1. /\ chain \in Seq(ChainRows) /\ Height \in Nat /\ Height = Len(chain)
        /\ tasks \in [Tasks -> TaskRows] /\ Kept(books) /\ books.balances \in [Accounts -> Int]
        /\ Arrivals
    BY HeightTyped DEF ExecInv, ExecTyped, Height, LedgerInv, Ledgered, Booked
  <1>2. \A f \in Foreign \ arrived : f \notin Past
    BY BlocksAssumption DEF Past
  <1>3. ASSUME NEW t \in Tasks, AcceptBlock(t)  PROVE Frozens'
    <2>1. /\ tasks[t].status = "committed" /\ snapshots' = snapshots /\ arrived' = arrived
          /\ chain' = Append(chain, [id |-> t, txs |-> Loaded(t)])
          /\ tasks' = [u \in Tasks |-> IF u = t THEN [tasks[u] EXCEPT !.status = "accepted"]
                                       ELSE IF u \in Rivalry(t)
                                       THEN [tasks[u] EXCEPT !.status = "closed"] ELSE tasks[u]]
      BY <1>3 DEF AcceptBlock
    <2>2. t \notin Past
      BY <1>1, <2>1, BlocksAssumption DEF Past, Arrivals
    <2>3. Tip' = t
      <3> DEFINE blk == [id |-> t, txs |-> Loaded(t)]
      <3>1. /\ Len(chain') = Height + 1 /\ chain'[Height + 1] = blk /\ chain' # << >>
        BY <1>1, <2>1
      <3> QED  BY <3>1 DEF Tip, Height
    <2>4. \A u \in Tasks : /\ tasks'[u].seed = tasks[u].seed
                           /\ tasks[u].status \in {"accepted", "closed"}
                                => tasks'[u].status \in {"accepted", "closed"}
                           /\ tasks'[u].status = "none" => tasks[u].status = "none"
      <3> SUFFICES ASSUME NEW u \in Tasks
                   PROVE  /\ tasks'[u].seed = tasks[u].seed
                          /\ tasks[u].status \in {"accepted", "closed"}
                               => tasks'[u].status \in {"accepted", "closed"}
                          /\ tasks'[u].status = "none" => tasks[u].status = "none"
        OBVIOUS
      <3>1. PICK status \in {"accepted", "closed", tasks[u].status} :
               tasks'[u] = [tasks[u] EXCEPT !.status = status]
        <4>1. tasks[u] \in TaskRows
          BY <1>1
        <4>2. tasks[u] = [tasks[u] EXCEPT !.status = tasks[u].status]
          BY <4>1 DEF TaskRows
        <4> QED  BY <2>1, <4>2
      <3>2. tasks[u] \in TaskRows
        BY <1>1
      <3>3. tasks'[u].seed = tasks[u].seed /\ tasks'[u].status = status
        BY <3>1, <3>2 DEF TaskRows
      <3> QED  BY <3>3
    <2> QED  BY <2>1, <2>2, <2>3, <2>4, FrozenPast
  <1>4. ASSUME NEW t \in Tasks, AcceptFails(t)  PROVE Frozens'
    <2> DEFINE status == "closed"
    <2>1. /\ tasks[t].status \notin {"accepted", "closed"} /\ status # "none"
          /\ tasks' = [tasks EXCEPT ![t].status = status] /\ snapshots' = snapshots
          /\ books' = Released(books, {t}) /\ chain' = chain /\ arrived' = arrived
      BY <1>4 DEF AcceptFails, Ended
    <2> HIDE DEF status
    <2> QED  BY <2>1, TaskFrozen
  <1>5. ASSUME NEW f \in Foreign, Import(f)  PROVE Frozens'
    <2>1. /\ f \notin arrived /\ chain' = Append(chain, NewBlock(f)) /\ arrived' = arrived \cup {f}
          /\ tasks' = tasks /\ snapshots' = snapshots
      BY <1>5 DEF Import
    <2>2. Tip' = f
      <3>1. /\ Len(chain') = Height + 1 /\ chain'[Height + 1] = NewBlock(f) /\ chain' # << >>
        BY <1>1, <2>1
      <3> QED  BY <3>1 DEF Tip, Height, NewBlock
    <2> QED  BY <1>2, <2>1, <2>2, FrozenPast
  <1>6. ASSUME NEW f \in Foreign, NEW g \in Foreign, Reorg(f, g)  PROVE Frozens'
    <2> DEFINE n == Height
               below == SubSeq(chain, 1, n - 1)
    <2>1. /\ n > 0 /\ g \notin arrived /\ arrived' = arrived \cup {f, g} /\ snapshots' = snapshots
          /\ chain' = below \o << NewBlock(f), NewBlock(g) >>
          /\ tasks' = [t \in Tasks |-> IF t = Tip THEN [tasks[t] EXCEPT !.status = "closed"]
                                       ELSE tasks[t]]
      BY <1>6 DEF Reorg
    <2>2. below \in Seq(ChainRows) /\ Len(below) = n - 1 /\ n \in Nat
      BY <1>1, <2>1
    <2> HIDE DEF below, n
    <2>3. Len(chain') = n + 1 /\ chain'[n + 1] = NewBlock(g) /\ chain' # << >>
      BY <2>1, <2>2
    <2>4. Tip' = g
      BY <2>2, <2>3 DEF Tip, Height, NewBlock
    <2>5. \A u \in Tasks : /\ tasks'[u].seed = tasks[u].seed
                           /\ tasks[u].status \in {"accepted", "closed"}
                                => tasks'[u].status \in {"accepted", "closed"}
                           /\ tasks'[u].status = "none" => tasks[u].status = "none"
      BY <1>1, <2>1 DEF TaskRows
    <2> QED  BY <1>2, <2>1, <2>4, <2>5, FrozenPast
  <1>7. ASSUME NEW keep \in BOOLEAN, ForceRetarget(keep)  PROVE Frozens'
    <2>1. UNCHANGED << chain, arrived, books, tasks, snapshots >>
      BY <1>7 DEF ForceRetarget
    <2>2. SamePurse(books, books')
      BY <2>1 DEF SamePurse
    <2> QED  BY <1>1, <2>1, <2>2, FrozenKept
  <1> QED  BY <1>3, <1>4, <1>5, <1>6, <1>7 DEF ChainNext

LEMMA FrozenStep == ExecInv /\ LedgerInv /\ Frozens /\ [Next]_vars => Frozens'
  <1> SUFFICES ASSUME ExecInv, LedgerInv, Frozens, [Next]_vars  PROVE Frozens'
    OBVIOUS
  <1>1. CASE UNCHANGED vars
    <2>1. UNCHANGED << chain, arrived, books, tasks, snapshots >>
      BY <1>1 DEF vars
    <2>2. SamePurse(books, books') /\ books.balances \in [Accounts -> Int]
      BY <2>1 DEF SamePurse, LedgerInv, Ledgered, Booked
    <2> QED  BY <2>1, <2>2, FrozenKept
  <1>2. CASE Next
    BY <1>2, MempoolFrozen, TasksFrozen, ChainFrozen, TreasuryFrozen DEF Next
  <1> QED  BY <1>1, <1>2

LEMMA FrozenExecutes == ExecInv /\ LedgerInv /\ Frozens => FrozenStaysExecutable
  <1> SUFFICES ASSUME ExecInv, LedgerInv, Frozens, NEW t \in Tasks, tasks[t].seed = Tip
               PROVE  LocalBlock(t).ok
    BY DEF FrozenStaysExecutable
  <1>1. /\ Kept(books) /\ Carried(chain, books) /\ Height \in Nat /\ DOMAIN books = Columns
        /\ books.balances \in [Accounts -> Int]
    BY HeightTyped DEF ExecInv, LedgerInv, Ledgered, Booked
  <1> DEFINE txs   == Loaded(t)
             miner == Miner[t]
             h     == Height + 1
             b     == Rewarded(books, miner, h, t)
  <1>2. Executable(books, txs)
    BY NothingIsExecutable DEF Loaded, Frozens
  <1>3. t \in BlockIds /\ miner \in Wallets /\ h \in Nat
    BY <1>1, BlocksAssumption DEF BlockIds
  <1>4. Kept(b) /\ SameRows(books, b)
    <2> HIDE DEF h
    <2> QED  BY <1>1, <1>3, RewardedKeeps
  <1>5. /\ b.balances \in [Accounts -> Int]
        /\ \A w \in Wallets : books.balances[w] <= b.balances[w]
    BY <1>1, <1>3, RewardedGains
  <1> HIDE DEF b, txs, miner, h
  <1>6. NoncesHold(b)
    <2> DEFINE s == chain
    <2>1. SameConfirmed(books, b)
      BY <1>4 DEF SameRows, SameConfirmed
    <2>2. Carried(s, b)
      BY <1>1, <2>1, CarriedOver
    <2> HIDE DEF s
    <2> QED  BY <1>4, <2>2, CarriedHolds
  <1>7. Executable(b, txs)
    <2>1. \A w \in Wallets : /\ b.nonces[w] = books.nonces[w] /\ books.balances[w] <= b.balances[w]
                             /\ books.balances[w] \in Int /\ b.balances[w] \in Int
      BY <1>1, <1>4, <1>5, WalletsAreAccounts DEF SameRows
    <2> QED  BY <1>2, <2>1, StaysExecutable
  <1>8. Execution(b, txs, miner, h, FALSE).ok
    BY <1>3, <1>4, <1>5, <1>6, <1>7, ExecutableRuns
  <1> QED  BY <1>8 DEF LocalBlock, Block, b, txs, miner, h

(* The transactions a task has frozen execute on the tip, all of them, as    *)
(* long as it is the tip they were frozen on, whatever was submitted,        *)
(* released, expired or shared since: FrozenStaysExecutable in every         *)
(* instance.                                                               *)
THEOREM FrozenExecutesInFull == Spec => []FrozenStaysExecutable
  <1>1. Init => Frozens
    BY FrozenInitially
  <1>2. ExecInv /\ LedgerInv /\ Frozens /\ [Next]_vars => Frozens'
    BY FrozenStep
  <1>3. ExecInv /\ LedgerInv /\ Frozens => FrozenStaysExecutable
    BY FrozenExecutes
  <1> QED  BY <1>1, <1>2, <1>3, ExecAlways, LedgerAlways, PTL DEF Spec

-------------------------------------------------------------------------------
(* What a block adds to the ledger is at its height.                       *)

Since(b, c, h) ==
    /\ Booked(c, h + 1) /\ DOMAIN c.fund = DOMAIN b.fund /\ c.fund.claimed = b.fund.claimed
    /\ \A a \in Accounts : \A k \in Int : k <= h =>
          Below(c.ledger, EntryTypes, {a}, k) = Below(b.ledger, EntryTypes, {a}, k)

LEMMA SinceNowhere == \A b, h : Booked(b, h + 1) => Since(b, b, h)
  BY DEF Since

LEMMA SinceFollows == \A b, c, d, h : Since(b, c, h) /\ Since(c, d, h) => Since(b, d, h)
  BY DEF Since

LEMMA SinceAlike ==
    \A b, c, d, h : /\ Since(b, c, h) /\ DOMAIN d = Columns
                    /\ d.ledger = c.ledger /\ d.balances = c.balances /\ d.fund = c.fund
                    => Since(b, d, h)
  BY DEF Since, Booked

(* Who is paid in a block, for what. *)
PayRelated == Txs \cup BlockIds \cup Nat

LEMMA PaySince ==
    ASSUME NEW h \in Nat, NEW b, Booked(b, h + 1), NEW type \in EntryTypes, NEW who \in Accounts,
           NEW amount \in Int, NEW related \in PayRelated
    PROVE  LET c == Pay(b, type, who, amount, h, related)
           IN  Since(b, c, h) /\ c.balances = PayBalance(b.balances, who, amount) /\ c.fund = b.fund
  <1> DEFINE c == Pay(b, type, who, amount, h, related)
             e == Entry(type, who, amount, h, related)
             j == h + 1
  <1>1. /\ Booked(c, h + 1) /\ c.ledger = Append(b.ledger, e) /\ e \in LedgerRows
        /\ c.fund = b.fund
    <2>1. j \in Int /\ h < j /\ Booked(b, j) /\ h \in Heights
          /\ related \in {"genesis", "claim"} \cup Txs \cup BlockIds \cup Nat
      BY DEF Heights, PayRelated
    <2> HIDE DEF j
    <2>2. LET d == Pay(b, type, who, amount, h, related)
              f == Entry(type, who, amount, h, related)
          IN  /\ Booked(d, j) /\ d.ledger = Append(b.ledger, f) /\ f \in LedgerRows
              /\ d.fund = b.fund /\ d.epochs = b.epochs /\ d.rewards = b.rewards
              /\ Alike(b, d)
      BY <2>1, PayBooks
    <2> QED  BY <2>2 DEF j
  <1>2. c.balances = PayBalance(b.balances, who, amount)
    BY PayIsBalance DEF Booked
  <1>3. e.height = h
    BY DEF Entry
  <1> HIDE DEF c, e
  <1>4. ASSUME NEW a \in Accounts, NEW k \in Int, k <= h
        PROVE  Below(c.ledger, EntryTypes, {a}, k) = Below(b.ledger, EntryTypes, {a}, k)
    <2>1. Counted(e, EntryTypes, {a}, k) = 0
      BY <1>3, <1>4 DEF Counted
    <2>2. b.ledger \in Seq(LedgerRows)
      BY DEF Booked
    <2>3. Below(b.ledger, EntryTypes, {a}, k) \in Int
      BY <2>2, BelowIsInt
    <2>4. Below(Append(b.ledger, e), EntryTypes, {a}, k)
            = Below(b.ledger, EntryTypes, {a}, k) + Counted(e, EntryTypes, {a}, k)
      BY <1>1, <2>2, BelowAppends
    <2> QED  BY <1>1, <2>1, <2>3, <2>4
  <1>5. Since(b, c, h)
    BY <1>1, <1>4 DEF Since
  <1> QED  BY <1>1, <1>2, <1>5 DEF c

LEMMA TransferSince ==
    ASSUME NEW h \in Nat, NEW b, Booked(b, h + 1), NEW x \in Txs, NEW miner \in Wallets
    PROVE  Since(b, Transferred(b, x, miner, h), h)
  <1> DEFINE amount   == -Debit(x)
             debited  == Pay(b, "transfer_debit", Sender[x], amount, h, x)
             credited == Pay(debited, "transfer_credit", Recipient[x], Amount[x], h, x)
             feePaid  == Pay(credited, "transaction_fee_reward", miner, Fee[x], h, x)
             paid     == IF Fee[x] = 0 THEN credited ELSE feePaid
             c        == Transferred(b, x, miner, h)
  <1>1. c = [paid EXCEPT !.rows[x] = [@ EXCEPT !.status = "confirmed", !.height = h, !.task = NoTask],
                         !.nonces[Sender[x]] = MaxOr0({@, Nonce[x]})]
    BY DEF Transferred
  <1> HIDE DEF c
  <1>2. /\ Sender[x] \in Accounts /\ Recipient[x] \in Accounts /\ miner \in Accounts
        /\ Amount[x] \in Int /\ Fee[x] \in Int /\ amount \in Int /\ x \in PayRelated
        /\ "transfer_debit" \in EntryTypes /\ "transfer_credit" \in EntryTypes
        /\ "transaction_fee_reward" \in EntryTypes
    BY TxsTyped, DebitsTyped, WalletsAreAccounts DEF EntryTypes, PayRelated
  <1> HIDE DEF amount
  <1>3. Since(b, debited, h) /\ Booked(debited, h + 1)
    <2>1. Since(b, debited, h)
      BY <1>2, PaySince
    <2> QED  BY <2>1 DEF Since
  <1> HIDE DEF debited
  <1>4. Since(debited, credited, h) /\ Booked(credited, h + 1)
    <2>1. Since(debited, credited, h)
      BY <1>2, <1>3, PaySince
    <2> QED  BY <2>1 DEF Since
  <1> HIDE DEF credited
  <1>5. Since(credited, feePaid, h)
    BY <1>2, <1>4, PaySince
  <1> HIDE DEF feePaid
  <1>6. Since(b, paid, h)
    BY <1>3, <1>4, <1>5, SinceFollows
  <1>7. DOMAIN paid = Columns
    BY <1>6 DEF Since, Booked
  <1> HIDE DEF paid
  <1>8. DOMAIN c = Columns /\ c.ledger = paid.ledger /\ c.balances = paid.balances /\ c.fund = paid.fund
    BY <1>1, <1>7 DEF Columns
  <1>9. Since(b, c, h)
    BY <1>6, <1>8, SinceAlike
  <1> QED  BY <1>9 DEF c

LEMMA RewardedSince ==
    ASSUME NEW h \in Nat, NEW b, Booked(b, h + 1), NEW miner \in Wallets, NEW id \in BlockIds
    PROVE  LET c == Rewarded(b, miner, h, id)
           IN  /\ Since(b, c, h)
               /\ c.balances = IF MaturityDepth = 0 THEN PayBalance(b.balances, miner, MinerReward)
                               ELSE b.balances
  <1> DEFINE reward == [height |-> h, account |-> miner, due |-> h + MaturityDepth,
                        mature |-> MaturityDepth = 0, related |-> id]
             noted  == [b EXCEPT !.rewards = Append(@, reward)]
             paid   == Pay(noted, "block_reward", miner, MinerReward, h, id)
             c      == Rewarded(b, miner, h, id)
  <1>1. c = IF MaturityDepth = 0 THEN paid ELSE noted
    BY DEF Rewarded
  <1> HIDE DEF c
  <1>2. /\ DOMAIN noted = Columns /\ noted.balances = b.balances /\ noted.ledger = b.ledger
        /\ noted.fund = b.fund
    BY DEF Booked, Columns
  <1> HIDE DEF noted
  <1>3. Since(b, noted, h) /\ Booked(noted, h + 1)
    BY <1>2, SinceNowhere, SinceAlike DEF Since
  <1>4. /\ miner \in Accounts /\ MinerReward \in Int /\ id \in PayRelated /\ "block_reward" \in EntryTypes
    BY DepthTyped, WalletsAreAccounts DEF EntryTypes, PayRelated
  <1>5. Since(noted, paid, h) /\ paid.balances = PayBalance(noted.balances, miner, MinerReward)
    BY <1>3, <1>4, PaySince
  <1> HIDE DEF paid
  <1>6. Since(b, paid, h)
    BY <1>3, <1>5, SinceFollows
  <1>7. Since(b, c, h)
    BY <1>1, <1>3, <1>6
  <1>8. c.balances = IF MaturityDepth = 0 THEN PayBalance(b.balances, miner, MinerReward)
                     ELSE b.balances
    BY <1>1, <1>2, <1>5
  <1> QED  BY <1>7, <1>8 DEF c

Afloat(b) == \A a \in Accounts \ {Treasury} : 0 <= b.balances[a]

LEMMA AccruedSince ==
    ASSUME NEW h \in Nat, NEW b, Booked(b, h + 1), DOMAIN b.fund = FundFields, NEW q
    PROVE  LET c == Accrued(b, h, q)
           IN  /\ Since(b, c, h) /\ \A w \in Wallets : c.balances[w] = b.balances[w]
               /\ Afloat(b) => Afloat(c)
  <1> DEFINE share == Pay(b, "science_reserve_accrual", Reserve, ReserveShare, h, h)
             fund  == Pay(share, "treasury_accrual", Treasury, TreasuryShare, h, h)
             pool  == Pay(fund, "validator_reward", Pool, PoolReward, h, h)
             c     == Accrued(b, h, q)
  <1>1. c = [pool EXCEPT !.fund.total = @ + TreasuryShare, !.fund.locked = @ + TreasuryShare,
                          !.fund.current = q,
                          !.epochs[q].locked = @ + TreasuryShare, !.epochs[q].status = "locked"]
    BY DEF Accrued, share, fund
  <1>2. /\ h \in PayRelated /\ "science_reserve_accrual" \in EntryTypes
        /\ "treasury_accrual" \in EntryTypes /\ "validator_reward" \in EntryTypes
        /\ Reserve \in Accounts /\ Pool \in Accounts /\ Treasury \in Accounts
        /\ ReserveShare \in Nat /\ TreasuryShare \in Nat /\ PoolReward \in Nat
    BY BooksAssumption, WalletsAreAccounts DEF PayRelated, EntryTypes
  <1> HIDE DEF c
  <1>3. Since(b, share, h) /\ share.balances = PayBalance(b.balances, Reserve, ReserveShare)
        /\ share.fund = b.fund
    BY <1>2, PaySince
  <1> HIDE DEF share
  <1>5. Booked(share, h + 1)
    BY <1>3 DEF Since
  <1>6. Since(share, fund, h) /\ fund.balances = PayBalance(share.balances, Treasury, TreasuryShare)
        /\ fund.fund = share.fund
    BY <1>2, <1>5, PaySince
  <1> HIDE DEF fund
  <1>8. Booked(fund, h + 1)
    BY <1>6 DEF Since
  <1>9. Since(fund, pool, h) /\ pool.balances = PayBalance(fund.balances, Pool, PoolReward)
        /\ pool.fund = fund.fund
    BY <1>2, <1>8, PaySince
  <1> HIDE DEF pool
  <1>11. Since(b, pool, h) /\ DOMAIN pool = Columns
    <2>1. Since(b, fund, h)
      BY <1>3, <1>6, SinceFollows
    <2>2. Since(b, pool, h)
      BY <1>9, <2>1, SinceFollows
    <2> QED  BY <2>2 DEF Since, Booked
  <1>12. DOMAIN c = Columns /\ c.ledger = pool.ledger /\ c.balances = pool.balances
    BY <1>1, <1>11 DEF Columns
  <1>13. DOMAIN c.fund = DOMAIN pool.fund /\ c.fund.claimed = pool.fund.claimed
    <2>1. pool.fund = b.fund
      BY <1>3, <1>6, <1>9
    <2>2. c.fund = [pool.fund EXCEPT !.total = @ + TreasuryShare, !.locked = @ + TreasuryShare,
                                     !.current = q]
      BY <1>1, <1>11 DEF Columns
    <2> QED  BY <2>1, <2>2 DEF FundFields
  <1>14. Since(b, c, h)
    BY <1>11, <1>12, <1>13 DEF Since, Booked
  <1>15. b.balances \in [Accounts -> Int]
    BY DEF Booked
  <1>16. ASSUME NEW a \in Accounts
         PROVE  c.balances[a] = b.balances[a] + (IF a = Reserve THEN ReserveShare ELSE 0)
                   + (IF a = Treasury THEN TreasuryShare ELSE 0) + (IF a = Pool THEN PoolReward ELSE 0)
    <2>1. share.balances[a] = b.balances[a] + (IF a = Reserve THEN ReserveShare ELSE 0)
          /\ share.balances \in [Accounts -> Int]
      BY <1>2, <1>3, <1>15 DEF PayBalance
    <2>2. fund.balances[a] = share.balances[a] + (IF a = Treasury THEN TreasuryShare ELSE 0)
          /\ fund.balances \in [Accounts -> Int]
      BY <1>2, <1>6, <2>1 DEF PayBalance
    <2>3. pool.balances[a] = fund.balances[a] + (IF a = Pool THEN PoolReward ELSE 0)
      BY <1>2, <1>9, <2>2 DEF PayBalance
    <2> QED  BY <1>12, <2>1, <2>2, <2>3
  <1>17. \A w \in Wallets : c.balances[w] = b.balances[w]
    <2> SUFFICES ASSUME NEW w \in Wallets  PROVE c.balances[w] = b.balances[w]
      OBVIOUS
    <2>1. w \in Accounts /\ w # Reserve /\ w # Treasury /\ w # Pool /\ b.balances[w] \in Int
      BY <1>15, WalletsAreAccounts, NoWalletIsBuiltIn
    <2> QED  BY <1>16, <2>1
  <1>18. Afloat(b) => Afloat(c)
    <2> SUFFICES ASSUME Afloat(b), NEW a \in Accounts \ {Treasury}  PROVE 0 <= c.balances[a]
      BY DEF Afloat
    <2>1. 0 <= b.balances[a] /\ b.balances[a] \in Int
      BY <1>15 DEF Afloat
    <2> QED  BY <1>2, <1>16, <2>1
  <1> QED  BY <1>14, <1>17, <1>18 DEF c

LEMMA TransferAfloat ==
    ASSUME NEW h \in Nat, NEW b, Booked(b, h + 1), Afloat(b), NEW x \in Txs, NEW miner \in Wallets,
           NEW replay, Applicable(b, x, replay)
    PROVE  Afloat(Transferred(b, x, miner, h))
  <1> DEFINE amount   == -Debit(x)
             debited  == Pay(b, "transfer_debit", Sender[x], amount, h, x)
             credited == Pay(debited, "transfer_credit", Recipient[x], Amount[x], h, x)
             feePaid  == Pay(credited, "transaction_fee_reward", miner, Fee[x], h, x)
             paid     == IF Fee[x] = 0 THEN credited ELSE feePaid
             c        == Transferred(b, x, miner, h)
  <1>1. c = [paid EXCEPT !.rows[x] = [@ EXCEPT !.status = "confirmed", !.height = h, !.task = NoTask],
                         !.nonces[Sender[x]] = MaxOr0({@, Nonce[x]})]
    BY DEF Transferred
  <1> HIDE DEF c
  <1>2. DOMAIN debited = Columns /\ debited.balances = PayBalance(b.balances, Sender[x], amount)
    BY PayIsBalance DEF Booked
  <1> HIDE DEF debited
  <1>3. DOMAIN credited = Columns
        /\ credited.balances = PayBalance(debited.balances, Recipient[x], Amount[x])
    BY <1>2, PayIsBalance
  <1> HIDE DEF credited
  <1>4. DOMAIN feePaid = Columns /\ feePaid.balances = PayBalance(credited.balances, miner, Fee[x])
    BY <1>3, PayIsBalance
  <1> HIDE DEF feePaid
  <1>5. DOMAIN paid = Columns
    BY <1>3, <1>4
  <1>6. c.balances = paid.balances
    <2> HIDE DEF paid
    <2> QED  BY <1>1, <1>5 DEF Columns
  <1>7. /\ Sender[x] \in Accounts /\ Recipient[x] \in Accounts /\ miner \in Accounts
        /\ Amount[x] \in Nat /\ Fee[x] \in Nat /\ Debit(x) \in Nat
        /\ amount \in Int /\ amount = -Debit(x) /\ Debit(x) <= b.balances[Sender[x]]
        /\ Sender[x] # Treasury
    BY TxsTyped, DebitsTyped, WalletsAreAccounts DEF Applicable
  <1> HIDE DEF amount
  <1>8. debited.balances \in [Accounts -> Int] /\ Afloat(debited)
    BY <1>2, <1>7 DEF PayBalance, Afloat, Booked
  <1>9. credited.balances \in [Accounts -> Int] /\ Afloat(credited)
    BY <1>3, <1>7, <1>8 DEF PayBalance, Afloat
  <1>10. Afloat(feePaid)
    BY <1>4, <1>7, <1>9 DEF PayBalance, Afloat
  <1> QED  BY <1>6, <1>9, <1>10 DEF Afloat, c

LEMMA ExecutionSince ==
    ASSUME NEW h \in Nat, NEW b, Booked(b, h + 1), Afloat(b), NEW txs \in Seq(Txs),
           NEW miner \in Wallets, NEW replay
    PROVE  LET r == Execution(b, txs, miner, h, replay)
           IN  Since(b, r.books, h) /\ Afloat(r.books)
  <1>1. PICK g : ExecutionRun(g, b, txs, miner, h, replay)
    BY ExecutionHasRun
  <1> DEFINE Good(r) == DOMAIN r = {"ok", "books"} /\ Since(b, r.books, h) /\ Afloat(r.books)
             Bad == {i \in 0..Len(txs) : ~Good(g[i])}
  <1>2. ASSUME NEW r, NEW x \in Txs, Good(r)  PROVE Good(RunStep(miner, h, replay, r, x))
    <2> DEFINE c == r.books
               d == Transferred(c, x, miner, h)
               n == RunStep(miner, h, replay, r, x)
    <2>1. /\ DOMAIN n = {"ok", "books"}
          /\ n.books = c \/ (n.books = d /\ Applicable(c, x, replay))
      BY <1>2 DEF RunStep
    <2>2. Booked(c, h + 1) /\ Afloat(c) /\ Since(b, c, h)
      BY <1>2 DEF Since
    <2> HIDE DEF n, c
    <2>3. Since(c, d, h)
      BY <2>2, TransferSince
    <2>4. Applicable(c, x, replay) => Afloat(d)
      BY <2>2, TransferAfloat
    <2>5. Since(b, d, h)
      BY <2>2, <2>3, SinceFollows
    <2>6. Since(b, n.books, h) /\ Afloat(n.books)
      BY <2>1, <2>2, <2>4, <2>5
    <2> QED  BY <2>1, <2>6 DEF n
  <1>3. Bad = {}
    <2> SUFFICES ASSUME Bad # {}  PROVE FALSE
      OBVIOUS
    <2>1. PICK i \in Bad : \A j \in Bad : i <= j
      <3>1. Bad \in SUBSET Nat
        OBVIOUS
      <3> HIDE DEF Bad
      <3> QED  BY <3>1, SmallestNat
    <2>2. i # 0
      <3>1. Good(Start(b))
        BY SinceNowhere DEF Start
      <3> QED  BY <1>1, <2>1, <3>1 DEF ExecutionRun
    <2>3. i \in 1..Len(txs) /\ i - 1 \in 0..Len(txs) /\ txs[i] \in Txs
      <3>1. i \in 1..Len(txs)
        BY <2>1, <2>2
      <3> QED  BY <3>1
    <2>4. i - 1 \notin Bad
      <3>1. ~(i <= i - 1)
        BY <2>3
      <3> HIDE DEF Bad
      <3> QED  BY <2>1, <3>1
    <2>5. Good(g[i - 1])
      BY <2>3, <2>4
    <2>6. g[i] = RunStep(miner, h, replay, g[i - 1], txs[i])
      BY <1>1, <2>3 DEF ExecutionRun
    <2>7. Good(g[i])
      <3> HIDE DEF Good
      <3> QED  BY <1>2, <2>3, <2>5, <2>6
    <2> QED  BY <2>1, <2>7
  <1>4. Len(txs) \in 0..Len(txs)
    OBVIOUS
  <1> QED  BY <1>1, <1>3, <1>4 DEF ExecutionRun

(* What matures is paid to wallets.                                        *)
LEMMA MaturedSince ==
    ASSUME NEW h \in Nat, NEW b, Booked(b, h + 1), Afloat(b), b.rewards \in Seq(RewardRows)
    PROVE  Since(b, Matured(b, h), h) /\ Afloat(Matured(b, h))
  <1> DEFINE marked == [i \in DOMAIN b.rewards |->
                          [b.rewards[i] EXCEPT !.mature =
                              @ \/ (~b.rewards[i].mature /\ b.rewards[i].due <= h)]]
             paid   == Paying(b, h)
             c      == Matured(b, h)
             n      == Len(b.rewards)
  <1>1. c = [paid EXCEPT !.rewards = marked]
    BY MaturedIs
  <1> HIDE DEF c, marked
  <1>2. n \in Nat /\ DOMAIN b.rewards = 1..n /\ \A i \in 1..n : b.rewards[i] \in RewardRows
    OBVIOUS
  <1>4. PICK g : /\ g[0] = b /\ paid = g[n]
                 /\ \A i \in 1..n : g[i] = MatureStep(h, g[i - 1], b.rewards[i])
    BY <1>2, MaturedRuns
  <1> HIDE DEF paid
  <1> DEFINE Good(d) == Since(b, d, h) /\ Afloat(d)
             Bad == {i \in 0..n : ~Good(g[i])}
  <1>5. ASSUME NEW d, NEW r \in RewardRows, Good(d)  PROVE Good(MatureStep(h, d, r))
    <2> DEFINE p == Pay(d, "block_reward", r.account, MinerReward, h, r.related)
               e == MatureStep(h, d, r)
    <2>1. e \in {d, p}
      BY DEF MatureStep
    <2>2. /\ r.account \in Wallets /\ r.account \in Accounts /\ r.related \in PayRelated
          /\ MinerReward \in Nat /\ "block_reward" \in EntryTypes
      BY DepthTyped, WalletsAreAccounts, BlocksAssumption DEF RewardRows, PayRelated, EntryTypes, BlockIds
    <2>3. Booked(d, h + 1)
      BY <1>5 DEF Since
    <2> HIDE DEF e
    <2>4. Since(d, p, h) /\ p.balances = PayBalance(d.balances, r.account, MinerReward)
      BY <2>2, <2>3, PaySince
    <2> HIDE DEF p
    <2>5. Afloat(p)
      BY <1>5, <2>2, <2>3, <2>4 DEF Afloat, PayBalance, Booked
    <2>6. Since(b, p, h)
      BY <1>5, <2>4, SinceFollows
    <2>7. Good(e)
      BY <1>5, <2>1, <2>5, <2>6
    <2> QED  BY <2>7 DEF e
  <1>6. Bad = {}
    <2> SUFFICES ASSUME Bad # {}  PROVE FALSE
      OBVIOUS
    <2>1. PICK i \in Bad : \A j \in Bad : i <= j
      <3>1. Bad \in SUBSET Nat
        BY <1>2
      <3> HIDE DEF Bad
      <3> QED  BY <3>1, SmallestNat
    <2>2. i # 0
      BY <1>4, <2>1, SinceNowhere
    <2>3. i \in 1..n /\ i - 1 \in 0..n
      BY <1>2, <2>1, <2>2
    <2>4. i - 1 \notin Bad
      <3>1. ~(i <= i - 1)
        BY <1>2, <2>3
      <3> HIDE DEF Bad
      <3> QED  BY <2>1, <3>1
    <2>5. Good(g[i - 1])
      BY <2>3, <2>4
    <2>6. Good(g[i])
      <3> HIDE DEF Good
      <3> QED  BY <1>2, <1>4, <1>5, <2>3, <2>5
    <2> QED  BY <2>1, <2>6
  <1>7. Good(paid)
    <2>1. n \in 0..n
      BY <1>2
    <2> QED  BY <1>4, <1>6, <2>1
  <1>8. DOMAIN paid = Columns
    BY <1>7 DEF Since, Booked
  <1>9. DOMAIN c = Columns /\ c.ledger = paid.ledger /\ c.balances = paid.balances /\ c.fund = paid.fund
    BY <1>1, <1>8 DEF Columns
  <1>10. Since(b, c, h) /\ Afloat(c)
    BY <1>7, <1>9, SinceAlike DEF Afloat
  <1> QED  BY <1>10 DEF c

(* A block leaves what lies below its height alone, and no purse in debt.  *)
LEMMA BlockSince ==
    ASSUME NEW h \in Nat, NEW b, Kept(b), Booked(b, h + 1), Afloat(b), DOMAIN b.fund = FundFields,
           NEW txs \in Seq(Txs), NEW id \in BlockIds, NEW q, NEW replay,
           Block(b, txs, Miner[id], h, id, q, replay).ok
    PROVE  LET c == Block(b, txs, Miner[id], h, id, q, replay).books
           IN  Since(b, c, h) /\ Afloat(c)
  <1> DEFINE first == Rewarded(b, Miner[id], h, id)
             run   == Execution(first, txs, Miner[id], h, replay)
             done  == Accrued(run.books, h, q)
             last  == Matured(done, h)
  <1>1. /\ Block(b, txs, Miner[id], h, id, q, replay).books = last
        /\ Block(b, txs, Miner[id], h, id, q, replay).ok = run.ok
    BY DEF Block
  <1>2. Miner[id] \in Wallets /\ Miner[id] \in Accounts /\ MinerReward \in Nat
    BY BlocksAssumption, WalletsAreAccounts, DepthTyped DEF BlockIds
  <1>3. Kept(first)
    BY RewardedKeeps
  <1>4. Since(b, first, h) /\ Afloat(first) /\ Booked(first, h + 1)
    <2>1. /\ Since(b, first, h)
          /\ first.balances = IF MaturityDepth = 0 THEN PayBalance(b.balances, Miner[id], MinerReward)
                              ELSE b.balances
      BY <1>2, RewardedSince
    <2> HIDE DEF first
    <2>2. Afloat(first)
      BY <1>2, <2>1 DEF Afloat, PayBalance, Booked
    <2> QED  BY <2>1, <2>2 DEF Since
  <1> HIDE DEF first
  <1>5. Since(first, run.books, h) /\ Afloat(run.books)
    BY <1>2, <1>4, ExecutionSince
  <1>6. Kept(run.books)
    <2>1. run.ok
      BY <1>1
    <2> HIDE DEF run
    <2>2. Advanced(first, run.books, ToSet(txs), h)
      BY <1>3, <2>1, ExecutionAdvances DEF run
    <2> QED  BY <2>2 DEF Advanced
  <1> DEFINE r == run.books
  <1> HIDE DEF run
  <1>7. Since(b, r, h) /\ Afloat(r) /\ Kept(r)
    BY <1>4, <1>5, <1>6, SinceFollows
  <1>8. done = Accrued(r, h, q)
    OBVIOUS
  <1> HIDE DEF r, done
  <1>9. Booked(r, h + 1) /\ DOMAIN r.fund = FundFields
    BY <1>7 DEF Since
  <1>10. Since(r, done, h) /\ Afloat(done)
    BY <1>7, <1>8, <1>9, AccruedSince
  <1>11. done.rewards \in Seq(RewardRows)
    <2>1. Alike(r, Accrued(r, h, q))
      BY <1>9, AccruedAlike DEF Booked
    <2> QED  BY <1>7, <1>8, <2>1 DEF Alike, Kept
  <1>12. Since(done, last, h) /\ Afloat(last)
    <2>1. Booked(done, h + 1)
      BY <1>10 DEF Since
    <2> QED  BY <1>10, <1>11, <2>1, MaturedSince
  <1> HIDE DEF last
  <1>13. Since(b, last, h)
    <2>1. Since(b, done, h)
      BY <1>7, <1>10, SinceFollows
    <2> QED  BY <1>12, <2>1, SinceFollows
  <1> QED  BY <1>1, <1>12, <1>13

(* Below any height no account but the treasury's is in debt, so that a    *)
(* block that is taken back leaves none.                                   *)
Solvent(b) == \A a \in Accounts \ {Treasury} : \A k \in Int : 0 <= Below(b.ledger, EntryTypes, {a}, k)
Sane(b, k) == Kept(b) /\ Booked(b, k) /\ DOMAIN b.fund = FundFields /\ Solvent(b)

LEMMA SolventIsAfloat ==
    ASSUME NEW b, NEW k \in Int, Booked(b, k), Solvent(b)
    PROVE  Afloat(b)
  BY DEF Booked, Solvent, Afloat

LEMMA AfloatIsSolvent ==
    ASSUME NEW b, Solvent(b), NEW h \in Nat, NEW c, Since(b, c, h), Afloat(c)
    PROVE  Solvent(c)
  <1> SUFFICES ASSUME NEW a \in Accounts \ {Treasury}, NEW k \in Int
               PROVE  0 <= Below(c.ledger, EntryTypes, {a}, k)
    BY DEF Solvent
  <1>1. CASE k <= h
    BY <1>1 DEF Since, Solvent
  <1>2. CASE h + 1 <= k
    <2>1. Booked(c, h + 1) /\ h + 1 \in Int
      BY DEF Since
    <2> DEFINE j == h + 1
    <2> HIDE DEF j
    <2>2. Booked(c, k)
      <3>1. Booked(c, j) /\ j \in Int /\ j <= k
        BY <1>2, <2>1 DEF j
      <3> QED  BY <3>1, BookedHigher
    <2>3. c.balances[a] = Below(c.ledger, EntryTypes, {a}, k)
      BY <2>2 DEF Booked
    <2> QED  BY <2>3 DEF Afloat
  <1> QED  BY <1>1, <1>2

LEMMA SolventStays == \A b, c : Solvent(b) /\ SameLedger(b, c) => Solvent(c)
  BY DEF Solvent, SameLedger

LEMMA BlockSolvent ==
    ASSUME NEW h \in Nat, NEW b, Sane(b, h), NEW txs \in Seq(Txs), NEW id \in BlockIds,
           NEW q, NEW replay, Block(b, txs, Miner[id], h, id, q, replay).ok
    PROVE  LET c == Block(b, txs, Miner[id], h, id, q, replay).books
           IN  Sane(c, h + 1) /\ c.fund.claimed = b.fund.claimed
  <1> DEFINE c == Block(b, txs, Miner[id], h, id, q, replay).books
             j == h + 1
  <1>1. Booked(b, h + 1)
    <2>1. Booked(b, h) /\ h \in Int /\ j \in Int /\ h <= j
      BY DEF Sane
    <2> HIDE DEF j
    <2>2. Booked(b, j)
      BY <2>1, BookedHigher
    <2> QED  BY <2>2 DEF j
  <1>2. Kept(b) /\ Solvent(b) /\ Afloat(b) /\ DOMAIN b.fund = FundFields
    BY SolventIsAfloat DEF Sane
  <1>3. Since(b, c, h) /\ Afloat(c)
    BY <1>1, <1>2, BlockSince
  <1>4. Kept(c)
    <2>1. Advanced(b, c, ToSet(txs), h)
      BY <1>2, BlockAdvances
    <2> HIDE DEF c
    <2> QED  BY <2>1 DEF Advanced
  <1> HIDE DEF c
  <1>5. Solvent(c)
    BY <1>2, <1>3, AfloatIsSolvent
  <1>6. Sane(c, h + 1) /\ c.fund.claimed = b.fund.claimed
    BY <1>2, <1>3, <1>4, <1>5 DEF Sane, Since
  <1> QED  BY <1>6 DEF c

LEMMA ForeignSolvent ==
    ASSUME NEW h \in Nat, NEW b, Sane(b, h), NEW s, Carried(s, b), NEW f \in Foreign,
           Buildable(b, f, h)
    PROVE  LET c == Imported(b, f, h)
           IN  Sane(c, h + 1) /\ c.fund.claimed = b.fund.claimed
  <1> DEFINE txs == Payload[f]
             e == Ensured(b, txs)
             yes == TRUE
             r == Block(e, txs, Miner[f], h, f, quarter, yes)
  <1>1. txs \in Seq(Txs) /\ f \in BlockIds
    BY BlocksAssumption DEF BlockIds
  <1>2. yes = TRUE
    OBVIOUS
  <1> HIDE DEF txs, yes
  <1>3. r.ok /\ Imported(b, f, h) = r.books
    BY <1>2, BuildableReplays DEF txs
  <1>4. Sane(e, h) /\ e.fund = b.fund
    <2>1. Kept(e)
      BY <1>1, EnsuredKeeps DEF Sane
    <2>2. SameLedger(b, e)
      BY RowsLeaveLedger DEF Sane, Booked
    <2> HIDE DEF e
    <2>3. Solvent(e)
      BY <2>2, SolventStays DEF Sane
    <2> QED  BY <2>1, <2>2, <2>3 DEF Sane, SameLedger, Booked
  <1> HIDE DEF e
  <1>5. Sane(r.books, h + 1) /\ r.books.fund.claimed = e.fund.claimed
    BY <1>1, <1>3, <1>4, BlockSolvent
  <1> QED  BY <1>3, <1>4, <1>5

LEMMA UndoneSolvent ==
    ASSUME NEW b, NEW k \in Int, Booked(b, k), Solvent(b), DOMAIN b.fund = FundFields, NEW h \in Int
    PROVE  LET c == WithoutBlock(b, h)
           IN  /\ Booked(c, h) /\ Solvent(c)
               /\ DOMAIN c.fund = FundFields /\ c.fund.claimed = b.fund.claimed
  <1> DEFINE c == WithoutBlock(b, h)
             M == LedgerWithout(b, h)
             reversed == AccruedFrom(b, h)
  <1>1. /\ c.ledger = M
        /\ c.fund = [b.fund EXCEPT !.total = AtLeast0(@ - reversed), !.locked = AtLeast0(@ - reversed)]
    BY DEF WithoutBlock
  <1>2. Booked(c, h)
    BY UndoneBooked
  <1> HIDE DEF c, reversed
  <1>3. DOMAIN c.fund = FundFields /\ c.fund.claimed = b.fund.claimed
    BY <1>1 DEF FundFields
  <1>4. ASSUME NEW a \in Accounts \ {Treasury}, NEW j \in Int
        PROVE  0 <= Below(c.ledger, EntryTypes, {a}, j)
    <2> DEFINE types == EntryTypes
               who   == {a}
    <2> HIDE DEF types, who
    <2>1. Below(M, types, who, j) = Below(b.ledger, types, who, Lower(j, h))
      BY LedgerWithoutSums DEF Booked
    <2>2. Lower(j, h) \in Int
      BY DEF Lower
    <2>3. 0 <= Below(b.ledger, EntryTypes, {a}, Lower(j, h))
      BY <2>2 DEF Solvent
    <2> QED  BY <1>1, <2>1, <2>3 DEF types, who
  <1>5. Solvent(c)
    BY <1>4 DEF Solvent
  <1> QED  BY <1>2, <1>3, <1>5 DEF c

(* What a claim moves it takes from the treasury.                          *)
LEMMA ClaimedSolvent ==
    ASSUME NEW b, NEW k \in Nat, Booked(b, k), Solvent(b), DOMAIN b.fund = FundFields,
           b.fund.unlocked \in Nat
    PROVE  LET c == Claimed(b)
           IN  Solvent(c) /\ c.fund.claimed = b.fund.claimed + b.fund.unlocked
  <1> DEFINE amount == b.fund.unlocked
             d      == -amount
             debit  == Pay(b, "treasury_claim", Treasury, -amount, NoHeight, "claim")
             paid   == Pay(debit, "treasury_claim", Claimant, amount, NoHeight, "claim")
             e1     == Entry("treasury_claim", Treasury, -amount, NoHeight, "claim")
             e2     == Entry("treasury_claim", Claimant, amount, NoHeight, "claim")
             c      == Claimed(b)
  <1>1. /\ NoHeight \in Heights /\ NoHeight < k /\ k \in Int
        /\ "claim" \in {"genesis", "claim"} \cup Txs \cup BlockIds \cup Nat
        /\ "treasury_claim" \in EntryTypes /\ Treasury \in Accounts /\ Claimant \in Accounts
        /\ amount \in Int /\ d \in Int /\ b.ledger \in Seq(LedgerRows) /\ DOMAIN b = Columns
    BY WalletsAreAccounts DEF EntryTypes, Heights, NoHeight, Booked
  <1>2. c = [paid EXCEPT
            !.epochs = [q \in Quarters |-> IF @[q].unlocked > 0
                                           THEN [@[q] EXCEPT !.unlocked = 0, !.status = "claimed"]
                                           ELSE @[q]],
            !.fund.claimed = @ + amount, !.fund.unlocked = 0]
    BY DEF Claimed
  <1>3. /\ DOMAIN debit = Columns /\ debit.ledger = Append(b.ledger, e1) /\ debit.fund = b.fund
        /\ DOMAIN paid = Columns /\ paid.ledger = Append(Append(b.ledger, e1), e2) /\ paid.fund = b.fund
    BY <1>1 DEF Pay, Columns
  <1>4. /\ e1 \in LedgerRows /\ e1.account = Treasury
        /\ e2 \in LedgerRows /\ e2.amount = amount
    BY <1>1 DEF Entry, LedgerRows
  <1> HIDE DEF paid, debit, e1, e2, c
  <1>5. c.ledger = paid.ledger /\ c.fund.claimed = b.fund.claimed + amount
    BY <1>2, <1>3 DEF Columns, FundFields
  <1>6. ASSUME NEW a \in Accounts \ {Treasury}, NEW j \in Int
        PROVE  0 <= Below(c.ledger, EntryTypes, {a}, j)
    <2> DEFINE types == EntryTypes
               who   == {a}
               L     == b.ledger
               L1    == Append(L, e1)
    <2>1. L \in Seq(LedgerRows) /\ L1 \in Seq(LedgerRows) /\ c.ledger = Append(L1, e2)
      BY <1>1, <1>3, <1>4, <1>5
    <2>2. Counted(e1, types, who, j) = 0
      BY <1>4 DEF Counted
    <2>3. Counted(e2, types, who, j) \in {0, amount}
      BY <1>4 DEF Counted
    <2>4. 0 <= Below(L, types, who, j)
      BY DEF Solvent
    <2> HIDE DEF types, who, amount
    <2>5. Below(L1, types, who, j) = Below(L, types, who, j) + Counted(e1, types, who, j)
      BY <1>4, <2>1, BelowAppends
    <2> HIDE DEF L, L1
    <2>6. Below(Append(L1, e2), types, who, j) = Below(L1, types, who, j) + Counted(e2, types, who, j)
      BY <1>4, <2>1, BelowAppends
    <2>7. Below(L, types, who, j) \in Int
      BY <2>1, BelowIsInt
    <2>8. 0 <= Below(Append(L1, e2), types, who, j)
      <3>1. amount \in Nat
        BY DEF amount
      <3> QED  BY <2>2, <2>3, <2>4, <2>5, <2>6, <2>7, <3>1
    <2> QED  BY <2>1, <2>8 DEF types, who
  <1>7. Solvent(c)
    BY <1>6 DEF Solvent
  <1> QED  BY <1>5, <1>7 DEF c

LEMMA UnlockedLeaves ==
    ASSUME NEW b, DOMAIN b = Columns, DOMAIN b.fund = FundFields, NEW past
    PROVE  LET c == Unlocked(b, past)
           IN  /\ DOMAIN c = Columns /\ c.ledger = b.ledger /\ c.balances = b.balances
               /\ c.fund.claimed = b.fund.claimed
  <1> DEFINE open   == { q \in past : b.epochs[q].status = "locked" /\ b.epochs[q].locked > 0 }
             amount == Total(SetToSeq(open), LAMBDA q : b.epochs[q].locked)
             epochs == [q \in Quarters |->
                IF q \in open THEN [locked |-> 0, unlocked |-> b.epochs[q].unlocked + b.epochs[q].locked,
                                    status |-> "unlocked"]
                ELSE b.epochs[q]]
             c      == Unlocked(b, past)
  <1>1. c = [b EXCEPT !.epochs = epochs,
                      !.fund.locked = AtLeast0(@ - amount), !.fund.unlocked = @ + amount]
    BY DEF Unlocked
  <1> HIDE DEF amount, epochs, c
  <1>2. /\ DOMAIN c = Columns /\ c.ledger = b.ledger /\ c.balances = b.balances
        /\ c.fund.claimed = b.fund.claimed
    BY <1>1 DEF Columns, FundFields
  <1> QED  BY <1>2 DEF c

(* No purse is in debt at any height, and no more was claimed than accrued. *)
PursesInv ==
    /\ Solvent(books) /\ books.fund.claimed <= Due(Height)
    /\ quarter \in Quarters

LEMMA InitiallySolvent == Solvent(InitialBooks)
  <1> DEFINE b == InitialBooks
             G == { Entry("genesis", w, Premine[w], 0, "genesis") : w \in Wallets }
             L == b.ledger
             s == << >>
  <1>1. Ledgered(b, s) /\ Len(s) = 0
    BY InitiallyLedgered
  <1>2. Booked(b, 1)
    <2> HIDE DEF b, s
    <2>1. Booked(b, Len(s) + 1)
      BY <1>1 DEF Ledgered
    <2>2. Len(s) + 1 = 1
      BY <1>1
    <2> QED  BY <2>1, <2>2
  <1>3. L = SetToSeq(G) /\ b.balances = [a \in Accounts |-> IF a \in Wallets THEN Premine[a] ELSE 0]
    BY DEF InitialBooks
  <1> HIDE DEF b
  <1>4. IsFiniteSet(G)
    <2> DEFINE g == [w \in Wallets |-> Entry("genesis", w, Premine[w], 0, "genesis")]
    <2>1. G = {g[w] : w \in Wallets}
      OBVIOUS
    <2> HIDE DEF g, G
    <2> QED  BY <2>1, BooksAssumption, ImageIsFinite
  <1>5. \A e \in G : e.height = 0
    BY DEF Entry
  <1> HIDE DEF G
  <1>6. SetToSeq(G) \in Seq(G)
    BY <1>4, SetToSeqOf
  <1>7. L \in Seq(LedgerRows) /\ \A i \in 1..Len(L) : L[i].height = 0
    BY <1>2, <1>3, <1>5, <1>6 DEF Booked
  <1> SUFFICES ASSUME NEW a \in Accounts \ {Treasury}, NEW k \in Int
               PROVE  0 <= Below(L, EntryTypes, {a}, k)
    BY DEF Solvent, b
  <1> DEFINE types == EntryTypes
             who   == {a}
  <1>8. CASE 1 <= k
    <2> DEFINE one == 1
    <2>1. one \in Int /\ one <= k /\ Booked(b, one)
      BY <1>2, <1>8
    <2> HIDE DEF one
    <2>2. Booked(b, k)
      BY <2>1, BookedHigher
    <2>3. Below(L, EntryTypes, {a}, k) = b.balances[a]
      BY <2>2 DEF Booked
    <2>4. 0 <= b.balances[a]
      BY <1>3, BooksAssumption
    <2> QED  BY <2>3, <2>4
  <1>9. CASE k <= 0
    <2> DEFINE none == {}
    <2>1. \A i \in 1..Len(L) : Counted(L[i], types, who, k) = 0
      BY <1>7, <1>9 DEF Counted
    <2> HIDE DEF types, who, L
    <2>2. LET w == CountedIn(L, types, who, k)
          IN  /\ w \in Seq(Int) /\ Len(w) = Len(L)
              /\ \A i \in 1..Len(L) : w[i] = Counted(L[i], types, who, k)
      BY <1>7, CountedTyped
    <2> DEFINE w == CountedIn(L, types, who, k)
               j == 0
    <2>3. w \in Seq(Int) /\ j \in Nat /\ j \notin 1..Len(w) /\ \A i \in 1..Len(w) : i # j => w[i] = 0
      BY <2>1, <2>2
    <2>4. Below(L, types, who, k) = SumSeq(w)
      BY DEF Below
    <2> HIDE DEF w, j
    <2>5. SumSeq(w) = 0
      BY <2>3, SumOfOne
    <2> QED  BY <2>4, <2>5 DEF types, who
  <1> QED  BY <1>8, <1>9

LEMMA PursesInitially == Init => PursesInv
  <1> SUFFICES ASSUME Init  PROVE PursesInv
    OBVIOUS
  <1>1. books = InitialBooks /\ Height = 0 /\ quarter = 1
    BY DEF Init, Height
  <1>2. InitialBooks.fund.claimed = 0
    BY DEF InitialBooks
  <1> QED  BY <1>1, <1>2, InitiallySolvent, DueTyped, BooksAssumption DEF PursesInv

LEMMA PursesStay ==
    ASSUME PursesInv, chain' = chain, quarter' = quarter, SameLedger(books, books')
    PROVE  PursesInv'
  <1>1. Solvent(books') /\ books'.fund = books.fund
    BY SolventStays DEF PursesInv, SameLedger
  <1> QED  BY <1>1 DEF PursesInv, Height

(* What the invariants say of the books a block is executed on.            *)
LEMMA BooksAreSane ==
    ASSUME ExecInv, LedgerInv, PursesInv
    PROVE  /\ Sane(books, Height + 1) /\ Height \in Nat /\ Height = Len(chain)
           /\ books.fund.claimed \in Int /\ books.fund.claimed <= Due(Height)
           /\ chain \in Seq(ChainRows)
  <1> DEFINE n == Len(chain)
  <1>1. Height \in Nat /\ Height = n /\ chain \in Seq(ChainRows) /\ Kept(books)
    BY HeightTyped DEF ExecInv, ExecTyped, Height
  <1>2. Ledgered(books, chain)
    BY DEF LedgerInv
  <1>3. Booked(books, n + 1) /\ FundOk(books, n)
    BY <1>2 DEF Ledgered, Treasured
  <1> HIDE DEF n
  <1>4. Booked(books, Height + 1)
    BY <1>1, <1>3
  <1>5. DOMAIN books.fund = FundFields /\ books.fund.claimed \in Int
    BY <1>3 DEF FundOk
  <1>6. Solvent(books) /\ books.fund.claimed <= Due(Height)
    BY DEF PursesInv
  <1>7. Sane(books, Height + 1)
    BY <1>1, <1>4, <1>5, <1>6 DEF Sane
  <1>8. Height = Len(chain)
    BY DEF Height
  <1> QED  BY <1>1, <1>5, <1>6, <1>7, <1>8

(* The chain grows by one block or, in a reorg too, is longer by one.      *)
LEMMA PursesLonger ==
    ASSUME Height \in Nat, Height' = Height + 1, Solvent(books'), NEW claimed \in Int,
           books'.fund.claimed = claimed, claimed <= Due(Height), quarter \in Quarters,
           quarter' = quarter
    PROVE  PursesInv'
  <1> DEFINE n == Height
  <1>1. n \in Nat
    OBVIOUS
  <1> HIDE DEF n
  <1>2. Due(n) \in Int /\ Due(n + 1) = Due(n) + TreasuryShare /\ TreasuryShare \in Nat
    BY <1>1, DueTyped
  <1>3. claimed <= Due(n) => claimed <= Due(n + 1)
    BY <1>2
  <1>4. books'.fund.claimed <= Due(Height')
    BY <1>3 DEF n
  <1> QED  BY <1>4 DEF PursesInv

LEMMA AcceptPurses ==
    ASSUME ExecInv, LedgerInv, PursesInv, NEW t \in Tasks, AcceptBlock(t)
    PROVE  PursesInv'
  <1> DEFINE h    == Height + 1
             txs  == Loaded(t)
             done == LocalBlock(t).books
             b    == Released(done, Rivalry(t))
             no   == FALSE
  <1>1. /\ Sane(books, h) /\ Height \in Nat /\ h \in Nat /\ books.fund.claimed \in Int
        /\ books.fund.claimed <= Due(Height) /\ chain \in Seq(ChainRows) /\ Height = Len(chain)
    BY BooksAreSane
  <1>2. /\ chain' = Append(chain, [id |-> t, txs |-> txs]) /\ books' = b /\ quarter' = quarter
        /\ LocalBlock(t).ok
    BY DEF AcceptBlock, Finalizable
  <1>3. txs \in Seq(Txs) /\ t \in BlockIds
    BY LoadedTyped DEF ExecInv, BlockIds
  <1> HIDE DEF txs
  <1>4. LocalBlock(t) = Block(books, txs, Miner[t], h, t, quarter, no)
    BY DEF LocalBlock, txs
  <1>5. Height' = Height + 1
    BY <1>1, <1>2 DEF Height
  <1> HIDE DEF no, h
  <1>6. Sane(done, h + 1) /\ done.fund.claimed = books.fund.claimed
    <2>1. Block(books, txs, Miner[t], h, t, quarter, no).ok
      BY <1>2, <1>4
    <2>2. LET c == Block(books, txs, Miner[t], h, t, quarter, no).books
          IN  Sane(c, h + 1) /\ c.fund.claimed = books.fund.claimed
      BY <1>1, <1>3, <2>1, BlockSolvent
    <2> QED  BY <1>4, <2>2
  <1> HIDE DEF done
  <1>7. SameLedger(done, b)
    BY <1>6, RowsLeaveLedger DEF Sane, Booked
  <1> HIDE DEF b
  <1>8. Solvent(books') /\ books'.fund.claimed = books.fund.claimed
    BY <1>2, <1>6, <1>7, SolventStays DEF Sane, SameLedger
  <1> DEFINE claimed == books.fund.claimed
  <1>9. claimed \in Int /\ books'.fund.claimed = claimed /\ claimed <= Due(Height)
        /\ quarter \in Quarters
    BY <1>1, <1>8 DEF PursesInv
  <1> HIDE DEF claimed
  <1> QED  BY <1>1, <1>2, <1>5, <1>8, <1>9, PursesLonger

LEMMA ImportPurses ==
    ASSUME ExecInv, LedgerInv, PursesInv, NEW f \in Foreign, Import(f)
    PROVE  PursesInv'
  <1> DEFINE h == Height + 1
             b == Imported(books, f, h)
             s == chain
  <1>1. /\ Sane(books, h) /\ Height \in Nat /\ h \in Nat /\ books.fund.claimed \in Int
        /\ books.fund.claimed <= Due(Height) /\ chain \in Seq(ChainRows) /\ Height = Len(chain)
        /\ Carried(s, books)
    BY BooksAreSane DEF ExecInv
  <1>2. /\ Buildable(books, f, h) /\ books' = b /\ quarter' = quarter
        /\ chain' = Append(chain, NewBlock(f))
    BY DEF Import
  <1>3. Height' = Height + 1
    BY <1>1, <1>2 DEF Height
  <1> HIDE DEF h, s
  <1>4. Sane(b, h + 1) /\ b.fund.claimed = books.fund.claimed
    BY <1>1, <1>2, ForeignSolvent
  <1> HIDE DEF b
  <1> DEFINE claimed == books.fund.claimed
  <1>5. /\ claimed \in Int /\ books'.fund.claimed = claimed /\ claimed <= Due(Height)
        /\ quarter \in Quarters /\ Solvent(books')
    BY <1>1, <1>2, <1>4 DEF PursesInv, Sane
  <1> HIDE DEF claimed
  <1> QED  BY <1>1, <1>2, <1>3, <1>5, PursesLonger

LEMMA ReorgPurses ==
    ASSUME ExecInv, LedgerInv, PursesInv, NEW p \in Foreign, NEW f \in Foreign, Reorg(p, f)
    PROVE  PursesInv'
  <1> DEFINE n      == Height
             j      == n + 1
             below  == WithoutBlock(books, n)
             branch == Imported(below, p, n)
             b      == Imported(branch, f, j)
             s      == chain
             s0     == SubSeq(chain, 1, n - 1)
             s1     == s0 \o << NewBlock(p), NewBlock(f) >>
  <1>1. /\ Sane(books, j) /\ n \in Nat /\ j \in Nat /\ books.fund.claimed \in Int
        /\ books.fund.claimed <= Due(Height) /\ chain \in Seq(ChainRows) /\ n = Len(s)
        /\ Carried(s, books) /\ quarter \in Quarters
    BY BooksAreSane DEF ExecInv, PursesInv
  <1>2. /\ n > 0 /\ Buildable(below, p, n) /\ Buildable(branch, f, j) /\ books' = b
        /\ chain' = s1 /\ quarter' = quarter
    BY DEF Reorg
  <1>3. /\ s0 \in Seq(ChainRows) /\ Len(s0) = n - 1 /\ \A k \in 1..(n - 1) : s0[k] = chain[k]
    BY <1>1, <1>2
  <1>4. Len(s1) = n + 1
    BY <1>1, <1>2, <1>3
  <1>5. Height' = Height + 1
    BY <1>2, <1>4 DEF Height
  <1>6. /\ Len(s) \in Nat \ {0} /\ Len(s0) = Len(s) - 1 /\ \A k \in 1..Len(s0) : s0[k] = s[k]
    BY <1>1, <1>2, <1>3
  <1> HIDE DEF below, s, s0, s1
  <1>7. Kept(below) /\ Carried(s0, below)
    <2>1. Kept(WithoutBlock(books, Len(s))) /\ Carried(s0, WithoutBlock(books, Len(s)))
      BY <1>1, <1>6, UndoneKeeps DEF Sane
    <2> QED  BY <1>1, <2>1 DEF below
  <1>8. Sane(below, n) /\ below.fund.claimed = books.fund.claimed
    <2>1. n \in Int /\ j \in Int
      BY <1>1
    <2> HIDE DEF j, n
    <2>2. LET c == WithoutBlock(books, n)
          IN  /\ Booked(c, n) /\ Solvent(c)
              /\ DOMAIN c.fund = FundFields /\ c.fund.claimed = books.fund.claimed
      BY <1>1, <2>1, UndoneSolvent DEF Sane
    <2> QED  BY <1>7, <2>2 DEF Sane, below
  <1> HIDE DEF n
  <1>9. Sane(branch, j) /\ branch.fund.claimed = books.fund.claimed
    <2>1. LET c == Imported(below, p, n)
          IN  Sane(c, n + 1) /\ c.fund.claimed = below.fund.claimed
      BY <1>1, <1>2, <1>7, <1>8, ForeignSolvent
    <2> QED  BY <1>8, <2>1 DEF j
  <1>10. \E s2 : Carried(s2, branch)
    <2> DEFINE e  == Ensured(below, Payload[p])
               s2 == Append(s0, [id |-> p, txs |-> Payload[p]])
    <2>1. /\ Kept(e) /\ Carried(s0, e) /\ Advanced(e, branch, ToSet(Payload[p]), n)
      BY <1>1, <1>2, <1>7, ForeignAdvances
    <2>2. Payload[p] \in Seq(Txs)
      BY BlocksAssumption
    <2>3. /\ Len(s0) \in Nat /\ Len(s2) = Len(s0) + 1 /\ n = Len(s0) + 1
          /\ \A k \in 1..Len(s0) : s2[k] = s0[k]
          /\ s2[Len(s0) + 1].txs = Payload[p]
      BY <1>1, <1>3
    <2> DEFINE txs == Payload[p]
    <2>4. Advanced(e, branch, ToSet(txs), Len(s0) + 1)
      BY <2>1, <2>3
    <2> HIDE DEF e, s2, branch, txs
    <2>5. Carried(s2, branch)
      BY <2>1, <2>2, <2>3, <2>4, CarriedByBlock DEF txs
    <2> QED  BY <2>5
  <1> HIDE DEF branch, j
  <1>11. Sane(b, j + 1) /\ b.fund.claimed = branch.fund.claimed
    <2>1. PICK s2 : Carried(s2, branch)
      BY <1>10
    <2> QED  BY <1>1, <1>2, <1>9, <2>1, ForeignSolvent
  <1> HIDE DEF b
  <1> DEFINE claimed == books.fund.claimed
  <1>12. /\ claimed \in Int /\ books'.fund.claimed = claimed /\ claimed <= Due(Height)
         /\ quarter \in Quarters /\ Solvent(books')
    BY <1>1, <1>2, <1>9, <1>11 DEF Sane
  <1>13. Height \in Nat
    BY <1>1 DEF n
  <1> HIDE DEF claimed
  <1> QED  BY <1>2, <1>5, <1>12, <1>13, PursesLonger

(* Unlocking moves nothing, a claim no more than the treasury's account has. *)
LEMMA TreasuryPurses == ASSUME ExecInv, LedgerInv, PursesInv, TreasuryNext  PROVE PursesInv'
  <1> DEFINE n == Height
             k == n + 1
             s == chain
  <1>1. /\ Sane(books, k) /\ n \in Nat /\ k \in Nat /\ n = Len(s)
        /\ books.fund.claimed \in Int /\ books.fund.claimed <= Due(n) /\ DOMAIN books = Columns
        /\ Ledgered(books, s) /\ Solvent(books) /\ DOMAIN books.fund = FundFields
    BY BooksAreSane DEF LedgerInv, Sane, Booked
  <1>2. chain' = chain
    BY DEF TreasuryNext, NextQuarter, UnlockTreasury, ClaimTreasury
  <1>3. quarter' \in Quarters
    BY DEF TreasuryNext, NextQuarter, UnlockTreasury, ClaimTreasury, PursesInv
  <1> HIDE DEF k, n, s
  <1>4. ASSUME NEW past \in SUBSET Quarters
        PROVE  LET c == Unlocked(books, past)
               IN  /\ Solvent(c) /\ c.fund.claimed = books.fund.claimed
                   /\ Ledgered(c, s)
    <2> DEFINE c == Unlocked(books, past)
    <2>1. c.ledger = books.ledger /\ c.fund.claimed = books.fund.claimed
      BY <1>1, UnlockedLeaves
    <2>2. Ledgered(c, s)
      BY <1>1, UnlockedLedgered
    <2> HIDE DEF c
    <2>3. Solvent(c)
      BY <1>1, <2>1 DEF Solvent
    <2> QED  BY <2>1, <2>2, <2>3 DEF c
  <1>5. Solvent(books') /\ books'.fund.claimed <= Due(n)
    <2>1. CASE NextQuarter
      BY <1>1, <2>1 DEF NextQuarter
    <2>2. ASSUME NEW past \in SUBSET Quarters, UnlockTreasury(past)
          PROVE  Solvent(books') /\ books'.fund.claimed <= Due(n)
      BY <1>1, <1>4, <2>2 DEF UnlockTreasury
    <2>3. ASSUME NEW past \in SUBSET Quarters, ClaimTreasury(past)
          PROVE  Solvent(books') /\ books'.fund.claimed <= Due(n)
      <3> DEFINE b      == Unlocked(books, past)
                 amount == b.fund.unlocked
      <3>1. /\ Ledgered(b, s) /\ Solvent(b) /\ b.fund.claimed = books.fund.claimed
            /\ books' = Claimed(b) /\ CanClaim(b)
        BY <1>4, <2>3 DEF ClaimTreasury
      <3> HIDE DEF b
      <3>2. /\ Booked(b, k) /\ Backed(b.ledger, n, n, b.fund.claimed) /\ FundOk(b, n)
        <4>1. Booked(b, Len(s) + 1) /\ Treasured(b, Len(s), Len(s))
          BY <3>1 DEF Ledgered
        <4> QED  BY <1>1, <4>1 DEF Treasured, k
      <3>3. b.fund.unlocked \in Nat /\ DOMAIN b.fund = FundFields /\ b.fund.claimed \in Int
        <4>1. b.fund.unlocked \in Int /\ b.fund.unlocked > 0
          BY <3>1, <3>2 DEF FundOk, CanClaim
        <4> QED  BY <3>2, <4>1 DEF FundOk
      <3>4. b.balances[Treasury] = Due(n) - b.fund.claimed
        <4>1. k \in 1..(n + 1) /\ Lower(k - 1, n) = n
          BY <1>1 DEF k, Lower
        <4>2. Below(b.ledger, EntryTypes, {Treasury}, k) = Due(n) - b.fund.claimed
          BY <3>2, <4>1 DEF Backed
        <4>3. b.balances[Treasury] = Below(b.ledger, EntryTypes, {Treasury}, k)
          BY <3>2, WalletsAreAccounts DEF Booked
        <4> QED  BY <4>2, <4>3
      <3>5. amount <= Due(n) - b.fund.claimed /\ Due(n) \in Int
        BY <1>1, <3>1, <3>4, DueTyped DEF CanClaim
      <3>6. Solvent(Claimed(b)) /\ Claimed(b).fund.claimed = b.fund.claimed + amount
        BY <1>1, <3>1, <3>2, <3>3, ClaimedSolvent
      <3>7. b.fund.claimed + amount <= Due(n)
        BY <3>3, <3>5
      <3> QED  BY <3>1, <3>6, <3>7
    <2> QED  BY <2>1, <2>2, <2>3 DEF TreasuryNext
  <1> QED  BY <1>2, <1>3, <1>5 DEF PursesInv, Height, n

LEMMA PursesStep == ExecInv /\ LedgerInv /\ PursesInv /\ [Next]_vars => PursesInv'
  <1> SUFFICES ASSUME ExecInv, LedgerInv, PursesInv, [Next]_vars  PROVE PursesInv'
    OBVIOUS
  <1>1. DOMAIN books = Columns
    BY DEF LedgerInv, Ledgered, Booked
  <1>2. CASE UNCHANGED vars
    BY <1>1, <1>2, PursesStay, RowsLeaveLedger DEF vars
  <1>3. CASE MempoolNext \/ TasksNext
    BY <1>1, <1>3, MempoolRowsOnly, TasksRowsOnly, PursesStay
  <1>4. ASSUME NEW t \in Tasks, AcceptFails(t)  PROVE PursesInv'
    <2>1. books' = Released(books, {t}) /\ chain' = chain /\ quarter' = quarter
      BY <1>4 DEF AcceptFails, Ended
    <2> QED  BY <1>1, <2>1, PursesStay, RowsLeaveLedger
  <1>5. ASSUME NEW keep \in BOOLEAN, ForceRetarget(keep)  PROVE PursesInv'
    <2>1. books' = books /\ chain' = chain /\ quarter' = quarter
      BY <1>5 DEF ForceRetarget
    <2> QED  BY <1>1, <2>1, PursesStay, RowsLeaveLedger
  <1>6. CASE ChainNext
    BY <1>4, <1>5, <1>6, AcceptPurses, ImportPurses, ReorgPurses DEF ChainNext
  <1>7. CASE Next
    BY <1>3, <1>6, <1>7, TreasuryPurses DEF Next
  <1> QED  BY <1>2, <1>7

LEMMA ExecutionTyped == ExecInv /\ LedgerInv /\ PursesInv => TypeOK
  <1> SUFFICES ASSUME ExecInv, LedgerInv, PursesInv  PROVE TypeOK
    OBVIOUS
  <1> DEFINE n == Height
  <1>1. /\ Sane(books, n + 1) /\ n \in Nat /\ n = Len(chain) /\ books.fund.claimed \in Int
        /\ books.fund.claimed <= Due(n) /\ chain \in Seq(ChainRows)
    BY BooksAreSane
  <1>2. \A i \in DOMAIN chain : chain[i].id \in Tasks \cup arrived /\ ToSet(chain[i].txs) \subseteq Txs
    <2> SUFFICES ASSUME NEW i \in 1..n
                 PROVE  chain[i].id \in Tasks \cup arrived /\ ToSet(chain[i].txs) \subseteq Txs
      BY <1>1
    <2>1. chain[i] \in ChainRows
      BY <1>1
    <2>2. chain[i].id \in Tasks \cup Foreign /\ chain[i].txs \in Seq(Txs)
      BY <2>1 DEF ChainRows, BlockIds
    <2>3. chain[i].id \in Foreign => chain[i].id \in arrived
      BY DEF LedgerInv, Arrivals
    <2>4. ToSet(chain[i].txs) \subseteq Txs
      BY <2>2 DEF ToSet
    <2> QED  BY <2>2, <2>3, <2>4
  <1>3. arrived \subseteq Foreign /\ quarter \in Quarters
    BY DEF LedgerInv, Arrivals, PursesInv
  <1>4. /\ \A x \in Txs : books.rows[x].status \in
              {"absent", "pending", "selected", "confirmed", "failed", "expired"}
        /\ books.nonces \in [Wallets -> Nat]
    BY DEF ExecInv, Kept, MempoolRows, RowStatus
  <1>5. \A t \in Tasks : tasks[t].status \in
            {"none", "assigned", "committed", "lapsed", "expired", "closed", "accepted"}
    BY DEF ExecInv, ExecTyped, TaskRows, TaskStatus
  <1>6. books.balances \in [Accounts -> Nat]
    <2>1. books.balances \in [Accounts -> Int]
      BY <1>1 DEF Sane, Booked
    <2>2. Afloat(books)
      <3> DEFINE k == n + 1
      <3>1. k \in Int /\ Booked(books, k) /\ Solvent(books)
        BY <1>1 DEF Sane
      <3> HIDE DEF k
      <3> QED  BY <3>1, SolventIsAfloat
    <2>3. 0 <= books.balances[Treasury]
      <3>1. TreasuryAccounted
        BY TreasuryHolds
      <3>2. books.balances[Treasury] = books.fund.total - books.fund.claimed
            /\ books.fund.total = n * TreasuryShare
        BY <3>1 DEF TreasuryAccounted
      <3>3. books.fund.total = Due(n) /\ Due(n) \in Int
        BY <1>1, <3>2, DueTyped DEF Due
      <3> QED  BY <1>1, <3>2, <3>3
    <2> QED  BY <2>1, <2>2, <2>3 DEF Afloat
  <1> QED  BY <1>2, <1>3, <1>4, <1>5, <1>6 DEF TypeOK

LEMMA PursesAlways == Spec => []PursesInv
  <1>1. Init => PursesInv
    BY PursesInitially
  <1>2. ExecInv /\ LedgerInv /\ PursesInv /\ [Next]_vars => PursesInv'
    BY PursesStep
  <1> QED  BY <1>1, <1>2, ExecAlways, LedgerAlways, PTL DEF Spec

(* No account of the ledger is ever in debt: not a sender or a miner whose  *)
(* block is taken back after it spent the reward, nor the treasury after a  *)
(* claim; and rows, nonces and tasks have the values the code knows.        *)
THEOREM ExecutionTypesHold == Spec => []TypeOK
  BY ExecutionTyped, ExecAlways, LedgerAlways, PursesAlways, PTL

-------------------------------------------------------------------------------
(* The wallets: the refinement of PaymentChain.                            *)

Positions(c) == Payments!Positions(c)
TxAt(c, p)   == c[p[1]].txs[p[2]]

(* What the transactions of the blocks c bring to a wallet, one by one.     *)
Gains(c, w) == [p \in Positions(c) |-> Payments!Effect(w, TxAt(c, p), c[p[1]].miner)]
Mined(c, w, top) == {h \in DOMAIN c : c[h].miner = w /\ h + MaturityDepth <= top}

GainsUpTo(c, w, S) ==
    CHOOSE g : g = [s \in SUBSET S |->
        IF s = {} THEN 0
        ELSE Payments!Effect(w, TxAt(c, Pick(s)), c[Pick(s)[1]].miner) + g[s \ {Pick(s)}]]

LEMMA PaymentsCardinality == \A S : Payments!Cardinality(S) = Cardinality(S)
  BY DEF Payments!Cardinality, Cardinality

LEMMA HoldsIs ==
    \A c, w, top : Payments!Holds(c, w, top)
        = Premine[w] + GainsUpTo(c, w, Positions(c))[Positions(c)]
          + MinerReward * Cardinality(Mined(c, w, top))
  BY PaymentsCardinality DEF Payments!Holds, Payments!MapThenSumSet, Payments!MapThenFoldSet,
     GainsUpTo, Mined, Positions, TxAt, Pick

LEMMA HoldsAre ==
    ASSUME NEW c, NEW w, NEW top, Terms(Gains(c, w), Positions(c))
    PROVE  Payments!Holds(c, w, top) = Premine[w] + Sum(Gains(c, w), Positions(c))
                                       + MinerReward * Cardinality(Mined(c, w, top))
  <1> DEFINE S == Positions(c)
             v == Gains(c, w)
             E(p) == Payments!Effect(w, TxAt(c, p), c[p[1]].miner)
             F(g) == [s \in SUBSET S |-> IF s = {} THEN 0 ELSE E(Pick(s)) + g[s \ {Pick(s)}]]
             P == Partial(v, S)
             G == GainsUpTo(c, w, S)
  <1>1. \A x \in S : v[x] = E(x)
    BY DEF Gains
  <1>2. \A s \in SUBSET S : P[s] = TermOf(v, P, s)
    BY PartialAt
  <1>3. P = [s \in SUBSET S |-> TermOf(v, P, s)]
    BY PartialObeys DEF Terms
  <1> HIDE DEF P, S, v, E
  <1>4. \A s \in SUBSET S : TermOf(v, P, s) = IF s = {} THEN 0 ELSE E(Pick(s)) + P[s \ {Pick(s)}]
    BY <1>1, PickIsElement DEF TermOf
  <1>5. P = F(P)
    BY <1>3, <1>4
  <1>6. G = F(G)
    BY <1>5 DEF GainsUpTo, E
  <1> HIDE DEF G
  <1>7. \A s \in SUBSET S : G[s] = IF s = {} THEN 0 ELSE E(Pick(s)) + G[s \ {Pick(s)}]
    BY <1>6
  <1>8. \A s \in SUBSET S : G[s] = TermOf(v, G, s)
    BY <1>1, <1>7, PickIsElement DEF TermOf
  <1>9. IsFiniteSet(S)
    BY DEF Terms, S
  <1>10. G[S] = P[S]
    BY <1>2, <1>8, <1>9, PartialsAgree, SMTT(40)
  <1>11. P[S] = Sum(v, S)
    BY SumIsPartial DEF Sum, P
  <1> QED  BY <1>10, <1>11, HoldsIs DEF G, S, v

Earned(c, w) == Sum(Gains(c, w), Positions(c))
Used(c, s)   == Cardinality(Payments!Executed(c, s))
Histories    == Seq([miner : Wallets, txs : Seq(Txs)])

LEMMA PositionsAre ==
    \A c, p : p \in Positions(c) <=> \E h \in DOMAIN c : \E i \in DOMAIN c[h].txs : p = << h, i >>
  BY DEF Positions, Payments!Positions

LEMMA HistoryTyped ==
    ASSUME NEW c \in Histories
    PROVE  /\ Len(c) \in Nat /\ DOMAIN c = 1..Len(c)
           /\ \A h \in 1..Len(c) : /\ c[h].miner \in Wallets /\ c[h].txs \in Seq(Txs)
                                   /\ Len(c[h].txs) \in Nat /\ DOMAIN c[h].txs = 1..Len(c[h].txs)
                                   /\ \A i \in 1..Len(c[h].txs) : c[h].txs[i] \in Txs
  <1> DEFINE R == [miner : Wallets, txs : Seq(Txs)]
  <1>1. Len(c) \in Nat /\ DOMAIN c = 1..Len(c) /\ \A h \in 1..Len(c) : c[h] \in R
    <2>1. c \in Seq(R)
      BY DEF Histories
    <2> HIDE DEF R
    <2> QED  BY <2>1
  <1>2. \A h \in 1..Len(c) : c[h].miner \in Wallets /\ c[h].txs \in Seq(Txs)
    BY <1>1
  <1>3. \A s \in Seq(Txs) : Len(s) \in Nat /\ DOMAIN s = 1..Len(s) /\ \A i \in 1..Len(s) : s[i] \in Txs
    OBVIOUS
  <1> QED  BY <1>1, <1>2, <1>3

LEMMA GainsTyped ==
    ASSUME NEW c \in Histories, NEW w
    PROVE  IsFiniteSet(Positions(c)) /\ Terms(Gains(c, w), Positions(c)) /\ Earned(c, w) \in Int
  <1> DEFINE Of   == [h \in DOMAIN c |-> {<< h, i >> : i \in DOMAIN c[h].txs}]
             Sets == {Of[h] : h \in DOMAIN c}
  <1>1. /\ Len(c) \in Nat /\ DOMAIN c = 1..Len(c) /\ IsFiniteSet(DOMAIN c)
    BY HistoryTyped, FS_Interval
  <1>2. ASSUME NEW h \in DOMAIN c  PROVE IsFiniteSet(Of[h])
    <2> DEFINE f == [i \in DOMAIN c[h].txs |-> << h, i >>]
    <2>1. IsFiniteSet(DOMAIN c[h].txs)
      <3> DEFINE k == Len(c[h].txs)
      <3>1. k \in Int /\ 1 \in Int /\ DOMAIN c[h].txs = 1..k
        BY <1>1, HistoryTyped
      <3> HIDE DEF k
      <3> QED  BY <3>1, FS_Interval
    <2>2. Of[h] = {f[i] : i \in DOMAIN c[h].txs}
      OBVIOUS
    <2> HIDE DEF f
    <2> QED  BY <2>1, <2>2, ImageIsFinite
  <1>3. IsFiniteSet(Sets)
    <2> HIDE DEF Of
    <2> QED  BY <1>1, ImageIsFinite
  <1>4. Positions(c) = UNION Sets
    BY DEF Positions, Payments!Positions
  <1>5. IsFiniteSet(UNION Sets)
    <2>1. \A T \in Sets : IsFiniteSet(T)
      BY <1>2
    <2> HIDE DEF Sets
    <2> QED  BY <1>3, <2>1, FS_UNION
  <1>6. ASSUME NEW p \in Positions(c)  PROVE Gains(c, w)[p] \in Int
    <2>1. \E h \in DOMAIN c : \E i \in DOMAIN c[h].txs : p = << h, i >>
      BY PositionsAre
    <2>2. TxAt(c, p) \in Txs
      BY <1>1, <2>1, HistoryTyped DEF TxAt
    <2>3. Amount[TxAt(c, p)] \in Nat /\ Fee[TxAt(c, p)] \in Nat
      BY <2>2, DebitsTyped
    <2>4. \A x, m : Amount[x] \in Nat /\ Fee[x] \in Nat => Payments!Effect(w, x, m) \in Int
      BY DEF Payments!Effect
    <2> QED  BY <2>3, <2>4 DEF Gains
  <1> HIDE DEF Sets
  <1>7. Terms(Gains(c, w), Positions(c))
    BY <1>4, <1>5, <1>6 DEF Terms
  <1> QED  BY <1>4, <1>5, <1>7, SumIsInt DEF Earned

(* d has the positions of c, with the same transactions and miners there.   *)
Repeats(c, d) ==
    \A p \in Positions(c) : TxAt(d, p) = TxAt(c, p) /\ d[p[1]].miner = c[p[1]].miner

LEMMA ExecutedIs ==
    \A c, s : Payments!Executed(c, s) = {p \in Positions(c) : Sender[TxAt(c, p)] = s}
  BY DEF Payments!Executed, Positions, TxAt

LEMMA NothingNew ==
    ASSUME NEW c \in Histories, NEW d, Positions(d) = Positions(c), Repeats(c, d), NEW w
    PROVE  Earned(d, w) = Earned(c, w) /\ Used(d, w) = Used(c, w)
  <1>1. \A p \in Positions(c) : Gains(c, w)[p] = Gains(d, w)[p]
    BY DEF Gains, Repeats
  <1>2. Earned(d, w) = Earned(c, w)
    BY <1>1, GainsTyped, SumSame DEF Earned
  <1>3. Payments!Executed(d, w) = Payments!Executed(c, w)
    BY ExecutedIs DEF Repeats
  <1> QED  BY <1>2, <1>3 DEF Used

LEMMA OneMoreTx ==
    ASSUME NEW c \in Histories, NEW d \in Histories, NEW q, q \notin Positions(c),
           Positions(d) = Positions(c) \cup {q}, Repeats(c, d), NEW w
    PROVE  /\ Earned(d, w) = Earned(c, w) + Payments!Effect(w, TxAt(d, q), d[q[1]].miner)
           /\ Used(d, w) = Used(c, w) + IF Sender[TxAt(d, q)] = w THEN 1 ELSE 0
           /\ Used(c, w) \in Nat
  <1> DEFINE S == Positions(c)
  <1>1. \A p \in S : Gains(c, w)[p] = Gains(d, w)[p]
    BY DEF Gains, Repeats
  <1>2. Sum(Gains(c, w), S) = Sum(Gains(d, w), S)
    BY <1>1, GainsTyped, SumSame
  <1>3. Sum(Gains(d, w), S \cup {q}) = Gains(d, w)[q] + Sum(Gains(d, w), S)
    <2>1. Terms(Gains(d, w), S \cup {q})
      BY GainsTyped
    <2> HIDE DEF S
    <2> QED  BY <2>1, SumWith DEF S
  <1>4. Gains(d, w)[q] = Payments!Effect(w, TxAt(d, q), d[q[1]].miner)
    BY DEF Gains
  <1>5. Sum(Gains(d, w), S) \in Int /\ Gains(d, w)[q] \in Int
    BY <1>2, GainsTyped DEF Earned, Terms
  <1> DEFINE U == Payments!Executed(c, w)
  <1>6. Payments!Executed(d, w) = IF Sender[TxAt(d, q)] = w THEN U \cup {q} ELSE U
    BY ExecutedIs DEF Repeats
  <1>7. IsFiniteSet(U) /\ q \notin U
    <2>1. U \in SUBSET S
      BY ExecutedIs
    <2> QED  BY <2>1, GainsTyped, FS_Subset
  <1> HIDE DEF U
  <1>8. Cardinality(U) \in Nat /\ Cardinality(U \cup {q}) = Cardinality(U) + 1
    BY <1>7, FS_AddElement, FS_CardinalityType
  <1> QED  BY <1>2, <1>3, <1>4, <1>5, <1>6, <1>8 DEF Earned, Used, U

(* The blocks c and one more, by m, with the transactions v.                *)
With(c, m, v) == Append(c, [miner |-> m, txs |-> v])

LEMMA WithTyped ==
    ASSUME NEW c \in Histories, NEW m \in Wallets, NEW v \in Seq(Txs),
           NEW d, d = With(c, m, v), NEW n \in Nat, n = Len(c)
    PROVE  /\ d \in Histories /\ Len(d) = n + 1 /\ DOMAIN d = 1..(n + 1)
           /\ d[n + 1].miner = m /\ d[n + 1].txs = v /\ \A h \in 1..n : d[h] = c[h]
  <1> DEFINE R == [miner : Wallets, txs : Seq(Txs)]
             e == [miner |-> m, txs |-> v]
  <1>1. c \in Seq(R) /\ e \in R /\ e.miner = m /\ e.txs = v
    BY DEF Histories
  <1> HIDE DEF R, e
  <1>2. d = Append(c, e) => d \in Seq(R) /\ Len(d) = n + 1 /\ DOMAIN d = 1..(n + 1)
                            /\ d[n + 1] = e
                            /\ \A h \in 1..n : d[h] = c[h]
    BY <1>1
  <1> QED  BY <1>1, <1>2 DEF With, Histories, R, e

LEMMA EmptyBlock ==
    ASSUME NEW c \in Histories, NEW m \in Wallets, NEW w
    PROVE  Earned(With(c, m, << >>), w) = Earned(c, w) /\ Used(With(c, m, << >>), w) = Used(c, w)
  <1>0. Len(c) \in Nat /\ DOMAIN c = 1..Len(c)
    BY HistoryTyped
  <1> DEFINE v == << >>
             d == With(c, m, v)
             n == Len(c)
  <1>1. v \in Seq(Txs) /\ DOMAIN v = {}
    OBVIOUS
  <1> HIDE DEF v
  <1>2. /\ n \in Nat /\ DOMAIN c = 1..n /\ DOMAIN d = 1..(n + 1)
        /\ d[n + 1].txs = v /\ \A h \in 1..n : d[h] = c[h]
    <2>1. d = With(c, m, v) /\ n = Len(c) /\ n \in Nat /\ DOMAIN c = 1..n
      BY <1>0
    <2> HIDE DEF d, n
    <2>2. v \in Seq(Txs) /\ d = With(c, m, v) /\ n = Len(c) /\ n \in Nat
      BY <1>1, <2>1
    <2>3. DOMAIN d = 1..(n + 1) /\ d[n + 1].txs = v /\ \A h \in 1..n : d[h] = c[h]
      BY <2>2, WithTyped
    <2> QED  BY <2>1, <2>3
  <1> HIDE DEF d, n
  <1>3. \A h : h \in 1..(n + 1) <=> h \in 1..n \/ h = n + 1
    BY <1>2
  <1>4. Positions(d) = Positions(c)
    <2>1. ASSUME NEW p  PROVE p \in Positions(d) <=> p \in Positions(c)
      <3>1. \A i : i \notin DOMAIN d[n + 1].txs
        BY <1>1, <1>2
      <3>2. \A h \in 1..n : d[h].txs = c[h].txs
        BY <1>2
      <3> QED  BY <1>2, <1>3, <3>1, <3>2, PositionsAre
    <2> QED  BY <2>1
  <1>5. Repeats(c, d)
    BY <1>2, PositionsAre DEF Repeats, TxAt
  <1> QED  BY <1>4, <1>5, NothingNew DEF d, v

OneMore(v, x, u) == u = Append(v, x)

LEMMA LongerBlock ==
    ASSUME NEW c \in Histories, NEW m \in Wallets, NEW w, NEW v \in Seq(Txs), NEW x \in Txs,
           NEW u, OneMore(v, x, u)
    PROVE  /\ Earned(With(c, m, u), w) = Earned(With(c, m, v), w) + Payments!Effect(w, x, m)
           /\ Used(With(c, m, u), w) = Used(With(c, m, v), w) + IF Sender[x] = w THEN 1 ELSE 0
           /\ Used(With(c, m, v), w) \in Nat
  <1> DEFINE a == With(c, m, v)
             b == With(c, m, u)
             n == Len(c)
             k == Len(v)
             q == << n + 1, k + 1 >>
  <1>0. u \in Seq(Txs) /\ Len(u) = Len(v) + 1 /\ (\A j \in 1..Len(v) : u[j] = v[j]) /\ x = u[Len(u)]
    BY DEF OneMore
  <1>1. /\ n \in Nat /\ a \in Histories /\ DOMAIN a = 1..(n + 1) /\ a[n + 1].miner = m /\ a[n + 1].txs = v
        /\ b \in Histories /\ DOMAIN b = 1..(n + 1) /\ b[n + 1].miner = m /\ b[n + 1].txs = u
        /\ \A h \in 1..n : b[h] = a[h]
    <2>0. u \in Seq(Txs)
      BY <1>0
    <2>1. a = With(c, m, v) /\ b = With(c, m, u) /\ n = Len(c)
      OBVIOUS
    <2> HIDE DEF a, b, n
    <2>2. n \in Nat
      BY <2>1, HistoryTyped
    <2>3. /\ a \in Histories /\ DOMAIN a = 1..(n + 1) /\ a[n + 1].miner = m /\ a[n + 1].txs = v
          /\ \A h \in 1..n : a[h] = c[h]
      BY <2>1, <2>2, WithTyped
    <2>4. /\ b \in Histories /\ DOMAIN b = 1..(n + 1) /\ b[n + 1].miner = m /\ b[n + 1].txs = u
          /\ \A h \in 1..n : b[h] = c[h]
      BY <2>1, <2>2, <2>0, WithTyped
    <2> QED  BY <2>2, <2>3, <2>4
  <1>2. k \in Nat /\ DOMAIN v = 1..k /\ DOMAIN u = 1..(k + 1) /\ x = u[k + 1]
        /\ \A j \in 1..k : u[j] = v[j]
    <2>1. \A t \in Seq(Txs) : Len(t) \in Nat /\ DOMAIN t = 1..Len(t)
      OBVIOUS
    <2> QED  BY <1>0, <2>1
  <1> HIDE DEF a, b, n, k
  <1>3. /\ \A h : h \in 1..(n + 1) <=> h \in 1..n \/ h = n + 1
        /\ \A h : h \in 1..(k + 1) <=> h \in 1..k \/ h = k + 1
        /\ k + 1 \notin 1..k
    BY <1>1, <1>2
  <1>4. \A p : p \in Positions(b) <=> p \in Positions(a) \/ p = q
    <2> SUFFICES ASSUME NEW p  PROVE p \in Positions(b) <=> p \in Positions(a) \/ p = q
      OBVIOUS
    <2>1. ASSUME NEW h \in 1..(n + 1)
          PROVE  \A i : i \in DOMAIN b[h].txs <=> i \in DOMAIN a[h].txs \/ (h = n + 1 /\ i = k + 1)
      <3>1. CASE h = n + 1
        BY <1>1, <1>2, <1>3, <3>1
      <3>2. CASE h # n + 1
        <4>1. b[h] = a[h]
          BY <1>1, <1>3, <3>2
        <4> QED  BY <3>2, <4>1
      <3> QED  BY <3>1, <3>2
    <2>2. n + 1 \in 1..(n + 1)
      BY <1>3
    <2> QED  BY <1>1, <2>1, <2>2, PositionsAre
  <1>5. q \notin Positions(a)
    <2> SUFFICES ASSUME q \in Positions(a)  PROVE FALSE
      OBVIOUS
    <2>1. \E h \in DOMAIN a : \E i \in DOMAIN a[h].txs : q = << h, i >>
      BY PositionsAre
    <2>2. k + 1 \in DOMAIN a[n + 1].txs
      BY <2>1
    <2> QED  BY <1>1, <1>2, <1>3, <2>2
  <1>6. Repeats(a, b)
    <2> SUFFICES ASSUME NEW p \in Positions(a)
                 PROVE  TxAt(b, p) = TxAt(a, p) /\ b[p[1]].miner = a[p[1]].miner
      BY DEF Repeats
    <2>1. PICK h \in DOMAIN a : \E i \in DOMAIN a[h].txs : p = << h, i >>
      BY PositionsAre
    <2>2. PICK i \in DOMAIN a[h].txs : p = << h, i >>
      BY <2>1
    <2>3. a[h].txs[i] = b[h].txs[i] /\ a[h].miner = b[h].miner
      BY <1>1, <1>2, <1>3, <2>1, <2>2
    <2> QED  BY <2>2, <2>3 DEF TxAt
  <1>7. TxAt(b, q) = x /\ b[q[1]].miner = m
    BY <1>1, <1>2 DEF TxAt
  <1>8. Positions(b) = Positions(a) \cup {q}
    BY <1>4
  <1> HIDE DEF q
  <1>9. /\ Earned(b, w) = Earned(a, w) + Payments!Effect(w, TxAt(b, q), b[q[1]].miner)
        /\ Used(b, w) = Used(a, w) + IF Sender[TxAt(b, q)] = w THEN 1 ELSE 0
        /\ Used(a, w) \in Nat
    BY <1>1, <1>5, <1>6, <1>8, OneMoreTx
  <1> QED  BY <1>7, <1>9 DEF a, b

(* Rewards that have matured by a height.                                  *)
Bonus(c, w, top) == MinerReward * Cardinality(Mined(c, w, top))

LEMMA BonusGrows ==
    ASSUME NEW c \in Histories, NEW w, NEW top,
           NEW d, NEW top2, NEW k, k \notin Mined(c, w, top), NEW also \in BOOLEAN,
           Mined(d, w, top2) = Mined(c, w, top) \cup IF also THEN {k} ELSE {}
    PROVE  /\ Bonus(d, w, top2) = Bonus(c, w, top) + IF also THEN MinerReward ELSE 0
           /\ Bonus(c, w, top) \in Int
  <1> DEFINE S == Mined(c, w, top)
             n == Cardinality(S)
  <1>1. IsFiniteSet(DOMAIN c)
    <2>1. Len(c) \in Int /\ 1 \in Int /\ DOMAIN c = 1..Len(c)
      BY HistoryTyped
    <2> QED  BY <2>1, FS_Interval
  <1>2. IsFiniteSet(S) /\ n \in Nat
    <2>1. S \in SUBSET DOMAIN c
      BY DEF Mined
    <2>2. IsFiniteSet(S)
      BY <1>1, <2>1, FS_Subset
    <2> QED  BY <2>2, FS_CardinalityType
  <1> HIDE DEF S
  <1>3. Cardinality(S \cup {k}) = n + 1 /\ S \cup {} = S
    BY <1>2, FS_AddElement DEF S
  <1> HIDE DEF n
  <1>4. MinerReward * (n + 1) = MinerReward * n + MinerReward /\ MinerReward * n \in Int
        /\ MinerReward * n + 0 = MinerReward * n
    BY <1>2, DepthTyped
  <1>5. CASE also
    BY <1>3, <1>4, <1>5 DEF Bonus, S, n
  <1>6. CASE ~also
    BY <1>3, <1>4, <1>6 DEF Bonus, S, n
  <1> QED  BY <1>5, <1>6

LEMMA BlockStarts ==
    ASSUME NEW c \in Histories, NEW m \in Wallets, NEW v \in Seq(Txs), NEW w, NEW n, n = Len(c)
    PROVE  /\ Bonus(With(c, m, v), w, TopOf(n))
                = Bonus(c, w, n) + IF MaturityDepth = 0 /\ m = w THEN MinerReward ELSE 0
           /\ Bonus(c, w, n) \in Int
  <1> DEFINE d == With(c, m, v)
             k == n + 1
             also == MaturityDepth = 0 /\ m = w
  <1>1. /\ n \in Nat /\ DOMAIN c = 1..n /\ DOMAIN d = 1..(n + 1) /\ d[n + 1].miner = m
        /\ \A h \in 1..n : d[h] = c[h]
    BY WithTyped, HistoryTyped
  <1>2. MaturityDepth \in Nat /\ k \notin Mined(c, w, n) /\ also \in BOOLEAN
    BY <1>1, DepthTyped DEF Mined
  <1> HIDE DEF d
  <1>3. Mined(d, w, TopOf(n)) = Mined(c, w, n) \cup IF also THEN {k} ELSE {}
    <2>1. \A h : h \in 1..(n + 1) <=> h \in 1..n \/ h = k
      BY <1>1
    <2>2. \A h \in 1..n : h + MaturityDepth <= TopOf(n) <=> h + MaturityDepth <= n
      BY <1>1, <1>2 DEF TopOf
    <2>3. k + MaturityDepth <= TopOf(n) <=> MaturityDepth = 0
      BY <1>1, <1>2 DEF TopOf
    <2> HIDE DEF k
    <2> QED  BY <1>1, <2>1, <2>2, <2>3 DEF Mined, k
  <1> HIDE DEF k, also
  <1> DEFINE top2 == TopOf(n)
  <1>4. Mined(d, w, top2) = Mined(c, w, n) \cup IF also THEN {k} ELSE {}
    BY <1>3
  <1> HIDE DEF top2
  <1>5. Bonus(d, w, top2) = Bonus(c, w, n) + (IF also THEN MinerReward ELSE 0) /\ Bonus(c, w, n) \in Int
    BY <1>2, <1>4, BonusGrows
  <1> QED  BY <1>5 DEF d, also, top2

(* The reward of c that matures at height h, if it is one of w.             *)
Ripens(c, w, h) ==
    IF MaturityDepth # 0 /\ h - MaturityDepth \in 1..h /\ c[h - MaturityDepth].miner = w
    THEN MinerReward ELSE 0

LEMMA BlockEnds ==
    ASSUME NEW d \in Histories, NEW w, NEW h, h = Len(d), h # 0
    PROVE  /\ Bonus(d, w, h) = Bonus(d, w, TopOf(h - 1)) + Ripens(d, w, h)
           /\ Bonus(d, w, TopOf(h - 1)) \in Int
  <1> DEFINE k == h - MaturityDepth
             top == TopOf(h - 1)
             also == MaturityDepth # 0 /\ k \in 1..h /\ d[k].miner = w
  <1>1. h \in Nat \ {0} /\ DOMAIN d = 1..h /\ MaturityDepth \in Nat
    BY HistoryTyped, DepthTyped
  <1>2. MaturityDepth = 0 => top = h
    BY <1>1 DEF TopOf
  <1>3. MaturityDepth # 0 => top = h - 1
    BY <1>1 DEF TopOf
  <1> HIDE DEF top
  <1>4. MaturityDepth = 0 \/ k \notin Mined(d, w, top)
    BY <1>1, <1>3 DEF Mined
  <1>5. \A j \in 1..h : j + MaturityDepth <= h <=> j + MaturityDepth <= top \/ (MaturityDepth # 0 /\ j = k)
    BY <1>1, <1>2, <1>3
  <1> DEFINE l == IF MaturityDepth = 0 THEN 0 ELSE k
  <1>6. l \notin Mined(d, w, top) /\ also \in BOOLEAN
    BY <1>1, <1>4 DEF Mined
  <1>7. Mined(d, w, h) = Mined(d, w, top) \cup IF also THEN {l} ELSE {}
    <2> HIDE DEF k
    <2> QED  BY <1>1, <1>5 DEF Mined
  <1> HIDE DEF l, also, k
  <1>8. Bonus(d, w, h) = Bonus(d, w, top) + (IF also THEN MinerReward ELSE 0) /\ Bonus(d, w, top) \in Int
    BY <1>6, <1>7, BonusGrows
  <1> QED  BY <1>8 DEF also, k, top, Ripens

LEMMA BonusTyped ==
    ASSUME NEW c \in Histories, NEW w, NEW top
    PROVE  Bonus(c, w, top) \in Int
  <1> DEFINE n == Cardinality(Mined(c, w, top))
  <1>1. n \in Nat
    <2>1. Len(c) \in Int /\ 1 \in Int /\ DOMAIN c = 1..Len(c)
      BY HistoryTyped
    <2>2. Mined(c, w, top) \in SUBSET DOMAIN c
      BY DEF Mined
    <2> QED  BY <2>1, <2>2, FS_Interval, FS_Subset, FS_CardinalityType
  <1> HIDE DEF n
  <1>2. MinerReward * n \in Int
    BY <1>1, DepthTyped
  <1> QED  BY <1>2 DEF Bonus, n

LEMMA HoldsIn ==
    ASSUME NEW c \in Histories, NEW w, NEW top
    PROVE  Payments!Holds(c, w, top) = Premine[w] + Earned(c, w) + Bonus(c, w, top)
  BY HoldsAre, GainsTyped DEF Earned, Bonus

LEMMA BonusOf ==
    ASSUME NEW c \in Histories, NEW m \in Wallets, NEW v \in Seq(Txs), NEW u \in Seq(Txs), NEW w, NEW top
    PROVE  Bonus(With(c, m, v), w, top) = Bonus(With(c, m, u), w, top)
  <1> DEFINE a == With(c, m, v)
             b == With(c, m, u)
             n == Len(c)
  <1>1. a = With(c, m, v) /\ b = With(c, m, u) /\ n = Len(c) /\ n \in Nat
    BY HistoryTyped
  <1> HIDE DEF a, b, n
  <1>2. DOMAIN a = 1..(n + 1) /\ a[n + 1].miner = m /\ \A h \in 1..n : a[h] = c[h]
    BY <1>1, WithTyped
  <1>3. DOMAIN b = 1..(n + 1) /\ b[n + 1].miner = m /\ \A h \in 1..n : b[h] = c[h]
    BY <1>1, WithTyped
  <1>4. \A h \in 1..(n + 1) : a[h].miner = b[h].miner
    <2>1. \A h \in 1..(n + 1) : h \in 1..n \/ h = n + 1
      BY <1>1
    <2> QED  BY <1>2, <1>3, <2>1
  <1>5. Mined(a, w, top) = Mined(b, w, top)
    BY <1>2, <1>3, <1>4 DEF Mined
  <1> QED  BY <1>1, <1>5 DEF Bonus

(* The wallets have what the blocks c bring them, and the nonces they used. *)
Agrees(b, c, top) ==
    \A w \in Wallets : /\ b.balances[w] = Premine[w] + Earned(c, w) + Bonus(c, w, top)
                       /\ b.nonces[w] = Used(c, w)

(* The transaction x can follow v in a block by m on top of c.             *)
Follow(c, m, v, x, top) ==
    LET before == With(c, m, v)
        w      == Sender[x]
    IN  /\ Nonce[x] = Used(before, w) + 1
        /\ Debit(x) <= Premine[w] + Earned(before, w) + Bonus(before, w, top)

(* Books on which a block can be executed. *)
Purses(b) == Kept(b) /\ NoncesHold(b) /\ b.balances \in [Accounts -> Int]

LEMMA NoncesAhead ==
    ASSUME NEW b, b.nonces \in [Wallets -> Nat]
    PROVE  NoncesHold(b) <=>
             \A y \in Txs : b.rows[y].status = "confirmed" => Nonce[y] <= b.nonces[Sender[y]]
  <1> DEFINE M(w) == {b.nonces[w]} \cup ConfirmedOf(b, w)
  <1>1. ASSUME NEW w \in Wallets
        PROVE  /\ ConfirmedNonce(b, w) = MaxOr0(M(w)) /\ M(w) \in SUBSET Nat /\ IsFiniteSet(M(w))
               /\ b.nonces[w] \in M(w) /\ b.nonces[w] \in Nat
    <2>1. ConfirmedNonce(b, w) = MaxOr0(M(w))
      BY DEF ConfirmedNonce, ConfirmedOf
    <2> QED  BY <2>1, ConfirmedBounded, FS_AddElement
  <1>2. \A y \in Txs : b.rows[y].status = "confirmed" => Nonce[y] \in M(Sender[y])
    BY DEF ConfirmedOf
  <1>3. \A w \in Wallets : \A k \in M(w) : k = b.nonces[w]
          \/ \E y \in Txs : Sender[y] = w /\ b.rows[y].status = "confirmed" /\ k = Nonce[y]
    BY DEF ConfirmedOf
  <1> HIDE DEF M
  <1>4. ASSUME NoncesHold(b), NEW y \in Txs, b.rows[y].status = "confirmed"
        PROVE  Nonce[y] <= b.nonces[Sender[y]]
    <2> DEFINE w == Sender[y]
               S == M(w)
    <2>1. w \in Wallets /\ Nonce[y] \in Nat
      BY TxsTyped
    <2>2. /\ MaxOr0(S) = b.nonces[w] /\ S \in SUBSET Nat /\ IsFiniteSet(S) /\ Nonce[y] \in S
          /\ b.nonces[w] \in Nat
      BY <1>1, <1>2, <1>4, <2>1 DEF NoncesHold
    <2> HIDE DEF S
    <2>3. MaxOr0(S) >= Nonce[y]
      BY <2>2, MaxOr0Bounds
    <2> QED  BY <2>1, <2>2, <2>3
  <1>5. ASSUME \A y \in Txs : b.rows[y].status = "confirmed" => Nonce[y] <= b.nonces[Sender[y]],
               NEW w \in Wallets
        PROVE  ConfirmedNonce(b, w) = b.nonces[w]
    <2> DEFINE S == M(w)
               k == b.nonces[w]
    <2>1. S \in SUBSET Nat /\ k \in S \cup {0} /\ k \in Nat /\ ConfirmedNonce(b, w) = MaxOr0(S)
      BY <1>1
    <2>2. \A j \in S : k >= j
      BY <1>3, <1>5, <2>1, TxsTyped
    <2> HIDE DEF S, k
    <2>3. MaxOr0(S) = k
      BY <2>1, <2>2, MaxOr0Is
    <2> QED  BY <2>1, <2>3 DEF k
  <1> QED  BY <1>4, <1>5 DEF NoncesHold

LEMMA TransferHolds ==
    ASSUME NEW b, Purses(b), NEW c \in Histories, NEW m \in Wallets, NEW v \in Seq(Txs),
           NEW top, Agrees(b, With(c, m, v), top), NEW x \in Txs, Applicable(b, x, FALSE),
           NEW h \in Nat, NEW u \in Seq(Txs), OneMore(v, x, u)
    PROVE  LET b2 == Transferred(b, x, m, h)
           IN  Purses(b2) /\ Agrees(b2, With(c, m, u), top) /\ Follow(c, m, v, x, top)
  <1> DEFINE b2 == Transferred(b, x, m, h)
             s  == Sender[x]
             d  == With(c, m, v)
             e  == With(c, m, u)
  <1>1. /\ Kept(b) /\ DOMAIN b = Columns /\ b.nonces \in [Wallets -> Nat] /\ NoncesHold(b)
        /\ b.balances \in [Accounts -> Int] /\ s \in Wallets /\ Nonce[x] \in Nat
    BY TxsTyped DEF Purses, Kept
  <1>2. Kept(b2) /\ b2.rows = [b.rows EXCEPT ![x] = ConfirmedRow(b.rows[x], h)]
        /\ b2.nonces = Raised(b.nonces, x)
    <2>1. Transfers(b, b2, x, h)
      BY <1>1, TransferKeeps
    <2> HIDE DEF b2
    <2> QED  BY <2>1 DEF Transfers
  <1>3. /\ b2.balances \in [Accounts -> Int]
        /\ \A w \in Wallets : b2.balances[w] = b.balances[w] + Payments!Effect(w, x, m)
    BY <1>1, TransferBalances
  <1> HIDE DEF b2
  <1>4. Nonce[x] = b.nonces[s] + 1 /\ Debit(x) <= b.balances[s]
    <2>1. ConfirmedNonce(b, s) = b.nonces[s]
      BY <1>1 DEF NoncesHold
    <2> QED  BY <2>1, <1>1, DebitsTyped, WalletsAreAccounts DEF Applicable
  <1>5. \A w \in Wallets : b2.nonces[w] = b.nonces[w] + IF s = w THEN 1 ELSE 0
    <2> DEFINE k == b.nonces[s]
               S == {k, Nonce[x]}
               n == Nonce[x]
    <2>1. S \in SUBSET Nat /\ n \in S \cup {0} /\ \A j \in S : n >= j
      BY <1>1, <1>4
    <2>2. b2.nonces = [b.nonces EXCEPT ![s] = MaxOr0(S)]
      BY <1>2 DEF Raised
    <2> HIDE DEF S, n
    <2>3. MaxOr0(S) = n
      BY <2>1, MaxOr0Is
    <2>4. b2.nonces = [b.nonces EXCEPT ![s] = b.nonces[s] + 1]
      BY <1>4, <2>2, <2>3 DEF n
    <2> HIDE DEF k, s
    <2> QED  BY <1>1, <2>4
  <1>6. ASSUME NEW w \in Wallets
        PROVE  /\ Earned(e, w) = Earned(d, w) + Payments!Effect(w, x, m)
               /\ Used(e, w) = Used(d, w) + (IF s = w THEN 1 ELSE 0)
               /\ Used(d, w) \in Nat /\ Earned(d, w) \in Int /\ Bonus(d, w, top) \in Int
               /\ Bonus(e, w, top) = Bonus(d, w, top) /\ Premine[w] \in Int
               /\ Payments!Effect(w, x, m) \in Int
    <2>2. Earned(e, w) = Earned(d, w) + Payments!Effect(w, x, m)
          /\ Used(e, w) = Used(d, w) + (IF s = w THEN 1 ELSE 0) /\ Used(d, w) \in Nat
      BY LongerBlock
    <2>3. d \in Histories
      <3>1. Len(c) \in Nat
        BY HistoryTyped
      <3> DEFINE n == Len(c)
      <3>2. d = With(c, m, v) /\ n = Len(c) /\ n \in Nat
        BY <3>1
      <3> HIDE DEF d, n
      <3> QED  BY <3>2, WithTyped
    <2>4. Earned(d, w) \in Int /\ Bonus(d, w, top) \in Int
      <3> HIDE DEF d
      <3> QED  BY <2>3, GainsTyped, BonusTyped
    <2>5. Bonus(e, w, top) = Bonus(d, w, top)
      <3>1. d = With(c, m, v) /\ e = With(c, m, u)
        OBVIOUS
      <3> HIDE DEF d, e
      <3> QED  BY <3>1, BonusOf
    <2>6. Premine[w] \in Int
      BY BooksAssumption
    <2>7. Payments!Effect(w, x, m) \in Int
      BY DebitsTyped DEF Payments!Effect
    <2> HIDE DEF d, e, s
    <2> QED  BY <2>2, <2>4, <2>5, <2>6, <2>7
  <1> HIDE DEF d, e
  <1>7. \A w \in Wallets : /\ b.balances[w] = Premine[w] + Earned(d, w) + Bonus(d, w, top)
                           /\ b.nonces[w] = Used(d, w)
    BY DEF Agrees, d
  <1>8. Agrees(b2, e, top)
    <2>1. ASSUME NEW w \in Wallets
          PROVE  /\ b2.balances[w] = Premine[w] + Earned(e, w) + Bonus(e, w, top)
                 /\ b2.nonces[w] = Used(e, w)
      <3>1. /\ b2.balances[w] = b.balances[w] + Payments!Effect(w, x, m)
            /\ b2.nonces[w] = b.nonces[w] + IF s = w THEN 1 ELSE 0
            /\ b.balances[w] = Premine[w] + Earned(d, w) + Bonus(d, w, top)
            /\ b.nonces[w] = Used(d, w)
        BY <1>3, <1>5, <1>7
      <3> DEFINE E == Payments!Effect(w, x, m)
      <3>2. /\ Earned(e, w) = Earned(d, w) + E /\ Used(e, w) = Used(d, w) + (IF s = w THEN 1 ELSE 0)
            /\ Earned(d, w) \in Int /\ Bonus(d, w, top) \in Int
            /\ Bonus(e, w, top) = Bonus(d, w, top) /\ Premine[w] \in Int /\ E \in Int
        BY <1>6
      <3> HIDE DEF E, s
      <3> QED  BY <3>1, <3>2 DEF E
    <2> QED  BY <2>1 DEF Agrees
  <1>9. Follow(c, m, v, x, top)
    BY <1>1, <1>4, <1>7 DEF Follow, d
  <1>10. NoncesHold(b2)
    <2>1. b2.nonces \in [Wallets -> Nat] /\ b2.nonces[s] = Nonce[x]
          /\ \A w \in Wallets : b.nonces[w] <= b2.nonces[w] /\ b.nonces[w] \in Nat
      <3>1. b2.nonces \in [Wallets -> Nat]
        BY <1>2 DEF Kept
      <3>2. b2.nonces[s] = Nonce[x]
        BY <1>1, <1>4, <1>5
      <3>3. \A w \in Wallets : b.nonces[w] <= b2.nonces[w] /\ b.nonces[w] \in Nat
        <4> HIDE DEF s
        <4> QED  BY <1>1, <1>5
      <3> QED  BY <3>1, <3>2, <3>3
    <2>2. \A y \in Txs : b.rows[y].status = "confirmed" => Nonce[y] <= b.nonces[Sender[y]]
      BY <1>1, NoncesAhead
    <2>3. \A y \in Txs \ {x} : b2.rows[y] = b.rows[y]
      BY <1>1, <1>2 DEF Kept
    <2>4. \A y \in Txs : b2.rows[y].status = "confirmed" => Nonce[y] <= b2.nonces[Sender[y]]
      <3>1. Nonce[x] <= b2.nonces[Sender[x]]
        BY <1>1, <2>1
      <3>2. ASSUME NEW y \in Txs, y # x, b2.rows[y].status = "confirmed"
            PROVE  Nonce[y] <= b2.nonces[Sender[y]]
        <4> DEFINE w == Sender[y]
        <4>1. Nonce[y] \in Nat /\ w \in Wallets /\ Nonce[y] <= b.nonces[w]
          BY <2>2, <2>3, <3>2, TxsTyped
        <4>2. b.nonces[w] <= b2.nonces[w] /\ b.nonces[w] \in Nat /\ b2.nonces[w] \in Nat
          BY <2>1, <4>1
        <4> QED  BY <4>1, <4>2
      <3> QED  BY <3>1, <3>2
    <2> QED  BY <2>1, <2>4, NoncesAhead
  <1> QED  BY <1>2, <1>3, <1>8, <1>9, <1>10 DEF Purses, b2, e

LEMMA PrefixGrows ==
    ASSUME NEW txs \in Seq(Txs), NEW i \in 1..Len(txs)
    PROVE  /\ txs[i] \in Txs /\ SubSeq(txs, 1, i - 1) \in Seq(Txs) /\ SubSeq(txs, 1, i) \in Seq(Txs)
           /\ OneMore(SubSeq(txs, 1, i - 1), txs[i], SubSeq(txs, 1, i))
  <1>1. i \in Nat /\ i - 1 \in Nat /\ Len(txs) \in Nat /\ 1 <= i /\ i <= Len(txs)
    OBVIOUS
  <1>2. txs[i] \in Txs /\ SubSeq(txs, 1, i - 1) \in Seq(Txs) /\ SubSeq(txs, 1, i) \in Seq(Txs)
    BY <1>1
  <1>3. SubSeq(txs, 1, i) = Append(SubSeq(txs, 1, i - 1), txs[i])
    BY <1>1
  <1> QED  BY <1>2, <1>3 DEF OneMore

LEMMA ExecutionHolds ==
    ASSUME NEW b, Purses(b), NEW c \in Histories, NEW m \in Wallets, NEW txs \in Seq(Txs),
           NEW top, Agrees(b, With(c, m, << >>), top), NEW h \in Nat,
           Execution(b, txs, m, h, FALSE).ok
    PROVE  LET r == Execution(b, txs, m, h, FALSE).books
           IN  /\ Purses(r) /\ Agrees(r, With(c, m, txs), top)
               /\ \A i \in 1..Len(txs) : Follow(c, m, SubSeq(txs, 1, i - 1), txs[i], top)
  <1>1. PICK g : ExecutionRun(g, b, txs, m, h, FALSE)
    BY ExecutionHasRun
  <1> DEFINE n == Len(txs)
             Pre(i) == SubSeq(txs, 1, i)
             Good(i) == g[i].ok => /\ Purses(g[i].books) /\ Agrees(g[i].books, With(c, m, Pre(i)), top)
                                   /\ \A j \in 1..i : Follow(c, m, Pre(j - 1), txs[j], top)
             G == {i \in 0..n : DOMAIN g[i] = {"ok", "books"} /\ Good(i)}
  <1>2. n \in Nat /\ Pre(0) = << >> /\ Pre(n) = txs
    OBVIOUS
  <1>3. 0 \in G
    <2>1. DOMAIN g[0] = {"ok", "books"} /\ g[0].books = b
      BY <1>1 DEF Start, ExecutionRun
    <2> HIDE DEF Pre
    <2> QED  BY <1>2, <2>1
  <1>4. ASSUME NEW i \in 1..n, i - 1 \in G  PROVE i \in G
    <2> DEFINE v == Pre(i - 1)
               u == Pre(i)
               r == g[i - 1]
    <2>1. /\ txs[i] \in Txs /\ v \in Seq(Txs) /\ u \in Seq(Txs) /\ OneMore(v, txs[i], u)
      BY PrefixGrows
    <2>2. g[i] = RunStep(m, h, FALSE, r, txs[i])
      BY <1>1 DEF ExecutionRun
    <2>3. DOMAIN r = {"ok", "books"} /\ Good(i - 1)
      BY <1>4
    <2>4. DOMAIN g[i] = {"ok", "books"}
      BY <2>2, <2>3 DEF RunStep
    <2>5. ASSUME g[i].ok
          PROVE  /\ r.ok /\ Applicable(r.books, txs[i], FALSE)
                 /\ g[i].books = Transferred(r.books, txs[i], m, h)
      <3> HIDE DEF r
      <3> QED  BY <2>2, <2>3, <2>5 DEF RunStep
    <2> HIDE DEF Pre, v, u
    <2>6. ASSUME g[i].ok
          PROVE  /\ Purses(g[i].books) /\ Agrees(g[i].books, With(c, m, u), top)
                 /\ Follow(c, m, v, txs[i], top)
                 /\ \A j \in 1..(i - 1) : Follow(c, m, Pre(j - 1), txs[j], top)
      <3>1. /\ Purses(r.books) /\ Agrees(r.books, With(c, m, v), top)
            /\ \A j \in 1..(i - 1) : Follow(c, m, Pre(j - 1), txs[j], top)
        BY <2>3, <2>5, <2>6 DEF v
      <3> DEFINE b1 == r.books
                 x  == txs[i]
      <3>2. /\ Purses(b1) /\ Agrees(b1, With(c, m, v), top) /\ Applicable(b1, x, FALSE)
            /\ x \in Txs /\ g[i].books = Transferred(b1, x, m, h) /\ OneMore(v, x, u)
            /\ v \in Seq(Txs) /\ u \in Seq(Txs)
        BY <2>1, <2>5, <2>6, <3>1
      <3> HIDE DEF b1, x
      <3>3. LET b2 == Transferred(b1, x, m, h)
            IN  Purses(b2) /\ Agrees(b2, With(c, m, u), top) /\ Follow(c, m, v, x, top)
        BY <3>2, TransferHolds
      <3> QED  BY <3>1, <3>2, <3>3 DEF x
    <2>7. \A j \in 1..i : j \in 1..(i - 1) \/ j = i
      BY <1>2
    <2>8. Good(i)
      BY <2>6, <2>7 DEF u, v
    <2>9. i \in 0..n
      BY <1>2
    <2> HIDE DEF Good
    <2> QED  BY <2>4, <2>8, <2>9
  <1>5. G = 0..n
    <2> DEFINE Bad == (0..n) \ G
    <2> SUFFICES ASSUME Bad # {}  PROVE FALSE
      OBVIOUS
    <2>1. PICK i \in Bad : \A j \in Bad : i <= j
      <3>1. Bad \in SUBSET Nat
        BY <1>2
      <3> HIDE DEF Bad
      <3> QED  BY <3>1, SmallestNat
    <2> HIDE DEF G
    <2>2. i \in 1..n /\ i - 1 \in 0..n /\ ~(i <= i - 1)
      BY <1>2, <1>3
    <2> QED  BY <1>4, <2>1, <2>2
  <1>6. n \in G
    BY <1>2, <1>5
  <1> HIDE DEF Pre
  <1>7. g[n].ok /\ Execution(b, txs, m, h, FALSE) = g[n]
    BY <1>1 DEF ExecutionRun
  <1> QED  BY <1>2, <1>6, <1>7 DEF Pre

LEMMA BlockPays ==
    ASSUME NEW b, Kept(b), NoncesHold(b), NEW n \in Nat, NEW s, Ledgered(b, s), NEW h \in Nat \ {0},
           NEW s2, NEW id, Extends(s, n, s2, h, id), NEW txs \in Seq(Txs), NEW q,
           Block(b, txs, Miner[id], h, id, q, FALSE).ok,
           NEW c \in Histories, Len(c) = n, Agrees(b, c, n),
           \A k \in 1..n : c[k].miner = Miner[s[k].id]
    PROVE  /\ Agrees(Block(b, txs, Miner[id], h, id, q, FALSE).books, With(c, Miner[id], txs), h)
           /\ \A i \in 1..Len(txs) : Follow(c, Miner[id], SubSeq(txs, 1, i - 1), txs[i], TopOf(n))
  <1> DEFINE first == FirstOf(b, id, h)
             run   == RunOf(b, txs, id, h, FALSE)
             mid   == run.books
             done  == DoneOf(b, txs, id, h, q, FALSE)
             last  == Matured(done, h)
             m     == Miner[id]
             d     == With(c, m, txs)
             top   == TopOf(n)
  <1>1. /\ Block(b, txs, Miner[id], h, id, q, FALSE) = [ok |-> run.ok, books |-> last]
        /\ Kept(first) /\ SameRows(b, first) /\ Booked(first, h + 1)
        /\ Booked(mid, h + 1) /\ Kept(mid) /\ DOMAIN mid.fund = FundFields
        /\ Booked(done, h + 1) /\ Kept(done) /\ Settled(done, s2, TopOf(h - 1))
    <2>1. LET a == FirstOf(b, id, h)
              r == RunOf(b, txs, id, h, FALSE)
              e == DoneOf(b, txs, id, h, q, FALSE)
              l == Matured(e, h)
          IN  /\ Block(b, txs, Miner[id], h, id, q, FALSE) = [ok |-> r.ok, books |-> l]
              /\ Kept(a) /\ SameRows(b, a) /\ Booked(a, h + 1)
              /\ Booked(r.books, h + 1) /\ Kept(r.books) /\ DOMAIN r.books.fund = FundFields
              /\ Booked(e, h + 1) /\ Kept(e) /\ Settled(e, s2, TopOf(h - 1))
              /\ Ledgered(l, s2)
      BY BlockInParts
    <2> QED  BY <2>1
  <1>2. /\ id \in BlockIds /\ m \in Wallets /\ h = n + 1 /\ n = h - 1
        /\ Named(s2) /\ Distinct(s2) /\ Len(s2) = h /\ id = s2[h].id
        /\ \A k \in 1..n : s2[k] = s[k]
    <2>1. Named(s2) /\ Distinct(s2) /\ Len(s2) = h /\ h = n + 1 /\ id = s2[h].id
          /\ \A k \in 1..n : s2[k] = s[k]
      BY DEF Extends
    <2>2. id \in BlockIds
      BY <2>1 DEF Named
    <2> QED  BY <2>1, <2>2, BlocksAssumption DEF BlockIds
  <1>3. first = Rewarded(b, m, h, id) /\ run = Execution(first, txs, m, h, FALSE)
        /\ done = Accrued(mid, h, q)
    BY DEF FirstOf, RunOf, DoneOf
  <1>4. run.ok
    <2> DEFINE B == Block(b, txs, m, h, id, q, FALSE)
    <2>1. B.ok /\ B = [ok |-> run.ok, books |-> last]
      BY <1>1
    <2> HIDE DEF B, run, last, m
    <2> QED  BY <2>1
  <1>5. Booked(b, h + 1)
    <2>1. Booked(b, n + 1) /\ Treasured(b, n, n)
      BY DEF Ledgered, Extends
    <2>2. Booked(b, n + 2)
      BY <2>1, TreasuredHigher
    <2>3. n + 2 = h + 1
      BY <1>2
    <2> QED  BY <2>2, <2>3
  <1> HIDE DEF first, run, mid, done, last, m, d, top
  <1>6. Purses(first)
    <2>1. \A w : ConfirmedNonce(first, w) = ConfirmedNonce(b, w)
      BY <1>1 DEF SameRows, ConfirmedNonce
    <2>2. NoncesHold(first)
      BY <1>1, <2>1 DEF NoncesHold, SameRows
    <2> QED  BY <1>1, <2>2 DEF Purses, Booked
  <1>7. Agrees(first, With(c, m, << >>), top)
    <2> DEFINE e == With(c, m, << >>)
    <2>1. first.nonces = b.nonces /\ first.balances = IF MaturityDepth = 0
                THEN PayBalance(b.balances, m, MinerReward) ELSE b.balances
      <3>1. LET r == Rewarded(b, m, h, id)
            IN  /\ Since(b, r, h)
                /\ r.balances = IF MaturityDepth = 0 THEN PayBalance(b.balances, m, MinerReward)
                                ELSE b.balances
        BY <1>2, <1>5, RewardedSince
      <3> QED  BY <1>1, <1>3, <3>1 DEF SameRows
    <2>2. ASSUME NEW w \in Wallets
          PROVE  /\ first.balances[w] = b.balances[w] + IF MaturityDepth = 0 /\ m = w THEN MinerReward ELSE 0
                 /\ b.balances[w] \in Int
      <3>1. b.balances \in [Accounts -> Int] /\ w \in Accounts /\ MinerReward \in Int
        BY <1>5, WalletsAreAccounts, DepthTyped DEF Booked
      <3> QED  BY <2>1, <3>1 DEF PayBalance
    <2>3. ASSUME NEW w \in Wallets
          PROVE  /\ Earned(e, w) = Earned(c, w) /\ Used(e, w) = Used(c, w)
                 /\ Bonus(e, w, top) = Bonus(c, w, n) + IF MaturityDepth = 0 /\ m = w THEN MinerReward ELSE 0
                 /\ Bonus(c, w, n) \in Int /\ Earned(c, w) \in Int /\ Premine[w] \in Int /\ MinerReward \in Int
      <3>1. Earned(e, w) = Earned(c, w) /\ Used(e, w) = Used(c, w)
        BY <1>2, EmptyBlock
      <3>2. << >> \in Seq(Txs)
        OBVIOUS
      <3> DEFINE none == << >>
      <3> HIDE DEF none
      <3>3. /\ Bonus(With(c, m, none), w, TopOf(n))
                = Bonus(c, w, n) + IF MaturityDepth = 0 /\ m = w THEN MinerReward ELSE 0
            /\ Bonus(c, w, n) \in Int
        <4>1. none \in Seq(Txs)
          BY <3>2 DEF none
        <4> QED  BY <1>2, <4>1, BlockStarts
      <3> HIDE DEF e
      <3>4. Earned(c, w) \in Int /\ Premine[w] \in Int /\ MinerReward \in Int
        BY GainsTyped, BooksAssumption, DepthTyped
      <3> QED  BY <3>1, <3>3, <3>4 DEF e, none, top
    <2> HIDE DEF e
    <2>4. \A w \in Wallets : b.balances[w] = Premine[w] + Earned(c, w) + Bonus(c, w, n)
                             /\ b.nonces[w] = Used(c, w)
      BY DEF Agrees
    <2>5. ASSUME NEW w \in Wallets
          PROVE  first.balances[w] = Premine[w] + Earned(e, w) + Bonus(e, w, top)
                 /\ first.nonces[w] = Used(e, w)
      <3> DEFINE x == IF MaturityDepth = 0 /\ m = w THEN MinerReward ELSE 0
      <3>1. /\ first.balances[w] = b.balances[w] + x /\ first.nonces[w] = b.nonces[w]
            /\ Bonus(e, w, top) = Bonus(c, w, n) + x /\ x \in Int
            /\ b.balances[w] = Premine[w] + Earned(c, w) + Bonus(c, w, n) /\ b.nonces[w] = Used(c, w)
        BY <2>1, <2>2, <2>3, <2>4
      <3> HIDE DEF x
      <3> QED  BY <2>3, <3>1
    <2> QED  BY <2>5 DEF Agrees, e
  <1>8. /\ Agrees(mid, d, top)
        /\ \A i \in 1..Len(txs) : Follow(c, m, SubSeq(txs, 1, i - 1), txs[i], top)
    <2>1. LET r == Execution(first, txs, m, h, FALSE).books
          IN  /\ Purses(r) /\ Agrees(r, With(c, m, txs), top)
              /\ \A i \in 1..Len(txs) : Follow(c, m, SubSeq(txs, 1, i - 1), txs[i], top)
      <3>1. Execution(first, txs, m, h, FALSE).ok /\ m \in Wallets /\ h \in Nat
        BY <1>2, <1>3, <1>4
      <3> QED  BY <1>6, <1>7, <3>1, ExecutionHolds
    <2> QED  BY <1>3, <2>1 DEF mid, d
  <1>9. \A w \in Wallets : done.balances[w] = mid.balances[w] /\ done.nonces[w] = mid.nonces[w]
    <2>1. LET r == Accrued(mid, h, q)
          IN  /\ Since(mid, r, h) /\ \A w \in Wallets : r.balances[w] = mid.balances[w]
              /\ Afloat(mid) => Afloat(r)
      BY <1>1, AccruedSince
    <2>2. Alike(mid, Accrued(mid, h, q))
      BY <1>1, AccruedAlike DEF Kept
    <2> QED  BY <1>3, <2>1, <2>2 DEF Alike, SameRows
  <1>10. ASSUME NEW w \in Wallets
         PROVE  last.nonces[w] = done.nonces[w] /\ last.balances[w] = done.balances[w] + PaidOut(s2, top, h, w)
    <2>1. top \in {h - 1, h} /\ Settled(done, s2, top)
      BY <1>1, <1>2 DEF TopOf, top
    <2>2. \A v \in Wallets : Matured(done, h).balances[v] = done.balances[v] + PaidOut(s2, top, h, v)
      BY <1>1, <1>2, <2>1, MaturedPays
    <2>3. SameRows(done, last)
      BY <1>1, MaturedKeeps DEF last
    <2> QED  BY <2>2, <2>3 DEF SameRows, last
  <1>11. ASSUME NEW w \in Wallets
         PROVE  /\ Bonus(d, w, h) = Bonus(d, w, top) + PaidOut(s2, top, h, w)
                /\ Bonus(d, w, top) \in Int /\ Earned(d, w) \in Int
    <2>1. d = With(c, m, txs) /\ n = Len(c)
      BY DEF d
    <2>2. d \in Histories /\ Len(d) = n + 1 /\ DOMAIN d = 1..(n + 1)
          /\ d[n + 1].miner = m /\ \A k \in 1..n : d[k] = c[k]
      BY <1>2, <2>1, WithTyped
    <2>3. \A k \in 1..h : d[k].miner = Miner[s2[k].id]
      <3>1. \A k \in 1..h : k \in 1..n \/ k = h
        BY <1>2
      <3> QED  BY <1>2, <2>2, <3>1 DEF m
    <2>4. Bonus(d, w, h) = Bonus(d, w, TopOf(h - 1)) + Ripens(d, w, h) /\ Bonus(d, w, TopOf(h - 1)) \in Int
      <3>1. d \in Histories /\ h = Len(d) /\ h # 0
        BY <1>2, <2>2
      <3> QED  BY <3>1, BlockEnds
    <2>5. TopOf(h - 1) = top /\ (top # h <=> MaturityDepth # 0)
      BY <1>2 DEF top, TopOf
    <2>6. Ripens(d, w, h) = PaidOut(s2, top, h, w)
      BY <2>3, <2>5 DEF Ripens, PaidOut
    <2>7. Earned(d, w) \in Int
      BY <2>2, GainsTyped
    <2> QED  BY <2>4, <2>5, <2>6, <2>7
  <1>12. ASSUME NEW w \in Wallets
         PROVE  last.balances[w] = Premine[w] + Earned(d, w) + Bonus(d, w, h) /\ last.nonces[w] = Used(d, w)
    <2>1. mid.balances[w] = Premine[w] + Earned(d, w) + Bonus(d, w, top) /\ mid.nonces[w] = Used(d, w)
      BY <1>8 DEF Agrees
    <2>2. PaidOut(s2, top, h, w) \in Int /\ Premine[w] \in Int
      BY BooksAssumption, DepthTyped DEF PaidOut
    <2> QED  BY <1>9, <1>10, <1>11, <2>1, <2>2
  <1>13. Agrees(last, d, h)
    BY <1>12 DEF Agrees
  <1>14. Block(b, txs, m, h, id, q, FALSE).books = last
    <2> DEFINE B == Block(b, txs, m, h, id, q, FALSE)
    <2>1. B = [ok |-> run.ok, books |-> last]
      BY <1>1 DEF m
    <2> HIDE DEF B
    <2>2. B.books = last
      BY <2>1
    <2> QED  BY <2>2 DEF B
  <1>15. \A i \in 1..Len(txs) : Follow(c, Miner[id], SubSeq(txs, 1, i - 1), txs[i], TopOf(n))
    BY <1>8 DEF m, top
  <1>16. Agrees(Block(b, txs, Miner[id], h, id, q, FALSE).books, With(c, Miner[id], txs), h)
    BY <1>13, <1>14 DEF m, d
  <1> QED  BY <1>15, <1>16

(* What can follow one by one is a block for the wallets.                  *)
LEMMA FollowsAreValid ==
    ASSUME NEW c \in Histories, NEW n \in Nat, n = Len(c), NEW m \in Wallets, NEW txs \in Seq(Txs),
           \A i \in 1..Len(txs) : Follow(c, m, SubSeq(txs, 1, i - 1), txs[i], TopOf(n)),
           NEW e, e = [miner |-> m, txs |-> txs]
    PROVE  Payments!Valid(c, e)
  <1>1. e.txs = txs /\ DOMAIN e.txs = 1..Len(txs)
    OBVIOUS
  <1>2. ASSUME NEW i \in 1..Len(txs)
        PROVE  LET x      == txs[i]
                   before == Append(c, [e EXCEPT !.txs = SubSeq(@, 1, i - 1)])
               IN  /\ Nonce[x] = Payments!Cardinality(Payments!Executed(before, Sender[x])) + 1
                   /\ Amount[x] + Fee[x] <= Payments!Holds(before, Sender[x], TopOf(n))
    <2> DEFINE x == txs[i]
               v == SubSeq(txs, 1, i - 1)
               d == With(c, m, v)
               w == Sender[x]
    <2>1. x \in Txs /\ v \in Seq(Txs)
      BY PrefixGrows
    <2>2. Append(c, [e EXCEPT !.txs = SubSeq(@, 1, i - 1)]) = d
      BY DEF With
    <2>3. d \in Histories
      <3> HIDE DEF v, d
      <3> QED  BY <2>1, WithTyped DEF d
    <2>4. Follow(c, m, v, x, TopOf(n))
      OBVIOUS
    <2> HIDE DEF v, x, d
    <2>5. /\ Nonce[x] = Used(d, w) + 1
          /\ Debit(x) <= Premine[w] + Earned(d, w) + Bonus(d, w, TopOf(n))
      BY <2>4 DEF Follow, d
    <2>6. Payments!Holds(d, w, TopOf(n)) = Premine[w] + Earned(d, w) + Bonus(d, w, TopOf(n))
      BY <2>3, HoldsIn
    <2>7. Debit(x) = Amount[x] + Fee[x]
      BY DEF Debit
    <2>8. Payments!Cardinality(Payments!Executed(d, w)) = Used(d, w)
      BY PaymentsCardinality DEF Used
    <2> QED  BY <2>2, <2>5, <2>6, <2>7, <2>8 DEF x
  <1>3. TopOf(n) = IF MaturityDepth = 0 THEN Len(c) + 1 ELSE Len(c)
    BY DEF TopOf
  <1> HIDE DEF TopOf
  <1> QED  BY <1>1, <1>2, <1>3 DEF Payments!Valid

(* The first k blocks of s as the wallets see them. *)
Shown(s, k) == [i \in 1..k |-> [miner |-> Miner[s[i].id], txs |-> s[i].txs]]

(* What the ledger has for a wallet up to a height is what the blocks say.  *)
Held(L, s) ==
    \A k \in 0..Len(s) : \A w \in Wallets :
        Below(L, EntryTypes, {w}, k + 1)
          = Premine[w] + Earned(Shown(s, k), w) + Bonus(Shown(s, k), w, k)

Spent(s, k, w) ==
    {Nonce[x] : x \in {y \in Txs : Sender[y] = w /\ \E h \in 1..k : Contains(s[h].txs, y)}}
(* Nonces are used one after the other. *)
Numbered(s) ==
    \A k \in 0..Len(s) : \A w \in Wallets : MaxOr0(Spent(s, k, w)) = Used(Shown(s, k), w)

Whole(b, s) ==
    /\ s \in Seq(ChainRows) /\ Sane(b, Len(s) + 1) /\ Ledgered(b, s) /\ Carried(s, b)
    /\ Held(b.ledger, s) /\ Numbered(s)

LEMMA ChainRowsTyped ==
    ASSUME NEW s \in Seq(ChainRows)
    PROVE  /\ Len(s) \in Nat /\ DOMAIN s = 1..Len(s)
           /\ \A k \in 1..Len(s) : s[k].id \in BlockIds /\ s[k].txs \in Seq(Txs) /\ Miner[s[k].id] \in Wallets
  <1> DEFINE n == Len(s)
  <1>1. n \in Nat /\ DOMAIN s = 1..n /\ \A k \in 1..n : s[k] \in ChainRows
    OBVIOUS
  <1> HIDE DEF n
  <1>2. \A k \in 1..n : s[k].id \in BlockIds /\ s[k].txs \in Seq(Txs)
    BY <1>1 DEF ChainRows
  <1>3. \A i \in BlockIds : Miner[i] \in Wallets
    BY BlocksAssumption DEF BlockIds
  <1> QED  BY <1>1, <1>2, <1>3 DEF n

LEMMA ShownTyped ==
    ASSUME NEW s \in Seq(ChainRows), NEW k \in 0..Len(s)
    PROVE  /\ Shown(s, k) \in Histories /\ Len(Shown(s, k)) = k
           /\ \A i \in 1..k : Shown(s, k)[i].miner = Miner[s[i].id] /\ Shown(s, k)[i].txs = s[i].txs
  <1> DEFINE R == [miner : Wallets, txs : Seq(Txs)]
  <1>1. k \in Nat /\ \A i \in 1..k : i \in 1..Len(s)
    BY ChainRowsTyped
  <1>2. \A i \in 1..k : [miner |-> Miner[s[i].id], txs |-> s[i].txs] \in R
    BY <1>1, ChainRowsTyped
  <1> HIDE DEF R
  <1>3. [i \in 1..k |-> [miner |-> Miner[s[i].id], txs |-> s[i].txs]] \in Seq(R)
    BY <1>1, <1>2
  <1>4. Shown(s, k) \in Seq(R) /\ Len(Shown(s, k)) = k
    BY <1>1, <1>3 DEF Shown
  <1>5. \A i \in 1..k : Shown(s, k)[i].miner = Miner[s[i].id] /\ Shown(s, k)[i].txs = s[i].txs
    BY DEF Shown
  <1> QED  BY <1>4, <1>5 DEF Histories, R

LEMMA ShownAlike ==
    ASSUME NEW s, NEW k \in Nat, NEW s2, \A i \in 1..k : s2[i] = s[i]
    PROVE  Shown(s2, k) = Shown(s, k) /\ \A w : Spent(s2, k, w) = Spent(s, k, w)
  BY DEF Shown, Spent

LEMMA ShownLonger ==
    ASSUME NEW s \in Seq(ChainRows), NEW n \in Nat, NEW h, NEW s2, NEW id, Extends(s, n, s2, h, id)
    PROVE  Shown(s2, h) = With(Shown(s, n), Miner[id], s2[h].txs)
  <1> DEFINE e == [miner |-> Miner[s2[h].id], txs |-> s2[h].txs]
             c == Shown(s, n)
             R == [miner : Wallets, txs : Seq(Txs)]
  <1>1. n = Len(s) /\ h = n + 1 /\ id = s2[h].id /\ \A i \in 1..n : s2[i] = s[i]
    BY DEF Extends
  <1>2. c \in Seq(R) /\ Len(c) = n
    <2>1. n \in 0..Len(s)
      BY <1>1
    <2>2. c \in Histories /\ Len(c) = n
      BY <2>1, ShownTyped
    <2> QED  BY <2>2 DEF Histories
  <1>3. \A i \in 1..n : c[i] = [miner |-> Miner[s2[i].id], txs |-> s2[i].txs]
    BY <1>1 DEF Shown
  <1> HIDE DEF c, R
  <1>4. Append(c, e) = [i \in 1..(n + 1) |-> IF i = n + 1 THEN e ELSE c[i]]
    BY <1>2
  <1>5. Shown(s2, h) = [i \in 1..(n + 1) |-> IF i = n + 1 THEN e ELSE c[i]]
    BY <1>1, <1>3 DEF Shown
  <1> QED  BY <1>1, <1>4, <1>5 DEF With, c

(* A block that is built here, with the transactions txs. *)
Built(b, txs, id, h, q) == Block(b, txs, Miner[id], h, id, q, FALSE)

LEMMA BuiltPays ==
    ASSUME NEW b, Kept(b), NoncesHold(b), NEW n \in Nat, NEW s, Ledgered(b, s), NEW h \in Nat \ {0},
           NEW s2, NEW id, Extends(s, n, s2, h, id), NEW txs \in Seq(Txs), NEW q,
           Built(b, txs, id, h, q).ok,
           NEW c \in Histories, Len(c) = n, Agrees(b, c, n),
           \A k \in 1..n : c[k].miner = Miner[s[k].id]
    PROVE  /\ Agrees(Built(b, txs, id, h, q).books, With(c, Miner[id], txs), h)
           /\ \A i \in 1..Len(txs) : Follow(c, Miner[id], SubSeq(txs, 1, i - 1), txs[i], TopOf(n))
  BY BlockPays DEF Built

LEMMA CarriedSpent ==
    ASSUME NEW s, NEW b, Carried(s, b), NEW n, n = Len(s), NEW w
    PROVE  ConfirmedOf(b, w) = Spent(s, n, w)
  <1>1. \A y \in Txs : b.rows[y].status = "confirmed" <=> \E h \in 1..n : Contains(s[h].txs, y)
    BY DEF Carried
  <1> QED  BY <1>1 DEF ConfirmedOf, Spent

(* The wallets agree with the whole chain.                                 *)
LEMMA WholeAgrees ==
    ASSUME NEW b, NEW s, Whole(b, s), NEW n \in Nat, n = Len(s)
    PROVE  Agrees(b, Shown(s, n), n) /\ NoncesHold(b) /\ Kept(b)
  <1>1. s \in Seq(ChainRows) /\ Kept(b) /\ Booked(b, n + 1) /\ Carried(s, b) /\ Held(b.ledger, s) /\ Numbered(s)
    BY DEF Whole, Sane
  <1>2. NoncesHold(b)
    BY <1>1, CarriedHolds
  <1>3. ASSUME NEW w \in Wallets
        PROVE  /\ b.balances[w] = Premine[w] + Earned(Shown(s, n), w) + Bonus(Shown(s, n), w, n)
               /\ b.nonces[w] = Used(Shown(s, n), w)
    <2>1. n \in 0..Len(s) /\ w \in Accounts
      BY WalletsAreAccounts
    <2>2. b.balances[w] = Below(b.ledger, EntryTypes, {w}, n + 1)
      BY <1>1, <2>1 DEF Booked
    <2>3. Below(b.ledger, EntryTypes, {w}, n + 1)
            = Premine[w] + Earned(Shown(s, n), w) + Bonus(Shown(s, n), w, n)
      BY <1>1, <2>1 DEF Held
    <2>4. b.nonces[w] = MaxOr0(ConfirmedOf(b, w))
      BY <1>1 DEF Carried
    <2>5. ConfirmedOf(b, w) = Spent(s, n, w)
      BY <1>1, CarriedSpent
    <2>6. MaxOr0(Spent(s, n, w)) = Used(Shown(s, n), w)
      BY <1>1, <2>1 DEF Numbered
    <2> QED  BY <2>2, <2>3, <2>4, <2>5, <2>6
  <1>4. Agrees(b, Shown(s, n), n)
    BY <1>3 DEF Agrees
  <1> QED  BY <1>1, <1>2, <1>4

(* Extends for a whole chain: s2 is s and one block more. *)
LEMMA WholeGrows ==
    ASSUME NEW b, NEW s, Whole(b, s), NEW n \in Nat, n = Len(s), NEW h, h = n + 1,
           NEW id \in BlockIds, NEW txs \in Seq(Txs),
           NEW s2 \in Seq(ChainRows), Extends(s, n, s2, h, id), s2[h].txs = txs,
           NEW q, Built(b, txs, id, h, q).ok,
           NEW c, c = Built(b, txs, id, h, q).books
    PROVE  /\ Whole(c, s2)
           /\ \A i \in 1..Len(txs) :
                 Follow(Shown(s, n), Miner[id], SubSeq(txs, 1, i - 1), txs[i], TopOf(n))
  <1> DEFINE old == Shown(s, n)
             new == Shown(s2, h)
             no  == FALSE
  <1>1. /\ s \in Seq(ChainRows) /\ Sane(b, h) /\ Ledgered(b, s) /\ Carried(s, b)
        /\ Held(b.ledger, s) /\ Numbered(s)
    BY DEF Whole
  <1>2. /\ Agrees(b, old, n) /\ NoncesHold(b) /\ Kept(b)
    BY WholeAgrees
  <1>3. /\ old \in Histories /\ Len(old) = n /\ \A k \in 1..n : old[k].miner = Miner[s[k].id]
    <2>1. n \in 0..Len(s)
      OBVIOUS
    <2> QED  BY <1>1, <2>1, ShownTyped
  <1>4. h \in Nat \ {0} /\ h \in Int /\ Len(s2) = h /\ id = s2[h].id /\ \A k \in 1..n : s2[k] = s[k]
    BY DEF Extends
  <1> HIDE DEF old
  <1>5. /\ Agrees(c, With(old, Miner[id], txs), h)
        /\ \A i \in 1..Len(txs) : Follow(old, Miner[id], SubSeq(txs, 1, i - 1), txs[i], TopOf(n))
    <2>1. /\ Agrees(Built(b, txs, id, h, q).books, With(old, Miner[id], txs), h)
          /\ \A i \in 1..Len(txs) : Follow(old, Miner[id], SubSeq(txs, 1, i - 1), txs[i], TopOf(n))
      BY <1>1, <1>2, <1>3, <1>4, BuiltPays
    <2> QED  BY <2>1
  <1>6. new = With(old, Miner[id], txs)
    <2>1. Shown(s2, h) = With(Shown(s, n), Miner[id], s2[h].txs)
      BY <1>1, ShownLonger
    <2> QED  BY <2>1 DEF old
  <1> HIDE DEF new
  <1> DEFINE B == Block(b, txs, Miner[id], h, id, q, no)
  <1>0. B.ok /\ c = B.books
    BY DEF Built
  <1> HIDE DEF no, B
  <1>7. Ledgered(c, s2)
    <2>1. Ledgered(B.books, s2)
      BY <1>0, <1>1, <1>2, <1>4, BlockLedgered DEF B
    <2> QED  BY <1>0, <2>1
  <1>8. Sane(c, h + 1)
    <2>1. Sane(B.books, h + 1)
      BY <1>0, <1>1, <1>4, BlockSolvent DEF B
    <2> QED  BY <1>0, <2>1
  <1>9. Since(b, c, h)
    <2>1. Booked(b, h) /\ Solvent(b) /\ DOMAIN b.fund = FundFields
      BY <1>1 DEF Sane
    <2>2. Afloat(b)
      BY <1>4, <2>1, SolventIsAfloat
    <2> DEFINE j == h + 1
    <2>3. h \in Int /\ j \in Int /\ h <= j
      BY <1>4
    <2> HIDE DEF j
    <2>4. Booked(b, j)
      BY <2>1, <2>3, BookedHigher
    <2>5. Booked(b, h + 1)
      BY <2>4 DEF j
    <2>6. Since(b, B.books, h)
      BY <1>0, <1>2, <1>4, <2>1, <2>2, <2>5, BlockSince DEF B
    <2> QED  BY <1>0, <2>6
  <1>10. Carried(s2, c)
    <2>0. Advanced(b, B.books, ToSet(txs), h)
      BY <1>0, <1>2, <1>4, BlockAdvances DEF B
    <2>1. Advanced(b, c, ToSet(txs), h)
      BY <1>0, <2>0
    <2>2. /\ Len(s) \in Nat /\ Len(s2) = Len(s) + 1 /\ \A k \in 1..Len(s) : s2[k] = s[k]
          /\ s2[Len(s) + 1].txs = txs
      BY <1>4
    <2>3. Advanced(b, c, ToSet(txs), Len(s) + 1)
      BY <2>1
    <2> QED  BY <1>1, <1>2, <2>2, <2>3, CarriedByBlock
  <1>11. ASSUME NEW k \in 0..n  PROVE Shown(s2, k) = Shown(s, k) /\ \A w : Spent(s2, k, w) = Spent(s, k, w)
    <2>1. k \in Nat /\ \A i \in 1..k : s2[i] = s[i]
      BY <1>4
    <2> QED  BY <2>1, ShownAlike, ZenonT(40)
  <1>12. Held(c.ledger, s2)
    <2> SUFFICES ASSUME NEW k \in 0..h, NEW w \in Wallets
                 PROVE  Below(c.ledger, EntryTypes, {w}, k + 1)
                          = Premine[w] + Earned(Shown(s2, k), w) + Bonus(Shown(s2, k), w, k)
      BY <1>4 DEF Held
    <2> DEFINE mine == {w}
    <2>1. w \in Accounts
      BY WalletsAreAccounts
    <2>2. CASE k \in 0..n
      <3>1. Below(b.ledger, EntryTypes, {w}, k + 1)
              = Premine[w] + Earned(Shown(s, k), w) + Bonus(Shown(s, k), w, k)
        BY <1>1, <2>2 DEF Held
      <3>2. k + 1 \in Int /\ k + 1 <= h
        BY <2>2
      <3>3. Below(c.ledger, EntryTypes, {w}, k + 1) = Below(b.ledger, EntryTypes, {w}, k + 1)
        BY <1>9, <2>1, <3>2 DEF Since
      <3> QED  BY <1>11, <2>2, <3>1, <3>3
    <2>3. CASE k = h
      <3>1. c.balances[w] = Below(c.ledger, EntryTypes, {w}, h + 1)
        BY <1>9, <2>1 DEF Since, Booked
      <3>2. c.balances[w] = Premine[w] + Earned(new, w) + Bonus(new, w, h)
        BY <1>5, <1>6 DEF Agrees
      <3> HIDE DEF mine
      <3>3. Below(c.ledger, EntryTypes, mine, h + 1) = Premine[w] + Earned(new, w) + Bonus(new, w, h)
        BY <3>1, <3>2 DEF mine
      <3>4. Below(c.ledger, EntryTypes, mine, k + 1) = Premine[w] + Earned(Shown(s2, k), w) + Bonus(Shown(s2, k), w, k)
        BY <2>3, <3>3 DEF new
      <3> QED  BY <3>4 DEF mine
    <2> QED  BY <2>2, <2>3
  <1>13. Numbered(s2)
    <2> SUFFICES ASSUME NEW k \in 0..h, NEW w \in Wallets
                 PROVE  MaxOr0(Spent(s2, k, w)) = Used(Shown(s2, k), w)
      BY <1>4 DEF Numbered
    <2>1. CASE k \in 0..n
      <3>1. MaxOr0(Spent(s, k, w)) = Used(Shown(s, k), w)
        BY <1>1, <2>1 DEF Numbered
      <3> QED  BY <1>11, <2>1, <3>1
    <2>2. CASE k = h
      <3>1. c.nonces[w] = MaxOr0(ConfirmedOf(c, w))
        BY <1>10 DEF Carried
      <3>2. ConfirmedOf(c, w) = Spent(s2, h, w)
        <4>1. h = Len(s2)
          BY <1>4
        <4> QED  BY <1>10, <4>1, CarriedSpent
      <3>3. c.nonces[w] = Used(new, w)
        BY <1>5, <1>6 DEF Agrees
      <3> QED  BY <2>2, <3>1, <3>2, <3>3 DEF new
    <2> QED  BY <2>1, <2>2
  <1>14. Whole(c, s2)
    BY <1>4, <1>7, <1>8, <1>10, <1>12, <1>13 DEF Whole
  <1> QED  BY <1>5, <1>14 DEF old

(* Rows of the mempool are not what the chain says. *)
LEMMA WholeRows ==
    ASSUME NEW b, NEW s, Whole(b, s), NEW c, Kept(c), Carried(s, c), SameLedger(b, c)
    PROVE  Whole(c, s)
  <1> DEFINE k == Len(s) + 1
  <1>1. /\ s \in Seq(ChainRows) /\ Sane(b, k) /\ Ledgered(b, s) /\ Held(b.ledger, s) /\ Numbered(s)
    BY DEF Whole
  <1> HIDE DEF k
  <1>2. Ledgered(c, s)
    BY <1>1, LedgeredStays
  <1>3. Solvent(c)
    BY <1>1, SolventStays DEF Sane
  <1>4. Sane(c, k)
    BY <1>1, <1>3 DEF Sane, SameLedger, Booked
  <1>5. Held(c.ledger, s)
    BY <1>1 DEF SameLedger
  <1> QED  BY <1>1, <1>2, <1>4, <1>5 DEF Whole, k

(* What is imported is what was built elsewhere. *)
LEMMA ImportedIsBuilt ==
    ASSUME NEW b, NEW f \in Foreign, NEW h, Buildable(b, f, h)
    PROVE  Imported(b, f, h) = Built(Ensured(b, Payload[f]), Payload[f], f, h, quarter).books
  <1> DEFINE txs == Payload[f]
             e   == Ensured(b, txs)
             m   == Miner[f]
             yes == TRUE
             c   == Block(e, txs, m, h, f, quarter, FALSE)
             r   == Block(e, txs, m, h, f, quarter, yes)
  <1>1. txs \in Seq(Txs)
    BY BlocksAssumption
  <1>2. c.ok /\ Imported(b, f, h) = r.books
    BY DEF Buildable, ForeignBlock, Imported
  <1> HIDE DEF txs, e, m, yes
  <1>3. r = c
    BY <1>1, <1>2, BlockReplays
  <1> QED  BY <1>2, <1>3 DEF Built, e, txs, m

LEMMA ForeignWhole ==
    ASSUME NEW b, NEW s, Whole(b, s), NEW n \in Nat, n = Len(s), NEW h, h = n + 1,
           NEW f \in Foreign, Buildable(b, f, h), NEW txs, txs = Payload[f],
           NEW s2 \in Seq(ChainRows), Extends(s, n, s2, h, f), s2[h].txs = txs
    PROVE  /\ Whole(Imported(b, f, h), s2)
           /\ \A i \in 1..Len(txs) :
                 Follow(Shown(s, n), Miner[f], SubSeq(txs, 1, i - 1), txs[i], TopOf(n))
  <1> DEFINE e   == Ensured(b, txs)
             B   == Built(e, txs, f, h, quarter)
             c   == Imported(b, f, h)
  <1>1. txs \in Seq(Txs) /\ f \in BlockIds /\ h \in Nat
    BY ForeignIsNoTask
  <1>2. Kept(b) /\ Carried(s, b) /\ DOMAIN b = Columns
    BY DEF Whole, Sane, Kept
  <1>3. Kept(e) /\ Carried(s, e)
    <2>1. LET d == Ensured(b, Payload[f])
          IN  /\ Kept(d) /\ Carried(s, d)
              /\ Advanced(d, Imported(b, f, h), ToSet(Payload[f]), h)
              /\ Kept(Imported(b, f, h)) /\ NoNewOwners(b, Imported(b, f, h))
      BY <1>1, <1>2, ForeignAdvances
    <2> QED  BY <2>1
  <1>4. SameLedger(b, e)
    BY <1>2, RowsLeaveLedger
  <1>5. B.ok
    BY DEF Buildable, ForeignBlock, Built
  <1>6. c = B.books
    BY ImportedIsBuilt
  <1> HIDE DEF e, B, c
  <1>7. Whole(e, s)
    BY <1>3, <1>4, WholeRows
  <1>8. /\ Whole(c, s2)
        /\ \A i \in 1..Len(txs) :
              Follow(Shown(s, n), Miner[f], SubSeq(txs, 1, i - 1), txs[i], TopOf(n))
    BY <1>1, <1>5, <1>6, <1>7, WholeGrows DEF B
  <1> QED  BY <1>8 DEF c

LEMMA UndoneWhole ==
    ASSUME NEW b, NEW s, Whole(b, s), NEW n \in Nat \ {0}, n = Len(s),
           NEW s1 \in Seq(ChainRows), Len(s1) = n - 1, \A k \in 1..(n - 1) : s1[k] = s[k]
    PROVE  Whole(WithoutBlock(b, n), s1)
  <1> DEFINE c == WithoutBlock(b, n)
             j == n + 1
  <1>1. /\ Sane(b, j) /\ Ledgered(b, s) /\ Carried(s, b) /\ Held(b.ledger, s) /\ Numbered(s)
        /\ j \in Int /\ n \in Int
    BY DEF Whole
  <1> HIDE DEF j
  <1>2. Kept(c) /\ Carried(s1, c)
    <2>1. Len(s) \in Nat \ {0} /\ Len(s1) = Len(s) - 1 /\ \A k \in 1..Len(s1) : s1[k] = s[k]
      OBVIOUS
    <2>2. Kept(WithoutBlock(b, Len(s))) /\ Carried(s1, WithoutBlock(b, Len(s)))
      BY <1>1, <2>1, UndoneKeeps DEF Sane
    <2> QED  BY <2>2
  <1>3. Ledgered(c, s1)
    BY <1>1, UndoneLedgered DEF Sane
  <1>4. Booked(c, n) /\ Solvent(c) /\ DOMAIN c.fund = FundFields
    BY <1>1, UndoneSolvent DEF Sane
  <1>5. c.ledger = LedgerWithout(b, n)
    BY DEF WithoutBlock
  <1>6. b.ledger \in Seq(LedgerRows)
    BY <1>1 DEF Sane, Booked
  <1> HIDE DEF c
  <1>7. ASSUME NEW k \in 0..(n - 1)
        PROVE  /\ k \in 0..Len(s)
               /\ Shown(s1, k) = Shown(s, k) /\ \A w : Spent(s1, k, w) = Spent(s, k, w)
    <2>1. k \in Nat /\ \A i \in 1..k : s1[i] = s[i]
      OBVIOUS
    <2> QED  BY <2>1, ShownAlike
  <1>8. Held(c.ledger, s1)
    <2> SUFFICES ASSUME NEW k \in 0..(n - 1), NEW w \in Wallets
                 PROVE  Below(c.ledger, EntryTypes, {w}, k + 1)
                          = Premine[w] + Earned(Shown(s1, k), w) + Bonus(Shown(s1, k), w, k)
      BY DEF Held
    <2> DEFINE mine == {w}
               l    == k + 1
    <2>1. l \in Int /\ Lower(l, n) = l
      BY DEF Lower
    <2>2. Below(b.ledger, EntryTypes, mine, l)
            = Premine[w] + Earned(Shown(s, k), w) + Bonus(Shown(s, k), w, k)
      BY <1>1, <1>7 DEF Held
    <2> HIDE DEF mine, l
    <2>3. Below(c.ledger, EntryTypes, mine, l) = Below(b.ledger, EntryTypes, mine, Lower(l, n))
      BY <1>1, <1>5, <1>6, <2>1, LedgerWithoutSums
    <2>4. Below(c.ledger, EntryTypes, mine, l)
            = Premine[w] + Earned(Shown(s1, k), w) + Bonus(Shown(s1, k), w, k)
      BY <1>7, <2>1, <2>2, <2>3
    <2> QED  BY <2>4 DEF mine, l
  <1>9. Numbered(s1)
    <2> SUFFICES ASSUME NEW k \in 0..(n - 1), NEW w \in Wallets
                 PROVE  MaxOr0(Spent(s1, k, w)) = Used(Shown(s1, k), w)
      BY DEF Numbered
    <2>1. MaxOr0(Spent(s, k, w)) = Used(Shown(s, k), w)
      BY <1>1, <1>7 DEF Numbered
    <2> QED  BY <1>7, <2>1
  <1>10. Sane(c, Len(s1) + 1)
    <2>1. Len(s1) + 1 = n
      OBVIOUS
    <2> QED  BY <1>2, <1>4, <2>1 DEF Sane
  <1>11. Whole(c, s1)
    BY <1>2, <1>3, <1>8, <1>9, <1>10 DEF Whole
  <1> QED  BY <1>11 DEF c

LEMMA ShownPrefix ==
    ASSUME NEW s \in Seq(ChainRows), NEW m \in 0..Len(s), NEW k \in 0..m
    PROVE  SubSeq(Shown(s, m), 1, k) = Shown(s, k)
  <1> DEFINE R == [miner : Wallets, txs : Seq(Txs)]
             c == Shown(s, m)
             d == Shown(s, k)
  <1>1. c \in Seq(R) /\ Len(c) = m
    BY ShownTyped DEF Histories
  <1>2. d \in Seq(R) /\ Len(d) = k
    <2>1. k \in 0..Len(s)
      BY ChainRowsTyped
    <2> QED  BY <2>1, ShownTyped DEF Histories
  <1>3. \A i \in 1..k : d[i] = c[i]
    BY DEF Shown
  <1> HIDE DEF c, d, R
  <1>4. SubSeq(c, 1, k) \in Seq(R) /\ Len(SubSeq(c, 1, k)) = k /\ \A i \in 1..k : SubSeq(c, 1, k)[i] = c[i]
    BY <1>1
  <1>5. SubSeq(c, 1, k) = d
    BY <1>2, <1>3, <1>4
  <1> QED  BY <1>5 DEF c, d

(* The transactions of a block of m follow on c: next nonces, covered.       *)
Fitting(c, m, txs, height) ==
    \A i \in 1..Len(txs) : Follow(c, m, SubSeq(txs, 1, i - 1), txs[i], height)

(* One block more, as the wallets see it. *)
LEMMA ShownFits ==
    ASSUME NEW s \in Seq(ChainRows), NEW n \in Nat, n = Len(s), NEW h, h = n + 1,
           NEW s2 \in Seq(ChainRows), NEW id \in BlockIds, Extends(s, n, s2, h, id),
           NEW txs \in Seq(Txs), s2[h].txs = txs,
           Fitting(Shown(s, n), Miner[id], txs, TopOf(n))
    PROVE  /\ Len(Shown(s2, h)) = h /\ SubSeq(Shown(s2, h), 1, n) = Shown(s, n)
           /\ Payments!Valid(Shown(s, n), Shown(s2, h)[h])
  <1> DEFINE m == Miner[id]
             c == Shown(s, n)
             e == [miner |-> m, txs |-> txs]
  <1>1. /\ Len(s2) = h /\ id = s2[h].id /\ \A i \in 1..n : s2[i] = s[i]
    BY DEF Extends
  <1>2. m \in Wallets
    BY BlocksAssumption DEF BlockIds
  <1>3. c \in Histories /\ Len(c) = n
    <2>1. n \in 0..Len(s)
      OBVIOUS
    <2> QED  BY <2>1, ShownTyped
  <1>4. Len(Shown(s2, h)) = h
    <2>1. h \in 0..Len(s2)
      BY <1>1
    <2> QED  BY <2>1, ShownTyped
  <1>5. SubSeq(Shown(s2, h), 1, n) = c
    <2>1. h \in 0..Len(s2) /\ n \in 0..h
      BY <1>1
    <2>2. SubSeq(Shown(s2, h), 1, n) = Shown(s2, n)
      BY <2>1, ShownPrefix
    <2> QED  BY <1>1, <2>2, ShownAlike
  <1>6. Shown(s2, h)[h] = e
    BY <1>1 DEF Shown
  <1> HIDE DEF c, m
  <1>7. \A i \in 1..Len(txs) : Follow(c, m, SubSeq(txs, 1, i - 1), txs[i], TopOf(n))
    BY DEF Fitting, c, m
  <1>8. Payments!Valid(c, e)
    BY <1>2, <1>3, <1>7, FollowsAreValid
  <1> QED  BY <1>4, <1>5, <1>6, <1>8 DEF c

(* What the wallets hold. *)
Purse(b) == [w \in Wallets |-> b.balances[w]]

LEMMA PurseIsBalances ==
    ASSUME NEW b, NEW s, Whole(b, s), NEW n \in Nat, n = Len(s)
    PROVE  Purse(b) = Payments!Balances(Shown(s, n))
  <1> DEFINE c == Shown(s, n)
  <1>1. Agrees(b, c, n)
    BY WholeAgrees
  <1>2. c \in Histories /\ Len(c) = n
    <2>1. s \in Seq(ChainRows) /\ n \in 0..Len(s)
      BY DEF Whole
    <2> QED  BY <2>1, ShownTyped
  <1> HIDE DEF c
  <1>3. ASSUME NEW w \in Wallets  PROVE b.balances[w] = Payments!Holds(c, w, Len(c))
    BY <1>1, <1>2, HoldsIn DEF Agrees
  <1>4. Purse(b) = Payments!Balances(c)
    BY <1>3 DEF Purse, Payments!Balances
  <1> QED  BY <1>4 DEF c

(* Payments!Next from the blocks c to d, with those balances.               *)
Pays(c, d, purse) ==
    LET last == Len(d)
    IN  /\ d # c /\ last > 0
        /\ purse = Payments!Balances(d)
        /\ Payments!Valid(SubSeq(d, 1, last - 1), d[last])
        /\ \/ SubSeq(d, 1, last - 1) = c
           \/ /\ last = Len(c) + 1 /\ last > 1
              /\ SubSeq(d, 1, last - 2) = SubSeq(c, 1, last - 2)
              /\ Payments!Valid(SubSeq(d, 1, last - 2), d[last - 1])

LEMMA GrowthPays ==
    ASSUME NEW s \in Seq(ChainRows), NEW n \in Nat, Len(s) = n, NEW h, h = n + 1,
           NEW s2 \in Seq(ChainRows), NEW id \in BlockIds, Extends(s, n, s2, h, id),
           NEW txs \in Seq(Txs), s2[h].txs = txs,
           Fitting(Shown(s, n), Miner[id], txs, TopOf(n)),
           NEW b, Whole(b, s2)
    PROVE  Pays(Shown(s, n), Shown(s2, h), Purse(b))
  <1> DEFINE c == Shown(s, n)
             d == Shown(s2, h)
  <1>1. Len(d) = h /\ SubSeq(d, 1, n) = c /\ Payments!Valid(c, d[h])
    <2>1. n = Len(s)
      OBVIOUS
    <2> QED  BY <2>1, ShownFits
  <1>2. Len(c) = n
    <2>1. n \in 0..Len(s)
      OBVIOUS
    <2> QED  BY <2>1, ShownTyped
  <1>3. Purse(b) = Payments!Balances(d)
    <2>1. h \in Nat /\ h = Len(s2)
      BY DEF Extends
    <2> QED  BY <2>1, PurseIsBalances
  <1> HIDE DEF c, d
  <1>4. d # c /\ h > 0 /\ h - 1 = n
    BY <1>1, <1>2
  <1>5. Pays(c, d, Purse(b))
    BY <1>1, <1>3, <1>4 DEF Pays
  <1> QED  BY <1>5 DEF c, d

(* The tip gives way to a sibling and its child. *)
LEMMA BranchPays ==
    ASSUME NEW s \in Seq(ChainRows), NEW n \in Nat \ {0}, n = Len(s), NEW k, k = n - 1,
           NEW s0 \in Seq(ChainRows), Len(s0) = k, \A i \in 1..k : s0[i] = s[i],
           NEW s1 \in Seq(ChainRows), NEW p \in BlockIds, Extends(s0, k, s1, n, p),
           NEW us \in Seq(Txs), s1[n].txs = us,
           Fitting(Shown(s0, k), Miner[p], us, TopOf(k)),
           NEW h, h = n + 1, NEW s2 \in Seq(ChainRows), NEW f \in BlockIds, Extends(s1, n, s2, h, f),
           NEW vs \in Seq(Txs), s2[h].txs = vs,
           Fitting(Shown(s1, n), Miner[f], vs, TopOf(n)),
           NEW b, Whole(b, s2)
    PROVE  Pays(Shown(s, n), Shown(s2, h), Purse(b))
  <1> DEFINE c  == Shown(s, n)
             c0 == Shown(s0, k)
             c1 == Shown(s1, n)
             d  == Shown(s2, h)
  <1>1. k \in Nat /\ n = k + 1 /\ n \in Nat /\ n \in 0..Len(s) /\ k \in 0..n
    OBVIOUS
  <1>2. Len(c1) = n /\ SubSeq(c1, 1, k) = c0 /\ Payments!Valid(c0, c1[n])
    BY <1>1, ShownFits
  <1>3. Len(s1) = n /\ Len(s2) = h
    BY DEF Extends
  <1>4. Len(d) = h /\ SubSeq(d, 1, n) = c1 /\ Payments!Valid(c1, d[h])
    BY <1>1, <1>3, ShownFits
  <1>5. Len(c) = n
    BY <1>1, ShownTyped
  <1>6. SubSeq(c, 1, k) = c0
    <2>1. SubSeq(c, 1, k) = Shown(s, k)
      BY <1>1, ShownPrefix
    <2>2. Shown(s, k) = Shown(s0, k)
      BY <1>1, ShownAlike
    <2> QED  BY <2>1, <2>2
  <1>7. SubSeq(d, 1, k) = c0 /\ d[n] = c1[n]
    <2>1. h \in 0..Len(s2) /\ k \in 0..h /\ n \in 1..h /\ n \in 1..n
      BY <1>1, <1>3
    <2>2. SubSeq(d, 1, k) = Shown(s2, k)
      BY <2>1, ShownPrefix
    <2>3. \A i \in 1..n : s2[i] = s1[i]
      BY DEF Extends
    <2>4. \A i \in 1..k : s2[i] = s0[i]
      BY <1>1, <2>3 DEF Extends
    <2>5. Shown(s2, k) = Shown(s0, k)
      BY <1>1, <2>4, ShownAlike
    <2>6. d[n] = c1[n]
      BY <2>1, <2>3 DEF Shown
    <2> QED  BY <2>2, <2>5, <2>6
  <1>8. Purse(b) = Payments!Balances(d)
    <2>1. h \in Nat /\ h = Len(s2)
      BY <1>3
    <2> QED  BY <2>1, PurseIsBalances
  <1> HIDE DEF c, c0, c1, d
  <1>9. d # c /\ h > 1 /\ h - 1 = n /\ h - 2 = k
    BY <1>1, <1>4, <1>5
  <1>10. Pays(c, d, Purse(b))
    <2>1. Len(d) = h /\ h = Len(c) + 1 /\ h > 1 /\ d # c /\ Purse(b) = Payments!Balances(d)
      BY <1>4, <1>5, <1>8, <1>9
    <2>2. Payments!Valid(SubSeq(d, 1, n), d[h]) /\ Payments!Valid(SubSeq(d, 1, k), d[n])
          /\ SubSeq(d, 1, k) = SubSeq(c, 1, k)
      BY <1>2, <1>4, <1>6, <1>7
    <2> QED  BY <1>9, <2>1, <2>2 DEF Pays
  <1> QED  BY <1>10 DEF c, d

(* The ledger and the nonces follow the chain, at every height. *)
PayInv == Held(books.ledger, chain) /\ Numbered(chain)

LEMMA BooksAreWhole ==
    ASSUME ExecInv, LedgerInv, PursesInv, PayInv
    PROVE  Whole(books, chain) /\ chain \in Seq(ChainRows)
  <1>1. Sane(books, Height + 1) /\ Height = Len(chain) /\ chain \in Seq(ChainRows)
    BY BooksAreSane
  <1> QED  BY <1>1 DEF Whole, LedgerInv, ExecInv, PayInv

LEMMA EmptyHistory ==
    ASSUME NEW s, NEW w
    PROVE  Earned(Shown(s, 0), w) = 0 /\ Used(Shown(s, 0), w) = 0 /\ Bonus(Shown(s, 0), w, 0) = 0
  <1> DEFINE c == Shown(s, 0)
  <1>1. DOMAIN c = {}
    BY DEF Shown
  <1> HIDE DEF c
  <1>2. Positions(c) = {} /\ Mined(c, w, 0) = {}
    BY <1>1 DEF Positions, Payments!Positions, Mined
  <1>3. Payments!Executed(c, w) = {}
    BY <1>2, ExecutedIs
  <1>4. Earned(c, w) = 0
    BY <1>2, SumEmpty DEF Earned
  <1>5. Used(c, w) = 0 /\ Bonus(c, w, 0) = 0
    BY <1>2, <1>3, FS_EmptySet, DepthTyped DEF Used, Bonus
  <1> QED  BY <1>4, <1>5 DEF c

LEMMA PaidInitially == Init => PayInv
  <1> SUFFICES ASSUME Init  PROVE PayInv
    OBVIOUS
  <1>1. books = InitialBooks /\ chain = << >> /\ Len(chain) = 0
    BY DEF Init
  <1>2. Booked(books, 0 + 1)
    <2>1. Booked(books, Len(<< >>) + 1)
      BY <1>1, InitiallyLedgered DEF Ledgered
    <2> QED  BY <2>1
  <1>3. ASSUME NEW w \in Wallets
        PROVE  /\ Below(books.ledger, EntryTypes, {w}, 0 + 1) = Premine[w] /\ Premine[w] \in Int
               /\ MaxOr0(Spent(chain, 0, w)) = 0
    <2>1. books.balances[w] = Below(books.ledger, EntryTypes, {w}, 0 + 1)
      BY <1>2, WalletsAreAccounts DEF Booked
    <2>2. books.balances[w] = Premine[w] /\ Premine[w] \in Nat
      BY <1>1, WalletsAreAccounts, BooksAssumption DEF InitialBooks
    <2>3. Spent(chain, 0, w) = {}
      BY DEF Spent
    <2>4. MaxOr0({}) = 0
      BY MaxOr0Is
    <2> QED  BY <2>1, <2>2, <2>3, <2>4
  <1>4. Held(books.ledger, chain)
    <2> SUFFICES ASSUME NEW w \in Wallets
                 PROVE  Below(books.ledger, EntryTypes, {w}, 0 + 1)
                          = Premine[w] + Earned(Shown(chain, 0), w) + Bonus(Shown(chain, 0), w, 0)
      BY <1>1 DEF Held
    <2> QED  BY <1>3, EmptyHistory
  <1>5. Numbered(chain)
    <2> SUFFICES ASSUME NEW w \in Wallets  PROVE MaxOr0(Spent(chain, 0, w)) = Used(Shown(chain, 0), w)
      BY <1>1 DEF Numbered
    <2> QED  BY <1>3, EmptyHistory
  <1> QED  BY <1>4, <1>5 DEF PayInv

LEMMA WholePays ==
    \A b, s : Whole(b, s) => Held(b.ledger, s) /\ Numbered(s)
  BY DEF Whole

(* What the chain is to the wallets. *)
Seen(s) == [i \in DOMAIN s |-> [miner |-> Miner[s[i].id], txs |-> s[i].txs]]

LEMMA SeenIsShown ==
    ASSUME NEW s \in Seq(ChainRows)
    PROVE  Seen(s) = Shown(s, Len(s))
  BY DEF Seen, Shown

LEMMA AcceptPays ==
    ASSUME ExecInv, LedgerInv, PursesInv, PayInv, NEW t \in Tasks, AcceptBlock(t),
           NEW s2 \in Seq(ChainRows), s2 = chain', Distinct(s2), Named(s2)
    PROVE  Whole(books', s2) /\ Pays(Seen(chain), Seen(s2), Purse(books'))
  <1> DEFINE s    == chain
             n    == Len(s)
             h    == n + 1
             txs  == Loaded(t)
             B    == Built(books, txs, t, h, quarter)
             done == B.books
             b    == Released(done, Rivalry(t))
  <1>1. Whole(books, s) /\ s \in Seq(ChainRows) /\ n \in Nat
    BY BooksAreWhole
  <1>2. /\ s2 = Append(s, [id |-> t, txs |-> txs]) /\ books' = b /\ B.ok
    BY DEF AcceptBlock, Finalizable, LocalBlock, Built, Height
  <1>3. txs \in Seq(Txs) /\ t \in BlockIds
    BY LoadedTyped DEF ExecInv, BlockIds
  <1> HIDE DEF txs
  <1>4. Len(s2) = h /\ s2[h].id = t /\ s2[h].txs = txs /\ \A k \in 1..n : s2[k] = s[k]
    BY <1>1, <1>2
  <1>5. Extends(s, n, s2, h, t)
    BY <1>4 DEF Extends
  <1> HIDE DEF s, n, h, B, b, done
  <1>6. n = Len(s) /\ h = n + 1
    BY DEF n, h
  <1>7. /\ Whole(done, s2)
        /\ \A i \in 1..Len(txs) : Follow(Shown(s, n), Miner[t], SubSeq(txs, 1, i - 1), txs[i], TopOf(n))
    BY <1>1, <1>2, <1>3, <1>4, <1>5, <1>6, WholeGrows DEF B, done
  <1>8. Whole(b, s2)
    <2>1. Kept(done) /\ Carried(s2, done) /\ DOMAIN done = Columns
      BY <1>7 DEF Whole, Sane, Kept
    <2>2. Kept(b) /\ SameConfirmed(done, b)
      BY <2>1, ReleasedKeeps DEF b
    <2>3. SameLedger(done, b)
      BY <2>1, RowsLeaveLedger DEF b
    <2>4. Carried(s2, b)
      BY <2>1, <2>2, CarriedOver
    <2> QED  BY <1>7, <2>2, <2>3, <2>4, WholeRows
  <1>9. Pays(Shown(s, n), Shown(s2, h), Purse(b))
    <2>1. Fitting(Shown(s, n), Miner[t], txs, TopOf(n))
      BY <1>7 DEF Fitting
    <2> QED  BY <1>1, <1>3, <1>4, <1>5, <1>6, <1>8, <2>1, GrowthPays
  <1>10. Seen(s) = Shown(s, n) /\ Seen(s2) = Shown(s2, h)
    BY <1>1, <1>4, <1>6, SeenIsShown
  <1> QED  BY <1>2, <1>8, <1>9, <1>10 DEF s

LEMMA ImportPays ==
    ASSUME ExecInv, LedgerInv, PursesInv, PayInv, NEW f \in Foreign, Import(f),
           NEW s2 \in Seq(ChainRows), s2 = chain', Distinct(s2), Named(s2)
    PROVE  Whole(books', s2) /\ Pays(Seen(chain), Seen(s2), Purse(books'))
  <1> DEFINE s    == chain
             n    == Len(s)
             h    == n + 1
             txs  == Payload[f]
             b    == Imported(books, f, h)
  <1>1. Whole(books, s) /\ s \in Seq(ChainRows) /\ n \in Nat
    BY BooksAreWhole
  <1>2. /\ s2 = Append(s, [id |-> f, txs |-> txs]) /\ books' = b /\ Buildable(books, f, h)
    BY DEF Import, NewBlock, Height
  <1>3. txs \in Seq(Txs) /\ f \in BlockIds
    BY ForeignIsNoTask
  <1> HIDE DEF txs
  <1>4. Len(s2) = h /\ s2[h].id = f /\ s2[h].txs = txs /\ \A k \in 1..n : s2[k] = s[k]
    BY <1>1, <1>2
  <1>5. Extends(s, n, s2, h, f)
    BY <1>4 DEF Extends
  <1> HIDE DEF s, n, h, b
  <1>6. n = Len(s) /\ h = n + 1 /\ txs = Payload[f]
    BY DEF n, h, txs
  <1>7. /\ Whole(b, s2)
        /\ \A i \in 1..Len(txs) : Follow(Shown(s, n), Miner[f], SubSeq(txs, 1, i - 1), txs[i], TopOf(n))
    BY <1>1, <1>2, <1>4, <1>5, <1>6, ForeignWhole DEF b
  <1>9. Pays(Shown(s, n), Shown(s2, h), Purse(b))
    <2>1. Whole(b, s2) /\ Fitting(Shown(s, n), Miner[f], txs, TopOf(n))
      BY <1>7 DEF Fitting
    <2> QED  BY <1>1, <1>3, <1>4, <1>5, <1>6, <2>1, GrowthPays
  <1>10. Seen(s) = Shown(s, n) /\ Seen(s2) = Shown(s2, h)
    BY <1>1, <1>4, <1>6, SeenIsShown
  <1> QED  BY <1>2, <1>7, <1>9, <1>10 DEF s

LEMMA BelowTheTip ==
    ASSUME NEW s \in Seq(ChainRows), Len(s) > 0
    PROVE  LET k  == Len(s) - 1
               s0 == SubSeq(s, 1, k)
           IN  s0 \in Seq(ChainRows) /\ Len(s0) = k /\ \A i \in 1..k : s0[i] = s[i]
  <1> DEFINE k == Len(s) - 1
  <1>1. k \in Nat /\ k <= Len(s) /\ Len(s) \in Nat
    OBVIOUS
  <1> HIDE DEF k
  <1>2. /\ SubSeq(s, 1, k) \in Seq(ChainRows) /\ Len(SubSeq(s, 1, k)) = k
        /\ \A i \in 1..k : SubSeq(s, 1, k)[i] = s[i]
    BY <1>1
  <1> QED  BY <1>2 DEF k

LEMMA ReorgPays ==
    ASSUME ExecInv, LedgerInv, PursesInv, PayInv, NEW p \in Foreign, NEW f \in Foreign, Reorg(p, f),
           NEW s2 \in Seq(ChainRows), s2 = chain', Distinct(s2), Named(s2)
    PROVE  Whole(books', s2) /\ Pays(Seen(chain), Seen(s2), Purse(books'))
  <1> DEFINE s      == chain
             n      == Len(s)
             k      == n - 1
             h      == n + 1
             us     == Payload[p]
             vs     == Payload[f]
             below  == WithoutBlock(books, n)
             branch == Imported(below, p, n)
             b      == Imported(branch, f, h)
             s0     == SubSeq(s, 1, k)
             s1     == Append(s0, NewBlock(p))
  <1>1. Whole(books, s) /\ s \in Seq(ChainRows) /\ n \in Nat
    BY BooksAreWhole
  <1>2. /\ n > 0 /\ Buildable(below, p, n) /\ Buildable(branch, f, h) /\ books' = b
        /\ s2 = s0 \o << NewBlock(p), NewBlock(f) >>
    BY DEF Reorg, Height
  <1>3. us \in Seq(Txs) /\ vs \in Seq(Txs) /\ p \in BlockIds /\ f \in BlockIds
    BY ForeignIsNoTask
  <1>4. /\ NewBlock(p) \in ChainRows /\ NewBlock(p).id = p /\ NewBlock(p).txs = us
        /\ NewBlock(f) \in ChainRows /\ NewBlock(f).id = f /\ NewBlock(f).txs = vs
    BY ForeignIsNoTask DEF NewBlock, ChainRows
  <1> HIDE DEF us, vs
  <1>5. /\ s0 \in Seq(ChainRows) /\ Len(s0) = k /\ \A i \in 1..k : s0[i] = s[i]
    <2>1. s \in Seq(ChainRows) /\ n \in Nat /\ n = Len(s) /\ n > 0
      BY <1>1, <1>2
    <2> QED  BY <2>1, BelowTheTip
  <1> HIDE DEF s0
  <1>6. /\ s1 \in Seq(ChainRows) /\ Len(s1) = n /\ s1[n] = NewBlock(p) /\ \A i \in 1..k : s1[i] = s0[i]
    BY <1>1, <1>2, <1>4, <1>5
  <1>7. s2 = Append(s1, NewBlock(f))
    BY <1>2, <1>4, <1>5
  <1> HIDE DEF s1
  <1>8. Len(s2) = h /\ s2[h] = NewBlock(f) /\ \A i \in 1..n : s2[i] = s1[i]
    BY <1>1, <1>4, <1>6, <1>7
  <1>9. Distinct(s1) /\ Named(s1)
    <2>1. \A i \in 1..n : i \in 1..h
      BY <1>1
    <2> HIDE DEF n, h
    <2> QED  BY <1>1, <1>6, <1>8, <2>1 DEF Distinct, Named
  <1>10. Extends(s0, k, s1, n, p) /\ Extends(s1, n, s2, h, f)
    BY <1>1, <1>4, <1>5, <1>6, <1>8, <1>9 DEF Extends
  <1>11. k \in Nat /\ n \in Nat \ {0} /\ n = k + 1 /\ k = n - 1 /\ h = n + 1 /\ n = Len(s) /\ n = Len(s1) /\ k = Len(s0)
    BY <1>1, <1>2, <1>5, <1>6
  <1>12. us = Payload[p] /\ vs = Payload[f] /\ s1[n].txs = us /\ s2[h].txs = vs
    BY <1>4, <1>6, <1>8 DEF us, vs
  <1> HIDE DEF s, n, k, h, below, branch, b
  <1>13. Whole(below, s0)
    BY <1>1, <1>5, <1>11, UndoneWhole DEF below
  <1>14. /\ Whole(branch, s1)
         /\ \A i \in 1..Len(us) : Follow(Shown(s0, k), Miner[p], SubSeq(us, 1, i - 1), us[i], TopOf(k))
    BY <1>2, <1>6, <1>10, <1>11, <1>12, <1>13, ForeignWhole DEF branch
  <1>15. /\ Whole(b, s2)
         /\ \A i \in 1..Len(vs) : Follow(Shown(s1, n), Miner[f], SubSeq(vs, 1, i - 1), vs[i], TopOf(n))
    BY <1>2, <1>10, <1>11, <1>12, <1>14, ForeignWhole DEF b
  <1>16. Pays(Shown(s, n), Shown(s2, h), Purse(b))
    <2>1. /\ Whole(b, s2) /\ Fitting(Shown(s0, k), Miner[p], us, TopOf(k))
          /\ Fitting(Shown(s1, n), Miner[f], vs, TopOf(n))
      BY <1>14, <1>15 DEF Fitting
    <2> QED  BY <1>1, <1>3, <1>5, <1>6, <1>10, <1>11, <1>12, <2>1, BranchPays
  <1>17. Seen(s) = Shown(s, n) /\ Seen(s2) = Shown(s2, h)
    BY <1>1, <1>8, <1>11, SeenIsShown
  <1> QED  BY <1>2, <1>15, <1>16, <1>17 DEF s

(* A step that leaves the chain and the wallets' part of the ledger alone.  *)
SameWallets(b, c) ==
    \A w \in Wallets :
        /\ c.balances[w] = b.balances[w]
        /\ \A k \in Nat : Below(c.ledger, EntryTypes, {w}, k) = Below(b.ledger, EntryTypes, {w}, k)

LEMMA LedgerIsWallets == \A b, c : SameLedger(b, c) => SameWallets(b, c)
  BY DEF SameLedger, SameWallets

LEMMA WalletsStay ==
    ASSUME PayInv, chain' = chain, SameWallets(books, books')
    PROVE  PayInv' /\ Seen(chain') = Seen(chain) /\ Purse(books') = Purse(books)
  <1>1. Held(books'.ledger, chain)
    <2> SUFFICES ASSUME NEW k \in 0..Len(chain), NEW w \in Wallets
                 PROVE  Below(books'.ledger, EntryTypes, {w}, k + 1)
                          = Premine[w] + Earned(Shown(chain, k), w) + Bonus(Shown(chain, k), w, k)
      BY DEF Held
    <2>1. Below(books'.ledger, EntryTypes, {w}, k + 1) = Below(books.ledger, EntryTypes, {w}, k + 1)
      BY DEF SameWallets
    <2>2. Below(books.ledger, EntryTypes, {w}, k + 1)
            = Premine[w] + Earned(Shown(chain, k), w) + Bonus(Shown(chain, k), w, k)
      BY DEF PayInv, Held
    <2> QED  BY <2>1, <2>2
  <1>2. PayInv'
    BY <1>1 DEF PayInv
  <1>3. Purse(books') = Purse(books)
    BY DEF SameWallets, Purse
  <1> QED  BY <1>2, <1>3 DEF Seen

LEMMA ClaimedLeavesWallets ==
    ASSUME NEW b, DOMAIN b = Columns, b.ledger \in Seq(LedgerRows), b.balances \in [Accounts -> Int],
           DOMAIN b.fund = FundFields, b.fund.unlocked \in Int
    PROVE  SameWallets(b, Claimed(b))
  <1> DEFINE amount == b.fund.unlocked
             debit  == Pay(b, "treasury_claim", Treasury, -amount, NoHeight, "claim")
             paid   == Pay(debit, "treasury_claim", Claimant, amount, NoHeight, "claim")
             e1     == Entry("treasury_claim", Treasury, -amount, NoHeight, "claim")
             e2     == Entry("treasury_claim", Claimant, amount, NoHeight, "claim")
             c      == Claimed(b)
  <1>1. /\ NoHeight \in Heights
        /\ "claim" \in {"genesis", "claim"} \cup Txs \cup BlockIds \cup Nat
        /\ "treasury_claim" \in EntryTypes /\ Treasury \in Accounts /\ Claimant \in Accounts
        /\ amount \in Int /\ -amount \in Int
    BY WalletsAreAccounts DEF EntryTypes, Heights, NoHeight
  <1>2. c = [paid EXCEPT
            !.epochs = [q \in Quarters |-> IF @[q].unlocked > 0
                                           THEN [@[q] EXCEPT !.unlocked = 0, !.status = "claimed"]
                                           ELSE @[q]],
            !.fund.claimed = @ + amount, !.fund.unlocked = 0]
    BY DEF Claimed
  <1>3. /\ DOMAIN debit = Columns /\ debit.ledger = Append(b.ledger, e1)
        /\ debit.balances = [b.balances EXCEPT ![Treasury] = @ + (-amount)]
        /\ DOMAIN paid = Columns /\ paid.ledger = Append(Append(b.ledger, e1), e2)
        /\ paid.balances = [debit.balances EXCEPT ![Claimant] = @ + amount]
    BY DEF Pay, Columns
  <1>4. /\ e1 \in LedgerRows /\ e1.account = Treasury
        /\ e2 \in LedgerRows /\ e2.account = Claimant
    BY <1>1 DEF Entry, LedgerRows
  <1> HIDE DEF paid, debit, e1, e2, c
  <1>5. c.ledger = paid.ledger /\ c.balances = paid.balances
    BY <1>2, <1>3 DEF Columns
  <1>6. ASSUME NEW w \in Wallets
        PROVE  w # Treasury /\ w # Claimant /\ w \in Accounts
    BY NoWalletIsBuiltIn, WalletsAreAccounts
  <1>7. ASSUME NEW w \in Wallets, NEW j \in Nat
        PROVE  Below(c.ledger, EntryTypes, {w}, j) = Below(b.ledger, EntryTypes, {w}, j)
    <2> DEFINE types == EntryTypes
               who   == {w}
               L     == b.ledger
               L1    == Append(L, e1)
    <2>1. L \in Seq(LedgerRows) /\ L1 \in Seq(LedgerRows) /\ c.ledger = Append(L1, e2) /\ j \in Int
      BY <1>3, <1>4, <1>5
    <2>2. Counted(e1, types, who, j) = 0 /\ Counted(e2, types, who, j) = 0
      BY <1>4, <1>6 DEF Counted
    <2> HIDE DEF types, who
    <2>3. Below(L1, types, who, j) = Below(L, types, who, j) + Counted(e1, types, who, j)
      BY <1>4, <2>1, BelowAppends
    <2> HIDE DEF L, L1
    <2>4. Below(Append(L1, e2), types, who, j) = Below(L1, types, who, j) + Counted(e2, types, who, j)
      BY <1>4, <2>1, BelowAppends
    <2>5. Below(L, types, who, j) \in Int
      BY <2>1, BelowIsInt
    <2>6. Below(c.ledger, types, who, j) = Below(L, types, who, j)
      BY <2>1, <2>2, <2>3, <2>4, <2>5
    <2> QED  BY <2>6 DEF types, who, L
  <1>8. ASSUME NEW w \in Wallets  PROVE c.balances[w] = b.balances[w]
    BY <1>3, <1>5, <1>6
  <1>9. SameWallets(b, c)
    BY <1>7, <1>8 DEF SameWallets
  <1> QED  BY <1>9 DEF c

LEMMA TreasuryLeavesWallets ==
    ASSUME ExecInv, LedgerInv, PursesInv, TreasuryNext
    PROVE  SameWallets(books, books') /\ chain' = chain
  <1> DEFINE n == Height
             k == n + 1
             s == chain
  <1>1. /\ Sane(books, k) /\ n \in Nat /\ k \in Nat /\ n = Len(s) /\ DOMAIN books = Columns
        /\ Ledgered(books, s) /\ DOMAIN books.fund = FundFields
    BY BooksAreSane DEF LedgerInv, Sane, Booked
  <1>2. chain' = chain
    BY DEF TreasuryNext, NextQuarter, UnlockTreasury, ClaimTreasury
  <1> HIDE DEF k, n, s
  <1>3. ASSUME NEW past \in SUBSET Quarters
        PROVE  SameWallets(books, Unlocked(books, past))
    <2> DEFINE c == Unlocked(books, past)
    <2>1. c.ledger = books.ledger /\ c.balances = books.balances
      BY <1>1, UnlockedLeaves
    <2> HIDE DEF c
    <2>2. SameWallets(books, c)
      BY <2>1 DEF SameWallets
    <2> QED  BY <2>2 DEF c
  <1>4. ASSUME NEW past \in SUBSET Quarters, CanClaim(Unlocked(books, past))
        PROVE  SameWallets(Unlocked(books, past), Claimed(Unlocked(books, past)))
    <2> DEFINE b == Unlocked(books, past)
    <2>1. Ledgered(b, s)
      BY <1>1, UnlockedLedgered
    <2> HIDE DEF b
    <2>2. Booked(b, Len(s) + 1) /\ Treasured(b, Len(s), Len(s))
      BY <2>1 DEF Ledgered
    <2>3. FundOk(b, n) /\ Booked(b, k)
      BY <1>1, <2>2 DEF Treasured, k
    <2>4. /\ DOMAIN b = Columns /\ b.ledger \in Seq(LedgerRows) /\ b.balances \in [Accounts -> Int]
          /\ DOMAIN b.fund = FundFields /\ b.fund.unlocked \in Int
      BY <2>3 DEF FundOk, Booked
    <2>5. SameWallets(b, Claimed(b))
      BY <2>4, ClaimedLeavesWallets
    <2> QED  BY <2>5 DEF b
  <1>5. CASE NextQuarter
    <2>1. books' = books
      BY <1>5 DEF NextQuarter
    <2> QED  BY <1>2, <2>1 DEF SameWallets
  <1>6. ASSUME NEW past \in SUBSET Quarters, UnlockTreasury(past)  PROVE SameWallets(books, books')
    BY <1>3, <1>6 DEF UnlockTreasury
  <1>7. ASSUME NEW past \in SUBSET Quarters, ClaimTreasury(past)  PROVE SameWallets(books, books')
    <2> DEFINE b == Unlocked(books, past)
    <2>1. books' = Claimed(b) /\ CanClaim(b)
      BY <1>7 DEF ClaimTreasury
    <2>2. SameWallets(books, b) /\ SameWallets(b, books')
      BY <1>3, <1>4, <2>1
    <2> HIDE DEF b
    <2> QED  BY <2>2 DEF SameWallets
  <1> QED  BY <1>2, <1>5, <1>6, <1>7 DEF TreasuryNext

(* What a step of the node is to its wallets. *)
PaymentsStep ==
    /\ PayInv'
    /\ \/ Seen(chain') = Seen(chain) /\ Purse(books') = Purse(books)
       \/ Pays(Seen(chain), Seen(chain'), Purse(books'))

LEMMA PaymentStep ==
    ASSUME ExecInv, LedgerInv, PursesInv, PayInv, [Next]_vars
    PROVE  PaymentsStep
  <1>1. DOMAIN books = Columns
    BY DEF LedgerInv, Ledgered, Booked
  <1>2. ASSUME chain' = chain, SameLedger(books, books')  PROVE PaymentsStep
    BY <1>2, LedgerIsWallets, WalletsStay DEF PaymentsStep
  <1>3. CASE UNCHANGED vars
    <2>1. books' = books /\ chain' = chain
      BY <1>3 DEF vars
    <2> QED  BY <1>1, <1>2, <2>1, RowsLeaveLedger
  <1>4. CASE MempoolNext \/ TasksNext
    BY <1>1, <1>2, <1>4, MempoolRowsOnly, TasksRowsOnly
  <1>5. ASSUME NEW t \in Tasks, AcceptFails(t)  PROVE PaymentsStep
    <2>1. books' = Released(books, {t}) /\ chain' = chain
      BY <1>5 DEF AcceptFails, Ended
    <2> QED  BY <1>1, <1>2, <2>1, RowsLeaveLedger
  <1>6. ASSUME NEW keep \in BOOLEAN, ForceRetarget(keep)  PROVE PaymentsStep
    <2>1. books' = books /\ chain' = chain
      BY <1>6 DEF ForceRetarget
    <2> QED  BY <1>1, <1>2, <2>1, RowsLeaveLedger
  <1>7. CASE TreasuryNext
    BY <1>7, TreasuryLeavesWallets, WalletsStay DEF PaymentsStep
  <1>8. chain' \in Seq(ChainRows)
    BY ExecStep DEF ExecInv, ExecTyped
  <1>9. Distinct(chain') /\ Named(chain')
    BY LedgerStep DEF LedgerInv, Ledgered
  <1>10. ASSUME Whole(books', chain') /\ Pays(Seen(chain), Seen(chain'), Purse(books'))
         PROVE  PaymentsStep
    BY <1>10, WholePays DEF PaymentsStep, PayInv
  <1>11. ASSUME NEW t \in Tasks, AcceptBlock(t)  PROVE PaymentsStep
    BY <1>8, <1>9, <1>10, <1>11, AcceptPays
  <1>12. ASSUME NEW f \in Foreign, Import(f)  PROVE PaymentsStep
    BY <1>8, <1>9, <1>10, <1>12, ImportPays
  <1>13. ASSUME NEW p \in Foreign, NEW f \in Foreign, Reorg(p, f)  PROVE PaymentsStep
    BY <1>8, <1>9, <1>10, <1>13, ReorgPays
  <1>14. CASE ChainNext
    BY <1>5, <1>6, <1>11, <1>12, <1>13, <1>14 DEF ChainNext
  <1>15. CASE Next
    BY <1>4, <1>7, <1>14, <1>15 DEF Next
  <1> QED  BY <1>3, <1>15

LEMMA PayAlways == Spec => []PayInv
  <1>1. Init => PayInv
    BY PaidInitially
  <1>2. ExecInv /\ LedgerInv /\ PursesInv /\ PayInv /\ [Next]_vars => PayInv'
    BY PaymentStep DEF PaymentsStep
  <1> QED  BY <1>1, <1>2, ExecAlways, LedgerAlways, PursesAlways, PTL DEF Spec

LEMMA PaymentsStart == Init => Payments!Init
  <1> SUFFICES ASSUME Init  PROVE Payments!Init
    OBVIOUS
  <1>1. books = InitialBooks /\ chain = << >>
    BY DEF Init
  <1>2. [i \in DOMAIN chain |-> [miner |-> Miner[chain[i].id], txs |-> chain[i].txs]] = << >>
    BY <1>1
  <1>3. [w \in Wallets |-> books.balances[w]] = Premine
    <2>1. Premine \in [Wallets -> Nat] /\ \A w \in Wallets : books.balances[w] = Premine[w]
      BY <1>1, WalletsAreAccounts, BooksAssumption DEF InitialBooks
    <2> QED  BY <2>1
  <1> QED  BY <1>2, <1>3 DEF Payments!Init

LEMMA PaymentsAdvance ==
    ASSUME ExecInv, LedgerInv, PursesInv, PayInv, [Next]_vars
    PROVE  [Payments!Next]_<< [i \in DOMAIN chain |-> [miner |-> Miner[chain[i].id], txs |-> chain[i].txs]],
                              [w \in Wallets |-> books.balances[w]] >>
  <1>1. PaymentsStep
    BY PaymentStep
  <1>2. CASE Seen(chain') = Seen(chain) /\ Purse(books') = Purse(books)
    BY <1>2 DEF Seen, Purse
  <1>3. CASE Pays(Seen(chain), Seen(chain'), Purse(books'))
    <2>1. Payments!Next
      BY <1>3 DEF Pays, Seen, Purse, Payments!Next, Payments!Becomes
    <2> QED  BY <2>1, SMTT(60)
  <1> QED  BY <1>1, <1>2, <1>3 DEF PaymentsStep

(* The wallets' part of a node, whatever the mempool, the tasks, the        *)
(* treasury and the reorgs do, is a PaymentChain: a block that              *)
(* apply_block_transactions executed carries the next nonces of covered     *)
(* senders, and what mature_block_rewards and the rollback of a reorg leave *)
(* of the balances is what the blocks of the chain pay.                     *)
THEOREM PaymentsFollow == Spec => PaymentsFollowChain
  BY PaymentsStart, PaymentsAdvance, ExecAlways, LedgerAlways, PursesAlways, PayAlways, PTL
     DEF Spec, PaymentsFollowChain, Payments!Spec

-------------------------------------------------------------------------------
(* Difficulty parameters.                                                  *)

Events == [end : Nat, prev : Nat, new : Nat]

(* Strengthened: the first event went away from the first parameters.      *)
RetargetInv ==
    /\ DOMAIN retarget = {"events", "active", "params"}
    /\ retarget.events \in Seq(Events) /\ retarget.params \in Nat
    /\ retarget.events # << >> => retarget.events[1].prev = 1
    /\ ParamsFollowEvents

LEMMA LastOfEvents ==
    ASSUME NEW s \in Seq(Events), s # << >>
    PROVE  Last(s) = s[Len(s)] /\ Len(s) \in Nat \ {0} /\ s[Len(s)] \in Events
  BY DEF Last

LEMMA RetargetInitially == Init => RetargetInv
  BY DEF Init, RetargetInv, ParamsFollowEvents, LastRetarget, Height

(* An event at a height above the last one. *)
LEMMA RetargetedKeeps ==
    ASSUME RetargetInv, NEW h \in Nat, h > LastRetarget, NEW keep \in BOOLEAN,
           retarget' = Retargeted(h, keep), h <= Height'
    PROVE  RetargetInv'
  <1> DEFINE events == retarget.events
             n    == Len(events)
             old  == IF events = << >> THEN 1 ELSE Last(events).new
             prev == CHOOSE p \in retarget.active : TRUE
             fresh == retarget.params + 1
             kept == [end |-> h, prev |-> prev, new |-> prev]
             made == [end |-> h, prev |-> prev, new |-> fresh]
             e    == IF keep THEN kept ELSE made
             later == Append(events, e)
  <1>1. /\ events \in Seq(Events) /\ retarget.params \in Nat /\ n \in Nat
        /\ retarget.active = {old}
        /\ DOMAIN retarget = {"events", "active", "params"}
        /\ events # << >> => events[1].prev = 1
        /\ \A i \in 1..(n - 1) : events[i].end < events[i + 1].end /\ events[i + 1].prev = events[i].new
    BY DEF RetargetInv, ParamsFollowEvents
  <1>2. events # << >> => /\ Last(events) = events[n] /\ n \in Nat \ {0} /\ events[n] \in Events
                          /\ LastRetarget = events[n].end /\ old = events[n].new
    BY <1>1, LastOfEvents DEF LastRetarget
  <1>3. prev = old /\ old \in Nat
    <2>1. events # << >> => old \in Nat
      BY <1>2 DEF Events
    <2>2. events = << >> => old \in Nat
      OBVIOUS
    <2> HIDE DEF old
    <2> QED  BY <1>1, <2>1, <2>2
  <1>4. /\ DOMAIN retarget' = {"events", "active", "params"}
        /\ retarget'.events = later
        /\ retarget'.active = IF keep THEN {old} ELSE {fresh}
        /\ retarget'.params \in Nat
    <2>1. retarget' = IF keep THEN [retarget EXCEPT !.events = Append(@, kept)]
                      ELSE [retarget EXCEPT !.events = Append(@, made), !.active = {fresh},
                                            !.params = fresh]
      BY DEF Retargeted
    <2>2. fresh \in Nat
      BY <1>1
    <2> HIDE DEF kept, made, fresh, prev, old
    <2> QED  BY <1>1, <2>1, <2>2
  <1>5. e \in Events /\ e.end = h /\ e.prev = old /\ e.new = IF keep THEN old ELSE fresh
    BY <1>1, <1>3 DEF Events
  <1> HIDE DEF e, prev, fresh, kept, made
  <1>6. /\ later \in Seq(Events) /\ later # << >> /\ Len(later) = n + 1 /\ later[n + 1] = e
        /\ \A i \in 1..n : later[i] = events[i]
    BY <1>1, <1>5
  <1>7. Last(later) = e
    BY <1>6 DEF Last
  <1>8. later[1].prev = 1
    <2>1. CASE events = << >>
      <3>1. n = 0 /\ old = 1
        BY <2>1
      <3> QED  BY <1>5, <1>6, <3>1
    <2>2. CASE events # << >>
      <3>1. 1 \in 1..n
        BY <1>2, <2>2
      <3> QED  BY <1>1, <1>6, <2>2, <3>1
    <2> QED  BY <2>1, <2>2
  <1>9. ASSUME NEW i \in 1..n
        PROVE  later[i].end < later[i + 1].end /\ later[i + 1].prev = later[i].new
    <2>1. CASE i = n
      <3>1. events # << >>
        BY <1>1, <1>9
      <3> QED  BY <1>2, <1>5, <1>6, <2>1, <3>1
    <2>2. CASE i # n
      <3>1. i \in 1..(n - 1) /\ i + 1 \in 1..n
        BY <1>1, <2>2
      <3> QED  BY <1>1, <1>6, <3>1
    <2> QED  BY <2>1, <2>2
  <1> HIDE DEF later, old
  <1>10. ParamsFollowEvents'
    <2>1. Len(later) - 1 = n
      BY <1>1, <1>6
    <2>2. LastRetarget' = h
      BY <1>4, <1>5, <1>6, <1>7 DEF LastRetarget
    <2>3. retarget'.active = {e.new}
      BY <1>4, <1>5
    <2> QED  BY <1>4, <1>6, <1>7, <1>9, <2>1, <2>2, <2>3 DEF ParamsFollowEvents
  <1> QED  BY <1>4, <1>6, <1>8, <1>10 DEF RetargetInv

(* The events of the block that is taken back go with it.                  *)
LEMMA RetargetWithoutKeeps ==
    ASSUME RetargetInv, NEW h \in Nat \ {0}, retarget' = RetargetWithout(h), h <= Height', Height' \in Nat
    PROVE  RetargetInv'
  <1> DEFINE events == retarget.events
             n     == Len(events)
             gone  == {i \in DOMAIN events : events[i].end >= h}
             first == Min(gone)
             later == SubSeq(events, 1, first - 1)
             last  == IF events = << >> THEN 1 ELSE Last(events).new
  <1>1. /\ events \in Seq(Events) /\ retarget.params \in Nat /\ n \in Nat
        /\ retarget.active = {last}
        /\ DOMAIN retarget = {"events", "active", "params"}
        /\ events # << >> => events[1].prev = 1
        /\ \A i \in 1..(n - 1) : events[i].end < events[i + 1].end /\ events[i + 1].prev = events[i].new
    BY DEF RetargetInv, ParamsFollowEvents
  <1>2. CASE gone = {}
    <2>1. retarget' = retarget
      BY <1>2 DEF RetargetWithout
    <2>2. LastRetarget < h
      <3>1. CASE events = << >>
        BY <3>1 DEF LastRetarget
      <3>2. CASE events # << >>
        <4>1. Last(events) = events[n] /\ n \in 1..n /\ n \in DOMAIN events /\ events[n].end \in Nat
          BY <1>1, <3>2, LastOfEvents DEF Events
        <4>2. ~(events[n].end >= h)
          BY <1>2, <4>1
        <4>3. LastRetarget = events[n].end
          BY <3>2, <4>1 DEF LastRetarget
        <4> QED  BY <4>1, <4>2, <4>3
      <3> QED  BY <3>1, <3>2
    <2>3. LastRetarget' = LastRetarget /\ LastRetarget \in Nat
      <3>1. LastRetarget \in Nat
        BY <1>1, LastOfEvents DEF LastRetarget, Events
      <3> QED  BY <2>1, <3>1 DEF LastRetarget
    <2>4. LastRetarget' <= Height'
      BY <2>2, <2>3
    <2> QED  BY <2>1, <2>4 DEF RetargetInv, ParamsFollowEvents
  <1>3. CASE gone # {}
    <2>1. gone \in SUBSET Nat /\ gone \subseteq 1..n
      BY <1>1
    <2>2. first \in gone /\ \A i \in gone : first <= i
      <3> HIDE DEF gone
      <3>1. PICK k \in gone : \A i \in gone : k <= i
        BY <1>3, <2>1, SmallestNat
      <3> QED  BY <3>1 DEF Min
    <2>3. /\ DOMAIN retarget' = {"events", "active", "params"}
          /\ retarget'.events = later /\ retarget'.active = {events[first].prev}
          /\ retarget'.params = retarget.params
      BY <1>1, <1>3 DEF RetargetWithout
    <2>4. first \in 1..n /\ first - 1 \in 0..n
      BY <1>1, <2>1, <2>2
    <2>5. \A i \in 1..(first - 1) : events[i].end < h /\ i \in 1..n
      <3> SUFFICES ASSUME NEW i \in 1..(first - 1)  PROVE events[i].end < h /\ i \in 1..n
        OBVIOUS
      <3>1. i \in 1..n /\ ~(first <= i)
        BY <2>4
      <3>2. i \notin gone
        BY <2>2, <3>1
      <3>3. events[i].end \in Nat
        <4>1. events[i] \in Events
          BY <1>1, <3>1
        <4> HIDE DEF events
        <4> QED  BY <4>1 DEF Events
      <3>4. ~(events[i].end >= h)
        BY <1>1, <3>1, <3>2
      <3> QED  BY <3>1, <3>3, <3>4
    <2> HIDE DEF first, gone
    <2>6. /\ later \in Seq(Events) /\ Len(later) = first - 1
          /\ \A i \in 1..(first - 1) : later[i] = events[i]
      BY <1>1, <2>4
    <2> HIDE DEF later, last
    <2>7. CASE first = 1
      <3>1. later = << >> /\ events[first].prev = 1
        <4>1. Len(later) = 0
          BY <2>6, <2>7
        <4>2. events # << >>
          BY <2>4
        <4> QED  BY <1>1, <2>6, <2>7, <4>1, <4>2
      <3>2. LastRetarget' = 0
        BY <2>3, <3>1 DEF LastRetarget
      <3> QED  BY <1>1, <2>3, <2>6, <3>1, <3>2 DEF RetargetInv, ParamsFollowEvents
    <2>8. CASE first # 1
      <3>1. /\ first - 1 \in 1..(n - 1) /\ 1 \in 1..(first - 1) /\ first - 1 \in 1..(first - 1)
            /\ later # << >>
        BY <2>4, <2>6, <2>8
      <3>2. Last(later) = events[first - 1]
        BY <2>6, <3>1 DEF Last
      <3>3. events[first].prev = events[first - 1].new
        <4>1. (first - 1) + 1 = first
          BY <2>4
        <4> QED  BY <1>1, <3>1, <4>1
      <3>4. later[1].prev = 1
        BY <1>1, <2>6, <3>1
      <3>5. LastRetarget' = events[first - 1].end /\ events[first - 1].end < h
            /\ events[first - 1].end \in Nat
        <4>1. LastRetarget' = events[first - 1].end
          BY <2>3, <3>1, <3>2 DEF LastRetarget
        <4>2. events[first - 1] \in Events
          BY <1>1, <2>5, <3>1
        <4> QED  BY <2>5, <3>1, <4>1, <4>2 DEF Events
      <3>6. LastRetarget' <= Height'
        BY <3>5
      <3>7. \A i \in 1..(Len(later) - 1) : later[i].end < later[i + 1].end
                                          /\ later[i + 1].prev = later[i].new
        <4> SUFFICES ASSUME NEW i \in 1..(first - 2)
                     PROVE  later[i].end < later[i + 1].end /\ later[i + 1].prev = later[i].new
          BY <2>4, <2>6
        <4>1. i \in 1..(first - 1) /\ i + 1 \in 1..(first - 1) /\ i \in 1..(n - 1)
          BY <2>4
        <4> QED  BY <1>1, <2>6, <4>1
      <3> QED  BY <1>1, <2>3, <2>6, <3>1, <3>2, <3>3, <3>4, <3>6, <3>7
               DEF RetargetInv, ParamsFollowEvents
    <2> QED  BY <2>7, <2>8
  <1> QED  BY <1>2, <1>3

LEMMA LastRetargetTyped == RetargetInv => LastRetarget \in Nat /\ LastRetarget <= Height
  BY LastOfEvents DEF RetargetInv, ParamsFollowEvents, LastRetarget, Events

LEMMA RetargetAfterKeeps ==
    ASSUME RetargetInv, Height \in Nat, RetargetAfter(Height + 1), Height' = Height + 1
    PROVE  RetargetInv'
  <1> DEFINE h == Height + 1
  <1>1. h \in Nat /\ h > LastRetarget /\ LastRetarget \in Nat /\ h <= Height'
    BY LastRetargetTyped
  <1>2. RetargetAfter(h)
    OBVIOUS
  <1> HIDE DEF h
  <1>3. CASE \E keep \in BOOLEAN : retarget' = Retargeted(h, keep)
    BY <1>1, <1>3, RetargetedKeeps
  <1>4. CASE retarget' = retarget
    <2>1. LastRetarget' <= Height'
      <3>1. LastRetarget' = LastRetarget
        BY <1>4 DEF LastRetarget
      <3> QED  BY <1>1, <3>1
    <2> QED  BY <1>4, <2>1 DEF RetargetInv, ParamsFollowEvents
  <1> QED  BY <1>2, <1>3, <1>4 DEF RetargetAfter

(* The chain only grows, or its tip gives way to two blocks.               *)
LEMMA RetargetStays ==
    ASSUME RetargetInv, retarget' = retarget, Height' >= Height, Height' \in Nat, Height \in Nat
    PROVE  RetargetInv'
  <1>1. LastRetarget \in Nat /\ LastRetarget <= Height
    BY LastRetargetTyped
  <1>2. LastRetarget' <= Height'
    BY <1>1 DEF LastRetarget
  <1> QED  BY <1>2 DEF RetargetInv, ParamsFollowEvents

LEMMA RetargetStep == ExecInv /\ RetargetInv /\ [Next]_vars => RetargetInv'
  <1> SUFFICES ASSUME ExecInv, RetargetInv, [Next]_vars  PROVE RetargetInv'
    OBVIOUS
  <1>1. chain \in Seq(ChainRows) /\ Height \in Nat /\ Height = Len(chain)
    BY HeightTyped DEF ExecInv, ExecTyped, Height
  <1>2. ASSUME retarget' = retarget, chain' = chain  PROVE RetargetInv'
    BY <1>1, <1>2, RetargetStays DEF Height
  <1>3. CASE UNCHANGED vars
    BY <1>2, <1>3 DEF vars
  <1>4. CASE MempoolNext
    BY <1>2, <1>4 DEF MempoolNext, ExpireMempool, SubmitTransaction, TtlPasses
  <1>5. CASE TasksNext
    BY <1>2, <1>5 DEF TasksNext, NextTask, CommitTask, ExpireTask, CloseTask, ReviveCommitted,
                      ReviveAssigned, Ended
  <1>6. CASE TreasuryNext
    BY <1>2, <1>6 DEF TreasuryNext, NextQuarter, UnlockTreasury, ClaimTreasury
  <1>7. ASSUME NEW t \in Tasks, AcceptBlock(t)  PROVE RetargetInv'
    <2>1. RetargetAfter(Height + 1) /\ chain' = Append(chain, [id |-> t, txs |-> Loaded(t)])
      BY <1>7 DEF AcceptBlock
    <2>2. Height' = Height + 1
      BY <1>1, <2>1 DEF Height
    <2> QED  BY <1>1, <2>1, <2>2, RetargetAfterKeeps
  <1>8. ASSUME NEW t \in Tasks, AcceptFails(t)  PROVE RetargetInv'
    BY <1>2, <1>8 DEF AcceptFails, Ended
  <1>9. ASSUME NEW f \in Foreign, Import(f)  PROVE RetargetInv'
    <2>1. retarget' = retarget /\ chain' = Append(chain, NewBlock(f))
      BY <1>9 DEF Import
    <2>2. Height' = Height + 1
      BY <1>1, <2>1 DEF Height
    <2> QED  BY <1>1, <2>1, <2>2, RetargetStays
  <1>10. ASSUME NEW p \in Foreign, NEW c \in Foreign, Reorg(p, c)  PROVE RetargetInv'
    <2>1. /\ Height > 0 /\ retarget' = RetargetWithout(Height)
          /\ chain' = SubSeq(chain, 1, Height - 1) \o << NewBlock(p), NewBlock(c) >>
      BY <1>10 DEF Reorg
    <2>2. Height' = Height + 1
      <3> DEFINE s0 == SubSeq(chain, 1, Height - 1)
      <3>1. s0 \in Seq(ChainRows) /\ Len(s0) = Height - 1
        BY <1>1, <2>1
      <3> HIDE DEF s0
      <3>2. NewBlock(p) \in ChainRows /\ NewBlock(c) \in ChainRows
        BY ForeignIsNoTask DEF NewBlock, ChainRows
      <3>3. Len(s0 \o << NewBlock(p), NewBlock(c) >>) = Height - 1 + 2
        BY <3>1, <3>2
      <3> QED  BY <1>1, <2>1, <3>3 DEF Height, s0
    <2> QED  BY <1>1, <2>1, <2>2, RetargetWithoutKeeps
  <1>11. ASSUME NEW keep \in BOOLEAN, ForceRetarget(keep)  PROVE RetargetInv'
    <2>1. Height > LastRetarget /\ retarget' = Retargeted(Height, keep) /\ chain' = chain
      BY <1>11 DEF ForceRetarget
    <2> QED  BY <1>1, <2>1, RetargetedKeeps DEF Height
  <1>12. CASE ChainNext
    BY <1>7, <1>8, <1>9, <1>10, <1>11, <1>12 DEF ChainNext
  <1> QED  BY <1>3, <1>4, <1>5, <1>6, <1>12 DEF Next

(* The active parameters are those of the last retarget event on the chain, *)
(* epochs do not overlap and none passes the tip, also after the block that  *)
(* ended an epoch was taken back: ParamsFollowEvents in every instance.     *)
THEOREM ParametersFollowEvents == Spec => []ParamsFollowEvents
  <1>1. Init => ExecInv /\ RetargetInv
    BY ExecInitially, RetargetInitially
  <1>2. (ExecInv /\ RetargetInv) /\ [Next]_vars => (ExecInv /\ RetargetInv)'
    BY ExecStep, RetargetStep
  <1>3. RetargetInv => ParamsFollowEvents
    BY DEF RetargetInv
  <1> QED  BY <1>1, <1>2, <1>3, PTL DEF Spec

-------------------------------------------------------------------------------
(* The science reserve.                                                    *)


Statuses == Unpaid \cup {"none", "ended", "paid"}

Postings == [status : Statuses, max : Nat, payout : Nat, paid : BOOLEAN]
JobRows == {x \in Postings : x.payout <= x.max}
AccountRows == [status : {"none", "active", "unstaking"}, used : Nat, month : Months]
Epochs == [open : BOOLEAN, reserved : Nat, paid : Nat, pending : Nat]

(* Approvals in the order they came: each by one of who, and by nobody twice. *)
Signatures(who) == {a \in Seq(who) : \A i, k \in 1..Len(a) : a[i] = a[k] => i = k}

Councils(who) ==
    [status : {"locked", "pending", "active", "paused"}, timelock : {"none", "running", "over"},
     approvals : Signatures(who), activated : BOOLEAN]

Enough(who) == Cardinality(who) >= Threshold

(* What a request has read still holds when it writes: its job is posted    *)
(* with the reward it had, and who had signed has signed.                  *)
Sound(q, rows, who) ==
    /\ q.op = "stake" => q.used \in Nat /\ q.month \in Months
    /\ q.op = "create" => q.max \in Nat
    /\ q.op \in {"transition", "pay"} =>
          /\ q.job \in Jobs /\ q.read \in JobRows
          /\ rows[q.job].status # "none" /\ rows[q.job].max = q.read.max
    /\ q.op = "transition" =>
          q.status \in Allowed(q.read.status) /\ q.payout \in 0..q.read.max
    /\ q.op = "pay" => q.read.status = "accepted" /\ ~q.read.paid
    /\ q.op \in {"propose", "approve"} => q.signer \in Signers /\ q.approvals \in Signatures(who)
    /\ q.op = "execute" => Enough(who)
    /\ q.op = "unpause" /\ q.activated => Enough(who)

BooksTyped ==
    /\ account \in AccountRows
    /\ job \in [Jobs -> JobRows]
    /\ payments \in [Jobs -> Nat]
    /\ reserve \in [Months -> Epochs]
    /\ {latest, month} \subseteq Months
    /\ {balance, accrued} \subseteq Nat
    /\ \A j \in Jobs : job[j].paid <=> payments[j] > 0

(* Whatever switched the payouts on, or can, has the signatures behind it.  *)
SignersTyped ==
    /\ IsFiniteSet(signed)
    /\ governance \in Councils(signed)
    /\ governance.status = "active" \/ governance.activated => Enough(signed)

RequestsTyped ==
    /\ DOMAIN flight = Requests
    /\ \A r \in Requests : Sound(flight[r], job, signed)

ReserveInv == BooksTyped /\ SignersTyped /\ RequestsTyped

-------------------------------------------------------------------------------
(* The operators of the reserve.                                           *)

LEMMA PathStatuses ==
    Unpaid = {"created", "queued", "assigned", "committed", "submitted", "verified", "accepted"}
  <1>1. Len(Path) = 7 /\ DOMAIN Path = 1..7
    BY DEF Path
  <1>2. 1..7 = {1, 2, 3, 4, 5, 6, 7}
    OBVIOUS
  <1>3. /\ Path[1] = "created" /\ Path[2] = "queued" /\ Path[3] = "assigned" /\ Path[4] = "committed"
        /\ Path[5] = "submitted" /\ Path[6] = "verified" /\ Path[7] = "accepted"
    BY DEF Path
  <1> QED  BY <1>1, <1>2, <1>3 DEF Unpaid, ToSet

LEMMA AllowedStatuses ==
    ASSUME NEW status, NEW next \in Allowed(status)
    PROVE  next \in Statuses \ {"none"} /\ status # "none"
  <1>1. PICK k \in 1..(Len(Path) - 1) : Path[k] = status /\ next \in {Path[k + 1], "ended"}
    BY DEF Allowed
  <1>2. Len(Path) = 7 /\ DOMAIN Path = 1..7
    BY DEF Path
  <1>3. Path[k] \in Unpaid /\ Path[k + 1] \in Unpaid
    BY <1>2 DEF Unpaid, ToSet
  <1> QED  BY <1>1, <1>3, PathStatuses DEF Statuses

LEMMA FlooredIsNat == \A n \in Int : Floored(n) \in Nat
  BY DEF Floored

(* As many approvals, as many signers.                                     *)
LEMMA SignaturesCount ==
    ASSUME NEW who, IsFiniteSet(who), NEW a \in Signatures(who), Len(a) >= Threshold
    PROVE  Enough(who)
  <1>1. Len(a) \in Nat /\ a \in [1..Len(a) -> who]
    BY DEF Signatures
  <1>2. a \in Injection(1..Len(a), who)
    BY <1>1 DEF Signatures, Injection, IsInjective
  <1>3. Cardinality(1..Len(a)) <= Cardinality(who)
    BY <1>2, FS_Injection
  <1>4. Cardinality(1..Len(a)) = Len(a)
    BY <1>1, FS_Interval
  <1> QED  BY <1>1, <1>3, <1>4, FS_CardinalityType, ScienceAssumption DEF Enough

LEMMA SignaturesGrow ==
    ASSUME NEW who, NEW more, who \subseteq more
    PROVE  Signatures(who) \subseteq Signatures(more)
  BY DEF Signatures

LEMMA SignedByOne ==
    ASSUME NEW who, NEW a \in Signatures(who), NEW s
    PROVE  SignedBy(a, s) \in Signatures(who \cup {s})
  <1>1. a \in Signatures(who \cup {s})
    BY SignaturesGrow
  <1>2. CASE Contains(a, s)
    BY <1>1, <1>2 DEF SignedBy
  <1>3. CASE ~Contains(a, s)
    <2>1. \A i \in 1..Len(a) : a[i] # s
      BY <1>3 DEF Contains
    <2> DEFINE b == Append(a, s)
    <2>2. b \in Seq(who \cup {s}) /\ Len(b) = Len(a) + 1 /\ Len(a) \in Nat
      BY <1>1 DEF Signatures
    <2>3. \A i \in 1..Len(a) : b[i] = a[i]
      BY <1>1 DEF Signatures
    <2>4. b[Len(a) + 1] = s
      BY <1>1 DEF Signatures
    <2> HIDE DEF b
    <2>5. ASSUME NEW i \in 1..Len(b), NEW k \in 1..Len(b), b[i] = b[k]  PROVE i = k
      <3>1. CASE i \in 1..Len(a) /\ k \in 1..Len(a)
        BY <2>3, <2>5, <3>1 DEF Signatures
      <3>2. CASE i = Len(a) + 1 \/ k = Len(a) + 1
        BY <2>1, <2>2, <2>3, <2>4, <2>5, <3>2
      <3> QED  BY <2>2, <3>1, <3>2
    <2>6. b \in Signatures(who \cup {s})
      BY <2>2, <2>5 DEF Signatures
    <2> QED  BY <1>3, <2>6 DEF SignedBy, b
  <1> QED  BY <1>2, <1>3

LEMMA EnoughGrows ==
    ASSUME NEW who, NEW more, IsFiniteSet(more), who \subseteq more, Enough(who)
    PROVE  Enough(more)
  BY FS_Subset, FS_CardinalityType, ScienceAssumption DEF Enough

-------------------------------------------------------------------------------
(* A step keeps the jobs that are posted, with their reward, and who signed. *)

JobsKept(rows, next) ==
    \A j \in Jobs : rows[j].status # "none" => next[j].status # "none" /\ next[j].max = rows[j].max

LEMMA SoundStays ==
    ASSUME NEW rows, NEW next, JobsKept(rows, next),
           NEW who, NEW more, IsFiniteSet(more), who \subseteq more,
           NEW q, Sound(q, rows, who)
    PROVE  Sound(q, next, more)
  <1>1. Enough(who) => Enough(more)
    BY EnoughGrows
  <1>2. q.op \in {"transition", "pay"} => next[q.job].status # "none" /\ next[q.job].max = q.read.max
    BY DEF Sound, JobsKept
  <1> QED  BY <1>1, <1>2, SignaturesGrow DEF Sound

LEMMA RequestGoes ==
    ASSUME ReserveInv, NEW r \in Requests, NEW q, flight' = [flight EXCEPT ![r] = q],
           JobsKept(job, job'), IsFiniteSet(signed'), signed \subseteq signed',
           Sound(q, job', signed')
    PROVE  RequestsTyped'
  <1>1. DOMAIN flight' = Requests
    BY DEF ReserveInv, RequestsTyped
  <1>2. ASSUME NEW g \in Requests  PROVE Sound(flight'[g], job', signed')
    <2>1. CASE g = r
      BY <2>1 DEF ReserveInv, RequestsTyped
    <2>2. CASE g # r
      <3>1. flight'[g] = flight[g] /\ Sound(flight[g], job, signed)
        BY <2>2 DEF ReserveInv, RequestsTyped
      <3>2. Sound(flight[g], job', signed')
        BY <3>1, SoundStays
      <3> QED  BY <3>1, <3>2
    <2> QED  BY <2>1, <2>2
  <1> QED  BY <1>1, <1>2 DEF RequestsTyped

LEMMA AnswerGoes ==
    ASSUME ReserveInv, NEW r \in Requests, flight' = [flight EXCEPT ![r] = NoRequest],
           JobsKept(job, job'), IsFiniteSet(signed'), signed \subseteq signed'
    PROVE  RequestsTyped'
  <1>1. Sound(NoRequest, job', signed')
    BY DEF Sound, NoRequest
  <1> QED  BY <1>1, RequestGoes

LEMMA RequestsWait ==
    ASSUME ReserveInv, UNCHANGED flight,
           JobsKept(job, job'), IsFiniteSet(signed'), signed \subseteq signed'
    PROVE  RequestsTyped'
  BY SoundStays DEF ReserveInv, RequestsTyped

LEMMA BeginGoes ==
    ASSUME ReserveInv, NEW r \in Requests, NEW q, Begins(r, q), Sound(q, job, signed)
    PROVE  ReserveInv'
  <1>1. UNCHANGED << account, job, payments, reserve, latest, balance, accrued, month, governance, signed >>
    BY DEF Begins, jobVars, reserveVars, signVars
  <1>2. flight' = [flight EXCEPT ![r] = q]
    BY DEF Begins
  <1>3. JobsKept(job, job')
    BY <1>1 DEF JobsKept
  <1>4. RequestsTyped'
    BY <1>1, <1>2, <1>3, RequestGoes DEF ReserveInv, SignersTyped
  <1>5. BooksTyped' /\ SignersTyped'
    BY <1>1 DEF ReserveInv, BooksTyped, SignersTyped
  <1> QED  BY <1>4, <1>5 DEF ReserveInv

-------------------------------------------------------------------------------
(* The steps of the requester.                                             *)

LEMMA InitInv == ScienceInit => ReserveInv
  <1> SUFFICES ASSUME ScienceInit  PROVE ReserveInv
    OBVIOUS
  <1>1. 1 \in Months
    BY ScienceAssumption
  <1>2. NoAccount \in AccountRows /\ NoRow \in Epochs
    BY <1>1 DEF NoAccount, AccountRows, NoRow, Epochs
  <1>3. NoJob \in JobRows /\ NoJob.paid = FALSE
    BY DEF NoJob, JobRows, Postings, Statuses
  <1>4. BooksTyped
    BY <1>1, <1>2, <1>3 DEF ScienceInit, ScienceFrom, BooksTyped
  <1>5. << >> \in Signatures({})
    BY DEF Signatures
  <1>6. Locked \in Councils({}) /\ Locked.status # "active" /\ ~Locked.activated
    BY <1>5 DEF Locked, Councils
  <1>7. SignersTyped
    BY <1>6, FS_EmptySet DEF ScienceInit, ScienceFrom, SignersTyped
  <1>8. \A r \in Requests : Sound(NoRequest, job, signed)
    BY DEF Sound, NoRequest
  <1>9. RequestsTyped
    BY <1>8 DEF ScienceInit, ScienceFrom, RequestsTyped
  <1> QED  BY <1>4, <1>7, <1>9 DEF ReserveInv

LEMMA UsedIsNat == ASSUME ReserveInv  PROVE UsedNow \in Nat /\ account.month \in Months
  BY DEF ReserveInv, BooksTyped, AccountRows, UsedNow

LEMMA AccountsKeep ==
    ASSUME ReserveInv, AccountsNext
    PROVE  ReserveInv'
  <1>1. PICK r \in Requests : BeginStake(r) \/ FinishStake(r) \/ BeginUnstake(r) \/ FinishUnstake(r)
    BY DEF AccountsNext
  <1>2. CASE BeginStake(r)
    <2>1. Sound([op |-> "stake", used |-> UsedNow, month |-> month], job, signed)
      BY UsedIsNat DEF Sound, ReserveInv, BooksTyped
    <2> QED  BY <1>2, <2>1, BeginGoes DEF BeginStake
  <1>3. CASE BeginUnstake(r)
    <2>1. Sound([op |-> "unstake"], job, signed)
      BY DEF Sound
    <2> QED  BY <1>3, <2>1, BeginGoes DEF BeginUnstake
  <1>4. CASE FinishStake(r) \/ FinishUnstake(r)
    <2>1. /\ UNCHANGED << job, payments, reserve, latest, balance, accrued, month, governance, signed >>
          /\ flight' = [flight EXCEPT ![r] = NoRequest]
      BY <1>4 DEF FinishStake, FinishUnstake, Answers, jobVars, reserveVars, signVars
    <2>2. account' \in AccountRows
      <3>1. Sound(flight[r], job, signed)
        BY DEF ReserveInv, RequestsTyped
      <3>2. CASE FinishStake(r)
        BY <3>1, <3>2 DEF FinishStake, Answers, Sound, AccountRows
      <3>3. CASE FinishUnstake(r)
        BY <3>3 DEF FinishUnstake, ReserveInv, BooksTyped, AccountRows
      <3> QED  BY <1>4, <3>2, <3>3
    <2>3. RequestsTyped'
      BY <2>1, AnswerGoes DEF JobsKept, ReserveInv, SignersTyped
    <2>4. BooksTyped' /\ SignersTyped'
      BY <2>1, <2>2 DEF ReserveInv, BooksTyped, SignersTyped
    <2> QED  BY <2>3, <2>4 DEF ReserveInv
  <1> QED  BY <1>1, <1>2, <1>3, <1>4

(* Only the rows of a month that is open, or opens, are written.           *)
LEMMA RowWritten ==
    ASSUME ReserveInv, NEW row \in Epochs, WriteRow(row)
    PROVE  reserve' \in [Months -> Epochs] /\ latest' \in Months
  BY DEF ReserveInv, BooksTyped, WriteRow, Epochs

LEMMA RowIsEpoch == ASSUME ReserveInv  PROVE Row \in Epochs
  BY DEF ReserveInv, BooksTyped, Row

LEMMA PostKeeps ==
    ASSUME ReserveInv, NEW j \in Unused, NEW max \in Nat, Post(j, max)
    PROVE  /\ job' \in [Jobs -> JobRows] /\ JobsKept(job, job')
           /\ reserve' \in [Months -> Epochs] /\ latest' \in Months
           /\ UNCHANGED << payments, balance, accrued, governance, signed >>
           /\ \A i \in Jobs : job'[i].paid <=> payments'[i] > 0
  <1> DEFINE x == [NoJob EXCEPT !.status = "created", !.max = max]
  <1>1. x \in JobRows /\ x.paid = FALSE
    <2>1. "created" \in Statuses
      BY PathStatuses DEF Statuses
    <2>2. x \in Postings
      BY <2>1 DEF NoJob, Postings
    <2>3. x.payout = 0 /\ x.max = max /\ x.paid = FALSE
      BY DEF NoJob
    <2> HIDE DEF x
    <2> QED  BY <2>2, <2>3 DEF JobRows
  <1>2. j \in Jobs /\ job[j].status = "none" /\ job[j].paid = FALSE
    BY DEF Unused, NoJob
  <1>3. job' = [job EXCEPT ![j] = x]
    BY DEF Post
  <1> HIDE DEF x
  <1>4. job' \in [Jobs -> JobRows] /\ JobsKept(job, job')
    BY <1>1, <1>2, <1>3 DEF ReserveInv, BooksTyped, JobsKept
  <1>5. UNCHANGED << payments, balance, accrued, governance, signed >>
    BY DEF Post, signVars
  <1>6. \A i \in Jobs : job'[i].paid <=> payments'[i] > 0
    BY <1>1, <1>2, <1>3, <1>5 DEF ReserveInv, BooksTyped
  <1>7. [Row EXCEPT !.pending = @ + max] \in Epochs
    BY RowIsEpoch DEF Epochs
  <1>8. reserve' \in [Months -> Epochs] /\ latest' \in Months
    <2>1. CASE max > 0
      BY <1>7, <2>1, RowWritten DEF Post
    <2>2. CASE ~(max > 0)
      BY <2>2 DEF Post, ReserveInv, BooksTyped
    <2> QED  BY <2>1, <2>2
  <1> QED  BY <1>4, <1>5, <1>6, <1>8

LEMMA PostingKeeps ==
    ASSUME ReserveInv, PostingNext
    PROVE  ReserveInv'
  <1>1. PICK max \in Rewards, r \in Requests :
            BeginCreate(r, max) \/ FinishCreate(r) \/ CreateAfterReset(max)
    BY DEF PostingNext
  <1>2. max \in Nat
    BY ScienceAssumption
  <1>3. CASE BeginCreate(r, max)
    <2>1. Sound([op |-> "create", max |-> max], job, signed)
      BY <1>2 DEF Sound
    <2> QED  BY <1>3, <2>1, BeginGoes DEF BeginCreate
  <1>4. CASE FinishCreate(r)
    <2>1. flight' = [flight EXCEPT ![r] = NoRequest] /\ UNCHANGED month
      BY <1>4 DEF FinishCreate, Answers
    <2>2. Sound(flight[r], job, signed) /\ flight[r].op = "create"
      BY <1>4 DEF ReserveInv, RequestsTyped, FinishCreate, Answers
    <2>3. CASE UNCHANGED << account, jobVars, reserveVars, signVars >>
      <3>1. UNCHANGED << account, job, payments, reserve, latest, balance, accrued, governance, signed >>
        BY <2>3 DEF jobVars, reserveVars, signVars
      <3>2. RequestsTyped'
        BY <2>1, <3>1, AnswerGoes DEF JobsKept, ReserveInv, SignersTyped
      <3> QED  BY <2>1, <3>1, <3>2 DEF ReserveInv, BooksTyped, SignersTyped
    <2>4. CASE /\ \E j \in Unused : Post(j, flight[r].max)
               /\ account' = [account EXCEPT !.used = @ + 1]
      <3>1. PICK j \in Unused : Post(j, flight[r].max)
        BY <2>4
      <3>2. flight[r].max \in Nat
        BY <2>2 DEF Sound
      <3>3. account' \in AccountRows
        BY <2>4 DEF ReserveInv, BooksTyped, AccountRows
      <3>4. RequestsTyped'
        BY <2>1, <3>1, <3>2, PostKeeps, AnswerGoes DEF ReserveInv, SignersTyped
      <3>5. BooksTyped' /\ SignersTyped'
        BY <2>1, <3>1, <3>2, <3>3, PostKeeps DEF ReserveInv, BooksTyped, SignersTyped
      <3> QED  BY <3>4, <3>5 DEF ReserveInv
    <2> QED  BY <1>4, <2>3, <2>4 DEF FinishCreate
  <1>5. CASE CreateAfterReset(max)
    <2>1. PICK j \in Unused : Post(j, max)
      BY <1>5 DEF CreateAfterReset
    <2>2. UNCHANGED << month, flight >>
      BY <1>5 DEF CreateAfterReset
    <2>3. account' \in AccountRows
      BY <1>5 DEF CreateAfterReset, ReserveInv, BooksTyped, AccountRows
    <2>4. RequestsTyped'
      BY <1>2, <2>1, <2>2, PostKeeps, RequestsWait DEF ReserveInv, SignersTyped
    <2>5. BooksTyped' /\ SignersTyped'
      BY <1>2, <2>1, <2>2, <2>3, PostKeeps DEF ReserveInv, BooksTyped, SignersTyped
    <2> QED  BY <2>4, <2>5 DEF ReserveInv
  <1> QED  BY <1>1, <1>3, <1>4, <1>5

-------------------------------------------------------------------------------
(* The steps of the jobs.                                                  *)

LEMMA BeginWorkKeeps ==
    ASSUME ReserveInv, NEW r \in Requests, NEW j \in Jobs, BeginTransition(r, j) \/ BeginPay(r, j)
    PROVE  ReserveInv'
  <1>1. job[j] \in JobRows
    BY DEF ReserveInv, BooksTyped
  <1>2. CASE BeginTransition(r, j)
    <2> DEFINE q(status, payout) ==
                   [op |-> "transition", job |-> j, read |-> job[j], status |-> status, payout |-> payout]
    <2>0. PICK status \in Allowed(job[j].status) :
              \E payout \in Worth(j, status) : Begins(r, q(status, payout))
      BY <1>2 DEF BeginTransition
    <2>1. PICK payout \in Worth(j, status) : Begins(r, q(status, payout))
      BY <2>0
    <2>2. status \in Statuses \ {"none"} /\ job[j].status # "none"
      BY AllowedStatuses
    <2>3. payout \in 0..job[j].max
      BY <1>1 DEF Worth, JobRows, Postings
    <2>4. Sound(q(status, payout), job, signed)
      BY <1>1, <2>2, <2>3 DEF Sound
    <2> QED  BY <2>1, <2>4, BeginGoes
  <1>3. CASE BeginPay(r, j)
    <2>1. job[j].status = "accepted" /\ ~job[j].paid
      BY <1>3 DEF BeginPay, Payable
    <2>2. Sound([op |-> "pay", job |-> j, read |-> job[j]], job, signed)
      BY <1>1, <2>1 DEF Sound
    <2> QED  BY <1>3, <2>2, BeginGoes DEF BeginPay
  <1> QED  BY <1>2, <1>3

LEMMA FinishTransitionKeeps ==
    ASSUME ReserveInv, NEW r \in Requests, FinishTransition(r)
    PROVE  ReserveInv'
  <1> DEFINE j == flight[r].job
             x == [job[j] EXCEPT !.status = flight[r].status, !.payout = flight[r].payout]
             row == [Row EXCEPT !.pending = Floored(@ - job[j].max)]
  <1>1. /\ flight' = [flight EXCEPT ![r] = NoRequest]
        /\ UNCHANGED << account, payments, balance, accrued, month, governance, signed >>
    BY DEF FinishTransition, Answers, signVars
  <1>2. Sound(flight[r], job, signed) /\ flight[r].op = "transition"
    BY DEF ReserveInv, RequestsTyped, FinishTransition, Answers
  <1>3. /\ j \in Jobs /\ job[j] \in JobRows /\ job[j].status # "none"
        /\ flight[r].status \in Statuses \ {"none"} /\ flight[r].payout \in 0..job[j].max
    BY <1>2, AllowedStatuses DEF Sound, ReserveInv, BooksTyped
  <1>4. x \in JobRows /\ x.status # "none" /\ x.max = job[j].max /\ x.paid = job[j].paid
    <2>0. job[j] \in Postings /\ flight[r].payout \in Nat /\ flight[r].status \in Statuses
      BY <1>3 DEF JobRows, Postings
    <2>1. x \in Postings /\ x.status = flight[r].status /\ x.payout = flight[r].payout
      BY <2>0 DEF Postings
    <2>2. x.max = job[j].max /\ x.paid = job[j].paid
      BY <1>3 DEF JobRows, Postings
    <2> HIDE DEF x
    <2> QED  BY <1>3, <2>1, <2>2 DEF JobRows
  <1>5. job' = [job EXCEPT ![j] = x]
    BY DEF FinishTransition
  <1>6. row \in Epochs
    <2>1. Row.pending - job[j].max \in Int
      BY <1>3, RowIsEpoch DEF Epochs, JobRows, Postings
    <2> QED  BY <2>1, FlooredIsNat, RowIsEpoch DEF Epochs
  <1>7. WriteRow(row) \/ UNCHANGED << reserve, latest >>
    BY DEF FinishTransition
  <1> HIDE DEF row
  <1>8. reserve' \in [Months -> Epochs] /\ latest' \in Months
    BY <1>6, <1>7, RowWritten DEF ReserveInv, BooksTyped
  <1> HIDE DEF x, j
  <1>9. job' \in [Jobs -> JobRows] /\ JobsKept(job, job')
    BY <1>3, <1>4, <1>5 DEF ReserveInv, BooksTyped, JobsKept
  <1>10. \A i \in Jobs : job'[i].paid <=> payments'[i] > 0
    BY <1>1, <1>3, <1>4, <1>5 DEF ReserveInv, BooksTyped
  <1>11. RequestsTyped'
    BY <1>1, <1>9, AnswerGoes DEF ReserveInv, SignersTyped
  <1>12. BooksTyped' /\ SignersTyped'
    BY <1>1, <1>8, <1>9, <1>10 DEF ReserveInv, BooksTyped, SignersTyped
  <1> QED  BY <1>11, <1>12 DEF ReserveInv

LEMMA FinishPayKeeps ==
    ASSUME ReserveInv, NEW r \in Requests, FinishPay(r)
    PROVE  ReserveInv'
  <1> DEFINE j == flight[r].job
             amount == flight[r].read.payout
             x == [job[j] EXCEPT !.status = "paid", !.paid = TRUE]
             row == [Row EXCEPT !.paid = @ + amount, !.pending = Floored(@ - amount)]
  <1>1. /\ flight' = [flight EXCEPT ![r] = NoRequest]
        /\ UNCHANGED << account, accrued, month, governance, signed >>
    BY DEF FinishPay, Answers, signVars, reserveVars
  <1>2. Sound(flight[r], job, signed) /\ flight[r].op = "pay"
    BY DEF ReserveInv, RequestsTyped, FinishPay, Answers
  <1>3. j \in Jobs /\ job[j] \in JobRows /\ job[j].status # "none" /\ amount \in Nat
    BY <1>2 DEF Sound, ReserveInv, BooksTyped, JobRows, Postings
  <1>4. CASE Row.paid + amount <= MaxPaid /\ amount <= balance
    <2>1. balance' = balance - amount /\ payments' = [payments EXCEPT ![j] = @ + 1]
      BY <1>4 DEF FinishPay
    <2>2. job' = [job EXCEPT ![j] = x] /\ WriteRow(row)
      BY <1>4 DEF FinishPay
    <2>3. x \in JobRows /\ x.status # "none" /\ x.max = job[j].max /\ x.paid = TRUE
      BY <1>3 DEF JobRows, Postings, Statuses
    <2>4. row \in Epochs
      <3>1. Row.pending - amount \in Int /\ Row.paid + amount \in Nat
        BY <1>3, RowIsEpoch DEF Epochs
      <3>2. Floored(Row.pending - amount) \in Nat
        BY <3>1, FlooredIsNat
      <3> HIDE DEF amount
      <3> QED  BY <3>1, <3>2, RowIsEpoch DEF Epochs
    <2>5. balance' \in Nat
      BY <1>3, <1>4, <2>1 DEF ReserveInv, BooksTyped
    <2> HIDE DEF row, x, amount, j
    <2>6. reserve' \in [Months -> Epochs] /\ latest' \in Months
      BY <2>2, <2>4, RowWritten
    <2>7. job' \in [Jobs -> JobRows] /\ JobsKept(job, job')
      BY <1>3, <2>2, <2>3 DEF ReserveInv, BooksTyped, JobsKept
    <2>8. payments' \in [Jobs -> Nat] /\ \A i \in Jobs : job'[i].paid <=> payments'[i] > 0
      BY <1>3, <2>1, <2>2, <2>3 DEF ReserveInv, BooksTyped
    <2>9. RequestsTyped'
      BY <1>1, <2>7, AnswerGoes DEF ReserveInv, SignersTyped
    <2>10. BooksTyped' /\ SignersTyped'
      BY <1>1, <2>5, <2>6, <2>7, <2>8 DEF ReserveInv, BooksTyped, SignersTyped
    <2> QED  BY <2>9, <2>10 DEF ReserveInv
  <1>5. CASE UNCHANGED << jobVars, reserveVars >>
    <2>1. UNCHANGED << job, payments, reserve, latest, balance >>
      BY <1>5 DEF jobVars, reserveVars
    <2>2. RequestsTyped'
      BY <1>1, <2>1, AnswerGoes DEF JobsKept, ReserveInv, SignersTyped
    <2> QED  BY <1>1, <2>1, <2>2 DEF ReserveInv, BooksTyped, SignersTyped
  <1> QED  BY <1>4, <1>5 DEF FinishPay

LEMMA WorkKeeps ==
    ASSUME ReserveInv, WorkNext
    PROVE  ReserveInv'
  <1>1. PICK r \in Requests :
            \/ \E j \in Jobs : BeginTransition(r, j) \/ BeginPay(r, j)
            \/ FinishTransition(r) \/ FinishPay(r)
    BY DEF WorkNext
  <1> QED  BY <1>1, BeginWorkKeeps, FinishTransitionKeeps, FinishPayKeeps

-------------------------------------------------------------------------------
(* The steps of the chain.                                                 *)

LEMMA BlocksKeep ==
    ASSUME ReserveInv, BlocksNext
    PROVE  ReserveInv'
  <1>1. UNCHANGED << account, job, payments, governance, signed, flight >>
    BY DEF BlocksNext, AccrueBlock, ReorgAccruals, NextMonth, ReadReserve, jobVars, signVars
  <1>2. RequestsTyped'
    BY <1>1, RequestsWait DEF JobsKept, ReserveInv, SignersTyped
  <1>3. /\ reserve' \in [Months -> Epochs] /\ latest' \in Months /\ month' \in Months
        /\ balance' \in Nat /\ accrued' \in Nat
    <2>1. CASE AccrueBlock
      <3> DEFINE row == [Row EXCEPT !.reserved = @ + 1]
      <3>1. row \in Epochs
        BY RowIsEpoch DEF Epochs
      <3>2. WriteRow(row)
        BY <2>1 DEF AccrueBlock
      <3> HIDE DEF row
      <3> QED  BY <2>1, <3>1, <3>2, RowWritten DEF AccrueBlock, ReserveInv, BooksTyped
    <2>2. CASE ReorgAccruals
      <3> DEFINE below == [reserve EXCEPT ![latest].reserved = Floored(@ - 1)]
      <3>1. reserve[latest].reserved - 1 \in Int
        BY DEF ReserveInv, BooksTyped, Epochs
      <3>2. [reserve[latest] EXCEPT !.reserved = Floored(@ - 1)] \in Epochs
        BY <3>1, FlooredIsNat DEF ReserveInv, BooksTyped, Epochs
      <3>3. below \in [Months -> Epochs]
        BY <3>2 DEF ReserveInv, BooksTyped
      <3>4. reserve' = [below EXCEPT ![month].open = TRUE, ![month].reserved = @ + 2]
        BY <2>2 DEF ReorgAccruals
      <3> HIDE DEF below
      <3>5. [below[month] EXCEPT !.open = TRUE, !.reserved = @ + 2] \in Epochs
        <4>1. below[month] \in Epochs
          BY <3>3 DEF ReserveInv, BooksTyped
        <4>2. below[month].reserved + 2 \in Nat
          BY <4>1 DEF Epochs
        <4> QED  BY <4>1, <4>2 DEF Epochs
      <3>6. reserve' \in [Months -> Epochs]
        BY <3>3, <3>4, <3>5 DEF ReserveInv, BooksTyped, Epochs
      <3> QED  BY <2>2, <3>6 DEF ReorgAccruals, ReserveInv, BooksTyped
    <2>3. CASE NextMonth
      BY <2>3 DEF NextMonth, reserveVars, ReserveInv, BooksTyped
    <2>4. CASE \E m \in Months : ReadReserve(m)
      BY <2>4, ZenonT(60) DEF ReadReserve, ReserveInv, BooksTyped, Epochs
    <2> QED  BY <2>1, <2>2, <2>3, <2>4 DEF BlocksNext
  <1> QED  BY <1>1, <1>2, <1>3 DEF ReserveInv, BooksTyped, SignersTyped

-------------------------------------------------------------------------------
(* The steps of the signers.                                               *)

LEMMA FinishSignKeeps ==
    ASSUME ReserveInv, NEW r \in Requests, FinishPropose(r) \/ FinishApprove(r)
    PROVE  ReserveInv'
  <1> DEFINE s == flight[r].signer
             approvals == SignedBy(flight[r].approvals, s)
  <1>1. /\ flight' = [flight EXCEPT ![r] = NoRequest] /\ signed' = signed \cup {s}
        /\ UNCHANGED << account, job, payments, reserve, latest, balance, accrued, month >>
    BY DEF FinishPropose, FinishApprove, Answers, jobVars, reserveVars
  <1>2. Sound(flight[r], job, signed) /\ flight[r].op \in {"propose", "approve"}
    BY DEF ReserveInv, RequestsTyped, FinishPropose, FinishApprove, Answers
  <1>3. flight[r].approvals \in Signatures(signed)
    BY <1>2 DEF Sound
  <1>4. approvals \in Signatures(signed')
    BY <1>1, <1>3, SignedByOne
  <1>5. IsFiniteSet(signed')
    BY <1>1, FS_AddElement DEF ReserveInv, SignersTyped
  <1>6. governance' \in {[governance EXCEPT !.approvals = approvals],
                         [governance EXCEPT !.status = "pending", !.timelock = "running",
                                            !.approvals = approvals]}
    BY DEF FinishPropose, FinishApprove
  <1> HIDE DEF approvals, s
  <1>7. governance' \in Councils(signed')
    BY <1>4, <1>6 DEF ReserveInv, SignersTyped, Councils
  <1>8. governance'.status = "active" \/ governance'.activated =>
            governance.status = "active" \/ governance.activated
    BY <1>6 DEF ReserveInv, SignersTyped, Councils
  <1>9. SignersTyped'
    BY <1>1, <1>5, <1>7, <1>8, EnoughGrows DEF ReserveInv, SignersTyped
  <1>10. RequestsTyped'
    BY <1>1, <1>5, AnswerGoes DEF JobsKept
  <1> QED  BY <1>1, <1>9, <1>10 DEF ReserveInv, BooksTyped

LEMMA FinishSwitchKeeps ==
    ASSUME ReserveInv, NEW r \in Requests, FinishExecute(r) \/ FinishUnpause(r)
    PROVE  ReserveInv'
  <1>1. /\ flight' = [flight EXCEPT ![r] = NoRequest]
        /\ UNCHANGED << account, job, payments, reserve, latest, balance, accrued, month, signed >>
    BY DEF FinishExecute, FinishUnpause, Answers, jobVars, reserveVars
  <1>2. Sound(flight[r], job, signed) /\ IsFiniteSet(signed)
    BY DEF ReserveInv, RequestsTyped, SignersTyped
  <1>3. governance' \in Councils(signed') /\ (governance'.status = "active" \/ governance'.activated =>
            Enough(signed'))
    <2>1. CASE FinishExecute(r)
      BY <1>1, <1>2, <2>1 DEF FinishExecute, Answers, Sound, ReserveInv, SignersTyped, Councils
    <2>2. CASE FinishUnpause(r)
      BY <1>1, <1>2, <2>2 DEF FinishUnpause, Answers, Sound, ReserveInv, SignersTyped, Councils
    <2> QED  BY <2>1, <2>2
  <1>4. SignersTyped'
    BY <1>1, <1>2, <1>3 DEF SignersTyped
  <1>5. RequestsTyped'
    BY <1>1, <1>2, AnswerGoes DEF JobsKept
  <1> QED  BY <1>1, <1>4, <1>5 DEF ReserveInv, BooksTyped

LEMMA BeginSignKeeps ==
    ASSUME ReserveInv, NEW r \in Requests, NEW s \in Signers,
           BeginPropose(r, s) \/ BeginApprove(r, s)
    PROVE  ReserveInv'
  <1>1. governance.approvals \in Signatures(signed)
    BY DEF ReserveInv, SignersTyped, Councils
  <1>2. /\ Sound([op |-> "propose", signer |-> s, approvals |-> governance.approvals], job, signed)
        /\ Sound([op |-> "approve", signer |-> s, approvals |-> governance.approvals], job, signed)
    BY <1>1 DEF Sound
  <1> QED  BY <1>2, BeginGoes DEF BeginPropose, BeginApprove

LEMMA BeginSwitchKeeps ==
    ASSUME ReserveInv, NEW r \in Requests, BeginExecute(r) \/ BeginUnpause(r)
    PROVE  ReserveInv'
  <1>1. IsFiniteSet(signed) /\ governance.approvals \in Signatures(signed)
    BY DEF ReserveInv, SignersTyped, Councils
  <1>2. CASE BeginExecute(r)
    <2>1. Enough(signed)
      BY <1>1, <1>2, SignaturesCount DEF BeginExecute
    <2>2. Sound([op |-> "execute"], job, signed)
      BY <2>1 DEF Sound
    <2> QED  BY <1>2, <2>2, BeginGoes DEF BeginExecute
  <1>3. CASE BeginUnpause(r)
    <2>1. Sound([op |-> "unpause", activated |-> governance.activated], job, signed)
      BY DEF Sound, ReserveInv, SignersTyped
    <2> QED  BY <1>3, <2>1, BeginGoes DEF BeginUnpause
  <1> QED  BY <1>2, <1>3

LEMMA SignersKeep ==
    ASSUME ReserveInv, SignersNext
    PROVE  ReserveInv'
  <1>1. CASE TimelockEnds \/ PauseReserve
    <2>1. UNCHANGED << account, job, payments, reserve, latest, balance, accrued, month, signed, flight >>
      BY <1>1 DEF TimelockEnds, PauseReserve, jobVars, reserveVars
    <2>2. SignersTyped'
      BY <1>1, <2>1 DEF TimelockEnds, PauseReserve, ReserveInv, SignersTyped, Councils
    <2>3. RequestsTyped'
      BY <2>1, RequestsWait DEF JobsKept, ReserveInv, SignersTyped
    <2> QED  BY <2>1, <2>2, <2>3 DEF ReserveInv, BooksTyped
  <1>2. CASE \E r \in Requests :
                \/ \E s \in Signers : BeginPropose(r, s) \/ BeginApprove(r, s)
                \/ FinishPropose(r) \/ FinishApprove(r)
                \/ BeginExecute(r) \/ FinishExecute(r) \/ BeginUnpause(r) \/ FinishUnpause(r)
    BY <1>2, FinishSignKeeps, FinishSwitchKeeps, BeginSignKeeps, BeginSwitchKeeps
  <1> QED  BY <1>1, <1>2 DEF SignersNext

-------------------------------------------------------------------------------
LEMMA NextInv == ReserveInv /\ [ScienceNext]_scienceVars => ReserveInv'
  <1> SUFFICES ASSUME ReserveInv, [ScienceNext]_scienceVars  PROVE ReserveInv'
    OBVIOUS
  <1>1. CASE UNCHANGED scienceVars
    BY <1>1 DEF scienceVars, jobVars, reserveVars, signVars,
                ReserveInv, BooksTyped, SignersTyped, RequestsTyped
  <1>2. CASE ScienceNext
    BY <1>2, AccountsKeep, PostingKeeps, WorkKeeps, BlocksKeep, SignersKeep DEF ScienceNext
  <1> QED  BY <1>1, <1>2

LEMMA InvTypes == ReserveInv => ScienceTypeOK
  BY DEF ReserveInv, BooksTyped, SignersTyped, Councils, AccountRows, JobRows, Postings, Epochs,
         Statuses, ScienceTypeOK

(* Every value of the science layer is one the code knows: no amount of the *)
(* reserve or of its account is ever below zero, no job is worth more than *)
(* its reward, and one is marked paid exactly when a worker was paid for it. *)
THEOREM ScienceTyped == ScienceSpec => []ScienceTypeOK
  <1>1. ScienceInit => ReserveInv
    BY InitInv
  <1>2. ReserveInv /\ [ScienceNext]_scienceVars => ReserveInv'
    BY NextInv
  <1>3. ReserveInv => ScienceTypeOK
    BY InvTypes
  <1> QED  BY <1>1, <1>2, <1>3, PTL DEF ScienceSpec

(* Only a pay request pays, and the job that it has read was not paid.     *)
LEMMA PaymentIsFirst ==
    ASSUME ReserveInv, ScienceNext, NEW j \in Jobs, payments'[j] # payments[j]
    PROVE  payments[j] = 0 \/ \E r \in Requests : Overtaken(r) /\ flight[r].job = j
  <1>1. AccountsNext \/ BlocksNext \/ SignersNext => UNCHANGED payments
    BY DEF AccountsNext, BeginStake, FinishStake, BeginUnstake, FinishUnstake, Begins, jobVars,
           BlocksNext, AccrueBlock, ReorgAccruals, NextMonth, ReadReserve,
           SignersNext, BeginPropose, BeginApprove, FinishPropose, FinishApprove,
           BeginExecute, FinishExecute, BeginUnpause, FinishUnpause, TimelockEnds, PauseReserve
  <1>2. PostingNext => UNCHANGED payments
    BY DEF PostingNext, BeginCreate, FinishCreate, CreateAfterReset, Post, Begins, jobVars
  <1>3. PICK r \in Requests :
            \/ \E i \in Jobs : BeginTransition(r, i) \/ BeginPay(r, i)
            \/ FinishTransition(r) \/ FinishPay(r)
    BY <1>1, <1>2 DEF ScienceNext, WorkNext
  <1>4. FinishPay(r)
    BY <1>3 DEF BeginTransition, BeginPay, FinishTransition, Begins, jobVars
  <1>5. Sound(flight[r], job, signed) /\ flight[r].op = "pay" /\ flight'[r] = NoRequest
    BY <1>4 DEF ReserveInv, RequestsTyped, FinishPay, Answers
  <1>6. flight[r].job = j
    BY <1>4 DEF FinishPay, jobVars, ReserveInv, BooksTyped
  <1>7. job[j] = flight[r].read => payments[j] = 0
    BY <1>5, <1>6 DEF Sound, ReserveInv, BooksTyped
  <1> QED  BY <1>5, <1>6, <1>7 DEF Overtaken

(* Payouts are on only after Threshold signers signed, whatever proposals,  *)
(* approvals, activations and pauses cross; and a worker is paid once for a *)
(* job unless another request overtook the one that pays.                  *)
THEOREM PaymentsDue == ScienceSpec => PaymentsAreDue
  <1>1. ScienceInit => ReserveInv
    BY InitInv
  <1>2. ReserveInv /\ [ScienceNext]_scienceVars => ReserveInv'
    BY NextInv
  <1>3. ReserveInv /\ ReserveInv' /\ [ScienceNext]_scienceVars =>
            [ /\ governance'.status = "active" => Cardinality(signed') >= Threshold
              /\ \A j \in Jobs : payments'[j] # payments[j] =>
                    payments[j] = 0 \/ \E r \in Requests : Overtaken(r) /\ flight[r].job = j ]_scienceVars
    BY PaymentIsFirst DEF ReserveInv, SignersTyped, Enough
  <1> QED  BY <1>1, <1>2, <1>3, PTL DEF ScienceSpec, PaymentsAreDue

-------------------------------------------------------------------------------
(* The reserve covers the jobs.                                            *)

(* No row is written before its month.                                     *)
FutureEmpty ==
    \A m \in Months : m > month =>
        reserve[m].reserved = 0 /\ reserve[m].paid = 0 /\ reserve[m].pending = 0

WrittenNow == \A m \in Months : m # month => reserve'[m] = reserve[m]

LEMMA RowWrittenNow == \A row : ReserveInv /\ WriteRow(row) => WrittenNow
  BY DEF WriteRow, WrittenNow, ReserveInv, BooksTyped

LEMMA FutureStays ==
    ASSUME ReserveInv, FutureEmpty, ScienceNext
    PROVE  FutureEmpty'
  <1>0. month \in Nat /\ Months \subseteq Nat
    BY ScienceAssumption DEF ReserveInv, BooksTyped
  <1>1. WrittenNow /\ UNCHANGED month => FutureEmpty'
    BY <1>0 DEF WrittenNow, FutureEmpty
  <1>2. UNCHANGED reserve => WrittenNow
    BY DEF WrittenNow
  <1>3. CASE AccountsNext
    BY <1>1, <1>2, <1>3 DEF AccountsNext, BeginStake, FinishStake, BeginUnstake, FinishUnstake,
                            Begins, Answers, reserveVars
  <1>4. CASE PostingNext
    <2>1. UNCHANGED month
      BY <1>4 DEF PostingNext, BeginCreate, FinishCreate, CreateAfterReset, Begins, Answers
    <2>2. (\E j \in Unused, max \in Int : Post(j, max)) => WrittenNow
      BY <1>2, RowWrittenNow DEF Post
    <2>3. PICK max \in Rewards, r \in Requests :
              BeginCreate(r, max) \/ FinishCreate(r) \/ CreateAfterReset(max)
      BY <1>4 DEF PostingNext
    <2>4. CASE FinishCreate(r)
      <3>1. flight[r].max \in Int
        BY <2>4 DEF FinishCreate, Answers, ReserveInv, RequestsTyped, Sound
      <3> QED  BY <1>1, <1>2, <2>1, <2>2, <2>4, <3>1 DEF FinishCreate, reserveVars
    <2>5. CASE CreateAfterReset(max)
      <3>1. max \in Int
        BY ScienceAssumption
      <3> QED  BY <1>1, <2>1, <2>2, <2>5, <3>1 DEF CreateAfterReset
    <2> QED  BY <1>1, <1>2, <2>1, <2>3, <2>4, <2>5 DEF BeginCreate, Begins, reserveVars
  <1>5. CASE WorkNext
    <2>1. UNCHANGED month
      BY <1>5 DEF WorkNext, BeginTransition, BeginPay, FinishTransition, FinishPay, Begins, Answers
    <2>2. PICK r \in Requests :
              \/ \E j \in Jobs : BeginTransition(r, j) \/ BeginPay(r, j)
              \/ FinishTransition(r) \/ FinishPay(r)
      BY <1>5 DEF WorkNext
    <2>3. FinishTransition(r) => WrittenNow
      BY <1>2, RowWrittenNow DEF FinishTransition
    <2>4. FinishPay(r) => WrittenNow
      BY <1>2, RowWrittenNow DEF FinishPay, reserveVars
    <2> QED  BY <1>1, <1>2, <2>1, <2>2, <2>3, <2>4 DEF BeginTransition, BeginPay, Begins, reserveVars
  <1>6. CASE BlocksNext
    <2>1. CASE AccrueBlock
      BY <1>1, <2>1, RowWrittenNow DEF AccrueBlock
    <2>2. CASE ReorgAccruals
      <3> DEFINE below == [reserve EXCEPT ![latest].reserved = Floored(@ - 1)]
      <3>1. \A m \in Months : m # month => reserve'[m] = below[m]
        BY <2>2 DEF ReorgAccruals, ReserveInv, BooksTyped
      <3>2. ASSUME NEW m \in Months, m > month
            PROVE  below[m].reserved = 0 /\ below[m].paid = 0 /\ below[m].pending = 0
        <4>1. reserve \in [Months -> Epochs] /\ latest \in Months
          BY DEF ReserveInv, BooksTyped
        <4>2. reserve[m].reserved = 0 /\ reserve[m].paid = 0 /\ reserve[m].pending = 0
          BY <3>2 DEF FutureEmpty
        <4>3. Floored(reserve[m].reserved - 1) = 0
          BY <4>2 DEF Floored
        <4> QED  BY <4>1, <4>2, <4>3 DEF Epochs
      <3> HIDE DEF below
      <3>3. UNCHANGED month
        BY <2>2 DEF ReorgAccruals
      <3>4. ASSUME NEW m \in Months, m > month'
            PROVE  reserve'[m].reserved = 0 /\ reserve'[m].paid = 0 /\ reserve'[m].pending = 0
        <4>1. m > month /\ m # month
          BY <1>0, <3>3, <3>4
        <4> QED  BY <3>1, <3>2, <4>1
      <3> QED  BY <3>4 DEF FutureEmpty
    <2>3. CASE NextMonth
      BY <1>0, <2>3 DEF NextMonth, reserveVars, FutureEmpty
    <2>4. CASE \E m \in Months : ReadReserve(m)
      BY <2>4 DEF ReadReserve, FutureEmpty, ReserveInv, BooksTyped, Epochs
    <2> QED  BY <1>6, <2>1, <2>2, <2>3, <2>4 DEF BlocksNext
  <1>7. CASE SignersNext
    BY <1>1, <1>2, <1>7 DEF SignersNext, BeginPropose, BeginApprove, FinishPropose, FinishApprove,
           BeginExecute, FinishExecute, BeginUnpause, FinishUnpause, TimelockEnds, PauseReserve,
           Begins, Answers, reserveVars
  <1> QED  BY <1>3, <1>4, <1>5, <1>6, <1>7 DEF ScienceNext

(* What is promised changes with the one job that does.                    *)
MaxOf(rows) == [j \in Jobs |-> rows[j].max]
OpenIn(rows) == { j \in Jobs : rows[j].status \in Unpaid /\ ~rows[j].paid }
PromisedIn(rows) == Sum(MaxOf(rows), OpenIn(rows))
ClaimOf(rows, j) == IF j \in OpenIn(rows) THEN rows[j].max ELSE 0

LEMMA PromisedIsSum == Promised = PromisedIn(job)
  BY DEF Promised, PromisedIn, MaxOf, OpenIn, Active, Sum

LEMMA ClaimsAdd ==
    ASSUME NEW rows \in [Jobs -> JobRows], NEW j \in Jobs
    PROVE  /\ PromisedIn(rows) = ClaimOf(rows, j) + Sum(MaxOf(rows), OpenIn(rows) \ {j})
           /\ Sum(MaxOf(rows), OpenIn(rows) \ {j}) \in Int
           /\ ClaimOf(rows, j) \in Nat /\ PromisedIn(rows) \in Nat
  <1>1. \A i \in Jobs : MaxOf(rows)[i] = rows[i].max /\ rows[i].max \in Nat
    BY DEF MaxOf, JobRows, Postings
  <1>2. IsFiniteSet(OpenIn(rows)) /\ OpenIn(rows) \subseteq Jobs
    BY ScienceAssumption, FS_Subset DEF OpenIn
  <1>3. Terms(MaxOf(rows), OpenIn(rows)) /\ Terms(MaxOf(rows), OpenIn(rows) \ {j})
    BY <1>1, <1>2, PartOfTerms DEF Terms
  <1>4. PromisedIn(rows) \in Nat
    BY <1>1, <1>2, SumIsNat DEF PromisedIn
  <1>5. Sum(MaxOf(rows), OpenIn(rows) \ {j}) \in Int
    BY <1>3, SumIsInt
  <1>6. CASE j \in OpenIn(rows)
    BY <1>1, <1>3, <1>4, <1>5, <1>6, SumWithout DEF PromisedIn, ClaimOf
  <1>7. CASE j \notin OpenIn(rows)
    <2>1. OpenIn(rows) \ {j} = OpenIn(rows)
      BY <1>7
    <2> QED  BY <1>4, <1>5, <1>7, <2>1 DEF PromisedIn, ClaimOf
  <1> QED  BY <1>4, <1>5, <1>6, <1>7

LEMMA PromiseChanges ==
    ASSUME NEW rows \in [Jobs -> JobRows], NEW next \in [Jobs -> JobRows], NEW j \in Jobs,
           \A i \in Jobs : i # j => next[i] = rows[i]
    PROVE  /\ PromisedIn(next) = PromisedIn(rows) - ClaimOf(rows, j) + ClaimOf(next, j)
           /\ PromisedIn(rows) \in Nat /\ ClaimOf(rows, j) \in Nat /\ ClaimOf(next, j) \in Nat
  <1> DEFINE others == OpenIn(rows) \ {j}
  <1>1. others = OpenIn(next) \ {j}
    BY DEF OpenIn
  <1>2. Terms(MaxOf(rows), others)
    <2>1. IsFiniteSet(others) /\ others \subseteq Jobs
      BY ScienceAssumption, FS_Subset DEF OpenIn
    <2> QED  BY <2>1 DEF Terms, MaxOf, JobRows, Postings
  <1>3. \A i \in others : MaxOf(rows)[i] = MaxOf(next)[i]
    BY DEF MaxOf, OpenIn
  <1> HIDE DEF others
  <1>4. Sum(MaxOf(rows), others) = Sum(MaxOf(next), others)
    BY <1>2, <1>3, SumSame
  <1>5. PromisedIn(rows) = ClaimOf(rows, j) + Sum(MaxOf(rows), others)
    BY ClaimsAdd DEF others
  <1>6. PromisedIn(next) = ClaimOf(next, j) + Sum(MaxOf(next), others)
    BY <1>1, ClaimsAdd
  <1>7. /\ Sum(MaxOf(rows), others) \in Int
        /\ PromisedIn(rows) \in Nat /\ ClaimOf(rows, j) \in Nat /\ ClaimOf(next, j) \in Nat
    BY ClaimsAdd DEF others
  <1> QED  BY <1>4, <1>5, <1>6, <1>7

Spare == Floored(Available(Row))

LEMMA CoveredBySpare ==
    /\ Covered <=> Spare + PromisedIn(job) <= balance
    /\ Covered' <=> Spare' + PromisedIn(job') <= balance'
  <1>1. Promised' = PromisedIn(job')
    BY DEF Promised, PromisedIn, MaxOf, OpenIn, Active, Sum
  <1> QED  BY <1>1, PromisedIsSum DEF Covered, Spare

LEMMA SpareStays ==
    ASSUME ReserveInv, Covered, UNCHANGED << job, balance, month >>,
           /\ reserve'[month].reserved = reserve[month].reserved
           /\ reserve'[month].paid = reserve[month].paid
           /\ reserve'[month].pending = reserve[month].pending
    PROVE  Covered'
  <1>1. Spare' = Spare
    BY DEF Spare, Available, Row
  <1> QED  BY <1>1, CoveredBySpare

LEMMA PostCovers ==
    ASSUME ReserveInv, Covered, NEW j \in Unused, NEW max \in Nat, Post(j, max), UNCHANGED month
    PROVE  Covered'
  <1>1. /\ job \in [Jobs -> JobRows] /\ job' \in [Jobs -> JobRows] /\ UNCHANGED balance
        /\ j \in Jobs /\ j \notin OpenIn(job)
    BY PostKeeps, PathStatuses DEF ReserveInv, BooksTyped, Unused, NoJob, OpenIn
  <1>2. job'[j].max = max /\ \A i \in Jobs : i # j => job'[i] = job[i]
    BY <1>1 DEF Post, NoJob
  <1>3. ClaimOf(job, j) = 0 /\ ClaimOf(job', j) \in {0, max}
    BY <1>1, <1>2 DEF ClaimOf
  <1>4. PromisedIn(job') <= PromisedIn(job) + max /\ PromisedIn(job) \in Nat /\ PromisedIn(job') \in Nat
    BY <1>1, <1>2, <1>3, PromiseChanges, ClaimsAdd
  <1>5. month \in Months /\ balance \in Nat /\ Row \in Epochs
    BY RowIsEpoch DEF ReserveInv, BooksTyped
  <1>6. CASE max > 0
    <2>1. max <= Available(Row) /\ WriteRow([Row EXCEPT !.pending = @ + max])
      BY <1>6 DEF Post, Covers
    <2>2. /\ Row'.reserved = Row.reserved /\ Row'.paid = Row.paid
          /\ Row'.pending = Row.pending + max
      BY <1>5, <2>1 DEF WriteRow, Row, Epochs, ReserveInv, BooksTyped
    <2>3. Available(Row') = Available(Row) - max /\ Available(Row) \in Int
      BY <1>5, <2>2 DEF Available, Epochs
    <2>4. Spare' = Spare - max /\ Spare \in Int
      BY <2>1, <2>3 DEF Spare, Floored
    <2> QED  BY <1>1, <1>4, <1>5, <2>4, CoveredBySpare
  <1>7. CASE max = 0
    <2>1. Spare' = Spare /\ Spare \in Int
      BY <1>5, <1>7, FlooredIsNat DEF Post, Spare, Row, Available, Epochs
    <2> QED  BY <1>1, <1>4, <1>5, <1>7, <2>1, CoveredBySpare
  <1> QED  BY <1>6, <1>7

LEMMA TransitionCovers ==
    ASSUME ReserveInv, Covered, NEW r \in Requests, FinishTransition(r), ~Overtaken(r)
    PROVE  Covered'
  <1> DEFINE j == flight[r].job
             status == flight[r].status
             max == job[j].max
  <1>1. Sound(flight[r], job, signed) /\ flight[r].op = "transition" /\ flight'[r] = NoRequest
    BY DEF ReserveInv, RequestsTyped, FinishTransition, Answers
  <1>2. job[j] = flight[r].read /\ j \in Jobs
    BY <1>1 DEF Overtaken, Sound
  <1>3. job[j].status \in Unpaid /\ status \in Unpaid \cup {"ended"}
    <2>1. status \in Allowed(job[j].status)
      BY <1>1, <1>2 DEF Sound
    <2>2. PICK k \in 1..(Len(Path) - 1) : Path[k] = job[j].status /\ status \in {Path[k + 1], "ended"}
      BY <2>1 DEF Allowed
    <2>3. Len(Path) = 7 /\ DOMAIN Path = 1..7
      BY DEF Path
    <2> QED  BY <2>2, <2>3 DEF Unpaid, ToSet
  <1>4. /\ job \in [Jobs -> JobRows] /\ job' \in [Jobs -> JobRows]
        /\ month \in Months /\ balance \in Nat /\ Row \in Epochs
    BY RowIsEpoch, FinishTransitionKeeps DEF ReserveInv, BooksTyped
  <1>5. UNCHANGED << balance, month >>
    BY DEF FinishTransition, Answers
  <1>6. max \in Nat
    BY <1>2, <1>4 DEF JobRows, Postings
  <1>7. /\ job'[j].status = status /\ job'[j].paid = job[j].paid /\ job'[j].max = max
        /\ \A i \in Jobs : i # j => job'[i] = job[i]
    <2>1. job[j] \in Postings
      BY <1>2, <1>4 DEF JobRows
    <2> QED  BY <1>2, <1>4, <2>1 DEF FinishTransition, Postings
  <1>8. /\ PromisedIn(job') = PromisedIn(job) - ClaimOf(job, j) + ClaimOf(job', j)
        /\ PromisedIn(job) \in Nat /\ ClaimOf(job, j) \in Nat /\ ClaimOf(job', j) \in Nat
    BY <1>2, <1>4, <1>7, PromiseChanges
  <1>9. Spare \in Nat
    BY <1>4, FlooredIsNat DEF Spare, Available, Epochs
  <1> HIDE DEF j
  <1>10. CASE status = "ended" /\ max > 0 /\ ~job[j].paid
    <2>1. ClaimOf(job, j) = max /\ ClaimOf(job', j) = 0
      BY <1>2, <1>3, <1>7, <1>10, PathStatuses DEF ClaimOf, OpenIn
    <2>2. WriteRow([Row EXCEPT !.pending = Floored(@ - max)])
      BY <1>10 DEF FinishTransition, j
    <2> HIDE DEF max
    <2>3. /\ Row'.reserved = Row.reserved /\ Row'.paid = Row.paid
          /\ Row'.pending = Floored(Row.pending - max)
      BY <1>4, <1>5, <2>2 DEF WriteRow, Row, Epochs, ReserveInv, BooksTyped
    <2>4. Available(Row') <= Available(Row) + max /\ Available(Row) \in Int /\ Available(Row') \in Int
      BY <1>4, <1>6, <2>3 DEF Available, Epochs, Floored
    <2>5. Spare' <= Spare + max /\ Spare' \in Int
      BY <1>6, <2>4 DEF Spare, Floored
    <2> QED  BY <1>4, <1>5, <1>6, <1>8, <1>9, <2>1, <2>5, CoveredBySpare
  <1>11. CASE ~(status = "ended" /\ max > 0 /\ ~job[j].paid)
    <2>1. UNCHANGED reserve
      BY <1>11 DEF FinishTransition, j
    <2>2. Spare' = Spare
      BY <1>5, <2>1 DEF Spare, Available, Row
    <2>3. ClaimOf(job', j) <= ClaimOf(job, j)
      <3>1. CASE job[j].paid
        <4>1. ClaimOf(job, j) = 0 /\ ClaimOf(job', j) = 0
          BY <1>7, <3>1 DEF ClaimOf, OpenIn
        <4> QED  BY <4>1
      <3>2. CASE ~job[j].paid
        BY <1>2, <1>3, <1>6, <1>7, <3>2 DEF ClaimOf, OpenIn
      <3> QED  BY <3>1, <3>2
    <2> QED  BY <1>4, <1>5, <1>8, <1>9, <2>2, <2>3, CoveredBySpare
  <1> QED  BY <1>10, <1>11

LEMMA PayCovers ==
    ASSUME ReserveInv, Covered, NEW r \in Requests, FinishPay(r), ~Overtaken(r)
    PROVE  Covered'
  <1> DEFINE j == flight[r].job
             amount == flight[r].read.payout
  <1>1. Sound(flight[r], job, signed) /\ flight[r].op = "pay" /\ flight'[r] = NoRequest
    BY DEF ReserveInv, RequestsTyped, FinishPay, Answers
  <1>2. job[j] = flight[r].read /\ j \in Jobs
    BY <1>1 DEF Overtaken, Sound
  <1>3. job[j].status = "accepted" /\ ~job[j].paid /\ amount = job[j].payout
    BY <1>1, <1>2 DEF Sound
  <1>4. /\ job \in [Jobs -> JobRows] /\ job' \in [Jobs -> JobRows] /\ ReserveInv'
        /\ month \in Months /\ balance \in Nat /\ Row \in Epochs
    BY RowIsEpoch, FinishPayKeeps DEF ReserveInv, BooksTyped
  <1>5. UNCHANGED month
    BY DEF FinishPay, Answers
  <1>6. job[j] \in Postings /\ amount \in Nat /\ amount <= job[j].max /\ job[j].max \in Nat
    BY <1>2, <1>3, <1>4 DEF JobRows, Postings
  <1>7. Spare \in Nat
    BY <1>4, FlooredIsNat DEF Spare, Available, Epochs
  <1>8. CASE Row.paid + amount <= MaxPaid /\ amount <= balance
    <2>1. balance' = balance - amount
      BY <1>8 DEF FinishPay
    <2>2. job' = [job EXCEPT ![j].status = "paid", ![j].paid = TRUE]
      BY <1>8 DEF FinishPay
    <2>3. WriteRow([Row EXCEPT !.paid = @ + amount, !.pending = Floored(@ - amount)])
      BY <1>8 DEF FinishPay
    <2> HIDE DEF amount, j
    <2>4. job'[j].paid /\ \A i \in Jobs : i # j => job'[i] = job[i]
      BY <1>2, <1>4, <1>6, <2>2 DEF Postings
    <2>5. ClaimOf(job, j) = job[j].max /\ ClaimOf(job', j) = 0
      BY <1>2, <1>3, <2>4, PathStatuses DEF ClaimOf, OpenIn
    <2>6. PromisedIn(job') = PromisedIn(job) - job[j].max /\ PromisedIn(job) \in Nat
      BY <1>2, <1>4, <1>6, <2>4, <2>5, PromiseChanges
    <2>7. /\ Row'.reserved = Row.reserved /\ Row'.paid = Row.paid + amount
          /\ Row'.pending = Floored(Row.pending - amount)
      BY <1>4, <1>5, <2>3 DEF WriteRow, Row, Epochs, ReserveInv, BooksTyped
    <2>8. Available(Row') <= Available(Row) /\ Available(Row) \in Int /\ Available(Row') \in Int
      BY <1>4, <1>6, <2>7 DEF Available, Epochs, Floored
    <2>9. Spare' <= Spare /\ Spare' \in Int
      BY <2>8 DEF Spare, Floored
    <2> QED  BY <1>4, <1>6, <1>7, <2>1, <2>6, <2>9, CoveredBySpare
  <1>9. CASE UNCHANGED << jobVars, reserveVars >>
    BY <1>5, <1>9, SpareStays DEF jobVars, reserveVars
  <1> QED  BY <1>8, <1>9 DEF FinishPay

LEMMA BlocksCover ==
    ASSUME ReserveInv, FutureEmpty, Covered, BlocksNext
    PROVE  \/ Covered'
           \/ ReorgAccruals /\ ~ (latest = month /\ Row.reserved > 0)
  <1>1. month \in Months /\ balance \in Nat /\ Row \in Epochs /\ UNCHANGED job
    BY RowIsEpoch DEF ReserveInv, BooksTyped, BlocksNext, AccrueBlock, ReorgAccruals,
                      NextMonth, ReadReserve, jobVars
  <1>2. Spare \in Nat /\ PromisedIn(job) \in Nat
    <2>1. PromisedIn(job) \in Nat
      BY ScienceAssumption, FS_Subset, SumIsNat
         DEF ReserveInv, BooksTyped, JobRows, Postings, PromisedIn, OpenIn, MaxOf
    <2> QED  BY <1>1, <2>1, FlooredIsNat DEF Spare, Available, Epochs
  <1>3. ASSUME UNCHANGED month, balance' = balance + 1,
               /\ Row'.reserved = Row.reserved + 1
               /\ Row'.paid = Row.paid /\ Row'.pending = Row.pending
        PROVE  Covered'
    <2>1. Available(Row') = Available(Row) + 1 /\ Available(Row) \in Int
      BY <1>1, <1>3 DEF Available, Epochs
    <2>2. Spare' <= Spare + 1 /\ Spare' \in Int
      BY <2>1 DEF Spare, Floored
    <2> QED  BY <1>1, <1>2, <1>3, <2>2, CoveredBySpare
  <1>4. CASE AccrueBlock
    <2>1. WriteRow([Row EXCEPT !.reserved = @ + 1]) /\ UNCHANGED month /\ balance' = balance + 1
      BY <1>4 DEF AccrueBlock
    <2>2. /\ Row'.reserved = Row.reserved + 1
          /\ Row'.paid = Row.paid /\ Row'.pending = Row.pending
      BY <1>1, <2>1 DEF WriteRow, Row, Epochs, ReserveInv, BooksTyped
    <2> QED  BY <1>3, <2>1, <2>2
  <1>5. CASE ReorgAccruals /\ latest = month /\ Row.reserved > 0
    <2> DEFINE below == [reserve EXCEPT ![latest].reserved = Floored(@ - 1)]
    <2>1. /\ UNCHANGED month /\ balance' = balance + 1
          /\ reserve' = [below EXCEPT ![month].open = TRUE, ![month].reserved = @ + 2]
      BY <1>5 DEF ReorgAccruals
    <2>2. /\ below \in [Months -> Epochs]
          /\ below[month].reserved = Row.reserved - 1
          /\ below[month].paid = Row.paid /\ below[month].pending = Row.pending
      BY <1>1, <1>5 DEF Row, Epochs, Floored, ReserveInv, BooksTyped
    <2> HIDE DEF below
    <2>3. /\ Row'.reserved = Row.reserved + 1
          /\ Row'.paid = Row.paid /\ Row'.pending = Row.pending
      BY <1>1, <2>1, <2>2 DEF Row, Epochs
    <2> QED  BY <1>3, <2>1, <2>3
  <1>6. CASE NextMonth
    <2>0. month \in Nat
      BY <1>1, ScienceAssumption
    <2>1. month' \in Months /\ month' > month /\ UNCHANGED << reserve, balance >>
      BY <1>6, <2>0 DEF NextMonth, reserveVars
    <2>2. Row'.reserved = 0 /\ Row'.paid = 0 /\ Row'.pending = 0
      BY <2>1 DEF FutureEmpty, Row
    <2>3. Spare' = 0
      BY <2>2 DEF Spare, Available, Floored
    <2> QED  BY <1>1, <1>2, <2>1, <2>3, CoveredBySpare
  <1>7. CASE \E m \in Months : ReadReserve(m)
    <2>1. UNCHANGED << balance, month >>
      BY <1>7 DEF ReadReserve
    <2>2. /\ reserve'[month].reserved = reserve[month].reserved
          /\ reserve'[month].paid = reserve[month].paid
          /\ reserve'[month].pending = reserve[month].pending
      BY <1>1, <1>7 DEF ReadReserve, ReserveInv, BooksTyped, Epochs
    <2> QED  BY <1>1, <2>1, <2>2, SpareStays
  <1> QED  BY <1>4, <1>5, <1>6, <1>7 DEF BlocksNext

LEMMA StepsCover ==
    ASSUME ReserveInv, FutureEmpty, Covered, ScienceNext
    PROVE  \/ Covered'
           \/ \E r \in Requests : Overtaken(r)
           \/ ReorgAccruals /\ ~ (latest = month /\ Row.reserved > 0)
  <1>1. CASE AccountsNext \/ SignersNext
    <2>1. UNCHANGED << job, reserve, balance, month >>
      BY <1>1 DEF AccountsNext, BeginStake, FinishStake, BeginUnstake, FinishUnstake,
             SignersNext, BeginPropose, BeginApprove, FinishPropose, FinishApprove,
             BeginExecute, FinishExecute, BeginUnpause, FinishUnpause, TimelockEnds, PauseReserve,
             Begins, Answers, jobVars, reserveVars
    <2> QED  BY <2>1, SpareStays
  <1>2. CASE PostingNext
    <2>1. PICK max \in Rewards, r \in Requests :
              BeginCreate(r, max) \/ FinishCreate(r) \/ CreateAfterReset(max)
      BY <1>2 DEF PostingNext
    <2>2. CASE BeginCreate(r, max)
      BY <2>2, SpareStays DEF BeginCreate, Begins, jobVars, reserveVars
    <2>3. CASE FinishCreate(r)
      <3>1. flight[r].max \in Nat /\ UNCHANGED month
        BY <2>3 DEF FinishCreate, Answers, ReserveInv, RequestsTyped, Sound
      <3>2. CASE UNCHANGED << account, jobVars, reserveVars, signVars >>
        BY <3>1, <3>2, SpareStays DEF jobVars, reserveVars
      <3> QED  BY <2>3, <3>1, <3>2, PostCovers DEF FinishCreate
    <2>4. CASE CreateAfterReset(max)
      <3>1. max \in Nat
        BY ScienceAssumption
      <3> QED  BY <2>4, <3>1, PostCovers DEF CreateAfterReset
    <2> QED  BY <2>1, <2>2, <2>3, <2>4
  <1>3. CASE WorkNext
    <2>1. PICK r \in Requests :
              \/ \E j \in Jobs : BeginTransition(r, j) \/ BeginPay(r, j)
              \/ FinishTransition(r) \/ FinishPay(r)
      BY <1>3 DEF WorkNext
    <2>2. CASE \E j \in Jobs : BeginTransition(r, j) \/ BeginPay(r, j)
      BY <2>2, SpareStays DEF BeginTransition, BeginPay, Begins, jobVars, reserveVars
    <2> QED  BY <2>1, <2>2, TransitionCovers, PayCovers
  <1>4. CASE BlocksNext
    BY <1>4, BlocksCover
  <1> QED  BY <1>1, <1>2, <1>3, <1>4 DEF ScienceNext

(* The account of the reserve can pay every job that counts on it, whatever *)
(* is posted, ended and paid, in whatever month: only a request that was   *)
(* overtaken, or a reorg whose orphaned accrual is not taken from the row  *)
(* of the month, can lose that.                                            *)
THEOREM ReserveCoversJobs == ScienceSpec => JobsStayCovered
  <1>1. ScienceInit => ReserveInv /\ FutureEmpty
    BY InitInv DEF ScienceInit, ScienceFrom, NoRow, FutureEmpty
  <1>2. ReserveInv /\ FutureEmpty /\ [ScienceNext]_scienceVars => (ReserveInv /\ FutureEmpty)'
    BY NextInv, FutureStays DEF scienceVars, reserveVars, FutureEmpty
  <1>3. ReserveInv /\ FutureEmpty /\ [ScienceNext]_scienceVars =>
            [ Covered => \/ Covered'
                         \/ \E r \in Requests : Overtaken(r)
                         \/ ReorgAccruals /\ ~ (latest = month /\ Row.reserved > 0) ]_scienceVars
    BY StepsCover
  <1> QED  BY <1>1, <1>2, <1>3, PTL DEF ScienceSpec, JobsStayCovered

-------------------------------------------------------------------------------
(* The node: its books and its science reserve.                            *)

LEMMA ActivatedInv == ScienceActivated => ReserveInv
  <1> SUFFICES ASSUME ScienceActivated  PROVE ReserveInv
    OBVIOUS
  <1> DEFINE a == SetToSeq(Signers)
  <1>1. 1 \in Months /\ IsFiniteSet(Signers)
    BY ScienceAssumption
  <1>2. Staked \in AccountRows /\ NoRow \in Epochs
    BY <1>1 DEF Staked, AccountRows, NoRow, Epochs
  <1>3. NoJob \in JobRows /\ NoJob.paid = FALSE
    BY DEF NoJob, JobRows, Postings, Statuses
  <1>4. BooksTyped
    BY <1>1, <1>2, <1>3 DEF ScienceActivated, ScienceFrom, BooksTyped
  <1>5. a \in Signatures(Signers)
    <2>1. a \in Seq(Signers) /\ \A i, k \in 1..Len(a) : a[i] = a[k] => i = k
      BY <1>1, SetToSeqOf
    <2> HIDE DEF a
    <2> QED  BY <2>1 DEF Signatures
  <1>6. Activated = [status |-> "active", timelock |-> "over", approvals |-> a, activated |-> TRUE]
    BY DEF Activated
  <1> HIDE DEF a
  <1>7. Activated \in Councils(Signers)
    BY <1>5, <1>6 DEF Councils
  <1>8. Enough(Signers)
    BY DEF ScienceActivated, Enough
  <1>9. SignersTyped
    BY <1>1, <1>7, <1>8 DEF ScienceActivated, ScienceFrom, SignersTyped
  <1>10. \A r \in Requests : Sound(NoRequest, job, signed)
    BY DEF Sound, NoRequest
  <1>11. RequestsTyped
    BY <1>10 DEF ScienceActivated, ScienceFrom, RequestsTyped
  <1> QED  BY <1>4, <1>9, <1>11 DEF ReserveInv

(* Whatever blocks are mined, imported or taken back, whatever is unlocked  *)
(* and claimed, and whatever requests cross at the science reserve: no      *)
(* account is ever in debt, nor a row of the reserve, and every row has a   *)
(* status the code knows.  NodeTypeOK in every instance.                    *)
THEOREM NodeTyped == NodeSpec => []NodeTypeOK
  <1>1. NodeInit => Init /\ ReserveInv
    BY InitInv, ActivatedInv DEF NodeInit
  <1>2. [NodeNext]_<< vars, scienceVars >> => [Next]_vars /\ [ScienceNext]_scienceVars
    BY DEF NodeNext, OfBooks, OfScience
  <1>3. ReserveInv /\ [ScienceNext]_scienceVars => ReserveInv'
    BY NextInv
  <1>4. ReserveInv => ScienceTypeOK
    BY InvTypes
  <1>5. NodeSpec => []ScienceTypeOK
    BY <1>1, <1>2, <1>3, <1>4, PTL DEF NodeSpec
  <1>6. NodeSpec => Spec
    BY <1>1, <1>2, PTL DEF NodeSpec, Spec
  <1>7. NodeTypeOK <=> TypeOK /\ ScienceTypeOK
    BY DEF NodeTypeOK
  <1> QED  BY <1>5, <1>6, <1>7, ExecutionTypesHold, PTL
===============================================================================
